------------------------------- MODULE Scent -------------------------------
(***************************************************************************)
(* The scent laws of domain/scent: the stamp an agent leaves, how it merges *)
(* into the field, how the field decays, and what of it goes on the wire;   *)
(* and the two ways domain/belief/likelihood.py scores a cell against a     *)
(* snapshot.  A field is a function on the cells, 0 where the sparse grid   *)
(* has no entry.                                                            *)
(*                                                                         *)
(* Intensities are integers: Fine of them make a thousandth, the last digit *)
(* a rounded wire carries.  A decay that is no whole number of them is      *)
(* truncated, as a float is somewhere; a value exactly between two          *)
(* thousandths is rounded either way (up), as the float next to it is.      *)
(***************************************************************************)
EXTENDS Board

CONSTANTS
    Fine,       \* internal units in a thousandth
    Emit,       \* pheromone_center_intensity, in thousandths
    Rho,        \* pheromone_decay: Rho tenths
    MinCentre,  \* pheromone_min_center_intensity, in thousandths
    Window,     \* pheromone_grid_size
    ZeroWeight  \* zero_scent_weight, in tenths

Dialects == {"reference", "book", "multiplicative_book_v1"}

\* ScentParams.__post_init__: anything else stops the peer before it plays.
ValidParams ==
    /\ Size \in Nat \ {0}
    /\ Window \in Nat /\ Window % 2 = 1
    /\ Rho \in 0 .. 10
    /\ Emit \in Nat \ {0} /\ MinCentre \in Nat /\ Emit >= MinCentre

\* MultiplicativeBookV1Scent: its printed kernel fits one emission only.
PinnedCentre == Emit = 900

ASSUME ScentAssumption ==
    Fine \in Nat \ {0} /\ ValidParams /\ PinnedCentre /\ ZeroWeight \in Nat

Lesser(a, b) == IF a < b THEN a ELSE b
Greater(a, b) == IF a > b THEN a ELSE b
Magnitude(n) == IF n < 0 THEN -n ELSE n

Ring(a, b) == Greater(Magnitude(a[1] - b[1]), Magnitude(a[2] - b[2]))
Half == Window \div 2

\* The printed kernel of multiplicative_book_v1, by row and column offset.
Figure4 == << << 40, 140, 200, 140,  40>>,
              <<140, 420, 620, 420, 140>>,
              <<200, 620, 900, 620, 200>>,
              <<140, 420, 620, 420, 140>>,
              << 40, 140, 200, 140,  40>> >>

\* emission_stamp: what an emission at c deposits on cell x.
Deposited(d, c, x) ==
    IF d = "multiplicative_book_v1"
      THEN IF Ring(c, x) <= 2 THEN Fine * Figure4[x[1] - c[1] + 3][x[2] - c[2] + 3] ELSE 0
      ELSE IF Ring(c, x) <= Half THEN Fine * (Emit - (Emit \div (Half + 1)) * Ring(c, x)) ELSE 0

\* The same as a table: TLC stores the values of a function it has compared.
Stored(f) == CHOOSE g \in {f} : g = f
Stamps == Stored([d \in Dialects |-> Stored([c \in Cells |->
              Stored([x \in Cells |-> Deposited(d, c, x)])])])
Stamp(d, c, x) == Stamps[d][c][x]

\* Mutant: the reference law sums too, without a cap.
MergeSum(d, old, new) ==
    IF d = "reference" THEN old + new ELSE Lesser(Fine * Emit, old + new)

Merge(d, old, new) ==
    IF d = "reference" THEN Greater(old, new) ELSE Lesser(Fine * Emit, old + new)

\* round(v, 3), in thousandths.
Thousandths(v, up) == (v + (Fine \div 2) - (IF up THEN 0 ELSE 1)) \div Fine

\* Only the book law rounds what is no whole number of thousandths.
Ties(d) == IF d = "book" THEN BOOLEAN ELSE {TRUE}

Decay(d, v, up) ==
    LET kept == (v * (10 - Rho)) \div 10
    IN  CASE d = "reference" -> Greater(0, v - 100 * Rho * Fine)
          [] d = "book" -> IF Thousandths(kept, up) > 0 THEN kept ELSE 0
          [] OTHER -> kept

NoScent == [x \in Cells |-> 0]

Deposit(d, field, c) == [x \in Cells |-> Merge(d, field[x], Stamp(d, c, x))]
Fade(d, field, up) == [x \in Cells |-> Decay(d, field[x], up)]

\* One full turn of an agent at c, in the order the dialect pins.
FullTurn(d, field, c, up) ==
    IF d = "multiplicative_book_v1" THEN Deposit(d, Fade(d, field, up), c)
                                    ELSE Fade(d, Deposit(d, field, c), up)

\* The wire grid.
Snapshot(d, field, up) ==
    [x \in Cells |->
        IF d = "multiplicative_book_v1" THEN field[x] ELSE Fine * Thousandths(field[x], up)]

\* absorb: a grid from the wire replaces the field, what is not positive drops.
Absorb(air) == [x \in Cells |-> Greater(0, air[x])]

\* parse_wire
ParseWire(d, air, up) == Snapshot(d, Absorb(air), up)

\* Row-major, the order ties break in.
Before(a, b) == a[1] < b[1] \/ (a[1] = b[1] /\ a[2] < b[2])

\* The strongest cell of a snapshot that has one.
Strongest(air) ==
    CHOOSE c \in Cells : \A x \in Cells \ {c} :
        air[x] < air[c] \/ (air[x] = air[c] /\ Before(c, x))

-----------------------------------------------------------------------------
(* Scoring a candidate cell.  Scores are sums of squared thousandths, in   *)
(* tenths: the log-likelihood with its sign and scale left out.            *)

CellAt(i) == <<(i - 1) \div Size, (i - 1) % Size>>

Total(w) ==
    LET upTo[i \in 0 .. Size * Size] == IF i = 0 THEN 0 ELSE upTo[i - 1] + w[CellAt(i)]
    IN  upTo[Size * Size]

Square(n) == n * n

\* Mutant: the trail is forgotten.
ForwardFresh(d, prev, c, up) == Snapshot(d, FullTurn(d, NoScent, c, up), up)

\* What the law would have sent if the emitter of prev stood at c.
Forward(d, prev, c, up) == Snapshot(d, FullTurn(d, Absorb(prev), c, up), up)

Weight(seen, expected) == IF seen = 0 /\ expected > 0 THEN ZeroWeight ELSE 10

\* residual_log_likelihood.
Residual(air, expected) ==
    Total([x \in Cells |->
        Weight(air[x], expected[x]) * Square(Magnitude(air[x] - expected[x]) \div Fine)])

\* absolute_log_likelihood: only what is missing of a fresh stamp counts.
Deficit(air, fresh) ==
    Total([x \in Cells |->
        Weight(air[x], fresh[x]) * Square(Greater(0, fresh[x] - air[x]) \div Fine)])

\* scent_log_likelihoods: every candidate against the law's continuation of prev.
Continues(d, seen, prev, S, up) ==
    [c \in S |-> Residual(seen, Forward(d, prev, c, up))]

\* absolute_log_likelihoods: every candidate against a stamp of its own.
Restarts(d, seen, S, up) ==
    [c \in S |-> Deficit(seen, Forward(d, NoScent, c, up))]

=============================================================================
