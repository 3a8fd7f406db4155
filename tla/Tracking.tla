------------------------------ MODULE Tracking ------------------------------
(***************************************************************************)
(* One peer follows the other by its scent: the emitter's field and wire   *)
(* grid (turn_sender.py, lab/protocol.py), and what the reader makes of    *)
(* each grid, with the filter of domain/belief/engine.py and with the      *)
(* stand-in of sdk/series.py.  Live, the two have agreed as in Agreement,  *)
(* each running the law of its own configuration; in the lab one           *)
(* configuration serves both, the referee passes the grids on and the      *)
(* filter is seeded (sdk/lab_belief.py).                                   *)
(*                                                                         *)
(* Of the filter's posterior only what decides it is kept: which cells     *)
(* explain the last grid best, and whether the filter gave up its history  *)
(* for that.  The motion kernel, the hints and the floats of the posterior *)
(* are left out.                                                           *)
(***************************************************************************)
EXTENDS Agreement, Scent

CONSTANTS
    CopStart, ThiefStart,  \* the signed start cells
    MaxBarriers,           \* barrier quota of the police
    ResyncAt,              \* score beyond which no candidate explains a grid
    Turns                  \* bound: emissions of one behaviour

ASSUME TrackingAssumption ==
    /\ CopStart \in Cells /\ ThiefStart \in Cells
    /\ MaxBarriers \in Nat /\ ResyncAt \in Nat /\ Turns \in Nat
    /\ None \notin Cells

VARIABLES
    lab,       \* played in the arena
    emitter,   \* the role that is followed
    pos,       \* where it is
    walls,     \* the barriers that stand
    placed,    \* how many the emitter built
    field,     \* its ScentModel grid
    turn,      \* emissions so far
    air,       \* the grid on the wire
    declared,  \* the barrier declared with it, or None
    unread,    \* the reader has yet to process it
    masked,    \* the filter's barriers
    prev,      \* the filter's last grid
    best,      \* the cells of highest likelihood
    refit,     \* the last grid was refitted from scratch
    mode       \* the stand-in's most likely cell

body == <<lab, emitter>>
sent == <<pos, walls, placed, field, turn, air, declared>>
filter == <<masked, prev, best, refit, mode>>
vars == <<config, phase, body, sent, unread, filter>>

Start(r) == IF r = "police" THEN CopStart ELSE ThiefStart
Reader == Opp(emitter)
LawOf(r) == Law(config[r])

\* The lab's one configuration: loaded and checked for both, no command line.
LabLoads ==
    /\ config["police"] = config["thief"]
    /\ config["police"].override = None /\ ValidateAgreement(config["police"])

\* The lab seeds its filter with a deposit on the start cell that nobody made,
\* and its thief looks before the police has moved.
Seed(r) == [x \in Cells |-> Stamp(LawOf(r), Start(r), x)]

Init ==
    /\ AgreementInit
    /\ lab \in BOOLEAN
    /\ lab => LabLoads
    /\ emitter \in Roles
    /\ pos = Start(emitter)
    /\ walls = {} /\ placed = 0
    /\ field = NoScent /\ turn = 0
    /\ air = NoScent /\ declared = None
    /\ unread = (lab /\ emitter = "police")
    /\ masked = {}
    /\ prev = IF lab THEN Seed(emitter) ELSE NoScent
    /\ best = Cells /\ refit = FALSE
    /\ mode = Start(emitter)

Playing == lab \/ Agreed

\* The emitter takes its turn: it moves, stays or builds, and leaves its scent.
EmitTurn ==
    /\ Playing /\ ~unread
    /\ turn < Turns
    /\ \/ \E d \in Directions :
            /\ CanStep(pos, d, walls)
            /\ pos' = Shift(pos, d)
            /\ declared' = None
            /\ UNCHANGED <<walls, placed>>
       \/ /\ emitter = "police" /\ placed < MaxBarriers
          /\ \E c \in BarrierOptions(pos, walls) :
                declared' = c /\ walls' = walls \cup {c}
          /\ placed' = placed + 1
          /\ UNCHANGED pos
    /\ \E up \in Ties(LawOf(emitter)) :
        /\ field' = FullTurn(LawOf(emitter), field, pos', up)
        /\ air' = Snapshot(LawOf(emitter), field', up)
    /\ turn' = turn + 1
    /\ unread' = TRUE
    /\ UNCHANGED <<config, phase, body, filter>>

\* The smallest score wins.
Lowest(score, S) == {c \in S : \A x \in S : score[c] <= score[x]}

\* Mutant: history is never given up.
ResyncsNever(score, S) == FALSE

\* No candidate explains the grid.
Resyncs(score, S) == \A c \in S : score[c] > ResyncAt

\* ScentBelief.observe_smell.
Follow(wire) == Strongest(wire)

\* The reader digests the grid: note_barrier (which the lab never calls),
\* then observe_smell on either belief.
ReadTurn ==
    /\ Playing /\ unread
    /\ masked' = IF lab THEN masked ELSE masked \cup ({declared} \ {None})
    /\ \E up \in Ties(LawOf(Reader)) :
        LET law == LawOf(Reader)
            seen == ParseWire(law, air, up)
            free == Cells \ masked'
            fit == Continues(law, seen, prev, free, up)
        IN  /\ prev' = seen
            /\ refit' = Resyncs(fit, free)
            /\ best' = Lowest(IF refit' THEN Restarts(law, seen, free, up) ELSE fit, free)
    /\ mode' = IF air = NoScent THEN mode ELSE Follow(air)
    /\ unread' = FALSE
    /\ UNCHANGED <<config, phase, body, sent>>

Negotiate == ~lab /\ AgreementNext /\ UNCHANGED <<body, sent, unread, filter>>

Next == Negotiate \/ EmitTurn \/ ReadTurn

Spec == Init /\ [][Next]_vars

-----------------------------------------------------------------------------
(* Properties.                                                             *)

Grids == [Cells -> Nat]

\* The type of every variable.
TypeOK ==
    /\ config \in [Roles -> Configs]
    /\ phase \in [Roles -> {"start", "ready", "offered", "agreed", "expired", "failed"}]
    /\ lab \in BOOLEAN /\ emitter \in Roles
    /\ pos \in Cells /\ walls \subseteq Cells
    /\ placed \in 0 .. MaxBarriers /\ turn \in 0 .. Turns
    /\ field \in Grids /\ air \in Grids /\ prev \in Grids
    /\ declared \in Cells \cup {None}
    /\ unread \in BOOLEAN /\ refit \in BOOLEAN
    /\ masked \subseteq Cells /\ best \subseteq Cells
    /\ mode \in Cells

OneLaw == LawOf("police") = LawOf("thief")
Digested == ~unread /\ turn > 0
InView == pos \notin masked

\* Under one law, rounding drift and overlapping trails never hide the truth:
\* no cell explains a grid better than the one its emitter stands on, unless
\* that is a barrier, and under the reference law none as well, whether the
\* filter kept its history or not (forward_snapshot, absolute_log_likelihood).
TruthStandsOut ==
    Digested /\ OneLaw /\ InView =>
        /\ pos \in best
        /\ LawOf(Reader) = "reference" => best = {pos}

\* The filter gives up its history only for a cause: the laws differ, the
\* police stands on its own barrier, or it is the lab's made-up history.
NoFalseResync ==
    Digested /\ refit => ~OneLaw \/ ~InView \/ (lab /\ turn <= 1)

\* Under the reference law the strongest cell of every grid is where its
\* emitter stands, whatever trail lies under it (reference.py): the stand-in
\* belief is never wrong.
ScentPinpoints ==
    Digested /\ LawOf(emitter) = "reference" => mode = pos

=============================================================================
