-------------------------------- MODULE Trust -------------------------------
(***************************************************************************)
(* What the opponent's words do to the belief: the claim read from a hint  *)
(* (peer/hint_fusion.py), the ledger of its reliability and the cells it   *)
(* points to (domain/belief/reliability.py), the mixture that fuses it     *)
(* (domain/belief/engine.py), and the profiler that counts the revealed    *)
(* lies from one sub-game to the next (strategy/profiler.py).              *)
(*                                                                         *)
(* Numbers are exact: a posterior is counted in 1 / Mass, the ledger in    *)
(* 1 / Unit.  Before a hint is fused the scent may have made any posterior *)
(* over the free cells (Scent, Tracking).                                  *)
(***************************************************************************)
EXTENDS Integers, FiniteSetsExt

CONSTANTS
    Edge,                 \* board_size
    Spoken,               \* the directions of the move set
    HintAlpha, HintBeta,  \* the configured prior, in whole counts
    Kept, OutOf,          \* reliability_forget = Kept / OutOf
    Below, Of,            \* lie_inversion_below = Below / Of
    LieInversion,         \* lie_inversion
    Mass,                 \* bound: a posterior is counted in 1 / Mass
    MaxHints,             \* bound: hints of one sub-game
    MaxMasked,            \* bound: declared barriers
    MaxProfiled           \* bound: hints the profiler counts

NoClaim == "no claim"
Compass == <<"N", "S", "E", "W">>

\* ReliabilityLedger refuses anything else, and hints are then not fused.
LedgerTerms ==
    /\ HintAlpha \in Nat \ {0} /\ HintBeta \in Nat \ {0}
    /\ Kept \in Nat \ {0} /\ OutOf \in Nat /\ Kept <= OutOf

ASSUME TrustAssumption ==
    /\ Edge \in Nat \ {0} /\ Spoken \subseteq {Compass[i] : i \in DOMAIN Compass}
    /\ LedgerTerms
    /\ Below \in Nat /\ Of \in Nat \ {0} /\ LieInversion \in BOOLEAN
    /\ Mass \in Nat \ {0} /\ {MaxHints, MaxMasked, MaxProfiled} \subseteq Nat

\* The same function: TLC evaluates it once and keeps its values.
Stored(f) == CHOOSE g \in {f} : g = f

Squares == (0 .. Edge - 1) \X (0 .. Edge - 1)
Power[n \in Nat] == IF n = 0 THEN 1 ELSE OutOf * Power[n - 1]
Unit == Mass * Power[MaxHints]

VARIABLES
    fusing,        \* the belief has fuse_hint and the fuser is on
    alpha, beta,   \* ReliabilityLedger
    masked,        \* BeliefV2._barriers
    hints,         \* hints of this sub-game
    spokenTrue, spokenFalse,  \* intents the opponent sealed in this sub-game
    truths, lies   \* OpponentProfiler

trustVars == <<fusing, alpha, beta, masked, hints,
               spokenTrue, spokenFalse, truths, lies>>

-----------------------------------------------------------------------------
(* The claim and its geometry.                                             *)

\* A hint: the directions it names in full and those it names by a letter.
Hints == [words : SUBSET Spoken, letters : SUBSET Spoken]

\* parse_claim: the first direction of the compass that is named either way.
ParseClaim(hint) ==
    LET named == {i \in DOMAIN Compass : Compass[i] \in hint.words \cup hint.letters}
    IN  IF named = {} THEN NoClaim ELSE Compass[Min(named)]

\* trail_centroid, as a weight and the moments of both axes.
Centroid(trail, belief) ==
    LET points == IF DOMAIN trail # {} THEN trail ELSE belief
    IN  [total |-> MapThenSumSet(LAMBDA c : points[c], DOMAIN points),
         moment |-> [axis \in 1 .. 2 |->
                       MapThenSumSet(LAMBDA c : points[c] * c[axis], DOMAIN points)]]

Axis(claim) == IF claim \in {"N", "S"} THEN 1 ELSE 2
Side(claim) == IF claim \in {"N", "W"} THEN -1 ELSE 1

\* hint_footprint: the half of the board beyond the centroid.
Footprint(claim, trail, belief) ==
    LET centre == Centroid(trail, belief)
        axis == Axis(claim)
    IN  IF claim = NoClaim THEN {}
        ELSE {c \in Squares :
                (c[axis] * centre.total - centre.moment[axis]) * Side(claim) > 0}

-----------------------------------------------------------------------------
(* What a hint can meet.                                                   *)

\* What the scent may have left: at most two cells carry the posterior.
Posteriors(walls) ==
    {[c \in Squares |-> (IF c = one THEN m ELSE 0) + (IF c = two THEN Mass - m ELSE 0)] :
        one \in Squares \ walls, two \in Squares \ walls, m \in 0 .. Mass}

\* The trail it shows: none, or one that peaks in a cell.
Trails == {[c \in {} |-> 0]} \cup {[c \in {peak} |-> 1] : peak \in Squares}

Maskings == UNION {kSubset(k, Squares) : k \in 0 .. MaxMasked}

Claims == {ParseClaim(hint) : hint \in Hints}

\* The posterior a claim meets and the free cells the claim points to.
ReadingsOf(walls) ==
    {[belief |-> Stored(belief), cells |-> Footprint(claim, trail, belief) \ walls] :
        belief \in Posteriors(walls), trail \in Trails, claim \in Claims}

Readings == Stored([walls \in Maskings |-> ReadingsOf(walls)])

-----------------------------------------------------------------------------
(* Fusing.                                                                 *)

Inside(belief, cells) == MapThenSumSet(LAMBDA c : belief[c], cells)

\* A caught liar's words are turned around.
Inverts(cells, a, b) ==
    LieInversion /\ Cardinality(cells) < Edge * Edge /\ a * Of < Below * (a + b)

\* Mutant: outside the claim nothing is left of the doubt.
WeightHard(inside, cells, a, b) ==
    LET n == Cardinality(cells)
    IN  IF inside THEN a * Edge * Edge + b * n ELSE 0

\* The mixture weight * inside + (1 - weight) * q of a cell, times
\* (a + b) * n and the size of the board, or of the board outside the claim.
Weight(inside, cells, a, b) ==
    LET n == Cardinality(cells)
    IN  IF Inverts(cells, a, b)
          THEN IF inside THEN a * (Edge * Edge - n) ELSE b * n
          ELSE IF inside THEN a * Edge * Edge + b * n ELSE b * n

\* fuse_hint, before it is normalised.
Fused(belief, cells, a, b) ==
    LET weight == [inside |-> Weight(TRUE, cells, a, b), outside |-> Weight(FALSE, cells, a, b)]
    IN  Stored([c \in Squares |->
                    belief[c] * (IF c \in cells THEN weight.inside ELSE weight.outside)])

\* ReliabilityLedger.update of one count.
Counts(count, evidence) == (Kept * count) \div OutOf + evidence

\* build_hint_fuser: the ledger of a sub-game starts from the configured prior.
FreshLedger == [a |-> HintAlpha * Unit, b |-> HintBeta * Unit]

\* Before the first sub-game.
TrustInit ==
    /\ fusing = FALSE
    /\ alpha = FreshLedger.a /\ beta = FreshLedger.b
    /\ masked = {} /\ hints = 0
    /\ spokenTrue = 0 /\ spokenFalse = 0 /\ truths = 0 /\ lies = 0

\* note_barrier
Masks(cell) ==
    /\ Cardinality(masked) < MaxMasked /\ cell \notin masked
    /\ masked' = masked \cup {cell}
    /\ UNCHANGED <<fusing, alpha, beta, hints, spokenTrue, spokenFalse, truths, lies>>

\* HintFuser.fuse: words without geometry change nothing.
Fuses(reading) ==
    LET consistency == Inside(reading.belief, reading.cells) * Power[MaxHints]
    IN  IF ~fusing \/ reading.cells = {}
          THEN UNCHANGED <<alpha, beta>>
          ELSE /\ alpha' = Counts(alpha, consistency)
               /\ beta' = Counts(beta, Unit - consistency)

\* A turn of the opponent with its hint, and the intent it sealed with it.
HearsHint ==
    /\ hints < MaxHints /\ hints' = hints + 1
    /\ \E reading \in Readings[masked] : Fuses(reading)
    /\ \/ spokenTrue' = spokenTrue + 1 /\ UNCHANGED spokenFalse
       \/ spokenFalse' = spokenFalse + 1 /\ UNCHANGED spokenTrue
    /\ UNCHANGED <<fusing, masked, truths, lies>>

\* ingest_subgame: every revealed record with a label counts.
Ingests == truths' = truths + spokenTrue /\ lies' = lies + spokenFalse

\* LieProfiler.observe: off, or with no records that arrived, nothing counts.
Observes ==
    \/ truths + lies + spokenTrue + spokenFalse <= MaxProfiled /\ Ingests
    \/ UNCHANGED <<truths, lies>>

\* belief_for: the filter needs its private block, else the stand-in serves.
BeliefFor(configured) == IF configured THEN "BeliefV2" ELSE "ScentBelief"

\* Only the filter fuses, and only with the fuser on.
Fusing(configured, on) == BeliefFor(configured) = "BeliefV2" /\ on

\* The sub-game is over: the profiler takes in the revealed intents, and the
\* next one starts with a belief and a ledger of its own.
Profiles ==
    /\ Observes
    /\ \E configured, on \in BOOLEAN : fusing' = Fusing(configured, on)
    /\ alpha' = FreshLedger.a /\ beta' = FreshLedger.b
    /\ masked' = {} /\ hints' = 0
    /\ spokenTrue' = 0 /\ spokenFalse' = 0

TrustNext == \/ \E cell \in Squares : Masks(cell)
             \/ HearsHint \/ Profiles

TrustSpec == TrustInit /\ [][TrustNext]_trustVars

-----------------------------------------------------------------------------
(* Properties.                                                             *)

\* Words only tilt the belief, whatever was said and believed before: they
\* never rule out a cell the scent allows, nor bring back one it excluded; a
\* claim gains no less than the rest of the board while its speaker is trusted
\* and, once he is a caught liar, no more than it, if it covers at least the
\* share of the board below which he counts as one (engine.py, "turns a caught
\* liar's words into negative evidence").
HintsBounded ==
    fusing => \A reading \in Readings[masked] :
        LET cells == reading.cells
            belief == reading.belief
            fused == Fused(belief, cells, alpha, beta)
            \* The claim's share grew, or did not fall.
            Inherits(more, less) ==
                Inside(fused, more) * Inside(belief, less)
                    >= Inside(fused, less) * Inside(belief, more)
        IN  cells # {} =>
              /\ \A c \in Squares : fused[c] > 0 <=> belief[c] > 0
              /\ ~Inverts(cells, alpha, beta) => Inherits(cells, Squares \ cells)
              /\ Inverts(cells, alpha, beta) /\ Cardinality(cells) * Of >= Below * Edge * Edge =>
                    Inherits(Squares \ cells, cells)
=============================================================================
