------------------------------ MODULE TurnGame ------------------------------
(***************************************************************************)
(* What a sub-game of Pursuit promises, as if one referee held the board:  *)
(* thief and police step in turn, every step is legal on the true barrier  *)
(* map, a caught thief may only concede, and a peer reports a victory that *)
(* was earned, or a technical loss.  There are no messages here; PeerGame  *)
(* implements this with two peers that share nothing but a network.        *)
(***************************************************************************)
EXTENDS Board, FiniteSets

CONSTANTS CopStart, ThiefStart, MaxBarriers, MaxMoves, SurvivalThreshold

Roles == {"police", "thief"}

VARIABLES
    trail,   \* each side's steps: where it stood and the barriers it knew
    outcome  \* what each side reports

gameVars == <<trail, outcome>>

GameInit == /\ trail = [r \in Roles |-> <<>>]
            /\ outcome = [r \in Roles |-> "pending"]

Opening(r) == [pos |-> IF r = "police" THEN CopStart ELSE ThiefStart, walls |-> {}]

\* The side's state after its n-th step.
After(r, n) == IF n = 0 THEN Opening(r) ELSE trail[r][n]
Taken(r) == Len(trail[r])
Now(r) == After(r, Taken(r))

\* Rules 21, 46 and 47: the n-th step of the police caught the thief.
CaughtAt(n) ==
    LET cop == After("police", n)
        was == After("police", n - 1)
        thief == After("thief", n).pos
    IN  /\ n \in 1 .. Taken("police")
        /\ \/ cop.pos # was.pos /\ cop.pos = thief
           \/ cop.walls # was.walls /\ (thief \in cop.walls \/ Jailed(thief, cop.walls))

Caught == CaughtAt(Taken("police"))
CeilingSpent == Taken("police") >= MaxMoves
Survived == Taken("thief") >= SurvivalThreshold
ThiefToStep == Taken("thief") = Taken("police")

Steps(r, rec) ==
    /\ outcome[r] = "pending"
    /\ trail' = [trail EXCEPT ![r] = Append(@, rec)]
    /\ UNCHANGED outcome

LegalStep(here, there, walls) ==
    there = here \/ \E d \in Directions : CanStep(here, d, walls) /\ there = Shift(here, d)

\* The thief walks, or concedes on the spot.
ThiefSteps ==
    LET here == Now("thief").pos
        walls == Now("police").walls
    IN  /\ ThiefToStep
        /\ \E there \in Cells :
              /\ IF Caught THEN there = here
                 ELSE ~CeilingSpent /\ LegalStep(here, there, walls)
              /\ Steps("thief", [pos |-> there, walls |-> walls])

\* The police walks or builds one barrier in reach.
PoliceSteps ==
    LET here == Now("police").pos
        walls == Now("police").walls
    IN  /\ ~ThiefToStep /\ ~Caught /\ ~Survived
        /\ \/ \E there \in Cells :
                /\ LegalStep(here, there, walls)
                /\ Steps("police", [pos |-> there, walls |-> walls])
           \/ \E cell \in BarrierOptions(here, walls) :
                /\ Cardinality(walls) < MaxBarriers
                /\ Steps("police", [pos |-> here, walls |-> walls \cup {cell}])

\* What makes an outcome true.
Earned(o) ==
    \/ o = "capture" /\ Caught /\ ~ThiefToStep
    \/ o = "survival" /\ (CeilingSpent \/ (Survived /\ ~Caught /\ ~ThiefToStep))
    \/ o = "technical_loss"

Reports(r) ==
    /\ outcome[r] = "pending"
    /\ \E o \in {"capture", "survival", "technical_loss"} :
         Earned(o) /\ outcome' = [outcome EXCEPT ![r] = o]
    /\ UNCHANGED trail

GameNext == ThiefSteps \/ PoliceSteps \/ \E r \in Roles : Reports(r)

GameSpec == GameInit /\ [][GameNext]_gameVars
=============================================================================
