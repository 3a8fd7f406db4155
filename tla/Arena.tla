------------------------------- MODULE Arena -------------------------------
(***************************************************************************)
(* The lab's referee (lab/arena.py): two brains in one process, against    *)
(* the rules of Board.  A belief may name any cell as the opponent's, so   *)
(* what holds here holds whatever the filter that feeds the brain says.    *)
(***************************************************************************)
EXTENDS Brains

CONSTANTS Pairings,            \* the (police brain, thief brain) pairs to play
          Starts,              \* the (cop cell, thief cell) pairs to start from
          SurvivalThreshold,   \* thief moves that win the game
          MaxMoves             \* cop turns before the ceiling

ASSUME ArenaAssumption == /\ Pairings \subseteq PoliceBrains \X ThiefBrains
                          /\ Starts \subseteq Cells \X Cells
                          /\ SurvivalThreshold \in Nat \ {0}
                          /\ MaxMoves \in Nat

VARIABLES brains,     \* the pairing of this game
          cop,        \* the cop's cell and the cells it visited
          thief,      \* the same of the thief, and its trail of recent cells
          barriers,   \* the barriers both sides know
          counter,    \* the thief's valid moves (StepCounter)
          copSteps,   \* cop turns taken, barrier turns included
          turn,       \* whose decision is next
          outcome     \* the SubgameResult, or "playing"

vars == <<brains, cop, thief, barriers, counter, copSteps, turn, outcome>>

Verdict(result, winner, kind) == [result |-> result, winner |-> winner, kind |-> kind]
Playing == Verdict("playing", "none", "none")
Landing == Verdict("capture", "police", "landing")
Walled == Verdict("capture", "police", "barrier")
Caged == Verdict("capture", "police", "jailed")
Survived == Verdict("survival", "thief", "none")
Raised == Verdict("raised", "none", "none")     \* IllegalMoveError ends the match

\* The thief remembers where it stands before it decides (_remember_position).
Trail == LET longer == Append(thief.trail, thief.pos)
             spare  == Len(longer) - RecentWindow
         IN  SubSeq(longer, IF spare > 0 THEN spare + 1 ELSE 1, Len(longer))

\* The two LabViews.  Every wall is the cop's own.
CopView == [pos |-> cop.pos, walls |-> barriers, map |-> Distances[barriers],
            visited |-> cop.visited, used |-> Cardinality(barriers), trail |-> <<>>]
ThiefView == [pos |-> thief.pos, walls |-> barriers, map |-> Distances[barriers],
              visited |-> thief.visited, used |-> 0, trail |-> Trail]

\* What a brain may decide, whatever its belief.
Decisions(brain, view) == UNION {Decides(brain, view, b) : b \in Beliefs}

TypeOK ==
    /\ brains \in Pairings
    /\ cop \in [pos : Cells, visited : SUBSET Cells]
    /\ thief \in [pos : Cells, visited : SUBSET Cells, trail : Seq(Cells)]
    /\ Len(thief.trail) <= RecentWindow
    /\ barriers \in SUBSET Cells
    /\ counter \in 0 .. SurvivalThreshold
    /\ copSteps \in 0 .. MaxMoves
    /\ turn \in {"thief", "cop", "over"}
    /\ outcome \in {Playing, Landing, Walled, Caged, Survived, Raised}
    /\ (turn = "over") = (outcome # Playing)

Init ==
    /\ brains \in Pairings
    /\ \E s \in Starts : /\ cop = [pos |-> s[1], visited |-> {s[1]}]
                         /\ thief = [pos |-> s[2], visited |-> {s[2]}, trail |-> <<>>]
    /\ barriers = {} /\ counter = 0 /\ copSteps = 0
    /\ turn = "thief" /\ outcome = Playing

-----------------------------------------------------------------------------

Finish(verdict) == turn' = "over" /\ outcome' = verdict
Continue(next) == turn' = next /\ UNCHANGED outcome

\* _apply_step with a decision the board refuses: validate_step raises before
\* anything changes.  A hold is refused like a step when the own cell is walled.
Refused(decision, cell) == ~CanStep(cell, decision.dir, barriers)

\* The thief's half of a round.  Its move is judged for a landing on the cop,
\* then for survival, then for the ceiling on the cop's turns.  A thief that
\* plays always has a legal step, so that a refusal has no action here: it
\* would be a deadlock.
ThiefMoves(decision) ==
    LET dest == Shift(thief.pos, decision.dir) IN
    /\ ~Refused(decision, thief.pos)
    /\ thief' = [pos |-> dest, visited |-> thief.visited \cup {dest}, trail |-> Trail]
    /\ counter' = counter + 1
    /\ IF dest = cop.pos THEN Finish(Landing)
       ELSE IF counter' >= SurvivalThreshold \/ copSteps >= MaxMoves THEN Finish(Survived)
       ELSE Continue("cop")
    /\ UNCHANGED <<brains, cop, barriers, copSteps>>

ThiefTurn ==
    /\ turn = "thief"
    /\ \E decision \in Decisions(brains[2], ThiefView) : ThiefMoves(decision)

\* The cop's half: a step, or a wall that is checked against reach and quota
\* and told to the thief.  Either consumes one of the cop's turns.
CopMoves(decision) ==
    LET dest == Shift(cop.pos, decision.dir) IN
    /\ decision.type # "BARRIER"
    /\ ~Refused(decision, cop.pos)
    /\ cop' = [pos |-> dest, visited |-> cop.visited \cup {dest}]
    /\ IF dest = thief.pos THEN Finish(Landing) ELSE Continue("thief")
    /\ UNCHANGED <<brains, thief, barriers, counter>>

\* validate_barrier: within the quota and the five-cell reach.
MayBuild(cell) == /\ Cardinality(barriers) < MaxBarriers
                  /\ cell \in BarrierOptions(cop.pos, barriers)

\* Mutant: nobody looks for a jail.
CopBuildsUnjudged(decision) ==
    LET cell == Shift(cop.pos, decision.dir) IN
    /\ decision.type = "BARRIER"
    /\ MayBuild(cell)
    /\ barriers' = barriers \cup {cell}
    /\ IF cell = thief.pos THEN Finish(Walled) ELSE Continue("thief")
    /\ UNCHANGED <<brains, cop, thief, counter>>

CopBuilds(decision) ==
    LET cell == Shift(cop.pos, decision.dir) IN
    /\ decision.type = "BARRIER"
    /\ MayBuild(cell)
    /\ barriers' = barriers \cup {cell}
    /\ IF cell = thief.pos THEN Finish(Walled)
       ELSE IF Jailed(thief.pos, barriers') THEN Finish(Caged)
       ELSE Continue("thief")
    /\ UNCHANGED <<brains, cop, thief, counter>>

CopRefused(decision) ==
    /\ IF decision.type = "BARRIER" THEN ~MayBuild(Shift(cop.pos, decision.dir))
       ELSE Refused(decision, cop.pos)
    /\ Finish(Raised)
    /\ UNCHANGED <<brains, cop, thief, barriers, counter>>

CopTurn ==
    /\ turn = "cop"
    /\ copSteps' = copSteps + 1
    /\ \E decision \in Decisions(brains[1], CopView) :
          CopMoves(decision) \/ CopBuilds(decision) \/ CopRefused(decision)

Over == turn = "over" /\ UNCHANGED vars

Next == ThiefTurn \/ CopTurn \/ Over
Spec == Init /\ [][Next]_vars

-----------------------------------------------------------------------------

\* The referee never plays past a capture: while a game goes on the players
\* stand apart, no wall lies on the thief, and the thief can still leave its
\* cell.  The checks of play_subgame sit after single effects, and only one
\* of them looks for a jail.
NoMissedCapture ==
    outcome = Playing => /\ cop.pos # thief.pos
                         /\ thief.pos \notin barriers
                         /\ ~Jailed(thief.pos, barriers)

\* "Never invent a cell" (base.py): whatever it believes, a brain is refused
\* by the board only as a cop that stands on a wall of its own with every exit
\* walled, whose hold validate_step rejects.
RefusedOnlyImmured ==
    outcome = Raised => cop.pos \in barriers /\ Exits(cop.pos, barriers) = {}

\* The jail-risk ban of thief.py: while a cop can still seal every exit of a
\* cell, no survivor steps onto it, whatever its scores, trail, jitter or
\* decoy say; it stays where it is sooner.
Survivors == {"survivor", "survivor_jitter", "survivor_decoy"}
NoTrapEntered ==
    [][brains[2] \in Survivors /\ thief'.pos # thief.pos
          => ~TrapRisky(ThiefView, thief'.pos)]_vars

\* The interceptor's walls never cost it the chase (the tempo doctrine of
\* police.py): after any wall that neither lies on the believed thief nor
\* seals its last exit, the route to it is as short as before, or, for the
\* caging brain, still there.
RouteKept ==
    turn = "cop" /\ brains[1] \in {"interceptor", "interceptor_jitter", "adaptive"} =>
        \A b \in Beliefs : \A decision \in Decides(brains[1], CopView, b) :
            LET cell  == Shift(cop.pos, decision.dir)
                after == barriers \cup {cell}
                route == BfsDistance(cop.pos, b.mode, barriers)
            IN  decision.type = "BARRIER" =>
                    \/ cell = b.mode
                    \/ Exits(b.mode, after) = {}
                    \/ BfsDistance(cop.pos, b.mode, after) <= route
                    \/ brains[1] = "adaptive" /\ BfsDistance(cop.pos, b.mode, after) < Unreachable

\* A thief that knows where the cop stands is never caught by its own step.
KeepsAway ==
    turn = "thief" /\ brains[2] = "center" =>
        \A g \in Grades :
            \A decision \in Decides("center", ThiefView, [mode |-> cop.pos, grade |-> g]) :
                Shift(thief.pos, decision.dir) # cop.pos

=============================================================================
