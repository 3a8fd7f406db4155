------------------------------- MODULE Brains -------------------------------
(***************************************************************************)
(* The decision policies of src/pursuit/strategy: what a brain does with   *)
(* its own state and its belief.  A policy is an operator that returns the *)
(* SET of decisions it may take, with more than one member only where the  *)
(* code draws from its random source.  Rankings are sequences compared     *)
(* lexicographically, smaller first, and end with the place in the         *)
(* negotiated move order, which is how Python's min and max break ties.    *)
(*                                                                         *)
(* A view v is what a brain sees of its own side: pos, walls and the map   *)
(* of distances around them, visited, used (its own barriers) and trail (a *)
(* thief's recent cells).  A belief b                                      *)
(* is the most likely cell of the opponent with the grade of its           *)
(* probability against the two thresholds of police.py.                    *)
(***************************************************************************)
EXTENDS Paths

CONSTANTS CageRadius,      \* InterceptorPoliceBrain.cage_radius
          HerdK,           \* InterceptorPoliceBrain.herd_k
          MobilityK,       \* SurvivorThiefBrain.mobility_k
          SealableExits,   \* max(2, jail_min_mobility)
          RecentWindow,    \* SurvivorThiefBrain.recent_window
          DecoyMargin,     \* SurvivorThiefBrain.decoy_margin
          Jitter,          \* jitter_epsilon of the jittering variants, in tenths
          CentralFloor,    \* _CENTRAL_FLOOR of adaptive_police.py
          LaneFloor,       \* the centrality a lane needs to be worth a wall
          CageRange        \* _CAGE_RANGE of adaptive_police.py

\* The constructors make numbers of them and clamp these.
ASSUME BrainsAssumption ==
    /\ RecentWindow \in Nat /\ Jitter \in Nat /\ SealableExits \in Nat \ {0, 1}
    /\ {CageRadius, HerdK, MobilityK, DecoyMargin, CentralFloor, LaneFloor, CageRange} \subseteq Int

\* Below close_barrier_p, from there to barrier_finisher_p, and above it.
Grades == {"low", "close", "sure"}
Beliefs == [mode : Cells, grade : Grades]

\* The distances around the walls of a view, which carries their map.
Gap(v, a, c) == v.map[a][c]
Reachable(v, c, k) == {x \in Cells : Gap(v, c, x) <= k}

Step(d) == [type |-> "MOVE", dir |-> d]
Wall(d) == [type |-> "BARRIER", dir |-> d]
Hold == [type |-> "HOLD", dir |-> "STAY"]

-----------------------------------------------------------------------------
(* Ranking.                                                                *)

Magnitude(n) == IF n < 0 THEN -n ELSE n

Precedes(r, s) == \E i \in DOMAIN r : r[i] < s[i] /\ \A j \in 1 .. i - 1 : r[j] = s[j]

\* Of a set of ranked choices, those that none precedes.
Ranked(choice, rank) == [choice |-> choice, rank |-> rank]
Foremost(ranked) ==
    {m.choice : m \in {r \in ranked : \A n \in ranked : ~Precedes(n.rank, r.rank)}}

Order(d) == CHOOSE i \in DOMAIN MoveSet : MoveSet[i] = d
RowMajor(c) == c[1] * Size + c[2]

\* The first plan that offers anything: plans are tried in order.
FirstPlan(plans) ==
    UNION {plans[i] : i \in {j \in DOMAIN plans :
                                plans[j] # {} /\ \A k \in 1 .. j - 1 : plans[k] = {}}}

Toward(c, target) == CHOOSE d \in Directions : Shift(c, d) = target
Beyond(exit, target) == <<2 * exit[1] - target[1], 2 * exit[2] - target[2]>>

\* How far a cell is from the nearest edge on each axis, and whether on one.
Centrality(c) ==
    LET Inward(x) == IF x < Size - 1 - x THEN x ELSE Size - 1 - x
    IN  Inward(c[1]) + Inward(c[2])
EdgeOrCorner(c) == c[1] \in {0, Size - 1} \/ c[2] \in {0, Size - 1}

-----------------------------------------------------------------------------
(* InterceptorPoliceBrain (police.py).                                     *)

\* _uncertain_mode_patrol: search a fresh, roomy, central cell.
Patrol(v) ==
    LET Pull(c) == Magnitude(2 * c[1] - Size + 1) + Magnitude(2 * c[2] - Size + 1)
        Rank(d, c) == Ranked(d, <<IF c \in v.visited THEN 1 ELSE 0,
                                  -Cardinality(Reachable(v, c, HerdK)),
                                  Pull(c), Order(d)>>)
    IN  Foremost({Rank(d, Shift(v.pos, d)) : d \in Exits(v.pos, v.walls)})

\* _jail_completion: the least exit of the target, in reach, that is its last.
LastExits(v, target) ==
    {e \in {Shift(target, d) : d \in Exits(target, v.walls)} :
        e \in BarrierOptions(v.pos, v.walls) /\ Exits(target, v.walls \cup {e}) = {}}

\* _jail_staging_move: get beside the single exit of a camper at the edge.
Staging(v, target) ==
    LET exits == {Shift(target, d) : d \in Exits(target, v.walls)}
        beside == {d \in Exits(v.pos, v.walls) :
                      exits \subseteq BarrierOptions(Shift(v.pos, d), v.walls)}
        Rank(d, c, e) == Ranked(d, <<IF c = Beyond(e, target) THEN 0 ELSE 1,
                                     Gap(v, c, e),
                                     Gap(v, c, target), RowMajor(c)>>)
    IN  IF Cardinality(exits) = 1
        THEN Foremost({Rank(d, Shift(v.pos, d), e) : d \in beside, e \in exits})
        ELSE {}

\* Mutant: only a severed route counts as harm.
SelfHarmingSevered(v, target, wall) ==
    BfsDistance(v.pos, target, v.walls \cup {wall}) = Unreachable

\* _self_harming: the wall lengthens or severs the cop's own route.
SelfHarming(v, target, wall) ==
    LET after == BfsDistance(v.pos, target, v.walls \cup {wall})
    IN  after = Unreachable \/ after > Gap(v, v.pos, target)

\* _tempo_lane: the target's best escape lane the cop can wall at no cost.
TempoLane(v, target) ==
    LET lanes == {c \in {Shift(target, d) : d \in LegalMoves(target, v.walls)} :
                     /\ c \in BarrierOptions(v.pos, v.walls) \ {v.pos, target}
                     /\ ~SelfHarming(v, target, c)}
        Rank(c) == Ranked(c, <<-Gap(v, c, v.pos), RowMajor(c)>>)
    IN  IF Gap(v, v.pos, target) \in 1 .. CageRadius
        THEN Foremost({Rank(c) : c \in lanes}) ELSE {}

\* The ranking of _pick_move: distance, then the cells the target reaches
\* strictly first, then the cop's own mobility.
Chases(v, target) ==
    LET region == Reachable(v, target, HerdK)
        Rank(d, c) ==
            Ranked(d, <<Gap(v, c, target),
                        Cardinality({x \in region :
                            Gap(v, target, x) < Gap(v, c, x)}),
                        -Cardinality(Exits(c, v.walls)), Order(d)>>)
    IN  {Rank(d, Shift(v.pos, d)) : d \in LegalMoves(v.pos, v.walls)}

\* _pick_move: the best chase; a jittering brain draws among those whose
\* distance is within the jitter of the best.
Chase(v, target, jitter) ==
    LET chases == Chases(v, target)
        near   == {m \in chases : \A n \in chases : 10 * m.rank[1] <= 10 * n.rank[1] + jitter}
    IN  IF jitter > 0 THEN {m.choice : m \in near} ELSE Foremost(chases)

\* _pick_move followed by the refusal to stand still.
Pursuit(v, target, jitter) ==
    UNION {IF d = "STAY" /\ Patrol(v) # {} THEN Patrol(v) ELSE {d} :
              d \in Chase(v, target, jitter)}

\* _decide_move.  Landing on the mode comes before walling it.
InterceptorDecides(v, b, jitter) ==
    LET target  == b.mode
        options == BarrierOptions(v.pos, v.walls)
        quota   == v.used < MaxBarriers
        bold    == b.grade # "low"
        AtOnce(S)  == {Step(d) : d \in S}
        Build(S)   == {Wall(Toward(v.pos, c)) : c \in S}
        corral  == quota /\ bold /\ EdgeOrCorner(target)
    IN  FirstPlan(<<
          AtOnce(IF target = v.pos /\ b.grade # "sure" THEN Patrol(v) ELSE {}),
          AtOnce({d \in Exits(v.pos, v.walls) : b.grade = "sure" /\ Shift(v.pos, d) = target}),
          Build({c \in options : c = target /\ quota /\ b.grade = "sure"}),
          Build({c \in options : c = target /\ corral}),
          Build(IF corral
                THEN Foremost({Ranked(c, <<RowMajor(c)>>) : c \in LastExits(v, target)})
                ELSE {}),
          AtOnce(IF corral THEN Staging(v, target) ELSE {}),
          Build(IF quota THEN TempoLane(v, target) ELSE {}),
          AtOnce(Pursuit(v, target, jitter)),
          {Hold}>>)

-----------------------------------------------------------------------------
(* AdaptivePoliceBrain: cage a central thief, otherwise intercept.         *)

CageLanes(v, target) ==
    {d \in Exits(target, v.walls) :
        LET c == Shift(target, d)
        IN  /\ c \in BarrierOptions(v.pos, v.walls)
            /\ BfsDistance(v.pos, target, v.walls \cup {c}) # Unreachable}

AdaptiveDecides(v, b) ==
    LET gate  == /\ Centrality(b.mode) >= CentralFloor
                 /\ Gap(v, v.pos, b.mode) <= CageRange
                 /\ v.used < MaxBarriers
        Rank(d) == Ranked(d, <<-Centrality(Shift(b.mode, d)), Order(d)>>)
        cage  == IF gate THEN Foremost({Rank(d) : d \in CageLanes(v, b.mode)}) ELSE {}
        worth == {d \in cage : Centrality(Shift(b.mode, d)) >= LaneFloor}
    IN  IF worth # {}
        THEN {Wall(Toward(v.pos, Shift(b.mode, d))) : d \in worth}
        ELSE InterceptorDecides(v, b, 0)

-----------------------------------------------------------------------------
(* The baselines and archetypes of greedy.py and archetypes.py.  All but   *)
(* the greedy cop share BrainBase._decide_move: hold only without a move.  *)

Picks(ranked) == FirstPlan(<<{Step(d) : d \in Foremost(ranked)}, {Hold}>>)

RandomDecides(v) ==
    FirstPlan(<<{Step(d) : d \in LegalMoves(v.pos, v.walls)}, {Hold}>>)

GreedyThiefDecides(v, b) ==
    LET Rank(d, c) == Ranked(d, <<-Distance(c, b.mode), IF c \in v.visited THEN 1 ELSE 0,
                                  Order(d)>>)
    IN  Picks({Rank(d, Shift(v.pos, d)) : d \in LegalMoves(v.pos, v.walls)})

\* The coin turns the step into a wall on the cell it would have entered.
GreedyPoliceDecides(v, b) ==
    LET Rank(d) == Ranked(d, <<Distance(Shift(v.pos, d), b.mode), Order(d)>>)
        steps == Picks({Rank(d) : d \in LegalMoves(v.pos, v.walls)})
    IN  steps \cup {Wall(s.dir) : s \in {t \in steps : /\ t.type = "MOVE" /\ t.dir # "STAY"
                                                      /\ v.used < MaxBarriers}}

WallHuggerDecides(v, b) ==
    LET ToEdge(c) == LET gaps == {c[1], c[2], Size - 1 - c[1], Size - 1 - c[2]}
                     IN  CHOOSE g \in gaps : \A h \in gaps : g <= h
        Rank(d, c) == Ranked(d, <<ToEdge(c), -Distance(c, b.mode), Order(d)>>)
    IN  Picks({Rank(d, Shift(v.pos, d)) : d \in LegalMoves(v.pos, v.walls)})

CornerAmbushDecides(v, b) ==
    LET Corner(x) == IF 2 * x < Size THEN 0 ELSE Size - 1
        aim == IF Distance(v.pos, b.mode) <= 2 THEN b.mode
               ELSE <<Corner(b.mode[1]), Corner(b.mode[2])>>
        Rank(d) == Ranked(d, <<Distance(Shift(v.pos, d), aim), Order(d)>>)
    IN  Picks({Rank(d) : d \in LegalMoves(v.pos, v.walls)})

-----------------------------------------------------------------------------
(* SurvivorThiefBrain (thief.py), scores in tenths.                        *)

\* _trap_risky: the cop can still seal every real exit of the cell.  What it
\* has left to build is read off the walls on the board.
TrapRisky(v, c) ==
    LET exits == Cardinality(Exits(c, v.walls))
    IN  exits <= SealableExits /\ exits <= MaxBarriers - Cardinality(v.walls)

\* How recently a cell of the trail was first entered, 0 when it was not.
Recency(v, c) ==
    LET seen == {i \in DOMAIN v.trail : v.trail[i] = c}
    IN  IF seen = {} THEN 0
        ELSE Len(v.trail) + 1 - CHOOSE i \in seen : \A j \in seen : i <= j

\* Mutant: a penalty of the size of the others.
BanMild == 10

Ban == 14 * Unreachable + 10

\* The score of _pick_move; staying put is neither stale nor banned.
FleeScore(v, threat, d) ==
    LET c     == Shift(v.pos, d)
        moved == d # "STAY"
    IN  10 * Gap(v, c, threat)
        + 4 * Cardinality(Reachable(v, c, MobilityK))
        - (IF moved /\ c \in v.visited THEN 9 ELSE 0)
        - (IF moved THEN 6 * Recency(v, c) ELSE 0)
        - (IF moved /\ TrapRisky(v, c) THEN Ban ELSE 0)

\* _non_stay_escape: real motion that keeps the distance and enters no trap.
Escapes(v, threat) ==
    LET kept == {d \in Exits(v.pos, v.walls) :
                    LET c == Shift(v.pos, d)
                    IN  /\ Gap(v, c, threat) >= Gap(v, v.pos, threat)
                        /\ ~TrapRisky(v, c)}
        Rank(d, c) == Ranked(d, <<-Gap(v, c, threat),
                                  IF c \in v.visited THEN 1 ELSE 0,
                                  IF Recency(v, c) > 0 THEN 1 ELSE 0,
                                  -Cardinality(Reachable(v, c, MobilityK))>>)
    IN  Foremost({Rank(d, Shift(v.pos, d)) : d \in kept})

\* propose_decoy (decoy.py): with a margin to spend, the safe step farthest
\* from the one that would flee best.
Decoys(v, threat) ==
    LET flee == Gap(v, v.pos, threat)
        safe == {d \in Exits(v.pos, v.walls) :
                    LET c == Shift(v.pos, d)
                    IN  /\ Gap(v, c, threat) \in flee - 1 .. Unreachable - 1
                        /\ ~TrapRisky(v, c)}
        Run(c)   == Ranked(c, <<-Gap(v, c, threat), -RowMajor(c)>>)
        corridor == Foremost({Run(Shift(v.pos, d)) : d \in safe})
        Feint(d, c, e) == Ranked(d, <<-Distance(c, e), -RowMajor(c)>>)
    IN  IF flee \in DecoyMargin .. Unreachable - 1
        THEN Foremost({Feint(d, Shift(v.pos, d), e) : d \in safe, e \in corridor})
        ELSE {}

\* _pick_move: the best score, drawn within the jitter if there is one, kept
\* only if it moves without losing distance.
SurvivorDecides(v, b, jitter, decoy) ==
    LET moves == {[dir |-> d, score |-> FleeScore(v, b.mode, d)] : d \in LegalMoves(v.pos, v.walls)}
        best  == Foremost({Ranked(m.dir, <<-m.score, Order(m.dir)>>) : m \in moves})
        near  == {m.dir : m \in {n \in moves :
                     /\ \A o \in moves : o.score - n.score <= jitter
                     /\ n.dir = "STAY" \/ ~TrapRisky(v, Shift(v.pos, n.dir))}}
        first == IF jitter > 0 /\ near # {} THEN near ELSE best
        Moves(d) == d # "STAY" /\ Gap(v, Shift(v.pos, d), b.mode)
                                     >= Gap(v, v.pos, b.mode)
        settled == UNION {FirstPlan(<<{d} \cap {e \in first : Moves(e)},
                                      Escapes(v, b.mode), {d}>>) : d \in first}
        feint == IF decoy THEN Decoys(v, b.mode) ELSE {}
    IN  FirstPlan(<<{Step(d) : d \in feint}, {Step(d) : d \in settled}, {Hold}>>)

-----------------------------------------------------------------------------
(* CenterThief (center_thief.py): open ground, never nearer to the cop.    *)

\* Mutant: without a cell that is far enough, any will do.
CenterThiefDecidesBold(v, b) ==
    LET Away(c) == Gap(v, c, b.mode)
        far    == {d \in LegalMoves(v.pos, v.walls) : Away(Shift(v.pos, d)) >= 2}
        Rank(d, c) == Ranked(d, <<-Centrality(c), -Cardinality(Exits(c, v.walls)), -Away(c),
                                  RowMajor(c)>>)
    IN  Picks({Rank(d, Shift(v.pos, d)) :
                  d \in FirstPlan(<<far, LegalMoves(v.pos, v.walls)>>)})

CenterThiefDecides(v, b) ==
    LET Away(c) == Gap(v, c, b.mode)
        here   == Away(v.pos)
        AtLeast(n) == {d \in LegalMoves(v.pos, v.walls) : Away(Shift(v.pos, d)) >= n}
        safe   == FirstPlan(<<AtLeast(IF here > 2 THEN here ELSE 2), AtLeast(here),
                              LegalMoves(v.pos, v.walls)>>)
        Rank(d, c) == Ranked(d, <<-Centrality(c), -Cardinality(Exits(c, v.walls)), -Away(c),
                                  RowMajor(c)>>)
    IN  Picks({Rank(d, Shift(v.pos, d)) : d \in safe})

-----------------------------------------------------------------------------
(* resolve_brain: the brains a selector can name.                          *)

PoliceBrains == {"interceptor", "interceptor_jitter", "adaptive", "greedy_police",
                 "random_police", "corner_ambush"}
ThiefBrains == {"survivor", "survivor_jitter", "survivor_decoy", "center", "greedy_thief",
                "random_thief", "wall_hugger"}

Decides(brain, v, b) ==
    CASE brain = "interceptor"        -> InterceptorDecides(v, b, 0)
      [] brain = "interceptor_jitter" -> InterceptorDecides(v, b, Jitter)
      [] brain = "adaptive"           -> AdaptiveDecides(v, b)
      [] brain = "greedy_police"      -> GreedyPoliceDecides(v, b)
      [] brain = "corner_ambush"      -> CornerAmbushDecides(v, b)
      [] brain = "survivor"           -> SurvivorDecides(v, b, 0, FALSE)
      [] brain = "survivor_jitter"    -> SurvivorDecides(v, b, Jitter, FALSE)
      [] brain = "survivor_decoy"     -> SurvivorDecides(v, b, 0, TRUE)
      [] brain = "center"             -> CenterThiefDecides(v, b)
      [] brain = "greedy_thief"       -> GreedyThiefDecides(v, b)
      [] brain = "wall_hugger"        -> WallHuggerDecides(v, b)
      [] OTHER                        -> RandomDecides(v)

=============================================================================
