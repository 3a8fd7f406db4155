---------------------------- MODULE ArenaProofs -----------------------------
(***************************************************************************)
(* What holds of every game of the Arena, on any board, from any starts,   *)
(* under any quota and against any belief: the referee misses no capture,  *)
(* no brain invents a cell, and what the strategies promise about traps,   *)
(* routes and the distance to the cop is kept.                             *)
(***************************************************************************)
EXTENDS Arena, FiniteSetTheorems, SequenceTheorems, WellFoundedInduction, TLAPS

\* The move set of the book: four steps and staying put (Table 15).
AllMoves == Directions \subseteq Negotiated

\* The players never start on one cell.
ApartStarts == \A s \in Starts : s[1] # s[2]

-----------------------------------------------------------------------------
(* Least elements.                                                         *)

\* A set of numbers has a least one.
LEMMA LeastOf ==
    ASSUME NEW T, T \subseteq Nat, T # {}
    PROVE  \E m \in T : \A k \in T : m <= k
  <1>1. PICK m \in T : \A k \in T : <<k, m>> \notin OpToRel(<, Nat)
    BY WFMin, NatLessThanWellFounded, Zenon
  <1>2. ASSUME NEW k \in T PROVE m <= k
    <2>1. k \in Nat /\ m \in Nat
      OBVIOUS
    <2>2. ~(k < m)
      BY <1>1, <2>1 DEF OpToRel
    <2>. QED  BY <2>1, <2>2
  <1>. QED  BY <1>2

\* A ranking of length n.
IsRank(r, n) == DOMAIN r = 1 .. n /\ \A i \in 1 .. n : r[i] \in Int

LEMMA PrecedesOnce ==
    ASSUME NEW n \in Nat, NEW a, IsRank(a, n)
    PROVE  ~Precedes(a, a)
  BY DEF IsRank, Precedes

LEMMA PrecedesOn ==
    ASSUME NEW n \in Nat, NEW a, NEW b, NEW c, IsRank(a, n), IsRank(b, n), IsRank(c, n),
           Precedes(a, b), Precedes(b, c)
    PROVE  Precedes(a, c)
  <1>1. PICK i \in 1 .. n : a[i] < b[i] /\ \A j \in 1 .. i - 1 : a[j] = b[j]
    BY DEF Precedes, IsRank
  <1>2. PICK k \in 1 .. n : b[k] < c[k] /\ \A j \in 1 .. k - 1 : b[j] = c[j]
    BY DEF Precedes, IsRank
  <1>3. CASE i <= k
    <2>1. a[i] < c[i]
      BY <1>1, <1>2, <1>3, SMTT(30) DEF IsRank
    <2>2. \A j \in 1 .. i - 1 : a[j] = c[j]
      BY <1>1, <1>2, <1>3
    <2>. QED  BY <2>1, <2>2 DEF Precedes, IsRank
  <1>4. CASE k < i
    <2>1. a[k] < c[k]
      BY <1>1, <1>2, <1>4 DEF IsRank
    <2>2. \A j \in 1 .. k - 1 : a[j] = c[j]
      BY <1>1, <1>2, <1>4
    <2>. QED  BY <2>1, <2>2 DEF Precedes, IsRank
  <1>. QED  BY <1>3, <1>4

\* Of finitely many ranked choices one is not preceded.
LEMMA SomeForemost ==
    ASSUME NEW S, IsFiniteSet(S), S # {}, NEW n \in Nat, NEW f,
           \A x \in S : IsRank(f[x], n)
    PROVE  \E x \in S : \A y \in S : ~Precedes(f[y], f[x])
  <1> DEFINE Without(s) == s # {} /\ ~\E x \in s : \A y \in s : ~Precedes(f[y], f[x])
             T == {k \in Nat : \E s \in SUBSET S : Without(s) /\ Cardinality(s) = k}
  <1>1. \A s \in SUBSET S : IsFiniteSet(s) /\ Cardinality(s) \in Nat
    BY FS_Subset, FS_CardinalityType
  <1>2. SUFFICES ASSUME T # {} PROVE FALSE
    <2>1. ASSUME Without(S) PROVE Cardinality(S) \in T
      BY <1>1, <2>1
    <2>. QED  BY <1>2, <2>1
  <1>3. PICK k \in T : \A m \in T : k <= m
    BY <1>2, LeastOf
  <1>4. PICK s \in SUBSET S : Without(s) /\ Cardinality(s) = k
    BY <1>3
  <1>5. PICK r \in s : TRUE
    BY <1>4
  <1>6. PICK u : u = {x \in s : Precedes(f[x], f[r])}
    OBVIOUS
  <1>7. u # {} /\ u \in SUBSET s /\ r \notin u
    BY <1>4, <1>5, <1>6, PrecedesOnce
  <1>8. Cardinality(u) < k /\ Cardinality(u) \in Nat
    <2>1. IsFiniteSet(s) /\ u \in SUBSET S
      BY <1>1, <1>4, <1>7
    <2>2. Cardinality(u) <= Cardinality(s) /\ (Cardinality(s) = Cardinality(u) => s = u)
      BY <1>7, <2>1, FS_Subset
    <2>. QED  BY <1>1, <1>4, <1>5, <1>7, <2>1, <2>2
  <1>9. PICK x \in u : \A y \in u : ~Precedes(f[y], f[x])
    <2>1. u \in SUBSET S /\ Cardinality(u) \notin T
      BY <1>3, <1>4, <1>7, <1>8
    <2>2. ~Without(u)
      BY <1>8, <2>1
    <2>. QED  BY <1>7, <2>2
  <1>10. ASSUME NEW y \in s PROVE ~Precedes(f[y], f[x])
    <2>1. SUFFICES ASSUME Precedes(f[y], f[x]) PROVE FALSE
      OBVIOUS
    <2>2. Precedes(f[x], f[r]) /\ x \in s
      BY <1>6, <1>9
    <2>3. Precedes(f[y], f[r])
      BY <1>4, <1>5, <2>1, <2>2, PrecedesOn
    <2>. QED  BY <1>6, <1>9, <2>1, <2>3
  <1>. QED  BY <1>4, <1>7, <1>9, <1>10

\* R ranks the choices of S by n numbers each.
Ranking(R, S, f, n) ==
    /\ IsFiniteSet(S) /\ \A x \in S : IsRank(f[x], n)
    /\ R = {Ranked(x, f[x]) : x \in S}

\* Among finitely many choices some one is foremost: no brain is left without.
LEMMA ForemostFound ==
    ASSUME NEW R, NEW S, NEW f, NEW n \in Nat, Ranking(R, S, f, n), S # {}
    PROVE  Foremost(R) # {}
  <1>1. IsFiniteSet(S) /\ \A x \in S : IsRank(f[x], n)
    BY DEF Ranking
  <1>2. PICK x \in S : \A y \in S : ~Precedes(f[y], f[x])
    BY <1>1, SomeForemost
  <1>3. R = {Ranked(y, f[y]) : y \in S}
    BY DEF Ranking
  <1>4. Ranked(x, f[x]).choice = x /\ \A y \in S : Ranked(y, f[y]).rank = f[y]
    BY DEF Ranked
  <1>. QED  BY <1>2, <1>3, <1>4 DEF Foremost

\* What is foremost was among the choices.
LEMMA ForemostOf ==
    ASSUME NEW R, NEW c \in Foremost(R)
    PROVE  \E m \in R : c = m.choice /\ \A n \in R : ~Precedes(n.rank, m.rank)
  BY DEF Foremost

\* The first plan that offers anything.
LEMMA FirstOf ==
    ASSUME NEW plans, NEW d \in FirstPlan(plans)
    PROVE  \E j \in DOMAIN plans : d \in plans[j] /\ \A k \in 1 .. j - 1 : plans[k] = {}
  BY DEF FirstPlan

LEMMA FirstFound ==
    ASSUME NEW plans, NEW n \in Nat, DOMAIN plans = 1 .. n, NEW i \in 1 .. n, plans[i] # {}
    PROVE  FirstPlan(plans) # {}
  <1>1. PICK T : T = {j \in 1 .. n : plans[j] # {}}
    OBVIOUS
  <1>2. PICK j \in T : \A k \in T : j <= k
    <2>1. T \subseteq Nat /\ T # {}
      BY <1>1
    <2>. QED  BY <2>1, LeastOf
  <1>3. \A k \in 1 .. j - 1 : plans[k] = {}
    BY <1>1, <1>2
  <1>. QED  BY <1>1, <1>2, <1>3 DEF FirstPlan

-----------------------------------------------------------------------------
(* The board and the distances on it.                                      *)

LEMMA CellsAre ==
    /\ IsFiniteSet(Cells) /\ Cardinality(Cells) = Unreachable /\ Unreachable \in Nat
    /\ \A c \in Cells : c[1] \in Int /\ c[2] \in Int /\ c = <<c[1], c[2]>>
  <1>1. /\ IsFiniteSet(0 .. Size - 1) /\ Cardinality(0 .. Size - 1) = Size
    BY BoardAssumption, FS_Interval
  <1>2. IsFiniteSet(Cells) /\ Cardinality(Cells) = Size * Size
    BY <1>1, FS_Product DEF Cells
  <1>3. Size * Size \in Nat
    BY BoardAssumption
  <1>4. \A c \in Cells : c[1] \in Int /\ c[2] \in Int /\ c = <<c[1], c[2]>>
    BY BoardAssumption DEF Cells
  <1>. QED  BY <1>2, <1>3, <1>4 DEF Unreachable

LEMMA MovesAre == Negotiated \subseteq Directions
  BY BoardAssumption DEF Negotiated

\* Staying put, and the way back.
LEMMA Stays == ASSUME NEW c \in Cells PROVE Shift(c, "STAY") = c
  BY CellsAre DEF Shift, Delta

LEMMA WayBack ==
    ASSUME AllMoves, NEW c \in Cells, NEW w, c \notin w, NEW d \in Orthogonals
    PROVE  ~Jailed(Shift(c, d), w)
  <1>1. c[1] \in Int /\ c[2] \in Int /\ c = <<c[1], c[2]>>
    BY CellsAre
  <1> DEFINE e == IF d = "N" THEN "S" ELSE IF d = "S" THEN "N" ELSE IF d = "E" THEN "W" ELSE "E"
  <1>2. e \in Orthogonals /\ Shift(Shift(c, d), e) = c
    BY <1>1 DEF Shift, Delta, Orthogonals
  <1>3. CanStep(Shift(c, d), e, w)
    BY <1>2 DEF CanStep, AllMoves, Orthogonals, Directions
  <1>. QED  BY <1>2, <1>3 DEF Jailed

\* Where two players stand apart nobody starts in jail.
LEMMA OpenBoard ==
    ASSUME AllMoves, NEW a \in Cells, NEW b \in Cells, a # b
    PROVE  ~Jailed(a, {})
  <1>1. /\ Size \in Nat /\ a[1] \in 0 .. Size - 1 /\ a[2] \in 0 .. Size - 1
        /\ b[1] \in 0 .. Size - 1 /\ b[2] \in 0 .. Size - 1
        /\ a = <<a[1], a[2]>> /\ b = <<b[1], b[2]>>
    BY BoardAssumption DEF Cells
  <1>2. Size > 1
    BY <1>1
  <1> DEFINE d == IF a[1] = 0 THEN "S" ELSE "N"
  <1>3. d \in Orthogonals /\ Shift(a, d) \in Cells
    BY <1>1, <1>2 DEF Shift, Delta, Orthogonals, Cells
  <1>4. CanStep(a, d, {})
    BY <1>3 DEF CanStep, AllMoves, Orthogonals, Directions
  <1>. QED  BY <1>3, <1>4 DEF Jailed

LEMMA StoredIs == ASSUME NEW f PROVE Stored(f) = f
  BY DEF Stored

\* One ring more.
More(walls, s) == s \cup (UNION {Neighbors(c) : c \in s} \ walls)

IsRings(g, origin, walls, k) ==
    g = [n \in 0 .. k |-> IF n = 0 THEN {origin} ELSE More(walls, g[n - 1])]

\* The rings are what their recursion says.
LEMMA RingsExist ==
    ASSUME NEW origin, NEW walls, NEW k \in Nat
    PROVE  \E g : IsRings(g, origin, walls, k)
  <1> USE DEF IsRings
  <1> DEFINE Grows(m) == \E g : IsRings(g, origin, walls, m)
             T == {m \in Nat : ~Grows(m)}
  <1>1. SUFFICES ASSUME T # {} PROVE FALSE
    BY <1>1
  <1>2. PICK m \in T : \A j \in T : m <= j
    BY <1>1, LeastOf
  <1>3. CASE m = 0
    <2>1. PICK g : g = [n \in 0 .. 0 |-> {origin}]
      OBVIOUS
    <2>2. g = [n \in 0 .. 0 |-> IF n = 0 THEN {origin} ELSE More(walls, g[n - 1])]
      BY <2>1
    <2>3. Grows(0)
      BY <2>2
    <2>. QED  BY <1>2, <1>3, <2>3
  <1>4. CASE m # 0
    <2>1. m - 1 \in Nat /\ m - 1 \notin T
      <3>1. m \in Nat /\ m - 1 \in Nat /\ ~(m <= m - 1)
        BY <1>2, <1>4
      <3>. QED  BY <1>2, <3>1
    <2>2. PICK g : g = [n \in 0 .. m - 1 |-> IF n = 0 THEN {origin} ELSE More(walls, g[n - 1])]
      BY <2>1
    <2>3. PICK h : h = [n \in 0 .. m |-> IF n = 0 THEN {origin} ELSE More(walls, g[n - 1])]
      OBVIOUS
    <2>4. \A n \in 0 .. m - 1 : h[n] = g[n]
      <3>1. ASSUME NEW n \in 0 .. m - 1 PROVE h[n] = g[n]
        <4>1. n \in 0 .. m
          BY <1>2, <3>1
        <4>2. h[n] = IF n = 0 THEN {origin} ELSE More(walls, g[n - 1])
          BY <2>3, <4>1
        <4>3. g[n] = IF n = 0 THEN {origin} ELSE More(walls, g[n - 1])
          BY <2>2, <3>1
        <4>. QED  BY <4>2, <4>3
      <3>. QED  BY <3>1
    <2>5. \A n \in 0 .. m : n # 0 => n - 1 \in 0 .. m - 1
      BY <1>2
    <2>6. h = [n \in 0 .. m |-> IF n = 0 THEN {origin} ELSE More(walls, h[n - 1])]
      BY <2>3, <2>4, <2>5
    <2>7. Grows(m)
      BY <2>6
    <2>. QED  BY <1>2, <2>7
  <1>. QED  BY <1>3, <1>4

LEMMA RingsAre ==
    ASSUME NEW origin, NEW walls
    PROVE  Rings(origin, walls)
             = [n \in 0 .. Unreachable |->
                  IF n = 0 THEN {origin} ELSE More(walls, Rings(origin, walls)[n - 1])]
  <1>1. \E g : IsRings(g, origin, walls, Unreachable)
    BY CellsAre, RingsExist
  <1>2. Rings(origin, walls) = CHOOSE g : IsRings(g, origin, walls, Unreachable)
    BY Zenon DEF Rings, More, IsRings
  <1>3. IsRings(Rings(origin, walls), origin, walls, Unreachable)
    BY <1>1, <1>2, Zenon
  <1>. QED  BY <1>3 DEF IsRings

\* The origin is in every ring, and alone in the first.
LEMMA RingsHold ==
    ASSUME NEW origin, NEW walls
    PROVE  /\ Rings(origin, walls)[0] = {origin}
           /\ \A n \in 0 .. Unreachable : origin \in Rings(origin, walls)[n]
  <1>1. PICK r : r = Rings(origin, walls)
    OBVIOUS
  <1>2. r = [n \in 0 .. Unreachable |-> IF n = 0 THEN {origin} ELSE More(walls, r[n - 1])]
    BY <1>1, RingsAre
  <1>3. r[0] = {origin}
    BY <1>2, CellsAre
  <1>4. PICK T : T = {n \in 0 .. Unreachable : origin \notin r[n]}
    OBVIOUS
  <1>5. T = {}
    <2>1. SUFFICES ASSUME T # {} PROVE FALSE
      OBVIOUS
    <2>2. T \subseteq Nat
      BY <1>4, CellsAre
    <2>3. PICK n \in T : \A m \in T : n <= m
      BY <2>1, <2>2, LeastOf
    <2>4. n # 0 /\ n - 1 \in 0 .. Unreachable /\ n - 1 \notin T
      BY <1>3, <1>4, <2>3, CellsAre
    <2>5. r[n] = More(walls, r[n - 1]) /\ origin \in r[n - 1]
      BY <1>2, <1>4, <2>3, <2>4
    <2>. QED  BY <1>4, <2>3, <2>5 DEF More
  <1>. QED  BY <1>1, <1>3, <1>4, <1>5

LEMMA StepsAre ==
    ASSUME NEW rings, NEW c
    PROVE  Steps(rings, c) \in 0 .. Unreachable
  <1>1. PICK S : S = {n \in 0 .. Unreachable : c \notin rings[n]}
    OBVIOUS
  <1>2. CASE c \in rings[Unreachable]
    <2>1. S \in SUBSET (0 .. Unreachable - 1)
      BY <1>1, <1>2, CellsAre
    <2>2. IsFiniteSet(0 .. Unreachable - 1) /\ Cardinality(0 .. Unreachable - 1) = Unreachable
      <3>1. PICK u : u = Unreachable - 1
        OBVIOUS
      <3>2. u \in Int /\ u + 1 = Unreachable /\ (0 > u => Unreachable = 0)
        BY <3>1, CellsAre
      <3>3. IsFiniteSet(0 .. u) /\ Cardinality(0 .. u) = IF 0 > u THEN 0 ELSE u - 0 + 1
        BY <3>2, FS_Interval
      <3>. QED  BY <3>1, <3>2, <3>3
    <2>3. IsFiniteSet(S) /\ Cardinality(S) <= Unreachable /\ Cardinality(S) \in Nat
      BY <2>1, <2>2, FS_Subset, FS_CardinalityType
    <2>. QED  BY <1>1, <1>2, <2>3, CellsAre DEF Steps
  <1>3. CASE c \notin rings[Unreachable]
    BY <1>3, CellsAre DEF Steps
  <1>. QED  BY <1>2, <1>3

\* What the table says: a distance, and nothing but the cell itself is at none.
LEMMA DistancesAre ==
    ASSUME NEW walls \in WallSets, NEW a \in Cells, NEW c \in Cells
    PROVE  /\ BfsDistance(a, c, walls) \in 0 .. Unreachable
           /\ Distances[walls][a][c] = BfsDistance(a, c, walls)
           /\ BfsDistance(a, c, walls) = 0 <=> a = c
  <1>1. PICK rings : rings = Rings(a, walls)
    OBVIOUS
  <1>2. BfsDistance(a, c, walls) = Steps(rings, c) /\ Distances[walls][a][c] = Steps(rings, c)
    <2>1. Distances = [w \in WallSets |->
                         Stored([o \in Cells |->
                            Stored([x \in Cells |-> Steps(Stored(Rings(o, w)), x)])])]
      BY StoredIs, Zenon DEF Distances
    <2>2. Distances[walls] = [o \in Cells |->
                            Stored([x \in Cells |-> Steps(Stored(Rings(o, walls)), x)])]
      BY <2>1, StoredIs
    <2>3. Distances[walls][a] = [x \in Cells |-> Steps(Stored(Rings(a, walls)), x)]
      BY <2>2, StoredIs
    <2>4. Distances[walls][a][c] = Steps(rings, c)
      BY <1>1, <2>3, StoredIs
    <2>. QED  BY <2>4 DEF BfsDistance
  <1>3. rings[0] = {a} /\ \A n \in 0 .. Unreachable : a \in rings[n]
    BY <1>1, RingsHold
  <1>4. PICK S : S = {n \in 0 .. Unreachable : c \notin rings[n]}
    OBVIOUS
  <1>5. IsFiniteSet(S)
    <2>1. S \in SUBSET (0 .. Unreachable)
      BY <1>4
    <2>2. IsFiniteSet(0 .. Unreachable)
      <3>1. 0 \in Int /\ Unreachable \in Int
        BY CellsAre
      <3>. QED  BY <3>1, FS_Interval
    <2>. QED  BY <2>1, <2>2, FS_Subset
  <1>6. CASE a = c
    <2>1. S = {} /\ c \in rings[Unreachable]
      BY <1>3, <1>4, <1>6, CellsAre
    <2>. QED  BY <1>2, <1>4, <1>6, <2>1, StepsAre, FS_EmptySet DEF Steps
  <1>7. CASE a # c
    <2>1. 0 \in S /\ Unreachable # 0
      <3>1. Unreachable # 0
        BY CellsAre, FS_EmptySet
      <3>. QED  BY <1>3, <1>4, <1>7, <3>1, CellsAre
    <2>2. Cardinality(S) # 0
      BY <1>5, <2>1, FS_EmptySet
    <2>. QED  BY <1>2, <1>4, <1>7, <2>1, <2>2, StepsAre DEF Steps
  <1>. QED  BY <1>6, <1>7

-----------------------------------------------------------------------------
(* The referee.                                                            *)

\* What keeps the types, and the ceilings.
Bounded ==
    /\ barriers \in WallSets
    /\ turn # "over" => counter < SurvivalThreshold
    /\ turn = "cop" => copSteps < MaxMoves

GameInv == TypeOK /\ Bounded /\ NoMissedCapture

LEMMA TrailType ==
    ASSUME TypeOK
    PROVE  Trail \in Seq(Cells) /\ Len(Trail) <= RecentWindow
  <1>1. thief.trail \in Seq(Cells) /\ thief.pos \in Cells
    BY DEF TypeOK
  <1>2. PICK longer : longer = Append(thief.trail, thief.pos)
    OBVIOUS
  <1>3. longer \in Seq(Cells) /\ Len(longer) = Len(thief.trail) + 1 /\ Len(thief.trail) \in Nat
    BY <1>1, <1>2
  <1>4. PICK n, m : n = Len(longer) /\ m = IF n - RecentWindow > 0 THEN n - RecentWindow + 1 ELSE 1
    OBVIOUS
  <1>5. /\ n \in Nat /\ m \in Int /\ m >= 1
        /\ (m <= n => n - m + 1 <= RecentWindow) /\ 0 <= RecentWindow
    BY <1>3, <1>4, BrainsAssumption
  <1>6. Trail = SubSeq(longer, m, n)
    BY <1>2, <1>4 DEF Trail
  <1>7. \A i \in m .. n : longer[i] \in Cells
    BY <1>3, <1>4, <1>5, ElementOfSeq
  <1>8. /\ SubSeq(longer, m, n) \in Seq(Cells)
        /\ Len(SubSeq(longer, m, n)) = IF m <= n THEN n - m + 1 ELSE 0
    BY <1>5, <1>7, SubSeqProperties
  <1>. QED  BY <1>5, <1>6, <1>8

LEMMA GameInit == ASSUME AllMoves, ApartStarts, Init PROVE GameInv
  <1>1. PICK s \in Starts : /\ cop = [pos |-> s[1], visited |-> {s[1]}]
                            /\ thief = [pos |-> s[2], visited |-> {s[2]}, trail |-> <<>>]
    BY DEF Init
  <1>2. s[1] \in Cells /\ s[2] \in Cells /\ s[1] # s[2]
    BY ArenaAssumption DEF ApartStarts
  <1>3. /\ brains \in Pairings /\ barriers = {} /\ counter = 0 /\ copSteps = 0
        /\ turn = "thief" /\ outcome = Playing
    BY DEF Init
  <1>4. <<>> \in Seq(Cells) /\ Len(<<>>) <= RecentWindow
    BY BrainsAssumption
  <1>5. TypeOK
    BY <1>1, <1>2, <1>3, <1>4, ArenaAssumption DEF TypeOK, Playing, Verdict
  <1>6. Bounded
    BY <1>3, ArenaAssumption, QuotaAssumption, FS_EmptySet DEF Bounded, WallSets
  <1>7. ~Jailed(thief.pos, {})
    BY <1>1, <1>2, OpenBoard
  <1>8. NoMissedCapture
    BY <1>1, <1>2, <1>3, <1>7 DEF NoMissedCapture
  <1>. QED  BY <1>5, <1>6, <1>8 DEF GameInv

LEMMA Verdicts ==
    /\ Landing # Playing /\ Walled # Playing /\ Caged # Playing
    /\ Survived # Playing /\ Raised # Playing
    /\ Raised \notin {Landing, Walled, Caged, Survived, Playing}
  BY DEF Landing, Walled, Caged, Survived, Raised, Playing, Verdict

\* The thief's half of a round.
LEMMA ThiefKeeps ==
    ASSUME AllMoves, GameInv, turn = "thief", NEW decision, ThiefMoves(decision)
    PROVE  GameInv'
  <1>1. PICK dest : dest = Shift(thief.pos, decision.dir)
    OBVIOUS
  <1>2. /\ decision.dir \in Negotiated /\ dest \in Cells /\ dest \notin barriers
        /\ thief' = [pos |-> dest, visited |-> thief.visited \cup {dest}, trail |-> Trail]
        /\ counter' = counter + 1
        /\ UNCHANGED <<brains, cop, barriers, copSteps>>
    BY <1>1 DEF ThiefMoves, Refused, CanStep
  <1>3. /\ outcome = Playing /\ thief.pos \in Cells /\ thief.visited \in SUBSET Cells
        /\ counter \in Nat /\ counter < SurvivalThreshold /\ copSteps \in 0 .. MaxMoves
    BY ArenaAssumption DEF GameInv, TypeOK, Bounded
  <1>4. CASE dest = cop.pos
    <2>1. turn' = "over" /\ outcome' = Landing
      BY <1>1, <1>4 DEF ThiefMoves, Finish
    <2>2. TypeOK'
      BY <1>2, <1>3, <2>1, Verdicts, TrailType, ArenaAssumption DEF GameInv, TypeOK
    <2>. QED  BY <1>2, <2>1, <2>2, Verdicts DEF GameInv, Bounded, NoMissedCapture
  <1>5. CASE dest # cop.pos /\ (counter' >= SurvivalThreshold \/ copSteps >= MaxMoves)
    <2>1. turn' = "over" /\ outcome' = Survived
      BY <1>1, <1>5 DEF ThiefMoves, Finish
    <2>2. TypeOK'
      BY <1>2, <1>3, <2>1, Verdicts, TrailType, ArenaAssumption DEF GameInv, TypeOK
    <2>. QED  BY <1>2, <2>1, <2>2, Verdicts DEF GameInv, Bounded, NoMissedCapture
  <1>6. CASE dest # cop.pos /\ ~(counter' >= SurvivalThreshold \/ copSteps >= MaxMoves)
    <2>1. turn' = "cop" /\ outcome' = Playing
      BY <1>1, <1>3, <1>6 DEF ThiefMoves, Continue
    <2>2. TypeOK'
      BY <1>2, <1>3, <2>1, TrailType, ArenaAssumption DEF GameInv, TypeOK
    <2>3. Bounded'
      BY <1>2, <1>3, <1>6, <2>1, ArenaAssumption DEF GameInv, Bounded
    <2>4. ~Jailed(dest, barriers)
      <3>1. CASE decision.dir = "STAY"
        BY <1>1, <1>3, <3>1, Stays DEF GameInv, NoMissedCapture
      <3>2. CASE decision.dir # "STAY"
        <4>1. decision.dir \in Orthogonals
          BY <1>2, <3>2, MovesAre DEF Directions, Orthogonals
        <4>2. thief.pos \notin barriers
          BY <1>3 DEF GameInv, NoMissedCapture
        <4>. QED  BY <1>1, <1>3, <4>1, <4>2, WayBack
      <3>. QED  BY <3>1, <3>2
    <2>5. NoMissedCapture'
      BY <1>2, <1>6, <2>4 DEF NoMissedCapture
    <2>. QED  BY <2>2, <2>3, <2>5 DEF GameInv
  <1>. QED  BY <1>4, <1>5, <1>6

\* The cop's step.
LEMMA CopStepKeeps ==
    ASSUME GameInv, turn = "cop", copSteps' = copSteps + 1, NEW decision, CopMoves(decision)
    PROVE  GameInv'
  <1>1. PICK dest : dest = Shift(cop.pos, decision.dir)
    OBVIOUS
  <1>2. /\ dest \in Cells
        /\ cop' = [pos |-> dest, visited |-> cop.visited \cup {dest}]
        /\ UNCHANGED <<brains, thief, barriers, counter>>
    BY <1>1 DEF CopMoves, Refused, CanStep
  <1>3. outcome = Playing /\ copSteps \in 0 .. MaxMoves /\ copSteps < MaxMoves
    BY DEF GameInv, TypeOK, Bounded
  <1>4. \/ dest = thief.pos /\ turn' = "over" /\ outcome' = Landing
        \/ dest # thief.pos /\ turn' = "thief" /\ outcome' = Playing
    BY <1>1, <1>3 DEF CopMoves, Finish, Continue
  <1>5. TypeOK'
    BY <1>2, <1>3, <1>4, Verdicts, ArenaAssumption DEF GameInv, TypeOK
  <1>6. Bounded'
    BY <1>2, <1>4 DEF GameInv, Bounded
  <1>7. NoMissedCapture'
    BY <1>2, <1>3, <1>4, Verdicts DEF GameInv, NoMissedCapture
  <1>. QED  BY <1>5, <1>6, <1>7 DEF GameInv

LEMMA OptionsAre ==
    ASSUME NEW c \in Cells, NEW walls
    PROVE  BarrierOptions(c, walls) \subseteq Cells \ walls
  BY DEF BarrierOptions, CanStep

\* One more wall is still within the quota.
LEMMA WallAdded ==
    ASSUME NEW walls \in WallSets, NEW c \in Cells, Cardinality(walls) < MaxBarriers
    PROVE  walls \cup {c} \in WallSets
  <1>1. walls \in SUBSET Cells /\ IsFiniteSet(walls)
    BY CellsAre, FS_Subset DEF WallSets
  <1>2. Cardinality(walls) \in Nat
    BY <1>1, FS_CardinalityType
  <1>3. Cardinality(walls \cup {c}) = IF c \in walls THEN Cardinality(walls) ELSE Cardinality(walls) + 1
    BY <1>1, FS_AddElement
  <1>4. Cardinality(walls \cup {c}) <= MaxBarriers
    BY <1>2, <1>3, QuotaAssumption
  <1>. QED  BY <1>1, <1>4 DEF WallSets

\* The cop's wall.
LEMMA CopWallKeeps ==
    ASSUME GameInv, turn = "cop", copSteps' = copSteps + 1, NEW decision, CopBuilds(decision)
    PROVE  GameInv'
  <1>1. PICK cell : cell = Shift(cop.pos, decision.dir)
    OBVIOUS
  <1>2. /\ cell \in BarrierOptions(cop.pos, barriers) /\ Cardinality(barriers) < MaxBarriers
        /\ barriers' = barriers \cup {cell}
        /\ UNCHANGED <<brains, cop, thief, counter>>
    BY <1>1 DEF CopBuilds, MayBuild
  <1>3. outcome = Playing /\ copSteps \in 0 .. MaxMoves /\ copSteps < MaxMoves /\ cop.pos \in Cells
    BY DEF GameInv, TypeOK, Bounded
  <1>4. cell \in Cells
    BY <1>2, <1>3, OptionsAre
  <1>5. \/ cell = thief.pos /\ turn' = "over" /\ outcome' = Walled
        \/ cell # thief.pos /\ turn' = "over" /\ outcome' = Caged
        \/ /\ cell # thief.pos /\ ~Jailed(thief.pos, barriers')
           /\ turn' = "thief" /\ outcome' = Playing
    BY <1>1, <1>3 DEF CopBuilds, Finish, Continue
  <1>6. TypeOK'
    BY <1>2, <1>3, <1>4, <1>5, Verdicts, ArenaAssumption DEF GameInv, TypeOK
  <1>7. Bounded'
    BY <1>2, <1>4, <1>5, WallAdded DEF GameInv, Bounded
  <1>8. NoMissedCapture'
    BY <1>2, <1>3, <1>5, Verdicts DEF GameInv, NoMissedCapture
  <1>. QED  BY <1>6, <1>7, <1>8 DEF GameInv

LEMMA CopRefusedKeeps ==
    ASSUME GameInv, turn = "cop", copSteps' = copSteps + 1, NEW decision, CopRefused(decision)
    PROVE  GameInv'
  <1>1. /\ turn' = "over" /\ outcome' = Raised
        /\ UNCHANGED <<brains, cop, thief, barriers, counter>>
    BY DEF CopRefused, Finish
  <1>2. copSteps \in 0 .. MaxMoves /\ copSteps < MaxMoves
    BY DEF GameInv, TypeOK, Bounded
  <1>3. TypeOK'
    BY <1>1, <1>2, Verdicts, ArenaAssumption DEF GameInv, TypeOK
  <1>. QED  BY <1>1, <1>3, Verdicts DEF GameInv, Bounded, NoMissedCapture

LEMMA GameStep == ASSUME AllMoves, GameInv, [Next]_vars PROVE GameInv'
  <1>1. CASE UNCHANGED vars
    BY <1>1 DEF vars, GameInv, TypeOK, Bounded, NoMissedCapture
  <1>2. CASE ThiefTurn
    BY <1>2, ThiefKeeps DEF ThiefTurn
  <1>3. CASE CopTurn
    BY <1>3, CopStepKeeps, CopWallKeeps, CopRefusedKeeps DEF CopTurn
  <1>. QED  BY <1>1, <1>2, <1>3 DEF Next, Over

LEMMA GameInvariant == ASSUME AllMoves, ApartStarts PROVE Spec => []GameInv
  <1>1. Init => GameInv
    BY GameInit
  <1>2. GameInv /\ [Next]_vars => GameInv'
    BY GameStep
  <1>. QED  BY <1>1, <1>2, PTL DEF Spec

\* TypeOK and Bounded, of play_subgame (lab/arena.py): whatever the brains
\* decide, nobody leaves the board, the counters stay within the signed
\* thresholds, and the barriers within the quota; a game is over exactly when
\* it has an outcome.
THEOREM ArenaTypes == ASSUME AllMoves, ApartStarts PROVE Spec => [](TypeOK /\ Bounded)
  <1>1. GameInv => TypeOK /\ Bounded
    BY DEF GameInv
  <1>. QED  BY <1>1, GameInvariant, PTL

\* NoMissedCapture, of the referee of lab/arena.py: while a game goes on the
\* players stand apart and the thief can leave its cell, whatever the brains
\* decide.
THEOREM CapturesAreSeen == ASSUME AllMoves, ApartStarts PROVE Spec => []NoMissedCapture
  <1>1. GameInv => NoMissedCapture
    BY DEF GameInv
  <1>. QED  BY <1>1, GameInvariant, PTL

-----------------------------------------------------------------------------
(* What a brain sees, and what its rankings are made of.                   *)

Seeing(v) == v.pos \in Cells /\ v.walls \in WallSets /\ v.map = Distances[v.walls]

LEMMA ViewsSee ==
    ASSUME GameInv
    PROVE  /\ Seeing(CopView) /\ CopView.pos = cop.pos /\ CopView.walls = barriers
           /\ CopView.used = Cardinality(barriers)
           /\ Seeing(ThiefView) /\ ThiefView.pos = thief.pos /\ ThiefView.walls = barriers
           /\ ThiefView.trail = Trail
  BY DEF GameInv, TypeOK, Bounded, Seeing, CopView, ThiefView

LEMMA GapIs ==
    ASSUME NEW v, Seeing(v), NEW a \in Cells, NEW c \in Cells
    PROVE  /\ Gap(v, a, c) \in 0 .. Unreachable /\ Gap(v, a, c) \in Nat
           /\ Gap(v, a, c) = BfsDistance(a, c, v.walls)
           /\ (Gap(v, a, c) = 0) = (a = c)
  BY DistancesAre, CellsAre DEF Gap, Seeing

LEMMA LegalAre ==
    ASSUME NEW p \in Cells, NEW w
    PROVE  /\ \A d \in LegalMoves(p, w) :
                 d \in Negotiated /\ d \in Directions /\ Shift(p, d) \in Cells \ w
           /\ Exits(p, w) \subseteq LegalMoves(p, w)
           /\ \A d \in Exits(p, w) : d \in Orthogonals /\ CanStep(p, d, w)
  BY MovesAre DEF LegalMoves, Exits, CanStep, Directions, Orthogonals

LEMMA SetsCount ==
    /\ \A S \in SUBSET Directions : IsFiniteSet(S) /\ Cardinality(S) \in Nat
    /\ \A S \in SUBSET Cells :
          IsFiniteSet(S) /\ Cardinality(S) \in Nat /\ Cardinality(S) <= Unreachable
  <1>1. IsFiniteSet(Directions)
    <2>1. IsFiniteSet({"N"} \cup {"S"} \cup {"E"} \cup {"W"} \cup {"STAY"})
      BY FS_Singleton, FS_Union
    <2>2. Directions = {"N"} \cup {"S"} \cup {"E"} \cup {"W"} \cup {"STAY"}
      BY DEF Directions
    <2>. QED  BY <2>1, <2>2
  <1>. QED  BY <1>1, CellsAre, FS_Subset, FS_CardinalityType

LEMMA OrderIs == ASSUME NEW d \in Negotiated PROVE Order(d) \in Nat
  <1>1. \E i \in DOMAIN MoveSet : MoveSet[i] = d
    BY DEF Negotiated
  <1>2. Order(d) \in DOMAIN MoveSet
    BY <1>1 DEF Order
  <1>. QED  BY <1>2, BoardAssumption

LEMMA RowMajorIs == ASSUME NEW c \in Cells PROVE RowMajor(c) \in Int
  <1>1. c[1] \in Int /\ c[2] \in Int /\ Size \in Int
    BY CellsAre, BoardAssumption
  <1>. QED  BY <1>1 DEF RowMajor

LEMMA DistanceIs ==
    ASSUME NEW a, NEW c, a[1] \in Int, a[2] \in Int, c[1] \in Int, c[2] \in Int
    PROVE  Distance(a, c) \in Nat
  BY DEF Distance

LEMMA Ranks ==
    /\ \A a \in Int : IsRank(<<a>>, 1)
    /\ \A a \in Int, b \in Int : IsRank(<<a, b>>, 2)
    /\ \A a \in Int, b \in Int, c \in Int : IsRank(<<a, b, c>>, 3)
    /\ \A a \in Int, b \in Int, c \in Int, d \in Int : IsRank(<<a, b, c, d>>, 4)
  BY DEF IsRank

\* A foremost choice of those offered.
LEMMA ForemostFrom ==
    ASSUME NEW S, NEW f, NEW c \in Foremost({Ranked(x, f[x]) : x \in S})
    PROVE  c \in S /\ \A y \in S : ~Precedes(f[y], f[c])
  <1>1. \A x \in S : Ranked(x, f[x]).choice = x /\ Ranked(x, f[x]).rank = f[x]
    BY DEF Ranked
  <1>. QED  BY <1>1 DEF Foremost

LEMMA PicksFrom ==
    ASSUME NEW R, NEW dec \in Picks(R)
    PROVE  (\E d \in Foremost(R) : dec = Step(d)) \/ (dec = Hold /\ Foremost(R) = {})
  <1>1. PICK best : best = Foremost(R)
    OBVIOUS
  <1>2. PICK plans : plans = <<{Step(d) : d \in best}, {Hold}>>
    OBVIOUS
  <1>3. PICK j \in DOMAIN plans : dec \in plans[j] /\ \A k \in 1 .. j - 1 : plans[k] = {}
    BY <1>1, <1>2, FirstOf DEF Picks
  <1>4. CASE j = 1
    BY <1>1, <1>2, <1>3, <1>4
  <1>5. CASE j # 1
    <2>1. j = 2
      BY <1>2, <1>3, <1>5
    <2>2. dec = Hold /\ plans[1] = {}
      BY <1>2, <1>3, <2>1
    <2>. QED  BY <1>1, <1>2, <2>2
  <1>. QED  BY <1>4, <1>5

-----------------------------------------------------------------------------
(* The police brains.                                                      *)

\* A cop's view: it knows how many walls it has built.
Policing(v) == Seeing(v) /\ v.used = Cardinality(v.walls)

\* What the board accepts of a cop, or a hold for want of a legal move.
Sound(v, dec) ==
    \/ /\ dec.type = "BARRIER" /\ v.used < MaxBarriers
       /\ Shift(v.pos, dec.dir) \in BarrierOptions(v.pos, v.walls)
    \/ dec.type = "MOVE" /\ dec.dir \in LegalMoves(v.pos, v.walls)
    \/ dec = Hold /\ LegalMoves(v.pos, v.walls) = {}

LEMMA TowardIs ==
    ASSUME NEW p \in Cells, NEW w, NEW c \in BarrierOptions(p, w)
    PROVE  Shift(p, Toward(p, c)) = c
  <1>1. \E d \in Directions : Shift(p, d) = c
    <2>1. CASE c = p
      BY <2>1, Stays DEF Directions
    <2>2. CASE c # p
      BY <2>2 DEF BarrierOptions, Directions, Orthogonals
    <2>. QED  BY <2>1, <2>2
  <1>. QED  BY <1>1 DEF Toward

LEMMA WallSound ==
    ASSUME NEW v, Seeing(v), v.used < MaxBarriers, NEW c \in BarrierOptions(v.pos, v.walls)
    PROVE  Sound(v, Wall(Toward(v.pos, c)))
  <1>1. Shift(v.pos, Toward(v.pos, c)) = c
    BY TowardIs DEF Seeing
  <1>. QED  BY <1>1 DEF Sound, Wall

LEMMA StepSound ==
    ASSUME NEW v, NEW d \in LegalMoves(v.pos, v.walls)
    PROVE  Sound(v, Step(d))
  BY DEF Sound, Step

LEMMA PatrolOf == ASSUME NEW v PROVE Patrol(v) \subseteq Exits(v.pos, v.walls)
  BY DEF Patrol, Foremost, Ranked

LEMMA StagingOf == ASSUME NEW v, NEW t PROVE Staging(v, t) \subseteq Exits(v.pos, v.walls)
  BY DEF Staging, Foremost, Ranked

LEMMA LaneOf ==
    ASSUME NEW v, NEW t, NEW c \in TempoLane(v, t)
    PROVE  c \in BarrierOptions(v.pos, v.walls) /\ ~SelfHarming(v, t, c)
  BY DEF TempoLane, Foremost, Ranked

\* A cop with a legal move chases by one.
ChaseRank(v, t, d) ==
    <<Gap(v, Shift(v.pos, d), t),
      Cardinality({x \in Reachable(v, t, HerdK) :
                      Gap(v, t, x) < Gap(v, Shift(v.pos, d), x)}),
      -Cardinality(Exits(Shift(v.pos, d), v.walls)), Order(d)>>

LEMMA ChaseIs ==
    ASSUME NEW v, Seeing(v), NEW t \in Cells, NEW jitter \in Nat
    PROVE  /\ Chase(v, t, jitter) \subseteq LegalMoves(v.pos, v.walls)
           /\ LegalMoves(v.pos, v.walls) # {} => Chase(v, t, jitter) # {}
  <1>1. PICK S : S = LegalMoves(v.pos, v.walls)
    OBVIOUS
  <1>2. PICK f : f = [d \in S |-> ChaseRank(v, t, d)]
    OBVIOUS
  <1>3. S \subseteq Directions /\ \A d \in S : d \in Negotiated /\ Shift(v.pos, d) \in Cells
    BY <1>1, LegalAre DEF Seeing
  <1>4. ASSUME NEW d \in S PROVE IsRank(f[d], 4) /\ f[d][1] \in Nat
    <2>1. PICK c : c = Shift(v.pos, d)
      OBVIOUS
    <2>2. c \in Cells
      BY <1>3, <2>1
    <2>3. PICK a : a = Gap(v, c, t)
      OBVIOUS
    <2>4. PICK b : b = Cardinality({x \in Reachable(v, t, HerdK) : Gap(v, t, x) < Gap(v, c, x)})
      OBVIOUS
    <2>5. PICK e : e = Cardinality(Exits(c, v.walls))
      OBVIOUS
    <2>6. a \in Nat
      BY <2>2, <2>3, GapIs
    <2>7. b \in Nat
      BY <2>4, SetsCount DEF Reachable
    <2>8. e \in Nat
      <3>1. Exits(c, v.walls) \in SUBSET Directions
        BY <2>2, MovesAre DEF Exits, LegalMoves
      <3>. QED  BY <2>5, <3>1, SetsCount
    <2>9. f[d] = <<a, b, -e, Order(d)>> /\ Order(d) \in Nat
      BY <1>2, <1>3, <2>1, <2>3, <2>4, <2>5, OrderIs DEF ChaseRank
    <2>. QED  BY <2>6, <2>7, <2>8, <2>9, Ranks
  <1>5. Chases(v, t) = {Ranked(d, f[d]) : d \in S}
    BY <1>1, <1>2 DEF Chases, ChaseRank
  <1>6. \A d \in S : Ranked(d, f[d]).choice = d /\ Ranked(d, f[d]).rank = f[d]
    BY DEF Ranked
  <1>7. CASE jitter > 0
    <2>1. Chase(v, t, jitter) =
            {m.choice : m \in {k \in Chases(v, t) :
                \A n \in Chases(v, t) : 10 * k.rank[1] <= 10 * n.rank[1] + jitter}}
      BY <1>7 DEF Chase
    <2>2. Chase(v, t, jitter) \subseteq S
      BY <1>5, <1>6, <2>1
    <2>3. ASSUME S # {} PROVE Chase(v, t, jitter) # {}
      <3>1. PICK T : T = {f[d][1] : d \in S}
        OBVIOUS
      <3>2. T \subseteq Nat /\ T # {}
        BY <1>4, <2>3, <3>1
      <3>3. PICK least \in T : \A k \in T : least <= k
        BY <3>2, LeastOf
      <3>4. PICK d \in S : f[d][1] = least
        BY <3>1, <3>3
      <3>5. ASSUME NEW e \in S PROVE 10 * f[d][1] <= 10 * f[e][1] + jitter
        <4>1. f[e][1] \in T /\ f[d][1] \in Nat /\ f[e][1] \in Nat
          BY <1>4, <3>1, <3>5
        <4>2. f[d][1] <= f[e][1]
          BY <3>3, <3>4, <4>1
        <4>. QED  BY <4>1, <4>2
      <3>6. PICK m \in Chases(v, t) : m = Ranked(d, f[d])
        BY <1>5
      <3>7. \A n \in Chases(v, t) : 10 * m.rank[1] <= 10 * n.rank[1] + jitter
        BY <1>5, <1>6, <3>5, <3>6
      <3>. QED  BY <2>1, <3>7
    <2>. QED  BY <1>1, <2>2, <2>3
  <1>8. CASE ~(jitter > 0)
    <2>1. Chase(v, t, jitter) = Foremost({Ranked(d, f[d]) : d \in S})
      BY <1>5, <1>8 DEF Chase
    <2>2. ASSUME NEW d \in Chase(v, t, jitter) PROVE d \in S
      BY <2>1, <2>2, ForemostFrom
    <2>3. IsFiniteSet(S)
      BY <1>3, SetsCount
    <2>4. S # {} => Chase(v, t, jitter) # {}
      <3>1. \A d \in S : IsRank(f[d], 4)
        BY <1>4
      <3>2. PICK R : R = {Ranked(d, f[d]) : d \in S}
        OBVIOUS
      <3>3. Chase(v, t, jitter) = Foremost(R)
        BY <2>1, <3>2
      <3>4. Ranking(R, S, f, 4)
        BY <2>3, <3>1, <3>2 DEF Ranking
      <3>. QED  BY <3>3, <3>4, ForemostFound
    <2>. QED  BY <1>1, <2>2, <2>4
  <1>. QED  BY <1>7, <1>8

LEMMA PursuitIs ==
    ASSUME NEW v, Seeing(v), NEW t \in Cells, NEW jitter \in Nat
    PROVE  /\ Pursuit(v, t, jitter) \subseteq LegalMoves(v.pos, v.walls)
           /\ LegalMoves(v.pos, v.walls) # {} => Pursuit(v, t, jitter) # {}
  <1>1. \A d \in Chase(v, t, jitter) :
           (IF d = "STAY" /\ Patrol(v) # {} THEN Patrol(v) ELSE {d})
              \in (SUBSET LegalMoves(v.pos, v.walls)) \ {{}}
    BY ChaseIs, PatrolOf, LegalAre DEF Seeing
  <1>. QED  BY <1>1, ChaseIs DEF Pursuit

\* What each plan of _decide_move offers.
LEMMA InterceptorPlans ==
    ASSUME NEW v, NEW b, NEW jitter, NEW dec \in InterceptorDecides(v, b, jitter)
    PROVE  \/ \E d \in Patrol(v) \cup Exits(v.pos, v.walls) \cup Staging(v, b.mode) : dec = Step(d)
           \/ /\ v.used < MaxBarriers
              /\ \E c \in BarrierOptions(v.pos, v.walls) :
                    /\ dec = Wall(Toward(v.pos, c))
                    /\ \/ c = b.mode
                       \/ Exits(b.mode, v.walls \cup {c}) = {}
                       \/ ~SelfHarming(v, b.mode, c)
           \/ \E d \in Pursuit(v, b.mode, jitter) : dec = Step(d)
           \/ dec = Hold /\ Pursuit(v, b.mode, jitter) = {}
  <1> DEFINE target == b.mode
             options == BarrierOptions(v.pos, v.walls)
             quota == v.used < MaxBarriers
             bold == b.grade # "low"
             AtOnce(S) == {Step(d) : d \in S}
             Build(S) == {Wall(Toward(v.pos, c)) : c \in S}
             corral == quota /\ bold /\ EdgeOrCorner(target)
             last == Foremost({Ranked(c, <<RowMajor(c)>>) : c \in LastExits(v, target)})
  <1>1. PICK p1, p2, p3, p4, p5, p6, p7, p8, p9 :
          /\ p1 = AtOnce(IF target = v.pos /\ b.grade # "sure" THEN Patrol(v) ELSE {})
          /\ p2 = AtOnce({d \in Exits(v.pos, v.walls) : b.grade = "sure" /\ Shift(v.pos, d) = target})
          /\ p3 = Build({c \in options : c = target /\ quota /\ b.grade = "sure"})
          /\ p4 = Build({c \in options : c = target /\ corral})
          /\ p5 = Build(IF corral THEN last ELSE {})
          /\ p6 = AtOnce(IF corral THEN Staging(v, target) ELSE {})
          /\ p7 = Build(IF quota THEN TempoLane(v, target) ELSE {})
          /\ p8 = AtOnce(Pursuit(v, target, jitter))
          /\ p9 = {Hold}
    OBVIOUS
  <1>2. dec \in FirstPlan(<<p1, p2, p3, p4, p5, p6, p7, p8, p9>>)
    BY <1>1, Zenon DEF InterceptorDecides
  <1>3. \/ dec \in p1 \cup p2 \cup p6 \/ dec \in p3 \cup p4 \/ dec \in p5 \/ dec \in p7
        \/ dec \in p8
        \/ dec \in p9 /\ p8 = {}
    <2>1. PICK plans : plans = <<p1, p2, p3, p4, p5, p6, p7, p8, p9>>
      OBVIOUS
    <2>2. PICK j \in DOMAIN plans : dec \in plans[j] /\ \A k \in 1 .. j - 1 : plans[k] = {}
      BY <1>2, <2>1, FirstOf
    <2>. QED  BY <2>1, <2>2
  <1>4. CASE dec \in p1 \cup p2 \cup p6
    BY <1>1, <1>4
  <1>5. CASE dec \in p3 \cup p4
    BY <1>1, <1>5
  <1>6. CASE dec \in p5
    <2>1. corral /\ \E c \in last : dec = Wall(Toward(v.pos, c))
      BY <1>1, <1>6
    <2>2. last \subseteq LastExits(v, target)
      BY DEF Foremost, Ranked
    <2>. QED  BY <2>1, <2>2 DEF LastExits
  <1>7. CASE dec \in p7
    <2>1. quota /\ \E c \in TempoLane(v, target) : dec = Wall(Toward(v.pos, c))
      BY <1>1, <1>7
    <2>. QED  BY <2>1, LaneOf
  <1>8. CASE dec \in p8
    BY <1>1, <1>8
  <1>9. CASE dec \in p9 /\ p8 = {}
    BY <1>1, <1>9
  <1>. QED  BY <1>3, <1>4, <1>5, <1>6, <1>7, <1>8, <1>9

LEMMA InterceptorSound ==
    ASSUME NEW v, Policing(v), NEW b \in Beliefs, NEW jitter \in Nat,
           NEW dec \in InterceptorDecides(v, b, jitter)
    PROVE  Sound(v, dec)
  <1>1. Seeing(v) /\ b.mode \in Cells /\ v.pos \in Cells
    BY DEF Policing, Seeing, Beliefs
  <1>2. CASE \E d \in Patrol(v) \cup Exits(v.pos, v.walls) \cup Staging(v, b.mode) : dec = Step(d)
    BY <1>1, <1>2, PatrolOf, StagingOf, LegalAre, StepSound
  <1>3. CASE \E c \in BarrierOptions(v.pos, v.walls) :
                v.used < MaxBarriers /\ dec = Wall(Toward(v.pos, c))
    BY <1>1, <1>3, WallSound
  <1>4. CASE \E d \in Pursuit(v, b.mode, jitter) : dec = Step(d)
    BY <1>1, <1>4, PursuitIs, StepSound
  <1>5. CASE dec = Hold /\ Pursuit(v, b.mode, jitter) = {}
    BY <1>1, <1>5, PursuitIs DEF Sound
  <1>6. \/ \E d \in Patrol(v) \cup Exits(v.pos, v.walls) \cup Staging(v, b.mode) : dec = Step(d)
        \/ \E c \in BarrierOptions(v.pos, v.walls) :
              v.used < MaxBarriers /\ dec = Wall(Toward(v.pos, c))
        \/ \E d \in Pursuit(v, b.mode, jitter) : dec = Step(d)
        \/ dec = Hold /\ Pursuit(v, b.mode, jitter) = {}
    BY InterceptorPlans, Zenon
  <1>. QED  BY <1>2, <1>3, <1>4, <1>5, <1>6

\* The lane of a cage, where one is worth a wall.
LEMMA AdaptivePlans ==
    ASSUME NEW v, NEW b, NEW dec \in AdaptiveDecides(v, b)
    PROVE  \/ dec \in InterceptorDecides(v, b, 0)
           \/ /\ v.used < MaxBarriers
              /\ \E c \in BarrierOptions(v.pos, v.walls) :
                    /\ dec = Wall(Toward(v.pos, c))
                    /\ BfsDistance(v.pos, b.mode, v.walls \cup {c}) # Unreachable
  <1> DEFINE gate == /\ Centrality(b.mode) >= CentralFloor
                     /\ Gap(v, v.pos, b.mode) <= CageRange
                     /\ v.used < MaxBarriers
             Rank(d) == Ranked(d, <<-Centrality(Shift(b.mode, d)), Order(d)>>)
             cage == IF gate THEN Foremost({Rank(d) : d \in CageLanes(v, b.mode)}) ELSE {}
             worth == {d \in cage : Centrality(Shift(b.mode, d)) >= LaneFloor}
  <1>1. CASE worth = {}
    BY <1>1 DEF AdaptiveDecides
  <1>2. CASE worth # {}
    <2>1. PICK d \in worth : dec = Wall(Toward(v.pos, Shift(b.mode, d)))
      BY <1>2 DEF AdaptiveDecides
    <2>2. gate /\ d \in CageLanes(v, b.mode)
      BY <2>1 DEF Foremost, Ranked
    <2>3. /\ Shift(b.mode, d) \in BarrierOptions(v.pos, v.walls)
          /\ BfsDistance(v.pos, b.mode, v.walls \cup {Shift(b.mode, d)}) # Unreachable
      BY <2>2 DEF CageLanes
    <2>. QED  BY <2>1, <2>2, <2>3
  <1>. QED  BY <1>1, <1>2

LEMMA AdaptiveSound ==
    ASSUME NEW v, Policing(v), NEW b \in Beliefs, NEW dec \in AdaptiveDecides(v, b)
    PROVE  Sound(v, dec)
  <1>1. CASE dec \in InterceptorDecides(v, b, 0)
    BY <1>1, InterceptorSound
  <1>2. CASE \E c \in BarrierOptions(v.pos, v.walls) :
                v.used < MaxBarriers /\ dec = Wall(Toward(v.pos, c))
    BY <1>2, WallSound DEF Policing
  <1>. QED  BY <1>1, <1>2, AdaptivePlans

LEMMA RandomSound ==
    ASSUME NEW v, NEW dec \in RandomDecides(v)
    PROVE  Sound(v, dec)
  <1>1. PICK plans : plans = <<{Step(d) : d \in LegalMoves(v.pos, v.walls)}, {Hold}>>
    OBVIOUS
  <1>2. PICK j \in DOMAIN plans : dec \in plans[j] /\ \A k \in 1 .. j - 1 : plans[k] = {}
    BY <1>1, FirstOf DEF RandomDecides
  <1>3. CASE j = 1
    BY <1>1, <1>2, <1>3, StepSound
  <1>4. CASE j # 1
    <2>1. j = 2 /\ plans[1] = {} /\ dec = Hold
      BY <1>1, <1>2, <1>4
    <2>. QED  BY <1>1, <2>1 DEF Sound
  <1>. QED  BY <1>3, <1>4

\* A pick by the distance to a cell.
LEMMA NearestSound ==
    ASSUME NEW v, Seeing(v), NEW aim, aim[1] \in Int, aim[2] \in Int,
           NEW dec \in Picks({Ranked(d, <<Distance(Shift(v.pos, d), aim), Order(d)>>) :
                                d \in LegalMoves(v.pos, v.walls)})
    PROVE  \/ \E d \in LegalMoves(v.pos, v.walls) : dec = Step(d)
           \/ dec = Hold /\ LegalMoves(v.pos, v.walls) = {}
  <1>1. PICK S : S = LegalMoves(v.pos, v.walls)
    OBVIOUS
  <1>2. PICK f : f = [d \in S |-> <<Distance(Shift(v.pos, d), aim), Order(d)>>]
    OBVIOUS
  <1>3. \A d \in S : d \in Negotiated /\ d \in Directions /\ Shift(v.pos, d) \in Cells
    BY <1>1, LegalAre DEF Seeing
  <1>4. ASSUME NEW d \in S PROVE IsRank(f[d], 2)
    <2>1. Distance(Shift(v.pos, d), aim) \in Int /\ Order(d) \in Int
      BY <1>3, CellsAre, DistanceIs, OrderIs
    <2>. QED  BY <1>2, <2>1, Ranks
  <1>5. PICK R : R = {Ranked(d, f[d]) : d \in S}
    OBVIOUS
  <1>6. R = {Ranked(d, <<Distance(Shift(v.pos, d), aim), Order(d)>>) : d \in LegalMoves(v.pos, v.walls)}
    BY <1>1, <1>2, <1>5
  <1>7. \/ \E d \in Foremost(R) : dec = Step(d)
        \/ dec = Hold /\ Foremost(R) = {}
    BY <1>6, PicksFrom
  <1>8. Foremost(R) \subseteq S
    BY <1>5 DEF Foremost, Ranked
  <1>9. Foremost(R) = {} => S = {}
    <2>1. IsFiniteSet(S) /\ \A d \in S : IsRank(f[d], 2)
      BY <1>3, <1>4, SetsCount
    <2>2. Ranking(R, S, f, 2)
      BY <1>5, <2>1 DEF Ranking
    <2>. QED  BY <2>2, ForemostFound
  <1>. QED  BY <1>1, <1>7, <1>8, <1>9

LEMMA GreedySound ==
    ASSUME NEW v, Policing(v), NEW b \in Beliefs, NEW dec \in GreedyPoliceDecides(v, b)
    PROVE  Sound(v, dec)
  <1>1. PICK steps : steps = Picks({Ranked(d, <<Distance(Shift(v.pos, d), b.mode), Order(d)>>) :
                                      d \in LegalMoves(v.pos, v.walls)})
    OBVIOUS
  <1>2. b.mode[1] \in Int /\ b.mode[2] \in Int /\ Seeing(v) /\ v.pos \in Cells
    BY CellsAre DEF Beliefs, Policing, Seeing
  <1>3. \A s \in steps : \/ \E d \in LegalMoves(v.pos, v.walls) : s = Step(d)
                         \/ s = Hold /\ LegalMoves(v.pos, v.walls) = {}
    BY <1>1, <1>2, NearestSound
  <1>4. \/ dec \in steps
        \/ /\ v.used < MaxBarriers
           /\ \E s \in steps : s.type = "MOVE" /\ s.dir # "STAY" /\ dec = Wall(s.dir)
    BY <1>1 DEF GreedyPoliceDecides
  <1>5. CASE dec \in steps
    BY <1>3, <1>5, StepSound DEF Sound
  <1>6. CASE v.used < MaxBarriers /\ \E s \in steps : s.type = "MOVE" /\ s.dir # "STAY" /\ dec = Wall(s.dir)
    <2>1. PICK d \in LegalMoves(v.pos, v.walls) : d # "STAY" /\ dec = Wall(d)
      BY <1>3, <1>6 DEF Step, Hold
    <2>2. d \in Orthogonals /\ CanStep(v.pos, d, v.walls)
      BY <1>2, <2>1, LegalAre DEF Exits
    <2>. QED  BY <1>6, <2>1, <2>2 DEF Sound, Wall, BarrierOptions
  <1>. QED  BY <1>4, <1>5, <1>6

LEMMA AmbushSound ==
    ASSUME NEW v, Policing(v), NEW b \in Beliefs, NEW dec \in CornerAmbushDecides(v, b)
    PROVE  Sound(v, dec)
  <1> DEFINE Corner(x) == IF 2 * x < Size THEN 0 ELSE Size - 1
             aim == IF Distance(v.pos, b.mode) <= 2 THEN b.mode
                    ELSE <<Corner(b.mode[1]), Corner(b.mode[2])>>
  <1>1. b.mode[1] \in Int /\ b.mode[2] \in Int /\ Seeing(v) /\ Size \in Int
    BY CellsAre, BoardAssumption DEF Beliefs, Policing
  <1>2. PICK at : at = aim
    OBVIOUS
  <1>5. at[1] \in Int /\ at[2] \in Int
    <2>1. CASE at = b.mode
      BY <1>1, <2>1
    <2>2. CASE at = <<Corner(b.mode[1]), Corner(b.mode[2])>>
      <3>1. Corner(b.mode[1]) \in Int /\ Corner(b.mode[2]) \in Int
        BY <1>1
      <3>. QED  BY <2>2, <3>1
    <2>. QED  BY <1>2, <2>1, <2>2
  <1>3. dec \in Picks({Ranked(d, <<Distance(Shift(v.pos, d), at), Order(d)>>) :
                         d \in LegalMoves(v.pos, v.walls)})
    BY <1>2 DEF CornerAmbushDecides
  <1>4. \/ \E d \in LegalMoves(v.pos, v.walls) : dec = Step(d)
        \/ dec = Hold /\ LegalMoves(v.pos, v.walls) = {}
    BY <1>1, <1>3, <1>5, NearestSound
  <1>. QED  BY <1>4, StepSound DEF Sound

LEMMA PoliceSound ==
    ASSUME NEW v, Policing(v), NEW b \in Beliefs, NEW brain \in PoliceBrains,
           NEW dec \in Decides(brain, v, b)
    PROVE  Sound(v, dec)
  <1>1. CASE brain = "interceptor"
    BY <1>1, InterceptorSound DEF Decides
  <1>2. CASE brain = "interceptor_jitter"
    BY <1>2, InterceptorSound, BrainsAssumption DEF Decides
  <1>3. CASE brain = "adaptive"
    BY <1>3, AdaptiveSound DEF Decides
  <1>4. CASE brain = "greedy_police"
    BY <1>4, GreedySound DEF Decides
  <1>5. CASE brain = "corner_ambush"
    BY <1>5, AmbushSound DEF Decides
  <1>6. CASE brain = "random_police"
    BY <1>6, RandomSound DEF Decides
  <1>. QED  BY <1>1, <1>2, <1>3, <1>4, <1>5, <1>6 DEF PoliceBrains

-----------------------------------------------------------------------------
(* Nobody invents a cell.                                                  *)

\* A cop that may not even hold stands on a wall and is shut in.
LEMMA HeldIn ==
    ASSUME AllMoves, NEW p \in Cells, NEW w, LegalMoves(p, w) = {}
    PROVE  p \in w /\ Exits(p, w) = {}
  BY Stays DEF LegalMoves, Exits, CanStep, AllMoves, Directions

LEMMA RefusedStep ==
    ASSUME AllMoves, GameInv, RefusedOnlyImmured, [Next]_vars
    PROVE  RefusedOnlyImmured'
  <1>1. CASE outcome' # Raised
    BY <1>1 DEF RefusedOnlyImmured
  <1>2. CASE UNCHANGED vars
    BY <1>2 DEF vars, RefusedOnlyImmured
  <1>3. CASE outcome' = Raised /\ ThiefTurn
    BY <1>3, Verdicts DEF ThiefTurn, ThiefMoves, Finish, Continue, GameInv, TypeOK
  <1>4. CASE outcome' = Raised /\ CopTurn
    <2>1. PICK decision \in Decisions(brains[1], CopView) :
             CopMoves(decision) \/ CopBuilds(decision) \/ CopRefused(decision)
      BY <1>4 DEF CopTurn
    <2>2. outcome = Playing
      BY <1>4 DEF CopTurn, GameInv, TypeOK
    <2>3. CopRefused(decision)
      BY <1>4, <2>1, <2>2, Verdicts DEF CopMoves, CopBuilds, Finish, Continue
    <2>4. PICK b \in Beliefs : decision \in Decides(brains[1], CopView, b)
      BY <2>1 DEF Decisions
    <2>5. brains[1] \in PoliceBrains /\ Policing(CopView)
      BY ArenaAssumption, ViewsSee DEF GameInv, TypeOK, Policing
    <2>6. Sound(CopView, decision)
      BY <2>4, <2>5, PoliceSound
    <2>7. decision = Hold /\ LegalMoves(cop.pos, barriers) = {}
      BY <2>3, <2>6, ViewsSee DEF Sound, CopRefused, MayBuild, Refused, LegalMoves, Hold
    <2>8. cop.pos \in barriers /\ Exits(cop.pos, barriers) = {}
      BY <2>7, HeldIn DEF GameInv, TypeOK
    <2>. QED  BY <2>3, <2>8 DEF RefusedOnlyImmured, CopRefused
  <1>. QED  BY <1>1, <1>2, <1>3, <1>4 DEF Next, Over

\* RefusedOnlyImmured, "never invent a cell" (base.py): whatever it believes, a
\* brain of the cop is refused by the board only where even a hold is, on a wall
\* of its own with every exit walled.
THEOREM NoCellInvented == ASSUME AllMoves, ApartStarts PROVE Spec => []RefusedOnlyImmured
  <1>1. Init => RefusedOnlyImmured
    BY Verdicts DEF Init, RefusedOnlyImmured
  <1>2. GameInv /\ RefusedOnlyImmured /\ [Next]_vars => RefusedOnlyImmured'
    BY RefusedStep
  <1>. QED  BY <1>1, <1>2, GameInvariant, PTL DEF Spec

-----------------------------------------------------------------------------
(* The tempo doctrine of the interceptor.                                  *)

\* A wall that is not self-harming leaves the route as short as it was.
LEMMA TempoKept ==
    ASSUME NEW v, Policing(v), NEW b \in Beliefs, NEW c \in BarrierOptions(v.pos, v.walls),
           v.used < MaxBarriers
    PROVE  /\ ~SelfHarming(v, b.mode, c) =>
                 BfsDistance(v.pos, b.mode, v.walls \cup {c}) <= BfsDistance(v.pos, b.mode, v.walls)
           /\ BfsDistance(v.pos, b.mode, v.walls \cup {c}) # Unreachable =>
                 BfsDistance(v.pos, b.mode, v.walls \cup {c}) < Unreachable
  <1>1. v.pos \in Cells /\ v.walls \in WallSets /\ b.mode \in Cells /\ Seeing(v)
    BY DEF Policing, Seeing, Beliefs
  <1>2. c \in Cells
    BY <1>1, OptionsAre
  <1>3. v.walls \cup {c} \in WallSets
    BY <1>1, <1>2, WallAdded DEF Policing
  <1>4. PICK after : after = BfsDistance(v.pos, b.mode, v.walls \cup {c})
    OBVIOUS
  <1>5. after \in 0 .. Unreachable
    BY <1>1, <1>3, <1>4, DistancesAre
  <1>6. /\ Gap(v, v.pos, b.mode) = BfsDistance(v.pos, b.mode, v.walls)
        /\ Gap(v, v.pos, b.mode) \in Nat
    BY <1>1, GapIs
  <1>7. ~SelfHarming(v, b.mode, c) => ~(after > Gap(v, v.pos, b.mode))
    BY <1>4 DEF SelfHarming
  <1>. QED  BY <1>4, <1>5, <1>6, <1>7, CellsAre

LEMMA RouteIsKept == ASSUME GameInv PROVE RouteKept
  <1> SUFFICES ASSUME turn = "cop",
                      brains[1] \in {"interceptor", "interceptor_jitter", "adaptive"},
                      NEW b \in Beliefs, NEW decision \in Decides(brains[1], CopView, b),
                      decision.type = "BARRIER",
                      NEW cell, cell = Shift(cop.pos, decision.dir)
               PROVE  \/ cell = b.mode
                      \/ Exits(b.mode, barriers \cup {cell}) = {}
                      \/ BfsDistance(cop.pos, b.mode, barriers \cup {cell})
                            <= BfsDistance(cop.pos, b.mode, barriers)
                      \/ /\ brains[1] = "adaptive"
                         /\ BfsDistance(cop.pos, b.mode, barriers \cup {cell}) < Unreachable
    BY DEF RouteKept
  <1>1. PICK v : v = CopView
    OBVIOUS
  <1>2. Policing(v) /\ v.pos = cop.pos /\ v.walls = barriers /\ cop.pos \in Cells
    BY <1>1, ViewsSee DEF Policing, GameInv, TypeOK
  <1>3. \A c \in BarrierOptions(v.pos, v.walls) :
           decision = Wall(Toward(v.pos, c)) => cell = c
    BY <1>2, TowardIs DEF Wall
  <1>4. ASSUME NEW j, decision \in InterceptorDecides(v, b, j)
        PROVE  \/ cell = b.mode
               \/ Exits(b.mode, barriers \cup {cell}) = {}
               \/ BfsDistance(cop.pos, b.mode, barriers \cup {cell})
                     <= BfsDistance(cop.pos, b.mode, barriers)
    <2>1. PICK c \in BarrierOptions(v.pos, v.walls) :
             /\ v.used < MaxBarriers /\ decision = Wall(Toward(v.pos, c))
             /\ \/ c = b.mode
                \/ Exits(b.mode, v.walls \cup {c}) = {}
                \/ ~SelfHarming(v, b.mode, c)
      <3>1. ~(\E d : decision = Step(d)) /\ decision # Hold
        BY DEF Step, Hold
      <3>. QED  BY <1>4, <3>1, InterceptorPlans
    <2>2. cell = c
      BY <1>3, <2>1
    <2>. QED  BY <1>2, <2>1, <2>2, TempoKept
  <1>5. CASE brains[1] = "interceptor"
    <2>1. decision \in InterceptorDecides(v, b, 0)
      BY <1>1, <1>5 DEF Decides
    <2>. QED  BY <1>4, <2>1
  <1>6. CASE brains[1] = "interceptor_jitter"
    <2>1. decision \in InterceptorDecides(v, b, Jitter)
      BY <1>1, <1>6 DEF Decides
    <2>. QED  BY <1>4, <2>1
  <1>7. CASE brains[1] = "adaptive"
    <2>1. decision \in AdaptiveDecides(v, b)
      BY <1>1, <1>7 DEF Decides
    <2>2. CASE decision \in InterceptorDecides(v, b, 0)
      BY <1>4, <2>2
    <2>3. CASE decision \notin InterceptorDecides(v, b, 0)
      <3>1. PICK c \in BarrierOptions(v.pos, v.walls) :
               /\ v.used < MaxBarriers /\ decision = Wall(Toward(v.pos, c))
               /\ BfsDistance(v.pos, b.mode, v.walls \cup {c}) # Unreachable
        BY <2>1, <2>3, AdaptivePlans
      <3>2. cell = c
        BY <1>3, <3>1
      <3>. QED  BY <1>2, <1>7, <3>1, <3>2, TempoKept
    <2>. QED  BY <2>2, <2>3
  <1>. QED  BY <1>5, <1>6, <1>7

\* RouteKept, the tempo doctrine of police.py: no wall of the interceptor's
\* lengthens its own route to the thief it believes in, unless it lies on that
\* thief or seals it in; a wall of the caging brain at least never severs it.
THEOREM WallsCostNoRoute == ASSUME AllMoves, ApartStarts PROVE Spec => []RouteKept
  BY RouteIsKept, GameInvariant, PTL

-----------------------------------------------------------------------------
(* The thieves.                                                            *)

LEMMA MayStay ==
    ASSUME AllMoves, NEW p \in Cells, NEW w, p \notin w
    PROVE  "STAY" \in LegalMoves(p, w)
  BY Stays DEF LegalMoves, CanStep, AllMoves, Directions

LEMMA CenterKeepsAway ==
    ASSUME AllMoves, NEW v, Seeing(v), v.pos \notin v.walls, NEW b, b.mode \in Cells,
           v.pos # b.mode, NEW dec \in CenterThiefDecides(v, b)
    PROVE  Shift(v.pos, dec.dir) # b.mode
  <1> DEFINE Away(c) == Gap(v, c, b.mode)
             here == Away(v.pos)
             LM == LegalMoves(v.pos, v.walls)
             AtLeast(n) == {d \in LM : Away(Shift(v.pos, d)) >= n}
             safe == FirstPlan(<<AtLeast(IF here > 2 THEN here ELSE 2), AtLeast(here), LM>>)
             Rank(d, c) == Ranked(d, <<-Centrality(c), -Cardinality(Exits(c, v.walls)), -Away(c),
                                       RowMajor(c)>>)
             R == {Rank(d, Shift(v.pos, d)) : d \in safe}
  <1>1. v.pos \in Cells /\ Shift(v.pos, "STAY") = v.pos
    BY Stays DEF Seeing
  <1>2. \A d \in LM : Shift(v.pos, d) \in Cells
    BY <1>1, LegalAre
  <1>3. here \in Nat /\ here # 0
    BY <1>1, GapIs
  <1>4. ASSUME NEW d \in safe PROVE Shift(v.pos, d) # b.mode
    <2>1. PICK A, B : A = AtLeast(IF here > 2 THEN here ELSE 2) /\ B = AtLeast(here)
      OBVIOUS
    <2>2. PICK plans : plans = <<A, B, LM>>
      OBVIOUS
    <2>3. PICK j \in DOMAIN plans : d \in plans[j] /\ \A k \in 1 .. j - 1 : plans[k] = {}
      BY <1>4, <2>1, <2>2, FirstOf
    <2>4. "STAY" \in B
      <3>1. "STAY" \in LM
        BY <1>1, MayStay
      <3>2. Away(Shift(v.pos, "STAY")) >= here
        BY <1>1, <1>3
      <3>. QED  BY <2>1, <3>1, <3>2
    <2>5. d \in A \/ d \in B
      BY <2>2, <2>3, <2>4
    <2>6. d \in LM /\ (Away(Shift(v.pos, d)) >= 2 \/ Away(Shift(v.pos, d)) >= here)
      BY <1>3, <2>1, <2>5
    <2>7. Away(Shift(v.pos, d)) # 0
      BY <1>3, <2>6
    <2>. QED  BY <1>2, <2>6, <2>7, GapIs
  <1>5. dec \in Picks(R)
    BY DEF CenterThiefDecides
  <1>6. Foremost(R) \subseteq safe
    BY DEF Foremost, Ranked
  <1>7. CASE \E d \in Foremost(R) : dec = Step(d)
    <2>1. PICK d \in Foremost(R) : dec = Step(d)
      BY <1>7
    <2>2. d \in safe /\ dec.dir = d
      BY <1>6, <2>1 DEF Step
    <2>. QED  BY <1>4, <2>2
  <1>8. CASE dec = Hold
    BY <1>1, <1>8 DEF Hold
  <1>9. (\E d \in Foremost(R) : dec = Step(d)) \/ dec = Hold
    <2>1. PICK r : r = R
      OBVIOUS
    <2>2. dec \in Picks(r)
      BY <1>5, <2>1
    <2>3. (\E d \in Foremost(r) : dec = Step(d)) \/ dec = Hold
      BY <2>2, PicksFrom
    <2>. QED  BY <2>1, <2>3
  <1>. QED  BY <1>7, <1>8, <1>9

LEMMA KeepsAwayHolds == ASSUME AllMoves, GameInv PROVE KeepsAway
  <1> SUFFICES ASSUME turn = "thief", brains[2] = "center", NEW g \in Grades,
                      NEW decision \in Decides("center", ThiefView, [mode |-> cop.pos, grade |-> g])
               PROVE  Shift(thief.pos, decision.dir) # cop.pos
    BY DEF KeepsAway
  <1>1. PICK v, b : v = ThiefView /\ b = [mode |-> cop.pos, grade |-> g]
    OBVIOUS
  <1>2. decision \in CenterThiefDecides(v, b)
    BY <1>1 DEF Decides
  <1>3. Seeing(v) /\ v.pos = thief.pos /\ v.walls = barriers
    BY <1>1, ViewsSee
  <1>4. thief.pos \notin barriers /\ thief.pos # cop.pos /\ cop.pos \in Cells
    BY DEF GameInv, TypeOK, NoMissedCapture
  <1>5. b.mode = cop.pos
    BY <1>1
  <1>. QED  BY <1>2, <1>3, <1>4, <1>5, CenterKeepsAway

\* KeepsAway, of center_thief.py: a thief that knows where the cop stands is
\* never caught by its own step.
THEOREM NeverStepsIntoTheCop == ASSUME AllMoves, ApartStarts PROVE Spec => []KeepsAway
  BY KeepsAwayHolds, GameInvariant, PTL

\* A cell of the trail counts for staleness, never for freshness.
LEMMA RecencyIs ==
    ASSUME NEW v, v.trail \in Seq(Cells), NEW c
    PROVE  Recency(v, c) \in Nat
  <1>1. PICK seen : seen = {i \in DOMAIN v.trail : v.trail[i] = c}
    OBVIOUS
  <1>2. PICK n : n = Len(v.trail)
    OBVIOUS
  <1>3. n \in Nat /\ seen \subseteq 1 .. n
    BY <1>1, <1>2
  <1>4. CASE seen = {}
    BY <1>1, <1>4 DEF Recency
  <1>5. CASE seen # {}
    <2>1. \E i \in seen : \A j \in seen : i <= j
      <3>1. seen \subseteq Nat
        BY <1>3
      <3>. QED  BY <1>5, <3>1, LeastOf
    <2>2. PICK least : least = CHOOSE i \in seen : \A j \in seen : i <= j
      OBVIOUS
    <2>3. least \in 1 .. n
      BY <1>3, <2>1, <2>2
    <2>4. Recency(v, c) = n + 1 - least
      BY <1>1, <1>2, <1>5, <2>2 DEF Recency
    <2>. QED  BY <1>3, <2>3, <2>4
  <1>. QED  BY <1>4, <1>5

\* Staying put scores at least nothing, and a trap less.
LEMMA ScoresAre ==
    ASSUME AllMoves, NEW v, Seeing(v), v.pos \notin v.walls, v.trail \in Seq(Cells),
           NEW threat \in Cells, NEW d \in LegalMoves(v.pos, v.walls)
    PROVE  /\ FleeScore(v, threat, d) \in Int
           /\ d = "STAY" => FleeScore(v, threat, d) >= 0
           /\ d # "STAY" /\ TrapRisky(v, Shift(v.pos, d)) => FleeScore(v, threat, d) < 0
  <1>1. PICK c : c = Shift(v.pos, d)
    OBVIOUS
  <1>2. c \in Cells
    BY <1>1, LegalAre DEF Seeing
  <1>3. PICK gap : gap = Gap(v, c, threat)
    OBVIOUS
  <1>4. PICK room : room = Cardinality(Reachable(v, c, MobilityK))
    OBVIOUS
  <1>5. PICK old : old = Recency(v, c)
    OBVIOUS
  <1>6. PICK u : u = Unreachable
    OBVIOUS
  <1>7. u \in Nat /\ gap \in Nat /\ gap <= u
    BY <1>2, <1>3, <1>6, GapIs, CellsAre
  <1>8. room \in Nat /\ room <= u
    <2>1. Reachable(v, c, MobilityK) \in SUBSET Cells
      BY DEF Reachable
    <2>. QED  BY <1>4, <1>6, <2>1, SetsCount
  <1>9. old \in Nat
    BY <1>5, RecencyIs
  <1>10. PICK p, q : /\ p = IF d # "STAY" /\ c \in v.visited THEN 9 ELSE 0
                     /\ q = IF d # "STAY" /\ TrapRisky(v, c) THEN 14 * u + 10 ELSE 0
    OBVIOUS
  <1>11. p \in Nat /\ q \in Nat /\ (d = "STAY" => p = 0 /\ q = 0)
    BY <1>7, <1>10
  <1>12. FleeScore(v, threat, d)
           = 10 * gap + 4 * room - p - (IF d # "STAY" THEN 6 * old ELSE 0) - q
    BY <1>1, <1>3, <1>4, <1>5, <1>6, <1>10 DEF FleeScore, Ban
  <1>13. CASE d = "STAY"
    <2>1. FleeScore(v, threat, d) = 10 * gap + 4 * room - 0 - 0 - 0
      BY <1>11, <1>12, <1>13
    <2>. QED  BY <1>7, <1>8, <1>13, <2>1
  <1>14. CASE d # "STAY"
    <2>1. FleeScore(v, threat, d) = 10 * gap + 4 * room - p - 6 * old - q
      BY <1>12, <1>14
    <2>2. TrapRisky(v, c) => q = 14 * u + 10
      BY <1>10, <1>14
    <2>. QED  BY <1>1, <1>7, <1>8, <1>9, <1>11, <1>14, <2>1, <2>2, SMTT(30)
  <1>. QED  BY <1>13, <1>14

LEMMA SurvivorSafe ==
    ASSUME AllMoves, NEW v, Seeing(v), v.pos \notin v.walls, v.trail \in Seq(Cells),
           NEW b \in Beliefs, NEW jitter \in Nat, NEW decoy,
           NEW dec \in SurvivorDecides(v, b, jitter, decoy)
    PROVE  dec.dir = "STAY" \/ ~TrapRisky(v, Shift(v.pos, dec.dir))
  <1> DEFINE LM == LegalMoves(v.pos, v.walls)
             moves == {[dir |-> d, score |-> FleeScore(v, b.mode, d)] : d \in LM}
             best == Foremost({Ranked(m.dir, <<-m.score, Order(m.dir)>>) : m \in moves})
             near == {m.dir : m \in {n \in moves :
                        /\ \A o \in moves : o.score - n.score <= jitter
                        /\ n.dir = "STAY" \/ ~TrapRisky(v, Shift(v.pos, n.dir))}}
             first == IF jitter > 0 /\ near # {} THEN near ELSE best
             Moves(d) == d # "STAY" /\ Gap(v, Shift(v.pos, d), b.mode) >= Gap(v, v.pos, b.mode)
             settled == UNION {FirstPlan(<<{d} \cap {e \in first : Moves(e)},
                                           Escapes(v, b.mode), {d}>>) : d \in first}
             feint == IF decoy THEN Decoys(v, b.mode) ELSE {}
             Safe(d) == d = "STAY" \/ ~TrapRisky(v, Shift(v.pos, d))
  <1>1. v.pos \in Cells /\ b.mode \in Cells
    BY DEF Seeing, Beliefs
  <1>2. \A d \in near : Safe(d)
    OBVIOUS
  <1>3. ASSUME NEW d \in best PROVE Safe(d)
    <2>1. PICK T : T = {Ranked(m.dir, <<-m.score, Order(m.dir)>>) : m \in moves}
      OBVIOUS
    <2>2. PICK r \in T : d = r.choice /\ \A n \in T : ~Precedes(n.rank, r.rank)
      BY <1>3, <2>1, ForemostOf
    <2>3. ASSUME NEW x \in LM
          PROVE  Ranked(x, <<-FleeScore(v, b.mode, x), Order(x)>>) \in T
      <3>1. PICK m \in moves : m = [dir |-> x, score |-> FleeScore(v, b.mode, x)]
        OBVIOUS
      <3>2. Ranked(m.dir, <<-m.score, Order(m.dir)>>) \in T
        BY <2>1
      <3>. QED  BY <3>1, <3>2
    <2>4. d \in LM /\ r.rank = <<-FleeScore(v, b.mode, d), Order(d)>>
      BY <2>1, <2>2 DEF Ranked
    <2>5. "STAY" \in LM
      BY <1>1, MayStay
    <2>6. PICK s, z : s = FleeScore(v, b.mode, "STAY") /\ z = FleeScore(v, b.mode, d)
      OBVIOUS
    <2>7. /\ s \in Int /\ z \in Int /\ s >= 0
          /\ d # "STAY" /\ TrapRisky(v, Shift(v.pos, d)) => z < 0
      BY <1>1, <2>4, <2>5, <2>6, ScoresAre
    <2>8. ~Precedes(<<-s, Order("STAY")>>, <<-z, Order(d)>>)
      BY <2>2, <2>3, <2>4, <2>5, <2>6 DEF Ranked
    <2>9. -s < -z => Precedes(<<-s, Order("STAY")>>, <<-z, Order(d)>>)
      BY <2>7 DEF Precedes
    <2>. QED  BY <2>7, <2>8, <2>9
  <1>4. \A d \in first : Safe(d)
    BY <1>2, <1>3
  <1>5. \A d \in Escapes(v, b.mode) : Safe(d)
    BY DEF Escapes, Foremost, Ranked
  <1>6. \A d \in Decoys(v, b.mode) : Safe(d)
    BY DEF Decoys, Foremost, Ranked
  <1>7. \A d \in feint : Safe(d)
    BY <1>6
  <1>8. ASSUME NEW d \in settled PROVE Safe(d)
    <2>1. PICK e \in first : d \in FirstPlan(<<{e} \cap {x \in first : Moves(x)},
                                              Escapes(v, b.mode), {e}>>)
      BY <1>8
    <2>2. PICK A, B : A = {e} \cap {x \in first : Moves(x)} /\ B = Escapes(v, b.mode)
      OBVIOUS
    <2>3. PICK plans : plans = <<A, B, {e}>>
      OBVIOUS
    <2>4. d \in FirstPlan(plans)
      BY <2>1, <2>2, <2>3
    <2>5. PICK j \in DOMAIN plans : d \in plans[j]
      BY <2>4, FirstOf
    <2>6. d \in A \/ d \in B \/ d = e
      BY <2>3, <2>5
    <2>7. A \subseteq {e}
      BY <2>2
    <2>. QED  BY <1>4, <1>5, <2>2, <2>6, <2>7
  <1>9. PICK F, S : F = feint /\ S = settled
    OBVIOUS
  <1>10. dec \in FirstPlan(<<{Step(d) : d \in F}, {Step(d) : d \in S}, {Hold}>>)
    BY <1>9 DEF SurvivorDecides
  <1>11. (\E d \in F \cup S : dec = Step(d)) \/ dec = Hold
    <2>1. PICK plans : plans = <<{Step(d) : d \in F}, {Step(d) : d \in S}, {Hold}>>
      OBVIOUS
    <2>2. PICK j \in DOMAIN plans : dec \in plans[j]
      BY <1>10, <2>1, FirstOf
    <2>. QED  BY <2>1, <2>2
  <1>12. \A d \in F \cup S : Safe(d)
    BY <1>7, <1>8, <1>9
  <1>. QED  BY <1>11, <1>12 DEF Step, Hold

LEMMA TrapStep ==
    ASSUME AllMoves, GameInv, [Next]_vars, brains[2] \in Survivors, thief'.pos # thief.pos
    PROVE  ~TrapRisky(ThiefView, thief'.pos)
  <1>1. ThiefTurn
    BY DEF Next, Over, vars, CopTurn, CopMoves, CopBuilds, CopRefused
  <1>2. PICK decision \in Decisions(brains[2], ThiefView) : ThiefMoves(decision)
    BY <1>1 DEF ThiefTurn
  <1>3. PICK b \in Beliefs : decision \in Decides(brains[2], ThiefView, b)
    BY <1>2 DEF Decisions
  <1>4. PICK v : v = ThiefView
    OBVIOUS
  <1>5. Seeing(v) /\ v.pos = thief.pos /\ v.walls = barriers /\ v.trail \in Seq(Cells)
    BY <1>4, ViewsSee, TrailType DEF GameInv
  <1>6. v.pos \notin v.walls /\ v.pos \in Cells
    BY <1>1, <1>5 DEF ThiefTurn, GameInv, TypeOK, NoMissedCapture
  <1>7. \E jitter \in Nat : \E decoy : decision \in SurvivorDecides(v, b, jitter, decoy)
    <2>1. CASE brains[2] = "survivor"
      BY <1>3, <1>4, <2>1 DEF Decides
    <2>2. CASE brains[2] = "survivor_jitter"
      BY <1>3, <1>4, <2>2, BrainsAssumption DEF Decides
    <2>3. CASE brains[2] = "survivor_decoy"
      BY <1>3, <1>4, <2>3 DEF Decides
    <2>. QED  BY <2>1, <2>2, <2>3 DEF Survivors
  <1>8. decision.dir = "STAY" \/ ~TrapRisky(v, Shift(v.pos, decision.dir))
    BY <1>5, <1>6, <1>7, SurvivorSafe
  <1>9. thief'.pos = Shift(v.pos, decision.dir)
    BY <1>2, <1>5 DEF ThiefMoves
  <1>. QED  BY <1>4, <1>5, <1>6, <1>8, <1>9, Stays

\* NoTrapEntered, the jail-risk ban of thief.py: no survivor steps onto a cell
\* whose every exit the cop can still seal, whatever its belief, its trail, its
\* jitter or its decoy say.
THEOREM TrapsAreNotEntered == ASSUME AllMoves, ApartStarts PROVE Spec => NoTrapEntered
  <1>1. GameInv /\ [Next]_vars
          => [brains[2] \in Survivors /\ thief'.pos # thief.pos
                => ~TrapRisky(ThiefView, thief'.pos)]_vars
    BY TrapStep
  <1>. QED  BY <1>1, GameInvariant, PTL DEF Spec, NoTrapEntered

=============================================================================
