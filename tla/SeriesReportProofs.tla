------------------------- MODULE SeriesReportProofs -------------------------
(***************************************************************************)
(* Theorems about SeriesReport for any number of windows, any split of     *)
(* them and any left-over logs: a series is reported at most once, a       *)
(* process never reports an old log for a window it played, the emitter    *)
(* that starts to read last files the whole series, and two groups file    *)
(* the same agreement exactly when they recorded the same series.          *)
(***************************************************************************)
EXTENDS Settlement, FiniteSetTheorems, SequenceTheorems, TLAPS

-----------------------------------------------------------------------------
(* The windows of the two processes.                                       *)

LEMMA SidesTwo == Sides \subseteq {"police", "thief"}
  BY DEF Sides

LEMMA OwnPlayable == \A p \in Sides : Own(p) \subseteq Windows /\ 0 \notin Own(p)
  BY ReportAssumption DEF Own, Prefix, Windows

LEMMA WindowsNat == Windows \subseteq Nat \ {0}
  BY ReportAssumption DEF Windows

LEMMA WindowsFinite == IsFiniteSet(Windows)
<1>1. IsFiniteSet(1..Total) /\ IsFiniteSet(1..Count) /\ IsFiniteSet(Earlier)
  BY ReportAssumption, FS_Interval
<1>2. IsFiniteSet(1..Total \cup 1..Count)
  BY <1>1, FS_Union
<1>3. QED
  BY <1>1, <1>2, FS_Union DEF Windows

\* No window is played by both.
LEMMA OwnDisjoint ==
    ASSUME NEW p \in Sides, NEW q \in Sides, p # q
    PROVE  Own(p) \cap Own(q) = {}
<1>1. CASE Fixed
  BY <1>1 DEF Own, Prefix
<1>2. CASE ~Fixed
  BY <1>2 DEF Sides
<1>3. QED
  BY <1>1, <1>2

LEMMA OtherParity ==
    ASSUME NEW n \in Nat
    PROVE  /\ RoleFor(n) \in {"police", "thief"}
           /\ RoleFor(n + 1) # RoleFor(n)
<1>1. n % 2 \in {0, 1} /\ (n + 1) % 2 = 1 - (n % 2)
  BY SMT
<1>2. QED
  BY <1>1, ReportAssumption DEF RoleFor

\* If the emitter comes as far as the last window, its sibling comes as far as
\* the last of its own: between them they play the series.
LEMMA OwnCovers ==
    ASSUME NEW e \in Sides, Total \in Own(e), NEW n \in 1..Total
    PROVE  \E p \in Sides : n \in Own(p)
<1>1. CASE ~Fixed
  <2>1. Total \in 1..Count
    BY <1>1 DEF Own
  <2>2. QED
    BY <1>1, <2>1, ReportAssumption DEF Own, Sides
<1>2. CASE Fixed
  <2> DEFINE Of(r) == {m \in 1..Total : RoleFor(m) = r}
             Before(r, k) == {m \in Of(r) : m < k}
  <2>1. RoleFor(n) \in Sides
    BY <1>2, OtherParity DEF Sides
  <2>2. /\ Total \in Of(e)
        /\ Cardinality(Before(e, Total)) < Count
    BY <1>2 DEF Own, Prefix
  <2>3. IsFiniteSet(Before(e, Total)) /\ Cardinality(Before(e, Total)) \in Nat
    <3>1. IsFiniteSet(1..Total)
      BY ReportAssumption, FS_Interval
    <3>2. Before(e, Total) \in SUBSET (1..Total)
      OBVIOUS
    <3>3. QED
      BY <3>1, <3>2, FS_Subset, FS_CardinalityType
  <2>4. IsFiniteSet(Before(RoleFor(n), n)) /\ Cardinality(Before(RoleFor(n), n)) <= Cardinality(Before(e, Total))
    <3>1. CASE RoleFor(n) = e
      <4>1. Before(RoleFor(n), n) \in SUBSET Before(e, Total)
        BY <3>1, ReportAssumption
      <4>2. QED
        BY <4>1, <2>3, FS_Subset
    <3>2. CASE RoleFor(n) # e
      <4> DEFINE f == [m \in Before(RoleFor(n), n) |-> m + 1]
      <4>1. n < Total
        BY <2>2, <3>2, ReportAssumption
      <4>2. \A m \in Before(RoleFor(n), n) : m + 1 \in Before(e, Total)
        <5> TAKE m \in Before(RoleFor(n), n)
        <5>1. m \in 1..Total /\ m < n /\ RoleFor(m) = RoleFor(n) /\ m + 1 \in 1..Total /\ m + 1 < Total
          BY <4>1, ReportAssumption
        <5>2. RoleFor(m + 1) # RoleFor(m) /\ RoleFor(m + 1) \in {"police", "thief"}
          BY <5>1, OtherParity
        <5>3. e \in {"police", "thief"} /\ RoleFor(n) \in {"police", "thief"}
          BY SidesTwo, OtherParity
        <5>4. RoleFor(m + 1) = e
          BY <5>1, <5>2, <5>3, <3>2
        <5>5. QED
          BY <5>1, <5>4
      <4>3. f \in [Before(RoleFor(n), n) -> Before(e, Total)]
        BY <4>2
      <4>5. f \in Injection(Before(RoleFor(n), n), Before(e, Total))
        <5>1. \A a, b \in Before(RoleFor(n), n) : a + 1 = b + 1 => a = b
          OBVIOUS
        <5>2. IsInjective(f)
          BY <5>1 DEF IsInjective
        <5>3. QED
          BY <4>3, <5>2 DEF Injection
      <4>4. QED
        BY <4>5, <2>3, FS_Injection
    <3>3. QED
      BY <3>1, <3>2
  <2>5. Cardinality(Before(RoleFor(n), n)) < Count
    BY <2>2, <2>3, <2>4, ReportAssumption, FS_CardinalityType
  <2>6. n \in Own(RoleFor(n))
    BY <1>2, <2>5 DEF Own, Prefix
  <2>7. QED
    BY <2>1, <2>6
<1>3. QED
  BY <1>1, <1>2

-----------------------------------------------------------------------------
(* The invariant.                                                          *)

\* Which log a process has open, and how far it has come.
Placed ==
    \A p \in Sides :
        /\ at[p] \in {"playing", "reading", "done", "failed", "gone"} => pen[p] = 0
        /\ at[p] = "logging" => pen[p] \in Own(p)
        /\ at[p] = "archiving" => /\ todo[p] \subseteq DOMAIN rows[p]
                                  /\ pen[p] = 0 \/ pen[p] \in todo[p]
        /\ at[p] = "reading" => \A n \in todo[p] : files[n] # "none"
        /\ played[p] \subseteq Own(p)
        /\ at[p] \in {"reading", "archiving", "done"} => Own(p) \subseteq played[p]

\* Who has filed a report played the final window and has returned.
Filed ==
    /\ Len(mailed) <= 1
    /\ \A i \in 1..Len(mailed) :
         at[mailed[i].by] = "done" /\ Total \in Own(mailed[i].by)

IInv == TypeOK /\ Placed /\ OwnRowsFresh /\ Filed

-----------------------------------------------------------------------------
(* Types.                                                                  *)

LEMMA ReportsAre ==
    ASSUME NEW f
    PROVE  f \in Reports <=>
             /\ DOMAIN f \subseteq Windows
             /\ f \in [DOMAIN f -> LogOf]
  BY DEF Reports

LEMMA ExtendType ==
    ASSUME NEW f \in Reports, NEW n \in Windows, NEW c \in LogOf
    PROVE  Extend(f, n, c) \in Reports
  BY ReportsAre DEF Extend

LEMMA MergedType ==
    ASSUME TypeOK, NEW p \in Sides
    PROVE  /\ Merged(p) \in Reports
           /\ DOMAIN Merged(p) = DOMAIN rows[p] \cup played[p]
<1>1. rows[p] \in Reports /\ played[p] \subseteq Windows
  BY DEF TypeOK
<1>2. QED
  BY <1>1, ReportsAre DEF Merged, LogOf

LEMMA TruncateType ==
    ASSUME TypeOK, NEW p \in Sides, NEW n \in Windows, Truncate(p, n)
    PROVE  files' \in [Windows -> Contents] /\ pen' \in [Sides -> Windows \cup {0}]
           /\ over' \subseteq Sides
  BY DEF TypeOK, Truncate, Contents

LEMMA WriteType ==
    ASSUME TypeOK, NEW p \in Sides, NEW c \in LogOf, Write(p, c)
    PROVE  files' \in [Windows -> Contents] /\ pen' \in [Sides -> Windows \cup {0}]
           /\ over' \subseteq Sides
<1>1. PICK d \in {c, "torn"} : files' = [files EXCEPT ![pen[p]] = d]
  BY DEF Write
<1>2. files' \in [Windows -> Contents]
  BY <1>1 DEF TypeOK, Contents
<1>3. QED
  BY <1>2 DEF TypeOK, Write, Holders

LEMMA DropType ==
    ASSUME TypeOK, NEW p \in Sides, Drop(p)
    PROVE  files' \in [Windows -> Contents] /\ pen' \in [Sides -> Windows \cup {0}]
           /\ over' \subseteq Sides
  BY DEF TypeOK, Drop, Contents

LEMMA AppendType ==
    ASSUME NEW S, NEW s \in Seq(S), NEW e \in S
    PROVE  /\ Append(s, e) \in Seq(S)
           /\ Len(Append(s, e)) = Len(s) + 1
           /\ \A i \in 1..Len(s) : Append(s, e)[i] = s[i]
           /\ Append(s, e)[Len(s) + 1] = e
  OBVIOUS

LEMMA ElementType ==
    ASSUME NEW S, NEW s \in Seq(S), NEW i \in 1..Len(s)
    PROVE  s[i] \in S
  OBVIOUS

LEMMA InitReports == NoRows \in Reports /\ [n \in Earlier |-> "old"] \in Reports
<1>1. NoRows \in [{} -> LogOf] /\ [n \in Earlier |-> "old"] \in [Earlier -> LogOf]
  BY DEF NoRows, LogOf
<1>2. QED
  BY <1>1 DEF Reports, Windows

LEMMA InitType == Init => TypeOK
<1> SUFFICES ASSUME Init PROVE TypeOK
  OBVIOUS
<1>1. files \in [Windows -> Contents]
  BY DEF Init, Contents, LogOf
<1>2. rows \in [Sides -> Reports] /\ result \in Reports
  BY InitReports DEF Init
<1>3. mailed \in Seq([by : Sides, rows : Reports])
  BY DEF Init
<1>4. QED
  BY <1>1, <1>2, <1>3 DEF Init, TypeOK, Phases

LEMMA TypeStep == TypeOK /\ Placed /\ [Next]_vars => TypeOK'
<1> SUFFICES ASSUME TypeOK, Placed, [Next]_vars PROVE TypeOK'
  OBVIOUS
<1>1. CASE UNCHANGED vars
  BY <1>1 DEF vars, disk, TypeOK
<1>2. ASSUME NEW p \in Sides, Play(p) PROVE TypeOK'
  <2>1. PICK n \in Own(p) : Truncate(p, n)
    BY <1>2 DEF Play, Lowest
  <2>2. n \in Windows
    BY OwnPlayable
  <2>3. QED
    BY <1>2, <2>1, <2>2, TruncateType DEF Play, Goes, TypeOK, Phases
<1>3. ASSUME NEW p \in Sides, Logged(p) PROVE TypeOK'
  <2>1. pen[p] \in Windows /\ Write(p, "new")
    BY <1>3, OwnPlayable DEF Logged, Placed
  <2>2. QED
    BY <1>3, <2>1, WriteType DEF Logged, Goes, TypeOK, Phases, LogOf
<1>4. ASSUME NEW p \in Sides, Crash(p) PROVE TypeOK'
  BY <1>4, DropType DEF Crash, Goes, TypeOK, Phases
<1>5. ASSUME NEW p \in Sides, ListLogs(p) PROVE TypeOK'
  BY <1>5 DEF ListLogs, Goes, TypeOK, Phases, disk
<1>6. ASSUME NEW p \in Sides, NEW n \in todo[p], ReadLog(p, n) PROVE TypeOK'
  <2>1. n \in Windows /\ rows[p] \in Reports
    BY DEF TypeOK
  <2>2. files[n] \in LogOf \cup {"torn"}
    BY <1>6, <2>1 DEF ReadLog, Placed, TypeOK, Contents
  <2>3. QED
    BY <1>6, <2>1, <2>2, ExtendType DEF ReadLog, TypeOK, disk
<1>7. ASSUME NEW p \in Sides, WriteResult(p) PROVE TypeOK'
  <2>1. Merged(p) \in Reports /\ DOMAIN Merged(p) \subseteq Windows
    BY MergedType, ReportsAre
  <2>2. QED
    BY <1>7, <2>1 DEF WriteResult, Goes, TypeOK, Phases, disk
<1>8. ASSUME NEW p \in Sides, Archive(p) PROVE TypeOK'
  <2>1. PICK n \in todo[p] : Truncate(p, n)
    BY <1>8 DEF Archive, Lowest
  <2>2. n \in Windows
    BY DEF TypeOK
  <2>3. QED
    BY <1>8, <2>1, <2>2, TruncateType DEF Archive, TypeOK
<1>9. ASSUME NEW p \in Sides, Archived(p) PROVE TypeOK'
  <2>1. pen[p] \in DOMAIN rows[p] /\ rows[p] \in Reports
    BY <1>9 DEF Archived, Placed, TypeOK
  <2>2. rows[p][pen[p]] \in LogOf
    BY <2>1, ReportsAre
  <2>3. QED
    BY <1>9, <2>2, WriteType DEF Archived, TypeOK
<1>10. ASSUME NEW p \in Sides, Return(p) PROVE TypeOK'
  <2>1. [by |-> p, rows |-> rows[p]] \in [by : Sides, rows : Reports]
    BY DEF TypeOK
  <2>2. mailed' \in Seq([by : Sides, rows : Reports])
    BY <1>10, <2>1, AppendType DEF Return, TypeOK
  <2>3. QED
    BY <1>10, <2>2 DEF Return, Goes, TypeOK, Phases, disk
<1>11. ASSUME NEW p \in Sides, Swallows(p) PROVE TypeOK'
  BY <1>11, DropType DEF Swallows, Goes, TypeOK, Phases
<1>12. QED
  BY <1>1, <1>2, <1>3, <1>4, <1>5, <1>6, <1>7, <1>8, <1>9, <1>10, <1>11 DEF Next

-----------------------------------------------------------------------------
(* What a process may do to its sibling's log files: nothing is deleted.   *)

LEMMA NothingDeleted ==
    ASSUME TypeOK, Placed, [Next]_vars, NEW n \in Windows, files[n] # "none"
    PROVE  files'[n] # "none"
<1> DEFINE Kept == files'[n] # "none"
<1>1. ASSUME NEW p \in Sides, NEW m, Truncate(p, m) PROVE Kept
  BY <1>1 DEF Truncate, TypeOK
<1>2. ASSUME NEW p \in Sides, NEW c, c # "none", Write(p, c) PROVE Kept
  <2>1. PICK d \in {c, "torn"} : files' = [files EXCEPT ![pen[p]] = d]
    BY <1>2 DEF Write
  <2>2. QED
    BY <1>2, <2>1 DEF TypeOK
<1>3. ASSUME NEW p \in Sides, Drop(p) PROVE Kept
  BY <1>3 DEF Drop, TypeOK
<1>4. CASE UNCHANGED files
  BY <1>4
<1>5. ASSUME NEW p \in Sides, Archived(p) PROVE Kept
  <2>1. pen[p] \in DOMAIN rows[p] /\ rows[p] \in Reports
    BY <1>5 DEF Archived, Placed, TypeOK
  <2>2. rows[p][pen[p]] # "none"
    BY <2>1, ReportsAre DEF LogOf
  <2>3. QED
    BY <1>5, <2>2, <1>2 DEF Archived
<1>6. QED
  BY <1>1, <1>2, <1>3, <1>4, <1>5
     DEF Next, vars, disk, Play, Logged, Crash, ListLogs, ReadLog, WriteResult,
         Archive, Return, Swallows, Lowest

\* The phase of a process changes by its own steps only.
Untouched(p) ==
    /\ at'[p] = at[p] /\ pen'[p] = pen[p] /\ todo'[p] = todo[p]
    /\ rows'[p] = rows[p] /\ played'[p] = played[p] /\ alone'[p] = alone[p]

Moves(p) ==
    \/ Play(p) \/ Logged(p) \/ Crash(p)
    \/ ListLogs(p) \/ (\E n \in todo[p] : ReadLog(p, n)) \/ WriteResult(p)
    \/ Archive(p) \/ Archived(p) \/ Return(p) \/ Swallows(p)

LEMMA OthersUntouched ==
    ASSUME TypeOK, NEW p \in Sides, NEW q \in Sides, q # p, Moves(p)
    PROVE  Untouched(q)
  BY DEF TypeOK, Untouched, Moves, disk, Goes, Truncate, Write, Drop, Play, Logged,
         Crash, ListLogs, ReadLog, WriteResult, Archive, Archived, Return, Swallows

LEMMA Steps ==
    ASSUME [Next]_vars
    PROVE  UNCHANGED vars \/ \E p \in Sides : Moves(p)
  BY DEF Next, Moves

PlacedAt(p) ==
    /\ at[p] \in {"playing", "reading", "done", "failed", "gone"} => pen[p] = 0
    /\ at[p] = "logging" => pen[p] \in Own(p)
    /\ at[p] = "archiving" => /\ todo[p] \subseteq DOMAIN rows[p]
                              /\ pen[p] = 0 \/ pen[p] \in todo[p]
    /\ at[p] = "reading" => \A n \in todo[p] : files[n] # "none"
    /\ played[p] \subseteq Own(p)
    /\ at[p] \in {"reading", "archiving", "done"} => Own(p) \subseteq played[p]

LEMMA PlacedStep == TypeOK /\ Placed /\ [Next]_vars => Placed'
<1> SUFFICES ASSUME TypeOK, Placed, [Next]_vars, NEW q \in Sides PROVE PlacedAt(q)'
  BY DEF Placed, PlacedAt
<1>0. PlacedAt(q) /\ todo[q] \subseteq Windows /\ TypeOK'
  BY TypeStep DEF Placed, PlacedAt, TypeOK
<1>1. CASE UNCHANGED vars
  BY <1>0, <1>1 DEF vars, disk, PlacedAt
<1>2. ASSUME NEW p \in Sides, Moves(p), p # q PROVE PlacedAt(q)'
  <2>1. Untouched(q)
    BY <1>2, OthersUntouched
  <2>2. \A n \in todo[q] : files[n] # "none" => files'[n] # "none"
    BY <1>0, NothingDeleted
  <2>3. QED
    BY <1>0, <2>1, <2>2 DEF Untouched, PlacedAt
<1>3. CASE Play(q)
  <2>1. PICK n \in Own(q) : Truncate(q, n)
    BY <1>3 DEF Play, Lowest
  <2>2. pen'[q] = n /\ at'[q] = "logging" /\ played' = played
    BY <1>3, <2>1 DEF Play, Truncate, Goes, TypeOK
  <2>3. QED
    BY <1>0, <2>2 DEF PlacedAt
<1>4. CASE Logged(q)
  BY <1>0, <1>4 DEF Logged, Write, Goes, TypeOK, PlacedAt
<1>5. CASE Crash(q)
  BY <1>0, <1>5 DEF Crash, Drop, Goes, TypeOK, PlacedAt
<1>6. CASE ListLogs(q)
  BY <1>0, <1>6 DEF ListLogs, disk, Goes, TypeOK, PlacedAt
<1>7. ASSUME NEW n \in todo[q], ReadLog(q, n) PROVE PlacedAt(q)'
  BY <1>0, <1>7 DEF ReadLog, disk, TypeOK, PlacedAt
<1>8. CASE WriteResult(q)
  <2>1. at'[q] = "archiving" /\ pen'[q] = 0 /\ todo'[q] = DOMAIN rows'[q] /\ played' = played
    BY <1>0, <1>8 DEF WriteResult, disk, Goes, TypeOK, PlacedAt
  <2>2. QED
    BY <1>0, <1>8, <2>1 DEF WriteResult, PlacedAt
<1>9. CASE Archive(q)
  <2>1. PICK n \in todo[q] : Truncate(q, n)
    BY <1>9 DEF Archive, Lowest
  <2>2. pen'[q] = n /\ at'[q] = "archiving" /\ UNCHANGED <<played, todo, rows>>
    BY <1>9, <2>1 DEF Archive, Truncate, TypeOK
  <2>3. QED
    BY <1>0, <1>9, <2>2 DEF PlacedAt, Archive
<1>10. CASE Archived(q)
  BY <1>0, <1>10 DEF Archived, Write, TypeOK, PlacedAt
<1>11. CASE Return(q)
  BY <1>0, <1>11 DEF Return, disk, Goes, TypeOK, PlacedAt
<1>12. CASE Swallows(q)
  BY <1>0, <1>12 DEF Swallows, Drop, Goes, TypeOK, PlacedAt
<1>13. QED
  BY <1>1, <1>2, <1>3, <1>4, <1>5, <1>6, <1>7, <1>8, <1>9, <1>10, <1>11, <1>12, Steps
     DEF Moves

FreshAt(p) ==
    at[p] \in {"archiving", "done"} =>
        \A n \in Own(p) : n \in DOMAIN rows[p] /\ rows[p][n] = "new"

LEMMA FreshStep == TypeOK /\ Placed /\ OwnRowsFresh /\ [Next]_vars => OwnRowsFresh'
<1> SUFFICES ASSUME TypeOK, Placed, OwnRowsFresh, [Next]_vars, NEW q \in Sides
             PROVE  FreshAt(q)'
  BY DEF OwnRowsFresh, FreshAt
<1>0. FreshAt(q)
  BY DEF OwnRowsFresh, FreshAt
<1>1. CASE UNCHANGED vars
  BY <1>0, <1>1 DEF vars, FreshAt
<1>2. ASSUME NEW p \in Sides, Moves(p), p # q PROVE FreshAt(q)'
  BY <1>0, <1>2, OthersUntouched DEF Untouched, FreshAt
<1>3. CASE WriteResult(q)
  <2>1. Own(q) \subseteq played[q] /\ rows'[q] = Merged(q)
    BY <1>3 DEF WriteResult, Placed, TypeOK
  <2>2. QED
    BY <2>1 DEF Merged, FreshAt
<1>4. CASE Archive(q) \/ Archived(q) \/ Return(q)
  BY <1>0, <1>4 DEF Archive, Archived, Return, Goes, TypeOK, FreshAt
<1>5. CASE Play(q) \/ Logged(q) \/ Crash(q) \/ ListLogs(q) \/ Swallows(q)
  BY <1>5 DEF Play, Logged, Crash, ListLogs, Swallows, Goes, TypeOK, FreshAt
<1>6. ASSUME NEW n \in todo[q], ReadLog(q, n) PROVE FreshAt(q)'
  BY <1>6 DEF ReadLog, TypeOK, FreshAt
<1>7. QED
  BY <1>1, <1>2, <1>3, <1>4, <1>5, <1>6, Steps DEF Moves

\* A process that has returned takes no further step.
LEMMA DoneStays ==
    ASSUME TypeOK, [Next]_vars, NEW q \in Sides, at[q] = "done"
    PROVE  at'[q] = "done"
<1>1. CASE UNCHANGED vars
  BY <1>1 DEF vars
<1>2. ASSUME NEW p \in Sides, Moves(p), p # q PROVE at'[q] = "done"
  BY <1>2, OthersUntouched DEF Untouched
<1>3. CASE Moves(q)
  BY <1>3 DEF Moves, Play, Logged, Crash, ListLogs, ReadLog, WriteResult, Archive,
              Archived, Return, Swallows
<1>4. QED
  BY <1>1, <1>2, <1>3, Steps

LEMMA FiledStep == TypeOK /\ Filed /\ [Next]_vars => Filed'
<1> SUFFICES ASSUME TypeOK, Filed, [Next]_vars PROVE Filed'
  OBVIOUS
<1>1. \A i \in 1..Len(mailed) : mailed[i].by \in Sides
  <2> TAKE i \in 1..Len(mailed)
  <2>1. mailed[i] \in [by : Sides, rows : Reports]
    BY ElementType DEF TypeOK
  <2>2. QED
    BY <2>1
<1>2. CASE UNCHANGED mailed
  BY <1>1, <1>2, DoneStays DEF Filed
<1>3. ASSUME NEW p \in Sides, Return(p), ~ UNCHANGED mailed PROVE Filed'
  <2> DEFINE r == [by |-> p, rows |-> rows[p]]
  <2>1. /\ mailed' = Append(mailed, r)
        /\ Total \in Own(p) /\ at[p] = "archiving"
    BY <1>3 DEF Return, Emitter
  <2>2. mailed = <<>>
    <3>1. SUFFICES ASSUME 1 \in 1..Len(mailed) PROVE FALSE
      BY DEF TypeOK
    <3>2. mailed[1].by = p
      BY <3>1, <2>1, <1>1, OwnDisjoint DEF Filed
    <3>3. QED
      BY <3>1, <3>2, <2>1 DEF Filed
  <2>3. mailed' = <<r>> /\ at'[p] = "done"
    BY <2>1, <2>2, <1>3 DEF Return, Goes, TypeOK
  <2>4. QED
    BY <2>1, <2>3 DEF Filed
<1>4. QED
  BY <1>2, <1>3
     DEF Next, vars, Play, Logged, Crash, ListLogs, ReadLog, WriteResult, Archive,
         Archived, Swallows

LEMMA InitIInv == Init => IInv
<1> SUFFICES ASSUME Init PROVE IInv
  OBVIOUS
<1>1. TypeOK
  BY InitType
<1>2. Placed /\ OwnRowsFresh /\ Filed
  BY DEF Init, Placed, OwnRowsFresh, Filed
<1>3. QED
  BY <1>1, <1>2 DEF IInv

LEMMA IInvStep == IInv /\ [Next]_vars => IInv'
  BY TypeStep, PlacedStep, FreshStep, FiledStep DEF IInv

LEMMA Invariance == Spec => []IInv
  BY InitIInv, IInvStep, PTL DEF Spec

-----------------------------------------------------------------------------
(* The emitter that starts last.                                           *)

\* As long as p plays, what q has logged is on disk, unless q is just writing
\* it again; and nothing is written under q's pen on q's own logs.
Shelf(p, q) ==
    at[p] \in {"playing", "logging"} /\ at[q] \notin {"failed", "gone"} =>
        /\ \A n \in played[q] : pen[q] # n => files[n] = "new"
        /\ pen[q] \in Own(q) => q \notin over

\* What p, reading after q has returned, has found or will find.
Waited(p, q) ==
    alone[p] /\ at[p] \in {"reading", "archiving", "done"} =>
        /\ at[q] = "done"
        /\ \A n \in Own(q) :
             /\ at[p] = "reading" => files[n] = "new"
             /\ \/ at[p] = "reading" /\ n \in todo[p]
                \/ n \in DOMAIN rows[p] /\ rows[p][n] = "new"

\* Nobody overwrites the result of p.
Settled(p) ==
    alone[p] /\ at[p] \in {"archiving", "done"} =>
        /\ \A q \in Sides \ {p} : at[q] = "done"
        /\ result = rows[p]

LastInv ==
    /\ \A p, q \in Sides : p # q => Shelf(p, q) /\ Waited(p, q)
    /\ \A p \in Sides : Settled(p)
    /\ FiledByTheLast

LEMMA ShelfStep ==
    ASSUME IInv, [Next]_vars, NEW p \in Sides, NEW q \in Sides, p # q, Shelf(p, q)
    PROVE  Shelf(p, q)'
<1> SUFFICES ASSUME at'[p] \in {"playing", "logging"}, at'[q] \notin {"failed", "gone"}
             PROVE  /\ \A n \in played'[q] : pen'[q] # n => files'[n] = "new"
                    /\ pen'[q] \in Own(q) => q \notin over'
  BY DEF Shelf
<1> USE DEF IInv
<1>0. /\ PlacedAt(p) /\ PlacedAt(q) /\ Own(p) \cap Own(q) = {}
      /\ Own(p) \subseteq Windows /\ Own(q) \subseteq Windows /\ 0 \notin Own(q)
  BY OwnDisjoint, OwnPlayable DEF Placed, PlacedAt
<1>1. CASE UNCHANGED vars
  BY <1>1 DEF vars, disk, Shelf
<1>2. CASE Moves(p)
  <2>1. Untouched(q)
    BY <1>2, OthersUntouched
  <2>2. CASE Play(p)
    <3>1. PICK n \in Own(p) : Truncate(p, n)
      BY <2>2 DEF Play, Lowest
    <3>2. files' = [files EXCEPT ![n] = "torn"] /\ over' \subseteq over
      BY <3>1 DEF Truncate
    <3>3. QED
      BY <1>0, <2>1, <2>2, <3>2 DEF Play, Shelf, Untouched, PlacedAt, TypeOK
  <2>3. CASE Logged(p)
    <3>1. pen[p] \in Own(p) /\ over' = (over \cup Holders(pen[p])) \ {p}
      BY <1>0, <2>3 DEF Logged, Write, PlacedAt
    <3>2. \A n \in Windows : n # pen[p] => files'[n] = files[n]
      BY <2>3 DEF Logged, Write, TypeOK
    <3>3. QED
      BY <1>0, <2>1, <2>3, <3>1, <3>2 DEF Logged, Shelf, Untouched, PlacedAt, Holders
  <2>4. QED
    BY <1>2, <2>2, <2>3
       DEF Moves, Crash, ListLogs, ReadLog, WriteResult, Archive, Archived, Return,
           Swallows, Goes, TypeOK
<1>3. CASE Moves(q)
  <2>1. at[p] \in {"playing", "logging"}
    BY <1>3, OthersUntouched DEF Untouched
  <2>2. ASSUME NEW n \in Windows, Truncate(q, n), played' = played, pen[q] = 0,
               at[q] \notin {"failed", "gone"}
        PROVE  /\ \A m \in played'[q] : pen'[q] # m => files'[m] = "new"
               /\ q \notin over'
    BY <1>0, <2>1, <2>2 DEF Truncate, Shelf, TypeOK, PlacedAt
  <2>3. CASE Play(q)
    BY <1>0, <2>2, <2>3 DEF Play, Lowest, PlacedAt
  <2>4. CASE Logged(q)
    BY <1>0, <2>1, <2>4 DEF Logged, Write, Shelf, TypeOK, PlacedAt
  <2>5. CASE ListLogs(q) \/ WriteResult(q) \/ Return(q)
    BY <2>1, <2>5 DEF ListLogs, WriteResult, Return, Shelf, disk
  <2>6. ASSUME NEW n \in todo[q], ReadLog(q, n)
        PROVE  /\ \A m \in played'[q] : pen'[q] # m => files'[m] = "new"
               /\ pen'[q] \in Own(q) => q \notin over'
    BY <2>1, <2>6 DEF ReadLog, Shelf, disk
  <2>7. CASE Archive(q)
    BY <1>0, <2>2, <2>7 DEF Archive, Lowest, TypeOK
  <2>8. CASE Archived(q)
    BY <1>0, <2>1, <2>8 DEF Archived, Write, Shelf, TypeOK, PlacedAt, OwnRowsFresh
  <2>9. QED
    BY <1>3, <2>3, <2>4, <2>5, <2>6, <2>7, <2>8
       DEF Moves, Crash, Swallows, Goes, TypeOK
<1>4. QED
  BY <1>1, <1>2, <1>3, Steps, SidesTwo

LEMMA WaitedStep ==
    ASSUME IInv, [Next]_vars, NEW p \in Sides, NEW q \in Sides, p # q,
           Shelf(p, q), Waited(p, q)
    PROVE  Waited(p, q)'
<1> USE DEF IInv
<1>0. /\ PlacedAt(p) /\ PlacedAt(q) /\ Own(p) \cap Own(q) = {}
      /\ Own(p) \subseteq Windows /\ Own(q) \subseteq Windows /\ 0 \notin Own(q)
  BY OwnDisjoint, OwnPlayable DEF Placed, PlacedAt
<1>1. CASE UNCHANGED vars
  BY <1>1 DEF vars, disk, Waited
<1>2. CASE Moves(q)
  <2>1. at[q] # "done"
    BY <1>2 DEF Moves, Play, Logged, Crash, ListLogs, ReadLog, WriteResult, Archive,
                Archived, Return, Swallows
  <2>2. Untouched(p)
    BY <1>2, OthersUntouched
  <2>3. QED
    BY <2>1, <2>2 DEF Waited, Untouched
<1>3. CASE Moves(p)
  <2>1. Untouched(q)
    BY <1>3, OthersUntouched
  <2>2. CASE Play(p) \/ Logged(p) \/ Crash(p) \/ Swallows(p)
    BY <2>2 DEF Play, Logged, Crash, Swallows, Goes, TypeOK, Waited
  <2>3. CASE ListLogs(p)
    <3>1. SUFFICES ASSUME at[q] = "done" PROVE Waited(p, q)'
      BY <2>1, <2>3 DEF ListLogs, Waited, TypeOK, Untouched
    <3>2. \A n \in Own(q) : files[n] = "new"
      BY <1>0, <2>3, <3>1 DEF ListLogs, Shelf, PlacedAt
    <3>3. /\ at'[p] = "reading" /\ at'[q] = "done" /\ files' = files
          /\ todo'[p] = {n \in Windows : files[n] # "none"}
      BY <2>1, <2>3, <3>1 DEF ListLogs, Goes, disk, TypeOK, Untouched
    <3>4. QED
      BY <1>0, <3>2, <3>3 DEF Waited
  <2>4. ASSUME NEW m \in todo[p], ReadLog(p, m) PROVE Waited(p, q)'
    <3>1. /\ at' = at /\ alone' = alone /\ files' = files
          /\ todo'[p] = todo[p] \ {m}
          /\ rows'[p] = IF files[m] = "torn" THEN rows[p] ELSE Extend(rows[p], m, files[m])
      BY <2>4 DEF ReadLog, disk, TypeOK
    <3>2. SUFFICES ASSUME alone[p], NEW n \in Own(q)
                   PROVE  n \in todo'[p] \/ (n \in DOMAIN rows'[p] /\ rows'[p][n] = "new")
      BY <3>1, <2>4 DEF ReadLog, Waited
    <3>3. /\ files[n] = "new"
          /\ n \in todo[p] \/ (n \in DOMAIN rows[p] /\ rows[p][n] = "new")
      BY <3>2, <2>4 DEF ReadLog, Waited
    <3>4. QED
      BY <3>1, <3>3 DEF Extend
  <2>5. CASE WriteResult(p)
    <3>1. /\ at[p] = "reading" /\ todo[p] = {} /\ at'[p] = "archiving" /\ at'[q] = at[q]
          /\ rows'[p] = Merged(p) /\ alone' = alone /\ Own(p) = played[p]
      BY <1>0, <2>1, <2>5 DEF WriteResult, Goes, TypeOK, Untouched, PlacedAt
    <3>2. QED
      BY <1>0, <3>1 DEF Waited, Merged
  <2>6. CASE Archive(p) \/ Archived(p) \/ Return(p)
    BY <2>1, <2>6 DEF Archive, Archived, Return, Goes, TypeOK, Waited, Untouched
  <2>7. QED
    BY <1>3, <2>2, <2>3, <2>4, <2>5, <2>6 DEF Moves
<1>4. QED
  BY <1>1, <1>2, <1>3, Steps, SidesTwo

LEMMA SettledStep ==
    ASSUME IInv, [Next]_vars, NEW p \in Sides, Settled(p),
           \A q \in Sides \ {p} : Waited(p, q)
    PROVE  Settled(p)'
<1> USE DEF IInv
<1>1. CASE UNCHANGED vars
  BY <1>1 DEF vars, Settled
<1>2. ASSUME NEW q \in Sides, q # p, Moves(q) PROVE Settled(p)'
  <2>1. at[q] # "done"
    BY <1>2 DEF Moves, Play, Logged, Crash, ListLogs, ReadLog, WriteResult, Archive,
                Archived, Return, Swallows
  <2>2. Untouched(p)
    BY <1>2, OthersUntouched
  <2>3. QED
    BY <1>2, <2>1, <2>2 DEF Settled, Untouched
<1>3. CASE Moves(p)
  <2>1. \A q \in Sides \ {p} : Untouched(q)
    BY <1>3, OthersUntouched
  <2>2. CASE WriteResult(p)
    BY <2>1, <2>2 DEF WriteResult, Goes, TypeOK, Waited, Settled, Untouched
  <2>3. CASE Archive(p) \/ Archived(p) \/ Return(p)
    BY <2>1, <2>3 DEF Archive, Archived, Return, Goes, TypeOK, Settled, Untouched
  <2>4. CASE Play(p) \/ Logged(p) \/ Crash(p) \/ ListLogs(p) \/ Swallows(p)
    BY <2>4 DEF Play, Logged, Crash, ListLogs, Swallows, Goes, TypeOK, Settled
  <2>5. ASSUME NEW n \in todo[p], ReadLog(p, n) PROVE Settled(p)'
    BY <2>5 DEF ReadLog, TypeOK, Settled
  <2>6. QED
    BY <1>3, <2>2, <2>3, <2>4, <2>5 DEF Moves
<1>4. QED
  BY <1>1, <1>2, <1>3, Steps

\* A report with a row for every window of the series counts as complete.
LEMMA RowsSuffice ==
    ASSUME TypeOK, NEW p \in Sides, 1..Total \subseteq DOMAIN rows[p]
    PROVE  Complete(p)
<1>1. IsFiniteSet(DOMAIN rows[p])
  <2>1. DOMAIN rows[p] \in SUBSET Windows
    BY ReportsAre DEF TypeOK
  <2>2. QED
    BY <2>1, WindowsFinite, FS_Subset
<1>2. Cardinality(1..Total) = Total
  BY ReportAssumption, FS_Interval
<1>3. Cardinality(1..Total) <= Cardinality(DOMAIN rows[p])
  BY <1>1, FS_Subset
<1>4. QED
  BY <1>2, <1>3 DEF Complete

FiledAt(p) ==
    Total \in Own(p) /\ at[p] = "done" /\ alone[p] =>
        /\ \A n \in 1..Total : n \in DOMAIN rows[p] /\ rows[p][n] = "new"
        /\ \E i \in 1..Len(mailed) : mailed[i] = [by |-> p, rows |-> rows[p]]
        /\ result = rows[p]

\* A report once filed stays filed.
LEMMA FiledStays ==
    ASSUME TypeOK, [Next]_vars, NEW i \in 1..Len(mailed)
    PROVE  i \in 1..Len(mailed') /\ mailed'[i] = mailed[i]
<1>1. CASE UNCHANGED mailed
  BY <1>1
<1>2. ASSUME NEW p \in Sides, Return(p) PROVE i \in 1..Len(mailed') /\ mailed'[i] = mailed[i]
  <2> DEFINE S == [by : Sides, rows : Reports]
  <2>1. mailed \in Seq(S) /\ [by |-> p, rows |-> rows[p]] \in S
    BY DEF TypeOK
  <2>2. QED
    BY <1>2, <2>1, AppendType DEF Return
<1>3. QED
  BY <1>1, <1>2 DEF Next, vars, Play, Logged, Crash, ListLogs, ReadLog, WriteResult,
                    Archive, Archived, Swallows

LEMMA FiledByTheLastStep ==
    ASSUME IInv, [Next]_vars, NEW p \in Sides, FiledAt(p), Settled(p), Settled(p)',
           \A q \in Sides \ {p} : Waited(p, q)
    PROVE  FiledAt(p)'
<1> USE DEF IInv
<1>1. CASE UNCHANGED vars
  BY <1>1 DEF vars, FiledAt
<1>2. ASSUME NEW q \in Sides, q # p, Moves(q) PROVE FiledAt(p)'
  <2>1. Untouched(p)
    BY <1>2, OthersUntouched
  <2>2. QED
    BY <2>1, FiledStays DEF FiledAt, Untouched, Settled
<1>3. CASE Return(p)
  <2> SUFFICES ASSUME Total \in Own(p), alone[p] PROVE FiledAt(p)'
    BY <1>3 DEF Return, FiledAt
  <2> DEFINE r == [by |-> p, rows |-> rows[p]]
  <2>1. \A n \in 1..Total : n \in DOMAIN rows[p] /\ rows[p][n] = "new"
    <3> TAKE n \in 1..Total
    <3>1. PICK q \in Sides : n \in Own(q)
      BY OwnCovers
    <3>2. QED
      BY <1>3, <3>1 DEF Return, OwnRowsFresh, Waited
  <2>2. Complete(p)
    BY <2>1, RowsSuffice
  <2>3. mailed' = Append(mailed, r)
    BY <1>3, <2>2 DEF Return, Emitter
  <2>4. Len(mailed') \in 1..Len(mailed') /\ mailed'[Len(mailed')] = r
    <3> DEFINE S == [by : Sides, rows : Reports]
    <3>1. mailed \in Seq(S) /\ r \in S
      BY DEF TypeOK
    <3>2. QED
      BY <2>3, <3>1, AppendType
  <2>5. rows' = rows /\ result' = rows[p]
    BY <1>3 DEF Return, Settled
  <2>6. QED
    BY <2>1, <2>4, <2>5 DEF FiledAt
<1>4. CASE Play(p) \/ Logged(p) \/ Crash(p) \/ ListLogs(p) \/ WriteResult(p) \/ Archive(p)
           \/ Archived(p) \/ Swallows(p)
  BY <1>4 DEF Play, Logged, Crash, ListLogs, WriteResult, Archive, Archived, Swallows,
              Goes, TypeOK, FiledAt
<1>5. ASSUME NEW n \in todo[p], ReadLog(p, n) PROVE FiledAt(p)'
  BY <1>5 DEF ReadLog, TypeOK, FiledAt
<1>6. QED
  BY <1>1, <1>2, <1>3, <1>4, <1>5, Steps DEF Moves

LEMMA LastStep == IInv /\ LastInv /\ [Next]_vars => LastInv'
<1> SUFFICES ASSUME IInv, LastInv, [Next]_vars PROVE LastInv'
  OBVIOUS
<1>1. \A p, q \in Sides : p # q => Shelf(p, q)' /\ Waited(p, q)'
  BY ShelfStep, WaitedStep DEF LastInv
<1>2. \A p \in Sides : Settled(p)'
  BY SettledStep DEF LastInv
<1>3. \A p \in Sides : FiledAt(p)
  BY DEF LastInv, FiledByTheLast, FiledAt
<1>4. \A p \in Sides : FiledAt(p)'
  BY <1>2, <1>3, FiledByTheLastStep DEF LastInv
<1>5. FiledByTheLast'
  BY <1>4 DEF FiledByTheLast, FiledAt
<1>6. QED
  BY <1>1, <1>2, <1>5 DEF LastInv

LEMMA InitLast == Init => LastInv
  BY DEF Init, LastInv, Shelf, Waited, Settled, FiledByTheLast

-----------------------------------------------------------------------------
(* A directory that holds this series only.                                *)

OnlyThisSeries == Earlier = {} /\ Count <= Total

LEMMA WindowsSigned == OnlyThisSeries => Windows = 1..Total
  BY ReportAssumption DEF OnlyThisSeries, Windows

NoOld ==
    /\ \A n \in Windows : files[n] # "old"
    /\ \A p \in Sides : \A n \in DOMAIN rows[p] : rows[p][n] = "new"
    /\ NoPartialFiled

\* A complete report of such a directory is the whole series.
LEMMA CompleteIsWhole ==
    ASSUME TypeOK, OnlyThisSeries, NEW p \in Sides, Complete(p),
           \A n \in DOMAIN rows[p] : rows[p][n] = "new"
    PROVE  rows[p] = Whole
<1>1. /\ rows[p] \in [DOMAIN rows[p] -> LogOf]
      /\ DOMAIN rows[p] \in SUBSET (1..Total)
  BY ReportsAre, WindowsSigned DEF TypeOK
<1>2. IsFiniteSet(1..Total) /\ Cardinality(1..Total) = Total
  BY ReportAssumption, FS_Interval
<1>3. /\ Cardinality(DOMAIN rows[p]) <= Total
      /\ Cardinality(DOMAIN rows[p]) \in Nat
      /\ Cardinality(1..Total) = Cardinality(DOMAIN rows[p]) => 1..Total = DOMAIN rows[p]
  BY <1>1, <1>2, FS_Subset, FS_CardinalityType
<1>4. DOMAIN rows[p] = 1..Total
  BY <1>2, <1>3, ReportAssumption DEF Complete
<1>5. QED
  BY <1>1, <1>4 DEF Whole

LEMMA NoOldStep == OnlyThisSeries /\ IInv /\ NoOld /\ [Next]_vars => NoOld'
<1> SUFFICES ASSUME OnlyThisSeries, IInv, NoOld, [Next]_vars PROVE NoOld'
  OBVIOUS
<1> USE DEF IInv
<1>1. CASE UNCHANGED vars
  BY <1>1 DEF vars, disk, NoOld, NoPartialFiled
<1>2. ASSUME NEW p \in Sides, Play(p) \/ Archive(p) PROVE NoOld'
  BY <1>2 DEF Play, Archive, Truncate, TypeOK, NoOld, NoPartialFiled
<1>3. ASSUME NEW p \in Sides, Logged(p) PROVE NoOld'
  BY <1>3 DEF Logged, Write, TypeOK, NoOld, NoPartialFiled
<1>4. ASSUME NEW p \in Sides, Crash(p) \/ Swallows(p) PROVE NoOld'
  BY <1>4 DEF Crash, Swallows, Drop, TypeOK, NoOld, NoPartialFiled
<1>5. ASSUME NEW p \in Sides, ListLogs(p) PROVE NoOld'
  BY <1>5 DEF ListLogs, disk, NoOld, NoPartialFiled
<1>6. ASSUME NEW p \in Sides, NEW n \in todo[p], ReadLog(p, n) PROVE NoOld'
  <2>1. n \in Windows /\ files[n] \in {"new", "torn"}
    BY <1>6 DEF ReadLog, Placed, TypeOK, Contents, LogOf, NoOld
  <2>2. \A q \in Sides : q # p => rows'[q] = rows[q]
    BY <1>6 DEF ReadLog, TypeOK
  <2>3. rows'[p] = IF files[n] = "torn" THEN rows[p] ELSE Extend(rows[p], n, files[n])
    BY <1>6 DEF ReadLog, TypeOK
  <2>4. QED
    BY <1>6, <2>1, <2>2, <2>3 DEF ReadLog, Extend, disk, NoOld, NoPartialFiled
<1>7. ASSUME NEW p \in Sides, WriteResult(p) PROVE NoOld'
  <2>1. \A n \in DOMAIN Merged(p) : Merged(p)[n] = "new"
    BY DEF Merged, NoOld
  <2>2. \A q \in Sides : rows'[q] = IF q = p THEN Merged(p) ELSE rows[q]
    BY <1>7 DEF WriteResult, TypeOK
  <2>3. QED
    BY <1>7, <2>1, <2>2 DEF WriteResult, disk, NoOld, NoPartialFiled
<1>8. ASSUME NEW p \in Sides, Archived(p) PROVE NoOld'
  <2>1. rows[p][pen[p]] = "new"
    BY <1>8 DEF Archived, Placed, NoOld
  <2>2. QED
    BY <1>8, <2>1 DEF Archived, Write, TypeOK, NoOld, NoPartialFiled
<1>9. ASSUME NEW p \in Sides, Return(p) PROVE NoOld'
  <2> DEFINE S == [by : Sides, rows : Reports]
             r == [by |-> p, rows |-> rows[p]]
  <2>1. mailed \in Seq(S) /\ r \in S
    BY DEF TypeOK
  <2>2. CASE mailed' = mailed
    BY <1>9, <2>2 DEF Return, disk, NoOld, NoPartialFiled
  <2>3. CASE mailed' # mailed
    <3>1. Complete(p) /\ mailed' = Append(mailed, r)
      BY <1>9, <2>3 DEF Return
    <3>2. r.rows = Whole
      BY <3>1, CompleteIsWhole DEF NoOld
    <3>3. \A i \in 1..Len(mailed') : mailed'[i].rows = Whole
      BY <2>1, <3>1, <3>2, AppendType DEF NoOld, NoPartialFiled
    <3>4. QED
      BY <1>9, <3>3 DEF Return, disk, NoOld, NoPartialFiled
  <2>4. QED
    BY <2>2, <2>3
<1>10. QED
  BY <1>1, <1>2, <1>3, <1>4, <1>5, <1>6, <1>7, <1>8, <1>9 DEF Next

-----------------------------------------------------------------------------
(* Theorems.                                                               *)

\* Every variable of the report stage keeps its type: a file that does not
\* parse never reaches a report (_read_sibling_logs).
THEOREM TypeCorrect == Spec => []TypeOK
<1>1. IInv => TypeOK
  BY DEF IInv
<1>2. QED
  BY <1>1, Invariance, PTL

\* For any split of the windows and any failure, at most one report of a
\* series is filed (the single-emitter guard of emit_artifacts).
THEOREM FiledOnce == Spec => []AtMostOneReport
<1>1. IInv => AtMostOneReport
  BY DEF IInv, Filed, AtMostOneReport
<1>2. QED
  BY <1>1, Invariance, PTL

\* Whatever lies in the directory, a process shows its own windows by its own
\* documents (_merged_summary).
THEOREM OwnFresh == Spec => []OwnRowsFresh
<1>1. IInv => OwnRowsFresh
  BY DEF IInv
<1>2. QED
  BY <1>1, Invariance, PTL

\* The emitter that starts to read after its sibling has returned files the
\* whole series, with left-over logs of any windows and whatever its own
\* documents met on disk (emit_artifacts, maybe_email).
THEOREM LastFiles == Spec => []FiledByTheLast
<1>1. Init => LastInv
  BY InitLast
<1>2. IInv /\ LastInv /\ [Next]_vars => LastInv'
  BY LastStep
<1>3. LastInv => FiledByTheLast
  BY DEF LastInv
<1>4. QED
  BY <1>1, <1>2, <1>3, Invariance, PTL DEF Spec

\* In a directory that held no log of these groups, a filed report is the
\* whole series and nothing else, whatever one process reads while the other
\* writes (maybe_email).
THEOREM FiledWhole ==
    ASSUME OnlyThisSeries
    PROVE  Spec => []NoPartialFiled
<1>1. Init => NoOld
  BY DEF OnlyThisSeries, Init, NoOld, NoPartialFiled, NoRows
<1>2. IInv /\ NoOld /\ [Next]_vars => NoOld'
  BY NoOldStep
<1>3. NoOld => NoPartialFiled
  BY DEF NoOld
<1>4. QED
  BY <1>1, <1>2, <1>3, Invariance, PTL DEF Spec

-----------------------------------------------------------------------------
(* What two groups settle.                                                 *)

\* A filed report has a row for every window of its process.
RowsCover == \A i \in 1..Len(mailed) : Own(mailed[i].by) \subseteq DOMAIN mailed[i].rows

LEMMA CoverStep == IInv /\ RowsCover /\ [Next]_vars => RowsCover'
<1> SUFFICES ASSUME IInv, RowsCover, [Next]_vars PROVE RowsCover'
  OBVIOUS
<1>1. CASE UNCHANGED mailed
  BY <1>1 DEF RowsCover
<1>2. ASSUME NEW p \in Sides, Return(p), ~ UNCHANGED mailed PROVE RowsCover'
  <2>1. PICK r : r = [by |-> p, rows |-> rows[p]]
    OBVIOUS
  <2>2. mailed' = Append(mailed, r) /\ at[p] = "archiving"
    BY <1>2, <2>1 DEF Return
  <2>3. Own(p) \subseteq DOMAIN rows[p]
    BY <2>2 DEF IInv, OwnRowsFresh
  <2>4. mailed \in Seq([by : Sides, rows : Reports]) /\ r \in [by : Sides, rows : Reports]
    BY <2>1 DEF IInv, TypeOK
  <2>5. /\ Len(mailed') = Len(mailed) + 1 /\ Len(mailed) \in Nat
        /\ \A i \in 1..Len(mailed) : mailed'[i] = mailed[i]
        /\ mailed'[Len(mailed) + 1] = r
    BY <2>2, <2>4
  <2>6. ASSUME NEW i \in 1..Len(mailed') PROVE Own(mailed'[i].by) \subseteq DOMAIN mailed'[i].rows
    <3>1. CASE i \in 1..Len(mailed)
      BY <2>5, <3>1 DEF RowsCover
    <3>2. CASE i = Len(mailed) + 1
      BY <2>1, <2>3, <2>5, <3>2
    <3>3. QED
      BY <2>5, <3>1, <3>2
  <2>7. QED
    BY <2>6 DEF RowsCover, Own, Prefix
<1>3. QED
  BY <1>1, <1>2
     DEF Next, vars, Play, Logged, Crash, ListLogs, ReadLog, WriteResult, Archive,
         Archived, Swallows

\* A report of the whole series made of a process's own rows alone is made by
\* a process that played all of it.
LEMMA OwnIsWhole ==
    ASSUME NEW p \in Sides, Own(p) \subseteq 1..Total, Total <= Cardinality(Own(p))
    PROVE  Own(p) = 1..Total
<1>1. IsFiniteSet(1..Total) /\ Cardinality(1..Total) = Total
  BY ReportAssumption, FS_Interval
<1>2. Cardinality(Own(p)) \in Nat /\ Cardinality(Own(p)) <= Total
      /\ (Cardinality(Own(p)) = Total => Own(p) = 1..Total)
  BY <1>1, FS_Subset, FS_CardinalityType
<1>3. QED
  BY <1>1, <1>2, ReportAssumption

\* A row read back from a log is the row that was made.
LEMMA RowRead ==
    ASSUME NEW n, NEW e
    PROVE  RowFromLog("us", LogDocument("us", n, e)) = SubRow("us", n, e)
  BY DEF RowFromLog, LogDocument, SubRow

\* Both groups make the same row of a window that ended alike.
LEMMA RowsAlike ==
    ASSUME NEW n, NEW e
    PROVE  SubRow("us", n, e) = SubRow("them", n, e)
<1>1. RoleIn("us", n) \in {"police", "thief"}
      /\ RoleIn("them", n) = Other(RoleIn("us", n))
      /\ RoleIn("us", n) = Other(RoleIn("them", n))
  BY DEF RoleIn, RoleFor, Other
<1>2. PICK s : s = ScoreSubgame(e.result, e.winner)
  OBVIOUS
<1>3. PICK a, b : a = RoleIn("us", n) /\ b = RoleIn("them", n)
  OBVIOUS
<1>4. /\ ByGroup("us", a, b) = ByGroup("them", b, a)
      /\ ByGroup("us", s[a], s[b]) = ByGroup("them", s[b], s[a])
  BY DEF ByGroup, Groups
<1>5. QED
  BY <1>1, <1>2, <1>3, <1>4 DEF SubRow

\* What the whole report of a process is made of.
LEMMA OwnTable ==
    ASSUME NEW p \in Sides, Own(p) \subseteq 1..Total, NEW mine
    PROVE  OurArtifact(p, Whole, mine, mine)
             = ResultArtifact([n \in 1..Total |-> SubRow("us", n, mine[n])])
<1>1. /\ DOMAIN Whole = 1..Total /\ \A n \in 1..Total : Whole[n] = "new"
  BY DEF Whole
<1>2. Cardinality(1..Total) = Total
  BY ReportAssumption, FS_Interval
<1>3. PICK told : told = [n \in DOMAIN Whole |-> IF Whole[n] = "new" THEN mine[n] ELSE mine[n]]
  OBVIOUS
<1>4. OurArtifact(p, Whole, mine, mine)
        = ResultArtifact(
            IF Cardinality(DOMAIN Whole) <= Cardinality(Own(p))
              THEN [n \in Own(p) |-> SubRow("us", n, mine[n])]
              ELSE [n \in DOMAIN Whole |-> RowFromLog("us", LogDocument("us", n, told[n]))])
  BY <1>3 DEF OurArtifact
<1>5. [n \in DOMAIN Whole |-> RowFromLog("us", LogDocument("us", n, told[n]))]
        = [n \in 1..Total |-> SubRow("us", n, mine[n])]
  <2>1. \A n \in 1..Total : told[n] = mine[n]
    BY <1>1, <1>3
  <2>2. \A n \in 1..Total :
          RowFromLog("us", LogDocument("us", n, told[n])) = SubRow("us", n, mine[n])
    BY <2>1, RowRead
  <2>3. QED
    BY <1>1, <2>2
<1>6. CASE Total <= Cardinality(Own(p))
  BY <1>1, <1>2, <1>4, <1>6, OwnIsWhole
<1>7. CASE ~(Total <= Cardinality(Own(p)))
  BY <1>1, <1>2, <1>4, <1>5, <1>7
<1>8. QED
  BY <1>6, <1>7

\* The ending of a window can be told from the scope of the agreement.
LEMMA ScopeTells ==
    ASSUME NEW table
    PROVE  /\ DOMAIN AgreementScope(ResultArtifact(table)).sub_games = DOMAIN table
           /\ \A n \in DOMAIN table :
                AgreementScope(ResultArtifact(table)).sub_games[n]["result"] = table[n].result
<1>1. PICK artifact : artifact = ResultArtifact(table)
  OBVIOUS
<1>2. artifact.sub_games = [n \in DOMAIN table |-> ResultRow(table[n])]
  BY <1>1 DEF ResultArtifact
<1>3. AgreementScope(artifact).sub_games
        = [n \in DOMAIN artifact.sub_games |->
             [f \in {"roles", "result", "winner_group", "score"} |-> artifact.sub_games[n][f]]]
  BY DEF AgreementScope
<1>4. \A n \in DOMAIN table : artifact.sub_games[n]["result"] = table[n].result
  BY <1>2 DEF ResultRow
<1>5. QED
  BY <1>1, <1>2, <1>3, <1>4

LEMMA EndingTold ==
    ASSUME NEW a \in Endings, NEW b \in Endings, a.result = b.result
    PROVE  a = b
  BY DEF Endings, Ending

LEMMA ScopesSame ==
    ASSUME NEW mine \in Tellings, NEW told \in Tellings
    PROVE  AgreementScope(ResultArtifact([n \in 1..Total |-> SubRow("us", n, mine[n])]))
             = AgreementScope(TheirArtifact(told))
           <=> \A n \in 1..Total : mine[n] = told[n]
<1>1. PICK us, them : /\ us = [n \in 1..Total |-> SubRow("us", n, mine[n])]
                      /\ them = [n \in 1..Total |-> SubRow("them", n, told[n])]
  OBVIOUS
<1>2. \A n \in 1..Total : mine[n] \in Endings /\ told[n] \in Endings
  BY SettlementAssumption DEF Windows
<1>3. ASSUME \A n \in 1..Total : mine[n] = told[n] PROVE us = them
  BY <1>1, <1>3, RowsAlike
<1>4. ASSUME AgreementScope(ResultArtifact(us)) = AgreementScope(ResultArtifact(them)),
             NEW n \in 1..Total
      PROVE  mine[n] = told[n]
  <2>1. DOMAIN us = 1..Total /\ DOMAIN them = 1..Total
    BY <1>1
  <2>2. us[n].result = them[n].result
    BY <1>4, <2>1, ScopeTells
  <2>3. us[n].result = mine[n].result /\ them[n].result = told[n].result
    BY <1>1 DEF SubRow
  <2>4. QED
    BY <1>2, <2>2, <2>3, EndingTold
<1>5. QED
  BY <1>1, <1>3, <1>4 DEF TheirArtifact

LEMMA AlikeHolds == IInv /\ RowsCover => SettledAlike
<1> SUFFICES ASSUME IInv, RowsCover, NEW i \in DOMAIN mailed, mailed[i].rows = Whole,
                    NEW mine \in Tellings, NEW told \in Tellings
             PROVE  AgreementScope(OurArtifact(mailed[i].by, mailed[i].rows, mine, mine))
                      = TheirScopes[told]
                    <=> \A n \in 1..Total : mine[n] = told[n]
  BY DEF SettledAlike
<1>1. DOMAIN mailed = 1..Len(mailed) /\ mailed[i] \in [by : Sides, rows : Reports]
  <2>1. mailed \in Seq([by : Sides, rows : Reports])
    BY DEF IInv, TypeOK
  <2>2. DOMAIN mailed = 1..Len(mailed)
    BY <2>1, LenProperties
  <2>3. QED
    BY <2>1, <2>2, ElementType
<1>2. PICK p \in Sides : p = mailed[i].by
  BY <1>1
<1>3. Own(p) \subseteq 1..Total
  BY <1>1, <1>2 DEF RowsCover, Whole
<1>4. OurArtifact(p, Whole, mine, mine)
        = ResultArtifact([n \in 1..Total |-> SubRow("us", n, mine[n])])
  BY <1>3, OwnTable
<1>5. TheirScopes[told] = AgreementScope(TheirArtifact(told))
  BY DEF TheirScopes
<1>6. QED
  BY <1>2, <1>4, <1>5, ScopesSame

\* For any points, any split of the windows and whatever the two groups
\* recorded, they file the same agreement scope exactly when they recorded the
\* same ending of every window, whether our rows were made or read back from
\* logs (series_log.py, _row_from_log; consensus.py, mutual_agreement_scope).
THEOREM AgreementsMatch == Spec => []SettledAlike
<1>1. Init => RowsCover
  BY DEF Init, RowsCover
<1>2. IInv /\ RowsCover /\ [Next]_vars => RowsCover'
  BY CoverStep
<1>3. QED
  BY <1>1, <1>2, AlikeHolds, Invariance, PTL DEF Spec
=============================================================================
