---------------------------- MODULE SeriesReport ----------------------------
(***************************************************************************)
(* The end of a series: the logs a group's processes leave in              *)
(* logs/<group>, the report each builds from the logs it finds there, and  *)
(* which of them files it.  A group that plays fixed roles runs two        *)
(* processes, each through the windows of its role, which share that       *)
(* directory and nothing else; otherwise one process plays every window.   *)
(*                                                                         *)
(* A log file is named after the two groups and the window, so one of an   *)
(* earlier series against the same group has the same name.  A log is only *)
(* told by the series it belongs to.  The declaration, configuration and   *)
(* series files are written and never read back; they are left out.        *)
(* Filing is taken to be enabled.                                          *)
(***************************************************************************)
EXTENDS Integers, Sequences, FiniteSets

CONSTANTS
    Total,    \* network_and_league.num_games, the signed number of windows
    Count,    \* windows each process is asked to play (--games)
    Fixed,    \* fixed roles, one process each (--fixed-role)
    First,    \* this group opens as police (sort order, parity_invert)
    Earlier,  \* windows of which an earlier series left a log
    Kinds     \* the kinds of failure that may happen

FailureKinds == {"crash", "io", "mail"}

ASSUME ReportAssumption ==
    /\ Total \in Nat \ {0} /\ Count \in Nat \ {0}
    /\ Fixed \in BOOLEAN /\ First \in BOOLEAN
    /\ Fixed => Total > 1
    /\ Earlier \subseteq Nat \ {0} /\ IsFiniteSet(Earlier)
    /\ Kinds \subseteq FailureKinds

Sides == IF Fixed THEN {"police", "thief"} ELSE {"thief"}

\* The role this group plays in window n when roles are fixed.
RoleFor(n) == IF First = (n % 2 = 1) THEN "police" ELSE "thief"

\* The first Count windows of a set.
Prefix(S) == {n \in S : Cardinality({m \in S : m < n}) < Count}

\* logical_subgame_numbers.
Own(p) ==
    IF Fixed THEN Prefix({n \in 1..Total : RoleFor(n) = p}) ELSE 1..Count

Windows == 1..Total \cup 1..Count \cup Earlier
LogOf == {"old", "new"}
Contents == LogOf \cup {"none", "torn"}
Lowest(S) == {n \in S : \A m \in S : n <= m}

Phases == {"playing", "logging", "reading", "archiving", "done", "failed", "gone"}

\* Rows of a report: per window, the series its log belongs to.
Reports == UNION {[S -> LogOf] : S \in SUBSET Windows}
NoRows == [n \in {} |-> "old"]

VARIABLES
    at,      \* where the process is
    played,  \* windows whose document it holds (logs)
    files,   \* log_<game_id>_gNN.json
    pen,     \* the log it has truncated and not yet written, 0 if none
    over,    \* processes whose pending write will land on another's content
    todo,    \* log files it has still to read, later to write
    rows,    \* what it has read of the siblings, later its report
    alone,   \* the sibling had returned when it started to read
    result,  \* result_<game_id>.json
    mailed   \* reports sent, in order

disk == <<files, pen, over>>
vars == <<at, played, disk, todo, rows, alone, result, mailed>>

Init ==
    /\ at = [p \in Sides |-> "playing"]
    /\ played = [p \in Sides |-> {}]
    /\ files = [n \in Windows |-> IF n \in Earlier THEN "old" ELSE "none"]
    /\ pen = [p \in Sides |-> 0]
    /\ over = {}
    /\ todo = [p \in Sides |-> {}]
    /\ rows = [p \in Sides |-> NoRows]
    /\ alone = [p \in Sides |-> FALSE]
    /\ result = [n \in Earlier |-> "old"]
    /\ mailed = <<>>

Goes(p, s) == at' = [at EXCEPT ![p] = s]

-----------------------------------------------------------------------------
(* Path.write_text: truncate, then write.                                  *)

Holders(n) == {q \in Sides : pen[q] = n}

Truncate(p, n) ==
    /\ files' = [files EXCEPT ![n] = "torn"]
    /\ pen' = [pen EXCEPT ![p] = n]
    /\ over' = over \ (Holders(n) \cup {p})

\* A text written over another one that is longer leaves its tail behind.
Write(p, c) ==
    LET n == pen[p]
    IN  /\ files' \in {[files EXCEPT ![n] = d] :
                         d \in {c} \cup (IF p \in over THEN {"torn"} ELSE {})}
        /\ pen' = [pen EXCEPT ![p] = 0]
        /\ over' = (over \cup Holders(n)) \ {p}

\* The process, or its write, ends half way.
Drop(p) ==
    /\ \/ UNCHANGED files
       \/ pen[p] # 0 /\ files' = [files EXCEPT ![pen[p]] = "torn"]
    /\ pen' = [pen EXCEPT ![p] = 0]
    /\ over' = over \ {p}

-----------------------------------------------------------------------------
(* run_series.                                                             *)

\* A window was played and its log is being written.
Play(p) ==
    /\ at[p] = "playing"
    /\ \E n \in Lowest(Own(p) \ played[p]) : Truncate(p, n)
    /\ Goes(p, "logging")
    /\ UNCHANGED <<played, todo, rows, alone, result, mailed>>

Logged(p) ==
    /\ at[p] = "logging"
    /\ played' = [played EXCEPT ![p] = @ \cup {pen[p]}]
    /\ Write(p, "new")
    /\ Goes(p, "playing")
    /\ UNCHANGED <<todo, rows, alone, result, mailed>>

\* The process is killed, or a handshake raises out of run_series.
Crash(p) ==
    /\ "crash" \in Kinds
    /\ at[p] \notin {"done", "failed", "gone"}
    /\ Drop(p)
    /\ Goes(p, "gone")
    /\ UNCHANGED <<played, todo, rows, alone, result, mailed>>

-----------------------------------------------------------------------------
(* emit_artifacts.                                                         *)

\* Mutant: decided after the sibling's logs were merged.
EmitterMerged(p, windows) == Total \in windows

\* Mutant: the process that opened the series files the report.
EmitterFirst(p, windows) == 1 \in Own(p)

\* Whether p, whose report has these windows, is the one to file it.
Emitter(p, windows) == Total \in Own(p)

\* The directory is listed.
ListLogs(p) ==
    /\ at[p] = "playing" /\ Own(p) \subseteq played[p]
    /\ todo' = [todo EXCEPT ![p] = {n \in Windows : files[n] # "none"}]
    /\ alone' = [alone EXCEPT ![p] = \A q \in Sides \ {p} : at[q] = "done"]
    /\ Goes(p, "reading")
    /\ UNCHANGED <<played, disk, rows, result, mailed>>

Extend(f, n, c) == [m \in DOMAIN f \cup {n} |-> IF m = n THEN c ELSE f[m]]

\* One file is read; one that does not parse is skipped.
ReadLog(p, n) ==
    /\ at[p] = "reading" /\ n \in todo[p]
    /\ todo' = [todo EXCEPT ![p] = @ \ {n}]
    /\ rows' = [rows EXCEPT ![p] =
                  IF files[n] = "torn" THEN @ ELSE Extend(@, n, files[n])]
    /\ UNCHANGED <<at, played, disk, alone, result, mailed>>

\* Mutant: what is on disk replaces the process's own documents.
MergedDiskFirst(p) ==
    [n \in DOMAIN rows[p] \cup played[p] |->
       IF n \in DOMAIN rows[p] THEN rows[p][n] ELSE "new"]

\* Its own documents replace what it read of the same windows.
Merged(p) ==
    [n \in DOMAIN rows[p] \cup played[p] |->
       IF n \in played[p] THEN "new" ELSE rows[p][n]]

\* The report is built and the result file written.
WriteResult(p) ==
    /\ at[p] = "reading" /\ todo[p] = {}
    /\ rows' = [rows EXCEPT ![p] = Merged(p)]
    /\ result' = Merged(p)
    /\ todo' = [todo EXCEPT ![p] = DOMAIN Merged(p)]
    /\ Goes(p, "archiving")
    /\ UNCHANGED <<played, disk, alone, mailed>>

\* Every log of the report is written back, the sibling's too.
Archive(p) ==
    /\ at[p] = "archiving" /\ pen[p] = 0
    /\ \E n \in Lowest(todo[p]) : Truncate(p, n)
    /\ UNCHANGED <<at, played, todo, rows, alone, result, mailed>>

Archived(p) ==
    /\ at[p] = "archiving" /\ pen[p] # 0
    /\ todo' = [todo EXCEPT ![p] = @ \ {pen[p]}]
    /\ Write(p, rows[p][pen[p]])
    /\ UNCHANGED <<at, played, rows, alone, result, mailed>>

\* maybe_email counts the rows.
Complete(p) == Cardinality(DOMAIN rows[p]) >= Total

\* maybe_email, and run_series returns.
Return(p) ==
    /\ at[p] = "archiving" /\ pen[p] = 0 /\ todo[p] = {}
    /\ mailed' = IF Emitter(p, DOMAIN rows[p]) /\ Complete(p)
                 THEN Append(mailed, [by |-> p, rows |-> rows[p]]) ELSE mailed
    /\ Goes(p, "done")
    /\ UNCHANGED <<played, disk, todo, rows, alone, result>>

\* Any other error is swallowed: the series returns as if it had been filed.
Swallows(p) ==
    /\ \/ at[p] \in {"reading", "archiving"} /\ "io" \in Kinds
       \/ at[p] = "archiving" /\ pen[p] = 0 /\ todo[p] = {} /\ "mail" \in Kinds
    /\ Drop(p)
    /\ Goes(p, "failed")
    /\ UNCHANGED <<played, todo, rows, alone, result, mailed>>

Next ==
    \E p \in Sides :
        \/ Play(p) \/ Logged(p) \/ Crash(p)
        \/ ListLogs(p) \/ (\E n \in todo[p] : ReadLog(p, n)) \/ WriteResult(p)
        \/ Archive(p) \/ Archived(p) \/ Return(p) \/ Swallows(p)

Spec == Init /\ [][Next]_vars

-----------------------------------------------------------------------------
(* Properties.                                                             *)

\* The type of every variable.
TypeOK ==
    /\ at \in [Sides -> Phases]
    /\ played \in [Sides -> SUBSET Windows]
    /\ files \in [Windows -> Contents]
    /\ pen \in [Sides -> Windows \cup {0}]
    /\ over \subseteq Sides
    /\ todo \in [Sides -> SUBSET Windows]
    /\ rows \in [Sides -> Reports]
    /\ alone \in [Sides -> BOOLEAN]
    /\ result \in Reports
    /\ mailed \in Seq([by : Sides, rows : Reports])

Whole == [n \in 1..Total |-> "new"]

\* A series is reported at most once, whatever the processes find in the
\* directory and whichever of them is last (emit_artifacts, the single-emitter
\* guard).
AtMostOneReport == Len(mailed) <= 1

\* A filed report has one row per window, all of this series (maybe_email
\* skips a partial result).
NoPartialFiled == \A i \in 1..Len(mailed) : mailed[i].rows = Whole

\* No report shows, for a window its process has played, anything but that
\* window's own log, whatever was on disk under its name (_merged_summary).
OwnRowsFresh ==
    \A p \in Sides : at[p] \in {"archiving", "done"} =>
        \A n \in Own(p) : n \in DOMAIN rows[p] /\ rows[p][n] = "new"

\* If the process with the final window starts to report after the other has
\* returned, a report is filed that has this series' own log for each of its
\* windows, and the result file says the same, left-over logs or not
\* (emit_artifacts).
FiledByTheLast ==
    \A p \in Sides :
        Total \in Own(p) /\ at[p] = "done" /\ alone[p] =>
            /\ \A n \in 1..Total : n \in DOMAIN rows[p] /\ rows[p][n] = "new"
            /\ \E i \in 1..Len(mailed) : mailed[i] = [by |-> p, rows |-> rows[p]]
            /\ result = rows[p]

Returned == \A p \in Sides : at[p] = "done"

\* When every process has returned, exactly one report was filed
\* (the comment of maybe_email).
OneReportFiled == Returned => Len(mailed) = 1
=============================================================================
