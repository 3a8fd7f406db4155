----------------------------- MODULE Settlement -----------------------------
(***************************************************************************)
(* What a report of SeriesReport says: the endings of the windows, scored  *)
(* (domain/scoring.py), as rows of the process that played them or read    *)
(* back from its logs (sdk/series_log.py), totalled and condensed into the *)
(* result artifact (report/), and the part of it whose hash the two groups *)
(* have to agree on (report/consensus.py).                                 *)
(*                                                                         *)
(* The partner is a group like this one whose process played every window. *)
(* Game identifiers, times, token counts and digests are left out.         *)
(***************************************************************************)
EXTENDS SeriesReport, Folds

CONSTANTS
    Points,   \* the signed scoring block
    Tellings  \* bound: what a group may have recorded of the windows

Groups == {"us", "them"}
Other(r) == IF r = "police" THEN "thief" ELSE "police"
Results == {"capture", "survival", "technical_loss"}
Nobody == "nobody"

\* What run() returns of a sub-game: SubgameOutcome.result and its winner.
Ending(how) ==
    [result |-> how,
     winner |-> CASE how = "capture" -> "police"
                  [] how = "survival" -> "thief"
                  [] OTHER -> Nobody]
Endings == {Ending(r) : r \in Results}

PointKeys == {"capture_cop", "capture_thief", "survival_cop", "survival_thief",
              "technical_loss", "tie_score"}

ASSUME SettlementAssumption ==
    /\ DOMAIN Points = PointKeys /\ \A k \in PointKeys : Points[k] \in Nat
    /\ Tellings \subseteq [Windows -> Endings]

\* score_subgame: whatever is inconsistent scores as a technical loss.
ScoreSubgame(ending, winner) ==
    CASE ending = "capture" /\ winner = "police" ->
            [police |-> Points.capture_cop, thief |-> Points.capture_thief]
      [] ending = "survival" /\ winner = "thief" ->
            [police |-> Points.survival_cop, thief |-> Points.survival_thief]
      [] OTHER -> [police |-> Points.technical_loss, thief |-> Points.technical_loss]

-----------------------------------------------------------------------------
(* Rows.  A row speaks of both groups, g's being its own.                  *)

Partner(g) == IF g = "us" THEN "them" ELSE "us"

\* The role of g in window n.
RoleIn(g, n) == IF g = "us" THEN RoleFor(n) ELSE Other(RoleFor(n))

ByGroup(g, mine, opp) == [h \in Groups |-> IF h = g THEN mine ELSE opp]

\* sub_row, with the scores of the outcome.
SubRow(g, n, e) ==
    LET role == RoleIn(g, n)
        scores == ScoreSubgame(e.result, e.winner)
    IN  [roles |-> ByGroup(g, role, Other(role)),
         result |-> e.result,
         winner |-> e.winner,
         score |-> ByGroup(g, scores[role], scores[Other(role)])]

\* log_document: the summary a log keeps.
LogDocument(g, n, e) == [role |-> RoleIn(g, n), result |-> e.result, winner |-> e.winner]

\* Mutant: the logs of both processes are read in the first window's role.
RowFromLogOwnRole(g, doc) ==
    LET role == RoleIn(g, 1)
        scores == ScoreSubgame(doc.result, doc.winner)
    IN  [roles |-> ByGroup(g, role, Other(role)),
         result |-> doc.result,
         winner |-> doc.winner,
         score |-> ByGroup(g, scores[role], scores[Other(role)])]

\* _row_from_log: the scores are computed anew.
RowFromLog(g, doc) ==
    LET scores == ScoreSubgame(doc.result, doc.winner)
    IN  [roles |-> ByGroup(g, doc.role, Other(doc.role)),
         result |-> doc.result,
         winner |-> doc.winner,
         score |-> ByGroup(g, scores[doc.role], scores[Other(doc.role)])]

-----------------------------------------------------------------------------
(* The result artifact.                                                    *)


PointsOf(table, g) == MapThenFoldSet(+, 0, LAMBDA n : table[n].score[g],
                                    LAMBDA S : CHOOSE n \in S : TRUE, DOMAIN table)

\* series_totals: on equal scores every leader gains tie_score.
SeriesTotals(table) ==
    LET sum == [g \in Groups |-> PointsOf(table, g)]
        leaders == IF DOMAIN table = {} THEN {} ELSE {g \in Groups : sum[g] >= sum[Partner(g)]}
        tie == leaders = Groups
    IN  [totals |-> [g \in Groups |-> IF tie THEN sum[g] + Points.tie_score ELSE sum[g]],
         tie |-> tie,
         leader |-> IF leaders = {} \/ tie THEN Nobody ELSE CHOOSE g \in leaders : TRUE]

\* winner_group.
WinnerGroup(row) ==
    IF \E g \in Groups : row.roles[g] = row.winner
      THEN CHOOSE g \in Groups : row.roles[g] = row.winner
      ELSE Nobody

\* sub_result_row.
ResultRow(row) ==
    [roles |-> row.roles,
     result |-> row.result,
     winner_group |-> WinnerGroup(row),
     tie |-> row.result = "tie",
     score |-> row.score]

\* build_result_artifact.
ResultArtifact(table) ==
    LET condensed == [n \in DOMAIN table |-> ResultRow(table[n])]
        totals == SeriesTotals(table)
        Having(P(_)) == Cardinality({n \in DOMAIN table : P(condensed[n])})
    IN  [sub_games |-> condensed,
         final_result |->
           [total_score |-> totals.totals,
            sub_games_won |-> [g \in Groups |->
                Having(LAMBDA r : r.result # "tie" /\ r.winner_group = g)],
            ties |-> Having(LAMBDA r : r.result = "tie"),
            winner_group |-> totals.leader,
            series_tie |-> totals.tie]]

\* Mutant: the rows are left out of what is hashed.
AgreementScopeTotals(artifact) == [aggregate |-> artifact.final_result]

\* mutual_agreement_scope: what the hash covers.  Rows leave out their tie.
AgreementScope(artifact) ==
    [aggregate |-> artifact.final_result,
     sub_games |-> [n \in DOMAIN artifact.sub_games |->
        [f \in {"roles", "result", "winner_group", "score"} |-> artifact.sub_games[n][f]]]]

\* What the report of process p says, when its windows have these logs: the
\* rows it made itself if its logs are all there is, else rows read from logs.
OurArtifact(p, logs, now, before) ==
    LET told == [n \in DOMAIN logs |-> IF logs[n] = "new" THEN now[n] ELSE before[n]]
    IN  ResultArtifact(
          IF Cardinality(DOMAIN logs) <= Cardinality(Own(p))
            THEN [n \in Own(p) |-> SubRow("us", n, now[n])]
            ELSE [n \in DOMAIN logs |-> RowFromLog("us", LogDocument("us", n, told[n]))])

\* The partner's, of the same windows.
TheirArtifact(told) == ResultArtifact([n \in 1 .. Total |-> SubRow("them", n, told[n])])

-----------------------------------------------------------------------------
(* Properties.                                                             *)

TheirScopes == [told \in Tellings |-> AgreementScope(TheirArtifact(told))]

\* The two groups file the same agreement hash exactly when they recorded the
\* same ending of every window: rows read back from a sibling's logs count as
\* those it made, and no different history adds up to the same scope
\* (consensus.py, "both teams independently derive").
SettledAlike ==
    \A i \in DOMAIN mailed : mailed[i].rows = Whole =>
        \A mine \in Tellings :
            LET scope == AgreementScope(OurArtifact(mailed[i].by, mailed[i].rows, mine, mine))
            IN  \A told \in Tellings :
                    scope = TheirScopes[told] <=> \A n \in 1 .. Total : mine[n] = told[n]
=============================================================================
