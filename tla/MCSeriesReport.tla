--------------------------- MODULE MCSeriesReport ---------------------------
(* SeriesReport and Settlement for TLC.                                    *)
EXTENDS Settlement

NoneLeft == {}
AllLeft == 1..Total
NoFailure == {}
AnyFailure == FailureKinds

\* Table 17 of the book.
Table17 == [capture_cop |-> 20, capture_thief |-> 5, survival_cop |-> 5,
            survival_thief |-> 10, technical_loss |-> 0, tie_score |-> 2]

Always(how) == [n \in Windows |-> Ending(how)]
Except(t, n, how) == [t EXCEPT ![n] = Ending(how)]
OpenersWin == [n \in Windows |-> Ending(IF n % 2 = 1 THEN "capture" ELSE "survival")]

\* Ties, wins of either group, and records that differ in one window or in the
\* order of the windows only.
MCTellings ==
    {Always(r) : r \in Results}
    \cup {Except(OpenersWin, n, "technical_loss") : n \in 1 .. Total}
    \cup {OpenersWin, Except(Always("capture"), 1, "survival"),
          Except(Always("capture"), 3, "survival")}
=============================================================================
