------------------------------ MODULE MCArena ------------------------------
(***************************************************************************)
(* The arena on a small board: every police brain against a thief that may *)
(* take any legal step, every thief brain against the wall-building cops.  *)
(***************************************************************************)
EXTENDS Arena

Moves == <<"N", "S", "E", "W", "STAY">>

AllPairings == (PoliceBrains \X {"random_thief"}) \cup ({"greedy_police"} \X ThiefBrains)

CornerStart == {<<<<0, 0>>, <<1, 2>>>>}

=============================================================================
