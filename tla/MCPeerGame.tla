----------------------------- MODULE MCPeerGame -----------------------------
(* Small instances of PeerGame for TLC. *)
EXTENDS PeerGame

MCMoveSet == <<"N", "S", "E", "W", "STAY">>
CornerNW == <<0, 0>>
CornerSE == <<1, 1>>

\* What an earlier sub-game of the same two fixed-role peers may have left in
\* a tunnel: the police's opening move, one of its barrier turns, the thief's
\* first two turns; a win claim made under a shorter survival_threshold, which
\* is no signed term; and a body that is no TurnMessage at all.
StaleTurn(r, n, cell, built, won) ==
    [step |-> n, from |-> r, commit |-> [pos |-> cell, walls |-> built],
     barrier |-> IF built = {} THEN None ELSE CHOOSE c \in built : TRUE,
     claim |-> IF r = "police" /\ built = {} THEN cell ELSE None,
     answer |-> "none", win |-> won]

MCStrays == {StaleTurn("police", 1, <<0, 1>>, {}, FALSE),
             StaleTurn("police", 1, <<0, 0>>, {<<1, 0>>}, FALSE),
             StaleTurn("thief", 2, <<1, 0>>, {}, FALSE),
             StaleTurn("thief", 1, <<1, 1>>, {}, TRUE),
             Garbage}

=============================================================================
