------------------------------- MODULE Board -------------------------------
(***************************************************************************)
(* The physics both peers share: the grid of domain/board.py under the     *)
(* negotiated move set, and the referee rules of domain/rules.py.  All of  *)
(* it is pure; no operator here is recursive, so the modules that extend   *)
(* this one can be proved about.                                           *)
(***************************************************************************)
EXTENDS Integers, Sequences

CONSTANTS Size,     \* the board is Size x Size
          MoveSet   \* the negotiated moves, a sequence: its order breaks ties

Directions == {"N", "S", "E", "W", "STAY"}
Orthogonals == {"N", "S", "E", "W"}

ASSUME BoardAssumption == /\ Size \in Nat \ {0}
                          /\ MoveSet \in Seq(Directions)
                          /\ MoveSet # <<>>

Cells == (0 .. Size - 1) \X (0 .. Size - 1)

\* (row, column) deltas; row 0 is the top one.
Delta == [N |-> <<-1, 0>>, S |-> <<1, 0>>, E |-> <<0, 1>>, W |-> <<0, -1>>,
          STAY |-> <<0, 0>>]

Shift(c, d) == <<c[1] + Delta[d][1], c[2] + Delta[d][2]>>

Negotiated == {MoveSet[i] : i \in DOMAIN MoveSet}

\* Board.step returns a destination: the direction is negotiated, the
\* destination is on the board and carries no barrier.
CanStep(c, d, barred) == d \in Negotiated /\ Shift(c, d) \in Cells \ barred

\* The first legal move of legal_moves, as a set that is empty when none is.
FirstLegal(c, barred) ==
    LET legal == {i \in DOMAIN MoveSet : CanStep(c, MoveSet[i], barred)}
    IN  {MoveSet[i] : i \in {j \in legal : \A k \in legal : j <= k}}

\* Ruling A3: the cop's own cell, and the free cells one negotiated
\* orthogonal step away.
BarrierOptions(c, barred) ==
    ({c} \ barred) \cup {Shift(c, d) : d \in {e \in Orthogonals : CanStep(c, e, barred)}}

\* Rule 47: no legal move but staying put.
Jailed(c, barred) == \A d \in Orthogonals : ~CanStep(c, d, barred)

Distance(a, b) ==
    LET Abs(n) == IF n < 0 THEN -n ELSE n
    IN  Abs(a[1] - b[1]) + Abs(a[2] - b[2])

=============================================================================
