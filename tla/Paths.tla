------------------------------- MODULE Paths -------------------------------
(***************************************************************************)
(* Distances around walls: the breadth-first searches of domain/board.py   *)
(* that every brain steers by.  A search is the table of its rings,        *)
(* what lies within 0, 1, 2, ... steps.                                    *)
(***************************************************************************)
EXTENDS Board, FiniteSets

CONSTANT MaxBarriers    \* the negotiated quota: no wall set is larger

ASSUME QuotaAssumption == MaxBarriers \in Nat

\* What bfs_distance's None becomes in every ranking: farther than any route.
Unreachable == Size * Size

\* Board.neighbors: the on-board cells one negotiated orthogonal step away,
\* walled or not.
Neighbors(c) == {Shift(c, d) : d \in Negotiated \ {"STAY"}} \cap Cells

\* The wall sets a quota allows.
WallSets == {w \in SUBSET Cells : Cardinality(w) <= MaxBarriers}

\* The rings around an origin, which may itself be walled.
Rings(origin, walls) ==
    LET within[n \in 0 .. Unreachable] ==
            IF n = 0 THEN {origin}
            ELSE LET last == within[n - 1]
                 IN  last \cup (UNION {Neighbors(c) : c \in last} \ walls)
    IN  within

\* f itself.  TLC stores the values of a function it has compared, and would
\* otherwise search again at every look-up.
Stored(f) == CHOOSE g \in {f} : g = f

\* How many of the rings do not reach a cell.
Steps(rings, c) ==
    IF c \in rings[Unreachable] THEN Cardinality({n \in 0 .. Unreachable : c \notin rings[n]})
                                ELSE Unreachable

\* Every distance under every wall set, the table the brains look up.
Distances ==
    Stored([walls \in WallSets |->
        Stored([origin \in Cells |->
            LET rings == Stored(Rings(origin, walls))
            IN  Stored([c \in Cells |-> Steps(rings, c)])])])

BfsDistance(a, b, walls) == Distances[walls][a][b]

\* Board.reachable_cells: mobility within k steps, the origin included.
ReachableCells(c, walls, k) == {x \in Cells : BfsDistance(c, x, walls) <= k}

\* Mutant: a wall no longer blocks.
LegalMovesOpen(c, walls) == {d \in Negotiated : CanStep(c, d, {})}

\* Board.legal_moves as directions; Exits leaves out staying put.
LegalMoves(c, walls) == {d \in Negotiated : CanStep(c, d, walls)}
Exits(c, walls) == LegalMoves(c, walls) \ {"STAY"}

=============================================================================
