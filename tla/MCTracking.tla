----------------------------- MODULE MCTracking -----------------------------
(* Tracking for TLC.                                                       *)
EXTENDS Tracking

Moves == <<"N", "S", "E", "W", "STAY">>
Corner == <<0, 0>>
Middle == <<2, 2>>

File(terms, rest, dialect, wired, deltas) ==
    [terms |-> terms, rest |-> rest, complete |-> TRUE, dialect |-> dialect,
     wired |-> wired, deltas |-> deltas]
Started(tree, override, group) == [tree |-> tree, override |-> override, group |-> group]

Plain == File(1, 1, None, FALSE, "none")

\* The shared file under each dialect of the command line, the same file with
\* a dialect spelled out, other terms, another remainder, dialects in the
\* signed terms, rule deltas that raise and that do not, and a file that lacks
\* a required term.
MCConfigs ==
    {Started(Plain, o, "a") : o \in {None, "book", "multiplicative_book_v1"}}
    \cup {Started(t, None, "b") :
            t \in {File(1, 1, d, FALSE, "none") : d \in Laws}
                  \cup {File(2, 1, None, FALSE, "lower"), [Plain EXCEPT !.complete = FALSE]}}
    \cup {Started(File(1, 2, None, TRUE, "raise"), o, "b") : o \in {None, "book"}}
=============================================================================
