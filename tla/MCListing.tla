------------------------------ MODULE MCListing -------------------------------
EXTENDS Listing

\* a and b are files, s a directory with a file c, l a link to the top, i an
\* internal name, n the new name of a renamed entry.
MCLeadsTo == [x \in {"a", "b", "c", "i", "l", "n", "s"} |->
                IF x = "s" THEN "sub" ELSE IF x = "l" THEN "top" ELSE "none"]
MCLinks == {"l"}
MCHidden == {"i"}
MCMatching == {"a", "b", "c", "n"}
MCPlace == [a |-> 1, b |-> 2, c |-> 3, i |-> 4, l |-> 5, n |-> 6, s |-> 7]
MCNameOrder == [p \in {<<x>> : x \in Names} \union {<<"s", x>> : x \in Names} |->
                  IF Len(p) = 1 THEN MCPlace[p[1]] ELSE 7 + MCPlace[p[2]]]
MCSizeOf == [x \in Names |-> IF x = "a" THEN 2 ELSE 1]
MCChanges == {<<"top", "a">>, <<"top", "n">>, <<"sub", "c">>}
MCDeletable == {<<"a">>, <<"n">>}
MCCreatable == {<<"n">>}
MCNewName == <<"n">>

Scenario(search, top, sub, ops, mishaps, changes, others, ticks) ==
    [search |-> search, ents |-> [top |-> top, sub |-> sub],
     left |-> [ops |-> ops, mishaps |-> mishaps, changes |-> changes, others |-> others,
               ticks |-> ticks]]
MCScenarios ==
    {Scenario(FALSE, {"a", "b"}, {}, 2, 1, 0, 0, 0),           \* the page's own operations
     Scenario(FALSE, {"a", "i"}, {}, 2, 0, 1, 0, 0),           \* and another program's change
     Scenario(TRUE, {"a", "s"}, {"c"}, 0, 0, 2, 0, 0),         \* a search during changes
     Scenario(TRUE, {"a", "s"}, {"c"}, 1, 1, 0, 0, 0),         \* a search that is dropped
     Scenario(TRUE, {"b", "l"}, {}, 0, 0, 0, 0, 0),            \* a loop of links
     Scenario(TRUE, {"a", "b", "n", "s"}, {"c"}, 0, 0, 0, 0, 0), \* too many entries
     Scenario(FALSE, {"a", "b", "n", "s"}, {}, 0, 0, 0, 0, 0), \* too much for the cache
     Scenario(FALSE, {"a", "b"}, {}, 0, 0, 0, 3, 2)}           \* a busy cache

\* The merge sort gives the one stable order of every short list with ties.
ASSUME SortAssumption ==
    \A n \in 0..4 : \A vals \in [1..n -> {[dir |-> d, size |-> z, name |-> 0, id |-> i] :
                                             d \in BOOLEAN, z \in {0, 1}, i \in {1, 2}}] :
        LET how == [sort |-> "size", order |-> "desc"]
        IN  IsStableSort(vals, stable_sort_by(vals, how), how)
=============================================================================
