------------------------------ MODULE ListSort -------------------------------
(***************************************************************************)
(* The order of directory entries and the merge sort that the listing uses *)
(* because it can be interrupted: it sorts positions bottom-up and then    *)
(* moves the entries along the cycles of the resulting permutation.  An    *)
(* entry here is a record [dir, size, name] with name a number in the      *)
(* order of the names.                                                     *)
(***************************************************************************)
EXTENDS Integers, Sequences

CompareNat(x, y) == IF x < y THEN -1 ELSE IF x > y THEN 1 ELSE 0
Then(first, second) == IF first # 0 THEN first ELSE second

\* Ord for PathType: directories, also behind links, come before files.
ComparePathType(x, y) == CompareNat(IF x.dir THEN 0 ELSE 1, IF y.dir THEN 0 ELSE 1)
sort_by_name(x, y) == Then(ComparePathType(x, y), CompareNat(x.name, y.name))
sort_by_size(x, y) ==
    Then(ComparePathType(x, y), Then(CompareNat(x.size, y.size), sort_by_name(x, y)))

compare_path_items(x, y, sort, order) ==
    LET c == IF sort = "size" THEN sort_by_size(x, y) ELSE sort_by_name(x, y)
    IN  IF order = "desc" THEN -c ELSE c
\* The comparison a request sorts with: how is its sort key and order.
Compare(how, x, y) == compare_path_items(x, y, how.sort, how.order)

Least(x, y) == IF x < y THEN x ELSE y

\* One merge of the runs [start, middle) and [middle, end) of cur.
Merge(vals, cur, start, middle, end, how) ==
    LET take[l \in start..middle, r \in middle..end] ==
            IF l = middle /\ r = end THEN <<>>
            ELSE IF r = end \/ (l < middle /\ Compare(how, vals[cur[l]], vals[cur[r]]) # 1)
                 THEN <<cur[l]>> \o take[l + 1, r]
                 ELSE <<cur[r]>> \o take[l, r + 1]
    IN  take[start, middle]

\* All merges of one width.
MergePass(vals, cur, width, how) ==
    LET past == Len(vals) + 1
        runs[s \in 1..past] ==
            IF s = past THEN <<>>
            ELSE LET middle == Least(s + width, past)
                     end == Least(s + 2 * width, past)
                 IN  Merge(vals, cur, s, middle, end, how) \o runs[end]
    IN  runs[1]

\* The positions in sorted order: passes of width 1, 2, 4, ... while width < len.
SortedPositions(vals, how) ==
    LET after[width \in 1..(2 * Len(vals) + 1)] ==
            IF width = 1 THEN [i \in 1..Len(vals) |-> i]
            ELSE MergePass(vals, after[width \div 2], width \div 2, how)
        last[width \in 1..(2 * Len(vals) + 1)] ==
            IF width < Len(vals) THEN last[2 * width] ELSE width
    IN  after[last[1]]

Swap(f, i, j) == [f EXCEPT ![i] = f[j], ![j] = f[i]]

\* destination[p] is where the entry now at p belongs; swap until it is home.
RECURSIVE ApplyCycles(_, _, _)
ApplyCycles(vals, destination, p) ==
    IF p > Len(vals) THEN vals
    ELSE IF destination[p] = p THEN ApplyCycles(vals, destination, p + 1)
    ELSE ApplyCycles(Swap(vals, p, destination[p]),
                     Swap(destination, p, destination[p]), p)

stable_sort_by(vals, how) ==
    IF Len(vals) < 2 THEN vals
    ELSE LET current == SortedPositions(vals, how)
             next == [old \in 1..Len(vals) |->
                        CHOOSE new \in 1..Len(vals) : current[new] = old]
         IN  ApplyCycles(vals, next, 1)

(* The reference: a permutation that is ordered and keeps the order of     *)
(* equal entries.                                                          *)
IsStableSort(vals, result, how) ==
    \E perm \in [1..Len(vals) -> 1..Len(vals)] :
        /\ \A i, j \in 1..Len(vals) : perm[i] = perm[j] => i = j
        /\ result = [i \in 1..Len(vals) |-> vals[perm[i]]]
        /\ \A i, j \in 1..Len(vals) : i < j =>
              \/ Compare(how, result[i], result[j]) = -1
              \/ Compare(how, result[i], result[j]) = 0 /\ perm[i] < perm[j]
=============================================================================
