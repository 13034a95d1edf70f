------------------------------ MODULE PathKeys ------------------------------
(***************************************************************************)
(* Lease keys: what src/src/server/path_coordinator.rs compares to decide  *)
(* whether two requests may mutate at the same time.  A key has the path   *)
(* as it was written and the path as the file system resolves it.          *)
(***************************************************************************)
EXTENDS RootedFs

NoTarget == Missing

(***************************************************************************)
(* resolve_deepest_parent_prefix: probe the whole parent; when a component *)
(* is missing, bisect for the longest prefix that opens.  Failures other   *)
(* than a missing component are returned as Loop.                          *)
(***************************************************************************)
resolve_deepest_parent_prefix(f, parent) ==
    LET open(n) == open_directory_from_root(f, SubSeq(parent, 1, n))
        bisect[resolved \in Nat, unresolved \in Nat] ==
            IF resolved + 1 < unresolved
            THEN LET candidate == resolved + (unresolved - resolved) \div 2
                 IN IF open(candidate) \in Dirs
                    THEN bisect[candidate, unresolved]
                    ELSE bisect[resolved, candidate]
            ELSE resolved
        count == IF open(Len(parent)) \in Dirs THEN Len(parent)
                 ELSE bisect[0, Len(parent)]
    IN IF open(Len(parent)) = Loop THEN [dir |-> Loop, count |-> 0]
       ELSE [dir |-> open(count), count |-> count]

conservative_path_key ==
    [resolved_parent |-> Root, unresolved_tail |-> <<>>,
     ancestor_directories |-> <<Root>>, target_directory |-> Root]

(***************************************************************************)
(* resolved_path_key_blocking, with acquire_inner's fallback to the        *)
(* conservative key when the resolution fails.                             *)
(***************************************************************************)
resolved_path_key(f, path) ==
    LET p == resolve_deepest_parent_prefix(f, Front(path))
        e == f[p.dir, Last(path)]
    IN IF path = <<>> \/ p.dir = Loop THEN conservative_path_key
       ELSE [resolved_parent |-> p.dir,
             unresolved_tail |-> SubSeq(path, p.count + 1, Len(path)),
             ancestor_directories |-> directory_ancestry_from_root(f, p.dir),
             target_directory |->
                IF p.count = Len(path) - 1 /\ e.kind = "dir" THEN e.dir ELSE NoTarget]

LeaseKey(f, path) == [lexical |-> path, resolved |-> resolved_path_key(f, path)]
RootKey(path) == [lexical |-> path, resolved |-> conservative_path_key]

-----------------------------------------------------------------------------
lexically_conflict(p, q) == IsPrefix(p, q) \/ IsPrefix(q, p)

anchored_tail_is_prefix(left, right) ==
    /\ left.resolved_parent = right.resolved_parent
    /\ IsPrefix(left.unresolved_tail, right.unresolved_tail)

has_ancestor(key, dir) ==
    \E i \in DOMAIN key.ancestor_directories : key.ancestor_directories[i] = dir

resolved_paths_conflict(left, right) ==
    \/ anchored_tail_is_prefix(left, right)
    \/ anchored_tail_is_prefix(right, left)
    \/ has_ancestor(right, left.target_directory)
    \/ has_ancestor(left, right.target_directory)

path_keys_conflict(left, right) ==
    \/ lexically_conflict(left.lexical, right.lexical)
    \/ resolved_paths_conflict(left.resolved, right.resolved)

paths_conflict(left, right) ==
    \E l \in left, r \in right : path_keys_conflict(l, r)
=============================================================================
