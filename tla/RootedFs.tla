------------------------------ MODULE RootedFs ------------------------------
(***************************************************************************)
(* The part of src/src/server/rooted_fs.rs that path leases depend on: a   *)
(* directory tree below one managed root, looked up with RESOLVE_BENEATH,  *)
(* and the namespace edits that a lease holder commits.                    *)
(*                                                                         *)
(* A directory is known by its identity (device and inode).  A namespace   *)
(* maps every (directory, name) to an entry: nothing, a file, a directory  *)
(* or a relative symbolic link.  A path is a sequence of names.            *)
(***************************************************************************)
EXTENDS Naturals, FiniteSets, Sequences, SequencesExt

CONSTANTS
    Dirs,       \* directory identities
    Root,       \* the identity of the managed root
    Names,      \* names of entries
    Missing,    \* "no such directory": ENOENT, ENOTDIR or EACCES
    Loop,       \* any other lookup failure: ELOOP, EXDEV or EIO
    MaxLinks    \* the kernel's limit on links followed by one lookup

NoEntry == [kind |-> "none"]
File == [kind |-> "file"]
Directory(d) == [kind |-> "dir", dir |-> d]
Link(path) == [kind |-> "link", to |-> path]

Put(f, d, n, e) == [f EXCEPT ![<<d, n>>] = e]

(***************************************************************************)
(* The directory reached from d by the names q, following every link.  A   *)
(* link's text is interpreted in the directory that holds the link.        *)
(***************************************************************************)
Walk(f, start, names) ==
    LET walk[d \in Dirs, q \in Seq(Names), h \in 0..MaxLinks] ==
            IF q = <<>> THEN d
            ELSE LET e == f[d, Head(q)]
                 IN CASE e.kind = "dir" -> walk[e.dir, Tail(q), h]
                      [] e.kind = "link" /\ h > 0 -> walk[d, e.to \o Tail(q), h - 1]
                      [] e.kind = "link" /\ h = 0 -> Loop
                      [] OTHER -> Missing
    IN walk[start, names, MaxLinks]

open_directory_from_root(f, path) == Walk(f, Root, path)

(* Directories on the way from the root to d, found by following "..".     *)
Parents(f, d) == {p \in Dirs : \E n \in Names : f[p, n] = Directory(d)}

directory_ancestry_from_root(f, dir) ==
    LET up[d \in Dirs, fuel \in Nat] ==
            IF d = Root \/ fuel = 0 \/ Parents(f, d) = {} THEN <<d>>
            ELSE Append(up[CHOOSE p \in Parents(f, d) : TRUE, fuel - 1], d)
    IN up[dir, Cardinality(Dirs)]

(* A directory identity that no entry uses yet: what mkdirat allocates.    *)
Unused(f) == {d \in Dirs \ {Root} : Parents(f, d) = {}}

(***************************************************************************)
(* open_parent_blocking: open every prefix of a path's parent, and with    *)
(* create_ancestors make the missing ones.  The result is the new          *)
(* namespace and the parent (or Missing / Loop, with nothing made: the     *)
(* ancestors created so far are rolled back).                              *)
(***************************************************************************)
open_parent(f, path, create_ancestors) ==
    LET descend(s, n) ==
            IF s.dir \notin Dirs THEN s
            ELSE LET next == Walk(s.ns, s.dir, <<n>>)
                 IN IF next = Missing /\ create_ancestors
                       /\ s.ns[s.dir, n] = NoEntry /\ Unused(s.ns) # {}
                    THEN LET d == CHOOSE d \in Unused(s.ns) : TRUE
                         IN [ns |-> Put(s.ns, s.dir, n, Directory(d)), dir |-> d]
                    ELSE IF next \in Dirs THEN [s EXCEPT !.dir = next]
                    ELSE [ns |-> f, dir |-> next]
    IN FoldLeft(descend, [ns |-> f, dir |-> Root], Front(path))

(***************************************************************************)
(* What the holder of a lease on op.paths may do to the namespace: the set *)
(* of namespaces it can leave behind, empty when the code's own checks     *)
(* reject the request.  Revisions are abstracted to "the checks passed".   *)
(***************************************************************************)
create_directory(f, path) ==
    LET o == open_parent(f, path, TRUE)
    IN IF o.dir \in Dirs /\ o.ns[o.dir, Last(path)] = NoEntry /\ Unused(o.ns) # {}
       THEN {Put(o.ns, o.dir, Last(path), Directory(CHOOSE d \in Unused(o.ns) : TRUE))}
       ELSE {}

(* A fresh upload first makes the missing ancestors of its stage ...       *)
create_stage(f, path) ==
    LET o == open_parent(f, path, TRUE)
    IN IF o.dir \in Dirs THEN {o.ns} ELSE {}

(* ... and later renames the finished stage over its target, which is      *)
(* missing, a file or a link, never a directory.                           *)
rename_replace_if_unchanged(f, path) ==
    LET d == open_parent(f, path, FALSE).dir
    IN IF d \in Dirs /\ f[d, Last(path)].kind # "dir"
       THEN {Put(f, d, Last(path), File)} ELSE {}

(* DELETE renames the entry to an internal name that no request can use.   *)
move_to_trash(f, path) ==
    LET d == open_parent(f, path, FALSE).dir
    IN IF d \in Dirs /\ f[d, Last(path)] # NoEntry
       THEN {Put(f, d, Last(path), NoEntry)} ELSE {}

(* MOVE and RENAME: a directory neither replaces nor is replaced, and does *)
(* not move below itself.                                                  *)
rename_if_unchanged(f, source, destination, overwrite) ==
    LET s == open_parent(f, source, FALSE).dir
        d == open_parent(f, destination, FALSE).dir
        e == f[s, Last(source)]
        old == f[d, Last(destination)]
    IN IF /\ s \in Dirs /\ d \in Dirs
          /\ <<s, Last(source)>> # <<d, Last(destination)>>
          /\ e # NoEntry
          /\ \/ old = NoEntry
             \/ overwrite /\ e.kind # "dir" /\ old.kind # "dir"
          /\ e.kind = "dir" =>
                e.dir \notin {directory_ancestry_from_root(f, d)[i] :
                                i \in DOMAIN directory_ancestry_from_root(f, d)}
       THEN {Put(Put(f, d, Last(destination), e), s, Last(source), NoEntry)}
       ELSE {}

Edits(f, op) ==
    CASE op.kind = "mkdir" -> create_directory(f, op.paths[1])
      [] op.kind = "upload" -> create_stage(f, op.paths[1])
                               \cup rename_replace_if_unchanged(f, op.paths[1])
      [] op.kind = "delete" -> move_to_trash(f, op.paths[1])
      [] op.kind = "move" ->
            rename_if_unchanged(f, op.paths[1], op.paths[2], op.overwrite)
      [] OTHER -> {}
=============================================================================
