---------------------------- MODULE DirectoryWalk -----------------------------
(***************************************************************************)
(* The blocking jobs that read directories while other programs change     *)
(* them: the plain listing of one directory and the recursive search.      *)
(*                                                                         *)
(* A directory's stamp stands for its identity, mtime and ctime: it is new *)
(* with every change that the directory's metadata shows.  A job holds the *)
(* stack of open directories (path, directory, snapshot, names read, the   *)
(* stamp when it was opened), the directories it has finished, and the     *)
(* entries it has found, in the order of readdir.                          *)
(***************************************************************************)
EXTENDS ListSort, FiniteSets, SequencesExt

CONSTANTS
    Top,            \* the directory that is listed
    Dirs, NoDir,
    LeadsTo,        \* name -> the directory behind it, or NoDir for a file
    Links,          \* the names that are symbolic links
    Hidden,         \* internal names and links that leave the root, never shown
    Matching,       \* the names that the search looks for
    NameOrder,      \* path -> its place in the order of names
    SizeOf,         \* name -> size
    Sort, Order,    \* the request's parameters
    MaxEntries,     \* max_entries, MAX_LIST_SNAPSHOT_ENTRIES
    MaxItems,       \* the byte budget of the result, in entries
    MaxDepth,       \* MAX_DIRECTORY_WALK_DEPTH
    MaxHeld,        \* MAX_DIRECTORY_WALK_WORKING_BYTES, in directories
    Jobs            \* the permits' blocking jobs

VARIABLES
    tree,           \* [ents, stamp, now]: the directories and the last stamp used
    jobs            \* job -> its state

walkVars == <<tree, jobs>>
Names == DOMAIN LeadsTo

Free == [pc |-> "free"]
Stat == [pc |-> "stat", cancelled |-> FALSE]
NewJob(search) ==
    [pc |-> IF search THEN "root" ELSE "open", search |-> search, stack |-> <<>>,
     visited |-> <<>>, found |-> <<>>, count |-> 0, cancelled |-> FALSE,
     result |-> "none", truth |-> {}, asof |-> 0]

----------------------------------------------------------------------------
(* The tree *)

\* The directory that a path of names leads to from Top.
DirAt(path) ==
    LET at[k \in 0..Len(path)] ==
            IF k = 0 THEN Top
            ELSE IF at[k - 1] # NoDir /\ path[k] \in tree.ents[at[k - 1]]
                 THEN LeadsTo[path[k]] ELSE NoDir
    IN  at[Len(path)]

DirectorySnapshot(d) == <<d, tree.stamp[d]>>

\* A name appears in or vanishes from d.  A directory made anew is empty; one
\* that is moved away changes too.
Changed(d, n) ==
    LET own == IF n \in Links THEN NoDir ELSE LeadsTo[n]
        ents == [tree.ents EXCEPT ![d] = IF n \in @ THEN @ \ {n} ELSE @ \union {n}]
    IN  [ents |-> [x \in Dirs |-> IF x = own /\ n \notin tree.ents[d] THEN {} ELSE ents[x]],
         stamp |-> [x \in Dirs |-> IF x \in {d, own} THEN tree.now + 1 ELSE tree.stamp[x]],
         now |-> tree.now + 1]

\* What a listing or a search should find in the tree as it stands.
Truth(search) ==
    LET paths[k \in 1..(MaxDepth + 1)] ==
            UNION {{Append(p, n) : n \in tree.ents[DirAt(p)] \ Hidden} :
                      p \in IF k = 1 THEN {<<>>} ELSE {p \in paths[k - 1] : DirAt(p) # NoDir}}
    IN  IF search THEN {p \in UNION {paths[k] : k \in 1..(MaxDepth + 1)} : Last(p) \in Matching}
        ELSE paths[1]

----------------------------------------------------------------------------
(* A job *)

\* The job ends: its handler, unless it is gone, finds the result.
Ended(j, result) ==
    IF j.cancelled THEN Free
    ELSE [j EXCEPT !.pc = "done", !.result = result, !.stack = <<>>, !.visited = <<>>,
                   !.found = IF result = "ok" THEN @ ELSE <<>>,
                   !.count = 0]

Top1(j) == Last(j.stack)

\* The blocking calls that have not returned.
Running == {w \in Jobs : jobs[w].pc \notin {"free", "done"}}

\* Where the code looks at cancellation, shutdown and the deadline.
AtCheck(j) == j.pc \in {"read", "ensure", "recheck", "sort"}
Active(w) == AtCheck(jobs[w]) /\ ~jobs[w].cancelled

\* A cancelled job notices, or any job finds its deadline passed.
Interrupted(w) ==
    /\ AtCheck(jobs[w])
    /\ jobs' = [jobs EXCEPT ![w] = Ended(@, "error")]
    /\ UNCHANGED tree

Frame(path, d, snap) == [path |-> path, dir |-> d, snap |-> snap, seen |-> {}, opened |-> 0]

\* push_directory: depth, loop and memory budget.
push_directory(j, path, d) ==
    IF Len(path) > MaxDepth THEN Ended(j, "error")
    ELSE IF \E i \in 1..Len(j.stack) : j.stack[i].snap[1] = d THEN Ended(j, "loop")
    ELSE IF Len(j.stack) + Len(j.visited) + 1 > MaxHeld THEN Ended(j, "error")
    ELSE [j EXCEPT !.pc = "ensure", !.stack = Append(@, Frame(path, d, DirectorySnapshot(d)))]

\* The plain listing opens its directory once.
OpenListed(w) ==
    /\ jobs[w].pc = "open"
    /\ jobs' = [jobs EXCEPT ![w].pc = "read",
                            ![w].stack = <<[Frame(<<>>, Top, <<>>) EXCEPT !.opened = tree.stamp[Top]]>>]
    /\ UNCHANGED tree

\* The search takes the snapshot of its root.
WalkRoot(w) ==
    /\ jobs[w].pc = "root"
    /\ jobs' = [jobs EXCEPT ![w] = push_directory(@, <<>>, Top)]
    /\ UNCHANGED tree

ensure_directory_snapshot(path, snap) ==
    DirAt(path) # NoDir /\ DirectorySnapshot(DirAt(path)) = snap

\* Before each chunk the directory is compared with its snapshot, opened again
\* and read on from the cursor.
EnsureBefore(w) ==
    /\ jobs[w].pc = "ensure" /\ Active(w)
    /\ LET f == Top1(jobs[w])
           k == Len(jobs[w].stack)
       IN  jobs' = [jobs EXCEPT ![w] =
              IF ensure_directory_snapshot(f.path, f.snap)
              THEN [@ EXCEPT !.pc = "read", !.stack[k].opened = tree.stamp[f.dir]]
              ELSE Ended(@, "changed")]
    /\ UNCHANGED tree

\* An entry that passed the budgets: kept when it is asked for, entered when
\* the search meets a directory.
Visit(j, f, n) ==
    LET path == Append(f.path, n)
        wanted == n \notin Hidden /\ (j.search => n \in Matching)
        read == [j EXCEPT !.count = @ + 1, !.stack[Len(j.stack)].seen = @ \union {n},
                          !.found = IF wanted THEN Append(@, path) ELSE @]
    IN  IF j.count + 1 > MaxEntries \/ (wanted /\ Len(j.found) + 1 > MaxItems)
        THEN Ended(j, "error")
        ELSE IF j.search /\ LeadsTo[n] # NoDir /\ n \notin Hidden
             THEN push_directory(read, path, LeadsTo[n])
             ELSE read

\* readdir returns a name not returned before; its metadata is then read by
\* path from the root.
ReadEntry(w) ==
    /\ jobs[w].pc = "read" /\ Active(w)
    /\ LET f == Top1(jobs[w])
       IN  \E n \in tree.ents[f.dir] \ f.seen :
              jobs' = [jobs EXCEPT ![w] =
                 IF DirAt(f.path) # NoDir /\ n \in tree.ents[DirAt(f.path)]
                 THEN Visit(@, f, n) ELSE Ended(@, "changed")]
    /\ UNCHANGED tree

\* readdir returns a name that is gone by the time its metadata is read.
ReadVanished(w) ==
    /\ jobs[w].pc = "read" /\ Active(w)
    /\ tree.stamp[Top1(jobs[w]).dir] # Top1(jobs[w]).opened
    /\ jobs' = [jobs EXCEPT ![w] = Ended(@, "changed")]
    /\ UNCHANGED tree

\* finish_current: from the stack to the visited directories.
finish_current(j) ==
    LET f == Top1(j)
        below == Front(j.stack)
    IN  IF Len(below) + Len(j.visited) + 1 > MaxHeld THEN Ended(j, "error")
        ELSE [j EXCEPT !.stack = below, !.visited = Append(@, [path |-> f.path, snap |-> f.snap]),
                       !.pc = IF below = <<>> THEN "recheck" ELSE "ensure",
                       !.truth = IF below = <<>> THEN Truth(TRUE) ELSE @,
                       !.asof = IF below = <<>> THEN tree.now ELSE @]

\* The end of a directory.  Of one that changed since it was opened, readdir
\* may have missed any part.
EndOfDirectory(w) ==
    /\ jobs[w].pc = "read" /\ Active(w)
    /\ LET f == Top1(jobs[w])
       IN  \/ tree.ents[f.dir] \subseteq f.seen
           \/ tree.stamp[f.dir] # f.opened
    /\ jobs' = [jobs EXCEPT ![w] =
          IF @.search THEN finish_current(@)
          ELSE [@ EXCEPT !.pc = "sort", !.truth = Truth(FALSE), !.asof = tree.now, !.stack = <<>>]]
    /\ UNCHANGED tree

\* After the walk every visited directory is compared once more.
\* Mutant: the directories below the first one are trusted.
RecheckVisited_FirstOnly(w) ==
    /\ jobs[w].pc = "recheck" /\ Active(w)
    /\ jobs' = [jobs EXCEPT ![w] =
          IF @.visited = <<>> THEN [@ EXCEPT !.pc = "sort"]
          ELSE IF ensure_directory_snapshot(Last(@.visited).path, Last(@.visited).snap)
               THEN [@ EXCEPT !.visited = <<>>] ELSE Ended(@, "changed")]
    /\ UNCHANGED tree

RecheckVisited(w) ==
    /\ jobs[w].pc = "recheck" /\ Active(w)
    /\ jobs' = [jobs EXCEPT ![w] =
          IF @.visited = <<>> THEN [@ EXCEPT !.pc = "sort"]
          ELSE IF ensure_directory_snapshot(Head(@.visited).path, Head(@.visited).snap)
               THEN [@ EXCEPT !.visited = Tail(@)] ELSE Ended(@, "changed")]
    /\ UNCHANGED tree

\* pathitem_from_rooted_entry: what the order of entries looks at.
PathItem(path) ==
    LET is_dir == LeadsTo[Last(path)] # NoDir
    IN  [dir |-> is_dir, size |-> IF is_dir THEN 0 ELSE SizeOf[Last(path)],
         name |-> NameOrder[path], path |-> path]

SortPaths(found) ==
    LET sorted == stable_sort_by([i \in 1..Len(found) |-> PathItem(found[i])],
                                 [sort |-> Sort, order |-> Order])
    IN  [i \in 1..Len(found) |-> sorted[i].path]

SortFound(w) ==
    /\ jobs[w].pc = "sort" /\ Active(w)
    /\ jobs' = [jobs EXCEPT ![w] = Ended([@ EXCEPT !.found = SortPaths(@)], "ok")]
    /\ UNCHANGED tree

\* A metadata call whose request was dropped returns; the request's own steps
\* take the answer of any other.
StatReturns(w) ==
    /\ jobs[w].pc = "stat" /\ jobs[w].cancelled
    /\ jobs' = [jobs EXCEPT ![w] = Free]
    /\ UNCHANGED tree

JobStep(w) ==
    \/ OpenListed(w) \/ WalkRoot(w) \/ EnsureBefore(w) \/ ReadEntry(w) \/ ReadVanished(w)
    \/ EndOfDirectory(w) \/ RecheckVisited(w) \/ SortFound(w) \/ StatReturns(w)
=============================================================================
