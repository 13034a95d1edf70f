------------------------------- MODULE Listing --------------------------------
(***************************************************************************)
(* A page of the web client that lists a directory, the requests it sends, *)
(* the jobs and the snapshot cache that answer them, the page's own file   *)
(* operations, other accounts that fill the cache, and other programs that *)
(* change the directories.                                                 *)
(***************************************************************************)
EXTENDS DirectoryWalk, ListSnapshots

CONSTANTS
    Viewer, Others,      \* the account of the page, the other accounts
    Limit,               \* entries per page
    Slots,               \* max_concurrent_searches
    OtherChanges,        \* <<directory, name>> pairs that other programs change
    Deletable, Creatable, Uploadable, NewName,   \* entries for the file operations
    OtherWeights,        \* the weights of the other accounts' snapshots
    Scenarios            \* [search, ents, left]: the page, the directories' contents and the
                         \* bounds on ops, mishaps, changes, others and ticks

VARIABLES
    st, issued,          \* the snapshot store; how many ids were given out
    clock,
    arcs,                \* job -> the live clones of its request's search permit
    h,                   \* the page's request on the server
    reply,               \* its answer on the way to the page
    other,               \* another account's request about to be cached
    q,                   \* the page is a search
    v,                   \* the page
    op,                  \* a file operation of the page
    acked,               \* the last change of its own that the page was told of
    owes,                \* the page has been asked to load the list anew
    left                 \* what is left of the bounds

vars == <<tree, jobs, arcs, st, issued, clock, h, reply, other, q, v, op, acked, owes, left>>
serverVars == <<tree, jobs, arcs, st, issued, clock, other>>
requestVars == <<h, reply>>
pageVars == <<q, v, op, acked, owes>>

NoEntry == <<>>
View == INSTANCE ListingView WITH NoName <- NoEntry, NoPage <- NoCursor

NoJob == "no job"
Idle == [pc |-> "idle", job |-> NoJob]
NoReply == [kind |-> "none"]
NoOp == [kind |-> "none"]
NoOther == [owner |-> Viewer, pc |-> "idle"]
What == [limit |-> Limit]

Spend(field) == left[field] > 0 /\ left' = [left EXCEPT ![field] = @ - 1]
Mishap == Spend("mishaps")

Init ==
    /\ \E s \in Scenarios :
          /\ tree = [ents |-> s.ents, stamp |-> [d \in Dirs |-> 1], now |-> 1]
          /\ q = s.search
          /\ left = s.left
    /\ jobs = [w \in Jobs |-> Free] /\ arcs = [w \in Jobs |-> 0]
    /\ st = EmptyStore /\ issued = 0 /\ clock = 0
    /\ h = Idle /\ reply = NoReply /\ other = NoOther
    /\ v = View!loadNextPage(View!Blank)
    /\ op = NoOp /\ acked = 0 /\ owes = FALSE

----------------------------------------------------------------------------
(* handle_list_api *)

Answer(r) == h' = Idle /\ reply' = r
Failed(kind) == [kind |-> kind]
FirstPage(paths, asof, cursor) ==
    [kind |-> "page", paths |-> IF cursor = NoCursor THEN paths ELSE SubSeq(paths, 1, Limit),
     cursor |-> cursor, full |-> paths, asof |-> asof]

\* search_slots: a permit is shared by clones of an Arc, of the request and of
\* each blocking call it makes, and goes back when the last clone is dropped.
Taken == {w \in Jobs : arcs[w] > 0}

Cloned(a, w) == [a EXCEPT ![w] = @ + 1]
Dropped(a, w) == [a EXCEPT ![w] = @ - 1]

\* The request returns and drops its own clone.
Leave(a) == IF h.job = NoJob THEN a ELSE Dropped(a, h.job)

\* A metadata call is over; one for a first page held a clone.
StatOver(f) == IF h.job = NoJob THEN jobs ELSE [jobs EXCEPT ![h.job] = f]
StatDropped == IF h.job = NoJob THEN arcs ELSE Dropped(arcs, h.job)

Send ==
    /\ v.phase = "send" /\ h.pc = "idle"
    /\ h' = [pc |-> IF v.asked = NoCursor THEN "admit" ELSE "before", job |-> NoJob,
             cursor |-> v.asked]
    /\ v' = [v EXCEPT !.phase = "wait"]
    /\ UNCHANGED <<serverVars, reply, q, op, acked, owes, left>>

\* Only a request for a first page needs a permit, and it does not wait; the
\* first metadata call gets a clone of it.
Admit ==
    /\ h.pc = "admit"
    /\ IF Cardinality(Taken) < Slots
       THEN LET w == CHOOSE x \in Jobs : x \notin Taken /\ jobs[x] = Free
            IN  /\ h' = [h EXCEPT !.pc = "before", !.job = w]
                /\ jobs' = [jobs EXCEPT ![w] = Stat]
                /\ arcs' = Cloned([arcs EXCEPT ![w] = 1], w)
                /\ UNCHANGED reply
       ELSE Answer(Failed("busy")) /\ UNCHANGED <<jobs, arcs>>
    /\ UNCHANGED <<tree, st, issued, clock, other, pageVars, left>>

\* The metadata before the walk, which gets a clone of its own; a later page
\* then reads the time.
Before ==
    /\ h.pc = "before"
    /\ LET seen == DirectorySnapshot(Top)
       IN  h' = IF h.job = NoJob
                THEN [pc |-> "page", job |-> NoJob, cursor |-> h.cursor, before |-> seen,
                      now |-> clock]
                ELSE [pc |-> "walk", job |-> h.job, before |-> seen]
    /\ jobs' = StatOver(NewJob(q))
    /\ arcs' = IF h.job = NoJob THEN arcs ELSE Cloned(StatDropped, h.job)
    /\ UNCHANGED <<tree, st, issued, clock, other, reply, pageVars, left>>

\* The lookup of a later page.
Page ==
    /\ h.pc = "page"
    /\ st' = purge_expired(st, h.now)
    /\ LET r == page(st', h.cursor, Viewer, What, h.before)
       IN  Answer(IF r.kind = "page"
                  THEN [kind |-> "page", paths |-> r.paths, cursor |-> r.cursor,
                        full |-> st.snapshots[h.cursor.id].paths,
                        asof |-> st.snapshots[h.cursor.id].asof]
                  ELSE r)
    /\ UNCHANGED <<tree, jobs, arcs, issued, clock, other, pageVars, left>>

\* The job is done; the request still holds the permit.
WalkDone ==
    /\ h.pc = "walk" /\ jobs[h.job].pc = "done"
    /\ LET j == jobs[h.job]
       IN  IF j.result = "ok"
           THEN /\ h' = [pc |-> "after", job |-> h.job, before |-> h.before,
                         found |-> j.found, truth |-> j.truth, asof |-> j.asof]
                /\ jobs' = [jobs EXCEPT ![h.job] = Stat] /\ arcs' = Cloned(arcs, h.job)
                /\ UNCHANGED reply
           ELSE /\ Answer(Failed(j.result))
                /\ jobs' = [jobs EXCEPT ![h.job] = Free] /\ arcs' = Leave(arcs)
    /\ UNCHANGED <<tree, st, issued, clock, other, pageVars, left>>

\* The metadata after the walk.
After ==
    /\ h.pc = "after"
    /\ IF DirectorySnapshot(Top) = h.before /\ Len(h.found) > Limit
       THEN /\ h' = [h EXCEPT !.pc = "cache"] @@ [now |-> clock]
            /\ arcs' = StatDropped /\ UNCHANGED reply
       ELSE /\ Answer(IF DirectorySnapshot(Top) # h.before THEN Failed("changed")
                      ELSE FirstPage(h.found, h.asof, NoCursor))
            /\ arcs' = Leave(StatDropped)
    /\ jobs' = StatOver(Free)
    /\ UNCHANGED <<tree, st, issued, clock, other, pageVars, left>>

\* Either metadata call fails, or the directory is gone or replaced by a file,
\* which the second call reports as a change.
MetadataFails ==
    /\ h.pc \in {"before", "after"} /\ Mishap
    /\ \E kind \in {"error", IF h.pc = "before" THEN "not_directory" ELSE "changed"} :
          Answer(Failed(kind))
    /\ jobs' = StatOver(Free) /\ arcs' = Leave(StatDropped)
    /\ UNCHANGED <<tree, st, issued, clock, other, pageVars>>

Record(owner, directory, paths, asof, now, weight) ==
    [owner |-> owner, what |-> What, directory |-> directory, paths |-> paths, asof |-> asof,
     expires_at |-> now + LIST_SNAPSHOT_TTL, weight |-> weight, inserted |-> clock]

\* The first page is cut from the snapshot that goes into the cache.
Cache ==
    /\ h.pc = "cache"
    /\ IF Fits(Len(h.found))
       THEN /\ issued' = issued + 1
            /\ st' = cache(st, issued + 1,
                           Record(Viewer, h.before, h.found, h.asof, h.now, Len(h.found)), h.now)
            /\ Answer(FirstPage(h.found, h.asof, [id |-> issued + 1, offset |-> Limit]))
       ELSE Answer(Failed("error")) /\ UNCHANGED <<st, issued>>
    /\ arcs' = Leave(arcs)
    /\ UNCHANGED <<tree, jobs, clock, other, pageVars, left>>

\* No id can be drawn for the snapshot: the room made for it stays.
CacheFails ==
    /\ h.pc = "cache" /\ Fits(Len(h.found)) /\ Mishap
    /\ st' = Room(st, Viewer, Len(h.found), h.now)
    /\ Answer(Failed("error")) /\ arcs' = Leave(arcs)
    /\ UNCHANGED <<tree, jobs, issued, clock, other, pageVars>>

\* Mutant: the permit goes back with the request, while its call runs on.
Abandon_Frees(w) ==
    /\ jobs' = [jobs EXCEPT ![w] = IF w \in Running THEN [@ EXCEPT !.cancelled = TRUE] ELSE Free]
    /\ arcs' = [arcs EXCEPT ![w] = 0]

\* The request of w is gone: its call runs on, cancelled, with its clone; or
\* the call has ended; or it still waits for the gate and never runs.
Abandon(w) ==
    \/ /\ w \in Running
       /\ jobs' = [jobs EXCEPT ![w].cancelled = TRUE] /\ arcs' = Leave(arcs)
    \/ /\ w \notin Running
       /\ jobs' = [jobs EXCEPT ![w] = Free] /\ arcs' = Leave(arcs)
    \/ /\ jobs[w].pc = "stat"
       /\ jobs' = [jobs EXCEPT ![w] = Free] /\ arcs' = Leave(StatDropped)

\* The connection ends or the HTTP deadline passes.
Drop ==
    /\ h.pc # "idle" /\ Mishap
    /\ IF h.job = NoJob THEN UNCHANGED <<jobs, arcs>> ELSE Abandon(h.job)
    /\ Answer(Failed("error"))
    /\ UNCHANGED <<tree, st, issued, clock, other, pageVars>>

Handle == Send \/ Admit \/ Before \/ Page \/ WalkDone \/ After \/ Cache

\* A job, its deadline included; its clone goes when it ends.
Returned(w) == arcs' = IF jobs'[w].pc \in {"free", "done"} THEN Dropped(arcs, w) ELSE arcs
Work(w) ==
    /\ JobStep(w) /\ Returned(w)
    /\ UNCHANGED <<st, issued, clock, other, requestVars, pageVars, left>>
Deadline(w) ==
    /\ Interrupted(w) /\ Returned(w)
    /\ IF jobs[w].cancelled THEN UNCHANGED left ELSE Mishap
    /\ UNCHANGED <<st, issued, clock, other, requestVars, pageVars>>

----------------------------------------------------------------------------
(* The page *)

\* Each handler of the page, as a step of the whole.  A load that is asked for
\* is owed until the old list is dropped.
PageStep(w, asked) == v' = w /\ owes' = ((owes \/ asked) /\ w.invalidated) /\ UNCHANGED <<serverVars, q>>

Receive ==
    /\ v.phase = "wait" /\ reply # NoReply
    /\ PageStep(View!Received(v, reply), FALSE)
    /\ reply' = IF v'.phase = "append" THEN reply ELSE NoReply
    /\ UNCHANGED <<h, op, acked, left>>

AppendPage ==
    /\ v.phase = "append"
    /\ PageStep(View!Append1(v, reply), FALSE)
    /\ reply' = NoReply
    /\ UNCHANGED <<h, op, acked, left>>

\* The user asks for more, or for the refresh or retry that the button offers.
LoadMore ==
    /\ v.editor = NoEntry /\ ~v.loading
    /\ v.invalidated \/ ~v.loaded \/ v.cursor # NoCursor
    /\ PageStep(View!loadNextPage(v), FALSE)
    /\ UNCHANGED <<requestVars, op, acked, left>>

StartEdit ==
    /\ Spend("ops") /\ v.editor = NoEntry
    /\ \E i \in 1..Len(v.items) :
          /\ v.items[i] \in Deletable
          /\ PageStep(View!startInlineRename(v, v.items[i], FALSE), FALSE)
    /\ UNCHANGED <<requestVars, op, acked>>

CancelEdit ==
    /\ v.editor # NoEntry /\ op.kind # "rename"
    /\ PageStep(View!cancelInlineRename(v, FALSE), FALSE)
    /\ UNCHANGED <<requestVars, op, acked, left>>

\* A file operation is sent: of an entry shown, of a new one, or the rename
\* that ends an edit.
Dispatch ==
    /\ op = NoOp /\ Spend("ops")
    /\ \/ /\ v.editor = NoEntry
          /\ \E i \in 1..Len(v.items) :
                /\ v.items[i] \in Deletable
                /\ op' = [kind |-> "delete", name |-> v.items[i], state |-> "sent"]
       \/ /\ v.editor = NoEntry
          /\ \E n \in Creatable : op' = [kind |-> "create", name |-> n, state |-> "sent"]
       \/ \E n \in Uploadable : op' = [kind |-> "upload", name |-> n, state |-> "sent"]
       \/ /\ v.editor # NoEntry
          /\ op' = [kind |-> "rename", name |-> v.editor, state |-> "sent"]
    /\ UNCHANGED <<serverVars, requestVars, q, v, acked, owes>>

\* The server carries it out, finds the entry gone, or finds the new name taken.
Present(name) == name[1] \in tree.ents[Top]
Apply ==
    /\ op.kind # "none" /\ op.state = "sent"
    /\ IF op.kind \in {"delete", "rename"} /\ ~Present(op.name)
       THEN op' = [op EXCEPT !.state = "stale"] /\ UNCHANGED tree
       ELSE IF \/ op.kind \in {"create", "upload"} /\ Present(op.name)
               \/ op.kind = "rename" /\ Present(NewName)
       THEN op' = [op EXCEPT !.state = "refused"] /\ UNCHANGED tree
       ELSE /\ LET changed == Changed(Top, op.name[1])
               IN  tree' = IF op.kind = "rename"
                           THEN [changed EXCEPT !.ents[Top] = @ \union {NewName[1]}] ELSE changed
            /\ op' = [op EXCEPT !.state = "applied"] @@ [at |-> tree.now + 1]
    /\ UNCHANGED <<jobs, arcs, st, issued, clock, other, requestVars, q, v, acked, owes, left>>

Editing == op.kind = "rename" /\ v.editor = op.name

\* deletePath, relocatePath, createDefaultFolder and the upload manager report
\* what was done to the listing.
Told ==
    /\ op.kind # "none" /\ op.state = "applied"
    /\ acked' = op.at
    /\ LET w == View!notifyMutation(v, "committed")
       IN  CASE op.kind = "delete" ->
                  PageStep(View!refreshFromFirstPage(View!removeByName(w, op.name)), TRUE)
             [] Editing ->
                  PageStep(View!RenamedInline(w, NewName), op.name \in ToSet(v.items))
             [] OTHER -> PageStep(w, FALSE)
    /\ op' = IF op.kind = "create" THEN [op EXCEPT !.state = "preflight"] ELSE NoOp
    /\ UNCHANGED <<requestVars, left>>

\* showCreatedItem: the created entry is shown and its name edited, unless it
\* is gone again or the request that looks for it fails.
ShowCreated ==
    /\ op.kind # "none" /\ op.state = "preflight"
    /\ \/ /\ Present(op.name) /\ UNCHANGED left
          /\ PageStep(View!startInlineRename(View!addCreatedItem(v, op.name), op.name, TRUE), TRUE)
       \/ /\ IF Present(op.name) THEN Mishap ELSE UNCHANGED left
          /\ PageStep(View!refreshFromFirstPage(v), TRUE)
    /\ op' = NoOp
    /\ UNCHANGED <<requestVars, acked>>

\* A stale entry marks the list and opens a dialog; any other refusal leaves
\* the list, and the editor, as they are.
Refused ==
    /\ op.kind # "none" /\ op.state \in {"stale", "refused"}
    /\ IF op.state = "refused" THEN op' = NoOp /\ UNCHANGED <<serverVars, q, v, owes>>
       ELSE /\ PageStep(View!notifyMutation(v, "refresh-required"), FALSE)
            /\ op' = [op EXCEPT !.state = "dialog"]
    /\ UNCHANGED <<requestVars, acked, left>>

\* The user dismisses the dialog, and the page loads its list anew.
Dismissed ==
    /\ op.kind # "none" /\ op.state = "dialog"
    /\ PageStep(View!refreshFromFirstPage(
                   IF Editing THEN View!cancelInlineRename(v, TRUE) ELSE v), TRUE)
    /\ op' = NoOp
    /\ UNCHANGED <<requestVars, acked, left>>

\* The outcome stays unknown: the page marks its list and leaves the refresh
\* to the user.
Unknown ==
    /\ op.kind # "none" /\ op.state \in {"applied", "stale", "refused"} /\ Mishap
    /\ LET w == View!notifyMutation(v, "outcome-unknown")
       IN  v' = IF Editing THEN View!cancelInlineRename(w, TRUE) ELSE w
    /\ owes' = (owes /\ ~Editing)
    /\ op' = NoOp
    /\ UNCHANGED <<serverVars, q, requestVars, acked>>

Operate == StartEdit \/ Dispatch \/ Apply \/ Unknown

----------------------------------------------------------------------------
(* The surroundings *)

OtherBegins ==
    /\ other.pc = "idle" /\ Spend("others")
    /\ \E o \in Others, n \in OtherWeights :
          other' = [owner |-> o, pc |-> "cache", weight |-> n, now |-> clock]
    /\ UNCHANGED <<tree, jobs, arcs, st, issued, clock, requestVars, pageVars>>

OtherCaches ==
    /\ other.pc = "cache"
    /\ issued' = issued + 1
    /\ st' = cache(st, issued + 1,
                   Record(other.owner, <<NoDir, 0>>, <<>>, 0, other.now, other.weight), other.now)
    /\ other' = NoOther
    /\ UNCHANGED <<tree, jobs, arcs, clock, requestVars, pageVars, left>>

OthersChange ==
    /\ Spend("changes")
    /\ \E e \in OtherChanges : tree' = Changed(e[1], e[2])
    /\ UNCHANGED <<jobs, arcs, st, issued, clock, other, requestVars, pageVars>>

Tick ==
    /\ Spend("ticks")
    /\ clock' = clock + 1
    /\ UNCHANGED <<tree, jobs, arcs, st, issued, other, requestVars, pageVars>>

Next ==
    \/ Handle \/ MetadataFails \/ CacheFails \/ Drop
    \/ \E w \in Jobs : Work(w) \/ Deadline(w)
    \/ Receive \/ AppendPage \/ LoadMore \/ CancelEdit
    \/ Operate \/ Told \/ ShowCreated \/ Refused \/ Dismissed
    \/ OtherBegins \/ OtherCaches \/ OthersChange \/ Tick

Spec == Init /\ [][Next]_vars

\* While a handler of the server or of the page, or a blocking job, can go on,
\* one of them does; a dialog is not left open, nor a name edited, forever.
\* Both are weak fairness with the enabling condition written out.
Proceed ==
    \/ \E w \in Jobs : Work(w) \/ Deadline(w)
    \/ Handle \/ Receive \/ AppendPage \/ Apply \/ Told \/ ShowCreated \/ Refused
    \/ Dismissed
CanProceed ==
    h # Idle \/ v.phase # "none" \/ op # NoOp \/ \E w \in Jobs : jobs[w] # Free
CanCancel == v.editor # NoEntry /\ op.kind # "rename"

Fairness ==
    /\ []<>~CanProceed \/ []<><<Proceed>>_vars
    /\ []<>~CanCancel \/ []<><<CancelEdit>>_vars
FairSpec == Spec /\ Fairness

----------------------------------------------------------------------------
(* Properties *)

\* Every part of the state is of its kind: the store, the page and the request.
TypeOK ==
    /\ DOMAIN st.snapshots \subseteq 1..issued
    /\ \A i \in DOMAIN st.snapshots : st.snapshots[i].owner \in Others \union {Viewer}
    /\ h.job \in Jobs \union {NoJob}
    /\ h.pc \in {"idle", "admit", "before", "walk", "after", "cache", "page"}
    /\ v.phase \in {"none", "send", "wait", "append"} /\ v.loading = (v.phase # "none")
    /\ owes => v.invalidated
    /\ acked <= tree.now

Sorted(paths) ==
    \A i, k \in 1..Len(paths) : i < k =>
        compare_path_items(PathItem(paths[i]), PathItem(paths[k]), Sort, Order) = -1

\* What handle_list_api hands out after its last comparison of metadata is the
\* sorted content of the directory, or of the whole tree that was searched, at
\* one instant, whatever other programs did during the walk.
SnapshotExact ==
    [][ (h.pc = "after" /\ (h'.pc = "cache" \/ (h'.pc = "idle" /\ reply'.kind = "page"))) =>
            /\ ToSet(h.found) = h.truth /\ Len(h.found) = Cardinality(h.truth)
            /\ Sorted(h.found) ]_vars

\* ListSnapshotStore: the queue names exactly the records, the total is their
\* weight, and neither an account nor the cache is over its limits.
CacheBounded ==
    /\ ToSet(st.insertion_order) = DOMAIN st.snapshots
    /\ Len(st.insertion_order) = Cardinality(DOMAIN st.snapshots)
    /\ st.total_weight = WeightOf(st, DOMAIN st.snapshots)
    /\ Len(st.insertion_order) <= MAX_CACHED_LIST_SNAPSHOTS
    /\ st.total_weight <= MAX_CACHED_LIST_SNAPSHOT_BYTES
    /\ \A o \in Others \union {Viewer} :
          /\ owner_usage(st, o).count <= MAX_CACHED_LIST_SNAPSHOTS_PER_OWNER
          /\ owner_usage(st, o).weight <= MAX_CACHED_LIST_SNAPSHOT_BYTES_PER_OWNER

\* A page is never served from a snapshot that is older than the time to live,
\* although purge_expired stops at the first record that is still valid and
\* the times it compares were read before the lock was taken.
ServedInTime ==
    [][ (h.pc = "page" /\ h'.pc = "idle" /\ reply'.kind = "page") =>
            h.now < st.snapshots[h.cursor.id].inserted + LIST_SNAPSHOT_TTL ]_vars

\* make_room: an account that caches a snapshot may push out its own and, when
\* the cache is full, the oldest, but never all valid snapshots of the others.
SparesOthers ==
    [][ issued' # issued =>
            LET rec == st'.snapshots[issued']
                now == rec.expires_at - LIST_SNAPSHOT_TTL
            IN  (\E i \in DOMAIN st.snapshots :
                    st.snapshots[i].owner # rec.owner /\ now < st.snapshots[i].expires_at)
                => \E i \in DOMAIN st'.snapshots : st'.snapshots[i].owner # rec.owner ]_vars

\* The blocking calls that run for listings, those of dropped requests
\* included, are never more than max_concurrent_searches, although the permits
\* are counted apart from the calls; and when no listing is at work every
\* permit has come back, so that no path of an error or of a drop leaks one.
WalkersWithinSlots ==
    /\ Cardinality(Running) <= Slots
    /\ Running = {} /\ h.job = NoJob => Taken = {}

\* A list that the page shows without the mark "changed" was read after every
\* change of its own that the page was told of.
ReadYourWrites == v.loaded /\ ~v.invalidated => v.asof >= acked

\* Such a list is the beginning of one snapshot, without gaps or repetitions,
\* and all of it when the page has no cursor left.
ViewIsPrefix ==
    v.loaded /\ ~v.invalidated =>
        /\ IsPrefix(v.items, v.full)
        /\ v.cursor = NoCursor => v.items = v.full

\* A load that the page started ends: the request is answered, refused or
\* dropped, and a load that follows it at once ends too.
LoadsEnd == v.loading ~> ~v.loading

\* A refresh that an operation asked for while another load or an editor was in
\* the way is made up for, without a click of the user.  The one exemption is a
\* rename whose outcome stays unknown: closing its editor drops the refresh that
\* waited for it (controller.js, 803-804), and Unknown ends what is owed.
RefreshMadeUp == owes ~> ~owes
=============================================================================
