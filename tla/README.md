# A TLA+ model of Dufs

Dufs is a file server: tokio tasks serve HTTP requests that change a directory
tree, a SQLite file owned by one thread remembers what they promised, background
workers finish what requests start, and a web page shows the tree. This
directory models the parts whose correctness depends on the order of events,
checks them with TLC on small instances and proves what matters most with TLAPS.

Source paths below are relative to `src/server/` of the repository unless they
start with another directory.

## 1. The system

| part | state | operations | what makes it hard | what correct means |
|---|---|---|---|---|
| path coordinator (`path_coordinator.rs`) | granted leases, queue of waiters, lease epoch, a watch channel | acquire, try, wait, cancel, release | keys are resolved across awaits while holders rename what they resolve; two mutexes; wake-ups that race | held leases do not overlap in the tree as it is now; no waiter is stuck |
| rooted file system (`rooted_fs.rs`, `rooted_fs/purge.rs`) | the tree beneath the root | mkdir, stage, replace, rename, trash, purge | symbolic links, other writers, calls with an unknown outcome | an operation changes the object it checked |
| operation registry (`operation_registry.rs`, `state_store/operation.rs`) | one row per (owner, operation id) | begin, mark, complete, abandon, status | deadlines drop handlers, the commit task lives on, clients retry | one mutation per key; answers are true |
| state store actor (`state_store.rs`, `state_store/actor.rs`, `database.rs`) | bounded command queue, control queue, deferred abandons, SQLite | run commands, drain controls, recover | full queues, lost replies, failed transactions, crashes | nothing stays reserved; recovery claims nothing false |
| delete and purge (`delete.rs`, `purge.rs`, `state_store/purge.rs`) | outbox of purge jobs, trash names | prepare, rename, ready, claim, purge, quarantine, reconcile | crash between rename and row, replaced entries, failed or lost store calls | only what a client deleted is destroyed; every job ends |
| disk space (`disk_space.rs`) | reserved bytes and revision per device | reserve, consume, flush, drop, verify | the free-space probe runs outside the mutex | reservations never eat the protected minimum |
| resumable uploads (`upload.rs`, `upload/*`, `state_store/upload.rs`) | session rows, stage files | create, append, checkpoint, commit, discard | power failure between stage, row and publication; a task that outlives its answer | a resumed offset is durable; what is published is whole; answers are true |
| maintenance (`maintenance.rs`) | claims on active files | expire sessions, remove old stages | works from snapshots beside live requests, without leases | never touches live state; nothing stays for ever |
| listing (`listing.rs`, `listing/*`) | snapshot cache, permits | list, search, page, evict | reading while the tree changes; requests that go away | a listing is the tree at one instant; limits hold |
| web page (`clients/web/modules/listing`, `operations`) | list, cursor, editor, postponed refresh | load, refresh, edit, delete, create | answers that are out of date when they arrive | the list catches up with the page's own changes |
| lifecycle (`server.rs`, `main.rs`, `blocking_io.rs`) | request tracker, cancellation tokens | enter, shut down, force | shutdown against running mutations | no mutation is cut in the middle |

Requests meet in the path coordinator first, reserve their operation in the
registry, commit in a detached task that outlives the HTTP deadline, and leave
durable work (purge jobs, upload sessions) to workers that take the same leases
or, for maintenance, to a registry of active files.

## 2. Modules

| module | models | extends |
|---|---|---|
| `RootedFs` | the namespace, path resolution beneath the root, the effect of each mutation on it | – |
| `PathKeys` | lease keys and their conflicts | `RootedFs` |
| `PathCoordinator` | acquisition and release of leases, composed with the edits the holders make | `PathKeys` |
| `PathLocality` | the condition on a workload's edits, and the inductive invariant | `PathCoordinator` |
| `PathCoordinatorProofs` | theorems and proofs | `PathLocality` |
| `OperationStore` | handlers, detached commits, the actor thread and the operations table | – |
| `OperationRules` | the inductive invariant of the registry, what a step must keep for all of it to be kept, what each transaction does to the table; that expiry, crashes and the actor's commands and abandons keep the invariant | `OperationStore` |
| `OperationProofs` | that handlers, deadlines and queries keep it; the theorems about operations | `OperationRules` |
| `DeleteOutbox` | delete tasks, reconciler, purge worker, outbox rows, trash and quarantine names | – |
| `DeleteOutboxProofs` | the inductive invariant of the outbox, that delete tasks, reconciler, worker, other writers and crashes keep it, and the theorems | `DeleteOutbox` |
| `DiskSpace` | the reservation tracker and the uploads that write under it | – |
| `UploadRows` | the `upload_sessions` table and its transactions | – |
| `UploadState` | the variables shared by requests and maintenance, and the steps on the stage name | `UploadRows` |
| `UploadPrepare`, `UploadTransfer` | an upload request up to its body, and from its body to its answer; discard | `UploadState` |
| `UploadUpkeep` | maintenance of sessions and stages | `UploadState` |
| `UploadSession` | requests, maintenance, time, other programs and power failures together; the properties | the three above |
| `UploadContract` | what a session promises its owner, without stages or requests | `UploadRows` |
| `UploadInvariant` | the two inductive invariants of upload sessions: `IndInv` (the request and what it publishes) and `Promises` (what table, names and maintenance owe the owners) | `UploadSession` |
| `UploadProofs` | that every step keeps `IndInv`, and the theorems that follow from it alone | `UploadInvariant` |
| `UploadPromises` | that requests up to their transfer, and sessions given up or discarded, keep `Promises` | `UploadInvariant` |
| `UploadSteps` | that transfer, publication, maintenance, other programs and crashes keep it | `UploadPromises` |
| `UploadGuarantees` | the theorems that follow from both, with the refinement of `UploadContract` | `UploadProofs`, `UploadSteps` |
| `ListSort` | the order of entries and the interruptible merge sort, with a reference definition | – |
| `DirectoryWalk` | the blocking jobs that list a directory or search a tree that others change | `ListSort` |
| `ListSnapshots` | the cache of listing snapshots | – |
| `ListingView` | what each handler of the web page does to its list | – |
| `Listing` | the page, its requests, jobs, cache, file operations and other accounts together; the properties | `DirectoryWalk`, `ListSnapshots`, with an instance of `ListingView` |
| `MC*` | instances for TLC | |

### Path coordinator

`ns` is the tree: a function from (directory, name) to nothing, a file, a
directory or a link. A path is a sequence of names; `Walk` follows links as
`openat2` does beneath the root, with a bound on the number of links.
`LeaseKey` is what `resolved_path_key` records: the lexical path, the deepest
existing parent directory with its ancestry, and the tail below it.

Every request runs the loop of `acquire_inner` with one action per shared access:
take an id, insert the waiter, `borrow_and_update`, load the epoch, mark the
waiter as resolving, resolve each path (one step per path, in the tree of that
moment, or the conservative root key after an error), then `try_acquire` under
both mutexes with its three results. `Cancel` drops the future at an await.
`Edit` is the holder's mutation; `Release` and `Notify` are `Drop for PathLease`.
`dirty[r]` says that the watch channel has a version `r` has not seen.

Abstractions: one path is resolved in one step (the code issues several system
calls under one blocking task); ids do not wrap; a request acquires once.

### Operations

A request is one HTTP mutation with a key; its name doubles as the random lease
token of its reservation. `pc` follows the handler up to `run_commit_inner`
and the detached task after it. `commands` is the bounded `sync_channel`,
`controls` the unbounded one; `send_control` puts a message on the second and a
Wake on the first if there is room. `worker` is the place of the actor in its
loop: retry one deferred abandon, drain controls, receive one command. The
begin reply is sent in a step of its own, so that the receiver can go away in
between (`BeginEnvelope`). `Timeout` is the HTTP deadline or a client that
disconnects. `Expire` lets the time to live of a completed row run out; the
row is removed by the next `purge_expired`. `applied[k]` is history: the
requests that mutated the tree since the record of `k` last expired. `asked[q]` is
history too: the requests of the query's own key whose clients had been told
"unknown" when it was sent.

Abstractions: the validation of a request is a nondeterministic verdict
(`GiveUp`, `Refuse`, `run_commit_inner`); a failed transaction changes nothing;
the message and the Wake of `send_control` are one step; crash and recovery are
one step; graceful close and the health flag are left out.

### Delete

An object stands for an inode and its version for the metadata a revision
covers. `Renamed`, a removed entry and a write by others change the version.
Rows are `Prepared`, `Ready` or `Claimed`, as in `purge_jobs`. A behaviour has a
`setting`: whether a failed store call may have committed all the same (`lossy`),
the room of the outbox (`capacity`) and that of the worker, which pending work and
retained claims share (`active`). The rename moves whatever is at the path by then
and compares afterwards, as the code does. The worker may hold two copies of one
job, because a copy retained after a failed call and a new claim can coexist.
Other writers replace, remove or write objects at the path and, with `Intruders`,
under trash names.

Abstractions: all deletes name one path, so one lease covers them; the operation
row of DELETE is covered by `OperationStore`; a slice removes one entry and the
tree below the trash root is a count of entries; the rename and its directory
sync are one step with separate failures; the copies of the worker are taken up
in any order, which allows more interleavings than its single task.

### Disk space

`free` is what `fstatvfs` reports, `reserved` and `revision` the tracker's state
for one device (devices share nothing). A reservation runs `reserve_on_device`:
read the revision, probe without the mutex, lock and decide if the revision is
still the same; after `Retries` rounds it fails. Each verification first flushes
the consumed batch and then runs the same loop. An upload verifies after its
reservation, every `Recheck` bytes of the body, and three times on the way to its
publication. `Write` is `write_all` of a tokio file: it returns when the chunk
is queued, and `Land` is the blocking write that reaches the file system later,
in whole blocks. `Spend` is the metadata of the replaced target and the records
of the commit. A failed upload keeps its stage for a resumption (`Keep`), cuts it
back to its offset (`CutBack`) or unlinks it (`Remove`); only the last does not
wait for a write in flight, and `gone` is a stage whose inode that write holds.
Where the code chooses between them by cause or size, the model leaves it open. A
publication that fails removes its stage; one that meets a changed target leaves it
for a confirmation, which for the space is the same as publishing it.

Abstractions: nobody else uses the device; writes do not fail; the metadata of the
preparation counts as part of `Spend`; an upload that awaits confirmation is a
resumed one with nothing left to write; a chunk is no larger than the metadata
allowance (64 KiB, the HTTP buffer of `main.rs`, against 1 MiB + 64 KiB).

### Uploads and maintenance

All requests are for one target path and one upload ID, from one or two owners:
the stage path is made from target and ID, so owners share it, while each has a
row of its own. `h` is the request that holds the path lease; `h.pc` is its place
in `prepare_upload`, `transfer_upload_body`, `prepare_transferred_upload` or
`commit_ready_upload`, `h.mut` its `MutationProgress`, `h.job` the `persist_*` call
under way. `m` is the maintenance task with the rows it has read (`snap`) and its
marker in `active_upload_files`. `stage` and `target` are the inodes under the two
names, `disk` what a power failure would leave of them, `file[i].synced` what it
would leave of a file. `landed[o]` is history: the session of the present row of
`o` has been published. `told` and `effect` are what the present request was
answered and what it has changed.

`await_tracked_upload_task` is the deadline, which answers for a task that keeps
running. `Fault` is any I/O or store error; a store call that fails has
committed or not. `Crash` is a power failure and the start after it: recovery of
the table, the check of `validate_stage_layouts` (the server stays down when a
live row and its stage name disagree), lost volatile state. `OutsideChange` is
another program that creates, replaces or removes the target.

Abstractions: bytes are chunks and a file is its length; the lease serialises
requests (that is what `path_leases` checks), so one request is in progress at a
time; the target revision is the identity of the file; ancestors that an upload
creates are left out; a clean-up pass is shorter than the time to live.
`ReuseInodes` says whether the number of an inode that some row still names may
be given to a new file. The runs exclude it; see section 5.

`UploadContract` is the promise behind all of this: per owner a phase, an offset
and whether it has landed. Offsets only grow, a session lands once and only
between the start of a commit and its settlement, the settlement agrees with
what happened, and a record is not removed while its publication is unsettled.
`KeepsContract` maps the rows of `UploadSession` to it and checks the refinement.

### Listing and the page

`tree` has the entries of each directory and a stamp that stands for identity,
mtime and ctime. A job (`DirectoryWalk`) has the stack of open directories of
`collect_dir_items`: each is compared with its snapshot before every chunk, and
all of them again at the end; readdir of a directory that changes meanwhile may
miss anything. `truth` records what the tree held when the last directory was
read to its end. `arcs` counts the clones of a listing's permit: one of the request,
one of the metadata call or walk it has started. The semaphore is free again when
the last clone goes. A request that is dropped gives its own clone back and cancels
its call, which keeps the other one until it returns; a metadata call that the
blocking gate had not admitted yet goes with the request (`Abandon`).
`ListSnapshots` is the cache as functions of the store: expiry from the front of the
queue, room for an account, room for all, insertion, page.
The time that a record's expiry is counted from is read before the lock is taken.

`ListingView` has one operator for each function of `listing/controller.js` that
changes its state. `Listing` connects it with the server: `Send`, `Admit`,
`Before`, `WalkDone`, `After`, `Cache` and `Page` are the stages of
`handle_list_api`, `MetadataFails` and `CacheFails` their errors; `Dispatch`, `Apply`,
`Told`, `Refused`, `Dismissed` and `Unknown` the file operations and what they report
to the list. `acked` is the last change of its own
that the page was told of, `owes` that it has been asked to load its list anew.

Abstractions: names are short constants, an entry's metadata is its kind and
size; the weight of a snapshot is a number; a cursor is not forged; the page does
one file operation at a time; a move that succeeds leaves the page; every change
of a directory shows in its stamp, which `docs/feature-inventory-and-tradeoffs.md`
(206–207) itself calls an assumption about the file system.

## 3. What the runs check

| run | instance | checks | result |
|---|---|---|---|
| `path_leases` | 3 requests, two aliases of two directories, a move that re-targets an alias, failing resolutions | `TypeOK`, `LeasesExclusive`; the condition `EditsLocal` of the proof (`WorkloadLocal`) | holds |
| `path_progress` | 3 requests whose common ancestors are created and deleted, cancellations, failing resolutions | `LeasesExclusive`, `Progress`; `WorkloadLocal` | holds |
| `path_link_chain` | a path through two links | `LeasesExclusive` | violated (finding 1) |
| `operation_retry` | a request, its retry, a status query; queue of 2, one failed transaction, one crash | `TypeOK`, `AppliedOnce`, `RejectedUntouched`, `OutcomeHonest`, `ReservationKept`, `NotFoundIsFinal` | holds |
| `operation_resolved` | three requests, two keys, one owner, one body that differs; queue of 1, one failed transaction | `WithinCapacity`, `Resolved` | holds |
| `delete_outbox` | two deletes, a directory and a file, two copies, two faults, one touch, one crash; lost replies over an outbox of one, or none over a worker of one | `TypeOK`, `OnlyDeletedDestroyed`, `TrashAccounted`, `IntentKept`, `OutboxDrains` | holds |
| `delete_resume` | one directory of two slices, one crash | `ReleasedWhenPurged` | violated (finding 2) |
| `disk_space` | a fresh and a resumed upload, blocks of two bytes, room for one reservation or for both while released bytes are in flight | `TypeOK`, `MinimumFreeKept`, `Accounted` | holds |
| `uploads` | two owners, two inodes, one chunk, two requests, two mishaps | `TypeOK`, `CheckpointDurable`, `PublishedWhole`, `StatusHonest`, `NotStartedUntouched`, `HonestAnswers`, `LiveStageKept`, `KeepsContract` | holds |
| `upload_reclaim` | one owner, two requests, one mishap | `RequestsAndClaimsEnd`, `Reclaimed` | holds |
| `upload_metadata` | one owner, no target at first, three requests, two mishaps | `CreateOnlyClean` | violated (finding 3) |
| `listing` | eight scenarios of one page: own operations, another program's change, searches that change, fail or are dropped, a loop of links, too many entries, a busy cache | `TypeOK`, `CacheBounded`, `WalkersWithinSlots`, `ReadYourWrites`, `ViewIsPrefix`, `SnapshotExact`, `ServedInTime`, `SparesOthers`, `LoadsEnd`, `RefreshMadeUp`; the merge sort against its reference for lists of up to four entries (`SortAssumption`) | holds |

**Bounds.** Three requests are enough for a holder, a waiter that conflicts with
it and a waiter behind that one; two directories and two links give every kind
of alias the keys distinguish. Two requests of one key and a query are the
shortest story in which a retry overlaps the first attempt and somebody looks.
Queues of one and two fill up. Two faults allow the failure of a call and of the
call that repairs it; one crash at every step is enough, because recovery starts
from the table and the files only. Two uploads of `disk_space` are one that
decides and one that outdates its decision; up to seven chunks, two retries and
batches of one chunk let a revision change inside every probe. Two owners share a
stage name in every way there is; two requests are one that leaves something and
one that finds it; two mishaps are an error and the failure of its repair, or an
error and a power failure. One chunk gives empty and full stages and files longer
than their offset. The scenarios of `listing` each exhaust one source of trouble.
Every counter that bounds a run is a constant named `Max...` or a field of
`Scenarios`.

**Fairness.** `Progress` assumes that tokio polls every woken task and that lease
holders finish (their commits are bounded by the file system, not by clients).
`Resolved` assumes that the actor thread runs, that a handler that has begun
goes on, and, once a transaction has failed, that the purge worker keeps polling
the actor as its idle timer makes it do; without a failure the wake-ups alone
must do. No fairness is assumed of new requests, deadlines, clients or expiry.
`OutboxDrains` assumes that the tasks of the process run; failures are finite, and
it speaks of settings in which a failed call has not committed: a claim whose
reply is lost waits for a restart. `RequestsAndClaimsEnd` and `Reclaimed` assume
that the request's task and the maintenance task run and that time passes. `LoadsEnd`
and `RefreshMadeUp` assume that some handler or blocking job that can go on does, and
that a dialog is not left open and a name not edited for ever; they assume no other
click of the user.

**Findings.** Three runs show a sentence of the documentation that the code does
not keep:

1. A lease does not cover the links inside a path: with `/k -> l -> a`, a
   request on `/k/x` holds nothing on `/l`, and a move onto `/l` can bring it
   and another holder to one entry.
2. A directory that was partly purged when the process ended is quarantined
   after the restart and not traversed again: removing entries changed the
   revision the job compares.
3. There is no target at first. A create-only PUT finds, in its comparison before
   the rename, that one has appeared, and its stage is retained. A PATCH that
   confirms the overwrite replays the owner, mode and attributes of the target it
   inspected onto the stage and then fails the space check before its commit record,
   so the row still binds no revision. Meanwhile the target goes away. An empty
   create-only PATCH publishes the stage as a new file with the old metadata, which
   `docs/operations.md` (93) says is refused. The two mishaps of the run are the
   appearance and the disappearance of the target.

Smaller observations, which the models contain or which bound what they say:

- A lease does not cover a directory its own holder creates: an alias of the new
  directory, a link that was there before, can be granted while the holder is at work
  (`EditsLocal`, section 4, excludes such workloads).
- After a retry that committed although its call failed, the retained copy of a
  purge job and a new claim of it are both worked on, although
  `docs/project-workflow.md` (710) says that the copy is dropped.
  `OnlyDeletedDestroyed` and `TrashAccounted` hold with two copies, so the
  consequence is duplicate work.
- A fresh upload that fails drops its file without waiting for the chunk in flight
  and gives its reservation back; the chunk may land on space that another upload
  has reserved since. `MinimumFreeKept` states and checks the bound: at most a
  chunk for each such stage, until the write ends and the unlinked inode goes.
- `docs/operations.md` (81) says that the deadline aborts an upload's task; the
  code (`server.rs`, 684) lets it run on with its leases. `NotStartedUntouched` and
  `HonestAnswers` say why that is safe.
- The replacement of an existing target is a comparison followed by a plain
  rename, so a file that another program puts there in between is replaced too.
  `HonestAnswers` and `PublishedWhole` are true of it all the same.
- An expiry pass unlinks a stage, a PUT of the same ID makes a new one, the row
  still names the old inode: after a power failure at this moment the server
  refuses to start.
- When the outcome of a rename stays unknown, a refresh that was postponed is
  dropped; the list keeps its mark "changed" and its Refresh button.

## 4. What is proved

`PathCoordinatorProofs` proves, for any requests, names, directories and trees:

- `TypeCorrect`: `Spec => []TypeOK`, without any condition on the workload;
- `LeasesExcludeEachOther`: if `EditsLocal`, then `Spec => []LeasesExclusive`;
- `AliasFreeExclusive`: if `AliasFree`, then `Spec => []LeasesExclusive`.

The assumptions of the last two are in `PathLocality`: `None` is not a request or an
epoch (`NoneAssumption`), a set of namespaces closed under the edits
(`NamespacesClosed`), and a root key that conflicts with everything
(`RootKeyConservative`). `EditsLocal` is a condition on the workload. It speaks of the
paths that are clear of a request `r`, that is, conflict with none of its paths: an
edit by `r` brings no two of them that were apart into conflict, and none into
conflict with `r`; and a key of theirs or of `r` that told every conflict of its path
before the edit does so afterwards. Paths may change their meaning, ancestors may
appear and vanish, and nothing is asked of paths that conflict with `r`, whose
requests must wait.

`path_leases` and `path_progress` evaluate the condition on their workloads (aliases
with a link that is re-targeted; missing common ancestors). It is false where an edit
makes two separate paths aliases of each other: a link reached through another link
is replaced, as in `path_link_chain`, where the leases do fail, or a missing directory
appears behind a link that named it already. `AliasFree` says that only paths which
conflict as written ever conflict; then every edit is local, and the leases exclude
each other whatever the requests create, move and delete. So the theorems say what
the protocol contributes: epoch, queue and the two mutexes make up for the age of the
keys, in every interleaving, as long as edits do not create conflicts behind the
keys' back.

`LeasesExclusive` is not inductive. A lease is granted on keys that were resolved some
steps ago, in other namespaces than the present one. A key counts as long as it is
held or belongs to the current epoch (`Live`); a lease of another request that
conflicts with it bars it from being granted (`Barred`). The invariant says that a key
which is not barred still conflicts with the present key of every path its own path
conflicts with, and that two such keys conflict if their paths do although both may
be old (`KeysDetect`); and that the recorded keys of two leases never conflict
(`LeasesApart`). `IndInv` adds the types and what the locals of `acquire_inner` say
about each other (`Passes`). TLC checked `Passes`, `KeysDetect` and `LeasesApart` on
both workloads before they were proved.

`DeleteOutboxProofs` proves, for any deletes, objects, trees, copies, settings and
bounds:

- `RowsWellFormed`: `Spec => []TypeOK`;
- `DestroysOnlyDeleted`: `Spec => []OnlyDeletedDestroyed`;
- `TrashHasRow`: `Spec => []TrashAccounted`;
- `RunningIntentKept`: `Spec => []IntentKept`.

It assumes only that `None` is not an object or a lease holder and that `Entries`
counts entries. None of the last three is inductive. That only deleted objects are
destroyed needs to know that a worker's pinned object is the one the job was
committed for (`Pinned`), which rests on the revision in the row (`Recorded`):
versions never go back, so an object that has the recorded revision is the
recorded object. That trash has a row and that a running intent is kept need to
know who may change a `Prepared` row: the delete task while it holds the lease, or
a reconciliation that holds it (`Intent`). `IndInv` there puts
these together per delete and per copy; a few lemmas (`TaskStep`, `WorkStep`)
say that a step that leaves the other deletes and copies alone and keeps its own
part keeps all of it, and each action then has one lemma. TLC checked `IndInv` on
the instance of `delete_outbox` first.

`OperationProofs` proves, for any requests, queries, keys, owners, fingerprints,
limits and bounds:

- `RegistryTyped`: `Spec => []TypeOK`;
- `RetriesIdempotent`: `Spec => []AppliedOnce`;
- `RejectionHonest`: `Spec => []RejectedUntouched`;
- `VerdictsHonest`: `Spec => []OutcomeHonest`;
- `GuardsKeepReservation`: `Spec => []ReservationKept`;
- `TableBounded`: `Spec => []WithinCapacity`;
- `StatusIsFinal`: `Spec => NotFoundIsFinal`, an action property.

The assumptions are in `OperationStore`: a request is not a query
(`ClientsAssumption`), each of them has a key (`KeyAssumption`), the queue's
capacity is a number (`QueueAssumption`), the limits are numbers and the keys are
finitely many (`TableAssumption`; only `TableBounded` needs this one, to count).

None of the properties is inductive but the types. The argument is about who may
still act on a reservation. `RowOK` ties a row to the filesystem: only the request
whose lease the row carries can have mutated under its key, not before the row
says `CommitStarted`, and a verdict agrees with what happened. `TaskOK` ties a task
to its row: one that is going to mark or commit holds the reservation it relies
on, and one that mutated was detached before, so its client cannot be told
"rejected". Both must survive messages in flight. `CommandOK` says what a queued
command implies about the task that sent it, `Unique` that a task has at most one
command of a kind in the queue, `EnvelopeOK` the same of a begin reply the actor
has in hand, and `ControlsOK` that only a finished task's lease is ever on its
way to be abandoned: this is why an abandon that overtakes commands is harmless.
`IndInv` in `OperationRules` is their conjunction. There `HandlerStep` reduces a
step of one handler to its own part of the invariant; `QuietStep` and
`ReceivedStep` do so for the actor, `Kept` being
what a transaction owes the other requests; each action then has one lemma.

`WithinCapacity` rests on `TableGrows`: of all steps only the reservation in
`RecvBegin` adds a record, in the transaction that counted. `NotFoundIsFinal`
needs `FinalOK` on top of `IndInv`: when a status finds no record, every request
the query asks about is past its mutation, because a detached task that has yet
to commit would hold the row. TLC checked `IndInv` and `FinalOK` on the instances
of `operation_retry` and `operation_resolved`, and on one with two keys and a
query, before they were proved.

`UploadProofs` proves, for any owners, inodes, files of other programs, length of
the upload, smallest resumable size, bounds, and for filesystems that reuse inode
numbers and those that do not:

- `SessionsTyped`: `Spec => []TypeOK`;
- `PublishesWhole`: `Spec => []PublishedWhole`;
- `NotStartedHonest`: `Spec => []NotStartedUntouched`.

The assumption is `UploadAssumption` in `UploadRows`: the length is a number, an
inode of an upload is not a file of another program, and the two absent values
are neither. (`BoundsAssumption` in `UploadState` is not used.)

`PublishedWhole` speaks of the target name alone, now and as a crash would bring
it back; what can break it is a request that still has open, or a session that
still names, the file that was published. `NamesOK` says that no file is both
stage and target, in memory or on disk. `StageOK` says of each place of a request
what it knows of the file it has open: that no target name holds it and the stage
name holds it or nothing (`Owning`), that it has its full length from the length
check on (`Whole`), and that this length is synced from `SyncStagedFile` to the
rename. So the rename publishes a file that is whole on disk, and a later
truncation, write or rollback meets a different file. A crash between any two steps
leaves one of two sets of names and cuts files to their synced length, which the
published ones survive.

`NotStartedUntouched` needs `BoundaryOK`: which places are behind
`begin_upload_mutation`, that a request before it has changed nothing, and that a
handler which answers "not started" has cancelled the request, so that it never
gets behind it although its task goes on running. `RequestOK` gives each place the
fields it needs. `IndInv` is the conjunction; TLC checked it with two owners, two
inodes, two requests and two mishaps, with and without reuse of inode numbers,
before it was proved. `Goes` and `EndsQuietly` reduce a step to its own place,
`Reads`, `Writes`, `Records` and `Removes` to what it does to files, table and names;
each action then has one lemma.

`UploadGuarantees` proves what the owners of sessions are promised:

- `HonestStatus`: `Spec => []StatusHonest`;
- `HonestAnswering`: `Spec => HonestAnswers`, an action property;
- `DurableCheckpoints`: `~ReuseInodes => (Spec => []CheckpointDurable)`;
- `StagesKept`: `~ReuseInodes => (Spec => LiveStageKept)`, an action property;
- `ContractKept`: `~ReuseInodes => (Spec => KeepsContract)`, the refinement of
  `UploadContract`.

The first two hold on any filesystem. The last three assume that no inode number
is given to a new file while a row still remembers it, the setting of the run
`uploads`. The assumption is needed: identity checks compare device and inode,
and with `ReuseInodes = TRUE` TLC finds states in which `CheckpointDurable` is
false and steps that break `LiveStageKept` (section 5).

`IndInv` says nothing of what rows promise, so these theorems need a second invariant,
`Promises`, inductive together with `IndInv` and `SyncedOK` (no more of a file is
synced than it has). Its parts:

- `TableOK` and `HistoryOK` tie a row and the place of a request to whether the
  session was published (`landed`). A request between `commit_started` and its
  settlement still finds the row it wrote, and only the settlement that follows the
  rename writes `committed`. A reply, a HEAD or a stored record is then true
  whoever gives it, although store calls may fail after they took effect.
- `CrashOK` says that no power failure takes a committed publication back: the
  files of a committed owner have no stage name left, and the target's name is on
  disk. A crash that brings an older set of names back cannot make `committed`
  a lie.
- `RegistryOK`: an active upload and a cleanup marker exclude each other, every
  step that relies on its entry has it, and the snapshot of a maintenance pass
  never holds a row whose commit has begun.
- `RowsOK`, `HoldsOK` and `SizesOK` (without reuse of inode numbers) tie a row to
  the stage it names: a row's inode that still has the stage name is a file of the
  row's owner, synced as far as the row advertises, under a name that is on disk;
  a request works on the stage of its own row; sync comes before the offset is
  stored, and a resumed request never goes below its row.
- `PurgeOK` is about maintenance, which decides on a snapshot and acts later: at
  `purge` the row is still the expired one of the snapshot, at `remove` no row
  is live. This is what the second match under the marker is for.

TLC checked `Promises` and `SyncedOK` with two owners and two mishaps, with reuse
of inode numbers and without, before they were proved. The refinement goes action
by action: a step leaves the rows and `landed` alone, forgets rows (`ForgetStep`),
saves one (`SavesStep`), abandons, publishes (`RenameStep`), expires or crashes, and
each is a step of `UploadContract` or a stutter. All but expiry need `Promises`,
for example that a save by a resumed request does not lower the offset, or that a
row which is forgotten is not that of a commit under way.

Only model-checked: all liveness (`Progress`, `Resolved`, `OutboxDrains`,
`RequestsAndClaimsEnd`, `Reclaimed`, `LoadsEnd`, `RefreshMadeUp`), which is beyond the
prover; `DiskSpace`, whose invariants are about sums over the uploads and need an
induction over sets; the listing, whose modules use recursive operators.

## 5. Not modelled

- Routing, login sessions, configuration, logging, wording of responses, static
  assets, the SQLite schema, streaming of bodies and downloads: I/O and
  formatting, or without state in common with the rest.
- The paged scan of persisted state paths (`page_conflicts`): uploads ask the
  table in one step. The lease that the scanning request already holds is what
  keeps rows on its own paths from appearing between two pages.
- Shutdown: the order in which tasks are told to stop, and forced shutdown. For
  the parts that are modelled a forced stop is a crash, or a body that breaks.
- Of maintenance, the way of its scan through the tree, its checkpoints, and the
  hand-over of old trash entries to the purge worker.
- Of uploads, the ancestor directories that a PUT may create, and the parsing of
  headers.
- How an upload that waits for a maintenance claim is woken: the end of the claim is
  the guard of its step. The code subscribes to the channel before it looks at the
  marker (`prepare.rs`, 24–26), so no wake-up can fall in between;
  `RequestsAndClaimsEnd` says that there is one to wait for.
- Three faults of uploads, of which runs and proofs say nothing. `ResetStage` has
  removed the stage when it fails; the code can also fail before the unlink
  (`record.rs`, 511–526). A refused body
  (`BodyRefused`) is rolled back without an error of `set_len` or sync. When a fresh
  upload times out and its metadata cannot be read, the code skips the discard
  (`failure.rs`, 247–264) and the model does not.
- Of the page, the second request of a move or rename whose overwrite the user confirms
  (`file_operations.js`, 287–305): it ends in one of the modelled results. The dialog
  after an unknown outcome is not a step, since no refresh follows it.
- The upload manager of the web client. The server is modelled for every sequence
  of PUT, PATCH, HEAD and discard, so no property depends on what it sends.
- Reused inode numbers. Identity checks compare device and inode; if the number of
  a stage that a `Rejected` row outlived is given to a new stage of the same upload
  ID, an expiry pass or a discard removes the new one (`LiveStageKept` fails with
  `ReuseInodes = TRUE`). It takes one upload ID used again within the life of the
  row.
