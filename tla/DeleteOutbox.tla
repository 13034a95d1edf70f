---------------------------- MODULE DeleteOutbox ----------------------------
(***************************************************************************)
(* DELETE of one path and the durable outbox behind it.  A delete task     *)
(* (delete.rs) writes a Prepared job, renames the target to a hidden trash *)
(* name and turns the job Ready; the purge worker (purge.rs) claims Ready  *)
(* jobs and removes the trash entry in slices; the reconciler resolves the *)
(* Prepared jobs that a failed or crashed delete left.  Other writers may  *)
(* replace the target at any time; store transactions and file system      *)
(* calls may fail; the process may crash.                                  *)
(*                                                                         *)
(* An object stands for an inode.  Its version stands for the metadata a   *)
(* revision covers (link count, size, mtime, ctime): a rename of it, the   *)
(* removal of one of its entries and a write by somebody else change it.   *)
(***************************************************************************)
EXTENDS Naturals, FiniteSets

CONSTANTS
    Deletes,        \* DELETE requests of the path; each draws one trash name
    Objects,        \* inodes that may appear at the path
    First,          \* the object at the path initially
    Entries,        \* slices it takes to empty each object (0: a file)
    None,
    Copies,         \* copies of one job the purge worker may hold
    Settings,       \* [lossy, capacity, active]: whether a failed store call may
                    \* have committed, the jobs the outbox may hold (4096), and
                    \* DELETE_PURGE_ACTIVE_CAPACITY (64)
    Intruders,      \* whether others replace trash entries
    MaxFaults,      \* bound on failed store and file system calls
    MaxTouches,     \* bound on writes by others to objects in place
    MaxCrashes      \* bound on crashes

ASSUME NoneOutside == None \notin Objects /\ First \in Objects
ASSUME LeaseNotNone == None \notin {"delete", "reconcile"} \X Deletes
ASSUME EntriesAssumption == Entries \in [Objects -> Nat]

VARIABLES
    target,     \* the object at the path
    trash,      \* the object under each delete's trash name
    held,       \* objects under quarantine names
    destroyed,  \* objects the purge worker removed
    fresh,      \* objects not created yet
    entries,    \* entries left in each object
    version,    \* version of each object
    jobs,       \* the purge_jobs table: delete -> row
    lease,      \* who holds the path lease: a delete or a reconciliation
    pc,         \* where each delete task is
    expected,   \* the revision each delete saw when it was admitted
    committed,  \* deletes whose job became Ready
    recon,      \* where the reconciliation of each job is
    work,       \* the purge worker's copies of each job
    setting,    \* a member of Settings
    faults, touches, crashes

fs == <<target, trash, held, destroyed, fresh, entries, version>>
handler == <<pc, expected>>
vars == <<fs, jobs, lease, handler, committed, recon, work, setting, faults, touches, crashes>>

NoJob == [state |-> "Absent", source |-> None, revision |-> None]
NoWork == [at |-> "none", pin |-> None, seen |-> None]
Revision(o) == <<o, version[o]>>
Places == {"none", "claimed", "open", "verified", "isolated", "finish", "quarantined",
           "defer", "retained"}

Init ==
    /\ target = First
    /\ trash = [d \in Deletes |-> None]
    /\ held = {}
    /\ destroyed = {}
    /\ fresh = Objects \ {First}
    /\ entries = Entries
    /\ version = [o \in Objects |-> 0]
    /\ jobs = [d \in Deletes |-> NoJob]
    /\ lease = None
    /\ pc = [d \in Deletes |-> "idle"]
    /\ expected = [d \in Deletes |-> <<None, 0>>]
    /\ committed = {}
    /\ recon = [d \in Deletes |-> "idle"]
    /\ work = [d \in Deletes |-> [c \in Copies |-> NoWork]]
    /\ setting \in Settings
    /\ faults = 0
    /\ touches = 0
    /\ crashes = 0

-----------------------------------------------------------------------------
(* The store and the file system. *)

Fault == faults < MaxFaults /\ faults' = faults + 1
NoFault == UNCHANGED faults

(* A store call that writes table, and one that fails: the caller sees an *)
(* error; the transaction may have committed all the same.                *)
Committed(table) == jobs' = table /\ NoFault
Failed(table) == Fault /\ jobs' \in {jobs} \cup (IF setting.lossy THEN {table} ELSE {})

SetJob(d, job) == [jobs EXCEPT ![d] = job]
remove_purge_job(d) == SetJob(d, NoJob)
prepare_purge_job(d) ==
    SetJob(d, [state |-> "Prepared", source |-> expected[d][1], revision |-> None])

(* A transition that leaves the revision to a second statement. *)
mark_purge_job_ready_Split(d, revision) ==
    IF jobs[d].state = "Prepared" THEN SetJob(d, [jobs[d] EXCEPT !.state = "Ready"]) ELSE jobs

mark_purge_job_ready(d, revision) ==
    IF jobs[d].state = "Prepared"
      THEN SetJob(d, [jobs[d] EXCEPT !.state = "Ready", !.revision = revision])
      ELSE jobs
retry_purge_job(d) ==
    IF jobs[d].state = "Claimed" THEN SetJob(d, [jobs[d] EXCEPT !.state = "Ready"]) ELSE jobs
complete_purge_job(d) == IF jobs[d].state = "Claimed" THEN remove_purge_job(d) ELSE jobs

(* Renames change the object's ctime. *)
Renamed(o) == version' = [version EXCEPT ![o] = @ + 1]

(* Whatever is under the trash name goes to a quarantine name. *)
quarantine_internal_trash(d) ==
    IF trash[d] = None
      THEN UNCHANGED fs
      ELSE /\ held' = held \cup {trash[d]}
           /\ Renamed(trash[d])
           /\ trash' = [trash EXCEPT ![d] = None]
           /\ UNCHANGED <<target, destroyed, fresh, entries>>

-----------------------------------------------------------------------------
(* The delete task. *)

has_persisted_path_conflict == \E d \in Deletes : jobs[d].state = "Prepared"

Goto(d, place) == pc' = [pc EXCEPT ![d] = place]
Leave(d) == Goto(d, "done") /\ lease' = None
Background == UNCHANGED <<recon, work, touches, crashes>>

(* The request holds the lease of its path when it looks at the target. *)
Admit(d) ==
    /\ pc[d] = "idle"
    /\ lease = None
    /\ target # None
    /\ IF has_persisted_path_conflict
         THEN Goto(d, "done") /\ UNCHANGED <<lease, expected>>
         ELSE /\ Goto(d, "admitted")
              /\ lease' = <<"delete", d>>
              /\ expected' = [expected EXCEPT ![d] = Revision(target)]
    /\ Background
    /\ UNCHANGED <<fs, jobs, committed, faults>>

Prepare(d) ==
    /\ pc[d] = "admitted"
    /\ \/ /\ Cardinality({e \in Deletes : jobs[e] # NoJob}) < setting.capacity
          /\ Committed(prepare_purge_job(d))
          /\ Goto(d, "prepared")
          /\ UNCHANGED lease
       \/ /\ Cardinality({e \in Deletes : jobs[e] # NoJob}) >= setting.capacity
          /\ Leave(d)
          /\ UNCHANGED <<jobs, faults>>
       \/ Failed(prepare_purge_job(d)) /\ Leave(d)
    /\ Background
    /\ UNCHANGED <<fs, expected, committed>>

(* mark_commit_started, then the checks that precede the rename; either may *)
(* fail, and a check that fails is known not to have moved the target.      *)
CheckTarget(d) ==
    /\ pc[d] = "prepared"
    /\ \/ Fault /\ Leave(d)
       \/ Fault /\ Goto(d, "unmoved") /\ UNCHANGED lease
       \/ /\ NoFault
          /\ Goto(d, IF target # None /\ Revision(target) = expected[d]
                       THEN "checked" ELSE "unmoved")
          /\ UNCHANGED lease
    /\ Background
    /\ UNCHANGED <<fs, jobs, expected, committed>>

(* The rename moves whatever is at the path by now.  What it moved is      *)
(* compared with the object that was checked; if they differ, or the       *)
(* directory cannot be synced, the outcome is unknown and the task leaves. *)
Rename(d) ==
    /\ pc[d] = "checked"
    /\ \/ /\ target = None
          /\ Leave(d)
          /\ NoFault
          /\ UNCHANGED <<fs, expected>>
       \/ /\ target = expected[d][1]
          /\ Fault
          /\ Goto(d, "unmoved")
          /\ UNCHANGED <<fs, lease, expected>>
       \/ /\ target # None
          /\ trash' = [trash EXCEPT ![d] = target]
          /\ Renamed(target)
          /\ target' = None
          /\ UNCHANGED <<held, destroyed, fresh, entries>>
          /\ \/ /\ target = expected[d][1]
                /\ Goto(d, "moved")
                /\ expected' = [expected EXCEPT ![d] = <<target, version'[target]>>]
                /\ NoFault
                /\ UNCHANGED lease
             \/ target # expected[d][1] /\ Leave(d) /\ NoFault /\ UNCHANGED expected
             \/ Fault /\ Leave(d) /\ UNCHANGED expected
    /\ Background
    /\ UNCHANGED <<jobs, committed>>

(* The target had changed, or was not moved: the intent is withdrawn. *)
Withdraw(d) ==
    /\ pc[d] = "unmoved"
    /\ Committed(remove_purge_job(d)) \/ Failed(remove_purge_job(d))
    /\ Leave(d)
    /\ Background
    /\ UNCHANGED <<fs, expected, committed>>

MarkReady(d) ==
    /\ pc[d] = "moved"
    /\ \/ Committed(mark_purge_job_ready(d, expected[d]))
       \/ Failed(mark_purge_job_ready(d, expected[d]))
    /\ committed' = IF jobs'[d].state = "Ready" THEN committed \cup {d} ELSE committed
    /\ Leave(d)
    /\ Background
    /\ UNCHANGED <<fs, expected>>

-----------------------------------------------------------------------------
(* Reconciliation of Prepared jobs: once a second from a snapshot of the   *)
(* table, and by a delete task that left with an error.                    *)

Foreground == UNCHANGED <<handler, committed, touches, crashes>>
Step(d, place) == recon' = [recon EXCEPT ![d] = place]

ReconcilePick(d) ==
    /\ recon[d] = "idle"
    /\ jobs[d].state = "Prepared"
    /\ Step(d, "picked")
    /\ Foreground
    /\ UNCHANGED <<fs, jobs, lease, work, faults>>

(* A reconciler that does not wait for the lease. *)
ReconcileLock_Eager(d) ==
    /\ recon[d] = "picked"
    /\ Step(d, "locked")
    /\ Foreground
    /\ UNCHANGED <<fs, jobs, lease, work, faults>>

ReconcileLock(d) ==
    /\ recon[d] = "picked"
    /\ lease = None
    /\ lease' = <<"reconcile", d>>
    /\ Step(d, "locked")
    /\ Foreground
    /\ UNCHANGED <<fs, jobs, work, faults>>

(* A reconciler that releases the intent and leaves the trash name alone. *)
ReconcileTrash_Leaves(d) ==
    /\ recon[d] = "locked"
    /\ IF jobs[d].state = "Prepared"
         THEN Step(d, "cleared") /\ UNCHANGED lease
         ELSE Step(d, "idle") /\ lease' = None
    /\ Foreground
    /\ UNCHANGED <<fs, jobs, work, faults>>

(* The row is loaded again under the lease.  A Prepared row proves nothing *)
(* about the trash name, so its occupant is kept.                          *)
ReconcileTrash(d) ==
    /\ recon[d] = "locked"
    /\ IF jobs[d].state = "Prepared"
         THEN quarantine_internal_trash(d) /\ Step(d, "cleared") /\ UNCHANGED lease
         ELSE Step(d, "idle") /\ lease' = None /\ UNCHANGED fs
    /\ Foreground
    /\ UNCHANGED <<jobs, work, faults>>

ReconcileRemove(d) ==
    /\ recon[d] = "cleared"
    /\ Committed(remove_purge_job(d)) \/ Failed(remove_purge_job(d))
    /\ Step(d, "idle")
    /\ lease' = None
    /\ Foreground
    /\ UNCHANGED <<fs, work>>

(* A reload or a file system call fails: the next round starts over. *)
ReconcileError(d) ==
    /\ recon[d] \in {"locked", "cleared"}
    /\ Fault
    /\ Step(d, "idle")
    /\ lease' = None
    /\ Foreground
    /\ UNCHANGED <<fs, jobs, work>>

-----------------------------------------------------------------------------
(* The purge worker. *)

Worker == UNCHANGED <<lease, handler, committed, recon, touches, crashes>>
Set(d, c, copy) == work' = [work EXCEPT ![d][c] = copy]
At(d, c, place) == Set(d, c, [NoWork EXCEPT !.at = place])

(* Pending work and retained claims: they share one capacity. *)
Working == {dc \in Deletes \X Copies : work[dc[1]][dc[2]].at # "none"}

(* claim_due_purge_job, while the worker has room. *)
Claim(d, c) ==
    LET claimed == SetJob(d, [jobs[d] EXCEPT !.state = "Claimed"]) IN
    /\ work[d][c].at = "none" /\ Cardinality(Working) < setting.active
    /\ jobs[d].state = "Ready"
    /\ \/ Committed(claimed) /\ At(d, c, "claimed")
       \/ Failed(claimed) /\ UNCHANGED work
    /\ Worker
    /\ UNCHANGED fs

(* An opening that trusts the trash name. *)
open_purge_work_ByName(d, c) ==
    /\ work[d][c].at = "claimed"
    /\ IF trash[d] = None
         THEN At(d, c, "finish")
         ELSE Set(d, c, [at |-> "open", pin |-> trash[d], seen |-> Revision(trash[d])])
    /\ Worker
    /\ UNCHANGED <<fs, jobs, faults>>

(* The entry under the trash name is opened if it has the revision the job *)
(* committed; any other entry is kept under a quarantine name.             *)
open_purge_work(d, c) ==
    /\ work[d][c].at = "claimed"
    /\ \/ /\ trash[d] = None
          /\ At(d, c, "finish")
          /\ NoFault
          /\ UNCHANGED fs
       \/ /\ trash[d] # None
          /\ Revision(trash[d]) = jobs[d].revision
          /\ Set(d, c, [at |-> "open", pin |-> trash[d], seen |-> Revision(trash[d])])
          /\ NoFault
          /\ UNCHANGED fs
       \/ /\ trash[d] # None
          /\ Revision(trash[d]) # jobs[d].revision
          /\ \/ quarantine_internal_trash(d) /\ At(d, c, "quarantined") /\ NoFault
             \/ Fault /\ At(d, c, "retained") /\ UNCHANGED fs
       \/ Fault /\ At(d, c, "defer") /\ UNCHANGED fs
    /\ Worker
    /\ UNCHANGED jobs

(* One slice of an open entry: the pinned object must still be as the      *)
(* previous slice left it.                                                 *)
PurgeEntries(d, c) ==
    LET w == work[d][c] IN
    /\ w.at = "open"
    /\ Revision(w.pin) = w.seen
    /\ entries[w.pin] > 0
    /\ \/ /\ NoFault
          /\ entries' = [entries EXCEPT ![w.pin] = @ - 1]
          /\ version' = [version EXCEPT ![w.pin] = @ + 1]
          /\ Set(d, c, [w EXCEPT !.seen = <<w.pin, version'[w.pin]>>])
          /\ UNCHANGED <<target, trash, held, destroyed, fresh>>
       \/ Fault /\ At(d, c, "defer") /\ UNCHANGED fs
    /\ Worker
    /\ UNCHANGED jobs

(* The final candidate: the trash name must still show the pinned object. *)
VerifyRoot(d, c) ==
    LET w == work[d][c] IN
    /\ w.at = "open"
    /\ Revision(w.pin) = w.seen
    /\ entries[w.pin] = 0
    /\ trash[d] \in {w.pin, None}
    /\ IF trash[d] = None THEN At(d, c, "finish") ELSE Set(d, c, [w EXCEPT !.at = "verified"])
    /\ Worker
    /\ UNCHANGED <<fs, jobs, faults>>

(* Whatever is under the trash name by now is isolated, and only then      *)
(* compared with the pinned object.                                        *)
isolate_anchored_entry_for_unlink(d, c) ==
    LET w == work[d][c] IN
    /\ w.at = "verified"
    /\ quarantine_internal_trash(d)
    /\ CASE trash[d] = None -> At(d, c, "finish")
         [] trash[d] = w.pin -> Set(d, c, [w EXCEPT !.at = "isolated"])
         [] OTHER -> At(d, c, "quarantined")
    /\ Worker
    /\ UNCHANGED <<jobs, faults>>

(* The isolated object is unlinked; if that fails it stays in quarantine,  *)
(* and if only the directory cannot be synced the job is tried again.      *)
UnlinkIsolated(d, c) ==
    LET w == work[d][c] IN
    /\ w.at = "isolated"
    /\ \/ /\ held' = held \ {w.pin}
          /\ destroyed' = destroyed \cup {w.pin}
          /\ (NoFault /\ At(d, c, "finish")) \/ (Fault /\ At(d, c, "defer"))
          /\ UNCHANGED <<target, trash, fresh, entries, version>>
       \/ Fault /\ At(d, c, "quarantined") /\ UNCHANGED fs
    /\ Worker
    /\ UNCHANGED jobs

(* The pinned object changed, or another object took its name. *)
quarantine_claimed_purge_job(d, c) ==
    LET w == work[d][c] IN
    /\ w.at = "open"
    /\ \/ Revision(w.pin) # w.seen
       \/ entries[w.pin] = 0 /\ trash[d] \notin {w.pin, None}
    /\ \/ quarantine_internal_trash(d) /\ At(d, c, "quarantined") /\ NoFault
       \/ Fault /\ At(d, c, "retained") /\ UNCHANGED fs
    /\ Worker
    /\ UNCHANGED jobs

(* complete_purge_job after the entry is gone. *)
Finish(d, c) ==
    /\ work[d][c].at \in {"finish", "quarantined"}
    /\ \/ /\ Committed(complete_purge_job(d))
          /\ At(d, c, IF work[d][c].at = "quarantined" /\ jobs[d].state # "Claimed"
                        THEN "retained" ELSE "none")
       \/ Failed(complete_purge_job(d)) /\ At(d, c, "retained")
    /\ Worker
    /\ UNCHANGED fs

(* An ordinary I/O error gives the job back to the table. *)
defer_purge_job(d, c) ==
    /\ work[d][c].at = "defer"
    /\ \/ /\ Committed(retry_purge_job(d))
          /\ At(d, c, IF jobs[d].state = "Claimed" THEN "none" ELSE "retained")
       \/ Failed(retry_purge_job(d)) /\ At(d, c, "retained")
    /\ Worker
    /\ UNCHANGED fs

(* A claim whose next state could not be stored is kept in the process and *)
(* goes on only if its row, loaded again, is still Claimed.                *)
retry_claimed_purge_work(d, c) ==
    /\ work[d][c].at = "retained"
    /\ \/ NoFault /\ At(d, c, IF jobs[d].state = "Claimed" THEN "claimed" ELSE "none")
       \/ Fault /\ UNCHANGED work
    /\ Worker
    /\ UNCHANGED <<fs, jobs>>

-----------------------------------------------------------------------------
(* Others, and crashes. *)

Others == UNCHANGED <<jobs, lease, handler, committed, recon, work, faults, crashes>>

(* A new object is created at the path, or renamed over what is there. *)
Replace(o) ==
    /\ o \in fresh
    /\ fresh' = fresh \ {o}
    /\ \/ target' = o /\ UNCHANGED trash
       \/ /\ Intruders
          /\ \E d \in Deletes :
                trash[d] # None /\ trash' = [trash EXCEPT ![d] = o]
          /\ UNCHANGED target
    /\ UNCHANGED <<held, destroyed, entries, version, touches>>
    /\ Others

(* The object at the path is removed or renamed elsewhere. *)
Remove ==
    /\ target # None
    /\ touches < MaxTouches
    /\ touches' = touches + 1
    /\ target' = None
    /\ UNCHANGED <<trash, held, destroyed, fresh, entries, version>>
    /\ Others

(* An object at the path or in the trash is written to. *)
Touch(o) ==
    /\ o = target \/ \E d \in Deletes : o = trash[d]
    /\ touches < MaxTouches
    /\ touches' = touches + 1
    /\ version' = [version EXCEPT ![o] = @ + 1]
    /\ UNCHANGED <<target, trash, held, destroyed, fresh, entries>>
    /\ Others

(* A recovery that forgets the claims of the process that ended. *)
recover_purge_jobs_Forgets == jobs

(* recover_database returns every claimed job to the queue. *)
recover_purge_jobs ==
    [d \in Deletes |-> IF jobs[d].state = "Claimed"
                         THEN [jobs[d] EXCEPT !.state = "Ready"] ELSE jobs[d]]

(* The process ends and starts again on the same files and table. *)
Crash ==
    /\ crashes < MaxCrashes
    /\ crashes' = crashes + 1
    /\ jobs' = recover_purge_jobs
    /\ lease' = None
    /\ pc' = [d \in Deletes |-> IF pc[d] = "idle" THEN "idle" ELSE "done"]
    /\ recon' = [d \in Deletes |-> "idle"]
    /\ work' = [d \in Deletes |-> [c \in Copies |-> NoWork]]
    /\ UNCHANGED <<fs, expected, committed, faults, touches>>

-----------------------------------------------------------------------------
Delete(d) ==
    Admit(d) \/ Prepare(d) \/ CheckTarget(d) \/ Rename(d) \/ Withdraw(d) \/ MarkReady(d)
Reconcile(d) ==
    \/ ReconcilePick(d) \/ ReconcileLock(d) \/ ReconcileTrash(d) \/ ReconcileRemove(d)
    \/ ReconcileError(d)
Purge(d, c) ==
    \/ Claim(d, c) \/ open_purge_work(d, c) \/ PurgeEntries(d, c) \/ VerifyRoot(d, c)
    \/ isolate_anchored_entry_for_unlink(d, c) \/ UnlinkIsolated(d, c)
    \/ quarantine_claimed_purge_job(d, c) \/ Finish(d, c) \/ defer_purge_job(d, c)
    \/ retry_claimed_purge_work(d, c)
Server == \E d \in Deletes : Delete(d) \/ Reconcile(d) \/ \E c \in Copies : Purge(d, c)

(* Every task is idle. *)
Finished ==
    /\ \A d \in Deletes :
         /\ pc[d] = "done" \/ (pc[d] = "idle" /\ target = None)
         /\ recon[d] = "idle"
         /\ \A c \in Copies : work[d][c] = NoWork
    /\ UNCHANGED vars

Next ==
    /\ \/ \E d \in Deletes : Delete(d) \/ Reconcile(d) \/ \E c \in Copies : Purge(d, c)
       \/ \E o \in Objects : Replace(o) \/ Touch(o)
       \/ Remove
       \/ Crash
       \/ Finished
    /\ UNCHANGED setting

Spec == Init /\ [][Next]_vars
(* The three tasks run for as long as the process does.  With lost replies *)
(* no fairness is assumed: a claim whose reply is lost waits for a restart. *)
FairSpec == Spec /\ WF_vars(~setting.lossy /\ Server /\ UNCHANGED setting)

-----------------------------------------------------------------------------
Occupant == Objects \cup {None}
Revisions == Objects \X Nat

(* Every variable has its type; a row has a committed revision exactly when *)
(* it is Ready or Claimed, as the CHECK constraints of purge_jobs require.  *)
TypeOK ==
    /\ target \in Occupant
    /\ trash \in [Deletes -> Occupant]
    /\ held \subseteq Objects
    /\ destroyed \subseteq Objects
    /\ fresh \subseteq Objects
    /\ entries \in [Objects -> Nat]
    /\ version \in [Objects -> Nat]
    /\ \A d \in Deletes :
         \/ jobs[d] = NoJob
         \/ /\ jobs[d].state = "Prepared"
            /\ jobs[d].source \in Objects
            /\ jobs[d].revision = None
         \/ /\ jobs[d].state \in {"Ready", "Claimed"}
            /\ jobs[d].source \in Objects
            /\ jobs[d].revision \in Revisions
    /\ lease \in {None} \cup ({"delete", "reconcile"} \X Deletes)
    /\ pc \in [Deletes -> {"idle", "admitted", "prepared", "checked", "unmoved", "moved",
                           "done"}]
    /\ \A d \in Deletes : expected[d] \in Occupant \X Nat
    /\ committed \subseteq Deletes
    /\ recon \in [Deletes -> {"idle", "picked", "locked", "cleared"}]
    /\ \A d \in Deletes, c \in Copies :
         /\ work[d][c].at \in Places
         /\ work[d][c].pin \in Occupant
         /\ work[d][c].seen \in Revisions \cup {None}

(* The purge worker only removes an object that a client asked to delete,   *)
(* that the checked rename moved and whose job became Ready: never one that *)
(* another writer put at the path or under the trash name in between, nor   *)
(* one whose rename had an unknown outcome (purge_slice, open_purge_work).  *)
OnlyDeletedDestroyed ==
    \A o \in destroyed : \E d \in committed : expected[d][1] = o

(* No object is ever left under a trash name without a row in the outbox    *)
(* that leads to it: a crash or a failure at any point of DELETE, of the    *)
(* reconciliation or of the purge leaves nothing for the orphan scan.       *)
TrashAccounted ==
    \A d \in Deletes : trash[d] # None => jobs[d] # NoJob

(* While a delete task is between its Prepared write and its last store     *)
(* call nobody removes or advances its row: the "durable purge intent       *)
(* disappeared" errors of delete.rs cannot happen, and the object it moved  *)
(* is still under the trash name when the row becomes Ready.                *)
IntentKept ==
    \A d \in Deletes :
        /\ pc[d] \in {"prepared", "checked", "unmoved", "moved"} => jobs[d].state = "Prepared"
        /\ pc[d] = "moved" => trash[d] # None

(* Every job of the outbox is resolved: a Prepared intent that lost its     *)
(* task, a claim that could not be stored and a claim of a process that     *)
(* ended all leave the table in the end, as long as a failed store call has *)
(* not committed.                                                           *)
OutboxDrains ==
    \A d \in Deletes : (jobs[d] # NoJob /\ ~setting.lossy) ~> (jobs[d] = NoJob)

(* A job whose trash nobody else touches is released only when its object   *)
(* is purged: after a restart a claimed job is purged again from the root   *)
(* of its trash (docs/project-workflow.md).                                 *)
ReleasedWhenPurged ==
    \A d \in committed : jobs[d] = NoJob => expected[d][1] \in destroyed

=============================================================================
