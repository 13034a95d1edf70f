------------------------- MODULE DeleteOutboxProofs -------------------------
(***************************************************************************)
(* The inductive invariant of the delete outbox, what the steps of a task  *)
(* and of a copy of a job must keep for all of it to be kept, and that the *)
(* steps of delete tasks, of reconciliations, of the worker, of other      *)
(* writers and a crash keep it.  The safety of the outbox follows: for any *)
(* number of deletes, objects, copies of a job, faults, writes, crashes.   *)
(***************************************************************************)
EXTENDS DeleteOutbox, TLAPS

Row == [state : {"Absent", "Prepared", "Ready", "Claimed"}, source : Occupant,
        revision : Revisions \cup {None}]
Copy == [at : Places, pin : Occupant, seen : Revisions \cup {None}]
Tasks == {"idle", "admitted", "prepared", "checked", "unmoved", "moved", "done"}

(* The variables and their domains, some of which TypeOK leaves open. *)
FileTypes ==
    /\ target \in Occupant
    /\ trash \in [Deletes -> Occupant]
    /\ held \subseteq Objects
    /\ destroyed \subseteq Objects
    /\ fresh \subseteq Objects
    /\ entries \in [Objects -> Nat]
    /\ version \in [Objects -> Nat]
TaskTypes ==
    /\ lease \in {None} \cup ({"delete", "reconcile"} \X Deletes)
    /\ pc \in [Deletes -> Tasks]
    /\ expected \in [Deletes -> Occupant \X Nat]
    /\ committed \subseteq Deletes
    /\ recon \in [Deletes -> {"idle", "picked", "locked", "cleared"}]
RowTypes == jobs \in [Deletes -> Row]
CopyTypes == work \in [Deletes -> [Copies -> Copy]]

(* A row is absent, an intent, or a job with a committed revision. *)
RowKind(row) ==
    \/ row = NoJob
    \/ row.state = "Prepared" /\ row.source \in Objects /\ row.revision = None
    \/ row.state \in {"Ready", "Claimed"} /\ row.source \in Objects /\ row.revision \in Revisions

(* A task holds the lease from its admission to its last store call, and a *)
(* reconciliation from its second look at the row, so neither meets the    *)
(* other's half-done work.  When a row may be released, nothing is left    *)
(* under its trash name.                                                   *)
Intent(d) ==
    /\ RowKind(jobs[d])
    /\ pc[d] \in Tasks \ {"idle", "done"} => lease = <<"delete", d>> /\ expected[d][1] \in Objects
    /\ recon[d] \in {"locked", "cleared"} => lease = <<"reconcile", d>>
    /\ pc[d] \in {"idle", "admitted"} => jobs[d] = NoJob
    /\ pc[d] \in {"prepared", "checked", "unmoved", "moved"} => jobs[d].state = "Prepared"
    /\ pc[d] \in Tasks \ {"moved", "done"} => trash[d] = None
    /\ pc[d] = "moved" => trash[d] # None
    /\ recon[d] = "cleared" => trash[d] = None
    /\ trash[d] # None => jobs[d] # NoJob

(* A committed job keeps the revision its task saw after the rename. *)
Recorded(d) ==
    /\ d \in committed => pc[d] = "done" /\ jobs[d].state # "Prepared"
    /\ jobs[d].state \in {"Ready", "Claimed"} => d \in committed /\ jobs[d].revision = expected[d]

(* Only committed jobs have copies, and a copy that has opened the trash   *)
(* entry has pinned the object that was deleted.                           *)
Pinned(d, c) ==
    /\ work[d][c].at # "none" => d \in committed
    /\ work[d][c].at \in {"isolated", "finish", "quarantined"} => trash[d] = None
    /\ work[d][c].at \in {"open", "verified", "isolated"}
         => work[d][c].pin \in Objects /\ work[d][c].pin = expected[d][1]

Types == FileTypes /\ TaskTypes /\ RowTypes /\ CopyTypes
Rules ==
    /\ \A d \in Deletes : Intent(d) /\ Recorded(d)
    /\ \A d \in Deletes, c \in Copies : Pinned(d, c)
    /\ OnlyDeletedDestroyed
IndInv == Types /\ Rules

-----------------------------------------------------------------------------
(* What a step does to one row, one copy of a job, or one trash name. *)
JobStep(d, S) ==
    /\ jobs' \in [Deletes -> Row]
    /\ jobs'[d] \in S
    /\ \A e \in Deletes : e # d => jobs'[e] = jobs[e]
Placed(d, c) ==
    /\ work' \in [Deletes -> [Copies -> Copy]]
    /\ \A e \in Deletes, f \in Copies : e # d \/ f # c => work'[e][f] = work[e][f]
Emptied(d) ==
    /\ FileTypes'
    /\ trash'[d] = None
    /\ \A e \in Deletes : e # d => trash'[e] = trash[e]
    /\ UNCHANGED <<target, destroyed>>

(* What all the steps of a delete task or of a reconciliation have in       *)
(* common: they leave the other deletes and the copies of the jobs alone.   *)
TaskStep(d) ==
    /\ FileTypes' /\ TaskTypes' /\ RowTypes'
    /\ UNCHANGED <<work, destroyed>>
    /\ \A e \in Deletes : e # d =>
         /\ jobs'[e] = jobs[e] /\ pc'[e] = pc[e] /\ expected'[e] = expected[e]
         /\ recon'[e] = recon[e] /\ trash'[e] = trash[e]
         /\ e \in committed' <=> e \in committed
    /\ lease' = lease \/ lease = None \/ lease \in {<<"delete", d>>, <<"reconcile", d>>}
    /\ d \in committed => /\ d \in committed' /\ expected'[d] = expected[d]
                          /\ trash'[d] \in {trash[d], None}

(* The steps of the purge worker on one copy of a job leave the tasks and   *)
(* the other copies alone.                                                  *)
WorkStep(d, c) ==
    /\ FileTypes' /\ RowTypes'
    /\ UNCHANGED <<lease, pc, expected, committed, recon>>
    /\ Placed(d, c) /\ Pinned(d, c)'
    /\ \A e \in Deletes : e # d => jobs'[e] = jobs[e] /\ trash'[e] = trash[e]
    /\ trash'[d] \in {trash[d], None}
    /\ d \in committed
    /\ OnlyDeletedDestroyed'

(* The rows that the store calls write are rows. *)
LEMMA NoJobRow == NoJob \in Row
BY DEF Row, NoJob, Occupant

(* The intent of a delete is a row. *)
LEMMA PreparedRow ==
    \A o \in Objects : [state |-> "Prepared", source |-> o, revision |-> None] \in Row
BY DEF Row, Occupant

(* A row stays one when its state, or its state and revision, are set. *)
LEMMA RowsTyped ==
    /\ \A row \in Row : /\ [row EXCEPT !.state = "Claimed"] \in Row
                        /\ [row EXCEPT !.state = "Ready"] \in Row
    /\ \A row \in Row, r \in Revisions : [row EXCEPT !.state = "Ready", !.revision = r] \in Row
BY Zenon DEF Row

(* A job that is Ready or Claimed names its object and its revision. *)
LEMMA ReadyRow ==
    ASSUME NEW row, row.state \in {"Ready", "Claimed"}
    PROVE  row # NoJob /\ (RowKind(row) <=> row.source \in Objects /\ row.revision \in Revisions)
<1>1. NoJob.state = "Absent"
  BY DEF NoJob
<1> QED BY <1>1 DEF RowKind

(* Writing a row changes that row. *)
LEMMA RowSet ==
    ASSUME RowTypes, NEW d \in Deletes, NEW row \in Row, jobs' = SetJob(d, row)
    PROVE  JobStep(d, {row})
BY DEF RowTypes, SetJob, JobStep

(* A store call writes its table or leaves the table alone. *)
LEMMA StoreCall ==
    ASSUME NEW table, Committed(table) \/ Failed(table)
    PROVE  jobs' = table \/ jobs' = jobs
BY DEF Committed, Failed

(* A store call on one row, committed or failed, changes at most that row. *)
LEMMA RowCall ==
    ASSUME RowTypes, NEW d \in Deletes, NEW row \in Row,
           Committed(SetJob(d, row)) \/ Failed(SetJob(d, row))
    PROVE  JobStep(d, {jobs[d], row})
<1>1. CASE jobs' = SetJob(d, row)
  BY <1>1, RowSet DEF JobStep
<1>2. CASE jobs' = jobs
  BY <1>2 DEF JobStep, RowTypes
<1> QED BY <1>1, <1>2, StoreCall

(* Setting a copy changes that copy. *)
LEMMA CopySet ==
    ASSUME CopyTypes, NEW d \in Deletes, NEW c \in Copies, NEW copy \in Copy, Set(d, c, copy)
    PROVE  Placed(d, c) /\ work'[d][c] = copy
BY DEF CopyTypes, Set, Placed

(* A copy put at a place that pins nothing is there. *)
LEMMA CopyAt ==
    ASSUME CopyTypes, NEW d \in Deletes, NEW c \in Copies, NEW place \in Places, At(d, c, place)
    PROVE  Placed(d, c) /\ work'[d][c].at = place
<1>1. [NoWork EXCEPT !.at = place] \in Copy
  BY DEF NoWork, Copy, Occupant
<1>2. Set(d, c, [NoWork EXCEPT !.at = place])
  BY DEF At
<1> QED BY <1>1, <1>2, CopySet DEF NoWork

(* A copy that is not open anywhere, put where it may be. *)
LEMMA PinnedAt ==
    ASSUME CopyTypes, NEW d \in Deletes, NEW c \in Copies,
           NEW place \in {"none", "claimed", "finish", "quarantined", "defer", "retained"},
           At(d, c, place), UNCHANGED committed,
           place # "none" => d \in committed,
           place \in {"finish", "quarantined"} => trash'[d] = None
    PROVE  Placed(d, c) /\ Pinned(d, c)'
<1>1. Placed(d, c) /\ work'[d][c].at = place
  BY CopyAt DEF Places
<1> QED BY <1>1 DEF Pinned

(* A copy that has opened, or goes on with, the object that was deleted. *)
LEMMA PinnedSet ==
    ASSUME CopyTypes, NEW d \in Deletes, NEW c \in Copies, NEW copy \in Copy,
           Set(d, c, copy), UNCHANGED <<committed, expected>>, d \in committed,
           copy.pin \in Objects, copy.pin = expected[d][1],
           copy.at \in {"isolated", "finish", "quarantined"} => trash'[d] = None
    PROVE  Placed(d, c) /\ Pinned(d, c)'
<1>1. Placed(d, c) /\ work'[d][c] = copy
  BY CopySet
<1> QED BY <1>1 DEF Pinned

(* The other copies keep their place while trash names only become free. *)
LEMMA PinnedKept ==
    ASSUME Rules, NEW d \in Deletes, NEW c \in Copies, Placed(d, c), Pinned(d, c)',
           UNCHANGED <<committed, expected>>,
           \A e \in Deletes : trash'[e] \in {trash[e], None}
    PROVE  \A e \in Deletes, f \in Copies : Pinned(e, f)'
BY DEF Rules, Placed, Pinned

(* quarantine_internal_trash leaves nothing under the trash name. *)
LEMMA TrashEmptied ==
    ASSUME FileTypes, NEW d \in Deletes, quarantine_internal_trash(d)
    PROVE  Emptied(d)
<1>1. CASE trash[d] = None
  BY <1>1 DEF quarantine_internal_trash, Emptied, FileTypes, fs
<1>2. CASE trash[d] # None
  <2>1. trash[d] \in Objects
    BY <1>2 DEF FileTypes, Occupant
  <2>2. version' \in [Objects -> Nat]
    BY <1>2, <2>1 DEF quarantine_internal_trash, Renamed, FileTypes
  <2> QED BY <1>2, <2>1, <2>2 DEF quarantine_internal_trash, Emptied, FileTypes, Occupant
<1> QED BY <1>1, <1>2

(* The conjuncts of the invariant, by name. *)
LEMMA Parts ==
    ASSUME IndInv
    PROVE  /\ FileTypes /\ TaskTypes /\ RowTypes /\ CopyTypes /\ Rules /\ OnlyDeletedDestroyed
           /\ \A d \in Deletes : Intent(d) /\ Recorded(d)
           /\ \A d \in Deletes, c \in Copies : Pinned(d, c)
BY DEF IndInv, Types, Rules

(* A delete or a reconciliation that keeps its own part of the invariant    *)
(* keeps all of it.                                                         *)
LEMMA TaskKeeps ==
    ASSUME IndInv, NEW d \in Deletes, TaskStep(d), Intent(d)', Recorded(d)'
    PROVE  IndInv'
<1>1. Types'
  BY Parts DEF TaskStep, Types, CopyTypes
<1>2. ASSUME NEW e \in Deletes, e # d PROVE Intent(e)'
  <2>1. Intent(e)
    BY Parts
  <2>2. /\ jobs'[e] = jobs[e] /\ pc'[e] = pc[e] /\ expected'[e] = expected[e]
        /\ recon'[e] = recon[e] /\ trash'[e] = trash[e]
    BY <1>2 DEF TaskStep
  <2>3. lease \in {<<"delete", e>>, <<"reconcile", e>>} => lease' = lease
    BY <1>2, LeaseNotNone DEF TaskStep
  <2> QED BY <2>1, <2>2, <2>3 DEF Intent
<1>3. ASSUME NEW e \in Deletes, e # d PROVE Recorded(e)'
  BY <1>3, Parts DEF TaskStep, Recorded
<1>4. ASSUME NEW e \in Deletes, NEW f \in Copies PROVE Pinned(e, f)'
  <2>1. Pinned(e, f) /\ work' = work
    BY Parts DEF TaskStep
  <2>2. e \in committed => /\ e \in committed' /\ expected'[e] = expected[e]
                           /\ trash'[e] \in {trash[e], None}
    BY DEF TaskStep
  <2> QED BY <2>1, <2>2 DEF Pinned
<1>5. OnlyDeletedDestroyed'
  <2>1. \A e \in committed : e \in committed' /\ expected'[e] = expected[e]
    BY Parts DEF TaskStep, TaskTypes
  <2> QED BY <2>1, Parts DEF TaskStep, OnlyDeletedDestroyed
<1>6. \A e \in Deletes : Intent(e)' /\ Recorded(e)'
  BY <1>2, <1>3
<1> QED BY <1>1, <1>4, <1>5, <1>6 DEF IndInv, Rules

(* A copy that leaves the row of its job as it must be keeps the invariant. *)
LEMMA WorkKeeps ==
    ASSUME IndInv, NEW d \in Deletes, NEW c \in Copies, WorkStep(d, c),
           RowKind(jobs'[d]), Recorded(d)', trash'[d] # None => jobs'[d] # NoJob
    PROVE  IndInv'
<1>1. Types'
  <2>1. TaskTypes'
    BY Parts DEF WorkStep, TaskTypes
  <2>2. CopyTypes'
    BY DEF WorkStep, Placed, CopyTypes
  <2> QED BY <2>1, <2>2 DEF WorkStep, Types
<1>2. ASSUME NEW e \in Deletes, e # d PROVE Intent(e)' /\ Recorded(e)'
  <2>1. Intent(e) /\ Recorded(e)
    BY Parts
  <2>2. jobs'[e] = jobs[e] /\ trash'[e] = trash[e]
    BY <1>2 DEF WorkStep
  <2>3. UNCHANGED <<lease, pc, expected, committed, recon>>
    BY DEF WorkStep
  <2> QED BY <2>1, <2>2, <2>3 DEF Intent, Recorded
<1>3. Intent(d)'
  <2>1. pc[d] = "done" /\ Intent(d)
    BY Parts DEF WorkStep, Recorded
  <2>2. UNCHANGED <<lease, pc, expected, recon>> /\ trash'[d] \in {trash[d], None}
    BY DEF WorkStep
  <2> QED BY <2>1, <2>2 DEF Intent
<1>4. \A e \in Deletes, f \in Copies : Pinned(e, f)'
  BY Parts, PinnedKept DEF WorkStep
<1>5. \A e \in Deletes : Intent(e)' /\ Recorded(e)'
  BY <1>2, <1>3
<1> QED BY <1>1, <1>4, <1>5 DEF IndInv, Rules, WorkStep

(* A copy that leaves the table alone keeps the invariant. *)
LEMMA WorkKeepsRow ==
    ASSUME IndInv, NEW d \in Deletes, NEW c \in Copies, WorkStep(d, c), UNCHANGED jobs
    PROVE  IndInv'
<1>1. Intent(d) /\ Recorded(d)
  BY Parts
<1>2. RowKind(jobs'[d]) /\ (trash'[d] # None => jobs'[d] # NoJob)
  BY <1>1 DEF Intent, WorkStep
<1>3. Recorded(d)'
  BY <1>1 DEF Recorded, WorkStep
<1> QED BY <1>2, <1>3, WorkKeeps

-----------------------------------------------------------------------------
(* The delete task. *)

(* An admitted delete finds its trash name free and takes the lease. *)
LEMMA AdmitKeeps == ASSUME IndInv, NEW d \in Deletes, Admit(d) PROVE IndInv'
<1>1. Intent(d) /\ Recorded(d) /\ FileTypes /\ TaskTypes /\ RowTypes
  BY Parts
<1>2. /\ pc[d] = "idle" /\ lease = None /\ target # None
      /\ UNCHANGED <<fs, jobs, committed, recon, work>>
  BY DEF Admit, Background
<1>3. d \notin committed
  BY <1>1, <1>2 DEF Recorded
<1>4. FileTypes' /\ RowTypes'
  BY <1>1, <1>2 DEF FileTypes, RowTypes, fs
<1>5. CASE pc' = [pc EXCEPT ![d] = "done"] /\ UNCHANGED <<lease, expected>>
  <2>1. TaskStep(d)
    BY <1>1, <1>2, <1>3, <1>4, <1>5 DEF TaskStep, TaskTypes, Tasks, fs
  <2>2. Intent(d)' /\ Recorded(d)'
    BY <1>1, <1>2, <1>3, <1>5, LeaseNotNone DEF Intent, Recorded, TaskTypes, Tasks, fs
  <2> QED BY <2>1, <2>2, TaskKeeps
<1>6. CASE /\ pc' = [pc EXCEPT ![d] = "admitted"] /\ lease' = <<"delete", d>>
           /\ expected' = [expected EXCEPT ![d] = Revision(target)]
  <2>1. Revision(target) \in Objects \X Nat
    BY <1>1, <1>2 DEF FileTypes, Occupant, Revision
  <2>2. expected' \in [Deletes -> Occupant \X Nat] /\ expected'[d][1] \in Objects
    BY <1>1, <1>6, <2>1 DEF TaskTypes, Occupant
  <2>3. TaskStep(d)
    BY <1>1, <1>2, <1>3, <1>4, <1>6, <2>2 DEF TaskStep, TaskTypes, Tasks, fs
  <2>4. Intent(d)'
    BY <1>1, <1>2, <1>6, <2>2, LeaseNotNone DEF Intent, TaskTypes, Tasks, fs
  <2>5. Recorded(d)'
    BY <1>1, <1>2, <1>3 DEF Recorded
  <2> QED BY <2>3, <2>4, <2>5, TaskKeeps
<1> QED BY <1>5, <1>6 DEF Admit, Goto

(* The intent is stored, or the task leaves before it has moved anything. *)
LEMMA PrepareKeeps == ASSUME IndInv, NEW d \in Deletes, Prepare(d) PROVE IndInv'
<1> DEFINE row == [state |-> "Prepared", source |-> expected[d][1], revision |-> None]
<1>1. Intent(d) /\ Recorded(d) /\ FileTypes /\ TaskTypes /\ RowTypes
  BY Parts
<1>2. /\ pc[d] = "admitted"
      /\ UNCHANGED <<fs, expected, committed, recon, work>>
  BY DEF Prepare, Background
<1>3. /\ d \notin committed /\ lease = <<"delete", d>> /\ expected[d][1] \in Objects
      /\ jobs[d] = NoJob /\ trash[d] = None
  BY <1>1, <1>2 DEF Recorded, Intent, Tasks
<1>4. row \in Row
  BY <1>3, PreparedRow
<1>5. \/ pc' = [pc EXCEPT ![d] = "prepared"] /\ lease' = lease /\ jobs' = SetJob(d, row)
      \/ /\ pc' = [pc EXCEPT ![d] = "done"] /\ lease' = None
         /\ jobs' = jobs \/ jobs' = SetJob(d, row)
  BY StoreCall DEF Prepare, Goto, Leave, Committed, prepare_purge_job
<1>6. /\ RowTypes' /\ \A e \in Deletes : e # d => jobs'[e] = jobs[e]
      /\ jobs'[d] = NoJob \/ jobs'[d] = row
      /\ pc'[d] = "prepared" => jobs'[d] = row
  <2>1. CASE jobs' = jobs /\ pc' = [pc EXCEPT ![d] = "done"]
    BY <1>1, <1>3, <2>1 DEF RowTypes, TaskTypes
  <2>2. CASE jobs' = SetJob(d, row)
    BY <1>1, <1>4, <2>2, RowSet DEF JobStep, RowTypes
  <2> QED BY <1>5, <2>1, <2>2
<1>7. /\ TaskTypes'
      /\ pc'[d] \in {"prepared", "done"} /\ \A e \in Deletes : e # d => pc'[e] = pc[e]
      /\ pc'[d] = "prepared" => lease' = lease
      /\ lease' = lease \/ lease' = None
  BY <1>1, <1>2, <1>5 DEF TaskTypes, Tasks
<1>8. TaskStep(d)
  BY <1>1, <1>2, <1>3, <1>6, <1>7 DEF TaskStep, FileTypes, fs
<1>9. Recorded(d)'
  BY <1>2, <1>3, <1>6 DEF Recorded, NoJob
<1>10. Intent(d)'
  <2>1. RowKind(jobs'[d])
    BY <1>3, <1>6 DEF RowKind
  <2>2. recon'[d] = recon[d] /\ recon[d] \notin {"locked", "cleared"}
    BY <1>1, <1>2, <1>3 DEF Intent
  <2>3. trash'[d] = None /\ expected' = expected
    BY <1>2, <1>3, Zenon DEF fs
  <2> QED BY <1>3, <1>6, <1>7, <2>1, <2>2, <2>3 DEF Intent
<1> QED BY <1>8, <1>9, <1>10, TaskKeeps

(* The check of the target moves nothing. *)
LEMMA CheckTargetKeeps == ASSUME IndInv, NEW d \in Deletes, CheckTarget(d) PROVE IndInv'
<1>1. Intent(d) /\ Recorded(d) /\ FileTypes /\ TaskTypes /\ RowTypes
  BY Parts
<1>2. /\ pc[d] = "prepared"
      /\ UNCHANGED <<fs, jobs, expected, committed, recon, work>>
  BY DEF CheckTarget, Background
<1>3. \/ pc' = [pc EXCEPT ![d] = "done"] /\ lease' = None
      \/ pc' = [pc EXCEPT ![d] = "unmoved"] /\ lease' = lease
      \/ pc' = [pc EXCEPT ![d] = "checked"] /\ lease' = lease
  BY DEF CheckTarget, Goto, Leave
<1>4. d \notin committed /\ lease = <<"delete", d>>
  BY <1>1, <1>2 DEF Recorded, Intent, Tasks
<1>5. TaskStep(d)
  BY <1>1, <1>2, <1>3, <1>4 DEF TaskStep, FileTypes, TaskTypes, RowTypes, Tasks, fs
<1>6. Intent(d)'
  BY <1>1, <1>2, <1>3, <1>4 DEF Intent, TaskTypes, Tasks, fs
<1>7. Recorded(d)'
  BY <1>1, <1>2, <1>4 DEF Recorded
<1> QED BY <1>5, <1>6, <1>7, TaskKeeps

(* Whatever is at the path goes under a trash name whose row is Prepared. *)
LEMMA RenameKeeps == ASSUME IndInv, NEW d \in Deletes, Rename(d) PROVE IndInv'
<1>1. Intent(d) /\ Recorded(d) /\ FileTypes /\ TaskTypes /\ RowTypes
  BY Parts
<1>2. pc[d] = "checked" /\ UNCHANGED <<jobs, committed, recon, work>>
  BY DEF Rename, Background
<1>3. d \notin committed /\ lease = <<"delete", d>> /\ jobs[d].state = "Prepared"
  BY <1>1, <1>2 DEF Recorded, Intent, Tasks
<1>4. Recorded(d)'
  BY <1>2, <1>3 DEF Recorded
<1>5. jobs[d] # NoJob /\ RowTypes'
  BY <1>1, <1>2, <1>3 DEF NoJob, RowTypes
<1>6. CASE /\ UNCHANGED <<fs, expected>>
           /\ \/ pc' = [pc EXCEPT ![d] = "done"] /\ lease' = None
              \/ pc' = [pc EXCEPT ![d] = "unmoved"] /\ lease' = lease
  <2>1. TaskStep(d)
    BY <1>1, <1>2, <1>3, <1>5, <1>6, Zenon DEF TaskStep, FileTypes, TaskTypes, Tasks, fs
  <2>2. Intent(d)'
    BY <1>1, <1>2, <1>3, <1>6 DEF Intent, TaskTypes, Tasks, fs
  <2> QED BY <1>4, <2>1, <2>2, TaskKeeps
<1>7. CASE /\ target # None
           /\ trash' = [trash EXCEPT ![d] = target]
           /\ Renamed(target)
           /\ target' = None
           /\ UNCHANGED <<held, destroyed, fresh, entries>>
           /\ \/ /\ target = expected[d][1]
                 /\ pc' = [pc EXCEPT ![d] = "moved"] /\ lease' = lease
                 /\ expected' = [expected EXCEPT ![d] = <<target, version'[target]>>]
              \/ pc' = [pc EXCEPT ![d] = "done"] /\ lease' = None /\ UNCHANGED expected
  <2>1. target \in Objects
    BY <1>1, <1>7 DEF FileTypes, Occupant
  <2>2. FileTypes'
    BY <1>1, <1>7, <2>1 DEF FileTypes, Renamed, Occupant
  <2>3. /\ expected' \in [Deletes -> Occupant \X Nat]
        /\ pc'[d] = "moved" => expected'[d][1] \in Objects
        /\ \A e \in Deletes : e # d => expected'[e] = expected[e]
    BY <1>1, <1>7, <2>1, <2>2 DEF FileTypes, TaskTypes, Occupant
  <2>4. TaskStep(d)
    BY <1>1, <1>2, <1>3, <1>5, <1>7, <2>2, <2>3, ZenonT(40) DEF TaskStep, FileTypes, TaskTypes, Tasks
  <2>5. trash'[d] # None /\ recon[d] \notin {"locked", "cleared"} /\ RowKind(jobs[d])
    BY <1>1, <1>3, <1>7, Zenon DEF FileTypes, Intent
  <2>6. pc'[d] = "done" \/ (pc'[d] = "moved" /\ lease' = lease)
    BY <1>1, <1>7, Zenon DEF TaskTypes
  <2>7. Intent(d)'
    BY <1>2, <1>3, <1>5, <2>3, <2>5, <2>6 DEF Intent
  <2> QED BY <1>4, <2>4, <2>7, TaskKeeps
<1> QED BY <1>6, <1>7 DEF Rename, Goto, Leave

(* An intent is withdrawn while its trash name is free. *)
LEMMA WithdrawKeeps == ASSUME IndInv, NEW d \in Deletes, Withdraw(d) PROVE IndInv'
<1>1. Intent(d) /\ Recorded(d) /\ FileTypes /\ TaskTypes /\ RowTypes
  BY Parts
<1>2. /\ pc[d] = "unmoved" /\ pc' = [pc EXCEPT ![d] = "done"] /\ lease' = None
      /\ UNCHANGED <<fs, expected, committed, recon, work>>
  BY DEF Withdraw, Background, Leave, Goto
<1>3. /\ d \notin committed /\ lease = <<"delete", d>> /\ trash[d] = None
      /\ recon[d] \notin {"locked", "cleared"} /\ jobs[d].state = "Prepared"
  BY <1>1, <1>2 DEF Recorded, Intent, Tasks
<1>4. Committed(SetJob(d, NoJob)) \/ Failed(SetJob(d, NoJob))
  BY DEF Withdraw, remove_purge_job
<1>5. JobStep(d, {jobs[d], NoJob})
  BY <1>1, <1>4, RowCall, NoJobRow
<1>6. TaskStep(d)
  BY <1>1, <1>2, <1>3, <1>5, Zenon DEF TaskStep, FileTypes, TaskTypes, RowTypes, JobStep, Tasks, fs
<1>7. Recorded(d)'
  BY <1>1, <1>2, <1>3, <1>5 DEF Recorded, JobStep, NoJob
<1>8. Intent(d)'
  <2>1. RowKind(jobs'[d])
    BY <1>1, <1>5 DEF RowKind, JobStep, Intent
  <2>2. pc'[d] = "done" /\ trash'[d] = None /\ recon'[d] = recon[d]
    BY <1>1, <1>2, <1>3 DEF TaskTypes, fs
  <2> QED BY <1>3, <2>1, <2>2 DEF Intent
<1> QED BY <1>6, <1>7, <1>8, TaskKeeps

(* The row becomes Ready with the revision of what was moved. *)
LEMMA MarkReadyKeeps == ASSUME IndInv, NEW d \in Deletes, MarkReady(d) PROVE IndInv'
<1> DEFINE row == [jobs[d] EXCEPT !.state = "Ready", !.revision = expected[d]]
<1>1. Intent(d) /\ Recorded(d) /\ FileTypes /\ TaskTypes /\ RowTypes
  BY Parts
<1>2. /\ pc[d] = "moved" /\ pc' = [pc EXCEPT ![d] = "done"] /\ lease' = None
      /\ UNCHANGED <<fs, expected, recon, work>>
  BY DEF MarkReady, Background, Leave, Goto
<1>3. /\ d \notin committed /\ lease = <<"delete", d>> /\ expected[d] \in Revisions
      /\ recon[d] \notin {"locked", "cleared"} /\ jobs[d].state = "Prepared"
  BY <1>1, <1>2 DEF Recorded, Intent, Tasks, TaskTypes, Revisions
<1>4. jobs[d] \in Row /\ jobs[d].source \in Objects
  BY <1>1, <1>3 DEF RowTypes, Intent, RowKind, NoJob
<1>5. /\ row \in Row /\ row.state = "Ready" /\ row.source \in Objects
      /\ row.revision = expected[d]
  BY <1>3, <1>4, RowsTyped, Zenon DEF Row
<1>6. Committed(SetJob(d, row)) \/ Failed(SetJob(d, row))
  BY <1>3 DEF MarkReady, mark_purge_job_ready
<1>7. JobStep(d, {jobs[d], row})
  BY <1>1, <1>5, <1>6, RowCall
<1>8. committed' = IF jobs'[d].state = "Ready" THEN committed \cup {d} ELSE committed
  BY DEF MarkReady
<1>9. TaskTypes'
  BY <1>1, <1>2, <1>8 DEF TaskTypes, Tasks
<1>10. TaskStep(d)
  BY <1>1, <1>2, <1>3, <1>7, <1>8, <1>9 DEF TaskStep, FileTypes, TaskTypes, RowTypes, JobStep, fs
<1>11. pc'[d] = "done"
  BY <1>1, <1>2 DEF TaskTypes
<1>12. \/ jobs'[d].state = "Prepared" /\ jobs'[d] = jobs[d]
       \/ /\ jobs'[d].state = "Ready" /\ jobs'[d].source \in Objects
          /\ jobs'[d].revision = expected[d]
  BY <1>3, <1>5, <1>7, Zenon DEF JobStep
<1>13. Recorded(d)'
  BY <1>2, <1>3, <1>8, <1>11, <1>12 DEF Recorded
<1>14. Intent(d)'
  <2>1. RowKind(jobs'[d]) /\ jobs'[d] # NoJob
    BY <1>1, <1>3, <1>12 DEF RowKind, Intent, NoJob
  <2> QED BY <1>2, <1>3, <1>11, <2>1 DEF Intent
<1> QED BY <1>10, <1>13, <1>14, TaskKeeps

-----------------------------------------------------------------------------
(* Reconciliation. *)

(* A snapshot of the table takes nothing. *)
LEMMA ReconcilePickKeeps == ASSUME IndInv, NEW d \in Deletes, ReconcilePick(d) PROVE IndInv'
<1>1. Intent(d) /\ Recorded(d) /\ FileTypes /\ TaskTypes /\ RowTypes
  BY Parts
<1>2. /\ recon' = [recon EXCEPT ![d] = "picked"]
      /\ UNCHANGED <<fs, jobs, lease, work, handler, committed>>
  BY Zenon DEF ReconcilePick, Step, Foreground
<1>3. TaskStep(d)
  BY <1>1, <1>2 DEF TaskStep, FileTypes, TaskTypes, RowTypes, fs, handler
<1>4. Intent(d)' /\ Recorded(d)'
  BY <1>1, <1>2 DEF Intent, Recorded, TaskTypes, fs, handler
<1> QED BY <1>3, <1>4, TaskKeeps

(* The lease is free when a reconciliation takes it. *)
LEMMA ReconcileLockKeeps == ASSUME IndInv, NEW d \in Deletes, ReconcileLock(d) PROVE IndInv'
<1>1. Intent(d) /\ Recorded(d) /\ FileTypes /\ TaskTypes /\ RowTypes
  BY Parts
<1>2. /\ lease = None /\ lease' = <<"reconcile", d>>
      /\ recon' = [recon EXCEPT ![d] = "locked"]
      /\ UNCHANGED <<fs, jobs, work, handler, committed>>
  BY DEF ReconcileLock, Step, Foreground
<1>3. TaskStep(d)
  BY <1>1, <1>2 DEF TaskStep, FileTypes, TaskTypes, RowTypes, fs, handler
<1>4. Intent(d)' /\ Recorded(d)'
  BY <1>1, <1>2, LeaseNotNone DEF Intent, Recorded, TaskTypes, fs, handler
<1> QED BY <1>3, <1>4, TaskKeeps

(* A reconciliation that holds the lease meets no running task of its row. *)
LEMMA ReconcileTrashKeeps == ASSUME IndInv, NEW d \in Deletes, ReconcileTrash(d) PROVE IndInv'
<1>1. Intent(d) /\ Recorded(d) /\ FileTypes /\ TaskTypes /\ RowTypes
  BY Parts
<1>2. recon[d] = "locked" /\ UNCHANGED <<jobs, work, handler, committed>>
  BY DEF ReconcileTrash, Foreground
<1>3. lease = <<"reconcile", d>> /\ pc[d] \in {"idle", "done"}
  BY <1>1, <1>2 DEF Intent, TaskTypes, Tasks
<1>4. CASE Emptied(d) /\ recon' = [recon EXCEPT ![d] = "cleared"] /\ UNCHANGED lease
  <2>1. TaskStep(d)
    BY <1>1, <1>2, <1>3, <1>4 DEF TaskStep, TaskTypes, RowTypes, Emptied, handler
  <2>2. Intent(d)' /\ Recorded(d)'
    BY <1>1, <1>2, <1>3, <1>4, Zenon DEF Intent, Recorded, TaskTypes, Tasks, Emptied, handler
  <2> QED BY <2>1, <2>2, TaskKeeps
<1>5. CASE UNCHANGED fs /\ recon' = [recon EXCEPT ![d] = "idle"] /\ lease' = None
  <2>1. TaskStep(d)
    BY <1>1, <1>2, <1>3, <1>5, Zenon DEF TaskStep, FileTypes, TaskTypes, RowTypes, fs, handler
  <2>2. Intent(d)' /\ Recorded(d)'
    BY <1>1, <1>2, <1>3, <1>5 DEF Intent, Recorded, TaskTypes, Tasks, fs, handler
  <2> QED BY <2>1, <2>2, TaskKeeps
<1> QED BY <1>1, <1>4, <1>5, TrashEmptied DEF ReconcileTrash, Step

(* A reconciled row is released after its trash name is free. *)
LEMMA ReconcileRemoveKeeps == ASSUME IndInv, NEW d \in Deletes, ReconcileRemove(d) PROVE IndInv'
<1>1. Intent(d) /\ Recorded(d) /\ FileTypes /\ TaskTypes /\ RowTypes
  BY Parts
<1>2. /\ recon[d] = "cleared" /\ recon' = [recon EXCEPT ![d] = "idle"] /\ lease' = None
      /\ UNCHANGED <<fs, work, handler, committed>>
  BY Zenon DEF ReconcileRemove, Step, Foreground
<1>3. lease = <<"reconcile", d>> /\ pc[d] \in {"idle", "done"} /\ trash[d] = None
  BY <1>1, <1>2 DEF Intent, TaskTypes, Tasks
<1>4. Committed(SetJob(d, NoJob)) \/ Failed(SetJob(d, NoJob))
  BY DEF ReconcileRemove, remove_purge_job
<1>5. JobStep(d, {jobs[d], NoJob})
  BY <1>1, <1>4, RowCall, NoJobRow
<1>6. TaskStep(d)
  BY <1>1, <1>2, <1>3, <1>5, Zenon DEF TaskStep, FileTypes, TaskTypes, RowTypes, JobStep, fs, handler
<1>7. Recorded(d)'
  BY <1>1, <1>2, <1>5 DEF Recorded, JobStep, NoJob, handler
<1>8. Intent(d)'
  <2>1. RowKind(jobs'[d]) /\ (jobs[d] = NoJob => jobs'[d] = NoJob)
    BY <1>1, <1>5, Zenon DEF RowKind, JobStep, Intent
  <2>2. pc' = pc /\ trash'[d] = None /\ recon'[d] = "idle"
    BY <1>1, <1>2, <1>3 DEF TaskTypes, fs, handler
  <2> QED BY <1>1, <1>3, <2>1, <2>2, Zenon DEF Intent, Tasks
<1> QED BY <1>6, <1>7, <1>8, TaskKeeps

(* A failed reconciliation gives the lease back. *)
LEMMA ReconcileErrorKeeps == ASSUME IndInv, NEW d \in Deletes, ReconcileError(d) PROVE IndInv'
<1>1. Intent(d) /\ Recorded(d) /\ FileTypes /\ TaskTypes /\ RowTypes
  BY Parts
<1>2. /\ recon[d] \in {"locked", "cleared"} /\ recon' = [recon EXCEPT ![d] = "idle"]
      /\ lease' = None /\ UNCHANGED <<fs, jobs, work, handler, committed>>
  BY DEF ReconcileError, Step, Foreground
<1>3. lease = <<"reconcile", d>> /\ pc[d] \in {"idle", "done"}
  BY <1>1, <1>2 DEF Intent, TaskTypes, Tasks
<1>4. TaskStep(d)
  BY <1>1, <1>2, <1>3, Zenon DEF TaskStep, FileTypes, TaskTypes, RowTypes, fs, handler
<1>5. Intent(d)' /\ Recorded(d)'
  BY <1>1, <1>2, <1>3, Zenon DEF Intent, Recorded, TaskTypes, Tasks, fs, handler
<1> QED BY <1>4, <1>5, TaskKeeps

-----------------------------------------------------------------------------
(* The purge worker. *)

(* A claim keeps the revision of its row. *)
LEMMA ClaimKeeps ==
    ASSUME IndInv, NEW d \in Deletes, NEW c \in Copies, Claim(d, c) PROVE IndInv'
<1> DEFINE row == [jobs[d] EXCEPT !.state = "Claimed"]
<1>1. Intent(d) /\ Recorded(d) /\ Pinned(d, c) /\ FileTypes /\ RowTypes /\ CopyTypes
  BY Parts
<1>2. /\ work[d][c].at = "none" /\ jobs[d].state = "Ready"
      /\ UNCHANGED <<fs, lease, handler, committed, recon>>
  BY DEF Claim, Worker
<1>3. Committed(SetJob(d, row)) \/ Failed(SetJob(d, row))
  BY Zenon DEF Claim
<1>4. d \in committed /\ jobs[d] \in Row
  BY <1>1, <1>2 DEF Recorded, RowTypes
<1>5. /\ row \in Row /\ row.state = "Claimed" /\ row.source = jobs[d].source
      /\ row.revision = jobs[d].revision
  BY <1>4, RowsTyped, Zenon DEF Row
<1>6. JobStep(d, {jobs[d], row})
  BY <1>1, <1>3, <1>5, RowCall
<1>7. Placed(d, c) /\ Pinned(d, c)'
  <2>1. CASE At(d, c, "claimed")
    BY <1>1, <1>2, <1>4, <2>1, PinnedAt, Zenon
  <2>2. CASE UNCHANGED work
    BY <1>1, <1>2, <2>2, Zenon DEF CopyTypes, Placed, Pinned
  <2> QED BY <2>1, <2>2, Zenon DEF Claim
<1>8. WorkStep(d, c)
  BY <1>1, <1>2, <1>4, <1>6, <1>7, Parts
     DEF WorkStep, FileTypes, RowTypes, JobStep, OnlyDeletedDestroyed, fs, handler
<1>9. /\ jobs'[d].state \in {"Ready", "Claimed"} /\ jobs'[d].source = jobs[d].source
      /\ jobs'[d].revision = jobs[d].revision
  BY <1>2, <1>5, <1>6, Zenon DEF JobStep
<1>10. RowKind(jobs'[d]) /\ jobs'[d] # NoJob
  <2>1. RowKind(jobs[d])
    BY <1>1 DEF Intent
  <2>2. jobs[d].source \in Objects /\ jobs[d].revision \in Revisions
    <3>1. jobs[d].state \in {"Ready", "Claimed"}
      BY <1>2
    <3> QED BY <2>1, <3>1, ReadyRow
  <2>3. jobs'[d].source \in Objects /\ jobs'[d].revision \in Revisions
    BY <1>9, <2>2, Zenon
  <2> QED BY <1>9, <2>3, ReadyRow
<1>11. Recorded(d)'
  BY <1>1, <1>2, <1>9, Zenon DEF Recorded, handler
<1> QED BY <1>8, <1>10, <1>11, WorkKeeps

(* The opened entry is the object the task moved: its revision is the one  *)
(* the row recorded.                                                       *)
LEMMA OpenKeeps ==
    ASSUME IndInv, NEW d \in Deletes, NEW c \in Copies, open_purge_work(d, c) PROVE IndInv'
<1>1. Intent(d) /\ Recorded(d) /\ Pinned(d, c) /\ FileTypes /\ RowTypes /\ CopyTypes
  BY Parts
<1>2. work[d][c].at = "claimed" /\ UNCHANGED <<jobs, lease, handler, committed, recon>>
  BY Zenon DEF open_purge_work, Worker
<1>3. d \in committed
  BY <1>1, <1>2, Zenon DEF Pinned
<1>4. CASE /\ UNCHANGED fs
           /\ \/ trash[d] = None /\ At(d, c, "finish")
              \/ At(d, c, "retained")
              \/ At(d, c, "defer")
  <2>1. Placed(d, c) /\ Pinned(d, c)'
    BY <1>1, <1>2, <1>3, <1>4, PinnedAt, Zenon DEF fs
  <2> QED BY <1>1, <1>2, <1>3, <1>4, <2>1, Parts, WorkKeepsRow, Zenon
          DEF WorkStep, FileTypes, RowTypes, OnlyDeletedDestroyed, fs, handler
<1>5. CASE /\ trash[d] # None /\ Revision(trash[d]) = jobs[d].revision /\ UNCHANGED fs
           /\ Set(d, c, [at |-> "open", pin |-> trash[d], seen |-> Revision(trash[d])])
  <2>1. trash[d] \in Objects /\ Revision(trash[d]) \in Revisions
    BY <1>1, <1>5, Zenon DEF FileTypes, Occupant, Revision, Revisions
  <2>2. [at |-> "open", pin |-> trash[d], seen |-> Revision(trash[d])] \in Copy
    BY <2>1, Zenon DEF Copy, Places, Occupant
  <2>3. jobs[d].state \in {"Ready", "Claimed"}
    BY <1>1, <1>3, <1>5, Zenon DEF Intent, RowKind, Recorded
  <2>4. trash[d] = expected[d][1]
    BY <1>1, <1>5, <2>3 DEF Recorded, Revision
  <2>5. Placed(d, c) /\ Pinned(d, c)'
    BY <1>1, <1>2, <1>3, <1>5, <2>1, <2>2, <2>4, PinnedSet, Zenon DEF handler
  <2> QED BY <1>1, <1>2, <1>3, <1>5, <2>5, Parts, WorkKeepsRow, Zenon
          DEF WorkStep, FileTypes, RowTypes, OnlyDeletedDestroyed, fs, handler
<1>6. CASE quarantine_internal_trash(d) /\ At(d, c, "quarantined")
  <2>1. Emptied(d)
    BY <1>1, <1>6, TrashEmptied, Zenon
  <2>2. Placed(d, c) /\ Pinned(d, c)'
    BY <1>1, <1>2, <1>3, <1>6, <2>1, PinnedAt, Zenon DEF Emptied
  <2> QED BY <1>1, <1>2, <1>3, <2>1, <2>2, Parts, WorkKeepsRow, Zenon
          DEF WorkStep, RowTypes, OnlyDeletedDestroyed, Emptied, handler
<1> QED BY <1>4, <1>5, <1>6, Zenon DEF open_purge_work

(* A slice changes only the object it has pinned. *)
LEMMA PurgeEntriesKeeps ==
    ASSUME IndInv, NEW d \in Deletes, NEW c \in Copies, PurgeEntries(d, c) PROVE IndInv'
<1> DEFINE w == work[d][c]
<1>1. Pinned(d, c) /\ FileTypes /\ RowTypes /\ CopyTypes
  BY Parts
<1>2. /\ w.at = "open" /\ entries[w.pin] > 0
      /\ UNCHANGED <<jobs, lease, handler, committed, recon>>
  BY DEF PurgeEntries, Worker
<1>3. w \in Copy /\ d \in committed /\ w.pin \in Objects /\ w.pin = expected[d][1]
  BY <1>1, <1>2, Zenon DEF Pinned, CopyTypes
<1>4. CASE At(d, c, "defer") /\ UNCHANGED fs
  <2>1. Placed(d, c) /\ Pinned(d, c)'
    BY <1>1, <1>2, <1>3, <1>4, PinnedAt
  <2> QED BY <1>1, <1>2, <1>3, <1>4, <2>1, Parts, WorkKeepsRow, Zenon
          DEF WorkStep, FileTypes, RowTypes, OnlyDeletedDestroyed, fs, handler
<1>5. CASE /\ entries' = [entries EXCEPT ![w.pin] = @ - 1]
           /\ version' = [version EXCEPT ![w.pin] = @ + 1]
           /\ Set(d, c, [w EXCEPT !.seen = <<w.pin, version'[w.pin]>>])
           /\ UNCHANGED <<target, trash, held, destroyed, fresh>>
  <2>1. FileTypes'
    BY <1>1, <1>2, <1>3, <1>5 DEF FileTypes
  <2>2. <<w.pin, version'[w.pin]>> \in Revisions
    BY <1>3, <2>1 DEF FileTypes, Revisions
  <2>3. /\ [w EXCEPT !.seen = <<w.pin, version'[w.pin]>>] \in Copy
        /\ [w EXCEPT !.seen = <<w.pin, version'[w.pin]>>].pin = w.pin
        /\ [w EXCEPT !.seen = <<w.pin, version'[w.pin]>>].at = "open"
    BY <1>2, <1>3, <2>2 DEF Copy
  <2>4. Placed(d, c) /\ Pinned(d, c)'
    BY <1>1, <1>2, <1>3, <1>5, <2>3, PinnedSet, Zenon DEF handler
  <2> QED BY <1>1, <1>2, <1>3, <1>5, <2>1, <2>4, Parts, WorkKeepsRow
          DEF WorkStep, RowTypes, OnlyDeletedDestroyed, handler
<1> QED BY <1>4, <1>5 DEF PurgeEntries

(* The final candidate is the pinned object. *)
LEMMA VerifyRootKeeps ==
    ASSUME IndInv, NEW d \in Deletes, NEW c \in Copies, VerifyRoot(d, c) PROVE IndInv'
<1> DEFINE w == work[d][c]
<1>1. Pinned(d, c) /\ FileTypes /\ RowTypes /\ CopyTypes
  BY Parts
<1>2. w.at = "open" /\ UNCHANGED <<fs, jobs, lease, handler, committed, recon>>
  BY Zenon DEF VerifyRoot, Worker
<1>3. w \in Copy /\ d \in committed /\ w.pin \in Objects /\ w.pin = expected[d][1]
  BY <1>1, <1>2 DEF Pinned, CopyTypes
<1>4. Placed(d, c) /\ Pinned(d, c)'
  <2>1. CASE trash[d] = None /\ At(d, c, "finish")
    BY <1>1, <1>2, <1>3, <2>1, PinnedAt, Zenon DEF fs
  <2>2. CASE Set(d, c, [w EXCEPT !.at = "verified"])
    <3>1. /\ [w EXCEPT !.at = "verified"] \in Copy
          /\ [w EXCEPT !.at = "verified"].pin = w.pin
          /\ [w EXCEPT !.at = "verified"].at = "verified"
      BY <1>3, Zenon DEF Copy, Places
    <3> QED BY <1>1, <1>2, <1>3, <2>2, <3>1, PinnedSet, Zenon DEF handler
  <2> QED BY <2>1, <2>2, Zenon DEF VerifyRoot
<1> QED BY <1>1, <1>2, <1>3, <1>4, Parts, WorkKeepsRow, Zenon
        DEF WorkStep, FileTypes, RowTypes, OnlyDeletedDestroyed, fs, handler

(* After the isolation the trash name is free. *)
LEMMA IsolateKeeps ==
    ASSUME IndInv, NEW d \in Deletes, NEW c \in Copies, isolate_anchored_entry_for_unlink(d, c)
    PROVE  IndInv'
<1> DEFINE w == work[d][c]
<1>1. Pinned(d, c) /\ FileTypes /\ RowTypes /\ CopyTypes
  BY Parts
<1>2. w.at = "verified" /\ UNCHANGED <<jobs, lease, handler, committed, recon>>
  BY DEF isolate_anchored_entry_for_unlink, Worker
<1>3. w \in Copy /\ d \in committed /\ w.pin \in Objects /\ w.pin = expected[d][1]
  BY <1>1, <1>2, Zenon DEF Pinned, CopyTypes
<1>4. Emptied(d)
  BY <1>1, TrashEmptied DEF isolate_anchored_entry_for_unlink
<1>5. Placed(d, c) /\ Pinned(d, c)'
  <2>1. CASE At(d, c, "finish") \/ At(d, c, "quarantined")
    BY <1>1, <1>2, <1>3, <1>4, <2>1, PinnedAt, Zenon DEF Emptied
  <2>2. CASE Set(d, c, [w EXCEPT !.at = "isolated"])
    <3>1. /\ [w EXCEPT !.at = "isolated"] \in Copy
          /\ [w EXCEPT !.at = "isolated"].pin = w.pin
      BY <1>3, Zenon DEF Copy, Places
    <3> QED BY <1>1, <1>2, <1>3, <1>4, <2>2, <3>1, PinnedSet, Zenon DEF handler, Emptied
  <2> QED BY <2>1, <2>2, Zenon DEF isolate_anchored_entry_for_unlink
<1> QED BY <1>1, <1>2, <1>3, <1>4, <1>5, Parts, WorkKeepsRow, Zenon
        DEF WorkStep, RowTypes, OnlyDeletedDestroyed, Emptied, handler

(* The object an isolated copy has pinned is the one its delete moved. *)
LEMMA UnlinkKeeps ==
    ASSUME IndInv, NEW d \in Deletes, NEW c \in Copies, UnlinkIsolated(d, c) PROVE IndInv'
<1> DEFINE w == work[d][c]
<1>1. Pinned(d, c) /\ FileTypes /\ RowTypes /\ CopyTypes
  BY Parts
<1>2. /\ w.at = "isolated"
      /\ UNCHANGED <<jobs, lease, handler, committed, recon, target, trash, fresh, entries,
                     version>>
  BY Zenon DEF UnlinkIsolated, Worker, fs
<1>3. /\ d \in committed /\ w.pin \in Objects /\ w.pin = expected[d][1] /\ trash[d] = None
  BY <1>1, <1>2 DEF Pinned
<1>4. /\ held' \subseteq held
      /\ destroyed' = destroyed \/ destroyed' = destroyed \cup {w.pin}
      /\ At(d, c, "finish") \/ At(d, c, "defer") \/ At(d, c, "quarantined")
  BY Zenon DEF UnlinkIsolated, fs
<1>5. Placed(d, c) /\ Pinned(d, c)'
  BY <1>1, <1>2, <1>3, <1>4, PinnedAt, Zenon
<1>6. FileTypes'
  BY <1>1, <1>2, <1>3, <1>4, Zenon DEF FileTypes
<1>7. OnlyDeletedDestroyed'
  BY <1>2, <1>3, <1>4, Parts DEF OnlyDeletedDestroyed, handler
<1> QED BY <1>1, <1>2, <1>3, <1>5, <1>6, <1>7, WorkKeepsRow, Zenon DEF WorkStep, RowTypes, handler

(* A changed entry leaves the trash name, or the claim is retained. *)
LEMMA QuarantineKeeps ==
    ASSUME IndInv, NEW d \in Deletes, NEW c \in Copies, quarantine_claimed_purge_job(d, c)
    PROVE  IndInv'
<1>1. Pinned(d, c) /\ FileTypes /\ RowTypes /\ CopyTypes
  BY Parts
<1>2. work[d][c].at = "open" /\ UNCHANGED <<jobs, lease, handler, committed, recon>>
  BY Zenon DEF quarantine_claimed_purge_job, Worker
<1>3. d \in committed
  BY <1>1, <1>2, Zenon DEF Pinned
<1>4. CASE quarantine_internal_trash(d) /\ At(d, c, "quarantined")
  <2>1. Emptied(d)
    BY <1>1, <1>4, TrashEmptied
  <2>2. Placed(d, c) /\ Pinned(d, c)'
    BY <1>1, <1>2, <1>3, <1>4, <2>1, PinnedAt, Zenon DEF Emptied
  <2> QED BY <1>1, <1>2, <1>3, <2>1, <2>2, Parts, WorkKeepsRow, Zenon
          DEF WorkStep, RowTypes, OnlyDeletedDestroyed, Emptied, handler
<1>5. CASE At(d, c, "retained") /\ UNCHANGED fs
  <2>1. Placed(d, c) /\ Pinned(d, c)'
    BY <1>1, <1>2, <1>3, <1>5, PinnedAt, Zenon
  <2> QED BY <1>1, <1>2, <1>3, <1>5, <2>1, Parts, WorkKeepsRow, Zenon
          DEF WorkStep, FileTypes, RowTypes, OnlyDeletedDestroyed, fs, handler
<1> QED BY <1>4, <1>5 DEF quarantine_claimed_purge_job

(* A row is released only when its trash name is free. *)
LEMMA FinishKeeps ==
    ASSUME IndInv, NEW d \in Deletes, NEW c \in Copies, Finish(d, c) PROVE IndInv'
<1>1. Intent(d) /\ Recorded(d) /\ Pinned(d, c) /\ FileTypes /\ RowTypes /\ CopyTypes
  BY Parts
<1>2. /\ work[d][c].at \in {"finish", "quarantined"}
      /\ UNCHANGED <<fs, lease, handler, committed, recon>>
  BY DEF Finish, Worker
<1>3. d \in committed /\ trash[d] = None
  BY <1>1, <1>2 DEF Pinned
<1>4. jobs' = jobs \/ jobs' = SetJob(d, NoJob)
  BY StoreCall DEF Finish, complete_purge_job, remove_purge_job
<1>5. JobStep(d, {jobs[d], NoJob})
  <2>1. CASE jobs' = jobs
    BY <1>1, <2>1 DEF RowTypes, JobStep
  <2>2. CASE jobs' = SetJob(d, NoJob)
    BY <1>1, <2>2, RowSet, NoJobRow DEF JobStep
  <2> QED BY <1>4, <2>1, <2>2
<1>6. At(d, c, "none") \/ At(d, c, "retained")
  BY DEF Finish
<1>7. Placed(d, c) /\ Pinned(d, c)'
  BY <1>1, <1>2, <1>3, <1>6, PinnedAt, Zenon
<1>8. WorkStep(d, c)
  BY <1>1, <1>2, <1>3, <1>5, <1>7, Parts, Zenon
     DEF WorkStep, FileTypes, RowTypes, JobStep, OnlyDeletedDestroyed, fs, handler
<1>9. RowKind(jobs'[d]) /\ trash'[d] = None
  <2>1. RowKind(jobs'[d])
    <3>1. RowKind(jobs[d]) BY <1>1, Zenon DEF Intent
    <3> QED BY <1>5, <3>1, Zenon DEF RowKind, JobStep
  <2> QED BY <1>2, <1>3, <2>1, Zenon DEF fs
<1>10. Recorded(d)'
  <2>1. jobs'[d] = jobs[d] \/ jobs'[d].state = "Absent"
    <3>1. NoJob.state = "Absent" BY DEF NoJob
    <3> QED BY <1>5, <3>1, Zenon DEF JobStep
  <2>2. UNCHANGED <<committed, pc, expected>>
    BY <1>2, Zenon DEF handler
  <2>3. CASE jobs'[d] = jobs[d]
    BY <1>1, <2>2, <2>3, Zenon DEF Recorded
  <2>4. CASE jobs'[d].state = "Absent"
    BY <1>1, <2>2, <2>4 DEF Recorded
  <2> QED BY <2>1, <2>3, <2>4
<1> QED BY <1>8, <1>9, <1>10, WorkKeeps, Zenon

(* A deferred job keeps the revision of its row. *)
LEMMA DeferKeeps ==
    ASSUME IndInv, NEW d \in Deletes, NEW c \in Copies, defer_purge_job(d, c) PROVE IndInv'
<1> DEFINE row == [jobs[d] EXCEPT !.state = "Ready"]
<1>1. Intent(d) /\ Recorded(d) /\ Pinned(d, c) /\ FileTypes /\ RowTypes /\ CopyTypes
  BY Parts
<1>2. /\ work[d][c].at = "defer" /\ UNCHANGED <<fs, lease, handler, committed, recon>>
      /\ At(d, c, "none") \/ At(d, c, "retained")
  BY Zenon DEF defer_purge_job, Worker
<1>3. d \in committed /\ jobs[d] \in Row
  BY <1>1, <1>2, Zenon DEF Pinned, RowTypes
<1>4. Placed(d, c) /\ Pinned(d, c)'
  BY <1>1, <1>2, <1>3, PinnedAt, Zenon
<1>5. CASE jobs' = jobs
  <2>1. WorkStep(d, c)
    BY <1>1, <1>2, <1>3, <1>4, <1>5, Parts, Zenon
       DEF WorkStep, FileTypes, RowTypes, OnlyDeletedDestroyed, fs, handler
  <2> QED BY <1>5, <2>1, WorkKeepsRow, Zenon
<1>6. CASE jobs[d].state = "Claimed" /\ jobs' = SetJob(d, row)
  <2>1. /\ row \in Row /\ row.state = "Ready" /\ row.source = jobs[d].source
        /\ row.revision = jobs[d].revision
    BY <1>3, RowsTyped, Zenon DEF Row
  <2>2. JobStep(d, {row})
    BY <1>1, <1>6, <2>1, RowSet
  <2>3. WorkStep(d, c)
    BY <1>1, <1>2, <1>3, <1>4, <2>2, Parts
       DEF WorkStep, FileTypes, RowTypes, JobStep, OnlyDeletedDestroyed, fs, handler
  <2>4. /\ jobs'[d].state = "Ready" /\ jobs'[d].source = jobs[d].source
        /\ jobs'[d].revision = jobs[d].revision
    BY <2>1, <2>2, Zenon DEF JobStep
  <2>5. RowKind(jobs'[d]) /\ jobs'[d] # NoJob
    BY <1>1, <1>6, <2>4, ReadyRow DEF Intent
  <2>6. Recorded(d)'
    BY <1>1, <1>2, <1>6, <2>4, Zenon DEF Recorded, handler
  <2> QED BY <2>3, <2>5, <2>6, WorkKeeps
<1> QED BY <1>5, <1>6, StoreCall DEF defer_purge_job, retry_purge_job

(* A retained claim starts over from the trash name. *)
LEMMA RetryKeeps ==
    ASSUME IndInv, NEW d \in Deletes, NEW c \in Copies, retry_claimed_purge_work(d, c)
    PROVE  IndInv'
<1>1. Pinned(d, c) /\ FileTypes /\ RowTypes /\ CopyTypes
  BY Parts
<1>2. /\ work[d][c].at = "retained" /\ UNCHANGED <<fs, jobs, lease, handler, committed, recon>>
      /\ At(d, c, "claimed") \/ At(d, c, "none") \/ UNCHANGED work
  BY DEF retry_claimed_purge_work, Worker
<1>3. d \in committed
  BY <1>1, <1>2 DEF Pinned
<1>4. Placed(d, c) /\ Pinned(d, c)'
  <2>1. CASE At(d, c, "claimed") \/ At(d, c, "none")
    BY <1>1, <1>2, <1>3, <2>1, PinnedAt, Zenon
  <2>2. CASE UNCHANGED work
    BY <1>1, <1>2, <1>3, <2>2, Zenon DEF CopyTypes, Placed, Pinned
  <2> QED BY <1>2, <2>1, <2>2
<1> QED BY <1>1, <1>2, <1>3, <1>4, Parts, WorkKeepsRow, Zenon
        DEF WorkStep, FileTypes, RowTypes, OnlyDeletedDestroyed, fs, handler

-----------------------------------------------------------------------------
(* Others write to the path and to occupied trash names, and never fill an *)
(* empty one.                                                              *)
LEMMA OthersKeep ==
    ASSUME IndInv, Others, FileTypes', UNCHANGED destroyed,
           \A d \in Deletes : trash'[d] = None <=> trash[d] = None
    PROVE  IndInv'
<1>1. UNCHANGED <<jobs, lease, pc, expected, committed, recon, work>>
  BY Zenon DEF Others, handler
<1>2. Types'
  BY <1>1, Parts DEF Types, TaskTypes, RowTypes, CopyTypes
<1>3. ASSUME NEW d \in Deletes PROVE Intent(d)' /\ Recorded(d)'
  <2>1. Intent(d) /\ Recorded(d)
    BY Parts, Zenon
  <2>2. Intent(d)'
    BY <1>1, <2>1, Zenon DEF Intent
  <2>3. Recorded(d)'
    BY <1>1, <2>1, Zenon DEF Recorded
  <2> QED BY <2>2, <2>3
<1>4. ASSUME NEW d \in Deletes, NEW c \in Copies PROVE Pinned(d, c)'
  <2>1. Pinned(d, c)
    BY Parts, Zenon
  <2> QED BY <1>1, <2>1 DEF Pinned
<1>5. OnlyDeletedDestroyed'
  BY <1>1, Parts, Zenon DEF OnlyDeletedDestroyed
<1> QED BY <1>2, <1>3, <1>4, <1>5 DEF IndInv, Rules

(* A new object takes the path or an occupied trash name. *)
LEMMA ReplaceKeeps == ASSUME IndInv, NEW o \in Objects, Replace(o) PROVE IndInv'
<1>1. FileTypes
  BY Parts
<1>2. /\ Others /\ UNCHANGED <<held, destroyed, entries, version>> /\ fresh' \subseteq fresh
      /\ target' \in {o, target}
  BY DEF Replace
<1>3. /\ trash' \in [Deletes -> Occupant]
      /\ \A d \in Deletes : trash'[d] = None <=> trash[d] = None
  <2>1. CASE UNCHANGED trash
    BY <1>1, <2>1 DEF FileTypes
  <2>2. ASSUME NEW e \in Deletes, trash[e] # None, trash' = [trash EXCEPT ![e] = o]
        PROVE  /\ trash' \in [Deletes -> Occupant]
               /\ \A d \in Deletes : trash'[d] = None <=> trash[d] = None
    BY <1>1, <2>2, NoneOutside DEF FileTypes, Occupant
  <2> QED BY <2>1, <2>2 DEF Replace
<1>4. FileTypes'
  BY <1>1, <1>2, <1>3 DEF FileTypes, Occupant
<1> QED BY <1>2, <1>3, <1>4, OthersKeep

(* The object at the path goes. *)
LEMMA RemoveKeeps == ASSUME IndInv, Remove PROVE IndInv'
<1>1. Others /\ FileTypes' /\ UNCHANGED <<trash, destroyed>>
  BY Parts DEF Remove, FileTypes, Occupant
<1> QED BY <1>1, OthersKeep

(* An object is written to. *)
LEMMA TouchKeeps == ASSUME IndInv, NEW o \in Objects, Touch(o) PROVE IndInv'
<1>1. FileTypes
  BY Parts
<1>2. /\ Others /\ UNCHANGED <<target, trash, held, destroyed, fresh, entries>>
      /\ version' = [version EXCEPT ![o] = @ + 1]
  BY DEF Touch
<1>3. FileTypes'
  BY <1>1, <1>2 DEF FileTypes
<1> QED BY <1>2, <1>3, OthersKeep

(* recover_database returns the claims of the process that ended, and no    *)
(* task is left that could hold the lease or a copy.                        *)
LEMMA CrashKeeps == ASSUME IndInv, Crash PROVE IndInv'
<1>1. FileTypes /\ TaskTypes /\ RowTypes
  BY Parts
<1>2. /\ UNCHANGED <<fs, expected, committed>> /\ lease' = None
      /\ pc' = [d \in Deletes |-> IF pc[d] = "idle" THEN "idle" ELSE "done"]
      /\ recon' = [d \in Deletes |-> "idle"]
      /\ work' = [d \in Deletes |-> [c \in Copies |-> NoWork]]
      /\ jobs' = recover_purge_jobs
  BY DEF Crash
<1>3. /\ RowTypes'
      /\ \A e \in Deletes :
            \/ jobs[e].state # "Claimed" /\ jobs'[e] = jobs[e]
            \/ jobs[e].state = "Claimed" /\ jobs'[e] = [jobs[e] EXCEPT !.state = "Ready"]
  <2>1. \A e \in Deletes : jobs[e] \in Row /\ [jobs[e] EXCEPT !.state = "Ready"] \in Row
    BY <1>1, RowsTyped, Zenon DEF RowTypes
  <2> QED BY <1>2, <2>1 DEF RowTypes, recover_purge_jobs
<1>4. NoWork \in Copy /\ NoWork.at = "none"
  BY DEF NoWork, Copy, Places, Occupant
<1>5. Types'
  <2>1. FileTypes' /\ TaskTypes'
    BY <1>1, <1>2 DEF FileTypes, TaskTypes, Tasks, fs
  <2>2. CopyTypes'
    BY <1>2, <1>4 DEF CopyTypes
  <2> QED BY <1>3, <2>1, <2>2 DEF Types
<1>6. ASSUME NEW d \in Deletes PROVE Intent(d)' /\ Recorded(d)'
  <2>1. Intent(d) /\ Recorded(d) /\ pc[d] \in Tasks
    BY <1>1, Parts DEF TaskTypes
  <2>2. /\ pc'[d] = (IF pc[d] = "idle" THEN "idle" ELSE "done") /\ recon'[d] = "idle"
        /\ trash' = trash /\ expected' = expected /\ committed' = committed
    BY <1>2, Zenon DEF fs
  <2>3. CASE jobs[d].state # "Claimed" /\ jobs'[d] = jobs[d]
    BY <2>1, <2>2, <2>3 DEF Intent, Recorded, Tasks
  <2>4. CASE jobs[d].state = "Claimed" /\ jobs'[d] = [jobs[d] EXCEPT !.state = "Ready"]
    <3>1. jobs[d] \in Row /\ jobs[d] # NoJob /\ jobs[d].source \in Objects /\ jobs[d].revision \in Revisions
      BY <1>1, <2>1, <2>4, ReadyRow DEF RowTypes, Intent
    <3>2. /\ jobs'[d].state = "Ready" /\ jobs'[d].source \in Objects
          /\ jobs'[d].revision = jobs[d].revision
      BY <2>4, <3>1 DEF Row
    <3>3. RowKind(jobs'[d]) /\ jobs'[d] # NoJob
      BY <3>1, <3>2, ReadyRow
    <3> QED BY <2>1, <2>2, <2>4, <3>1, <3>2, <3>3 DEF Intent, Recorded, Tasks
  <2> QED BY <1>3, <2>3, <2>4
<1>7. ASSUME NEW d \in Deletes, NEW c \in Copies PROVE Pinned(d, c)'
  BY <1>2, <1>4, Zenon DEF Pinned
<1>8. OnlyDeletedDestroyed'
  BY <1>2, Parts, Zenon DEF OnlyDeletedDestroyed, fs
<1> QED BY <1>5, <1>6, <1>7, <1>8 DEF IndInv, Rules

-----------------------------------------------------------------------------
(* Before the first request there is no task, no row and no copy. *)
LEMMA InitHolds == Init => IndInv
<1> SUFFICES ASSUME Init PROVE IndInv
  OBVIOUS
<1>1. FileTypes
  BY NoneOutside, EntriesAssumption, Zenon DEF Init, FileTypes, Occupant
<1>2. TaskTypes
  BY DEF Init, TaskTypes, Tasks, Occupant
<1>3. RowTypes
  BY NoJobRow DEF Init, RowTypes
<1>4. CopyTypes
  <2>1. NoWork \in Copy
    BY DEF NoWork, Copy, Places, Occupant
  <2> QED BY <2>1 DEF Init, CopyTypes
<1>5. \A d \in Deletes : Intent(d) /\ Recorded(d)
  BY DEF Init, Intent, Recorded, RowKind, NoJob, Tasks
<1>6. \A d \in Deletes, c \in Copies : Pinned(d, c)
  BY DEF Init, Pinned, NoWork
<1>7. OnlyDeletedDestroyed
  BY DEF Init, OnlyDeletedDestroyed
<1> QED BY <1>1, <1>2, <1>3, <1>4, <1>5, <1>6, <1>7 DEF IndInv, Types, Rules

(* A step that changes nothing. *)
LEMMA StutterKeeps == ASSUME IndInv, UNCHANGED vars PROVE IndInv'
<1>1. Others /\ UNCHANGED fs
  BY DEF vars, Others
<1>2. FileTypes' /\ UNCHANGED <<trash, destroyed>>
  BY <1>1, Parts DEF FileTypes, fs
<1> QED BY <1>1, <1>2, OthersKeep

(* Every step of the specification. *)
LEMMA StepKeeps == ASSUME IndInv, [Next]_vars PROVE IndInv'
<1>1. ASSUME NEW d \in Deletes, Delete(d) PROVE IndInv'
  BY <1>1, AdmitKeeps, PrepareKeeps, CheckTargetKeeps, RenameKeeps, WithdrawKeeps, MarkReadyKeeps
     DEF Delete
<1>2. ASSUME NEW d \in Deletes, Reconcile(d) PROVE IndInv'
  BY <1>2, ReconcilePickKeeps, ReconcileLockKeeps, ReconcileTrashKeeps, ReconcileRemoveKeeps,
     ReconcileErrorKeeps DEF Reconcile
<1>3. ASSUME NEW d \in Deletes, NEW c \in Copies, Purge(d, c) PROVE IndInv'
  BY <1>3, ClaimKeeps, OpenKeeps, PurgeEntriesKeeps, VerifyRootKeeps,
     IsolateKeeps, UnlinkKeeps, QuarantineKeeps,
     FinishKeeps, DeferKeeps, RetryKeeps DEF Purge
<1>4. ASSUME NEW o \in Objects, Replace(o) \/ Touch(o) PROVE IndInv'
  BY <1>4, ReplaceKeeps, TouchKeeps
<1>5. CASE Remove
  BY <1>5, RemoveKeeps
<1>6. CASE Crash
  BY <1>6, CrashKeeps
<1>7. CASE Finished \/ UNCHANGED vars
  BY <1>7, StutterKeeps DEF Finished
<1> QED BY <1>1, <1>2, <1>3, <1>4, <1>5, <1>6, <1>7 DEF Next

(* The invariant holds in every reachable state. *)
LEMMA Inductive == Spec => []IndInv
<1> QED BY InitHolds, StepKeeps, PTL DEF Spec

(* A row of purge_jobs has a committed revision exactly when it is Ready or *)
(* Claimed, whatever the deletes, the purge worker, other writers and       *)
(* crashes do: no step can break the CHECK constraints of the table.        *)
THEOREM RowsWellFormed == Spec => []TypeOK
<1>1. ASSUME IndInv PROVE TypeOK
  <2>1. FileTypes /\ TaskTypes /\ CopyTypes
    BY <1>1, Parts, Zenon
  <2>2. \A d \in Deletes : RowKind(jobs[d])
    BY <1>1, Parts, Zenon DEF Intent
  <2>3. \A d \in Deletes, c \in Copies : work[d][c] \in Copy
    BY <2>1 DEF CopyTypes
  <2>4. \A d \in Deletes, c \in Copies :
          /\ work[d][c].at \in Places
          /\ work[d][c].pin \in Occupant
          /\ work[d][c].seen \in Revisions \cup {None}
    BY <2>3 DEF Copy
  <2> QED BY <2>1, <2>2, <2>4 DEF TypeOK, FileTypes, TaskTypes, Tasks, RowKind
<1> QED BY <1>1, Inductive, PTL

(* purge_slice destroys only what a committed delete moved, for any number  *)
(* of deletes, of writers that replace the target or the trash entry, of    *)
(* failed store calls that committed or not, and of crashes.                *)
THEOREM DestroysOnlyDeleted == Spec => []OnlyDeletedDestroyed
<1>1. IndInv => OnlyDeletedDestroyed
  BY Zenon DEF IndInv, Rules
<1> QED BY <1>1, Inductive, PTL

(* No crash and no failure of delete.rs or purge.rs leaves an object under  *)
(* a trash name that no row leads to.                                       *)
THEOREM TrashHasRow == Spec => []TrashAccounted
<1>1. IndInv => TrashAccounted
  BY Zenon DEF IndInv, Rules, Intent, TrashAccounted
<1> QED BY <1>1, Inductive, PTL

(* The reconciliation of Prepared jobs never takes the row or the trash     *)
(* entry of a delete that is still running: the lease it asks for, and its  *)
(* second look at the row, are enough for any number of deletes.            *)
THEOREM RunningIntentKept == Spec => []IntentKept
<1>1. IndInv => IntentKept
  BY Zenon DEF IndInv, Rules, Intent, IntentKept
<1> QED BY <1>1, Inductive, PTL

=============================================================================
