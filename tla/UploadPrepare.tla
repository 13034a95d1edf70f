---------------------------- MODULE UploadPrepare -----------------------------
(***************************************************************************)
(* An upload request from its arrival to the first byte of its body:       *)
(* dispatch, prepare_upload, and the two cleanup paths every later failure *)
(* shares.  h.pc is the place in the code; h.mut is MutationProgress.      *)
(***************************************************************************)
EXTENDS UploadState

Resume == h.kind = "patch"
Awaiting == h.cp = "awaiting"

Goto(pc) == h' = [h EXCEPT !.pc = pc]

\* The handler returns: leases are dropped, and the response is `ans` unless
\* the deadline has already answered.
Finish(ans) ==
    /\ h' = [Idle EXCEPT !.pc = "done", !.owner = h.owner]
    /\ active' = FALSE
    /\ told' = IF h.answered THEN told ELSE ans

\* An error that leaves the handler: Server::call tells `unknown` once the
\* mutation boundary is crossed.
Fails == Finish(IF h.mut = "detached" THEN "unknown" ELSE "not_started")

Mutates == effect' = IF effect = "nothing" THEN "stage" ELSE effect

\* Mutant: the task does not look whether its boundary was closed.
begin_upload_mutation_Always == TRUE

\* begin_upload_mutation: the boundary is crossed unless a timeout closed it.
begin_upload_mutation == h.mut # "cancelled"
Crossed(r) == [r EXCEPT !.mut = "detached"]

\* A job of persist_state: sync the stage first where an identity is needed.
Persist(job, size) == h' = [h EXCEPT !.pc = "sync", !.job = job, !.size = size]
Record(job, size) == h' = [h EXCEPT !.pc = "save", !.job = job, !.size = size]

\* Give up the session: drop the file, remove stage and row, then answer.
ResetThen(then) ==
    h' = [h EXCEPT !.pc = "reset", !.ino = NoIno, !.job = "none", !.size = 0,
                   !.then = then]

-------------------------------------------------------------------------------
(* Arrival *)

\* acquire_target_admission: a PUT or PATCH gets the path lease and then an
\* upload slot.  One that does not is refused and leaves no trace.
Request(o, kind, off, pol) ==
    /\ up /\ h.pc = "idle" /\ used.requests < MaxRequests
    /\ kind = "put" => off = 0
    /\ h' = [Idle EXCEPT !.pc = "target",
                         !.kind = kind, !.owner = o, !.off = off, !.pol = pol]
    /\ used' = [used EXCEPT !.requests = @ + 1]
    /\ UNCHANGED <<store, names, registry, m, client, up>>

\* inspect_target: a probe of the target, under its own deadline, that can
\* fail or find it hidden.
inspect_target ==
    /\ h.pc = "target"
    /\ \/ Finish("not_started")
       \/ Goto(IF Resume THEN "lookup" ELSE "dispatch") /\ UNCHANGED <<active, told>>
    /\ UNCHANGED <<store, names, marker, m, effect, up, used>>

\* The exchange is over.
Reply ==
    /\ h.pc = "done"
    /\ h' = Idle /\ told' = "none" /\ effect' = "nothing"
    /\ file' = Kept({stage, target, disk.stage, disk.target})
    /\ UNCHANGED <<store, stage, target, disk, aged, registry, m, up, used>>

\* A fresh PUT may not replace a target that a committing or retained session
\* still depends on; a merely running one is allowed.  The check itself may
\* time out or find the store unavailable.
dispatch_fresh_upload ==
    /\ h.pc = "dispatch"
    /\ \/ Finish("not_started")
       \/ /\ \A o \in Owners : rows[o].state \notin {"commit_started", "awaiting"}
          /\ Goto("lookup") /\ UNCHANGED <<active, told>>
    /\ UNCHANGED <<store, names, marker, m, effect, up, used>>

\* The tracked task misses the deadline.  Before the boundary the answer is
\* definite and closes it; the task goes on with its leases either way.
await_tracked_upload_task ==
    /\ h.pc \notin {"idle", "done", "target", "dispatch", "discard_row", "discard_file"}
    /\ ~h.answered
    /\ IF h.mut = "preflight"
         THEN /\ h' = [h EXCEPT !.answered = TRUE, !.mut = "cancelled"]
              /\ told' = "not_started"
         ELSE /\ h' = [h EXCEPT !.answered = TRUE]
              /\ told' = "unknown"
    /\ UNCHANGED <<store, names, registry, m, effect, up, used>>

\* An I/O or store error while preparing.  A store error is told as unknown
\* even before the boundary.
PrepareError ==
    /\ h.pc \in {"lookup", "track_resume", "inspect", "admit", "create", "open",
                  "truncate", "reserve"}
    /\ Fault
    /\ Fails \/ Finish("unknown")
    /\ UNCHANGED <<store, names, marker, m, effect, up>>

\* upload_deadline_expired_before_mutation, wherever prepare_upload tests it.
DeadlineBeforeMutation ==
    /\ h.pc \in {"lookup", "track_resume", "inspect", "admit"}
       \/ (h.pc \in {"open", "truncate", "rebind", "reserve"} /\ h.mut # "detached")
    /\ Finish("not_started")
    /\ UNCHANGED <<store, names, marker, m, effect, up, used>>

-------------------------------------------------------------------------------
(* prepare_upload, reading only *)

\* The recorded session decides first: terminal rows are replayed, a live one
\* accepts only a matching PATCH.
LookupSession ==
    /\ h.pc = "lookup"
    /\ LET s == Lookup(h.owner)
           r == rows[h.owner]
       IN  IF \/ s \in Terminal
              \/ s \in {"running", "awaiting"} /\ ~Resume
              \/ s = "awaiting" /\ h.off # r.off
             THEN Finish(s)
             ELSE /\ h' = [h EXCEPT !.pc = IF Resume THEN "track_resume" ELSE "inspect",
                                    !.cp = s, !.seen = r.rev, !.cpoff = r.off]
                  /\ UNCHANGED <<active, told>>
    /\ UNCHANGED <<store, names, marker, m, effect, up, used>>

\* track_active_upload_files of a PATCH: wait while maintenance has a claim.
\* The stage directory may be gone together with the stage.
TrackResume ==
    /\ h.pc = "track_resume"
    /\ \/ stage = NoIno /\ Finish("not_seen")
       \/ ~marker /\ active' = TRUE /\ Goto("inspect") /\ UNCHANGED told
    /\ UNCHANGED <<store, names, marker, m, effect, up, used>>

ConflictState == IF h.cp = "none" THEN "not_started" ELSE h.cp

\* A retained stage that never met a target's metadata.
awaiting_stage_is_create_only == Awaiting /\ h.seen = NoRev

\* The overwrite policy against the target as it is now.
PolicyConflict ==
    \/ h.pol = NoRev /\ target # NoIno /\ ~(Resume /\ h.cp = "running")
    \/ h.pol = NoRev /\ Awaiting /\ ~awaiting_stage_is_create_only
    \/ h.pol # NoRev /\ target # h.pol

\* A target whose metadata cannot be carried over is a conflict as well.
InspectTarget ==
    /\ h.pc = "inspect"
    /\ \/ (PolicyConflict \/ h.pol # NoRev) /\ Finish(ConflictState)
       \/ /\ ~PolicyConflict
          /\ h' = [h EXCEPT !.pc = "admit",
                            !.tid = IF h.pol = NoRev THEN NoIno ELSE h.pol]
          /\ UNCHANGED <<active, told>>
    /\ UNCHANGED <<store, names, marker, m, effect, up, used>>

\* A resumed upload: a record, the declared length, the offset and a body that
\* fits; then its stage is reopened.
AdmitResumed ==
    /\ h.pc = "admit" /\ Resume
    /\ \/ h.cp = "none" /\ Finish("not_seen")
       \/ h.cp # "none" /\ Finish(h.cp)
       \/ /\ h.cp # "none" /\ h.cpoff = h.off
          /\ h' = [h EXCEPT !.pc = "open", !.cpoff = 0] /\ UNCHANGED <<active, told>>
    /\ UNCHANGED <<store, names, marker, m, effect, up, used>>

\* A fresh upload: a body that fits and space for it, then the boundary.
AdmitFresh ==
    /\ h.pc = "admit" /\ ~Resume
    /\ \/ Finish("rejected")
       \/ ~begin_upload_mutation /\ Finish("not_started")
       \/ /\ begin_upload_mutation
          /\ h' = [Crossed(h) EXCEPT !.pc = "create"]
          /\ UNCHANGED <<active, told>>
    /\ UNCHANGED <<store, names, marker, m, effect, up, used>>

-------------------------------------------------------------------------------
(* prepare_upload, a fresh upload *)

\* create_private_upload_stage: O_EXCL, so an occupied name ends the request.
CreateStage ==
    /\ h.pc = "create"
    /\ \/ stage # NoIno /\ Finish("not_seen")
          /\ UNCHANGED <<stage, file, aged, effect>>
       \/ /\ stage = NoIno
          /\ \E i \in Inodes :
                /\ Free(i)
                /\ stage' = i
                /\ file' = [file EXCEPT ![i] = [Blank EXCEPT !.by = h.owner]]
                /\ h' = [h EXCEPT !.pc = "track_fresh", !.ino = i]
          /\ aged' = FALSE /\ Mutates /\ UNCHANGED <<active, told>>
    /\ UNCHANGED <<store, target, disk, marker, m, up, used>>

\* The stage becomes active only after it exists; on a deadline or an error it
\* is discarded through its open descriptor.
TrackFresh ==
    /\ h.pc = "track_fresh"
    /\ \/ ~marker /\ active' = TRUE /\ (Persist("initial", 0) \/ Goto("timeout"))
       \/ /\ (~marker /\ active' = TRUE) \/ UNCHANGED active
          /\ h' = [h EXCEPT !.pc = "discard", !.then = "finish"]
    /\ UNCHANGED <<store, names, marker, m, client, up, used>>

-------------------------------------------------------------------------------
(* prepare_upload, a resumed upload *)

\* open_resumable_stage reads the row again and pins the inode it names.
OpenStage ==
    /\ h.pc = "open"
    /\ LET r == rows[h.owner]
       IN  IF /\ r.state = h.cp /\ r.off = h.off
              /\ valid_resumable_stage(r)
              /\ Awaiting => file[r.ino].len = r.off
             THEN /\ h' = [h EXCEPT !.pc = IF file[r.ino].len > h.off THEN "truncate"
                                                                   ELSE "rebind",
                                    !.ino = r.ino]
                  /\ UNCHANGED <<active, told>>
             ELSE Finish(h.cp)
    /\ UNCHANGED <<store, names, marker, m, effect, up, used>>

\* Bytes past the durable offset are dropped before the body is appended.
TruncateStage ==
    /\ h.pc = "truncate"
    /\ IF begin_upload_mutation
         THEN /\ file' = [file EXCEPT ![h.ino] = Truncated(@, h.off)]
              /\ h' = [Crossed(h) EXCEPT !.pc = "rebind"]
              /\ aged' = FALSE /\ Mutates /\ UNCHANGED <<active, told>>
         ELSE Finish("not_started") /\ UNCHANGED <<file, aged, effect>>
    /\ UNCHANGED <<store, stage, target, disk, marker, m, up, used>>

\* A running session adopts the revision of this request before any byte.
RebindRevision ==
    /\ h.pc = "rebind"
    /\ IF h.cp = "running" /\ h.seen # h.pol
         THEN IF begin_upload_mutation
                THEN /\ h' = [Crossed(h) EXCEPT !.pc = "sync", !.job = "rebind",
                                                !.size = h.off]
                     /\ UNCHANGED <<active, told>>
                ELSE Finish("not_started")
         ELSE /\ h' = [h EXCEPT !.pc = "reserve", !.seen = NoRev]
              /\ UNCHANGED <<active, told>>
    /\ UNCHANGED <<store, names, marker, m, effect, up, used>>

RolledBack(f) == [Truncated(f, h.off) EXCEPT !.synced = h.off]

\* finish_precommit_space_failure: a resumed stage falls back to its durable
\* offset, a fresh session is removed.
SpaceFailure ==
    IF Resume
      THEN /\ Finish("running") /\ Mutates
           /\ \/ file' = [file EXCEPT ![h.ino] = RolledBack(@)] /\ UNCHANGED used
              \/ Fault /\ file' \in {file, [file EXCEPT ![h.ino] = Truncated(@, h.off)]}
      ELSE ResetThen("rejected") /\ UNCHANGED <<file, active, told, effect, used>>

\* The end of prepare_upload: space, the deadline, and the boundary again.
ReserveSpace ==
    /\ h.pc = "reserve"
    /\ \/ /\ begin_upload_mutation
          /\ h' = [Crossed(h) EXCEPT !.pc = "body"]
          /\ UNCHANGED <<file, active, told, effect, used>>
       \/ ~begin_upload_mutation /\ Finish("not_started") /\ UNCHANGED <<file, effect, used>>
       \/ Resume /\ Finish(h.cp) /\ UNCHANGED <<file, effect, used>>    \* nothing reserved
       \/ ~Awaiting /\ begin_upload_mutation /\ SpaceFailure     \* not confirmed
       \/ /\ h.mut = "detached" /\ Goto("timeout")
          /\ UNCHANGED <<file, active, told, effect, used>>
    /\ UNCHANGED <<store, stage, target, disk, aged, marker, m, up>>

-------------------------------------------------------------------------------
(* Cleanup *)

\* discard_unrecorded_stage: the open descriptor must still be the one link.
DiscardStage ==
    /\ h.pc = "discard"
    /\ \/ remove_file_if_identity(h.ino) /\ UNCHANGED used
       \/ Fault /\ UNCHANGED <<stage, disk, aged, file>>
    /\ Mutates
    /\ IF h.then = "finish"
         THEN Fails
         ELSE ResetThen("unknown") /\ UNCHANGED <<active, told>>
    /\ UNCHANGED <<store, target, marker, m, up>>

AfterReset ==
    IF h.then = "refuse" THEN Record("refuse", 0) /\ UNCHANGED <<active, told>>
                         ELSE Finish(h.then)

\* reset, first half: the file goes before the row, and only by its identity.
ResetStage ==
    /\ h.pc = "reset"
    /\ LET r == rows[h.owner]
       IN  IF r.state = "none"
             THEN AfterReset /\ UNCHANGED <<stage, disk, aged, file, effect, used>>
             ELSE IF r.ino # NoIno /\ Replaced(r.ino)
             THEN Fails /\ UNCHANGED <<stage, disk, aged, file, effect, used>>
             ELSE /\ remove_file_if_identity(r.ino) /\ Mutates
                  /\ \/ /\ h' = [h EXCEPT !.pc = "reset_row", !.row = r]
                        /\ UNCHANGED <<active, told, used>>
                     \/ Fault /\ Fails
    /\ UNCHANGED <<store, target, marker, m, up>>

\* reset, second half: the row goes if it is still the one that was read.
ResetRow ==
    /\ h.pc = "reset_row"
    /\ \/ /\ SetRows(remove_upload_session_if_matches(rows, h.owner, h.row))
          /\ Mutates /\ UNCHANGED used
          /\ IF SameSession(rows[h.owner], h.row) THEN AfterReset ELSE Fails
       \/ /\ Fault /\ Fails /\ Mutates
          /\ \/ UNCHANGED store
             \/ SetRows(remove_upload_session_if_matches(rows, h.owner, h.row))
    /\ UNCHANGED <<names, marker, m, up>>

Prepare ==
    \/ Reply \/ inspect_target \/ dispatch_fresh_upload \/ await_tracked_upload_task \/ PrepareError
    \/ DeadlineBeforeMutation \/ LookupSession \/ TrackResume
    \/ InspectTarget \/ AdmitResumed \/ AdmitFresh \/ CreateStage \/ TrackFresh \/ OpenStage
    \/ TruncateStage \/ RebindRevision \/ ReserveSpace
    \/ DiscardStage \/ ResetStage \/ ResetRow
===============================================================================
