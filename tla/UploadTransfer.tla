---------------------------- MODULE UploadTransfer ----------------------------
(***************************************************************************)
(* An upload request from the first byte of its body to its answer:        *)
(* transfer_upload_body, the failure finalizers, prepare_transferred_upload*)
(* and commit_ready_upload; the persist_* family that all of them use; and *)
(* the discard of a retained upload.                                       *)
(***************************************************************************)
EXTENDS UploadPrepare

-------------------------------------------------------------------------------
(* The persist_* family: a sync of the stage, then one save *)

\* The row each kind of save proposes.  Where the caller binds no identity or
\* revision, persist_state carries over what is recorded.
Proposal ==
    LET r == rows[h.owner]
        keep(state, off) == [state |-> state, off |-> off, ino |-> r.ino,
                             rev |-> r.rev, expired |-> FALSE]
        bind(state, off) == [state |-> state, off |-> off, ino |-> h.ino,
                             rev |-> h.pol, expired |-> FALSE]
    IN  CASE h.job = "commit"    -> bind("commit_started", Len)
          [] h.job = "awaiting"  -> bind("awaiting", Len)
          [] h.job = "timeout"   -> [bind("running", h.size) EXCEPT !.rev = r.rev]
          [] h.job = "refuse"    -> keep("rejected", 0)
          [] h.job = "unknown"   -> keep("unknown", Len)
          [] h.job = "committed" -> keep("committed", Len)
          [] OTHER               -> bind("running", h.size)

\* Mutant: the first checkpoint does not sync the stage directory.
SyncsParent_Never == FALSE

SyncsParent == h.job = "initial" \/ (h.job = "timeout" /\ ~Resume)

\* Mutant: a terminal save that fails is reported as a rejection.
PersistFailed_Rejected ==
    CASE h.job = "initial" \/ (h.job = "timeout" /\ ~Resume)
           -> /\ h' = [h EXCEPT !.pc = "discard", !.then = "reset"]
              /\ UNCHANGED <<active, told>>
      [] h.job = "commit" -> ResetThen("rejected") /\ UNCHANGED <<active, told>>
      [] OTHER            -> Finish("rejected")

\* What the caller does with the error of a save.
PersistFailed ==
    CASE h.job = "initial" \/ (h.job = "timeout" /\ ~Resume)
           -> /\ h' = [h EXCEPT !.pc = "discard", !.then = "reset"]
              /\ UNCHANGED <<active, told>>
      [] h.job = "commit" -> ResetThen("rejected") /\ UNCHANGED <<active, told>>
      [] h.job = "refuse" -> Finish("rejected")
      [] OTHER            -> Finish("unknown")

After(pc) ==
    /\ h' = [h EXCEPT !.pc = pc, !.job = "none", !.size = 0, !.seen = NoRev]
    /\ UNCHANGED <<active, told>>

\* What it does after a successful one.  A failed body is checkpointed before
\* its own error is reported.
Persisted ==
    CASE h.job \in {"initial", "rebind"} -> After("reserve")
      [] h.job = "commit"    -> After("publish")
      [] h.job = "partial"   -> Finish("running") \/ Finish("unknown")
      [] h.job = "short"     -> Finish("running")
      [] h.job = "awaiting"  -> Finish("awaiting")
      [] h.job = "refuse"    -> Finish("rejected")
      [] h.job = "committed" -> Finish("committed")
      [] OTHER               -> Finish("unknown")

\* sync_and_identify_stage, with sync_parent for a first checkpoint: the file
\* is on disk, and the stage name still is this file.
sync_and_identify_stage ==
    /\ h.pc = "sync"
    /\ \/ /\ file' = [file EXCEPT ![h.ino].synced = file[h.ino].len]
          /\ UNCHANGED used
          /\ IF stage = h.ino
               THEN /\ Goto("save") /\ UNCHANGED <<active, told>>
                    /\ IF SyncsParent THEN disk' = [disk EXCEPT !.stage = stage]
                                      ELSE UNCHANGED disk
               ELSE PersistFailed /\ UNCHANGED disk
       \/ Fault /\ PersistFailed /\ UNCHANGED <<file, disk>>
    /\ UNCHANGED <<store, stage, target, aged, marker, m, effect, up>>

\* persist_state.  A stored proposal starts a session that has not landed.
persist_state ==
    /\ h.pc = "save"
    /\ \E fault \in BOOLEAN :
          /\ IF fault THEN Fault ELSE UNCHANGED used
          /\ \E out \in save_upload_session(rows, h.owner, Proposal, fault) :
                /\ SetRows(out.table)
                /\ IF out.ok THEN Persisted ELSE PersistFailed
    /\ Mutates
    /\ UNCHANGED <<names, marker, m, up>>

-------------------------------------------------------------------------------
(* The body *)

\* Mutant: the running total is not compared with the declared length.
WriteChunk_Unbounded ==
    /\ h.pc = "body"
    /\ file' = [file EXCEPT ![h.ino].len = @ + 1]
    /\ aged' = FALSE /\ Mutates
    /\ UNCHANGED <<store, stage, target, disk, registry, h, m, told, up, used>>

\* write_upload_chunk: at most the declared length is ever written.
WriteChunk ==
    /\ h.pc = "body" /\ file[h.ino].len < Len
    /\ file' = [file EXCEPT ![h.ino].len = @ + 1]
    /\ aged' = FALSE /\ Mutates
    /\ UNCHANGED <<store, stage, target, disk, registry, h, m, told, up, used>>

BodyEnds ==
    /\ h.pc = "body"
    /\ Goto("precommit")
    /\ UNCHANGED <<store, names, registry, m, client, up, used>>

\* Excess bytes or no space: back to the durable offset, or away altogether.
BodyRefused ==
    /\ h.pc = "body"
    /\ IF Awaiting
         THEN Finish("awaiting") /\ UNCHANGED <<file, effect>>
         ELSE IF Resume
         THEN /\ file' = [file EXCEPT ![h.ino] = RolledBack(@)]
              /\ Finish("running") /\ Mutates
         ELSE ResetThen("rejected") /\ UNCHANGED <<file, active, told, effect>>
    /\ UNCHANGED <<store, stage, target, disk, aged, marker, m, up, used>>

partial_upload_is_checkpointable(size) ==
    size >= h.off /\ (Resume \/ size >= MinResumable)

\* Idle timeout, a broken connection or a forced stop.  The length is read
\* before the queued write is flushed, so it can be one chunk behind.
BodyBreaks ==
    /\ h.pc = "body"
    /\ IF Awaiting
         THEN Finish("awaiting")
         ELSE \E size \in {file[h.ino].len, file[h.ino].len - 1} \intersect (h.off .. Len) :
                /\ UNCHANGED <<active, told>>
                /\ IF partial_upload_is_checkpointable(size)
                     THEN Persist("partial", size)
                     ELSE \E then \in {"rejected", "unknown"} : ResetThen(then)
    /\ UNCHANGED <<store, names, marker, m, effect, up, used>>

BodyTimesOut ==
    /\ h.pc = "body"
    /\ IF Awaiting THEN Finish("awaiting") ELSE Goto("timeout") /\ UNCHANGED <<active, told>>
    /\ UNCHANGED <<store, names, marker, m, effect, up, used>>

\* finish_timed_out_upload: flush, then keep the bytes if they are worth it.
finish_timed_out_upload ==
    /\ h.pc = "timeout"
    /\ LET discard == h' = [h EXCEPT !.pc = "discard", !.then = "reset"]
       IN  \/ /\ IF Resume \/ file[h.ino].len >= MinResumable
                   THEN Persist("timeout", file[h.ino].len)
                   ELSE discard
              /\ UNCHANGED <<active, told, used>>
           \/ /\ Fault
              /\ IF Resume THEN Fails ELSE discard /\ UNCHANGED <<active, told>>
    /\ UNCHANGED <<store, names, marker, m, effect, up>>

-------------------------------------------------------------------------------
(* prepare_transferred_upload *)

\* An error before the commit record: a retained stage stays as it was.
PrecommitError ==
    IF Awaiting THEN Finish("awaiting")
    ELSE IF Resume THEN Finish("running")
    ELSE ResetThen("rejected") /\ UNCHANGED <<active, told>>

\* Mutant: the stage length is not compared with the declared one.
CheckLength_Any == Goto("metadata") /\ UNCHANGED <<active, told>>

\* The stage must be as long as was declared.  A shorter one is checkpointed.
CheckLength ==
    IF file[h.ino].len = Len THEN Goto("metadata") /\ UNCHANGED <<active, told>>
    ELSE IF Awaiting THEN Finish("awaiting")
    ELSE Persist("short", file[h.ino].len) /\ UNCHANGED <<active, told>>

\* Flush, space, deadline and length.
CheckTransferred ==
    /\ h.pc = "precommit"
    /\ \/ Fault /\ (PrecommitError \/ Fails) /\ UNCHANGED <<file, effect>>
       \/ /\ IF Awaiting THEN Finish("awaiting") /\ UNCHANGED <<file, effect, used>>
                         ELSE SpaceFailure
       \/ /\ ~Awaiting /\ Goto("timeout")
          /\ UNCHANGED <<file, active, told, effect, used>>
       \/ CheckLength /\ UNCHANGED <<file, effect, used>>
    /\ UNCHANGED <<store, stage, target, disk, aged, marker, m, up>>

\* apply_replacement_metadata: the stage takes over the owner, mode and
\* attributes of the target it will replace.  It may stop half-way.
ReplayMetadata ==
    /\ h.pc = "metadata"
    /\ IF h.tid = NoIno
         THEN Goto("space") /\ UNCHANGED <<file, active, told, effect, used>>
         ELSE /\ file' = [file EXCEPT ![h.ino].meta = h.tid]
              /\ Mutates
              /\ \/ Goto("space") /\ UNCHANGED <<active, told, used>>
                 \/ /\ Fault
                    /\ IF Awaiting THEN Finish("awaiting")
                       ELSE /\ \E then \in {"rejected", "unknown"} : ResetThen(then)
                            /\ UNCHANGED <<active, told>>
    /\ UNCHANGED <<store, stage, target, disk, aged, marker, m, up>>

\* The space check between the replay and the commit record.
CheckSpace ==
    /\ h.pc = "space"
    /\ \/ Persist("commit", Len) /\ UNCHANGED <<active, told>>
       \/ IF Awaiting THEN Finish("awaiting")
                      ELSE ResetThen("rejected") /\ UNCHANGED <<active, told>>
    /\ UNCHANGED <<store, names, marker, m, effect, up, used>>

-------------------------------------------------------------------------------
(* commit_ready_upload and commit_staged_file *)

\* The last space check, and the fsync that opens commit_staged_file.
SyncStagedFile ==
    /\ h.pc = "publish"
    /\ \/ /\ file' = [file EXCEPT ![h.ino].synced = file[h.ino].len]
          /\ Goto("check") /\ UNCHANGED used
       \/ ResetThen("rejected") /\ UNCHANGED <<file, used>>
       \/ Fault /\ ResetThen("refuse") /\ UNCHANGED file
    /\ UNCHANGED <<store, stage, target, disk, aged, registry, m, client, up>>

\* rename_replace_if_unchanged up to its comparison with what was inspected.
\* An error of the blocking gate is reported as an unknown publication.
CheckReplace ==
    /\ h.pc = "check"
    /\ \/ /\ IF stage = h.ino /\ target = h.tid THEN Goto("rename")
                                                ELSE Persist("awaiting", Len)
          /\ UNCHANGED used
       \/ Fault /\ (ResetThen("refuse") \/ Record("unknown", Len))
    /\ UNCHANGED <<store, names, registry, m, client, up>>

\* The rename.  RENAME_NOREPLACE guards a create; a replacement is a plain
\* rename over whatever is there by now.
rename_replace_if_unchanged ==
    /\ h.pc = "rename"
    /\ \/ /\ h.tid = NoIno /\ target # NoIno /\ Persist("awaiting", Len)
          /\ UNCHANGED <<stage, target, landed, effect, used>>
       \/ /\ stage # NoIno
          /\ h.tid = NoIno => target = NoIno
          /\ target' = stage /\ stage' = NoIno
          /\ landed' = [landed EXCEPT ![h.owner] = TRUE]
          /\ effect' = "target"
          /\ Goto("sync_parents") /\ UNCHANGED used
       \/ Fault /\ ResetThen("refuse") /\ UNCHANGED <<stage, target, landed, effect>>
    /\ UNCHANGED <<rows, disk, file, aged, registry, m, told, up>>

sync_renamed_parents ==
    /\ h.pc = "sync_parents"
    /\ \/ /\ disk' = [stage |-> stage, target |-> target]
          /\ Record("committed", Len) /\ UNCHANGED used
       \/ Fault /\ Record("unknown", Len) /\ UNCHANGED disk
    /\ UNCHANGED <<store, stage, target, file, aged, registry, m, client, up>>

-------------------------------------------------------------------------------
(* The discard of a retained upload *)

\* discard_awaiting_upload: the row first, then the file it names.
Discard(o) ==
    /\ up /\ h.pc = "idle" /\ used.requests < MaxRequests
    /\ h' = [Idle EXCEPT !.pc = "discard_row", !.owner = o]
    /\ used' = [used EXCEPT !.requests = @ + 1]
    /\ UNCHANGED <<store, names, registry, m, client, up>>

reject_for_discard ==
    /\ h.pc = "discard_row"
    /\ LET r == rows[h.owner]
           done == reject_upload_session(rows, h.owner)
       IN  \/ /\ SetRows(done) /\ UNCHANGED used
              /\ IF r.state \in {"awaiting", "rejected"}
                   THEN /\ h' = [h EXCEPT !.pc = "discard_file", !.ino = r.ino]
                        /\ Mutates /\ UNCHANGED <<active, told>>
                   ELSE /\ Finish(IF r.state = "commit_started" THEN "unknown"
                                                                ELSE Public(r.state))
                        /\ UNCHANGED effect
           \/ /\ Fault /\ Finish("unknown") /\ Mutates
              /\ SetRows(done) \/ UNCHANGED store
    /\ UNCHANGED <<names, marker, m, up>>

cleanup_rejected_stage ==
    /\ h.pc = "discard_file"
    /\ \/ remove_file_if_identity(h.ino) /\ UNCHANGED used
       \/ Fault /\ UNCHANGED <<stage, disk, aged, file>>
    /\ Finish("rejected")
    /\ UNCHANGED <<store, target, marker, m, effect, up>>

Transfer ==
    \/ sync_and_identify_stage \/ persist_state \/ WriteChunk \/ BodyEnds
    \/ BodyRefused \/ BodyBreaks \/ BodyTimesOut \/ finish_timed_out_upload
    \/ CheckTransferred \/ ReplayMetadata \/ CheckSpace \/ SyncStagedFile
    \/ CheckReplace \/ rename_replace_if_unchanged \/ sync_renamed_parents
    \/ reject_for_discard \/ cleanup_rejected_stage
===============================================================================
