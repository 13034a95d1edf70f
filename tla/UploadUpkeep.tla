----------------------------- MODULE UploadUpkeep -----------------------------
(***************************************************************************)
(* The storage maintenance task, as far as it concerns upload stages:      *)
(* expired sessions are reclaimed from a snapshot of their rows, then old  *)
(* stage files that no session names are removed.  It holds no path lease; *)
(* only the registry of active files and its own marker keep it and an     *)
(* upload apart.  m.pc is the place in the code.                           *)
(***************************************************************************)
EXTENDS UploadState

MGoto(pc) == m' = IF pc = "rest" THEN Resting ELSE [m EXCEPT !.pc = pc]

\* Done with one expired row.
NextRow == m' = [m EXCEPT !.pc = "page", !.snap[m.at] = NoRow, !.at = NoIno]
Release == marker' = FALSE

\* try_claim_stale_entry
try_claim_stale_entry == ~active /\ ~marker

\* cleanup_expired_upload_sessions_batch: read the expired rows.  When the
\* query fails, stages without a session are left alone in this scan.
ReadExpired ==
    /\ up /\ m.pc = "rest"
    /\ \/ /\ m' = [Resting EXCEPT !.pc = "page", !.todo = expired_upload_sessions(rows),
                       !.snap = [o \in Owners |-> IF o \in expired_upload_sessions(rows)
                                                   THEN rows[o] ELSE NoRow]]
          /\ UNCHANGED used
       \/ Fault /\ m' = [Resting EXCEPT !.pc = "snapshot", !.skip = TRUE]
    /\ UNCHANGED <<store, names, registry, h, client, up>>

\* The next row of the page, or on to the scan.
NextExpired ==
    /\ m.pc = "page"
    /\ \/ \E o \in m.todo :
             m' = [m EXCEPT !.pc = "match", !.at = o, !.todo = @ \ {o}]
       \/ m.todo = {} /\ MGoto("snapshot")
    /\ UNCHANGED <<store, names, registry, h, client, up, used>>

Snapped == m.snap[m.at]

\* Mutant: the claim survives the error.
SessionError_Leaks ==
    /\ m.pc \in {"match", "claim", "rematch", "purge", "drop_row"}
    /\ Fault
    /\ m' = [m EXCEPT !.pc = "page", !.skip = TRUE, !.snap[m.at] = NoRow, !.at = NoIno]
    /\ UNCHANGED <<store, names, registry, h, client, up>>

\* One inaccessible artifact ends this row only.
SessionError ==
    /\ m.pc \in {"match", "claim", "rematch", "purge", "drop_row"}
    /\ Fault
    /\ m' = [m EXCEPT !.pc = "page", !.skip = TRUE, !.snap[m.at] = NoRow, !.at = NoIno]
    /\ Release
    /\ UNCHANGED <<store, names, active, h, client, up>>

\* cleanup_expired_upload_session up to the claim.  A missing stage directory
\* ends in the removal of the row as well.
MatchExpired ==
    /\ m.pc = "match"
    /\ LET matches == expired_upload_session_matches(rows, m.at, Snapped)
           final == \/ Snapped.state \in {"committed", "unknown"}
                    \/ Snapped.state = "rejected" /\ Snapped.ino = NoIno
       IN  \/ ~matches /\ NextRow
           \/ matches /\ ~final /\ MGoto("claim")
           \/ matches /\ (final \/ stage = NoIno) /\ MGoto("drop_row")
    /\ UNCHANGED <<store, names, registry, h, client, up, used>>

\* The claimed entry also stays protected from the scan that follows.
ClaimExpired ==
    /\ m.pc = "claim"
    /\ IF try_claim_stale_entry
         THEN marker' = TRUE /\ m' = [m EXCEPT !.pc = "rematch", !.protected = TRUE]
         ELSE NextRow /\ UNCHANGED marker
    /\ UNCHANGED <<store, names, active, h, client, up, used>>

\* Mutant: the row is not compared again under the claim.
RematchExpired_Skipped ==
    /\ m.pc = "rematch"
    /\ MGoto("purge")
    /\ UNCHANGED <<store, names, registry, h, client, up, used>>

RematchExpired ==
    /\ m.pc = "rematch"
    /\ IF expired_upload_session_matches(rows, m.at, Snapped)
         THEN MGoto("purge") /\ UNCHANGED marker
         ELSE NextRow /\ Release
    /\ UNCHANGED <<store, names, active, h, client, up, used>>

\* cleanup_expired_running_upload: a file under the name that is not the one
\* recorded is not touched; the row goes in any case.
PurgeExpired ==
    /\ m.pc = "purge"
    /\ remove_file_if_identity(Snapped.ino)
    /\ MGoto("drop_row")
    /\ UNCHANGED <<store, target, registry, h, client, up, used>>

remove_expired_upload_record ==
    /\ m.pc = "drop_row"
    /\ SetRows(remove_expired_upload_session_if_matches(rows, m.at, Snapped))
    /\ NextRow /\ Release
    /\ UNCHANGED <<names, active, h, client, up, used>>

-------------------------------------------------------------------------------
(* The scan for stages that no session names *)

\* load_tracked_upload_snapshot_page: live rows protect their stage; a stage
\* that is not the one its row names stops the removal of stages.
TrackedSnapshot ==
    /\ m.pc = "snapshot"
    /\ LET live == {o \in Owners : Live(rows[o]) /\ stage # NoIno}
       IN  IF \E o \in live : stage # rows[o].ino
             THEN m' = [m EXCEPT !.pc = "visit", !.skip = TRUE] /\ UNCHANGED used
             ELSE \/ /\ m' = [m EXCEPT !.pc = "visit", !.protected = @ \/ live # {}]
                     /\ UNCHANGED used
                  \/ Fault /\ m' = [m EXCEPT !.pc = "visit", !.skip = TRUE]
    /\ UNCHANGED <<store, names, registry, h, client, up>>

\* collect_stale_internal_files_batch at the stage name: age, snapshot and
\* claim, each read at its own time.
VisitStage ==
    /\ m.pc = "visit"
    /\ MGoto(IF stage = NoIno \/ ~aged \/ m.skip \/ m.protected THEN "rest"
                                                              ELSE "claim_stale")
    /\ UNCHANGED <<store, names, registry, h, client, up, used>>

ClaimStale ==
    /\ m.pc = "claim_stale"
    /\ IF try_claim_stale_entry THEN MGoto("bound") /\ marker' = TRUE
                                ELSE MGoto("rest") /\ UNCHANGED marker
    /\ UNCHANGED <<store, names, active, h, client, up, used>>

\* should_preserve_stale_state_path: the table is asked again under the claim,
\* and an error preserves the file.
should_preserve_stale_state_path ==
    /\ m.pc = "bound"
    /\ \/ state_path_is_bound(rows) /\ MGoto("rest") /\ Release /\ UNCHANGED used
       \/ ~state_path_is_bound(rows) /\ MGoto("remove") /\ UNCHANGED <<marker, used>>
       \/ Fault /\ MGoto("rest") /\ Release
    /\ UNCHANGED <<store, names, active, h, client, up>>

\* remove_entry_blocking unlinks by name; the parent is synced after the batch.
remove_entry_blocking ==
    /\ m.pc = "remove"
    /\ \/ stage' = NoIno /\ aged' = FALSE /\ UNCHANGED used
       \/ Fault /\ UNCHANGED <<stage, aged>>
    /\ MGoto("sync_removed") /\ Release
    /\ UNCHANGED <<store, target, disk, file, active, h, client, up>>

SyncRemoved ==
    /\ m.pc = "sync_removed"
    /\ \/ disk' = [disk EXCEPT !.stage = stage] /\ UNCHANGED used
       \/ Fault /\ UNCHANGED disk
    /\ MGoto("rest")
    /\ UNCHANGED <<store, stage, target, file, aged, registry, h, client, up>>

Upkeep ==
    \/ ReadExpired \/ NextExpired \/ SessionError \/ MatchExpired \/ ClaimExpired
    \/ RematchExpired \/ PurgeExpired \/ remove_expired_upload_record
    \/ TrackedSnapshot \/ VisitStage \/ ClaimStale \/ should_preserve_stale_state_path
    \/ remove_entry_blocking \/ SyncRemoved
===============================================================================
