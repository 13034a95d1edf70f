---------------------------- MODULE UploadSteps -----------------------------
(***************************************************************************)
(* The transfer of the body, its checkpoints and its publication, storage  *)
(* maintenance, other programs, the passing of time and power failures     *)
(* keep the promises of upload sessions.                                   *)
(***************************************************************************)
EXTENDS UploadPromises

-----------------------------------------------------------------------------
(* Steps of the transfer that leave table and names alone: the request goes *)
(* on,                                                                      *)
LEMMA GoKeeps ==
    ASSUME IndInv, Promises, Owning, h.pc # "track_fresh",
           NEW p \in {"timeout", "body", "precommit", "metadata", "space", "check", "rename"}, Goto(p),
           UNCHANGED <<store, names, marker, m, active, told, effect>>,
           p \in {"check", "rename"} => h.pc \in {"publish", "check"},
           ~ReuseInodes /\ p = "timeout" /\ Resume => Anchored,
           p \in {"body", "precommit", "metadata", "space"} => InTransfer,
           p \in {"body", "precommit"} => h.pc \in {"reserve", "body", "precommit"}
    PROVE  Promises' /\ Honest
<1>1. Fits /\ Unpublished /\ h \in Requests /\ active = TRUE BY StageHeld
<1>2. Carries /\ h'.pc = p /\ h'.ino = h.ino BY <1>1, GotoFields
<1>3. Fits' BY <1>1, <1>2, GotoFits DEF store, names
<1>4. Promises' BY <1>2, <1>3, Rests
<1> QED BY <1>4 DEF Honest

(* checkpoints its stage, *)
LEMMA CheckpointKeeps ==
    ASSUME IndInv, Promises, Owning, h.pc # "track_fresh",
           NEW j \in StageJobs \ {"initial", "rebind"}, NEW n, Persist(j, n),
           UNCHANGED <<store, names, marker, m, active, told, effect>>,
           ~ReuseInodes => file[h.ino].len >= n,
           j = "awaiting" => Settling,
           j \in {"partial", "short", "commit"} => InTransfer,
           j # "timeout" \/ (j = "timeout" /\ Resume) => Anchored,
           j \in {"commit", "awaiting"} => n = Len
    PROVE  Promises' /\ Honest
<1>1. Fits /\ Unpublished /\ h \in Requests /\ active = TRUE BY StageHeld
<1>2. Carries /\ h'.pc = "sync" /\ h'.ino = h.ino /\ h'.job = j /\ h'.size = n
  BY <1>1, PersistFields
<1>3. Fits' BY <1>1, <1>2, PersistFits DEF store, names
<1>4. Promises' BY <1>2, <1>3, Rests
<1> QED BY <1>4 DEF Honest

(* discards it, *)
LEMMA DiscardLater ==
    ASSUME IndInv, Promises, Owning, h.pc # "track_fresh",
           NEW t, h' = [h EXCEPT !.pc = "discard", !.then = t],
           UNCHANGED <<store, names, marker, m, active, told, effect>>
    PROVE  Promises' /\ Honest
<1>1. Fits /\ Unpublished /\ h \in Requests /\ active = TRUE BY StageHeld
<1>2. Carries /\ h'.pc = "discard" /\ h'.ino = h.ino BY <1>1, DiscardFields, Zenon
<1>3. Fits' /\ ~Owning' BY <1>1, <1>2, DiscardFits DEF store, names
<1>4. Promises' BY <1>2, <1>3, Rests
<1> QED BY <1>4 DEF Honest

(* or ends. *)
LEMMA StageEnds ==
    ASSUME IndInv, Promises, Owning, NEW a, a # "committed", Finish(a),
           UNCHANGED <<store, names, marker, m>>, effect' \in {effect, "stage"}
    PROVE  Promises' /\ Honest
<1>1. Fits /\ Unpublished BY StageHeld
<1> QED BY <1>1, EndHonest

(* The stage at the places of the transfer. *)
LEMMA Transferring ==
    ASSUME IndInv, Promises, h.pc \in {"body", "precommit", "metadata", "space"}
    PROVE  Owning /\ InTransfer /\ Anchored /\ h.pc # "track_fresh"
BY DEF Owning, InTransfer, Anchored

(* A chunk of the body is written, *)
LEMMA ChunkPromises ==
    ASSUME IndInv, Promises, WriteChunk
    PROVE  Promises' /\ Honest
<1>1. /\ h.pc = "body" /\ h' = h /\ UNCHANGED <<store, stage, target, disk, active, marker, m, told>>
      /\ file' = [file EXCEPT ![h.ino].len = @ + 1] /\ Mutates
  BY DEF WriteChunk, registry
<1>2. Owning BY <1>1 DEF Owning
<1>3. Fits /\ h.ino \in Inodes /\ file[h.ino] \in File /\ Unpublished BY <1>2, StageHeld
<1> DEFINE g == [file[h.ino] EXCEPT !.len = @ + 1]
<1>4. file' = [file EXCEPT ![h.ino] = g] /\ g.by = file[h.ino].by /\ g.synced = file[h.ino].synced
  BY <1>1, <1>3 DEF File
<1> HIDE DEF g
<1>5. \A i \in Inodes : file'[i].by = file[i].by BY <1>4, WrittenBy
<1>6. ASSUME SessionOK PROVE RowsOK' BY <1>1, <1>2, <1>4, <1>6, SyncedRows, Zenon DEF SessionOK, store
<1>7. Fits'
  <2>1. effect' # "target" BY <1>1, <1>3, MutatesEffect, UnpublishedEffect
  <2>2. HistoryOK'
    BY <1>1, <1>3, <2>1
    DEF Fits, HistoryOK, Unpublished, Settling, Renamed, Saving, Storing, store
  <2>3. ASSUME HoldsOK PROVE HoldsOK'
    BY <1>1, <1>2, <1>3, <1>5, <2>3
    DEF HoldsOK, Owning, Anchored, InTransfer, Saving, Storing, SyncsParent, Resume, store
  <2>4. ASSUME SizesOK PROVE SizesOK' BY <1>1, <2>4 DEF SizesOK, Saving, Storing, store, Resume
  <2>5. Registered' => active' BY <1>1, <1>3 DEF Fits, Registered, Resume
  <2> QED BY <1>3, <2>2, <2>3, <2>4, <2>5 DEF Fits
<1>8. Promises' BY <1>1, <1>2, <1>5, <1>6, <1>7, WritesRest
<1> QED BY <1>1, <1>8 DEF Honest

(* and the body ends, is refused, breaks off or takes too long. *)
LEMMA BodyPromises ==
    ASSUME IndInv, Promises, BodyEnds \/ BodyRefused \/ BodyBreaks \/ BodyTimesOut
    PROVE  Promises' /\ Honest
<1>1. h.pc = "body" /\ UNCHANGED <<store, stage, target, disk, aged, marker, m>>
  BY DEF BodyEnds, BodyRefused, BodyBreaks, BodyTimesOut, names, registry
<1>2. Owning /\ InTransfer /\ Anchored /\ h.pc # "track_fresh" BY <1>1, Transferring
<1>3. /\ h.ino \in Inodes /\ file[h.ino] \in File /\ h \in Requests BY <1>2, StageHeld
<1>4. CASE BodyEnds
  BY <1>1, <1>2, <1>4, GoKeeps DEF BodyEnds, registry, client
<1>5. CASE BodyRefused
  <2>1. CASE Finish("awaiting") /\ UNCHANGED <<file, effect>>
    BY <1>1, <1>2, <2>1, StageEnds DEF names
  <2>2. CASE Resume /\ file' = [file EXCEPT ![h.ino] = RolledBack(@)] /\ Finish("running") /\ Mutates
    <3> DEFINE g == RolledBack(file[h.ino])
    <3>1. file' = [file EXCEPT ![h.ino] = g] BY <2>2
    <3>2. g.by = file[h.ino].by /\ g.synced \in {h.off, file[h.ino].synced} BY <1>3, CutFile
    <3>3. effect' \in {effect, "stage"} BY <2>2, MutatesEffect
    <3> HIDE DEF g
    <3> QED BY <1>1, <2>2, <3>1, <3>2, <3>3, RollbackKeeps, Zenon
  <2>3. CASE ResetThen("rejected") /\ UNCHANGED <<file, active, told, effect>>
    BY <1>1, <1>2, <2>3, ResetKeeps DEF names
  <2> QED BY <1>5, <2>1, <2>2, <2>3, Zenon DEF BodyRefused
<1>6. CASE BodyBreaks
  <2>0. UNCHANGED <<store, names, marker, m, effect>> BY <1>6 DEF BodyBreaks
  <2>1. CASE Finish("awaiting") BY <1>2, <2>0, <2>1, StageEnds
  <2>2. ASSUME NEW n \in {file[h.ino].len, file[h.ino].len - 1} \intersect (h.off .. Len),
               Persist("partial", n), UNCHANGED <<active, told>>
        PROVE  Promises' /\ Honest
    <3>1. file[h.ino].len >= n BY <1>3, <2>2, UploadAssumption DEF File, Offsets
    <3>2. "partial" \in StageJobs \ {"initial", "rebind"} BY DEF StageJobs
    <3> QED BY <1>2, <2>0, <2>2, <3>1, <3>2, CheckpointKeeps
  <2>3. CASE (\E t \in {"rejected", "unknown"} : ResetThen(t)) /\ UNCHANGED <<active, told>>
    BY <1>2, <2>0, <2>3, ResetKeeps
  <2> QED BY <1>6, <2>1, <2>2, <2>3, Zenon DEF BodyBreaks
<1>7. CASE BodyTimesOut
  <2>0. UNCHANGED <<store, names, marker, m, effect>> BY <1>7 DEF BodyTimesOut
  <2>1. CASE Finish("awaiting") BY <1>2, <2>0, <2>1, StageEnds
  <2>2. CASE Goto("timeout") /\ UNCHANGED <<active, told>>
    BY <1>1, <1>2, <2>0, <2>2, GoKeeps
  <2> QED BY <1>7, <2>1, <2>2, Zenon DEF BodyTimesOut
<1> QED BY <1>4, <1>5, <1>6, <1>7

(* The stage is written to, and no byte that was on disk is lost. *)
LEMMA TouchRest ==
    ASSUME IndInv, Promises, Owning, Fits', UNCHANGED <<store, stage, target, disk, marker, m>>,
           NEW g, g.by = file[h.ino].by, g.synced \in {file[h.ino].synced, file[h.ino].len},
           ~ReuseInodes => g.synced >= file[h.ino].synced,
           file' = [file EXCEPT ![h.ino] = g] \/ file' = file,
           active' => active \/ ~marker, Owning' => Owning /\ h'.ino = h.ino
    PROVE  Promises'
<1>1. \A i \in Inodes : file'[i].by = file[i].by BY WrittenBy
<1>2. ASSUME ~ReuseInodes, SessionOK PROVE RowsOK'
  <2>1. CASE file' = file BY <1>2, <2>1 DEF SessionOK, RowsOK, store
  <2>2. CASE file' = [file EXCEPT ![h.ino] = g]
    <3>1. h.owner \in Owners /\ h.ino \in Inodes /\ file[h.ino] \in File BY StageHeld
    <3>2. file[h.ino].synced \in Nat /\ file[h.ino].len \in Nat /\ rows[h.owner].off \in Nat
      BY <3>1, UploadAssumption DEF File, Offsets, IndInv, TypeOK, Row
    <3>3. file[h.ino].synced >= rows[h.owner].off => g.synced >= rows[h.owner].off
      BY <1>2, <3>2
    <3> QED BY <1>2, <2>2, <3>3, SyncedRows, Zenon DEF SessionOK, store
  <2> QED BY <2>1, <2>2
<1> QED BY <1>1, <1>2, WritesRest

(* finish_timed_out_upload keeps what was received. *)
LEMMA TimedOutPromises ==
    ASSUME IndInv, Promises, finish_timed_out_upload
    PROVE  Promises' /\ Honest
<1>1. h.pc = "timeout" /\ UNCHANGED <<store, names, marker, m, effect>>
  BY Zenon DEF finish_timed_out_upload
<1>2. Owning /\ h.pc # "track_fresh" /\ (Resume => Anchored) BY <1>1 DEF Owning, Anchored
<1>3. CASE Persist("timeout", file[h.ino].len) /\ UNCHANGED <<active, told>>
  <2>1. "timeout" \in StageJobs \ {"initial", "rebind"} BY DEF StageJobs
  <2>2. file[h.ino].len >= file[h.ino].len
    BY <1>2, StageHeld, UploadAssumption DEF File, Offsets
  <2> QED BY <1>1, <1>2, <1>3, <2>1, <2>2, CheckpointKeeps
<1>4. CASE h' = [h EXCEPT !.pc = "discard", !.then = "reset"] /\ UNCHANGED <<active, told>>
  BY <1>1, <1>2, <1>4, DiscardLater, Zenon
<1>5. CASE Fails
  <2>1. PICK a \in {"unknown", "not_started"} : Finish(a) BY <1>5 DEF Fails
  <2> QED BY <1>1, <1>2, <2>1, StageEnds
<1> QED BY <1>3, <1>4, <1>5, Zenon DEF finish_timed_out_upload

(* The length received is compared with the length declared, *)
LEMMA TransferredPromises ==
    ASSUME IndInv, Promises, CheckTransferred
    PROVE  Promises' /\ Honest
<1>1. h.pc = "precommit" /\ UNCHANGED <<store, stage, target, disk, aged, marker, m>>
  BY Zenon DEF CheckTransferred
<1>2. Owning /\ InTransfer /\ Anchored /\ h.pc # "track_fresh" BY <1>1, Transferring
<1>3. ASSUME NEW a \in {"awaiting", "running", "unknown", "not_started"}, Finish(a),
             UNCHANGED <<file, effect>>
      PROVE  Promises' /\ Honest
  BY <1>1, <1>2, <1>3, StageEnds DEF names
<1>4. CASE ResetThen("rejected") /\ UNCHANGED <<file, active, told, effect>>
  BY <1>1, <1>2, <1>4, ResetKeeps DEF names
<1>5. CASE SpaceFailure BY <1>1, <1>5, SpacePromises
<1>6. ASSUME NEW p \in {"timeout", "metadata"}, Goto(p), UNCHANGED <<file, active, told, effect>>
      PROVE  Promises' /\ Honest
  BY <1>1, <1>2, <1>6, GoKeeps DEF names
<1>7. CASE Persist("short", file[h.ino].len) /\ UNCHANGED <<file, active, told, effect>>
  <2>1. "short" \in StageJobs \ {"initial", "rebind"} BY DEF StageJobs
  <2>2. file[h.ino].len >= file[h.ino].len
    BY <1>2, StageHeld, UploadAssumption DEF File, Offsets
  <2>3. UNCHANGED names BY <1>1, <1>7 DEF names
  <2> QED BY <1>1, <1>2, <1>7, <2>1, <2>2, <2>3, CheckpointKeeps
<1> QED
  BY <1>3, <1>4, <1>5, <1>6, <1>7, Zenon DEF CheckTransferred, PrecommitError, Fails, CheckLength

(* the stage is given the attributes of the target, *)
LEMMA ReplayPromises ==
    ASSUME IndInv, Promises, ReplayMetadata
    PROVE  Promises' /\ Honest
<1>1. h.pc = "metadata" /\ UNCHANGED <<store, stage, target, disk, aged, marker, m>>
  BY Zenon DEF ReplayMetadata
<1>2. Owning /\ InTransfer /\ Anchored /\ h.pc # "track_fresh" BY <1>1, Transferring
<1>3. CASE Goto("space") /\ UNCHANGED <<file, active, told, effect>>
  BY <1>1, <1>2, <1>3, GoKeeps DEF names
<1>4. CASE file' = [file EXCEPT ![h.ino].meta = h.tid] /\ Mutates
  <2> DEFINE g == [file[h.ino] EXCEPT !.meta = h.tid]
  <2>1. /\ Fits /\ Unpublished /\ h \in Requests /\ active = TRUE /\ h.ino \in Inodes
        /\ file[h.ino] \in File
    BY <1>2, StageHeld
  <2>2. effect' \in {effect, "stage"} BY <1>4, MutatesEffect
  <2>3. /\ file' = [file EXCEPT ![h.ino] = g] /\ g.by = file[h.ino].by
        /\ g.synced = file[h.ino].synced /\ g.synced >= file[h.ino].synced
    BY <1>4, <2>1, UploadAssumption DEF File, Offsets
  <2> HIDE DEF g
  <2>4. file'[h.ino].by = file[h.ino].by BY <2>1, <2>3, WrittenBy
  <2>5. CASE Goto("space") /\ UNCHANGED <<active, told>>
    <3>1. Carries /\ h'.pc = "space" /\ h'.ino = h.ino BY <2>1, <2>5, GotoFields
    <3>2. Fits' BY <1>1, <1>2, <2>1, <2>2, <2>4, <2>5, <3>1, GotoFits DEF store
    <3>3. Promises' BY <1>1, <1>2, <2>3, <2>5, <3>1, <3>2, TouchRest, Zenon
    <3> QED BY <2>5, <3>3 DEF Honest
  <2>6. CASE Finish("awaiting")
    <3>1. h'.pc = "done" /\ active' = FALSE /\ told' \in {told, "awaiting"}
      BY <2>6, FinishFields, Zenon
    <3>2. Fits' /\ ~Owning' BY <3>1, DoneFits
    <3>3. Promises' BY <1>1, <1>2, <2>3, <3>1, <3>2, TouchRest, Zenon
    <3>4. landed' = landed BY <1>1 DEF store
    <3> QED BY <2>1, <2>2, <3>1, <3>3, <3>4, HonestEnd
  <2>7. ASSUME NEW t, ResetThen(t), UNCHANGED <<active, told>> PROVE Promises' /\ Honest
    <3>1. Carries /\ h'.pc = "reset" BY <2>1, <2>7, ResetFields, Zenon
    <3>2. Fits' /\ ~Owning' BY <1>1, <2>1, <2>2, <2>7, <3>1, ResetFits DEF store
    <3>3. Promises' BY <1>1, <1>2, <2>3, <2>7, <3>2, TouchRest, Zenon
    <3> QED BY <2>7, <3>3 DEF Honest
  <2> QED BY <1>4, <2>5, <2>6, <2>7, Zenon DEF ReplayMetadata
<1> QED BY <1>3, <1>4, Zenon DEF ReplayMetadata

(* the space left is looked at again, *)
LEMMA SpaceCheckPromises ==
    ASSUME IndInv, Promises, CheckSpace
    PROVE  Promises' /\ Honest
<1>1. h.pc = "space" /\ UNCHANGED <<store, names, marker, m, effect>> BY Zenon DEF CheckSpace
<1>2. Owning /\ InTransfer /\ Anchored /\ h.pc # "track_fresh" BY <1>1, Transferring
<1>3. CASE Persist("commit", Len) /\ UNCHANGED <<active, told>>
  <2>1. "commit" \in StageJobs \ {"initial", "rebind"} BY DEF StageJobs
  <2>2. file[h.ino].len >= Len
    BY <1>1, UploadAssumption DEF IndInv, Handling, StageOK, Whole
  <2> QED BY <1>1, <1>2, <1>3, <2>1, <2>2, CheckpointKeeps
<1>4. CASE Finish("awaiting") BY <1>1, <1>2, <1>4, StageEnds
<1>5. CASE ResetThen("rejected") /\ UNCHANGED <<active, told>> BY <1>1, <1>2, <1>5, ResetKeeps
<1> QED BY <1>3, <1>4, <1>5, Zenon DEF CheckSpace

(* and the target is compared with the revision the client has seen. *)
LEMMA CheckReplacePromises ==
    ASSUME IndInv, Promises, CheckReplace
    PROVE  Promises' /\ Honest
<1>1. h.pc = "check" /\ UNCHANGED <<store, names, active, marker, m, told, effect>>
  BY DEF CheckReplace, registry, client
<1>2. Owning /\ Anchored /\ Settling /\ h.pc # "track_fresh" BY <1>1 DEF Owning, Anchored, Settling
<1>3. CASE Goto("rename") BY <1>1, <1>2, <1>3, GoKeeps
<1>4. CASE Persist("awaiting", Len)
  <2>1. "awaiting" \in StageJobs \ {"initial", "rebind"} BY DEF StageJobs
  <2>2. file[h.ino].len >= Len
    BY <1>1, UploadAssumption DEF IndInv, Handling, StageOK, Whole
  <2> QED BY <1>1, <1>2, <1>4, <2>1, <2>2, CheckpointKeeps
<1>5. CASE ResetThen("refuse") BY <1>1, <1>2, <1>5, ResetKeeps
<1>6. CASE Record("unknown", Len)
  <2>1. Fits /\ Unpublished /\ h \in Requests /\ active = TRUE BY <1>2, StageHeld
  <2>2. Carries /\ h'.pc = "save" /\ h'.job = "unknown" BY <1>6, <2>1, RecordFields
  <2>3. ~Owning' BY <2>2 DEF Owning, StageJobs
  <2>4. HistoryOK'
    BY <1>1, <1>2, <2>1, <2>2
    DEF Fits, HistoryOK, Unpublished, Settling, Renamed, Saving, Storing, Carries, store
  <2>5. HoldsOK'
    BY <2>2, <2>3 DEF HoldsOK, Anchored, InTransfer, Saving, Storing, StageJobs
  <2>6. SizesOK' BY <2>2 DEF SizesOK, Saving, Storing, StageJobs
  <2>7. Fits' BY <1>1, <2>1, <2>4, <2>5, <2>6 DEF Fits
  <2>8. Promises' BY <1>1, <2>3, <2>7, Rests
  <2> QED BY <1>1, <2>8 DEF Honest
<1> QED BY <1>3, <1>4, <1>5, <1>6, Zenon DEF CheckReplace

-----------------------------------------------------------------------------
(* A checkpoint that could not be stored. *)
LEMMA FailedFits ==
    ASSUME IndInv, Promises, h.pc \in {"sync", "save"}, PersistFailed,
           landed'[h.owner] => landed[h.owner], effect' \in {effect, "stage"},
           \A i \in Inodes : file'[i].by = file[i].by
    PROVE  Fits' /\ ~Owning' /\ Honest /\ (active' => active)
<1>1. Fits BY PromisesFit
<1>2. h \in Requests /\ (Owning <=> h.job \in StageJobs) BY SavedJob
<1>3. h.job \in StageJobs => Owning /\ Unpublished /\ active = TRUE
  BY <1>2, StageHeld, Zenon
<1>4. CASE /\ h' = [h EXCEPT !.pc = "discard", !.then = "reset"] /\ UNCHANGED <<active, told>>
           /\ h.job \in StageJobs
  <2>1. Carries /\ h'.pc = "discard" /\ h'.ino = h.ino BY <1>2, <1>4, DiscardFields, Zenon
  <2>2. effect' # "target" /\ ~landed[h.owner] BY <1>1, <1>3, <1>4, UnpublishedEffect
  <2>3. HistoryOK'
    BY <2>1, <2>2 DEF HistoryOK, Unpublished, Settling, Renamed, Saving, Storing, Carries
  <2>4. ~Owning' BY <2>1 DEF Owning
  <2>5. ASSUME HoldsOK PROVE HoldsOK'
    BY <1>3, <1>4, <2>1, <2>4, <2>5 DEF HoldsOK, Anchored, InTransfer, Saving, Storing, Carries
  <2>6. SizesOK' BY <2>1 DEF SizesOK, Saving, Storing
  <2>7. Fits' BY <1>1, <1>3, <1>4, <2>3, <2>5, <2>6 DEF Fits
  <2> QED BY <1>4, <2>4, <2>7 DEF Honest
<1>5. CASE ResetThen("rejected") /\ UNCHANGED <<active, told>> /\ h.job \in StageJobs
  <2>1. Carries /\ h'.pc = "reset" BY <1>2, <1>5, ResetFields, Zenon
  <2>2. effect' # "target" /\ ~landed[h.owner] BY <1>1, <1>3, <1>5, UnpublishedEffect
  <2>3. HistoryOK'
    BY <2>1, <2>2 DEF HistoryOK, Unpublished, Settling, Renamed, Saving, Storing, Carries
  <2>4. ~Owning' BY <2>1 DEF Owning
  <2>5. HoldsOK' BY <2>1, <2>4 DEF HoldsOK, Anchored, InTransfer, Saving, Storing
  <2>6. SizesOK' BY <2>1 DEF SizesOK, Saving, Storing
  <2>7. Fits' BY <1>3, <1>5, <2>3, <2>5, <2>6 DEF Fits
  <2> QED BY <1>5, <2>4, <2>7 DEF Honest
<1>6. ASSUME NEW a, Finish(a), a = "unknown" \/ (a = "rejected" /\ h.job = "refuse")
      PROVE  Fits' /\ ~Owning' /\ Honest /\ (active' => active)
  <2>1. h'.pc = "done" /\ active' = FALSE /\ told' \in {told, a} BY <1>6, FinishFields, Zenon
  <2>2. Fits' /\ ~Owning' BY <2>1, DoneFits
  <2>3. CASE a = "unknown" BY <2>1, <2>2, <2>3 DEF Honest
  <2>4. CASE a = "rejected" /\ h.job = "refuse"
    <3>1. Unpublished BY <2>4 DEF Unpublished, Saving
    <3>2. Honest BY <1>1, <2>1, <2>4, <3>1, HonestEnd
    <3> QED BY <2>1, <2>2, <3>2
  <2> QED BY <1>6, <2>3, <2>4
<1> QED BY <1>4, <1>5, <1>6 DEF PersistFailed, StageJobs

(* sync_and_identify_stage: the stage is on disk before a row says so, *)
LEMMA SyncPromises ==
    ASSUME IndInv, SyncedOK, Promises, sync_and_identify_stage
    PROVE  Promises' /\ Honest
<1> DEFINE g == [file[h.ino] EXCEPT !.synced = file[h.ino].len]
<1>1. h.pc = "sync" /\ UNCHANGED <<store, stage, target, aged, marker, m, effect>>
  BY Zenon DEF sync_and_identify_stage
<1>2. Owning /\ h.job \in StageJobs BY <1>1, SavedJob
<1>3. /\ Fits /\ Unpublished /\ h \in Requests /\ h.owner \in Owners /\ active = TRUE
      /\ h.ino \in Inodes /\ file[h.ino] \in File /\ h.pc # "track_fresh"
  BY <1>1, <1>2, StageHeld
<1>4. g.by = file[h.ino].by /\ g.synced = file[h.ino].len /\ g.len = file[h.ino].len
  BY <1>3 DEF File
<1>5. g.synced >= file[h.ino].synced BY <1>3, <1>4, UploadAssumption DEF SyncedOK, File, Offsets
<1> HIDE DEF g
<1>6. file' = [file EXCEPT ![h.ino] = g] \/ file' = file
  BY Zenon DEF sync_and_identify_stage, g
<1>7. \A i \in Inodes : file'[i].by = file[i].by BY <1>4, <1>6, WrittenBy
<1>8. CASE PersistFailed /\ UNCHANGED disk
  <2>1. landed' = landed BY <1>1 DEF store
  <2>2. Fits' /\ ~Owning' /\ Honest /\ (active' => active)
    BY <1>1, <1>7, <1>8, <2>1, FailedFits
  <2>3. UNCHANGED disk BY <1>8
  <2> QED BY <1>1, <1>2, <1>4, <1>5, <1>6, <2>2, <2>3, TouchRest
<1>9. CASE /\ stage = h.ino /\ file' = [file EXCEPT ![h.ino] = g]
           /\ Goto("save") /\ UNCHANGED <<active, told>>
           /\ IF SyncsParent THEN disk' = [disk EXCEPT !.stage = stage] ELSE UNCHANGED disk
  <2>1. /\ Carries /\ h'.pc = "save" /\ h'.ino = h.ino /\ h'.job = h.job /\ h'.size = h.size
    BY <1>3, <1>9, GotoFields
  <2>2. /\ disk'.target = disk.target /\ disk'.stage \in {disk.stage, stage}
        /\ SyncsParent => disk'.stage = stage
    BY <1>9 DEF IndInv, TypeOK
  <2>3. file'[h.ino] = g BY <1>3, <1>9 DEF IndInv, TypeOK
  <2>4. Owning' BY <1>2, <2>1 DEF Owning
  <2>5. HistoryOK'
    BY <1>1, <1>2, <1>3, <2>1
    DEF Fits, HistoryOK, Unpublished, Settling, Renamed, Saving, Storing, Carries, store,
        StageJobs
  <2>6. ASSUME HoldsOK PROVE HoldsOK'
    <3>1. SyncsParent \/ Anchored BY <1>1 DEF Anchored
    <3>2. disk'.stage = h.ino BY <1>9, <2>2, <2>6, <3>1 DEF HoldsOK
    <3>3. InTransfer' => InTransfer BY <1>1, <2>1 DEF InTransfer, Storing
    <3>4. Storing({"initial"})' => Storing({"initial"}) BY <1>1, <2>1 DEF Storing
    <3> QED
      BY <1>1, <1>2, <1>7, <1>9, <2>1, <2>4, <2>6, <3>2, <3>3, <3>4 DEF HoldsOK, Carries, store, Resume
  <2>7. ASSUME SizesOK PROVE SizesOK'
    BY <1>1, <1>4, <2>1, <2>3, <2>7 DEF SizesOK, Saving, Storing, Carries, store, Resume
  <2>8. Fits' BY <1>3, <1>9, <2>5, <2>6, <2>7 DEF Fits
  <2>9. TableOK' BY <1>1 DEF Promises, TableOK, store
  <2>10. CrashOK'
    BY <1>1, <1>2, <1>7, <2>1, <2>2 DEF Promises, CrashOK, store
  <2>11. RegistryOK' BY <1>1, <1>9, <2>8, Zenon DEF Promises, RegistryOK, Fits
  <2>12. ASSUME SessionOK PROVE RowsOK'
    <3>1. file[h.ino].by = h.owner BY <1>2, <2>12 DEF SessionOK, HoldsOK
    <3>2. \A i \in Inodes : i # h.ino => file'[i] = file[i] BY <1>9 DEF IndInv, TypeOK
    <3>3. /\ rows[h.owner].off \in Nat /\ file[h.ino].synced \in Nat /\ g.synced \in Nat
      BY <1>3, <1>4, UploadAssumption DEF IndInv, TypeOK, Row, File, Offsets
    <3>4. ASSUME NEW o \in Owners
          PROVE  /\ Live(rows[o]) => rows[o].ino \in Inodes
                 /\ rows[o].ino \in Inodes \intersect {stage, disk.stage} => file[rows[o].ino].by = o
                 /\ Live(rows[o]) /\ rows[o].ino \in {stage, disk.stage}
                       => file[rows[o].ino].synced >= rows[o].off
                 /\ Live(rows[o]) /\ rows[o].ino = stage => disk.stage = stage
      BY <2>12, <3>4 DEF SessionOK, RowsOK
    <3>5. ASSUME NEW o \in Owners
          PROVE  Live(rows[o]) /\ rows[o].ino \in {stage, disk.stage}
                    => file'[rows[o].ino].synced >= rows[o].off
      BY <1>3, <1>5, <2>3, <3>1, <3>2, <3>3, <3>4
    <3>6. ASSUME NEW o \in Owners
          PROVE  Live(rows[o]) /\ rows[o].ino = stage => disk'.stage = stage
      BY <2>2, <3>4
    <3> QED BY <1>1, <1>7, <2>2, <3>4, <3>5, <3>6 DEF RowsOK, store
  <2>13. ASSUME PurgeOK PROVE PurgeOK' BY <1>1, <2>13 DEF PurgeOK, store, Snapped
  <2>14. DurableOK' BY <2>8, <2>12, <2>13 DEF Promises, Fits, DurableOK, SessionOK
  <2>15. Promises' BY <2>8, <2>9, <2>10, <2>11, <2>14 DEF Promises, Fits
  <2> QED BY <1>9, <2>15 DEF Honest
<1> QED BY <1>8, <1>9, Zenon DEF sync_and_identify_stage, g

(* and before it is renamed (SyncStagedFile). *)
LEMMA PublishPromises ==
    ASSUME IndInv, SyncedOK, Promises, SyncStagedFile
    PROVE  Promises' /\ Honest
<1> DEFINE g == [file[h.ino] EXCEPT !.synced = file[h.ino].len]
<1>1. h.pc = "publish" /\ UNCHANGED <<store, stage, target, disk, aged, active, marker, m, told, effect>>
  BY DEF SyncStagedFile, registry, client
<1>2. Owning /\ h.pc # "track_fresh" BY <1>1 DEF Owning
<1>3. /\ Fits /\ Unpublished /\ h \in Requests /\ h.ino \in Inodes /\ file[h.ino] \in File
      /\ active = TRUE
  BY <1>1, <1>2, StageHeld
<1>4. CASE (ResetThen("rejected") \/ ResetThen("refuse")) /\ UNCHANGED file
  BY <1>1, <1>2, <1>4, ResetKeeps DEF names
<1>5. CASE file' = [file EXCEPT ![h.ino] = g] /\ Goto("check")
  <2>1. g.by = file[h.ino].by /\ g.synced = file[h.ino].len BY <1>3 DEF File
  <2>2. g.synced >= file[h.ino].synced
    BY <1>3, <2>1, UploadAssumption DEF SyncedOK, File, Offsets
  <2> HIDE DEF g
  <2>3. file'[h.ino].by = file[h.ino].by BY <1>3, <1>5, <2>1, WrittenBy
  <2>4. Carries /\ h'.pc = "check" /\ h'.ino = h.ino BY <1>3, <1>5, GotoFields
  <2>5. Fits' BY <1>1, <1>2, <1>3, <2>3, <2>4, GotoFits DEF store
  <2>6. Promises' BY <1>1, <1>2, <1>5, <2>1, <2>2, <2>4, <2>5, TouchRest, Zenon
  <2> QED BY <1>1, <2>6 DEF Honest
<1> QED BY <1>4, <1>5, Zenon DEF SyncStagedFile

(* The rename takes the stage's name away and publishes the session, *)
LEMMA RenamePromises ==
    ASSUME IndInv, Promises, rename_replace_if_unchanged
    PROVE  Promises' /\ Honest
<1>1. h.pc = "rename" /\ UNCHANGED <<rows, disk, file, aged, active, marker, m, told>>
  BY DEF rename_replace_if_unchanged, registry
<1>2. Owning /\ Anchored /\ Settling /\ h.pc # "track_fresh" BY <1>1 DEF Owning, Anchored, Settling
<1>3. /\ Fits /\ h \in Requests /\ h.owner \in Owners /\ active = TRUE /\ h.ino \in Inodes
  BY <1>1, <1>2, StageHeld
<1>4. CASE Persist("awaiting", Len) /\ UNCHANGED <<stage, target, landed, effect>>
  <2>1. "awaiting" \in StageJobs \ {"initial", "rebind"} BY DEF StageJobs
  <2>2. file[h.ino].len >= Len
    BY <1>1, UploadAssumption DEF IndInv, Handling, StageOK, Whole
  <2>3. UNCHANGED <<store, names, effect>> BY <1>1, <1>4 DEF store, names
  <2> QED BY <1>1, <1>2, <1>4, <2>1, <2>2, <2>3, CheckpointKeeps
<1>5. CASE ResetThen("refuse") /\ UNCHANGED <<stage, target, landed, effect>>
  BY <1>1, <1>2, <1>5, ResetKeeps DEF store, names
<1>6. CASE /\ stage # NoIno /\ target' = stage /\ stage' = NoIno
           /\ landed' = [landed EXCEPT ![h.owner] = TRUE]
           /\ effect' = "target" /\ Goto("sync_parents")
  <2>1. Carries /\ h'.pc = "sync_parents" BY <1>3, <1>6, GotoFields
  <2>2. target' = h.ino /\ NoIno \notin Inodes
    BY <1>2, <1>6, UploadAssumption DEF IndInv, Handling, StageOK
  <2>3. /\ landed'[h.owner] = TRUE
        /\ \A o \in Owners : o # h.owner => landed'[o] = landed[o]
    BY <1>3, <1>6 DEF IndInv, TypeOK
  <2>4. rows[h.owner].state = "commit_started" BY <1>2, <1>3 DEF Fits, HistoryOK
  <2>5. ~Owning' BY <2>1 DEF Owning
  <2>6. HistoryOK'
    BY <1>1, <1>6, <2>1, <2>3, <2>4
    DEF HistoryOK, Unpublished, Settling, Renamed, Saving, Storing, Carries
  <2>7. HoldsOK' BY <2>1, <2>5 DEF HoldsOK, Anchored, InTransfer, Saving, Storing
  <2>8. SizesOK' BY <2>1 DEF SizesOK, Saving, Storing
  <2>9. Fits' BY <1>1, <1>3, <2>6, <2>7, <2>8 DEF Fits
  <2>10. TableOK' BY <1>1, <2>3, <2>4, Zenon DEF Promises, TableOK
  <2>11. CrashOK' BY <1>1, <1>2, <1>6, <2>2, <2>5, Zenon DEF Promises, CrashOK
  <2>12. RegistryOK' BY <1>1, <1>3, <2>9, Zenon DEF Promises, RegistryOK, Fits
  <2>13. ASSUME RowsOK PROVE RowsOK' BY <1>1, <1>6, <2>2, <2>13, Zenon DEF RowsOK
  <2>14. ASSUME RowsOK, PurgeOK PROVE PurgeOK'
    BY <1>1, <1>6, <2>2, <2>12, <2>14
    DEF RowsOK, PurgeOK, Snapped, expired_upload_session_matches, Promises, RegistryOK
  <2>15. DurableOK' BY <2>9, <2>13, <2>14 DEF Promises, Fits, DurableOK, SessionOK
  <2>16. Promises' BY <2>9, <2>10, <2>11, <2>12, <2>15 DEF Promises, Fits
  <2> QED BY <1>1, <2>16 DEF Honest
<1> QED BY <1>4, <1>5, <1>6, Zenon DEF rename_replace_if_unchanged

(* and the sync of its directories makes that final. *)
LEMMA ParentsPromises ==
    ASSUME IndInv, Promises, sync_renamed_parents
    PROVE  Promises' /\ Honest
<1>1. /\ h.pc = "sync_parents"
      /\ UNCHANGED <<store, stage, target, file, aged, active, marker, m, told, effect>>
  BY DEF sync_renamed_parents, registry, client
<1>2. Fits /\ h \in Requests BY PromisesFit DEF IndInv, Handling, RequestOK
<1>3. rows[h.owner].state = "commit_started" /\ landed[h.owner] /\ stage = NoIno /\ active
  BY <1>1, <1>2 DEF Fits, HistoryOK, Settling, Renamed, Registered
<1>4. PICK j \in {"committed", "unknown"} :
         /\ Record(j, Len)
         /\ \/ disk' = [stage |-> stage, target |-> target]
            \/ j = "unknown" /\ disk' = disk
  BY Zenon DEF sync_renamed_parents
<1>5. Carries /\ h'.pc = "save" /\ h'.job = j BY <1>2, <1>4, RecordFields
<1>6. \/ disk'.stage = stage /\ disk'.target = target
      \/ j = "unknown" /\ disk' = disk
  BY <1>4
<1>7. ~Owning' BY <1>5 DEF Owning, StageJobs
<1>8. HistoryOK'
  BY <1>1, <1>3, <1>5, <1>6
  DEF HistoryOK, Unpublished, Settling, Renamed, Saving, Storing, Carries, store
<1>9. HoldsOK' BY <1>5, <1>7 DEF HoldsOK, Anchored, InTransfer, Saving, Storing, StageJobs
<1>10. SizesOK' BY <1>5 DEF SizesOK, Saving, Storing, StageJobs
<1>11. Fits' BY <1>1, <1>3, <1>8, <1>9, <1>10 DEF Fits
<1>12. TableOK' BY <1>1 DEF Promises, TableOK, store
<1>13. CrashOK' BY <1>1, <1>6, <1>7, Zenon DEF Promises, CrashOK, store
<1>14. RegistryOK' BY <1>1, <1>11, Zenon DEF Promises, RegistryOK, Fits
<1>15. ASSUME RowsOK PROVE RowsOK' BY <1>1, <1>6, <1>15 DEF RowsOK, store
<1>16. ASSUME PurgeOK PROVE PurgeOK' BY <1>1, <1>16 DEF PurgeOK, store, Snapped
<1>17. DurableOK' BY <1>11, <1>15, <1>16 DEF Promises, Fits, DurableOK, SessionOK
<1>18. Promises' BY <1>11, <1>12, <1>13, <1>14, <1>17 DEF Promises, Fits
<1> QED BY <1>1, <1>18 DEF Honest

-----------------------------------------------------------------------------
(* The table after a sweep, *)
LEMMA SweptTable ==
    ASSUME NEW t \in [Owners -> Row]
    PROVE  Swept(t) \in [Owners -> Row]
BY FieldValues, Zenon DEF Swept

(* and the row that is proposed. *)
LEMMA ProposedRow ==
    ASSUME IndInv, h.pc = "save"
    PROVE  Proposal \in Row
<1>1. /\ h \in Requests /\ h.owner \in Owners
  BY DEF IndInv, Handling, RequestOK
<1>2. rows[h.owner] \in Row BY <1>1 DEF IndInv, TypeOK
<1>3. /\ h.size \in Offsets /\ h.ino \in Inodes \union {NoIno} /\ h.pol \in Revisions \union {NoRev}
  BY <1>1 DEF Requests
<1>4. /\ rows[h.owner].ino \in Inodes \union {NoIno}
      /\ rows[h.owner].rev \in Revisions \union {NoRev}
  BY <1>2 DEF Row
<1>5. ASSUME NEW s \in States, NEW n \in Offsets, NEW i \in Inodes \union {NoIno},
             NEW v \in Revisions \union {NoRev}
      PROVE  [state |-> s, off |-> n, ino |-> i, rev |-> v, expired |-> FALSE] \in Row
  BY Zenon DEF Row
<1>6. {"commit_started", "awaiting", "running", "rejected", "unknown", "committed"} \subseteq States
  BY DEF States, NonTerminal, Terminal
<1>7. [[state |-> "running", off |-> h.size, ino |-> h.ino, rev |-> h.pol, expired |-> FALSE]
          EXCEPT !.rev = rows[h.owner].rev] \in Row
  BY <1>3, <1>4, <1>5, <1>6, Zenon DEF Row
<1> QED BY <1>3, <1>4, <1>5, <1>6, <1>7, FieldValues DEF Proposal

(* A save leaves the table as it was, sweeps it, or also stores the row. *)
LEMMA SaveTable ==
    ASSUME IndInv, TableOK, h.pc = "save", NEW fault \in BOOLEAN,
           NEW out \in save_upload_session(rows, h.owner, Proposal, fault), SetRows(out.table)
    PROVE  IF out.ok THEN Saves ELSE Saves \/ Shrinks
<1> DEFINE t == Swept(rows)
           p == [Proposal EXCEPT !.expired = FALSE]
           s == [t EXCEPT ![h.owner] = p]
<1>1. rows \in [Owners -> Row] /\ h.owner \in Owners /\ t \in [Owners -> Row]
  BY SweptTable DEF IndInv, TypeOK, Handling, RequestOK
<1>2. Proposal \in Row BY ProposedRow
<1>3. p = Proposal
  <2>1. Proposal.expired = FALSE BY DEF Proposal
  <2> QED BY <1>2, <2>1 DEF Row
<1>4. \A x \in Owners : t[x] \in {rows[x], NoRow} BY <1>1 DEF Swept
<1>5. \/ Accepts(t, h.owner, Proposal) /\ out.table = s
      \/ ~out.ok /\ out.table \in {rows, t}
  BY DEF save_upload_session
<1> HIDE DEF t
<1>6. CASE ~out.ok /\ out.table \in {rows, t}
  <2>1. \A x \in Owners : out.table[x] \in {rows[x], NoRow} BY <1>4, <1>6, Zenon
  <2> QED BY <1>6, <2>1, ShrinkTable
<1>7. CASE Accepts(t, h.owner, Proposal) /\ out.table = s
  <2>1. s[h.owner] = Proposal /\ \A x \in Owners \ {h.owner} : s[x] = t[x]
    BY <1>1, <1>3
  <2> HIDE DEF s, p
  <2>2. rows' = s BY <1>7 DEF SetRows
  <2>3. \A o \in Owners : landed'[o] = (/\ landed[o] /\ s[o].state # "none"
                                        /\ Disposable(rows[o]) => s[o] = rows[o])
    BY <1>7, Zenon DEF SetRows
  <2>4. landed'[h.owner] => landed[h.owner] BY <1>1, <2>3, Zenon
  <2>5. landed[h.owner] /\ ~Disposable(rows[h.owner]) /\ Proposal.state # "none" => landed'[h.owner]
    BY <1>1, <2>1, <2>3, Zenon
  <2>6. ASSUME NEW x \in Owners \ {h.owner}
        PROVE  \/ rows'[x] = rows[x] /\ landed'[x] = landed[x]
               \/ rows'[x] = NoRow /\ landed'[x] = FALSE
    <3>1. s[x] = t[x] /\ x \in Owners BY <2>1, <2>6
    <3>2. CASE t[x] = NoRow
      <4>1. s[x].state = "none" BY <3>1, <3>2 DEF NoRow
      <4>2. ~landed'[x] BY <2>3, <3>1, <4>1, Zenon
      <4>3. landed'[x] \in BOOLEAN BY <2>3, <3>1, Zenon
      <4> QED BY <2>2, <3>1, <3>2, <4>2, <4>3, Zenon
    <3>3. CASE t[x] = rows[x]
      <4>1. rows'[x] = rows[x] BY <2>2, <3>1, <3>3
      <4>2. landed[x] => rows[x].state # "none" BY <3>1 DEF TableOK
      <4>3. landed[x] \in BOOLEAN BY <3>1 DEF IndInv, TypeOK
      <4>4. landed'[x] = landed[x] BY <2>3, <3>1, <3>3, <4>2, <4>3, Zenon
      <4> QED BY <4>1, <4>4
    <3> QED BY <1>4, <3>1, <3>2, <3>3, Zenon
  <2> QED BY <1>7, <2>1, <2>2, <2>4, <2>5, <2>6, Zenon DEF Saves, t
<1> QED BY <1>5, <1>6, <1>7

(* What the request proposes, by what it saves. *)
LEMMA ProposalFields ==
    ASSUME IndInv, h.pc = "save"
    PROVE  /\ Proposal \in Row /\ Proposal.expired = FALSE
           /\ h.job \in StageJobs => Proposal.ino = h.ino
           /\ h.job \notin StageJobs => Proposal.ino = rows[h.owner].ino
           /\ h.job \in {"commit", "awaiting"} => Proposal.off = Len
           /\ h.job \in StageJobs \ {"commit", "awaiting"}
                 => Proposal.state = "running" /\ Proposal.off = h.size
           /\ h.job = "commit" => Proposal.state = "commit_started"
           /\ h.job = "awaiting" => Proposal.state = "awaiting"
           /\ h.job = "refuse" => Proposal.state = "rejected" /\ Proposal.off = 0
           /\ h.job = "unknown" => Proposal.state = "unknown" /\ Proposal.off = Len
           /\ h.job = "committed" => Proposal.state = "committed" /\ Proposal.off = Len
<1>1. Proposal \in Row BY ProposedRow
<1>2. h.job \in Jobs \ {"none"} BY SavedJob
<1> QED BY <1>1, <1>2 DEF Proposal, StageJobs, Jobs

(* The promises that are not about the request, after a save. *)
LEMMA SaveRest ==
    ASSUME IndInv, Promises, h.pc = "save", Fits', Saves, UNCHANGED <<names, marker, m>>,
           active' => active, Owning' => Owning /\ h'.ino = h.ino,
           h.job = "committed" => ~Owning'
    PROVE  Promises'
<1> DEFINE p == Proposal
<1>1. Fits /\ h \in Requests /\ h.owner \in Owners /\ h.job \in Jobs \ {"none"}
  BY PromisesFit, SavedJob DEF IndInv, Handling, RequestOK
<1>2. /\ p \in Row /\ p.expired = FALSE
      /\ h.job \in StageJobs => p.ino = h.ino
      /\ h.job \notin StageJobs => p.ino = rows[h.owner].ino
      /\ h.job \in {"commit", "awaiting"} => p.off = Len
      /\ h.job \in StageJobs \ {"commit", "awaiting"} => p.state = "running" /\ p.off = h.size
      /\ h.job = "commit" => p.state = "commit_started"
      /\ h.job = "awaiting" => p.state = "awaiting"
      /\ h.job = "refuse" => p.state = "rejected" /\ p.off = 0
      /\ h.job = "unknown" => p.state = "unknown" /\ p.off = Len
      /\ h.job = "committed" => p.state = "committed" /\ p.off = Len
  BY ProposalFields, Zenon
<1> HIDE DEF p
<1>3. /\ rows'[h.owner] = p /\ (landed'[h.owner] => landed[h.owner])
      /\ landed[h.owner] /\ ~Disposable(rows[h.owner]) /\ p.state # "none" => landed'[h.owner]
      /\ \A x \in Owners \ {h.owner} : \/ rows'[x] = rows[x] /\ landed'[x] = landed[x]
                                       \/ rows'[x] = NoRow /\ landed'[x] = FALSE
  BY Zenon DEF Saves, p
<1>4. landed[h.owner] => h.job \in {"committed", "unknown"}
  BY <1>1, Zenon DEF Fits, HistoryOK, Unpublished, Saving
<1>5. h.job = "committed" => /\ landed[h.owner] /\ rows[h.owner].state = "commit_started"
                             /\ stage = NoIno /\ disk.stage = NoIno
                             /\ target \in Inodes => target = disk.target
  BY <1>1, Zenon DEF Fits, HistoryOK, Settling, Renamed, Saving
<1>6. ~marker /\ m.pc \notin {"purge", "remove"}
  BY <1>1, Zenon DEF Fits, Registered, Promises, RegistryOK
<1>7. TableOK'
  <2>1. p.state = "committed" => landed'[h.owner]
    <3>1. p.state = "committed" => h.job = "committed" BY <1>1, <1>2 DEF Jobs, StageJobs
    <3>2. h.job = "committed" => ~Disposable(rows[h.owner]) BY <1>5 DEF Disposable
    <3> QED BY <1>2, <1>3, <1>5, <3>1, <3>2, Zenon
  <2>2. landed'[h.owner] => p.state \in {"commit_started", "committed", "unknown"}
    BY <1>2, <1>3, <1>4
  <2>3. p.state \in {"commit_started", "awaiting", "committed"} => p.off = Len
    BY <1>1, <1>2, Zenon DEF Jobs, StageJobs
  <2>4. ASSUME NEW x \in Owners \ {h.owner}
        PROVE  /\ rows'[x].state = "committed" => landed'[x]
               /\ landed'[x] => rows'[x].state \in {"commit_started", "committed", "unknown"}
               /\ rows'[x].state \in {"commit_started", "awaiting", "committed"}
                     => rows'[x].off = Len
    <3>1. \/ rows'[x] = rows[x] /\ landed'[x] = landed[x]
          \/ rows'[x].state = "none" /\ landed'[x] = FALSE
      BY <1>3, <2>4, NothingStored, Zenon
    <3> QED BY <2>4, <3>1 DEF Promises, TableOK
  <2> QED BY <1>3, <2>1, <2>2, <2>3, <2>4, Zenon DEF TableOK
<1>8. CrashOK'
  <2>1. ASSUME NEW o \in Owners, NEW i \in Inodes, rows'[o].state = "committed", file[i].by = o
        PROVE  /\ i \notin {stage, disk.stage} /\ ~(Owning' /\ h'.ino = i)
               /\ i = target => i = disk.target
    <3>1. CASE o = h.owner
      <4>1. h.job = "committed" BY <1>1, <1>2, <1>3, <2>1, <3>1, Zenon DEF Jobs, StageJobs
      <4> QED BY <1>5, <2>1, <4>1, UploadAssumption, Zenon
    <3>2. CASE o # h.owner
      <4>1. rows[o].state = "committed" 
        BY <1>3, <2>1, <3>2, NothingStored, Zenon
      <4> QED BY <2>1, <4>1, Zenon DEF Promises, CrashOK
    <3> QED BY <3>1, <3>2
  <2> QED BY <2>1 DEF CrashOK, names
<1>9. RegistryOK' BY Zenon DEF Promises, RegistryOK, Fits
<1>10. ASSUME SessionOK PROVE RowsOK'
  <2>1. ASSUME h.job \in StageJobs
        PROVE  /\ h.ino \in Inodes /\ file[h.ino].by = h.owner /\ stage = h.ino
               /\ disk.stage = h.ino /\ file[h.ino].synced >= p.off
    BY <1>2, <1>10, <2>1, Zenon DEF SessionOK, HoldsOK, SizesOK, Owning, Anchored, Saving, Storing
  <2>2. /\ Live(p) => h.job \in StageJobs
        /\ p.ino \in Inodes \intersect {stage, disk.stage} => file[p.ino].by = h.owner
    BY <1>1, <1>2, <1>10, <2>1, Zenon DEF SessionOK, RowsOK, Live, NonTerminal, Jobs, StageJobs
  <2>3. ASSUME NEW x \in Owners \ {h.owner}
        PROVE  rows'[x] = rows[x] \/ (~Live(rows'[x]) /\ rows'[x].ino \notin Inodes)
    BY <1>3, <2>3, NothingStored, Zenon
  <2> QED BY <1>2, <1>3, <1>10, <2>1, <2>2, <2>3, ZenonT(40) DEF SessionOK, RowsOK, names
<1>11. ASSUME SessionOK PROVE PurgeOK'
  <2>1. ASSUME m.pc = "drop_row", Live(Snapped), expired_upload_session_matches(rows', m.at, Snapped)
        PROVE  stage # Snapped.ino
    <3>1. m.at \in Owners BY <2>1 DEF Promises, RegistryOK
    <3>2. Snapped.expired /\ rows'[m.at] = Snapped BY <2>1, Zenon DEF expired_upload_session_matches
    <3>3. m.at # h.owner BY <1>2, <1>3, <3>2, Zenon
    <3>4. rows'[m.at] = rows[m.at] 
      BY <1>3, <2>1, <3>1, <3>2, <3>3, NothingStored, Zenon
    <3> QED BY <1>6, <1>11, <2>1, <3>2, <3>4, Zenon DEF SessionOK, PurgeOK, expired_upload_session_matches
  <2> QED BY <1>6, <2>1 DEF PurgeOK, names, Snapped
<1>12. DurableOK' BY <1>10, <1>11 DEF Promises, Fits, DurableOK, SessionOK
<1> QED BY <1>7, <1>8, <1>9, <1>12 DEF Promises, Fits

(* The request after a save that succeeded. *)
LEMMA SavedFits ==
    ASSUME IndInv, Promises, h.pc = "save", Persisted, Saves, UNCHANGED names, Mutates
    PROVE  /\ Fits' /\ Honest /\ (active' => active)
           /\ Owning' => Owning /\ h'.ino = h.ino /\ h.job # "committed"
<1>1. Fits /\ h \in Requests /\ h.owner \in Owners /\ h.job \in Jobs \ {"none"}
  BY PromisesFit, SavedJob DEF IndInv, Handling, RequestOK
<1>2. rows'[h.owner] = Proposal /\ (landed'[h.owner] => landed[h.owner]) BY Zenon DEF Saves
<1>3. effect' \in {effect, "stage"} BY MutatesEffect
<1>4. h.job \notin {"committed", "unknown"} => Unpublished /\ ~landed'[h.owner] /\ effect' # "target"
  BY <1>1, <1>2, <1>3, UnpublishedEffect DEF Unpublished, Saving
<1>5. ASSUME NEW q \in {"reserve", "publish"}, After(q),
             q = "reserve" => h.job \in {"initial", "rebind"}, q = "publish" => h.job = "commit"
      PROVE  Fits' /\ UNCHANGED <<active, told>> /\ Owning /\ h'.ino = h.ino
  <2>1. Carries /\ h'.pc = q /\ h'.ino = h.ino /\ UNCHANGED <<active, told>>
    BY <1>1, <1>5, AfterFields
  <2>2. Owning /\ active = TRUE
    <3>1. Owning BY <1>5 DEF Owning, StageJobs
    <3> QED BY <3>1, StageHeld
  <2>3. /\ rows'[h.owner].ino = h.ino
        /\ q = "reserve" => rows'[h.owner].state = "running" /\ rows'[h.owner].off = h.size
        /\ q = "publish" => rows'[h.owner].state = "commit_started"
    BY <1>2, <1>5, ProposalFields, Zenon DEF StageJobs
  <2>4. HistoryOK'
    BY <1>4, <1>5, <2>1, <2>3, Zenon
    DEF HistoryOK, Unpublished, Settling, Renamed, Saving, Storing, Carries
  <2>5. ASSUME HoldsOK PROVE HoldsOK'
    <3>1. stage = h.ino /\ disk.stage = h.ino
      BY <1>5, <2>5 DEF HoldsOK, Anchored, Saving, StageJobs
    <3>2. ~Storing({"initial"})' BY <2>1, Zenon DEF Storing
    <3> QED BY <1>5, <2>1, <2>2, <2>3, <2>5, <3>1, <3>2, Zenon DEF HoldsOK, InTransfer, Storing, Carries, names
  <2>6. ASSUME SizesOK, HoldsOK PROVE SizesOK'
    <3>1. h'.pc \notin {"sync", "save", "truncate", "rebind"} BY <1>5, <2>1
    <3>2. Resume' <=> Resume BY <2>1 DEF Carries, Resume
    <3>3. h.off \in Nat BY <1>1, UploadAssumption DEF Requests, Offsets
    <3>4. h.job = "initial" => ~Resume BY <2>6 DEF HoldsOK, Storing
    <3>5. h.job = "rebind" => h.size = h.off BY <2>6 DEF SizesOK, Storing
    <3>6. q = "reserve" /\ Resume => rows'[h.owner].off <= h.off
      BY <1>5, <2>3, <3>3, <3>4, <3>5
    <3> QED BY <1>5, <2>1, <3>1, <3>2, <3>6 DEF SizesOK, Saving, Storing, Carries
  <2>7. Fits' BY <1>1, <2>1, <2>2, <2>4, <2>5, <2>6 DEF Fits
  <2> QED BY <2>1, <2>2, <2>7
<1>6. ASSUME NEW a, Finish(a),
             \/ a = "unknown"
             \/ a \in {"running", "awaiting", "rejected"} /\ h.job \notin {"committed", "unknown"}
             \/ a = "committed" /\ h.job = "committed"
      PROVE  Fits' /\ ~Owning' /\ Honest /\ (active' => active)
  <2>1. h'.pc = "done" /\ active' = FALSE /\ told' \in {told, a} BY <1>6, FinishFields, Zenon
  <2>2. Fits' /\ ~Owning' BY <2>1, DoneFits
  <2>3. CASE a = "unknown" BY <2>1, <2>2, <2>3 DEF Honest
  <2>4. CASE a \in {"running", "awaiting", "rejected"} /\ h.job \notin {"committed", "unknown"}
    BY <1>4, <2>1, <2>2, <2>4 DEF Honest
  <2>5. CASE a = "committed" /\ h.job = "committed"
    <3>1. landed[h.owner] /\ rows[h.owner].state = "commit_started"
      BY <1>1, <2>5 DEF Fits, HistoryOK, Settling, Renamed, Saving
    <3>2. ~Disposable(rows[h.owner]) BY <3>1 DEF Disposable
    <3>3. Proposal.state = "committed" BY <2>5, ProposalFields
    <3>4. landed'[h.owner] BY <3>1, <3>2, <3>3, Zenon DEF Saves
    <3> QED BY <2>1, <2>2, <2>5, <3>4, Zenon DEF Honest
  <2> QED BY <1>6, <2>3, <2>4, <2>5
<1>7. CASE \E q \in {"reserve", "publish"} :
              /\ After(q) /\ (q = "reserve" => h.job \in {"initial", "rebind"})
              /\ q = "publish" => h.job = "commit"
  <2>1. /\ Fits' /\ UNCHANGED <<active, told>> /\ Owning /\ h'.ino = h.ino
        /\ h.job # "committed"
    BY <1>5, <1>7
  <2> QED BY <2>1 DEF Honest
<1> QED BY <1>1, <1>6, <1>7 DEF Persisted, Jobs, StageJobs

(* persist_state. *)
LEMMA PersistPromises ==
    ASSUME IndInv, Promises, persist_state
    PROVE  Promises' /\ Honest
<1>1. h.pc = "save" /\ Mutates /\ UNCHANGED <<names, marker, m>> BY Zenon DEF persist_state
<1>2. PICK fault \in BOOLEAN : \E out \in save_upload_session(rows, h.owner, Proposal, fault) :
          SetRows(out.table) /\ (IF out.ok THEN Persisted ELSE PersistFailed)
  BY Zenon DEF persist_state
<1>3. PICK out \in save_upload_session(rows, h.owner, Proposal, fault) :
          SetRows(out.table) /\ (IF out.ok THEN Persisted ELSE PersistFailed)
  BY <1>2
<1>4. IF out.ok THEN Saves ELSE Saves \/ Shrinks
  <2>1. TableOK BY DEF Promises
  <2> QED BY <1>1, <1>3, <2>1, SaveTable
<1>5. m.pc # "purge"
  BY <1>1 DEF Registered, Promises, RegistryOK
<1>6. h.owner \in Owners BY <1>1 DEF IndInv, Handling, RequestOK
<1>7. CASE Saves /\ Persisted
  <2>1. /\ Fits' /\ Honest /\ (active' => active)
        /\ Owning' => Owning /\ h'.ino = h.ino /\ h.job # "committed"
    BY <1>1, <1>7, SavedFits
  <2>2. Promises' BY <1>1, <1>7, <2>1, SaveRest
  <2> QED BY <2>1, <2>2
<1>8. CASE PersistFailed /\ (Saves \/ Shrinks)
  <2>1. landed'[h.owner] => landed[h.owner] BY <1>6, <1>8, Zenon DEF Saves, Shrinks
  <2>2. effect' \in {effect, "stage"} /\ file' = file BY <1>1, MutatesEffect DEF names
  <2>3. Fits' /\ ~Owning' /\ Honest /\ (active' => active)
    BY <1>1, <1>8, <2>1, <2>2, FailedFits, Zenon
  <2>4. Promises' BY <1>1, <1>5, <1>8, <2>3, SaveRest, ShrinkRest, Zenon
  <2> QED BY <2>3, <2>4
<1> QED BY <1>3, <1>4, <1>7, <1>8

-----------------------------------------------------------------------------
(* Storage maintenance: the request, the table and the registry of active    *)
(* uploads rest; the stage loses its name only while no upload is registered.*)
LEMMA UpkeepRest ==
    ASSUME IndInv, Promises, UNCHANGED <<store, h, active, told, effect, target>>,
           disk'.target = disk.target, stage' \in {stage, NoIno},
           disk'.stage \in {disk.stage, stage'}, stage' = stage \/ ~active,
           \A i \in Inodes : \/ file'[i] = file[i]
                             \/ i \notin {h.ino, stage', disk'.stage, target, disk.target},
           m' \in Upkeeps, ~(active /\ marker'),
           m'.pc \in {"rematch", "purge", "bound", "remove"} => marker',
           m'.pc \in {"match", "claim", "rematch", "purge", "drop_row"} => m'.at \in Owners,
           \A o \in Owners : m'.snap[o].state # "commit_started",
           ~ReuseInodes /\ SessionOK => PurgeOK'
    PROVE  Promises' /\ Honest
<1>0. Fits /\ NoIno \notin Inodes BY PromisesFit, UploadAssumption, Zenon
<1>1. TableOK' BY Zenon DEF Promises, TableOK, store
<1>2. HistoryOK'
  BY <1>0, Zenon DEF Fits, HistoryOK, Unpublished, Settling, Renamed, Saving, Storing, store
<1>3. Owning' <=> Owning BY Zenon DEF Owning
<1>4. ASSUME NEW o \in Owners, NEW i \in Inodes, rows[o].state = "committed", file'[i].by = o
      PROVE  /\ i \notin {stage', disk'.stage} /\ ~(Owning /\ h.ino = i)
             /\ i = target => i = disk'.target
  <2>1. CASE file'[i] = file[i] BY <1>0, <1>4, <2>1, Zenon DEF Promises, CrashOK
  <2>2. CASE i \notin {h.ino, stage', disk'.stage, target, disk.target} BY <2>2, Zenon
  <2> QED BY <2>1, <2>2, Zenon
<1>5. CrashOK' BY <1>3, <1>4, Zenon DEF CrashOK, store
<1>6. Registered' => active' BY <1>0, Zenon DEF Fits, Registered, Resume
<1>7. RegistryOK' BY <1>6, Zenon DEF RegistryOK
<1>8. ASSUME RowsOK PROVE RowsOK'
  <2>1. \A i \in Inodes : i \in {stage', disk'.stage} => file'[i] = file[i] BY Zenon
  <2> QED BY <1>0, <1>8, <2>1, ZenonT(40) DEF RowsOK, store
<1>9. ASSUME HoldsOK PROVE HoldsOK'
  <2>1. Anchored => stage' = stage
    BY <1>0, Zenon DEF Fits, Anchored, InTransfer, Storing, Saving, Registered
  <2>2. (Anchored' <=> Anchored) /\ (InTransfer' <=> InTransfer) /\ (Resume' <=> Resume)
    BY DEF Anchored, InTransfer, Storing, Saving, SyncsParent, Resume
  <2>3. h.ino \in Inodes => file'[h.ino] = file[h.ino] BY Zenon
  <2> QED BY <1>0, <1>3, <1>9, <2>1, <2>2, <2>3, Zenon DEF HoldsOK, Storing, store
<1>10. ASSUME SizesOK, HoldsOK PROVE SizesOK'
  <2>1. h.pc \in {"sync", "truncate", "rebind"} \/ Saving(StageJobs) => Owning
    BY Zenon DEF IndInv, Handling, RequestOK, Owning, Saving
  <2>2. Owning => file'[h.ino] = file[h.ino] BY <1>10 DEF HoldsOK
  <2> QED BY <1>10, <2>1, <2>2, Zenon DEF SizesOK, Saving, Storing, Resume, store
<1>11. DurableOK' BY <1>8, <1>9, <1>10, Zenon DEF Promises, DurableOK, SessionOK
<1> QED BY <1>1, <1>2, <1>5, <1>7, <1>11, Zenon DEF Promises, Honest

(* The same of a step that only moves maintenance on. *)
LEMMA UpkeepMoves ==
    ASSUME IndInv, Promises, UNCHANGED <<store, names, h, active, client>>,
           m' \in Upkeeps, ~(active /\ marker'),
           m'.pc \in {"rematch", "purge", "bound", "remove"} => marker',
           m'.pc \in {"match", "claim", "rematch", "purge", "drop_row"} => m'.at \in Owners,
           \A o \in Owners : m'.snap[o].state # "commit_started",
           ~ReuseInodes /\ SessionOK => PurgeOK'
    PROVE  Promises' /\ Honest
<1>1. UNCHANGED <<stage, target, disk, file, told, effect>> BY Zenon DEF names, client
<1> QED BY <1>1, UpkeepRest, Zenon

(* The places of maintenance that promise nothing. *)
LEMMA FreePurge ==
    ASSUME m'.pc \notin {"purge", "remove", "drop_row"} PROVE PurgeOK'
BY DEF PurgeOK

(* The fields of maintenance as it goes on, *)
LEMMA MGotoFields ==
    ASSUME m \in Upkeeps,
           NEW q \in {"rest", "claim", "purge", "drop_row", "snapshot", "claim_stale", "bound",
                      "remove", "sync_removed"}, MGoto(q)
    PROVE  /\ m' \in Upkeeps /\ m'.pc = q
           /\ q # "rest" => m'.snap = m.snap /\ m'.at = m.at
           /\ \A o \in Owners : m'.snap[o] \in {m.snap[o], NoRow}
<1>1. CASE q = "rest"
  <2>1. m' = Resting BY <1>1 DEF MGoto
  <2>2. Resting \in Upkeeps BY FieldValues, Zenon DEF Resting, Upkeeps
  <2> QED BY <1>1, <2>1, <2>2, Zenon DEF Resting
<1>2. CASE q # "rest"
  <2>1. m' = [m EXCEPT !.pc = q] BY <1>2 DEF MGoto
  <2> QED BY <1>2, <2>1 DEF Upkeeps
<1> QED BY <1>1, <1>2, Zenon

(* and when it is done with a row. *)
LEMMA NextRowFields ==
    ASSUME m \in Upkeeps, m.at \in Owners,
           \/ NextRow
           \/ m' = [m EXCEPT !.pc = "page", !.skip = TRUE, !.snap[m.at] = NoRow, !.at = NoIno]
    PROVE  m' \in Upkeeps /\ m'.pc = "page" /\ \A o \in Owners : m'.snap[o] \in {m.snap[o], NoRow}
<1>1. [m.snap EXCEPT ![m.at] = NoRow] \in [Owners -> Row] BY FieldValues DEF Upkeeps
<1>2. m'.snap = [m.snap EXCEPT ![m.at] = NoRow] /\ m'.pc = "page" BY Zenon DEF NextRow, Upkeeps
<1>3. m' \in Upkeeps
  <2>1. CASE NextRow BY <1>1, <2>1, Zenon DEF NextRow, Upkeeps
  <2>2. CASE m' = [m EXCEPT !.pc = "page", !.skip = TRUE, !.snap[m.at] = NoRow, !.at = NoIno]
    BY <1>1, <2>2, Zenon DEF Upkeeps
  <2> QED BY <2>1, <2>2
<1> QED BY <1>2, <1>3 DEF Upkeeps

(* The steps that only read: cleanup_expired_upload_sessions_batch, *)
LEMMA ReadPromises ==
    ASSUME IndInv, Promises, ReadExpired \/ NextExpired \/ SessionError
    PROVE  Promises' /\ Honest
<1>0. /\ m \in Upkeeps /\ ~(active /\ marker) /\ (\A o \in Owners : m.snap[o].state # "commit_started")
      /\ m.pc \in {"match", "claim", "rematch", "purge", "drop_row"} => m.at \in Owners
  BY Zenon DEF Promises, RegistryOK
<1>1. UNCHANGED <<store, names, h, active, client>> /\ marker' \in {marker, FALSE}
  BY Zenon DEF ReadExpired, NextExpired, SessionError, registry, Release
<1>2. ASSUME m' \in Upkeeps, m'.pc \in {"page", "match", "snapshot"},
             m'.pc = "match" => m'.at \in Owners,
             \A o \in Owners : m'.snap[o].state # "commit_started"
      PROVE  Promises' /\ Honest
  <2>1. PurgeOK' BY <1>2, FreePurge
  <2>2. ~(active /\ marker') BY <1>0, <1>1, Zenon
  <2>3. UNCHANGED <<store, names, h, active, client>> BY <1>1
  <2> QED BY <1>2, <2>1, <2>2, <2>3, UpkeepMoves
<1>3. CASE ReadExpired
  <2> DEFINE E == expired_upload_sessions(rows)
             S == [o \in Owners |-> IF o \in E THEN rows[o] ELSE NoRow]
  <2>1. E \subseteq Owners /\ \A o \in E : rows[o].state # "commit_started"
    BY DEF expired_upload_sessions
  <2>2. S \in [Owners -> Row] BY FieldValues DEF IndInv, TypeOK
  <2>3. Resting \in Upkeeps BY FieldValues, Zenon DEF Resting, Upkeeps
  <2>4. \A o \in Owners : S[o].state # "commit_started" BY <2>1 DEF NoRow
  <2>5. CASE m' = [Resting EXCEPT !.pc = "page", !.todo = E, !.snap = S]
    <3> HIDE DEF E, S
    <3>1. m' \in Upkeeps BY <2>1, <2>2, <2>3, <2>5, Zenon DEF Upkeeps
    <3>2. m'.pc = "page" /\ m'.snap = S BY <2>5, Zenon DEF Resting
    <3> QED BY <1>2, <2>4, <3>1, <3>2
  <2>6. CASE m' = [Resting EXCEPT !.pc = "snapshot", !.skip = TRUE]
    <3>1. m' \in Upkeeps BY <2>3, <2>6, Zenon DEF Upkeeps
    <3>2. m'.pc = "snapshot" /\ \A o \in Owners : m'.snap[o] = NoRow BY <2>6 DEF Resting
    <3> QED BY <1>2, <3>1, <3>2 DEF NoRow
  <2> QED BY <1>3, <2>5, <2>6, Zenon DEF ReadExpired
<1>4. CASE NextExpired
  <2>1. ASSUME NEW o \in m.todo, m' = [m EXCEPT !.pc = "match", !.at = o, !.todo = @ \ {o}]
        PROVE  Promises' /\ Honest
    <3>1. o \in Owners BY <1>0, <2>1 DEF Upkeeps
    <3>2. m' \in Upkeeps /\ m'.pc = "match" /\ m'.at = o /\ m'.snap = m.snap
      BY <1>0, <2>1, <3>1, Zenon DEF Upkeeps
    <3> QED BY <1>0, <1>2, <3>1, <3>2
  <2>2. CASE MGoto("snapshot")
    <3>1. m' \in Upkeeps /\ m'.pc = "snapshot" /\ m'.snap = m.snap BY <1>0, <2>2, MGotoFields
    <3> QED BY <1>0, <1>2, <3>1
  <2> QED BY <1>4, <2>1, <2>2, Zenon DEF NextExpired
<1>5. CASE SessionError
  <2>1. /\ m.at \in Owners
        /\ m' = [m EXCEPT !.pc = "page", !.skip = TRUE, !.snap[m.at] = NoRow, !.at = NoIno]
    BY <1>0, <1>5 DEF SessionError
  <2>2. m' \in Upkeeps /\ m'.pc = "page" /\ \A o \in Owners : m'.snap[o] \in {m.snap[o], NoRow}
    BY <1>0, <2>1, NextRowFields
  <2>3. \A o \in Owners : m'.snap[o].state # "commit_started" BY <1>0, <2>2 DEF NoRow
  <2> QED BY <1>2, <2>2, <2>3
<1> QED BY <1>3, <1>4, <1>5, Zenon

(* cleanup_expired_upload_session up to the purge, *)
LEMMA MatchPromises ==
    ASSUME IndInv, Promises, MatchExpired \/ ClaimExpired \/ RematchExpired
    PROVE  Promises' /\ Honest
<1>0. /\ m \in Upkeeps /\ ~(active /\ marker) /\ (\A o \in Owners : m.snap[o].state # "commit_started")
      /\ m.pc \in {"match", "claim", "rematch"} /\ m.at \in Owners
      /\ m.pc = "rematch" => marker
  BY DEF Promises, RegistryOK, MatchExpired, ClaimExpired, RematchExpired
<1>1. UNCHANGED <<store, names, h, active, client>>
  BY Zenon DEF MatchExpired, ClaimExpired, RematchExpired, registry
<1>2. CASE NextRow /\ marker' \in {marker, FALSE}
  <2>1. m' \in Upkeeps /\ m'.pc = "page" /\ \A o \in Owners : m'.snap[o] \in {m.snap[o], NoRow}
    BY <1>0, <1>2, NextRowFields, Zenon
  <2>2. \A o \in Owners : m'.snap[o].state # "commit_started" 
    BY <1>0, <2>1, NothingStored, Zenon
  <2>3. PurgeOK' BY <2>1, FreePurge
  <2>4. ~(active /\ marker') BY <1>0, <1>2, Zenon
  <2> QED BY <1>1, <2>1, <2>2, <2>3, <2>4, UpkeepMoves
<1>3. CASE MGoto("claim") /\ marker' = marker
  <2>1. m' \in Upkeeps /\ m'.pc = "claim" /\ m'.snap = m.snap /\ m'.at = m.at
    BY <1>0, <1>3, MGotoFields
  <2>2. PurgeOK' BY <2>1, FreePurge, Zenon
  <2> QED BY <1>0, <1>1, <1>3, <2>1, <2>2, UpkeepMoves
<1>4. CASE /\ MGoto("drop_row") /\ marker' = marker
           /\ expired_upload_session_matches(rows, m.at, Snapped)
           /\ \/ Snapped.state \in {"committed", "unknown"}
              \/ Snapped.state = "rejected" /\ Snapped.ino = NoIno
              \/ stage = NoIno
  <2>1. m' \in Upkeeps /\ m'.pc = "drop_row" /\ m'.snap = m.snap /\ m'.at = m.at
    BY <1>0, <1>4, MGotoFields, Zenon
  <2>2. ASSUME SessionOK PROVE PurgeOK'
    <3>1. Live(Snapped) => stage = NoIno BY <1>4, Zenon DEF Live, NonTerminal
    <3>2. Live(Snapped) => Snapped.ino # NoIno
      BY <1>0, <1>4, <2>2, UploadAssumption DEF SessionOK, RowsOK, expired_upload_session_matches
    <3>3. stage' = stage BY <1>1 DEF names
    <3> QED BY <2>1, <3>1, <3>2, <3>3 DEF PurgeOK, Snapped
  <2> QED BY <1>0, <1>1, <1>4, <2>1, <2>2, UpkeepMoves, Zenon
<1>5. CASE ~active /\ marker' = TRUE /\ m' = [m EXCEPT !.pc = "rematch", !.protected = TRUE]
  <2>1. m' \in Upkeeps /\ m'.pc = "rematch" /\ m'.snap = m.snap /\ m'.at = m.at
    BY <1>0, <1>5, Zenon DEF Upkeeps
  <2>2. PurgeOK' BY <2>1, FreePurge
  <2> QED BY <1>0, <1>1, <1>5, <2>1, <2>2, UpkeepMoves
<1>6. CASE /\ MGoto("purge") /\ marker' = marker /\ m.pc = "rematch"
           /\ expired_upload_session_matches(rows, m.at, Snapped)
  <2>1. m' \in Upkeeps /\ m'.pc = "purge" /\ m'.snap = m.snap /\ m'.at = m.at
    BY <1>0, <1>6, MGotoFields
  <2>2. rows'[m.at] = Snapped /\ Snapped.expired
    BY <1>1, <1>6, Zenon DEF expired_upload_session_matches, store
  <2>3. PurgeOK' BY <2>1, <2>2, Zenon DEF PurgeOK, Snapped
  <2> QED BY <1>0, <1>1, <1>6, <2>1, <2>3, UpkeepMoves
<1> QED
  BY <1>2, <1>3, <1>4, <1>5, <1>6, Zenon
  DEF MatchExpired, ClaimExpired, RematchExpired, registry, Release, try_claim_stale_entry

(* and the scan for stages that no session names. *)
LEMMA ScanPromises ==
    ASSUME IndInv, Promises,
           TrackedSnapshot \/ VisitStage \/ ClaimStale \/ should_preserve_stale_state_path
    PROVE  Promises' /\ Honest
<1>0. /\ m \in Upkeeps /\ ~(active /\ marker) /\ (\A o \in Owners : m.snap[o].state # "commit_started")
      /\ m.pc = "bound" => marker
  BY DEF Promises, RegistryOK
<1>1. UNCHANGED <<store, names, h, active, client>>
  BY Zenon DEF TrackedSnapshot, VisitStage, ClaimStale, should_preserve_stale_state_path, registry
<1>2. ASSUME NEW q \in {"rest", "claim_stale", "bound", "remove"}, MGoto(q),
             q \in {"bound", "remove"} => marker', ~(active /\ marker'),
             q = "remove" => \A o \in Owners : ~Live(rows[o])
      PROVE  Promises' /\ Honest
  <2>1. m' \in Upkeeps /\ m'.pc = q /\ \A o \in Owners : m'.snap[o] \in {m.snap[o], NoRow}
    BY <1>0, <1>2, MGotoFields, Zenon
  <2>2. \A o \in Owners : m'.snap[o].state # "commit_started"
    <3> SUFFICES ASSUME NEW o \in Owners PROVE m'.snap[o].state # "commit_started" OBVIOUS
    <3>1. m'.snap[o] = m.snap[o] \/ m'.snap[o] = NoRow BY <2>1, Zenon
    <3>2. m.snap[o].state # "commit_started" BY <1>0, Zenon
    <3> QED BY <3>1, <3>2, NothingStored, Zenon
  <2>3. PurgeOK' BY <1>1, <1>2, <2>1 DEF PurgeOK, store
  <2> QED BY <1>1, <1>2, <2>1, <2>2, <2>3, UpkeepMoves, Zenon
<1>3. CASE TrackedSnapshot
  <2>1. PICK x \in BOOLEAN, y \in BOOLEAN : m' = [m EXCEPT !.pc = "visit", !.skip = x, !.protected = y]
    <3>1. m.skip \in BOOLEAN /\ m.protected \in BOOLEAN BY <1>0, Zenon DEF Upkeeps
    <3>2. CASE m' = [m EXCEPT !.pc = "visit", !.skip = TRUE]
      BY <1>0, <3>1, <3>2, Zenon DEF Upkeeps
    <3>3. ASSUME NEW b \in BOOLEAN, m' = [m EXCEPT !.pc = "visit", !.protected = @ \/ b]
          PROVE  m' = [m EXCEPT !.pc = "visit", !.skip = m.skip, !.protected = m.protected \/ b]
      BY <1>0, <3>3, Zenon DEF Upkeeps
    <3> QED BY <1>3, <3>1, <3>2, <3>3, Zenon DEF TrackedSnapshot
  <2>2. m' \in Upkeeps /\ m'.pc = "visit" /\ m'.snap = m.snap BY <1>0, <2>1, Zenon DEF Upkeeps
  <2>3. PurgeOK' BY <2>2, FreePurge
  <2>4. marker' = marker BY <1>3, Zenon DEF TrackedSnapshot, registry
  <2> QED BY <1>0, <1>1, <2>2, <2>3, <2>4, UpkeepMoves
<1>4. CASE VisitStage BY <1>0, <1>2, <1>4, Zenon DEF VisitStage, registry
<1>5. CASE ClaimStale BY <1>0, <1>2, <1>5, Zenon DEF ClaimStale, try_claim_stale_entry
<1>6. CASE should_preserve_stale_state_path
  BY <1>0, <1>2, <1>6, Zenon DEF should_preserve_stale_state_path, state_path_is_bound, Release
<1> QED BY <1>3, <1>4, <1>5, <1>6

(* The steps that take the stage's name away, or make that final. *)
LEMMA RemovePromises ==
    ASSUME IndInv, Promises, PurgeExpired \/ remove_entry_blocking \/ SyncRemoved
    PROVE  Promises' /\ Honest
<1>0. /\ m \in Upkeeps /\ ~(active /\ marker) /\ (\A o \in Owners : m.snap[o].state # "commit_started")
      /\ m.pc \in {"purge", "remove"} => marker
      /\ m.pc = "purge" => m.at \in Owners
  BY DEF Promises, RegistryOK
<1>1. UNCHANGED <<store, h, active, told, effect, target>>
  BY DEF PurgeExpired, remove_entry_blocking, SyncRemoved, registry, client
<1>2. ASSUME NEW q \in {"drop_row", "sync_removed", "rest"}, MGoto(q), ~(active /\ marker'),
             q = "drop_row" => m.at \in Owners /\ marker'
      PROVE  /\ m' \in Upkeeps /\ m'.pc = q /\ (q # "rest" => m'.at = m.at)
             /\ \A o \in Owners : m'.snap[o].state # "commit_started"
             /\ PurgeOK'
  <2>1. /\ m' \in Upkeeps /\ m'.pc = q /\ (q # "rest" => m'.at = m.at)
        /\ \A o \in Owners : m'.snap[o] \in {m.snap[o], NoRow}
    BY <1>0, <1>2, MGotoFields, Zenon
  <2>2. \A o \in Owners : m'.snap[o].state # "commit_started"
    <3> SUFFICES ASSUME NEW o \in Owners PROVE m'.snap[o].state # "commit_started" OBVIOUS
    <3>1. m'.snap[o] = m.snap[o] \/ m'.snap[o] = NoRow BY <2>1, Zenon
    <3>2. m.snap[o].state # "commit_started" BY <1>0, Zenon
    <3> QED BY <3>1, <3>2, NothingStored, Zenon
  <2>3. PurgeOK' BY <1>2, <2>1 DEF PurgeOK
  <2> QED BY <2>1, <2>2, <2>3
<1>3. CASE PurgeExpired
  <2>1. m.pc = "purge" /\ MGoto("drop_row") /\ marker' = marker /\ marker /\ ~active
    BY <1>0, <1>3, Zenon DEF PurgeExpired, registry
  <2>2. /\ m' \in Upkeeps /\ m'.pc = "drop_row" /\ m'.at \in Owners
        /\ \A o \in Owners : m'.snap[o].state # "commit_started"
        /\ PurgeOK'
    BY <1>0, <1>2, <2>1, Zenon
  <2>3. CASE UNCHANGED <<stage, disk, aged, file>>
    BY <1>1, <2>1, <2>2, <2>3, UpkeepRest, Zenon
  <2>4. CASE Unlink
    <3>1. stage' = NoIno /\ disk'.stage = NoIno /\ disk'.target = disk.target
      BY <2>4 DEF Unlink, IndInv, TypeOK
    <3>2. \A i \in Inodes : file'[i] = file[i] \/ i \notin {h.ino, target, disk.target}
      BY <2>4 DEF Unlink, Kept
    <3>3. NoIno \notin Inodes BY UploadAssumption
    <3>4. \A i \in Inodes : \/ file'[i] = file[i]
                            \/ i \notin {h.ino, stage', disk'.stage, target, disk.target}
      BY <3>1, <3>2, <3>3, Zenon
    <3> QED BY <1>1, <2>1, <2>2, <3>1, <3>4, UpkeepRest
  <2> QED BY <1>3, <2>3, <2>4, Zenon DEF PurgeExpired, remove_file_if_identity
<1>4. CASE remove_entry_blocking
  <2>1. /\ m.pc = "remove" /\ MGoto("sync_removed") /\ marker' = FALSE /\ ~active
        /\ stage' \in {stage, NoIno} /\ UNCHANGED <<disk, file>>
    BY <1>0, <1>4, Zenon DEF remove_entry_blocking, Release
  <2>2. /\ m' \in Upkeeps /\ m'.pc = "sync_removed"
        /\ \A o \in Owners : m'.snap[o].state # "commit_started"
        /\ PurgeOK'
    BY <1>2, <2>1, Zenon
  <2> QED BY <1>1, <2>1, <2>2, UpkeepRest, Zenon
<1>5. CASE SyncRemoved
  <2>1. MGoto("rest") /\ marker' = marker /\ UNCHANGED <<stage, file>>
    BY <1>5 DEF SyncRemoved, registry
  <2>2. disk'.target = disk.target /\ disk'.stage \in {disk.stage, stage'}
    BY <1>5, <2>1 DEF SyncRemoved, IndInv, TypeOK
  <2>3. ~(active /\ marker') BY <1>0, <2>1, Zenon
  <2>4. /\ m' \in Upkeeps /\ m'.pc = "rest"
        /\ \A o \in Owners : m'.snap[o].state # "commit_started"
        /\ PurgeOK'
    BY <1>2, <2>1, <2>3, Zenon
  <2> QED BY <1>1, <2>1, <2>2, <2>3, <2>4, UpkeepRest
<1> QED BY <1>3, <1>4, <1>5

(* remove_expired_upload_record. *)
LEMMA DropPromises ==
    ASSUME IndInv, Promises, remove_expired_upload_record
    PROVE  Promises' /\ Honest
<1>0. /\ m \in Upkeeps /\ ~(active /\ marker) /\ (\A o \in Owners : m.snap[o].state # "commit_started")
      /\ m.pc = "drop_row" /\ m.at \in Owners
  BY DEF Promises, RegistryOK, remove_expired_upload_record
<1>1. UNCHANGED <<names, h, active, told, effect>> /\ NextRow /\ marker' = FALSE
  BY DEF remove_expired_upload_record, client, Release
<1> DEFINE t == remove_expired_upload_session_if_matches(rows, m.at, Snapped)
<1>2. \A x \in Owners : t[x] \in {rows[x], NoRow}
  BY DEF remove_expired_upload_session_if_matches, IndInv, TypeOK
<1>3. \A x \in Owners : t[x] # rows[x] => x = m.at /\ expired_upload_session_matches(rows, m.at, Snapped)
  BY DEF remove_expired_upload_session_if_matches, IndInv, TypeOK
<1>4. SetRows(t) BY Zenon DEF remove_expired_upload_record
<1> HIDE DEF t
<1>5. Shrinks BY <1>2, <1>4, ShrinkTable, Zenon DEF Promises
<1>6. rows' = t BY <1>4, Zenon DEF SetRows
<1>7. m' \in Upkeeps /\ m'.pc = "page" /\ \A o \in Owners : m'.snap[o].state # "commit_started"
  <2>1. m' \in Upkeeps /\ m'.pc = "page" /\ \A o \in Owners : m'.snap[o] \in {m.snap[o], NoRow}
    BY <1>0, <1>1, NextRowFields
  <2> QED 
    BY <1>0, <2>1, NothingStored, Zenon
<1>8. Fits BY PromisesFit
<1>9. h.pc # "idle" => h.owner \in Owners BY DEF IndInv, Handling, RequestOK
<1>10. ASSUME h.pc # "idle", rows[h.owner].state = "commit_started"
       PROVE  rows'[h.owner] = rows[h.owner]
  BY <1>0, <1>3, <1>6, <1>9, <1>10, Zenon DEF expired_upload_session_matches, Snapped
<1>11. ASSUME HoldsOK, PurgeOK, InTransfer PROVE rows'[h.owner] = rows[h.owner]
  <2>1. ~marker /\ Anchored /\ h.owner \in Owners
    BY <1>0, <1>8, <1>9, <1>11, Zenon DEF Fits, Registered, InTransfer, Anchored, Storing
  <2>2. /\ rows[h.owner].ino = stage /\ rows[h.owner].state \in {"running", "awaiting"}
    BY <1>11, <2>1, Zenon DEF HoldsOK
  <2> QED
    BY <1>0, <1>3, <1>6, <1>11, <2>1, <2>2, Zenon
    DEF PurgeOK, expired_upload_session_matches, Snapped, Live, NonTerminal
<1>12. HistoryOK'
  <2>1. Unpublished => h.pc # "idle" BY DEF Unpublished
  <2>2. Settling => h.pc # "idle" BY DEF Settling, Storing, Saving
  <2>3. Renamed => Settling BY DEF Renamed, Settling, Saving
  <2>4. h.owner \in Owners => /\ landed'[h.owner] => landed[h.owner]
                              /\ rows'[h.owner] = rows[h.owner] => landed'[h.owner] = landed[h.owner]
                              /\ rows[h.owner].state = "none" => rows'[h.owner].state = "none"
    <3>1. ASSUME h.owner \in Owners, rows'[h.owner] = rows[h.owner], landed'[h.owner] = FALSE
          PROVE  landed'[h.owner] = landed[h.owner]
      BY <1>4, <1>6, <3>1, Zenon DEF SetRows, Promises, TableOK, IndInv, TypeOK
    <3>2. h.owner \in Owners => \/ rows'[h.owner] = rows[h.owner] /\ landed'[h.owner] = landed[h.owner]
                                \/ rows'[h.owner] = NoRow /\ landed'[h.owner] = FALSE
      BY <1>5, Zenon DEF Shrinks
    <3>3. NoRow.state = "none" BY DEF NoRow
    <3> QED BY <3>1, <3>2, <3>3, Zenon
  <2>5. (Unpublished' <=> Unpublished) /\ (Settling' <=> Settling) /\ (Renamed' <=> Renamed)
    BY <1>1 DEF Unpublished, Settling, Renamed, Saving, Storing
  <2> QED BY <1>1, <1>8, <1>9, <1>10, <2>1, <2>2, <2>3, <2>4, <2>5, Zenon DEF Fits, HistoryOK, Saving, names
<1>13. (Registered' => active') /\ (Owning' <=> Owning)
  BY <1>1, <1>8, Zenon DEF Fits, Registered, Resume, Owning
<1>14. ASSUME HoldsOK, PurgeOK PROVE HoldsOK'
  <2>1. (Anchored' <=> Anchored) /\ (InTransfer' <=> InTransfer) /\ (Resume' <=> Resume)
    BY <1>1, Zenon DEF Anchored, InTransfer, Storing, Saving, SyncsParent, Resume
  <2> QED BY <1>1, <1>11, <1>13, <1>14, <2>1, Zenon DEF HoldsOK, Storing, names
<1>15. ASSUME HoldsOK, PurgeOK, SizesOK PROVE SizesOK'
  <2>1. h.pc \in {"truncate", "rebind", "reserve", "body", "precommit"} \/ Storing({"rebind"})
           => InTransfer
    BY Zenon DEF InTransfer, Storing
  <2> QED BY <1>1, <1>11, <1>15, <2>1 DEF SizesOK, Saving, Storing, Resume, names
<1>16. TableOK' /\ CrashOK'
  <2>1. ASSUME NEW o \in Owners
        PROVE  \/ rows'[o] = rows[o] /\ landed'[o] = landed[o]
               \/ rows'[o].state = "none" /\ landed'[o] = FALSE
    BY <1>5, NothingStored, Zenon DEF Shrinks
  <2>2. TableOK' BY <2>1, Zenon DEF Promises, TableOK
  <2>3. \A o \in Owners : rows'[o].state = "committed" => rows[o].state = "committed"
    BY <2>1, Zenon
  <2>4. CrashOK' BY <1>1, <1>13, <2>3 DEF Promises, CrashOK, names
  <2> QED BY <2>2, <2>4
<1>17. RegistryOK' BY <1>1, <1>7, <1>13, Zenon DEF RegistryOK
<1>18. ASSUME RowsOK PROVE RowsOK'
  <2> SUFFICES ASSUME NEW o \in Owners, rows'[o] = rows[o]
               PROVE  /\ Live(rows[o]) => rows[o].ino \in Inodes
                      /\ rows[o].ino \in Inodes \intersect {stage, disk.stage} => file[rows[o].ino].by = o
                      /\ Live(rows[o]) /\ rows[o].ino \in {stage, disk.stage}
                            => file[rows[o].ino].synced >= rows[o].off
                      /\ Live(rows[o]) /\ rows[o].ino = stage => disk.stage = stage
    <3>1. \A x \in Owners : rows'[x] = rows[x] \/ (~Live(rows'[x]) /\ rows'[x].ino \notin Inodes)
      BY <1>5, NothingStored, Zenon DEF Shrinks
    <3> QED BY <1>1, <3>1 DEF RowsOK, names
  <2> QED BY <1>18, Zenon DEF RowsOK
<1>19. PurgeOK' BY <1>7, FreePurge
<1>20. DurableOK' BY <1>14, <1>15, <1>18, <1>19, Zenon DEF Promises, DurableOK, SessionOK
<1> QED BY <1>1, <1>12, <1>16, <1>17, <1>20, Zenon DEF Promises, Honest

-----------------------------------------------------------------------------
(* Another program changes the target, and time passes. *)
LEMMA OutsidePromises ==
    ASSUME IndInv, Promises, OutsideChange \/ Age \/ (\E o \in Owners : Expire(o))
    PROVE  Promises' /\ Honest
<1>0. Fits BY PromisesFit
<1>1. UNCHANGED <<landed, stage, file, active, marker, h, m, told, effect>> /\ disk'.stage = disk.stage
  BY DEF OutsideChange, Age, Expire, store, names, registry, client, IndInv, TypeOK
<1> DEFINE
     Similar ==
        /\ target' \in Inodes => target' = target /\ disk'.target = disk.target
        /\ \A x \in Owners : /\ rows'[x].state = rows[x].state /\ rows'[x].off = rows[x].off
                             /\ rows'[x].ino = rows[x].ino
                             /\ rows'[x] # rows[x] => rows'[x].expired /\ m.snap[x] = NoRow
<1>2. Similar
  <2>1. CASE OutsideChange
    <3>1. PICK v \in Outside \union {NoIno} : target' = v /\ rows' = rows
      BY <2>1, Zenon DEF OutsideChange, store
    <3> QED BY <3>1, UploadAssumption
  <2>2. CASE Age BY <2>2 DEF Age, store
  <2>3. ASSUME NEW o \in Owners, Expire(o) PROVE Similar
    <3>1. rows' = [rows EXCEPT ![o].expired = TRUE] /\ m.snap[o] = NoRow /\ UNCHANGED <<target, disk>>
      BY <2>3 DEF Expire, names
    <3>2. \A x \in Owners : rows[x] \in Row BY Zenon DEF IndInv, TypeOK
    <3> QED BY <3>1, <3>2 DEF IndInv, TypeOK, Row
  <2> HIDE DEF Similar
  <2> QED BY <2>1, <2>2, <2>3, Zenon
<1>3. \A x \in Owners :
         /\ rows'[x].state = rows[x].state /\ rows'[x].off = rows[x].off
         /\ rows'[x].ino = rows[x].ino
         /\ rows'[x] # rows[x] => rows'[x].expired /\ m.snap[x] = NoRow
  BY <1>2
<1>4. target' \in Inodes => target' = target /\ disk'.target = disk.target BY <1>2
<1> HIDE DEF Similar
<1>5. h.pc # "idle" => h.owner \in Owners BY DEF IndInv, Handling, RequestOK
<1>6. TableOK' BY <1>1, <1>3, Zenon DEF Promises, TableOK
<1>7. HistoryOK'
  <2>1. (Unpublished' <=> Unpublished) /\ (Settling' <=> Settling) /\ (Renamed' <=> Renamed)
    BY <1>1 DEF Unpublished, Settling, Renamed, Saving, Storing
  <2>3. (Settling => h.pc # "idle") /\ (Saving({"refuse"}) => h.pc # "idle")
    BY DEF Settling, Saving, Storing
  <2>4. h.pc # "idle" => rows'[h.owner].state = rows[h.owner].state BY <1>3, <1>5
  <2> QED BY <1>0, <1>1, <1>4, <2>1, <2>3, <2>4 DEF Fits, HistoryOK, Saving
<1>8. Owning' <=> Owning BY <1>1 DEF Owning
<1>9. CrashOK'
  <2> SUFFICES ASSUME NEW o \in Owners, NEW i \in Inodes, rows[o].state = "committed", file[i].by = o
               PROVE  /\ i \notin {stage, disk.stage} /\ ~(Owning /\ h.ino = i)
                      /\ i = target' => i = disk'.target
    BY <1>1, <1>3, <1>8 DEF CrashOK
  <2>1. /\ i \notin {stage, disk.stage} /\ ~(Owning /\ h.ino = i)
        /\ i = target => i = disk.target
    BY Zenon DEF Promises, CrashOK
  <2> QED BY <1>4, <2>1
<1>10. RegistryOK' BY <1>1 DEF Promises, RegistryOK, Registered, Resume
<1>11. \A x \in Owners : Live(rows'[x]) <=> Live(rows[x]) BY <1>3, Zenon DEF Live
<1>12. ASSUME RowsOK PROVE RowsOK'
  <2> SUFFICES ASSUME NEW o \in Owners
               PROVE  /\ Live(rows[o]) => rows[o].ino \in Inodes
                      /\ rows[o].ino \in Inodes \intersect {stage, disk.stage} => file[rows[o].ino].by = o
                      /\ Live(rows[o]) /\ rows[o].ino \in {stage, disk.stage}
                            => file[rows[o].ino].synced >= rows[o].off
                      /\ Live(rows[o]) /\ rows[o].ino = stage => disk.stage = stage
    BY <1>1, <1>3, <1>11 DEF RowsOK
  <2> QED BY <1>12, Zenon DEF RowsOK
<1>13. ASSUME HoldsOK PROVE HoldsOK'
  <2>1. (Anchored' <=> Anchored) /\ (InTransfer' <=> InTransfer) /\ (Resume' <=> Resume)
    BY <1>1 DEF Anchored, InTransfer, Storing, Saving, SyncsParent, Resume
  <2>2. InTransfer => /\ rows'[h.owner].state = rows[h.owner].state
                      /\ rows'[h.owner].ino = rows[h.owner].ino
    <3>1. InTransfer => h.pc # "idle" BY DEF InTransfer, Storing
    <3> QED BY <1>3, <1>5, <3>1, Zenon
  <2> QED BY <1>1, <1>8, <1>13, <2>1, <2>2 DEF HoldsOK, Storing
<1>14. ASSUME SizesOK PROVE SizesOK'
  <2>1. h.pc # "idle" => rows'[h.owner].off = rows[h.owner].off BY <1>3, <1>5
  <2> QED BY <1>1, <1>14, <2>1 DEF SizesOK, Saving, Storing, Resume
<1>15. ASSUME PurgeOK PROVE PurgeOK'
  <2>1. m.pc \in {"purge", "drop_row"} => m.at \in Owners BY DEF Promises, RegistryOK
  <2>2. ~Live(NoRow) BY DEF Live, NonTerminal, NoRow
  <2>3. m.at \in Owners /\ Live(Snapped) => rows'[m.at] = rows[m.at] BY <1>3, <2>2, Zenon DEF Snapped
  <2>4. m.at \in Owners => /\ rows'[m.at].ino = rows[m.at].ino
                           /\ rows'[m.at].expired \/ rows'[m.at] = rows[m.at]
    BY <1>3, Zenon
  <2>5. m.pc = "purge" => /\ rows'[m.at].ino = Snapped.ino
                          /\ Live(rows'[m.at]) => rows'[m.at].expired
    BY <1>15, <2>1, <2>4, Zenon DEF PurgeOK
  <2>6. m.pc = "remove" => \A o \in Owners : ~Live(rows'[o]) BY <1>11, <1>15, Zenon DEF PurgeOK
  <2>7. m.pc = "drop_row" /\ ~marker /\ Live(Snapped)
           /\ expired_upload_session_matches(rows', m.at, Snapped) => stage # Snapped.ino
    BY <1>15, <2>1, <2>3 DEF PurgeOK, expired_upload_session_matches
  <2> QED BY <1>1, <2>5, <2>6, <2>7 DEF PurgeOK, Snapped
<1>16. DurableOK' BY <1>12, <1>13, <1>14, <1>15, Zenon DEF Promises, DurableOK, SessionOK
<1> QED BY <1>1, <1>6, <1>7, <1>9, <1>10, <1>16 DEF Promises, Honest

(* A power failure and the start after it. *)
LEMMA CrashPromises ==
    ASSUME IndInv, Promises, Crash
    PROVE  Promises' /\ Honest
<1>1. /\ h' = Idle /\ m' = Resting /\ effect' = "nothing" /\ told' = "none"
      /\ active' = FALSE /\ marker' = FALSE /\ rows' = recover_database(rows)
      /\ file' \in {file, [i \in Inodes |-> [file[i] EXCEPT !.len = file[i].synced]]}
  BY Zenon DEF Crash
<1>2. PICK n \in {[stage |-> stage, target |-> target], disk} :
         LET undone == target # n.target /\ target \in Inodes
         IN  /\ stage' = n.stage /\ target' = n.target /\ disk' = n
             /\ landed' = [o \in Owners |-> landed[o] /\ ~(undone /\ file[target].by = o)]
  BY Zenon DEF Crash
<1>3. /\ stage' = disk'.stage /\ target' = disk'.target
      /\ stage' \in {stage, disk.stage} /\ target' \in {target, disk.target}
  BY <1>2
<1>4. \A o \in Owners : landed'[o] = (landed[o] /\ ~(target # target' /\ target \in Inodes
                                                     /\ file[target].by = o))
  BY <1>2, Zenon
<1>5. \A i \in Inodes : file'[i].by = file[i].by /\ file'[i].synced = file[i].synced
  <2>1. CASE file' = file BY <2>1
  <2>2. CASE file' = [i \in Inodes |-> [file[i] EXCEPT !.len = file[i].synced]]
    BY <2>2 DEF IndInv, TypeOK, File
  <2> QED BY <1>1, <2>1, <2>2
<1>6. \A o \in Owners :
         /\ rows'[o].ino = rows[o].ino /\ rows'[o].off = rows[o].off
         /\ rows'[o].state = IF rows[o].state = "commit_started" THEN "unknown" ELSE rows[o].state
  BY <1>1, Zenon DEF recover_database, IndInv, TypeOK, Row
<1>7. Fits' /\ ~Owning' BY <1>1, DoneFits DEF Idle
<1>8. TableOK'
  <2>1. ASSUME NEW o \in Owners, rows'[o].state = "committed" PROVE landed'[o]
    <3>1. rows[o].state = "committed" BY <1>6, <2>1, Zenon
    <3>2. landed[o] BY <3>1, Zenon DEF Promises, TableOK
    <3>3. target \in Inodes /\ file[target].by = o => target = disk.target
      BY <3>1, Zenon DEF Promises, CrashOK
    <3>4. ~(target # target' /\ target \in Inodes /\ file[target].by = o) BY <1>3, <3>3, Zenon
    <3> QED BY <1>4, <2>1, <3>2, <3>4, Zenon
  <2>2. ASSUME NEW o \in Owners, landed'[o]
        PROVE  rows'[o].state \in {"commit_started", "committed", "unknown"}
    <3>1. landed[o] BY <1>4, <2>2, Zenon
    <3> QED BY <1>6, <3>1 DEF Promises, TableOK
  <2>3. ASSUME NEW o \in Owners, rows'[o].state \in {"commit_started", "awaiting", "committed"}
        PROVE  rows'[o].off = Len
    BY <1>6, <2>3, Zenon DEF Promises, TableOK
  <2> QED BY <2>1, <2>2, <2>3 DEF TableOK
<1>9. CrashOK' BY <1>3, <1>5, <1>6, <1>7, Zenon DEF Promises, CrashOK
<1>10. RegistryOK'
  <2>1. Resting \in Upkeeps BY FieldValues, Zenon DEF Resting, Upkeeps
  <2> QED BY <1>1, <1>7, <2>1 DEF RegistryOK, Fits, Resting, NoRow
<1>11. ASSUME RowsOK PROVE RowsOK'
  <2> SUFFICES ASSUME NEW o \in Owners
               PROVE  /\ Live(rows'[o]) => rows[o].ino \in Inodes
                      /\ rows[o].ino \in Inodes \intersect {stage', disk'.stage} => file'[rows[o].ino].by = o
                      /\ Live(rows'[o]) /\ rows[o].ino \in {stage', disk'.stage}
                            => file'[rows[o].ino].synced >= rows[o].off
                      /\ Live(rows'[o]) /\ rows[o].ino = stage' => disk'.stage = stage'
    <3>1. \A x \in Owners : rows'[x].ino = rows[x].ino /\ rows'[x].off = rows[x].off
      BY <1>6, Zenon
    <3> QED BY <3>1, Zenon DEF RowsOK
  <2>1. Live(rows'[o]) => Live(rows[o]) BY <1>6 DEF Live, NonTerminal
  <2>2. /\ Live(rows[o]) => rows[o].ino \in Inodes
        /\ rows[o].ino \in Inodes \intersect {stage, disk.stage} => file[rows[o].ino].by = o
        /\ Live(rows[o]) /\ rows[o].ino \in {stage, disk.stage}
              => file[rows[o].ino].synced >= rows[o].off
    BY <1>11, Zenon DEF RowsOK
  <2>3. rows[o].ino \in Inodes => /\ file'[rows[o].ino].synced = file[rows[o].ino].synced
                                  /\ file'[rows[o].ino].by = file[rows[o].ino].by
    BY <1>5, Zenon
  <2> QED BY <1>3, <2>1, <2>2, <2>3, SMTT(30)
<1>12. PurgeOK' BY <1>1, FreePurge DEF Resting
<1>13. DurableOK' BY <1>7, <1>11, <1>12 DEF Promises, DurableOK, SessionOK, Fits
<1> QED BY <1>1, <1>7, <1>8, <1>9, <1>10, <1>13, Zenon DEF Promises, Honest, Fits

(* The server starts with nothing to promise. *)
LEMMA InitPromises == Init => Promises /\ SyncedOK
<1> SUFFICES ASSUME Init PROVE Promises /\ SyncedOK BY Zenon
<1>1. /\ rows = [o \in Owners |-> NoRow] /\ landed = [o \in Owners |-> FALSE]
      /\ h = Idle /\ m = Resting /\ effect = "nothing" /\ active = FALSE /\ marker = FALSE
      /\ file = [i \in Inodes |-> Blank]
  BY DEF Init
<1>2. \A o \in Owners : rows[o] = NoRow /\ rows[o].state = "none" /\ ~landed[o]
  BY <1>1, Zenon DEF NoRow
<1>3. h.pc = "idle" /\ m.pc = "rest" /\ \A o \in Owners : m.snap[o] = NoRow
  BY <1>1, Zenon DEF Idle, Resting
<1>4. TableOK BY <1>2, Zenon DEF TableOK
<1>5. HistoryOK
  BY <1>1, <1>3 DEF HistoryOK, Unpublished, Settling, Renamed, Saving, Storing
<1>6. CrashOK BY <1>2, Zenon DEF CrashOK
<1>7. Resting \in Upkeeps BY FieldValues, Zenon DEF Resting, Upkeeps
<1>8. RegistryOK
  <2>1. ~Registered BY <1>3 DEF Registered
  <2>2. NoRow.state = "none" BY DEF NoRow
  <2>3. \A o \in Owners : m.snap[o].state # "commit_started" BY <1>3, <2>2, Zenon
  <2>4. m \in Upkeeps /\ ~active /\ ~marker BY <1>1, <1>7
  <2> QED BY <1>3, <2>1, <2>3, <2>4 DEF RegistryOK
<1>9. RowsOK
  <2>1. ~Live(NoRow) /\ NoRow.ino \notin Inodes BY UploadAssumption DEF NoRow, Live, NonTerminal
  <2>2. \A o \in Owners : ~Live(rows[o]) /\ rows[o].ino \notin Inodes BY <1>2, <2>1, Zenon
  <2> QED BY <2>2, Zenon DEF RowsOK
<1>10. HoldsOK BY <1>3, Zenon DEF HoldsOK, Owning, Anchored, InTransfer, Saving, Storing
<1>11. SizesOK BY <1>3, Zenon DEF SizesOK, Saving, Storing
<1>12. PurgeOK BY <1>3 DEF PurgeOK
<1>13. SyncedOK BY <1>1 DEF SyncedOK, Blank
<1> QED BY <1>4, <1>5, <1>6, <1>8, <1>9, <1>10, <1>11, <1>12, <1>13, Zenon
        DEF Promises, DurableOK, SessionOK

-----------------------------------------------------------------------------
(* No more of a file is on disk than there is of it: one that is written, *)
LEMMA WrittenSynced ==
    ASSUME IndInv, SyncedOK, NEW g, g.synced <= g.len,
           file' = [file EXCEPT ![h.ino] = g] \/ file' = file
    PROVE  SyncedOK'
<1>1. CASE file' = file BY <1>1 DEF SyncedOK
<1>2. CASE file' = [file EXCEPT ![h.ino] = g] BY <1>2 DEF SyncedOK, IndInv, TypeOK
<1> QED BY <1>1, <1>2

(* and one that does not change at all. *)
LEMMA KeptSynced ==
    ASSUME SyncedOK, NEW s, file' = Kept(s) \/ file' = file
    PROVE  SyncedOK'
BY DEF SyncedOK, Kept, Blank

(* No step before the transfer breaks this, *)
LEMMA PrepareSynced ==
    ASSUME IndInv, SyncedOK, Prepare
    PROVE  SyncedOK'
<1>0. file' = file => SyncedOK' BY DEF SyncedOK
<1>1. CASE \/ inspect_target \/ dispatch_fresh_upload \/ await_tracked_upload_task \/ PrepareError
           \/ DeadlineBeforeMutation \/ LookupSession \/ TrackResume
  BY <1>0, <1>1, Zenon
  DEF inspect_target, dispatch_fresh_upload, await_tracked_upload_task, PrepareError,
      DeadlineBeforeMutation, LookupSession, TrackResume, names
<1>2. CASE \/ InspectTarget \/ AdmitResumed \/ AdmitFresh \/ TrackFresh \/ OpenStage
           \/ RebindRevision \/ ResetRow
  BY <1>0, <1>2, Zenon
  DEF InspectTarget, AdmitResumed, AdmitFresh, TrackFresh, OpenStage, RebindRevision, ResetRow,
      names
<1>3. CASE Reply BY <1>3, KeptSynced, Zenon DEF Reply
<1>4. CASE DiscardStage \/ ResetStage
  <2>1. file' = file \/ file' = Kept({target, disk.target, h.ino})
    BY <1>4, Zenon DEF DiscardStage, ResetStage, remove_file_if_identity, Unlink
  <2> QED BY <2>1, KeptSynced
<1>5. CASE CreateStage
  <2>1. \/ file' = file
        \/ \E i \in Inodes : file' = [file EXCEPT ![i] = [Blank EXCEPT !.by = h.owner]]
    BY <1>5, Zenon DEF CreateStage
  <2> QED BY <1>0, <2>1 DEF SyncedOK, Blank, IndInv, TypeOK
<1>6. CASE TruncateStage \/ ReserveSpace
  <2>1. h.pc \in {"truncate", "reserve"} BY <1>6, Zenon DEF TruncateStage, ReserveSpace
  <2>2. file[h.ino] \in File /\ h \in Requests BY <2>1, OpenedStage DEF Owning
  <2> DEFINE a == Truncated(file[h.ino], h.off)
             b == RolledBack(file[h.ino])
  <2>3. a.synced <= a.len /\ b.synced <= b.len
    BY <2>2, UploadAssumption DEF Truncated, RolledBack, File, Offsets, Requests
  <2> HIDE DEF a, b
  <2>4. file' \in {file, [file EXCEPT ![h.ino] = a], [file EXCEPT ![h.ino] = b]}
    BY <1>6, Zenon DEF TruncateStage, ReserveSpace, SpaceFailure, a, b
  <2> QED BY <2>3, <2>4, WrittenSynced
<1> QED BY <1>1, <1>2, <1>3, <1>4, <1>5, <1>6, Zenon DEF Prepare

(* none of the transfer, *)
LEMMA TransferSynced ==
    ASSUME IndInv, SyncedOK, Transfer
    PROVE  SyncedOK'
<1>0. file' = file => SyncedOK' BY DEF SyncedOK
<1>1. CASE \/ persist_state \/ BodyEnds \/ BodyBreaks \/ BodyTimesOut \/ finish_timed_out_upload
           \/ CheckSpace \/ CheckReplace \/ rename_replace_if_unchanged \/ sync_renamed_parents
           \/ reject_for_discard
  BY <1>0, <1>1, Zenon
  DEF persist_state, BodyEnds, BodyBreaks, BodyTimesOut, finish_timed_out_upload, CheckSpace,
      CheckReplace, rename_replace_if_unchanged, sync_renamed_parents, reject_for_discard, names
<1>2. CASE cleanup_rejected_stage
  <2>1. file' = file \/ file' = Kept({target, disk.target, h.ino})
    BY <1>2, Zenon DEF cleanup_rejected_stage, remove_file_if_identity, Unlink
  <2> QED BY <2>1, KeptSynced
<1>3. CASE \/ sync_and_identify_stage \/ WriteChunk \/ BodyRefused \/ CheckTransferred
           \/ ReplayMetadata \/ SyncStagedFile
  <2>1. h.pc \in {"sync", "body", "precommit", "metadata", "publish"}
    BY <1>3, Zenon
    DEF sync_and_identify_stage, WriteChunk, BodyRefused, CheckTransferred, ReplayMetadata,
        SyncStagedFile
  <2>2. file[h.ino] \in File /\ h \in Requests /\ h.ino \in Inodes
    BY <2>1, OpenedStage, SavedJob DEF Owning
  <2> DEFINE a == Truncated(file[h.ino], h.off)
             b == RolledBack(file[h.ino])
             c == [file[h.ino] EXCEPT !.synced = file[h.ino].len]
             d == [file[h.ino] EXCEPT !.len = @ + 1]
             e == [file[h.ino] EXCEPT !.meta = h.tid]
  <2>3. a.synced <= a.len /\ b.synced <= b.len
    BY <2>2, UploadAssumption DEF Truncated, RolledBack, File, Offsets, Requests
  <2>4. c.synced <= c.len /\ d.synced <= d.len /\ e.synced <= e.len
    BY <2>2, UploadAssumption DEF File, Offsets, SyncedOK
  <2>5. file' \in {file, [file EXCEPT ![h.ino] = a], [file EXCEPT ![h.ino] = b],
                   [file EXCEPT ![h.ino] = c], [file EXCEPT ![h.ino] = d],
                   [file EXCEPT ![h.ino] = e]}
    BY <1>3, Zenon
    DEF sync_and_identify_stage, WriteChunk, BodyRefused, CheckTransferred, ReplayMetadata,
        SyncStagedFile, SpaceFailure
  <2> HIDE DEF a, b, c, d, e
  <2> QED BY <2>3, <2>4, <2>5, WrittenSynced, Zenon
<1> QED BY <1>1, <1>2, <1>3, Zenon DEF Transfer

(* and none of the others. *)
LEMMA OtherSynced ==
    ASSUME IndInv, SyncedOK, Arrive \/ Upkeep \/ Environment
    PROVE  SyncedOK'
<1>0. file' = file => SyncedOK' BY DEF SyncedOK
<1>1. CASE Arrive BY <1>0, <1>1, Zenon DEF Arrive, Request, Discard, names
<1>2. CASE PurgeExpired
  <2>1. file' = file \/ file' = Kept({target, disk.target, h.ino})
    BY <1>2, Zenon DEF PurgeExpired, remove_file_if_identity, Unlink
  <2> QED BY <2>1, KeptSynced
<1>3. CASE Upkeep /\ ~PurgeExpired
  BY <1>0, <1>3, Zenon
  DEF Upkeep, ReadExpired, NextExpired, SessionError, MatchExpired, ClaimExpired, RematchExpired,
      remove_expired_upload_record, TrackedSnapshot, VisitStage, ClaimStale,
      should_preserve_stale_state_path, remove_entry_blocking, SyncRemoved, names
<1>4. CASE Crash
  <2>1. CASE file' = [i \in Inodes |-> [file[i] EXCEPT !.len = file[i].synced]]
    <3>1. \A i \in Inodes : file'[i].synced = file'[i].len /\ file'[i].len \in Nat
      BY <2>1, UploadAssumption DEF IndInv, TypeOK, File, Offsets
    <3> QED BY <3>1 DEF SyncedOK
  <2> QED BY <1>0, <1>4, <2>1, Zenon DEF Crash
<1>5. CASE OutsideChange \/ Age \/ (\E o \in Owners : Expire(o))
  BY <1>0, <1>5, Zenon DEF OutsideChange, Age, Expire, names
<1> QED BY <1>1, <1>2, <1>3, <1>4, <1>5, Zenon DEF Environment
=============================================================================
