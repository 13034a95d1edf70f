--------------------------- MODULE UploadPromises ---------------------------
(***************************************************************************)
(* The promises of upload sessions: how they are carried over a step, and  *)
(* that the steps of a request before its transfer, of a session that is   *)
(* given up and of a session that is discarded keep them.                  *)
(***************************************************************************)
EXTENDS UploadInvariant, TLAPS

-----------------------------------------------------------------------------
(* What IndInv says of the request; some of it is used in UploadProofs too, *)
(* under other names.                                                       *)

(* Values that the fields of a request and of a row take. *)
LEMMA FieldValues ==
    /\ 0 \in Offsets /\ Len \in Offsets
    /\ NoRow \in Row
    /\ Idle \in Requests
<1>1. 0 \in Offsets /\ Len \in Offsets BY UploadAssumption DEF Offsets
<1>2. NoRow \in Row BY <1>1, Zenon DEF Row, NoRow, States
<1> QED BY <1>1, <1>2, Zenon DEF Idle, Requests, Places, Jobs

(* A record that is not there. *)
LEMMA NothingStored ==
    /\ NoRow.state = "none" /\ NoRow.off = 0 /\ NoRow.ino = NoIno /\ NoRow.expired = FALSE
    /\ ~Live(NoRow) /\ NoRow.ino \notin Inodes
BY UploadAssumption DEF NoRow, Live, NonTerminal

(* What the lookup of a session finds. *)
LEMMA FoundState ==
    ASSUME TypeOK, NEW o \in Owners
    PROVE  Lookup(o) \in {"none", "running", "awaiting"} \union Terminal
<1>1. rows[o].state \in States BY DEF TypeOK, Row
<1> QED BY <1>1 DEF Lookup, States, NonTerminal, Terminal

(* remove_file_if_identity unlinks no more than the stage. *)
LEMMA UnlinksByIdentity == ASSUME NEW i, remove_file_if_identity(i) PROVE Unlinks
BY DEF remove_file_if_identity, Unlinks

(* A request that has its stage open. *)
LEMMA OpenedStage ==
    ASSUME IndInv, Owning
    PROVE  /\ Handling /\ told \in Answers /\ active \in BOOLEAN /\ effect \in Effects
           /\ h \in Requests /\ h.owner \in Owners /\ aged \in BOOLEAN
           /\ h.pc \notin {"idle", "done"} \union Discarding
           /\ file[h.ino] \in File /\ h.off \in Offsets
           /\ h.ino \in Inodes /\ h.cp \in {"none", "running", "awaiting"}
           /\ h.pc \in Past => h.mut = "detached"
<1>1. Handling /\ told \in Answers /\ active \in BOOLEAN /\ effect \in Effects /\ aged \in BOOLEAN
  BY DEF IndInv, TypeOK
<1>2. h \in Requests /\ h.pc \notin {"idle", "done"} \union Discarding
  BY <1>1 DEF Handling, RequestOK, Owning, Discarding
<1>3. h.owner \in Owners /\ h.ino \in Inodes BY <1>1, <1>2 DEF Handling, RequestOK, StageOK
<1>4. file[h.ino] \in File BY <1>3 DEF IndInv, TypeOK
<1>5. h.off \in Offsets /\ h.cp \in {"none", "running", "awaiting"} BY <1>2 DEF Requests
<1>6. h.pc \in Past => h.mut = "detached" BY <1>1 DEF Handling, BoundaryOK
<1> QED BY <1>1, <1>2, <1>3, <1>4, <1>5, <1>6

(* A request that saves a row. *)
LEMMA SavedJob ==
    ASSUME IndInv, h.pc \in {"sync", "save"}
    PROVE  /\ h.pc \in Past /\ h.mut = "detached" /\ h \in Requests
           /\ h.job \in Jobs \ {"none"} /\ (Owning <=> h.job \in StageJobs)
           /\ h.pc = "sync" => Owning
BY DEF IndInv, Handling, BoundaryOK, RequestOK, Requests, Past, Owning, StageJobs

-----------------------------------------------------------------------------
(* What a step of the request does to the fields its promises speak of. *)

(* A step that goes on, *)
LEMMA GotoFields ==
    ASSUME h \in Requests, NEW p, Goto(p)
    PROVE  /\ Carries /\ h'.pc = p /\ h'.ino = h.ino /\ h'.job = h.job
           /\ h'.size = h.size /\ h'.then = h.then
BY DEF Goto, Requests, Carries

(* one that is to save a checkpoint of the stage (persist_checkpoint), *)
LEMMA PersistFields ==
    ASSUME h \in Requests, NEW j, NEW n, Persist(j, n)
    PROVE  Carries /\ h'.pc = "sync" /\ h'.ino = h.ino /\ h'.job = j /\ h'.size = n
BY DEF Persist, Requests, Carries

(* one that is to save a row without a stage, *)
LEMMA RecordFields ==
    ASSUME h \in Requests, NEW j, NEW n, Record(j, n)
    PROVE  Carries /\ h'.pc = "save" /\ h'.ino = h.ino /\ h'.job = j /\ h'.size = n
BY DEF Record, Requests, Carries

(* one that gives the session up, *)
LEMMA ResetFields ==
    ASSUME h \in Requests, NEW t, ResetThen(t)
    PROVE  Carries /\ h'.pc = "reset"
BY DEF ResetThen, Requests, Carries

(* one that discards a file that was just created, *)
LEMMA DiscardFields ==
    ASSUME h \in Requests, NEW t, h' = [h EXCEPT !.pc = "discard", !.then = t]
    PROVE  Carries /\ h'.pc = "discard" /\ h'.ino = h.ino /\ h'.then = t
BY DEF Requests, Carries

(* one that follows a save, *)
LEMMA AfterFields ==
    ASSUME h \in Requests, NEW p, After(p)
    PROVE  Carries /\ h'.pc = p /\ h'.ino = h.ino /\ UNCHANGED <<active, told>>
BY DEF After, Requests, Carries

(* and one that ends the request. *)
LEMMA FinishFields ==
    ASSUME NEW a, Finish(a)
    PROVE  /\ h'.pc = "done" /\ h'.owner = h.owner /\ active' = FALSE
           /\ told' \in {told, a}
BY DEF Finish, Idle

-----------------------------------------------------------------------------
(* A request that is over promises nothing more. *)
LEMMA DoneFits ==
    ASSUME h'.pc \in {"done", "idle"}, h'.pc = "idle" => effect' # "target"
    PROVE  Fits' /\ ~Owning'
<1>1. HistoryOK' BY DEF HistoryOK, Unpublished, Settling, Renamed, Saving, Storing
<1>2. ~Registered' BY DEF Registered
<1>3. HoldsOK' BY DEF HoldsOK, Owning, Anchored, InTransfer, Saving, Storing
<1>4. SizesOK' BY DEF SizesOK, Saving, Storing
<1>5. ~Owning' BY DEF Owning
<1> QED BY <1>1, <1>2, <1>3, <1>4, <1>5 DEF Fits

(* The promises that are not, while table, names and maintenance rest. *)
LEMMA Rests ==
    ASSUME Promises, Fits', UNCHANGED <<store, names, marker, m>>,
           active' => active \/ ~marker, Owning' => Owning /\ h'.ino = h.ino
    PROVE  Promises'
<1>1. TableOK' BY DEF Promises, TableOK, store
<1>2. CrashOK' BY DEF Promises, CrashOK, store, names
<1>3. RegistryOK' BY DEF Promises, RegistryOK, Fits
<1>4. ASSUME RowsOK PROVE RowsOK' BY <1>4 DEF RowsOK, store, names
<1>5. ASSUME PurgeOK PROVE PurgeOK' BY <1>5 DEF PurgeOK, store, names, Snapped
<1>6. DurableOK' BY <1>4, <1>5 DEF Promises, Fits, DurableOK, SessionOK
<1> QED BY <1>1, <1>2, <1>3, <1>6 DEF Promises, Fits

(* The same when the request writes its stage file. *)
LEMMA WritesRest ==
    ASSUME Promises, Fits', UNCHANGED <<store, stage, target, disk, marker, m>>,
           active' => active \/ ~marker, Owning' => Owning /\ h'.ino = h.ino,
           \A i \in Inodes : file'[i].by = file[i].by,
           ~ReuseInodes /\ SessionOK => RowsOK'
    PROVE  Promises'
<1>1. TableOK' BY DEF Promises, TableOK, store
<1>2. CrashOK' BY DEF Promises, CrashOK, store
<1>3. RegistryOK' BY DEF Promises, RegistryOK, Fits
<1>5. ASSUME PurgeOK PROVE PurgeOK' BY <1>5 DEF PurgeOK, store, Snapped
<1>6. DurableOK' BY <1>5 DEF Promises, Fits, DurableOK, SessionOK
<1> QED BY <1>1, <1>2, <1>3, <1>6 DEF Promises, Fits

(* The promises say so of the request. *)
LEMMA PromisesFit == ASSUME Promises PROVE Fits
BY DEF Promises, Fits, RegistryOK, DurableOK, SessionOK

(* The effect of a request that has not published. *)
LEMMA UnpublishedEffect ==
    ASSUME Fits, Unpublished
    PROVE  effect # "target" /\ ~landed[h.owner] /\ h.pc \notin {"idle", "done"}
BY DEF Fits, HistoryOK, Unpublished

(* It can end with any answer but "committed". *)
LEMMA HonestEnd ==
    ASSUME Fits, Unpublished, NEW a, a # "committed", told' \in {told, a},
           landed'[h.owner] => landed[h.owner], effect' \in {effect, "stage"}
    PROVE  Honest
BY UnpublishedEffect DEF Honest

(* It can give up its session, *)
LEMMA ResetFits ==
    ASSUME Fits, Unpublished, active' = TRUE, Carries, h'.pc \in {"reset", "reset_row"},
           landed' = landed, effect' \in {effect, "stage"}
    PROVE  Fits' /\ ~Owning'
<1>0. effect' # "target" /\ ~landed[h.owner] BY UnpublishedEffect
<1>1. HistoryOK'
  BY <1>0 DEF HistoryOK, Unpublished, Settling, Renamed, Saving, Storing, Carries
<1>3. HoldsOK' BY DEF HoldsOK, Owning, Anchored, InTransfer, Saving, Storing
<1>4. SizesOK' BY DEF SizesOK, Saving, Storing
<1>5. ~Owning' BY DEF Owning
<1> QED BY <1>1, <1>3, <1>4, <1>5 DEF Fits

(* discard its stage, *)
LEMMA DiscardFits ==
    ASSUME Fits, Unpublished, Owning, Carries, h'.pc = "discard", h'.ino = h.ino,
           h'.then # "finish" => active',
           landed' = landed, file' = file, effect' \in {effect, "stage"}
    PROVE  Fits' /\ ~Owning'
<1>0. effect' # "target" /\ ~landed[h.owner] BY UnpublishedEffect
<1>1. HistoryOK'
  BY <1>0 DEF HistoryOK, Unpublished, Settling, Renamed, Saving, Storing, Carries
<1>2. Registered' => active' BY DEF Registered
<1>3. ASSUME HoldsOK PROVE HoldsOK'
  BY <1>3 DEF HoldsOK, Owning, Anchored, InTransfer, Saving, Storing, Carries
<1>4. SizesOK' BY DEF SizesOK, Saving, Storing
<1>5. ~Owning' BY DEF Owning
<1> QED BY <1>1, <1>2, <1>3, <1>4, <1>5 DEF Fits

(* save a checkpoint of it, *)
LEMMA PersistFits ==
    ASSUME Fits, Unpublished, Owning, active' = TRUE, NEW j \in StageJobs, NEW n,
           Carries, h'.pc = "sync", h'.ino = h.ino, h'.job = j, h'.size = n,
           UNCHANGED <<rows, landed, stage, disk, file>>, effect' \in {effect, "stage"},
           ~ReuseInodes => file[h.ino].len >= n,
           j = "awaiting" => Settling,
           j \in {"rebind", "partial", "short", "commit"} => InTransfer,
           j \notin {"initial", "timeout"} \/ (j = "timeout" /\ Resume) => Anchored,
           j \in {"commit", "awaiting"} => n = Len,
           j = "rebind" => h.pc = "rebind" /\ n = h.off,
           ~ReuseInodes /\ j = "initial" => ~Resume
    PROVE  Fits' /\ Owning'
<1>0. effect' # "target" /\ ~landed[h.owner] BY UnpublishedEffect
<1>1. HistoryOK'
  BY <1>0 DEF Fits, HistoryOK, Unpublished, Settling, Renamed, Saving, Storing, Carries
<1>3. ASSUME HoldsOK, ~ReuseInodes PROVE HoldsOK'
  <2>1. Owning /\ (InTransfer' => InTransfer) /\ (Anchored' => Anchored)
    BY DEF InTransfer, Anchored, Saving, Storing, StageJobs, Carries, SyncsParent, Resume
  <2> QED BY <1>3, <2>1 DEF HoldsOK, Carries, Storing, Resume
<1>4. ASSUME SizesOK, ~ReuseInodes PROVE SizesOK'
  BY <1>4 DEF SizesOK, Saving, Storing, Carries, Resume
<1>5. Owning' BY DEF Owning
<1> QED BY <1>1, <1>3, <1>4, <1>5 DEF Fits

(* or go on with it. *)
LEMMA GotoFits ==
    ASSUME Fits, Unpublished, Owning, active' = TRUE, Carries, h'.ino = h.ino,
           h'.pc \in {"timeout", "reserve", "body", "precommit", "metadata", "space", "check",
                      "rename"},
           UNCHANGED <<rows, landed, stage, disk>>, effect' \in {effect, "stage"},
           file'[h.ino].by = file[h.ino].by,
           h'.pc \in {"check", "rename"} => h.pc \in {"publish", "check"},
           ~ReuseInodes /\ h'.pc = "timeout" /\ Resume => Anchored,
           h'.pc \in {"reserve", "body", "precommit", "metadata", "space"} => InTransfer,
           h'.pc \in {"reserve", "body", "precommit"}
              => h.pc \in {"truncate", "rebind", "reserve", "body", "precommit"}
    PROVE  Fits' /\ Owning'
<1>0. effect' # "target" /\ ~landed[h.owner] BY UnpublishedEffect
<1>1. HistoryOK'
  BY <1>0 DEF Fits, HistoryOK, Unpublished, Settling, Renamed, Saving, Storing, Carries
<1>3. ASSUME HoldsOK, ~ReuseInodes PROVE HoldsOK'
  <2>1. (InTransfer' => InTransfer) /\ (Anchored' => Anchored)
    BY <1>3 DEF InTransfer, Anchored, Saving, Storing, Carries, Resume
  <2> QED BY <1>3, <2>1 DEF HoldsOK, Carries, Storing
<1>4. ASSUME SizesOK PROVE SizesOK' BY <1>4 DEF SizesOK, Saving, Storing, Carries, Resume
<1>5. Owning' BY DEF Owning
<1> QED BY <1>1, <1>3, <1>4, <1>5 DEF Fits

-----------------------------------------------------------------------------
(* A request ends and leaves table and names alone. *)
LEMMA EndKeeps ==
    ASSUME Promises, NEW a, Finish(a), UNCHANGED <<store, names, marker, m>>
    PROVE  Promises'
<1>1. h'.pc = "done" /\ active' = FALSE BY FinishFields, Zenon
<1>2. Fits' /\ ~Owning' BY <1>1, DoneFits
<1> QED BY <1>1, <1>2, Rests

(* An answer that says nothing of the session. *)
LEMMA HonestStop ==
    ASSUME Fits, h.pc \notin {"done", "sync_parents", "save"}, effect' = effect,
           told' \in {told, "not_started", "unknown"}
    PROVE  Honest
BY DEF Fits, HistoryOK, Saving, Honest

(* A request looks around. *)
LEMMA EarlyFits ==
    ASSUME effect' # "target", h'.pc \in Early \union {"open", "create"},
           h'.pc \notin {"target", "dispatch", "lookup"} => ~landed'[h'.owner],
           h'.pc \in {"inspect", "admit"} /\ Resume' => active',
           h'.pc = "open" => active' /\ Resume' /\ h'.cp \in {"running", "awaiting"},
           h'.pc = "create" => ~Resume'
    PROVE  Fits' /\ ~Owning'
<1>1. HistoryOK'
  BY DEF HistoryOK, Unpublished, Settling, Renamed, Saving, Storing, Early
<1>2. Registered' => active' BY DEF Registered, Early
<1>3. HoldsOK' BY DEF HoldsOK, Owning, Anchored, InTransfer, Saving, Storing, Early
<1>4. SizesOK' BY DEF SizesOK, Saving, Storing, Early
<1>5. ~Owning' BY DEF Owning, Early
<1> QED BY <1>1, <1>2, <1>3, <1>4, <1>5 DEF Fits

(* Until its boundary a request has changed nothing. *)
LEMMA EarlyEffect ==
    ASSUME IndInv, h.pc \in Early \union {"idle", "open", "truncate"}
    PROVE  effect = "nothing" /\ h \in Requests /\ (h.pc # "idle" => h.owner \in Owners)
BY DEF IndInv, Handling, BoundaryOK, RequestOK, Early, Discarding

(* A request arrives. *)
LEMMA ArrivesPromises ==
    ASSUME IndInv, Promises, Arrive
    PROVE  Promises' /\ Honest
<1>1. h.pc = "idle" /\ UNCHANGED <<store, names, marker, m, active, told, effect>>
  BY Zenon DEF Arrive, Request, Discard, registry, client
<1>2. h'.pc \in {"target", "discard_row"} BY Zenon DEF Arrive, Request, Discard, Idle
<1>3. effect' # "target" BY <1>1, EarlyEffect
<1>4. Fits' /\ ~Owning'
  <2>1. CASE h'.pc = "target" BY <1>3, <2>1, EarlyFits DEF Early
  <2>2. CASE h'.pc = "discard_row"
    <3>1. HistoryOK' BY <1>3, <2>2 DEF HistoryOK, Unpublished, Settling, Renamed, Saving, Storing
    <3>2. ~Registered' BY <2>2 DEF Registered
    <3>3. HoldsOK' BY <2>2 DEF HoldsOK, Owning, Anchored, InTransfer, Saving, Storing
    <3>4. SizesOK' BY <2>2 DEF SizesOK, Saving, Storing
    <3>5. ~Owning' BY <2>2 DEF Owning
    <3> QED BY <3>1, <3>2, <3>3, <3>4, <3>5 DEF Fits
  <2> QED BY <1>2, <2>1, <2>2
<1>5. Promises' BY <1>1, <1>4, Rests
<1> QED BY <1>1, <1>5 DEF Honest

(* A failure before the mutation boundary (PrepareError), *)
LEMMA StopsPromises ==
    ASSUME IndInv, Promises, PrepareError \/ DeadlineBeforeMutation
    PROVE  Promises' /\ Honest
<1>1. /\ \E a \in {"not_started", "unknown"} : Finish(a)
      /\ UNCHANGED <<store, names, marker, m, effect>>
      /\ h.pc \notin {"done", "sync_parents", "save"}
  BY DEF PrepareError, DeadlineBeforeMutation, Fails
<1>2. Promises' BY <1>1, EndKeeps
<1>3. told' \in {told, "not_started", "unknown"} BY <1>1, FinishFields, Zenon
<1> QED BY <1>1, <1>2, <1>3, PromisesFit, HonestStop

(* and the deadline of the client, before and after it. *)
LEMMA DeadlinePromises ==
    ASSUME IndInv, Promises, await_tracked_upload_task
    PROVE  Promises' /\ Honest
<1>1. h \in Requests BY DEF IndInv, Handling, RequestOK
<1>2. Carries /\ UNCHANGED <<h.pc, h.ino, h.job, h.size, h.then>>
  BY <1>1, Zenon DEF await_tracked_upload_task, Requests, Carries
<1>3. UNCHANGED <<store, names, active, marker, m, effect>>
  BY DEF await_tracked_upload_task, registry
<1>4. Fits BY PromisesFit
<1>5. HistoryOK'
  BY <1>2, <1>3, <1>4 DEF Fits, HistoryOK, Unpublished, Settling, Renamed, Saving, Storing, Carries,
                          store, names
<1>6. Registered' => active' BY <1>2, <1>3, <1>4 DEF Fits, Registered, Carries, Resume
<1>7. Owning' => Owning BY <1>2 DEF Owning
<1>8. ASSUME HoldsOK PROVE HoldsOK'
  <2>1. (InTransfer' => InTransfer) /\ (Anchored' => Anchored)
    BY <1>2 DEF InTransfer, Anchored, Saving, Storing, Carries, Resume, SyncsParent
  <2> QED BY <1>2, <1>3, <1>7, <1>8, <2>1 DEF HoldsOK, Carries, store, names, Resume, Storing
<1>9. ASSUME SizesOK PROVE SizesOK'
  BY <1>2, <1>3, <1>9 DEF SizesOK, Saving, Storing, Carries, Resume, store, names
<1>10. Fits' BY <1>4, <1>5, <1>6, <1>8, <1>9 DEF Fits
<1>11. Promises' BY <1>2, <1>3, <1>7, <1>10, Rests
<1>12. Honest
  <2>1. told' = "not_started" => effect' = "nothing"
    BY DEF await_tracked_upload_task, IndInv, Handling, BoundaryOK, Discarding
  <2>2. told' \in {"not_started", "unknown"} BY DEF await_tracked_upload_task
  <2> QED BY <2>1, <2>2 DEF Honest
<1> QED BY <1>11, <1>12

(* What the recorded session says of the history. *)
LEMMA LookupHonest ==
    ASSUME TableOK, NEW o \in Owners
    PROVE  /\ Lookup(o) = "committed" => landed[o]
           /\ Lookup(o) \in {"none", "running", "awaiting", "rejected"} => ~landed[o]
BY DEF TableOK, Lookup

(* The steps that only look around. *)
LEMMA InspectPromises ==
    ASSUME IndInv, Promises, inspect_target \/ dispatch_fresh_upload
    PROVE  Promises' /\ Honest
<1>1. h.pc \in {"target", "dispatch"} /\ UNCHANGED <<store, names, marker, m, effect>>
  BY DEF inspect_target, dispatch_fresh_upload
<1>2. effect = "nothing" /\ h \in Requests BY <1>1, EarlyEffect DEF Early
<1>3. CASE Finish("not_started")
  <2>1. Promises' BY <1>1, <1>3, EndKeeps
  <2>2. told' \in {told, "not_started", "unknown"} BY <1>3, FinishFields, Zenon
  <2> QED BY <1>1, <2>1, <2>2, PromisesFit, HonestStop
<1>4. CASE \E p \in {"lookup", "dispatch"} : Goto(p) /\ UNCHANGED <<active, told>>
  <2>1. h'.pc \in {"lookup", "dispatch"} BY <1>2, <1>4, GotoFields
  <2>2. Fits' /\ ~Owning' BY <1>1, <1>2, <2>1, EarlyFits DEF Early
  <2>3. Promises' BY <1>1, <1>4, <2>2, Rests
  <2> QED BY <1>4, <2>3 DEF Honest
<1> QED BY <1>3, <1>4 DEF inspect_target, dispatch_fresh_upload

(* LookupSession, which answers from a stored record. *)
LEMMA LookupPromises ==
    ASSUME IndInv, Promises, LookupSession
    PROVE  Promises' /\ Honest
<1> DEFINE s == Lookup(h.owner)
           p == IF Resume THEN "track_resume" ELSE "inspect"
<1>1. h.pc = "lookup" /\ UNCHANGED <<store, names, marker, m, effect>>
  BY DEF LookupSession
<1>2. effect = "nothing" /\ h \in Requests /\ h.owner \in Owners BY <1>1, EarlyEffect DEF Early
<1>3. s \in {"none", "running", "awaiting"} \union Terminal BY <1>2, FoundState DEF IndInv
<1>4. /\ s = "committed" => landed[h.owner]
      /\ s \in {"none", "running", "awaiting", "rejected"} => ~landed[h.owner]
  BY <1>2, LookupHonest DEF Promises
<1>5. CASE Finish(s) /\ s # "none"
  <2>1. Promises' BY <1>1, <1>5, EndKeeps
  <2>2. told' \in {told, s} BY <1>5, FinishFields, Zenon
  <2>3. landed' = landed /\ effect' # "target" BY <1>1, <1>2 DEF store
  <2> QED BY <1>3, <1>4, <1>5, <2>1, <2>2, <2>3 DEF Honest, Terminal
<1>6. CASE /\ s \notin Terminal /\ UNCHANGED <<active, told>>
           /\ h' = [h EXCEPT !.pc = p, !.cp = s, !.seen = rows[h.owner].rev,
                             !.cpoff = rows[h.owner].off]
  <2>1. h'.pc = p /\ h'.owner = h.owner /\ h'.kind = h.kind
    <3> HIDE DEF s, p
    <3> QED BY <1>2, <1>6 DEF Requests
  <2>2. ~landed'[h'.owner] BY <1>1, <1>3, <1>4, <1>6, <2>1 DEF store
  <2>3. h'.pc \in {"track_resume", "inspect"} /\ (Resume' => h'.pc = "track_resume")
    BY <2>1 DEF Resume
  <2>4. Fits' /\ ~Owning' BY <1>1, <1>2, <2>2, <2>3, EarlyFits DEF Early
  <2>5. Promises' BY <1>1, <1>6, <2>4, Rests
  <2> QED BY <1>6, <2>5 DEF Honest
<1> QED BY <1>3, <1>5, <1>6, Zenon DEF LookupSession, Terminal

(* The places before the stage, where the request has not published. *)
LEMMA EarlyUnpublished ==
    ASSUME IndInv, Promises, h.pc \in {"track_resume", "inspect", "admit", "open", "create"}
    PROVE  /\ Fits /\ Unpublished /\ effect # "target" /\ ~landed[h.owner]
           /\ h \in Requests /\ h.owner \in Owners
           /\ h.cp \in {"none", "running", "awaiting"}
<1>1. h \in Requests /\ h.owner \in Owners BY DEF IndInv, Handling, RequestOK
<1>2. Fits /\ Unpublished BY PromisesFit DEF Unpublished, Saving
<1> QED BY <1>1, <1>2, UnpublishedEffect DEF Requests

(* The upload is registered (track_resume, inspect_target), *)
LEMMA TrackPromises ==
    ASSUME IndInv, Promises, TrackResume
    PROVE  Promises' /\ Honest
<1>1. h.pc = "track_resume" /\ UNCHANGED <<store, names, marker, m, effect>>
  BY DEF TrackResume
<1>2. /\ Fits /\ Unpublished /\ effect # "target" /\ ~landed[h.owner] /\ h \in Requests
  BY <1>1, EarlyUnpublished
<1>3. CASE Finish("not_seen")
  <2>1. Promises' BY <1>1, <1>3, EndKeeps
  <2>2. told' \in {told, "not_seen"} BY <1>3, FinishFields, Zenon
  <2> QED BY <1>1, <1>2, <2>1, <2>2, HonestEnd DEF store
<1>4. CASE ~marker /\ active' = TRUE /\ Goto("inspect") /\ UNCHANGED told
  <2>1. h'.pc = "inspect" /\ h'.owner = h.owner BY <1>2, <1>4, GotoFields DEF Carries
  <2>2. Fits' /\ ~Owning' BY <1>1, <1>2, <1>4, <2>1, EarlyFits DEF Early, store
  <2>3. Promises' BY <1>1, <1>4, <2>2, Rests
  <2> QED BY <1>4, <2>3 DEF Honest
<1> QED BY <1>3, <1>4, Zenon DEF TrackResume

(* and the request admitted, to a stage it resumes or to a new one. *)
LEMMA AdmitPromises ==
    ASSUME IndInv, Promises, InspectTarget \/ AdmitResumed \/ AdmitFresh
    PROVE  Promises' /\ Honest
<1>1. h.pc \in {"inspect", "admit"} /\ UNCHANGED <<store, names, marker, m, effect>>
  BY DEF InspectTarget, AdmitResumed, AdmitFresh
<1>2. /\ Fits /\ Unpublished /\ effect # "target" /\ ~landed[h.owner] /\ h \in Requests
      /\ h.cp \in {"none", "running", "awaiting"}
  BY <1>1, EarlyUnpublished
<1>a. Resume => active BY <1>1, <1>2 DEF Fits, Registered
<1>3. CASE \E a \in {"not_started", "not_seen", "running", "awaiting", "rejected"} : Finish(a)
  <2>0. PICK a \in {"not_started", "not_seen", "running", "awaiting", "rejected"} : Finish(a)
    BY <1>3
  <2>1. Promises' BY <1>1, <2>0, EndKeeps
  <2>2. told' \in {told, a} BY <2>0, FinishFields, Zenon
  <2> QED BY <1>1, <1>2, <2>1, <2>2, HonestEnd DEF store
<1>4. CASE /\ h'.pc \in {"admit", "open", "create"} /\ Carries /\ UNCHANGED <<active, told>>
           /\ h'.pc = "open" => Resume /\ h.cp # "none"
           /\ h'.pc = "create" => ~Resume
  <2>2. Fits' /\ ~Owning' BY <1>1, <1>2, <1>a, <1>4, EarlyFits DEF Early, store, Carries, Resume
  <2>a. active' = active BY <1>4
  <2>3. Promises' BY <1>1, <2>a, <2>2, Rests
  <2> QED BY <1>4, <2>3 DEF Honest
<1>5. CASE InspectTarget
  <2>1. ConflictState \in {"not_started", "running", "awaiting"} BY <1>2 DEF ConflictState
  <2>2. ASSUME NEW t, h' = [h EXCEPT !.pc = "admit", !.tid = t] PROVE h'.pc = "admit" /\ Carries
    BY <1>2, <2>2 DEF Requests, Carries
  <2> QED BY <1>3, <1>4, <1>5, <2>1, <2>2, Zenon DEF InspectTarget
<1>6. CASE AdmitResumed
  <2>2. h' = [h EXCEPT !.pc = "open", !.cpoff = 0] => h'.pc = "open" /\ Carries
    BY <1>2 DEF Requests, Carries
  <2> QED BY <1>2, <1>3, <1>4, <1>6, <2>2 DEF AdmitResumed
<1>7. CASE AdmitFresh
  <2>2. h' = [Crossed(h) EXCEPT !.pc = "create"] => h'.pc = "create" /\ Carries
    BY <1>2 DEF Requests, Carries, Crossed
  <2> QED BY <1>3, <1>4, <1>7, <2>2 DEF AdmitFresh
<1> QED BY <1>5, <1>6, <1>7

-----------------------------------------------------------------------------
(* The request at work on its stage. *)
LEMMA StageHeld ==
    ASSUME IndInv, Promises, Owning
    PROVE  /\ Fits /\ Unpublished /\ h \in Requests /\ h.owner \in Owners
           /\ h.ino \in Inodes /\ h.cp \in {"none", "running", "awaiting"}
           /\ h.pc # "track_fresh" => active = TRUE
           /\ file[h.ino] \in File
<1>1. Unpublished /\ h.pc \notin {"idle", "discard"}
  BY DEF Unpublished, Owning, Saving, StageJobs
<1>2. h \in Requests /\ h.owner \in Owners /\ h.ino \in Inodes
  BY <1>1 DEF IndInv, Handling, RequestOK, StageOK
<1>3. Fits BY PromisesFit
<1>4. h.pc # "track_fresh" => Registered BY DEF Registered, Owning
<1>5. active \in BOOLEAN /\ file \in [Inodes -> File] BY DEF IndInv, TypeOK
<1> QED BY <1>1, <1>2, <1>3, <1>4, <1>5 DEF Fits, Requests

(* The effect of the first change. *)
LEMMA MutatesEffect == ASSUME Mutates PROVE effect' \in {effect, "stage"}
BY DEF Mutates

(* A new stage file gets its name, *)
LEMMA CreatePromises ==
    ASSUME IndInv, Promises, CreateStage
    PROVE  Promises' /\ Honest
<1>1. h.pc = "create" /\ UNCHANGED <<store, target, disk, marker, m>>
  BY Zenon DEF CreateStage
<1>2. /\ Fits /\ Unpublished /\ effect # "target" /\ ~landed[h.owner]
      /\ h \in Requests /\ h.owner \in Owners
  BY <1>1, EarlyUnpublished
<1>3. CASE Finish("not_seen") /\ UNCHANGED <<stage, file, aged, effect>>
  <2>1. Promises' BY <1>1, <1>3, EndKeeps DEF names
  <2>2. told' \in {told, "not_seen"} BY <1>3, FinishFields, Zenon
  <2> QED BY <1>1, <1>2, <1>3, <2>1, <2>2, HonestEnd DEF store
<1>4. ASSUME NEW i \in Inodes, Free(i), stage = NoIno, stage' = i,
             file' = [file EXCEPT ![i] = [Blank EXCEPT !.by = h.owner]],
             h' = [h EXCEPT !.pc = "track_fresh", !.ino = i],
             Mutates, UNCHANGED <<active, told>>
      PROVE  Promises' /\ Honest
  <2>1. Carries /\ h'.pc = "track_fresh" /\ h'.ino = i BY <1>2, <1>4 DEF Requests, Carries
  <2>2. /\ \A j \in Inodes : j # i => file'[j] = file[j]
        /\ file'[i].by = h.owner
    BY <1>4 DEF IndInv, TypeOK, Blank
  <2>3. effect' # "target" BY <1>2, <1>4, MutatesEffect
  <2>4. HistoryOK'
    BY <1>1, <1>2, <2>1, <2>3
    DEF HistoryOK, Unpublished, Settling, Renamed, Saving, Storing, Carries, store
  <2>5. ~Registered' BY <2>1 DEF Registered
  <2>6. ASSUME HoldsOK PROVE HoldsOK'
    BY <1>1, <1>4, <2>1, <2>2, <2>6
    DEF HoldsOK, Owning, Anchored, InTransfer, Saving, Storing, Carries, Resume
  <2>7. SizesOK' BY <2>1 DEF SizesOK, Saving, Storing
  <2>8. Fits' BY <1>2, <2>4, <2>5, <2>6, <2>7 DEF Fits
  <2>9. TableOK' BY <1>1 DEF Promises, TableOK, store
  <2>10. CrashOK'
    <3>1. rows[h.owner].state # "committed" BY <1>2 DEF Promises, TableOK
    <3>2. i # disk.stage BY <1>4 DEF Free
    <3> QED BY <1>1, <1>4, <2>1, <2>2, <3>1, <3>2 DEF Promises, CrashOK, store
  <2>11. RegistryOK' BY <1>1, <1>4, <2>5 DEF Promises, RegistryOK
  <2>12. ASSUME ~ReuseInodes, RowsOK PROVE RowsOK'
    BY <1>1, <1>4, <2>2, <2>12 DEF RowsOK, Free, store
  <2>13. ASSUME ~ReuseInodes, PurgeOK PROVE PurgeOK'
    <3>1. m.pc = "drop_row" => m.at \in Owners BY DEF Promises, RegistryOK
    <3> QED BY <1>1, <1>4, <2>13, <3>1
            DEF PurgeOK, Free, store, Snapped, expired_upload_session_matches
  <2>14. DurableOK' BY <2>8, <2>12, <2>13 DEF Promises, DurableOK, SessionOK, Fits
  <2> QED BY <1>4, <2>8, <2>9, <2>10, <2>11, <2>14 DEF Promises, Fits, Honest
<1> QED BY <1>3, <1>4, Zenon DEF CreateStage

(* and the upload is registered. *)
LEMMA TrackFreshPromises ==
    ASSUME IndInv, Promises, TrackFresh
    PROVE  Promises' /\ Honest
<1>1. h.pc = "track_fresh" /\ UNCHANGED <<store, names, marker, m, told, effect>>
  BY DEF TrackFresh, client
<1>2. Owning BY <1>1 DEF Owning
<1>3. Fits /\ Unpublished /\ h \in Requests /\ file[h.ino] \in File BY <1>2, StageHeld
<1>4. file[h.ino].len >= 0 BY <1>3, UploadAssumption DEF File, Offsets
<1>5. ~ReuseInodes => ~Resume BY <1>1, <1>3 DEF Fits, HoldsOK
<1>6. active' => active \/ ~marker BY Zenon DEF TrackFresh
<1>7. CASE active' = TRUE /\ Persist("initial", 0)
  <2>1. /\ Carries /\ h'.pc = "sync" /\ h'.ino = h.ino /\ h'.job = "initial" /\ h'.size = 0
    BY <1>3, <1>7, PersistFields
  <2>2. Fits'
    BY <1>1, <1>2, <1>3, <1>4, <1>5, <1>7, <2>1, PersistFits DEF StageJobs, store, names
  <2>3. Promises' BY <1>1, <1>2, <1>6, <2>1, <2>2, Rests
  <2> QED BY <1>1, <2>3 DEF Honest
<1>8. CASE active' = TRUE /\ Goto("timeout")
  <2>1. /\ Carries /\ h'.pc = "timeout" /\ h'.ino = h.ino BY <1>3, <1>8, GotoFields
  <2>2. Fits' BY <1>1, <1>2, <1>3, <1>5, <1>8, <2>1, GotoFits DEF store, names
  <2>3. Promises' BY <1>1, <1>2, <1>6, <2>1, <2>2, Rests
  <2> QED BY <1>1, <2>3 DEF Honest
<1>9. CASE h' = [h EXCEPT !.pc = "discard", !.then = "finish"]
  <2>1. Carries /\ h'.pc = "discard" /\ h'.ino = h.ino /\ h'.then = "finish"
    BY <1>3, <1>9, DiscardFields, Zenon
  <2>2. Fits' /\ ~Owning' BY <1>1, <1>2, <1>3, <2>1, DiscardFits DEF store, names
  <2>3. Promises' BY <1>1, <1>6, <2>2, Rests
  <2> QED BY <1>1, <2>3 DEF Honest
<1> QED BY <1>7, <1>8, <1>9, Zenon DEF TrackFresh

(* A request that ends with its stage as it is. *)
LEMMA EndHonest ==
    ASSUME Promises, Fits, Unpublished, NEW a, a # "committed", Finish(a),
           UNCHANGED <<store, names, marker, m>>, effect' \in {effect, "stage"}
    PROVE  Promises' /\ Honest
<1>1. Promises' BY EndKeeps
<1>2. told' \in {told, a} BY FinishFields, Zenon
<1> QED BY <1>1, <1>2, HonestEnd DEF store

(* One that gives up its session. *)
LEMMA ResetKeeps ==
    ASSUME IndInv, Promises, Owning, h.pc # "track_fresh", NEW t, ResetThen(t),
           UNCHANGED <<store, names, marker, m, active, told>>, effect' \in {effect, "stage"}
    PROVE  Promises' /\ Honest
<1>1. Fits /\ Unpublished /\ h \in Requests /\ active = TRUE BY StageHeld
<1>2. Carries /\ h'.pc = "reset" BY <1>1, ResetFields, Zenon
<1>3. Fits' /\ ~Owning' BY <1>1, <1>2, ResetFits DEF store
<1>4. Promises' BY <1>3, Rests
<1> QED BY <1>4 DEF Honest

(* The stage that a row names is opened again, *)
LEMMA OpenPromises ==
    ASSUME IndInv, Promises, OpenStage
    PROVE  Promises' /\ Honest
<1> DEFINE r == rows[h.owner]
<1>1. h.pc = "open" /\ UNCHANGED <<store, names, marker, m, effect>> BY DEF OpenStage
<1>2. /\ Fits /\ Unpublished /\ effect # "target" /\ ~landed[h.owner]
      /\ h \in Requests /\ h.owner \in Owners /\ h.cp \in {"none", "running", "awaiting"}
  BY <1>1, EarlyUnpublished
<1>3. active BY <1>1, <1>2 DEF Fits, Registered
<1>4. CASE Finish(h.cp) BY <1>1, <1>2, <1>4, EndHonest
<1>5. ASSUME NEW p \in {"truncate", "rebind"}, r.state = h.cp, r.off = h.off,
             valid_resumable_stage(r), h' = [h EXCEPT !.pc = p, !.ino = r.ino],
             UNCHANGED <<active, told>>
      PROVE  Promises' /\ Honest
  <2>1. Carries /\ h'.pc = p /\ h'.ino = r.ino
    <3> HIDE DEF r
    <3> QED BY <1>2, <1>5 DEF Requests, Carries
  <2>2. r \in Row BY <1>2 DEF IndInv, TypeOK
  <2>3. r.ino \in Inodes /\ r.ino = stage /\ file[r.ino].len >= r.off
    BY <1>5, <2>2 DEF valid_resumable_stage, Row
  <2>4. HistoryOK'
    BY <1>1, <1>2, <1>5, <2>1
    DEF HistoryOK, Unpublished, Settling, Renamed, Saving, Storing, Carries, store
  <2>5. ASSUME RowsOK, HoldsOK PROVE HoldsOK'
    <3>1. h.cp \in {"running", "awaiting"} BY <1>1, <2>5 DEF HoldsOK
    <3>2. file[r.ino].by = h.owner /\ disk.stage = r.ino
      BY <1>2, <1>5, <2>3, <2>5, <3>1 DEF RowsOK, Live, NonTerminal
    <3> QED BY <1>1, <1>5, <2>1, <2>3, <3>1, <3>2
            DEF HoldsOK, Saving, Storing, Carries, Resume, store, names
  <2>6. SizesOK'
    <3>1. r.off <= h.off /\ h.off \in Nat
      BY <1>2, <1>5, UploadAssumption DEF Requests, Offsets
    <3> QED BY <1>1, <1>5, <2>1, <2>3, <3>1 DEF SizesOK, Saving, Storing, Carries, store, names
  <2>7. Fits' BY <1>2, <1>3, <1>5, <2>4, <2>5, <2>6 DEF Fits, Promises, DurableOK, SessionOK
  <2>8. TableOK' BY <1>1 DEF Promises, TableOK, store
  <2>9. CrashOK' BY <1>1, <2>1, <2>3 DEF Promises, CrashOK, store, names
  <2>10. RegistryOK' BY <1>1, <1>5, <2>7 DEF Promises, RegistryOK, Fits
  <2>11. ASSUME RowsOK PROVE RowsOK' BY <1>1, <2>11 DEF RowsOK, store, names
  <2>12. ASSUME PurgeOK PROVE PurgeOK' BY <1>1, <2>12 DEF PurgeOK, store, names, Snapped
  <2>13. DurableOK' BY <2>7, <2>11, <2>12, Zenon DEF Promises, Fits, DurableOK, SessionOK
  <2> QED BY <1>5, <2>7, <2>8, <2>9, <2>10, <2>13 DEF Promises, Fits, Honest
<1> QED BY <1>4, <1>5, Zenon DEF OpenStage

(* A new length or sync state of the stage file. *)
LEMMA SyncedRows ==
    ASSUME IndInv, Owning, RowsOK, HoldsOK, UNCHANGED <<rows, stage, disk>>,
           NEW g, file' = [file EXCEPT ![h.ino] = g], g.by = file[h.ino].by,
           Live(rows[h.owner]) /\ file[h.ino].synced >= rows[h.owner].off
              => g.synced >= rows[h.owner].off
    PROVE  RowsOK'
<1>1. h.ino \in Inodes /\ file[h.ino].by = h.owner BY DEF HoldsOK
<1>2. /\ \A i \in Inodes : i # h.ino => file'[i] = file[i]
      /\ file'[h.ino] = g
  BY <1>1 DEF IndInv, TypeOK
<1>3. ASSUME NEW o \in Owners
      PROVE  /\ Live(rows[o]) => rows[o].ino \in Inodes
             /\ rows[o].ino \in Inodes \intersect {stage, disk.stage} => file'[rows[o].ino].by = o
             /\ Live(rows[o]) /\ rows[o].ino \in {stage, disk.stage}
                   => file'[rows[o].ino].synced >= rows[o].off
             /\ Live(rows[o]) /\ rows[o].ino = stage => disk.stage = stage
  BY <1>1, <1>2 DEF RowsOK
<1> QED BY <1>3, Zenon DEF RowsOK

(* What stays of the owner of each file when the stage is written. *)
LEMMA WrittenBy ==
    ASSUME IndInv, NEW g, g.by = file[h.ino].by, file' = [file EXCEPT ![h.ino] = g] \/ file' = file
    PROVE  \A i \in Inodes : file'[i].by = file[i].by
BY DEF IndInv, TypeOK

(* cut to the offset the client goes on from, *)
LEMMA TruncatePromises ==
    ASSUME IndInv, Promises, TruncateStage
    PROVE  Promises' /\ Honest
<1>1. h.pc = "truncate" /\ UNCHANGED <<store, stage, target, disk, marker, m>>
  BY Zenon DEF TruncateStage
<1>2. Owning BY <1>1 DEF Owning
<1>3. /\ Fits /\ Unpublished /\ h \in Requests /\ h.ino \in Inodes /\ active = TRUE
      /\ file[h.ino] \in File /\ h.owner \in Owners
  BY <1>1, <1>2, StageHeld
<1>4. CASE Finish("not_started") /\ UNCHANGED <<file, aged, effect>>
  BY <1>1, <1>3, <1>4, EndHonest DEF names
<1>5. CASE /\ file' = [file EXCEPT ![h.ino] = Truncated(@, h.off)]
           /\ h' = [Crossed(h) EXCEPT !.pc = "rebind"]
           /\ Mutates /\ UNCHANGED <<active, told>>
  <2> DEFINE g == Truncated(file[h.ino], h.off)
  <2>1. Carries /\ h'.pc = "rebind" /\ h'.ino = h.ino
    BY <1>3, <1>5 DEF Requests, Carries, Crossed
  <2>2. file' = [file EXCEPT ![h.ino] = g] BY <1>5
  <2>3. /\ g.by = file[h.ino].by /\ g.len = h.off
        /\ g.synced = IF file[h.ino].synced < h.off THEN file[h.ino].synced ELSE h.off
    BY <1>3 DEF Truncated, File
  <2>4. h.off \in Nat /\ file[h.ino].synced \in Nat /\ rows[h.owner].off \in Nat
    BY <1>3, UploadAssumption DEF Requests, Offsets, File, IndInv, TypeOK, Row
  <2> HIDE DEF g
  <2>5. file'[h.ino] = g BY <1>3, <2>2 DEF IndInv, TypeOK
  <2>6. HistoryOK'
    <3>1. effect' # "target" /\ ~landed[h.owner] BY <1>3, <1>5, MutatesEffect, UnpublishedEffect
    <3> QED BY <1>1, <2>1, <3>1
            DEF HistoryOK, Unpublished, Settling, Renamed, Saving, Storing, Carries, store
  <2>7. ASSUME HoldsOK PROVE HoldsOK'
    <3>1. InTransfer /\ Anchored BY <1>1 DEF InTransfer, Anchored
    <3> QED BY <1>1, <1>2, <2>1, <2>3, <2>5, <2>7, <3>1 DEF HoldsOK, Carries, store, Storing
  <2>8. ASSUME SizesOK PROVE SizesOK'
    BY <1>1, <2>1, <2>3, <2>4, <2>5, <2>8 DEF SizesOK, Saving, Storing, Carries, store, Resume
  <2>9. Fits' BY <1>3, <1>5, <2>6, <2>7, <2>8 DEF Fits
  <2>10. ASSUME ~ReuseInodes, SessionOK PROVE RowsOK'
    <3>1. rows[h.owner].off <= h.off
      <4>1. Resume BY <1>1 DEF IndInv, Handling, BoundaryOK, Opening
      <4> QED BY <1>1, <2>10, <4>1 DEF SessionOK, SizesOK
    <3> QED BY <1>1, <1>2, <2>2, <2>3, <2>4, <2>10, <3>1, SyncedRows, Zenon DEF SessionOK, store
  <2>11. \A i \in Inodes : file'[i].by = file[i].by BY <2>2, <2>3, WrittenBy
  <2>12. active' = active BY <1>5
  <2>13. Promises' BY <1>1, <1>2, <2>1, <2>9, <2>10, <2>11, <2>12, WritesRest
  <2> QED BY <1>5, <2>13 DEF Honest
<1> QED BY <1>4, <1>5, Zenon DEF TruncateStage

(* and bound to the revision of the target it is to replace. *)
LEMMA RebindPromises ==
    ASSUME IndInv, Promises, RebindRevision
    PROVE  Promises' /\ Honest
<1>1. h.pc = "rebind" /\ UNCHANGED <<store, names, marker, m, effect>>
  BY DEF RebindRevision
<1>2. Owning /\ InTransfer /\ Anchored BY <1>1 DEF Owning, InTransfer, Anchored
<1>3. Fits /\ Unpublished /\ h \in Requests /\ active = TRUE BY <1>1, <1>2, StageHeld
<1>4. CASE Finish("not_started") BY <1>1, <1>3, <1>4, EndHonest
<1>5. CASE /\ h' = [Crossed(h) EXCEPT !.pc = "sync", !.job = "rebind", !.size = h.off]
           /\ UNCHANGED <<active, told>>
  <2>1. /\ Carries /\ h'.pc = "sync" /\ h'.ino = h.ino /\ h'.job = "rebind" /\ h'.size = h.off
    BY <1>3, <1>5 DEF Requests, Carries, Crossed
  <2>2. ~ReuseInodes => file[h.ino].len >= h.off BY <1>1, <1>3 DEF Fits, SizesOK
  <2>3. Fits'
    BY <1>1, <1>2, <1>3, <1>5, <2>1, <2>2, PersistFits DEF StageJobs, store, names
  <2>4. Promises' BY <1>1, <1>2, <1>5, <2>1, <2>3, Rests
  <2> QED BY <1>5, <2>4 DEF Honest
<1>6. CASE h' = [h EXCEPT !.pc = "reserve", !.seen = NoRev] /\ UNCHANGED <<active, told>>
  <2>1. Carries /\ h'.pc = "reserve" /\ h'.ino = h.ino BY <1>3, <1>6 DEF Requests, Carries
  <2>3. Fits' BY <1>1, <1>2, <1>3, <1>6, <2>1, GotoFits DEF store, names
  <2>4. Promises' BY <1>1, <1>2, <1>6, <2>1, <2>3, Rests
  <2> QED BY <1>6, <2>4 DEF Honest
<1> QED BY <1>4, <1>5, <1>6, Zenon DEF RebindRevision

(* A resumed stage that falls back to its durable offset. *)
LEMMA RollbackKeeps ==
    ASSUME IndInv, Promises, h.pc \in {"reserve", "body", "precommit"}, Resume,
           Finish("running"), effect' \in {effect, "stage"},
           UNCHANGED <<store, stage, target, disk, marker, m>>,
           NEW g, g.by = file[h.ino].by, g.synced \in {h.off, file[h.ino].synced},
           file' = [file EXCEPT ![h.ino] = g] \/ file' = file
    PROVE  Promises' /\ Honest
<1>1. Owning BY DEF Owning
<1>2. Fits /\ Unpublished /\ h \in Requests /\ h.owner \in Owners BY <1>1, StageHeld
<1>3. h'.pc = "done" /\ active' = FALSE /\ told' \in {told, "running"} BY FinishFields, Zenon
<1>4. Fits' /\ ~Owning' BY <1>3, DoneFits
<1>5. \A i \in Inodes : file'[i].by = file[i].by BY WrittenBy, Zenon
<1>6. ASSUME ~ReuseInodes, SessionOK PROVE RowsOK'
  <2>1. rows[h.owner].off <= h.off BY <1>6 DEF SessionOK, SizesOK
  <2>2. h.off \in Nat /\ rows[h.owner].off \in Nat
    <3>1. h.off \in Offsets BY <1>2, Zenon DEF Requests
    <3>2. rows[h.owner] \in Row BY <1>2 DEF IndInv, TypeOK
    <3>3. rows[h.owner].off \in Offsets BY <3>2 DEF Row
    <3> QED BY <3>1, <3>3, UploadAssumption DEF Offsets
  <2>3. CASE file' = file BY <1>6, <2>3 DEF SessionOK, RowsOK, store
  <2>4. CASE file' = [file EXCEPT ![h.ino] = g] /\ g.synced = file[h.ino].synced
    BY <1>1, <1>6, <2>4, SyncedRows, Zenon DEF SessionOK, store
  <2>5. CASE file' = [file EXCEPT ![h.ino] = g] /\ g.synced = h.off
    <3>1. g.synced >= rows[h.owner].off BY <2>1, <2>2, <2>5, Zenon
    <3> QED BY <1>1, <1>6, <2>5, <3>1, SyncedRows, Zenon DEF SessionOK, store
  <2> QED BY <2>3, <2>4, <2>5
<1>7. Promises' BY <1>3, <1>4, <1>5, <1>6, WritesRest, Zenon
<1>8. Honest BY <1>2, <1>3, HonestEnd DEF store
<1> QED BY <1>7, <1>8

(* What RolledBack and Truncated leave of a file. *)
LEMMA CutFile ==
    ASSUME NEW f \in File, h \in Requests
    PROVE  /\ RolledBack(f).by = f.by /\ RolledBack(f).synced = h.off
           /\ Truncated(f, h.off).by = f.by
           /\ Truncated(f, h.off).synced \in {f.synced, h.off}
           /\ h.off \in Nat
BY UploadAssumption DEF RolledBack, Truncated, File, Requests, Offsets

(* A write that finds no space: the stage falls back, or is given up. *)
LEMMA SpacePromises ==
    ASSUME IndInv, Promises, h.pc \in {"reserve", "precommit"}, SpaceFailure,
           UNCHANGED <<store, stage, target, disk, aged, marker, m>>
    PROVE  Promises' /\ Honest
<1>1. Owning BY DEF Owning
<1>2. /\ Fits /\ Unpublished /\ h \in Requests /\ h.owner \in Owners
      /\ file[h.ino] \in File /\ h.ino \in Inodes
  BY <1>1, StageHeld
<1>3. CASE Resume
  <2>1. Finish("running") /\ effect' \in {effect, "stage"}
    BY <1>3, MutatesEffect, Zenon DEF SpaceFailure
  <2>2. PICK g \in {RolledBack(file[h.ino]), Truncated(file[h.ino], h.off)} :
           file' = [file EXCEPT ![h.ino] = g] \/ file' = file
    BY <1>3, Zenon DEF SpaceFailure
  <2>3. /\ g.by = file[h.ino].by /\ g.synced \in {h.off, file[h.ino].synced}
    BY <1>2, <2>2, CutFile
  <2> QED BY <1>3, <2>1, <2>2, <2>3, RollbackKeeps
<1>4. CASE ~Resume
  <2>1. ResetThen("rejected") /\ UNCHANGED <<file, active, told, effect>>
    BY <1>4, Zenon DEF SpaceFailure
  <2> QED BY <1>1, <2>1, ResetKeeps DEF names
<1> QED BY <1>3, <1>4

(* Space is reserved for the rest of the upload. *)
LEMMA ReservePromises ==
    ASSUME IndInv, Promises, ReserveSpace
    PROVE  Promises' /\ Honest
<1>1. h.pc = "reserve" /\ UNCHANGED <<store, stage, target, disk, aged, marker, m>>
  BY Zenon DEF ReserveSpace
<1>2. Owning /\ InTransfer /\ Anchored BY <1>1 DEF Owning, InTransfer, Anchored
<1>3. /\ Fits /\ Unpublished /\ h \in Requests /\ active = TRUE
      /\ h.cp \in {"none", "running", "awaiting"}
  BY <1>1, <1>2, StageHeld
<1>4. CASE \E p \in {"body", "timeout"} :
              /\ Carries /\ h'.pc = p /\ h'.ino = h.ino
              /\ UNCHANGED <<file, active, told, effect>>
  <2>1. /\ Carries /\ h'.pc \in {"body", "timeout"} /\ h'.ino = h.ino
        /\ UNCHANGED <<file, active, told, effect>>
    BY <1>4
  <2>3. Fits' BY <1>1, <1>2, <1>3, <2>1, GotoFits DEF store
  <2>4. Promises' BY <1>1, <1>2, <2>1, <2>3, Rests DEF names
  <2> QED BY <2>1, <2>4 DEF Honest
<1>5. CASE h' = [Crossed(h) EXCEPT !.pc = "body"] /\ UNCHANGED <<file, active, told, effect>>
  <2>1. Carries /\ h'.pc = "body" /\ h'.ino = h.ino
    BY <1>3, <1>5 DEF Requests, Carries, Crossed
  <2> QED BY <1>4, <1>5, <2>1
<1>6. CASE Goto("timeout") /\ UNCHANGED <<file, active, told, effect>>
  <2>1. Carries /\ h'.pc = "timeout" /\ h'.ino = h.ino BY <1>3, <1>6, GotoFields
  <2> QED BY <1>4, <1>6, <2>1
<1>7. CASE (\E a \in {"not_started", h.cp} : Finish(a)) /\ UNCHANGED <<file, effect>>
  BY <1>1, <1>3, <1>7, EndHonest DEF names
<1>8. CASE SpaceFailure BY <1>1, <1>8, SpacePromises
<1> QED BY <1>5, <1>6, <1>7, <1>8, Zenon DEF ReserveSpace

-----------------------------------------------------------------------------
(* The stage name goes, or stays. *)
LEMMA UnlinkRest ==
    ASSUME IndInv, Promises, Fits', Unlinks, UNCHANGED <<store, target, marker, m>>,
           active' => active, ~Owning'
    PROVE  Promises'
<1>1. TableOK' BY DEF Promises, TableOK, store
<1>2. CASE UNCHANGED <<stage, disk, aged, file>> BY <1>2, Rests DEF names
<1>3. CASE Unlink
  <2>1. /\ stage' = NoIno /\ disk'.stage = NoIno /\ disk'.target = disk.target
        /\ \A i \in Inodes \intersect {target, disk.target} : file'[i] = file[i]
    BY <1>3 DEF Unlink, Kept, IndInv, TypeOK
  <2>2. CrashOK'
    <3>1. SUFFICES ASSUME NEW o \in Owners, NEW i \in Inodes,
                          rows[o].state = "committed", file'[i].by = o, i = target
                   PROVE  i = disk.target
      BY <2>1, UploadAssumption DEF CrashOK, store
    <3>2. file[i].by = o BY <2>1, <3>1
    <3> QED BY <3>1, <3>2, Zenon DEF Promises, CrashOK
  <2>3. RegistryOK' BY DEF Promises, RegistryOK, Fits
  <2>4. ASSUME RowsOK PROVE RowsOK' BY <2>1, <2>4, UploadAssumption, Zenon DEF RowsOK, store
  <2>5. ASSUME RowsOK, PurgeOK PROVE PurgeOK'
    <3>1. m.pc = "drop_row" => m.at \in Owners BY DEF Promises, RegistryOK
    <3> QED BY <2>1, <2>5, <3>1, UploadAssumption, Zenon
            DEF PurgeOK, RowsOK, Snapped, expired_upload_session_matches, store
  <2>6. DurableOK' BY <2>4, <2>5 DEF Promises, Fits, DurableOK, SessionOK
  <2> QED BY <1>1, <2>2, <2>3, <2>6 DEF Promises, Fits
<1> QED BY <1>2, <1>3 DEF Unlinks

(* A file that was just created is discarded. *)
LEMMA DiscardStagePromises ==
    ASSUME IndInv, Promises, DiscardStage
    PROVE  Promises' /\ Honest
<1>1. h.pc = "discard" /\ UNCHANGED <<store, target, marker, m>> /\ Mutates
  BY Zenon DEF DiscardStage
<1>2. Unlinks BY UnlinksByIdentity, Zenon DEF DiscardStage, Unlinks
<1>3. Fits /\ Unpublished /\ h \in Requests
  BY <1>1, PromisesFit DEF Unpublished, Saving, IndInv, Handling, RequestOK
<1>4. effect' \in {effect, "stage"} /\ landed' = landed BY <1>1, MutatesEffect DEF store
<1>5. CASE Fails
  <2>1. PICK a \in {"unknown", "not_started"} : Finish(a) BY <1>5 DEF Fails
  <2>2. h'.pc = "done" /\ active' = FALSE /\ told' \in {told, a} BY <2>1, FinishFields, Zenon
  <2>3. Fits' /\ ~Owning' BY <2>2, DoneFits
  <2>4. Promises' BY <1>1, <1>2, <2>2, <2>3, UnlinkRest
  <2> QED BY <1>3, <1>4, <2>2, <2>4, HonestEnd
<1>6. CASE h.then # "finish" /\ ResetThen("unknown") /\ UNCHANGED <<active, told>>
  <2>1. active' = TRUE
    <3>1. Registered BY <1>1, <1>6 DEF Registered
    <3> QED BY <1>3, <1>6, <3>1 DEF Fits, IndInv, TypeOK
  <2>2. Carries /\ h'.pc = "reset" BY <1>3, <1>6, ResetFields, Zenon
  <2>3. Fits' /\ ~Owning' BY <1>3, <1>4, <2>1, <2>2, ResetFits
  <2>4. active' = active BY <1>6
  <2>5. Promises' BY <1>1, <1>2, <2>3, <2>4, UnlinkRest
  <2> QED BY <1>6, <2>5 DEF Honest
<1> QED BY <1>5, <1>6, Zenon DEF DiscardStage

(* What follows the removal of a session. *)
LEMMA AfterResetFits ==
    ASSUME IndInv, Fits, h.pc \in {"reset", "reset_row"}, AfterReset,
           rows'[h.owner].state = "none", landed'[h.owner] => landed[h.owner],
           effect' \in {effect, "stage"}
    PROVE  Fits' /\ ~Owning' /\ Honest /\ (active' => active)
<1>1. Unpublished /\ h \in Requests /\ h.then \in {"rejected", "unknown", "refuse"}
  BY DEF Unpublished, Saving, IndInv, Handling, RequestOK
<1>2. effect' # "target" /\ ~landed[h.owner] BY <1>1, UnpublishedEffect
<1>3. CASE Finish(h.then) /\ h.then # "refuse"
  <2>1. h'.pc = "done" /\ active' = FALSE /\ told' \in {told, h.then}
    BY <1>3, FinishFields, Zenon
  <2>2. Fits' /\ ~Owning' BY <2>1, DoneFits
  <2> QED BY <1>1, <1>3, <2>1, <2>2, HonestEnd
<1>4. CASE Record("refuse", 0) /\ UNCHANGED <<active, told>>
  <2>1. Carries /\ h'.pc = "save" /\ h'.job = "refuse" BY <1>1, <1>4, RecordFields, Zenon
  <2>2. HistoryOK'
    BY <1>2, <2>1 DEF HistoryOK, Unpublished, Settling, Renamed, Saving, Storing, Carries
  <2>3. active' BY <1>4 DEF Fits, Registered
  <2>4. HoldsOK' /\ ~Owning'
    BY <2>1 DEF HoldsOK, Owning, Anchored, InTransfer, Saving, Storing, StageJobs
  <2>5. SizesOK' BY <2>1 DEF SizesOK, Saving, Storing, StageJobs
  <2>6. Honest BY <1>4 DEF Honest
  <2> QED BY <1>4, <2>2, <2>3, <2>4, <2>5, <2>6 DEF Fits
<1> QED BY <1>3, <1>4 DEF AfterReset

(* A session is given up: first its stage, *)
LEMMA ResetStagePromises ==
    ASSUME IndInv, Promises, ResetStage
    PROVE  Promises' /\ Honest
<1> DEFINE r == rows[h.owner]
<1>1. h.pc = "reset" /\ UNCHANGED <<store, target, marker, m>> BY Zenon DEF ResetStage
<1>2. Fits /\ Unpublished /\ h \in Requests
  BY <1>1, PromisesFit DEF Unpublished, Saving, IndInv, Handling, RequestOK
<1>3. CASE r.state = "none" /\ AfterReset /\ UNCHANGED <<stage, disk, aged, file, effect>>
  <2>1. Fits' /\ ~Owning' /\ Honest /\ (active' => active)
    BY <1>1, <1>2, <1>3, AfterResetFits, Zenon DEF store
  <2>2. Unlinks BY <1>3 DEF Unlinks
  <2> QED BY <1>1, <2>1, <2>2, UnlinkRest, Zenon
<1>4. CASE Unlinks /\ Fails /\ effect' \in {effect, "stage"}
  <2>1. PICK a \in {"unknown", "not_started"} : Finish(a) BY <1>4 DEF Fails
  <2>2. h'.pc = "done" /\ active' = FALSE /\ told' \in {told, a} BY <2>1, FinishFields, Zenon
  <2>3. Fits' /\ ~Owning' BY <2>2, DoneFits
  <2>4. Promises' BY <1>1, <1>4, <2>2, <2>3, UnlinkRest
  <2> QED BY <1>1, <1>2, <1>4, <2>2, <2>4, HonestEnd DEF store
<1>5. CASE /\ Unlinks /\ h' = [h EXCEPT !.pc = "reset_row", !.row = r]
           /\ UNCHANGED <<active, told>> /\ effect' \in {effect, "stage"}
  <2>1. active' = TRUE
    <3>1. Registered BY <1>1 DEF Registered
    <3> QED BY <1>2, <1>5, <3>1 DEF Fits, IndInv, TypeOK
  <2>2. Carries /\ h'.pc = "reset_row"
    <3> HIDE DEF r
    <3> QED BY <1>2, <1>5 DEF Requests, Carries
  <2>3. Fits' /\ ~Owning' BY <1>1, <1>2, <1>5, <2>1, <2>2, ResetFits DEF store
  <2>4. active' = active BY <1>5
  <2>5. Promises' BY <1>1, <1>5, <2>3, <2>4, UnlinkRest
  <2> QED BY <1>5, <2>5 DEF Honest
<1>6. Mutates => effect' \in {effect, "stage"} BY MutatesEffect
<1>7. UNCHANGED <<stage, disk, aged, file>> => Unlinks BY DEF Unlinks
<1>8. remove_file_if_identity(r.ino) => Unlinks BY UnlinksByIdentity, Zenon
<1> QED BY <1>3, <1>4, <1>5, <1>6, <1>7, <1>8, Zenon DEF ResetStage

-----------------------------------------------------------------------------
(* A transaction that removes records and changes no other, *)
LEMMA ShrinkTable ==
    ASSUME IndInv, TableOK, NEW t, SetRows(t), \A x \in Owners : t[x] \in {rows[x], NoRow}
    PROVE  Shrinks
<1> SUFFICES ASSUME NEW x \in Owners
             PROVE  \/ rows'[x] = rows[x] /\ landed'[x] = landed[x]
                    \/ rows'[x] = NoRow /\ landed'[x] = FALSE
  BY Zenon DEF Shrinks
<1>1. landed[x] \in BOOLEAN /\ (landed[x] => rows[x].state # "none")
  BY DEF IndInv, TypeOK, TableOK
<1>2. /\ rows'[x] = t[x]
      /\ landed'[x] = (landed[x] /\ t[x].state # "none" /\ (Disposable(rows[x]) => t[x] = rows[x]))
  BY Zenon DEF SetRows
<1>3. CASE t[x] = rows[x] BY <1>1, <1>2, <1>3
<1>4. CASE t[x] = NoRow
  <2>1. t[x].state = "none" BY <1>4 DEF NoRow
  <2>2. ~landed'[x] BY <1>2, <2>1, Zenon
  <2>3. landed'[x] \in BOOLEAN BY <1>2, Zenon
  <2> QED BY <1>2, <1>4, <2>2, <2>3
<1> QED BY <1>3, <1>4, Zenon

(* and the promises that are not about the request after it. *)
LEMMA ShrinkRest ==
    ASSUME IndInv, Promises, Fits', Shrinks, UNCHANGED <<names, marker, m>>,
           active' => active, Owning' => Owning /\ h'.ino = h.ino,
           m.pc = "purge" => rows' = rows
    PROVE  Promises'
<1>0. NoRow.state = "none" /\ NoRow.ino = NoIno /\ ~Live(NoRow)
  BY DEF NoRow, Live, NonTerminal
<1>1. TableOK' BY <1>0, Zenon DEF Promises, TableOK, Shrinks
<1>2. CrashOK' BY <1>0 DEF Promises, CrashOK, Shrinks, names
<1>3. RegistryOK' BY Zenon DEF Promises, RegistryOK, Fits
<1>4. ASSUME RowsOK PROVE RowsOK' BY <1>0, <1>4, UploadAssumption, Zenon DEF RowsOK, Shrinks, names
<1>5. ASSUME PurgeOK PROVE PurgeOK'
  <2>1. m.pc = "drop_row" => m.at \in Owners BY DEF Promises, RegistryOK
  <2>2. (m.pc = "purge" => rows[m.at].ino = Snapped.ino /\ (Live(rows[m.at]) => rows[m.at].expired))'
    BY <1>5, Zenon DEF PurgeOK, Snapped
  <2>3. (m.pc = "remove" => \A o \in Owners : ~Live(rows[o]))'
    BY <1>0, <1>5, Zenon DEF PurgeOK, Shrinks
  <2>4. (m.pc = "drop_row" /\ ~marker /\ Live(Snapped)
             /\ expired_upload_session_matches(rows, m.at, Snapped) => stage # Snapped.ino)'
    BY <1>0, <1>5, <2>1, Zenon DEF PurgeOK, Shrinks, Snapped, expired_upload_session_matches, names
  <2> QED BY <2>2, <2>3, <2>4 DEF PurgeOK
<1>6. DurableOK' BY <1>4, <1>5 DEF Promises, Fits, DurableOK, SessionOK
<1> QED BY <1>1, <1>2, <1>3, <1>6 DEF Promises, Fits

(* then its row. *)
LEMMA ResetRowPromises ==
    ASSUME IndInv, Promises, ResetRow
    PROVE  Promises' /\ Honest
<1>1. h.pc = "reset_row" /\ UNCHANGED <<names, marker, m>> /\ Mutates BY Zenon DEF ResetRow
<1>2. Fits /\ Unpublished /\ h \in Requests /\ h.owner \in Owners /\ Registered
  BY <1>1, PromisesFit DEF Unpublished, Saving, IndInv, Handling, RequestOK, Registered
<1>3. m.pc # "purge" BY <1>2 DEF Fits, Promises, RegistryOK
<1>4. effect' \in {effect, "stage"} BY <1>1, MutatesEffect
<1>5. Shrinks
  <2>1. CASE UNCHANGED store BY <2>1 DEF Shrinks, store
  <2>2. CASE SetRows(remove_upload_session_if_matches(rows, h.owner, h.row))
    <3> DEFINE t == remove_upload_session_if_matches(rows, h.owner, h.row)
    <3>1. \A x \in Owners : t[x] \in {rows[x], NoRow}
      BY Zenon DEF remove_upload_session_if_matches, IndInv, TypeOK
    <3> HIDE DEF t
    <3> QED BY <2>2, <3>1, ShrinkTable DEF Promises, t
  <2> QED BY <2>1, <2>2, Zenon DEF ResetRow
<1>6. landed'[h.owner] => landed[h.owner] BY <1>2, <1>5 DEF Shrinks
<1>7. CASE Fails
  <2>1. PICK a \in {"unknown", "not_started"} : Finish(a) BY <1>7 DEF Fails
  <2>2. h'.pc = "done" /\ active' = FALSE /\ told' \in {told, a} BY <2>1, FinishFields, Zenon
  <2>3. Fits' /\ ~Owning' BY <2>2, DoneFits
  <2>4. Promises' BY <1>1, <1>3, <1>5, <2>2, <2>3, ShrinkRest
  <2> QED BY <1>2, <1>4, <1>6, <2>2, <2>4, HonestEnd, Zenon
<1>8. CASE /\ SetRows(remove_upload_session_if_matches(rows, h.owner, h.row))
           /\ SameSession(rows[h.owner], h.row) /\ AfterReset
  <2>1. rows'[h.owner].state = "none"
    BY <1>2, <1>8, Zenon DEF SetRows, remove_upload_session_if_matches, NoRow, IndInv, TypeOK
  <2>2. Fits' /\ ~Owning' /\ Honest /\ (active' => active)
    BY <1>1, <1>2, <1>4, <1>6, <1>8, <2>1, AfterResetFits, Zenon
  <2> QED BY <1>1, <1>3, <1>5, <2>2, ShrinkRest, Zenon
<1> QED BY <1>7, <1>8, Zenon DEF ResetRow

-----------------------------------------------------------------------------
(* The exchange is over, and files that no name holds are gone. *)
LEMMA ReplyPromises ==
    ASSUME IndInv, Promises, Reply
    PROVE  Promises' /\ Honest
<1>1. /\ h' = Idle /\ told' = "none" /\ effect' = "nothing"
      /\ UNCHANGED <<store, stage, target, disk, aged, active, marker, m>>
      /\ file' = Kept({stage, target, disk.stage, disk.target})
  BY Zenon DEF Reply, registry
<1>2. Fits' /\ ~Owning' BY <1>1, DoneFits DEF Idle
<1>3. \A i \in Inodes \intersect {stage, target, disk.stage, disk.target} : file'[i] = file[i]
  BY <1>1, Zenon DEF Kept
<1>4. TableOK' BY <1>1, Zenon DEF Promises, TableOK, store
<1>5. CrashOK' BY <1>1, <1>2, <1>3, Zenon DEF Promises, CrashOK, store
<1>6. RegistryOK' BY <1>1, <1>2 DEF Promises, RegistryOK, Fits
<1>7. ASSUME RowsOK PROVE RowsOK' BY <1>1, <1>3, <1>7, Zenon DEF RowsOK, store
<1>8. ASSUME PurgeOK PROVE PurgeOK' BY <1>1, <1>8, Zenon DEF PurgeOK, store, Snapped
<1>9. DurableOK' BY <1>2, <1>7, <1>8 DEF Promises, Fits, DurableOK, SessionOK
<1> QED BY <1>1, <1>2, <1>4, <1>5, <1>6, <1>9 DEF Promises, Fits, Honest

(* A discarded session loses its stage (cleanup_rejected_stage), *)
LEMMA CleanupPromises ==
    ASSUME IndInv, Promises, cleanup_rejected_stage
    PROVE  Promises' /\ Honest
<1>1. /\ h.pc = "discard_file" /\ UNCHANGED <<store, target, marker, m, effect>>
      /\ Finish("rejected")
  BY Zenon DEF cleanup_rejected_stage
<1>2. Unlinks BY UnlinksByIdentity, Zenon DEF cleanup_rejected_stage, Unlinks
<1>3. Fits /\ Unpublished BY <1>1, PromisesFit DEF Unpublished, Saving
<1>4. h'.pc = "done" /\ active' = FALSE /\ told' \in {told, "rejected"}
  BY <1>1, FinishFields, Zenon
<1>5. Fits' /\ ~Owning' BY <1>4, DoneFits
<1>6. Promises' BY <1>1, <1>2, <1>4, <1>5, UnlinkRest, Zenon
<1> QED BY <1>1, <1>3, <1>4, <1>6, HonestEnd DEF store

(* reject_upload_session turns an awaiting record into a rejected one, *)
LEMMA RejectTable ==
    ASSUME IndInv, TableOK, h.owner \in Owners,
           SetRows(reject_upload_session(rows, h.owner))
    PROVE  Abandons
<1> SUFFICES ASSUME NEW x \in Owners
             PROVE  /\ landed'[x] = landed[x]
                    /\ \/ rows'[x] = rows[x]
                       \/ /\ rows[x].state = "awaiting" /\ rows'[x].state = "rejected"
                          /\ UNCHANGED <<rows[x].ino, rows[x].off>> /\ ~rows'[x].expired
  BY Zenon DEF Abandons
<1> DEFINE t == reject_upload_session(rows, h.owner)
<1>1. landed[x] \in BOOLEAN /\ (landed[x] => rows[x].state \notin {"none", "awaiting"})
  BY DEF IndInv, TypeOK, TableOK
<1>2. \/ t[x] = rows[x]
      \/ /\ rows[x].state = "awaiting" /\ t[x].state = "rejected"
         /\ t[x].ino = rows[x].ino /\ t[x].off = rows[x].off /\ ~t[x].expired
  BY DEF reject_upload_session, IndInv, TypeOK, Row
<1>3. /\ rows'[x] = t[x]
      /\ landed'[x] = (landed[x] /\ t[x].state # "none" /\ (Disposable(rows[x]) => t[x] = rows[x]))
  BY Zenon DEF SetRows
<1> HIDE DEF t
<1>4. landed'[x] = landed[x] BY <1>1, <1>2, <1>3, Zenon
<1> QED BY <1>2, <1>3, <1>4

(* which leaves the promises that are not about the request, *)
LEMMA AbandonRest ==
    ASSUME IndInv, Promises, Fits', Abandons, UNCHANGED <<names, marker, m>>,
           active' => active, ~Owning'
    PROVE  Promises'
<1>1. TableOK'
  <2>1. ASSUME NEW o \in Owners
        PROVE  /\ landed'[o] = landed[o] /\ rows'[o].ino = rows[o].ino /\ rows'[o].off = rows[o].off
               /\ rows'[o].state = rows[o].state
                     \/ (rows[o].state = "awaiting" /\ rows'[o].state = "rejected")
    BY Zenon DEF Abandons
  <2> QED BY <2>1 DEF Promises, TableOK
<1>2. CrashOK'
  <2>1. \A o \in Owners : rows'[o].state = "committed" => rows[o].state = "committed"
    BY Zenon DEF Abandons
  <2> QED BY <2>1, Zenon DEF Promises, CrashOK, names
<1>3. RegistryOK' BY Zenon DEF Promises, RegistryOK, Fits
<1>4. ASSUME RowsOK PROVE RowsOK' BY <1>4, Zenon DEF RowsOK, Abandons, names, Live, NonTerminal
<1>5. ASSUME PurgeOK PROVE PurgeOK'
  <2>1. m.pc \in {"purge", "drop_row"} => m.at \in Owners BY Zenon DEF Promises, RegistryOK
  <2>2. (m.pc = "purge" => rows[m.at].ino = Snapped.ino /\ (Live(rows[m.at]) => rows[m.at].expired))'
    BY <1>5, <2>1, Zenon DEF PurgeOK, Snapped, Abandons, Live, NonTerminal
  <2>3. (m.pc = "remove" => \A o \in Owners : ~Live(rows[o]))'
    BY <1>5, Zenon DEF PurgeOK, Abandons, Live, NonTerminal
  <2>4. (m.pc = "drop_row" /\ ~marker /\ Live(Snapped)
             /\ expired_upload_session_matches(rows, m.at, Snapped) => stage # Snapped.ino)'
    BY <1>5, <2>1
    DEF PurgeOK, Abandons, Snapped, expired_upload_session_matches, names, Live, NonTerminal
  <2> QED BY <2>2, <2>3, <2>4 DEF PurgeOK
<1>6. DurableOK' BY <1>4, <1>5 DEF Promises, Fits, DurableOK, SessionOK
<1> QED BY <1>1, <1>2, <1>3, <1>6, Zenon DEF Promises, Fits

(* and those that are (reject_for_discard). *)
LEMMA RejectPromises ==
    ASSUME IndInv, Promises, reject_for_discard
    PROVE  Promises' /\ Honest
<1> DEFINE r == rows[h.owner]
<1>1. h.pc = "discard_row" /\ UNCHANGED <<names, marker, m>>
  BY Zenon DEF reject_for_discard
<1>2. /\ Fits /\ h \in Requests /\ h.owner \in Owners /\ effect # "target" /\ r \in Row
  BY <1>1, PromisesFit, Zenon DEF IndInv, Handling, RequestOK, Fits, HistoryOK, Saving, TypeOK
<1>3. Abandons
  <2>1. SetRows(reject_upload_session(rows, h.owner)) \/ UNCHANGED store
    BY Zenon DEF reject_for_discard
  <2>2. UNCHANGED store => Abandons BY Zenon DEF store, Abandons
  <2> QED BY <1>2, <2>1, <2>2, RejectTable DEF Promises
<1>4. landed'[h.owner] = landed[h.owner] /\ rows'[h.owner].ino = r.ino BY <1>2, <1>3 DEF Abandons
<1>5. /\ r.state = "committed" => landed[h.owner]
      /\ r.state \in {"none", "running", "awaiting", "rejected"} => ~landed[h.owner]
  BY <1>2 DEF Promises, TableOK
<1>6. ASSUME NEW a, Finish(a), effect' \in {effect, "stage"},
             a = "unknown" \/ (a = Public(r.state) /\ r.state # "commit_started")
      PROVE  Promises' /\ Honest
  <2>1. h'.pc = "done" /\ active' = FALSE /\ told' \in {told, a} BY <1>6, FinishFields, Zenon
  <2>2. Fits' /\ ~Owning' BY <2>1, DoneFits
  <2>3. Promises' BY <1>1, <1>3, <2>1, <2>2, AbandonRest
  <2>4. effect' # "target" BY <1>2, <1>6, Zenon
  <2>5. r.state \in {"none", "running", "awaiting", "committed", "rejected", "unknown"} \/ a = "unknown"
    BY <1>2, <1>6, Zenon DEF Row, States, NonTerminal, Terminal
  <2>6. Honest BY <1>4, <1>5, <1>6, <2>1, <2>4, <2>5 DEF Honest, Public
  <2> QED BY <2>3, <2>6
<1>7. CASE /\ r.state \in {"awaiting", "rejected"} /\ Mutates /\ UNCHANGED <<active, told>>
           /\ h' = [h EXCEPT !.pc = "discard_file", !.ino = r.ino]
  <2>1. Carries /\ h'.pc = "discard_file" /\ h'.ino = r.ino
    <3> HIDE DEF r
    <3> QED BY <1>2, <1>7 DEF Requests, Carries
  <2>2. effect' # "target" BY <1>2, <1>7, MutatesEffect
  <2>3. HistoryOK'
    BY <1>4, <1>5, <1>7, <2>1, <2>2
    DEF HistoryOK, Unpublished, Settling, Renamed, Saving, Storing, Carries
  <2>4. ~Registered' /\ ~Owning' BY <2>1, Zenon DEF Registered, Owning
  <2>5. ASSUME RowsOK PROVE HoldsOK'
    BY <1>1, <1>2, <2>1, <2>4, <2>5, Zenon
    DEF RowsOK, HoldsOK, Anchored, InTransfer, Saving, Storing, Carries, names
  <2>6. SizesOK' BY <2>1 DEF SizesOK, Saving, Storing
  <2>7. Fits' BY <2>3, <2>4, <2>5, <2>6 DEF Fits, Promises, DurableOK, SessionOK
  <2>8. active' = active BY <1>7
  <2>9. Promises' BY <1>1, <1>3, <2>4, <2>7, <2>8, AbandonRest
  <2> QED BY <1>7, <2>9 DEF Honest
<1>8. Mutates => effect' \in {effect, "stage"} BY MutatesEffect
<1> QED BY <1>6, <1>7, <1>8, Zenon DEF reject_for_discard
=============================================================================
