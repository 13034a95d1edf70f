-------------------------- MODULE UploadGuarantees --------------------------
(***************************************************************************)
(* What upload sessions guarantee: answers and HEAD are honest, an offset  *)
(* that is advertised is on disk, nobody takes away the stage of a live    *)
(* session, and the sessions implement UploadContract.                     *)
(***************************************************************************)
EXTENDS UploadProofs, UploadSteps

-----------------------------------------------------------------------------
(* Every step keeps the promises, and tells the client nothing untrue. *)
LEMMA StepPromises ==
    ASSUME IndInv, SyncedOK, Promises, Next
    PROVE  SyncedOK' /\ Promises' /\ Honest
<1>1. SyncedOK' BY PrepareSynced, TransferSynced, OtherSynced, Zenon DEF Next, Handler
<1>2. CASE Arrive BY <1>1, <1>2, ArrivesPromises
<1>3. CASE Prepare
  BY <1>1, <1>3, ReplyPromises, InspectPromises, DeadlinePromises, StopsPromises, LookupPromises,
     TrackPromises, AdmitPromises, CreatePromises, TrackFreshPromises, OpenPromises,
     TruncatePromises, RebindPromises, ReservePromises, DiscardStagePromises, ResetStagePromises,
     ResetRowPromises, Zenon
  DEF Prepare
<1>4. CASE Transfer
  BY <1>1, <1>4, SyncPromises, PersistPromises, ChunkPromises, BodyPromises, TimedOutPromises,
     TransferredPromises, ReplayPromises, SpaceCheckPromises, PublishPromises,
     CheckReplacePromises, RenamePromises, ParentsPromises, RejectPromises, CleanupPromises, Zenon
  DEF Transfer
<1>5. CASE Upkeep
  BY <1>1, <1>5, ReadPromises, MatchPromises, RemovePromises, DropPromises, ScanPromises, Zenon
  DEF Upkeep
<1>6. CASE Environment BY <1>1, <1>6, OutsidePromises, CrashPromises, Zenon DEF Environment
<1> QED BY <1>2, <1>3, <1>4, <1>5, <1>6, Zenon DEF Next, Handler

(* A step that changes nothing keeps them as well. *)
LEMMA StutterPromises ==
    ASSUME SyncedOK, Promises, UNCHANGED vars
    PROVE  SyncedOK' /\ Promises' /\ Honest
<1>1. UNCHANGED <<rows, landed, stage, target, disk, file, active, marker, h, m, told, effect>>
  BY DEF vars
<1>2. SyncedOK' /\ Honest BY <1>1 DEF SyncedOK, Honest
<1>3. TableOK' /\ CrashOK' BY <1>1 DEF Promises, TableOK, CrashOK, Owning
<1>4. HistoryOK'
  BY <1>1 DEF Promises, HistoryOK, Unpublished, Settling, Renamed, Saving, Storing
<1>5. RegistryOK' BY <1>1, Zenon DEF Promises, RegistryOK, Registered, Resume
<1>6. DurableOK'
  BY <1>1 DEF Promises, DurableOK, SessionOK, RowsOK, HoldsOK, SizesOK, PurgeOK, Owning, Anchored,
              InTransfer, Saving, Storing, SyncsParent, Resume, Snapped
<1> QED BY <1>2, <1>3, <1>4, <1>5, <1>6 DEF Promises

(* The promises hold in every state. *)
LEMMA PromisesInvariance == Spec => [](IndInv /\ SyncedOK /\ Promises)
<1>1. Init => SyncedOK /\ Promises BY InitPromises
<1>2. IndInv /\ IndInv' /\ SyncedOK /\ Promises /\ [Next]_vars => SyncedOK' /\ Promises'
  BY StepPromises, StutterPromises, Zenon
<1> QED BY <1>1, <1>2, Invariance, PTL DEF Spec

-----------------------------------------------------------------------------

(* HEAD reports what the table says, and the table is right. *)
LEMMA TableHonest == TableOK /\ TypeOK => StatusHonest
<1> SUFFICES ASSUME TableOK, TypeOK, NEW o \in Owners
             PROVE  /\ Public(Lookup(o)) = "committed" => landed[o]
                    /\ Public(Lookup(o)) \in {"rejected", "awaiting", "running", "not_seen"}
                          => ~landed[o]
  BY Zenon DEF StatusHonest
<1>1. rows[o].state \in States BY DEF TypeOK, Row
<1>2. /\ rows[o].state = "committed" => landed[o]
      /\ landed[o] => rows[o].state \in {"commit_started", "committed", "unknown"}
  BY DEF TableOK
<1>3. /\ rows[o].state = "commit_started" => Lookup(o) = "unknown"
      /\ rows[o].state \in {"committed", "unknown"} => Lookup(o) = rows[o].state
      /\ Lookup(o) = "committed" => rows[o].state = "committed"
  BY DEF Lookup
<1>4. /\ Public("unknown") = "unknown" /\ Public("committed") = "committed"
      /\ Public(Lookup(o)) = "committed" => Lookup(o) = "committed"
  BY DEF Public
<1> QED BY <1>2, <1>3, <1>4

(* StatusHonest for every number of owners, inodes, requests and mishaps:   *)
(* a HEAD between two requests reports `committed` only for a session that  *)
(* was published, and an unpublished state only for one that was not.       *)
THEOREM HonestStatus == Spec => []StatusHonest
<1>1. IndInv /\ Promises => StatusHonest BY TableHonest DEF IndInv, Promises
<1> QED BY <1>1, PromisesInvariance, PTL

(* HonestAnswers likewise: whoever answers a request, the task, its deadline *)
(* or a stored record, a definite answer is true.                            *)
THEOREM HonestAnswering == Spec => HonestAnswers
<1> DEFINE A == told' # told /\ told' # "none" =>
                   /\ told' = "committed" => landed'[h.owner]
                   /\ told' \in {"rejected", "awaiting", "running", "not_seen"} => ~landed'[h.owner]
                   /\ told' \notin {"committed", "unknown"} => effect' # "target"
<1>1. IndInv /\ SyncedOK /\ Promises /\ [Next]_vars => [A]_vars
  BY StepPromises, Zenon DEF Honest
<1>2. Spec => [][A]_vars BY <1>1, PromisesInvariance, PTL DEF Spec
<1> QED BY <1>2 DEF HonestAnswers

(* CheckpointDurable, if the filesystem gives no inode number to a new file *)
(* that a row still remembers: the offset of a live row is on disk, under a *)
(* name that is on disk.                                                    *)
THEOREM DurableCheckpoints == ~ReuseInodes => (Spec => []CheckpointDurable)
<1> SUFFICES ASSUME ~ReuseInodes PROVE Spec => []CheckpointDurable OBVIOUS
<1>1. Promises => CheckpointDurable
  <2> SUFFICES ASSUME RowsOK, NEW o \in Owners, Live(rows[o]), stage = rows[o].ino
               PROVE  file[stage].synced >= rows[o].off /\ file[stage].by = o /\ disk.stage = stage
    BY DEF Promises, DurableOK, SessionOK, CheckpointDurable
  <2> QED BY DEF RowsOK
<1> QED BY <1>1, PromisesInvariance, PTL

-----------------------------------------------------------------------------
(* Two owners never claim the same stage. *)
LEMMA OneClaim ==
    ASSUME RowsOK, NEW o \in Owners, NEW x \in Owners, rows[o].ino = stage, rows[x].ino = stage,
           Live(rows[o])
    PROVE  x = o
BY DEF RowsOK

(* A step that takes the stage of an unexpired live session away from its  *)
(* name is that owner's own, or a power failure.                           *)
LEMMA StageKept ==
    ASSUME IndInv, Promises, ~ReuseInodes, Next, NEW o \in Owners,
           Live(rows[o]), ~rows[o].expired, stage = rows[o].ino, stage' # stage
    PROVE  (h.pc # "idle" /\ h.owner = o) \/ Crash
<1>0. /\ RowsOK /\ HoldsOK /\ PurgeOK /\ RegistryOK BY DEF Promises, DurableOK, SessionOK
<1>1. stage \in Inodes /\ file[stage].by = o /\ NoIno \notin Inodes BY <1>0, UploadAssumption DEF RowsOK
<1>2. h.pc # "idle" => h.owner \in Owners BY DEF IndInv, Handling, RequestOK
<1>3. CASE Arrive BY <1>3, Zenon DEF Arrive, Request, Discard, names
<1>4. CASE Prepare
  <2>1. CASE CreateStage BY <1>1, <2>1, Zenon DEF CreateStage
  <2>2. CASE DiscardStage
    <3>1. h.pc = "discard" /\ stage = h.ino BY <2>2, Zenon DEF DiscardStage, remove_file_if_identity
    <3> QED BY <1>0, <1>1, <3>1 DEF HoldsOK
  <2>3. CASE ResetStage
    <3>1. h.pc = "reset" /\ stage = rows[h.owner].ino
      BY <2>3, Zenon DEF ResetStage, remove_file_if_identity
    <3> QED BY <1>0, <1>2, <3>1, OneClaim, Zenon
  <2>4. CASE Reply \/ TruncateStage \/ ReserveSpace \/ ResetRow \/ TrackFresh
    BY <2>4, Zenon DEF Reply, TruncateStage, ReserveSpace, ResetRow, TrackFresh, names
  <2>5. CASE \/ inspect_target \/ dispatch_fresh_upload \/ await_tracked_upload_task
             \/ PrepareError \/ DeadlineBeforeMutation \/ LookupSession \/ TrackResume
             \/ InspectTarget \/ AdmitResumed \/ AdmitFresh \/ OpenStage \/ RebindRevision
    BY <2>5, Zenon
    DEF inspect_target, dispatch_fresh_upload, await_tracked_upload_task, PrepareError,
        DeadlineBeforeMutation, LookupSession, TrackResume, InspectTarget, AdmitResumed,
        AdmitFresh, OpenStage, RebindRevision, names
  <2> QED BY <1>4, <2>1, <2>2, <2>3, <2>4, <2>5, Zenon DEF Prepare
<1>5. CASE Transfer
  <2>1. CASE rename_replace_if_unchanged
    <3>1. h.pc = "rename" BY <2>1 DEF rename_replace_if_unchanged
    <3>2. stage = h.ino /\ file[h.ino].by = h.owner
      BY <1>0, <3>1 DEF HoldsOK, Anchored, Owning
    <3> QED BY <1>1, <3>1, <3>2
  <2>2. CASE cleanup_rejected_stage
    <3>1. h.pc = "discard_file" /\ stage = h.ino
      BY <2>2, Zenon DEF cleanup_rejected_stage, remove_file_if_identity
    <3> QED BY <1>0, <1>1, <3>1 DEF HoldsOK
  <2>3. CASE Transfer /\ ~rename_replace_if_unchanged /\ ~cleanup_rejected_stage
    BY <2>3, Zenon
    DEF Transfer, sync_and_identify_stage, persist_state, WriteChunk, BodyEnds, BodyRefused,
        BodyBreaks, BodyTimesOut, finish_timed_out_upload, CheckTransferred, ReplayMetadata,
        CheckSpace, SyncStagedFile, CheckReplace, sync_renamed_parents, reject_for_discard, names
  <2> QED BY <1>5, <2>1, <2>2, <2>3, Zenon
<1>6. CASE Upkeep
  <2>1. CASE PurgeExpired
    <3>1. m.pc = "purge" /\ stage = Snapped.ino
      BY <2>1, Zenon DEF PurgeExpired, remove_file_if_identity
    <3>2. m.at \in Owners /\ rows[m.at].ino = stage /\ (Live(rows[m.at]) => rows[m.at].expired)
      BY <1>0, <3>1 DEF RegistryOK, PurgeOK
    <3> QED BY <1>0, <3>2, OneClaim
  <2>2. CASE remove_entry_blocking BY <1>0, <2>2 DEF remove_entry_blocking, PurgeOK
  <2>3. CASE Upkeep /\ ~PurgeExpired /\ ~remove_entry_blocking
    BY <2>3, Zenon
    DEF Upkeep, ReadExpired, NextExpired, SessionError, MatchExpired, ClaimExpired, RematchExpired,
        remove_expired_upload_record, TrackedSnapshot, VisitStage, ClaimStale,
        should_preserve_stale_state_path, SyncRemoved, names
  <2> QED BY <1>6, <2>1, <2>2, <2>3, Zenon
<1>7. CASE Environment
  BY <1>7, Zenon DEF Environment, OutsideChange, Age, Expire, names
<1> QED BY <1>3, <1>4, <1>5, <1>6, <1>7, Zenon DEF Next, Handler

(* LiveStageKept: neither maintenance, which works from snapshots without a *)
(* path lease, nor a request of another owner takes a live stage away.      *)
THEOREM StagesKept == ~ReuseInodes => (Spec => LiveStageKept)
<1> SUFFICES ASSUME ~ReuseInodes PROVE Spec => LiveStageKept OBVIOUS
<1> DEFINE A == \A o \in Owners :
                   Live(rows[o]) /\ ~rows[o].expired /\ stage = rows[o].ino /\ stage' # stage
                      => (h.pc # "idle" /\ h.owner = o) \/ Crash
<1>1. IndInv /\ SyncedOK /\ Promises /\ [Next]_vars => [A]_vars BY StageKept, Zenon
<1>2. Spec => [][A]_vars BY <1>1, PromisesInvariance, PTL DEF Spec
<1> QED BY <1>2 DEF LiveStageKept
-----------------------------------------------------------------------------
(* The sessions implement the contract.  First, what a change of one row    *)
(* is in terms of the contract.                                             *)
LEMMA SameStep ==
    ASSUME NEW x \in Owners, rows'[x].state = rows[x].state, rows'[x].off = rows[x].off,
           landed'[x] = landed[x]
    PROVE  Contract!Step(x)
BY DEF Contract!Step, Contract!Same

(* A record that is removed. *)
LEMMA ForgetStep ==
    ASSUME NEW x \in Owners, rows'[x] = NoRow, landed'[x] = FALSE,
           rows[x].state = "commit_started" => ~landed[x]
    PROVE  Contract!Step(x)
<1>1. NoRow.state = "none" /\ NoRow.off = 0 BY DEF NoRow
<1> QED BY <1>1 DEF Contract!Step, Contract!Forget

(* A step that leaves the store alone. *)
LEMMA IdleStep == ASSUME UNCHANGED store PROVE Contract!CNext
<1>1. rows' = rows /\ landed' = landed BY DEF store
<1> SUFFICES ASSUME NEW x \in Owners PROVE Contract!Step(x) BY Zenon DEF Contract!CNext
<1> QED BY <1>1, SameStep

(* A save removes only records that every save sweeps. *)
LEMMA SaveForgets ==
    ASSUME IndInv, h.pc = "save", NEW fault \in BOOLEAN,
           NEW out \in save_upload_session(rows, h.owner, Proposal, fault), SetRows(out.table),
           NEW x \in Owners, rows'[x] = NoRow
    PROVE  rows[x].state # "commit_started"
<1> DEFINE t == Swept(rows)
           s == [t EXCEPT ![h.owner] = [Proposal EXCEPT !.expired = FALSE]]
<1>1. rows \in [Owners -> Row] /\ h.owner \in Owners /\ t \in [Owners -> Row] /\ h.job \in Jobs \ {"none"}
  BY SweptTable, SavedJob DEF IndInv, TypeOK, Handling, RequestOK
<1>2. out.table \in {rows, t, s} BY DEF save_upload_session
<1>3. rows' = out.table BY DEF SetRows
<1>4. NoRow.state = "none" BY DEF NoRow
<1>5. t[x] = NoRow => rows[x].state # "commit_started" BY <1>4 DEF Swept, Disposable
<1>6. s[h.owner].state # "none"
  <2>1. Proposal \in Row /\ Proposal.state # "none" BY <1>1, ProposalFields DEF Jobs, StageJobs
  <2> QED BY <1>1, <2>1 DEF Row
<1>7. x # h.owner => s[x] = t[x] BY <1>1
<1> HIDE DEF t, s
<1> QED BY <1>2, <1>3, <1>4, <1>5, <1>6, <1>7

(* What a save does to the request's own session: it opens or extends it,   *)
(* begins or settles its commit, or refuses it.                             *)
LEMMA SavesStep ==
    ASSUME IndInv, Promises, ~ReuseInodes, h.pc = "save", Saves, IndInv', Promises',
           NEW o \in Owners, o = h.owner
    PROVE  Contract!Step(o)
<1> DEFINE r == rows[o]
<1>1. Fits /\ o = h.owner /\ h.job \in Jobs \ {"none"}
  BY PromisesFit, SavedJob DEF IndInv, Handling, RequestOK
<1>2. rows'[o] = Proposal /\ (landed'[o] => landed[o]) BY Zenon DEF Saves
<1>3. landed[o] \in BOOLEAN /\ landed'[o] \in BOOLEAN /\ r \in Row BY <1>1 DEF IndInv, TypeOK
<1>4. HoldsOK BY DEF Promises, DurableOK, SessionOK
<1>5. CASE Proposal.state = "running"
  <2>1. ~landed'[o] BY <1>1, <1>2, <1>5 DEF Promises, TableOK
  <2>2. CASE Swept(rows)[o].state = "none"
    <3>1. r.state \in {"none"} \union Terminal
      BY <1>1, <2>2 DEF Swept, Disposable, NoRow, Terminal
    <3>2. ASSUME NEW y \in Owners \ {o} PROVE rows'[y].state \notin NonTerminal
      <4>1. ~Live(Swept(rows)[y]) BY <1>5, <3>2, Zenon DEF Saves, Accepts, NonTerminal
      <4>2. Swept(rows)[y] = rows[y] \/ Disposable(rows[y]) BY DEF Swept
      <4>3. Disposable(rows[y]) => ~Live(rows[y]) BY DEF Disposable, Live, NonTerminal
      <4>4. rows'[y] = rows[y] \/ rows'[y] = NoRow BY <3>2, Zenon DEF Saves
      <4> QED BY <4>1, <4>2, <4>3, <4>4 DEF Live, NonTerminal, NoRow
    <3> QED BY <1>1, <1>2, <1>5, <2>1, <3>1, <3>2
            DEF Contract!Step, Contract!Open, Contract!Terminal, Contract!NonTerminal,
                Terminal, NonTerminal
  <2>3. CASE Swept(rows)[o].state # "none"
    <3>1. Swept(rows)[o] = r BY <1>1, <2>3 DEF Swept, NoRow
    <3>2. merge_upload_session(r, Proposal) BY <2>3, <3>1, Zenon DEF Saves, Accepts
    <3>3. r.state = "running" /\ Proposal.off >= r.off
      BY <1>5, <3>2 DEF merge_upload_session, Transitions
    <3>4. ~landed[o] BY <1>1, <3>3 DEF Promises, TableOK
    <3> QED BY <1>1, <1>2, <1>3, <1>5, <2>1, <3>3, <3>4 DEF Contract!Step, Contract!Extend
  <2> QED BY <2>2, <2>3
<1>6. CASE h.job = "commit"
  <2>1. Proposal.state = "commit_started" /\ Proposal.off = Len BY <1>6, ProposalFields
  <2>2. r.state \in {"running", "awaiting"} BY <1>4, <1>6 DEF HoldsOK, InTransfer, Storing
  <2>3. ~landed[o] BY <1>1, <2>2 DEF Promises, TableOK
  <2> QED BY <1>1, <1>2, <1>3, <2>1, <2>2, <2>3 DEF Contract!Step, Contract!Begin
<1>7. CASE h.job \in {"awaiting", "unknown", "committed"}
  <2>1. /\ Proposal.off = Len
        /\ h.job = "awaiting" => Proposal.state = "awaiting"
        /\ h.job = "unknown" => Proposal.state = "unknown"
        /\ h.job = "committed" => Proposal.state = "committed"
    BY <1>7, ProposalFields
  <2>2. r.state = "commit_started"
    BY <1>1, <1>7 DEF Fits, HistoryOK, Settling, Saving, Storing
  <2>3. r.off = Len BY <1>1, <2>2 DEF Promises, TableOK
  <2>4. landed'[o] = landed[o]
    <3>1. ~Disposable(r) BY <2>2 DEF Disposable
    <3>2. Proposal.state # "none" BY <1>7, <2>1
    <3>3. landed[o] => landed'[o] BY <3>1, <3>2, Zenon DEF Saves
    <3> QED BY <1>2, <1>3, <3>3
  <2>5. /\ h.job = "committed" => landed[o]
        /\ h.job = "awaiting" => ~landed[o]
    BY <1>1 DEF Fits, HistoryOK, Renamed, Unpublished, Saving
  <2> QED BY <1>1, <1>2, <1>3, <1>7, <2>1, <2>2, <2>3, <2>4, <2>5 DEF Contract!Step, Contract!Settle
<1>8. CASE h.job = "refuse"
  <2>1. Proposal.state = "rejected" /\ Proposal.off = 0 BY <1>8, ProposalFields
  <2>2. r.state = "none" BY <1>1, <1>8 DEF Fits, HistoryOK, Saving
  <2>3. ~landed'[o] BY <1>1, <1>2, <2>1 DEF Promises, TableOK
  <2> QED BY <1>1, <1>2, <2>1, <2>2, <2>3 DEF Contract!Step, Contract!Refuse
<1>9. h.job \notin {"commit", "awaiting", "unknown", "committed", "refuse"} => Proposal.state = "running"
  BY <1>1, ProposalFields DEF Jobs, StageJobs
<1> QED BY <1>5, <1>6, <1>7, <1>8, <1>9

(* persist_state. *)
LEMMA PersistStep ==
    ASSUME IndInv, Promises, ~ReuseInodes, persist_state, IndInv', Promises'
    PROVE  Contract!CNext
<1>1. h.pc = "save" BY Zenon DEF persist_state
<1>2. PICK fault \in BOOLEAN : \E out \in save_upload_session(rows, h.owner, Proposal, fault) :
          SetRows(out.table)
  BY Zenon DEF persist_state
<1>3. PICK out \in save_upload_session(rows, h.owner, Proposal, fault) : SetRows(out.table)
  BY <1>2
<1>4. Saves \/ Shrinks
  <2>1. TableOK BY DEF Promises
  <2> QED BY <1>1, <1>3, <2>1, SaveTable
<1>5. \A x \in Owners : rows'[x] = NoRow => rows[x].state # "commit_started"
  BY <1>1, <1>3, SaveForgets
<1> SUFFICES ASSUME NEW x \in Owners PROVE Contract!Step(x) BY Zenon DEF Contract!CNext
<1>6. CASE Saves /\ x = h.owner BY <1>1, <1>6, SavesStep
<1>7. CASE ~(Saves /\ x = h.owner)
  <2>1. \/ rows'[x] = rows[x] /\ landed'[x] = landed[x]
        \/ rows'[x] = NoRow /\ landed'[x] = FALSE
    BY <1>4, <1>7, Zenon DEF Saves, Shrinks
  <2> QED BY <1>5, <2>1, SameStep, ForgetStep, Zenon
<1> QED BY <1>6, <1>7

(* The two steps that remove a record: a reset, of a session that is not    *)
(* published, and the removal of an expired one, which is not being         *)
(* published.                                                               *)
LEMMA RemoveStep ==
    ASSUME IndInv, Promises, ResetRow \/ remove_expired_upload_record
    PROVE  Contract!CNext
<1>1. TableOK BY DEF Promises
<1>2. \/ UNCHANGED store
      \/ h.pc = "reset_row" /\ SetRows(remove_upload_session_if_matches(rows, h.owner, h.row))
      \/ m.pc = "drop_row" /\ SetRows(remove_expired_upload_session_if_matches(rows, m.at, Snapped))
  BY Zenon DEF ResetRow, remove_expired_upload_record
<1>3. ASSUME NEW t, SetRows(t), \A x \in Owners : t[x] \in {rows[x], NoRow},
             \A x \in Owners : t[x] # rows[x] => (rows[x].state = "commit_started" => ~landed[x])
      PROVE  Contract!CNext
  <2> SUFFICES ASSUME NEW x \in Owners PROVE Contract!Step(x) BY Zenon DEF Contract!CNext
  <2>1. \/ rows'[x] = rows[x] /\ landed'[x] = landed[x]
        \/ rows'[x] = NoRow /\ landed'[x] = FALSE
    BY <1>1, <1>3, ShrinkTable, Zenon DEF Shrinks
  <2>2. rows' = t BY <1>3 DEF SetRows
  <2>3. CASE rows'[x] = rows[x] /\ landed'[x] = landed[x] BY <2>3, SameStep
  <2>4. CASE rows'[x] = NoRow /\ landed'[x] = FALSE
    <3>1. NoRow.state # "commit_started" BY DEF NoRow
    <3>2. rows[x].state = "commit_started" => ~landed[x] BY <1>3, <2>2, <2>4, <3>1, Zenon
    <3> QED BY <2>4, <3>2, ForgetStep, Zenon
  <2> QED BY <2>1, <2>3, <2>4, Zenon
<1>4. CASE h.pc = "reset_row" /\ SetRows(remove_upload_session_if_matches(rows, h.owner, h.row))
  <2> DEFINE t == remove_upload_session_if_matches(rows, h.owner, h.row)
  <2>1. \A x \in Owners : t[x] \in {rows[x], NoRow} /\ (t[x] # rows[x] => x = h.owner)
    BY DEF remove_upload_session_if_matches, IndInv, TypeOK
  <2>2. ~landed[h.owner] BY <1>4 DEF Promises, HistoryOK, Unpublished, Saving
  <2> HIDE DEF t
  <2> QED BY <1>3, <1>4, <2>1, <2>2 DEF t
<1>5. CASE m.pc = "drop_row" /\ SetRows(remove_expired_upload_session_if_matches(rows, m.at, Snapped))
  <2> DEFINE t == remove_expired_upload_session_if_matches(rows, m.at, Snapped)
  <2>1. \A x \in Owners : t[x] \in {rows[x], NoRow} /\ (t[x] # rows[x] => x = m.at /\ rows[x] = Snapped)
    BY DEF remove_expired_upload_session_if_matches, expired_upload_session_matches, IndInv, TypeOK
  <2>2. m.at \in Owners => Snapped.state # "commit_started" BY DEF Promises, RegistryOK, Snapped
  <2> HIDE DEF t
  <2> QED BY <1>3, <1>5, <2>1, <2>2 DEF t
<1> QED BY <1>2, <1>4, <1>5, IdleStep

(* reject_for_discard. *)
LEMMA RejectStep ==
    ASSUME IndInv, Promises, reject_for_discard
    PROVE  Contract!CNext
<1>1. h.owner \in Owners /\ TableOK BY DEF reject_for_discard, IndInv, Handling, RequestOK, Promises
<1>2. CASE SetRows(reject_upload_session(rows, h.owner))
  <2>1. Abandons BY <1>1, <1>2, RejectTable
  <2> SUFFICES ASSUME NEW x \in Owners PROVE Contract!Step(x) BY Zenon DEF Contract!CNext
  <2> QED BY <2>1, SameStep DEF Abandons, Contract!Step, Contract!Abandon
<1> QED BY <1>2, IdleStep, Zenon DEF reject_for_discard

(* The rename that publishes. *)
LEMMA RenameStep ==
    ASSUME IndInv, Promises, rename_replace_if_unchanged
    PROVE  Contract!CNext
<1>1. h.pc = "rename" /\ rows' = rows /\ h.owner \in Owners
  BY DEF rename_replace_if_unchanged, IndInv, Handling, RequestOK
<1>2. CASE landed' = [landed EXCEPT ![h.owner] = TRUE]
  <2>1. rows[h.owner].state = "commit_started" /\ ~landed[h.owner]
    BY <1>1 DEF Promises, HistoryOK, Settling, Unpublished, Saving
  <2>2. landed'[h.owner] = TRUE /\ \A x \in Owners \ {h.owner} : landed'[x] = landed[x]
    BY <1>1, <1>2, Zenon DEF IndInv, TypeOK
  <2> SUFFICES ASSUME NEW x \in Owners PROVE Contract!Step(x) BY Zenon DEF Contract!CNext
  <2>3. CASE x # h.owner BY <1>1, <2>2, <2>3, SameStep
  <2>4. CASE x = h.owner BY <1>1, <2>1, <2>2, <2>4 DEF Contract!Step, Contract!Land
  <2> QED BY <2>3, <2>4
<1>3. CASE landed' = landed BY <1>1, <1>3, IdleStep DEF store
<1> QED BY <1>2, <1>3, Zenon DEF rename_replace_if_unchanged

(* Time passes for a record. *)
LEMMA ExpireStep ==
    ASSUME IndInv, NEW o \in Owners, Expire(o)
    PROVE  Contract!CNext
<1>1. rows' = [rows EXCEPT ![o].expired = TRUE] /\ landed' = landed BY DEF Expire
<1>2. \A x \in Owners : rows'[x].state = rows[x].state /\ rows'[x].off = rows[x].off
  BY <1>1 DEF IndInv, TypeOK, Row
<1> SUFFICES ASSUME NEW x \in Owners PROVE Contract!Step(x) BY Zenon DEF Contract!CNext
<1> QED BY <1>1, <1>2, SameStep

(* A power failure takes back only publications that were not confirmed. *)
LEMMA CrashStep ==
    ASSUME IndInv, Promises, Crash, Promises'
    PROVE  Contract!CNext
<1>1. rows' = recover_database(rows) BY Zenon DEF Crash
<1>2. \A o \in Owners :
         /\ rows'[o].off = rows[o].off
         /\ rows'[o].state = IF rows[o].state = "commit_started" THEN "unknown" ELSE rows[o].state
  BY <1>1, Zenon DEF recover_database, IndInv, TypeOK, Row
<1> SUFFICES ASSUME NEW x \in Owners PROVE Contract!Step(x) BY Zenon DEF Contract!CNext
<1>3. landed[x] \in BOOLEAN /\ landed'[x] \in BOOLEAN /\ (landed'[x] => landed[x])
  <2>1. PICK n \in {[stage |-> stage, target |-> target], disk} :
           LET undone == target # n.target /\ target \in Inodes
           IN  landed' = [o \in Owners |-> landed[o] /\ ~(undone /\ file[target].by = o)]
    BY Zenon DEF Crash
  <2>2. landed'[x] = (landed[x] /\ ~((target # n.target /\ target \in Inodes) /\ file[target].by = x))
    BY <2>1, Zenon
  <2>3. landed[x] \in BOOLEAN BY DEF IndInv, TypeOK
  <2>4. landed'[x] \in BOOLEAN BY <2>2, Zenon
  <2> QED BY <2>2, <2>3, <2>4, Zenon
<1>4. landed[x] /\ ~landed'[x] => rows[x].state \in {"commit_started", "unknown"}
  <2>1. landed[x] => rows[x].state \in {"commit_started", "committed", "unknown"}
    BY DEF Promises, TableOK
  <2>2. rows'[x].state = "committed" => landed'[x] BY DEF Promises, TableOK
  <2> QED BY <1>2, <2>1, <2>2
<1> QED BY <1>2, <1>3, <1>4 DEF Contract!Step, Contract!Restart

(* Every step of the system is one of the contract. *)
LEMMA ContractStep ==
    ASSUME IndInv, Promises, ~ReuseInodes, Next, IndInv', Promises'
    PROVE  Contract!CNext
<1>1. CASE Arrive BY <1>1, IdleStep, Zenon DEF Arrive, Request, Discard
<1>2. CASE Prepare
  <2>1. CASE ResetRow BY <2>1, RemoveStep
  <2>2. CASE Prepare /\ ~ResetRow
    <3>1. UNCHANGED store
      BY <2>2, Zenon
      DEF Prepare, Reply, TruncateStage, ReserveSpace, TrackFresh, CreateStage, DiscardStage,
          ResetStage, inspect_target, dispatch_fresh_upload, await_tracked_upload_task,
          PrepareError, DeadlineBeforeMutation, LookupSession, TrackResume, InspectTarget,
          AdmitResumed, AdmitFresh, OpenStage, RebindRevision
    <3> QED BY <3>1, IdleStep
  <2> QED BY <1>2, <2>1, <2>2
<1>3. CASE Transfer
  <2>1. CASE persist_state \/ rename_replace_if_unchanged \/ reject_for_discard
    BY <2>1, PersistStep, RenameStep, RejectStep
  <2>2. CASE Transfer /\ ~(persist_state \/ rename_replace_if_unchanged \/ reject_for_discard)
    <3>1. UNCHANGED store
      BY <2>2, Zenon
      DEF Transfer, sync_and_identify_stage, WriteChunk, BodyEnds, BodyRefused, BodyBreaks,
          BodyTimesOut, finish_timed_out_upload, CheckTransferred, ReplayMetadata, CheckSpace,
          SyncStagedFile, CheckReplace, sync_renamed_parents, cleanup_rejected_stage
    <3> QED BY <3>1, IdleStep
  <2> QED BY <1>3, <2>1, <2>2
<1>4. CASE Upkeep
  <2>1. CASE remove_expired_upload_record BY <2>1, RemoveStep
  <2>2. CASE Upkeep /\ ~remove_expired_upload_record
    <3>1. UNCHANGED store
      BY <2>2, Zenon
      DEF Upkeep, ReadExpired, NextExpired, SessionError, MatchExpired, ClaimExpired,
          RematchExpired, PurgeExpired, TrackedSnapshot, VisitStage, ClaimStale,
          should_preserve_stale_state_path, remove_entry_blocking, SyncRemoved
    <3> QED BY <3>1, IdleStep
  <2> QED BY <1>4, <2>1, <2>2
<1>5. CASE Environment
  <2>1. CASE OutsideChange \/ Age BY <2>1, IdleStep DEF OutsideChange, Age
  <2> QED BY <1>5, <2>1, ExpireStep, CrashStep DEF Environment
<1> QED BY <1>1, <1>2, <1>3, <1>4, <1>5, Zenon DEF Next, Handler

(* and it starts as the contract does. *)
LEMMA ContractInit == Init => Contract!CInit
<1> SUFFICES ASSUME Init PROVE Contract!CInit OBVIOUS
<1>1. rows = [o \in Owners |-> NoRow] /\ landed = [o \in Owners |-> FALSE] BY DEF Init
<1> QED BY <1>1 DEF Contract!CInit, NoRow

(* KeepsContract: the sessions, with their stages, requests, maintenance,   *)
(* other programs and power failures, implement UploadContract.             *)
THEOREM ContractKept == ~ReuseInodes => (Spec => KeepsContract)
<1> SUFFICES ASSUME ~ReuseInodes PROVE Spec => KeepsContract OBVIOUS
<1>1. IndInv /\ SyncedOK /\ Promises /\ [Next]_vars /\ (IndInv /\ SyncedOK /\ Promises)'
         => [Contract!CNext]_(Contract!cvars)
  <2> SUFFICES ASSUME IndInv, SyncedOK, Promises, [Next]_vars, (IndInv /\ SyncedOK /\ Promises)'
               PROVE  Contract!CNext \/ UNCHANGED Contract!cvars
    OBVIOUS
  <2>1. CASE Next BY <2>1, ContractStep
  <2>2. CASE UNCHANGED vars
    <3>1. UNCHANGED store BY <2>2 DEF vars, store
    <3> QED BY <3>1, IdleStep
  <2> QED BY <2>1, <2>2
<1> QED BY <1>1, ContractInit, PromisesInvariance, PTL DEF Spec, KeepsContract, Contract!ContractSpec
=============================================================================
