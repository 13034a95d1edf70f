-------------------------- MODULE UploadInvariant ---------------------------
(***************************************************************************)
(* The inductive invariants of upload sessions, and names for what a step  *)
(* may do.  IndInv speaks of the request and of the files it publishes and *)
(* stands alone.  Promises speaks of what the table, the stage names and   *)
(* the maintenance pass owe to the owners, and is inductive with IndInv    *)
(* and SyncedOK.  Their proofs are in UploadProofs, and in UploadPromises, *)
(* UploadSteps and UploadGuarantees.                                       *)
(***************************************************************************)
EXTENDS UploadSession

-----------------------------------------------------------------------------
(* The request, and what is published *)

(* The places of a request: it looks around, opens the stage it resumes,   *)
(* discards a session, or is past its mutation boundary.                   *)
Early == {"target", "dispatch", "lookup", "track_resume", "inspect", "admit"}
Opening == {"open", "truncate", "rebind", "reserve"}
Discarding == {"discard_row", "discard_file"}
Past == {"create", "track_fresh", "sync", "save", "body", "timeout", "precommit",
         "metadata", "space", "publish", "check", "rename", "sync_parents",
         "discard", "reset", "reset_row"}
Places == {"idle", "done"} \union Early \union Opening \union Discarding \union Past
(* What a checkpoint is saved for: the first group syncs a stage first. *)
StageJobs == {"initial", "rebind", "partial", "short", "timeout", "commit", "awaiting"}
Jobs == {"none", "refuse", "unknown", "committed"} \union StageJobs

(* The upload request of the session, wherever it is. *)
Requests ==
    [pc : Places, kind : {"put", "patch"}, owner : Owners \union {NoIno}, off : Offsets,
     pol : Revisions \union {NoRev}, cp : {"none", "running", "awaiting"},
     seen : Revisions \union {NoRev}, cpoff : Offsets, tid : Revisions \union {NoIno},
     ino : Inodes \union {NoIno}, mut : {"preflight", "detached", "cancelled"},
     answered : BOOLEAN, job : Jobs, size : Offsets,
     then : {"none", "finish", "reset", "rejected", "unknown", "refuse"}, row : Row]

(* The request has a stage file open that no target name holds. *)
Owning ==
    \/ h.pc \in {"track_fresh", "truncate", "rebind", "reserve", "body", "timeout",
                 "precommit", "metadata", "space", "publish", "check", "rename"}
    \/ h.pc \in {"sync", "save"} /\ h.job \in StageJobs
(* That stage holds the whole upload. *)
Whole ==
    \/ h.pc \in {"metadata", "space", "publish", "check", "rename"}
    \/ h.pc \in {"sync", "save"} /\ h.job \in {"commit", "awaiting"}

(* The request is where its fields say it can be. *)
RequestOK ==
    /\ h \in Requests
    /\ h.pc # "idle" => h.owner \in Owners
    /\ h.pc \in {"reset", "reset_row"} => h.then \in {"rejected", "unknown", "refuse"}
    /\ h.pc = "sync" => h.job \in StageJobs
    /\ h.pc = "save" => h.job # "none"

(* No file is both a stage and a target, in memory or on disk. *)
NamesOK ==
    /\ stage \in Inodes => stage \notin {target, disk.target}
    /\ disk.stage \in Inodes => disk.stage # disk.target

(* The stage a request works on is its own, is whole once its length was *)
(* checked, and is on disk before the rename publishes it.               *)
StageOK ==
    /\ Owning => h.ino \in Inodes \ {target, disk.target} /\ stage \in {NoIno, h.ino}
    /\ Whole => file[h.ino].len = Len
    /\ h.pc \in {"check", "rename"} => file[h.ino].synced = Len

(* Nothing is changed before the request is detached from its deadline,     *)
(* and the client is told so only if the request was cancelled before that. *)
BoundaryOK ==
    /\ h.pc \in Past => h.mut = "detached"
    /\ h.pc \in {"open", "truncate"} \union Early => h.mut # "detached"
    /\ h.pc \in Opening /\ ~Resume => h.mut = "detached"
    /\ h.pc \in {"idle", "done"} \union Discarding => ~h.answered /\ h.mut = "preflight"
    /\ h.mut # "detached" /\ h.pc \notin {"done"} \union Discarding => effect = "nothing"
    /\ h.answered => h.mut # "preflight"
    /\ told # "none" => h.answered \/ h.pc = "done"
    /\ told = "not_started" => effect = "nothing" /\ (h.pc = "done" \/ h.mut = "cancelled")

Handling == RequestOK /\ StageOK /\ BoundaryOK
(* The inductive invariant. NamesOK and StageOK carry PublishedWhole over *)
(* a rename and a crash, BoundaryOK carries NotStartedUntouched over the  *)
(* steps a detached request takes after its answer.                       *)
IndInv == TypeOK /\ NamesOK /\ PublishedWhole /\ Handling

-----------------------------------------------------------------------------
(* The table and the answers *)

(* The request saves a row for one of these jobs; it may still sync first. *)
Saving(jobs) == h.pc = "save" /\ h.job \in jobs
Storing(jobs) == h.pc \in {"sync", "save"} /\ h.job \in jobs

(* The request has not published its session, *)
Unpublished ==
    /\ h.pc \notin {"idle", "done", "target", "dispatch", "lookup", "discard_row",
                    "sync_parents"}
    /\ ~Saving({"committed", "unknown"})
(* its commit is begun and not settled, *)
Settling ==
    \/ h.pc \in {"publish", "check", "rename", "sync_parents"}
    \/ Storing({"awaiting"}) \/ Saving({"committed", "unknown"})
(* and it has renamed its stage. *)
Renamed == h.pc = "sync_parents" \/ Saving({"committed"})

(* A committed row was published, and a published session has a row that   *)
(* does not deny it.  A commit is of the whole length.                     *)
TableOK ==
    \A o \in Owners :
       /\ rows[o].state = "committed" => landed[o]
       /\ landed[o] => rows[o].state \in {"commit_started", "committed", "unknown"}
       /\ rows[o].state \in {"commit_started", "awaiting", "committed"} => rows[o].off = Len
(* Where the request is says what has become of its session. *)
HistoryOK ==
    /\ Unpublished => ~landed[h.owner]
    /\ Settling => rows[h.owner].state = "commit_started"
    /\ Renamed => landed[h.owner] /\ stage = NoIno
    /\ Saving({"committed"}) => disk.stage = NoIno /\ (target \in Inodes => target = disk.target)
    /\ Saving({"refuse"}) => rows[h.owner].state = "none"
    /\ effect = "target" => h.pc \in {"done", "sync_parents"} \/ Saving({"committed", "unknown"})
(* No power failure takes a committed publication back: the owner's files  *)
(* have no other name left, and the target's is on disk.                   *)
CrashOK ==
    \A o \in Owners, i \in Inodes :
       rows[o].state = "committed" /\ file[i].by = o
          => /\ i \notin {stage, disk.stage} /\ ~(Owning /\ h.ino = i)
             /\ i = target => i = disk.target

-----------------------------------------------------------------------------
(* The registry of active uploads, which a request and maintenance share *)

(* The maintenance pass, wherever it is. *)
Upkeeps ==
    [pc : {"rest", "page", "match", "claim", "rematch", "purge", "drop_row", "snapshot",
           "visit", "claim_stale", "bound", "remove", "sync_removed"},
     todo : SUBSET Owners, snap : [Owners -> Row], at : Owners \union {NoIno},
     protected : BOOLEAN, skip : BOOLEAN]
(* The request is entered in the registry. *)
Registered ==
    /\ h.pc \notin {"idle", "done", "target", "dispatch", "lookup", "track_resume",
                    "create", "track_fresh", "discard_row", "discard_file"}
    /\ h.pc \in {"inspect", "admit"} => Resume
    /\ h.pc = "discard" => h.then # "finish"
(* An upload and a cleanup marker exclude each other, each step that needs *)
(* its entry has it, and no snapshot holds a row whose commit is begun.    *)
RegistryOK ==
    /\ m \in Upkeeps
    /\ ~(active /\ marker)
    /\ Registered => active
    /\ m.pc \in {"rematch", "purge", "bound", "remove"} => marker
    /\ m.pc \in {"match", "claim", "rematch", "purge", "drop_row"} => m.at \in Owners
    /\ \A o \in Owners : m.snap[o].state # "commit_started"

-----------------------------------------------------------------------------
(* The stage of a session, where no inode number is given to a second file *)
(* while a row remembers the first                                         *)

(* The request works on the stage of its row, *)
InTransfer ==
    \/ h.pc \in {"truncate", "rebind", "reserve", "body", "precommit", "metadata", "space"}
    \/ Storing({"rebind", "partial", "short", "commit"})
(* and the stage's name is on disk. *)
Anchored ==
    \/ InTransfer \/ h.pc \in {"publish", "check", "rename"} \/ Storing({"awaiting"})
    \/ Saving(StageJobs) \/ (h.pc = "timeout" /\ Resume)
    \/ (h.pc = "sync" /\ ~SyncsParent)
(* A row's inode, if it still has the stage's name, is a file of the row's *)
(* owner, and holds on disk what a live row advertises.                    *)
RowsOK ==
    \A o \in Owners :
       /\ Live(rows[o]) => rows[o].ino \in Inodes
       /\ rows[o].ino \in Inodes \intersect {stage, disk.stage} => file[rows[o].ino].by = o
       /\ Live(rows[o]) /\ rows[o].ino \in {stage, disk.stage}
             => file[rows[o].ino].synced >= rows[o].off
       /\ Live(rows[o]) /\ rows[o].ino = stage => disk.stage = stage
(* The request holds a file of its owner, and the row and the names that   *)
(* its place asks for.                                                     *)
HoldsOK ==
    /\ Owning \/ h.pc = "discard" => h.ino \in Inodes /\ file[h.ino].by = h.owner
    /\ h.pc = "discard_file" /\ h.ino \in Inodes \intersect {stage, disk.stage}
          => file[h.ino].by = h.owner
    /\ Anchored => stage = h.ino /\ disk.stage = h.ino
    /\ InTransfer => rows[h.owner].state \in {"running", "awaiting"} /\ rows[h.owner].ino = h.ino
    /\ h.pc = "open" => h.cp \in {"running", "awaiting"} /\ Resume
    /\ h.pc \in {"create", "track_fresh"} \/ Storing({"initial"}) => ~Resume
(* The file is as long as the offset that is to be stored, and synced that *)
(* far before it is; a resumed request never goes below its row.           *)
SizesOK ==
    /\ h.pc = "sync" => file[h.ino].len >= h.size
    /\ Saving(StageJobs) => file[h.ino].synced >= h.size
    /\ Storing({"commit", "awaiting"}) => h.size = Len
    /\ Storing({"rebind"}) => h.size = h.off
    /\ h.pc \in {"truncate", "rebind"} => file[h.ino].len >= h.off
    /\ Resume /\ (h.pc \in {"truncate", "rebind", "reserve", "body", "precommit"}
                   \/ Storing({"rebind"}))
          => rows[h.owner].off <= h.off
(* What maintenance is about to remove belongs to an expired row or to     *)
(* none, although it works from a snapshot.                                *)
PurgeOK ==
    /\ m.pc = "purge" => /\ rows[m.at].ino = Snapped.ino
                         /\ Live(rows[m.at]) => rows[m.at].expired
    /\ m.pc = "remove" => \A o \in Owners : ~Live(rows[o])
    /\ m.pc = "drop_row" /\ ~marker /\ Live(Snapped)
             /\ expired_upload_session_matches(rows, m.at, Snapped)
          => stage # Snapped.ino
SessionOK == RowsOK /\ HoldsOK /\ SizesOK /\ PurgeOK
DurableOK == ~ReuseInodes => SessionOK

Promises == TableOK /\ HistoryOK /\ CrashOK /\ RegistryOK /\ DurableOK
(* The promises that are about the request. *)
Fits == /\ HistoryOK
        /\ Registered => active
        /\ ~ReuseInodes => HoldsOK /\ SizesOK
(* What is on disk of a file is not more than the file. *)
SyncedOK == \A i \in Inodes : file[i].synced <= file[i].len

-----------------------------------------------------------------------------
(* Steps *)

(* A step that tells the client nothing untrue, *)
Honest ==
    told' # told /\ told' # "none" =>
       /\ told' = "committed" => landed'[h.owner]
       /\ told' \in {"rejected", "awaiting", "running", "not_seen"} => ~landed'[h.owner]
       /\ told' \notin {"committed", "unknown"} => effect' # "target"
(* that stays with its request, *)
Carries == h'.owner = h.owner /\ h'.kind = h.kind /\ h'.off = h.off /\ h'.cp = h.cp
(* that may take the stage name away, *)
Unlinks ==
    \/ UNCHANGED <<stage, disk, aged, file>>
    \/ Unlink
(* that removes records and changes no other, *)
Shrinks ==
    \A x \in Owners : \/ rows'[x] = rows[x] /\ landed'[x] = landed[x]
                      \/ rows'[x] = NoRow /\ landed'[x] = FALSE
(* that turns an awaiting record into a rejected one, *)
Abandons ==
    \A x \in Owners :
       /\ landed'[x] = landed[x]
       /\ \/ rows'[x] = rows[x]
          \/ /\ rows[x].state = "awaiting" /\ rows'[x].state = "rejected"
             /\ UNCHANGED <<rows[x].ino, rows[x].off>> /\ ~rows'[x].expired
(* and that saves the row the request proposes, and sweeps some of others. *)
Saves ==
    /\ Accepts(Swept(rows), h.owner, Proposal)
    /\ rows'[h.owner] = Proposal
    /\ landed'[h.owner] => landed[h.owner]
    /\ landed[h.owner] /\ ~Disposable(rows[h.owner]) /\ Proposal.state # "none" => landed'[h.owner]
    /\ \A x \in Owners \ {h.owner} : \/ rows'[x] = rows[x] /\ landed'[x] = landed[x]
                                     \/ rows'[x] = NoRow /\ landed'[x] = FALSE
=============================================================================
