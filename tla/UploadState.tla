----------------------------- MODULE UploadState ------------------------------
(***************************************************************************)
(* The state shared by an upload request and storage maintenance: the      *)
(* session table, the stage and target names on disk, the files behind     *)
(* them, the registry of active stage files, and the steps of the upload   *)
(* store that both sides use.  All requests are for one target path and    *)
(* one upload ID.                                                          *)
(***************************************************************************)
EXTENDS UploadRows

CONSTANTS MinResumable,   \* RESUMABLE_UPLOAD_MIN_SIZE, in chunks
          MaxRequests,    \* bound: uploads and discards that are started
          MaxMishaps,     \* bound: power failures, I/O or store errors, and
                          \* changes of the target by other programs
          ReuseInodes     \* whether an inode number some row remembers may
                          \* be given to a new file

ASSUME BoundsAssumption ==
    /\ MinResumable \in Nat /\ MaxRequests \in Nat
    /\ MaxMishaps \in Nat /\ ReuseInodes \in BOOLEAN

VARIABLES
    rows,      \* owner -> row of upload_sessions
    landed,    \* owner -> the session of the present row has been published
    stage,     \* inode under the stage name
    target,    \* file under the target name, as its revision
    disk,      \* what a power failure leaves of the two names
    file,      \* inode -> [len, synced, by, meta]
    aged,      \* the stage file is older than UPLOAD_SESSION_TTL
    active,    \* the stage key is in active_upload_files
    marker,    \* the stage key's maintenance marker is in active_upload_files
    h,         \* the request that holds the path lease
    m,         \* the storage maintenance task
    told,      \* the state in the response to the present request
    effect,    \* what that request has changed so far
    up,        \* the server is running
    used       \* requests and mishaps so far

store == <<rows, landed>>
names == <<stage, target, disk, file, aged>>
registry == <<active, marker>>
client == <<told, effect>>
vars == <<rows, landed, stage, target, disk, file, aged, active, marker,
          h, m, told, effect, up, used>>

\* meta: the target whose owner, mode and attributes were replayed onto it.
File == [len : Offsets, synced : Offsets, by : Owners \union {NoIno},
         meta : Revisions \union {NoRev}]
Blank == [len |-> 0, synced |-> 0, by |-> NoIno, meta |-> NoRev]

Effects == {"nothing", "stage", "target"}
Answers == {"none", "committed", "rejected", "awaiting", "running", "unknown",
            "not_seen", "not_started"}

Idle == [pc |-> "idle", kind |-> "put", owner |-> NoIno,
         off |-> 0, pol |-> NoRev, cp |-> "none", seen |-> NoRev, cpoff |-> 0,
         tid |-> NoIno, ino |-> NoIno, mut |-> "preflight", answered |-> FALSE,
         job |-> "none", size |-> 0, then |-> "none", row |-> NoRow]

Resting == [pc |-> "rest", todo |-> {}, snap |-> [o \in Owners |-> NoRow],
            at |-> NoIno, protected |-> FALSE, skip |-> FALSE]

\* A power failure, an injected error or an outside change.
Mishap == used.mishaps < MaxMishaps /\ used' = [used EXCEPT !.mishaps = @ + 1]
Fault == Mishap

\* landed speaks of the session of the present row: it falls when the row is
\* removed, or swept and replaced.
SetRows(table) ==
    /\ rows' = table
    /\ landed' = [o \in Owners |->
                    /\ landed[o] /\ table[o].state # "none"
                    /\ Disposable(rows[o]) => table[o] = rows[o]]

\* An inode number that a new file may get.
Free(i) ==
    /\ i \notin {stage, target, disk.stage, disk.target, h.ino}
    /\ ReuseInodes \/ \A o \in Owners : rows[o].ino # i

-------------------------------------------------------------------------------
(* Steps on the stage name *)

\* The files left when only these names and descriptors hold them.
Kept(held) == [i \in Inodes |-> IF i \in held THEN file[i] ELSE Blank]

\* remove_file_if_identity and purge_single_file: the name goes only when it
\* still holds the expected inode; the purge ends with a sync of the parent.
Unlink ==
    /\ stage' = NoIno /\ disk' = [disk EXCEPT !.stage = NoIno]
    /\ aged' = FALSE /\ file' = Kept({target, disk.target, h.ino})
Replaced(ino) == stage \notin {NoIno, ino}
remove_file_if_identity(ino) ==
    IF ino # NoIno /\ stage = ino THEN Unlink ELSE UNCHANGED <<stage, disk, aged, file>>

\* valid_resumable_stage and the checks of open_resumable_stage.
valid_resumable_stage(r) ==
    r.ino # NoIno /\ stage = r.ino /\ file[r.ino].len >= r.off

Truncated(f, off) == [f EXCEPT !.len = off, !.synced = IF @ < off THEN @ ELSE off]

\* What classify_stored_session lets a caller see of the owner's row.
Lookup(o) ==
    CASE rows[o].state = "running" /\ rows[o].off < Len
           /\ ~valid_resumable_stage(rows[o]) -> "none"
      [] rows[o].state = "commit_started" -> "unknown"
      [] OTHER -> rows[o].state

\* The public name of such a state.
Public(state) == IF state = "none" THEN "not_seen" ELSE state
===============================================================================
