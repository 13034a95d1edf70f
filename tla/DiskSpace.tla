----------------------------- MODULE DiskSpace ------------------------------
(***************************************************************************)
(* Disk-space reservations on one device (disk_space.rs) and the uploads   *)
(* that write under them (upload/transfer.rs, upload/commit.rs).  The free *)
(* space is probed outside the mutex of the tracker; an upload consumes    *)
(* its reservation when tokio has accepted a chunk, which the file system  *)
(* may receive later.  Nobody else uses the device.                        *)
(*                                                                         *)
(* Sizes are natural numbers: a sum beyond 64 bits is more than any device *)
(* has, and the checked additions of the code refuse it as well.           *)
(***************************************************************************)
EXTENDS Naturals, FiniteSetsExt

CONSTANTS
    Uploads,
    Length,         \* declared length of each upload
    Offset,         \* where each upload resumes (0: fresh)
    Chunk,          \* largest chunk of a body
    Unit,           \* allocation unit of the device (f_frsize)
    Metadata,       \* UPLOAD_RESERVATION_METADATA_BYTES
    MinimumFree,    \* min-free-space
    Batch,          \* RESERVATION_RELEASE_BATCH_BYTES
    Recheck,        \* DISK_SPACE_RECHECK_BYTES
    Retries,        \* MAX_CAPACITY_SNAPSHOT_RETRIES
    Free            \* what may be free on the device at the start

ASSUME SizesAssumption == Unit > 0 /\ \A u \in Uploads : Offset[u] <= Length[u]

VARIABLES
    free,       \* what fstatvfs reports
    reserved,   \* DiskSpaceState::reserved of the device
    revision,   \* DiskSpaceState::revisions of the device
    pc,         \* where each upload is
    after,      \* where it goes on after a verification
    observed, available, tries,     \* locals of a snapshot loop
    remaining, pending,             \* the upload's reservation
    chunk,      \* the chunk being written
    until,      \* bytes_until_space_check
    consumed,   \* bytes of the file that have been accepted
    inflight,   \* accepted bytes that have not reached the file system
    spent,      \* blocks taken by metadata
    gone        \* the stage is unlinked and a write still holds its inode

tracker == <<reserved, revision>>
snapshot == <<observed, available, tries>>
reservation == <<remaining, pending>>
file == <<chunk, until, consumed, inflight, spent, gone>>
vars == <<free, tracker, pc, after, snapshot, reservation, file>>

Each(value) == [u \in Uploads |-> value]

Init ==
    /\ free \in Free
    /\ reserved = 0 /\ revision = 0
    /\ pc = Each("start") /\ after = Each("start")
    /\ observed = Each(0) /\ available = Each(0) /\ tries = Each(0)
    /\ remaining = Each(0) /\ pending = Each(0)
    /\ chunk = Each(0) /\ until = Each(Recheck)
    /\ consumed = Offset
    /\ inflight = Each(0) /\ spent = Each(0) /\ gone = Each(FALSE)

-----------------------------------------------------------------------------
RoundUp(n) == ((n + Unit - 1) \div Unit) * Unit

allocation_budget(logical, metadata) == RoundUp(logical) + RoundUp(metadata)

Requested(u) == allocation_budget(Length[u] - Offset[u], Metadata)

space_budget_fits(space, requested) == space >= MinimumFree + reserved + requested

Goto(u, place) == pc' = [pc EXCEPT ![u] = place]
Set(f, u, value) == [f EXCEPT ![u] = value]

(* DiskSpaceTracker::release: a release of nothing leaves the revision. *)
release(bytes) ==
    /\ reserved' = reserved - bytes
    /\ revision' = IF bytes = 0 THEN revision ELSE revision + 1

-----------------------------------------------------------------------------
(* The snapshot loop of reserve_on_device and of                           *)
(* reserved_space_is_available_on_device: read the revision, probe without *)
(* the mutex, then decide under it if the revision is still the same.      *)

Enter(u, place) == Goto(u, place) /\ tries' = Set(tries, u, 0)

Observe(u, from, to) ==
    /\ pc[u] = from
    /\ observed' = Set(observed, u, revision)
    /\ Goto(u, to)
    /\ UNCHANGED <<free, tracker, after, available, tries, reservation, file>>

Probe(u, from, to, failed) ==
    /\ pc[u] = from
    /\ \/ available' = Set(available, u, free) /\ Goto(u, to)
       \/ Goto(u, failed) /\ UNCHANGED available
    /\ UNCHANGED <<free, tracker, after, observed, tries, reservation, file>>

(* A decision on whatever was probed. *)
Stable_Assumed(u) == TRUE

Stable(u) == revision = observed[u]

(* Rounds without a limit. *)
Again_Unbounded(u, from, to, failed) ==
    /\ pc[u] = from
    /\ ~Stable(u)
    /\ Goto(u, to) /\ tries' = Set(tries, u, tries[u] + 1)
    /\ UNCHANGED <<free, tracker, after, observed, available, reservation, file>>

(* The revision moved: another round, or WouldBlock after the last one. *)
Again(u, from, to, failed) ==
    /\ pc[u] = from
    /\ ~Stable(u)
    /\ IF tries[u] + 1 = Retries
         THEN Enter(u, failed)
         ELSE Goto(u, to) /\ tries' = Set(tries, u, tries[u] + 1)
    /\ UNCHANGED <<free, tracker, after, observed, available, reservation, file>>

Start(u) ==
    /\ pc[u] = "start"
    /\ Enter(u, "observe")
    /\ UNCHANGED <<free, tracker, after, observed, available, reservation, file>>

reserve_locked(u) ==
    /\ pc[u] = "locked"
    /\ Stable(u)
    /\ IF space_budget_fits(available[u], Requested(u))
         THEN /\ reserved' = reserved + Requested(u)
              /\ revision' = revision + 1
              /\ remaining' = Set(remaining, u, Requested(u))
              /\ after' = Set(after, u, "body")
              /\ Goto(u, "verify")
         ELSE Goto(u, "done") /\ UNCHANGED <<tracker, remaining, after>>
    /\ UNCHANGED <<free, snapshot, pending, file>>

reserve_on_device(u) ==
    \/ Observe(u, "observe", "probe")
    \/ Probe(u, "probe", "locked", "done")
    \/ Again(u, "locked", "observe", "done")
    \/ reserve_locked(u)

(* flush_pending_release, before a verification. *)
Flush(u) ==
    /\ pc[u] = "verify"
    /\ release(pending[u])
    /\ pending' = Set(pending, u, 0)
    /\ Enter(u, "observe2")
    /\ UNCHANGED <<free, after, observed, available, remaining, file>>

(* A successful verification restarts the distance to the next one in      *)
(* write_upload_chunk; a failed one ends the upload.                       *)
Verified(u) ==
    /\ pc[u] = "locked2"
    /\ Stable(u)
    /\ IF available[u] >= MinimumFree + reserved
         THEN /\ Goto(u, after[u])
              /\ until' = IF after[u] = "write" THEN Set(until, u, Recheck) ELSE until
         ELSE /\ Goto(u, IF after[u] = "write" THEN "insufficient" ELSE "failed")
              /\ UNCHANGED until
    /\ UNCHANGED <<free, tracker, after, snapshot, reservation, chunk, consumed, inflight,
                   spent, gone>>

reserved_space_is_available(u) ==
    \/ Flush(u)
    \/ Observe(u, "observe2", "probe2")
    \/ Probe(u, "probe2", "locked2", "failed")
    \/ Again(u, "locked2", "observe2", "failed")
    \/ Verified(u)

-----------------------------------------------------------------------------
(* receive_upload_body and write_upload_chunk. *)

Receive(u) ==
    /\ pc[u] = "body"
    /\ \E n \in 1..Chunk :
         /\ consumed[u] + n <= Length[u]
         /\ chunk' = Set(chunk, u, n)
         /\ IF n >= until[u]
              THEN Goto(u, "verify") /\ after' = Set(after, u, "write")
              ELSE Goto(u, "write") /\ UNCHANGED after
    /\ UNCHANGED <<free, tracker, snapshot, reservation, until, consumed, inflight,
                   spent, gone>>

(* write_all: tokio takes the chunk once the previous one has landed. *)
Write(u) ==
    /\ pc[u] = "write"
    /\ inflight[u] = 0
    /\ inflight' = Set(inflight, u, chunk[u])
    /\ consumed' = Set(consumed, u, consumed[u] + chunk[u])
    /\ Goto(u, "consume")
    /\ UNCHANGED <<free, tracker, after, snapshot, reservation, chunk, until, spent, gone>>

(* A consumption that gives the bytes back twice: at once and in a batch. *)
consume_Twice(u) ==
    /\ pc[u] = "consume"
    /\ remaining' = Set(remaining, u, remaining[u] - chunk[u])
    /\ pending' = Set(pending, u, pending[u] + chunk[u])
    /\ release(chunk[u])
    /\ until' = Set(until, u, IF until[u] > chunk[u] THEN until[u] - chunk[u] ELSE 0)
    /\ Goto(u, "body")
    /\ UNCHANGED <<free, after, snapshot, chunk, consumed, inflight, spent, gone>>

(* DiskSpaceReservation::consume, with the flush of a full batch. *)
consume(u) ==
    LET batch == pending[u] + chunk[u] IN
    /\ pc[u] = "consume"
    /\ remaining' = Set(remaining, u, remaining[u] - chunk[u])
    /\ IF batch >= Batch
         THEN release(batch) /\ pending' = Set(pending, u, 0)
         ELSE pending' = Set(pending, u, batch) /\ UNCHANGED tracker
    /\ until' = Set(until, u, IF until[u] > chunk[u] THEN until[u] - chunk[u] ELSE 0)
    /\ Goto(u, "body")
    /\ UNCHANGED <<free, after, snapshot, chunk, consumed, inflight, spent, gone>>

(* The blocking write queued by write_all reaches the file system. *)
Landed(u) == consumed[u] - inflight[u]
Land(u) ==
    /\ inflight[u] > 0
    /\ free' = free - (RoundUp(consumed[u]) - RoundUp(Landed(u)))
    /\ inflight' = Set(inflight, u, 0)
    /\ UNCHANGED <<tracker, pc, after, snapshot, reservation, chunk, until, consumed, spent, gone>>

(* The inode of a stage goes, and its blocks with it. *)
Close(u) ==
    /\ free' = free + RoundUp(consumed[u]) + spent[u]
    /\ consumed' = Set(consumed, u, 0)
    /\ spent' = Set(spent, u, 0)
    /\ gone' = Set(gone, u, FALSE)

(* The body ends, complete or not: file.flush, then a verification. *)
Drain(u) ==
    /\ pc[u] = "body"
    /\ inflight[u] = 0
    /\ Goto(u, "verify") /\ after' = Set(after, u, "commit")
    /\ UNCHANGED <<free, tracker, snapshot, reservation, file>>

(* prepare_transferred_upload: the metadata of the replaced target, then   *)
(* the record of the commit, each within the allowance and each followed   *)
(* by a verification.                                                      *)
Spend(u, from, to) ==
    /\ pc[u] = from
    /\ consumed[u] = Length[u]
    /\ \E blocks \in 0..(RoundUp(Metadata) - spent[u]) :
         /\ blocks % Unit = 0
         /\ free' = free - blocks
         /\ spent' = Set(spent, u, spent[u] + blocks)
    /\ Goto(u, "verify") /\ after' = Set(after, u, to)
    /\ UNCHANGED <<tracker, snapshot, reservation, chunk, until, consumed, inflight, gone>>

(* The client, the disk or a deadline ends the upload; an incomplete body  *)
(* is found out before the commit, and a publication may fail.             *)
Interrupt(u) ==
    /\ pc[u] \in {"body", "commit", "record", "publish"}
    /\ Goto(u, "failed")
    /\ UNCHANGED <<free, tracker, after, snapshot, reservation, file>>

(* From the commit on any stage may be given up; after the metadata is     *)
(* replayed none is cut back.                                              *)
Committing(u) == after[u] \in {"commit", "record", "publish"}
Late(u) == after[u] \in {"record", "publish"}
Resumed(u) == Offset[u] > 0

(* persist_checkpoint: the stage is synchronised and stays for a           *)
(* resumption; a complete one may stay for a confirmation until its commit *)
(* is recorded.                                                            *)
Keep(u) ==
    /\ pc[u] = "failed" /\ after[u] # "publish"
    /\ inflight[u] = 0
    /\ Goto(u, "ended")
    /\ UNCHANGED <<free, tracker, after, snapshot, reservation, file>>

(* set_len waits for the write in flight and frees the blocks behind the   *)
(* offset.                                                                 *)
CutBack(u) ==
    /\ pc[u] = "insufficient" \/ (pc[u] = "failed" /\ ~Late(u) /\ Resumed(u))
    /\ inflight[u] = 0
    /\ free' = free + RoundUp(consumed[u]) - RoundUp(Offset[u])
    /\ consumed' = Set(consumed, u, Offset[u])
    /\ Goto(u, "ended")
    /\ UNCHANGED <<tracker, after, snapshot, reservation, chunk, until, inflight, spent, gone>>

(* reset_and_ancestors unlinks the stage.  Its file was dropped without    *)
(* waiting for a write in flight, which then still holds the inode.        *)
Remove(u) ==
    /\ pc[u] = "failed" /\ (Committing(u) \/ ~Resumed(u))
    /\ IF inflight[u] = 0
         THEN Close(u)
         ELSE gone' = Set(gone, u, TRUE) /\ UNCHANGED <<free, consumed, spent>>
    /\ Goto(u, "ended")
    /\ UNCHANGED <<tracker, after, snapshot, reservation, chunk, until, inflight>>

(* The last write into a removed stage is over, and its inode goes. *)
Reclaim(u) ==
    /\ gone[u] /\ inflight[u] = 0
    /\ Close(u)
    /\ UNCHANGED <<tracker, pc, after, snapshot, reservation, chunk, until, inflight>>

(* Drop for DiskSpaceReservation, after a publication, a conflict that     *)
(* leaves the stage for a confirmation, or a failure.                      *)
Drop(u) ==
    /\ pc[u] \in {"publish", "ended"}
    /\ release(remaining[u] + pending[u])
    /\ remaining' = Set(remaining, u, 0)
    /\ pending' = Set(pending, u, 0)
    /\ Goto(u, "done")
    /\ UNCHANGED <<free, after, snapshot, file>>

Upload(u) ==
    \/ Start(u) \/ reserve_on_device(u) \/ reserved_space_is_available(u)
    \/ Receive(u) \/ Write(u) \/ consume(u) \/ Land(u) \/ Drain(u)
    \/ Spend(u, "commit", "record") \/ Spend(u, "record", "publish")
    \/ Interrupt(u) \/ Keep(u) \/ CutBack(u) \/ Remove(u) \/ Reclaim(u) \/ Drop(u)

Finished == (\A u \in Uploads : pc[u] = "done" /\ inflight[u] = 0 /\ ~gone[u]) /\ UNCHANGED vars

Next == (\E u \in Uploads : Upload(u)) \/ Finished
Spec == Init /\ [][Next]_vars

-----------------------------------------------------------------------------
(* Every variable has its type; in particular no subtraction of release or *)
(* of consume ever wraps (the debug_asserts of both).                      *)
TypeOK ==
    /\ free \in Nat /\ reserved \in Nat /\ revision \in Nat
    /\ \A u \in Uploads :
         /\ pc[u] \in {"start", "observe", "probe", "locked", "verify", "observe2", "probe2",
                       "locked2", "body", "write", "consume", "commit", "record",
                       "failed", "insufficient", "publish", "ended", "done"}
         /\ after[u] \in {"start", "body", "write", "commit", "record", "publish"}
         /\ observed[u] \in Nat /\ available[u] \in Nat /\ tries[u] \in 0..Retries
         /\ remaining[u] \in Nat /\ pending[u] \in Nat
         /\ chunk[u] \in 0..Chunk /\ until[u] \in 0..Recheck
         /\ consumed[u] \in 0..Length[u] /\ inflight[u] \in 0..Chunk
         /\ spent[u] \in 0..RoundUp(Metadata) /\ gone[u] \in BOOLEAN

Total(value(_), S) == MapThenSumSet(value, S)

(* Concurrent uploads never write the device below min-free-space,         *)
(* although each one decides on a probe that the others outdate and        *)
(* although accepted bytes may still be on their way to the file system:   *)
(* at most, a removed stage can for a moment exceed it by the one chunk    *)
(* that was in flight when its file was dropped.                           *)
MinimumFreeKept ==
    LET Orphan(u) == RoundUp(Chunk)
    IN  free + Total(Orphan, {u \in Uploads : gone[u]}) >= MinimumFree

(* The tracker accounts for exactly what the live reservations hold: none  *)
(* is forgotten, released twice or left behind by an upload that ended.    *)
Accounted ==
    LET Held(u) == remaining[u] + pending[u] IN reserved = Total(Held, Uploads)
=============================================================================
