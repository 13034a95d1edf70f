---------------------------- MODULE UploadSession -----------------------------
(***************************************************************************)
(* Upload sessions as a whole: requests, storage maintenance, other        *)
(* programs that write the target, the passing of time, and power failures *)
(* followed by a restart.                                                  *)
(***************************************************************************)
EXTENDS UploadTransfer, UploadUpkeep

Init ==
    /\ rows = [o \in Owners |-> NoRow]
    /\ landed = [o \in Owners |-> FALSE]
    /\ stage = NoIno
    /\ target \in {NoIno} \union Outside
    /\ disk = [stage |-> NoIno, target |-> target]
    /\ file = [i \in Inodes |-> Blank]
    /\ aged = FALSE /\ active = FALSE /\ marker = FALSE
    /\ h = Idle /\ m = Resting
    /\ told = "none" /\ effect = "nothing"
    /\ up = TRUE
    /\ used = [requests |-> 0, mishaps |-> 0]

\* Another program replaces, creates or removes the target.
OutsideChange ==
    /\ Mishap
    /\ \E v \in (Outside \union {NoIno}) \ {target} :
          target' = v /\ disk' = [disk EXCEPT !.target = v]
    /\ UNCHANGED <<store, stage, file, aged, registry, h, m, client, up>>

\* UPLOAD_SESSION_TTL passes for a row.  A maintenance pass is shorter than
\* that, so a row refreshed during the pass does not expire within it.
Expire(o) ==
    /\ rows[o].state # "none" /\ ~rows[o].expired
    /\ m.snap[o] = NoRow
    /\ rows' = [rows EXCEPT ![o].expired = TRUE]
    /\ UNCHANGED <<landed, names, registry, h, m, client, up, used>>

\* The same for the stage file; a file made by the present request is younger.
Age ==
    /\ stage # NoIno /\ ~aged
    /\ h.ino = stage => Resume
    /\ aged' = TRUE
    /\ UNCHANGED <<store, stage, target, disk, file, registry, h, m, client, up, used>>

\* validate_stage_layouts: a live row and its stage name agree, or the server
\* does not start.
validate_stage_layouts(table, name) ==
    \A o \in Owners : Live(table[o]) => name \in {NoIno, table[o].ino}

\* A power failure and the start after it.  The names are as they were or as
\* they were last synced; unsynced bytes may be lost; metadata survives.
Crash ==
    /\ up /\ Mishap
    /\ \E names2 \in {[stage |-> stage, target |-> target], disk} :
          LET undone == target # names2.target /\ target \in Inodes
          IN  /\ stage' = names2.stage /\ target' = names2.target /\ disk' = names2
              /\ landed' = [o \in Owners |-> landed[o] /\ ~(undone /\ file[target].by = o)]
    /\ file' \in {file, [i \in Inodes |-> [file[i] EXCEPT !.len = file[i].synced]]}
    /\ rows' = recover_database(rows)
    /\ up' = validate_stage_layouts(rows', stage')
    /\ active' = FALSE /\ marker' = FALSE /\ h' = Idle /\ m' = Resting
    /\ told' = "none" /\ effect' = "nothing"
    /\ UNCHANGED aged

Handler == Prepare \/ Transfer

\* The revisions a client can have seen, and the create-only policy.
Policies == (Outside \union {target, NoRev}) \ {NoIno}

Arrive ==
    \E o \in Owners :
       \/ \E kind \in {"put", "patch"}, off \in Offsets, pol \in Policies :
             Request(o, kind, off, pol)
       \/ Discard(o)

Environment == OutsideChange \/ (\E o \in Owners : Expire(o)) \/ Age \/ Crash

Next == Arrive \/ Handler \/ Upkeep \/ Environment

Spec == Init /\ [][Next]_vars

\* The request task and the maintenance task keep running, and time passes.
Fairness ==
    /\ WF_vars(Handler) /\ WF_vars(Upkeep)
    /\ (\A o \in Owners : WF_vars(Expire(o))) /\ WF_vars(Age)

FairSpec == Spec /\ Fairness

-------------------------------------------------------------------------------
(* Properties *)

TypeOK ==
    /\ rows \in [Owners -> Row] /\ landed \in [Owners -> BOOLEAN]
    /\ stage \in Inodes \union {NoIno} /\ target \in Revisions \union {NoIno}
    /\ disk \in [stage : Inodes \union {NoIno}, target : Revisions \union {NoIno}]
    /\ file \in [Inodes -> File]
    /\ aged \in BOOLEAN /\ active \in BOOLEAN /\ marker \in BOOLEAN
    /\ told \in Answers /\ effect \in Effects
    /\ up \in BOOLEAN

\* An advertised offset is really there: as long as a live row and the stage
\* name agree, that many bytes of it, written by the row's owner, and the name
\* itself would survive a power failure at this moment.
\* (persist_checkpoint syncs the file, and the first time its directory,
\* before SQLite advertises the offset.)
CheckpointDurable ==
    \A o \in Owners :
       Live(rows[o]) /\ stage = rows[o].ino
          => /\ file[stage].synced >= rows[o].off
             /\ file[stage].by = o
             /\ disk.stage = stage

\* Whatever an upload publishes under the target name is complete and on disk,
\* now and after every power failure: a reader never finds a partial file.
PublishedWhole ==
    \A name \in {target, disk.target} :
       name \in Inodes => file[name].len = Len /\ file[name].synced = Len

\* A definite answer is true, whichever of the request task, its deadline and
\* an earlier record gave it: committed only for a published session, and
\* rejected, awaiting, running or not started only if this attempt has not
\* replaced the target.
HonestAnswers ==
    [][told' # told /\ told' # "none" =>
          /\ told' = "committed" => landed'[h.owner]
          /\ told' \in {"rejected", "awaiting", "running", "not_seen"} => ~landed'[h.owner]
          /\ told' \notin {"committed", "unknown"} => effect' # "target"]_vars

\* The same of HEAD, which can ask at any time that no request holds the path.
StatusHonest ==
    h.pc = "idle" =>
       \A o \in Owners :
          /\ Public(Lookup(o)) = "committed" => landed[o]
          /\ Public(Lookup(o)) \in {"rejected", "awaiting", "running", "not_seen"}
                => ~landed[o]

\* After a definite "not started" the attempt changes nothing, although its
\* task keeps running with its leases (MutationProgress closes the boundary
\* before the answer is sent).
NotStartedUntouched ==
    told = "not_started" => effect = "nothing"

\* The stage of an unexpired live session leaves its name only by that
\* owner's own request or in a power failure: neither maintenance, which
\* works from snapshots and holds no path lease, nor a request of another
\* owner under the same upload ID takes it away.
LiveStageKept ==
    [][\A o \in Owners :
          Live(rows[o]) /\ ~rows[o].expired /\ stage = rows[o].ino /\ stage' # stage
             => (h.pc # "idle" /\ h.owner = o) \/ Crash]_vars

\* A retained stage that has been given the owner, mode and attributes of a
\* target is not published as a new file once that target is gone, as the
\* documentation of `upload_metadata_preservation_refused` says.
CreateOnlyClean ==
    h.pc = "sync_parents" /\ Awaiting /\ h.tid = NoIno /\ target \in Inodes
       => file[target].meta = NoRev

\* The sessions implement the contract of UploadContract.
Contract == INSTANCE UploadContract WITH
    phase <- [o \in Owners |-> rows[o].state],
    off <- [o \in Owners |-> rows[o].off]
KeepsContract == Contract!ContractSpec

\* Every request ends and gives up its path lease, and every maintenance claim of
\* the stage ends, whatever fails on the way of either: a PATCH that waits for a
\* claim with its lease held (prepare.rs) waits for something that happens, and
\* the two do not wait for each other.
RequestsAndClaimsEnd ==
    /\ h.pc # "idle" ~> h.pc = "idle"
    /\ marker ~> ~marker

\* With no more requests, every session record and stage file is reclaimed:
\* all that can remain while the server runs is a commit whose settlement
\* could not be stored, with its stage.
Reclaimed ==
    <>[](up => \/ \E o \in Owners : rows[o].state = "commit_started"
               \/ stage = NoIno /\ \A o \in Owners : rows[o].state = "none")
===============================================================================
