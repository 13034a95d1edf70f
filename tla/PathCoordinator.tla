--------------------------- MODULE PathCoordinator ---------------------------
(***************************************************************************)
(* The path-lease coordinator, src/src/server/path_coordinator.rs.  Every  *)
(* request acquires one lease on all its paths, mutates the namespace      *)
(* while it holds the lease, and drops it.  Keys are resolved outside any  *)
(* lock, so a key can be out of date when it is used: lease_epoch, bumped  *)
(* by every released lease, is what tells.                                 *)
(*                                                                         *)
(* One step is one critical section, one atomic access, or one path        *)
(* resolution.  The watch channel `changes` is the flag dirty[r]: some     *)
(* version was sent since r last looked.                                   *)
(***************************************************************************)
EXTENDS PathKeys

CONSTANTS
    Requests,   \* the requests; each calls acquire_inner once
    Op,         \* Op[r]: what r does, on which paths
    InitNs,     \* the namespace before any request
    CanFail,    \* requests whose path resolutions may hit an I/O error
    None        \* no request / no epoch

VARIABLES
    ns,         \* the managed directory tree
    epoch,      \* lease_epoch
    next_id,    \* next_waiter_id
    leases,     \* leases[r]: keys r's lease was recorded with, {} if none
    waiters,    \* waiters[r]: "absent", "resolving" or "resolved"
    lock,       \* who holds the `leases` mutex between two steps
    pc, id,     \* where r is in acquire_inner; its waiter id
    dirty,      \* changes.has_changed() for r
    expected,   \* expected_epoch
    part,       \* keys resolved so far by the current pass
    keys, keys_epoch    \* resolved_paths: last complete pass and its epoch

vars == <<ns, epoch, next_id, leases, waiters, lock, pc, id, dirty, expected,
          part, keys, keys_epoch>>
local == <<id, expected, part, keys, keys_epoch>>

Paths(r) == {Op[r].paths[i] : i \in DOMAIN Op[r].paths}

Keys(f, r) == {LeaseKey(f, p) : p \in Paths(r)}

Init ==
    /\ ns = InitNs
    /\ epoch = 0 /\ next_id = 1 /\ lock = None
    /\ leases = [r \in Requests |-> {}]
    /\ waiters = [r \in Requests |-> "absent"]
    /\ pc = [r \in Requests |-> "start"]
    /\ id = [r \in Requests |-> 0]
    /\ dirty = [r \in Requests |-> FALSE]
    /\ expected = [r \in Requests |-> 0]
    /\ part = [r \in Requests |-> {}]
    /\ keys = [r \in Requests |-> {}]
    /\ keys_epoch = [r \in Requests |-> None]

(* The locals of acquire_inner end with it.                                *)
Forget(r) ==
    /\ id' = [id EXCEPT ![r] = 0]
    /\ expected' = [expected EXCEPT ![r] = 0]
    /\ part' = [part EXCEPT ![r] = {}]
    /\ keys' = [keys EXCEPT ![r] = {}]
    /\ keys_epoch' = [keys_epoch EXCEPT ![r] = None]

(* changes.send_modify: every subscribed receiver sees a new version.      *)
Changed == [q \in Requests |-> dirty[q] \/ waiters[q] # "absent"]

Goto(r, label) == pc' = [pc EXCEPT ![r] = label]

Earlier(r) == {q \in Requests : waiters[q] # "absent" /\ id[q] < id[r]}

waiter_lexically_conflicts(q, paths) ==
    \E p \in Paths(q), x \in paths : lexically_conflict(p, x)

waiter_conflicts(q, requested) ==
    IF waiters[q] = "resolving"
    THEN waiter_lexically_conflicts(q, {k.lexical : k \in requested})
    ELSE paths_conflict(keys[q], requested)

-----------------------------------------------------------------------------
(* WaiterRegistration::new: take an id, then, in another step, insert the  *)
(* waiter; a later id may be inserted first.                               *)
TakeId(r) ==
    /\ pc[r] = "start"
    /\ id' = [id EXCEPT ![r] = next_id]
    /\ next_id' = next_id + 1
    /\ Goto(r, "register")
    /\ UNCHANGED <<ns, epoch, leases, waiters, lock, dirty, expected, part, keys, keys_epoch>>

Register(r) ==
    /\ pc[r] = "register"
    /\ waiters' = [waiters EXCEPT ![r] = "resolving"]
    /\ Goto(r, "observe")
    /\ UNCHANGED <<ns, epoch, next_id, leases, lock, dirty, local>>

(* changes.borrow_and_update()                                             *)
Observe(r) ==
    /\ pc[r] = "observe"
    /\ dirty' = [dirty EXCEPT ![r] = FALSE]
    /\ Goto(r, "epoch")
    /\ UNCHANGED <<ns, epoch, next_id, leases, waiters, lock, local>>

(* An epoch read that is off by one.                                       *)
LoadEpoch_OffByOne(r) ==
    /\ pc[r] = "epoch"
    /\ expected' = [expected EXCEPT ![r] = epoch - 1]
    /\ Goto(r, IF keys_epoch[r] = epoch THEN "try" ELSE "mark")
    /\ UNCHANGED <<ns, epoch, next_id, leases, waiters, lock, dirty, id, part, keys, keys_epoch>>

LoadEpoch(r) ==
    /\ pc[r] = "epoch"
    /\ expected' = [expected EXCEPT ![r] = epoch]
    /\ Goto(r, IF keys_epoch[r] = epoch THEN "try" ELSE "mark")
    /\ UNCHANGED <<ns, epoch, next_id, leases, waiters, lock, dirty, id, part, keys, keys_epoch>>

mark_resolving_if_eligible(r) ==
    /\ pc[r] = "mark"
    /\ IF \E q \in Earlier(r) :
            IF keys_epoch[r] = None THEN waiter_lexically_conflicts(q, Paths(r))
                                    ELSE waiter_conflicts(q, keys[r])
       THEN /\ Goto(r, "wait")
            /\ UNCHANGED <<waiters, part>>
       ELSE /\ waiters' = [waiters EXCEPT ![r] = "resolving"]
            /\ part' = [part EXCEPT ![r] = {}]
            /\ Goto(r, "resolve")
    /\ UNCHANGED <<ns, epoch, next_id, leases, lock, dirty, id, expected, keys, keys_epoch>>

(* Resolve one path in the namespace of this moment, or fall back to the   *)
(* conservative key after an I/O error; the last path ends the pass.       *)
resolve_path_key(r, p, key) ==
    LET resolved == part[r] \cup {key}
    IN /\ pc[r] = "resolve"
       /\ p \notin {k.lexical : k \in part[r]}
       /\ IF Paths(r) = {k.lexical : k \in resolved}
          THEN /\ keys' = [keys EXCEPT ![r] = resolved]
               /\ keys_epoch' = [keys_epoch EXCEPT ![r] = expected[r]]
               /\ part' = [part EXCEPT ![r] = {}]
               /\ Goto(r, "try")
          ELSE /\ part' = [part EXCEPT ![r] = resolved]
               /\ UNCHANGED <<keys, keys_epoch, pc>>
       /\ UNCHANGED <<ns, epoch, next_id, leases, waiters, lock, dirty, id, expected>>

Resolve(r) ==
    \E p \in Paths(r) :
        \/ resolve_path_key(r, p, LeaseKey(ns, p))
        \/ r \in CanFail /\ resolve_path_key(r, p, RootKey(p))

-----------------------------------------------------------------------------
(* try_acquire, under the `leases` and `waiters` mutexes.                  *)
TryReady(r) == pc[r] = "try" /\ lock = None

(* A grant that accepts keys resolved before another lease was released.   *)
TryStale_Ignored(r) == FALSE

TryStale(r) == epoch # expected[r]

(* A grant that consults the queue but not the leases already granted.     *)
TryBlocked_QueueOnly(r) == \E q \in Earlier(r) : waiter_conflicts(q, keys[r])

TryBlocked(r) ==
    \/ \E q \in Requests : paths_conflict(leases[q], keys[r])
    \/ \E q \in Earlier(r) : waiter_conflicts(q, keys[r])

Stale(r) ==
    /\ TryReady(r) /\ TryStale(r)
    /\ Goto(r, "observe")
    /\ UNCHANGED <<ns, epoch, next_id, leases, waiters, lock, dirty, local>>

Blocked(r) ==
    /\ TryReady(r) /\ ~TryStale(r) /\ TryBlocked(r)
    /\ waiters' = [waiters EXCEPT ![r] = "resolved"]
    /\ dirty' = IF waiters[r] = "resolving" THEN Changed ELSE dirty
    /\ Goto(r, "wait")
    /\ UNCHANGED <<ns, epoch, next_id, leases, lock, local>>

Acquired(r) ==
    /\ TryReady(r) /\ ~TryStale(r) /\ ~TryBlocked(r)
    /\ waiters' = [waiters EXCEPT ![r] = "absent"]
    /\ leases' = [leases EXCEPT ![r] = keys[r]]
    /\ dirty' = [Changed EXCEPT ![r] = FALSE]
    /\ Goto(r, "held")
    /\ Forget(r)
    /\ UNCHANGED <<ns, epoch, next_id, lock>>

(* changes.changed().await                                                 *)
Wake(r) ==
    /\ pc[r] = "wait" /\ dirty[r]
    /\ Goto(r, "observe")
    /\ UNCHANGED <<ns, epoch, next_id, leases, waiters, lock, dirty, local>>

(* A dropped waiter that does not wake the queue behind it.                *)
Cancel_Silent(r) ==
    /\ pc[r] \in {"resolve", "wait"}
    /\ waiters' = [waiters EXCEPT ![r] = "absent"]
    /\ dirty' = [dirty EXCEPT ![r] = FALSE]
    /\ Goto(r, "done")
    /\ Forget(r)
    /\ UNCHANGED <<ns, epoch, next_id, leases, lock>>

(* The request future is dropped at one of its await points, and with it   *)
(* the WaiterRegistration.                                                 *)
Cancel(r) ==
    /\ pc[r] \in {"resolve", "wait"}
    /\ waiters' = [waiters EXCEPT ![r] = "absent"]
    /\ dirty' = [Changed EXCEPT ![r] = FALSE]
    /\ Goto(r, "done")
    /\ Forget(r)
    /\ UNCHANGED <<ns, epoch, next_id, leases, lock>>

(* The holder changes the namespace (rooted_fs.rs).                        *)
Edit(r) ==
    /\ pc[r] = "held"
    /\ ns' \in Edits(ns, Op[r])
    /\ UNCHANGED <<epoch, next_id, leases, waiters, lock, pc, dirty, local>>

(* Drop for PathLease: the epoch moves inside the mutex, the wakeup        *)
(* follows before it is released.                                          *)
Release(r) ==
    /\ pc[r] = "held" /\ lock = None
    /\ leases' = [leases EXCEPT ![r] = {}]
    /\ epoch' = epoch + 1
    /\ lock' = r
    /\ Goto(r, "releasing")
    /\ UNCHANGED <<ns, next_id, waiters, dirty, local>>

Notify(r) ==
    /\ pc[r] = "releasing"
    /\ dirty' = Changed
    /\ lock' = None
    /\ Goto(r, "done")
    /\ UNCHANGED <<ns, epoch, next_id, leases, waiters, local>>

-----------------------------------------------------------------------------
(* The steps a scheduled task or a finishing mutation always takes.        *)
Step(r) ==
    \/ Register(r) \/ Observe(r) \/ LoadEpoch(r) \/ mark_resolving_if_eligible(r)
    \/ Resolve(r) \/ Stale(r) \/ Blocked(r) \/ Acquired(r) \/ Wake(r)
    \/ Release(r) \/ Notify(r)

Finished ==
    /\ \A r \in Requests : pc[r] = "done"
    /\ UNCHANGED vars

Next ==
    \/ \E r \in Requests : TakeId(r) \/ Step(r) \/ Cancel(r) \/ Edit(r)
    \/ Finished

Spec == Init /\ [][Next]_vars

(* tokio polls every woken task and lease holders finish; nothing forces a *)
(* new request to arrive, a future to be dropped or an edit to be made.    *)
FairSpec == Spec /\ \A r \in Requests : WF_vars(Step(r))

-----------------------------------------------------------------------------
(* Every variable has its type, and a key is one of the request's own      *)
(* paths (PathCoordinator, WaiterRegistration, acquire_inner's locals).    *)
TypeOK ==
    /\ epoch \in Nat /\ next_id \in Nat /\ lock \in Requests \cup {None}
    /\ waiters \in [Requests -> {"absent", "resolving", "resolved"}]
    /\ pc \in [Requests -> {"start", "register", "observe", "epoch", "mark", "resolve",
                            "try", "wait", "held", "releasing", "done"}]
    /\ id \in [Requests -> Nat] /\ dirty \in [Requests -> BOOLEAN]
    /\ expected \in [Requests -> Nat] /\ keys_epoch \in [Requests -> Nat \cup {None}]
    /\ DOMAIN leases = Requests /\ DOMAIN part = Requests /\ DOMAIN keys = Requests
    /\ \A r \in Requests : \A k \in leases[r] \cup part[r] \cup keys[r] : k.lexical \in Paths(r)

(* While two requests hold leases, no path of one names, contains or lies  *)
(* below a path of the other in the file system as it is NOW, links        *)
(* followed, whatever either saw when it resolved its keys.  This is the   *)
(* guarantee every handler relies on between its checks and its commit     *)
(* (acquire_inner, try_acquire, Drop for PathLease).                       *)
LeasesExclusive ==
    \A r, q \in Requests :
        r # q /\ pc[r] = "held" /\ pc[q] = "held" => ~paths_conflict(Keys(ns, r), Keys(ns, q))

(* Every registered waiter is eventually granted its lease or dropped: no  *)
(* wakeup is lost between borrow_and_update, the epoch load and the two    *)
(* mutexes, and no two waiters wait for each other.                        *)
Progress ==
    \A r \in Requests : waiters[r] # "absent" ~> pc[r] \in {"held", "releasing", "done"}
=============================================================================
