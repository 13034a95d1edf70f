--------------------------- MODULE OperationStore ---------------------------
(***************************************************************************)
(* Idempotent tracked operations: the HTTP handlers of MKDIR, MOVE, RENAME *)
(* and DELETE (browser_api.rs, delete.rs) reserve an operation key, commit *)
(* in a detached task and record the outcome; one actor thread             *)
(* (state_store/actor.rs) owns the SQLite table and serves them through a  *)
(* bounded command queue and an unbounded control queue.  An HTTP deadline *)
(* may drop a handler at any await, a transaction may fail, and the        *)
(* process may crash and recover the table.                                *)
(*                                                                         *)
(* Each request begins at most once, so its name is also the fresh lease   *)
(* token begin_operation draws for it.                                     *)
(***************************************************************************)
EXTENDS Naturals, FiniteSets, Sequences

CONSTANTS
    Requests,       \* mutation requests, each carrying an operation key
    Queries,        \* GET requests for the status of a key
    Keys,           \* (owner, operation id) pairs
    Key,            \* the key of each request and query
    Fingerprint,    \* the digest of each request's method, path and body
    Owner,          \* the owner of each key
    Capacity,       \* rows the table may hold (4096)
    PerOwner,       \* rows one owner may hold (1024)
    QueueCapacity,  \* COMMAND_QUEUE_CAPACITY (256)
    MutationSlots,  \* detached commits that may run at once
    Polling,        \* whether the purge worker polls the actor
    MaxFaults,      \* bound on failed transactions
    MaxCrashes      \* bound on crashes

ASSUME ClientsAssumption == Requests \cap Queries = {}
ASSUME KeyAssumption == Key \in [Requests \cup Queries -> Keys]
ASSUME QueueAssumption == QueueCapacity \in Nat
ASSUME TableAssumption == IsFiniteSet(Keys) /\ Capacity \in Nat /\ PerOwner \in Nat

VARIABLES
    rows,       \* the operations table: key -> row
    commands,   \* the actor's bounded command queue
    controls,   \* leases on the control queue, waiting to be abandoned
    deferred,   \* deferred_abandons: leases whose abandon failed
    worker,     \* where the actor thread is
    envelope,   \* BeginEnvelope: the begin reply the actor is about to send
    pc,         \* where each handler, or its detached commit task, is
    progress,   \* MutationProgress of each request
    reply,      \* what the actor sent on each one-shot reply channel
    answer,     \* the operation state each client was told
    did,        \* requests whose filesystem mutation took place
    applied,    \* per key: those of did since the key's last record expired
    expired,    \* keys whose completed row has outlived its TTL
    asked,      \* per query: its key's requests told "unknown" before it was sent
    faults, crashes

vars == <<rows, commands, controls, deferred, worker, envelope, pc,
          progress, reply, answer, did, applied, expired, asked, faults, crashes>>
store == <<rows, applied, expired>>
queues == <<commands, controls>>
bounds == <<faults, crashes>>
actor == <<deferred, worker, envelope>>

Clients == Requests \cup Queries
NoRow == [state |-> "Absent"]
NoEnvelope == [result |-> "none"]
Row(state, r, outcome) ==
    [state |-> state, lease |-> r, fingerprint |-> Fingerprint[r], outcome |-> outcome]
Terminal == {"succeeded", "failed", "unknown"}
Detached == {"prepare", "marking", "commit", "completing"}
(* A handler in one of these places owns an OperationGuard. *)
Guarded == {"reserved", "finishing"} \cup Detached
(* A handler in one of these places is dropped by the HTTP deadline. *)
Droppable == {"begin", "reserved", "finishing", "status"}

Init ==
    /\ rows = [k \in Keys |-> NoRow]
    /\ commands = <<>>
    /\ controls = <<>>
    /\ deferred = <<>>
    /\ worker = "top"
    /\ envelope = NoEnvelope
    /\ pc = [c \in Clients |-> "idle"]
    /\ progress = [r \in Requests |-> "PREFLIGHT"]
    /\ reply = [c \in Clients |-> "none"]
    /\ answer = [c \in Clients |-> "none"]
    /\ did = {}
    /\ applied = [k \in Keys |-> {}]
    /\ expired = {}
    /\ asked = [q \in Queries |-> {}]
    /\ faults = 0
    /\ crashes = 0

-----------------------------------------------------------------------------
(* The operations table. *)

Count(table, ks) == Cardinality({k \in ks : table[k] # NoRow})
OwnedBy(k) == {j \in Keys : Owner[j] = Owner[k]}

purge_expired(table) == [k \in Keys |-> IF k \in expired THEN NoRow ELSE table[k]]

(* An admission that lets one row too many in. *)
BeginResult_OneTooMany(table, r) ==
    LET row == table[Key[r]] IN
    IF row # NoRow
      THEN IF row.fingerprint # Fingerprint[r] THEN "conflict"
           ELSE IF row.state = "Completed" THEN row.outcome ELSE "running"
      ELSE IF \/ Count(table, Keys) > Capacity
              \/ Count(table, OwnedBy(Key[r])) > PerOwner
        THEN "full" ELSE "started"

(* What begin_operation answers on the purged table. *)
BeginResult(table, r) ==
    LET row == table[Key[r]] IN
    IF row # NoRow
      THEN IF row.fingerprint # Fingerprint[r] THEN "conflict"
           ELSE IF row.state = "Completed" THEN row.outcome ELSE "running"
      ELSE IF \/ Count(table, Keys) >= Capacity
              \/ Count(table, OwnedBy(Key[r])) >= PerOwner
        THEN "full" ELSE "started"

operation_status(table, k) ==
    CASE table[k] = NoRow -> "notfound"
      [] table[k].state = "Completed" -> table[k].outcome
      [] OTHER -> "running"

Holds(r, states) == rows[Key[r]].state \in states /\ rows[Key[r]].lease = r

mark_operation_commit_started(r) ==
    IF Holds(r, {"Reserved"})
      THEN [rows EXCEPT ![Key[r]].state = "CommitStarted"] ELSE rows

(* A completion that does not ask for the lease it was given. *)
complete_operation_AnyLease(r, outcome) ==
    IF rows[Key[r]].state \in {"Reserved", "CommitStarted"}
      THEN [rows EXCEPT ![Key[r]] = Row("Completed", r, outcome)] ELSE rows

complete_operation(r, outcome) ==
    IF Holds(r, {"Reserved", "CommitStarted"})
      THEN [rows EXCEPT ![Key[r]] = Row("Completed", r, outcome)] ELSE rows

(* An abandon that frees the key even when the commit may have run. *)
abandon_operation_Frees(r) ==
    IF Holds(r, {"Reserved", "CommitStarted"})
      THEN [rows EXCEPT ![Key[r]] = NoRow] ELSE rows

abandon_operation(r) ==
    IF Holds(r, {"Reserved"}) THEN [rows EXCEPT ![Key[r]] = NoRow]
    ELSE IF Holds(r, {"CommitStarted"})
      THEN [rows EXCEPT ![Key[r]] = Row("Completed", r, "unknown")]
    ELSE rows

(* A recovery that reports an interrupted commit as one that failed. *)
recover_database_Fails ==
    LET kept == purge_expired(rows) IN
    [k \in Keys |->
        CASE kept[k].state = "Reserved" -> NoRow
          [] kept[k].state = "CommitStarted" ->
                 [kept[k] EXCEPT !.state = "Completed", !.outcome = "failed"]
          [] OTHER -> kept[k]]

recover_database ==
    LET kept == purge_expired(rows) IN
    [k \in Keys |->
        CASE kept[k].state = "Reserved" -> NoRow
          [] kept[k].state = "CommitStarted" ->
                 [kept[k] EXCEPT !.state = "Completed", !.outcome = "unknown"]
          [] OTHER -> kept[k]]

(* Expiry ends a key's lifetime: purge_expired removed its record. *)
Purged ==
    /\ applied' = [k \in Keys |-> IF k \in expired THEN {} ELSE applied[k]]
    /\ expired' = {}

(* A transaction fails: nothing changes but the error it returns. *)
Fault == faults < MaxFaults /\ faults' = faults + 1 /\ UNCHANGED store
NoFault == UNCHANGED faults

-----------------------------------------------------------------------------
(* Channels. *)

Command(kind, r, outcome) == [kind |-> kind, client |-> r, outcome |-> outcome]
Wake == [kind |-> "wake"]
Poll == [kind |-> "poll"]
HasRoom == Len(commands) < QueueCapacity
Send(command) == HasRoom /\ commands' = Append(commands, command) /\ UNCHANGED controls

(* A control message nobody wakes the actor for. *)
send_control_NoWake(r) == controls' = Append(controls, r) /\ UNCHANGED commands

(* A Wake that does not respect the bound of the command queue. *)
send_control_Forced(r) ==
    controls' = Append(controls, r) /\ commands' = Append(commands, Wake)

(* The control message, then a Wake when the command queue has room. *)
send_control(r) ==
    /\ controls' = Append(controls, r)
    /\ commands' = IF HasRoom THEN Append(commands, Wake) ELSE commands

Goto(c, place) == pc' = [pc EXCEPT ![c] = place]
(* The handler returned its response, unless its client is gone. *)
Answer(c, state) ==
    answer' = IF answer[c] = "none" THEN [answer EXCEPT ![c] = state] ELSE answer

-----------------------------------------------------------------------------
(* The handlers. *)

(* OperationRegistry::begin sends Begin; a full queue is Unavailable. *)
Begin(r) ==
    /\ pc[r] = "idle"
    /\ \/ Send(Command("begin", r, "none")) /\ Goto(r, "begin") /\ UNCHANGED answer
       \/ ~HasRoom /\ Goto(r, "done") /\ Answer(r, "rejected") /\ UNCHANGED queues
    /\ UNCHANGED <<store, actor, progress, reply, did, asked, bounds>>

(* The answer of a begin that reserved nothing. *)
Refusal(result) ==
    IF result \in {"conflict", "full", "error"} THEN "rejected" ELSE result

(* The reply of Begin is received and its cleanup disarmed. *)
Begun(r) ==
    /\ pc[r] = "begin" /\ reply[r] # "none"
    /\ reply' = [reply EXCEPT ![r] = "none"]
    /\ IF reply[r] = "started"
         THEN /\ Goto(r, "reserved")
              /\ progress' = [progress EXCEPT ![r] = "RESERVED"]
              /\ UNCHANGED answer
         ELSE /\ Goto(r, "done")
              /\ Answer(r, Refusal(reply[r]))
              /\ UNCHANGED progress
    /\ UNCHANGED <<store, queues, actor, did, asked, bounds>>

(* The guard of an unfinished operation is dropped. *)
DropGuard(r) == send_control(r)

(* Admission failed with no verdict: the handler drops its reservation. *)
GiveUp(r) ==
    /\ pc[r] = "reserved"
    /\ DropGuard(r) /\ Goto(r, "done") /\ Answer(r, "rejected")
    /\ UNCHANGED <<store, actor, progress, reply, did, asked, bounds>>

(* A verdict is recorded without a commit: in the handler before one is    *)
(* dispatched, or by a delete task that could not prepare its purge job.   *)
Refuse(r) ==
    /\ pc[r] \in {"reserved", "prepare"}
    /\ \/ /\ Send(Command("complete", r, "failed"))
          /\ Goto(r, IF pc[r] = "reserved" THEN "finishing" ELSE "completing")
          /\ UNCHANGED answer
       \/ /\ ~HasRoom /\ DropGuard(r) /\ Goto(r, "done")
          /\ Answer(r, IF progress[r] = "DETACHED_COMMIT" THEN "unknown" ELSE "rejected")
    /\ UNCHANGED <<store, actor, progress, reply, did, asked, bounds>>

(* A dispatch that forgets to mark the request as detached. *)
run_commit_inner_Unmarked(r) ==
    /\ pc[r] = "reserved"
    /\ Cardinality({p \in Requests : pc[p] \in Detached}) < MutationSlots
    /\ Goto(r, "prepare")
    /\ UNCHANGED <<store, queues, actor, progress, reply, answer, did,
                   asked, bounds>>

(* With a mutation slot the request is marked and its task spawned. *)
run_commit_inner(r) ==
    /\ pc[r] = "reserved"
    /\ Cardinality({p \in Requests : pc[p] \in Detached}) < MutationSlots
    /\ progress' = [progress EXCEPT ![r] = "DETACHED_COMMIT"]
    /\ Goto(r, "prepare")
    /\ UNCHANGED <<store, queues, actor, reply, answer, did, asked, bounds>>

MarkCommitStarted(r) ==
    /\ pc[r] = "prepare"
    /\ \/ Send(Command("mark", r, "none")) /\ Goto(r, "marking") /\ UNCHANGED answer
       \/ ~HasRoom /\ DropGuard(r) /\ Goto(r, "done") /\ Answer(r, "unknown")
    /\ UNCHANGED <<store, actor, progress, reply, did, asked, bounds>>

(* Only a reservation that is still ours lets the mutation start. *)
Marked(r) ==
    /\ pc[r] = "marking" /\ reply[r] # "none"
    /\ reply' = [reply EXCEPT ![r] = "none"]
    /\ IF reply[r] = "changed"
         THEN Goto(r, "commit") /\ UNCHANGED <<queues, answer>>
         ELSE DropGuard(r) /\ Goto(r, "done") /\ Answer(r, "unknown")
    /\ UNCHANGED <<store, actor, progress, did, asked, bounds>>

(* The filesystem mutation: it happened, is known not to have happened, or *)
(* returned an error that says neither.  The first two are then recorded.  *)
Commit(r) ==
    /\ pc[r] = "commit"
    /\ \E happened \in BOOLEAN, known \in BOOLEAN :
        /\ did' = IF happened THEN did \cup {r} ELSE did
        /\ applied' = IF happened
                        THEN [applied EXCEPT ![Key[r]] = @ \cup {r}] ELSE applied
        /\ \/ /\ known
              /\ Send(Command("complete", r, IF happened THEN "succeeded" ELSE "failed"))
              /\ Goto(r, "completing") /\ UNCHANGED answer
           \/ /\ ~known \/ ~HasRoom
              /\ DropGuard(r) /\ Goto(r, "done") /\ Answer(r, "unknown")
    /\ UNCHANGED <<rows, expired, actor, progress, reply, asked, bounds>>

(* complete() returned: its guard is done, or is dropped and abandons. *)
Completed(r) ==
    /\ pc[r] \in {"finishing", "completing"} /\ reply[r] # "none"
    /\ reply' = [reply EXCEPT ![r] = "none"]
    /\ Goto(r, "done")
    /\ IF reply[r] \in Terminal
         THEN Answer(r, reply[r]) /\ UNCHANGED queues
         ELSE /\ DropGuard(r)
              /\ Answer(r, IF pc[r] = "completing" THEN "unknown" ELSE "rejected")
    /\ UNCHANGED <<store, actor, progress, did, asked, bounds>>

(* The HTTP deadline, or a client that disconnects.  A detached task goes  *)
(* on; an undetached handler is dropped with the guard it holds, or with   *)
(* the envelope of a reservation it never received.                        *)
Timeout(r) ==
    /\ answer[r] = "none"
    /\ answer' = [answer EXCEPT ![r] =
                    IF progress[r] = "DETACHED_COMMIT" THEN "unknown" ELSE "rejected"]
    /\ \/ pc[r] \in Detached /\ UNCHANGED <<queues, pc, reply>>
       \/ /\ pc[r] \in Droppable
          /\ Goto(r, "done")
          /\ reply' = [reply EXCEPT ![r] = "none"]
          /\ IF pc[r] \in Guarded \/ reply[r] = "started"
               THEN send_control(r) ELSE UNCHANGED queues
    /\ UNCHANGED <<store, actor, progress, did, asked, bounds>>

(* GET status: sent, answered, or given up. *)
Ask(q) ==
    /\ pc[q] = "idle"
    /\ asked' = [asked EXCEPT ![q] = {r \in Requests : Key[r] = Key[q] /\ answer[r] = "unknown"}]
    /\ \/ Send(Command("status", q, "none")) /\ Goto(q, "status") /\ UNCHANGED answer
       \/ ~HasRoom /\ Goto(q, "done") /\ Answer(q, "unavailable") /\ UNCHANGED queues
    /\ UNCHANGED <<store, actor, progress, reply, did, bounds>>

Told(q) ==
    /\ pc[q] = "status"
    /\ \/ reply[q] # "none"
          /\ Answer(q, IF reply[q] = "error" THEN "unavailable" ELSE reply[q])
       \/ Answer(q, "unavailable")
    /\ Goto(q, "done")
    /\ reply' = [reply EXCEPT ![q] = "none"]
    /\ UNCHANGED <<store, queues, actor, progress, did, asked, bounds>>

-----------------------------------------------------------------------------
(* The actor thread. *)

handlers == <<pc, progress, answer, did, asked>>

(* abandon_operation, deferred to a later command boundary when it fails. *)
AbandonOrDefer(r, rest) ==
    \/ /\ rows' = abandon_operation(r) /\ deferred' = rest
       /\ NoFault /\ UNCHANGED <<applied, expired>>
    \/ /\ Fault
       /\ deferred' = IF \E i \in 1..Len(rest) : rest[i] = r
                        THEN rest ELSE Append(rest, r)

retry_one_deferred_abandon ==
    /\ worker = "top"
    /\ worker' = "drain"
    /\ IF deferred = <<>>
         THEN UNCHANGED <<store, deferred, faults>>
         ELSE AbandonOrDefer(Head(deferred), Tail(deferred))
    /\ UNCHANGED <<queues, envelope, reply, handlers, crashes>>

process_controls ==
    /\ worker = "drain"
    /\ IF controls = <<>>
         THEN worker' = "recv" /\ UNCHANGED <<store, controls, deferred, faults>>
         ELSE /\ controls' = Tail(controls)
              /\ AbandonOrDefer(Head(controls), deferred)
              /\ UNCHANGED worker
    /\ UNCHANGED <<commands, envelope, reply, handlers, crashes>>

Received(kind) ==
    /\ worker = "recv" /\ commands # <<>>
    /\ Head(commands).kind = kind
    /\ commands' = Tail(commands)

Reply(c, result) == reply' = [reply EXCEPT ![c] = result]

(* A wake-up, or the claim the purge worker polls with. *)
RecvOther ==
    /\ Received("wake") \/ Received("poll")
    /\ worker' = "top"
    /\ UNCHANGED <<store, controls, deferred, envelope, reply, handlers, bounds>>

(* Begin runs its transaction; the reply is sent in a step of its own, so  *)
(* that the receiver can be dropped in between.                            *)
RecvBegin ==
    LET r == Head(commands).client IN
    /\ Received("begin")
    /\ IF pc[r] # "begin"
         THEN worker' = "top" /\ UNCHANGED <<store, envelope, faults>>
         ELSE /\ worker' = "send"
              /\ \/ /\ LET table == purge_expired(rows) result == BeginResult(table, r) IN
                       /\ rows' = IF result = "started"
                                    THEN [table EXCEPT ![Key[r]] = Row("Reserved", r, "none")]
                                    ELSE table
                       /\ envelope' = [client |-> r, result |-> result]
                    /\ Purged /\ NoFault
                 \/ Fault /\ envelope' = [client |-> r, result |-> "error"]
    /\ UNCHANGED <<controls, deferred, reply, handlers, crashes>>

(* A reservation the actor could not deliver is simply forgotten. *)
SendBegun_Leaks ==
    /\ worker = "send"
    /\ worker' = "top" /\ envelope' = NoEnvelope
    /\ IF pc[envelope.client] = "begin" THEN Reply(envelope.client, envelope.result)
                                      ELSE UNCHANGED reply
    /\ UNCHANGED <<store, queues, deferred, handlers, bounds>>

SendBegun ==
    /\ worker = "send"
    /\ worker' = "top" /\ envelope' = NoEnvelope
    /\ IF pc[envelope.client] = "begin"
         THEN Reply(envelope.client, envelope.result) /\ UNCHANGED <<store, deferred, faults>>
         ELSE /\ UNCHANGED reply
              /\ IF envelope.result = "started"
                   THEN AbandonOrDefer(envelope.client, deferred)
                   ELSE UNCHANGED <<store, deferred, faults>>
    /\ UNCHANGED <<queues, handlers, crashes>>

RecvStatus ==
    LET q == Head(commands).client IN
    /\ Received("status")
    /\ worker' = "top"
    /\ IF pc[q] # "status"
         THEN UNCHANGED <<store, reply, faults>>
         ELSE \/ /\ rows' = purge_expired(rows)
                 /\ Reply(q, operation_status(purge_expired(rows), Key[q]))
                 /\ Purged /\ NoFault
              \/ Fault /\ Reply(q, "error")
    /\ UNCHANGED <<controls, deferred, envelope, handlers, crashes>>

(* The reply of an update: what it set, "lost" for no row, or an error.    *)
(* A receiver that is gone ignores it.                                     *)
Update(r, table, result, waiting) ==
    LET Tell(what) == IF pc[r] \in waiting THEN Reply(r, what) ELSE UNCHANGED reply IN
    \/ /\ rows' = table
       /\ Tell(IF table # rows THEN result ELSE "lost")
       /\ NoFault /\ UNCHANGED applied
       /\ UNCHANGED expired
    \/ Fault /\ Tell("error")

RecvMark ==
    LET r == Head(commands).client IN
    /\ Received("mark")
    /\ worker' = "top"
    /\ Update(r, mark_operation_commit_started(r), "changed", {"marking"})
    /\ UNCHANGED <<controls, deferred, envelope, handlers, crashes>>

RecvComplete ==
    LET r == Head(commands).client outcome == Head(commands).outcome IN
    /\ Received("complete")
    /\ worker' = "top"
    /\ Update(r, complete_operation(r, outcome), outcome, {"finishing", "completing"})
    /\ UNCHANGED <<controls, deferred, envelope, handlers, crashes>>

(* The purge worker's claim, at most one of them outstanding. *)
SendPoll ==
    /\ Polling
    /\ \A i \in 1..Len(commands) : commands[i].kind # "poll"
    /\ Send(Poll)
    /\ UNCHANGED <<store, actor, reply, handlers, bounds>>

-----------------------------------------------------------------------------
(* Time and crashes. *)

(* A lifetime that also runs for an operation that has not finished. *)
Expire_Running(k) ==
    /\ rows[k] # NoRow /\ k \notin expired
    /\ expired' = expired \cup {k}
    /\ UNCHANGED <<rows, applied, queues, actor, reply, handlers, bounds>>

(* The TTL of a completed row runs out; the next purge_expired removes it. *)
Expire(k) ==
    /\ rows[k].state = "Completed" /\ k \notin expired
    /\ expired' = expired \cup {k}
    /\ UNCHANGED <<rows, applied, queues, actor, reply, handlers, bounds>>

(* The process dies with everything but the table, and starts again. *)
Crash ==
    /\ crashes < MaxCrashes
    /\ crashes' = crashes + 1
    /\ rows' = recover_database
    /\ Purged
    /\ commands' = <<>> /\ controls' = <<>> /\ deferred' = <<>>
    /\ worker' = "top" /\ envelope' = NoEnvelope
    /\ pc' = [c \in Clients |-> IF pc[c] = "idle" THEN "idle" ELSE "done"]
    /\ reply' = [c \in Clients |-> "none"]
    /\ UNCHANGED <<progress, answer, did, asked, faults>>

Handler(r) ==
    \/ Begin(r) \/ Begun(r) \/ GiveUp(r) \/ Refuse(r) \/ run_commit_inner(r)
    \/ MarkCommitStarted(r) \/ Marked(r) \/ Commit(r) \/ Completed(r)
Actor ==
    \/ retry_one_deferred_abandon \/ process_controls \/ RecvOther \/ RecvBegin
    \/ SendBegun \/ RecvStatus \/ RecvMark \/ RecvComplete

(* Every request has been answered for good and the actor waits for work. *)
Finished ==
    /\ \A c \in Clients : pc[c] = "done"
    /\ worker = "recv" /\ commands = <<>>
    /\ UNCHANGED vars

Next ==
    \/ \E r \in Requests : Handler(r) \/ Timeout(r)
    \/ \E q \in Queries : Ask(q) \/ Told(q)
    \/ Actor
    \/ SendPoll
    \/ \E k \in Keys : Expire(k)
    \/ Crash
    \/ Finished

Spec == Init /\ [][Next]_vars

(* The actor thread runs; a handler that has begun goes on or times out.   *)
(* The purge worker's polls are relied on only after a failed transaction. *)
FairSpec ==
    /\ Spec
    /\ WF_vars(Actor)
    /\ WF_vars(faults > 0 /\ SendPoll)
    /\ \A r \in Requests : WF_vars(Handler(r) /\ pc[r] # "idle")

-----------------------------------------------------------------------------
(* Properties. *)

(* The table, queues and handlers keep their types, and the command queue  *)
(* never exceeds the capacity of the actor's sync_channel.                 *)
TypeOK ==
    /\ \A k \in Keys :
        rows[k] = NoRow \/ rows[k] \in
            [state : {"Reserved", "CommitStarted", "Completed"}, lease : Requests,
             fingerprint : {Fingerprint[r] : r \in Requests},
             outcome : Terminal \cup {"none"}]
    /\ Len(commands) <= QueueCapacity
    /\ \A i \in 1..Len(controls) : controls[i] \in Requests
    /\ \A i \in 1..Len(deferred) : deferred[i] \in Requests
    /\ pc \in [Clients -> {"idle", "done"} \cup Droppable \cup Detached]
    /\ progress \in [Requests -> {"PREFLIGHT", "RESERVED", "DETACHED_COMMIT"}]
    /\ did \subseteq Requests
    /\ applied \in [Keys -> SUBSET did]
    /\ expired \subseteq Keys

(* Idempotency: while the record of an operation key lives, retries of the *)
(* key mutate the filesystem at most once, whatever times out, fails or    *)
(* crashes (begin_operation, abandon_operation, recover_database).         *)
AppliedOnce == \A k \in Keys : Cardinality(applied[k]) <= 1

(* "Retrying with the same operation ID is safe": a request whose client   *)
(* was told "rejected" (apply_operation_timeout, apply_operation_rejected) *)
(* has not mutated the filesystem and never will.                          *)
RejectedUntouched == \A r \in Requests : answer[r] = "rejected" => r \notin did

(* A recorded verdict is the truth about the filesystem, also when it is   *)
(* replayed to a retry or was written by recovery.                         *)
OutcomeHonest ==
    /\ \A k \in Keys :
        /\ rows[k].state = "Completed" /\ rows[k].outcome = "succeeded" => applied[k] # {}
        /\ rows[k].state = "Completed" /\ rows[k].outcome = "failed" => applied[k] = {}
    /\ \A c \in Clients :
        answer[c] = "succeeded" => \E r \in did : Key[r] = Key[c]

(* The reservation of a live guard is never taken away: "operation         *)
(* reservation was lost before commit" (and "before completion") in        *)
(* OperationGuard is unreachable, although an abandon overtakes the        *)
(* commands its request had queued.                                        *)
ReservationKept == \A r \in Requests : reply[r] # "lost"

(* A client told "unknown" that then asks for the status and gets "not     *)
(* found" may act on it: the request can no longer mutate the filesystem.  *)
NotFoundIsFinal ==
    [][\A q \in Queries : answer[q] = "notfound" =>
          (did' \ did) \cap asked[q] = {}]_vars

(* No key stays reserved for ever: every reservation is completed or       *)
(* removed, because each dropped guard reaches the actor (Wake) and each   *)
(* failed abandon is retried at a later command (deferred_abandons).       *)
Resolved ==
    \A k \in Keys : rows[k].state \in {"Reserved", "CommitStarted"}
                       ~> rows[k].state \in {"Absent", "Completed"}

(* The limits hold across expiry, recovery and concurrent requests: the    *)
(* table never exceeds its global and per-owner capacity.                  *)
WithinCapacity ==
    /\ Count(rows, Keys) <= Capacity
    /\ \A k \in Keys : Count(rows, OwnedBy(k)) <= PerOwner

=============================================================================
