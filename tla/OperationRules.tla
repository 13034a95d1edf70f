--------------------------- MODULE OperationRules ---------------------------
(***************************************************************************)
(* The inductive invariant of the operation registry, what a step of a     *)
(* handler and a step of the actor must keep for all of it to be kept, the *)
(* reservations a change of the operations table keeps, and that the steps *)
(* of the environment (expiry, crashes, stuttering) and of the actor (the  *)
(* commands it serves, the leases it abandons) keep the invariant.         *)
(***************************************************************************)
EXTENDS OperationStore, TLAPS

RowSet ==
    [state : {"Reserved", "CommitStarted", "Completed"}, lease : Requests,
     fingerprint : {Fingerprint[r] : r \in Requests}, outcome : Terminal \cup {"none"}]
Commands ==
    {Wake, Poll} \cup
    [kind : {"begin", "mark", "complete", "status"}, client : Clients,
     outcome : Terminal \cup {"none"}]
BeginReplies == {"started", "conflict", "full", "error", "running"} \cup Terminal
Replies == BeginReplies \cup {"none", "changed", "lost", "notfound"}
Places == {"idle", "done"} \cup Droppable \cup Detached
Answers == Replies \cup {"rejected", "unavailable"}
(* The commands an operation sends once in its life. *)
Once == {"begin", "mark", "complete"}

StoreTypes ==
    /\ rows \in [Keys -> RowSet \cup {NoRow}]
    /\ did \subseteq Requests
    /\ applied \in [Keys -> SUBSET did]
    /\ expired \subseteq Keys
QueueTypes ==
    /\ commands \in Seq(Commands)
    /\ Len(commands) <= QueueCapacity
    /\ controls \in Seq(Requests)
    /\ deferred \in Seq(Requests)
TaskTypes ==
    /\ pc \in [Clients -> Places]
    /\ progress \in [Requests -> {"PREFLIGHT", "RESERVED", "DETACHED_COMMIT"}]
    /\ reply \in [Clients -> Replies]
    /\ answer \in [Clients -> Answers]

(* Only the request whose lease the row carries can have mutated under its *)
(* key, only after the row says so, and the verdict agrees with it.        *)
RowOK(k) ==
    /\ k \in expired => rows[k].state = "Completed"
    /\ rows[k].state \in {"Absent", "Reserved"} => applied[k] = {}
    /\ rows[k].state # "Absent" => Key[rows[k].lease] = k /\ applied[k] \subseteq {rows[k].lease}
    /\ rows[k].state \in {"Reserved", "CommitStarted"} /\ rows[k].lease \in did
           => rows[k].lease \in applied[k]
    /\ rows[k].state = "Completed" => rows[k].outcome \in Terminal
    /\ rows[k].state = "Completed" /\ rows[k].outcome = "succeeded" => applied[k] # {}
    /\ rows[k].state = "Completed" /\ rows[k].outcome = "failed" => applied[k] = {}

(* A task that goes on holds the reservation its next step relies on; one  *)
(* that mutated the filesystem was detached and is about to record it.     *)
TaskOK(r) ==
    /\ pc[r] # "status"
    /\ pc[r] \in {"reserved", "prepare"} => Holds(r, {"Reserved"})
    /\ pc[r] = "begin" /\ reply[r] = "started" => Holds(r, {"Reserved"})
    /\ pc[r] = "marking" => Holds(r, {"Reserved"}) \/ Holds(r, {"CommitStarted"})
    /\ pc[r] = "commit" => Holds(r, {"CommitStarted"})
    /\ reply[r] = "changed" => pc[r] = "marking" /\ Holds(r, {"CommitStarted"})
    /\ pc[r] = "idle" => reply[r] = "none"
    /\ reply[r] # "lost"
    /\ pc[r] \in Detached => progress[r] = "DETACHED_COMMIT"
    /\ r \in did => pc[r] \in {"completing", "done"}
    /\ answer[r] = "rejected" => pc[r] = "done" /\ r \notin did
    /\ answer[r] = "unknown" => pc[r] \in Detached \cup {"done"}

(* The key of the client was mutated by some request. *)
Mutated(c) == \E r \in did : Key[r] = Key[c]
ClientOK(c) ==
    /\ reply[c] = "succeeded" => Mutated(c)
    /\ answer[c] = "succeeded" => Mutated(c)

(* What a command that waits in the queue says of the task that sent it. *)
CommandOK(x) ==
    /\ x.kind = "begin" =>
        /\ x.client \in Requests /\ pc[x.client] # "idle"
        /\ pc[x.client] = "begin" => reply[x.client] = "none"
    /\ x.kind = "mark" =>
        /\ x.client \in Requests
        /\ pc[x.client] \in {"marking", "commit", "completing", "done"}
        /\ pc[x.client] = "marking" => Holds(x.client, {"Reserved"})
    /\ x.kind = "complete" =>
        /\ x.client \in Requests
        /\ pc[x.client] \in {"finishing", "completing", "done"}
        /\ pc[x.client] # "done" => Holds(x.client, {"Reserved", "CommitStarted"})
        /\ x.outcome \in {"succeeded", "failed"}
        /\ x.outcome = "succeeded" <=> x.client \in did
    /\ x.kind = "status" => x.client \in Queries

QueueOK == \A i \in 1..Len(commands) : CommandOK(commands[i])
Unique ==
    \A i, j \in 1..Len(commands) :
        /\ commands[i].kind \in Once
        /\ commands[j].kind = commands[i].kind /\ commands[j].client = commands[i].client
        => i = j
(* Only a task that is over has its lease abandoned. *)
ControlsOK ==
    /\ \A i \in 1..Len(controls) : pc[controls[i]] = "done"
    /\ \A i \in 1..Len(deferred) : pc[deferred[i]] = "done"

NoBegin(r) ==
    \A i \in 1..Len(commands) : commands[i].kind = "begin" => commands[i].client # r
(* The begin reply in the actor's hands is the only one its request gets. *)
EnvelopeOK ==
    worker = "send" =>
        /\ envelope.client \in Requests /\ envelope.result \in BeginReplies
        /\ pc[envelope.client] \in {"begin", "done"}
        /\ pc[envelope.client] = "begin" => reply[envelope.client] = "none"
        /\ pc[envelope.client] = "begin" /\ envelope.result = "started"
               => Holds(envelope.client, {"Reserved"})
        /\ envelope.result = "succeeded" => Mutated(envelope.client)
        /\ NoBegin(envelope.client)

RowsOK == \A k \in Keys : RowOK(k)
TasksOK == \A r \in Requests : TaskOK(r)
ClientsOK == \A c \in Clients : ClientOK(c)

IndInv ==
    /\ StoreTypes /\ QueueTypes /\ TaskTypes
    /\ RowsOK /\ TasksOK /\ ClientsOK
    /\ QueueOK /\ Unique /\ ControlsOK /\ EnvelopeOK

-----------------------------------------------------------------------------
(* A sequence with one element more, and with its first one removed. *)
LEMMA AppendFacts ==
    ASSUME NEW S, NEW s \in Seq(S), NEW e \in S
    PROVE  /\ Append(s, e) \in Seq(S)
           /\ Len(Append(s, e)) = Len(s) + 1
           /\ \A i \in 1..Len(s) : Append(s, e)[i] = s[i]
           /\ Append(s, e)[Len(s) + 1] = e
OBVIOUS

(* What is left of a queue without its first entry. *)
LEMMA TailFacts ==
    ASSUME NEW S, NEW s \in Seq(S), s # <<>>
    PROVE  /\ Tail(s) \in Seq(S) /\ Head(s) \in S
           /\ Len(s) \in Nat /\ Len(s) > 0
           /\ Len(Tail(s)) = Len(s) - 1
           /\ \A i \in 1..Len(Tail(s)) : Tail(s)[i] = s[i + 1] /\ i + 1 \in 1..Len(s)
           /\ Head(s) = s[1]
OBVIOUS

(* The commands of the queue after a step that changed no other command. *)
LEMMA QueueGrows ==
    ASSUME QueueTypes, QueueOK, Unique, NEW c \in Commands, commands' = Append(commands, c),
           \A x \in Commands : CommandOK(x) => CommandOK(x)', CommandOK(c)',
           c.kind \in Once => \A i \in 1..Len(commands) :
                                commands[i].kind = c.kind => commands[i].client # c.client
    PROVE  QueueOK' /\ Unique'
<1>2. /\ commands' \in Seq(Commands) /\ Len(commands) \in Nat
      /\ Len(commands') = Len(commands) + 1
      /\ \A i \in 1..Len(commands) : commands'[i] = commands[i] /\ commands[i] \in Commands
      /\ commands'[Len(commands) + 1] = c
  BY AppendFacts DEF QueueTypes
<1>3. \A i \in 1..Len(commands') : i \in 1..Len(commands) \/ i = Len(commands) + 1
  BY <1>2
<1>4. QueueOK'
  BY <1>2, <1>3 DEF QueueOK
<1>5. Unique'
  BY <1>2, <1>3 DEF Unique
<1> QED BY <1>4, <1>5

(* Taking the first command away keeps the queue in order. *)
LEMMA QueueTail ==
    ASSUME QueueTypes, QueueOK, Unique, commands # <<>>, commands' = Tail(commands),
           \A x \in {commands[i] : i \in 2..Len(commands)} : CommandOK(x) => CommandOK(x)'
    PROVE  QueueOK' /\ Unique'
<1>1. /\ Len(commands) \in Nat /\ Len(commands') = Len(commands) - 1
      /\ \A i \in 1..Len(commands') : commands'[i] = commands[i + 1] /\ i + 1 \in 2..Len(commands)
  BY TailFacts DEF QueueTypes
<1>2. QueueOK'
  BY <1>1 DEF QueueOK
<1>3. Unique'
  BY <1>1 DEF Unique
<1> QED BY <1>2, <1>3

-----------------------------------------------------------------------------
(* A step of the handler of r, or of its detached task, that takes it to p *)
(* and leaves the table's rows, the actor and the other requests alone.    *)
HandlerFrame(r, p) ==
    /\ pc' = [pc EXCEPT ![r] = p]
    /\ \A c \in Clients : c # r => reply'[c] = reply[c] /\ answer'[c] = answer[c]
    /\ \A c \in Requests : c # r => progress'[c] = progress[c]
    /\ UNCHANGED <<rows, expired, deferred, worker, envelope>>
    /\ did \subseteq did' /\ did' \subseteq did \cup {r}
    /\ \A k \in Keys : k # Key[r] => applied'[k] = applied[k]
(* A handler goes from a to p, never back. *)
Forward(a, p) ==
    /\ p # "idle" /\ a # "done"
    /\ p = "begin" => a = "idle"
    /\ a \in {"marking", "commit", "completing"} => p \in {a, "commit", "completing", "done"}
    /\ a \in {"finishing", "completing"} => p \in {a, "done"}

(* No command in the queue is contradicted by the handler's progress. *)
LEMMA HandlerCommands ==
    ASSUME StoreTypes, TaskTypes, NEW r \in Requests, NEW p, HandlerFrame(r, p),
           Forward(pc[r], p), did' = did \/ pc[r] = "commit"
    PROVE  \A x \in Commands : CommandOK(x) => CommandOK(x)'
<1> SUFFICES ASSUME NEW x \in Commands, CommandOK(x) PROVE CommandOK(x)'
  OBVIOUS
<1>1. /\ pc'[r] = p /\ \A c \in Clients : c # r => pc'[c] = pc[c]
      /\ \A c \in Clients : c # r => reply'[c] = reply[c]
      /\ rows' = rows /\ \A c \in Requests : c # r => (c \in did' <=> c \in did)
  BY DEF HandlerFrame, TaskTypes, Clients
<1>2. \A c \in Requests : \A S : Holds(c, S) = Holds(c, S)'
  BY <1>1 DEF Holds
<1>3. CASE x.client # r
  BY <1>1, <1>2, <1>3 DEF CommandOK, Clients
<1>4. CASE x.client = r
  BY <1>1, <1>2, <1>4 DEF CommandOK, Forward
<1> QED BY <1>3, <1>4

(* What it keeps of its own request, a handler keeps for all. *)
LEMMA HandlerOthers ==
    ASSUME StoreTypes, TaskTypes, RowsOK, TasksOK, ClientsOK,
           NEW r \in Requests, NEW p, HandlerFrame(r, p),
           RowOK(Key[r])', TaskOK(r)', ClientOK(r)'
    PROVE  RowsOK' /\ TasksOK' /\ ClientsOK'
<1>1. /\ \A c \in Clients : c # r => pc'[c] = pc[c] /\ reply'[c] = reply[c] /\ answer'[c] = answer[c]
      /\ \A c \in Requests : c # r => progress'[c] = progress[c] /\ (c \in did' <=> c \in did)
      /\ rows' = rows /\ expired' = expired /\ did \subseteq did' /\ did' \subseteq did \cup {r}
      /\ \A k \in Keys : k # Key[r] => applied'[k] = applied[k]
  BY DEF HandlerFrame, TaskTypes, Clients
<1>2. ASSUME NEW k \in Keys PROVE RowOK(k)'
  <2>1. RowOK(k) BY DEF RowsOK
  <2>2. CASE k # Key[r] BY <1>1, <2>1, <2>2 DEF RowOK
  <2> QED BY <2>2
<1>3. ASSUME NEW c \in Requests PROVE TaskOK(c)'
  <2>1. TaskOK(c) BY DEF TasksOK
  <2>2. CASE c # r BY <1>1, <2>1, <2>2 DEF TaskOK, Holds, Clients
  <2> QED BY <2>2
<1>4. ASSUME NEW c \in Clients PROVE ClientOK(c)'
  <2>1. ClientOK(c) BY DEF ClientsOK
  <2>2. CASE c # r BY <1>1, <2>1, <2>2 DEF ClientOK, Mutated
  <2> QED BY <2>2
<1> QED BY <1>2, <1>3, <1>4 DEF RowsOK, TasksOK, ClientsOK

(* What the handler of r may send: nothing, the lease it gives up, or a    *)
(* command it has not sent before.                                         *)
Sends(r, p) ==
    \/ UNCHANGED queues
    \/ send_control(r) /\ p = "done"
    \/ \E c \in Commands :
        /\ Send(c) /\ CommandOK(c)'
        /\ c.kind \in Once =>
            \A i \in 1..Len(commands) : commands[i].kind = c.kind => commands[i].client # c.client
        /\ c.kind = "begin" => c.client = r /\ pc[r] = "idle"

(* The wake-up of the actor is a command. *)
LEMMA WakeIsCommand ==
    Wake \in Commands /\ Wake.kind = "wake" /\ Wake.kind \notin Once /\ CommandOK(Wake)'
BY DEF Wake, Commands, Once, CommandOK

(* The queues stay in order under what a handler may send. *)
LEMMA HandlerQueues ==
    ASSUME QueueTypes, QueueOK, Unique, ControlsOK, TaskTypes,
           NEW r \in Requests, NEW p, HandlerFrame(r, p), pc[r] # "done", Sends(r, p),
           \A x \in Commands : CommandOK(x) => CommandOK(x)'
    PROVE  QueueTypes' /\ QueueOK' /\ Unique' /\ ControlsOK'
<1>1. /\ pc'[r] = p /\ \A c \in Clients : c # r => pc'[c] = pc[c]
      /\ deferred' = deferred
  BY DEF HandlerFrame, TaskTypes, Clients
<1>2. \A c \in Requests : pc[c] = "done" => pc'[c] = "done"
  BY <1>1 DEF Clients
<1>3. /\ commands \in Seq(Commands) /\ Len(commands) <= QueueCapacity /\ Len(commands) \in Nat
      /\ controls \in Seq(Requests) /\ deferred \in Seq(Requests)
      /\ \A i \in 1..Len(controls) : controls[i] \in Requests
      /\ \A i \in 1..Len(deferred) : deferred[i] \in Requests
      /\ \A i \in 1..Len(commands) : commands[i] \in Commands
  BY DEF QueueTypes
<1>9. /\ \A i \in 1..Len(controls) : pc'[controls[i]] = "done"
      /\ \A i \in 1..Len(deferred) : pc'[deferred[i]] = "done"
  BY <1>2, <1>3 DEF ControlsOK
<1>4. CASE UNCHANGED queues
  <2>1. commands' = commands /\ controls' = controls BY <1>4 DEF queues
  <2>2. QueueTypes' BY <1>1, <2>1 DEF QueueTypes
  <2>3. QueueOK' BY <1>3, <2>1 DEF QueueOK
  <2>4. Unique' BY <2>1 DEF Unique
  <2>5. ControlsOK' BY <1>1, <1>9, <2>1 DEF ControlsOK
  <2> QED BY <2>2, <2>3, <2>4, <2>5
<1>5. ASSUME NEW c \in Commands, Send(c), CommandOK(c)',
             c.kind \in Once =>
                \A i \in 1..Len(commands) : commands[i].kind = c.kind => commands[i].client # c.client
      PROVE  QueueTypes' /\ QueueOK' /\ Unique' /\ ControlsOK'
  <2>1. /\ Len(commands) < QueueCapacity /\ commands' = Append(commands, c) /\ controls' = controls
    BY <1>5 DEF Send, HasRoom
  <2>2. commands' \in Seq(Commands) /\ Len(commands') = Len(commands) + 1
    BY <1>3, <2>1, AppendFacts
  <2>3. QueueTypes' BY <1>1, <1>3, <2>1, <2>2, QueueAssumption DEF QueueTypes
  <2>4. QueueOK' /\ Unique' BY <1>5, <2>1, QueueGrows
  <2>5. ControlsOK' BY <1>1, <1>9, <2>1 DEF ControlsOK
  <2> QED BY <2>3, <2>4, <2>5
<1>6. CASE send_control(r) /\ p = "done"
  <2>1. /\ controls' = Append(controls, r)
        /\ commands' = commands \/ (HasRoom /\ commands' = Append(commands, Wake))
    BY <1>6 DEF send_control
  <2>2. /\ controls' \in Seq(Requests) /\ Len(controls) \in Nat /\ Len(controls') = Len(controls) + 1
        /\ \A i \in 1..Len(controls) : controls'[i] = controls[i]
        /\ controls'[Len(controls) + 1] = r
    BY <1>3, <2>1, AppendFacts
  <2>3. \A i \in 1..Len(controls') : i \in 1..Len(controls) \/ i = Len(controls) + 1
    BY <2>2
  <2>4. ControlsOK' BY <1>1, <1>6, <1>9, <2>2, <2>3 DEF ControlsOK
  <2>5. CASE commands' = commands
    <3>1. QueueTypes' BY <1>1, <1>3, <2>2, <2>5 DEF QueueTypes
    <3>2. QueueOK' BY <1>3, <2>5 DEF QueueOK
    <3>3. Unique' BY <2>5 DEF Unique
    <3> QED BY <2>4, <3>1, <3>2, <3>3
  <2>6. CASE HasRoom /\ commands' = Append(commands, Wake)
    <3>1. Wake \in Commands BY WakeIsCommand
    <3>2. commands' \in Seq(Commands) /\ Len(commands') = Len(commands) + 1
      BY <1>3, <2>6, <3>1, AppendFacts
    <3>3. QueueTypes' BY <1>1, <1>3, <2>2, <2>6, <3>2, QueueAssumption DEF QueueTypes, HasRoom
    <3>4. QueueOK' /\ Unique'
      BY <1>3, <2>6, WakeIsCommand, QueueGrows
    <3> QED BY <2>4, <3>3, <3>4
  <2> QED BY <2>1, <2>5, <2>6
<1> QED BY <1>4, <1>5, <1>6 DEF Sends

(* The reply in the actor's hands is for a handler that waits or is gone. *)
LEMMA HandlerEnvelope ==
    ASSUME QueueTypes, EnvelopeOK, TaskTypes,
           NEW r \in Requests, NEW p, HandlerFrame(r, p), pc[r] # "done", Sends(r, p),
           pc[r] = "begin" /\ reply[r] = "none" => p = "done"
    PROVE  EnvelopeOK'
<1> SUFFICES ASSUME worker' = "send"
             PROVE  EnvelopeOK'
  BY DEF EnvelopeOK
<1> DEFINE e == envelope.client
<1>1. /\ pc'[r] = p /\ \A c \in Clients : c # r => pc'[c] = pc[c] /\ reply'[c] = reply[c]
      /\ rows' = rows /\ envelope' = envelope /\ worker = "send" /\ did \subseteq did'
  BY DEF HandlerFrame, TaskTypes, Clients
<1>2. /\ e \in Requests /\ envelope.result \in BeginReplies
      /\ pc[e] \in {"begin", "done"}
      /\ pc[e] = "begin" => reply[e] = "none"
      /\ pc[e] = "begin" /\ envelope.result = "started" => Holds(e, {"Reserved"})
      /\ envelope.result = "succeeded" => Mutated(e)
      /\ NoBegin(e)
  BY <1>1 DEF EnvelopeOK
<1>3. e = r => p = "done"
  BY <1>2
<1>4. Mutated(e) => Mutated(e)'
  BY <1>1 DEF Mutated
<1>5. Holds(e, {"Reserved"}) => Holds(e, {"Reserved"})'
  BY <1>1 DEF Holds
<1>6. NoBegin(e)'
  <2>1. /\ commands \in Seq(Commands) /\ Len(commands) \in Nat
    BY DEF QueueTypes
  <2>2. CASE commands' = commands
    BY <1>1, <1>2, <2>2 DEF NoBegin
  <2>3. ASSUME NEW c \in Commands, commands' = Append(commands, c),
               c.kind = "begin" => c.client = r /\ pc[r] = "idle"
        PROVE  NoBegin(e)'
    <3>1. /\ Len(commands') = Len(commands) + 1
          /\ \A i \in 1..Len(commands) : commands'[i] = commands[i]
          /\ commands'[Len(commands) + 1] = c
      BY <2>1, <2>3, AppendFacts
    <3>2. \A i \in 1..Len(commands') : i \in 1..Len(commands) \/ i = Len(commands) + 1
      BY <2>1, <3>1
    <3>3. c.kind = "begin" => c.client # e
      BY <1>2, <2>3
    <3> QED BY <1>1, <1>2, <3>1, <3>2, <3>3 DEF NoBegin
  <2> QED BY <2>2, <2>3, WakeIsCommand DEF Sends, send_control, Send, queues
<1>7. e \in Clients BY <1>2 DEF Clients
<1>8. CASE e = r BY <1>1, <1>2, <1>3, <1>4, <1>6, <1>8 DEF EnvelopeOK
<1>9. CASE e # r BY <1>1, <1>2, <1>4, <1>5, <1>6, <1>7, <1>9 DEF EnvelopeOK
<1> QED BY <1>8, <1>9

(* A handler's step keeps the invariant when it keeps its own part of it.  *)
LEMMA HandlerStep ==
    ASSUME IndInv, NEW r \in Requests, NEW p, HandlerFrame(r, p), Sends(r, p),
           Forward(pc[r], p), pc[r] = "begin" /\ reply[r] = "none" => p = "done",
           did' = did \/ pc[r] = "commit",
           StoreTypes', TaskTypes', RowOK(Key[r])', TaskOK(r)', ClientOK(r)'
    PROVE  IndInv'
<1>1. \A x \in Commands : CommandOK(x) => CommandOK(x)'
  BY HandlerCommands DEF IndInv
<1>2. pc[r] # "done" BY DEF Forward
<1>3. RowsOK' /\ TasksOK' /\ ClientsOK' BY HandlerOthers DEF IndInv
<1>4. QueueTypes' /\ QueueOK' /\ Unique' /\ ControlsOK' BY <1>1, <1>2, HandlerQueues DEF IndInv
<1>5. EnvelopeOK' BY <1>2, HandlerEnvelope DEF IndInv
<1> QED BY <1>3, <1>4, <1>5 DEF IndInv

-----------------------------------------------------------------------------
(* The command the actor receives, and the ones that stay behind it. *)
LEMMA ReceivedFacts ==
    ASSUME IndInv, NEW kind, Received(kind), UNCHANGED <<controls, deferred>>
    PROVE  /\ commands # <<>> /\ commands' = Tail(commands) /\ QueueTypes'
           /\ Head(commands) \in Commands /\ Head(commands).kind = kind
           /\ CommandOK(Head(commands))
           /\ \A x \in {commands[i] : i \in 2..Len(commands)} :
                /\ x \in Commands /\ CommandOK(x)
                /\ kind \in Once /\ x.kind = kind => x.client # Head(commands).client
<1>1. /\ commands # <<>> /\ commands' = Tail(commands) /\ Head(commands).kind = kind
      /\ controls' = controls /\ deferred' = deferred
  BY DEF Received
<1>2. /\ commands \in Seq(Commands) /\ Len(commands) <= QueueCapacity
      /\ controls \in Seq(Requests) /\ deferred \in Seq(Requests)
  BY DEF IndInv, QueueTypes
<1>3. /\ commands' \in Seq(Commands) /\ Len(commands') = Len(commands) - 1
      /\ Len(commands) \in Nat /\ Len(commands) > 0
      /\ Head(commands) \in Commands /\ Head(commands) = commands[1]
  BY <1>1, <1>2, TailFacts
<1>4. QueueTypes' BY <1>1, <1>2, <1>3, QueueAssumption DEF QueueTypes
<1>5. \A i \in 1..Len(commands) : commands[i] \in Commands /\ CommandOK(commands[i])
  BY <1>2 DEF IndInv, QueueOK
<1>6. CommandOK(Head(commands)) BY <1>3, <1>5
<1>7. ASSUME NEW i \in 2..Len(commands), kind \in Once, commands[i].kind = kind
      PROVE  commands[i].client # Head(commands).client
  BY <1>1, <1>3, <1>7 DEF IndInv, Unique
<1> QED BY <1>1, <1>3, <1>4, <1>5, <1>6, <1>7

-----------------------------------------------------------------------------
(* The reservation of r survives a step of the table. *)
Kept(r) ==
    /\ Holds(r, {"Reserved"}) => Holds(r, {"Reserved"})'
    /\ Holds(r, {"CommitStarted"}) => Holds(r, {"CommitStarted"})'

(* A request holds a row in one of two states if it does in one of them. *)
LEMMA EitherState ==
    ASSUME NEW r
    PROVE  Holds(r, {"Reserved", "CommitStarted"})
               <=> Holds(r, {"Reserved"}) \/ Holds(r, {"CommitStarted"})
BY DEF Holds

(* The same after a step. *)
LEMMA EitherStateNext ==
    ASSUME NEW r
    PROVE  Holds(r, {"Reserved", "CommitStarted"})'
               <=> Holds(r, {"Reserved"})' \/ Holds(r, {"CommitStarted"})'
BY DEF Holds

(* One row of the table, before and after. *)
LEMMA RowFacts ==
    ASSUME NEW r \in Requests, NEW s \in {"Reserved", "CommitStarted", "Completed"},
           NEW o \in Terminal \cup {"none"}
    PROVE  /\ Row(s, r, o) \in RowSet /\ Row(s, r, o).state = s
           /\ Row(s, r, o).lease = r /\ Row(s, r, o).outcome = o
           /\ NoRow.state = "Absent"
BY DEF Row, RowSet, NoRow

(* The row a request holds is its own. *)
LEMMA HeldRow ==
    ASSUME StoreTypes, NEW r \in Requests, NEW s \in {"Reserved", "CommitStarted"}, Holds(r, {s})
    PROVE  /\ Key[r] \in Keys /\ rows[Key[r]] \in RowSet
           /\ rows[Key[r]].state = s /\ rows[Key[r]].lease = r
BY KeyAssumption DEF StoreTypes, Holds, NoRow

(* Nothing changes in the table. *)
LEMMA SameTable ==
    ASSUME StoreTypes, RowsOK, UNCHANGED <<rows, applied, expired, did>>
    PROVE  StoreTypes' /\ RowsOK' /\ \A c \in Requests : Kept(c)
<1>1. StoreTypes' BY DEF StoreTypes
<1>2. RowsOK' BY DEF RowsOK, RowOK
<1>3. \A c \in Requests : Kept(c) BY DEF Kept, Holds
<1> QED BY <1>1, <1>2, <1>3

(* A change of the row that r holds: no other reservation is disturbed. *)
LEMMA OneRow ==
    ASSUME StoreTypes, RowsOK, NEW r \in Requests,
           rows[Key[r]].state \in {"Reserved", "CommitStarted"}, rows[Key[r]].lease = r,
           rows' \in [Keys -> RowSet \cup {NoRow}],
           \A k \in Keys : k # Key[r] => rows'[k] = rows[k],
           UNCHANGED <<applied, expired, did>>, RowOK(Key[r])'
    PROVE  StoreTypes' /\ RowsOK' /\ \A c \in Requests : c # r => Kept(c)
<1>1. StoreTypes' BY DEF StoreTypes
<1>2. ASSUME NEW k \in Keys, k # Key[r] PROVE RowOK(k)'
  <2>1. RowOK(k) /\ rows'[k] = rows[k] BY <1>2 DEF RowsOK
  <2> QED BY <2>1 DEF RowOK
<1>3. ASSUME NEW c \in Requests, c # r PROVE Kept(c)
  <2>1. Key[c] \in Keys BY KeyAssumption
  <2>2. CASE Key[c] = Key[r] BY <1>3, <2>2 DEF Kept, Holds
  <2>3. CASE Key[c] # Key[r] BY <2>1, <2>3 DEF Kept, Holds
  <2> QED BY <2>2, <2>3
<1> QED BY <1>1, <1>2, <1>3 DEF RowsOK

(* A row of the table is replaced. *)
LEMMA NewRow ==
    ASSUME NEW T, NEW f \in [Keys -> T], NEW k \in Keys, NEW row \in T, NEW g,
           g = [f EXCEPT ![k] = row]
    PROVE  g \in [Keys -> T] /\ g[k] = row /\ \A j \in Keys : j # k => g[j] = f[j]
OBVIOUS

(* The row that r holds is marked or completed with a verdict that is true. *)
LEMMA UpdateRow ==
    ASSUME StoreTypes, RowsOK, NEW r \in Requests, NEW row \in RowSet, row.lease = r,
           rows[Key[r]].state \in {"Reserved", "CommitStarted"}, rows[Key[r]].lease = r,
           row.state = "CommitStarted" \/
               /\ row.state = "Completed" /\ row.outcome \in Terminal
               /\ row.outcome = "succeeded" => r \in did
               /\ row.outcome = "failed" => r \notin did,
           rows' = [rows EXCEPT ![Key[r]] = row], UNCHANGED <<applied, expired, did>>
    PROVE  /\ StoreTypes' /\ RowsOK' /\ rows'[Key[r]] = row
           /\ \A c \in Requests : c # r => Kept(c)
<1>1. /\ RowOK(Key[r]) /\ Key[r] \in Keys /\ rows \in [Keys -> RowSet \cup {NoRow}]
      /\ applied[Key[r]] \subseteq did
  BY KeyAssumption DEF RowsOK, StoreTypes
<1>2. /\ rows' \in [Keys -> RowSet \cup {NoRow}] /\ rows'[Key[r]] = row
      /\ \A k \in Keys : k # Key[r] => rows'[k] = rows[k]
  BY <1>1, NewRow
<1>3. RowOK(Key[r])' BY <1>1, <1>2 DEF RowOK
<1> QED BY <1>2, <1>3, OneRow

(* abandon_operation of a request that is over. *)
LEMMA AbandonRow ==
    ASSUME StoreTypes, RowsOK, NEW r \in Requests, rows' = abandon_operation(r),
           UNCHANGED <<applied, expired, did>>
    PROVE  StoreTypes' /\ RowsOK' /\ \A c \in Requests : c # r => Kept(c)
<1>1. /\ RowOK(Key[r]) /\ Key[r] \in Keys /\ rows \in [Keys -> RowSet \cup {NoRow}]
  BY KeyAssumption DEF RowsOK, StoreTypes
<1>2. CASE Holds(r, {"Reserved"})
  <2>1. rows' = [rows EXCEPT ![Key[r]] = NoRow] BY <1>2 DEF abandon_operation
  <2>2. rows[Key[r]].state = "Reserved" /\ rows[Key[r]].lease = r BY <1>2 DEF Holds
  <2>3. /\ rows' \in [Keys -> RowSet \cup {NoRow}] /\ rows'[Key[r]] = NoRow
        /\ \A k \in Keys : k # Key[r] => rows'[k] = rows[k]
    BY <1>1, <2>1, NewRow, Zenon
  <2>4. RowOK(Key[r])' BY <1>1, <2>2, <2>3 DEF RowOK, NoRow
  <2> QED BY <2>2, <2>3, <2>4, OneRow
<1>3. CASE Holds(r, {"CommitStarted"}) /\ ~Holds(r, {"Reserved"})
  <2>0. PICK row : row = Row("Completed", r, "unknown") OBVIOUS
  <2>1. rows' = [rows EXCEPT ![Key[r]] = row] BY <1>3, <2>0 DEF abandon_operation
  <2>2. rows[Key[r]].state = "CommitStarted" /\ rows[Key[r]].lease = r BY <1>3 DEF Holds
  <2>3. row \in RowSet /\ row.state = "Completed" /\ row.lease = r /\ row.outcome = "unknown"
    BY <2>0, RowFacts DEF Terminal
  <2> QED BY <2>1, <2>2, <2>3, UpdateRow, Zenon DEF Terminal
<1>4. CASE ~Holds(r, {"Reserved"}) /\ ~Holds(r, {"CommitStarted"})
  <2>1. rows' = rows BY <1>4 DEF abandon_operation
  <2> QED BY <2>1, SameTable
<1> QED BY <1>2, <1>3, <1>4

(* purge_expired removes finished operations only. *)
LEMMA PurgedTable ==
    ASSUME StoreTypes, RowsOK, NEW table, table = purge_expired(rows), Purged
    PROVE  /\ table \in [Keys -> RowSet \cup {NoRow}] /\ expired' = {}
           /\ applied' \in [Keys -> SUBSET did]
           /\ \A k \in Keys :
                \/ k \in expired /\ rows[k].state = "Completed" /\ table[k] = NoRow /\ applied'[k] = {}
                \/ k \notin expired /\ table[k] = rows[k] /\ applied'[k] = applied[k]
BY DEF StoreTypes, RowsOK, RowOK, purge_expired, Purged

(* No reservation that lives is purged. *)
LEMMA PurgeKeeps ==
    ASSUME StoreTypes, RowsOK, rows' = purge_expired(rows), Purged, did' = did
    PROVE  StoreTypes' /\ RowsOK' /\ \A c \in Requests : Kept(c)
<1>1. PICK table : table = purge_expired(rows) OBVIOUS
<1>2. /\ rows' = table /\ table \in [Keys -> RowSet \cup {NoRow}] /\ expired' = {}
      /\ applied' \in [Keys -> SUBSET did]
      /\ \A k \in Keys :
            \/ k \in expired /\ rows[k].state = "Completed" /\ table[k] = NoRow /\ applied'[k] = {}
            \/ k \notin expired /\ table[k] = rows[k] /\ applied'[k] = applied[k]
  BY <1>1, PurgedTable
<1>3. StoreTypes' BY <1>2 DEF StoreTypes
<1>4. ASSUME NEW k \in Keys PROVE RowOK(k)'
  <2>1. RowOK(k) BY DEF RowsOK
  <2>2. CASE rows'[k] = NoRow /\ applied'[k] = {}
    BY <1>2, <2>2 DEF RowOK, NoRow
  <2>3. CASE rows'[k] = rows[k] /\ applied'[k] = applied[k]
    BY <1>2, <2>1, <2>3, SMTT(30) DEF RowOK
  <2> QED BY <1>2, <2>2, <2>3
<1>5. ASSUME NEW c \in Requests PROVE Kept(c)
  <2>1. Key[c] \in Keys BY KeyAssumption
  <2> QED BY <1>2, <2>1 DEF Kept, Holds
<1> QED BY <1>3, <1>4, <1>5 DEF RowsOK

(* begin_operation reserves a key that has no record once purged. *)
LEMMA ReserveKeeps ==
    ASSUME StoreTypes, RowsOK, NEW r \in Requests, r \notin did, NEW table,
           table = purge_expired(rows), Purged, did' = did, table[Key[r]] = NoRow,
           rows' = [table EXCEPT ![Key[r]] = Row("Reserved", r, "none")]
    PROVE  /\ StoreTypes' /\ RowsOK' /\ Holds(r, {"Reserved"})'
           /\ \A c \in Requests : c # r => Kept(c)
<1>1. /\ table \in [Keys -> RowSet \cup {NoRow}] /\ expired' = {}
      /\ applied' \in [Keys -> SUBSET did]
      /\ \A k \in Keys :
            \/ k \in expired /\ rows[k].state = "Completed" /\ table[k] = NoRow /\ applied'[k] = {}
            \/ k \notin expired /\ table[k] = rows[k] /\ applied'[k] = applied[k]
  BY PurgedTable
<1>2. Key[r] \in Keys /\ RowOK(Key[r]) BY KeyAssumption DEF RowsOK
<1>3. PICK row : row = Row("Reserved", r, "none") OBVIOUS
<1>4. row \in RowSet /\ row.state = "Reserved" /\ row.lease = r
  BY <1>3, RowFacts
<1>5. rows'[Key[r]] = row /\ \A k \in Keys : k # Key[r] => rows'[k] = table[k]
  BY <1>1, <1>2, <1>3
<1>6. StoreTypes' BY <1>1, <1>2, <1>3, <1>4 DEF StoreTypes
<1>7. applied'[Key[r]] = {} /\ rows[Key[r]].state \in {"Completed", "Absent"}
  BY <1>1, <1>2 DEF RowOK, NoRow
<1>8. ASSUME NEW k \in Keys PROVE RowOK(k)'
  <2>1. RowOK(k) BY DEF RowsOK
  <2>2. CASE k = Key[r] BY <1>1, <1>4, <1>5, <1>7, <2>2, SMTT(30) DEF RowOK
  <2>3. CASE k # Key[r] /\ table[k] = NoRow /\ applied'[k] = {}
    BY <1>1, <1>5, <2>3, SMTT(30) DEF RowOK, NoRow
  <2>4. CASE k # Key[r] /\ table[k] = rows[k] /\ applied'[k] = applied[k]
    BY <1>1, <1>5, <2>1, <2>4 DEF RowOK
  <2> QED BY <1>1, <2>2, <2>3, <2>4
<1>9. Holds(r, {"Reserved"})' BY <1>4, <1>5 DEF Holds
<1>10. ASSUME NEW c \in Requests PROVE Kept(c)
  <2>1. Key[c] \in Keys BY KeyAssumption
  <2>2. CASE Key[c] = Key[r] BY <1>7, <2>2 DEF Kept, Holds
  <2>3. CASE Key[c] # Key[r] BY <1>1, <1>5, <2>1, <2>3 DEF Kept, Holds
  <2> QED BY <2>2, <2>3
<1> QED BY <1>6, <1>8, <1>9, <1>10 DEF RowsOK

(* What begin_operation can answer. *)
LEMMA BeginAnswers ==
    ASSUME StoreTypes, RowsOK, NEW r \in Requests, NEW table, table = purge_expired(rows), Purged,
           NEW result, result = BeginResult(table, r)
    PROVE  /\ result \in BeginReplies /\ (result = "started" => table[Key[r]] = NoRow)
           /\ result = "succeeded" => Mutated(r)
<1>1. PICK k \in Keys : k = Key[r] BY KeyAssumption
<1>2. RowOK(k) BY DEF RowsOK
<1>3. table[k] = NoRow \/ (table[k] = rows[k] /\ rows[k] \in RowSet)
  BY PurgedTable DEF StoreTypes
<1>4. CASE table[k] = NoRow
  <2>1. result \in {"full", "started"} BY <1>1, <1>4, Zenon DEF BeginResult
  <2> QED BY <1>1, <1>4, <2>1 DEF BeginReplies
<1>5. CASE table[k] # NoRow
  <2>1. \/ result \in {"conflict", "running"}
        \/ rows[k].state = "Completed" /\ result = rows[k].outcome
    BY <1>1, <1>3, <1>5 DEF BeginResult
  <2>2. result \in {"conflict", "running"} \cup Terminal BY <1>2, <2>1 DEF RowOK
  <2>3. result = "succeeded" => applied[k] # {} /\ Key[rows[k].lease] = k /\ applied[k] \subseteq {rows[k].lease}
    BY <1>2, <2>1 DEF RowOK
  <2>4. result = "succeeded" => Mutated(r)
    BY <1>1, <2>3 DEF Mutated, StoreTypes
  <2> QED BY <2>2, <2>4 DEF BeginReplies, Terminal
<1> QED BY <1>4, <1>5

(* The row of an interrupted commit after recovery. *)
LEMMA Completing ==
    ASSUME NEW row \in RowSet, NEW new,
           new = [row EXCEPT !.state = "Completed", !.outcome = "unknown"]
    PROVE  /\ new \in RowSet /\ new.state = "Completed"
           /\ new.outcome = "unknown" /\ new.lease = row.lease
BY Zenon DEF RowSet, Terminal

(* Recovery forgets reservations and closes interrupted commits. *)
LEMMA RecoverKeeps ==
    ASSUME StoreTypes, RowsOK, rows' = recover_database, Purged, did' = did
    PROVE  StoreTypes' /\ RowsOK'
<1>1. PICK kept : kept = purge_expired(rows) OBVIOUS
<1>2. /\ kept \in [Keys -> RowSet \cup {NoRow}] /\ expired' = {}
      /\ applied' \in [Keys -> SUBSET did]
      /\ \A k \in Keys :
            \/ k \in expired /\ rows[k].state = "Completed" /\ kept[k] = NoRow /\ applied'[k] = {}
            \/ k \notin expired /\ kept[k] = rows[k] /\ applied'[k] = applied[k]
  BY <1>1, PurgedTable
<1> DEFINE R(k) == CASE kept[k].state = "Reserved" -> NoRow
                     [] kept[k].state = "CommitStarted" ->
                            [kept[k] EXCEPT !.state = "Completed", !.outcome = "unknown"]
                     [] OTHER -> kept[k]
<1>3. rows' = [k \in Keys |-> R(k)] BY <1>1, Zenon DEF recover_database
<1>4. ASSUME NEW k \in Keys PROVE rows'[k] \in RowSet \cup {NoRow} /\ RowOK(k)'
  <2>0. rows'[k] = R(k) BY <1>3, Zenon
  <2>1. RowOK(k) /\ kept[k] \in RowSet \cup {NoRow} BY <1>2 DEF RowsOK
  <2>2. CASE kept[k] = NoRow
    <3>0. kept[k].state = "Absent" BY <2>2 DEF NoRow
    <3>1. rows'[k] = NoRow BY <2>0, <2>2, <3>0, Zenon
    <3>2. applied'[k] = {} BY <1>2, <2>1, <2>2, SMTT(30) DEF RowOK, NoRow
    <3> QED BY <1>2, <3>1, <3>2 DEF RowOK, NoRow
  <2>3. CASE kept[k] \in RowSet
    <3>1. kept[k] = rows[k] /\ applied'[k] = applied[k] BY <1>2, <2>3 DEF RowSet, NoRow
    <3>2. CASE kept[k].state = "Reserved"
      <4>1. rows'[k] = NoRow BY <2>0, <3>2, Zenon
      <4> QED BY <1>2, <2>1, <3>1, <3>2, <4>1 DEF RowOK, NoRow
    <3>3. CASE kept[k].state = "CommitStarted"
      <4>1. rows'[k] = [kept[k] EXCEPT !.state = "Completed", !.outcome = "unknown"]
        BY <2>0, <3>3, ZenonT(40)
      <4>2. /\ rows'[k] \in RowSet /\ rows'[k].state = "Completed"
            /\ rows'[k].outcome = "unknown" /\ rows'[k].lease = kept[k].lease
        BY <2>3, <4>1, Completing, Zenon
      <4> QED BY <1>2, <2>1, <3>1, <3>3, <4>2 DEF RowOK, Terminal
    <3>4. CASE kept[k].state = "Completed"
      <4>1. rows'[k] = kept[k] BY <2>0, <3>4, Zenon
      <4> QED BY <1>2, <2>1, <2>3, <3>1, <4>1 DEF RowOK
    <3> QED BY <2>3, <3>2, <3>3, <3>4 DEF RowSet
  <2> QED BY <2>1, <2>2, <2>3
<1>5. rows' \in [Keys -> RowSet \cup {NoRow}]
  <2>1. \A k \in Keys : R(k) \in RowSet \cup {NoRow} BY <1>3, <1>4, Zenon
  <2> HIDE DEF R
  <2> QED BY <1>3, <2>1
<1>6. StoreTypes' BY <1>2, <1>5 DEF StoreTypes
<1> QED BY <1>4, <1>6 DEF RowsOK

-----------------------------------------------------------------------------
(* The tasks that a step of the actor for the client e does not concern. *)
LEMMA ActorTasks ==
    ASSUME TaskTypes, TasksOK, ClientsOK, NEW e, UNCHANGED <<pc, progress, answer, did>>,
           \A c \in Clients : c # e => reply'[c] = reply[c],
           \A r \in Requests : r # e => Kept(r),
           e \in Requests => TaskOK(e)', e \in Clients => ClientOK(e)'
    PROVE  TasksOK' /\ ClientsOK'
<1>1. ASSUME NEW r \in Requests PROVE TaskOK(r)'
  <2>1. TaskOK(r) BY Zenon DEF TasksOK
  <2>2. CASE r # e BY <2>1, <2>2 DEF TaskOK, Kept, Clients
  <2> QED BY <2>2
<1>2. ASSUME NEW c \in Clients PROVE ClientOK(c)'
  <2>1. ClientOK(c) BY Zenon DEF ClientsOK
  <2>2. CASE c # e BY <2>1, <2>2, Zenon DEF ClientOK, Mutated
  <2> QED BY <2>2
<1> QED BY <1>1, <1>2 DEF TasksOK, ClientsOK

(* A command that waits and does not concern the step stays true. *)
LEMMA ActorCommands ==
    ASSUME NEW e, UNCHANGED <<pc, did>>, NEW x \in Commands, CommandOK(x),
           \A c \in Clients : c # e => reply'[c] = reply[c],
           \A r \in Requests : r # e => Kept(r),
           x.kind \in Once /\ x.client = e => CommandOK(x)'
    PROVE  CommandOK(x)'
<1>1. CASE x.kind \notin Once
  BY <1>1 DEF CommandOK, Once
<1>2. CASE x.kind \in Once /\ x.client # e
  <2>1. x.client \in Requests BY <1>2, Zenon DEF CommandOK, Once
  <2> QED BY <1>2, <2>1, EitherState, EitherStateNext, ZenonT(40) DEF CommandOK, Kept, Clients
<1> QED BY <1>1, <1>2, Zenon

(* A step that leaves the rows, the queues and the tasks alone. *)
LEMMA QuietStep ==
    ASSUME IndInv, UNCHANGED <<rows, commands, controls, deferred, pc, progress, answer, did, reply>>
    PROVE  /\ QueueTypes' /\ TaskTypes' /\ TasksOK' /\ ClientsOK'
           /\ QueueOK' /\ Unique' /\ ControlsOK'
<1>1. QueueTypes' /\ TaskTypes' BY Zenon DEF IndInv, QueueTypes, TaskTypes
<1>2. ASSUME NEW r \in Requests PROVE TaskOK(r)'
  <2>1. TaskOK(r) BY DEF IndInv, TasksOK
  <2> QED BY <2>1 DEF TaskOK, Holds
<1>3. ASSUME NEW c \in Clients PROVE ClientOK(c)'
  <2>1. ClientOK(c) BY DEF IndInv, ClientsOK
  <2> QED BY <2>1 DEF ClientOK, Mutated
<1>4. ASSUME NEW i \in 1..Len(commands) PROVE CommandOK(commands[i])'
  <2>1. PICK x : x = commands[i] OBVIOUS
  <2>2. CommandOK(x) /\ commands'[i] = x BY <2>1 DEF IndInv, QueueOK
  <2>3. CommandOK(x)' BY <2>2 DEF CommandOK, Holds
  <2> QED BY <2>2, <2>3
<1>5. QueueOK' BY <1>4 DEF QueueOK
<1>6. Unique' BY DEF IndInv, Unique
<1>7. ControlsOK' BY Zenon DEF IndInv, ControlsOK
<1> QED BY <1>1, <1>2, <1>3, <1>5, <1>6, <1>7 DEF TasksOK, ClientsOK

-----------------------------------------------------------------------------
(* Time and crashes. *)

(* The reply in the actor's hands, when nothing it speaks of changes. *)
LEMMA SameEnvelope ==
    ASSUME EnvelopeOK, UNCHANGED <<rows, commands, worker, envelope, pc, did, reply>>
    PROVE  EnvelopeOK'
<1> SUFFICES ASSUME worker = "send" PROVE EnvelopeOK' BY DEF EnvelopeOK
<1>1. PICK e : e = envelope.client OBVIOUS
<1>2. NoBegin(e) => NoBegin(e)' BY DEF NoBegin
<1>3. Mutated(e) => Mutated(e)' BY DEF Mutated
<1>4. Holds(e, {"Reserved"}) => Holds(e, {"Reserved"})' BY DEF Holds
<1> QED BY <1>1, <1>2, <1>3, <1>4, Zenon DEF EnvelopeOK

(* A completed row outlives its TTL. *)
LEMMA ExpireKeeps == ASSUME IndInv, NEW k \in Keys, Expire(k) PROVE IndInv'
<1>1. /\ rows[k].state = "Completed" /\ expired' = expired \cup {k}
      /\ UNCHANGED <<rows, applied, commands, controls, deferred, worker, envelope, pc, progress,
                      answer, did, reply>>
  BY DEF Expire, queues, actor, handlers
<1>2. StoreTypes' BY <1>1, Zenon DEF IndInv, StoreTypes
<1>3. RowsOK' BY <1>1 DEF IndInv, RowsOK, RowOK
<1>4. EnvelopeOK' BY <1>1, SameEnvelope DEF IndInv
<1> QED BY <1>1, <1>2, <1>3, <1>4, QuietStep DEF IndInv

(* After a crash every task is over and its reservation is settled. *)
LEMMA CrashKeeps == ASSUME IndInv, Crash PROVE IndInv'
<1>1. /\ rows' = recover_database /\ Purged /\ commands' = <<>> /\ controls' = <<>>
      /\ deferred' = <<>> /\ worker' = "top" /\ UNCHANGED <<progress, answer, did>>
      /\ pc' = [c \in Clients |-> IF pc[c] = "idle" THEN "idle" ELSE "done"]
      /\ reply' = [c \in Clients |-> "none"]
  BY DEF Crash
<1>2. StoreTypes' /\ RowsOK' BY <1>1, RecoverKeeps DEF IndInv
<1>3. QueueTypes' /\ QueueOK' /\ Unique' /\ ControlsOK' /\ EnvelopeOK'
  BY <1>1, QueueAssumption DEF QueueTypes, QueueOK, Unique, ControlsOK, EnvelopeOK
<1>4. TaskTypes' BY <1>1 DEF IndInv, TaskTypes, Places, Replies
<1>5. ASSUME NEW r \in Requests PROVE TaskOK(r)'
  <2>1. TaskOK(r) /\ r \in Clients BY DEF IndInv, TasksOK, Clients
  <2> QED BY <1>1, <2>1, Zenon DEF TaskOK, Detached
<1>6. ClientsOK' BY <1>1 DEF IndInv, ClientsOK, ClientOK, Mutated
<1> QED BY <1>2, <1>3, <1>4, <1>5, <1>6 DEF IndInv, TasksOK

(* Nothing happens. *)
LEMMA StutterKeeps == ASSUME IndInv, UNCHANGED vars PROVE IndInv'
<1>1. UNCHANGED <<rows, commands, controls, deferred, worker, envelope, pc, progress, reply,
                  answer, did, applied, expired>>
  BY DEF vars
<1>2. StoreTypes' /\ RowsOK' BY <1>1, SameTable DEF IndInv
<1>3. EnvelopeOK' BY <1>1, SameEnvelope DEF IndInv
<1> QED BY <1>1, <1>2, <1>3, QuietStep DEF IndInv

-----------------------------------------------------------------------------
(* Abandoned leases. *)

(* An abandon, done or deferred, concerns a request that is over, so that  *)
(* no task and no command that waits relies on the row it may remove.      *)
LEMMA AbandonKeeps ==
    ASSUME IndInv, NEW r \in Requests, pc[r] = "done", NEW rest \in Seq(Requests),
           \A i \in 1..Len(rest) : pc[rest[i]] = "done", AbandonOrDefer(r, rest),
           UNCHANGED <<commands, pc, progress, answer, did, reply>>,
           controls' \in Seq(Requests), \A i \in 1..Len(controls') : pc[controls'[i]] = "done",
           worker' # "send"
    PROVE  IndInv'
<1>1. /\ StoreTypes /\ QueueTypes /\ TaskTypes /\ RowsOK /\ TasksOK /\ ClientsOK
      /\ QueueOK /\ Unique /\ TaskOK(r) /\ ClientOK(r)
  BY DEF IndInv, TasksOK, ClientsOK, Clients
<1>2. StoreTypes' /\ RowsOK' /\ \A c \in Requests : c # r => Kept(c)
  <2>1. CASE rows' = abandon_operation(r) /\ UNCHANGED <<applied, expired>>
    BY <1>1, <2>1, AbandonRow
  <2>2. CASE UNCHANGED <<rows, applied, expired>>
    BY <1>1, <2>2, SameTable
  <2> QED BY <2>1, <2>2, Zenon DEF AbandonOrDefer, Fault, store
<1>3. /\ deferred' \in Seq(Requests) /\ \A i \in 1..Len(deferred') : pc[deferred'[i]] = "done"
  <2>1. CASE deferred' = rest BY <2>1
  <2>2. CASE deferred' = Append(rest, r)
    <3>1. /\ deferred' \in Seq(Requests) /\ Len(rest) \in Nat /\ Len(deferred') = Len(rest) + 1
          /\ \A i \in 1..Len(rest) : deferred'[i] = rest[i]
          /\ deferred'[Len(rest) + 1] = r
      BY <2>2, AppendFacts
    <3>2. \A i \in 1..Len(deferred') : i \in 1..Len(rest) \/ i = Len(rest) + 1
      BY <3>1
    <3> QED BY <3>1, <3>2
  <2> QED BY <2>1, <2>2 DEF AbandonOrDefer
<1>4. TaskOK(r)' /\ ClientOK(r)'
  BY <1>1, Zenon DEF TaskOK, ClientOK, Mutated, Detached
<1>5. TasksOK' /\ ClientsOK' BY <1>1, <1>2, <1>4, ActorTasks
<1>6. \A x \in Commands : CommandOK(x) => CommandOK(x)'
  <2> SUFFICES ASSUME NEW x \in Commands, CommandOK(x) PROVE CommandOK(x)' OBVIOUS
  <2>1. x.kind \in Once /\ x.client = r => CommandOK(x)' BY Zenon DEF CommandOK
  <2> QED BY <1>2, <2>1, ActorCommands, Zenon
<1>7. QueueTypes' /\ QueueOK' /\ Unique'
  <2>1. QueueTypes' BY <1>1, <1>3 DEF QueueTypes
  <2>2. QueueOK'
    <3>1. commands' = commands OBVIOUS
    <3>2. \A i \in 1..Len(commands) : commands[i] \in Commands BY <1>1 DEF QueueTypes
    <3>3. \A i \in 1..Len(commands) : CommandOK(commands[i]) BY <1>1, Zenon DEF QueueOK
    <3>4. \A i \in 1..Len(commands) : CommandOK(commands[i])' BY <1>6, <3>1, <3>2, <3>3, Zenon
    <3> QED BY <3>1, <3>4, Zenon DEF QueueOK
  <2>3. Unique' BY <1>1 DEF Unique
  <2> QED BY <2>1, <2>2, <2>3
<1>8. TaskTypes' BY <1>1 DEF TaskTypes
<1>9. ControlsOK' BY <1>3, Zenon DEF ControlsOK
<1>10. EnvelopeOK' BY DEF EnvelopeOK
<1> QED BY <1>2, <1>5, <1>7, <1>8, <1>9, <1>10 DEF IndInv

(* Steps of the actor between two commands that change no row. *)
LEMMA IdleActor ==
    ASSUME IndInv, UNCHANGED <<rows, applied, expired, commands, controls, deferred, pc,
                               progress, answer, did, reply>>, worker' # "send"
    PROVE  IndInv'
<1>1. StoreTypes' /\ RowsOK' BY SameTable DEF IndInv
<1>2. EnvelopeOK' BY DEF EnvelopeOK
<1> QED BY <1>1, <1>2, QuietStep DEF IndInv

(* The leases that are to be abandoned, one by one. *)
LEMMA LeaseQueues ==
    ASSUME IndInv
    PROVE  /\ controls \in Seq(Requests) /\ deferred \in Seq(Requests)
           /\ \A i \in 1..Len(controls) : pc[controls[i]] = "done"
           /\ \A i \in 1..Len(deferred) : pc[deferred[i]] = "done"
BY DEF IndInv, QueueTypes, ControlsOK

(* One lease less to abandon. *)
LEMMA LeaseTail ==
    ASSUME NEW s \in Seq(Requests), s # <<>>, \A i \in 1..Len(s) : pc[s[i]] = "done"
    PROVE  /\ Tail(s) \in Seq(Requests) /\ Head(s) \in Requests /\ pc[Head(s)] = "done"
           /\ \A i \in 1..Len(Tail(s)) : pc[Tail(s)[i]] = "done"
BY TailFacts

(* A failed abandon is retried between two commands. *)
LEMMA RetryKeeps == ASSUME IndInv, retry_one_deferred_abandon PROVE IndInv'
<1>1. /\ worker' = "drain"
      /\ UNCHANGED <<commands, controls, pc, progress, answer, did, reply>>
  BY DEF retry_one_deferred_abandon, queues, handlers
<1>2. CASE UNCHANGED <<store, deferred>> BY <1>1, <1>2, IdleActor DEF store
<1>3. CASE deferred # <<>> /\ AbandonOrDefer(Head(deferred), Tail(deferred))
  <2>1. /\ Tail(deferred) \in Seq(Requests) /\ Head(deferred) \in Requests
        /\ pc[Head(deferred)] = "done"
        /\ \A i \in 1..Len(Tail(deferred)) : pc[Tail(deferred)[i]] = "done"
    BY <1>3, LeaseQueues, LeaseTail
  <2>2. controls' \in Seq(Requests) /\ \A i \in 1..Len(controls') : pc[controls'[i]] = "done"
    BY <1>1, LeaseQueues
  <2> QED BY <1>1, <1>3, <2>1, <2>2, AbandonKeeps, Zenon
<1> QED BY <1>2, <1>3 DEF retry_one_deferred_abandon

(* The control queue is drained before the next command. *)
LEMMA ControlsKeep == ASSUME IndInv, process_controls PROVE IndInv'
<1>1. /\ worker = "drain" /\ UNCHANGED <<commands, pc, progress, answer, did, reply>>
  BY DEF process_controls, handlers
<1>2. CASE worker' = "recv" /\ UNCHANGED <<store, controls, deferred>>
  BY <1>1, <1>2, IdleActor DEF store
<1>3. CASE /\ controls # <<>> /\ controls' = Tail(controls) /\ worker' = worker
           /\ AbandonOrDefer(Head(controls), deferred)
  <2>1. /\ Tail(controls) \in Seq(Requests) /\ Head(controls) \in Requests
        /\ pc[Head(controls)] = "done"
        /\ \A i \in 1..Len(Tail(controls)) : pc[Tail(controls)[i]] = "done"
    BY <1>3, LeaseQueues, LeaseTail
  <2>2. controls' \in Seq(Requests) /\ \A i \in 1..Len(controls') : pc[controls'[i]] = "done"
    BY <1>3, <2>1
  <2> QED BY <1>1, <1>3, <2>1, <2>2, LeaseQueues, AbandonKeeps
<1> QED BY <1>2, <1>3 DEF process_controls

-----------------------------------------------------------------------------
(* The actor serves a command and keeps the part of the invariant that the *)
(* command is about: the rest of the invariant is kept as well.            *)
LEMMA ReceivedStep ==
    ASSUME IndInv, NEW kind, Received(kind), NEW e,
           UNCHANGED <<controls, deferred, pc, progress, answer, did>>,
           StoreTypes', reply' \in [Clients -> Replies], RowsOK', EnvelopeOK',
           \A c \in Clients : c # e => reply'[c] = reply[c],
           \A r \in Requests : r # e => Kept(r),
           e \in Requests => TaskOK(e)', e \in Clients => ClientOK(e)',
           \A x \in {commands[i] : i \in 2..Len(commands)} :
               x.kind \in Once /\ x.client = e => CommandOK(x)'
    PROVE  IndInv'
<1>1. TaskTypes' BY Zenon DEF IndInv, TaskTypes
<1>2. TasksOK' /\ ClientsOK' BY ActorTasks, Zenon DEF IndInv
<1>3. \A x \in {commands[i] : i \in 2..Len(commands)} : CommandOK(x) => CommandOK(x)'
  BY ReceivedFacts, ActorCommands, Zenon
<1>4. QueueTypes' /\ commands # <<>> /\ commands' = Tail(commands) BY ReceivedFacts
<1>5. QueueOK' /\ Unique' BY <1>3, <1>4, QueueTail, Zenon DEF IndInv
<1>6. ControlsOK' BY Zenon DEF IndInv, ControlsOK
<1> QED BY <1>1, <1>2, <1>4, <1>5, <1>6, Zenon DEF IndInv

-----------------------------------------------------------------------------
(* The commands. *)

(* The reply of begin reaches a handler that waits for it and has no other *)
(* command queued, or the reservation is abandoned.                        *)
LEMMA SendBegunKeeps == ASSUME IndInv, SendBegun PROVE IndInv'
<1>0. PICK e : e = envelope.client BY Zenon
<1>1. /\ worker' = "top" /\ UNCHANGED <<commands, controls, pc, progress, answer, did>>
      /\ e \in Requests /\ envelope.result \in BeginReplies
      /\ pc[e] \in {"begin", "done"}
      /\ pc[e] = "begin" /\ envelope.result = "started" => Holds(e, {"Reserved"})
      /\ envelope.result = "succeeded" => Mutated(e)
      /\ NoBegin(e)
  BY <1>0, Zenon DEF SendBegun, queues, handlers, IndInv, EnvelopeOK
<1>2. /\ StoreTypes /\ QueueTypes /\ TaskTypes /\ RowsOK /\ TasksOK /\ ClientsOK
      /\ QueueOK /\ Unique /\ ControlsOK /\ TaskOK(e) /\ ClientOK(e) /\ e \in Clients
  BY <1>1 DEF IndInv, TasksOK, ClientsOK, Clients
<1>3. CASE /\ pc[e] = "begin" /\ reply' = [reply EXCEPT ![e] = envelope.result]
           /\ UNCHANGED <<store, deferred>>
  <2>1. /\ reply'[e] = envelope.result /\ \A c \in Clients : c # e => reply'[c] = reply[c]
        /\ UNCHANGED <<rows, applied, expired, deferred>>
    BY <1>2, <1>3 DEF TaskTypes, store
  <2>2. TaskTypes' BY <1>1, <1>2, <1>3, Zenon DEF TaskTypes, Replies
  <2>3. /\ UNCHANGED StoreTypes /\ UNCHANGED RowsOK /\ UNCHANGED QueueTypes
        /\ UNCHANGED Unique /\ UNCHANGED ControlsOK
    BY <1>1, <2>1, Zenon DEF StoreTypes, RowsOK, RowOK, QueueTypes, Unique, ControlsOK
  <2>4. \A c \in Requests : Kept(c) BY <2>1, Zenon DEF Kept, Holds
  <2>5. TaskOK(e)'
    BY <1>1, <1>2, <1>3, <2>1, <2>4, Zenon DEF TaskOK, Kept, BeginReplies, Terminal, Detached
  <2>6. ClientOK(e)' BY <1>1, <1>2, <2>1, Zenon DEF ClientOK, Mutated
  <2>7. TasksOK' /\ ClientsOK' BY <1>1, <1>2, <2>1, <2>4, <2>5, <2>6, ActorTasks, Zenon
  <2>8. QueueOK'
    <3>1. ASSUME NEW x \in {commands[i] : i \in 1..Len(commands)} PROVE CommandOK(x)'
      <4>1. x \in Commands /\ CommandOK(x) BY <1>2 DEF QueueTypes, QueueOK
      <4>2. x.kind = "begin" => x.client # e BY <1>1, Zenon DEF NoBegin
      <4>3. x.kind \in Once => x.client # e BY <1>3, <4>1, <4>2 DEF CommandOK, Once
      <4> QED BY <1>1, <2>1, <2>4, <4>1, <4>3, ActorCommands, Zenon
    <3> QED BY <1>1, <3>1 DEF QueueOK
  <2>9. EnvelopeOK' BY <1>1 DEF EnvelopeOK
  <2> QED BY <1>2, <2>2, <2>3, <2>7, <2>8, <2>9 DEF IndInv
<1>4. CASE UNCHANGED <<reply, store, deferred>>
  BY <1>1, <1>4, IdleActor, Zenon DEF store
<1>5. CASE pc[e] # "begin" /\ reply' = reply /\ AbandonOrDefer(e, deferred)
  <2>1. controls' \in Seq(Requests) /\ \A i \in 1..Len(controls') : pc[controls'[i]] = "done"
    BY <1>1, LeaseQueues, Zenon
  <2> QED BY <1>1, <1>5, <2>1, LeaseQueues, AbandonKeeps
<1> QED BY <1>0, <1>3, <1>4, <1>5 DEF SendBegun, Reply

(* A wake-up or a poll changes nothing but the queue. *)
LEMMA OtherKeeps == ASSUME IndInv, RecvOther PROVE IndInv'
<1>1. PICK kind : Received(kind) BY DEF RecvOther
<1>2. /\ worker' = "top" /\ UNCHANGED <<rows, applied, expired, controls, deferred, pc, progress,
                                        answer, did, reply>>
  BY DEF RecvOther, handlers, store
<1>3. /\ StoreTypes' /\ RowsOK' /\ reply' \in [Clients -> Replies] /\ EnvelopeOK'
  BY <1>2, Zenon DEF IndInv, StoreTypes, RowsOK, RowOK, TaskTypes, EnvelopeOK
<1>4. /\ \A c \in Requests : Kept(c) /\ TaskOK(c)'
      /\ \A c \in Clients : ClientOK(c)' /\ reply'[c] = reply[c]
  BY <1>2, Zenon DEF Kept, Holds, IndInv, TasksOK, TaskOK, ClientsOK, ClientOK, Mutated
<1>5. \A x \in {commands[i] : i \in 2..Len(commands)} : CommandOK(x)'
  BY <1>1, <1>2, ReceivedFacts, Zenon DEF CommandOK, Holds
<1> QED BY <1>1, <1>2, <1>3, <1>4, <1>5, ReceivedStep, Zenon

(* A status query purges and reports what the row says. *)
LEMMA StatusKeeps == ASSUME IndInv, RecvStatus PROVE IndInv'
<1>0. PICK q : q = Head(commands).client OBVIOUS
<1>1. /\ Received("status") /\ worker' = "top"
      /\ UNCHANGED <<controls, deferred, pc, progress, answer, did>>
  BY Zenon DEF RecvStatus, handlers
<1>2. q \in Queries /\ q \in Clients /\ q \notin Requests
  BY <1>0, <1>1, ReceivedFacts, ClientsAssumption DEF CommandOK, Clients
<1>3. StoreTypes /\ RowsOK /\ TaskTypes /\ ClientOK(q) BY <1>2, Zenon DEF IndInv, ClientsOK
<1>4. \A x \in {commands[i] : i \in 2..Len(commands)} : x.kind \in Once => x.client # q
  BY <1>1, <1>2, ReceivedFacts DEF CommandOK, Once
<1>5. EnvelopeOK' BY <1>1, Zenon DEF EnvelopeOK
<1>6. ASSUME StoreTypes', RowsOK', \A c \in Requests : Kept(c), NEW v \in Replies,
             reply' = [reply EXCEPT ![q] = v], v = "succeeded" => Mutated(q)
      PROVE  IndInv'
  <2>1. /\ reply' \in [Clients -> Replies] /\ reply'[q] = v
        /\ \A c \in Clients : c # q => reply'[c] = reply[c]
    BY <1>2, <1>3, <1>6, Zenon DEF TaskTypes
  <2>2. ClientOK(q)' BY <1>1, <1>3, <1>6, <2>1 DEF ClientOK, Mutated
  <2> QED BY <1>1, <1>2, <1>4, <1>5, <1>6, <2>1, <2>2, ReceivedStep, Zenon
<1>7. CASE UNCHANGED <<store, reply>>
  <2>1. StoreTypes' /\ RowsOK' /\ \A c \in Requests : Kept(c)
    BY <1>1, <1>3, <1>7, SameTable DEF store
  <2>2. /\ reply[q] \in Replies /\ reply' = [reply EXCEPT ![q] = reply[q]]
        /\ reply[q] = "succeeded" => Mutated(q)
    BY <1>2, <1>3, <1>7 DEF TaskTypes, ClientOK
  <2> QED BY <1>6, <2>1, <2>2, Zenon
<1>8. CASE /\ rows' = purge_expired(rows) /\ Purged
           /\ reply' = [reply EXCEPT ![q] = operation_status(purge_expired(rows), Key[q])]
  <2>1. PICK table : table = purge_expired(rows) OBVIOUS
  <2>2. StoreTypes' /\ RowsOK' /\ \A c \in Requests : Kept(c)
    BY <1>1, <1>3, <1>8, PurgeKeeps
  <2>3. Key[q] \in Keys /\ RowOK(Key[q]) BY <1>2, <1>3, KeyAssumption DEF RowsOK
  <2>4. PICK k : k = Key[q] OBVIOUS
  <2>5. \/ table[k] = NoRow
        \/ table[k] = rows[k] /\ rows[k] \in RowSet
    BY <1>3, <1>8, <2>1, <2>3, <2>4, PurgedTable DEF StoreTypes
  <2>6. PICK v : v = operation_status(table, k) OBVIOUS
  <2>7. v \in Replies /\ (v = "succeeded" => rows[k].state = "Completed" /\ rows[k].outcome = "succeeded")
    <3>1. CASE table[k] = NoRow BY <2>6, <3>1 DEF operation_status, NoRow, Replies
    <3>2. CASE table[k] = rows[k] /\ rows[k] \in RowSet /\ table[k] # NoRow
      <4>1. rows[k].state = "Completed" => rows[k].outcome \in Terminal BY <2>3, <2>4 DEF RowOK
      <4>2. v = IF rows[k].state = "Completed" THEN rows[k].outcome ELSE "running"
        BY <2>6, <3>2, Zenon DEF operation_status
      <4> QED BY <4>1, <4>2 DEF Replies, BeginReplies
    <3> QED BY <2>5, <3>1, <3>2
  <2>8. v = "succeeded" => Mutated(q)
    BY <1>3, <2>3, <2>4, <2>7, Zenon DEF RowOK, Mutated, StoreTypes
  <2> QED BY <1>6, <1>8, <2>1, <2>2, <2>4, <2>6, <2>7, <2>8, Zenon
<1>9. CASE Fault /\ reply' = [reply EXCEPT ![q] = "error"]
  <2>1. StoreTypes' /\ RowsOK' /\ \A c \in Requests : Kept(c)
    BY <1>1, <1>3, <1>9, SameTable DEF Fault, store
  <2>2. "error" \in Replies BY DEF Replies, BeginReplies
  <2> QED BY <1>6, <1>9, <2>1, <2>2, Zenon
<1> QED BY <1>0, <1>7, <1>8, <1>9, Zenon DEF RecvStatus, Reply

(* Begin reserves for a handler that has sent nothing else. *)
LEMMA RecvBeginKeeps == ASSUME IndInv, RecvBegin PROVE IndInv'
<1>0. PICK r : r = Head(commands).client OBVIOUS
<1>1. /\ Received("begin") /\ UNCHANGED <<controls, deferred, reply, pc, progress, answer, did>>
  BY Zenon DEF RecvBegin, handlers
<1>2. r \in Requests /\ r \in Clients /\ (pc[r] = "begin" => reply[r] = "none")
  BY <1>0, <1>1, ReceivedFacts, Zenon DEF CommandOK, Clients
<1>3. StoreTypes /\ RowsOK /\ TaskTypes /\ TaskOK(r) /\ ClientOK(r)
  BY <1>2, Zenon DEF IndInv, TasksOK, ClientsOK
<1>4. ClientOK(r)' BY <1>1, <1>3, Zenon DEF ClientOK, Mutated
<1>5. reply' \in [Clients -> Replies] BY <1>1, <1>3, Zenon DEF TaskTypes
<1>6. CASE worker' = "top" /\ UNCHANGED store
  <2>1. StoreTypes' /\ RowsOK' /\ \A c \in Requests : Kept(c)
    BY <1>1, <1>3, <1>6, SameTable, Zenon DEF store
  <2>4. TaskOK(r)' BY <1>1, <1>2, <1>3, <1>6, Zenon DEF TaskOK, Holds, store
  <2>2. \A x \in {commands[i] : i \in 2..Len(commands)} : CommandOK(x)'
    BY <1>1, <1>6, ReceivedFacts, Zenon DEF CommandOK, Holds, store
  <2>3. EnvelopeOK' BY <1>6 DEF EnvelopeOK
  <2> QED BY <1>1, <1>2, <1>4, <1>5, <2>1, <2>2, <2>3, <2>4, ReceivedStep
<1>7. ASSUME pc[r] = "begin", worker' = "send", NEW result \in BeginReplies,
             envelope' = [client |-> r, result |-> result],
             StoreTypes', RowsOK', \A c \in Requests : c # r => Kept(c),
             result = "started" => Holds(r, {"Reserved"})', result = "succeeded" => Mutated(r)
      PROVE  IndInv'
  <2>1. TaskOK(r)' BY <1>1, <1>2, <1>3, <1>7, Zenon DEF TaskOK
  <2>2. \A x \in {commands[i] : i \in 2..Len(commands)} : x.kind \in Once => x.client # r
    BY <1>0, <1>1, <1>7, ReceivedFacts, Zenon DEF CommandOK, Once
  <2>3. NoBegin(r)'
    <3>1. /\ Len(commands) \in Nat /\ Len(commands') = Len(commands) - 1
          /\ \A i \in 1..Len(commands') : commands'[i] = commands[i + 1] /\ i + 1 \in 2..Len(commands)
      <4>1. commands \in Seq(Commands) BY DEF IndInv, QueueTypes
      <4>2. commands # <<>> /\ commands' = Tail(commands) BY <1>1 DEF Received
      <4> QED BY <4>1, <4>2, TailFacts
    <3> QED BY <2>2, <3>1 DEF NoBegin, Once
  <2>4. Mutated(r) => Mutated(r)' BY <1>1 DEF Mutated
  <2>5. EnvelopeOK' BY <1>1, <1>2, <1>7, <2>3, <2>4, Zenon DEF EnvelopeOK
  <2> QED BY <1>1, <1>2, <1>4, <1>5, <1>7, <2>1, <2>2, <2>5, ReceivedStep, Zenon
<1>8. CASE /\ pc[r] = "begin" /\ worker' = "send" /\ Purged
           /\ LET table == purge_expired(rows) result == BeginResult(table, r) IN
              /\ rows' = IF result = "started"
                           THEN [table EXCEPT ![Key[r]] = Row("Reserved", r, "none")] ELSE table
              /\ envelope' = [client |-> r, result |-> result]
  <2>1. PICK table : table = purge_expired(rows) OBVIOUS
  <2>2. PICK result : result = BeginResult(table, r) OBVIOUS
  <2>3. /\ result \in BeginReplies /\ (result = "started" => table[Key[r]] = NoRow)
        /\ result = "succeeded" => Mutated(r)
    BY <1>2, <1>3, <1>8, <2>1, <2>2, BeginAnswers, Zenon
  <2>4. r \notin did BY <1>3, <1>8, Zenon DEF TaskOK
  <2>5. CASE result = "started"
    <3>1. rows' = [table EXCEPT ![Key[r]] = Row("Reserved", r, "none")] BY <1>8, <2>1, <2>2, <2>5
    <3>2. /\ StoreTypes' /\ RowsOK' /\ Holds(r, {"Reserved"})'
          /\ \A c \in Requests : c # r => Kept(c)
      BY <1>1, <1>2, <1>3, <1>8, <2>1, <2>3, <2>4, <2>5, <3>1, ReserveKeeps, Zenon
    <3> QED BY <1>7, <1>8, <2>1, <2>2, <2>3, <3>2, ZenonT(40)
  <2>6. CASE result # "started"
    <3>1. rows' = purge_expired(rows) BY <1>8, <2>1, <2>2, <2>6, Zenon
    <3>2. StoreTypes' /\ RowsOK' /\ \A c \in Requests : Kept(c)
      BY <1>1, <1>3, <1>8, <3>1, PurgeKeeps
    <3> QED BY <1>7, <1>8, <2>1, <2>2, <2>3, <2>6, <3>2, Zenon
  <2> QED BY <2>5, <2>6
<1>9. CASE pc[r] = "begin" /\ worker' = "send" /\ Fault /\ envelope' = [client |-> r, result |-> "error"]
  <2>1. StoreTypes' /\ RowsOK' /\ \A c \in Requests : Kept(c)
    BY <1>1, <1>3, <1>9, SameTable DEF Fault, store
  <2>2. "error" \in BeginReplies BY Zenon DEF BeginReplies
  <2> QED BY <1>7, <1>9, <2>1, <2>2
<1> QED BY <1>0, <1>6, <1>8, <1>9, Zenon DEF RecvBegin

(* An update that changes no row: the request is over, or it failed. *)
LEMMA QuietUpdate ==
    ASSUME IndInv, NEW kind, Received(kind), NEW r \in Requests, pc[r] \notin {"idle", "begin"},
           UNCHANGED <<store, controls, deferred, pc, progress, answer, did>>, worker' = "top",
           reply' = reply \/ reply' = [reply EXCEPT ![r] = "error"]
    PROVE  IndInv'
<1>1. /\ StoreTypes /\ RowsOK /\ TaskTypes /\ TaskOK(r) /\ ClientOK(r) /\ r \in Clients
      /\ UNCHANGED <<rows, applied, expired>>
  BY DEF IndInv, TasksOK, ClientsOK, Clients, store
<1>2. /\ reply' \in [Clients -> Replies] /\ reply'[r] \in {reply[r], "error"}
      /\ \A c \in Clients : c # r => reply'[c] = reply[c]
  BY <1>1, Zenon DEF TaskTypes, Replies, BeginReplies
<1>3. StoreTypes' /\ RowsOK' BY <1>1, Zenon DEF StoreTypes, RowsOK, RowOK
<1>4. \A c \in Requests : Kept(c) BY <1>1, Zenon DEF Kept, Holds
<1>5. TaskOK(r)' /\ ClientOK(r)' BY <1>1, <1>2, <1>4, Zenon DEF TaskOK, Kept, ClientOK, Mutated
<1>6. ASSUME NEW x \in {commands[i] : i \in 2..Len(commands)}, x.client = r PROVE CommandOK(x)'
  <2>1. CommandOK(x) BY ReceivedFacts, Zenon
  <2> QED BY <1>1, <1>6, <2>1, Zenon DEF CommandOK, Holds
<1>7. EnvelopeOK' BY DEF EnvelopeOK
<1> QED BY <1>2, <1>3, <1>4, <1>5, <1>6, <1>7, ReceivedStep

(* The client of an update gets its reply unless it is gone. *)
LEMMA ReplyFacts ==
    ASSUME TaskTypes, NEW r \in Clients, NEW what \in Replies, NEW waits \in BOOLEAN,
           reply' = IF waits THEN [reply EXCEPT ![r] = what] ELSE reply
    PROVE  /\ reply' \in [Clients -> Replies]
           /\ reply'[r] = IF waits THEN what ELSE reply[r]
           /\ \A c \in Clients : c # r => reply'[c] = reply[c]
BY DEF TaskTypes

(* A marked request has its row marked and, if it still waits, its reply. *)
LEMMA MarkedTask ==
    ASSUME NEW r, TaskOK(r), ClientOK(r), Holds(r, {"CommitStarted"})',
           pc[r] \in {"marking", "commit", "completing", "done"},
           UNCHANGED <<pc, progress, answer, did>>,
           reply'[r] = IF pc[r] = "marking" THEN "changed" ELSE reply[r]
    PROVE  TaskOK(r)' /\ ClientOK(r)'
<1>1. TaskOK(r)' BY Zenon DEF TaskOK
<1>2. ClientOK(r)' BY Zenon DEF ClientOK, Mutated
<1> QED BY <1>1, <1>2, Zenon

(* An update concerns no later command of the same request, except that it *)
(* must leave the row to complete.                                         *)
LEMMA UpdatedCommand ==
    ASSUME NEW r, NEW x, CommandOK(x), x.client = r, UNCHANGED <<pc, did>>,
           \/ /\ x.kind # "mark" /\ Holds(r, {"Reserved", "CommitStarted"})'
              /\ pc[r] \in {"marking", "commit", "completing", "done"}
           \/ x.kind # "complete" /\ pc[r] \in {"finishing", "completing", "done"}
    PROVE  CommandOK(x)'
BY DEF CommandOK

(* A task that waits for the mark still holds its reservation. *)
LEMMA RecvMarkKeeps == ASSUME IndInv, RecvMark PROVE IndInv'
<1>0. PICK r : r = Head(commands).client OBVIOUS
<1>1. /\ Received("mark") /\ UNCHANGED <<controls, deferred, pc, progress, answer, did>>
      /\ worker' = "top"
  BY Zenon DEF RecvMark, handlers
<1>2. /\ r \in Requests /\ r \in Clients /\ pc[r] \in {"marking", "commit", "completing", "done"}
      /\ pc[r] = "marking" => Holds(r, {"Reserved"})
  BY <1>0, <1>1, ReceivedFacts DEF CommandOK, Clients
<1>3. Update(r, mark_operation_commit_started(r), "changed", {"marking"})
  BY <1>0 DEF RecvMark
<1>4. CASE Fault
  <2>1. reply' = reply \/ reply' = [reply EXCEPT ![r] = "error"]
    BY <1>3, <1>4 DEF Update, Reply, Fault, NoFault
  <2> QED BY <1>1, <1>2, <1>4, <2>1, QuietUpdate DEF Fault
<1>5. CASE ~Holds(r, {"Reserved"})
  <2>1. mark_operation_commit_started(r) = rows BY <1>5 DEF mark_operation_commit_started
  <2>2. UNCHANGED store /\ (reply' = reply \/ reply' = [reply EXCEPT ![r] = "error"])
    BY <1>2, <1>3, <1>5, <2>1, Zenon DEF Update, Reply, Fault, store
  <2> QED BY <1>1, <1>2, <2>2, QuietUpdate
<1>6. CASE Holds(r, {"Reserved"}) /\ ~Fault
  <2>1. StoreTypes /\ RowsOK /\ TaskTypes /\ TaskOK(r) /\ ClientOK(r)
    BY <1>2 DEF IndInv, TasksOK, ClientsOK
  <2>2. PICK row : row = [rows[Key[r]] EXCEPT !.state = "CommitStarted"] BY Zenon
  <2>3. /\ Key[r] \in Keys /\ rows[Key[r]] \in RowSet
        /\ rows[Key[r]].state = "Reserved" /\ rows[Key[r]].lease = r
    BY <1>2, <1>6, <2>1, HeldRow
  <2>4. row \in RowSet /\ row.state = "CommitStarted" /\ row.lease = r
    BY <2>2, <2>3 DEF RowSet
  <2>5. mark_operation_commit_started(r) = [rows EXCEPT ![Key[r]] = row]
    BY <1>6, <2>2 DEF mark_operation_commit_started
  <2>6. rows' = [rows EXCEPT ![Key[r]] = row] /\ UNCHANGED <<applied, expired>>
    BY <1>3, <1>6, <2>5 DEF Update
  <2>7. /\ StoreTypes' /\ RowsOK' /\ rows'[Key[r]] = row /\ \A c \in Requests : c # r => Kept(c)
    BY <1>1, <1>2, <2>1, <2>3, <2>4, <2>6, UpdateRow, Zenon
  <2>8. mark_operation_commit_started(r) # rows BY <2>3, <2>4, <2>5, <2>6, <2>7
  <2>9. reply' = IF pc[r] = "marking" THEN [reply EXCEPT ![r] = "changed"] ELSE reply
    BY <1>3, <1>6, <2>8 DEF Update, Reply
  <2>10. "changed" \in Replies BY DEF Replies
  <2>11. /\ reply' \in [Clients -> Replies]
         /\ reply'[r] = IF pc[r] = "marking" THEN "changed" ELSE reply[r]
         /\ \A c \in Clients : c # r => reply'[c] = reply[c]
    BY <1>2, <2>1, <2>9, <2>10, ReplyFacts, Zenon
  <2>12. Holds(r, {"CommitStarted"})' BY <2>4, <2>7, Zenon DEF Holds
  <2>13. TaskOK(r)' /\ ClientOK(r)' BY <1>1, <1>2, <2>1, <2>11, <2>12, MarkedTask, Zenon
  <2>14. ASSUME NEW x \in {commands[i] : i \in 2..Len(commands)}, x.kind \in Once, x.client = r
         PROVE  CommandOK(x)'
    <3>1. "mark" \in Once BY Zenon DEF Once
    <3>2. CommandOK(x) /\ x.kind # "mark" BY <1>0, <1>1, <2>14, <3>1, ReceivedFacts
    <3>3. Holds(r, {"Reserved", "CommitStarted"})' BY <2>12, EitherStateNext, Zenon
    <3> QED BY <1>1, <1>2, <2>14, <3>2, <3>3, UpdatedCommand, Zenon
  <2>15. EnvelopeOK' BY <1>1, Zenon DEF EnvelopeOK
  <2> QED BY <1>1, <1>2, <2>7, <2>11, <2>13, <2>14, <2>15, ReceivedStep, Zenon
<1> QED BY <1>4, <1>5, <1>6

(* A completed request gets its verdict if it still waits for it. *)
LEMMA CompletedTask ==
    ASSUME NEW r \in Requests, TaskOK(r), ClientOK(r), pc[r] \in {"finishing", "completing", "done"},
           UNCHANGED <<pc, progress, answer, did>>, NEW o \in {"succeeded", "failed"},
           o = "succeeded" => r \in did, reply'[r] \in {o, reply[r]}
    PROVE  TaskOK(r)' /\ ClientOK(r)'
<1>1. TaskOK(r)' BY Zenon DEF TaskOK
<1>2. ClientOK(r)' BY DEF ClientOK, Mutated
<1> QED BY <1>1, <1>2, Zenon

(* A verdict is recorded for the request that reached it, and it is true. *)
LEMMA RecvCompleteKeeps == ASSUME IndInv, RecvComplete PROVE IndInv'
<1>0. PICK r, o : r = Head(commands).client /\ o = Head(commands).outcome OBVIOUS
<1>1. /\ Received("complete") /\ UNCHANGED <<controls, deferred, pc, progress, answer, did>>
      /\ worker' = "top"
  BY DEF RecvComplete, handlers
<1>2. /\ r \in Requests /\ r \in Clients /\ pc[r] \in {"finishing", "completing", "done"}
      /\ pc[r] # "done" => Holds(r, {"Reserved", "CommitStarted"})
      /\ o \in {"succeeded", "failed"} /\ (o = "succeeded" <=> r \in did)
  BY <1>0, <1>1, ReceivedFacts, Zenon DEF CommandOK, Clients
<1>3. Update(r, complete_operation(r, o), o, {"finishing", "completing"})
  BY <1>0 DEF RecvComplete
<1>4. CASE Fault
  <2>1. reply' = reply \/ reply' = [reply EXCEPT ![r] = "error"]
    BY <1>3, <1>4 DEF Update, Reply, Fault, NoFault
  <2> QED BY <1>1, <1>2, <1>4, <2>1, QuietUpdate DEF Fault
<1>5. CASE ~Holds(r, {"Reserved", "CommitStarted"})
  <2>1. complete_operation(r, o) = rows BY <1>5 DEF complete_operation
  <2>2. UNCHANGED store /\ (reply' = reply \/ reply' = [reply EXCEPT ![r] = "error"])
    BY <1>2, <1>3, <1>5, <2>1, Zenon DEF Update, Reply, Fault, store
  <2> QED BY <1>1, <1>2, <2>2, QuietUpdate
<1>6. CASE Holds(r, {"Reserved", "CommitStarted"}) /\ ~Fault
  <2>1. StoreTypes /\ RowsOK /\ TaskTypes /\ TaskOK(r) /\ ClientOK(r)
    BY <1>2 DEF IndInv, TasksOK, ClientsOK
  <2>2. PICK row : row = Row("Completed", r, o) OBVIOUS
  <2>3. rows[Key[r]].state \in {"Reserved", "CommitStarted"} /\ rows[Key[r]].lease = r
    BY <1>6 DEF Holds
  <2>4. o \in Terminal /\ o \in Replies BY <1>2, Zenon DEF Terminal, Replies, BeginReplies
  <2>5. row \in RowSet /\ row.state = "Completed" /\ row.lease = r /\ row.outcome = o
    BY <1>2, <2>2, <2>4, RowFacts
  <2>6. complete_operation(r, o) = [rows EXCEPT ![Key[r]] = row]
    BY <1>6, <2>2 DEF complete_operation
  <2>7. rows' = [rows EXCEPT ![Key[r]] = row] /\ UNCHANGED <<applied, expired>>
    BY <1>3, <1>6, <2>6 DEF Update
  <2>8. /\ StoreTypes' /\ RowsOK' /\ rows'[Key[r]] = row /\ \A c \in Requests : c # r => Kept(c)
    BY <1>1, <1>2, <2>1, <2>3, <2>4, <2>5, <2>7, UpdateRow, Zenon
  <2>9. complete_operation(r, o) # rows BY <2>3, <2>5, <2>6, <2>7, <2>8
  <2>10. reply' = IF pc[r] # "done" THEN [reply EXCEPT ![r] = o] ELSE reply
    BY <1>2, <1>3, <1>6, <2>9 DEF Update, Reply
  <2>11. /\ reply' \in [Clients -> Replies] /\ reply'[r] \in {o, reply[r]}
         /\ \A c \in Clients : c # r => reply'[c] = reply[c]
    BY <1>2, <2>1, <2>4, <2>10, ReplyFacts, Zenon
  <2>12. TaskOK(r)' /\ ClientOK(r)' BY <1>1, <1>2, <2>1, <2>11, CompletedTask, Zenon
  <2>13. ASSUME NEW x \in {commands[i] : i \in 2..Len(commands)}, x.kind \in Once, x.client = r
         PROVE  CommandOK(x)'
    <3>1. "complete" \in Once BY Zenon DEF Once
    <3>2. CommandOK(x) /\ x.kind # "complete" BY <1>0, <1>1, <2>13, <3>1, ReceivedFacts
    <3> QED BY <1>1, <1>2, <2>13, <3>2, UpdatedCommand, Zenon
  <2>14. EnvelopeOK' BY <1>1 DEF EnvelopeOK
  <2> QED BY <1>1, <1>2, <2>8, <2>11, <2>12, <2>13, <2>14, ReceivedStep, Zenon
<1> QED BY <1>4, <1>5, <1>6

=============================================================================
