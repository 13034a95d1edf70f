-------------------------- MODULE OperationProofs ---------------------------
(***************************************************************************)
(* The correctness of the operation registry: the handlers, their detached *)
(* tasks, the HTTP deadline and the status queries keep the inductive      *)
(* invariant of OperationRules, a settled operation stays visible to the   *)
(* queries that follow, the table stays within its capacity, and the       *)
(* theorems follow.                                                        *)
(***************************************************************************)
EXTENDS OperationRules, FiniteSetTheorems

(* What the handler of r needs in order to be at p with this reply, answer *)
(* and progress while the table and the filesystem stay as they are.       *)
TaskAt(r, p, rep, ans, prog) ==
    /\ p \in Places /\ rep \in Replies /\ ans \in Answers
    /\ prog \in {"PREFLIGHT", "RESERVED", "DETACHED_COMMIT"}
    /\ p # "status" /\ p # "idle" /\ rep # "lost"
    /\ p \in {"reserved", "prepare"} => Holds(r, {"Reserved"})
    /\ p = "begin" /\ rep = "started" => Holds(r, {"Reserved"})
    /\ p = "marking" => Holds(r, {"Reserved"}) \/ Holds(r, {"CommitStarted"})
    /\ p = "commit" => Holds(r, {"CommitStarted"})
    /\ rep = "changed" => p = "marking" /\ Holds(r, {"CommitStarted"})
    /\ p \in Detached => prog = "DETACHED_COMMIT"
    /\ r \in did => p \in {"completing", "done"}
    /\ ans = "rejected" => p = "done" /\ r \notin did
    /\ ans = "unknown" => p \in Detached \cup {"done"}
    /\ rep = "succeeded" \/ ans = "succeeded" => Mutated(r)

(* A handler that gets to such a place keeps the invariant. *)
LEMMA PlainStep ==
    ASSUME IndInv, NEW r \in Requests, NEW p, NEW rep, NEW ans, NEW prog,
           pc' = [pc EXCEPT ![r] = p], reply' = [reply EXCEPT ![r] = rep],
           answer' = [answer EXCEPT ![r] = ans], progress' = [progress EXCEPT ![r] = prog],
           UNCHANGED <<store, did, actor>>, TaskAt(r, p, rep, ans, prog),
           Sends(r, p), Forward(pc[r], p),
           pc[r] = "begin" /\ reply[r] = "none" => p = "done"
    PROVE  IndInv'
<1>1. /\ StoreTypes /\ TaskTypes /\ RowOK(Key[r])
  BY KeyAssumption DEF IndInv, RowsOK, Clients
<1>2. /\ rows' = rows /\ applied' = applied /\ expired' = expired /\ did' = did
      /\ deferred' = deferred /\ worker' = worker /\ envelope' = envelope
  BY DEF store, actor
<1>3. r \in Clients BY DEF Clients
<1>4. /\ pc'[r] = p /\ reply'[r] = rep /\ answer'[r] = ans /\ progress'[r] = prog
      /\ TaskTypes'
  BY <1>1, <1>3 DEF TaskTypes, TaskAt
<1>5. HandlerFrame(r, p)
  BY <1>1, <1>2, <1>3 DEF HandlerFrame, TaskTypes
<1>6. StoreTypes' BY <1>1, <1>2 DEF StoreTypes
<1>7. RowOK(Key[r])' BY <1>1, <1>2 DEF RowOK
<1>8. TaskOK(r)' BY <1>2, <1>4 DEF TaskOK, TaskAt, Holds
<1>9. ClientOK(r)' BY <1>2, <1>4 DEF ClientOK, TaskAt, Mutated
<1> QED BY <1>2, <1>4, <1>5, <1>6, <1>7, <1>8, <1>9, HandlerStep

(* What a handler knows of its own request before it takes a step. *)
LEMMA OwnPart ==
    ASSUME IndInv, NEW r \in Requests
    PROVE  /\ r \in Clients /\ pc[r] \in Places /\ reply[r] \in Replies /\ answer[r] \in Answers
           /\ progress[r] \in {"PREFLIGHT", "RESERVED", "DETACHED_COMMIT"}
           /\ pc = [pc EXCEPT ![r] = pc[r]] /\ reply = [reply EXCEPT ![r] = reply[r]]
           /\ answer = [answer EXCEPT ![r] = answer[r]]
           /\ progress = [progress EXCEPT ![r] = progress[r]]
           /\ TaskOK(r) /\ ClientOK(r)
           /\ \A i \in 1..Len(commands) : commands[i] \in Commands /\ CommandOK(commands[i])
BY DEF IndInv, TaskTypes, QueueTypes, TasksOK, ClientsOK, QueueOK, Clients

(* The response a handler leaves, unless its client was answered before. *)
LEMMA AnswerValue ==
    ASSUME IndInv, NEW r \in Requests, NEW a, Answer(r, a)
    PROVE  \/ answer[r] = "none" /\ answer' = [answer EXCEPT ![r] = a]
           \/ answer[r] # "none" /\ answer' = [answer EXCEPT ![r] = answer[r]]
BY OwnPart DEF Answer

(* A handler that returns: it answers a, unless it was answered before. *)
LEMMA EndStep ==
    ASSUME IndInv, NEW r \in Requests, NEW rep, NEW a,
           pc' = [pc EXCEPT ![r] = "done"], reply' = [reply EXCEPT ![r] = rep], Answer(r, a),
           UNCHANGED <<store, did, actor, progress>>, Sends(r, "done"), pc[r] # "done",
           TaskAt(r, "done", rep, a, progress[r]),
           TaskAt(r, "done", rep, answer[r], progress[r])
    PROVE  IndInv'
<1>1. progress' = [progress EXCEPT ![r] = progress[r]] BY OwnPart
<1>2. Forward(pc[r], "done") BY DEF Forward
<1>3. CASE answer' = [answer EXCEPT ![r] = a] BY <1>1, <1>2, <1>3, PlainStep, Zenon
<1>4. CASE answer' = [answer EXCEPT ![r] = answer[r]] BY <1>1, <1>2, <1>4, PlainStep, Zenon
<1> QED BY <1>3, <1>4, AnswerValue

(* A command that a handler at this place has not sent before. *)
LEMMA FreshCommand ==
    ASSUME IndInv, NEW r \in Requests, NEW kind, NEW outcome \in Terminal \cup {"none"},
           \/ kind = "begin" /\ pc[r] = "idle"
           \/ kind = "mark" /\ pc[r] = "prepare"
           \/ kind = "complete" /\ pc[r] \in {"reserved", "prepare", "commit"},
           Send(Command(kind, r, outcome)), CommandOK(Command(kind, r, outcome))', NEW p
    PROVE  Sends(r, p)
<1> DEFINE c == Command(kind, r, outcome)
<1>1. c.kind = kind /\ c.client = r /\ c \in Commands
  BY DEF Command, Commands, Clients
<1>2. \A i \in 1..Len(commands) : commands[i].kind = kind => commands[i].client # r
  BY OwnPart DEF CommandOK
<1> QED BY <1>1, <1>2 DEF Sends

-----------------------------------------------------------------------------
(* One lemma per step of a handler. *)
LEMMA BeginKeeps == ASSUME IndInv, NEW r \in Requests, Begin(r) PROVE IndInv'
<1>1. /\ pc[r] = "idle" /\ UNCHANGED <<store, did, actor, progress>>
      /\ reply' = [reply EXCEPT ![r] = reply[r]] /\ progress' = [progress EXCEPT ![r] = progress[r]]
  BY OwnPart DEF Begin
<1>2. TaskOK(r) /\ ClientOK(r) /\ r \in Clients /\ pc \in [Clients -> Places]
      /\ reply \in [Clients -> Replies]
  BY OwnPart DEF IndInv, TaskTypes
<1>3. CASE Send(Command("begin", r, "none")) /\ pc' = [pc EXCEPT ![r] = "begin"] /\ answer' = answer
  <2>1. CommandOK(Command("begin", r, "none"))'
    BY <1>1, <1>2, <1>3 DEF CommandOK, Command, TaskOK
  <2>2. Sends(r, "begin") BY <1>1, <1>3, <2>1, FreshCommand
  <2>3. TaskAt(r, "begin", reply[r], answer[r], progress[r])
    BY <1>1, <1>2, OwnPart DEF TaskOK, ClientOK, TaskAt, Places, Droppable, Detached
  <2>4. Forward(pc[r], "begin") BY <1>1 DEF Forward
  <2>5. answer' = [answer EXCEPT ![r] = answer[r]] BY <1>3, OwnPart
  <2> QED BY <1>1, <1>3, <2>2, <2>3, <2>4, <2>5, PlainStep, Zenon
<1>4. CASE UNCHANGED queues /\ pc' = [pc EXCEPT ![r] = "done"] /\ Answer(r, "rejected")
  <2>1. Sends(r, "done") BY <1>4 DEF Sends
  <2>2. /\ TaskAt(r, "done", reply[r], "rejected", progress[r])
        /\ TaskAt(r, "done", reply[r], answer[r], progress[r])
    BY <1>1, <1>2, OwnPart, Zenon DEF TaskOK, ClientOK, TaskAt, Places, Answers, Detached
  <2> QED BY <1>1, <1>4, <2>1, <2>2, EndStep, Zenon
<1> QED BY <1>3, <1>4 DEF Begin, Goto

(* The reply of begin_operation is read. *)
LEMMA BegunKeeps == ASSUME IndInv, NEW r \in Requests, Begun(r) PROVE IndInv'
<1>1. /\ pc[r] = "begin" /\ reply[r] # "none" /\ UNCHANGED <<store, did, actor>>
      /\ reply' = [reply EXCEPT ![r] = "none"] /\ UNCHANGED queues
  BY DEF Begun
<1>2. TaskOK(r) /\ ClientOK(r) /\ \A p : Sends(r, p)
  BY <1>1, OwnPart DEF Sends
<1>3. CASE /\ reply[r] = "started" /\ pc' = [pc EXCEPT ![r] = "reserved"]
           /\ progress' = [progress EXCEPT ![r] = "RESERVED"] /\ answer' = answer
  <2>1. TaskAt(r, "reserved", "none", answer[r], "RESERVED")
    BY <1>1, <1>2, <1>3, OwnPart DEF TaskOK, ClientOK, TaskAt, Places, Droppable, Detached, Replies
  <2>2. Forward(pc[r], "reserved") BY <1>1 DEF Forward
  <2>3. answer' = [answer EXCEPT ![r] = answer[r]] BY <1>3, OwnPart
  <2> QED BY <1>1, <1>2, <1>3, <2>1, <2>2, <2>3, PlainStep, Zenon
<1>4. CASE /\ reply[r] # "started" /\ pc' = [pc EXCEPT ![r] = "done"]
           /\ progress' = progress /\ Answer(r, Refusal(reply[r]))
  <2>1. /\ TaskAt(r, "done", "none", Refusal(reply[r]), progress[r])
        /\ TaskAt(r, "done", "none", answer[r], progress[r])
    BY <1>1, <1>2, OwnPart
    DEF TaskOK, ClientOK, TaskAt, Refusal, Places, Answers, Replies, Detached
  <2> QED BY <1>1, <1>2, <1>4, <2>1, EndStep, Zenon
<1> QED BY <1>3, <1>4 DEF Begun, Goto

(* A request gives up before it runs its commit. *)
LEMMA GiveUpKeeps == ASSUME IndInv, NEW r \in Requests, GiveUp(r) PROVE IndInv'
<1>1. /\ pc[r] = "reserved" /\ UNCHANGED <<store, did, actor, progress>>
      /\ reply' = [reply EXCEPT ![r] = reply[r]] /\ pc' = [pc EXCEPT ![r] = "done"]
      /\ Answer(r, "rejected") /\ send_control(r)
  BY OwnPart DEF GiveUp, Goto, DropGuard
<1>2. TaskOK(r) /\ ClientOK(r) /\ Sends(r, "done") BY <1>1, OwnPart DEF Sends
<1>3. /\ TaskAt(r, "done", reply[r], "rejected", progress[r])
      /\ TaskAt(r, "done", reply[r], answer[r], progress[r])
  BY <1>1, <1>2, OwnPart DEF TaskOK, ClientOK, TaskAt, Places, Answers, Detached
<1> QED BY <1>1, <1>2, <1>3, EndStep, Zenon

(* A request is refused while it prepares. *)
LEMMA RefuseKeeps == ASSUME IndInv, NEW r \in Requests, Refuse(r) PROVE IndInv'
<1>1. /\ pc[r] \in {"reserved", "prepare"} /\ UNCHANGED <<store, did, actor, progress>>
      /\ reply' = [reply EXCEPT ![r] = reply[r]] /\ progress' = [progress EXCEPT ![r] = progress[r]]
  BY OwnPart DEF Refuse
<1>2. TaskOK(r) /\ ClientOK(r) /\ r \in Clients /\ pc \in [Clients -> Places]
      /\ rows' = rows /\ did' = did
  BY <1>1, OwnPart DEF IndInv, TaskTypes, store
<1> DEFINE p == IF pc[r] = "reserved" THEN "finishing" ELSE "completing"
<1>3. CASE Send(Command("complete", r, "failed")) /\ pc' = [pc EXCEPT ![r] = p] /\ answer' = answer
  <2>1. pc'[r] = p /\ Holds(r, {"Reserved"}) /\ r \notin did
    BY <1>1, <1>2, <1>3 DEF TaskOK
  <2>2. CommandOK(Command("complete", r, "failed"))'
    BY <1>2, <2>1 DEF CommandOK, Command, Holds
  <2>3. Sends(r, p) BY <1>1, <1>3, <2>2, FreshCommand DEF Terminal
  <2>4. TaskAt(r, p, reply[r], answer[r], progress[r])
    BY <1>1, <1>2, OwnPart DEF TaskOK, ClientOK, TaskAt, Places, Droppable, Detached
  <2>5. Forward(pc[r], p) BY <1>1 DEF Forward
  <2>6. answer' = [answer EXCEPT ![r] = answer[r]] BY <1>3, OwnPart
  <2> QED BY <1>1, <1>3, <2>3, <2>4, <2>5, <2>6, PlainStep, Zenon
<1> DEFINE a == IF progress[r] = "DETACHED_COMMIT" THEN "unknown" ELSE "rejected"
<1>4. CASE send_control(r) /\ pc' = [pc EXCEPT ![r] = "done"] /\ Answer(r, a)
  <2>1. Sends(r, "done") BY <1>4 DEF Sends
  <2>2. /\ TaskAt(r, "done", reply[r], a, progress[r])
        /\ TaskAt(r, "done", reply[r], answer[r], progress[r])
    BY <1>1, <1>2, OwnPart
    DEF TaskOK, ClientOK, TaskAt, Places, Answers, Replies, BeginReplies, Terminal, Detached
  <2> QED BY <1>1, <1>4, <2>1, <2>2, EndStep, Zenon
<1> QED BY <1>3, <1>4 DEF Refuse, Goto, DropGuard

(* run_commit_inner detaches the task from the deadline, *)
LEMMA RunCommitKeeps == ASSUME IndInv, NEW r \in Requests, run_commit_inner(r) PROVE IndInv'
<1>1. /\ pc[r] = "reserved" /\ UNCHANGED <<store, did, actor>> /\ UNCHANGED queues
      /\ reply' = [reply EXCEPT ![r] = reply[r]] /\ answer' = [answer EXCEPT ![r] = answer[r]]
      /\ pc' = [pc EXCEPT ![r] = "prepare"]
      /\ progress' = [progress EXCEPT ![r] = "DETACHED_COMMIT"]
  BY OwnPart DEF run_commit_inner, Goto
<1>2. TaskOK(r) /\ ClientOK(r) /\ Sends(r, "prepare") BY <1>1, OwnPart DEF Sends
<1>3. TaskAt(r, "prepare", reply[r], answer[r], "DETACHED_COMMIT")
  BY <1>1, <1>2, OwnPart DEF TaskOK, ClientOK, TaskAt, Places, Detached
<1>4. Forward(pc[r], "prepare") BY <1>1 DEF Forward
<1> QED BY <1>1, <1>2, <1>3, <1>4, PlainStep, Zenon

(* asks for the row to be marked before it mutates, *)
LEMMA MarkKeeps == ASSUME IndInv, NEW r \in Requests, MarkCommitStarted(r) PROVE IndInv'
<1>1. /\ pc[r] = "prepare" /\ UNCHANGED <<store, did, actor, progress>>
      /\ reply' = [reply EXCEPT ![r] = reply[r]] /\ progress' = [progress EXCEPT ![r] = progress[r]]
  BY OwnPart DEF MarkCommitStarted
<1>2. TaskOK(r) /\ ClientOK(r) /\ r \in Clients /\ pc \in [Clients -> Places] /\ rows' = rows
  BY <1>1, OwnPart DEF IndInv, TaskTypes, store
<1>3. CASE Send(Command("mark", r, "none")) /\ pc' = [pc EXCEPT ![r] = "marking"] /\ answer' = answer
  <2>1. pc'[r] = "marking" /\ Holds(r, {"Reserved"})
    BY <1>1, <1>2, <1>3 DEF TaskOK
  <2>2. CommandOK(Command("mark", r, "none"))'
    BY <1>2, <2>1 DEF CommandOK, Command, Holds
  <2>3. Sends(r, "marking") BY <1>1, <1>3, <2>2, FreshCommand
  <2>4. TaskAt(r, "marking", reply[r], answer[r], progress[r])
    BY <1>1, <1>2, OwnPart DEF TaskOK, ClientOK, TaskAt, Places, Detached
  <2>5. Forward(pc[r], "marking") BY <1>1 DEF Forward
  <2>6. answer' = [answer EXCEPT ![r] = answer[r]] BY <1>3, OwnPart
  <2> QED BY <1>1, <1>3, <2>3, <2>4, <2>5, <2>6, PlainStep, Zenon
<1>4. CASE send_control(r) /\ pc' = [pc EXCEPT ![r] = "done"] /\ Answer(r, "unknown")
  <2>1. Sends(r, "done") BY <1>4 DEF Sends
  <2>2. /\ TaskAt(r, "done", reply[r], "unknown", progress[r])
        /\ TaskAt(r, "done", reply[r], answer[r], progress[r])
    BY <1>1, <1>2, OwnPart
    DEF TaskOK, ClientOK, TaskAt, Places, Answers, Replies, BeginReplies, Terminal, Detached
  <2> QED BY <1>1, <1>4, <2>1, <2>2, EndStep, Zenon
<1> QED BY <1>3, <1>4 DEF MarkCommitStarted, Goto, DropGuard

(* and reads the reply. *)
LEMMA MarkedKeeps == ASSUME IndInv, NEW r \in Requests, Marked(r) PROVE IndInv'
<1>1. /\ pc[r] = "marking" /\ UNCHANGED <<store, did, actor, progress>>
      /\ reply' = [reply EXCEPT ![r] = "none"] /\ progress' = [progress EXCEPT ![r] = progress[r]]
  BY OwnPart DEF Marked
<1>2. TaskOK(r) /\ ClientOK(r) BY OwnPart
<1>3. CASE /\ reply[r] = "changed" /\ pc' = [pc EXCEPT ![r] = "commit"]
           /\ UNCHANGED queues /\ answer' = answer
  <2>1. TaskAt(r, "commit", "none", answer[r], progress[r])
    BY <1>1, <1>2, <1>3, OwnPart DEF TaskOK, ClientOK, TaskAt, Places, Detached, Replies
  <2>2. Forward(pc[r], "commit") /\ Sends(r, "commit") BY <1>1, <1>3 DEF Forward, Sends
  <2>3. answer' = [answer EXCEPT ![r] = answer[r]] BY <1>3, OwnPart
  <2> QED BY <1>1, <1>3, <2>1, <2>2, <2>3, PlainStep, Zenon
<1>4. CASE send_control(r) /\ pc' = [pc EXCEPT ![r] = "done"] /\ Answer(r, "unknown")
  <2>1. Sends(r, "done") BY <1>4 DEF Sends
  <2>2. /\ TaskAt(r, "done", "none", "unknown", progress[r])
        /\ TaskAt(r, "done", "none", answer[r], progress[r])
    BY <1>1, <1>2, OwnPart
    DEF TaskOK, ClientOK, TaskAt, Places, Answers, Replies, BeginReplies, Terminal, Detached
  <2> QED BY <1>1, <1>4, <2>1, <2>2, EndStep, Zenon
<1> QED BY <1>3, <1>4 DEF Marked, Goto, DropGuard

(* The reply to the verdict it sent ends the request. *)
LEMMA CompletedKeeps == ASSUME IndInv, NEW r \in Requests, Completed(r) PROVE IndInv'
<1>1. /\ pc[r] \in {"finishing", "completing"} /\ UNCHANGED <<store, did, actor, progress>>
      /\ reply' = [reply EXCEPT ![r] = "none"] /\ pc' = [pc EXCEPT ![r] = "done"]
  BY DEF Completed, Goto
<1>2. TaskOK(r) /\ ClientOK(r) BY OwnPart
<1>3. TaskAt(r, "done", "none", answer[r], progress[r])
  BY <1>1, <1>2, OwnPart DEF TaskOK, ClientOK, TaskAt, Places, Replies, Detached
<1>4. CASE reply[r] \in Terminal /\ Answer(r, reply[r]) /\ UNCHANGED queues
  <2>1. TaskAt(r, "done", "none", reply[r], progress[r])
    BY <1>1, <1>2, <1>4, OwnPart
    DEF TaskOK, ClientOK, TaskAt, Places, Answers, Replies, Terminal, Detached
  <2>2. Sends(r, "done") BY <1>4 DEF Sends
  <2> QED BY <1>1, <1>3, <1>4, <2>1, <2>2, EndStep, Zenon
<1> DEFINE a == IF pc[r] = "completing" THEN "unknown" ELSE "rejected"
<1>5. CASE send_control(r) /\ Answer(r, a)
  <2>1. TaskAt(r, "done", "none", a, progress[r])
    BY <1>1, <1>2, OwnPart, Zenon
    DEF TaskOK, ClientOK, TaskAt, Places, Answers, Replies, BeginReplies, Terminal, Detached
  <2>2. Sends(r, "done") BY <1>5, Zenon DEF Sends
  <2> QED BY <1>1, <1>3, <1>5, <2>1, <2>2, EndStep, Zenon
<1> QED BY <1>4, <1>5 DEF Completed, DropGuard

(* The deadline drops a request, or answers for one that is detached. *)
LEMMA TimeoutKeeps == ASSUME IndInv, NEW r \in Requests, Timeout(r) PROVE IndInv'
<1> DEFINE a == IF progress[r] = "DETACHED_COMMIT" THEN "unknown" ELSE "rejected"
<1>1. /\ UNCHANGED <<store, did, actor>> /\ answer' = [answer EXCEPT ![r] = a]
      /\ progress' = [progress EXCEPT ![r] = progress[r]]
  BY OwnPart DEF Timeout
<1>2. TaskOK(r) /\ ClientOK(r) BY OwnPart
<1>3. CASE pc[r] \in Detached /\ UNCHANGED <<queues, pc, reply>>
  <2>1. pc' = [pc EXCEPT ![r] = pc[r]] /\ reply' = [reply EXCEPT ![r] = reply[r]]
    BY <1>3, OwnPart, Zenon
  <2>2. TaskAt(r, pc[r], reply[r], a, progress[r])
    BY <1>2, <1>3, OwnPart
    DEF TaskOK, ClientOK, TaskAt, Answers, Replies, BeginReplies, Terminal, Detached
  <2>3. Sends(r, pc[r]) /\ Forward(pc[r], pc[r]) /\ pc[r] # "begin"
    BY <1>3 DEF Sends, Forward, Detached
  <2> QED BY <1>1, <2>1, <2>2, <2>3, PlainStep, Zenon
<1>4. CASE /\ pc[r] \in Droppable /\ pc' = [pc EXCEPT ![r] = "done"]
           /\ reply' = [reply EXCEPT ![r] = "none"]
           /\ send_control(r) \/ UNCHANGED queues
  <2>1. TaskAt(r, "done", "none", a, progress[r])
    BY <1>2, <1>4, OwnPart, Zenon
    DEF TaskOK, ClientOK, TaskAt, Answers, Replies, BeginReplies, Terminal, Detached, Droppable, Places
  <2>2. Sends(r, "done") /\ Forward(pc[r], "done") BY <1>4 DEF Sends, Forward, Droppable
  <2> QED BY <1>1, <1>4, <2>1, <2>2, PlainStep, Zenon
<1> QED BY <1>3, <1>4 DEF Timeout, Goto

(* The mutation itself. *)
LEMMA CommitKeeps == ASSUME IndInv, NEW r \in Requests, Commit(r) PROVE IndInv'
<1>1. pc[r] = "commit" /\ UNCHANGED <<rows, expired, deferred, worker, envelope, progress, reply>>
  BY DEF Commit, actor
<1>2. PICK happened \in BOOLEAN :
        /\ did' = IF happened THEN did \cup {r} ELSE did
        /\ applied' = IF happened THEN [applied EXCEPT ![Key[r]] = @ \cup {r}] ELSE applied
        /\ \/ /\ Send(Command("complete", r, IF happened THEN "succeeded" ELSE "failed"))
              /\ pc' = [pc EXCEPT ![r] = "completing"] /\ answer' = answer
           \/ send_control(r) /\ pc' = [pc EXCEPT ![r] = "done"] /\ Answer(r, "unknown")
  BY DEF Commit, Goto, DropGuard
<1>3. /\ StoreTypes /\ TaskTypes /\ RowOK(Key[r]) /\ TaskOK(r) /\ ClientOK(r)
      /\ r \in Clients /\ Key[r] \in Keys
  BY OwnPart, KeyAssumption DEF IndInv, RowsOK, Clients
<1>4. Holds(r, {"CommitStarted"}) /\ r \notin did /\ answer[r] # "rejected" /\ reply[r] # "changed"
  BY <1>1, <1>3 DEF TaskOK
<1>5. /\ \A k \in Keys : k # Key[r] => applied'[k] = applied[k]
      /\ applied'[Key[r]] = IF happened THEN applied[Key[r]] \cup {r} ELSE applied[Key[r]]
      /\ did \subseteq did' /\ did' \subseteq did \cup {r}
  BY <1>2, <1>3, Zenon DEF StoreTypes
<1>6. StoreTypes' BY <1>1, <1>2, <1>3, <1>5, Zenon DEF StoreTypes
<1>7. RowOK(Key[r])' BY <1>1, <1>2, <1>3, <1>4, <1>5 DEF RowOK, Holds
<1>8. PICK p \in {"completing", "done"}, a \in {answer[r], "unknown"} :
        pc' = [pc EXCEPT ![r] = p] /\ answer' = [answer EXCEPT ![r] = a]
  BY <1>2, OwnPart, AnswerValue
<1>9. pc'[r] = p /\ answer'[r] = a /\ reply'[r] = reply[r] /\ progress'[r] = progress[r]
  BY <1>1, <1>3, <1>8 DEF TaskTypes
<1>10. TaskTypes'
  BY <1>1, <1>3, <1>8, OwnPart, Zenon
  DEF TaskTypes, Places, Detached, Answers, Replies, BeginReplies, Terminal
<1>11. HandlerFrame(r, p)
  BY <1>1, <1>3, <1>5, <1>8, Zenon DEF HandlerFrame, TaskTypes
<1>12. TaskOK(r)'
  BY <1>1, <1>3, <1>4, <1>8, <1>9, Zenon DEF TaskOK, Detached
<1>13. ClientOK(r)'
  BY <1>3, <1>5, <1>8, <1>9 DEF ClientOK, Mutated
<1>14. Sends(r, p)
  <2> DEFINE outcome == IF happened THEN "succeeded" ELSE "failed"
  <2>1. CASE Send(Command("complete", r, outcome)) /\ pc' = [pc EXCEPT ![r] = "completing"]
    <3>1. /\ pc'[r] = "completing" /\ rows' = rows /\ outcome \in Terminal
          /\ outcome = "succeeded" <=> r \in did'
      BY <1>1, <1>2, <1>3, <1>4, <2>1, Zenon DEF TaskTypes, Terminal
    <3>2. CommandOK(Command("complete", r, outcome))'
      BY <1>4, <3>1 DEF CommandOK, Command, Holds
    <3> QED BY <1>1, <2>1, <3>1, <3>2, FreshCommand, Zenon
  <2>2. CASE send_control(r) /\ pc' = [pc EXCEPT ![r] = "done"]
    <3>1. p = "done" BY <1>3, <1>9, <2>2 DEF TaskTypes
    <3> QED BY <2>2, <3>1 DEF Sends
  <2> QED BY <1>2, <2>1, <2>2
<1>15. Forward(pc[r], p) /\ pc[r] # "begin" BY <1>1 DEF Forward
<1> QED BY <1>1, <1>6, <1>7, <1>10, <1>11, <1>12, <1>13, <1>14, <1>15, HandlerStep, Zenon

(* Every step of a handler keeps the invariant. *)
LEMMA HandlerKeeps == ASSUME IndInv, NEW r \in Requests, Handler(r) \/ Timeout(r) PROVE IndInv'
BY BeginKeeps, BegunKeeps, GiveUpKeeps, RefuseKeeps, RunCommitKeeps, MarkKeeps, MarkedKeeps,
   CommitKeeps, CompletedKeeps, TimeoutKeeps, Zenon DEF Handler

-----------------------------------------------------------------------------
(* Status queries and polls. *)

(* A step of no request that may add a command of its own to the queue. *)
LEMMA QueryStep ==
    ASSUME IndInv, UNCHANGED <<store, did, actor, progress>>, TaskTypes', ClientsOK',
           \A r \in Requests : pc'[r] = pc[r] /\ reply'[r] = reply[r] /\ answer'[r] = answer[r],
           \/ UNCHANGED queues
           \/ \E c \in Commands : Send(c) /\ c.kind \notin Once /\ CommandOK(c)'
    PROVE  IndInv'
<1>1. UNCHANGED <<rows, applied, expired, deferred, worker, envelope, did, progress>>
  BY DEF store, actor
<1>2. StoreTypes' /\ RowsOK' BY <1>1, Zenon DEF IndInv, StoreTypes, RowsOK, RowOK
<1>3. TasksOK'
  <2> SUFFICES ASSUME NEW r \in Requests PROVE TaskOK(r)' BY Zenon DEF TasksOK
  <2>1. TaskOK(r) BY Zenon DEF IndInv, TasksOK
  <2> QED BY <1>1, <2>1 DEF TaskOK, Holds
<1>5. \A x \in Commands : CommandOK(x) => CommandOK(x)' BY <1>1 DEF CommandOK, Holds
<1>6. QueueTypes /\ QueueOK /\ Unique /\ ControlsOK /\ EnvelopeOK BY DEF IndInv
<1>7. /\ commands \in Seq(Commands) /\ Len(commands) \in Nat
      /\ \A i \in 1..Len(commands) : commands[i] \in Commands
      /\ \A i \in 1..Len(controls) : controls[i] \in Requests
      /\ \A i \in 1..Len(deferred) : deferred[i] \in Requests
  BY <1>6 DEF QueueTypes
<1>8. controls' = controls BY DEF queues, Send
<1>9. ControlsOK' BY <1>1, <1>6, <1>7, <1>8, Zenon DEF ControlsOK
<1>10. CASE commands' = commands
  <2>1. QueueTypes' /\ QueueOK' /\ Unique'
    BY <1>1, <1>5, <1>6, <1>7, <1>8, <1>10, Zenon DEF QueueTypes, QueueOK, Unique
  <2>2. EnvelopeOK' BY <1>1, <1>6, <1>10, Zenon DEF EnvelopeOK, Holds, Mutated, NoBegin
  <2> QED BY <1>2, <1>3, <1>9, <2>1, <2>2, Zenon DEF IndInv
<1>11. ASSUME NEW c \in Commands, Send(c), c.kind \notin Once, CommandOK(c)' PROVE IndInv'
  <2>1. Len(commands) < QueueCapacity /\ commands' = Append(commands, c)
    BY <1>11 DEF Send, HasRoom
  <2>2. /\ commands' \in Seq(Commands) /\ Len(commands') = Len(commands) + 1
        /\ \A i \in 1..Len(commands) : commands'[i] = commands[i]
        /\ commands'[Len(commands) + 1] = c
    BY <1>7, <2>1, AppendFacts
  <2>3. QueueTypes' BY <1>1, <1>6, <1>7, <1>8, <2>1, <2>2, QueueAssumption DEF QueueTypes
  <2>4. QueueOK' /\ Unique' BY <1>5, <1>6, <1>11, <2>1, QueueGrows
  <2>5. ASSUME NEW r \in Requests, NoBegin(r) PROVE NoBegin(r)'
    <3>1. \A i \in 1..Len(commands') : i \in 1..Len(commands) \/ i = Len(commands) + 1
      BY <1>7, <2>2
    <3> QED BY <1>11, <2>2, <2>5, <3>1, Zenon DEF NoBegin, Once
  <2>6. EnvelopeOK'
    <3> SUFFICES ASSUME worker = "send" PROVE EnvelopeOK' BY <1>1 DEF EnvelopeOK
    <3>1. PICK e : e = envelope.client OBVIOUS
    <3>2. NoBegin(e)' /\ e = envelope'.client BY <1>1, <1>6, <2>5, <3>1, ZenonT(40) DEF EnvelopeOK
    <3> QED BY <1>1, <1>6, <3>1, <3>2, Zenon DEF EnvelopeOK, Holds, Mutated
  <2> QED BY <1>2, <1>3, <1>9, <2>3, <2>4, <2>6, Zenon DEF IndInv
<1> QED BY <1>10, <1>11 DEF queues

(* A status query is sent, or refused. *)
LEMMA AskKeeps == ASSUME IndInv, NEW q \in Queries, Ask(q) PROVE IndInv'
<1>1. /\ UNCHANGED <<store, did, actor, progress>> /\ reply' = reply
      /\ q \in Clients /\ q \notin Requests
  BY ClientsAssumption DEF Ask, Clients
<1>2. TaskTypes /\ ClientOK(q) BY <1>1 DEF IndInv, ClientsOK
<1>3. PICK p \in {"status", "done"}, a \in {answer[q], "unavailable"} :
        pc' = [pc EXCEPT ![q] = p] /\ answer' = [answer EXCEPT ![q] = a]
  BY <1>1, <1>2 DEF Ask, Goto, Answer, TaskTypes
<1>4. TaskTypes'
  BY <1>1, <1>2, <1>3 DEF TaskTypes, Places, Droppable, Answers
<1>5. ClientOK(q)' BY <1>1, <1>2, <1>3 DEF ClientOK, Mutated, TaskTypes
<1>6. \/ UNCHANGED queues
      \/ \E c \in Commands : Send(c) /\ c.kind \notin Once /\ CommandOK(c)'
  <2>1. CASE Send(Command("status", q, "none"))
    <3>1. /\ Command("status", q, "none") \in Commands
          /\ Command("status", q, "none").kind = "status"
          /\ Command("status", q, "none").client = q
      BY <1>1, Zenon DEF Command, Commands
    <3>2. CommandOK(Command("status", q, "none"))' BY DEF CommandOK, Command
    <3>3. Command("status", q, "none").kind \notin Once BY <3>1 DEF Once
    <3> QED BY <2>1, <3>1, <3>2, <3>3
  <2> QED BY <2>1 DEF Ask
<1>7. \A c \in Clients : c # q => pc'[c] = pc[c] /\ reply'[c] = reply[c] /\ answer'[c] = answer[c]
  BY <1>1, <1>2, <1>3 DEF TaskTypes
<1>8. ClientsOK' BY <1>1, <1>5, <1>7, Zenon DEF IndInv, ClientsOK, ClientOK, Mutated
<1> QED BY <1>1, <1>4, <1>6, <1>7, <1>8, QueryStep, Zenon DEF Clients

(* A status query is answered. *)
LEMMA ToldKeeps == ASSUME IndInv, NEW q \in Queries, Told(q) PROVE IndInv'
<1>1. /\ UNCHANGED <<store, did, actor, progress>> /\ UNCHANGED queues
      /\ pc' = [pc EXCEPT ![q] = "done"] /\ reply' = [reply EXCEPT ![q] = "none"]
      /\ q \in Clients /\ q \notin Requests
  BY ClientsAssumption DEF Told, Goto, Clients
<1>2. TaskTypes /\ ClientOK(q) BY <1>1 DEF IndInv, ClientsOK
<1>3. PICK a \in {answer[q], reply[q], "unavailable"} : answer' = [answer EXCEPT ![q] = a]
  BY <1>1, <1>2 DEF Told, Answer, TaskTypes
<1>4. TaskTypes' BY <1>1, <1>2, <1>3 DEF TaskTypes, Places, Answers, Replies
<1>5. ClientOK(q)' BY <1>1, <1>2, <1>3 DEF ClientOK, Mutated, TaskTypes
<1>6. \A c \in Clients : c # q => pc'[c] = pc[c] /\ reply'[c] = reply[c] /\ answer'[c] = answer[c]
  BY <1>1, <1>2, <1>3, Zenon DEF TaskTypes
<1>7. ClientsOK' BY <1>1, <1>5, <1>6, Zenon DEF IndInv, ClientsOK, ClientOK, Mutated
<1> QED BY <1>1, <1>4, <1>6, <1>7, QueryStep DEF Clients

(* The purge worker polls the actor. *)
LEMMA PollKeeps == ASSUME IndInv, SendPoll PROVE IndInv'
<1>1. /\ UNCHANGED <<store, did, actor, progress>> /\ UNCHANGED <<pc, reply, answer>> /\ Send(Poll)
  BY DEF SendPoll, handlers
<1>2. Poll \in Commands /\ Poll.kind \notin Once /\ CommandOK(Poll)'
  BY DEF Poll, Commands, Once, CommandOK
<1>3. TaskTypes' BY <1>1 DEF IndInv, TaskTypes
<1>4. ClientsOK' BY <1>1 DEF IndInv, ClientsOK, ClientOK, Mutated
<1> QED BY <1>1, <1>2, <1>3, <1>4, QueryStep

-----------------------------------------------------------------------------
(* A query remembers only requests of its key whose clients were told      *)
(* "unknown"; once it finds no record they are past their last mutation.   *)
Settled == {"completing", "done"}
FinalOK ==
    /\ asked \in [Queries -> SUBSET Requests]
    /\ \A q \in Queries : \A r \in asked[q] : Key[r] = Key[q] /\ answer[r] = "unknown"
    /\ \A q \in Queries : pc[q] = "idle" => reply[q] # "notfound" /\ answer[q] # "notfound"
    /\ \A q \in Queries : reply[q] = "notfound" \/ answer[q] = "notfound" =>
            \A r \in asked[q] : pc[r] \in Settled

(* What a step of one client does: it mutates only from "commit", does not *)
(* leave the settled places and does not change an answer that was given.  *)
OwnStep(c) ==
    /\ pc[c] \in Settled => pc'[c] \in Settled
    /\ answer[c] # "none" => answer'[c] = answer[c]
    /\ \A d \in Clients : d # c => pc'[d] = pc[d] /\ reply'[d] = reply[d] /\ answer'[d] = answer[d]
    /\ did' = did \/ (c \in Requests /\ pc[c] = "commit" /\ did' = did \cup {c})

(* Handlers take such steps only, *)
LEMMA HandlerOwn ==
    ASSUME TaskTypes, NEW r \in Requests, Handler(r) \/ Timeout(r)
    PROVE  OwnStep(r) /\ asked' = asked
<1>0. r \in Clients BY DEF Clients
<1>1. CASE Begin(r) BY <1>0, <1>1 DEF TaskTypes, OwnStep, Settled, Begin, Goto, Answer
<1>2. CASE Begun(r) BY <1>0, <1>2 DEF TaskTypes, OwnStep, Settled, Begun, Goto, Answer
<1>3. CASE GiveUp(r) BY <1>0, <1>3 DEF TaskTypes, OwnStep, Settled, GiveUp, Goto, Answer
<1>4. CASE Refuse(r) BY <1>0, <1>4 DEF TaskTypes, OwnStep, Settled, Refuse, Goto, Answer
<1>5. CASE run_commit_inner(r)
  BY <1>0, <1>5 DEF TaskTypes, OwnStep, Settled, run_commit_inner, Goto
<1>6. CASE MarkCommitStarted(r)
  BY <1>0, <1>6 DEF TaskTypes, OwnStep, Settled, MarkCommitStarted, Goto, Answer
<1>7. CASE Marked(r) BY <1>0, <1>7 DEF TaskTypes, OwnStep, Settled, Marked, Goto, Answer
<1>8. CASE Commit(r) BY <1>0, <1>8 DEF TaskTypes, OwnStep, Settled, Commit, Goto, Answer
<1>9. CASE Completed(r) BY <1>0, <1>9 DEF TaskTypes, OwnStep, Settled, Completed, Goto, Answer
<1>10. CASE Timeout(r) BY <1>0, <1>10 DEF TaskTypes, OwnStep, Settled, Timeout, Goto
<1> QED BY <1>1, <1>2, <1>3, <1>4, <1>5, <1>6, <1>7, <1>8, <1>9, <1>10, Zenon DEF Handler

(* and so do status queries. *)
LEMMA QueryOwn ==
    ASSUME TaskTypes, NEW q \in Queries, Ask(q) \/ Told(q)
    PROVE  OwnStep(q) /\ did' = did
<1>0. q \in Clients BY DEF Clients
<1>1. CASE Ask(q) BY <1>0, <1>1 DEF TaskTypes, OwnStep, Settled, Ask, Goto, Answer
<1>2. CASE Told(q) BY <1>0, <1>2 DEF TaskTypes, OwnStep, Settled, Told, Goto, Answer
<1> QED BY <1>1, <1>2

(* A status of "not found" is final. *)

(* The actor's replies other than those of RecvStatus go to requests. *)
LEMMA ActorReplies ==
    ASSUME IndInv, Actor, ~RecvStatus, NEW q \in Queries
    PROVE  reply'[q] = reply[q]
<1>0. reply \in [Clients -> Replies] /\ q \in Clients BY DEF IndInv, TaskTypes, Clients
<1>1. ASSUME NEW c \in Requests, NEW v, Reply(c, v) PROVE reply'[q] = reply[q]
  BY <1>0, <1>1, ClientsAssumption DEF Reply
<1>2. CASE retry_one_deferred_abandon BY <1>2, Zenon DEF retry_one_deferred_abandon
<1>3. CASE process_controls BY <1>3, Zenon DEF process_controls
<1>4. CASE RecvOther BY <1>4, Zenon DEF RecvOther
<1>5. CASE RecvBegin BY <1>5, Zenon DEF RecvBegin
<1>6. CASE SendBegun
  <2>1. envelope.client \in Requests BY <1>6, ZenonT(40) DEF IndInv, EnvelopeOK, SendBegun
  <2> QED BY <1>1, <1>6, <2>1, Zenon DEF SendBegun
<1>7. CASE RecvMark
  <2>1. Received("mark") /\ UNCHANGED <<controls, deferred>> BY <1>7, Zenon DEF RecvMark
  <2>2. Head(commands).client \in Requests BY <2>1, ReceivedFacts DEF CommandOK
  <2> QED BY <1>1, <1>7, <2>2, Zenon DEF RecvMark, Update
<1>8. CASE RecvComplete
  <2>1. Received("complete") /\ UNCHANGED <<controls, deferred>> BY <1>8, Zenon DEF RecvComplete
  <2>2. Head(commands).client \in Requests BY <2>1, ReceivedFacts DEF CommandOK
  <2> QED BY <1>1, <1>8, <2>2 DEF RecvComplete, Update
<1> QED BY <1>2, <1>3, <1>4, <1>5, <1>6, <1>7, <1>8, Zenon DEF Actor

(* A query that finds no record: no request it asks about holds one. *)
LEMMA StatusFinal ==
    ASSUME IndInv, IndInv', RecvStatus, NEW q \in Queries, reply'[q] = "notfound",
           reply[q] # "notfound", NEW r \in Requests, Key[r] = Key[q], answer[r] = "unknown"
    PROVE  pc[r] \in Settled
<1>1. reply \in [Clients -> Replies] /\ q \in Clients /\ Key[q] \in Keys
  BY KeyAssumption DEF IndInv, TaskTypes, Clients
<1>2. PICK c : c = Head(commands).client OBVIOUS
<1>3. PICK table : table = purge_expired(rows) BY Zenon
<1>4. c = q /\ rows' = table /\ operation_status(table, Key[q]) = "notfound"
  BY <1>1, <1>2, <1>3, Zenon DEF RecvStatus, Reply
<1>5. table[Key[q]] = NoRow \/ table[Key[q]] \in RowSet
  BY <1>1, <1>3 DEF IndInv, StoreTypes, purge_expired
<1>6. table[Key[q]] \in RowSet => table[Key[q]].outcome # "notfound" BY DEF RowSet, Terminal
<1>7. table[Key[q]] = NoRow BY <1>4, <1>5, <1>6, Zenon DEF operation_status
<1>8. rows'[Key[r]] = NoRow /\ NoRow.state = "Absent" BY <1>4, <1>7 DEF NoRow
<1>9. pc' = pc /\ answer' = answer BY Zenon DEF RecvStatus, handlers
<1>10. TaskOK(r)' BY DEF IndInv, TasksOK
<1>11. pc'[r] \in Detached \cup {"done"} /\ pc'[r] \notin {"prepare", "marking", "commit"}
  BY <1>8, <1>9, <1>10, Zenon DEF TaskOK, Holds
<1> QED BY <1>9, <1>11 DEF Detached, Settled
(* A step of one client disturbs no query but its own. *)
LEMMA FinalFrame ==
    ASSUME FinalOK, NEW c \in Clients, OwnStep(c), asked' \in [Queries -> SUBSET Requests],
           \A q \in Queries : q # c => asked'[q] = asked[q],
           c \in Queries =>
               /\ \A r \in asked'[c] : Key[r] = Key[c] /\ answer'[r] = "unknown"
               /\ pc'[c] = "idle" => reply'[c] # "notfound" /\ answer'[c] # "notfound"
               /\ reply'[c] = "notfound" \/ answer'[c] = "notfound" =>
                     \A r \in asked'[c] : pc'[r] \in Settled
    PROVE  FinalOK'
<1>1. \A d \in Clients : /\ pc[d] \in Settled => pc'[d] \in Settled
                         /\ answer[d] = "unknown" => answer'[d] = "unknown"
  BY DEF OwnStep
<1>2. \A q \in Queries : \A r \in asked'[q] : Key[r] = Key[q] /\ answer'[r] = "unknown"
  BY <1>1, Zenon DEF FinalOK, Clients
<1>3. \A q \in Queries : q # c => reply'[q] = reply[q] /\ answer'[q] = answer[q] /\ pc'[q] = pc[q]
  BY DEF OwnStep, Clients
<1>4. \A q \in Queries : pc'[q] = "idle" => reply'[q] # "notfound" /\ answer'[q] # "notfound"
  BY <1>3, Zenon DEF FinalOK
<1>5. \A q \in Queries : reply'[q] = "notfound" \/ answer'[q] = "notfound" =>
            \A r \in asked'[q] : pc'[r] \in Settled
  BY <1>1, <1>3 DEF FinalOK, Clients
<1> QED BY <1>2, <1>4, <1>5, Zenon DEF FinalOK

(* Nor does a step that changes nothing of the clients but their replies. *)
LEMMA FinalQuiet ==
    ASSUME FinalOK, UNCHANGED handlers,
           \A q \in Queries : reply'[q] = "notfound" /\ reply[q] # "notfound" =>
               pc[q] # "idle" /\ \A r \in asked[q] : pc[r] \in Settled
    PROVE  FinalOK'
<1>1. pc' = pc /\ answer' = answer /\ asked' = asked BY DEF handlers
<1> QED BY <1>1, Zenon DEF FinalOK

(* Every step keeps what is known of the requests a query asks about. *)
LEMMA FinalKept == ASSUME IndInv, IndInv', [Next]_vars, FinalOK PROVE FinalOK'
<1>0. TaskTypes /\ asked \in [Queries -> SUBSET Requests] BY Zenon DEF IndInv, FinalOK
<1>1. ASSUME NEW r \in Requests, Handler(r) \/ Timeout(r) PROVE FinalOK'
  <2>1. OwnStep(r) /\ asked' = asked BY <1>0, <1>1, HandlerOwn
  <2>2. r \in Clients /\ r \notin Queries BY ClientsAssumption DEF Clients
  <2> QED BY <1>0, <2>1, <2>2, FinalFrame
<1>2. ASSUME NEW q \in Queries, Ask(q) PROVE FinalOK'
  <2>1. OwnStep(q) /\ q \in Clients BY <1>0, <1>2, QueryOwn, Zenon DEF Clients
  <2>2. /\ asked' = [asked EXCEPT ![q] =
                       {r \in Requests : Key[r] = Key[q] /\ answer[r] = "unknown"}]
        /\ pc[q] = "idle" /\ reply' = reply
    BY <1>2 DEF Ask
  <2>3. /\ asked' \in [Queries -> SUBSET Requests]
        /\ \A p \in Queries : p # q => asked'[p] = asked[p]
        /\ \A r \in asked'[q] : r \in Requests /\ Key[r] = Key[q] /\ answer[r] = "unknown"
    BY <1>0, <2>2
  <2>4. \A r \in asked'[q] : answer'[r] = "unknown" BY <2>1, <2>3, Zenon DEF OwnStep, Clients
  <2>5. reply[q] # "notfound" /\ answer[q] # "notfound" BY <2>2 DEF FinalOK
  <2>6. answer'[q] # "notfound"
    <3>1. answer' = answer \/ answer' = [answer EXCEPT ![q] = "unavailable"]
      BY <1>2, Zenon DEF Ask, Answer
    <3> QED BY <1>0, <2>1, <2>5, <3>1 DEF TaskTypes
  <2> QED BY <2>1, <2>2, <2>3, <2>4, <2>5, <2>6, FinalFrame, Zenon
<1>3. ASSUME NEW q \in Queries, Told(q) PROVE FinalOK'
  <2>1. OwnStep(q) /\ q \in Clients BY <1>0, <1>3, QueryOwn, Zenon DEF Clients
  <2>2. asked' = asked /\ pc'[q] = "done" /\ reply'[q] = "none"
    BY <1>0, <1>3, <2>1, Zenon DEF Told, Goto, TaskTypes
  <2>3. answer'[q] = "notfound" => answer[q] = "notfound" \/ reply[q] = "notfound"
    BY <1>0, <1>3, <2>1, Zenon DEF Told, Answer, TaskTypes
  <2>4. \A r \in asked[q] : /\ Key[r] = Key[q] /\ answer'[r] = "unknown"
                            /\ pc[r] \in Settled => pc'[r] \in Settled
    BY <1>0, <2>1, Zenon DEF FinalOK, OwnStep, Clients
  <2>5. reply[q] = "notfound" \/ answer[q] = "notfound" => \A r \in asked[q] : pc[r] \in Settled
    BY DEF FinalOK
  <2> QED BY <1>0, <2>1, <2>2, <2>3, <2>4, <2>5, FinalFrame, Zenon
<1>4. CASE Actor /\ ~RecvStatus
  <2>1. UNCHANGED handlers
    BY <1>4, Zenon DEF Actor, retry_one_deferred_abandon, process_controls, RecvOther, RecvBegin,
                       SendBegun, RecvMark, RecvComplete
  <2>2. \A q \in Queries : reply'[q] = reply[q] BY <1>4, ActorReplies
  <2> QED BY <2>1, <2>2, FinalQuiet
<1>5. CASE RecvStatus
  <2>1. UNCHANGED handlers BY <1>5, Zenon DEF RecvStatus
  <2>2. ASSUME NEW q \in Queries, reply'[q] = "notfound", reply[q] # "notfound"
        PROVE  pc[q] # "idle" /\ \A r \in asked[q] : pc[r] \in Settled
    <3>1. \A r \in asked[q] : r \in Requests /\ Key[r] = Key[q] /\ answer[r] = "unknown"
      BY <1>0 DEF FinalOK
    <3>2. \A r \in asked[q] : pc[r] \in Settled BY <1>5, <2>2, <3>1, StatusFinal, Zenon
    <3>3. pc[q] = "status"
      BY <1>0, <1>5, <2>2 DEF RecvStatus, Reply, TaskTypes, Clients
    <3> QED BY <3>2, <3>3
  <2> QED BY <2>1, <2>2, FinalQuiet
<1>6. CASE SendPoll \/ UNCHANGED vars
  <2>1. UNCHANGED handlers /\ reply' = reply BY <1>6 DEF SendPoll, vars, handlers
  <2> QED BY <2>1, FinalQuiet
<1>7. ASSUME NEW k \in Keys, Expire(k) PROVE FinalOK'
  <2>1. UNCHANGED handlers /\ reply' = reply BY <1>7 DEF Expire
  <2> QED BY <2>1, FinalQuiet
<1>8. CASE Crash
  <2>1. /\ \A c \in Clients : pc'[c] = (IF pc[c] = "idle" THEN "idle" ELSE "done")
        /\ \A c \in Clients : reply'[c] = "none"
        /\ answer' = answer /\ asked' = asked
    BY <1>8 DEF Crash
  <2>2. ASSUME NEW q \in Queries, NEW r \in asked[q], pc[r] \in Settled PROVE pc'[r] \in Settled
    BY <1>0, <2>1, <2>2 DEF Settled, Clients
  <2> QED BY <1>0, <2>1, <2>2 DEF FinalOK, Clients
<1> QED BY <1>1, <1>2, <1>3, <1>4, <1>5, <1>6, <1>7, <1>8, Zenon DEF Next, Actor, Finished

(* No step but a reservation adds a record. *)
LEMMA TableGrows ==
    ASSUME IndInv, [Next]_vars
    PROVE  \/ \A k \in Keys : rows[k] = NoRow => rows'[k] = NoRow
           \/ \E r \in Requests :
                /\ BeginResult(purge_expired(rows), r) = "started"
                /\ rows' = [purge_expired(rows) EXCEPT ![Key[r]] = Row("Reserved", r, "none")]
<1> DEFINE Shrinks == \A k \in Keys : rows[k] = NoRow => rows'[k] = NoRow
<1>0. rows \in [Keys -> RowSet \cup {NoRow}] /\ NoRow.state = "Absent"
  BY DEF IndInv, StoreTypes, NoRow
<1>1. ASSUME rows' = rows PROVE Shrinks BY <1>1
<1>2. ASSUME NEW r, rows' = abandon_operation(r) PROVE Shrinks
  BY <1>0, <1>2 DEF abandon_operation, Holds
<1>3. ASSUME rows' = purge_expired(rows) PROVE Shrinks BY <1>3 DEF purge_expired
<1>4. ASSUME NEW r, NEW rest, AbandonOrDefer(r, rest) PROVE Shrinks
  BY <1>1, <1>2, <1>4 DEF AbandonOrDefer, Fault, store
<1>5. ASSUME NEW r \in Requests, Handler(r) \/ Timeout(r) PROVE rows' = rows
  BY <1>5, Zenon DEF Handler, Begin, Begun, GiveUp, Refuse, run_commit_inner, MarkCommitStarted,
                     Marked, Commit, Completed, Timeout, store
<1>6. ASSUME NEW q \in Queries, Ask(q) \/ Told(q) PROVE rows' = rows
  BY <1>6 DEF Ask, Told, store
<1>7. CASE retry_one_deferred_abandon
  BY <1>1, <1>4, <1>7, Zenon DEF retry_one_deferred_abandon, store
<1>8. CASE process_controls BY <1>1, <1>4, <1>8, Zenon DEF process_controls, store
<1>9. CASE SendBegun BY <1>1, <1>4, <1>9, Zenon DEF SendBegun, store
<1>10. CASE RecvOther \/ SendPoll BY <1>1, <1>10 DEF RecvOther, SendPoll, store
<1>11. CASE RecvStatus BY <1>1, <1>3, <1>11, Zenon DEF RecvStatus, Fault, store
<1>12. CASE RecvMark
  BY <1>0, <1>12, Zenon DEF RecvMark, Update, mark_operation_commit_started, Holds, Fault, store
<1>13. CASE RecvComplete
  BY <1>0, <1>13 DEF RecvComplete, Update, complete_operation, Holds, Fault, store
<1>14. CASE RecvBegin
  <2>1. PICK r : r = Head(commands).client BY Zenon
  <2>2. r \in Requests
    <3>1. Received("begin") /\ UNCHANGED <<controls, deferred>> BY <1>14 DEF RecvBegin
    <3> QED BY <2>1, <3>1, ReceivedFacts, Zenon DEF CommandOK
  <2>3. \/ rows' = rows \/ rows' = purge_expired(rows)
        \/ /\ BeginResult(purge_expired(rows), r) = "started"
           /\ rows' = [purge_expired(rows) EXCEPT ![Key[r]] = Row("Reserved", r, "none")]
    BY <1>14, <2>1, Zenon DEF RecvBegin, Fault, store
  <2> QED BY <1>1, <1>3, <2>2, <2>3
<1>15. ASSUME NEW k \in Keys, Expire(k) PROVE rows' = rows BY <1>15 DEF Expire
<1>16. CASE Crash
  <2> SUFFICES ASSUME NEW k \in Keys, rows[k] = NoRow PROVE rows'[k] = NoRow OBVIOUS
  <2>1. PICK kept : kept = purge_expired(rows) OBVIOUS
  <2>2. kept[k] = NoRow /\ kept[k].state = "Absent" BY <1>0, <2>1 DEF purge_expired
  <2> DEFINE R(j) == CASE kept[j].state = "Reserved" -> NoRow
                       [] kept[j].state = "CommitStarted" ->
                              [kept[j] EXCEPT !.state = "Completed", !.outcome = "unknown"]
                       [] OTHER -> kept[j]
  <2>3. rows' = [j \in Keys |-> R(j)] BY <1>16, <2>1, Zenon DEF Crash, recover_database
  <2>4. rows'[k] = R(k) BY <2>3, Zenon
  <2> QED BY <2>2, <2>4, Zenon
<1>17. CASE UNCHANGED vars BY <1>1, <1>17, Zenon DEF vars
<1> QED
  BY <1>1, <1>5, <1>6, <1>7, <1>8, <1>9, <1>10, <1>11, <1>12, <1>13, <1>14, <1>15, <1>16, <1>17, Zenon
  DEF Next, Actor, Finished

(* The limits of the table. *)

(* A table with fewer records. *)
LEMMA CountShrinks ==
    ASSUME NEW t, NEW u, NEW ks \in SUBSET Keys, \A k \in Keys : t[k] = NoRow => u[k] = NoRow
    PROVE  Count(u, ks) \in Nat /\ Count(t, ks) \in Nat /\ Count(u, ks) <= Count(t, ks)
<1>1. PICK A, B : A = {k \in ks : t[k] # NoRow} /\ B = {k \in ks : u[k] # NoRow} BY Zenon
<1>2. A \in SUBSET Keys /\ B \in SUBSET A BY <1>1
<1>3. IsFiniteSet(A) BY <1>2, TableAssumption, FS_Subset, Zenon
<1>4. IsFiniteSet(B) /\ Cardinality(B) <= Cardinality(A) BY <1>2, <1>3, FS_Subset
<1>5. Cardinality(A) \in Nat /\ Cardinality(B) \in Nat BY <1>3, <1>4, FS_CardinalityType, Zenon
<1> QED BY <1>1, <1>4, <1>5 DEF Count

(* A table that differs in one record. *)
LEMMA CountAdds ==
    ASSUME NEW t, NEW u, NEW k \in Keys, \A j \in Keys : j # k => u[j] = t[j],
           NEW ks \in SUBSET Keys
    PROVE  /\ Count(u, ks) \in Nat /\ Count(t, ks) \in Nat /\ Count(u, ks) <= Count(t, ks) + 1
           /\ k \notin ks => Count(u, ks) = Count(t, ks)
<1>1. PICK A, B : A = {j \in ks : t[j] # NoRow} /\ B = {j \in ks : u[j] # NoRow} BY Zenon
<1>2. A \in SUBSET Keys /\ B \in SUBSET (A \cup {k}) /\ (k \notin ks => B = A) BY <1>1, Zenon
<1>3. IsFiniteSet(A) BY <1>2, TableAssumption, FS_Subset, Zenon
<1>4. IsFiniteSet(A \cup {k}) /\ Cardinality(A) \in Nat /\ Cardinality(A \cup {k}) \in Nat
      /\ Cardinality(A \cup {k}) <= Cardinality(A) + 1
  <2>1. /\ IsFiniteSet(A \cup {k})
        /\ Cardinality(A \cup {k}) = IF k \in A THEN Cardinality(A) ELSE Cardinality(A) + 1
    BY <1>3, FS_AddElement, Zenon
  <2>2. Cardinality(A) \in Nat /\ Cardinality(A \cup {k}) \in Nat
    BY <1>3, <2>1, FS_CardinalityType, Zenon
  <2> QED BY <2>1, <2>2
<1>5. IsFiniteSet(B) /\ Cardinality(B) <= Cardinality(A \cup {k}) BY <1>2, <1>4, FS_Subset, Zenon
<1>6. Cardinality(B) \in Nat BY <1>5, FS_CardinalityType
<1>7. Count(t, ks) = Cardinality(A) /\ Count(u, ks) = Cardinality(B) BY <1>1 DEF Count
<1> QED BY <1>2, <1>4, <1>5, <1>6, <1>7

(* A reservation is made only where both counts are below their limits. *)
LEMMA CapacityKept == ASSUME IndInv, [Next]_vars, WithinCapacity PROVE WithinCapacity'
<1>1. \A k \in Keys : OwnedBy(k) \in SUBSET Keys BY DEF OwnedBy
<1>2. Capacity \in Nat /\ PerOwner \in Nat BY TableAssumption
<1>3. CASE \A k \in Keys : rows[k] = NoRow => rows'[k] = NoRow
  <2>1. \A ks \in SUBSET Keys :
            Count(rows', ks) \in Nat /\ Count(rows, ks) \in Nat /\ Count(rows', ks) <= Count(rows, ks)
    BY <1>3, CountShrinks
  <2> QED BY <1>1, <1>2, <2>1 DEF WithinCapacity
<1>4. ASSUME NEW r \in Requests, BeginResult(purge_expired(rows), r) = "started",
             rows' = [purge_expired(rows) EXCEPT ![Key[r]] = Row("Reserved", r, "none")]
      PROVE  WithinCapacity'
  <2>1. PICK t : t = purge_expired(rows) OBVIOUS
  <2>2. PICK j \in Keys : j = Key[r] BY KeyAssumption
  <2>4. \A k \in Keys : rows[k] = NoRow => t[k] = NoRow BY <2>1 DEF purge_expired
  <2>5. \A k \in Keys : k # j => rows'[k] = t[k] BY <1>4, <2>1, <2>2, Zenon DEF purge_expired
  <2>6. ~(Count(t, Keys) >= Capacity) /\ ~(Count(t, OwnedBy(j)) >= PerOwner)
    <3>1. BeginResult(t, r) = "started" BY <1>4, <2>1
    <3>2. t[j] = NoRow \/ t[j] \in RowSet
      BY <2>1, Zenon DEF IndInv, StoreTypes, purge_expired
    <3>3. t[j] \in RowSet => t[j].outcome # "started" BY DEF RowSet, Terminal
    <3>4. t[j] = NoRow BY <2>2, <3>1, <3>2, <3>3, Zenon DEF BeginResult
    <3> QED BY <2>2, <3>1, <3>4 DEF BeginResult
  <2>7. \A ks \in SUBSET Keys :
          /\ Count(t, ks) \in Nat /\ Count(rows, ks) \in Nat /\ Count(t, ks) <= Count(rows, ks)
    BY <2>4, CountShrinks
  <2>8. \A ks \in SUBSET Keys :
          /\ Count(rows', ks) \in Nat /\ Count(rows', ks) <= Count(t, ks) + 1
          /\ j \notin ks => Count(rows', ks) = Count(t, ks)
    BY <2>5, CountAdds
  <2>9. Count(rows', Keys) <= Capacity BY <1>2, <2>6, <2>7, <2>8
  <2>10. ASSUME NEW k \in Keys PROVE Count(rows', OwnedBy(k)) <= PerOwner
    <3>1. CASE Owner[k] = Owner[j]
      <4>1. OwnedBy(k) = OwnedBy(j) BY <3>1 DEF OwnedBy
      <4> QED BY <1>1, <1>2, <2>6, <2>7, <2>8, <4>1
    <3>2. CASE Owner[k] # Owner[j]
      <4>1. j \notin OwnedBy(k) BY <3>2 DEF OwnedBy
      <4> QED BY <1>1, <1>2, <2>7, <2>8, <4>1 DEF WithinCapacity
    <3> QED BY <3>1, <3>2
  <2> QED BY <2>9, <2>10 DEF WithinCapacity
<1> QED BY <1>3, <1>4, TableGrows
-----------------------------------------------------------------------------
(* The invariant and the theorems. *)

(* The invariant holds of an empty table and idle clients, *)
LEMMA InitHolds == Init => IndInv
<1> SUFFICES ASSUME Init PROVE IndInv OBVIOUS
<1>1. StoreTypes BY Zenon DEF Init, StoreTypes
<1>2. QueueTypes /\ QueueOK /\ Unique /\ ControlsOK /\ EnvelopeOK
  BY QueueAssumption DEF Init, QueueTypes, QueueOK, Unique, ControlsOK, EnvelopeOK
<1>3. TaskTypes BY DEF Init, TaskTypes, Places, Replies, Answers
<1>4. RowsOK BY DEF Init, RowsOK, RowOK, NoRow
<1>5. TasksOK BY DEF Init, TasksOK, TaskOK, Detached, Clients
<1>6. ClientsOK BY DEF Init, ClientsOK, ClientOK
<1> QED BY <1>1, <1>2, <1>3, <1>4, <1>5, <1>6, Zenon DEF IndInv

(* every step keeps it, *)
LEMMA StepKeeps == ASSUME IndInv, [Next]_vars PROVE IndInv'
<1>1. ASSUME NEW r \in Requests, Handler(r) \/ Timeout(r) PROVE IndInv' BY <1>1, HandlerKeeps
<1>2. ASSUME NEW q \in Queries, Ask(q) \/ Told(q) PROVE IndInv' BY <1>2, AskKeeps, ToldKeeps
<1>3. CASE Actor
  BY <1>3, RetryKeeps, ControlsKeep, OtherKeeps, RecvBeginKeeps, SendBegunKeeps, StatusKeeps,
     RecvMarkKeeps, RecvCompleteKeeps, Zenon DEF Actor
<1>4. CASE SendPoll BY <1>4, PollKeeps
<1>5. ASSUME NEW k \in Keys, Expire(k) PROVE IndInv' BY <1>5, ExpireKeeps
<1>6. CASE Crash BY <1>6, CrashKeeps
<1>7. CASE UNCHANGED vars BY <1>7, StutterKeeps
<1> QED BY <1>1, <1>2, <1>3, <1>4, <1>5, <1>6, <1>7, Zenon DEF Next, Finished

(* and so it always holds. *)
LEMMA Invariance == Spec => []IndInv
BY InitHolds, StepKeeps, PTL DEF Spec

(* The table, the queues and the handlers keep their types, and the queue  *)
(* of the actor its bound, for any number of requests, keys and crashes.   *)
THEOREM RegistryTyped == Spec => []TypeOK
<1>1. ASSUME IndInv PROVE TypeOK
  BY <1>1 DEF IndInv, StoreTypes, QueueTypes, TaskTypes, TypeOK, RowSet, Places
<1> QED BY <1>1, Invariance, PTL

(* begin_operation, abandon_operation and recover_database make retries    *)
(* idempotent: while a key's record lives, at most one request mutates.    *)
THEOREM RetriesIdempotent == Spec => []AppliedOnce
<1>1. ASSUME IndInv PROVE AppliedOnce
  <2> SUFFICES ASSUME NEW k \in Keys PROVE Cardinality(applied[k]) <= 1
    BY DEF AppliedOnce
  <2>1. RowOK(k) /\ rows[k] \in RowSet \cup {NoRow} BY <1>1, Zenon DEF IndInv, RowsOK, StoreTypes
  <2>2. \E r : applied[k] \subseteq {r} BY <2>1, Zenon DEF RowOK, RowSet, NoRow
  <2>3. PICK r : applied[k] = {} \/ applied[k] = {r} BY <2>2, Zenon
  <2> QED BY <2>3, FS_EmptySet, FS_Singleton
<1> QED BY <1>1, Invariance, PTL

(* A request that was answered "rejected" never touches the filesystem: a  *)
(* detached task was marked as such before its deadline could pass.        *)
THEOREM RejectionHonest == Spec => []RejectedUntouched
<1>1. ASSUME IndInv PROVE RejectedUntouched BY <1>1, Zenon DEF IndInv, TasksOK, TaskOK, RejectedUntouched
<1> QED BY <1>1, Invariance, PTL

(* A verdict in the table, and one replayed to a retry or a status query,  *)
(* is true of the filesystem.                                              *)
THEOREM VerdictsHonest == Spec => []OutcomeHonest
<1>1. ASSUME IndInv PROVE OutcomeHonest
  BY <1>1, Zenon DEF IndInv, RowsOK, RowOK, ClientsOK, ClientOK, Mutated, OutcomeHonest
<1> QED BY <1>1, Invariance, PTL

(* No live guard loses its reservation, so mark_operation_commit_started   *)
(* and complete_operation always find the row they were given.             *)
THEOREM GuardsKeepReservation == Spec => []ReservationKept
<1>1. ASSUME IndInv PROVE ReservationKept BY <1>1 DEF IndInv, TasksOK, TaskOK, ReservationKept
<1> QED BY <1>1, Invariance, PTL

(* The table keeps its limits across expiry, recovery, abandoned requests  *)
(* and any number of concurrent ones: begin_operation checks both counts   *)
(* in the transaction that inserts, and nothing else inserts.              *)
THEOREM TableBounded == Spec => []WithinCapacity
<1>1. Init => WithinCapacity
  <2> SUFFICES ASSUME Init PROVE WithinCapacity OBVIOUS
  <2>1. \A ks \in SUBSET Keys : {k \in ks : rows[k] # NoRow} = {} BY DEF Init
  <2>2. \A ks \in SUBSET Keys : Count(rows, ks) = 0 BY <2>1, FS_EmptySet DEF Count
  <2>3. \A k \in Keys : OwnedBy(k) \in SUBSET Keys BY DEF OwnedBy
  <2> QED BY <2>2, <2>3, TableAssumption DEF WithinCapacity
<1>2. IndInv /\ [Next]_vars /\ WithinCapacity => WithinCapacity' BY CapacityKept
<1> QED BY <1>1, <1>2, Invariance, PTL DEF Spec

(* What a status query was told stays true. *)
LEMMA FinalInvariance == Spec => [](IndInv /\ FinalOK)
<1>1. Init => FinalOK BY DEF Init, FinalOK, Clients
<1>2. IndInv /\ FinalOK /\ [Next]_vars => IndInv' /\ FinalOK' BY StepKeeps, FinalKept
<1> QED BY <1>1, <1>2, InitHolds, PTL DEF Spec

(* A client that was told "unknown", asks for the status of the key and is *)
(* told "not found" can act on it: no request of the key it had asked      *)
(* about mutates the filesystem afterwards.                                *)
THEOREM StatusIsFinal == Spec => NotFoundIsFinal
<1> DEFINE Harmless == \A q \in Queries : answer[q] = "notfound" => (did' \ did) \cap asked[q] = {}
<1>1. ASSUME IndInv, FinalOK, [Next]_vars PROVE [Harmless]_vars
  <2>0. \A q \in Queries : answer[q] = "notfound" =>
            \A r \in asked[q] : pc[r] # "commit"
    BY <1>1 DEF FinalOK, Settled
  <2>1. ASSUME NEW r \in Requests, OwnStep(r) PROVE Harmless BY <2>0, <2>1 DEF OwnStep
  <2>2. ASSUME did' = did PROVE Harmless BY <2>2
  <2>3. TaskTypes BY <1>1 DEF IndInv
  <2>4. ASSUME NEW r \in Requests, Handler(r) \/ Timeout(r) PROVE Harmless
    BY <2>1, <2>3, <2>4, HandlerOwn, Zenon
  <2>5. ASSUME NEW q \in Queries, Ask(q) \/ Told(q) PROVE did' = did BY <2>3, <2>5, QueryOwn
  <2>6. ASSUME Actor \/ SendPoll \/ Crash \/ Finished \/ (\E k \in Keys : Expire(k))
        PROVE  did' = did
    BY <2>6, Zenon DEF Actor, retry_one_deferred_abandon, process_controls, RecvOther, RecvBegin,
          SendBegun, RecvStatus, RecvMark, RecvComplete, SendPoll, Crash, Finished, Expire, handlers, vars
  <2>7. CASE UNCHANGED vars BY <2>7, Zenon
  <2>8. CASE Next BY <2>2, <2>4, <2>5, <2>6, <2>8 DEF Next
  <2> QED BY <1>1, <2>7, <2>8, Zenon
<1> QED BY <1>1, FinalInvariance, PTL DEF Spec, NotFoundIsFinal

=============================================================================
