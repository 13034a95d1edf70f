---------------------------- MODULE UploadProofs ----------------------------
(***************************************************************************)
(* The correctness of upload sessions: a target name only ever holds a     *)
(* whole file that is safe on disk, and an answer that says nothing was    *)
(* started is true, for every upload length, set of owners and inodes, any *)
(* number of crashes, and whether or not the filesystem reuses inodes.     *)
(***************************************************************************)
EXTENDS UploadInvariant, TLAPS

(* Values that the fields of a request and of a row take. *)
LEMMA Values ==
    /\ 0 \in Offsets /\ Len \in Offsets
    /\ NoRow \in Row
    /\ Idle \in Requests
<1>1. 0 \in Offsets /\ Len \in Offsets BY UploadAssumption DEF Offsets
<1>2. NoRow \in Row BY <1>1, Zenon DEF Row, NoRow, States
<1> QED BY <1>1, <1>2, Zenon DEF Idle, Requests, Places, Jobs

(* A request that has ended. *)
LEMMA Ended ==
    ASSUME RequestOK, h.pc # "idle", NEW a, Finish(a)
    PROVE  /\ h' \in Requests /\ h'.pc = "done" /\ h'.owner \in Owners
           /\ h'.mut = "preflight" /\ h'.answered = FALSE
<1>1. "done" \in Places BY DEF Places
<1> DEFINE r(o) == [Idle EXCEPT !.pc = "done", !.owner = o]
<1>2. ASSUME NEW o \in Owners
      PROVE  /\ r(o) \in Requests /\ r(o).pc = "done" /\ r(o).owner = o
             /\ r(o).mut = "preflight" /\ r(o).answered = FALSE
  <2>1. r(o) \in Requests BY <1>1, Values, Zenon DEF Requests
  <2> QED BY <2>1 DEF Idle
<1> QED BY <1>2, Zenon DEF RequestOK, Finish

(* A request ends with nothing changed since its last step. *)
LEMMA EndsQuietly ==
    ASSUME Handling, told \in Answers, h.pc \notin {"idle", "done"},
           NEW a \in Answers, Finish(a), effect' = effect,
           a = "not_started" => h.mut # "detached" /\ h.pc \notin Discarding
    PROVE  Handling' /\ told' \in Answers /\ active' \in BOOLEAN
<1>1. /\ h' \in Requests /\ h'.pc = "done" /\ h'.owner \in Owners
      /\ h'.mut = "preflight" /\ h'.answered = FALSE BY Ended, Zenon DEF Handling
<1>2. RequestOK' BY <1>1 DEF RequestOK
<1>3. StageOK' BY <1>1 DEF StageOK, Owning, Whole
<1>4. told' = "not_started" => effect' = "nothing" BY DEF Handling, BoundaryOK, Finish
<1>5. BoundaryOK' BY <1>1, <1>4 DEF BoundaryOK, Early, Opening, Past, Discarding
<1> QED BY <1>2, <1>3, <1>5, Zenon DEF Handling, Finish

(* A request that is not cancelled ends with another answer. *)
LEMMA EndsLater ==
    ASSUME Handling, told \in Answers, h.pc \notin {"idle", "done"}, h.mut # "cancelled",
           NEW a \in Answers, Finish(a), a # "not_started"
    PROVE  Handling' /\ told' \in Answers /\ active' \in BOOLEAN
<1>1. /\ h' \in Requests /\ h'.pc = "done" /\ h'.owner \in Owners
      /\ h'.mut = "preflight" /\ h'.answered = FALSE BY Ended, Zenon DEF Handling
<1>2. RequestOK' BY <1>1 DEF RequestOK
<1>3. StageOK' BY <1>1 DEF StageOK, Owning, Whole
<1>4. told' # "not_started" BY DEF Handling, BoundaryOK, Finish
<1>5. BoundaryOK' BY <1>1, <1>4 DEF BoundaryOK, Early, Opening, Past, Discarding
<1> QED BY <1>2, <1>3, <1>5, Zenon DEF Handling, Finish

(* What a step that only reads the table and the names has to keep. *)
LEMMA Reads ==
    ASSUME IndInv, UNCHANGED <<store, names, marker, up>>, Handling',
           told' \in Answers, active' \in BOOLEAN, effect' = effect
    PROVE  IndInv'
BY DEF IndInv, TypeOK, NamesOK, PublishedWhole, store, names

(* An error or the deadline ends a request while it prepares. *)
LEMMA StopsKeep == ASSUME IndInv, PrepareError \/ DeadlineBeforeMutation PROVE IndInv'
<1>0. Handling /\ told \in Answers /\ active \in BOOLEAN BY DEF IndInv, TypeOK
<1>a. {"not_started", "unknown"} \subseteq Answers BY DEF Answers
<1>b. h.pc \in Early => h.mut # "detached" BY <1>0 DEF Handling, BoundaryOK
<1>1. CASE PrepareError
  <2>1. h.pc \notin {"idle", "done"} \union Discarding BY <1>1 DEF PrepareError, Discarding
  <2>2. \E a \in {"not_started", "unknown"} : Finish(a) /\ (a = "not_started" => h.mut # "detached")
    BY <1>1 DEF PrepareError, Fails
  <2> QED BY <1>0, <1>1, <2>1, <2>2, <1>a, EndsQuietly, Reads DEF PrepareError
<1>2. CASE DeadlineBeforeMutation
  <2>1. h.pc \notin {"idle", "done"} \union Discarding /\ h.mut # "detached"
    BY <1>2, <1>b DEF DeadlineBeforeMutation, Discarding, Early
  <2> QED BY <1>0, <1>2, <2>1, <1>a, EndsQuietly, Reads DEF DeadlineBeforeMutation
<1> QED BY <1>1, <1>2

(* What the lookup of a session finds. *)
LEMMA LookupValue ==
    ASSUME TypeOK, NEW o \in Owners
    PROVE  Lookup(o) \in {"none", "running", "awaiting"} \union Terminal
<1>1. rows[o].state \in States BY DEF TypeOK, Row
<1> QED BY <1>1 DEF Lookup, States, NonTerminal, Terminal

(* A request goes on: what its new place asks of it. *)
LEMMA Goes ==
    ASSUME IndInv, h.pc \notin {"idle", "done"} \union Discarding,
           h' \in Requests, h'.pc \in Early \union Opening \union Past,
           h'.owner = h.owner, h'.answered = h.answered, told' = told,
           h'.mut = h.mut \/ (h.mut # "cancelled" /\ h'.mut = "detached"),
           h'.pc \in Past => h'.mut = "detached",
           h'.pc \in {"open", "truncate"} \union Early => h'.mut # "detached",
           h'.pc \in Opening /\ ~Resume' => h'.mut = "detached",
           h'.mut # "detached" => effect' = effect,
           h'.pc \in {"reset", "reset_row"} => h'.then \in {"rejected", "unknown", "refuse"},
           h'.pc = "sync" => h'.job \in StageJobs,
           h'.pc = "save" => h'.job # "none",
           StageOK'
    PROVE  Handling' /\ told' \in Answers
<1>1. RequestOK /\ BoundaryOK /\ told \in Answers BY DEF IndInv, Handling, TypeOK
<1>2. RequestOK' BY <1>1 DEF RequestOK
<1>3. BoundaryOK' BY <1>1 DEF BoundaryOK, Early, Opening, Past, Discarding
<1> QED BY <1>1, <1>2, <1>3 DEF Handling

(* While a request only looks around, it may end at any moment. *)
LEMMA EarlyEnd ==
    ASSUME IndInv, h.pc \in Early, UNCHANGED <<store, names, marker, effect, up>>,
           NEW a \in Answers, Finish(a)
    PROVE  IndInv'
<1>1. Handling /\ told \in Answers BY DEF IndInv, TypeOK
<1>2. h.mut # "detached" /\ h.pc \notin {"idle", "done"} \union Discarding
  BY <1>1 DEF Handling, BoundaryOK, Early, Discarding
<1> QED BY <1>1, <1>2, EndsQuietly, Reads

(* Or go on to another place. *)
LEMMA EarlyGo ==
    ASSUME IndInv, h.pc \in Early, UNCHANGED <<store, names, marker, effect, up, told>>,
           active' \in BOOLEAN, h' \in Requests,
           h'.owner = h.owner, h'.answered = h.answered,
           \/ h'.mut = h.mut /\ h'.pc \in Early
           \/ h'.mut = h.mut /\ h'.pc = "open" /\ h'.kind = "patch"
           \/ h.mut # "cancelled" /\ h'.mut = "detached" /\ h'.pc = "create"
    PROVE  IndInv'
<1>1. h.mut # "detached" /\ h.pc \notin {"idle", "done"} \union Discarding
  BY DEF IndInv, Handling, BoundaryOK, Early, Discarding
<1>2. StageOK' BY DEF StageOK, Owning, Whole, Early
<1>3. Handling' /\ told' \in Answers
  BY <1>1, <1>2, Goes DEF Early, Opening, Past, Resume
<1> QED BY <1>3, Reads

(* The steps that only look around. *)
LEMMA PreparingKeeps ==
    ASSUME IndInv, \/ inspect_target \/ dispatch_fresh_upload \/ LookupSession \/ TrackResume
                   \/ InspectTarget \/ AdmitResumed \/ AdmitFresh
    PROVE  IndInv'
<1>0. RequestOK /\ active \in BOOLEAN /\ h \in Requests
  BY DEF IndInv, Handling, TypeOK, RequestOK
<1>a. {"none", "committed", "rejected", "awaiting", "running", "unknown", "not_seen",
       "not_started"} \subseteq Answers
  BY DEF Answers
<1>b. h.cp \in {"none", "running", "awaiting"} /\ h.pol \in Revisions \union {NoRev}
  BY <1>0 DEF Requests
<1>c. Early \union {"open", "create"} \subseteq Places BY DEF Places, Opening, Past
<1>d. {"target", "dispatch", "lookup", "track_resume", "inspect", "admit"} = Early BY DEF Early
<1>1. CASE inspect_target
  <2>1. CASE Finish("not_started") BY <1>1, <1>a, <1>d, <2>1, EarlyEnd DEF inspect_target
  <2>2. CASE Goto(IF Resume THEN "lookup" ELSE "dispatch") /\ UNCHANGED <<active, told>>
    <3>1. PICK p \in {"lookup", "dispatch"} : h' = [h EXCEPT !.pc = p] BY <2>2 DEF Goto
    <3>2. h' \in Requests BY <1>0, <1>c, <1>d, <3>1, Zenon DEF Requests
    <3>3. h'.pc = p /\ h'.owner = h.owner /\ h'.answered = h.answered /\ h'.mut = h.mut
      BY <1>0, <3>1 DEF Requests
    <3> QED BY <1>0, <1>1, <1>d, <2>2, <3>2, <3>3, EarlyGo DEF inspect_target
  <2> QED BY <1>1, <2>1, <2>2 DEF inspect_target
<1>2. CASE dispatch_fresh_upload
  <2>1. CASE Finish("not_started") BY <1>2, <1>a, <1>d, <2>1, EarlyEnd DEF dispatch_fresh_upload
  <2>2. CASE Goto("lookup") /\ UNCHANGED <<active, told>>
    <3>2. h' \in Requests BY <1>0, <1>c, <1>d, <2>2, Zenon DEF Requests, Goto
    <3>3. h'.pc = "lookup" /\ h'.owner = h.owner /\ h'.answered = h.answered /\ h'.mut = h.mut
      BY <1>0, <2>2 DEF Requests, Goto
    <3> QED BY <1>0, <1>2, <1>d, <2>2, <3>2, <3>3, EarlyGo DEF dispatch_fresh_upload
  <2> QED BY <1>2, <2>1, <2>2 DEF dispatch_fresh_upload
<1>3. CASE LookupSession
  <2> DEFINE s == Lookup(h.owner)
             r == rows[h.owner]
  <2>1. s \in {"none", "running", "awaiting"} \union Terminal /\ r \in Row
    BY <1>0, <1>3, LookupValue DEF IndInv, TypeOK, RequestOK, LookupSession
  <2>2. CASE Finish(s) /\ s # "none"
    BY <1>3, <1>a, <1>d, <2>1, <2>2, EarlyEnd DEF LookupSession, Terminal
  <2>3. CASE /\ s \in {"none", "running", "awaiting"} /\ UNCHANGED <<active, told>>
             /\ h' = [h EXCEPT !.pc = IF Resume THEN "track_resume" ELSE "inspect",
                               !.cp = s, !.seen = r.rev, !.cpoff = r.off]
    <3> DEFINE p == IF Resume THEN "track_resume" ELSE "inspect"
    <3>1. p \in {"track_resume", "inspect"} OBVIOUS
    <3>2. r.rev \in Revisions \union {NoRev} /\ r.off \in Offsets BY <2>1 DEF Row
    <3> HIDE DEF p, s, r
    <3>3. h' = [h EXCEPT !.pc = p, !.cp = s, !.seen = r.rev, !.cpoff = r.off] BY <2>3 DEF p
    <3>4. h' \in Requests BY <1>0, <1>c, <1>d, <2>3, <3>1, <3>2, <3>3, Zenon DEF Requests
    <3>5. h'.pc = p /\ h'.owner = h.owner /\ h'.answered = h.answered /\ h'.mut = h.mut
      BY <1>0, <3>3 DEF Requests
    <3> QED BY <1>0, <1>3, <1>d, <2>3, <3>1, <3>4, <3>5, EarlyGo DEF LookupSession
  <2> QED BY <1>3, <2>1, <2>2, <2>3, Zenon DEF LookupSession, Terminal
<1>4. CASE TrackResume
  <2>1. CASE Finish("not_seen") BY <1>4, <1>a, <1>d, <2>1, EarlyEnd DEF TrackResume
  <2>2. CASE active' = TRUE /\ Goto("inspect") /\ UNCHANGED told
    <3>2. h' \in Requests BY <1>0, <1>c, <1>d, <2>2, Zenon DEF Requests, Goto
    <3>3. h'.pc = "inspect" /\ h'.owner = h.owner /\ h'.answered = h.answered /\ h'.mut = h.mut
      BY <1>0, <2>2 DEF Requests, Goto
    <3> QED BY <1>0, <1>4, <1>d, <2>2, <3>2, <3>3, EarlyGo DEF TrackResume
  <2> QED BY <1>4, <2>1, <2>2, Zenon DEF TrackResume
<1>5. CASE InspectTarget
  <2>1. CASE Finish(ConflictState)
    BY <1>5, <1>a, <1>b, <1>d, <2>1, EarlyEnd DEF InspectTarget, ConflictState
  <2>2. CASE /\ h' = [h EXCEPT !.pc = "admit", !.tid = IF h.pol = NoRev THEN NoIno ELSE h.pol]
             /\ UNCHANGED <<active, told>>
    <3> DEFINE t == IF h.pol = NoRev THEN NoIno ELSE h.pol
    <3>1. t \in Revisions \union {NoIno} BY <1>b
    <3>2. h' = [h EXCEPT !.pc = "admit", !.tid = t] BY <2>2
    <3> HIDE DEF t
    <3>3. h' \in Requests BY <1>0, <1>c, <1>d, <3>1, <3>2, Zenon DEF Requests
    <3>4. h'.pc = "admit" /\ h'.owner = h.owner /\ h'.answered = h.answered /\ h'.mut = h.mut
      BY <1>0, <3>2 DEF Requests
    <3> QED BY <1>0, <1>5, <1>d, <2>2, <3>3, <3>4, EarlyGo DEF InspectTarget
  <2> QED BY <1>5, <2>1, <2>2, Zenon DEF InspectTarget
<1>6. CASE AdmitResumed
  <2>1. CASE \E a \in {"not_seen", "running", "awaiting"} : Finish(a)
    BY <1>6, <1>a, <1>d, <2>1, EarlyEnd DEF AdmitResumed
  <2>2. CASE h' = [h EXCEPT !.pc = "open", !.cpoff = 0] /\ UNCHANGED <<active, told>>
    <3>2. h' \in Requests BY <1>0, <1>c, <1>d, <2>2, Values, Zenon DEF Requests
    <3>3. /\ h'.pc = "open" /\ h'.owner = h.owner /\ h'.answered = h.answered
          /\ h'.mut = h.mut /\ h'.kind = h.kind
      BY <1>0, <2>2 DEF Requests
    <3> QED BY <1>0, <1>6, <1>d, <2>2, <3>2, <3>3, EarlyGo DEF AdmitResumed, Resume
  <2> QED BY <1>6, <1>b, <2>1, <2>2, Zenon DEF AdmitResumed
<1>7. CASE AdmitFresh
  <2>1. CASE \E a \in {"rejected", "not_started"} : Finish(a)
    BY <1>7, <1>a, <1>d, <2>1, EarlyEnd DEF AdmitFresh
  <2>2. CASE /\ begin_upload_mutation /\ h' = [Crossed(h) EXCEPT !.pc = "create"]
             /\ UNCHANGED <<active, told>>
    <3>2. h' \in Requests BY <1>0, <1>c, <1>d, <2>2, Zenon DEF Requests, Crossed
    <3>3. h'.pc = "create" /\ h'.owner = h.owner /\ h'.answered = h.answered /\ h'.mut = "detached"
      BY <1>0, <2>2 DEF Requests, Crossed
    <3> QED BY <1>0, <1>7, <1>d, <2>2, <3>2, <3>3, EarlyGo DEF AdmitFresh, begin_upload_mutation
  <2> QED BY <1>7, <2>1, <2>2, Zenon DEF AdmitFresh
<1> QED BY <1>1, <1>2, <1>3, <1>4, <1>5, <1>6, <1>7

-----------------------------------------------------------------------------
(* A step that writes the stage file of the request, and no name. *)
LEMMA Writes ==
    ASSUME IndInv, Owning, UNCHANGED <<store, stage, target, disk, marker, up>>,
           NEW f \in File, file' = [file EXCEPT ![h.ino] = f] \/ file' = file,
           aged' \in BOOLEAN, active' \in BOOLEAN, told' \in Answers, effect' \in Effects,
           Handling'
    PROVE  IndInv'
<1>1. h.ino \in Inodes \ {target, disk.target} BY DEF IndInv, Handling, StageOK
<1>2. file' \in [Inodes -> File] BY <1>1 DEF IndInv, TypeOK
<1>3. TypeOK' BY <1>2 DEF IndInv, TypeOK, store
<1>4. NamesOK' BY DEF IndInv, NamesOK
<1>5. PublishedWhole' BY <1>1 DEF IndInv, TypeOK, PublishedWhole
<1> QED BY <1>3, <1>4, <1>5 DEF IndInv

(* A step that changes the table, and no name. *)
LEMMA Records ==
    ASSUME IndInv, UNCHANGED <<names, marker, up>>,
           rows' \in [Owners -> Row], landed' \in [Owners -> BOOLEAN],
           active' \in BOOLEAN, told' \in Answers, effect' \in Effects, Handling'
    PROVE  IndInv'
BY DEF IndInv, TypeOK, NamesOK, PublishedWhole, names

(* A stage is unlinked, if it is the file that was meant. *)
LEMMA Removes ==
    ASSUME IndInv, Unlinks, UNCHANGED <<store, target, marker, up>>,
           active' \in BOOLEAN, told' \in Answers, effect' \in Effects, Handling'
    PROVE  IndInv'
<1>1. CASE UNCHANGED <<stage, disk, aged, file>>
  BY <1>1 DEF IndInv, TypeOK, NamesOK, PublishedWhole, store
<1>2. CASE Unlink
  <2>1. Blank \in File BY UploadAssumption, Values DEF Blank, File
  <2>2. file' \in [Inodes -> File] BY <1>2, <2>1 DEF IndInv, TypeOK, Unlink, Kept
  <2>3. /\ disk' \in [stage : Inodes \union {NoIno}, target : Revisions \union {NoIno}]
        /\ disk'.stage = NoIno /\ disk'.target = disk.target
    BY <1>2 DEF IndInv, TypeOK, Unlink
  <2>4. TypeOK' BY <1>2, <2>2, <2>3, Zenon DEF IndInv, TypeOK, Unlink, store
  <2>5. NamesOK' BY <1>2, <2>3, UploadAssumption DEF NamesOK, Unlink
  <2>6. PublishedWhole' BY <1>2, <2>3 DEF IndInv, TypeOK, PublishedWhole, Unlink, Kept
  <2> QED BY <2>4, <2>5, <2>6 DEF IndInv
<1> QED BY <1>1, <1>2 DEF Unlinks

(* The first change a request makes. *)
LEMMA MutatesTyped == ASSUME IndInv, Mutates PROVE effect' \in Effects
BY DEF IndInv, TypeOK, Mutates, Effects

(* remove_file_if_identity unlinks no more than the stage. *)
LEMMA RemovesByIdentity == ASSUME NEW i, remove_file_if_identity(i) PROVE Unlinks
BY DEF remove_file_if_identity, Unlinks

-----------------------------------------------------------------------------
(* How a request past its boundary goes on. *)
LEMMA PastBoundary ==
    ASSUME IndInv, h.pc \in Past \union {"reserve"}, h.mut = "detached"
    PROVE  /\ h \in Requests /\ h.pc \notin {"idle", "done"} \union Discarding
           /\ told \in Answers /\ active \in BOOLEAN /\ h.owner \in Owners
           /\ Handling /\ RequestOK
BY DEF IndInv, Handling, TypeOK, RequestOK, Past, Discarding

(* Past the boundary a request can end with an answer, *)
LEMMA EndsPast ==
    ASSUME IndInv, h.pc \in Past \union {"reserve"}, h.mut = "detached",
           NEW a \in Answers \ {"not_started"}, Finish(a)
    PROVE  Handling' /\ told' \in Answers /\ active' \in BOOLEAN
BY PastBoundary, EndsLater

(* reset its session, *)
LEMMA ResetsPast ==
    ASSUME IndInv, h.pc \in Past \union {"reserve"}, h.mut = "detached",
           NEW t \in {"rejected", "unknown", "refuse"}, ResetThen(t), told' = told
    PROVE  Handling' /\ told' \in Answers
<1>0. h \in Requests /\ 0 \in Offsets BY PastBoundary, Values
<1>1. "reset" \in Places /\ "reset" \in Past /\ "none" \in Jobs BY DEF Places, Past, Jobs
<1>2. h' \in Requests BY <1>0, <1>1, Zenon DEF ResetThen, Requests
<1>3. /\ h'.pc = "reset" /\ h'.owner = h.owner /\ h'.answered = h.answered
      /\ h'.mut = h.mut /\ h'.then = t
  BY PastBoundary DEF ResetThen, Requests
<1>4. StageOK' BY <1>3 DEF StageOK, Owning, Whole
<1> QED BY <1>1, <1>2, <1>3, <1>4, PastBoundary, Goes DEF Early

(* discard its stage, *)
LEMMA DiscardsPast ==
    ASSUME IndInv, h.pc \in Past \union {"reserve"}, h.mut = "detached",
           NEW t \in {"finish", "reset"}, h' = [h EXCEPT !.pc = "discard", !.then = t],
           told' = told
    PROVE  Handling' /\ told' \in Answers
<1>1. "discard" \in Places /\ "discard" \in Past BY DEF Places, Past
<1>2. h' \in Requests BY <1>1, PastBoundary, Zenon DEF Requests
<1>3. /\ h'.pc = "discard" /\ h'.owner = h.owner /\ h'.answered = h.answered
      /\ h'.mut = h.mut
  BY PastBoundary DEF Requests
<1>4. StageOK' BY <1>3 DEF StageOK, Owning, Whole
<1> QED BY <1>1, <1>2, <1>3, <1>4, PastBoundary, Goes DEF Early

(* go on with its stage, *)
LEMMA GoesPast ==
    ASSUME IndInv, Owning, h.pc \in Past \union {"reserve"}, h.mut = "detached",
           UNCHANGED <<stage, target, disk.target>>,
           NEW p \in {"timeout", "precommit", "metadata", "space", "check", "rename"}, Goto(p),
           p \in {"metadata", "space", "check", "rename"} => file'[h.ino].len = Len,
           p \in {"check", "rename"} => file'[h.ino].synced = Len, told' = told
    PROVE  Handling' /\ told' \in Answers
<1>1. p \in Places /\ p \in Past BY DEF Places, Past
<1>2. h' \in Requests BY <1>1, PastBoundary, Zenon DEF Goto, Requests
<1>3. /\ h'.pc = p /\ h'.owner = h.owner /\ h'.answered = h.answered
      /\ h'.mut = h.mut /\ h'.ino = h.ino
  BY PastBoundary DEF Goto, Requests
<1>4. StageOK' BY <1>3 DEF IndInv, Handling, StageOK, Owning, Whole
<1> QED BY <1>1, <1>2, <1>3, <1>4, PastBoundary, Goes DEF Early

(* save a checkpoint of its stage, *)
LEMMA PersistsPast ==
    ASSUME IndInv, Owning, h.pc \in Past \union {"reserve"}, h.mut = "detached",
           UNCHANGED <<stage, target, disk.target>>,
           NEW j \in StageJobs, NEW n \in Offsets, Persist(j, n),
           j \in {"commit", "awaiting"} => file'[h.ino].len = Len, told' = told
    PROVE  Handling' /\ told' \in Answers
<1>1. "sync" \in Places /\ "sync" \in Past /\ j \in Jobs BY DEF Places, Past, Jobs
<1>2. h' \in Requests BY <1>1, PastBoundary, Zenon DEF Persist, Requests
<1>3. /\ h'.pc = "sync" /\ h'.owner = h.owner /\ h'.answered = h.answered
      /\ h'.mut = h.mut /\ h'.ino = h.ino /\ h'.job = j
  BY PastBoundary DEF Persist, Requests
<1>4. StageOK' BY <1>3 DEF IndInv, Handling, StageOK, Owning, Whole
<1> QED BY <1>1, <1>2, <1>3, <1>4, PastBoundary, Goes DEF Early

(* or record its outcome. *)
LEMMA RecordsPast ==
    ASSUME IndInv, h.pc \in Past \union {"reserve"}, h.mut = "detached",
           NEW j \in {"refuse", "unknown", "committed"}, NEW n \in Offsets, Record(j, n),
           told' = told
    PROVE  Handling' /\ told' \in Answers
<1>1. "save" \in Places /\ "save" \in Past /\ j \in Jobs \ StageJobs /\ j # "none"
  BY DEF Places, Past, Jobs, StageJobs
<1>2. h' \in Requests BY <1>1, PastBoundary, Zenon DEF Record, Requests
<1>3. /\ h'.pc = "save" /\ h'.owner = h.owner /\ h'.answered = h.answered
      /\ h'.mut = h.mut /\ h'.job = j
  BY PastBoundary DEF Record, Requests
<1>4. StageOK' BY <1>1, <1>3 DEF StageOK, Owning, Whole, StageJobs
<1> QED BY <1>1, <1>2, <1>3, <1>4, PastBoundary, Goes DEF Early

-----------------------------------------------------------------------------
(* The steps of a request up to its first checkpoint. *)

(* The answers a task can end with. *)
LEMMA AnswerValues ==
    {"none", "committed", "rejected", "awaiting", "running", "unknown", "not_seen"}
        \subseteq Answers \ {"not_started"}
BY DEF Answers

(* The handler stops waiting for the task: cancelled, or left detached. *)
LEMMA AwaitKeeps == ASSUME IndInv, await_tracked_upload_task PROVE IndInv'
<1>0. Handling /\ h \in Requests /\ told \in Answers /\ active \in BOOLEAN
  BY DEF IndInv, TypeOK, Handling, RequestOK
<1>1. PICK mu \in {"preflight", "detached", "cancelled"} :
          /\ h' = [h EXCEPT !.answered = TRUE, !.mut = mu] /\ mu # "preflight"
          /\ \/ h.mut = "preflight" /\ mu = "cancelled" /\ told' = "not_started"
             \/ h.mut # "preflight" /\ mu = h.mut /\ told' = "unknown"
  <2>1. CASE h.mut = "preflight" BY <2>1 DEF await_tracked_upload_task
  <2>2. CASE h.mut # "preflight"
    <3>1. h.mut \in {"detached", "cancelled"} BY <1>0, <2>2 DEF Requests
    <3>2. h' = [h EXCEPT !.answered = TRUE] /\ told' = "unknown"
      BY <2>2 DEF await_tracked_upload_task
    <3>3. h' = [h EXCEPT !.answered = TRUE, !.mut = h.mut] BY <1>0, <3>2, Zenon DEF Requests
    <3> QED BY <2>2, <3>1, <3>2, <3>3, Zenon
  <2> QED BY <2>1, <2>2
<1>2. h' \in Requests BY <1>0, <1>1, Zenon DEF Requests
<1>3. /\ h'.pc = h.pc /\ h'.owner = h.owner /\ h'.answered = TRUE /\ h'.mut = mu
      /\ h'.ino = h.ino /\ h'.job = h.job /\ h'.then = h.then /\ h'.kind = h.kind
  BY <1>0, <1>1 DEF Requests
<1>4. RequestOK' BY <1>0, <1>2, <1>3 DEF Handling, RequestOK
<1>5. StageOK'
  BY <1>0, <1>3 DEF Handling, StageOK, Owning, Whole, await_tracked_upload_task, names
<1>6. BoundaryOK'
  BY <1>0, <1>1, <1>3 DEF Handling, BoundaryOK, Resume, Discarding, await_tracked_upload_task
<1>7. told' \in Answers BY <1>1 DEF Answers
<1> QED BY <1>0, <1>4, <1>5, <1>6, <1>7, Reads DEF Handling, await_tracked_upload_task, registry

(* A fresh stage is created under a name of its own. *)
LEMMA CreateKeeps == ASSUME IndInv, CreateStage PROVE IndInv'
<1>a. h.pc = "create" /\ UNCHANGED <<target, disk, store, marker, up>> BY Zenon DEF CreateStage
<1>0. h.pc \in Past /\ h.mut = "detached" BY <1>a DEF IndInv, Handling, BoundaryOK, Past
<1>1. CASE Finish("not_seen") /\ UNCHANGED <<stage, file, aged, effect>>
  <2>1. Handling' /\ told' \in Answers /\ active' \in BOOLEAN
    BY <1>0, <1>1, EndsPast, AnswerValues
  <2> QED BY <1>1, <1>a, <2>1, Reads DEF names
<1>2. ASSUME NEW i \in Inodes, Free(i), stage' = i,
             file' = [file EXCEPT ![i] = [Blank EXCEPT !.by = h.owner]],
             h' = [h EXCEPT !.pc = "track_fresh", !.ino = i],
             aged' = FALSE, Mutates, UNCHANGED <<active, told>>
      PROVE  IndInv'
  <2>0. h \in Requests /\ h.owner \in Owners BY <1>0, PastBoundary
  <2>1. "track_fresh" \in Places /\ "track_fresh" \in Past BY DEF Places, Past
  <2>2. h' \in Requests BY <1>2, <2>0, <2>1, Zenon DEF Requests
  <2>3. /\ h'.pc = "track_fresh" /\ h'.owner = h.owner /\ h'.answered = h.answered
        /\ h'.mut = h.mut /\ h'.ino = i
    BY <1>2, <2>0 DEF Requests
  <2>4. UNCHANGED <<target, disk, store, marker, up>> BY <1>a
  <2>5. i \notin {target, disk.target, disk.stage} BY <1>2 DEF Free
  <2>6. StageOK' BY <1>2, <2>3, <2>4, <2>5 DEF StageOK, Owning, Whole
  <2>7. Handling' /\ told' \in Answers
    BY <1>0, <1>2, <2>1, <2>2, <2>3, <2>6, PastBoundary, Goes DEF Early
  <2>8. [Blank EXCEPT !.by = h.owner] \in File
    BY <2>0, UploadAssumption, Values DEF Blank, File
  <2>9. file' \in [Inodes -> File] BY <1>2, <2>8 DEF IndInv, TypeOK
  <2>10. effect' \in Effects BY <1>2, MutatesTyped
  <2>11. TypeOK' BY <1>2, <2>4, <2>7, <2>9, <2>10, Zenon DEF IndInv, TypeOK, store
  <2>12. NamesOK' BY <1>2, <2>4, <2>5 DEF IndInv, NamesOK
  <2>13. PublishedWhole' BY <1>2, <2>4, <2>5 DEF IndInv, TypeOK, PublishedWhole
  <2> QED BY <2>7, <2>11, <2>12, <2>13 DEF IndInv
<1> QED BY <1>1, <1>2, Zenon DEF CreateStage

(* It is registered as active before a byte is written. *)
LEMMA TrackKeeps == ASSUME IndInv, TrackFresh PROVE IndInv'
<1>a. h.pc = "track_fresh" /\ (active' = TRUE \/ active' = active) BY Zenon DEF TrackFresh
<1>0. h.pc \in Past /\ h.mut = "detached" /\ Owning /\ active' \in BOOLEAN
  BY <1>a, Zenon DEF IndInv, TypeOK, Handling, BoundaryOK, Past, Owning
<1>1. UNCHANGED <<store, names, marker, up, told, effect, stage, target, disk>>
  BY DEF TrackFresh, client, names
<1>2. CASE Persist("initial", 0)
  BY <1>0, <1>1, <1>2, Values, PersistsPast, Reads DEF StageJobs
<1>3. CASE Goto("timeout") BY <1>0, <1>1, <1>3, GoesPast, Reads
<1>4. CASE h' = [h EXCEPT !.pc = "discard", !.then = "finish"]
  BY <1>0, <1>1, <1>4, DiscardsPast, Reads
<1> QED BY <1>2, <1>3, <1>4, Zenon DEF TrackFresh

(* The stage of a resumed session is opened. *)
LEMMA OpenKeeps == ASSUME IndInv, OpenStage PROVE IndInv'
<1> DEFINE r == rows[h.owner]
           p == IF file[r.ino].len > h.off THEN "truncate" ELSE "rebind"
<1>0. /\ Handling /\ told \in Answers /\ active \in BOOLEAN /\ h \in Requests
      /\ h.owner \in Owners /\ h.mut # "detached"
  BY DEF IndInv, TypeOK, Handling, RequestOK, BoundaryOK, OpenStage
<1>a. h.pc \notin {"idle", "done"} \union Discarding BY DEF OpenStage, Discarding
<1>b. Resume BY <1>0 DEF OpenStage, Handling, BoundaryOK, Opening
<1>1. CASE Finish(h.cp)
  <2>1. h.cp \in Answers \ {"not_started"} BY <1>0, AnswerValues DEF Requests
  <2> QED BY <1>0, <1>1, <1>a, <2>1, EndsQuietly, Reads DEF OpenStage
<1>2. CASE /\ h' = [h EXCEPT !.pc = p, !.ino = r.ino]
           /\ valid_resumable_stage(r) /\ UNCHANGED <<active, told>>
  <2>1. r \in Row BY <1>0 DEF IndInv, TypeOK
  <2>2. r.ino \in Inodes /\ stage = r.ino BY <1>2, <2>1 DEF Row, valid_resumable_stage
  <2>3. p \in {"truncate", "rebind"} /\ p \in Opening BY DEF Opening
  <2>4. p \in Places BY <2>3 DEF Places
  <2> HIDE DEF r, p
  <2>5. h' \in Requests BY <1>0, <1>2, <2>2, <2>4, Zenon DEF Requests
  <2>6. /\ h'.pc = p /\ h'.owner = h.owner /\ h'.answered = h.answered
        /\ h'.mut = h.mut /\ h'.ino = r.ino /\ h'.kind = h.kind
    BY <1>0, <1>2 DEF Requests
  <2>7. StageOK'
    BY <2>2, <2>3, <2>6 DEF IndInv, NamesOK, StageOK, Owning, Whole, OpenStage, names
  <2>8. Handling' /\ told' \in Answers
    BY <1>0, <1>2, <1>a, <1>b, <2>3, <2>5, <2>6, <2>7, Goes DEF OpenStage, Early, Past, Resume
  <2> QED BY <1>0, <1>2, <2>8, Reads DEF OpenStage
<1> QED BY <1>1, <1>2 DEF OpenStage

(* What is known of a request that has its stage open. *)
LEMMA AtStage ==
    ASSUME IndInv, Owning
    PROVE  /\ Handling /\ told \in Answers /\ active \in BOOLEAN /\ effect \in Effects
           /\ h \in Requests /\ h.owner \in Owners /\ aged \in BOOLEAN
           /\ h.pc \notin {"idle", "done"} \union Discarding
           /\ file[h.ino] \in File /\ h.off \in Offsets
           /\ h.ino \in Inodes /\ h.cp \in {"none", "running", "awaiting"}
           /\ h.pc \in Past => h.mut = "detached"
<1>1. Handling /\ told \in Answers /\ active \in BOOLEAN /\ effect \in Effects /\ aged \in BOOLEAN
  BY DEF IndInv, TypeOK
<1>2. h \in Requests /\ h.pc \notin {"idle", "done"} \union Discarding
  BY <1>1 DEF Handling, RequestOK, Owning, Discarding
<1>3. h.owner \in Owners /\ h.ino \in Inodes BY <1>1, <1>2 DEF Handling, RequestOK, StageOK
<1>4. file[h.ino] \in File BY <1>3 DEF IndInv, TypeOK
<1>5. h.off \in Offsets /\ h.cp \in {"none", "running", "awaiting"} BY <1>2 DEF Requests
<1>6. h.pc \in Past => h.mut = "detached" BY <1>1 DEF Handling, BoundaryOK
<1> QED BY <1>1, <1>2, <1>3, <1>4, <1>5, <1>6

(* The forms that the stage file takes. *)
LEMMA FileForms ==
    ASSUME NEW f \in File, NEW n \in Offsets
    PROVE  /\ Truncated(f, n) \in File /\ [Truncated(f, n) EXCEPT !.synced = n] \in File
           /\ [f EXCEPT !.synced = f.len] \in File /\ f.len \in Offsets
           /\ f.len < Len => [f EXCEPT !.len = f.len + 1] \in File
           /\ \A v \in Revisions : [f EXCEPT !.meta = v] \in File
<1>1. f.len \in Offsets /\ f.synced \in Offsets BY DEF File
<1>2. (IF f.synced < n THEN f.synced ELSE n) \in Offsets BY <1>1
<1>3. Truncated(f, n) \in File BY <1>2, Zenon DEF Truncated, File
<1>4. [Truncated(f, n) EXCEPT !.synced = n] \in File BY <1>3, Zenon DEF File
<1>5. [f EXCEPT !.synced = f.len] \in File BY <1>1, Zenon DEF File
<1>6. ASSUME f.len < Len PROVE [f EXCEPT !.len = f.len + 1] \in File
  <2>1. f.len + 1 \in Offsets BY <1>1, <1>6, UploadAssumption DEF Offsets
  <2> QED BY <2>1, Zenon DEF File
<1>7. \A v \in Revisions : [f EXCEPT !.meta = v] \in File BY Zenon DEF File
<1> QED BY <1>1, <1>3, <1>4, <1>5, <1>6, <1>7

(* It is cut back to the offset of its row as the request is detached. *)
LEMMA TruncateKeeps == ASSUME IndInv, TruncateStage PROVE IndInv'
<1>a. h.pc = "truncate" /\ UNCHANGED <<store, stage, target, disk, marker, up>>
  BY DEF TruncateStage
<1>0. Owning /\ h.mut # "detached" BY <1>a DEF Owning, IndInv, Handling, BoundaryOK
<1>1. CASE ~begin_upload_mutation
  <2>1. Finish("not_started") /\ UNCHANGED <<file, aged, effect>> BY <1>1, Zenon DEF TruncateStage
  <2>2. Handling' /\ told' \in Answers /\ active' \in BOOLEAN
    BY <1>0, <2>1, AtStage, EndsQuietly DEF Answers
  <2> QED BY <1>a, <2>1, <2>2, Reads DEF names
<1>2. CASE begin_upload_mutation
  <2>1. /\ file' = [file EXCEPT ![h.ino] = Truncated(file[h.ino], h.off)]
        /\ h' = [Crossed(h) EXCEPT !.pc = "rebind"]
        /\ aged' = FALSE /\ Mutates /\ UNCHANGED <<active, told>>
    BY <1>2, Zenon DEF TruncateStage
  <2>2. "rebind" \in Places BY DEF Places, Opening
  <2>3. h' \in Requests BY <1>0, <2>1, <2>2, AtStage, Zenon DEF Requests, Crossed
  <2>4. /\ h'.pc = "rebind" /\ h'.owner = h.owner /\ h'.answered = h.answered
        /\ h'.mut = "detached" /\ h'.ino = h.ino
    BY <1>0, <2>1, AtStage DEF Requests, Crossed
  <2>5. StageOK' BY <1>0, <1>a, <2>4 DEF IndInv, Handling, StageOK, Owning, Whole
  <2>6. Handling' /\ told' \in Answers
    BY <1>0, <1>2, <2>1, <2>3, <2>4, <2>5, AtStage, Goes
       DEF begin_upload_mutation, Early, Opening, Past
  <2>7. Truncated(file[h.ino], h.off) \in File BY <1>0, AtStage, FileForms, Zenon
  <2>8. effect' \in Effects BY <2>1, MutatesTyped
  <2> QED BY <1>0, <1>a, <2>1, <2>6, <2>7, <2>8, AtStage, Writes, Zenon
<1> QED BY <1>1, <1>2

(* A running session adopts the revision of this request. *)
LEMMA RebindKeeps == ASSUME IndInv, RebindRevision PROVE IndInv'
<1>a. h.pc = "rebind" /\ UNCHANGED <<store, names, marker, effect, up>> BY DEF RebindRevision
<1>0. Owning BY <1>a DEF Owning
<1>b. UNCHANGED <<stage, target, disk, file>> BY <1>a DEF names
<1>1. CASE Finish("not_started") /\ ~begin_upload_mutation
  BY <1>0, <1>1, <1>a, AtStage, EndsQuietly, Reads DEF Answers, begin_upload_mutation
<1>2. CASE /\ h' = [Crossed(h) EXCEPT !.pc = "sync", !.job = "rebind", !.size = h.off]
           /\ begin_upload_mutation /\ UNCHANGED <<active, told>>
  <2>1. "sync" \in Places /\ "rebind" \in Jobs BY DEF Places, Past, Jobs, StageJobs
  <2>2. h' \in Requests BY <1>0, <1>2, <2>1, AtStage, Zenon DEF Requests, Crossed
  <2>3. /\ h'.pc = "sync" /\ h'.owner = h.owner /\ h'.answered = h.answered
        /\ h'.mut = "detached" /\ h'.ino = h.ino /\ h'.job = "rebind"
    BY <1>0, <1>2, AtStage DEF Requests, Crossed
  <2>4. StageOK' BY <1>0, <1>b, <2>3 DEF IndInv, Handling, StageOK, Owning, Whole
  <2>5. Handling' /\ told' \in Answers
    BY <1>0, <1>2, <2>2, <2>3, <2>4, AtStage, Goes
       DEF begin_upload_mutation, Early, Opening, Past, StageJobs
  <2> QED BY <1>0, <1>2, <1>a, <2>5, AtStage, Reads
<1>3. CASE /\ h' = [h EXCEPT !.pc = "reserve", !.seen = NoRev] /\ UNCHANGED <<active, told>>
  <2>1. "reserve" \in Places BY DEF Places, Opening
  <2>2. h' \in Requests BY <1>0, <1>3, <2>1, AtStage, Zenon DEF Requests
  <2>3. /\ h'.pc = "reserve" /\ h'.owner = h.owner /\ h'.answered = h.answered
        /\ h'.mut = h.mut /\ h'.ino = h.ino /\ h'.kind = h.kind
    BY <1>0, <1>3, AtStage DEF Requests
  <2>4. StageOK' BY <1>0, <1>b, <2>3 DEF IndInv, Handling, StageOK, Owning, Whole
  <2>5. ~Resume => h.mut = "detached" BY <1>a DEF IndInv, Handling, BoundaryOK, Opening
  <2>6. Handling' /\ told' \in Answers
    BY <1>0, <1>3, <1>a, <2>2, <2>3, <2>4, <2>5, AtStage, Goes DEF Early, Opening, Past, Resume
  <2> QED BY <1>0, <1>3, <1>a, <2>6, AtStage, Reads
<1> QED BY <1>1, <1>2, <1>3, Zenon DEF RebindRevision

(* A request past its boundary ends, or goes on, having written its stage. *)
LEMMA WritesPast ==
    ASSUME IndInv, Owning, UNCHANGED <<store, stage, target, disk, marker, up>>,
           NEW f \in File, file' = [file EXCEPT ![h.ino] = f] \/ file' = file,
           aged' \in {FALSE, aged}, active' = active \/ active' \in BOOLEAN,
           effect' = effect \/ Mutates, Handling', told' \in Answers
    PROVE  IndInv'
<1>1. aged' \in BOOLEAN /\ active' \in BOOLEAN BY AtStage, Zenon
<1>2. effect' \in Effects BY AtStage, MutatesTyped
<1> QED BY <1>1, <1>2, Writes, Zenon

(* finish_precommit_space_failure *)
LEMMA SpaceFails ==
    ASSUME IndInv, Owning, h.pc \in Past \union {"reserve"}, h.mut # "cancelled",
           ~Resume => h.mut = "detached", SpaceFailure
    PROVE  /\ Handling' /\ told' \in Answers /\ active' \in BOOLEAN
           /\ effect' = effect \/ Mutates
           /\ \E f \in File : file' = [file EXCEPT ![h.ino] = f] \/ file' = file
<1>1. CASE Resume
  <2>1. Finish("running") /\ Mutates BY <1>1 DEF SpaceFailure
  <2>2. Handling' /\ told' \in Answers /\ active' \in BOOLEAN
    BY <2>1, AtStage, EndsLater, AnswerValues
  <2>3. Truncated(file[h.ino], h.off) \in File /\ RolledBack(file[h.ino]) \in File
    BY AtStage, FileForms, Zenon DEF RolledBack
  <2>4. \/ file' = [file EXCEPT ![h.ino] = RolledBack(file[h.ino])]
        \/ file' = file \/ file' = [file EXCEPT ![h.ino] = Truncated(file[h.ino], h.off)]
    BY <1>1 DEF SpaceFailure
  <2> QED BY <2>1, <2>2, <2>3, <2>4, Zenon
<1>2. CASE ~Resume
  <2>1. ResetThen("rejected") /\ UNCHANGED <<file, active, told, effect>>
    BY <1>2 DEF SpaceFailure
  <2>2. Handling' /\ told' \in Answers BY <1>2, <2>1, ResetsPast
  <2> QED BY <2>1, <2>2, AtStage
<1> QED BY <1>1, <1>2

(* Space is reserved for the rest of the body. *)
LEMMA ReserveKeeps == ASSUME IndInv, ReserveSpace PROVE IndInv'
<1>a. h.pc = "reserve" /\ UNCHANGED <<store, stage, target, disk, aged, marker, up>>
  BY DEF ReserveSpace
<1>0. Owning /\ (~Resume => h.mut = "detached")
  BY <1>a DEF Owning, IndInv, Handling, BoundaryOK, Opening
<1>1. CASE /\ begin_upload_mutation /\ h' = [Crossed(h) EXCEPT !.pc = "body"]
           /\ UNCHANGED <<file, active, told, effect>>
  <2>1. "body" \in Places /\ "body" \in Past BY DEF Places, Past
  <2>2. h' \in Requests BY <1>0, <1>1, <2>1, AtStage, Zenon DEF Requests, Crossed
  <2>3. /\ h'.pc = "body" /\ h'.owner = h.owner /\ h'.answered = h.answered
        /\ h'.mut = "detached" /\ h'.ino = h.ino
    BY <1>0, <1>1, AtStage DEF Requests, Crossed
  <2>4. StageOK' BY <1>0, <1>a, <2>3 DEF IndInv, Handling, StageOK, Owning, Whole
  <2>5. Handling' /\ told' \in Answers
    BY <1>0, <1>1, <2>1, <2>2, <2>3, <2>4, AtStage, Goes DEF begin_upload_mutation, Early, Opening
  <2> QED BY <1>0, <1>1, <1>a, <2>5, AtStage, Reads DEF names
<1>2. CASE /\ UNCHANGED <<file, effect>>
           /\ \/ ~begin_upload_mutation /\ Finish("not_started")
              \/ Finish(h.cp)
  <2>1. \E a \in Answers : Finish(a) /\ (a = "not_started" => h.mut # "detached")
    BY <1>0, <1>2, AtStage DEF begin_upload_mutation, Answers
  <2>2. Handling' /\ told' \in Answers /\ active' \in BOOLEAN
    BY <1>0, <1>2, <2>1, AtStage, EndsQuietly
  <2> QED BY <1>2, <1>a, <2>2, Reads DEF names
<1>3. CASE SpaceFailure /\ begin_upload_mutation
  BY <1>0, <1>3, <1>a, SpaceFails, WritesPast DEF begin_upload_mutation
<1>4. CASE /\ h.mut = "detached" /\ Goto("timeout")
           /\ UNCHANGED <<file, active, told, effect>>
  <2>1. Handling' /\ told' \in Answers BY <1>0, <1>4, <1>a, GoesPast
  <2> QED BY <1>0, <1>4, <1>a, <2>1, AtStage, Reads DEF names
<1> QED BY <1>1, <1>2, <1>3, <1>4, Zenon DEF ReserveSpace

-----------------------------------------------------------------------------
(* Cleanup *)

(* A step past the boundary that may take the stage name away. *)
LEMMA RemovesPast ==
    ASSUME IndInv, Unlinks, UNCHANGED <<store, target, marker, up>>,
           active' = active \/ active' \in BOOLEAN,
           effect' = effect \/ Mutates, Handling', told' \in Answers
    PROVE  IndInv'
<1>1. active' \in BOOLEAN BY Zenon DEF IndInv, TypeOK
<1>2. effect' \in Effects BY MutatesTyped, Zenon DEF IndInv, TypeOK
<1> QED BY <1>1, <1>2, Removes, Zenon

(* An error past the boundary ends the request. *)
LEMMA FailsPast ==
    ASSUME IndInv, h.pc \in Past \union {"reserve"}, h.mut = "detached", Fails
    PROVE  Handling' /\ told' \in Answers /\ active' \in BOOLEAN
BY EndsPast, AnswerValues DEF Fails

(* The stage that failed is removed. *)
LEMMA DiscardKeeps == ASSUME IndInv, DiscardStage PROVE IndInv'
<1>a. h.pc = "discard" /\ Mutates /\ UNCHANGED <<store, target, marker, up>>
  BY Zenon DEF DiscardStage
<1>0. h.pc \in Past /\ h.mut = "detached" BY <1>a DEF IndInv, Handling, BoundaryOK, Past
<1>1. Unlinks BY RemovesByIdentity, Zenon DEF DiscardStage, Unlinks
<1>2. CASE Fails BY <1>0, <1>1, <1>2, <1>a, FailsPast, RemovesPast
<1>3. CASE ResetThen("unknown") /\ UNCHANGED <<active, told>>
  BY <1>0, <1>1, <1>3, <1>a, ResetsPast, RemovesPast
<1> QED BY <1>2, <1>3, Zenon DEF DiscardStage

(* Where a reset continues. *)
LEMMA AfterResetGoes ==
    ASSUME IndInv, h.pc \in {"reset", "reset_row"}, AfterReset
    PROVE  /\ Handling' /\ told' \in Answers
           /\ active' = active \/ active' \in BOOLEAN
<1>0. /\ h.pc \in Past /\ h.mut = "detached" /\ h.then \in {"rejected", "unknown", "refuse"}
  BY DEF IndInv, Handling, BoundaryOK, RequestOK, Past
<1>1. CASE h.then = "refuse"
  <2>1. Record("refuse", 0) /\ UNCHANGED <<active, told>> BY <1>1 DEF AfterReset
  <2> QED BY <1>0, <2>1, Values, RecordsPast
<1>2. CASE h.then # "refuse"
  <2>1. Finish(h.then) BY <1>2 DEF AfterReset
  <2> QED BY <1>0, <1>2, <2>1, EndsPast, AnswerValues
<1> QED BY <1>1, <1>2

(* A reset removes the stage first, *)
LEMMA ResetStageKeeps == ASSUME IndInv, ResetStage PROVE IndInv'
<1> DEFINE r == rows[h.owner]
<1>a. h.pc = "reset" /\ UNCHANGED <<store, target, marker, up>> BY Zenon DEF ResetStage
<1>0. h.pc \in Past /\ h.mut = "detached" BY <1>a DEF IndInv, Handling, BoundaryOK, Past
<1>1. CASE AfterReset /\ UNCHANGED <<stage, disk, aged, file, effect>>
  BY <1>1, <1>a, AfterResetGoes, RemovesPast DEF Unlinks
<1>2. CASE Fails /\ UNCHANGED <<stage, disk, aged, file, effect>>
  BY <1>0, <1>2, <1>a, FailsPast, RemovesPast DEF Unlinks
<1>3. CASE /\ remove_file_if_identity(r.ino) /\ Mutates
           /\ h' = [h EXCEPT !.pc = "reset_row", !.row = r] /\ UNCHANGED <<active, told>>
  <2>0. h \in Requests /\ h.then \in {"rejected", "unknown", "refuse"} /\ r \in Row
    BY <1>0, <1>a, PastBoundary DEF RequestOK, IndInv, TypeOK
  <2>1. "reset_row" \in Places /\ "reset_row" \in Past BY DEF Places, Past
  <2> HIDE DEF r
  <2>2. h' \in Requests BY <1>3, <2>0, <2>1, Zenon DEF Requests
  <2>3. /\ h'.pc = "reset_row" /\ h'.owner = h.owner /\ h'.answered = h.answered
        /\ h'.mut = h.mut /\ h'.then = h.then
    BY <1>3, <2>0 DEF Requests
  <2>4. StageOK' BY <2>3 DEF StageOK, Owning, Whole
  <2>5. Handling' /\ told' \in Answers
    BY <1>0, <1>3, <2>0, <2>1, <2>2, <2>3, <2>4, PastBoundary, Goes, Zenon DEF Early, Opening
  <2> QED BY <1>3, <1>a, <2>5, RemovesByIdentity, RemovesPast
<1>4. CASE remove_file_if_identity(r.ino) /\ Mutates /\ Fails
  BY <1>0, <1>4, <1>a, FailsPast, RemovesByIdentity, RemovesPast
<1> QED BY <1>1, <1>2, <1>3, <1>4, Zenon DEF ResetStage

(* The tables that the transactions leave. *)
LEMMA SetRowsTyped ==
    ASSUME IndInv, NEW t \in [Owners -> Row], SetRows(t)
    PROVE  rows' \in [Owners -> Row] /\ landed' \in [Owners -> BOOLEAN]
<1> DEFINE b(o) == /\ landed[o] /\ t[o].state # "none"
                   /\ Disposable(rows[o]) => t[o] = rows[o]
<1>1. landed' = [o \in Owners |-> b(o)] BY Zenon DEF SetRows
<1>2. \A o \in Owners : b(o) \in BOOLEAN BY Zenon
<1> HIDE DEF b
<1>3. landed' \in [Owners -> BOOLEAN] BY <1>1, <1>2, Zenon
<1> QED BY <1>3, Zenon DEF SetRows

(* The tables that recovery and sweeping produce. *)
LEMMA WholeTables ==
    ASSUME NEW t \in [Owners -> Row]
    PROVE  recover_database(t) \in [Owners -> Row] /\ Swept(t) \in [Owners -> Row]
<1>1. \A x \in Owners : [t[x] EXCEPT !.state = "unknown", !.expired = FALSE] \in Row
  BY Zenon DEF Row, States, Terminal
<1>2. recover_database(t) \in [Owners -> Row] BY <1>1, Zenon DEF recover_database
<1> QED BY <1>2, Values, Zenon DEF Swept

(* The tables that removing and rejecting a row produce. *)
LEMMA TablesTyped ==
    ASSUME NEW t \in [Owners -> Row], NEW o \in Owners, NEW e
    PROVE  /\ remove_upload_session_if_matches(t, o, e) \in [Owners -> Row]
           /\ reject_upload_session(t, o) \in [Owners -> Row]
<1>1. [t EXCEPT ![o] = NoRow] \in [Owners -> Row] BY Values
<1>2. [t[o] EXCEPT !.state = "rejected", !.expired = FALSE] \in Row
  BY Zenon DEF Row, States, Terminal
<1>3. [t EXCEPT ![o].state = "rejected", ![o].expired = FALSE] \in [Owners -> Row]
  BY <1>2
<1> QED
  BY <1>1, <1>3, Zenon DEF remove_upload_session_if_matches, reject_upload_session

(* and then the row. *)
LEMMA ResetRowKeeps == ASSUME IndInv, ResetRow PROVE IndInv'
<1> DEFINE t == remove_upload_session_if_matches(rows, h.owner, h.row)
<1>a. h.pc = "reset_row" /\ Mutates /\ UNCHANGED <<names, marker, up>> BY Zenon DEF ResetRow
<1>0. h.pc \in Past /\ h.mut = "detached" BY <1>a DEF IndInv, Handling, BoundaryOK, Past
<1>1. Handling' /\ told' \in Answers /\ (active' = active \/ active' \in BOOLEAN)
  BY <1>0, <1>a, FailsPast, AfterResetGoes, Zenon DEF ResetRow
<1>2. SetRows(t) \/ UNCHANGED store BY Zenon DEF ResetRow
<1>3. t \in [Owners -> Row] BY <1>0, PastBoundary, TablesTyped DEF IndInv, TypeOK
<1> HIDE DEF t
<1>4. rows' \in [Owners -> Row] /\ landed' \in [Owners -> BOOLEAN]
  BY <1>2, <1>3, SetRowsTyped DEF IndInv, TypeOK, store
<1>5. active' \in BOOLEAN BY <1>1, Zenon DEF IndInv, TypeOK
<1> QED BY <1>1, <1>4, <1>5, <1>a, MutatesTyped, Records, Zenon

-----------------------------------------------------------------------------
(* The persist_* family *)

(* What a request that saves a checkpoint knows of its stage. *)
LEMMA Persisting ==
    ASSUME IndInv, h.pc \in {"sync", "save"}
    PROVE  /\ h.pc \in Past /\ h.mut = "detached" /\ h \in Requests
           /\ h.job \in Jobs \ {"none"} /\ (Owning <=> h.job \in StageJobs)
           /\ h.pc = "sync" => Owning
BY DEF IndInv, Handling, BoundaryOK, RequestOK, Requests, Past, Owning, StageJobs

(* A checkpoint that cannot be saved, *)
LEMMA PersistFails ==
    ASSUME IndInv, h.pc \in {"sync", "save"}, PersistFailed
    PROVE  /\ Handling' /\ told' \in Answers
           /\ active' = active \/ active' \in BOOLEAN
<1>0. h.pc \in Past /\ h.mut = "detached" BY Persisting
<1>1. CASE h' = [h EXCEPT !.pc = "discard", !.then = "reset"] /\ UNCHANGED <<active, told>>
  BY <1>0, <1>1, DiscardsPast
<1>2. CASE ResetThen("rejected") /\ UNCHANGED <<active, told>> BY <1>0, <1>2, ResetsPast
<1>3. CASE Finish("rejected") \/ Finish("unknown") BY <1>0, <1>3, EndsPast, AnswerValues
<1> QED BY <1>1, <1>2, <1>3 DEF PersistFailed

(* and one that was. *)
LEMMA PersistEnds ==
    ASSUME IndInv, h.pc = "save", Persisted, UNCHANGED names
    PROVE  /\ Handling' /\ told' \in Answers
           /\ active' = active \/ active' \in BOOLEAN
<1>0. /\ h.pc \in Past /\ h.mut = "detached" /\ h \in Requests
      /\ Owning <=> h.job \in StageJobs
  BY Persisting
<1>1. ASSUME NEW p \in {"reserve", "publish"}, After(p), h.job \in StageJobs,
             p = "publish" => h.job = "commit"
      PROVE  Handling' /\ told' \in Answers /\ active' = active
  <2>0. /\ h' = [h EXCEPT !.pc = p, !.job = "none", !.size = 0, !.seen = NoRev]
        /\ UNCHANGED <<active, told>>
    BY <1>1 DEF After
  <2>1. p \in Places /\ p \in Past \union Opening /\ "none" \in Jobs
    BY DEF Places, Past, Opening, Jobs
  <2>2. 0 \in Offsets BY Values
  <2>3. h' \in Requests BY <1>0, <2>0, <2>1, <2>2, Zenon DEF Requests
  <2>4. /\ h'.pc = p /\ h'.owner = h.owner /\ h'.answered = h.answered
        /\ h'.mut = h.mut /\ h'.ino = h.ino
    BY <1>0, <2>0 DEF Requests
  <2>5. StageOK'
    BY <1>0, <1>1, <2>4 DEF IndInv, Handling, StageOK, Owning, Whole, names
  <2> QED BY <1>0, <2>0, <2>1, <2>3, <2>4, <2>5, PastBoundary, Goes DEF Early
<1>2. CASE \E a \in {"running", "unknown", "awaiting", "rejected", "committed"} : Finish(a)
  BY <1>0, <1>2, EndsPast, AnswerValues
<1>3. CASE \E p \in {"reserve", "publish"} :
               After(p) /\ h.job \in StageJobs /\ (p = "publish" => h.job = "commit")
  BY <1>1, <1>3
<1> QED BY <1>2, <1>3 DEF Persisted, StageJobs

(* sync_and_identify_stage puts the stage on disk before its row is saved. *)
LEMMA SyncKeeps == ASSUME IndInv, sync_and_identify_stage PROVE IndInv'
<1>a. /\ h.pc = "sync"
      /\ UNCHANGED <<store, stage, target, aged, marker, effect, up>>
  BY Zenon DEF sync_and_identify_stage
<1>0. Owning /\ h.pc \in Past /\ h.mut = "detached" /\ h.job \in StageJobs BY <1>a, Persisting
<1> DEFINE f == [file[h.ino] EXCEPT !.synced = file[h.ino].len]
<1>b. f \in File BY <1>0, AtStage, FileForms, Zenon
<1>1. CASE PersistFailed /\ UNCHANGED disk /\ (file' = [file EXCEPT ![h.ino] = f] \/ file' = file)
  <2> HIDE DEF f
  <2> QED BY <1>0, <1>1, <1>a, <1>b, PersistFails, WritesPast
<1>2. CASE /\ file' = [file EXCEPT ![h.ino] = f] /\ stage = h.ino
           /\ Goto("save") /\ UNCHANGED <<active, told>>
           /\ disk' = [disk EXCEPT !.stage = stage] \/ disk' = disk
  <2>0. h \in Requests /\ h.ino \in Inodes BY <1>0, AtStage
  <2>1. "save" \in Places /\ "save" \in Past BY DEF Places, Past
  <2>2. h' \in Requests BY <1>2, <2>0, <2>1, Zenon DEF Requests, Goto
  <2>3. /\ h'.pc = "save" /\ h'.owner = h.owner /\ h'.answered = h.answered
        /\ h'.mut = h.mut /\ h'.ino = h.ino /\ h'.job = h.job
    BY <1>2, <2>0 DEF Requests, Goto
  <2>4. /\ disk' \in [stage : Inodes \union {NoIno}, target : Revisions \union {NoIno}]
        /\ disk'.target = disk.target /\ disk'.stage \in {disk.stage, stage}
    BY <1>2, <2>0 DEF IndInv, TypeOK
  <2>5. file' \in [Inodes -> File] BY <1>2, <1>b, Zenon DEF IndInv, TypeOK
  <2>6. file'[h.ino].len = file[h.ino].len BY <1>0, <1>2, AtStage, Zenon DEF IndInv, TypeOK, File
  <2> HIDE DEF f
  <2>7. StageOK'
    BY <1>0, <1>a, <2>3, <2>4, <2>6 DEF IndInv, Handling, StageOK, Owning, Whole
  <2>8. Handling' /\ told' \in Answers
    BY <1>0, <1>2, <2>1, <2>2, <2>3, <2>7, PastBoundary, Goes DEF Early, Opening, StageJobs
  <2>9. TypeOK' BY <1>2, <1>a, <2>4, <2>5, <2>8, Zenon DEF IndInv, TypeOK, store
  <2>10. NamesOK' BY <1>a, <2>4 DEF IndInv, NamesOK
  <2>11. PublishedWhole'
    BY <1>0, <1>2, <1>a, <2>4 DEF IndInv, TypeOK, PublishedWhole, Handling, StageOK
  <2> QED BY <2>8, <2>9, <2>10, <2>11 DEF IndInv
<1> QED BY <1>1, <1>2, Zenon DEF sync_and_identify_stage

(* The row that is proposed, *)
LEMMA ProposalTyped ==
    ASSUME IndInv, h.pc = "save"
    PROVE  Proposal \in Row
<1>1. /\ h \in Requests /\ h.owner \in Owners
  BY DEF IndInv, Handling, RequestOK
<1>2. rows[h.owner] \in Row BY <1>1 DEF IndInv, TypeOK
<1>3. /\ h.size \in Offsets /\ h.ino \in Inodes \union {NoIno} /\ h.pol \in Revisions \union {NoRev}
  BY <1>1 DEF Requests
<1>4. /\ rows[h.owner].ino \in Inodes \union {NoIno}
      /\ rows[h.owner].rev \in Revisions \union {NoRev}
  BY <1>2 DEF Row
<1>5. ASSUME NEW s \in States, NEW n \in Offsets, NEW i \in Inodes \union {NoIno},
             NEW v \in Revisions \union {NoRev}
      PROVE  [state |-> s, off |-> n, ino |-> i, rev |-> v, expired |-> FALSE] \in Row
  BY Zenon DEF Row
<1>6. {"commit_started", "awaiting", "running", "rejected", "unknown", "committed"} \subseteq States
  BY DEF States, NonTerminal, Terminal
<1>7. [[state |-> "running", off |-> h.size, ino |-> h.ino, rev |-> h.pol, expired |-> FALSE]
          EXCEPT !.rev = rows[h.owner].rev] \in Row
  BY <1>3, <1>4, <1>5, <1>6, Zenon DEF Row
<1> QED BY <1>3, <1>4, <1>5, <1>6, <1>7, Values DEF Proposal

(* and the table with that row in it. *)
LEMMA SaveTyped ==
    ASSUME NEW t \in [Owners -> Row], NEW o \in Owners, NEW p \in Row, NEW fault \in BOOLEAN,
           NEW out \in save_upload_session(t, o, p, fault)
    PROVE  out.table \in [Owners -> Row]
<1>1. Swept(t) \in [Owners -> Row] BY WholeTables
<1>2. [p EXCEPT !.expired = FALSE] \in Row BY Zenon DEF Row
<1>3. [Swept(t) EXCEPT ![o] = [p EXCEPT !.expired = FALSE]] \in [Owners -> Row] BY <1>1, <1>2
<1>4. out.table \in {t, Swept(t), [Swept(t) EXCEPT ![o] = [p EXCEPT !.expired = FALSE]]}
  BY DEF save_upload_session
<1> QED BY <1>1, <1>3, <1>4, Zenon

(* persist_state. *)
LEMMA PersistKeeps == ASSUME IndInv, persist_state PROVE IndInv'
<1>a. h.pc = "save" /\ Mutates /\ UNCHANGED <<names, marker, up>> BY Zenon DEF persist_state
<1>1. PICK fault \in BOOLEAN : \E out \in save_upload_session(rows, h.owner, Proposal, fault) :
          SetRows(out.table) /\ (Persisted \/ PersistFailed)
  BY Zenon DEF persist_state
<1>2. PICK out \in save_upload_session(rows, h.owner, Proposal, fault) :
          SetRows(out.table) /\ (Persisted \/ PersistFailed)
  BY <1>1
<1>3. rows \in [Owners -> Row] /\ h.owner \in Owners
  BY <1>a DEF IndInv, TypeOK, Handling, RequestOK
<1>4. out.table \in [Owners -> Row] BY <1>2, <1>3, <1>a, ProposalTyped, SaveTyped
<1>5. rows' \in [Owners -> Row] /\ landed' \in [Owners -> BOOLEAN] BY <1>2, <1>4, SetRowsTyped
<1>6. Handling' /\ told' \in Answers /\ (active' = active \/ active' \in BOOLEAN)
  BY <1>2, <1>a, PersistEnds, PersistFails
<1>7. active' \in BOOLEAN BY <1>6, Zenon DEF IndInv, TypeOK
<1> QED BY <1>5, <1>6, <1>7, <1>a, MutatesTyped, Records, Zenon

-----------------------------------------------------------------------------
(* The body and the commit *)

(* A request past its boundary that reads the names and ends, or goes on. *)
LEMMA ReadsPast ==
    ASSUME IndInv, UNCHANGED <<store, names, marker, effect, up>>,
           Handling', told' \in Answers, active' = active \/ active' \in BOOLEAN
    PROVE  IndInv'
<1>1. active' \in BOOLEAN BY Zenon DEF IndInv, TypeOK
<1> QED BY <1>1, Reads

(* A chunk of the body is written to the stage. *)
LEMMA WriteKeeps == ASSUME IndInv, WriteChunk PROVE IndInv'
<1>a. /\ h.pc = "body" /\ file[h.ino].len < Len /\ aged' = FALSE /\ Mutates
      /\ file' = [file EXCEPT ![h.ino] = [file[h.ino] EXCEPT !.len = file[h.ino].len + 1]]
      /\ UNCHANGED <<store, stage, target, disk, active, marker, h, told, up>>
  BY Zenon DEF WriteChunk, registry
<1>0. Owning BY <1>a DEF Owning
<1>1. Handling'
  BY <1>a, <1>0, AtStage
     DEF Handling, RequestOK, StageOK, Owning, Whole, BoundaryOK, Past, Early, Opening,
         Discarding, Resume
<1>2. [file[h.ino] EXCEPT !.len = file[h.ino].len + 1] \in File
  BY <1>0, <1>a, AtStage, FileForms, Zenon
<1> QED BY <1>0, <1>1, <1>2, <1>a, AtStage, WritesPast, Zenon

(* The body ends, breaks off or stalls. *)
LEMMA BodyKeeps ==
    ASSUME IndInv, BodyEnds \/ BodyRefused \/ BodyBreaks \/ BodyTimesOut
    PROVE  IndInv'
<1>a. h.pc = "body" /\ UNCHANGED <<store, stage, target, disk, aged, marker, up>>
  BY Zenon DEF BodyEnds, BodyRefused, BodyBreaks, BodyTimesOut, names, registry
<1>0. h.pc \in Past /\ Owning /\ h.mut = "detached" BY <1>a, AtStage DEF Past, Owning
<1>1. CASE UNCHANGED <<file, effect>> /\ Finish("awaiting")
  BY <1>0, <1>1, <1>a, EndsPast, AnswerValues, ReadsPast DEF names
<1>2. CASE /\ UNCHANGED <<file, effect, active, told>>
           /\ \/ Goto("precommit") \/ Goto("timeout")
              \/ \E t \in {"rejected", "unknown"} : ResetThen(t)
              \/ \E n \in Offsets : Persist("partial", n)
  <2>1. Handling' /\ told' \in Answers
    BY <1>0, <1>2, <1>a, GoesPast, ResetsPast, PersistsPast DEF StageJobs
  <2> QED BY <1>2, <1>a, <2>1, ReadsPast DEF names
<1>3. CASE /\ file' = [file EXCEPT ![h.ino] = RolledBack(file[h.ino])]
           /\ Finish("running") /\ Mutates
  <2>1. RolledBack(file[h.ino]) \in File BY <1>0, AtStage, FileForms, Zenon DEF RolledBack
  <2>2. Handling' /\ told' \in Answers /\ active' \in BOOLEAN
    BY <1>0, <1>3, EndsPast, AnswerValues
  <2> QED BY <1>0, <1>3, <1>a, <2>1, <2>2, WritesPast, Zenon
<1>4. CASE BodyEnds BY <1>2, <1>4 DEF BodyEnds, names, registry, client
<1>5. CASE BodyRefused BY <1>1, <1>2, <1>3, <1>5 DEF BodyRefused
<1>6. CASE BodyBreaks
  <2>1. ASSUME NEW n \in h.off .. Len PROVE n \in Offsets
    BY <1>0, AtStage, UploadAssumption DEF Offsets
  <2> QED BY <1>1, <1>2, <1>6, <2>1, Zenon DEF BodyBreaks, names
<1>7. CASE BodyTimesOut BY <1>1, <1>2, <1>7 DEF BodyTimesOut, names
<1> QED BY <1>4, <1>5, <1>6, <1>7

(* What a body that stalled leaves. *)
LEMMA TimedOutKeeps == ASSUME IndInv, finish_timed_out_upload PROVE IndInv'
<1>a. h.pc = "timeout" /\ UNCHANGED <<store, names, marker, effect, up>>
  BY Zenon DEF finish_timed_out_upload
<1>0. h.pc \in Past /\ Owning /\ h.mut = "detached" BY <1>a, AtStage DEF Past, Owning
<1>1. CASE Persist("timeout", file[h.ino].len) /\ UNCHANGED <<active, told>>
  <2>1. file[h.ino].len \in Offsets BY <1>0, AtStage, FileForms, Zenon
  <2>2. Handling' /\ told' \in Answers
    BY <1>0, <1>1, <1>a, <2>1, PersistsPast DEF StageJobs, names
  <2> QED BY <1>1, <1>a, <2>2, ReadsPast
<1>2. CASE h' = [h EXCEPT !.pc = "discard", !.then = "reset"] /\ UNCHANGED <<active, told>>
  BY <1>0, <1>2, <1>a, DiscardsPast, ReadsPast
<1>3. CASE Fails BY <1>0, <1>3, <1>a, FailsPast, ReadsPast
<1> QED BY <1>1, <1>2, <1>3, Zenon DEF finish_timed_out_upload

(* Only a stage whose length is the declared one goes on to be published. *)
LEMMA TransferredKeeps == ASSUME IndInv, CheckTransferred PROVE IndInv'
<1>a. h.pc = "precommit" /\ UNCHANGED <<store, stage, target, disk, aged, marker, up>>
  BY Zenon DEF CheckTransferred
<1>0. h.pc \in Past /\ Owning /\ h.mut = "detached" BY <1>a, AtStage DEF Past, Owning
<1>1. CASE UNCHANGED <<file, effect>> /\ (Fails \/ \E a \in {"awaiting", "running"} : Finish(a))
  BY <1>0, <1>1, <1>a, FailsPast, EndsPast, AnswerValues, ReadsPast DEF names
<1>2. CASE /\ UNCHANGED <<file, effect, active, told>>
           /\ \/ ResetThen("rejected") \/ Goto("timeout")
              \/ file[h.ino].len = Len /\ Goto("metadata")
              \/ Persist("short", file[h.ino].len)
  <2>1. file[h.ino].len \in Offsets BY <1>0, AtStage, FileForms, Zenon
  <2>2. Handling' /\ told' \in Answers
    BY <1>0, <1>2, <1>a, <2>1, ResetsPast, GoesPast, PersistsPast DEF StageJobs
  <2> QED BY <1>2, <1>a, <2>2, ReadsPast DEF names
<1>3. CASE SpaceFailure BY <1>0, <1>3, <1>a, SpaceFails, WritesPast
<1> QED BY <1>1, <1>2, <1>3, Zenon DEF CheckTransferred, PrecommitError, CheckLength

(* The metadata of the target is copied onto the stage. *)
LEMMA ReplayKeeps == ASSUME IndInv, ReplayMetadata PROVE IndInv'
<1>a. h.pc = "metadata" /\ UNCHANGED <<store, stage, target, disk, aged, marker, up>>
  BY Zenon DEF ReplayMetadata
<1>0. /\ h.pc \in Past /\ Owning /\ h.mut = "detached" /\ file[h.ino].len = Len
  BY <1>a, AtStage DEF Past, Owning, IndInv, Handling, StageOK, Whole
<1>1. CASE h.tid = NoIno
  <2>1. Goto("space") /\ UNCHANGED <<file, active, told, effect>> BY <1>1 DEF ReplayMetadata
  <2>2. Handling' /\ told' \in Answers BY <1>0, <1>a, <2>1, GoesPast
  <2> QED BY <1>a, <2>1, <2>2, ReadsPast DEF names
<1>2. CASE h.tid # NoIno
  <2> DEFINE f == [file[h.ino] EXCEPT !.meta = h.tid]
  <2>1. file' = [file EXCEPT ![h.ino] = f] /\ Mutates BY <1>2, Zenon DEF ReplayMetadata
  <2>2. h.tid \in Revisions BY <1>0, <1>2, AtStage DEF Requests
  <2>3. f \in File BY <1>0, <2>2, AtStage, FileForms, Zenon
  <2>4. file'[h.ino].len = Len BY <1>0, <2>1, AtStage DEF IndInv, TypeOK, File
  <2> HIDE DEF f
  <2>5. CASE Goto("space") /\ UNCHANGED <<active, told>>
    <3>1. Handling' /\ told' \in Answers BY <1>0, <1>a, <2>4, <2>5, GoesPast
    <3> QED BY <1>0, <1>a, <2>1, <2>3, <2>5, <3>1, WritesPast, Zenon
  <2>6. CASE Finish("awaiting")
    <3>1. Handling' /\ told' \in Answers /\ active' \in BOOLEAN
      BY <1>0, <2>6, EndsPast, AnswerValues
    <3> QED BY <1>0, <1>a, <2>1, <2>3, <3>1, WritesPast, Zenon
  <2>7. CASE (\E t \in {"rejected", "unknown"} : ResetThen(t)) /\ UNCHANGED <<active, told>>
    <3>1. Handling' /\ told' \in Answers BY <1>0, <2>7, ResetsPast
    <3> QED BY <1>0, <1>a, <2>1, <2>3, <2>7, <3>1, WritesPast, Zenon
  <2> QED BY <1>2, <2>5, <2>6, <2>7, Zenon DEF ReplayMetadata
<1> QED BY <1>1, <1>2

(* The space left is checked once more. *)
LEMMA SpaceKeeps == ASSUME IndInv, CheckSpace PROVE IndInv'
<1>a. h.pc = "space" /\ UNCHANGED <<store, names, marker, effect, up>> BY Zenon DEF CheckSpace
<1>0. h.pc \in Past /\ Owning /\ h.mut = "detached" /\ file[h.ino].len = Len
  BY <1>a, AtStage DEF Past, Owning, IndInv, Handling, StageOK, Whole
<1>b. UNCHANGED <<stage, target, disk, file>> BY <1>a DEF names
<1>1. CASE Persist("commit", Len) /\ UNCHANGED <<active, told>>
  BY <1>0, <1>1, <1>a, <1>b, Values, PersistsPast, ReadsPast DEF StageJobs
<1>2. CASE Finish("awaiting") BY <1>0, <1>2, <1>a, EndsPast, AnswerValues, ReadsPast, Zenon
<1>3. CASE ResetThen("rejected") /\ UNCHANGED <<active, told>>
  BY <1>0, <1>3, <1>a, ResetsPast, ReadsPast
<1> QED BY <1>1, <1>2, <1>3, Zenon DEF CheckSpace

(* The stage is synced: from here a crash cannot shorten it. *)
LEMMA StagedKeeps == ASSUME IndInv, SyncStagedFile PROVE IndInv'
<1>a. /\ h.pc = "publish"
      /\ UNCHANGED <<store, stage, target, disk, aged, active, marker, told, effect, up>>
  BY Zenon DEF SyncStagedFile, registry, client
<1>0. h.pc \in Past /\ Owning /\ h.mut = "detached" /\ file[h.ino].len = Len
  BY <1>a, AtStage DEF Past, Owning, IndInv, Handling, StageOK, Whole
<1>1. CASE file' = file /\ \E t \in {"rejected", "refuse"} : ResetThen(t)
  BY <1>0, <1>1, <1>a, ResetsPast, ReadsPast, Zenon DEF names
<1>2. CASE /\ file' = [file EXCEPT ![h.ino] = [file[h.ino] EXCEPT !.synced = file[h.ino].len]]
           /\ Goto("check")
  <2>1. [file[h.ino] EXCEPT !.synced = file[h.ino].len] \in File
    BY <1>0, AtStage, FileForms, Zenon
  <2>2. file'[h.ino].len = Len /\ file'[h.ino].synced = Len
    BY <1>0, <1>2, AtStage DEF IndInv, TypeOK, File
  <2>3. Handling' /\ told' \in Answers BY <1>0, <1>2, <1>a, <2>2, GoesPast
  <2> QED BY <1>0, <1>2, <1>a, <2>1, <2>3, WritesPast, Zenon
<1> QED BY <1>1, <1>2, Zenon DEF SyncStagedFile

(* The names are compared with what the request saw of them. *)
LEMMA CheckKeeps == ASSUME IndInv, CheckReplace PROVE IndInv'
<1>a. h.pc = "check" /\ UNCHANGED <<store, names, active, marker, told, effect, up>>
  BY Zenon DEF CheckReplace, registry, client
<1>0. /\ h.pc \in Past /\ Owning /\ h.mut = "detached"
      /\ file[h.ino].len = Len /\ file[h.ino].synced = Len
  BY <1>a, AtStage DEF Past, Owning, IndInv, Handling, StageOK, Whole
<1>b. UNCHANGED <<stage, target, disk, file>> BY <1>a DEF names
<1>1. \/ Goto("rename") \/ Persist("awaiting", Len) \/ ResetThen("refuse")
      \/ Record("unknown", Len)
  BY Zenon DEF CheckReplace
<1>2. Handling' /\ told' \in Answers
  BY <1>0, <1>1, <1>a, <1>b, Values, GoesPast, PersistsPast, ResetsPast, RecordsPast
     DEF StageJobs
<1> QED BY <1>2, <1>a, ReadsPast

(* The rename publishes a whole and synced stage. *)
LEMMA RenameKeeps == ASSUME IndInv, rename_replace_if_unchanged PROVE IndInv'
<1>a. h.pc = "rename" /\ UNCHANGED <<rows, disk, file, aged, active, marker, told, up>>
  BY Zenon DEF rename_replace_if_unchanged, registry
<1>0. /\ h.pc \in Past /\ Owning /\ h.mut = "detached" /\ stage \in {NoIno, h.ino}
      /\ file[h.ino].len = Len /\ file[h.ino].synced = Len
  BY <1>a, AtStage DEF Past, Owning, IndInv, Handling, StageOK, Whole
<1>1. CASE /\ Persist("awaiting", Len) \/ ResetThen("refuse")
           /\ UNCHANGED <<stage, target, landed, effect>>
  <2>1. Handling' /\ told' \in Answers
    BY <1>0, <1>1, <1>a, Values, PersistsPast, ResetsPast DEF StageJobs
  <2> QED BY <1>1, <1>a, <2>1, ReadsPast DEF names, store
<1>2. CASE /\ stage # NoIno /\ target' = stage /\ stage' = NoIno
           /\ landed' = [landed EXCEPT ![h.owner] = TRUE]
           /\ effect' = "target" /\ Goto("sync_parents")
  <2>0. h \in Requests /\ h.ino \in Inodes /\ h.owner \in Owners BY <1>0, AtStage
  <2>1. "sync_parents" \in Places /\ "sync_parents" \in Past BY DEF Places, Past
  <2>2. h' \in Requests BY <1>2, <2>0, <2>1, Zenon DEF Requests, Goto
  <2>3. /\ h'.pc = "sync_parents" /\ h'.owner = h.owner /\ h'.answered = h.answered
        /\ h'.mut = h.mut
    BY <1>2, <2>0 DEF Requests, Goto
  <2>4. StageOK' BY <2>3, Zenon DEF StageOK, Owning, Whole
  <2>5. Handling' /\ told' \in Answers
    BY <1>0, <1>a, <2>1, <2>2, <2>3, <2>4, PastBoundary, Goes DEF Early, Opening
  <2>6. target' = h.ino /\ target' \in Revisions /\ effect' \in Effects
    BY <1>0, <1>2, <2>0 DEF Revisions, Effects
  <2>7. landed' \in [Owners -> BOOLEAN] BY <1>2, Zenon DEF IndInv, TypeOK
  <2>8. TypeOK' BY <1>2, <1>a, <2>5, <2>6, <2>7, Zenon DEF IndInv, TypeOK
  <2>9. NamesOK' BY <1>2, <1>a, UploadAssumption DEF IndInv, NamesOK
  <2>10. PublishedWhole' BY <1>0, <1>a, <2>6 DEF IndInv, PublishedWhole
  <2> QED BY <2>5, <2>8, <2>9, <2>10 DEF IndInv
<1> QED BY <1>1, <1>2, Zenon DEF rename_replace_if_unchanged

(* The directories are synced, and the outcome is recorded. *)
LEMMA SyncedKeeps == ASSUME IndInv, sync_renamed_parents PROVE IndInv'
<1>a. /\ h.pc = "sync_parents"
      /\ UNCHANGED <<store, stage, target, file, aged, active, marker, told, effect, up>>
  BY Zenon DEF sync_renamed_parents, registry, client
<1>0. h.pc \in Past /\ h.mut = "detached" BY <1>a DEF IndInv, Handling, BoundaryOK, Past
<1>1. Record("committed", Len) \/ Record("unknown", Len) BY Zenon DEF sync_renamed_parents
<1>2. Handling' /\ told' \in Answers BY <1>0, <1>1, <1>a, Values, RecordsPast
<1>3. disk' = [stage |-> stage, target |-> target] \/ disk' = disk
  BY Zenon DEF sync_renamed_parents
<1>4. disk' \in [stage : Inodes \union {NoIno}, target : Revisions \union {NoIno}]
  BY <1>3 DEF IndInv, TypeOK
<1>5. TypeOK' BY <1>2, <1>4, <1>a, Zenon DEF IndInv, TypeOK, store
<1>6. NamesOK' BY <1>3, <1>a DEF IndInv, NamesOK
<1>7. PublishedWhole' BY <1>3, <1>a DEF IndInv, PublishedWhole
<1> QED BY <1>2, <1>5, <1>6, <1>7 DEF IndInv

-----------------------------------------------------------------------------
(* Arrivals, answers and the discard of a retained upload *)

(* What arrives has told nothing and changed nothing yet. *)
LEMMA Arrives ==
    ASSUME IndInv, h.pc = "idle", h' \in Requests, h'.pc \in {"target", "discard_row"},
           h'.owner \in Owners, h'.mut = "preflight", h'.answered = FALSE,
           UNCHANGED <<store, names, active, marker, told, effect, up>>
    PROVE  IndInv'
<1>1. RequestOK' BY DEF RequestOK
<1>2. StageOK' BY DEF StageOK, Owning, Whole
<1>3. BoundaryOK BY DEF IndInv, Handling
<1>4. told = "none" /\ effect = "nothing" BY <1>3 DEF BoundaryOK, Discarding
<1>5. BoundaryOK' BY <1>4 DEF BoundaryOK, Past, Early, Opening, Discarding
<1>6. Handling' BY <1>1, <1>2, <1>5 DEF Handling
<1> QED BY <1>6, Reads, Zenon DEF IndInv, TypeOK

(* A request arrives, or a client discards its session. *)
LEMMA ArriveKeeps == ASSUME IndInv, Arrive PROVE IndInv'
<1>0. "target" \in Places /\ "discard_row" \in Places BY DEF Places, Early, Discarding
<1>1. ASSUME NEW o \in Owners, NEW kind \in {"put", "patch"}, NEW off \in Offsets,
             NEW pol \in Policies, Request(o, kind, off, pol)
      PROVE  IndInv'
  <2>1. pol \in Revisions \union {NoRev} BY DEF IndInv, TypeOK, Policies, Revisions
  <2>2. /\ h.pc = "idle" /\ UNCHANGED <<store, names, active, marker, told, effect, up>>
        /\ h' = [Idle EXCEPT !.pc = "target", !.kind = kind, !.owner = o, !.off = off,
                             !.pol = pol]
    BY <1>1, Zenon DEF Request, registry, client
  <2>3. h' \in Requests BY <1>0, <2>1, <2>2, Values, Zenon DEF Requests
  <2>4. h'.pc = "target" /\ h'.owner = o /\ h'.mut = "preflight" /\ h'.answered = FALSE
    BY <2>2 DEF Idle
  <2> QED BY <2>2, <2>3, <2>4, Arrives, Zenon
<1>2. ASSUME NEW o \in Owners, Discard(o) PROVE IndInv'
  <2>2. /\ h.pc = "idle" /\ UNCHANGED <<store, names, active, marker, told, effect, up>>
        /\ h' = [Idle EXCEPT !.pc = "discard_row", !.owner = o]
    BY <1>2, Zenon DEF Discard, registry, client
  <2>3. h' \in Requests BY <1>0, <2>2, Values, Zenon DEF Requests
  <2>4. h'.pc = "discard_row" /\ h'.owner = o /\ h'.mut = "preflight" /\ h'.answered = FALSE
    BY <2>2 DEF Idle
  <2> QED BY <2>2, <2>3, <2>4, Arrives, Zenon
<1> QED BY <1>1, <1>2, Zenon DEF Arrive

(* The exchange is over, or the process starts: no request is left. *)
LEMMA IdleHandling ==
    ASSUME h' = Idle, told' = "none", effect' = "nothing"
    PROVE  Handling' /\ told' \in Answers /\ effect' \in Effects
<1>1. h' \in Requests BY Values
<1>2. h'.pc = "idle" /\ h'.mut = "preflight" /\ h'.answered = FALSE BY DEF Idle
<1>3. RequestOK' BY <1>1, <1>2 DEF RequestOK
<1>4. StageOK' BY <1>2 DEF StageOK, Owning, Whole
<1>5. BoundaryOK' BY <1>2 DEF BoundaryOK, Past, Early, Opening, Discarding
<1> QED BY <1>3, <1>4, <1>5 DEF Handling, Answers, Effects

(* A file that was just created. *)
LEMMA BlankTyped == Blank \in File
BY UploadAssumption, Values DEF Blank, File

(* The answer is sent. *)
LEMMA ReplyKeeps == ASSUME IndInv, Reply PROVE IndInv'
<1>1. /\ h' = Idle /\ told' = "none" /\ effect' = "nothing"
      /\ file' = Kept({stage, target, disk.stage, disk.target})
      /\ UNCHANGED <<store, stage, target, disk, aged, active, marker, up>>
  BY Zenon DEF Reply, registry
<1>2. Handling' /\ told' \in Answers /\ effect' \in Effects BY <1>1, IdleHandling
<1>3. file' \in [Inodes -> File] BY <1>1, BlankTyped DEF IndInv, TypeOK, Kept
<1>4. TypeOK' BY <1>1, <1>2, <1>3, Zenon DEF IndInv, TypeOK, store
<1>5. NamesOK' BY <1>1 DEF IndInv, NamesOK
<1>6. PublishedWhole' BY <1>1 DEF IndInv, PublishedWhole, Kept
<1> QED BY <1>2, <1>4, <1>5, <1>6 DEF IndInv

(* reject_for_discard rejects the row first, *)
LEMMA DiscardRowKeeps == ASSUME IndInv, reject_for_discard PROVE IndInv'
<1> DEFINE r == rows[h.owner]
           t == reject_upload_session(rows, h.owner)
           a == IF r.state = "commit_started" THEN "unknown" ELSE Public(r.state)
<1>a. h.pc = "discard_row" /\ UNCHANGED <<names, marker, up>> BY Zenon DEF reject_for_discard
<1>0. /\ Handling /\ told \in Answers /\ active \in BOOLEAN /\ effect \in Effects
      /\ h \in Requests /\ h.owner \in Owners /\ rows \in [Owners -> Row]
      /\ h.mut = "preflight" /\ ~h.answered /\ told = "none"
  BY <1>a, Zenon DEF IndInv, TypeOK, Handling, RequestOK, BoundaryOK, Discarding
<1>1. t \in [Owners -> Row] /\ r \in Row BY <1>0, TablesTyped, Zenon
<1>2. SetRows(t) \/ UNCHANGED store BY Zenon DEF reject_for_discard
<1>3. a \in Answers \ {"not_started"}
  BY <1>1, AnswerValues DEF Row, States, NonTerminal, Terminal, Public
<1>4. \/ Finish(a) /\ effect' = effect
      \/ Finish("unknown") /\ Mutates
      \/ /\ h' = [h EXCEPT !.pc = "discard_file", !.ino = r.ino]
         /\ Mutates /\ UNCHANGED <<active, told>>
  BY Zenon DEF reject_for_discard
<1> HIDE DEF a, t
<1>5. rows' \in [Owners -> Row] /\ landed' \in [Owners -> BOOLEAN]
  BY <1>1, <1>2, SetRowsTyped DEF IndInv, TypeOK, store
<1>6. CASE Finish(a) /\ effect' = effect
  BY <1>0, <1>3, <1>5, <1>6, <1>a, EndsLater, Records DEF Discarding
<1>7. CASE Finish("unknown") /\ Mutates
  BY <1>0, <1>5, <1>7, <1>a, EndsLater, AnswerValues, MutatesTyped, Records
<1>8. CASE /\ h' = [h EXCEPT !.pc = "discard_file", !.ino = r.ino]
           /\ Mutates /\ UNCHANGED <<active, told>>
  <2>1. r.ino \in Inodes \union {NoIno} BY <1>1 DEF Row
  <2>2. "discard_file" \in Places BY DEF Places, Discarding
  <2> HIDE DEF r
  <2>3. h' \in Requests BY <1>0, <1>8, <2>1, <2>2, Zenon DEF Requests
  <2>4. /\ h'.pc = "discard_file" /\ h'.owner = h.owner /\ h'.answered = h.answered
        /\ h'.mut = h.mut
    BY <1>0, <1>8 DEF Requests
  <2>5. RequestOK' BY <1>0, <2>3, <2>4 DEF RequestOK
  <2>6. StageOK' BY <2>4 DEF StageOK, Owning, Whole
  <2>7. BoundaryOK' BY <1>0, <1>8, <2>4 DEF BoundaryOK, Past, Early, Opening, Discarding
  <2> QED BY <1>0, <1>5, <1>8, <1>a, <2>5, <2>6, <2>7, MutatesTyped, Records, Zenon DEF Handling
<1> QED BY <1>4, <1>6, <1>7, <1>8

(* and cleanup_rejected_stage removes its stage. *)
LEMMA DiscardFileKeeps == ASSUME IndInv, cleanup_rejected_stage PROVE IndInv'
<1>a. h.pc = "discard_file" /\ Finish("rejected") /\ UNCHANGED <<store, target, marker, effect, up>>
  BY Zenon DEF cleanup_rejected_stage
<1>0. Handling /\ told \in Answers /\ h.mut # "cancelled"
  BY <1>a DEF IndInv, TypeOK, Handling, BoundaryOK, Discarding
<1>1. Unlinks BY RemovesByIdentity, Zenon DEF cleanup_rejected_stage, Unlinks
<1>2. Handling' /\ told' \in Answers /\ active' \in BOOLEAN
  BY <1>0, <1>a, EndsLater, AnswerValues
<1> QED BY <1>1, <1>2, <1>a, RemovesPast

-----------------------------------------------------------------------------
(* Storage maintenance *)

(* Maintenance may take the stage name away, but changes neither the target *)
(* nor the file that the request has open.                                  *)
LEMMA MaintenanceStep ==
    ASSUME IndInv, UNCHANGED <<target, active, h, told, effect, up>>,
           rows' \in [Owners -> Row], landed' \in [Owners -> BOOLEAN], marker' \in BOOLEAN,
           \/ UNCHANGED <<stage, disk, aged, file>>
           \/ Unlink
           \/ stage' = NoIno /\ aged' = FALSE /\ UNCHANGED <<disk, file>>
           \/ disk' = [disk EXCEPT !.stage = stage] /\ UNCHANGED <<stage, aged, file>>
    PROVE  IndInv'
<1>1. /\ disk' \in [stage : Inodes \union {NoIno}, target : Revisions \union {NoIno}]
      /\ disk'.target = disk.target /\ disk'.stage \in {disk.stage, stage, NoIno}
  BY DEF IndInv, TypeOK, Unlink
<1>2. file' \in [Inodes -> File] BY BlankTyped DEF IndInv, TypeOK, Unlink, Kept
<1>3. \A i \in Inodes \intersect {target, disk.target, h.ino} : file'[i] = file[i]
  BY DEF Unlink, Kept
<1>4. stage' \in {stage, NoIno} /\ aged' \in {FALSE, aged} BY Zenon DEF Unlink
<1>5. TypeOK' BY <1>1, <1>2, <1>4, Zenon DEF IndInv, TypeOK
<1>6. NamesOK' BY <1>1, <1>4, UploadAssumption DEF IndInv, NamesOK
<1>7. PublishedWhole' BY <1>1, <1>3 DEF IndInv, PublishedWhole
<1>8. StageOK'
  <2>1. StageOK BY DEF IndInv, Handling
  <2>2. Owning => h.ino \in Inodes BY <2>1 DEF StageOK
  <2>3. Whole => Owning BY DEF Whole, Owning, StageJobs
  <2>4. h.pc \in {"check", "rename"} => Owning BY DEF Owning
  <2>5. (Owning <=> Owning') /\ (Whole <=> Whole') BY DEF Owning, Whole
  <2> QED BY <1>1, <1>3, <1>4, <2>1, <2>2, <2>3, <2>4, <2>5 DEF StageOK
<1>9. RequestOK' /\ BoundaryOK' BY DEF IndInv, Handling, RequestOK, BoundaryOK, Resume
<1> QED BY <1>5, <1>6, <1>7, <1>8, <1>9 DEF IndInv, Handling

(* Every step of a maintenance pass is such a step. *)
LEMMA UpkeepKeeps == ASSUME IndInv, Upkeep PROVE IndInv'
<1>0. rows \in [Owners -> Row] /\ landed \in [Owners -> BOOLEAN] /\ marker \in BOOLEAN
  BY DEF IndInv, TypeOK
<1>1. CASE /\ UNCHANGED <<store, names, active, h, client, up>>
           /\ marker' \in {TRUE, FALSE} \/ marker' = marker
  <2>1. marker' \in BOOLEAN BY <1>0, <1>1, Zenon
  <2> QED BY <1>0, <1>1, <2>1, MaintenanceStep, Zenon DEF store, names, client
<1>2. CASE \/ ReadExpired \/ NextExpired \/ SessionError \/ MatchExpired \/ ClaimExpired
           \/ RematchExpired \/ TrackedSnapshot \/ VisitStage \/ ClaimStale
           \/ should_preserve_stale_state_path
  BY <1>1, <1>2, Zenon
     DEF ReadExpired, NextExpired, SessionError, MatchExpired, ClaimExpired, RematchExpired,
         TrackedSnapshot, VisitStage, ClaimStale, should_preserve_stale_state_path,
         registry, Release
<1>3. CASE PurgeExpired
  <2>1. UNCHANGED <<store, target, active, marker, h, told, effect, up>> /\ Unlinks
    BY <1>3, RemovesByIdentity, Zenon DEF PurgeExpired, registry, client
  <2> QED BY <1>0, <2>1, MaintenanceStep, Zenon DEF store, Unlinks
<1>4. CASE remove_expired_upload_record
  <2> DEFINE t == remove_expired_upload_session_if_matches(rows, m.at, Snapped)
  <2>1. /\ SetRows(t) /\ marker' = FALSE
        /\ UNCHANGED <<stage, target, disk, file, aged, active, h, told, effect, up>>
    BY <1>4, Zenon DEF remove_expired_upload_record, Release, names, client
  <2>2. t \in [Owners -> Row]
    BY <1>0, Values, Zenon DEF remove_expired_upload_session_if_matches
  <2> HIDE DEF t
  <2>3. rows' \in [Owners -> Row] /\ landed' \in [Owners -> BOOLEAN]
    BY <2>1, <2>2, SetRowsTyped
  <2> QED BY <2>1, <2>3, MaintenanceStep, Zenon
<1>5. CASE remove_entry_blocking \/ SyncRemoved
  <2>1. /\ UNCHANGED <<store, target, active, h, told, effect, up, file>>
        /\ marker' = FALSE \/ marker' = marker
        /\ \/ UNCHANGED <<stage, disk, aged>>
           \/ stage' = NoIno /\ aged' = FALSE /\ UNCHANGED <<disk>>
           \/ disk' = [disk EXCEPT !.stage = stage] /\ UNCHANGED <<stage, aged>>
    BY <1>5, Zenon DEF remove_entry_blocking, SyncRemoved, Release, registry, client
  <2> QED BY <1>0, <2>1, MaintenanceStep, Zenon DEF store
<1> QED BY <1>2, <1>3, <1>4, <1>5, Zenon DEF Upkeep

-----------------------------------------------------------------------------
(* The environment *)

(* Another program replaces or removes the target. *)
LEMMA OutsideKeeps == ASSUME IndInv, OutsideChange PROVE IndInv'
<1>1. PICK v \in Outside \union {NoIno} :
          /\ target' = v /\ disk' = [disk EXCEPT !.target = v]
          /\ UNCHANGED <<store, stage, file, aged, active, marker, h, told, effect, up>>
  BY Zenon DEF OutsideChange, registry, client
<1>2. v \notin Inodes BY UploadAssumption
<1>3. /\ disk' \in [stage : Inodes \union {NoIno}, target : Revisions \union {NoIno}]
      /\ disk'.target = v /\ disk'.stage = disk.stage
  BY <1>1 DEF IndInv, TypeOK, Revisions
<1>4. TypeOK' BY <1>1, <1>3, Zenon DEF IndInv, TypeOK, store, Revisions
<1>5. NamesOK' BY <1>1, <1>2, <1>3 DEF NamesOK
<1>6. PublishedWhole' BY <1>1, <1>2, <1>3 DEF PublishedWhole
<1>7. StageOK' BY <1>1, <1>2, <1>3 DEF IndInv, Handling, StageOK, Owning, Whole
<1>8. RequestOK' /\ BoundaryOK' BY <1>1 DEF IndInv, Handling, RequestOK, BoundaryOK, Resume
<1> QED BY <1>4, <1>5, <1>6, <1>7, <1>8 DEF IndInv, Handling

(* Sessions age. *)
LEMMA TimeKeeps ==
    ASSUME IndInv, (\E o \in Owners : Expire(o)) \/ Age \/ UNCHANGED vars
    PROVE  IndInv'
<1>1. /\ UNCHANGED <<landed, stage, target, disk, file, active, marker, h, told, effect, up>>
      /\ aged' = TRUE \/ aged' = aged
      /\ rows' = rows \/ \E o \in Owners : rows' = [rows EXCEPT ![o].expired = TRUE]
  BY Zenon DEF Expire, Age, vars, store, names, registry, client
<1>2. \A o \in Owners : [rows[o] EXCEPT !.expired = TRUE] \in Row
  <2>1. ASSUME NEW r \in Row PROVE [r EXCEPT !.expired = TRUE] \in Row BY Zenon DEF Row
  <2> QED BY <2>1 DEF IndInv, TypeOK
<1>3. rows' \in [Owners -> Row] BY <1>1, <1>2, Zenon DEF IndInv, TypeOK
<1>4. TypeOK' BY <1>1, <1>3, Zenon DEF IndInv, TypeOK
<1>5. NamesOK' /\ PublishedWhole' BY <1>1 DEF IndInv, NamesOK, PublishedWhole
<1>6. StageOK' BY <1>1 DEF IndInv, Handling, StageOK, Owning, Whole
<1>7. RequestOK' /\ BoundaryOK' BY <1>1 DEF IndInv, Handling, RequestOK, BoundaryOK, Resume
<1> QED BY <1>4, <1>5, <1>6, <1>7 DEF IndInv, Handling

(* A crash keeps what is on disk, of names and of lengths, and recovers. *)
LEMMA CrashKeeps == ASSUME IndInv, Crash PROVE IndInv'
<1>1. PICK n \in {[stage |-> stage, target |-> target], disk} :
          /\ stage' = n.stage /\ target' = n.target /\ disk' = n
          /\ landed' = [o \in Owners |->
                 landed[o] /\ ~((target # n.target /\ target \in Inodes) /\ file[target].by = o)]
  BY Zenon DEF Crash
<1>2. /\ file' \in {file, [i \in Inodes |-> [file[i] EXCEPT !.len = file[i].synced]]}
      /\ rows' = recover_database(rows) /\ up' = validate_stage_layouts(rows', stage')
      /\ active' = FALSE /\ marker' = FALSE /\ h' = Idle
      /\ told' = "none" /\ effect' = "nothing" /\ aged' = aged
  BY Zenon DEF Crash
<1>3. Handling' /\ told' \in Answers /\ effect' \in Effects BY <1>2, IdleHandling
<1>4. n \in [stage : Inodes \union {NoIno}, target : Revisions \union {NoIno}]
  BY <1>1 DEF IndInv, TypeOK
<1>5. n.target \in {target, disk.target} /\ (n.stage \in Inodes => n.stage # n.target)
  BY <1>1 DEF IndInv, NamesOK
<1>6. \A i \in Inodes : [file[i] EXCEPT !.len = file[i].synced] \in File
  BY DEF IndInv, TypeOK, File
<1>7. file' \in [Inodes -> File] BY <1>2, <1>6, Zenon DEF IndInv, TypeOK
<1>8. rows' \in [Owners -> Row]
  BY <1>2, WholeTables DEF IndInv, TypeOK
<1>9. landed' \in [Owners -> BOOLEAN] BY <1>1
<1>10. up' \in BOOLEAN BY <1>2, Zenon DEF validate_stage_layouts
<1>11. TypeOK' BY <1>1, <1>2, <1>3, <1>4, <1>7, <1>8, <1>9, <1>10, Zenon DEF IndInv, TypeOK
<1>12. NamesOK' BY <1>1, <1>5, Zenon DEF NamesOK
<1>13. PublishedWhole'
  <2>1. \A i \in Inodes : file'[i] = file[i] \/ file'[i] = [file[i] EXCEPT !.len = file[i].synced]
    BY <1>2
  <2>2. \A i \in Inodes : file[i].len = Len /\ file[i].synced = Len
                             => file'[i].len = Len /\ file'[i].synced = Len
    BY <2>1 DEF IndInv, TypeOK, File
  <2> QED BY <1>1, <1>5, <2>2 DEF IndInv, PublishedWhole
<1> QED BY <1>3, <1>11, <1>12, <1>13 DEF IndInv

-----------------------------------------------------------------------------
(* Results *)

(* The invariant holds of an empty table, *)
LEMMA InitHolds == Init => IndInv
<1> SUFFICES ASSUME Init PROVE IndInv BY Zenon
<1>1. h \in Requests /\ h.pc = "idle" /\ h.mut = "preflight" /\ h.answered = FALSE
  BY Values DEF Init, Idle
<1>2. RequestOK BY <1>1 DEF RequestOK
<1>3. StageOK BY <1>1 DEF StageOK, Owning, Whole
<1>4. BoundaryOK BY <1>1 DEF Init, BoundaryOK, Past, Early, Opening, Discarding
<1>5. target \in Revisions \union {NoIno} /\ target \notin Inodes
  BY UploadAssumption DEF Init, Revisions
<1>6. disk \in [stage : Inodes \union {NoIno}, target : Revisions \union {NoIno}]
  BY <1>5 DEF Init
<1>7. TypeOK
  BY <1>5, <1>6, Values, BlankTyped, Zenon DEF Init, TypeOK, Answers, Effects
<1>8. NamesOK /\ PublishedWhole BY <1>5, UploadAssumption DEF Init, NamesOK, PublishedWhole
<1> QED BY <1>2, <1>3, <1>4, <1>7, <1>8 DEF IndInv, Handling

(* every step keeps it, *)
LEMMA StepKeeps == ASSUME IndInv, [Next]_vars PROVE IndInv'
<1>1. CASE Prepare
  BY <1>1, ReplyKeeps, AwaitKeeps, StopsKeep, PreparingKeeps, CreateKeeps, TrackKeeps, OpenKeeps,
     TruncateKeeps, RebindKeeps, ReserveKeeps, DiscardKeeps, ResetStageKeeps, ResetRowKeeps,
     Zenon DEF Prepare
<1>2. CASE Transfer
  BY <1>2, SyncKeeps, PersistKeeps, WriteKeeps, BodyKeeps, TimedOutKeeps, TransferredKeeps,
     ReplayKeeps, SpaceKeeps, StagedKeeps, CheckKeeps, RenameKeeps, SyncedKeeps,
     DiscardRowKeeps, DiscardFileKeeps, Zenon DEF Transfer
<1>3. CASE Environment BY <1>3, OutsideKeeps, TimeKeeps, CrashKeeps, Zenon DEF Environment
<1> QED BY <1>1, <1>2, <1>3, ArriveKeeps, UpkeepKeeps, TimeKeeps, Zenon DEF Next, Handler

(* and so it always holds. *)
LEMMA Invariance == Spec => []IndInv
BY InitHolds, StepKeeps, PTL DEF Spec

(* The session table, the names, the files and the answers keep their types, *)
(* whatever a crash, a failing call or another program leaves behind.        *)
THEOREM SessionsTyped == Spec => []TypeOK
<1>1. IndInv => TypeOK BY DEF IndInv
<1> QED BY <1>1, Invariance, PTL

(* What the target name holds, and what a crash would bring it back to, is   *)
(* a file no upload made or a whole upload synced to disk: CheckTransferred  *)
(* compares the length, SyncStagedFile syncs before the rename, and no later *)
(* request, reset or sweep writes to or cuts a file that was published.      *)
THEOREM PublishesWhole == Spec => []PublishedWhole
<1>1. IndInv => PublishedWhole BY DEF IndInv
<1> QED BY <1>1, Invariance, PTL

(* A client that is told its upload was not started can send it again: the   *)
(* task had not crossed its mutation boundary, and await_tracked_upload_task *)
(* cancelled it before it could.                                             *)
THEOREM NotStartedHonest == Spec => []NotStartedUntouched
<1>1. IndInv => NotStartedUntouched BY DEF IndInv, Handling, BoundaryOK, NotStartedUntouched
<1> QED BY <1>1, Invariance, PTL

=============================================================================
