------------------------------ MODULE UploadRows ------------------------------
(***************************************************************************)
(* The upload_sessions table of the state store, for the sessions that     *)
(* share one upload ID and one target: one row per owner, all of them      *)
(* naming the same stage path.  A row keeps the state, the durable offset, *)
(* the stage inode and the target revision.  Paths and the declared length *)
(* are the same in every request of the model, so the comparisons of them  *)
(* are always true.  Each operator is a transaction of the store, as a     *)
(* function of the table.                                                  *)
(***************************************************************************)
EXTENDS Naturals

CONSTANTS Owners,      \* accounts that use the upload ID
          Inodes,      \* inode numbers a stage file can have
          Outside,     \* versions of the target written by other programs
          Len,         \* declared upload length, in chunks
          NoIno,       \* no stage identity, no file under a name
          NoRev        \* no target revision: a create-only upload

ASSUME UploadAssumption ==
    /\ Len \in Nat
    /\ NoIno \notin Inodes \union Outside
    /\ NoRev \notin Inodes \union Outside
    /\ NoIno # NoRev
    /\ Inodes \intersect Outside = {}

\* What a target revision can identify: a file of another program, or a
\* file an upload published.
Revisions == Inodes \union Outside
Offsets == 0 .. Len

NonTerminal == {"running", "commit_started", "awaiting"}
Terminal == {"committed", "rejected", "unknown"}
States == {"none"} \union NonTerminal \union Terminal

\* expired: the row's expires_at_ms has passed.
Row == [state : States, off : Offsets, ino : Inodes \union {NoIno},
        rev : Revisions \union {NoRev}, expired : BOOLEAN]
NoRow == [state |-> "none", off |-> 0, ino |-> NoIno, rev |-> NoRev,
          expired |-> FALSE]

Live(r) == r.state \in NonTerminal

\* StoredUploadSession equality: the expiry time is not part of it.
SameSession(r, s) == [r EXCEPT !.expired = FALSE] = [s EXCEPT !.expired = FALSE]

\* StoredUploadSession::validate
Valid(p) == p.state \in {"commit_started", "committed", "awaiting"} => p.off = Len

Transitions ==
    {<<"running", "commit_started">>, <<"running", "rejected">>,
     <<"running", "unknown">>, <<"commit_started", "committed">>,
     <<"commit_started", "rejected">>, <<"commit_started", "unknown">>,
     <<"commit_started", "awaiting">>, <<"awaiting", "commit_started">>,
     <<"awaiting", "rejected">>}

\* Whether proposal p may replace the stored row e of the same key.
merge_upload_session(e, p) ==
    /\ p.off >= e.off
    /\ e.ino # NoIno => p.ino = e.ino
    /\ IF e.state = p.state
         THEN e.state \in NonTerminal \/ (e.off = p.off /\ e.ino = p.ino)
         ELSE <<e.state, p.state>> \in Transitions
    /\ \/ e.rev = p.rev
       \/ e.state = p.state /\ e.state \in NonTerminal
       \/ e.state = "awaiting"

\* Rows that every save deletes before it looks at its own.
Disposable(r) ==
    /\ r.expired
    /\ r.state \in {"committed", "unknown"} \/ (r.state = "rejected" /\ r.ino = NoIno)

Swept(table) == [o \in Owners |-> IF Disposable(table[o]) THEN NoRow ELSE table[o]]

\* Mutant: the stage path may belong to live sessions of two owners.
Accepts_Shared(table, o, p) ==
    Valid(p) /\ (table[o].state # "none" => merge_upload_session(table[o], p))

\* Whether the transaction accepts the proposal: no live session of another
\* owner on the stage path, and a legal successor of the owner's own row.
Accepts(table, o, p) ==
    /\ Valid(p)
    /\ p.state \in NonTerminal => \A x \in Owners \ {o} : ~Live(table[x])
    /\ table[o].state # "none" => merge_upload_session(table[o], p)

\* save_upload_session as the set of its outcomes: the table it leaves and
\* what the caller sees.  With a fault the table may be full of sessions of
\* other upload IDs, or the reply is an error with the transaction undone or
\* done.
save_upload_session(table, o, p, fault) ==
    LET t == Swept(table)
        saved == [t EXCEPT ![o] = [p EXCEPT !.expired = FALSE]]
        clean == IF Accepts(t, o, p) THEN [table |-> saved, ok |-> TRUE]
                                     ELSE [table |-> t, ok |-> FALSE]
    IN  IF fault
          THEN {[table |-> x, ok |-> FALSE] : x \in {table, t, clean.table}}
          ELSE {clean}

\* reject_upload_session: only an awaiting row changes, in place.
reject_upload_session(table, o) ==
    IF table[o].state = "awaiting"
      THEN [table EXCEPT ![o].state = "rejected", ![o].expired = FALSE]
      ELSE table

remove_upload_session_if_matches(table, o, expected) ==
    IF SameSession(table[o], expected) THEN [table EXCEPT ![o] = NoRow] ELSE table

expired_upload_session_matches(table, o, expected) ==
    expected.expired /\ table[o] = expected

remove_expired_upload_session_if_matches(table, o, expected) ==
    IF expired_upload_session_matches(table, o, expected)
      THEN [table EXCEPT ![o] = NoRow] ELSE table

\* Mutant: rejected rows are thought to need no cleanup.
expired_upload_sessions_NoRejected(table) ==
    {o \in Owners : /\ table[o].state \notin {"none", "commit_started", "rejected"}
                    /\ table[o].expired}

\* The owners whose rows an expiry page returns.
expired_upload_sessions(table) ==
    {o \in Owners : /\ table[o].state \notin {"none", "commit_started"}
                    /\ table[o].expired}

\* state_path_is_bound, for the stage path all rows share.
state_path_is_bound(table) == \E o \in Owners : Live(table[o])

\* Mutant: an interrupted commit is recovered as a rejection.
recover_database_Rejects(table) ==
    [o \in Owners |->
        IF table[o].state = "commit_started"
          THEN [table[o] EXCEPT !.state = "rejected", !.expired = FALSE]
          ELSE table[o]]

\* The upload_sessions part of recover_database.
recover_database(table) ==
    [o \in Owners |->
        IF table[o].state = "commit_started"
          THEN [table[o] EXCEPT !.state = "unknown", !.expired = FALSE]
          ELSE table[o]]
===============================================================================
