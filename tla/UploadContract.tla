---------------------------- MODULE UploadContract ----------------------------
(***************************************************************************)
(* What an upload session promises to its owner, without stages, requests  *)
(* or maintenance.  A session is opened, its durable offset only grows, it *)
(* is published once and only between the start of a commit and its        *)
(* settlement, and what is then recorded never contradicts what was        *)
(* published.  At most one live session uses the stage.                    *)
(***************************************************************************)
EXTENDS UploadRows

VARIABLES phase,    \* owner -> recorded state of the session
          off,      \* owner -> durable offset
          landed    \* owner -> the session has been published

cvars == <<phase, off, landed>>

CInit ==
    /\ phase = [o \in Owners |-> "none"]
    /\ off = [o \in Owners |-> 0]
    /\ landed = [o \in Owners |-> FALSE]

Same(o) == phase'[o] = phase[o] /\ off'[o] = off[o] /\ landed'[o] = landed[o]

\* A new session, possibly in the place of one whose record is settled.
Open(o) ==
    /\ phase[o] \in {"none"} \union Terminal
    /\ phase'[o] = "running" /\ ~landed'[o]
    /\ \A x \in Owners \ {o} : phase'[x] \notin NonTerminal

\* A session that is turned down without being opened.
Refuse(o) ==
    /\ phase[o] \in {"none"} \union Terminal
    /\ phase'[o] = "rejected" /\ off'[o] = 0 /\ ~landed'[o]

Extend(o) ==
    /\ phase[o] = "running" /\ phase'[o] = "running"
    /\ off'[o] >= off[o] /\ landed'[o] = landed[o]

Begin(o) ==
    /\ phase[o] \in {"running", "awaiting"} /\ phase'[o] = "commit_started"
    /\ off'[o] = Len /\ landed'[o] = landed[o]

Land(o) ==
    /\ phase[o] = "commit_started" /\ ~landed[o]
    /\ landed'[o] /\ phase'[o] = phase[o] /\ off'[o] = off[o]

Settle(o) ==
    /\ phase[o] = "commit_started" /\ landed'[o] = landed[o] /\ off'[o] = off[o]
    /\ \/ phase'[o] = "committed" /\ landed[o]
       \/ phase'[o] = "awaiting" /\ ~landed[o]
       \/ phase'[o] = "unknown"

Abandon(o) ==
    /\ phase[o] = "awaiting" /\ phase'[o] = "rejected"
    /\ off'[o] = off[o] /\ landed'[o] = landed[o]

\* A record is removed; not while its publication is still being settled.
Forget(o) ==
    /\ phase[o] = "commit_started" => ~landed[o]
    /\ phase'[o] = "none" /\ off'[o] = 0 /\ ~landed'[o]

\* A power failure may take back a publication that was never confirmed.
Restart(o) ==
    /\ phase'[o] = IF phase[o] = "commit_started" THEN "unknown" ELSE phase[o]
    /\ off'[o] = off[o]
    /\ landed'[o] # landed[o] => phase[o] \in {"commit_started", "unknown"} /\ landed[o]

Step(o) ==
    \/ Same(o) \/ Open(o) \/ Refuse(o) \/ Extend(o) \/ Begin(o) \/ Land(o) \/ Settle(o)
    \/ Abandon(o) \/ Forget(o) \/ Restart(o)

CNext == \A o \in Owners : Step(o)

ContractSpec == CInit /\ [][CNext]_cvars
===============================================================================
