---------------------------- MODULE MCDiskSpace -----------------------------
(***************************************************************************)
(* Small devices for DiskSpace: a long fresh upload beside a shorter one   *)
(* that resumes in the middle of a block.                                  *)
(***************************************************************************)
EXTENDS DiskSpace, TLC

CONSTANTS u1, u2

MCLength == u1 :> 7 @@ u2 :> 5
MCOffset == u1 :> 0 @@ u2 :> 1
=============================================================================
