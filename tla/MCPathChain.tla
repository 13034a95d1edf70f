---------------------------- MODULE MCPathChain -----------------------------
(***************************************************************************)
(* A workload whose edits are not local: a link is reached through another *)
(* link.                                                                   *)
(*     /a  directory d1      /l -> a      /k -> l                          *)
(*     /b  directory d2      /m -> b                                       *)
(* r1 uploads to /b/x, r2 uploads to /k/x, and r3 moves the link /m over   *)
(* /l; the key of /k/x names neither /l nor the entry that r3 replaces.    *)
(***************************************************************************)
EXTENDS PathCoordinator

CONSTANTS r1, r2, r3, root, d1, d2

MCDirs == {root, d1, d2}
MCNames == {"a", "b", "k", "l", "m", "x"}
MCRequests == {r1, r2, r3}

MCInitNs ==
    [e \in MCDirs \X MCNames |->
        CASE e = <<root, "a">> -> Directory(d1)
          [] e = <<root, "b">> -> Directory(d2)
          [] e = <<root, "k">> -> Link(<<"l">>)
          [] e = <<root, "l">> -> Link(<<"a">>)
          [] e = <<root, "m">> -> Link(<<"b">>)
          [] OTHER -> NoEntry]

MCOp ==
    (r1 :> [kind |-> "upload", paths |-> <<<<"b", "x">>>>]) @@
    (r2 :> [kind |-> "upload", paths |-> <<<<"k", "x">>>>]) @@
    (r3 :> [kind |-> "move", paths |-> <<<<"m">>, <<"l">>>>, overwrite |-> TRUE])
=============================================================================
