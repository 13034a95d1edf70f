------------------------- MODULE MCPathCoordinator --------------------------
(***************************************************************************)
(* Two workloads of three requests each.                                   *)
(***************************************************************************)
EXTENDS PathLocality

CONSTANTS r1, r2, r3, root, d1, d2

MCDirs == {root, d1, d2}
MCNames == {"a", "b", "l", "m", "x"}
MCRequests == {r1, r2, r3}

(* Aliases, in the tree                                                    *)
(*     /a  directory d1      /l -> a                                       *)
(*     /b  directory d2      /m -> b                                       *)
(* r1 uploads to /b/x, r2 uploads to /l/x, and r3 moves the link /m over   *)
(* the link /l, after which r1 and r2 write the same entry.                *)
MCInitNs ==
    [e \in MCDirs \X MCNames |->
        CASE e = <<root, "a">> -> Directory(d1)
          [] e = <<root, "b">> -> Directory(d2)
          [] e = <<root, "l">> -> Link(<<"a">>)
          [] e = <<root, "m">> -> Link(<<"b">>)
          [] OTHER -> NoEntry]

MCOp ==
    (r1 :> [kind |-> "upload", paths |-> <<<<"b", "x">>>>]) @@
    (r2 :> [kind |-> "upload", paths |-> <<<<"l", "x">>>>]) @@
    (r3 :> [kind |-> "move", paths |-> <<<<"m">>, <<"l">>>>, overwrite |-> TRUE])

(* Missing ancestors, in an empty tree: r1 makes /a and /a/b, r2 makes /a  *)
(* for its upload to /a/x, r3 deletes /a.                                  *)
MCEmptyNs == [e \in MCDirs \X MCNames |-> NoEntry]
MCAncestorsOp ==
    (r1 :> [kind |-> "mkdir", paths |-> <<<<"a", "b">>>>]) @@
    (r2 :> [kind |-> "upload", paths |-> <<<<"a", "x">>>>]) @@
    (r3 :> [kind |-> "delete", paths |-> <<<<"a">>>>])

(* Every namespace the three requests can produce, in any order.           *)
MCNamespaces ==
    LET grow[n \in 0..6] ==
            IF n = 0 THEN {InitNs}
            ELSE grow[n - 1] \cup UNION {Edits(f, Op[r]) : f \in grow[n - 1], r \in MCRequests}
    IN grow[6]

(* Both workloads satisfy what the proof of LeasesExclusive asks of them.  *)
ASSUME WorkloadLocal == EditsLocal
=============================================================================
