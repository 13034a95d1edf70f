-------------------------- MODULE MCOperationStore --------------------------
(* Instances of OperationStore for TLC. *)
EXTENDS OperationStore

CONSTANTS r1, r2, r3, q1, k1, k2, alice

(* A request, its retry under the same key, and a status query. *)
MCRetry == {r1, r2}
MCQuery == {q1}
MCNoQuery == {}
MCOneKey == {k1}
MCSameKey == [c \in {r1, r2, q1} |-> k1]
MCSameBody == [r \in {r1, r2} |-> "body"]
MCOneOwner == [k \in {k1} |-> alice]

(* A third request of another key, and a body that differs. *)
MCThree == {r1, r2, r3}
MCTwoKeys == {k1, k2}
MCSharedKey == [c \in {r1, r2, r3} |-> IF c = r3 THEN k2 ELSE k1]
MCOtherBody == [r \in {r1, r2, r3} |-> IF r = r2 THEN "other" ELSE "body"]
MCOneOwnerOfTwo == [k \in {k1, k2} |-> alice]
=============================================================================
