--------------------------- MODULE MCDeleteOutbox ---------------------------
(* Instances of DeleteOutbox for TLC. *)
EXTENDS DeleteOutbox

CONSTANTS d1, d2, o1, o2

(* Two deletes of a path where a directory and a file meet. *)
MCTwoDeletes == {d1, d2}
MCTwoObjects == {o1, o2}
MCTree == [o \in Objects |-> IF o = o1 THEN 1 ELSE 0]

(* Store calls whose reply is lost, over an outbox with room for one job;  *)
(* a worker with room for one.                                             *)
MCSettings == {[lossy |-> TRUE, capacity |-> 1, active |-> 2],
               [lossy |-> FALSE, capacity |-> 2, active |-> 1]}
MCPlain == {[lossy |-> FALSE, capacity |-> 1, active |-> 1]}

(* One directory that takes several slices. *)
MCOneDelete == {d1}
MCOneObject == {o1}
MCLongTree == [o \in Objects |-> 2]
=============================================================================
