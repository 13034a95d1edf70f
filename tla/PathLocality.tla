---------------------------- MODULE PathLocality ----------------------------
(***************************************************************************)
(* When leases exclude each other: the condition on a workload, and the    *)
(* inductive invariant that carries LeasesExclusive.                       *)
(***************************************************************************)
EXTENDS PathCoordinator

CONSTANT Namespaces     \* the namespaces the workload can reach

AllPaths == UNION {Paths(r) : r \in Requests}
AllKeys == {LeaseKey(f, p) : f \in Namespaces, p \in AllPaths} \cup {RootKey(p) : p \in AllPaths}

ASSUME NoneAssumption == None \notin Requests /\ None \notin Nat

ASSUME NamespacesClosed ==
    /\ InitNs \in Namespaces
    /\ \A f \in Namespaces, r \in Requests : Edits(f, Op[r]) \subseteq Namespaces

(* The conservative key conflicts with every key.                          *)
ASSUME RootKeyConservative ==
    \A p \in AllPaths, k \in AllKeys : path_keys_conflict(RootKey(p), k)

(* Two paths have nothing to do with each other in f, one has nothing to   *)
(* do with the paths of a request.                                         *)
Apart(f, p, q) == ~path_keys_conflict(LeaseKey(f, p), LeaseKey(f, q))
Clear(f, r, p) == \A o \in Paths(r) : Apart(f, o, p)

(* A key, resolved at any earlier time, still conflicts with the key that  *)
(* each path conflicting with its own path would be given in f.            *)
Detects(f, k) ==
    \A p \in AllPaths : ~Apart(f, k.lexical, p) => path_keys_conflict(k, LeaseKey(f, p))

(***************************************************************************)
(* What LeasesExclusive needs of a workload.  An edit by r brings no two   *)
(* paths into conflict, unless one of them was in conflict with r; nor     *)
(* does it bring such a path into conflict with r, or leave its keys, or   *)
(* those of r, unable to tell conflicts.  Paths may change their meaning.  *)
(*                                                                         *)
(* It fails where an edit turns apart paths into aliases of each other: a  *)
(* link reached through another link is replaced, or a missing directory   *)
(* appears behind a link that named it before.                             *)
(***************************************************************************)
EditsLocal ==
    \A f \in Namespaces, r \in Requests : \A g \in Edits(f, Op[r]) :
        /\ \A p \in AllPaths : Clear(f, r, p) =>
              /\ Clear(g, r, p)
              /\ \A q \in AllPaths : Clear(f, r, q) /\ Apart(f, p, q) => Apart(g, p, q)
        /\ \A k \in AllKeys :
              (k.lexical \in Paths(r) \/ Clear(f, r, k.lexical)) /\ Detects(f, k) => Detects(g, k)

(* No path is an alias: only paths that conflict as they are written       *)
(* conflict in any namespace.                                              *)
AliasFree ==
    \A f \in Namespaces, p, q \in AllPaths : lexically_conflict(p, q) \/ Apart(f, p, q)

-----------------------------------------------------------------------------
Held(r) == pc[r] = "held"

KeyTypes ==
    /\ ns \in Namespaces
    /\ leases \in [Requests -> SUBSET AllKeys]
    /\ part \in [Requests -> SUBSET AllKeys]
    /\ keys \in [Requests -> SUBSET AllKeys]

(* What acquire_inner's locals say about each other.                       *)
Passes ==
    \A r \in Requests :
        /\ expected[r] <= epoch
        /\ keys_epoch[r] # None => keys_epoch[r] <= epoch
        /\ ~Held(r) => leases[r] = {}
        /\ Held(r) => {k.lexical : k \in leases[r]} = Paths(r)
        /\ pc[r] # "resolve" => part[r] = {}
        /\ pc[r] = "try" => keys_epoch[r] = expected[r]
        /\ keys_epoch[r] # None => {k.lexical : k \in keys[r]} = Paths(r)

(* The keys of r that count: those of its lease, and those it resolved in  *)
(* the current epoch.                                                      *)
Live(r) ==
    leases[r] \cup (IF expected[r] = epoch THEN part[r] ELSE {})
              \cup (IF keys_epoch[r] = epoch THEN keys[r] ELSE {})

(* A lease of another request keeps r from being granted the key k.        *)
Barred(r, k) == \E h \in Requests \ {r} : \E l \in leases[h] : path_keys_conflict(l, k)
Open(r) == {k \in Live(r) : ~Barred(r, k)}

(* A key that nothing bars detects every path that conflicts with its own, *)
(* and two such keys conflict if their paths do, although both may be old. *)
KeysDetect ==
    \A r \in Requests : \A k \in Open(r) :
        /\ Detects(ns, k)
        /\ \A q \in Requests \ {r} : \A l \in Open(q) :
              path_keys_conflict(k, l) \/ Apart(ns, k.lexical, l.lexical)

LeasesApart ==
    \A r, q \in Requests : r # q => ~paths_conflict(leases[r], leases[q])

(* The inductive invariant behind LeasesExclusive (try_acquire, Drop for   *)
(* PathLease).                                                             *)
IndInv == TypeOK /\ KeyTypes /\ Passes /\ KeysDetect /\ LeasesApart
=============================================================================
