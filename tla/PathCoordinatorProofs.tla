------------------------ MODULE PathCoordinatorProofs ------------------------
(***************************************************************************)
(* The types of the coordinator's state, for every workload, and leases    *)
(* that exclude each other, for every workload whose edits are local       *)
(* (PathLocality).                                                         *)
(***************************************************************************)
EXTENDS PathLocality, TLAPS

(* path_keys_conflict does not depend on the order of its arguments.       *)
LEMMA ConflictSymmetric ==
    ASSUME NEW a, NEW b, path_keys_conflict(a, b)
    PROVE  path_keys_conflict(b, a)
BY DEF path_keys_conflict, lexically_conflict, resolved_paths_conflict

(* Neither does Apart.                                                     *)
LEMMA ApartSymmetric ==
    ASSUME NEW f, NEW p, NEW q, Apart(f, p, q)
    PROVE  Apart(f, q, p)
BY ConflictSymmetric DEF Apart

(* A lease key remembers the path it was resolved from.                    *)
LEMMA KeyLexical ==
    ASSUME NEW f, NEW p
    PROVE  LeaseKey(f, p).lexical = p /\ RootKey(p).lexical = p
BY DEF LeaseKey, RootKey

-----------------------------------------------------------------------------
(* The types need no assumption.                                           *)
LEMMA NextTypeOK == TypeOK /\ [Next]_vars => TypeOK'
<1> SUFFICES ASSUME TypeOK, [Next]_vars PROVE TypeOK'
    OBVIOUS
<1>1. ASSUME NEW r \in Requests, TakeId(r) PROVE TypeOK'
    BY <1>1 DEF TypeOK, TakeId, Goto
<1>2. ASSUME NEW r \in Requests, Register(r) PROVE TypeOK'
    BY <1>2 DEF TypeOK, Register, Goto, local
<1>3. ASSUME NEW r \in Requests, Observe(r) PROVE TypeOK'
    BY <1>3 DEF TypeOK, Observe, Goto, local
<1>4. ASSUME NEW r \in Requests, LoadEpoch(r) PROVE TypeOK'
    BY <1>4 DEF TypeOK, LoadEpoch, Goto
<1>5. ASSUME NEW r \in Requests, mark_resolving_if_eligible(r) PROVE TypeOK'
    BY <1>5 DEF TypeOK, mark_resolving_if_eligible, Goto
<1>6. ASSUME NEW r \in Requests, NEW p \in Paths(r), NEW key,
             key.lexical = p, resolve_path_key(r, p, key) PROVE TypeOK'
    BY <1>6 DEF TypeOK, resolve_path_key, Goto
<1>7. ASSUME NEW r \in Requests, Resolve(r) PROVE TypeOK'
    BY <1>6, <1>7, KeyLexical DEF Resolve
<1>8. ASSUME NEW r \in Requests, Stale(r) PROVE TypeOK'
    BY <1>8 DEF TypeOK, Stale, Goto, local
<1>9. ASSUME NEW r \in Requests, Blocked(r) PROVE TypeOK'
    BY <1>9 DEF TypeOK, Blocked, Changed, Goto, local
<1>10. ASSUME NEW r \in Requests, Acquired(r) PROVE TypeOK'
    BY <1>10, Zenon DEF TypeOK, Acquired, Changed, Forget, Goto
<1>11. ASSUME NEW r \in Requests, Wake(r) PROVE TypeOK'
    BY <1>11 DEF TypeOK, Wake, Goto, local
<1>12. ASSUME NEW r \in Requests, Cancel(r) PROVE TypeOK'
    BY <1>12, Zenon DEF TypeOK, Cancel, Changed, Forget, Goto
<1>13. ASSUME NEW r \in Requests, Edit(r) PROVE TypeOK'
    BY <1>13 DEF TypeOK, Edit, local
<1>14. ASSUME NEW r \in Requests, Release(r) PROVE TypeOK'
    BY <1>14 DEF TypeOK, Release, Goto, local
<1>15. ASSUME NEW r \in Requests, Notify(r) PROVE TypeOK'
    BY <1>15 DEF TypeOK, Notify, Changed, Goto, local
<1>16. CASE UNCHANGED vars
    BY <1>16 DEF TypeOK, vars
<1> QED
    BY <1>1, <1>2, <1>3, <1>4, <1>5, <1>7, <1>8, <1>9, <1>10, <1>11, <1>12, <1>13,
       <1>14, <1>15, <1>16 DEF Next, Step, Finished

(* The types of the coordinator's state, for every set of requests, names, *)
(* directories and edits, links and aliases included (acquire_inner,       *)
(* try_acquire, the two Drop implementations).                             *)
THEOREM TypeCorrect == Spec => []TypeOK
<1>1. Init => TypeOK
    BY DEF Init, TypeOK
<1> QED
    BY <1>1, NextTypeOK, PTL DEF Spec

-----------------------------------------------------------------------------
(* Every key that acquire_inner can compute is in AllKeys.                 *)
LEMMA KeyInAllKeys ==
    ASSUME NEW f \in Namespaces, NEW r \in Requests, NEW p \in Paths(r)
    PROVE  p \in AllPaths /\ LeaseKey(f, p) \in AllKeys /\ RootKey(p) \in AllKeys
BY DEF AllPaths, AllKeys

(* The keys of a recorded lease are not barred by another lease.           *)
LEMMA LeaseOpen ==
    ASSUME LeasesApart, NEW r \in Requests
    PROVE  leases[r] \subseteq Open(r)
<1> SUFFICES ASSUME NEW k \in leases[r], NEW h \in Requests \ {r}, NEW l \in leases[h],
                    path_keys_conflict(l, k)
             PROVE  FALSE
    BY DEF Open, Live, Barred
<1> QED
    BY DEF LeasesApart, paths_conflict

(* IndInv implies that held leases exclude each other in the namespace of  *)
(* this moment.                                                            *)
LEMMA DetectExcludes ==
    ASSUME Passes, KeysDetect, LeasesApart,
           NEW r \in Requests, NEW q \in Requests, r # q, Held(r), Held(q)
    PROVE  ~paths_conflict(Keys(ns, r), Keys(ns, q))
<1> SUFFICES ASSUME NEW p \in Paths(r), NEW o \in Paths(q), ~Apart(ns, p, o)
             PROVE  FALSE
    BY DEF paths_conflict, Keys, Apart
<1>1. PICK k \in leases[r] : k.lexical = p
    BY DEF Passes
<1>2. PICK l \in leases[q] : l.lexical = o
    BY DEF Passes
<1>3. k \in Open(r) /\ l \in Open(q)
    BY <1>1, <1>2, LeaseOpen
<1>4. path_keys_conflict(k, l)
    BY <1>1, <1>2, <1>3 DEF KeysDetect
<1> QED
    BY <1>1, <1>2, <1>4 DEF LeasesApart, paths_conflict

(* The inductive invariant holds when the coordinator starts.              *)
LEMMA InitIndInv == Init => IndInv
<1> SUFFICES ASSUME Init PROVE IndInv
    OBVIOUS
<1>1. TypeOK
    BY DEF Init, TypeOK
<1>2. KeyTypes
    BY NamespacesClosed DEF Init, KeyTypes
<1>3. Passes
    BY DEF Init, Passes, Held
<1>4. \A r \in Requests : leases[r] = {} /\ part[r] = {} /\ keys[r] = {}
    BY DEF Init
<1>5. KeysDetect
    BY <1>4 DEF KeysDetect, Open, Live
<1>6. LeasesApart
    BY <1>4 DEF LeasesApart, paths_conflict
<1> QED
    BY <1>1, <1>2, <1>3, <1>5, <1>6 DEF IndInv

-----------------------------------------------------------------------------
(* The key sets stay within AllKeys and the namespace within Namespaces.   *)
LEMMA NextKeyTypes == IndInv /\ [Next]_vars => KeyTypes'
<1> SUFFICES ASSUME IndInv, [Next]_vars PROVE KeyTypes'
    OBVIOUS
<1> USE DEF IndInv, KeyTypes
<1>1. ASSUME NEW r \in Requests, TakeId(r) PROVE KeyTypes'
    BY <1>1 DEF TakeId, Goto
<1>2. ASSUME NEW r \in Requests, Register(r) PROVE KeyTypes'
    BY <1>2 DEF Register, Goto, local
<1>3. ASSUME NEW r \in Requests, Observe(r) PROVE KeyTypes'
    BY <1>3 DEF Observe, Goto, local
<1>4. ASSUME NEW r \in Requests, LoadEpoch(r) PROVE KeyTypes'
    BY <1>4 DEF LoadEpoch, Goto
<1>5. ASSUME NEW r \in Requests, mark_resolving_if_eligible(r) PROVE KeyTypes'
    BY <1>5 DEF mark_resolving_if_eligible, Goto
<1>6. ASSUME NEW r \in Requests, Resolve(r) PROVE KeyTypes'
    <2>1. ASSUME NEW p \in Paths(r), NEW key \in AllKeys, resolve_path_key(r, p, key)
          PROVE  KeyTypes'
        BY <2>1 DEF resolve_path_key
    <2> QED
        BY <1>6, <2>1, KeyInAllKeys DEF Resolve
<1>7. ASSUME NEW r \in Requests, Stale(r) PROVE KeyTypes'
    BY <1>7 DEF Stale, TryReady, Goto, local
<1>8. ASSUME NEW r \in Requests, Blocked(r) PROVE KeyTypes'
    BY <1>8 DEF Blocked, TryReady, Goto, local
<1>9. ASSUME NEW r \in Requests, Acquired(r) PROVE KeyTypes'
    BY <1>9 DEF Acquired, TryReady, Forget, Goto
<1>10. ASSUME NEW r \in Requests, Wake(r) PROVE KeyTypes'
    BY <1>10 DEF Wake, Goto, local
<1>11. ASSUME NEW r \in Requests, Cancel(r) PROVE KeyTypes'
    BY <1>11 DEF Cancel, Forget, Goto
<1>12. ASSUME NEW r \in Requests, Edit(r) PROVE KeyTypes'
    BY <1>12, NamespacesClosed DEF Edit, local
<1>13. ASSUME NEW r \in Requests, Release(r) PROVE KeyTypes'
    BY <1>13 DEF Release, Goto, local
<1>14. ASSUME NEW r \in Requests, Notify(r) PROVE KeyTypes'
    BY <1>14 DEF Notify, Goto, local
<1>15. CASE UNCHANGED vars
    BY <1>15, Zenon DEF vars
<1> QED
    BY <1>1, <1>2, <1>3, <1>4, <1>5, <1>6, <1>7, <1>8, <1>9, <1>10,
       <1>11, <1>12, <1>13, <1>14, <1>15, Zenon DEF Next, Step, Finished

(* The locals of acquire_inner stay consistent with each other.            *)
LEMMA NextPasses == IndInv /\ [Next]_vars => Passes'
<1> SUFFICES ASSUME IndInv, [Next]_vars PROVE Passes'
    OBVIOUS
<1> USE DEF IndInv, TypeOK, KeyTypes, Passes, Held
<1> USE NoneAssumption
<1>1. ASSUME NEW r \in Requests, TakeId(r) PROVE Passes'
    BY <1>1 DEF TakeId, Goto
<1>2. ASSUME NEW r \in Requests, Register(r) PROVE Passes'
    BY <1>2 DEF Register, Goto, local
<1>3. ASSUME NEW r \in Requests, Observe(r) PROVE Passes'
    BY <1>3 DEF Observe, Goto, local
<1>4. ASSUME NEW r \in Requests, LoadEpoch(r) PROVE Passes'
    BY <1>4 DEF LoadEpoch, Goto
<1>5. ASSUME NEW r \in Requests, mark_resolving_if_eligible(r) PROVE Passes'
    BY <1>5 DEF mark_resolving_if_eligible, Goto
<1>6. ASSUME NEW r \in Requests, Resolve(r) PROVE Passes'
    <2>1. ASSUME NEW p \in Paths(r), NEW key, resolve_path_key(r, p, key)
          PROVE  Passes'
        BY <2>1 DEF resolve_path_key, Goto
    <2> QED
        BY <1>6, <2>1 DEF Resolve
<1>7. ASSUME NEW r \in Requests, Stale(r) PROVE Passes'
    BY <1>7 DEF Stale, TryReady, Goto, local
<1>8. ASSUME NEW r \in Requests, Blocked(r) PROVE Passes'
    BY <1>8 DEF Blocked, TryReady, Goto, local
<1>9. ASSUME NEW r \in Requests, Acquired(r) PROVE Passes'
    BY <1>9 DEF Acquired, TryReady, Forget, Goto
<1>10. ASSUME NEW r \in Requests, Wake(r) PROVE Passes'
    BY <1>10 DEF Wake, Goto, local
<1>11. ASSUME NEW r \in Requests, Cancel(r) PROVE Passes'
    BY <1>11 DEF Cancel, Forget, Goto
<1>12. ASSUME NEW r \in Requests, Edit(r) PROVE Passes'
    BY <1>12 DEF Edit, local
<1>13. ASSUME NEW r \in Requests, Release(r) PROVE Passes'
    BY <1>13 DEF Release, Goto, local
<1>14. ASSUME NEW r \in Requests, Notify(r) PROVE Passes'
    BY <1>14 DEF Notify, Goto, local
<1>15. CASE UNCHANGED vars
    BY <1>15, Zenon DEF vars
<1> QED
    BY <1>1, <1>2, <1>3, <1>4, <1>5, <1>6, <1>7, <1>8, <1>9, <1>10,
       <1>11, <1>12, <1>13, <1>14, <1>15, Zenon DEF Next, Step, Finished

(* Keys that are dropped or become barred take nothing away.               *)
LEMMA DetectShrinks ==
    ASSUME KeysDetect, ns' = ns, \A q \in Requests : Open(q)' \subseteq Open(q)
    PROVE  KeysDetect'
<1> SUFFICES ASSUME NEW r \in Requests, NEW k \in Open(r)'
             PROVE  /\ Detects(ns, k)
                    /\ \A q \in Requests \ {r} : \A l \in Open(q)' :
                          path_keys_conflict(k, l) \/ Apart(ns, k.lexical, l.lexical)
    BY DEF KeysDetect
<1>1. k \in Open(r)
    OBVIOUS
<1> QED
    BY <1>1 DEF KeysDetect

(* With the leases as they were, fewer keys that count are fewer open ones.*)
LEMMA OpenShrinks ==
    ASSUME leases' = leases, NEW q \in Requests, Live(q)' \subseteq Live(q)
    PROVE  Open(q)' \subseteq Open(q)
BY DEF Open, Barred

(* A key resolved in the namespace of this moment, or the conservative     *)
(* one, can be added.                                                      *)
LEMMA DetectGrows ==
    ASSUME KeyTypes, TypeOK, KeysDetect, ns' = ns,
           NEW r \in Requests, NEW p \in Paths(r), NEW key,
           key = LeaseKey(ns, p) \/ key = RootKey(p),
           \A q \in Requests \ {r} : Open(q)' \subseteq Open(q),
           Open(r)' \subseteq Open(r) \cup {key}
    PROVE  KeysDetect'
<1>1. key.lexical = p /\ p \in AllPaths
    BY KeyLexical DEF AllPaths
<1>2. \A o \in AllPaths : ~Apart(ns, p, o) => path_keys_conflict(key, LeaseKey(ns, o))
    <2>1. \A o \in AllPaths : LeaseKey(ns, o) \in AllKeys
        BY DEF AllKeys, KeyTypes
    <2> QED
        BY <1>1, <2>1, RootKeyConservative DEF Apart
<1>3. Detects(ns, key)
    BY <1>1, <1>2 DEF Detects
<1>4. ASSUME NEW q \in Requests \ {r}, NEW l \in Open(q)
      PROVE  path_keys_conflict(key, l) \/ Apart(ns, p, l.lexical)
    <2>1. l \in AllKeys /\ Detects(ns, l)
        <3>1. l \in Live(q)
            BY DEF Open
        <3> QED
            BY <3>1 DEF Live, KeyTypes, KeysDetect
    <2>2. CASE key = RootKey(p)
        BY <1>1, <2>1, <2>2, RootKeyConservative
    <2>3. CASE key = LeaseKey(ns, p)
        BY <1>1, <2>1, <2>3, ConflictSymmetric, ApartSymmetric DEF Detects
    <2> QED
        BY <2>2, <2>3
<1> SUFFICES ASSUME NEW s \in Requests, NEW k \in Open(s)'
             PROVE  /\ Detects(ns, k)
                    /\ \A q \in Requests \ {s} : \A l \in Open(q)' :
                          path_keys_conflict(k, l) \/ Apart(ns, k.lexical, l.lexical)
    BY DEF KeysDetect
<1>5. Detects(ns, k)
    BY <1>3 DEF KeysDetect
<1>6. ASSUME NEW q \in Requests \ {s}, NEW l \in Open(q)'
      PROVE  path_keys_conflict(k, l) \/ Apart(ns, k.lexical, l.lexical)
    <2>1. CASE k \in Open(s) /\ l \in Open(q)
        BY <2>1 DEF KeysDetect
    <2>2. CASE s = r /\ k = key
        BY <1>1, <1>4, <2>2
    <2>3. CASE q = r /\ l = key
        <3>1. path_keys_conflict(key, k) \/ Apart(ns, p, k.lexical)
            BY <1>4, <2>3
        <3> QED
            BY <1>1, <2>3, <3>1, ConflictSymmetric, ApartSymmetric
    <2> QED
        BY <2>1, <2>2, <2>3
<1> QED
    BY <1>5, <1>6

(* An edit by a holder: an open key of another request is clear of the     *)
(* holder's paths, for its lease would bar the key otherwise.              *)
LEMMA OpenClear ==
    ASSUME Passes, KeysDetect, LeasesApart, NEW r \in Requests, Held(r),
           NEW q \in Requests \ {r}, NEW k \in Open(q)
    PROVE  Clear(ns, r, k.lexical)
<1> SUFFICES ASSUME NEW o \in Paths(r) PROVE Apart(ns, o, k.lexical)
    BY DEF Clear
<1>1. PICK l \in leases[r] : l.lexical = o
    BY DEF Passes
<1>2. l \in Open(r)
    BY <1>1, LeaseOpen
<1>3. path_keys_conflict(l, k) \/ Apart(ns, o, k.lexical)
    BY <1>1, <1>2 DEF KeysDetect
<1>4. ~path_keys_conflict(l, k)
    BY <1>1 DEF Open, Barred
<1> QED
    BY <1>3, <1>4

(* Local edits leave every open key able to tell conflicts.                *)
LEMMA EditDetects ==
    ASSUME EditsLocal, IndInv, NEW r \in Requests, Edit(r)
    PROVE  KeysDetect'
<1>1. Held(r) /\ ns \in Namespaces /\ ns' \in Edits(ns, Op[r])
    BY DEF Edit, Held, IndInv, KeyTypes
<1>2. \A q \in Requests : Open(q)' = Open(q)
    BY DEF Edit, local, Open, Live, Barred
<1>3. \A q \in Requests : \A k \in Open(q) : k \in AllKeys /\ k.lexical \in Paths(q)
    BY DEF Open, Live, IndInv, KeyTypes, TypeOK
<1>4. \A q \in Requests \ {r} : \A k \in Open(q) : Clear(ns, r, k.lexical)
    BY <1>1, OpenClear DEF IndInv
<1>5. \A q \in Requests : \A k \in Open(q) : k.lexical \in AllPaths
    BY <1>3 DEF AllPaths
<1>6. ASSUME NEW q \in Requests, NEW k \in Open(q) PROVE Detects(ns', k)
    <2>1. k.lexical \in Paths(r) \/ Clear(ns, r, k.lexical)
        BY <1>3, <1>4
    <2>2. Detects(ns, k) /\ k \in AllKeys
        BY <1>3 DEF IndInv, KeysDetect
    <2> QED
        BY <1>1, <2>1, <2>2 DEF EditsLocal
<1>7. ASSUME NEW q \in Requests \ {r}, NEW k \in Open(q), NEW o \in Paths(r)
      PROVE  Apart(ns', o, k.lexical)
    <2>1. Clear(ns', r, k.lexical)
        BY <1>1, <1>4, <1>5, Zenon DEF EditsLocal
    <2> QED
        BY <2>1 DEF Clear
<1>8. ASSUME NEW q \in Requests, NEW k \in Open(q), NEW s \in Requests \ {q}, NEW l \in Open(s),
             ~path_keys_conflict(k, l)
      PROVE  Apart(ns', k.lexical, l.lexical)
    <2>1. CASE q = r
        BY <1>3, <1>7, <2>1
    <2>2. CASE s = r
        BY <1>3, <1>7, <2>2, ApartSymmetric
    <2>3. CASE q # r /\ s # r
        <3>1. Apart(ns, k.lexical, l.lexical)
            BY <1>8 DEF IndInv, KeysDetect
        <3>2. Clear(ns, r, k.lexical) /\ Clear(ns, r, l.lexical)
            BY <1>4, <2>3
        <3> QED
            BY <1>1, <1>5, <3>1, <3>2 DEF EditsLocal
    <2> QED
        BY <2>1, <2>2, <2>3
<1> QED
    BY <1>2, <1>6, <1>8 DEF KeysDetect, Detects, Apart

(* A key of the current epoch stays able to tell conflicts or is barred,   *)
(* and the release of the lease that bars it ends the epoch.               *)
LEMMA NextKeysDetect == EditsLocal /\ IndInv /\ [Next]_vars => KeysDetect'
<1> SUFFICES ASSUME EditsLocal, IndInv, [Next]_vars PROVE KeysDetect'
    OBVIOUS
<1>0. TypeOK /\ KeyTypes /\ Passes /\ KeysDetect /\ LeasesApart
    BY DEF IndInv
<1>s. ASSUME ns' = ns, leases' = leases, \A q \in Requests : Live(q)' \subseteq Live(q)
      PROVE  KeysDetect'
    BY <1>0, <1>s, OpenShrinks, DetectShrinks
<1>1. ASSUME NEW r \in Requests, TakeId(r) PROVE KeysDetect'
    <2>1. ns' = ns /\ leases' = leases
        BY <1>1 DEF TakeId, Goto
    <2>2. \A q \in Requests : Live(q)' \subseteq Live(q)
        BY <1>0, <1>1 DEF TakeId, Goto, Live, TypeOK
    <2> QED
        BY <1>s, <2>1, <2>2
<1>2. ASSUME NEW r \in Requests, Register(r) PROVE KeysDetect'
    <2>1. ns' = ns /\ leases' = leases
        BY <1>2 DEF Register, Goto, local
    <2>2. \A q \in Requests : Live(q)' \subseteq Live(q)
        BY <1>0, <1>2 DEF Register, Goto, local, Live, TypeOK
    <2> QED
        BY <1>s, <2>1, <2>2
<1>3. ASSUME NEW r \in Requests, Observe(r) PROVE KeysDetect'
    <2>1. ns' = ns /\ leases' = leases
        BY <1>3 DEF Observe, Goto, local
    <2>2. \A q \in Requests : Live(q)' \subseteq Live(q)
        BY <1>0, <1>3 DEF Observe, Goto, local, Live, TypeOK
    <2> QED
        BY <1>s, <2>1, <2>2
<1>4. ASSUME NEW r \in Requests, LoadEpoch(r) PROVE KeysDetect'
    <2>1. ns' = ns /\ leases' = leases
        BY <1>4 DEF LoadEpoch, Goto
    <2>2. \A q \in Requests : Live(q)' \subseteq Live(q)
        BY <1>0, <1>4 DEF LoadEpoch, Goto, Live, TypeOK, Passes
    <2> QED
        BY <1>s, <2>1, <2>2
<1>5. ASSUME NEW r \in Requests, mark_resolving_if_eligible(r) PROVE KeysDetect'
    <2>1. ns' = ns /\ leases' = leases
        BY <1>5 DEF mark_resolving_if_eligible, Goto
    <2>2. \A q \in Requests : Live(q)' \subseteq Live(q)
        BY <1>0, <1>5 DEF mark_resolving_if_eligible, Goto, Live, TypeOK
    <2> QED
        BY <1>s, <2>1, <2>2
<1>6. ASSUME NEW r \in Requests, Resolve(r) PROVE KeysDetect'
    <2> SUFFICES ASSUME NEW p \in Paths(r), NEW key, key = LeaseKey(ns, p) \/ key = RootKey(p),
                        resolve_path_key(r, p, key)
                 PROVE  KeysDetect'
        BY <1>6 DEF Resolve
    <2>1. ns' = ns /\ leases' = leases
        BY DEF resolve_path_key
    <2>2. \A q \in Requests \ {r} : Live(q)' \subseteq Live(q)
        BY <1>0 DEF resolve_path_key, Live, TypeOK
    <2>3. Live(r)' \subseteq Live(r) \cup {key}
        BY <1>0 DEF resolve_path_key, Live, TypeOK
    <2>4. \A q \in Requests \ {r} : Open(q)' \subseteq Open(q)
        BY <2>1, <2>2, OpenShrinks
    <2>5. Open(r)' \subseteq Open(r) \cup {key}
        BY <2>1, <2>3 DEF Open, Barred
    <2> QED
        BY <1>0, <2>1, <2>4, <2>5, DetectGrows
<1>7. ASSUME NEW r \in Requests, Stale(r) PROVE KeysDetect'
    <2>1. ns' = ns /\ leases' = leases
        BY <1>7 DEF Stale, TryReady, Goto, local
    <2>2. \A q \in Requests : Live(q)' \subseteq Live(q)
        BY <1>0, <1>7 DEF Stale, TryReady, Goto, local, Live, TypeOK
    <2> QED
        BY <1>s, <2>1, <2>2
<1>8. ASSUME NEW r \in Requests, Blocked(r) PROVE KeysDetect'
    <2>1. ns' = ns /\ leases' = leases
        BY <1>8 DEF Blocked, TryReady, Goto, local
    <2>2. \A q \in Requests : Live(q)' \subseteq Live(q)
        BY <1>0, <1>8 DEF Blocked, TryReady, Goto, local, Live, TypeOK
    <2> QED
        BY <1>s, <2>1, <2>2
<1>9. ASSUME NEW r \in Requests, Acquired(r) PROVE KeysDetect'
    <2>1. /\ ns' = ns /\ epoch' = epoch /\ leases' = [leases EXCEPT ![r] = keys[r]]
          /\ keys_epoch[r] = epoch /\ leases[r] = {}
        BY <1>0, <1>9 DEF Acquired, TryReady, TryStale, Passes, Held
    <2>2. \A q \in Requests : leases[q] \subseteq leases'[q]
        BY <1>0, <2>1 DEF TypeOK
    <2>3. \A q \in Requests : Live(q)' \subseteq Live(q)
        BY <1>0, <1>9, <2>1 DEF Acquired, Forget, Live, TypeOK
    <2>4. \A q \in Requests : Open(q)' \subseteq Open(q)
        BY <2>2, <2>3 DEF Open, Barred
    <2> QED
        BY <1>0, <2>1, <2>4, DetectShrinks
<1>10. ASSUME NEW r \in Requests, Wake(r) PROVE KeysDetect'
    <2>1. ns' = ns /\ leases' = leases
        BY <1>10 DEF Wake, Goto, local
    <2>2. \A q \in Requests : Live(q)' \subseteq Live(q)
        BY <1>0, <1>10 DEF Wake, Goto, local, Live, TypeOK
    <2> QED
        BY <1>s, <2>1, <2>2
<1>11. ASSUME NEW r \in Requests, Cancel(r) PROVE KeysDetect'
    <2>1. ns' = ns /\ leases' = leases
        BY <1>11 DEF Cancel, Forget, Goto
    <2>2. \A q \in Requests : Live(q)' \subseteq Live(q)
        BY <1>0, <1>11 DEF Cancel, Forget, Goto, Live, TypeOK
    <2> QED
        BY <1>s, <2>1, <2>2
<1>12. ASSUME NEW r \in Requests, Edit(r) PROVE KeysDetect'
    BY <1>12, EditDetects
<1>13. ASSUME NEW r \in Requests, Release(r) PROVE KeysDetect'
    <2>1. ns' = ns /\ \A q \in Requests : leases'[q] \subseteq leases[q]
        BY <1>0, <1>13 DEF Release, TypeOK
    <2>2. \A q \in Requests : expected'[q] # epoch' /\ keys_epoch'[q] # epoch'
        BY <1>0, <1>13, NoneAssumption DEF Release, local, Passes, TypeOK
    <2>3. \A q \in Requests : Open(q)' \subseteq leases'[q]
        BY <2>2 DEF Open, Live
    <2>4. \A q \in Requests : leases[q] \subseteq Open(q)
        BY <1>0, LeaseOpen
    <2> QED
        BY <1>0, <2>1, <2>3, <2>4, DetectShrinks
<1>14. ASSUME NEW r \in Requests, Notify(r) PROVE KeysDetect'
    <2>1. ns' = ns /\ leases' = leases
        BY <1>14 DEF Notify, Goto, local
    <2>2. \A q \in Requests : Live(q)' \subseteq Live(q)
        BY <1>0, <1>14 DEF Notify, Goto, local, Live, TypeOK
    <2> QED
        BY <1>s, <2>1, <2>2
<1>15. CASE UNCHANGED vars
    <2>1. ns' = ns /\ leases' = leases /\ \A q \in Requests : Live(q)' = Live(q)
        BY <1>15 DEF vars, Live
    <2> QED
        BY <1>s, <2>1
<1> QED
    BY <1>1, <1>2, <1>3, <1>4, <1>5, <1>6, <1>7, <1>8, <1>9, <1>10,
       <1>11, <1>12, <1>13, <1>14, <1>15, Zenon DEF Next, Step, Finished

(* Recorded leases stay pairwise free of conflict.                         *)
LEMMA NextLeasesApart == IndInv /\ [Next]_vars => LeasesApart'
<1> SUFFICES ASSUME IndInv, [Next]_vars PROVE LeasesApart'
    OBVIOUS
<1>0. TypeOK /\ LeasesApart
    BY DEF IndInv
<1>1. ASSUME leases' = leases PROVE LeasesApart'
    BY <1>0, <1>1 DEF LeasesApart
<1>2. ASSUME NEW r \in Requests, Acquired(r) PROVE LeasesApart'
    <2>1. /\ leases' = [leases EXCEPT ![r] = keys[r]]
          /\ \A h \in Requests : ~paths_conflict(leases[h], keys[r])
        BY <1>2 DEF Acquired, TryBlocked
    <2>2. \A h \in Requests : ~paths_conflict(keys[r], leases[h])
        BY <2>1, ConflictSymmetric DEF paths_conflict
    <2>3. leases'[r] = keys[r] /\ \A q \in Requests \ {r} : leases'[q] = leases[q]
        BY <1>0, <2>1 DEF TypeOK
    <2> QED
        BY <1>0, <2>1, <2>2, <2>3 DEF LeasesApart
<1>3. ASSUME NEW r \in Requests, Release(r) PROVE LeasesApart'
    <2>1. \A q \in Requests : leases'[q] \subseteq leases[q]
        BY <1>0, <1>3 DEF Release, TypeOK
    <2> QED
        BY <1>0, <2>1 DEF LeasesApart, paths_conflict
<1>4. CASE UNCHANGED vars
    BY <1>1, <1>4, Zenon DEF vars
<1>5. ASSUME NEW r \in Requests,
             \/ TakeId(r) \/ Register(r) \/ Observe(r) \/ LoadEpoch(r)
             \/ mark_resolving_if_eligible(r) \/ Resolve(r) \/ Stale(r) \/ Blocked(r)
             \/ Wake(r) \/ Cancel(r) \/ Edit(r) \/ Notify(r)
      PROVE  leases' = leases
    BY <1>5, Zenon DEF TakeId, Register, Observe, LoadEpoch, mark_resolving_if_eligible, Resolve,
                       resolve_path_key, Stale, Blocked, Wake, Cancel, Edit, Notify
<1> QED
    BY <1>1, <1>2, <1>3, <1>4, <1>5, Zenon DEF Next, Step, Finished

(* Leases exclude each other in the file system as it is now, for every    *)
(* set of requests, paths and namespaces with local edits: the epoch that  *)
(* Drop for PathLease bumps and try_acquire compares is enough, although   *)
(* paths change their meaning between their resolution and the grant.      *)
THEOREM LeasesExcludeEachOther ==
    ASSUME EditsLocal
    PROVE  Spec => []LeasesExclusive
<1>1. IndInv /\ [Next]_vars => IndInv'
    BY NextTypeOK, NextKeyTypes, NextPasses, NextKeysDetect, NextLeasesApart DEF IndInv
<1>2. IndInv => LeasesExclusive
    BY DetectExcludes DEF IndInv, LeasesExclusive, Held
<1> QED
    BY <1>1, <1>2, InitIndInv, PTL DEF Spec

-----------------------------------------------------------------------------
(* Where no path is an alias, every edit is local: what conflicts does so  *)
(* as it is written, in every namespace.                                   *)
LEMMA AliasFreeLocal ==
    ASSUME AliasFree
    PROVE  EditsLocal
<1>1. \A f \in Namespaces, p, q \in AllPaths : Apart(f, p, q) <=> ~lexically_conflict(p, q)
    BY KeyLexical DEF AliasFree, Apart, path_keys_conflict
<1>2. \A k \in AllKeys : k.lexical \in AllPaths
    BY KeyLexical DEF AllKeys
<1>3. \A r \in Requests : Paths(r) \subseteq AllPaths
    BY DEF AllPaths
<1>4. ASSUME NEW f \in Namespaces, NEW k \in AllKeys PROVE Detects(f, k)
    <2> SUFFICES ASSUME NEW p \in AllPaths, ~Apart(f, k.lexical, p)
                 PROVE  path_keys_conflict(k, LeaseKey(f, p))
        BY DEF Detects
    <2>1. lexically_conflict(k.lexical, LeaseKey(f, p).lexical)
        BY <1>1, <1>2, KeyLexical
    <2> QED
        BY <2>1 DEF path_keys_conflict
<1> SUFFICES ASSUME NEW f \in Namespaces, NEW r \in Requests, NEW g \in Edits(f, Op[r])
             PROVE  /\ \A p \in AllPaths : Clear(f, r, p) =>
                          /\ Clear(g, r, p)
                          /\ \A q \in AllPaths : Clear(f, r, q) /\ Apart(f, p, q) => Apart(g, p, q)
                    /\ \A k \in AllKeys : Detects(g, k)
    BY DEF EditsLocal
<1>5. g \in Namespaces
    BY NamespacesClosed
<1>6. \A p, q \in AllPaths : Apart(f, p, q) => Apart(g, p, q)
    BY <1>1, <1>5
<1> QED
    BY <1>3, <1>4, <1>5, <1>6 DEF Clear

(* So leases exclude each other in every workload without aliases, whatever*)
(* its requests create, replace, move and delete, the common ancestors of  *)
(* their paths included.                                                   *)
THEOREM AliasFreeExclusive ==
    ASSUME AliasFree
    PROVE  Spec => []LeasesExclusive
BY AliasFreeLocal, LeasesExcludeEachOther
=============================================================================
