---------------------------- MODULE ListSnapshots -----------------------------
(***************************************************************************)
(* The cache of listing snapshots behind its mutex: a table of records, the *)
(* order in which they were inserted, and their total weight.  A record    *)
(* holds the binding of the request it answers (owner and directory; the   *)
(* other parameters of the request are one value, what), the entries, when *)
(* it expires, its weight, and, for the properties, when it was inserted.  *)
(* A cursor is an id and an offset; its tag only authenticates the two.    *)
(***************************************************************************)
EXTENDS Integers, Sequences, FiniteSets, SequencesExt, FiniteSetsExt

CONSTANTS
    MAX_CACHED_LIST_SNAPSHOTS, MAX_CACHED_LIST_SNAPSHOT_BYTES,
    MAX_CACHED_LIST_SNAPSHOTS_PER_OWNER, MAX_CACHED_LIST_SNAPSHOT_BYTES_PER_OWNER,
    LIST_SNAPSHOT_TTL

\* One account's share is at most half of the cache.
ASSUME SharesAssumption ==
    /\ 2 * MAX_CACHED_LIST_SNAPSHOTS_PER_OWNER <= MAX_CACHED_LIST_SNAPSHOTS
    /\ 2 * MAX_CACHED_LIST_SNAPSHOT_BYTES_PER_OWNER <= MAX_CACHED_LIST_SNAPSHOT_BYTES

NoCursor == [id |-> 0, offset |-> 0]

EmptyStore == [snapshots |-> <<>>, insertion_order |-> <<>>, total_weight |-> 0]

Without(f, id) == [i \in DOMAIN f \ {id} |-> f[i]]

RemoveId(st, id) ==
    [snapshots |-> Without(st.snapshots, id),
     insertion_order |-> SelectSeq(st.insertion_order, LAMBDA i : i # id),
     total_weight |-> st.total_weight - st.snapshots[id].weight]

remove_oldest(st) == RemoveId(st, Head(st.insertion_order))

\* Mutant: lookups rely on the room that insertions make.
purge_expired_Never(st, now) == st

\* Only from the front: a later record is reached when all before it expired.
RECURSIVE purge_expired(_, _)
purge_expired(st, now) ==
    IF st.insertion_order = <<>> THEN st
    ELSE IF now >= st.snapshots[Head(st.insertion_order)].expires_at
         THEN purge_expired(remove_oldest(st), now)
         ELSE st

OwnedBy(st, owner) == {i \in DOMAIN st.snapshots : st.snapshots[i].owner = owner}
WeightOf(st, ids) == MapThenSumSet(LAMBDA i : st.snapshots[i].weight, ids)

owner_usage(st, owner) ==
    [count |-> Cardinality(OwnedBy(st, owner)), weight |-> WeightOf(st, OwnedBy(st, owner))]

remove_oldest_for_owner(st, owner) ==
    RemoveId(st, SelectSeq(st.insertion_order, LAMBDA i : st.snapshots[i].owner = owner)[1])

RECURSIVE MakeOwnerRoom(_, _, _)
MakeOwnerRoom(st, owner, weight) ==
    LET used == owner_usage(st, owner)
    IN  IF \/ /\ used.count < MAX_CACHED_LIST_SNAPSHOTS_PER_OWNER
              /\ used.weight + weight <= MAX_CACHED_LIST_SNAPSHOT_BYTES_PER_OWNER
           \/ used.count = 0
        THEN st
        ELSE MakeOwnerRoom(remove_oldest_for_owner(st, owner), owner, weight)

RECURSIVE MakeGlobalRoom(_, _)
MakeGlobalRoom(st, weight) ==
    IF /\ DOMAIN st.snapshots # {}
       /\ \/ Cardinality(DOMAIN st.snapshots) >= MAX_CACHED_LIST_SNAPSHOTS
          \/ st.total_weight + weight > MAX_CACHED_LIST_SNAPSHOT_BYTES
    THEN MakeGlobalRoom(remove_oldest(st), weight)
    ELSE st

\* Mutant: the account's own share is not looked at.
make_room_GlobalOnly(st, owner, weight) == MakeGlobalRoom(st, weight)

\* Mutant: an account over its share clears the cache, not only its own part.
make_room_Anyone(st, owner, weight) ==
    IF owner_usage(st, owner).count >= MAX_CACHED_LIST_SNAPSHOTS_PER_OWNER
    THEN EmptyStore ELSE MakeGlobalRoom(MakeOwnerRoom(st, owner, weight), weight)

make_room(st, owner, weight) ==
    MakeGlobalRoom(MakeOwnerRoom(st, owner, weight), weight)

Fits(weight) == weight <= MAX_CACHED_LIST_SNAPSHOT_BYTES_PER_OWNER

Room(st, owner, weight, now) == make_room(purge_expired(st, now), owner, weight)

\* Inserts rec, whose expiry is counted from the time now that its request
\* read before it took the lock.
cache(st, id, rec, now) ==
    LET room == Room(st, rec.owner, rec.weight, now)
    IN  [snapshots |-> [i \in DOMAIN room.snapshots \union {id} |->
                            IF i = id THEN rec ELSE room.snapshots[i]],
         insertion_order |-> Append(room.insertion_order, id),
         total_weight |-> room.total_weight + rec.weight]

matches_request(rec, owner, what) == rec.owner = owner /\ rec.what = what

\* The answer of a lookup in a store already purged.
Unavailable == [kind |-> "unavailable"]
PageOf(rec, id, from) ==
    LET end == Min({from + rec.what.limit, Len(rec.paths)})
    IN  [kind |-> "page", paths |-> SubSeq(rec.paths, from + 1, end),
         cursor |-> IF end < Len(rec.paths) THEN [id |-> id, offset |-> end] ELSE NoCursor]

\* Mutant: the next page starts one entry too late.
page_Skips(st, cursor, owner, what, directory) ==
    IF cursor.id \notin DOMAIN st.snapshots THEN Unavailable
    ELSE LET rec == st.snapshots[cursor.id]
         IN  IF cursor.offset + 1 >= Len(rec.paths) THEN Unavailable
             ELSE PageOf(rec, cursor.id, cursor.offset + 1)

page(st, cursor, owner, what, directory) ==
    IF cursor.id \notin DOMAIN st.snapshots THEN Unavailable
    ELSE LET rec == st.snapshots[cursor.id]
         IN  IF ~matches_request(rec, owner, what) THEN [kind |-> "invalid"]
             ELSE IF rec.directory # directory THEN [kind |-> "changed"]
             ELSE IF cursor.offset = 0 \/ cursor.offset >= Len(rec.paths) THEN Unavailable
             ELSE PageOf(rec, cursor.id, cursor.offset)
=============================================================================
