------------------------- MODULE HashMapDiskProofs -------------------------
(***************************************************************************)
(* Saving and loading, for any set of names, any hash function, any sizes  *)
(* and a process that dies anywhere.  A map loaded from a file that was    *)
(* cut off is only half a map: names may be stored twice and chains have   *)
(* holes.  So there are two invariants, what holds of every bucket array   *)
(* (MapOK) and what holds of one that is not torn (Whole).                 *)
(***************************************************************************)
EXTENDS HashMapDisk, HashMapProofs

-----------------------------------------------------------------------------
(* Two kinds of bucket arrays.                                             *)

BucketsOK(its, c) ==
  /\ its \in [0 .. c - 1 -> KVs]
  /\ \A s \in 0 .. c - 1 : KVOK(its[s]) /\ BucketOK(its[s])
  /\ Flags(its, c)

\* The flags of every bucket agree, and the map does not count fewer buckets
\* than are occupied, nor more than there are.
MapOK(its, c, n) ==
  /\ c \in Nat /\ n \in Nat /\ n <= c
  /\ BucketsOK(its, c)
  /\ Cardinality(Occupied(its, c)) <= n

\* Probing works, and the count is exact.
Whole(its, c, n) == Sound(its, c) /\ n = Cardinality(Occupied(its, c))

\* A bucket array has no more occupied buckets than buckets.
LEMMA OccupiedFits ==
  ASSUME NEW c \in Nat, NEW its
  PROVE  /\ Cardinality(Occupied(its, c)) \in Nat
         /\ Cardinality(Occupied(its, c)) <= c
<1>1. IsFiniteSet(0 .. c - 1) /\ Cardinality(0 .. c - 1) = c
  BY FS_Interval
<1>2. Occupied(its, c) \subseteq 0 .. c - 1
  BY DEF Occupied
<1> QED BY <1>1, <1>2, FS_Subset, OccupiedFinite

\* A new array is both.
LEMMA FreshOK ==
  ASSUME NEW c \in Nat
  PROVE  MapOK(Fresh(c), c, 0) /\ Whole(Fresh(c), c, 0)
<1>1. /\ Sound(Fresh(c), c) /\ Cardinality(Occupied(Fresh(c), c)) = 0
      /\ \A s \in 0 .. c - 1 : Fresh(c)[s] = EmptyKV
  BY FreshSound
<1>2. KVOK(EmptyKV)
  BY DEF KVOK, KVs, EmptyKV
<1> QED BY <1>1, <1>2, EmptyBucketOK DEF MapOK, BucketsOK, Whole, Sound

\* Whatever the array, the index hashmap_find returns is the key's.
LEMMA FindFinds ==
  ASSUME NEW c \in Nat \ {0}, NEW its, NEW k \in Keys, hashmap_find(its, c, k) # -1
  PROVE  LET idx == hashmap_find(its, c, k)
         IN  idx \in 0 .. c - 1 /\ its[idx].objname = k /\ its[idx].occupied
<1>1. Slot(k, FindDist(its, c, k), c) \in 0 .. c - 1
  BY FindDistSpec, SlotRange
<1> QED BY <1>1 DEF hashmap_find

\* One bucket gets a new name, or other pages under the name it has: the
\* other buckets and the flags are as before.
LEMMA OneBucketOK ==
  ASSUME NEW c \in Nat, NEW its, BucketsOK(its, c),
         NEW idx \in 0 .. c - 1, NEW kv, KVOK(kv), BucketOK(kv),
         Live(kv) <=> kv.objname # NoKey, kv.deleted => kv.occupied
  PROVE  /\ BucketsOK([its EXCEPT ![idx] = kv], c)
         /\ [its EXCEPT ![idx] = kv][idx] = kv
         /\ \A s \in (0 .. c - 1) \ {idx} : [its EXCEPT ![idx] = kv][s] = its[s]
<1> DEFINE new == [its EXCEPT ![idx] = kv]
<1>1. kv \in KVs
  BY DEF KVOK
<1>2. /\ new \in [0 .. c - 1 -> KVs] /\ new[idx] = kv
      /\ \A s \in (0 .. c - 1) \ {idx} : new[s] = its[s]
  BY <1>1 DEF BucketsOK
<1> HIDE DEF new
<1>3. \A s \in 0 .. c - 1 : KVOK(new[s]) /\ BucketOK(new[s])
  BY <1>2 DEF BucketsOK
<1>4. Flags(new, c)
  BY <1>2 DEF BucketsOK, Flags
<1> QED BY <1>2, <1>3, <1>4 DEF BucketsOK, new

-----------------------------------------------------------------------------
(* hashmap_insert on any bucket array with room.                           *)

\* A bucket that is given a key.
Placed(kv, k) == [kv EXCEPT !.objname = k, !.occupied = TRUE, !.deleted = FALSE]

Put1(its, n, c, k, new) ==
  /\ MapOK(new.items, c, new.cnt) /\ new.cnt <= n + 1
  /\ \/ new = [items |-> its, cnt |-> n, idx |-> -1]
     \/ /\ new.idx \in 0 .. c - 1
        /\ its[new.idx].objname = NoKey
        /\ new.items = [its EXCEPT ![new.idx] = Placed(@, k)]

\* A bucket without a name takes one and stays in order.
LEMMA PlacedOK ==
  ASSUME NEW kv, KVOK(kv), BucketOK(kv), kv.objname = NoKey, NEW k \in Keys
  PROVE  /\ KVOK(Placed(kv, k)) /\ BucketOK(Placed(kv, k)) /\ Live(Placed(kv, k))
         /\ Placed(kv, k).objname = k /\ Placed(kv, k).occupied = TRUE
         /\ Placed(kv, k).deleted = FALSE
         /\ Placed(kv, k).cnt = 0
<1>1. kv \in KVs
  BY DEF KVOK
<1>2. /\ Placed(kv, k) \in KVs
      /\ Placed(kv, k).objname = k /\ Placed(kv, k).occupied = TRUE
      /\ Placed(kv, k).deleted = FALSE /\ Placed(kv, k).capa = kv.capa
      /\ Placed(kv, k).cnt = kv.cnt /\ Placed(kv, k).pageno = kv.pageno
  BY <1>1 DEF Placed, KVs
<1>3. kv.cnt = 0 /\ k # NoKey
  BY NamesAssumption DEF BucketOK
<1> QED BY <1>2, <1>3 DEF KVOK, BucketOK, Live

\* hashmap_insert finds room whenever the map counts fewer buckets than it
\* has, and its result is a bucket array whose count still covers what is
\* occupied, torn or not.
LEMMA InsertAnywhere ==
  ASSUME NEW its, NEW n, NEW c, MapOK(its, c, n), n < c, NEW k \in Keys
  PROVE  /\ ~InsertAborts(its, n, c, k)
         /\ Put1(its, n, c, k, hashmap_insert(its, n, c, k))
<1> DEFINE idx == Slot(k, InsertDist(its, c, k), c)
           new == hashmap_insert(its, n, c, k)
           after == [its EXCEPT ![idx] = Placed(its[idx], k)]
<1>1. /\ c \in Nat \ {0} /\ n \in Nat /\ BucketsOK(its, c)
      /\ Cardinality(Occupied(its, c)) \in Nat /\ Cardinality(Occupied(its, c)) <= n
      /\ IsFiniteSet(Occupied(its, c))
  BY OccupiedFits, OccupiedFinite DEF MapOK
<1>2. InsertDist(its, c, k) \in 0 .. c - 1
  BY <1>1, InsertStopsEarly
<1>3. ~InsertAborts(its, n, c, k)
  BY <1>1, <1>2 DEF InsertAborts
<1>4. idx \in 0 .. c - 1
  BY <1>1, <1>2, SlotRange
<1> HIDE DEF idx
<1>5. KVOK(its[idx]) /\ BucketOK(its[idx]) /\ its[idx] \in KVs
      /\ its[idx].occupied \in BOOLEAN /\ its[idx].deleted \in BOOLEAN
  BY <1>1, <1>4 DEF BucketsOK, KVOK, KVs
<1>6. CASE its[idx].objname = NoKey /\ (~its[idx].occupied \/ its[idx].deleted)
  <2>1. /\ BucketsOK(after, c) /\ after[idx] = Placed(its[idx], k)
        /\ \A s \in (0 .. c - 1) \ {idx} : after[s] = its[s]
    <3>1. /\ KVOK(Placed(its[idx], k)) /\ BucketOK(Placed(its[idx], k))
          /\ Live(Placed(its[idx], k)) /\ Placed(its[idx], k).objname = k
          /\ Placed(its[idx], k).deleted = FALSE
      BY <1>5, <1>6, PlacedOK
    <3>2. (Live(Placed(its[idx], k)) <=> Placed(its[idx], k).objname # NoKey)
          /\ (Placed(its[idx], k).deleted => Placed(its[idx], k).occupied)
      BY <3>1, NamesAssumption
    <3> QED BY <1>1, <1>4, <3>1, <3>2, OneBucketOK
  <2>2. Occupied(after, c) = Occupied(its, c) \cup {idx}
    <3>1. after[idx].occupied
      BY <1>5, <1>6, <2>1, PlacedOK
    <3> HIDE DEF after
    <3> QED BY <1>4, <2>1, <3>1 DEF Occupied
  <2>3. CASE ~its[idx].occupied
    <3>1. new = [items |-> after, cnt |-> n + 1, idx |-> idx]
      <4>1. its[idx].deleted = FALSE
        BY <1>1, <1>4, <1>5, <2>3 DEF BucketsOK, Flags
      <4>2. Placed(its[idx], k) = [its[idx] EXCEPT !.objname = k, !.occupied = TRUE]
        BY <1>5, <4>1 DEF Placed, KVs
      <4> QED BY <2>3, <4>2 DEF hashmap_insert, idx
    <3>2. idx \notin Occupied(its, c)
      BY <2>3 DEF Occupied
    <3>3. Cardinality(Occupied(after, c)) = Cardinality(Occupied(its, c)) + 1
      BY <1>1, <2>2, <3>2, FS_AddElement
    <3>4. MapOK(after, c, n + 1)
      BY <1>1, <2>1, <3>3 DEF MapOK
    <3> HIDE DEF new
    <3> QED BY <1>3, <1>1, <1>4, <1>6, <3>1, <3>4 DEF Put1, new
  <2>4. CASE its[idx].occupied
    <3>1. its[idx].deleted /\ its[idx].objname # k
      BY <1>6, <2>4, NamesAssumption
    <3>2. Placed(its[idx], k) = [its[idx] EXCEPT !.objname = k, !.deleted = FALSE]
      BY <1>5, <2>4 DEF Placed, KVs
    <3>3. \/ new = [items |-> after, cnt |-> n, idx |-> idx]
          \/ new = [items |-> its, cnt |-> n, idx |-> -1]
      BY <2>4, <3>1, <3>2 DEF hashmap_insert, idx
    <3>4. Occupied(after, c) = Occupied(its, c)
      BY <1>4, <2>2, <2>4 DEF Occupied
    <3>5. MapOK(after, c, n)
      BY <1>1, <2>1, <3>4 DEF MapOK
    <3>6. n <= n + 1
      BY <1>1
    <3> HIDE DEF new
    <3>7. CASE new = [items |-> after, cnt |-> n, idx |-> idx]
      BY <1>3, <1>4, <1>6, <3>5, <3>6, <3>7 DEF Put1, new
    <3>8. CASE new = [items |-> its, cnt |-> n, idx |-> -1]
      BY <1>3, <3>6, <3>8 DEF Put1, new
    <3> QED BY <3>3, <3>7, <3>8
  <2> QED BY <2>3, <2>4
<1>7. CASE ~(its[idx].objname = NoKey /\ (~its[idx].occupied \/ its[idx].deleted))
  <2>1. its[idx].occupied /\ ~its[idx].deleted
    BY <1>1, <1>4, <1>7 DEF BucketsOK, Flags, Live
  <2>2. new = [items |-> its, cnt |-> n, idx |-> -1]
    BY <2>1 DEF hashmap_insert, idx
  <2> HIDE DEF new
  <2> QED BY <1>1, <1>3, <2>2 DEF Put1, MapOK, new
<1> QED BY <1>6, <1>7

-----------------------------------------------------------------------------
(* The map between and during calls, torn or not.                          *)

\* What a rehash needs to be sure of room, whatever the old array was like.
RehashFits ==
  /\ ~torn /\ 0 < old_capa /\ old_capa <= capa
  /\ pending # NoKey => capa = 2 * old_capa
  /\ cnt <= pos

MapInv ==
  /\ MapOK(items, capa, cnt)
  /\ torn \in BOOLEAN
  /\ ~torn => Whole(items, capa, cnt)
  /\ phase \in {"idle", "rehash"} /\ abort = FALSE
  /\ pending \in Keys \cup {NoKey}
  /\ old_capa \in Nat /\ pos \in 0 .. old_capa
  /\ BucketsOK(temp, old_capa)
  /\ phase = "idle" => old_capa = 0 /\ pos = 0 /\ pending = NoKey
  /\ phase = "rehash" => RehashFits

\* What a call does to the flag that says the map is torn: a rehash builds a
\* new array, and a map that is freed is none.
Mends == torn' = (torn /\ phase' # "rehash" /\ capa' # 0)

\* A step that leaves the buckets, their number and their count alone.
LEMMA SameBuckets ==
  ASSUME MapInv, Mends, phase = "idle",
         UNCHANGED <<capa, cnt, items, abort, phase, temp, old_capa, pos, pending>>
  PROVE  MapInv'
<1>1. torn' \in BOOLEAN /\ (~torn' => ~torn \/ capa = 0)
  BY DEF Mends, MapInv
<1>2. capa = 0 => Whole(items, capa, cnt)
  <2> SUFFICES ASSUME capa = 0 PROVE Whole(items, capa, cnt)
    OBVIOUS
  <2>1. cnt = 0 /\ 0 .. capa - 1 = {}
    BY DEF MapInv, MapOK
  <2>2. Occupied(items, capa) = {}
    BY <2>1 DEF Occupied
  <2>3. Sound(items, capa)
    BY <2>1 DEF MapInv, MapOK, BucketsOK, Sound, Unique, Chains
  <2> QED BY <2>1, <2>2, <2>3, FS_EmptySet DEF Whole
<1> QED BY <1>1, <1>2 DEF MapInv

\* A step of an idle map that stays idle and does not resize: the new buckets
\* are in order, and whole if the map was not torn.
LEMMA IdleStep ==
  ASSUME MapInv, Mends, phase = "idle", capa > 0,
         MapOK(items', capa, cnt'), ~torn => Whole(items', capa, cnt'),
         UNCHANGED <<capa, abort, phase, temp, old_capa, pos, pending>>
  PROVE  MapInv'
<1>1. torn' \in BOOLEAN /\ (~torn' => ~torn)
  BY DEF Mends, MapInv
<1> QED BY <1>1 DEF MapInv

\* hashmap_init.
LEMMA InitMap ==
  ASSUME MapInv, Mends, NEW b \in Buckets, hashmap_init(b)
  PROVE  MapInv'
<1>1. /\ capa = 0 /\ phase = "idle" /\ capa' = b /\ items' = Fresh(b) /\ cnt' = cnt
      /\ UNCHANGED <<abort, phase, temp, old_capa, pos, pending>>
  BY DEF hashmap_init, NoRehash
<1>2. cnt = 0 /\ b \in Nat
  BY <1>1, SizesAssumption DEF MapInv, MapOK
<1>3. MapOK(items', capa', cnt') /\ Whole(items', capa', cnt')
  BY <1>1, <1>2, FreshOK
<1> QED BY <1>1, <1>3 DEF MapInv, Mends

\* The call of hashmap_insert in hashmap_append.
LEMMA CallInsertMap ==
  ASSUME MapInv, NEW k \in Keys, cnt < capa, CallInsert(k)
  PROVE  /\ MapOK(items', capa, cnt') /\ UNCHANGED abort
         /\ ~torn => Whole(items', capa, cnt')
<1>1. MapOK(items, capa, cnt) /\ capa \in Nat \ {0}
  BY DEF MapInv, MapOK
<1>2. /\ ~InsertAborts(items, cnt, capa, k)
      /\ Put1(items, cnt, capa, k, hashmap_insert(items, cnt, capa, k))
  BY <1>1, InsertAnywhere
<1>3. /\ items' = hashmap_insert(items, cnt, capa, k).items
      /\ cnt' = hashmap_insert(items, cnt, capa, k).cnt /\ UNCHANGED abort
  BY <1>2 DEF CallInsert
<1>4. ASSUME ~torn PROVE Whole(items', capa, cnt')
  <2>1. Sound(items, capa) /\ cnt = Cardinality(Occupied(items, capa))
    BY <1>4 DEF MapInv, Whole
  <2>2. Inserted(items, cnt, capa, k, hashmap_insert(items, cnt, capa, k))
    BY <1>1, <2>1, InsertEffect
  <2> QED BY <1>3, <2>2 DEF Inserted, Whole
<1> QED BY <1>2, <1>3, <1>4 DEF Put1

\* hashmap_append with room.
LEMMA AppendNowMap ==
  ASSUME MapInv, Mends, NEW k \in Keys, AppendNow(k)
  PROVE  MapInv'
<1>1. /\ phase = "idle" /\ capa > 0 /\ cnt < capa /\ CallInsert(k)
      /\ UNCHANGED <<capa, phase, temp, old_capa, pos, pending>>
  BY DEF AppendNow, Ready, NoRehash
<1> QED BY <1>1, CallInsertMap, IdleStep

\* hashmap_extend up to its loop: a new array, and what is torn is left.
LEMMA ExtendBeginMap ==
  ASSUME MapInv, Mends, Ready, NEW f \in Nat \ {0}, NEW k \in Keys \cup {NoKey},
         k # NoKey => f = 2, ExtendBegin(f, k)
  PROVE  MapInv'
<1>1. /\ phase = "idle" /\ capa > 0 /\ temp' = items /\ old_capa' = capa
      /\ capa' = capa * f /\ items' = Fresh(capa * f) /\ cnt' = 0 /\ pos' = 0
      /\ phase' = "rehash" /\ pending' = k /\ abort' = abort
  BY DEF Ready, ExtendBegin
<1>2. capa \in Nat /\ capa * f \in Nat /\ capa <= capa * f
      /\ (f = 2 => capa * f = 2 * capa)
  BY DEF MapInv, MapOK
<1>3. MapOK(items', capa', cnt') /\ Whole(items', capa', cnt')
  BY <1>1, <1>2, FreshOK
<1>4. BucketsOK(temp', old_capa')
  BY <1>1 DEF MapInv, MapOK
<1>5. torn' = FALSE
  BY <1>1 DEF Mends
<1>6. capa <= capa' /\ (k # NoKey => capa' = 2 * capa)
  BY <1>1, <1>2
<1>7. RehashFits'
  <2>1. cnt' <= pos' /\ 0 < old_capa' /\ old_capa' <= capa'
    BY <1>1, <1>6
  <2> QED BY <1>1, <1>5, <1>6, <2>1 DEF RehashFits
<1>8. old_capa' \in Nat /\ pos' \in 0 .. old_capa'
  BY <1>1, <1>2
<1> QED BY <1>1, <1>3, <1>4, <1>5, <1>7, <1>8 DEF MapInv

\* An iteration that skips a bucket.
LEMMA ExtendSkipMap ==
  ASSUME MapInv, Mends, ExtendSkip
  PROVE  MapInv'
<1>1. /\ phase = "rehash" /\ pos < old_capa /\ pos' = pos + 1
      /\ UNCHANGED <<capa, cnt, items, phase, temp, old_capa, pending, abort>>
  BY DEF ExtendSkip
<1>2. pos \in Nat /\ old_capa \in Nat /\ cnt \in Nat
  BY DEF MapInv, MapOK
<1>3. pos' \in 0 .. old_capa' /\ (cnt <= pos => cnt' <= pos')
  BY <1>1, <1>2
<1>4. torn' = FALSE /\ torn = FALSE
  BY <1>1 DEF Mends, MapInv, RehashFits
<1>5. RehashFits'
  BY <1>1, <1>3, <1>4 DEF MapInv, RehashFits
<1> QED BY <1>1, <1>3, <1>4, <1>5 DEF MapInv

\* A bucket that gets the pages of another keeps its name and flags.
LEMMA MovedOK ==
  ASSUME NEW kv, KVOK(kv), kv.objname # NoKey, NEW old, KVOK(old), BucketOK(old)
  PROVE  LET new == [kv EXCEPT !.capa = old.capa, !.cnt = old.cnt, !.pageno = old.pageno]
         IN  /\ KVOK(new) /\ BucketOK(new)
             /\ new.objname = kv.objname /\ new.occupied = kv.occupied
             /\ new.deleted = kv.deleted
             /\ Pagenos(new) = Pagenos(old)
<1> DEFINE new == [kv EXCEPT !.capa = old.capa, !.cnt = old.cnt, !.pageno = old.pageno]
<1>1. kv \in KVs /\ old \in KVs /\ Len(old.pageno) = old.capa /\ old.cnt <= old.capa
  BY DEF KVOK
<1>2. /\ new \in KVs
      /\ new.objname = kv.objname /\ new.occupied = kv.occupied
      /\ new.deleted = kv.deleted
      /\ new.capa = old.capa /\ new.cnt = old.cnt /\ new.pageno = old.pageno
  BY <1>1 DEF KVs
<1> HIDE DEF new
<1>3. KVOK(new) /\ BucketOK(new) /\ Pagenos(new) = Pagenos(old)
  BY <1>1, <1>2 DEF KVOK, BucketOK, Pagenos
<1> QED BY <1>2, <1>3 DEF new

\* A key is moved.  From an array that was torn it may come a second time; it
\* then gets the pages of the bucket that comes last.
LEMMA ExtendMoveMap ==
  ASSUME MapInv, Mends, ExtendMove
  PROVE  MapInv'
<1> DEFINE old == temp[pos]
           k == old.objname
           new == hashmap_insert(items, cnt, capa, k)
           idx == hashmap_find(new.items, capa, k)
           moved == [new.items[idx] EXCEPT !.capa = old.capa, !.cnt = old.cnt,
                                           !.pageno = old.pageno]
<1>1. /\ phase = "rehash" /\ pos < old_capa /\ ~old.deleted /\ k # NoKey
      /\ UNCHANGED <<capa, phase, temp, old_capa, pending>>
  BY DEF ExtendMove
<1>2. /\ pos \in Nat /\ old_capa \in Nat /\ pos \in 0 .. old_capa - 1
      /\ capa \in Nat \ {0} /\ cnt \in Nat /\ cnt < capa /\ cnt <= pos
      /\ torn = FALSE /\ Whole(items, capa, cnt) /\ MapOK(items, capa, cnt)
  BY <1>1 DEF MapInv, MapOK, RehashFits
<1>3. KVOK(old) /\ BucketOK(old) /\ k \in Keys
  <2>1. KVOK(old) /\ BucketOK(old)
    BY <1>2 DEF MapInv, BucketsOK
  <2> QED BY <1>1, <2>1 DEF KVOK, KVs
<1> HIDE DEF k, old
<1>4. ~InsertAborts(items, cnt, capa, k) /\ Put1(items, cnt, capa, k, new)
  BY <1>2, <1>3, InsertAnywhere
<1>5. Inserted(items, cnt, capa, k, new)
  BY <1>2, <1>3, InsertEffect DEF Whole
<1> HIDE DEF new
<1>6. /\ items' = [new.items EXCEPT ![idx] =
                     [@ EXCEPT !.capa = old.capa, !.cnt = old.cnt,
                               !.pageno = old.pageno]]
      /\ cnt' = new.cnt /\ pos' = pos + 1 /\ UNCHANGED abort
  BY <1>4 DEF ExtendMove, new, k, old
<1>7. /\ MapOK(new.items, capa, new.cnt) /\ new.cnt <= cnt + 1
      /\ BucketsOK(new.items, capa) /\ Sound(new.items, capa)
      /\ new.cnt = Cardinality(Occupied(new.items, capa))
      /\ DOMAIN new.items = 0 .. capa - 1
  BY <1>4, <1>5 DEF Put1, MapOK, Inserted, BucketsOK
<1>8. \E s \in 0 .. capa - 1 : new.items[s].objname = k
  <2>1. CASE new = [items |-> items, cnt |-> cnt, idx |-> -1]
             /\ \E s \in 0 .. capa - 1 : items[s].objname = k
    BY <2>1
  <2>2. CASE /\ new.idx \in 0 .. capa - 1 /\ items[new.idx].objname = NoKey
             /\ new.items = [items EXCEPT ![new.idx] =
                               [@ EXCEPT !.objname = k, !.occupied = TRUE,
                                         !.deleted = FALSE]]
    <3>1. items[new.idx] \in KVs /\ DOMAIN items = 0 .. capa - 1
      BY <1>2, <2>2 DEF Whole, Sound
    <3>2. new.items[new.idx].objname = k
      BY <2>2, <3>1 DEF KVs
    <3> QED BY <2>2, <3>2
  <2> QED BY <1>5, <2>1, <2>2 DEF Inserted
<1>9. idx \in 0 .. capa - 1 /\ new.items[idx].objname = k
  BY <1>2, <1>3, <1>7, <1>8, FindCases
<1> HIDE DEF idx
<1>10. KVOK(new.items[idx]) /\ new.items[idx] \in KVs
  BY <1>7, <1>9 DEF BucketsOK, KVOK
<1>11. /\ KVOK(moved) /\ BucketOK(moved) /\ moved.objname = k
       /\ moved.occupied = new.items[idx].occupied
       /\ moved.deleted = new.items[idx].deleted
  BY <1>1, <1>3, <1>9, <1>10, MovedOK
<1>12. items' = [new.items EXCEPT ![idx] = moved]
  BY <1>6, <1>7, <1>9
<1> HIDE DEF moved
<1>13. /\ BucketsOK(items', capa) /\ items'[idx] = moved
       /\ \A s \in (0 .. capa - 1) \ {idx} : items'[s] = new.items[s]
  <2>1. (Live(moved) <=> moved.objname # NoKey) /\ (moved.deleted => moved.occupied)
    BY <1>7, <1>9, <1>11 DEF BucketsOK, Flags, Live
  <2> QED BY <1>2, <1>7, <1>9, <1>11, <1>12, <2>1, OneBucketOK
<1>14. Sound(items', capa) /\ Occupied(items', capa) = Occupied(new.items, capa)
  <2>1. \A s \in 0 .. capa - 1 : /\ items'[s].occupied = new.items[s].occupied
                                 /\ items'[s].deleted = new.items[s].deleted
                                 /\ items'[s].objname = new.items[s].objname
    BY <1>9, <1>11, <1>13
  <2>2. items' \in [0 .. capa - 1 -> KVs]
    BY <1>13 DEF BucketsOK
  <2> QED BY <1>2, <1>7, <2>1, <2>2, PagesKeepSound
<1>15. MapOK(items', capa, cnt') /\ Whole(items', capa, cnt')
  BY <1>6, <1>7, <1>13, <1>14 DEF MapOK, Whole
<1>16. pos' \in 0 .. old_capa /\ cnt' <= pos'
  <2>1. cnt' \in Nat
    BY <1>15 DEF MapOK
  <2> QED BY <1>2, <1>6, <1>7, <2>1
<1>17. torn' = FALSE
  BY <1>2 DEF Mends
<1>18. RehashFits'
  BY <1>1, <1>16, <1>17 DEF MapInv, RehashFits
<1> QED BY <1>1, <1>6, <1>15, <1>16, <1>17, <1>18 DEF MapInv

\* The end of a rehash, and the insertion hashmap_append makes then.
LEMMA ExtendEndMap ==
  ASSUME MapInv, Mends, ExtendEnd
  PROVE  MapInv'
<1>1. /\ phase = "rehash" /\ pos >= old_capa /\ phase' = "idle" /\ temp' = Fresh(0)
      /\ old_capa' = 0 /\ pos' = 0 /\ pending' = NoKey /\ capa' = capa
  BY DEF ExtendEnd
<1>2. BucketsOK(temp', old_capa')
  BY <1>1, FreshOK DEF MapOK
<1>3. torn = FALSE /\ torn' = FALSE /\ RehashFits
  BY <1>1 DEF Mends, MapInv, RehashFits
<1>4. MapOK(items', capa, cnt') /\ Whole(items', capa, cnt') /\ UNCHANGED abort
  <2>1. CASE pending = NoKey
    BY <1>3, <2>1 DEF ExtendEnd, MapInv
  <2>2. CASE pending # NoKey
    <3>1. CallInsert(pending) /\ pending \in Keys
      BY <2>2 DEF ExtendEnd, MapInv
    <3>2. cnt < capa
      BY <1>1, <1>3, <2>2 DEF RehashFits, MapInv, MapOK
    <3> QED BY <1>3, <3>1, <3>2, CallInsertMap
  <2> QED BY <2>1, <2>2
<1>5. old_capa' \in Nat /\ pos' \in 0 .. old_capa'
  BY <1>1
<1> QED BY <1>1, <1>2, <1>3, <1>4, <1>5 DEF MapInv

\* KV_append.
LEMMA KV_appendMap ==
  ASSUME MapInv, Mends, NEW k \in Keys, NEW p \in Pages, KV_append(k, p)
  PROVE  MapInv'
<1> DEFINE idx == hashmap_find(items, capa, k)
           kv == Appended(items[idx], p)
<1>1. /\ phase = "idle" /\ capa > 0 /\ idx # -1
      /\ items' = [items EXCEPT ![idx] = Appended(@, p)]
      /\ UNCHANGED <<capa, cnt, abort, phase, temp, old_capa, pos, pending>>
  BY DEF KV_append, Ready, NoRehash
<1>2. capa \in Nat \ {0} /\ BucketsOK(items, capa) /\ MapOK(items, capa, cnt)
  BY <1>1 DEF MapInv, MapOK
<1>3. idx \in 0 .. capa - 1 /\ items[idx].objname = k
  BY <1>1, <1>2, FindFinds
<1> HIDE DEF idx
<1>4. KVOK(items[idx]) /\ BucketOK(items[idx]) /\ DOMAIN items = 0 .. capa - 1
  BY <1>2, <1>3 DEF BucketsOK
<1>5. /\ KVOK(kv) /\ BucketOK(kv) /\ kv.objname = items[idx].objname
      /\ kv.occupied = items[idx].occupied /\ kv.deleted = items[idx].deleted
  BY <1>3, <1>4, AppendedOK, AppendedPages, NamesAssumption
<1>6. items' = [items EXCEPT ![idx] = kv]
  BY <1>1, <1>3, <1>4
<1> HIDE DEF kv
<1>7. /\ BucketsOK(items', capa) /\ items'[idx] = kv
      /\ \A s \in (0 .. capa - 1) \ {idx} : items'[s] = items[s]
  <2>1. (Live(kv) <=> kv.objname # NoKey) /\ (kv.deleted => kv.occupied)
    BY <1>2, <1>3, <1>5 DEF BucketsOK, Flags, Live
  <2>2. /\ BucketsOK([items EXCEPT ![idx] = kv], capa)
        /\ [items EXCEPT ![idx] = kv][idx] = kv
        /\ \A s \in (0 .. capa - 1) \ {idx} : [items EXCEPT ![idx] = kv][s] = items[s]
    BY <1>2, <1>3, <1>5, <2>1, OneBucketOK
  <2> QED BY <1>6, <2>2
<1>8. \A s \in 0 .. capa - 1 : /\ items'[s].occupied = items[s].occupied
                               /\ items'[s].deleted = items[s].deleted
                               /\ items'[s].objname = items[s].objname
  BY <1>3, <1>5, <1>7
<1>9. MapOK(items', capa, cnt')
  <2>1. Occupied(items', capa) = Occupied(items, capa)
    BY <1>8 DEF Occupied
  <2> QED BY <1>1, <1>2, <1>7, <2>1 DEF MapOK
<1>10. ASSUME ~torn PROVE Whole(items', capa, cnt')
  <2>1. items' \in [0 .. capa - 1 -> KVs]
    BY <1>7 DEF BucketsOK
  <2> QED BY <1>1, <1>2, <1>8, <1>10, <2>1, PagesKeepSound DEF Whole, MapInv
<1> QED BY <1>1, <1>9, <1>10, IdleStep

\* hashmap_delete.
LEMMA DeleteMap ==
  ASSUME MapInv, Mends, NEW k \in Keys, hashmap_delete(k)
  PROVE  MapInv'
<1> DEFINE idx == hashmap_find(items, capa, k)
           kv == Tombstone(items[idx])
<1>1. /\ phase = "idle" /\ capa > 0
      /\ items' = IF idx < 0 THEN items ELSE [items EXCEPT ![idx] = Tombstone(@)]
      /\ UNCHANGED <<capa, cnt, abort, phase, temp, old_capa, pos, pending>>
  BY DEF hashmap_delete, Ready, NoRehash
<1>2. capa \in Nat \ {0} /\ BucketsOK(items, capa) /\ MapOK(items, capa, cnt)
  BY <1>1 DEF MapInv, MapOK
<1>3. CASE idx = -1
  <2>1. items' = items
    BY <1>1, <1>3
  <2> QED BY <1>1, <2>1, SameBuckets
<1>4. CASE idx # -1
  <2>1. idx \in 0 .. capa - 1 /\ items[idx].occupied
    BY <1>2, <1>4, FindFinds
  <2> HIDE DEF idx
  <2>2. items[idx] \in KVs /\ DOMAIN items = 0 .. capa - 1
    BY <1>2, <2>1 DEF BucketsOK
  <2>3. /\ KVOK(kv) /\ kv.objname = NoKey /\ kv.cnt = 0
        /\ kv.occupied = items[idx].occupied /\ kv.deleted = TRUE
    <3> DEFINE none == << >>
    <3>1. none \in Seq(Pages \cup {NoPage}) /\ Len(none) = 0
      OBVIOUS
    <3> HIDE DEF none
    <3>2. kv = [items[idx] EXCEPT !.deleted = TRUE, !.capa = 0, !.cnt = 0,
                                  !.objname = NoKey, !.pageno = none]
      BY DEF Tombstone, none
    <3> HIDE DEF kv
    <3>3. kv \in KVs /\ kv.pageno = none /\ kv.capa = 0 /\ kv.cnt = 0
          /\ kv.objname = NoKey /\ kv.occupied = items[idx].occupied /\ kv.deleted = TRUE
      BY <2>2, <3>1, <3>2 DEF KVs
    <3> QED BY <3>1, <3>3 DEF KVOK
  <2>4. items' = [items EXCEPT ![idx] = kv]
    <3>1. ~(idx < 0)
      BY <1>2, <2>1
    <3> QED BY <1>1, <2>1, <2>2, <3>1
  <2>5. BucketOK(kv) /\ (Live(kv) <=> kv.objname # NoKey) /\ (kv.deleted => kv.occupied)
    BY <2>1, <2>3 DEF BucketOK, Live
  <2> HIDE DEF kv
  <2>6. /\ BucketsOK(items', capa) /\ items'[idx] = kv
        /\ \A s \in (0 .. capa - 1) \ {idx} : items'[s] = items[s]
    <3>1. /\ BucketsOK([items EXCEPT ![idx] = kv], capa)
          /\ [items EXCEPT ![idx] = kv][idx] = kv
          /\ \A s \in (0 .. capa - 1) \ {idx} : [items EXCEPT ![idx] = kv][s] = items[s]
      <4>1. capa \in Nat /\ BucketsOK(items, capa) /\ idx \in 0 .. capa - 1
        BY <1>2, <2>1
      <4>2. KVOK(kv) /\ BucketOK(kv)
        BY <2>3, <2>5
      <4>3. (Live(kv) <=> kv.objname # NoKey) /\ (kv.deleted => kv.occupied)
        BY <2>5
      <4> QED BY <4>1, <4>2, <4>3, OneBucketOK
    <3> QED BY <2>4, <3>1
  <2>7. \A s \in 0 .. capa - 1 : /\ items'[s].occupied = items[s].occupied
                                 /\ items'[s].objname \in {items[s].objname, NoKey}
    BY <2>1, <2>3, <2>6
  <2>8. MapOK(items', capa, cnt')
    <3>1. Occupied(items', capa) = Occupied(items, capa)
      BY <2>7 DEF Occupied
    <3> QED BY <1>1, <1>2, <2>6, <3>1 DEF MapOK
  <2>9. ASSUME ~torn PROVE Whole(items', capa, cnt')
    <3>1. items' \in [0 .. capa - 1 -> KVs] /\ Flags(items', capa)
      BY <2>6 DEF BucketsOK
    <3> QED BY <1>1, <1>2, <2>7, <2>9, <3>1, ClearKeepsSound DEF Whole, MapInv
  <2> QED BY <1>1, <2>8, <2>9, IdleStep
<1> QED BY <1>3, <1>4

\* hashmap_free.
LEMMA FreeMap ==
  ASSUME MapInv, Mends, hashmap_free
  PROVE  MapInv'
<1>1. /\ phase = "idle" /\ capa' = 0 /\ cnt' = 0 /\ items' = Fresh(0)
      /\ UNCHANGED <<abort, phase, temp, old_capa, pos, pending>>
  BY DEF hashmap_free, Ready, NoRehash
<1>2. MapOK(items', capa', cnt') /\ Whole(items', capa', cnt')
  BY <1>1, FreshOK
<1>3. torn' = FALSE
  BY <1>1 DEF Mends
<1> QED BY <1>1, <1>2, <1>3 DEF MapInv

\* Every call, and every step of one.
LEMMA NextMap ==
  ASSUME MapInv, Mends, Next
  PROVE  MapInv'
<1>1. ASSUME NEW b \in Buckets, hashmap_init(b) PROVE MapInv'
  BY <1>1, InitMap
<1>2. ASSUME NEW k \in Keys, AppendNow(k) PROVE MapInv'
  BY <1>2, AppendNowMap
<1>3. ASSUME NEW k \in Keys, AppendGrow(k) PROVE MapInv'
  BY <1>3, ExtendBeginMap DEF AppendGrow
<1>4. ASSUME NEW f \in Factors, hashmap_extend(f) PROVE MapInv'
  BY <1>4, SizesAssumption, ExtendBeginMap DEF hashmap_extend
<1>5. ASSUME NEW k \in Keys, Find(k) PROVE MapInv'
  BY <1>5, SameBuckets DEF Find, Ready, NoRehash
<1>6. ASSUME NEW k \in Keys, NEW p \in Pages, KV_append(k, p) PROVE MapInv'
  BY <1>6, KV_appendMap
<1>7. ASSUME NEW k \in Keys, hashmap_delete(k) PROVE MapInv'
  BY <1>7, DeleteMap
<1>8. CASE hashmap_free
  BY <1>8, FreeMap
<1>9. CASE Rehash
  BY <1>9, ExtendSkipMap, ExtendMoveMap, ExtendEndMap DEF Rehash
<1> QED BY <1>1, <1>2, <1>3, <1>4, <1>5, <1>6, <1>7, <1>8, <1>9 DEF Next, Calls

-----------------------------------------------------------------------------
(* A file is a prefix of the pieces of some map.                           *)

\* Piece of any map: its[0 .. c-1], of which n are counted.
PieceOf(its, c, n, m) ==
  LET kv == its[(m - 2) \div 2]
  IN  IF m = 1 THEN [capa |-> c, cnt |-> n]
      ELSE IF m % 2 = 0 THEN [kv EXCEPT !.pageno = << >>]
      ELSE Pagenos(kv)

FileOf(f, its, c, n) ==
  /\ f \in Seq({PieceOf(its, c, n, m) : m \in 1 .. Pieces(c)})
  /\ Len(f) <= Pieces(c)
  /\ \A m \in 1 .. Len(f) : f[m] = PieceOf(its, c, n, m)

\* The two pieces of a bucket.
LEMMA KVPiece ==
  ASSUME NEW its, NEW c, NEW n, NEW i \in Nat
  PROVE  PieceOf(its, c, n, 2 * i + 2) = [its[i] EXCEPT !.pageno = << >>]
<1>1. 2 * i + 2 # 1 /\ (2 * i + 2) % 2 = 0 /\ ((2 * i + 2) - 2) \div 2 = i
  OBVIOUS
<1> QED BY <1>1 DEF PieceOf

LEMMA PagesPiece ==
  ASSUME NEW its, NEW c, NEW n, NEW i \in Nat
  PROVE  PieceOf(its, c, n, 2 * i + 3) = Pagenos(its[i])
<1>1. 2 * i + 3 # 1 /\ (2 * i + 3) % 2 # 0 /\ ((2 * i + 3) - 2) \div 2 = i
  OBVIOUS
<1> QED BY <1>1 DEF PieceOf

\* One more piece is written.
LEMMA OneMore ==
  ASSUME NEW its, NEW c \in Nat, NEW n, NEW f, FileOf(f, its, c, n),
         Len(f) < Pieces(c)
  PROVE  /\ FileOf(Append(f, PieceOf(its, c, n, Len(f) + 1)), its, c, n)
         /\ Len(Append(f, PieceOf(its, c, n, Len(f) + 1))) = Len(f) + 1
<1> DEFINE S == {PieceOf(its, c, n, m) : m \in 1 .. Pieces(c)}
           x == PieceOf(its, c, n, Len(f) + 1)
<1>1. f \in Seq(S) /\ \A m \in 1 .. Len(f) : f[m] = PieceOf(its, c, n, m)
  BY DEF FileOf
<1>2. Len(f) \in Nat /\ Pieces(c) \in Nat
  BY <1>1 DEF Pieces
<1>3. x \in S
  <2>1. Len(f) + 1 \in 1 .. Pieces(c)
    BY <1>2
  <2> QED BY <2>1
<1> HIDE DEF S, x
<1>4. /\ Append(f, x) \in Seq(S) /\ Len(Append(f, x)) = Len(f) + 1
      /\ Append(f, x)[Len(f) + 1] = x
      /\ \A m \in 1 .. Len(f) : Append(f, x)[m] = f[m]
  BY <1>1, <1>2, <1>3
<1>5. ASSUME NEW m \in 1 .. Len(f) + 1 PROVE Append(f, x)[m] = PieceOf(its, c, n, m)
  <2>1. m = Len(f) + 1 \/ m \in 1 .. Len(f)
    BY <1>2
  <2> QED BY <1>1, <1>4, <2>1 DEF x
<1>6. Len(Append(f, x)) <= Pieces(c)
  BY <1>2, <1>4
<1> QED BY <1>4, <1>5, <1>6 DEF FileOf, S, x

-----------------------------------------------------------------------------
(* What hashmap_fromdisk makes of such a file.                             *)

\* A bucket is empty, or the one saved with its pages, or, if the file ends
\* between its KV and its pages, the one saved with zeros for pages.
LEMMA LoadedBucket ==
  ASSUME NEW its, NEW c, NEW n, MapOK(its, c, n), FileOf(file, its, c, n),
         NEW i \in 0 .. c - 1
  PROVE  /\ KVOK(LoadedKV(i)) /\ BucketOK(LoadedKV(i))
         /\ Missing(2 * i + 2) => LoadedKV(i) = EmptyKV
         /\ ~Missing(2 * i + 2) =>
              /\ LoadedKV(i).objname = its[i].objname
              /\ LoadedKV(i).occupied = its[i].occupied
              /\ LoadedKV(i).deleted = its[i].deleted
              /\ LoadedKV(i).cnt = its[i].cnt
              /\ \A j \in 1 .. its[i].cnt :
                   LoadedKV(i).pageno[j] =
                     IF Missing(2 * i + 3) THEN 0 ELSE Pagenos(its[i])[j]
<1>1. i \in Nat /\ c \in Nat /\ Len(file) \in Nat
  BY DEF MapOK, FileOf
<1>2. KVOK(its[i]) /\ BucketOK(its[i])
  BY DEF MapOK, BucketsOK
<1>3. \A m \in 1 .. Len(file) : file[m] = PieceOf(its, c, n, m)
  BY DEF FileOf
<1>4. CASE Missing(2 * i + 2)
  <2>1. LoadedKV(i) = EmptyKV
    BY <1>4 DEF LoadedKV
  <2>2. KVOK(EmptyKV)
    BY DEF KVOK, KVs, EmptyKV
  <2> QED BY <1>4, <2>1, <2>2, EmptyBucketOK
<1>5. CASE ~Missing(2 * i + 2)
  <2> DEFINE zero == 0
             kv == file[2 * i + 2]
             list == [j \in 1 .. kv.capa |->
                        IF j <= kv.cnt /\ ~Missing(2 * i + 3)
                        THEN file[2 * i + 3][j] ELSE zero]
             new == LoadedKV(i)
  <2>1. kv = [its[i] EXCEPT !.pageno = << >>]
    <3>1. 2 * i + 2 \in 1 .. Len(file)
      BY <1>1, <1>5 DEF Missing
    <3>2. kv = PieceOf(its, c, n, 2 * i + 2)
      BY <1>3, <3>1
    <3> QED BY <1>1, <3>2, KVPiece
  <2>2. ~Missing(2 * i + 3) => file[2 * i + 3] = Pagenos(its[i])
    <3> SUFFICES ASSUME ~Missing(2 * i + 3) PROVE file[2 * i + 3] = Pagenos(its[i])
      OBVIOUS
    <3>1. 2 * i + 3 \in 1 .. Len(file)
      BY <1>1 DEF Missing
    <3>2. file[2 * i + 3] = PieceOf(its, c, n, 2 * i + 3)
      BY <1>3, <3>1
    <3> QED BY <1>1, <3>2, PagesPiece
  <2>3. new = [kv EXCEPT !.pageno = list]
    BY <1>5 DEF LoadedKV
  <2>4. its[i] \in KVs /\ its[i].cnt \in Nat /\ its[i].capa \in Nat /\ its[i].cnt <= its[i].capa
    BY <1>2 DEF KVOK, KVs
  <2>5. kv.capa = its[i].capa /\ kv.cnt = its[i].cnt
    BY <2>1, <2>4 DEF KVs
  <2>6. /\ \A j \in 1 .. its[i].cnt : Pagenos(its[i])[j] \in Pages
    BY <1>2, <2>4, PagenosType DEF BucketOK
  <2>7. zero \in Pages
    BY ZeroIsAPage
  <2> HIDE DEF zero, kv
  <2>8. list = [j \in 1 .. its[i].capa |->
                  IF j <= its[i].cnt /\ ~Missing(2 * i + 3)
                  THEN Pagenos(its[i])[j] ELSE zero]
    BY <2>2, <2>5
  <2>9. /\ list \in [1 .. its[i].capa -> Pages \cup {NoPage}]
        /\ \A j \in 1 .. its[i].cnt :
             list[j] = IF Missing(2 * i + 3) THEN zero ELSE Pagenos(its[i])[j]
        /\ \A j \in 1 .. its[i].cnt : list[j] \in Pages
    <3> DEFINE ca == its[i].capa
               cn == its[i].cnt
               was == Pagenos(its[i])
               gone == Missing(2 * i + 3)
    <3>1. list = [j \in 1 .. ca |-> IF j <= cn /\ ~gone THEN was[j] ELSE zero]
      BY <2>8
    <3>2. ca \in Nat /\ cn \in Nat /\ cn <= ca /\ \A j \in 1 .. cn : was[j] \in Pages
      BY <2>4, <2>6
    <3> HIDE DEF list, ca, cn, was, gone
    <3>3. \A j \in 1 .. ca : list[j] = IF j <= cn /\ ~gone THEN was[j] ELSE zero
      BY <3>1
    <3>4. \A j \in 1 .. cn : list[j] = (IF gone THEN zero ELSE was[j]) /\ list[j] \in Pages
      BY <2>7, <3>2, <3>3
    <3>5. \A j \in 1 .. ca : list[j] \in Pages \cup {NoPage}
      BY <2>7, <3>2, <3>3
    <3>6. list \in [1 .. ca -> Pages \cup {NoPage}]
      BY <3>1, <3>5
    <3> QED BY <3>4, <3>6 DEF ca, cn, was, gone
  <2> HIDE DEF list
  <2>10. list \in Seq(Pages \cup {NoPage}) /\ Len(list) = its[i].capa
    BY <2>4, <2>9, SMT
  <2>11. new = [its[i] EXCEPT !.pageno = list]
    BY <2>1, <2>3, <2>4 DEF KVs
  <2> HIDE DEF new
  <2>12. /\ new \in KVs /\ new.objname = its[i].objname
         /\ new.occupied = its[i].occupied /\ new.deleted = its[i].deleted
         /\ new.cnt = its[i].cnt /\ new.capa = its[i].capa /\ new.pageno = list
    BY <2>4, <2>10, <2>11 DEF KVs
  <2>13. KVOK(new) /\ BucketOK(new)
    BY <1>2, <2>4, <2>9, <2>10, <2>12 DEF KVOK, BucketOK
  <2> QED BY <1>5, <2>9, <2>12, <2>13 DEF new, zero
<1> QED BY <1>4, <1>5

\* The pages of a bucket that is not empty: those saved, or zeros.
LEMMA LoadedPages ==
  ASSUME NEW its, NEW c, NEW n, MapOK(its, c, n), FileOf(file, its, c, n),
         NEW i \in 0 .. c - 1, ~Missing(2 * i + 2)
  PROVE  /\ ~Missing(2 * i + 3) => Pagenos(LoadedKV(i)) = Pagenos(its[i])
         /\ Missing(2 * i + 3) =>
              Pagenos(LoadedKV(i)) = [j \in DOMAIN Pagenos(its[i]) |-> 0]
         /\ Pagenos(LoadedKV(i)) # Absent /\ Pagenos(its[i]) # Absent
<1> DEFINE was == Pagenos(its[i])
           is == Pagenos(LoadedKV(i))
<1>1. KVOK(its[i]) /\ BucketOK(its[i]) /\ its[i].cnt \in Nat
  BY DEF MapOK, BucketsOK, KVOK, KVs
<1>2. /\ KVOK(LoadedKV(i)) /\ BucketOK(LoadedKV(i)) /\ LoadedKV(i).cnt = its[i].cnt
      /\ \A j \in 1 .. its[i].cnt :
           LoadedKV(i).pageno[j] = IF Missing(2 * i + 3) THEN 0 ELSE was[j]
  BY LoadedBucket
<1>3. /\ was \in Seq(Pages) /\ Len(was) = its[i].cnt /\ was # Absent
      /\ is \in Seq(Pages) /\ Len(is) = its[i].cnt /\ is # Absent
      /\ \A j \in 1 .. its[i].cnt : is[j] = LoadedKV(i).pageno[j]
  BY <1>1, <1>2, PagenosType
<1> HIDE DEF was, is
<1>4. ASSUME ~Missing(2 * i + 3) PROVE is = was
  <2>1. \A j \in 1 .. its[i].cnt : is[j] = was[j]
    BY <1>2, <1>3, <1>4
  <2> QED BY <1>3, <2>1, SeqEqual
<1>5. ASSUME Missing(2 * i + 3) PROVE is = [j \in DOMAIN was |-> 0]
  <2> DEFINE m == its[i].cnt
  <2>1. \A j \in 1 .. m : is[j] = 0
    BY <1>2, <1>3, <1>5
  <2>2. DOMAIN is = 1 .. m /\ DOMAIN was = 1 .. m /\ is = [j \in DOMAIN is |-> is[j]]
    BY <1>1, <1>3
  <2> HIDE DEF m
  <2> QED BY <2>1, <2>2
<1> QED BY <1>3, <1>4, <1>5 DEF was, is

LoadedItems(c) == [i \in 0 .. c - 1 |-> LoadedKV(i)]

\* The buckets hashmap_fromdisk makes are in order, and the count it read
\* covers those that are occupied.
LEMMA LoadedMap ==
  ASSUME NEW its, NEW c, NEW n, MapOK(its, c, n), FileOf(file, its, c, n)
  PROVE  MapOK(LoadedItems(c), c, n)
<1> DEFINE new == LoadedItems(c)
<1>1. /\ c \in Nat /\ n \in Nat /\ n <= c /\ BucketsOK(its, c)
      /\ Cardinality(Occupied(its, c)) <= n /\ Flags(its, c)
  BY DEF MapOK, BucketsOK
<1>2. \A i \in 0 .. c - 1 :
        /\ new[i] = LoadedKV(i) /\ KVOK(LoadedKV(i)) /\ BucketOK(LoadedKV(i))
        /\ \/ LoadedKV(i) = EmptyKV
           \/ /\ LoadedKV(i).objname = its[i].objname
              /\ LoadedKV(i).occupied = its[i].occupied
              /\ LoadedKV(i).deleted = its[i].deleted
  BY LoadedBucket DEF LoadedItems
<1>3. new \in [0 .. c - 1 -> KVs]
  <2>1. \A i \in 0 .. c - 1 : LoadedKV(i) \in KVs
    BY <1>2 DEF KVOK
  <2> QED BY <2>1 DEF LoadedItems
<1> HIDE DEF new
<1>4. Flags(new, c)
  <2> SUFFICES ASSUME NEW s \in 0 .. c - 1
               PROVE  /\ Live(new[s]) <=> new[s].objname # NoKey
                      /\ new[s].deleted => new[s].occupied
    BY DEF Flags
  <2>1. CASE new[s] = EmptyKV
    BY <2>1 DEF EmptyKV, Live
  <2>2. CASE new[s] # EmptyKV
    BY <1>1, <1>2, <2>2 DEF Flags, Live
  <2> QED BY <2>1, <2>2
<1>5. BucketsOK(new, c)
  BY <1>2, <1>3, <1>4 DEF BucketsOK
<1>6. Occupied(new, c) \subseteq Occupied(its, c)
  BY <1>2 DEF Occupied, EmptyKV
<1>7. Cardinality(Occupied(new, c)) <= n
  <2>1. IsFiniteSet(Occupied(its, c)) /\ Cardinality(Occupied(its, c)) \in Nat
        /\ Cardinality(Occupied(new, c)) \in Nat
    BY <1>1, OccupiedFinite
  <2>2. Cardinality(Occupied(new, c)) <= Cardinality(Occupied(its, c))
    BY <1>6, <2>1, FS_Subset
  <2> QED BY <1>1, <2>1, <2>2
<1> QED BY <1>1, <1>5, <1>7 DEF MapOK, new

\* A name is no more than once in what is loaded if it was not before.
LEMMA LoadedUnique ==
  ASSUME NEW its, NEW c, NEW n, MapOK(its, c, n), FileOf(file, its, c, n),
         Unique(its, c)
  PROVE  Unique(LoadedItems(c), c)
<1>1. \A i \in 0 .. c - 1 :
        /\ LoadedItems(c)[i] = LoadedKV(i)
        /\ LoadedKV(i).objname = NoKey \/ LoadedKV(i).objname = its[i].objname
  BY LoadedBucket DEF LoadedItems, EmptyKV
<1> QED BY <1>1 DEF Unique

\* From a file that is complete comes the map that was saved.
LEMMA LoadedWhole ==
  ASSUME NEW its, NEW c, NEW n, MapOK(its, c, n), FileOf(file, its, c, n),
         ~Missing(Pieces(c)), Whole(its, c, n)
  PROVE  /\ Whole(LoadedItems(c), c, n)
         /\ Stored(LoadedItems(c), c, its, 0, 0) = Stored(its, c, its, 0, 0)
<1> DEFINE new == LoadedItems(c)
<1>1. c \in Nat /\ Len(file) \in Nat /\ ~(1 + 2 * c > Len(file))
  BY DEF MapOK, FileOf, Missing, Pieces
<1>2. \A i \in 0 .. c - 1 : ~Missing(2 * i + 2) /\ ~Missing(2 * i + 3)
  BY <1>1 DEF Missing
<1>3. \A i \in 0 .. c - 1 :
        /\ new[i] = LoadedKV(i) /\ new[i].objname = its[i].objname
        /\ new[i].occupied = its[i].occupied /\ new[i].deleted = its[i].deleted
        /\ Pagenos(new[i]) = Pagenos(its[i])
  <2> TAKE i \in 0 .. c - 1
  <2>1. new[i] = LoadedKV(i) /\ ~Missing(2 * i + 2) /\ ~Missing(2 * i + 3)
    BY <1>2 DEF LoadedItems
  <2>2. /\ LoadedKV(i).objname = its[i].objname
        /\ LoadedKV(i).occupied = its[i].occupied
        /\ LoadedKV(i).deleted = its[i].deleted
    BY <2>1, LoadedBucket
  <2>3. Pagenos(LoadedKV(i)) = Pagenos(its[i])
    BY <2>1, LoadedPages
  <2> QED BY <2>1, <2>2, <2>3
<1>4. new \in [0 .. c - 1 -> KVs]
  BY LoadedMap DEF MapOK, BucketsOK
<1> HIDE DEF new
<1>5. Whole(new, c, n)
  BY <1>1, <1>3, <1>4, PagesKeepSound DEF Whole
<1>6. ASSUME NEW k \in Keys PROVE Stored(new, c, its, 0, 0)[k] = Stored(its, c, its, 0, 0)[k]
  <2>1. CASE \E s \in 0 .. c - 1 : its[s].objname = k
    <3>1. PICK s \in 0 .. c - 1 : its[s].objname = k
      BY <2>1
    <3>2. Stored(its, c, its, 0, 0)[k] = Pagenos(its[s])
      BY <1>1, <3>1, StoredHere DEF Whole, Sound
    <3>3. new[s].objname = k
      BY <1>3, <3>1
    <3>4. Stored(new, c, its, 0, 0)[k] = Pagenos(new[s])
      BY <1>1, <1>5, <3>3, StoredHere DEF Whole, Sound
    <3> QED BY <1>3, <3>2, <3>4
  <2>2. CASE \A s \in 0 .. c - 1 : its[s].objname # k
    <3>1. \A s \in 0 .. c - 1 : new[s].objname # k
      BY <1>3, <2>2
    <3> QED BY <2>2, <3>1 DEF Stored
  <2> QED BY <2>1, <2>2
<1>7. Stored(new, c, its, 0, 0) = Stored(its, c, its, 0, 0)
  BY <1>6, StoredDomain
<1> QED BY <1>5, <1>7 DEF new

\* From a file that is cut off comes of each key nothing or all, but that the
\* key of the last bucket may have zeros for pages.
LEMMA LoadedTorn ==
  ASSUME NEW its, NEW c, NEW n, MapOK(its, c, n), FileOf(file, its, c, n),
         Unique(its, c)
  PROVE  \E hit \in Keys \cup {NoKey} : \A k \in Keys :
           LET was == Stored(its, c, its, 0, 0)[k]
               is == Stored(LoadedItems(c), c, its, 0, 0)[k]
           IN  \/ is \in {Absent, was}
               \/ /\ k = hit /\ is # Absent /\ was # Absent
                  /\ is = [j \in DOMAIN was |-> 0]
<1> DEFINE new == LoadedItems(c)
           Cut(s) == ~Missing(2 * s + 2) /\ Missing(2 * s + 3)
<1>1. c \in Nat /\ Len(file) \in Nat
  BY DEF MapOK, FileOf
<1>2. PICK hit \in Keys \cup {NoKey} :
        \A s \in 0 .. c - 1 : Cut(s) => its[s].objname = hit
  <2>1. CASE \E s \in 0 .. c - 1 : Cut(s)
    <3>1. PICK s \in 0 .. c - 1 : Cut(s)
      BY <2>1
    <3>2. \A t \in 0 .. c - 1 : Cut(t) => t = s
      BY <1>1, <3>1 DEF Missing
    <3>3. its[s].objname \in Keys \cup {NoKey}
      BY <3>1 DEF MapOK, BucketsOK, KVs
    <3> QED BY <3>2, <3>3
  <2>2. CASE ~\E s \in 0 .. c - 1 : Cut(s)
    BY <2>2
  <2> QED BY <2>1, <2>2
<1>3. ASSUME NEW k \in Keys
      PROVE  LET was == Stored(its, c, its, 0, 0)[k]
                 is == Stored(new, c, its, 0, 0)[k]
             IN  \/ is \in {Absent, was}
                 \/ /\ k = hit /\ is # Absent /\ was # Absent
                    /\ is = [j \in DOMAIN was |-> 0]
  <2>1. CASE \E s \in 0 .. c - 1 : new[s].objname = k
    <3>1. PICK s \in 0 .. c - 1 : new[s].objname = k
      BY <2>1
    <3>2. new[s] = LoadedKV(s)
      BY DEF LoadedItems
    <3>3. ~Missing(2 * s + 2) /\ its[s].objname = k
      <4>1. Missing(2 * s + 2) => LoadedKV(s) = EmptyKV
        BY LoadedBucket
      <4>2. ~Missing(2 * s + 2)
        BY <3>1, <3>2, <4>1, NamesAssumption DEF EmptyKV
      <4> QED BY <3>1, <3>2, <4>2, LoadedBucket
    <3>4. /\ ~Missing(2 * s + 3) => Pagenos(new[s]) = Pagenos(its[s])
          /\ Missing(2 * s + 3) => Pagenos(new[s]) = [j \in DOMAIN Pagenos(its[s]) |-> 0]
          /\ Pagenos(new[s]) # Absent /\ Pagenos(its[s]) # Absent
      <4> HIDE DEF new
      <4> QED BY <3>2, <3>3, LoadedPages
    <3>5. Stored(its, c, its, 0, 0)[k] = Pagenos(its[s])
      BY <1>1, <3>3, StoredHere
    <3>6. Stored(new, c, its, 0, 0)[k] = Pagenos(new[s])
      <4>1. Unique(new, c)
        BY LoadedUnique
      <4> HIDE DEF new
      <4> QED BY <1>1, <3>1, <4>1, StoredHere
    <3>7. Missing(2 * s + 3) => k = hit
      BY <1>2, <3>3
    <3> HIDE DEF new
    <3> QED BY <3>4, <3>5, <3>6, <3>7
  <2>2. CASE \A s \in 0 .. c - 1 : new[s].objname # k
    <3>1. \A s \in 0 .. 0 - 1 : its[s].objname # k
      OBVIOUS
    <3> HIDE DEF new
    <3>2. Stored(new, c, its, 0, 0)[k] = Absent
      BY <2>2, <3>1, StoredNowhere
    <3> QED BY <3>2
  <2> QED BY <2>1, <2>2
<1> QED BY <1>3

-----------------------------------------------------------------------------
(* The invariant of map, file and process.                                 *)

\* A file holds the beginning of some map, whose contents `saved' remembers.
FileInv ==
  file # NoFile =>
    \E its, c, n : /\ MapOK(its, c, n) /\ FileOf(file, its, c, n)
                   /\ saved.dict = Stored(its, c, its, 0, 0)
                   /\ ~saved.torn => Whole(its, c, n)

\* While hashmap_todisk runs, that map is the one in memory.
SaveInv ==
  /\ next \in Nat \cup {-1}
  /\ next # -1 =>
       /\ phase = "idle"
       /\ FileOf(file, items, capa, cnt) /\ Len(file) + next = Pieces(capa)
       /\ saved = [dict |-> Contents, torn |-> torn]

DiskInv ==
  /\ MapInv /\ FileInv /\ SaveInv
  /\ SavedComesBack /\ TornInventsNothing

\* Between calls the contents are those of the buckets.
LEMMA IdleContents ==
  ASSUME MapInv, phase = "idle", NEW old
  PROVE  Contents = Stored(items, capa, old, 0, 0)
<1>1. Contents = Stored(items, capa, temp, 0, 0)
  BY ContentsStored DEF MapInv
<1> QED BY <1>1, NoneToMove

\* No file, no map.
LEMMA InitDisk == DiskInit => DiskInv
<1> SUFFICES ASSUME DiskInit PROVE DiskInv
  OBVIOUS
<1>1. /\ capa = 0 /\ cnt = 0 /\ items = Fresh(0) /\ temp = Fresh(0) /\ old_capa = 0
      /\ pos = 0 /\ phase = "idle" /\ pending = NoKey /\ abort = FALSE
      /\ file = NoFile /\ next = -1 /\ torn = FALSE /\ fresh = FALSE
  BY DEF DiskInit, Init
<1>2. MapOK(items, capa, cnt) /\ Whole(items, capa, cnt) /\ BucketsOK(temp, old_capa)
  BY <1>1, FreshOK DEF MapOK
<1>3. old_capa \in Nat /\ pos \in 0 .. old_capa
  BY <1>1
<1>4. MapInv
  BY <1>1, <1>2, <1>3 DEF MapInv
<1> QED BY <1>1, <1>4 DEF DiskInv, FileInv, SaveInv, SavedComesBack, TornInventsNothing

\* A call of the other operations.
LEMMA UseStep ==
  ASSUME DiskInv, Use
  PROVE  DiskInv'
<1>1. MapInv'
  <2>1. Mends
    BY DEF Use, Mends
  <2> QED BY <2>1, NextMap DEF Use, DiskInv
<1>2. next = -1 /\ next' = -1 /\ file' = file /\ saved' = saved /\ fresh' = FALSE
  BY DEF Use, NotSaving
<1> QED BY <1>1, <1>2
        DEF DiskInv, FileInv, SaveInv, SavedComesBack, TornInventsNothing

\* The file is truncated.
LEMMA OpenStep ==
  ASSUME DiskInv, Open
  PROVE  DiskInv'
<1>1. /\ phase = "idle" /\ file' = << >> /\ next' = Pieces(capa)
      /\ saved' = [dict |-> Contents, torn |-> torn]
      /\ UNCHANGED <<vars, torn, fresh>>
  BY DEF Open, Ready
<1>2. UNCHANGED <<capa, cnt, items, phase, temp, old_capa, pos, pending, abort>>
      /\ Contents' = Contents
  BY <1>1 DEF vars, Contents
<1>3. capa \in Nat /\ Pieces(capa) \in Nat
  BY DEF DiskInv, MapInv, MapOK, Pieces
<1>4. FileOf(<< >>, items, capa, cnt) /\ Len(<< >>) = 0
  BY <1>3 DEF FileOf
<1>5. MapInv'
  BY <1>1, <1>2 DEF DiskInv, MapInv, RehashFits
<1>6. SaveInv'
  <2>1. FileOf(file', items', capa', cnt') /\ Len(file') + next' = Pieces(capa')
    BY <1>1, <1>2, <1>3, <1>4
  <2> QED BY <1>1, <1>2, <1>3, <2>1 DEF SaveInv
<1>7. FileInv'
  <2>1. Contents = Stored(items, capa, items, 0, 0)
    BY <1>1, IdleContents DEF DiskInv
  <2>2. MapOK(items, capa, cnt) /\ (~torn => Whole(items, capa, cnt))
    BY DEF DiskInv, MapInv
  <2> QED BY <1>1, <1>4, <2>1, <2>2 DEF FileInv
<1>8. SavedComesBack' /\ TornInventsNothing'
  BY <1>1, <1>2 DEF SavedComesBack, TornInventsNothing
<1> QED BY <1>5, <1>6, <1>7, <1>8 DEF DiskInv

\* A piece is written.
LEMMA WriteStep ==
  ASSUME DiskInv, Write
  PROVE  DiskInv'
<1>1. /\ next > 0 /\ next' = next - 1
      /\ file' = Append(file, PieceOf(items, capa, cnt, Len(file) + 1))
      /\ UNCHANGED <<vars, saved, torn, fresh>>
  BY DEF Write, Piece, Header, PieceOf
<1>2. UNCHANGED <<capa, cnt, items, phase, temp, old_capa, pos, pending, abort>>
      /\ Contents' = Contents
  BY <1>1 DEF vars, Contents
<1>3. /\ next \in Nat /\ phase = "idle"
      /\ FileOf(file, items, capa, cnt) /\ Len(file) + next = Pieces(capa)
      /\ saved = [dict |-> Contents, torn |-> torn]
  BY <1>1 DEF DiskInv, SaveInv
<1>4. capa \in Nat /\ Len(file) \in Nat /\ Pieces(capa) \in Nat
  BY <1>3 DEF DiskInv, MapInv, MapOK, FileOf, Pieces
<1>5. Len(file) < Pieces(capa)
  BY <1>1, <1>3, <1>4
<1>6. FileOf(file', items, capa, cnt) /\ Len(file') = Len(file) + 1
  BY <1>1, <1>3, <1>4, <1>5, OneMore
<1>7. MapInv'
  BY <1>1, <1>2 DEF DiskInv, MapInv, RehashFits
<1>8. SaveInv'
  <2>1. next' \in Nat /\ Len(file') + next' = Pieces(capa)
    BY <1>1, <1>3, <1>4, <1>6
  <2> QED BY <1>1, <1>2, <1>3, <1>6, <2>1 DEF SaveInv
<1>9. FileInv'
  <2>1. Contents = Stored(items, capa, items, 0, 0)
    BY <1>3, IdleContents DEF DiskInv
  <2>2. MapOK(items, capa, cnt) /\ (~torn => Whole(items, capa, cnt))
    BY DEF DiskInv, MapInv
  <2>3. saved'.dict = Stored(items, capa, items, 0, 0)
        /\ (~saved'.torn => Whole(items, capa, cnt))
    BY <1>1, <1>3, <2>1, <2>2
  <2> QED BY <1>6, <2>2, <2>3 DEF FileInv
<1>10. SavedComesBack' /\ TornInventsNothing'
  BY <1>1, <1>2 DEF DiskInv, SavedComesBack, TornInventsNothing, Zeroed
<1> QED BY <1>7, <1>8, <1>9, <1>10 DEF DiskInv

\* hashmap_todisk returns, or nothing happens.
LEMMA ReturnStep ==
  ASSUME DiskInv, Return \/ UNCHANGED dkvars
  PROVE  DiskInv'
<1>1. /\ next' \in {next, -1}
      /\ UNCHANGED <<vars, file, saved, torn, fresh>>
  BY DEF Return, dkvars, disk
<1>2. UNCHANGED <<capa, cnt, items, phase, temp, old_capa, pos, pending, abort>>
      /\ Contents' = Contents
  BY <1>1 DEF vars, Contents
<1>3. MapInv'
  BY <1>1, <1>2 DEF DiskInv, MapInv, RehashFits
<1>4. FileInv' /\ SaveInv'
  BY <1>1, <1>2 DEF DiskInv, FileInv, SaveInv
<1>5. SavedComesBack' /\ TornInventsNothing'
  BY <1>1, <1>2 DEF DiskInv, SavedComesBack, TornInventsNothing, Zeroed
<1> QED BY <1>3, <1>4, <1>5 DEF DiskInv

\* The process dies.
LEMMA CrashStep ==
  ASSUME DiskInv, Crash
  PROVE  DiskInv'
<1>1. /\ capa' = 0 /\ cnt' = 0 /\ items' = Fresh(0) /\ temp' = Fresh(0) /\ old_capa' = 0
      /\ pos' = 0 /\ phase' = "idle" /\ pending' = NoKey /\ abort' = abort
      /\ file' = file /\ next' = -1 /\ torn' = FALSE /\ fresh' = FALSE /\ saved' = saved
  BY DEF Crash
<1>2. MapOK(items', capa', cnt') /\ Whole(items', capa', cnt') /\ BucketsOK(temp', old_capa')
  BY <1>1, FreshOK DEF MapOK
<1>3. old_capa' \in Nat /\ pos' \in 0 .. old_capa'
  BY <1>1
<1>4. MapInv'
  BY <1>1, <1>2, <1>3 DEF DiskInv, MapInv
<1> QED BY <1>1, <1>4 DEF DiskInv, FileInv, SaveInv, SavedComesBack, TornInventsNothing

\* hashmap_fromdisk: an empty file, whose header is missing, makes the buckets
\* of the map empty; a file with a header brings its map back, or part of it.
LEMMA LoadStep ==
  ASSUME DiskInv, Load
  PROVE  DiskInv'
<1>1. /\ phase = "idle" /\ next = -1 /\ file # NoFile /\ LoadHeader
      /\ items' = LoadedItems(capa')
      /\ torn' = (saved.torn \/ Missing(Pieces(capa')))
      /\ fresh' = TRUE
      /\ UNCHANGED <<phase, temp, old_capa, pos, pending, abort, file, next, saved>>
  BY DEF Load, NotSaving, NoRehash, LoadedItems
<1>2. PICK its, c, n : /\ MapOK(its, c, n) /\ FileOf(file, its, c, n)
                       /\ saved.dict = Stored(its, c, its, 0, 0)
                       /\ ~saved.torn => Whole(its, c, n)
  BY <1>1 DEF DiskInv, FileInv
<1>3. Contents' = Stored(items', capa', its, 0, 0)
  <2>1. Contents' = Stored(items', capa', temp', pos', old_capa')
    BY ContentsStored
  <2>2. pos' = 0 /\ old_capa' = 0
    BY <1>1 DEF DiskInv, MapInv
  <2>3. Stored(items', capa', temp', 0, 0) = Stored(items', capa', its, 0, 0)
    BY NoneToMove
  <2> QED BY <2>1, <2>2, <2>3
<1>4. FileInv' /\ SaveInv'
  BY <1>1 DEF DiskInv, FileInv, SaveInv
<1>5. torn' \in BOOLEAN /\ Len(file) \in Nat /\ c \in Nat
  BY <1>1, <1>2 DEF FileOf, MapOK
<1>6. CASE Missing(1)
  <2>1. Len(file) = 0 /\ capa' = capa /\ cnt' = cnt /\ capa \in Nat /\ cnt \in Nat
        /\ cnt <= capa
    BY <1>1, <1>5, <1>6 DEF Missing, LoadHeader, DiskInv, MapInv, MapOK
  <2>2. \A m \in Nat \ {0} : Missing(m)
    BY <2>1 DEF Missing
  <2>3. torn' = TRUE
    <3>1. Pieces(capa) \in Nat \ {0}
      BY <2>1 DEF Pieces
    <3> QED BY <1>1, <2>1, <2>2, <3>1
  <2>4. items' = Fresh(capa)
    <3>1. \A i \in 0 .. capa - 1 : 2 * i + 2 \in Nat \ {0}
      BY <2>1
    <3>2. \A i \in 0 .. capa - 1 : LoadedKV(i) = EmptyKV
      BY <2>2, <3>1 DEF LoadedKV
    <3> QED BY <1>1, <2>1, <3>2 DEF LoadedItems, Fresh
  <2>5. MapOK(items', capa', cnt')
    <3>1. MapOK(Fresh(capa), capa, 0) /\ Cardinality(Occupied(Fresh(capa), capa)) <= cnt
      BY <2>1, FreshOK, OccupiedFits DEF Whole
    <3> QED BY <2>1, <2>4, <3>1 DEF MapOK
  <2>6. MapInv'
    BY <1>1, <1>5, <2>3, <2>5 DEF DiskInv, MapInv, RehashFits
  <2>7. Contents' = [k \in Keys |-> Absent]
    <3>1. \A s \in 0 .. capa - 1 : Fresh(capa)[s] = EmptyKV
      BY <2>1, FreshSound
    <3>2. capa \in Nat /\ 0 \in Nat /\ 0 >= 0
      BY <2>1
    <3>3. Stored(Fresh(capa), capa, its, 0, 0) = [k \in Keys |-> Absent]
      BY ONLY <3>1, <3>2, NothingStored
    <3> QED BY <1>3, <2>1, <2>4, <3>3
  <2>8. SavedComesBack' /\ TornInventsNothing'
    BY <2>3, <2>7 DEF SavedComesBack, TornInventsNothing
  <2> QED BY <1>4, <2>6, <2>8 DEF DiskInv
<1>7. CASE ~Missing(1)
  <2>1. file[1] = [capa |-> c, cnt |-> n]
    <3>1. 1 \in 1 .. Len(file)
      BY <1>5, <1>7 DEF Missing
    <3>2. file[1] = PieceOf(its, c, n, 1)
      BY <1>2, <3>1 DEF FileOf
    <3>3. PieceOf(its, c, n, 1) = [capa |-> c, cnt |-> n]
      BY DEF PieceOf
    <3> QED BY <3>2, <3>3
  <2>2. capa' = c /\ cnt' = n /\ items' = LoadedItems(c)
    BY <1>1, <1>7, <2>1 DEF LoadHeader
  <2>3. MapOK(items', capa', cnt')
    BY <1>2, <2>2, LoadedMap
  <2>4. ASSUME ~torn'
        PROVE  Whole(items', capa', cnt') /\ Contents' = saved.dict
    <3>1. ~saved.torn /\ ~Missing(Pieces(c))
      BY <1>1, <2>2, <2>4
    <3>2. /\ Whole(LoadedItems(c), c, n)
          /\ Stored(LoadedItems(c), c, its, 0, 0) = Stored(its, c, its, 0, 0)
      BY <1>2, <3>1, LoadedWhole
    <3> QED BY <1>2, <1>3, <2>2, <3>2
  <2>5. MapInv'
    BY <1>1, <1>5, <2>3, <2>4 DEF DiskInv, MapInv, RehashFits
  <2>6. SavedComesBack'
    BY <1>1, <2>4 DEF SavedComesBack
  <2>7. TornInventsNothing'
    <3> SUFFICES ASSUME ~saved.torn PROVE TornInventsNothing'
      BY <1>1 DEF TornInventsNothing
    <3>1. Unique(its, c)
      BY <1>2 DEF Whole, Sound
    <3> DEFINE Was == Stored(its, c, its, 0, 0)
               Is == Stored(LoadedItems(c), c, its, 0, 0)
    <3>2. Contents' = Is /\ saved'.dict = Was
      BY <1>1, <1>2, <1>3, <2>2
    <3>3. PICK hit \in Keys \cup {NoKey} : \A k \in Keys :
             \/ Is[k] \in {Absent, Was[k]}
             \/ /\ k = hit /\ Is[k] # Absent /\ Was[k] # Absent
                /\ Is[k] = [j \in DOMAIN Was[k] |-> 0]
      BY <1>2, <3>1, LoadedTorn
    <3> HIDE DEF Was, Is
    <3>4. ASSUME NEW k \in Keys
          PROVE  Contents'[k] \in {Absent, saved'.dict[k]} \/ (k = hit /\ Zeroed(k)')
      BY <3>2, <3>3 DEF Zeroed
    <3> QED BY <3>4 DEF TornInventsNothing
  <2> QED BY <1>4, <2>5, <2>6, <2>7 DEF DiskInv
<1> QED BY <1>6, <1>7

\* Every step of the process, and its death, keeps the invariant.
LEMMA StepDisk == DiskInv /\ [DiskNext]_dkvars => DiskInv'
BY UseStep, OpenStep, WriteStep, ReturnStep, LoadStep, CrashStep DEF DiskNext

-----------------------------------------------------------------------------
(* The theorems.                                                           *)

\* The invariant holds whatever is saved, cut off and loaded.
THEOREM DiskInvariance == DiskSpec => []DiskInv
<1> QED BY InitDisk, StepDisk, PTL DEF DiskSpec

\* hashmap_insert finds room in a map loaded from half a file too: its assert
\* and its overflow exit are never reached.
THEOREM DiskAlwaysRoom == DiskSpec => []NeverAborts
<1>1. DiskInv => NeverAborts
  BY DEF DiskInv, MapInv, NeverAborts
<1> QED BY <1>1, DiskInvariance, PTL

\* hashmap_fromdisk brings back the keys and pages hashmap_todisk was called
\* with, if the file is whole, whatever the process does after that.
THEOREM SavingKeeps == DiskSpec => []SavedComesBack
<1>1. DiskInv => SavedComesBack
  BY DEF DiskInv
<1> QED BY <1>1, DiskInvariance, PTL

\* A file cut off at any piece brings back of each key nothing or all; at most
\* one key has its pages replaced by as many zeros.
THEOREM TearingOnlyLoses == DiskSpec => []TornInventsNothing
<1>1. DiskInv => TornInventsNothing
  BY DEF DiskInv
<1> QED BY <1>1, DiskInvariance, PTL

\* Only a file cut off breaks the map, and a rehash mends it.
THEOREM OnlyTearingBreaks == DiskSpec => []SoundUnlessTorn
<1>1. DiskInv => SoundUnlessTorn
  <2> SUFFICES ASSUME DiskInv, ~torn
               PROVE  /\ FlagsAgree /\ NoDuplicates /\ ChainsUnbroken /\ FindIsExact
                      /\ CntIsOccupied
    BY DEF SoundUnlessTorn
  <2>1. capa \in Nat /\ Sound(items, capa) /\ cnt = Cardinality(Occupied(items, capa))
    BY DEF DiskInv, MapInv, MapOK, Whole
  <2>2. FlagsAgree /\ NoDuplicates /\ ChainsUnbroken /\ CntIsOccupied
    BY <2>1 DEF Sound, FlagsAgree, NoDuplicates, ChainsUnbroken, CntIsOccupied
  <2>3. FindIsExact
    <3> SUFFICES ASSUME capa > 0, NEW k \in Keys
                 PROVE  LET idx == hashmap_find(items, capa, k)
                        IN  /\ idx # -1 => items[idx].objname = k
                            /\ (\E s \in 0 .. capa - 1 : items[s].objname = k) => idx # -1
      BY DEF FindIsExact
    <3>1. capa \in Nat \ {0}
      BY <2>1
    <3> QED BY <2>1, <3>1, FindCases
  <2> QED BY <2>2, <2>3
<1> QED BY <1>1, DiskInvariance, PTL

=============================================================================
