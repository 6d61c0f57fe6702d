------------------------------ MODULE HashMap ------------------------------
(***************************************************************************)
(* The hash map of hashmap.c: open addressing with linear probing,         *)
(* deletion by tombstone, and growth by rehashing into a larger bucket     *)
(* array.  A call runs to completion before the next one starts (the       *)
(* program has one thread), so a call is one action; only hashmap_extend,  *)
(* whose loop moves one bucket at a time, is spread over several, so that  *)
(* the states in the middle of a rehash are states of the model.           *)
(*                                                                         *)
(* djb2 (hash) is a constant function of the key.  Keys are the non-empty  *)
(* names the callers use; NoKey is the empty objname of a fresh or deleted *)
(* bucket.  A failed assert and exit("Hash map overflow") set `abort'.     *)
(***************************************************************************)
EXTENDS Integers, Sequences, FiniteSets

CONSTANTS
  Keys,     (* the non-empty object names                               *)
  NoKey,    (* the empty name                                           *)
  Pages,    (* values kept in a bucket's pageno array                   *)
  NoPage,   (* an element of pageno that realloc left uninitialised     *)
  Absent,   (* contents of a key that is not in the map                 *)
  Hash,     (* hash(key)                                                *)
  Buckets,  (* arguments given to hashmap_init                          *)
  Factors,  (* arguments given to hashmap_extend: 1 and 2               *)
  MaxCapa,  (* bound: no call that would need more buckets is made      *)
  MaxPages  (* bound: pages appended to one key                         *)

ASSUME HashAssumption == Hash \in [Keys -> Nat]
ASSUME NamesAssumption == NoKey \notin Keys /\ IsFiniteSet(Keys)
ASSUME PagesAssumption == NoPage \notin Pages /\ Absent \notin Seq(Pages)
ASSUME SizesAssumption ==
  /\ Buckets \subseteq Nat \ {0}
  /\ Factors \subseteq Nat \ {0}
  /\ MaxCapa \in Nat
  /\ MaxPages \in Nat

VARIABLES
  capa,     (* map->capa                                                *)
  cnt,      (* map->cnt                                                 *)
  items,    (* map->items[0 .. capa-1]                                  *)
  phase,    (* "idle", or "rehash" while hashmap_extend loops           *)
  temp,     (* hashmap_extend's copy of the old buckets                 *)
  old_capa, (* how many they are                                        *)
  pos,      (* its loop index i                                         *)
  pending,  (* the key hashmap_append inserts after growing, or NoKey   *)
  ret,      (* the last call and the index it returned                  *)
  abort     (* an assert failed or the overflow exit was taken          *)

vars == <<capa, cnt, items, phase, temp, old_capa, pos, pending, ret, abort>>

EmptyKV == [objname |-> NoKey, occupied |-> FALSE, deleted |-> FALSE,
            capa |-> 0, cnt |-> 0, pageno |-> << >>]

\* calloc(1, c * sizeof(KV)).
Fresh(c) == [s \in 0 .. c - 1 |-> EmptyKV]

KVs == [objname : Keys \cup {NoKey}, occupied : BOOLEAN, deleted : BOOLEAN,
        capa : Nat, cnt : Nat, pageno : Seq(Pages \cup {NoPage})]

-----------------------------------------------------------------------------
(* Probing.  Each operator takes the bucket array `its' and its size c,    *)
(* because hashmap_extend probes the new array.                            *)

\* The bucket a probe for k starts from, and the one it has reached after d
\* rounds of idx = (idx + 1) % capa.
Home(k, c) == Hash[k] % c

Slot(k, d, c) == IF Home(k, c) + d < c THEN Home(k, c) + d ELSE Home(k, c) + d - c

\* MUTANT: the probe also ends at a tombstone.
FindStops_Tombstone(its, c, k, d) ==
  LET kv == its[Slot(k, d, c)] IN ~kv.occupied \/ kv.deleted \/ kv.objname = k

\* hashmap_find's loop ends here: a bucket never used, or the key's.
FindStops(its, c, k, d) ==
  LET kv == its[Slot(k, d, c)] IN ~kv.occupied \/ kv.objname = k

FindDist(its, c, k) ==
  CHOOSE d \in 0 .. c : /\ d < c => FindStops(its, c, k, d)
                        /\ \A e \in 0 .. (d - 1) : ~FindStops(its, c, k, e)

\* MUTANT: the name is not compared after the loop.
hashmap_find_NoCompare(its, c, k) ==
  LET idx == Slot(k, FindDist(its, c, k), c)
  IN  IF its[idx].occupied THEN idx ELSE -1

hashmap_find(its, c, k) ==
  LET idx == Slot(k, FindDist(its, c, k), c)
  IN  IF its[idx].occupied /\ its[idx].objname = k THEN idx ELSE -1

\* hashmap_insert's loop ends there too, and at the first tombstone.
InsertStops(its, c, k, d) ==
  FindStops(its, c, k, d) \/ its[Slot(k, d, c)].deleted

InsertDist(its, c, k) ==
  CHOOSE d \in 0 .. c : /\ d < c => InsertStops(its, c, k, d)
                        /\ \A e \in 0 .. (d - 1) : ~InsertStops(its, c, k, e)

\* hashmap_insert: the new buckets, the new count and the index returned.
\* A tombstone is reused only if the key is not further along the chain.
hashmap_insert(its, n, c, k) ==
  LET idx == Slot(k, InsertDist(its, c, k), c)
      kv  == its[idx]
  IN  IF ~kv.occupied
      THEN [items |-> [its EXCEPT ![idx] =
                         [kv EXCEPT !.objname = k, !.occupied = TRUE]],
            cnt |-> n + 1, idx |-> idx]
      ELSE IF kv.objname # k /\ kv.deleted /\ hashmap_find(its, c, k) = -1
      THEN [items |-> [its EXCEPT ![idx] =
                         [kv EXCEPT !.objname = k, !.deleted = FALSE]],
            cnt |-> n, idx |-> idx]
      ELSE [items |-> its, cnt |-> n, idx |-> -1]

\* The assert at its top, and the exit when the loop found no bucket.
InsertAborts(its, n, c, k) == n >= c \/ InsertDist(its, c, k) = c

\* MUTANT: room is tested after the element is counted.
Appended_NoRoom(kv, p) ==
  LET c == IF kv.cnt <= kv.capa THEN kv.capa ELSE 2 * kv.capa
  IN  [kv EXCEPT
         !.capa = c,
         !.pageno = [j \in 1 .. c |-> IF j = kv.cnt + 1 THEN p
                                      ELSE IF j <= kv.capa THEN kv.pageno[j]
                                      ELSE NoPage],
         !.cnt = kv.cnt + 1]

\* KV_append: the pageno array doubles when it is full.
Appended(kv, p) ==
  LET c == IF kv.cnt < kv.capa THEN kv.capa
           ELSE IF kv.capa = 0 THEN 1 ELSE 2 * kv.capa
  IN  [kv EXCEPT
         !.capa = c,
         !.pageno = [j \in 1 .. c |-> IF j = kv.cnt + 1 THEN p
                                      ELSE IF j <= kv.capa THEN kv.pageno[j]
                                      ELSE NoPage],
         !.cnt = kv.cnt + 1]

\* MUTANTS: what hashmap_delete forgets to clear, or clears too much.
Tombstone_KeepsName(kv) ==
  [kv EXCEPT !.deleted = TRUE, !.capa = 0, !.cnt = 0, !.pageno = << >>]

Tombstone_Frees(kv) ==
  [kv EXCEPT !.occupied = FALSE, !.capa = 0, !.cnt = 0, !.objname = NoKey,
             !.pageno = << >>]

Tombstone_KeepsPages(kv) == [kv EXCEPT !.deleted = TRUE, !.objname = NoKey]

\* What hashmap_delete makes of a bucket: the `occupied' bit stays, so that
\* chains through it go on; the name and the pages are gone.
Tombstone(kv) ==
  [kv EXCEPT !.deleted = TRUE, !.capa = 0, !.cnt = 0,
             !.objname = NoKey, !.pageno = << >>]

-----------------------------------------------------------------------------
Init ==
  /\ capa = 0 /\ cnt = 0 /\ items = Fresh(0)
  /\ phase = "idle" /\ temp = Fresh(0) /\ old_capa = 0 /\ pos = 0
  /\ pending = NoKey
  /\ ret = [op |-> "none", key |-> NoKey, idx |-> -1]
  /\ abort = FALSE

Returns(op, k, idx) == ret' = [op |-> op, key |-> k, idx |-> idx]

\* Between two calls on a map that hashmap_init has set up.
Ready == ~abort /\ phase = "idle" /\ capa > 0

NoRehash == UNCHANGED <<phase, temp, old_capa, pos, pending>>

hashmap_init(bucket) ==
  /\ ~abort /\ phase = "idle" /\ capa = 0
  /\ bucket <= MaxCapa
  /\ items' = Fresh(bucket)
  /\ capa' = bucket
  /\ NoRehash
  /\ UNCHANGED <<cnt, ret, abort>>

\* The call hashmap_insert(map, k), its result returned by hashmap_append.
CallInsert(k) ==
  IF InsertAborts(items, cnt, capa, k)
  THEN /\ abort' = TRUE
       /\ UNCHANGED <<items, cnt, ret>>
  ELSE LET new == hashmap_insert(items, cnt, capa, k)
       IN  /\ items' = new.items
           /\ cnt' = new.cnt
           /\ Returns("append", k, new.idx)
           /\ UNCHANGED abort

\* MUTANT: the count of the old buckets is kept.
ExtendBegin_KeepsCnt(factor, k) ==
  /\ capa * factor <= MaxCapa
  /\ temp' = items
  /\ old_capa' = capa
  /\ items' = Fresh(capa * factor)
  /\ capa' = capa * factor
  /\ pos' = 0
  /\ phase' = "rehash"
  /\ pending' = k
  /\ UNCHANGED <<cnt, ret, abort>>

\* hashmap_extend up to its loop: the old buckets move to temp.
ExtendBegin(factor, k) ==
  /\ capa * factor <= MaxCapa
  /\ temp' = items
  /\ old_capa' = capa
  /\ items' = Fresh(capa * factor)
  /\ capa' = capa * factor
  /\ cnt' = 0
  /\ pos' = 0
  /\ phase' = "rehash"
  /\ pending' = k
  /\ UNCHANGED <<ret, abort>>

\* MUTANTS: the map grows one key too late; it does not grow at all.
AppendNow_Late(k) ==
  /\ Ready /\ cnt <= capa
  /\ CallInsert(k)
  /\ NoRehash
  /\ UNCHANGED capa

AppendGrow_SameSize(k) ==
  /\ Ready /\ cnt >= capa
  /\ ExtendBegin(1, k)

\* hashmap_append on a map with room, and on a full one, which grows first.
AppendNow(k) ==
  /\ Ready /\ cnt < capa
  /\ CallInsert(k)
  /\ NoRehash
  /\ UNCHANGED capa

AppendGrow(k) ==
  /\ Ready /\ cnt >= capa
  /\ ExtendBegin(2, k)

hashmap_extend(factor) ==
  /\ Ready
  /\ ExtendBegin(factor, NoKey)

\* MUTANT: `continue' before the increment.
ExtendSkip_Stays ==
  /\ ~abort /\ phase = "rehash" /\ pos < old_capa
  /\ temp[pos].deleted \/ temp[pos].objname = NoKey
  /\ UNCHANGED vars

\* An iteration of the loop: bucket `pos' is skipped, or inserted in the new
\* array, found there, and given its pages.
ExtendSkip ==
  /\ ~abort /\ phase = "rehash" /\ pos < old_capa
  /\ temp[pos].deleted \/ temp[pos].objname = NoKey
  /\ pos' = pos + 1
  /\ UNCHANGED <<capa, cnt, items, phase, temp, old_capa, pending, ret, abort>>

ExtendMove ==
  /\ ~abort /\ phase = "rehash" /\ pos < old_capa
  /\ ~temp[pos].deleted /\ temp[pos].objname # NoKey
  /\ IF InsertAborts(items, cnt, capa, temp[pos].objname)
     THEN abort' = TRUE /\ UNCHANGED <<items, cnt, pos>>
     ELSE LET old == temp[pos]
              new == hashmap_insert(items, cnt, capa, old.objname)
              idx == hashmap_find(new.items, capa, old.objname)
          IN  /\ items' = [new.items EXCEPT ![idx] =
                             [@ EXCEPT !.capa = old.capa, !.cnt = old.cnt,
                                       !.pageno = old.pageno]]
              /\ cnt' = new.cnt
              /\ pos' = pos + 1
              /\ UNCHANGED abort
  /\ UNCHANGED <<capa, phase, temp, old_capa, pending, ret>>

\* The loop is over: hashmap_extend returns, and hashmap_append, if it was
\* the caller, inserts its key.
ExtendEnd ==
  /\ ~abort /\ phase = "rehash" /\ pos >= old_capa
  /\ phase' = "idle" /\ temp' = Fresh(0) /\ old_capa' = 0 /\ pos' = 0
  /\ pending' = NoKey
  /\ IF pending = NoKey
     THEN Returns("extend", NoKey, -1) /\ UNCHANGED <<items, cnt, abort>>
     ELSE CallInsert(pending)
  /\ UNCHANGED capa

Find(k) ==
  /\ Ready
  /\ Returns("find", k, hashmap_find(items, capa, k))
  /\ NoRehash
  /\ UNCHANGED <<capa, cnt, items, abort>>

\* KV_append(map->items[idx], p) with the idx hashmap_find returned for k.
KV_append(k, p) ==
  /\ Ready
  /\ LET idx == hashmap_find(items, capa, k)
     IN  /\ idx # -1
         /\ items[idx].cnt < MaxPages
         /\ items' = [items EXCEPT ![idx] = Appended(@, p)]
         /\ Returns("pages", k, idx)
  /\ NoRehash
  /\ UNCHANGED <<capa, cnt, abort>>

\* MUTANT: the key's home bucket is cleared, without probing.
hashmap_delete_Home(k) ==
  /\ Ready
  /\ items' = [items EXCEPT ![Home(k, capa)] =
                 IF @.occupied THEN Tombstone(@) ELSE @]
  /\ Returns("delete", k, Home(k, capa))
  /\ NoRehash
  /\ UNCHANGED <<capa, cnt, abort>>

\* map->cnt is not touched: a tombstone still counts.
hashmap_delete(k) ==
  /\ Ready
  /\ LET idx == hashmap_find(items, capa, k)
     IN  /\ items' = IF idx < 0 THEN items
                     ELSE [items EXCEPT ![idx] = Tombstone(@)]
         /\ Returns("delete", k, idx)
  /\ NoRehash
  /\ UNCHANGED <<capa, cnt, abort>>

hashmap_free ==
  /\ Ready
  /\ capa' = 0 /\ cnt' = 0 /\ items' = Fresh(0)
  /\ Returns("free", NoKey, -1)
  /\ NoRehash
  /\ UNCHANGED abort

Calls ==
  \/ \E b \in Buckets : hashmap_init(b)
  \/ \E k \in Keys : AppendNow(k) \/ AppendGrow(k) \/ Find(k) \/ hashmap_delete(k)
  \/ \E k \in Keys, p \in Pages : KV_append(k, p)
  \/ \E f \in Factors : hashmap_extend(f)
  \/ hashmap_free

Rehash == ExtendSkip \/ ExtendMove \/ ExtendEnd

Next == Calls \/ Rehash

Spec == Init /\ [][Next]_vars

\* A call that has started runs on: nothing in hashmap_extend waits.
FairSpec == Spec /\ WF_vars(Rehash)
-----------------------------------------------------------------------------
(* What the map is supposed to guarantee.                                  *)

\* A bucket that holds a key.
Live(kv) == kv.occupied /\ ~kv.deleted

\* Types, and the two facts a KV's own counters must respect: pageno has
\* exactly capa elements, and cnt never runs past them (KV_append writes at
\* index cnt).
KVOK(kv) == /\ kv \in KVs
            /\ Len(kv.pageno) = kv.capa
            /\ kv.cnt <= kv.capa

TypeOK ==
  /\ capa \in Nat /\ cnt \in Nat
  /\ items \in [0 .. capa - 1 -> KVs]
  /\ \A s \in 0 .. capa - 1 : KVOK(items[s])
  /\ phase \in {"idle", "rehash"}
  /\ old_capa \in Nat /\ pos \in 0 .. old_capa
  /\ temp \in [0 .. old_capa - 1 -> KVs]
  /\ \A s \in 0 .. old_capa - 1 : KVOK(temp[s])
  /\ pending \in Keys \cup {NoKey}
  /\ ret \in [op : {"none", "append", "find", "pages", "delete", "extend", "free"},
              key : Keys \cup {NoKey}, idx : Int]
  /\ abort \in BOOLEAN

Flags(its, c) ==
  \A s \in 0 .. c - 1 :
    /\ Live(its[s]) <=> its[s].objname # NoKey
    /\ its[s].deleted => its[s].occupied

Unique(its, c) ==
  \A s, t \in 0 .. c - 1 :
    its[s].objname = its[t].objname /\ its[s].objname # NoKey => s = t

\* The distance the probe for k travels from its home bucket to bucket s.
DistTo(k, s, c) == IF s >= Home(k, c) THEN s - Home(k, c) ELSE s - Home(k, c) + c

Chains(its, c) ==
  \A s \in 0 .. c - 1 :
    its[s].objname # NoKey =>
      \A d \in 0 .. DistTo(its[s].objname, s, c) - 1 :
        its[Slot(its[s].objname, d, c)].occupied

\* A named bucket is one that holds a key, and a tombstone is a bucket that
\* was used: the three flags of a KV (objname, occupied, deleted) agree.
FlagsAgree == Flags(items, capa)

\* No name is in two buckets, whatever was deleted and inserted again in
\* between: hashmap_insert may put a key in a tombstone only when the key is
\* not further along its chain.
NoDuplicates == Unique(items, capa)

\* Every bucket the probe for a stored key passes on its way to the key's
\* bucket is occupied, so the probe does not end early.
ChainsUnbroken == Chains(items, capa)

\* hashmap_find returns the bucket of a stored key, and -1 for any other key:
\* no deletion, reuse of a tombstone or rehash makes a key unreachable.
FindIsExact ==
  capa > 0 =>
    \A k \in Keys :
      LET idx == hashmap_find(items, capa, k)
      IN  /\ idx # -1 => items[idx].objname = k
          /\ (\E s \in 0 .. capa - 1 : items[s].objname = k) => idx # -1

Occupied(its, c) == {s \in 0 .. c - 1 : its[s].occupied}

\* map->cnt is the number of buckets that are not free any more, tombstones
\* included: what hashmap_append compares with capa to decide to grow.
CntIsOccupied == cnt = Cardinality(Occupied(items, capa))

\* Right after hashmap_extend the count is the number of keys stored, as the
\* comment on HashMap.cnt says (hashmap.h:51-53).
ExtendCountsKeys ==
  ret.op = "extend" /\ phase = "idle" =>
    cnt = Cardinality({s \in 0 .. capa - 1 : Live(items[s])})

\* The assert in hashmap_insert and the "Hash map overflow" exit are never
\* reached: hashmap_append and hashmap_extend always leave a free bucket for
\* the key they insert.
NeverAborts == ~abort

\* The index a call returned is the bucket of the key it was called with;
\* main.c writes to items[idx] straight away.
ReturnedIndex ==
  phase = "idle" /\ ret.op \in {"append", "find", "pages"} /\ ret.idx # -1 =>
    ret.idx \in 0 .. capa - 1 /\ items[ret.idx].objname = ret.key

\* An index stays good until the key is deleted or the map is rehashed: no
\* other call moves a key to another bucket.
KeysStay ==
  phase = "idle" /\ phase' = "idle" /\ ret'.op # "free" =>
    \A s \in 0 .. capa - 1 :
      items[s].objname # NoKey =>
        \/ items'[s].objname = items[s].objname
        \/ ret'.op = "delete" /\ ret'.key = items[s].objname

IndexStable == [][KeysStay]_vars

\* What holds in the middle of hashmap_extend: the new array has room for
\* what is still to come, holds only names of buckets already passed, and no
\* tombstone, so a name is found to be new when its turn comes.
RehashProgress ==
  phase = "rehash" =>
    /\ 0 < old_capa /\ old_capa <= capa
    /\ pending # NoKey => capa = 2 * old_capa
    /\ cnt <= pos
    /\ Flags(temp, old_capa) /\ Unique(temp, old_capa)
    /\ \A s \in 0 .. capa - 1 :
         /\ ~items[s].deleted
         /\ items[s].objname # NoKey =>
              \E t \in 0 .. pos - 1 : temp[t].objname = items[s].objname

\* Between calls nothing of a rehash is left over, and an array that has just
\* been rehashed has no tombstone.
RehashOver ==
  /\ phase = "idle" => old_capa = 0 /\ pos = 0 /\ pending = NoKey
  /\ phase = "idle" /\ ret.op = "extend" =>
       capa > 0 /\ \A s \in 0 .. capa - 1 : ~items[s].deleted

\* The contents of the map, looked up the way a caller would: in the buckets
\* and, during a rehash, in the old buckets not moved yet.
Pagenos(kv) == SubSeq(kv.pageno, 1, kv.cnt)

Contents ==
  [k \in Keys |->
     IF \E s \in 0 .. capa - 1 : items[s].objname = k
     THEN Pagenos(items[CHOOSE s \in 0 .. capa - 1 : items[s].objname = k])
     ELSE IF \E s \in pos .. old_capa - 1 : temp[s].objname = k
     THEN Pagenos(temp[CHOOSE s \in pos .. old_capa - 1 : temp[s].objname = k])
     ELSE Absent]

\* The map implements the dictionary: a rehash is invisible, and every call
\* changes the contents and answers as the abstract call does.
Dict == INSTANCE Dictionary
          WITH dict <- Contents,
               res <- [op |-> ret.op, key |-> ret.key, ok |-> ret.idx # -1]

ImplementsDictionary == Dict!DSpec

\* An append that has to grow the map first does get its turn: in the end it
\* returns, and its key is in the map.
AppendCompletes ==
  \A k \in Keys :
    pending = k ~> /\ phase = "idle" /\ ret.op = "append" /\ ret.key = k
                   /\ \E s \in 0 .. capa - 1 : items[s].objname = k
=============================================================================
