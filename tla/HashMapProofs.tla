--------------------------- MODULE HashMapProofs ---------------------------
(***************************************************************************)
(* Theorems about HashMap, for any set of names, any hash function and any *)
(* number of buckets; in the end, that it implements the dictionary:       *)
(* whatever the keys, their hash values and the sizes, a call answers as   *)
(* the dictionary does and changes what is stored as the dictionary does,  *)
(* and a rehash is not seen.                                               *)
(***************************************************************************)
EXTENDS HashMap, TLAPS, FiniteSetTheorems, WellFoundedInduction, SequenceTheorems

-----------------------------------------------------------------------------
(* Arithmetic of a probe.                                                  *)

\* A set of probe distances has a least one: what the CHOOSE of a probe rests
\* on.
LEMMA LeastElement ==
  ASSUME NEW S \in SUBSET Nat, S # {}
  PROVE  \E m \in S : \A n \in S : m <= n
<1>1. PICK m \in S : \A n \in S : ~(<<n, m>> \in OpToRel(<, Nat))
  BY NatLessThanWellFounded, WFMin
<1>2. ASSUME NEW n \in S, n < m
      PROVE  <<n, m>> \in OpToRel(<, Nat)
  <2>1. <<n, m>> \in Nat \X Nat
    OBVIOUS
  <2>2. <<n, m>>[1] < <<n, m>>[2]
    BY <1>2
  <2> QED BY <2>1, <2>2, Zenon DEF OpToRel
<1>3. \A n \in S : m <= n
  <2> SUFFICES ASSUME NEW n \in S, ~(m <= n) PROVE FALSE
    OBVIOUS
  <2>1. m \in Nat /\ n \in Nat
    OBVIOUS
  <2>2. n < m
    BY <2>1
  <2> QED BY <1>1, <1>2, <2>2
<1> QED BY <1>3

\* hash(key) % capa is a bucket.
LEMMA HomeRange ==
  ASSUME NEW k \in Keys, NEW c \in Nat \ {0}
  PROVE  Home(k, c) \in 0 .. c - 1
BY HashAssumption DEF Home

\* So is every bucket the probe visits; after c rounds it is home again.
LEMMA SlotRange ==
  ASSUME NEW k \in Keys, NEW c \in Nat \ {0}, NEW d \in 0 .. c
  PROVE  Slot(k, d, c) \in 0 .. c - 1
BY HomeRange DEF Slot

\* DistTo inverts Slot: a probe visits every bucket once in c rounds.
LEMMA SlotOfDist ==
  ASSUME NEW k \in Keys, NEW c \in Nat \ {0}, NEW s \in 0 .. c - 1
  PROVE  DistTo(k, s, c) \in 0 .. c - 1 /\ Slot(k, DistTo(k, s, c), c) = s
BY HomeRange DEF Slot, DistTo

\* DistTo inverts Slot.
LEMMA DistOfSlot ==
  ASSUME NEW k \in Keys, NEW c \in Nat \ {0}, NEW d \in 0 .. c - 1
  PROVE  DistTo(k, Slot(k, d, c), c) = d
BY HomeRange DEF Slot, DistTo

-----------------------------------------------------------------------------
(* Where the loops of hashmap_find and hashmap_insert stop.                *)

\* hashmap_find's probe ends at the first bucket where it may.
LEMMA FindDistSpec ==
  ASSUME NEW its, NEW c \in Nat \ {0}, NEW k \in Keys
  PROVE  /\ FindDist(its, c, k) \in 0 .. c
         /\ FindDist(its, c, k) < c => FindStops(its, c, k, FindDist(its, c, k))
         /\ \A e \in 0 .. (FindDist(its, c, k) - 1) : ~FindStops(its, c, k, e)
<1> DEFINE S == {d \in 0 .. c : d < c => FindStops(its, c, k, d)}
<1>1. S \in SUBSET Nat /\ c \in S
  OBVIOUS
<1>2. PICK m \in S : \A n \in S : m <= n
  <2> HIDE DEF S
  <2> QED BY <1>1, LeastElement
<1>3. \A e \in 0 .. (m - 1) : ~FindStops(its, c, k, e)
  BY <1>2
<1>4. \E d \in 0 .. c : /\ d < c => FindStops(its, c, k, d)
                        /\ \A e \in 0 .. (d - 1) : ~FindStops(its, c, k, e)
  BY <1>3
<1> QED BY <1>4 DEF FindDist

\* hashmap_insert's probe ends at the first bucket where it may.
LEMMA InsertDistSpec ==
  ASSUME NEW its, NEW c \in Nat \ {0}, NEW k \in Keys
  PROVE  /\ InsertDist(its, c, k) \in 0 .. c
         /\ InsertDist(its, c, k) < c => InsertStops(its, c, k, InsertDist(its, c, k))
         /\ \A e \in 0 .. (InsertDist(its, c, k) - 1) : ~InsertStops(its, c, k, e)
<1> DEFINE S == {d \in 0 .. c : d < c => InsertStops(its, c, k, d)}
<1>1. S \in SUBSET Nat /\ c \in S
  OBVIOUS
<1>2. PICK m \in S : \A n \in S : m <= n
  <2> HIDE DEF S
  <2> QED BY <1>1, LeastElement
<1>3. \A e \in 0 .. (m - 1) : ~InsertStops(its, c, k, e)
  BY <1>2
<1>4. \E d \in 0 .. c : /\ d < c => InsertStops(its, c, k, d)
                        /\ \A e \in 0 .. (d - 1) : ~InsertStops(its, c, k, e)
  BY <1>3
<1> QED BY <1>4 DEF InsertDist

-----------------------------------------------------------------------------
(* A bucket array on which probing works.                                  *)

Sound(its, c) ==
  /\ its \in [0 .. c - 1 -> KVs]
  /\ Flags(its, c) /\ Unique(its, c) /\ Chains(its, c)

\* A stored key is found where it is.
LEMMA FindPresent ==
  ASSUME NEW c \in Nat \ {0}, NEW its, Sound(its, c), NEW k \in Keys,
         NEW s \in 0 .. c - 1, its[s].objname = k
  PROVE  hashmap_find(its, c, k) = s
<1> DEFINE d == FindDist(its, c, k)
           t == DistTo(k, s, c)
<1>1. /\ d \in 0 .. c
      /\ d < c => FindStops(its, c, k, d)
      /\ \A e \in 0 .. (d - 1) : ~FindStops(its, c, k, e)
  BY FindDistSpec
<1>2. t \in 0 .. c - 1 /\ Slot(k, t, c) = s
  BY SlotOfDist
<1>3. its[s].occupied /\ k # NoKey
  BY NamesAssumption DEF Sound, Flags, Live
<1>4. \A e \in 0 .. t - 1 : ~FindStops(its, c, k, e)
  <2> SUFFICES ASSUME NEW e \in 0 .. t - 1 PROVE ~FindStops(its, c, k, e)
    OBVIOUS
  <2>1. its[Slot(k, e, c)].occupied
    BY <1>3 DEF Sound, Chains
  <2>2. e \in 0 .. c - 1 /\ e # t
    BY <1>2
  <2>3. Slot(k, e, c) \in 0 .. c - 1 /\ Slot(k, e, c) # s
    BY <2>2, <1>2, SlotRange, DistOfSlot
  <2>4. its[Slot(k, e, c)].objname # k
    BY <2>3, <1>3 DEF Sound, Unique
  <2> QED BY <2>1, <2>4 DEF FindStops
<1>5. FindStops(its, c, k, t)
  BY <1>2 DEF FindStops
<1>6. d = t
  <2> HIDE DEF d, t
  <2> QED BY <1>1, <1>2, <1>4, <1>5
<1>7. Slot(k, d, c) = s
  BY <1>2, <1>6
<1> QED BY <1>7, <1>3 DEF hashmap_find

\* A key that is not stored is not found.
LEMMA FindAbsent ==
  ASSUME NEW c \in Nat \ {0}, NEW its, NEW k \in Keys,
         \A s \in 0 .. c - 1 : its[s].objname # k
  PROVE  hashmap_find(its, c, k) = -1
<1>1. Slot(k, FindDist(its, c, k), c) \in 0 .. c - 1
  BY FindDistSpec, SlotRange
<1> QED BY <1>1 DEF hashmap_find

\* hashmap_find answers exactly.
LEMMA FindCases ==
  ASSUME NEW c \in Nat \ {0}, NEW its, Sound(its, c), NEW k \in Keys
  PROVE  LET idx == hashmap_find(its, c, k)
         IN  \/ /\ idx = -1
                /\ \A s \in 0 .. c - 1 : its[s].objname # k
             \/ /\ idx \in 0 .. c - 1
                /\ its[idx].objname = k
<1>1. CASE \E s \in 0 .. c - 1 : its[s].objname = k
  BY <1>1, FindPresent
<1>2. CASE \A s \in 0 .. c - 1 : its[s].objname # k
  BY <1>2, FindAbsent
<1> QED BY <1>1, <1>2

-----------------------------------------------------------------------------
(* hashmap_insert on such an array.                                        *)

\* A bucket array has finitely many occupied buckets.
LEMMA OccupiedFinite ==
  ASSUME NEW c \in Nat, NEW its
  PROVE  IsFiniteSet(Occupied(its, c)) /\ Cardinality(Occupied(its, c)) \in Nat
<1>1. IsFiniteSet(0 .. c - 1)
  BY FS_Interval
<1>2. IsFiniteSet(Occupied(its, c))
  BY <1>1, FS_Subset DEF Occupied
<1> QED BY <1>2, FS_CardinalityType

\* While some bucket is free, the loop stops before it has gone round.
LEMMA InsertStopsEarly ==
  ASSUME NEW c \in Nat \ {0}, NEW its, NEW k \in Keys,
         Cardinality(Occupied(its, c)) < c
  PROVE  InsertDist(its, c, k) \in 0 .. c - 1
<1>1. PICK s \in 0 .. c - 1 : ~its[s].occupied
  <2>1. Cardinality(0 .. c - 1) = c
    BY FS_Interval
  <2>2. Occupied(its, c) # 0 .. c - 1
    BY <2>1, OccupiedFinite
  <2> QED BY <2>2 DEF Occupied
<1>2. DistTo(k, s, c) \in 0 .. c - 1 /\ Slot(k, DistTo(k, s, c), c) = s
  BY SlotOfDist
<1>3. InsertStops(its, c, k, DistTo(k, s, c))
  BY <1>1, <1>2 DEF InsertStops, FindStops
<1> QED BY <1>2, <1>3, InsertDistSpec

\* What the loop of hashmap_insert has seen when it stops for a new key.
LEMMA InsertStopsAt ==
  ASSUME NEW c \in Nat \ {0}, NEW its, Sound(its, c), NEW k \in Keys,
         Cardinality(Occupied(its, c)) < c
  PROVE  LET idx == Slot(k, InsertDist(its, c, k), c)
         IN  /\ idx \in 0 .. c - 1
             /\ DistTo(k, idx, c) = InsertDist(its, c, k)
             /\ \/ ~its[idx].occupied
                \/ its[idx].objname = k
                \/ its[idx].deleted
             /\ \A e \in 0 .. DistTo(k, idx, c) - 1 :
                  its[Slot(k, e, c)].occupied /\ its[Slot(k, e, c)].objname # k
<1> DEFINE d == InsertDist(its, c, k)
<1>1. d \in 0 .. c - 1
  BY InsertStopsEarly
<1>2. Slot(k, d, c) \in 0 .. c - 1 /\ DistTo(k, Slot(k, d, c), c) = d
  BY <1>1, SlotRange, DistOfSlot
<1>3. InsertStops(its, c, k, d) /\ \A e \in 0 .. d - 1 : ~InsertStops(its, c, k, e)
  BY <1>1, InsertDistSpec
<1> HIDE DEF d
<1> QED BY <1>1, <1>2, <1>3 DEF InsertStops, FindStops, d

\* If the first stop is a bucket never used, the key is nowhere in the array.
LEMMA FreeStopMeansAbsent ==
  ASSUME NEW c \in Nat \ {0}, NEW its, Sound(its, c), NEW k \in Keys,
         NEW idx \in 0 .. c - 1, ~its[idx].occupied,
         \A e \in 0 .. DistTo(k, idx, c) - 1 :
            its[Slot(k, e, c)].occupied /\ its[Slot(k, e, c)].objname # k
  PROVE  \A s \in 0 .. c - 1 : its[s].objname # k
<1> SUFFICES ASSUME NEW s \in 0 .. c - 1, its[s].objname = k
             PROVE  FALSE
  OBVIOUS
<1>1. its[s].occupied /\ k # NoKey
  BY NamesAssumption DEF Sound, Flags, Live
<1>2. /\ DistTo(k, s, c) \in 0 .. c - 1 /\ Slot(k, DistTo(k, s, c), c) = s
      /\ DistTo(k, idx, c) \in 0 .. c - 1 /\ Slot(k, DistTo(k, idx, c), c) = idx
  BY SlotOfDist
<1>3. CASE DistTo(k, s, c) < DistTo(k, idx, c)
  BY <1>2, <1>3
<1>4. CASE DistTo(k, s, c) = DistTo(k, idx, c)
  BY <1>1, <1>2, <1>4
<1>5. CASE DistTo(k, s, c) > DistTo(k, idx, c)
  <2>1. DistTo(k, idx, c) \in 0 .. DistTo(k, s, c) - 1
    BY <1>2, <1>5
  <2> QED BY <2>1, <1>1, <1>2 DEF Sound, Chains
<1> QED BY <1>2, <1>3, <1>4, <1>5

\* Writing a new key where the loop stopped keeps the array sound.
LEMMA PlaceKeepsSound ==
  ASSUME NEW c \in Nat \ {0}, NEW its, Sound(its, c), NEW k \in Keys,
         \A s \in 0 .. c - 1 : its[s].objname # k,
         NEW idx \in 0 .. c - 1, its[idx].objname = NoKey,
         \A e \in 0 .. DistTo(k, idx, c) - 1 : its[Slot(k, e, c)].occupied,
         NEW new \in [0 .. c - 1 -> KVs],
         Live(new[idx]), new[idx].objname = k,
         \A s \in (0 .. c - 1) \ {idx} : new[s] = its[s]
  PROVE  Sound(new, c)
<1> USE DEF Sound
<1>1. \A s \in 0 .. c - 1 : its[s].occupied => new[s].occupied
  BY DEF Live
<1>2. Flags(new, c)
  BY NamesAssumption DEF Flags, Live
<1>3. Unique(new, c)
  BY DEF Unique
<1>4. Chains(new, c)
  <2> SUFFICES ASSUME NEW s \in 0 .. c - 1, new[s].objname # NoKey,
                      NEW d \in 0 .. DistTo(new[s].objname, s, c) - 1
               PROVE  new[Slot(new[s].objname, d, c)].occupied
    BY DEF Chains
  <2>1. new[s].objname \in Keys
    BY DEF KVs
  <2>2. d \in 0 .. c /\ Slot(new[s].objname, d, c) \in 0 .. c - 1
    <3>1. DistTo(new[s].objname, s, c) \in 0 .. c - 1
      BY <2>1, SlotOfDist
    <3>2. d \in 0 .. c
      BY <3>1
    <3> QED BY <2>1, <3>2, SlotRange
  <2>3. its[Slot(new[s].objname, d, c)].occupied
    BY DEF Chains
  <2> QED BY <1>1, <2>2, <2>3
<1> QED BY <1>2, <1>3, <1>4

\* The effect of hashmap_insert(its, n, c, k) on a sound array with room, as
\* callers see it: the array stays sound and its count right; a key already
\* there is refused and nothing changes; a new key gets a bucket that had no
\* name, and the other buckets and that bucket's pages are left alone.
Inserted(its, n, c, k, new) ==
  /\ Sound(new.items, c)
  /\ new.cnt = Cardinality(Occupied(new.items, c))
  /\ new.cnt \in Nat /\ new.cnt <= n + 1
  /\ \/ /\ \E s \in 0 .. c - 1 : its[s].objname = k
        /\ new = [items |-> its, cnt |-> n, idx |-> -1]
     \/ /\ \A s \in 0 .. c - 1 : its[s].objname # k
        /\ new.idx \in 0 .. c - 1
        /\ its[new.idx].objname = NoKey
        /\ new.items = [its EXCEPT ![new.idx] =
                          [@ EXCEPT !.objname = k, !.occupied = TRUE,
                                    !.deleted = FALSE]]

\* hashmap_insert on a sound array with a free bucket keeps it sound, counts
\* the bucket it takes, and returns the key's bucket or -1.
LEMMA InsertEffect ==
  ASSUME NEW c \in Nat \ {0}, NEW its, Sound(its, c), NEW k \in Keys,
         NEW n, n = Cardinality(Occupied(its, c)), n < c
  PROVE  /\ ~InsertAborts(its, n, c, k)
         /\ Inserted(its, n, c, k, hashmap_insert(its, n, c, k))
<1> DEFINE idx == Slot(k, InsertDist(its, c, k), c)
           new == hashmap_insert(its, n, c, k)
           placed == [its[idx] EXCEPT !.objname = k, !.occupied = TRUE,
                                      !.deleted = FALSE]
           after == [its EXCEPT ![idx] = placed]
<1>1. n \in Nat
  BY OccupiedFinite
<1>2. ~InsertAborts(its, n, c, k)
  <2>1. InsertDist(its, c, k) \in 0 .. c - 1
    BY InsertStopsEarly
  <2> QED BY <1>1, <2>1 DEF InsertAborts
<1>3. /\ idx \in 0 .. c - 1
      /\ DistTo(k, idx, c) = InsertDist(its, c, k)
      /\ \/ ~its[idx].occupied
         \/ its[idx].objname = k
         \/ its[idx].deleted
      /\ \A e \in 0 .. DistTo(k, idx, c) - 1 :
           its[Slot(k, e, c)].occupied /\ its[Slot(k, e, c)].objname # k
  BY InsertStopsAt
<1>4. its[idx] \in KVs /\ placed \in KVs
  <2>1. its[idx] \in KVs
    BY <1>3 DEF Sound
  <2> HIDE DEF idx
  <2> QED BY <2>1 DEF KVs
<1>5. /\ placed.objname = k /\ placed.occupied = TRUE /\ placed.deleted = FALSE
  <2> HIDE DEF idx
  <2> QED BY <1>4 DEF KVs
<1>6. after \in [0 .. c - 1 -> KVs]
  BY <1>3, <1>4 DEF Sound
<1>7. CASE \E s \in 0 .. c - 1 : its[s].objname = k
  <2>1. PICK s \in 0 .. c - 1 : its[s].objname = k
    BY <1>7
  <2>2. its[idx].occupied
    BY <1>3, <1>7, FreeStopMeansAbsent
  <2>3. hashmap_find(its, c, k) # -1
    BY <2>1, FindPresent
  <2>4. new = [items |-> its, cnt |-> n, idx |-> -1]
    BY <2>2, <2>3 DEF hashmap_insert
  <2> HIDE DEF new
  <2> QED BY <1>1, <1>2, <1>7, <2>4 DEF new, Inserted
<1>8. CASE \A s \in 0 .. c - 1 : its[s].objname # k
  <2>1. its[idx].objname = NoKey
    BY <1>3, <1>8 DEF Sound, Flags, Live
  <2>2. Sound(after, c)
    <3> HIDE DEF idx, placed
    <3>1. /\ Live(after[idx]) /\ after[idx].objname = k
          /\ \A s \in (0 .. c - 1) \ {idx} : after[s] = its[s]
      BY <1>3, <1>5 DEF Live, Sound
    <3> HIDE DEF after
    <3> QED BY <1>3, <1>6, <1>8, <2>1, <3>1, PlaceKeepsSound
  <2>3. IsFiniteSet(Occupied(its, c))
    BY OccupiedFinite
  <2>4. Occupied(after, c) = Occupied(its, c) \cup {idx}
    <3> HIDE DEF idx, placed
    <3> QED BY <1>3, <1>5 DEF Occupied, Sound
  <2>5. CASE ~its[idx].occupied
    <3>1. placed = [its[idx] EXCEPT !.objname = k, !.occupied = TRUE]
      <4> HIDE DEF idx
      <4>1. its[idx].deleted = FALSE
        BY <1>3, <1>4, <2>5 DEF Sound, Flags, KVs
      <4> QED BY <1>4, <4>1 DEF KVs
    <3>2. new = [items |-> after, cnt |-> n + 1, idx |-> idx]
      BY <2>5, <3>1 DEF hashmap_insert
    <3>3. Cardinality(Occupied(after, c)) = n + 1
      BY <2>3, <2>4, <2>5, FS_AddElement DEF Occupied
    <3> HIDE DEF new, after, idx, placed
    <3> QED BY <1>1, <1>2, <1>3, <1>8, <2>1, <2>2, <3>2, <3>3 DEF new, after, placed, Inserted
  <2>6. CASE its[idx].occupied
    <3>1. its[idx].deleted
      BY <1>3, <1>8, <2>6
    <3>2. placed = [its[idx] EXCEPT !.objname = k, !.deleted = FALSE]
      <4> HIDE DEF idx
      <4> QED BY <1>4, <2>6 DEF KVs
    <3>3. hashmap_find(its, c, k) = -1
      BY <1>8, FindAbsent
    <3>4. new = [items |-> after, cnt |-> n, idx |-> idx]
      <4>1. its[idx].objname # k
        BY <1>3, <1>8
      <4> QED BY <2>6, <3>1, <3>2, <3>3, <4>1 DEF hashmap_insert
    <3>5. Occupied(after, c) = Occupied(its, c)
      BY <1>3, <2>4, <2>6 DEF Occupied
    <3> HIDE DEF new, after, idx, placed
    <3> QED BY <1>1, <1>2, <1>3, <1>8, <2>1, <2>2, <3>4, <3>5 DEF new, after, placed, Inserted
  <2> QED BY <2>5, <2>6
<1> QED BY <1>7, <1>8

-----------------------------------------------------------------------------
(* Writes that add no name.                                                *)

\* Clearing names, with every bucket as occupied as before, keeps an array
\* sound: deletion breaks no chain.
LEMMA ClearKeepsSound ==
  ASSUME NEW c \in Nat, NEW its, Sound(its, c),
         NEW new \in [0 .. c - 1 -> KVs], Flags(new, c),
         \A s \in 0 .. c - 1 : /\ new[s].occupied = its[s].occupied
                               /\ new[s].objname \in {its[s].objname, NoKey}
  PROVE  Sound(new, c) /\ Occupied(new, c) = Occupied(its, c)
<1>1. Occupied(new, c) = Occupied(its, c)
  BY DEF Occupied
<1>2. Unique(new, c)
  BY DEF Sound, Unique
<1>3. Chains(new, c)
  <2> SUFFICES ASSUME NEW s \in 0 .. c - 1, new[s].objname # NoKey,
                      NEW d \in 0 .. DistTo(new[s].objname, s, c) - 1
               PROVE  new[Slot(new[s].objname, d, c)].occupied
    BY DEF Chains
  <2>1. new[s].objname = its[s].objname /\ new[s].objname \in Keys
    BY DEF KVs
  <2>2. its[Slot(new[s].objname, d, c)].occupied
    BY <2>1 DEF Sound, Chains
  <2>3. DistTo(new[s].objname, s, c) \in 0 .. c - 1
    BY <2>1, SlotOfDist
  <2>4. d \in 0 .. c
    BY <2>3
  <2>5. Slot(new[s].objname, d, c) \in 0 .. c - 1
    BY <2>1, <2>4, SlotRange
  <2> QED BY <2>2, <2>5
<1> QED BY <1>1, <1>2, <1>3 DEF Sound

\* So does writing pages only.
LEMMA PagesKeepSound ==
  ASSUME NEW c \in Nat, NEW its, Sound(its, c),
         NEW new \in [0 .. c - 1 -> KVs],
         \A s \in 0 .. c - 1 : /\ new[s].occupied = its[s].occupied
                               /\ new[s].deleted = its[s].deleted
                               /\ new[s].objname = its[s].objname
  PROVE  Sound(new, c) /\ Occupied(new, c) = Occupied(its, c)
<1>1. Flags(new, c)
  BY DEF Sound, Flags, Live
<1> QED BY <1>1, ClearKeepsSound

\* A fresh array is sound and empty.
LEMMA FreshSound ==
  ASSUME NEW c \in Nat
  PROVE  /\ Sound(Fresh(c), c)
         /\ Cardinality(Occupied(Fresh(c), c)) = 0
         /\ \A s \in 0 .. c - 1 : Fresh(c)[s] = EmptyKV
<1>1. EmptyKV \in KVs
  BY DEF EmptyKV, KVs
<1>2. \A s \in 0 .. c - 1 : Fresh(c)[s] = EmptyKV
  BY DEF Fresh
<1>3. Occupied(Fresh(c), c) = {}
  BY <1>2 DEF Occupied, EmptyKV
<1>4. Fresh(c) \in [0 .. c - 1 -> KVs]
  BY <1>1 DEF Fresh
<1>5. Flags(Fresh(c), c) /\ Unique(Fresh(c), c) /\ Chains(Fresh(c), c)
  BY <1>2 DEF Flags, Unique, Chains, Live, EmptyKV
<1> QED BY <1>2, <1>3, <1>4, <1>5, FS_EmptySet DEF Sound

\* KV_append keeps pageno exactly capa long and cnt within it.
LEMMA AppendedOK ==
  ASSUME NEW kv, KVOK(kv), NEW p \in Pages
  PROVE  /\ KVOK(Appended(kv, p))
         /\ Appended(kv, p).objname = kv.objname
         /\ Appended(kv, p).occupied = kv.occupied
         /\ Appended(kv, p).deleted = kv.deleted
<1> DEFINE c == IF kv.cnt < kv.capa THEN kv.capa
                ELSE IF kv.capa = 0 THEN 1 ELSE 2 * kv.capa
           q == [j \in 1 .. c |-> IF j = kv.cnt + 1 THEN p
                                  ELSE IF j <= kv.capa THEN kv.pageno[j]
                                  ELSE NoPage]
<1>1. kv \in KVs /\ kv.cnt + 1 \in Nat
  BY DEF KVOK, KVs
<1>2. c \in Nat /\ kv.cnt + 1 <= c /\ kv.capa <= c
  BY DEF KVOK, KVs
<1>3. \A j \in 1 .. c : q[j] \in Pages \cup {NoPage}
  BY <1>2 DEF KVOK, KVs
<1>4. q \in Seq(Pages \cup {NoPage}) /\ Len(q) = c
  <2> HIDE DEF c
  <2>1. q \in [1 .. c -> Pages \cup {NoPage}]
    BY <1>3
  <2> HIDE DEF q
  <2> QED BY <2>1, <1>2, SMT
<1>5. Appended(kv, p) = [kv EXCEPT !.capa = c, !.pageno = q, !.cnt = kv.cnt + 1]
  BY DEF Appended
<1> HIDE DEF c, q
<1>6. [kv EXCEPT !.capa = c, !.pageno = q, !.cnt = kv.cnt + 1] \in KVs
  <2> DEFINE n == kv.cnt + 1
  <2>1. n \in Nat
    BY <1>1
  <2> HIDE DEF n
  <2>2. [kv EXCEPT !.capa = c, !.pageno = q, !.cnt = n] \in KVs
    BY <1>1, <1>2, <1>4, <2>1 DEF KVs
  <2> QED BY <2>2 DEF n
<1>7. /\ Appended(kv, p).pageno = q /\ Appended(kv, p).capa = c
      /\ Appended(kv, p).cnt = kv.cnt + 1
      /\ Appended(kv, p).objname = kv.objname
      /\ Appended(kv, p).occupied = kv.occupied
      /\ Appended(kv, p).deleted = kv.deleted
  BY <1>1, <1>5 DEF KVs
<1> QED BY <1>2, <1>4, <1>5, <1>6, <1>7 DEF KVOK

-----------------------------------------------------------------------------
(* The inductive invariant.                                                *)

IInv ==
  /\ TypeOK
  /\ FlagsAgree /\ NoDuplicates /\ ChainsUnbroken
  /\ CntIsOccupied
  /\ NeverAborts
  /\ ReturnedIndex
  /\ RehashProgress
  /\ RehashOver

\* Between calls and during them the bucket array is sound and not overfull.
LEMMA IInvSound ==
  ASSUME IInv
  PROVE  /\ Sound(items, capa)
         /\ cnt <= capa
<1>1. Sound(items, capa)
  BY DEF IInv, TypeOK, KVOK, FlagsAgree, NoDuplicates, ChainsUnbroken, Sound
<1>2. Cardinality(Occupied(items, capa)) <= capa
  <2>1. IsFiniteSet(0 .. capa - 1) /\ Cardinality(0 .. capa - 1) = capa
    BY FS_Interval DEF IInv, TypeOK
  <2> QED BY <2>1, FS_Subset DEF Occupied
<1> QED BY <1>1, <1>2 DEF IInv, CntIsOccupied

\* The call of hashmap_insert that hashmap_append makes.
LEMMA CallInsertEffect ==
  ASSUME IInv, NEW k \in Keys, cnt < capa, CallInsert(k), capa' = capa
  PROVE  /\ UNCHANGED abort
         /\ Sound(items', capa')
         /\ \A s \in 0 .. capa - 1 : KVOK(items'[s])
         /\ cnt' = Cardinality(Occupied(items', capa')) /\ cnt' \in Nat
         /\ ret' = [op |-> "append", key |-> k, idx |-> ret'.idx]
         /\ \/ ret'.idx = -1
            \/ ret'.idx \in 0 .. capa - 1 /\ items'[ret'.idx].objname = k
         /\ \A s \in 0 .. capa - 1 :
              items[s].objname # NoKey => items'[s] = items[s]
<1> DEFINE new == hashmap_insert(items, cnt, capa, k)
<1>1. capa \in Nat \ {0} /\ Sound(items, capa) /\ cnt = Cardinality(Occupied(items, capa))
  BY IInvSound DEF IInv, TypeOK, CntIsOccupied
<1>2. /\ ~InsertAborts(items, cnt, capa, k)
      /\ Inserted(items, cnt, capa, k, new)
  BY <1>1, InsertEffect
<1>3. /\ items' = new.items /\ cnt' = new.cnt /\ UNCHANGED abort
      /\ ret' = [op |-> "append", key |-> k, idx |-> new.idx]
  BY <1>2 DEF CallInsert, Returns
<1> HIDE DEF new
<1>4. /\ \A s \in 0 .. capa - 1 : items[s] \in KVs /\ KVOK(items[s])
      /\ DOMAIN items = 0 .. capa - 1
  BY DEF IInv, TypeOK, KVOK
<1>5. CASE new = [items |-> items, cnt |-> cnt, idx |-> -1]
  BY <1>2, <1>3, <1>4, <1>5 DEF Inserted
<1>6. CASE /\ new.idx \in 0 .. capa - 1
           /\ items[new.idx].objname = NoKey
           /\ new.items = [items EXCEPT ![new.idx] =
                             [@ EXCEPT !.objname = k, !.occupied = TRUE,
                                       !.deleted = FALSE]]
  <2>1. /\ items'[new.idx].objname = k
        /\ items'[new.idx].pageno = items[new.idx].pageno
        /\ items'[new.idx].capa = items[new.idx].capa
        /\ items'[new.idx].cnt = items[new.idx].cnt
        /\ \A s \in 0 .. capa - 1 : s # new.idx => items'[s] = items[s]
    BY <1>3, <1>4, <1>6 DEF KVs
  <2>2. \A s \in 0 .. capa - 1 : items'[s] \in KVs
    BY <1>2, <1>3 DEF Sound, Inserted
  <2>3. \A s \in 0 .. capa - 1 : KVOK(items'[s])
    BY <1>4, <2>1, <2>2 DEF KVOK
  <2> QED BY <1>2, <1>3, <1>6, <2>1, <2>3 DEF Inserted
<1> QED BY <1>2, <1>5, <1>6 DEF Inserted

\* The map starts empty and uninitialised, which is sound.
LEMMA InitIInv == Init => IInv
<1> SUFFICES ASSUME Init PROVE IInv
  OBVIOUS
<1>1. capa = 0 /\ cnt = 0 /\ items = Fresh(0) /\ temp = Fresh(0) /\ old_capa = 0
      /\ pos = 0 /\ phase = "idle" /\ pending = NoKey /\ abort = FALSE
      /\ ret = [op |-> "none", key |-> NoKey, idx |-> -1]
  BY DEF Init
<1>2. /\ Sound(Fresh(0), 0) /\ Cardinality(Occupied(Fresh(0), 0)) = 0
  BY FreshSound
<1>3. TypeOK
  <2>1. /\ capa \in Nat /\ cnt \in Nat /\ old_capa \in Nat /\ pos \in 0 .. old_capa
        /\ 0 .. capa - 1 = {} /\ 0 .. old_capa - 1 = {}
    BY <1>1
  <2>2. items \in [0 .. capa - 1 -> KVs] /\ temp \in [0 .. old_capa - 1 -> KVs]
    BY <1>1, <1>2 DEF Sound
  <2>3. ret \in [op : {"none", "append", "find", "pages", "delete", "extend", "free"},
                 key : Keys \cup {NoKey}, idx : Int]
    BY <1>1
  <2> QED BY <1>1, <2>1, <2>2, <2>3 DEF TypeOK
<1> QED BY <1>1, <1>2, <1>3
        DEF IInv, FlagsAgree, NoDuplicates, ChainsUnbroken, CntIsOccupied,
            NeverAborts, ReturnedIndex, RehashProgress, RehashOver, Sound

\* hashmap_init keeps the invariant.
LEMMA InitStep ==
  ASSUME IInv, NEW b \in Buckets, hashmap_init(b)
  PROVE  IInv'
<1>1. b \in Nat \ {0}
  BY SizesAssumption
<1>2. /\ Sound(Fresh(b), b) /\ Cardinality(Occupied(Fresh(b), b)) = 0
      /\ \A s \in 0 .. b - 1 : Fresh(b)[s] = EmptyKV
  BY <1>1, FreshSound
<1>3. /\ capa = 0 /\ cnt = 0 /\ phase = "idle" /\ ret.op # "extend"
      /\ ret.idx # -1 => ret.op \notin {"append", "find", "pages"}
  <2>1. cnt <= capa /\ capa = 0 /\ phase = "idle"
    BY IInvSound DEF hashmap_init
  <2> QED BY <2>1 DEF IInv, TypeOK, RehashOver, ReturnedIndex
<1>4. /\ capa' = b /\ items' = Fresh(b) /\ cnt' = cnt /\ ret' = ret /\ abort' = abort
      /\ phase' = phase /\ temp' = temp /\ old_capa' = old_capa /\ pos' = pos
      /\ pending' = pending
  BY DEF hashmap_init, NoRehash
<1>5. KVOK(EmptyKV)
  BY DEF KVOK, KVs, EmptyKV
<1>6. TypeOK'
  BY <1>1, <1>2, <1>4, <1>5 DEF IInv, TypeOK, Sound
<1>7. FlagsAgree' /\ NoDuplicates' /\ ChainsUnbroken' /\ CntIsOccupied'
  BY <1>2, <1>3, <1>4 DEF FlagsAgree, NoDuplicates, ChainsUnbroken, CntIsOccupied, Sound
<1>8. NeverAborts' /\ ReturnedIndex' /\ RehashProgress' /\ RehashOver'
  BY <1>3, <1>4 DEF IInv, NeverAborts, ReturnedIndex, RehashProgress, RehashOver
<1> QED BY <1>6, <1>7, <1>8 DEF IInv

\* hashmap_append on a map with room keeps the invariant.
LEMMA AppendNowStep ==
  ASSUME IInv, NEW k \in Keys, AppendNow(k)
  PROVE  IInv'
<1>1. /\ ~abort /\ phase = "idle" /\ capa > 0 /\ cnt < capa
      /\ CallInsert(k) /\ capa' = capa
      /\ phase' = phase /\ temp' = temp /\ old_capa' = old_capa /\ pos' = pos
      /\ pending' = pending
  BY DEF AppendNow, Ready, NoRehash
<1>2. /\ UNCHANGED abort
      /\ Sound(items', capa')
      /\ \A s \in 0 .. capa - 1 : KVOK(items'[s])
      /\ cnt' = Cardinality(Occupied(items', capa')) /\ cnt' \in Nat
      /\ ret' = [op |-> "append", key |-> k, idx |-> ret'.idx]
      /\ \/ ret'.idx = -1
         \/ ret'.idx \in 0 .. capa - 1 /\ items'[ret'.idx].objname = k
  BY <1>1, CallInsertEffect
<1>3. TypeOK'
  <2>1. ret'.idx \in Int
    BY <1>2 DEF IInv, TypeOK
  <2>2. ret' \in [op : {"none", "append", "find", "pages", "delete", "extend", "free"},
                  key : Keys \cup {NoKey}, idx : Int]
    BY <1>2, <2>1
  <2> QED BY <1>1, <1>2, <2>2 DEF IInv, TypeOK, Sound
<1>4. FlagsAgree' /\ NoDuplicates' /\ ChainsUnbroken' /\ CntIsOccupied'
  BY <1>2 DEF FlagsAgree, NoDuplicates, ChainsUnbroken, CntIsOccupied, Sound
<1>5. NeverAborts' /\ ReturnedIndex' /\ RehashProgress' /\ RehashOver'
  BY <1>1, <1>2 DEF IInv, NeverAborts, ReturnedIndex, RehashProgress, RehashOver
<1> QED BY <1>3, <1>4, <1>5 DEF IInv

\* hashmap_extend up to its loop, whoever calls it.
LEMMA ExtendBeginStep ==
  ASSUME IInv, Ready, NEW f \in Nat \ {0}, NEW k \in Keys \cup {NoKey},
         k # NoKey => f = 2, ExtendBegin(f, k)
  PROVE  IInv'
<1>1. /\ ~abort /\ phase = "idle" /\ capa > 0 /\ capa \in Nat
      /\ temp' = items /\ old_capa' = capa /\ capa' = capa * f
      /\ items' = Fresh(capa') /\ cnt' = 0 /\ pos' = 0 /\ phase' = "rehash"
      /\ pending' = k /\ ret' = ret /\ abort' = abort
  BY DEF IInv, TypeOK, Ready, ExtendBegin
<1>2. capa' \in Nat /\ capa' >= capa
  BY <1>1
<1>3. k # NoKey => capa' = 2 * capa
  BY <1>1
<1>4. /\ Sound(items', capa') /\ Cardinality(Occupied(items', capa')) = 0
      /\ \A s \in 0 .. capa' - 1 : items'[s] = EmptyKV
  BY <1>1, <1>2, FreshSound
<1>5. KVOK(EmptyKV)
  BY DEF KVOK, KVs, EmptyKV
<1>6. TypeOK'
  BY <1>1, <1>2, <1>4, <1>5 DEF IInv, TypeOK, Sound
<1>7. FlagsAgree' /\ NoDuplicates' /\ ChainsUnbroken' /\ CntIsOccupied'
  BY <1>1, <1>4 DEF FlagsAgree, NoDuplicates, ChainsUnbroken, CntIsOccupied, Sound
<1>8. RehashProgress'
  BY <1>1, <1>2, <1>3, <1>4
     DEF IInv, RehashProgress, FlagsAgree, NoDuplicates, EmptyKV
<1>9. NeverAborts' /\ ReturnedIndex' /\ RehashOver'
  BY <1>1 DEF NeverAborts, ReturnedIndex, RehashOver
<1> QED BY <1>6, <1>7, <1>8, <1>9 DEF IInv

\* Skipping a bucket during a rehash keeps the invariant.
LEMMA ExtendSkipStep ==
  ASSUME IInv, ExtendSkip
  PROVE  IInv'
<1>1. /\ phase = "rehash" /\ pos < old_capa /\ pos' = pos + 1
      /\ capa' = capa /\ cnt' = cnt /\ items' = items /\ phase' = phase
      /\ temp' = temp /\ old_capa' = old_capa /\ pending' = pending
      /\ ret' = ret /\ abort' = abort
  BY DEF ExtendSkip
<1>2. pos \in Nat /\ old_capa \in Nat /\ cnt \in Nat
  BY DEF IInv, TypeOK
<1>3. TypeOK'
  BY <1>1, <1>2 DEF IInv, TypeOK
<1>4. FlagsAgree' /\ NoDuplicates' /\ ChainsUnbroken' /\ CntIsOccupied'
  BY <1>1 DEF IInv, FlagsAgree, NoDuplicates, ChainsUnbroken, CntIsOccupied
<1>5. RehashProgress'
  <2>1. \A t \in 0 .. pos - 1 : t \in 0 .. pos' - 1
    BY <1>1, <1>2
  <2>2. cnt' <= pos'
    BY <1>1, <1>2 DEF IInv, RehashProgress
  <2> QED BY <1>1, <2>1, <2>2 DEF IInv, RehashProgress
<1>6. NeverAborts' /\ ReturnedIndex' /\ RehashOver'
  BY <1>1 DEF IInv, NeverAborts, ReturnedIndex, RehashOver
<1> QED BY <1>3, <1>4, <1>5, <1>6 DEF IInv

\* The loop moves a key: there is a free bucket, the key is not there yet, and
\* hashmap_find returns the bucket hashmap_insert has just filled.
LEMMA ExtendMoveEffect ==
  ASSUME IInv, ExtendMove
  PROVE  LET old == temp[pos]
             k == old.objname
         IN  /\ pos \in 0 .. old_capa - 1 /\ KVOK(old) /\ k \in Keys
             /\ pos' = pos + 1 /\ UNCHANGED abort
             /\ \A s \in 0 .. capa - 1 : items[s].objname # k
             /\ \E idx \in 0 .. capa - 1 :
                  /\ items[idx].objname = NoKey
                  /\ items' = [items EXCEPT ![idx] =
                                 [@ EXCEPT !.objname = k, !.occupied = TRUE,
                                           !.deleted = FALSE, !.capa = old.capa,
                                           !.cnt = old.cnt, !.pageno = old.pageno]]
             /\ Sound(items', capa)
             /\ cnt' = Cardinality(Occupied(items', capa))
             /\ cnt' \in Nat /\ cnt' <= cnt + 1
<1> DEFINE old == temp[pos]
           k == old.objname
           new == hashmap_insert(items, cnt, capa, k)
           idx == hashmap_find(new.items, capa, k)
<1>1. /\ phase = "rehash" /\ old_capa \in Nat /\ pos \in 0 .. old_capa - 1
      /\ ~old.deleted /\ k # NoKey
  BY DEF ExtendMove, IInv, TypeOK
<1>2. KVOK(old) /\ old \in KVs /\ k \in Keys
  BY <1>1 DEF IInv, TypeOK, KVOK, KVs
<1>3. capa \in Nat \ {0} /\ cnt < capa /\ cnt \in Nat
  BY <1>1 DEF IInv, TypeOK, RehashProgress
<1>4. \A s \in 0 .. capa - 1 : items[s].objname # k
  <2> SUFFICES ASSUME NEW s \in 0 .. capa - 1, items[s].objname = k
               PROVE  FALSE
    OBVIOUS
  <2>1. PICK t \in 0 .. pos - 1 : temp[t].objname = k
    BY <1>1 DEF IInv, RehashProgress
  <2>2. t \in 0 .. old_capa - 1 /\ t # pos
    BY <1>1
  <2> QED BY <1>1, <2>1, <2>2 DEF IInv, RehashProgress, Unique
<1>5. Sound(items, capa) /\ cnt = Cardinality(Occupied(items, capa))
  BY IInvSound DEF IInv, CntIsOccupied
<1>6. ~InsertAborts(items, cnt, capa, k) /\ Inserted(items, cnt, capa, k, new)
  <2> HIDE DEF k
  <2> QED BY <1>2, <1>3, <1>5, InsertEffect
<1> HIDE DEF new
<1>7. /\ Sound(new.items, capa)
      /\ new.cnt = Cardinality(Occupied(new.items, capa))
      /\ new.cnt \in Nat /\ new.cnt <= cnt + 1
      /\ new.idx \in 0 .. capa - 1
      /\ items[new.idx].objname = NoKey
      /\ new.items = [items EXCEPT ![new.idx] =
                        [@ EXCEPT !.objname = k, !.occupied = TRUE,
                                  !.deleted = FALSE]]
  BY <1>4, <1>6 DEF Inserted
<1>8. /\ items' = [new.items EXCEPT ![idx] =
                     [@ EXCEPT !.capa = old.capa, !.cnt = old.cnt,
                               !.pageno = old.pageno]]
      /\ cnt' = new.cnt /\ pos' = pos + 1 /\ UNCHANGED abort
  BY <1>6 DEF ExtendMove, new
<1>9. items[new.idx] \in KVs /\ new.items[new.idx].objname = k
  BY <1>5, <1>7 DEF Sound, KVs
<1>10. idx = new.idx
  <2> HIDE DEF k
  <2>1. /\ capa \in Nat \ {0} /\ k \in Keys /\ new.idx \in 0 .. capa - 1
        /\ Sound(new.items, capa) /\ new.items[new.idx].objname = k
    BY <1>2, <1>3, <1>7, <1>9
  <2> QED BY ONLY <2>1, FindPresent
<1> HIDE DEF idx
<1>11. items' = [items EXCEPT ![new.idx] =
                   [@ EXCEPT !.objname = k, !.occupied = TRUE,
                             !.deleted = FALSE, !.capa = old.capa,
                             !.cnt = old.cnt, !.pageno = old.pageno]]
  BY <1>5, <1>7, <1>8, <1>10 DEF Sound
<1>12. Sound(items', capa) /\ Occupied(items', capa) = Occupied(new.items, capa)
  <2>1. [new.items[idx] EXCEPT !.capa = old.capa, !.cnt = old.cnt,
                               !.pageno = old.pageno] \in KVs
    <3>1. new.items[idx] \in KVs
      BY <1>7, <1>10 DEF Sound
    <3> HIDE DEF old
    <3> QED BY <1>2, <3>1 DEF KVs
  <2>2. items' \in [0 .. capa - 1 -> KVs]
    BY <1>7, <1>8, <1>10, <2>1 DEF Sound
  <2>3. \A s \in 0 .. capa - 1 :
          /\ items'[s].occupied = new.items[s].occupied
          /\ items'[s].deleted = new.items[s].deleted
          /\ items'[s].objname = new.items[s].objname
    <3> SUFFICES ASSUME NEW s \in 0 .. capa - 1
                 PROVE  /\ items'[s].occupied = new.items[s].occupied
                        /\ items'[s].deleted = new.items[s].deleted
                        /\ items'[s].objname = new.items[s].objname
      OBVIOUS
    <3>1. new.items[s] \in KVs /\ DOMAIN new.items = 0 .. capa - 1
      BY <1>7 DEF Sound
    <3>2. CASE s # idx
      BY <1>8, <3>1, <3>2
    <3>3. CASE s = idx
      <4>1. items'[s] = [new.items[s] EXCEPT !.capa = old.capa, !.cnt = old.cnt,
                                             !.pageno = old.pageno]
        BY <1>8, <3>1, <3>3
      <4> HIDE DEF old
      <4> QED BY <3>1, <4>1 DEF KVs
    <3> QED BY <3>2, <3>3
  <2> QED BY <1>3, <1>7, <2>2, <2>3, PagesKeepSound
<1> QED BY <1>1, <1>2, <1>4, <1>7, <1>8, <1>11, <1>12

\* Moving a key during a rehash keeps the invariant.
LEMMA ExtendMoveStep ==
  ASSUME IInv, ExtendMove
  PROVE  IInv'
<1> DEFINE old == temp[pos]
           k == old.objname
<1>1. /\ phase = "rehash" /\ phase' = phase /\ capa' = capa /\ temp' = temp
      /\ old_capa' = old_capa /\ pending' = pending /\ ret' = ret
  BY DEF ExtendMove
<1>2. /\ pos \in 0 .. old_capa - 1 /\ KVOK(old) /\ k \in Keys
      /\ pos' = pos + 1 /\ UNCHANGED abort
      /\ Sound(items', capa)
      /\ cnt' = Cardinality(Occupied(items', capa))
      /\ cnt' \in Nat /\ cnt' <= cnt + 1
  BY ExtendMoveEffect
<1>3. PICK idx \in 0 .. capa - 1 :
         /\ items[idx].objname = NoKey
         /\ items' = [items EXCEPT ![idx] =
                        [@ EXCEPT !.objname = k, !.occupied = TRUE,
                                  !.deleted = FALSE, !.capa = old.capa,
                                  !.cnt = old.cnt, !.pageno = old.pageno]]
  BY ExtendMoveEffect
<1>4. /\ \A s \in 0 .. capa - 1 : items[s] \in KVs /\ KVOK(items[s])
      /\ items \in [0 .. capa - 1 -> KVs]
      /\ capa \in Nat /\ old_capa \in Nat /\ pos \in Nat /\ cnt \in Nat
  BY DEF IInv, TypeOK, KVOK
<1>5. /\ items'[idx].objname = k /\ items'[idx].deleted = FALSE
      /\ items'[idx].capa = old.capa /\ items'[idx].cnt = old.cnt
      /\ items'[idx].pageno = old.pageno
  <2> HIDE DEF old, k
  <2> QED BY <1>3, <1>4 DEF KVs
<1>6. \A s \in 0 .. capa - 1 : s # idx => items'[s] = items[s]
  BY <1>3, <1>4
<1>7. \A s \in 0 .. capa - 1 : KVOK(items'[s])
  <2>1. items'[idx] \in KVs
    BY <1>2 DEF Sound
  <2>2. KVOK(items'[idx])
    BY <1>2, <1>5, <2>1 DEF KVOK
  <2> QED BY <1>4, <1>6, <2>2
<1>8. pos' \in 0 .. old_capa
  BY <1>2, <1>4
<1>9. TypeOK'
  BY <1>1, <1>2, <1>7, <1>8 DEF IInv, TypeOK, Sound
<1>10. FlagsAgree' /\ NoDuplicates' /\ ChainsUnbroken' /\ CntIsOccupied'
  BY <1>1, <1>2 DEF FlagsAgree, NoDuplicates, ChainsUnbroken, CntIsOccupied, Sound
<1>11. RehashProgress'
  <2>1. cnt' <= pos'
    BY <1>1, <1>2, <1>4 DEF IInv, RehashProgress
  <2>2. ASSUME NEW s \in 0 .. capa - 1
        PROVE  /\ ~items'[s].deleted
               /\ items'[s].objname # NoKey =>
                    \E t \in 0 .. pos' - 1 : temp[t].objname = items'[s].objname
    <3>1. CASE s = idx
      <4>1. pos \in 0 .. pos' - 1 /\ temp[pos].objname = k
        BY <1>2, <1>4
      <4> QED BY <1>5, <3>1, <4>1
    <3>2. CASE s # idx
      <4>1. \A t \in 0 .. pos - 1 : t \in 0 .. pos' - 1
        BY <1>2, <1>4
      <4> QED BY <1>1, <1>6, <3>2, <4>1 DEF IInv, RehashProgress
    <3> QED BY <3>1, <3>2
  <2> QED BY <1>1, <2>1, <2>2 DEF IInv, RehashProgress
<1>12. NeverAborts' /\ ReturnedIndex' /\ RehashOver'
  BY <1>1, <1>2 DEF IInv, NeverAborts, ReturnedIndex, RehashOver
<1> QED BY <1>9, <1>10, <1>11, <1>12 DEF IInv

\* Returning from hashmap_extend, with the insertion that follows it in
\* hashmap_append, keeps the invariant.
LEMMA ExtendEndStep ==
  ASSUME IInv, ExtendEnd
  PROVE  IInv'
<1>1. /\ phase = "rehash" /\ pos >= old_capa /\ phase' = "idle"
      /\ temp' = Fresh(0) /\ old_capa' = 0 /\ pos' = 0 /\ pending' = NoKey
      /\ capa' = capa
  BY DEF ExtendEnd
<1>2. /\ temp' \in [0 .. old_capa' - 1 -> KVs]
      /\ \A s \in 0 .. old_capa' - 1 : KVOK(temp'[s])
  <2>1. 0 .. 0 - 1 = {}
    OBVIOUS
  <2> QED BY <1>1, <2>1, FreshSound DEF Sound
<1>3. CASE pending = NoKey
  <2>1. /\ ret' = [op |-> "extend", key |-> NoKey, idx |-> -1]
        /\ items' = items /\ cnt' = cnt /\ abort' = abort
    BY <1>3 DEF ExtendEnd, Returns
  <2>2. TypeOK'
    <3>1. ret' \in [op : {"none", "append", "find", "pages", "delete", "extend", "free"},
                    key : Keys \cup {NoKey}, idx : Int]
      BY <2>1
    <3> QED BY <1>1, <1>2, <2>1, <3>1 DEF IInv, TypeOK
  <2>3. FlagsAgree' /\ NoDuplicates' /\ ChainsUnbroken' /\ CntIsOccupied'
    BY <1>1, <2>1 DEF IInv, FlagsAgree, NoDuplicates, ChainsUnbroken, CntIsOccupied
  <2>4. capa > 0
    BY <1>1 DEF IInv, TypeOK, RehashProgress
  <2>5. NeverAborts' /\ ReturnedIndex' /\ RehashProgress' /\ RehashOver'
    BY <1>1, <2>1, <2>4 DEF IInv, NeverAborts, ReturnedIndex, RehashProgress, RehashOver
  <2> QED BY <2>2, <2>3, <2>5 DEF IInv
<1>4. CASE pending # NoKey
  <2>1. CallInsert(pending) /\ pending \in Keys
    BY <1>4 DEF ExtendEnd, IInv, TypeOK
  <2>2. cnt < capa
    BY <1>1, <1>4 DEF IInv, TypeOK, RehashProgress
  <2>3. /\ UNCHANGED abort
        /\ Sound(items', capa')
        /\ \A s \in 0 .. capa - 1 : KVOK(items'[s])
        /\ cnt' = Cardinality(Occupied(items', capa')) /\ cnt' \in Nat
        /\ ret' = [op |-> "append", key |-> pending, idx |-> ret'.idx]
        /\ \/ ret'.idx = -1
           \/ ret'.idx \in 0 .. capa - 1 /\ items'[ret'.idx].objname = pending
    BY <1>1, <2>1, <2>2, CallInsertEffect
  <2>4. TypeOK'
    <3>1. ret'.idx \in Int
      BY <2>3 DEF IInv, TypeOK
    <3>2. ret' \in [op : {"none", "append", "find", "pages", "delete", "extend", "free"},
                    key : Keys \cup {NoKey}, idx : Int]
      BY <2>1, <2>3, <3>1
    <3> QED BY <1>1, <1>2, <2>3, <3>2 DEF IInv, TypeOK, Sound
  <2>5. FlagsAgree' /\ NoDuplicates' /\ ChainsUnbroken' /\ CntIsOccupied'
    BY <2>3 DEF FlagsAgree, NoDuplicates, ChainsUnbroken, CntIsOccupied, Sound
  <2>6. NeverAborts' /\ ReturnedIndex' /\ RehashProgress' /\ RehashOver'
    BY <1>1, <2>3 DEF IInv, NeverAborts, ReturnedIndex, RehashProgress, RehashOver
  <2> QED BY <2>4, <2>5, <2>6 DEF IInv
<1> QED BY <1>3, <1>4

\* hashmap_find keeps the invariant.
LEMMA FindStep ==
  ASSUME IInv, NEW k \in Keys, Find(k)
  PROVE  IInv'
<1> DEFINE idx == hashmap_find(items, capa, k)
<1>1. /\ capa > 0 /\ phase = "idle" /\ capa' = capa /\ cnt' = cnt /\ items' = items
      /\ phase' = phase /\ temp' = temp /\ old_capa' = old_capa /\ pos' = pos
      /\ pending' = pending /\ abort' = abort
      /\ ret' = [op |-> "find", key |-> k, idx |-> idx]
  BY DEF Find, Ready, NoRehash, Returns
<1>2. \/ idx = -1
      \/ idx \in 0 .. capa - 1 /\ items[idx].objname = k
  <2>1. capa \in Nat \ {0} /\ Sound(items, capa)
    BY <1>1, IInvSound DEF IInv, TypeOK
  <2> QED BY <2>1, FindCases
<1> HIDE DEF idx
<1>3. TypeOK'
  <2>1. idx \in Int
    BY <1>2 DEF IInv, TypeOK
  <2> QED BY <1>1, <2>1 DEF IInv, TypeOK
<1>4. FlagsAgree' /\ NoDuplicates' /\ ChainsUnbroken' /\ CntIsOccupied'
  BY <1>1 DEF IInv, FlagsAgree, NoDuplicates, ChainsUnbroken, CntIsOccupied
<1>5. NeverAborts' /\ ReturnedIndex' /\ RehashProgress' /\ RehashOver'
  BY <1>1, <1>2 DEF IInv, NeverAborts, ReturnedIndex, RehashProgress, RehashOver
<1> QED BY <1>3, <1>4, <1>5 DEF IInv

\* KV_append keeps the invariant.
LEMMA KV_appendStep ==
  ASSUME IInv, NEW k \in Keys, NEW p \in Pages, KV_append(k, p)
  PROVE  IInv'
<1> DEFINE idx == hashmap_find(items, capa, k)
<1>1. /\ capa > 0 /\ phase = "idle" /\ capa' = capa /\ cnt' = cnt /\ idx # -1
      /\ items' = [items EXCEPT ![idx] = Appended(@, p)]
      /\ phase' = phase /\ temp' = temp /\ old_capa' = old_capa /\ pos' = pos
      /\ pending' = pending /\ abort' = abort
      /\ ret' = [op |-> "pages", key |-> k, idx |-> idx]
  BY DEF KV_append, Ready, NoRehash, Returns
<1>2. capa \in Nat \ {0} /\ Sound(items, capa)
  BY <1>1, IInvSound DEF IInv, TypeOK
<1>3. idx \in 0 .. capa - 1 /\ items[idx].objname = k
  BY <1>1, <1>2, FindCases
<1> HIDE DEF idx
<1>4. KVOK(items[idx]) /\ items \in [0 .. capa - 1 -> KVs]
  BY <1>3 DEF IInv, TypeOK
<1>5. /\ KVOK(items'[idx])
      /\ items'[idx].objname = k
      /\ items'[idx].occupied = items[idx].occupied
      /\ items'[idx].deleted = items[idx].deleted
      /\ \A s \in 0 .. capa - 1 : s # idx => items'[s] = items[s]
  BY <1>1, <1>3, <1>4, AppendedOK
<1>6. items' \in [0 .. capa - 1 -> KVs] /\ \A s \in 0 .. capa - 1 : KVOK(items'[s])
  <2>1. Appended(items[idx], p) \in KVs
    BY <1>4, AppendedOK DEF KVOK
  <2> QED BY <1>1, <1>3, <1>4, <1>5, <2>1 DEF IInv, TypeOK
<1>7. Sound(items', capa) /\ Occupied(items', capa) = Occupied(items, capa)
  <2>1. \A s \in 0 .. capa - 1 : /\ items'[s].occupied = items[s].occupied
                                 /\ items'[s].deleted = items[s].deleted
                                 /\ items'[s].objname = items[s].objname
    BY <1>3, <1>5
  <2> QED BY <1>2, <1>6, <2>1, PagesKeepSound
<1>8. TypeOK'
  <2>1. idx \in Int
    BY <1>2, <1>3
  <2> QED BY <1>1, <1>6, <2>1 DEF IInv, TypeOK
<1>9. FlagsAgree' /\ NoDuplicates' /\ ChainsUnbroken' /\ CntIsOccupied'
  BY <1>1, <1>7 DEF IInv, FlagsAgree, NoDuplicates, ChainsUnbroken, CntIsOccupied, Sound
<1>10. NeverAborts' /\ ReturnedIndex' /\ RehashProgress' /\ RehashOver'
  BY <1>1, <1>3, <1>5 DEF IInv, NeverAborts, ReturnedIndex, RehashProgress, RehashOver
<1> QED BY <1>8, <1>9, <1>10 DEF IInv

\* What hashmap_delete does to the array.
LEMMA DeleteEffect ==
  ASSUME IInv, NEW k \in Keys, hashmap_delete(k)
  PROVE  /\ Sound(items', capa) /\ Occupied(items', capa) = Occupied(items, capa)
         /\ \A s \in 0 .. capa - 1 :
              /\ KVOK(items'[s])
              /\ items[s].objname # k => items'[s].objname = items[s].objname
         /\ ret' = [op |-> "delete", key |-> k, idx |-> ret'.idx] /\ ret'.idx \in Int
<1> DEFINE idx == hashmap_find(items, capa, k)
           gone == Tombstone(items[idx])
<1>1. capa \in Nat \ {0} /\ Sound(items, capa)
  BY IInvSound DEF hashmap_delete, Ready, IInv, TypeOK
<1>2. \/ idx = -1
      \/ idx \in 0 .. capa - 1 /\ items[idx].objname = k
  BY <1>1, FindCases
<1>3. /\ items' = IF idx < 0 THEN items ELSE [items EXCEPT ![idx] = gone]
      /\ ret' = [op |-> "delete", key |-> k, idx |-> idx]
  BY DEF hashmap_delete, Returns
<1> HIDE DEF idx
<1>4. items \in [0 .. capa - 1 -> KVs] /\ \A s \in 0 .. capa - 1 : KVOK(items[s])
  BY DEF IInv, TypeOK
<1>5. CASE idx = -1
  BY <1>1, <1>3, <1>4, <1>5
<1>6. CASE idx \in 0 .. capa - 1 /\ items[idx].objname = k
  <2>1. items[idx] \in KVs
    BY <1>4, <1>6
  <2>2. gone \in KVs /\ KVOK(gone)
    <3>1. gone \in KVs
      <4> DEFINE none == << >>
      <4>1. none \in Seq(Pages \cup {NoPage})
        OBVIOUS
      <4> HIDE DEF none
      <4>2. [items[idx] EXCEPT !.deleted = TRUE, !.capa = 0, !.cnt = 0,
                               !.objname = NoKey, !.pageno = none] \in KVs
        BY <2>1, <4>1 DEF KVs
      <4> QED BY <4>2 DEF none, Tombstone
    <3>2. gone.pageno = << >> /\ gone.capa = 0 /\ gone.cnt = 0
      BY <2>1 DEF KVs, Tombstone
    <3> HIDE DEF gone
    <3> QED BY <3>1, <3>2 DEF KVOK
  <2>3. /\ gone.objname = NoKey /\ gone.deleted = TRUE
        /\ gone.occupied = items[idx].occupied
    BY <2>1 DEF KVs, Tombstone
  <2>4. items[idx].occupied
    BY <1>1, <1>6, NamesAssumption DEF Sound, Flags, Live
  <2> HIDE DEF gone
  <2>5. items' = [items EXCEPT ![idx] = gone]
    BY <1>1, <1>3, <1>6
  <2>6. /\ items' \in [0 .. capa - 1 -> KVs]
        /\ items'[idx] = gone
        /\ \A s \in 0 .. capa - 1 : s # idx => items'[s] = items[s]
    BY <1>4, <1>6, <2>2, <2>5
  <2>7. Flags(items', capa)
    BY <1>1, <2>3, <2>4, <2>6 DEF Sound, Flags, Live
  <2>8. \A s \in 0 .. capa - 1 :
          /\ items'[s].occupied = items[s].occupied
          /\ items'[s].objname \in {items[s].objname, NoKey}
          /\ KVOK(items'[s])
          /\ items[s].objname # k => items'[s].objname = items[s].objname
    BY <1>4, <1>6, <2>2, <2>3, <2>6
  <2>9. Sound(items', capa) /\ Occupied(items', capa) = Occupied(items, capa)
    BY <1>1, <2>6, <2>7, <2>8, ClearKeepsSound
  <2>10. idx \in Int
    BY <1>1, <1>6
  <2> QED BY <1>3, <2>8, <2>9, <2>10
<1> QED BY <1>2, <1>5, <1>6

\* hashmap_delete keeps the invariant.
LEMMA DeleteStep ==
  ASSUME IInv, NEW k \in Keys, hashmap_delete(k)
  PROVE  IInv'
<1>1. /\ phase = "idle" /\ capa' = capa /\ cnt' = cnt
      /\ phase' = phase /\ temp' = temp /\ old_capa' = old_capa /\ pos' = pos
      /\ pending' = pending /\ abort' = abort
  BY DEF hashmap_delete, Ready, NoRehash
<1>2. /\ Sound(items', capa) /\ Occupied(items', capa) = Occupied(items, capa)
      /\ \A s \in 0 .. capa - 1 : KVOK(items'[s])
      /\ ret' = [op |-> "delete", key |-> k, idx |-> ret'.idx] /\ ret'.idx \in Int
  BY DeleteEffect
<1>3. TypeOK'
  <2>1. ret' \in [op : {"none", "append", "find", "pages", "delete", "extend", "free"},
                  key : Keys \cup {NoKey}, idx : Int]
    BY <1>2
  <2> QED BY <1>1, <1>2, <2>1 DEF IInv, TypeOK, Sound
<1>4. FlagsAgree' /\ NoDuplicates' /\ ChainsUnbroken' /\ CntIsOccupied'
  BY <1>1, <1>2 DEF IInv, FlagsAgree, NoDuplicates, ChainsUnbroken, CntIsOccupied, Sound
<1>5. NeverAborts' /\ ReturnedIndex' /\ RehashProgress' /\ RehashOver'
  BY <1>1, <1>2 DEF IInv, NeverAborts, ReturnedIndex, RehashProgress, RehashOver
<1> QED BY <1>3, <1>4, <1>5 DEF IInv

\* hashmap_free keeps the invariant.
LEMMA FreeStep ==
  ASSUME IInv, hashmap_free
  PROVE  IInv'
<1>1. /\ phase = "idle" /\ capa' = 0 /\ cnt' = 0 /\ items' = Fresh(0)
      /\ phase' = phase /\ temp' = temp /\ old_capa' = old_capa /\ pos' = pos
      /\ pending' = pending /\ abort' = abort
      /\ ret' = [op |-> "free", key |-> NoKey, idx |-> -1]
  BY DEF hashmap_free, Ready, NoRehash, Returns
<1>2. /\ Sound(Fresh(0), 0) /\ Cardinality(Occupied(Fresh(0), 0)) = 0
      /\ \A s \in 0 .. 0 - 1 : FALSE
  BY FreshSound
<1>3. TypeOK'
  <2>1. ret' \in [op : {"none", "append", "find", "pages", "delete", "extend", "free"},
                  key : Keys \cup {NoKey}, idx : Int]
    BY <1>1
  <2> QED BY <1>1, <1>2, <2>1 DEF IInv, TypeOK, Sound
<1>4. FlagsAgree' /\ NoDuplicates' /\ ChainsUnbroken' /\ CntIsOccupied'
  BY <1>1, <1>2 DEF FlagsAgree, NoDuplicates, ChainsUnbroken, CntIsOccupied, Sound
<1>5. NeverAborts' /\ ReturnedIndex' /\ RehashProgress' /\ RehashOver'
  BY <1>1 DEF IInv, NeverAborts, ReturnedIndex, RehashProgress, RehashOver
<1> QED BY <1>3, <1>4, <1>5 DEF IInv

\* Every step keeps the invariant.
LEMMA StepIInv == IInv /\ [Next]_vars => IInv'
<1> SUFFICES ASSUME IInv, [Next]_vars PROVE IInv'
  OBVIOUS
<1>1. CASE UNCHANGED vars
  BY <1>1 DEF vars, IInv, TypeOK, FlagsAgree, NoDuplicates, ChainsUnbroken,
              CntIsOccupied, NeverAborts, ReturnedIndex, RehashProgress, RehashOver
<1>2. ASSUME NEW b \in Buckets, hashmap_init(b) PROVE IInv'
  BY <1>2, InitStep
<1>3. ASSUME NEW k \in Keys, AppendNow(k) PROVE IInv'
  BY <1>3, AppendNowStep
<1>4. ASSUME NEW k \in Keys, AppendGrow(k) PROVE IInv'
  BY <1>4, ExtendBeginStep DEF AppendGrow
<1>5. ASSUME NEW f \in Factors, hashmap_extend(f) PROVE IInv'
  BY <1>5, SizesAssumption, ExtendBeginStep DEF hashmap_extend
<1>6. ASSUME NEW k \in Keys, Find(k) PROVE IInv'
  BY <1>6, FindStep
<1>7. ASSUME NEW k \in Keys, NEW p \in Pages, KV_append(k, p) PROVE IInv'
  BY <1>7, KV_appendStep
<1>8. ASSUME NEW k \in Keys, hashmap_delete(k) PROVE IInv'
  BY <1>8, DeleteStep
<1>9. CASE hashmap_free
  BY <1>9, FreeStep
<1>10. CASE Rehash
  BY <1>10, ExtendSkipStep, ExtendMoveStep, ExtendEndStep DEF Rehash
<1> QED BY <1>1, <1>2, <1>3, <1>4, <1>5, <1>6, <1>7, <1>8, <1>9, <1>10
        DEF Next, Calls

-----------------------------------------------------------------------------
(* The theorems.                                                           *)

\* The invariant holds in every reachable state, in the middle of a rehash too.
THEOREM Invariance == Spec => []IInv
<1> QED BY InitIInv, StepIInv, PTL DEF Spec

\* Every variable of the map keeps its type, and no KV's counters run past
\* its pageno array (KV_append, hashmap_extend's copy).
THEOREM TypeCorrect == Spec => []TypeOK
<1>1. IInv => TypeOK
  BY DEF IInv
<1> QED BY <1>1, Invariance, PTL

\* hashmap_find returns the bucket of a key that is stored and -1 for any
\* other key, whatever was inserted, deleted and rehashed before.
THEOREM Reachability == Spec => []FindIsExact
<1>1. IInv => FindIsExact
  <2> SUFFICES ASSUME IInv, capa > 0, NEW k \in Keys
               PROVE  LET idx == hashmap_find(items, capa, k)
                      IN  /\ idx # -1 => items[idx].objname = k
                          /\ (\E s \in 0 .. capa - 1 : items[s].objname = k) => idx # -1
    BY DEF FindIsExact
  <2>1. capa \in Nat \ {0} /\ Sound(items, capa)
    BY IInvSound DEF IInv, TypeOK
  <2> QED BY <2>1, FindCases
<1> QED BY <1>1, Invariance, PTL

\* No name is stored twice.
THEOREM NoKeyTwice == Spec => []NoDuplicates
<1>1. IInv => NoDuplicates
  BY DEF IInv
<1> QED BY <1>1, Invariance, PTL

\* hashmap_insert's assert never fails and its overflow exit is never taken:
\* growing leaves room for every key moved and for the one that asked for it.
THEOREM AlwaysRoom == Spec => []NeverAborts
<1>1. IInv => NeverAborts
  BY DEF IInv
<1> QED BY <1>1, Invariance, PTL

\* The index a call returned is in the array and is the bucket of the key it
\* was called with: what main.c writes through is that key's.
THEOREM IndexIsTheKeys == Spec => []ReturnedIndex
<1>1. IInv => ReturnedIndex
  BY DEF IInv
<1> QED BY <1>1, Invariance, PTL

\* cnt counts the buckets not free; after hashmap_extend, the keys.
THEOREM CntIsRight == Spec => [](CntIsOccupied /\ ExtendCountsKeys)
<1>1. IInv => CntIsOccupied /\ ExtendCountsKeys
  <2>1. ASSUME IInv, ret.op = "extend", phase = "idle"
        PROVE  Occupied(items, capa) = {s \in 0 .. capa - 1 : Live(items[s])}
    BY <2>1 DEF IInv, RehashOver, Occupied, Live
  <2> QED BY <2>1 DEF IInv, CntIsOccupied, ExtendCountsKeys
<1> QED BY <1>1, Invariance, PTL

\* Right after hashmap_extend cnt is the number of keys, as the comment on
\* HashMap.cnt in hashmap.h says; between two extends it is not.
THEOREM ExtendCounts == Spec => []ExtendCountsKeys
<1>1. CntIsOccupied /\ ExtendCountsKeys => ExtendCountsKeys
  OBVIOUS
<1> QED BY <1>1, CntIsRight, PTL

\* The probe for a stored key passes only buckets that were used: no deletion,
\* reuse of a tombstone or rehash leaves a hole in front of a key.
THEOREM NoHoles == Spec => []ChainsUnbroken
<1>1. IInv => ChainsUnbroken
  BY DEF IInv
<1> QED BY <1>1, Invariance, PTL

\* In the middle of hashmap_extend the new array holds only names already
\* passed, no tombstone, and fewer keys than buckets passed: it has room for
\* those to come and for the key hashmap_append is about to insert.
THEOREM RehashKeepsUp == Spec => []RehashProgress
<1>1. IInv => RehashProgress
  BY DEF IInv
<1> QED BY <1>1, Invariance, PTL

\* An index hashmap_find or hashmap_append returned stays the key's until the
\* key is deleted, the map freed or rehashed.
THEOREM IndexesStay == Spec => IndexStable
<1>1. IInv /\ [Next]_vars => [KeysStay]_vars
  <2> SUFFICES ASSUME IInv, Next PROVE KeysStay
    OBVIOUS
  <2>1. capa \in Nat /\ (Ready => capa \in Nat \ {0}) /\ Sound(items, capa)
        /\ items \in [0 .. capa - 1 -> KVs]
    BY IInvSound DEF IInv, TypeOK, Ready
  <2>2. ASSUME NEW b \in Buckets, hashmap_init(b) PROVE KeysStay
    BY <2>2 DEF hashmap_init, KeysStay
  <2>3. ASSUME NEW k \in Keys, AppendNow(k) PROVE KeysStay
    <3>1. CallInsert(k) /\ cnt < capa /\ capa' = capa
      BY <2>3 DEF AppendNow
    <3> QED BY <3>1, CallInsertEffect DEF KeysStay
  <2>4. ASSUME NEW k \in Keys, AppendGrow(k) PROVE KeysStay
    BY <2>4 DEF AppendGrow, ExtendBegin, KeysStay
  <2>5. ASSUME NEW f \in Factors, hashmap_extend(f) PROVE KeysStay
    BY <2>5 DEF hashmap_extend, ExtendBegin, KeysStay
  <2>6. ASSUME NEW k \in Keys, Find(k) PROVE KeysStay
    BY <2>6 DEF Find, KeysStay
  <2>7. ASSUME NEW k \in Keys, NEW p \in Pages, KV_append(k, p) PROVE KeysStay
    <3> DEFINE idx == hashmap_find(items, capa, k)
    <3>1. idx # -1 /\ items' = [items EXCEPT ![idx] = Appended(@, p)] /\ Ready
      BY <2>7 DEF KV_append
    <3>2. idx \in 0 .. capa - 1
      BY <2>1, <3>1, FindCases
    <3> HIDE DEF idx
    <3>3. Appended(items[idx], p).objname = items[idx].objname
      BY <3>2, AppendedOK DEF IInv, TypeOK
    <3> QED BY <2>1, <3>1, <3>2, <3>3 DEF KeysStay
  <2>8. ASSUME NEW k \in Keys, hashmap_delete(k) PROVE KeysStay
    BY <2>8, DeleteEffect DEF KeysStay
  <2>9. ASSUME hashmap_free PROVE KeysStay
    BY <2>9 DEF hashmap_free, Returns, KeysStay
  <2>10. ASSUME Rehash PROVE KeysStay
    BY <2>10 DEF Rehash, ExtendSkip, ExtendMove, ExtendEnd, KeysStay
  <2> QED BY <2>2, <2>3, <2>4, <2>5, <2>6, <2>7, <2>8, <2>9, <2>10 DEF Next, Calls
<1> QED BY <1>1, Invariance, PTL DEF Spec, IndexStable

-----------------------------------------------------------------------------
(* What a map contains, as an operator on its bucket arrays: its[0 .. c-1] *)
(* and the buckets lo .. n-1 of the old array that are still to be moved.  *)

Stored(its, c, old, lo, n) ==
  [k \in Keys |->
     IF \E s \in 0 .. c - 1 : its[s].objname = k
     THEN Pagenos(its[CHOOSE s \in 0 .. c - 1 : its[s].objname = k])
     ELSE IF \E s \in lo .. n - 1 : old[s].objname = k
     THEN Pagenos(old[CHOOSE s \in lo .. n - 1 : old[s].objname = k])
     ELSE Absent]

LEMMA ContentsStored ==
  /\ Contents = Stored(items, capa, temp, pos, old_capa)
  /\ Contents' = Stored(items', capa', temp', pos', old_capa')
<1>1. Contents = Stored(items, capa, temp, pos, old_capa)
  BY DEF Contents, Stored
<1>2. Contents' = Stored(items', capa', temp', pos', old_capa')
  BY DEF Contents, Stored
<1> QED BY <1>1, <1>2

\* A key's pages are those of its bucket.
LEMMA StoredHere ==
  ASSUME NEW its, NEW c \in Nat, NEW old, NEW lo, NEW n, Unique(its, c),
         NEW k \in Keys, NEW s \in 0 .. c - 1, its[s].objname = k
  PROVE  Stored(its, c, old, lo, n)[k] = Pagenos(its[s])
<1>1. \A t \in 0 .. c - 1 : its[t].objname = k => t = s
  BY NamesAssumption DEF Unique
<1>2. (CHOOSE t \in 0 .. c - 1 : its[t].objname = k) = s
  BY <1>1
<1>3. \E t \in 0 .. c - 1 : its[t].objname = k
  OBVIOUS
<1> QED BY <1>2, <1>3 DEF Stored

\* A key that has not been moved yet is still where it was.
LEMMA StoredThere ==
  ASSUME NEW its, NEW c, NEW old, NEW lo, NEW n,
         NEW k \in Keys, \A s \in 0 .. c - 1 : its[s].objname # k,
         NEW t, t \in lo .. n - 1, old[t].objname = k,
         \A u \in lo .. n - 1 : old[u].objname = k => u = t
  PROVE  Stored(its, c, old, lo, n)[k] = Pagenos(old[t])
<1>1. (CHOOSE u \in lo .. n - 1 : old[u].objname = k) = t
  OBVIOUS
<1>2. \E u \in lo .. n - 1 : old[u].objname = k
  OBVIOUS
<1> QED BY <1>1, <1>2 DEF Stored

\* A key in neither array is absent.
LEMMA StoredNowhere ==
  ASSUME NEW its, NEW c, NEW old, NEW lo, NEW n,
         NEW k \in Keys, \A s \in 0 .. c - 1 : its[s].objname # k,
         \A s \in lo .. n - 1 : old[s].objname # k
  PROVE  Stored(its, c, old, lo, n)[k] = Absent
BY DEF Stored

\* Two maps that name the same keys and keep the same pages for a key contain
\* the same for it.
LEMMA StoredDomain ==
  ASSUME NEW its, NEW c, NEW old, NEW lo, NEW n
  PROVE  /\ DOMAIN Stored(its, c, old, lo, n) = Keys
         /\ Stored(its, c, old, lo, n) = [k \in Keys |-> Stored(its, c, old, lo, n)[k]]
BY DEF Stored

-----------------------------------------------------------------------------
(* The invariant: that of the map, and that the pages counted have been    *)
(* written and a bucket without a name has none.                           *)

BucketOK(kv) ==
  /\ \A j \in 1 .. kv.cnt : kv.pageno[j] \in Pages
  /\ kv.objname = NoKey => kv.cnt = 0

Filled ==
  /\ \A s \in 0 .. capa - 1 : BucketOK(items[s])
  /\ \A s \in 0 .. old_capa - 1 : BucketOK(temp[s])

RInv == IInv /\ Filled

\* The pages of a bucket are a list, which Absent is not.
LEMMA PagenosType ==
  ASSUME NEW kv, KVOK(kv), BucketOK(kv)
  PROVE  /\ Pagenos(kv) \in Seq(Pages) /\ Len(Pagenos(kv)) = kv.cnt
         /\ \A j \in 1 .. kv.cnt : Pagenos(kv)[j] = kv.pageno[j]
         /\ Pagenos(kv) # Absent
         /\ kv.objname = NoKey => Pagenos(kv) = << >>
<1>1. kv.cnt \in Nat /\ kv.capa \in Nat /\ kv.pageno \in Seq(Pages \cup {NoPage})
      /\ Len(kv.pageno) = kv.capa /\ kv.cnt <= kv.capa
  BY DEF KVOK, KVs
<1>2. Pagenos(kv) \in Seq(Pages) /\ Len(Pagenos(kv)) = kv.cnt
  <2>1. \A j \in 1 .. kv.cnt : kv.pageno[j] \in Pages
    BY DEF BucketOK
  <2>2. 1 \in Int /\ kv.cnt \in Int
    BY <1>1
  <2> QED BY <1>1, <2>1, <2>2, SubSeqProperties DEF Pagenos
<1>3. \A j \in 1 .. kv.cnt : Pagenos(kv)[j] = kv.pageno[j]
  BY <1>1 DEF Pagenos
<1>4. kv.objname = NoKey => Pagenos(kv) = << >>
  BY <1>1, <1>2 DEF BucketOK
<1> QED BY <1>2, <1>3, <1>4, PagesAssumption

-----------------------------------------------------------------------------
(* What a change of the arrays does to the contents.                       *)

\* One bucket is rewritten: the keys it did not and does not name keep their
\* pages.
LEMMA OneBucket ==
  ASSUME NEW c \in Nat, NEW its, NEW new, Unique(its, c), Unique(new, c),
         NEW old, NEW lo, NEW n,
         NEW idx \in 0 .. c - 1, \A s \in (0 .. c - 1) \ {idx} : new[s] = its[s],
         NEW j \in Keys, its[idx].objname # j, new[idx].objname # j
  PROVE  Stored(new, c, old, lo, n)[j] = Stored(its, c, old, lo, n)[j]
<1>1. CASE \E s \in 0 .. c - 1 : its[s].objname = j
  <2>1. PICK s \in 0 .. c - 1 : its[s].objname = j
    BY <1>1
  <2>2. s # idx /\ new[s] = its[s]
    BY <2>1
  <2>3. Stored(its, c, old, lo, n)[j] = Pagenos(its[s])
    BY <2>1, StoredHere
  <2>4. Stored(new, c, old, lo, n)[j] = Pagenos(new[s])
    BY <2>1, <2>2, StoredHere
  <2> QED BY <2>2, <2>3, <2>4
<1>2. CASE \A s \in 0 .. c - 1 : its[s].objname # j
  <2>1. \A s \in 0 .. c - 1 : new[s].objname # j
    BY <1>2
  <2> QED BY <1>2, <2>1 DEF Stored
<1> QED BY <1>1, <1>2

\* When nothing is left to move, the old array does not matter.
LEMMA NoneToMove ==
  ASSUME NEW its, NEW c, NEW old, NEW lo \in Nat, NEW n \in Nat, lo >= n,
         NEW old2, NEW lo2 \in Nat, NEW n2 \in Nat, lo2 >= n2
  PROVE  Stored(its, c, old, lo, n) = Stored(its, c, old2, lo2, n2)
<1>1. lo .. n - 1 = {} /\ lo2 .. n2 - 1 = {}
  OBVIOUS
<1> QED BY <1>1 DEF Stored

\* A bucket of the old array that is passed takes only its own key with it.
LEMMA PassedBy ==
  ASSUME NEW its, NEW c \in Nat, NEW old, NEW lo \in Nat, NEW n \in Nat, lo < n,
         Unique(old, n), NEW j \in Keys, old[lo].objname # j
  PROVE  Stored(its, c, old, lo + 1, n)[j] = Stored(its, c, old, lo, n)[j]
<1>1. \A t \in lo .. n - 1 : old[t].objname = j => t \in lo + 1 .. n - 1
  OBVIOUS
<1>2. \A t \in lo + 1 .. n - 1 : t \in lo .. n - 1
  OBVIOUS
<1>3. (CHOOSE s \in lo + 1 .. n - 1 : old[s].objname = j)
        = (CHOOSE s \in lo .. n - 1 : old[s].objname = j)
  <2>1. \A s : s \in lo + 1 .. n - 1 /\ old[s].objname = j
               <=> s \in lo .. n - 1 /\ old[s].objname = j
    BY <1>1, <1>2
  <2> QED BY <2>1
<1>4. (\E s \in lo + 1 .. n - 1 : old[s].objname = j)
        <=> (\E s \in lo .. n - 1 : old[s].objname = j)
  BY <1>1, <1>2
<1> QED BY <1>3, <1>4 DEF Stored

\* An array without names contains nothing.
LEMMA NothingStored ==
  ASSUME NEW its, NEW c \in Nat, \A s \in 0 .. c - 1 : its[s] = EmptyKV,
         NEW old, NEW lo \in Nat, NEW n \in Nat, lo >= n
  PROVE  Stored(its, c, old, lo, n) = [k \in Keys |-> Absent]
<1>1. \A k \in Keys, s \in 0 .. c - 1 : its[s].objname # k
  BY NamesAssumption DEF EmptyKV
<1>2. lo .. n - 1 = {}
  OBVIOUS
<1>3. \A k \in Keys : Stored(its, c, old, lo, n)[k] = Absent
  BY <1>1, <1>2, StoredNowhere
<1> QED BY <1>3, StoredDomain

\* The buckets of an array all go to the old array: nothing is lost.
LEMMA AllToMove ==
  ASSUME NEW its, NEW c \in Nat, NEW old, NEW lo \in Nat, NEW n \in Nat, lo >= n,
         NEW new, NEW d \in Nat, \A s \in 0 .. d - 1 : new[s] = EmptyKV
  PROVE  Stored(new, d, its, 0, c) = Stored(its, c, old, lo, n)
<1>1. \A k \in Keys, s \in 0 .. d - 1 : new[s].objname # k
  BY NamesAssumption DEF EmptyKV
<1>2. lo .. n - 1 = {}
  OBVIOUS
<1> QED BY <1>1, <1>2 DEF Stored

-----------------------------------------------------------------------------
(* What a step of the map is to the dictionary.                            *)

Stutters == UNCHANGED <<Contents, ret>>

\* The facts of the invariant the steps start from.
LEMMA RInvFacts ==
  ASSUME RInv
  PROVE  /\ Contents = Stored(items, capa, temp, pos, old_capa)
         /\ capa \in Nat /\ old_capa \in Nat /\ pos \in 0 .. old_capa /\ cnt \in Nat
         /\ items \in [0 .. capa - 1 -> KVs] /\ Sound(items, capa)
         /\ \A s \in 0 .. capa - 1 : KVOK(items[s]) /\ BucketOK(items[s])
         /\ \A s \in 0 .. old_capa - 1 : KVOK(temp[s]) /\ BucketOK(temp[s])
         /\ cnt = Cardinality(Occupied(items, capa))
         /\ phase = "idle" => old_capa = 0 /\ pos = 0
         /\ phase = "rehash" => Flags(temp, old_capa) /\ Unique(temp, old_capa)
<1>1. Sound(items, capa)
  BY IInvSound DEF RInv
<1> QED BY <1>1, ContentsStored
        DEF RInv, IInv, Filled, TypeOK, CntIsOccupied, RehashOver, RehashProgress

LEMMA EmptyBucketOK == BucketOK(EmptyKV)
BY DEF BucketOK, EmptyKV

\* hashmap_init makes an empty map of no map.
LEMMA InitDict ==
  ASSUME RInv, NEW b \in Buckets, hashmap_init(b)
  PROVE  Filled' /\ Stutters
<1>1. /\ capa = 0 /\ phase = "idle" /\ capa' = b /\ items' = Fresh(b) /\ ret' = ret
      /\ temp' = temp /\ old_capa' = old_capa /\ pos' = pos
  BY DEF hashmap_init, NoRehash
<1>2. b \in Nat /\ \A s \in 0 .. b - 1 : Fresh(b)[s] = EmptyKV
  BY SizesAssumption, FreshSound
<1>3. /\ Contents = Stored(items, 0, temp, 0, 0)
      /\ Contents' = Stored(Fresh(b), b, temp, 0, 0) /\ old_capa = 0
  BY <1>1, RInvFacts, ContentsStored
<1>4. Contents = [k \in Keys |-> Absent] /\ Contents' = [k \in Keys |-> Absent]
  <2>1. \A s \in 0 .. 0 - 1 : items[s] = EmptyKV
    OBVIOUS
  <2> QED BY <1>2, <1>3, <2>1, NothingStored
<1> QED BY <1>1, <1>2, <1>3, <1>4, EmptyBucketOK DEF Filled, Stutters

\* hashmap_extend up to its loop only sets the old buckets aside.
LEMMA ExtendBeginDict ==
  ASSUME RInv, Ready, NEW f \in Nat \ {0}, NEW k, ExtendBegin(f, k)
  PROVE  Filled' /\ Stutters
<1>1. /\ phase = "idle" /\ temp' = items /\ old_capa' = capa /\ pos' = 0
      /\ capa' = capa * f /\ items' = Fresh(capa * f) /\ ret' = ret
  BY DEF Ready, ExtendBegin
<1>2. capa * f \in Nat /\ capa \in Nat
  BY RInvFacts
<1>3. \A s \in 0 .. capa * f - 1 : Fresh(capa * f)[s] = EmptyKV
  BY <1>2, FreshSound
<1>4. /\ Contents = Stored(items, capa, temp, 0, 0)
      /\ Contents' = Stored(Fresh(capa * f), capa * f, items, 0, capa)
  BY <1>1, RInvFacts, ContentsStored
<1>5. Contents' = Contents
  BY <1>2, <1>3, <1>4, AllToMove
<1>6. Filled'
  <2>1. \A s \in 0 .. capa' - 1 : BucketOK(items'[s])
    BY <1>1, <1>3, EmptyBucketOK
  <2>2. \A s \in 0 .. old_capa' - 1 : BucketOK(temp'[s])
    BY <1>1, RInvFacts
  <2> QED BY <2>1, <2>2 DEF Filled
<1> QED BY <1>1, <1>5, <1>6 DEF Stutters

\* A bucket that is skipped holds no key.
LEMMA ExtendSkipDict ==
  ASSUME RInv, ExtendSkip
  PROVE  Filled' /\ Stutters
<1>1. /\ phase = "rehash" /\ pos < old_capa /\ pos' = pos + 1 /\ ret' = ret
      /\ capa' = capa /\ items' = items /\ temp' = temp /\ old_capa' = old_capa
      /\ temp[pos].deleted \/ temp[pos].objname = NoKey
  BY DEF ExtendSkip
<1>2. /\ pos \in Nat /\ old_capa \in Nat /\ capa \in Nat /\ pos \in 0 .. old_capa - 1
      /\ Unique(temp, old_capa) /\ Flags(temp, old_capa)
  BY <1>1, RInvFacts
<1>3. temp[pos].objname = NoKey
  BY <1>1, <1>2 DEF Flags, Live
<1>4. \A j \in Keys : Stored(items, capa, temp, pos + 1, old_capa)[j]
                        = Stored(items, capa, temp, pos, old_capa)[j]
  BY <1>1, <1>2, <1>3, PassedBy, NamesAssumption
<1>5. Stored(items, capa, temp, pos + 1, old_capa) = Stored(items, capa, temp, pos, old_capa)
  BY <1>4, StoredDomain
<1>6. Contents' = Contents
  BY <1>1, <1>5, ContentsStored
<1> QED BY <1>1, <1>6 DEF RInv, Filled, Stutters

\* A key that is moved takes its pages with it.
LEMMA ExtendMoveDict ==
  ASSUME RInv, ExtendMove
  PROVE  Filled' /\ Stutters
<1> DEFINE old == temp[pos]
           k == old.objname
<1>1. /\ phase = "rehash" /\ capa' = capa /\ temp' = temp /\ old_capa' = old_capa
      /\ ret' = ret
  BY DEF ExtendMove
<1>2. /\ pos \in 0 .. old_capa - 1 /\ KVOK(old) /\ k \in Keys /\ pos' = pos + 1
      /\ \A s \in 0 .. capa - 1 : items[s].objname # k
      /\ Sound(items', capa)
  BY ExtendMoveEffect DEF RInv
<1>3. PICK idx \in 0 .. capa - 1 :
         /\ items[idx].objname = NoKey
         /\ items' = [items EXCEPT ![idx] =
                        [@ EXCEPT !.objname = k, !.occupied = TRUE,
                                  !.deleted = FALSE, !.capa = old.capa,
                                  !.cnt = old.cnt, !.pageno = old.pageno]]
  BY ExtendMoveEffect DEF RInv
<1>4. /\ items \in [0 .. capa - 1 -> KVs] /\ capa \in Nat /\ old_capa \in Nat /\ pos \in Nat
      /\ Unique(temp, old_capa) /\ Sound(items, capa)
      /\ BucketOK(old) /\ \A s \in 0 .. capa - 1 : BucketOK(items[s])
  BY <1>1, <1>2, RInvFacts
<1>5. /\ items'[idx].objname = k /\ items'[idx].cnt = old.cnt
      /\ items'[idx].pageno = old.pageno
  <2>1. items[idx] \in KVs
    BY <1>4
  <2> HIDE DEF old, k
  <2> QED BY <1>3, <1>4, <2>1 DEF KVs
<1>6. \A s \in (0 .. capa - 1) \ {idx} : items'[s] = items[s]
  BY <1>3, <1>4
<1>7. Pagenos(items'[idx]) = Pagenos(old)
  BY <1>5 DEF Pagenos
<1> HIDE DEF old, k
<1>8. Filled'
  <2>1. BucketOK(items'[idx])
    BY <1>2, <1>4, <1>5, NamesAssumption DEF BucketOK
  <2>2. \A s \in 0 .. capa - 1 : BucketOK(items'[s])
    BY <1>4, <1>6, <2>1
  <2> QED BY <1>1, <2>2 DEF RInv, Filled
<1>9. ASSUME NEW j \in Keys
      PROVE  Stored(items', capa, temp, pos + 1, old_capa)[j]
               = Stored(items, capa, temp, pos, old_capa)[j]
  <2>1. CASE j = k
    <3>1. Stored(items', capa, temp, pos + 1, old_capa)[j] = Pagenos(items'[idx])
      BY <1>2, <1>4, <1>5, <2>1, StoredHere DEF Sound
    <3>2. Stored(items, capa, temp, pos, old_capa)[j] = Pagenos(temp[pos])
      <4>1. pos \in pos .. old_capa - 1 /\ temp[pos].objname = j
        BY <1>2, <1>4, <2>1 DEF k, old
      <4>2. \A s \in 0 .. capa - 1 : items[s].objname # j
        BY <1>2, <2>1
      <4>3. \A u \in pos .. old_capa - 1 : temp[u].objname = j => u = pos
        BY <1>4, <4>1, NamesAssumption DEF Unique
      <4> QED BY <4>1, <4>2, <4>3, StoredThere
    <3> QED BY <1>7, <3>1, <3>2 DEF old
  <2>2. CASE j # k
    <3>1. Stored(items', capa, temp, pos + 1, old_capa)[j]
            = Stored(items, capa, temp, pos + 1, old_capa)[j]
      <4>1. items[idx].objname # j /\ items'[idx].objname # j
        BY <1>3, <1>5, <2>2, NamesAssumption
      <4>2. /\ capa \in Nat /\ idx \in 0 .. capa - 1 /\ j \in Keys
            /\ Unique(items, capa) /\ Unique(items', capa)
        BY <1>2, <1>4 DEF Sound
      <4> QED BY ONLY <1>6, <4>1, <4>2, OneBucket
    <3>2. Stored(items, capa, temp, pos + 1, old_capa)[j]
            = Stored(items, capa, temp, pos, old_capa)[j]
      <4>1. temp[pos].objname # j /\ pos < old_capa
        BY <1>2, <1>4, <2>2 DEF k, old
      <4> QED BY <1>4, <4>1, PassedBy
    <3> QED BY <3>1, <3>2
  <2> QED BY <2>1, <2>2
<1>10. Stored(items', capa, temp, pos + 1, old_capa) = Stored(items, capa, temp, pos, old_capa)
  BY <1>9, StoredDomain
<1>11. Contents' = Contents
  BY <1>1, <1>2, <1>10, ContentsStored
<1> QED BY <1>1, <1>8, <1>11 DEF Stutters

\* hashmap_insert, called by hashmap_append with nothing left to move.
LEMMA CallInsertDict ==
  ASSUME RInv, NEW k \in Keys, cnt < capa, CallInsert(k), capa' = capa,
         pos >= old_capa, pos' = old_capa', old_capa' \in Nat
  PROVE  /\ \A s \in 0 .. capa - 1 : BucketOK(items'[s])
         /\ Dict!Put(k)
<1> DEFINE new == hashmap_insert(items, cnt, capa, k)
           Was == Stored(items, capa, temp, pos, old_capa)
           Is == Stored(items', capa, temp, pos, old_capa)
<1>1. /\ capa \in Nat \ {0} /\ Sound(items, capa) /\ cnt = Cardinality(Occupied(items, capa))
      /\ items \in [0 .. capa - 1 -> KVs] /\ pos \in Nat /\ old_capa \in Nat
      /\ \A s \in 0 .. capa - 1 : BucketOK(items[s]) /\ KVOK(items[s])
  BY RInvFacts
<1>2. /\ ~InsertAborts(items, cnt, capa, k)
      /\ Inserted(items, cnt, capa, k, new)
  BY <1>1, InsertEffect
<1>3. /\ items' = new.items
      /\ ret' = [op |-> "append", key |-> k, idx |-> new.idx]
  BY <1>2 DEF CallInsert, Returns
<1> HIDE DEF new
<1>4. Contents = Was /\ Contents' = Is
  <2>1. Contents = Was /\ Contents' = Stored(items', capa, temp', pos', old_capa')
    BY ContentsStored
  <2>2. Stored(items', capa, temp', pos', old_capa') = Is
    BY <1>1, NoneToMove
  <2> QED BY <2>1, <2>2
<1>5. CASE new = [items |-> items, cnt |-> cnt, idx |-> -1]
          /\ \E s \in 0 .. capa - 1 : items[s].objname = k
  <2>1. PICK s \in 0 .. capa - 1 : items[s].objname = k
    BY <1>5
  <2>2. Was[k] = Pagenos(items[s])
    BY <1>1, <2>1, StoredHere DEF Sound
  <2>3. Contents[k] # Absent
    BY <1>1, <1>4, <2>2, PagenosType
  <2>4. items' = items /\ ret' = [op |-> "append", key |-> k, idx |-> -1]
    BY <1>3, <1>5
  <2>5. Contents' = Contents
    BY <1>4, <2>4
  <2>6. Dict!Put(k)
    BY <2>3, <2>4, <2>5 DEF Dict!Put, Dict!Present, Dict!Answer
  <2> QED BY <1>1, <2>4, <2>6
<1>6. CASE /\ \A s \in 0 .. capa - 1 : items[s].objname # k
           /\ new.idx \in 0 .. capa - 1
           /\ items[new.idx].objname = NoKey
           /\ new.items = [items EXCEPT ![new.idx] =
                             [@ EXCEPT !.objname = k, !.occupied = TRUE,
                                       !.deleted = FALSE]]
  <2>1. /\ items'[new.idx].objname = k
        /\ items'[new.idx].cnt = items[new.idx].cnt
        /\ items'[new.idx].pageno = items[new.idx].pageno
        /\ \A s \in (0 .. capa - 1) \ {new.idx} : items'[s] = items[s]
    <3>1. items[new.idx] \in KVs
      BY <1>1, <1>6
    <3> QED BY <1>1, <1>3, <1>6, <3>1 DEF KVs
  <2>2. Pagenos(items'[new.idx]) = << >>
    <3>1. Pagenos(items'[new.idx]) = Pagenos(items[new.idx])
      BY <2>1 DEF Pagenos
    <3> QED BY <1>1, <1>6, <3>1, PagenosType
  <2>3. Unique(items', capa) /\ Unique(items, capa)
    BY <1>1, <1>2, <1>3 DEF Sound, Inserted
  <2>4. Is[k] = << >>
    BY <1>1, <1>6, <2>1, <2>2, <2>3, StoredHere
  <2>5. Was[k] = Absent
    <3>1. pos .. old_capa - 1 = {}
      BY <1>1
    <3> QED BY <1>6, <3>1, StoredNowhere
  <2>6. ASSUME NEW j \in Keys, j # k PROVE Is[j] = Was[j]
    <3>1. PICK idx \in 0 .. capa - 1 : idx = new.idx
      BY <1>6
    <3>2. items[idx].objname # j /\ items'[idx].objname # j
      BY <1>6, <2>1, <2>6, <3>1, NamesAssumption
    <3>3. capa \in Nat /\ idx \in 0 .. capa - 1 /\ j \in Keys
          /\ \A s \in (0 .. capa - 1) \ {idx} : items'[s] = items[s]
      BY <1>1, <2>1, <3>1
    <3>4. Stored(items', capa, temp, pos, old_capa)[j] = Stored(items, capa, temp, pos, old_capa)[j]
      BY ONLY <2>3, <3>2, <3>3, OneBucket
    <3> QED BY <3>4
  <2>7. Is = [Was EXCEPT ![k] = << >>]
    <3>1. DOMAIN Is = Keys /\ DOMAIN Was = Keys
          /\ Is = [j \in Keys |-> Is[j]] /\ Was = [j \in Keys |-> Was[j]]
      BY StoredDomain
    <3> HIDE DEF Is, Was
    <3> QED BY <2>4, <2>6, <3>1
  <2>8. Contents[k] = Absent /\ Contents' = [Contents EXCEPT ![k] = << >>]
    BY <1>4, <2>5, <2>7
  <2>9. new.idx # -1
    BY <1>1, <1>6
  <2>10. Dict!Put(k)
    BY <1>3, <2>8, <2>9 DEF Dict!Put, Dict!Present, Dict!Answer
  <2>11. ASSUME NEW s \in 0 .. capa - 1 PROVE BucketOK(items'[s])
    <3>1. CASE s = new.idx
      BY <1>1, <1>6, <2>1, <3>1, NamesAssumption DEF BucketOK
    <3>2. CASE s # new.idx
      BY <1>1, <2>1, <3>2
    <3> QED BY <3>1, <3>2
  <2> QED BY <2>10, <2>11
<1> QED BY <1>2, <1>5, <1>6 DEF Inserted

\* hashmap_append with room is Put.
LEMMA AppendNowDict ==
  ASSUME RInv, NEW k \in Keys, AppendNow(k)
  PROVE  Filled' /\ Dict!Put(k)
<1>1. /\ phase = "idle" /\ cnt < capa /\ CallInsert(k) /\ capa' = capa
      /\ temp' = temp /\ old_capa' = old_capa /\ pos' = pos
  BY DEF AppendNow, Ready, NoRehash
<1>2. pos = 0 /\ old_capa = 0
  BY <1>1, RInvFacts
<1>3. /\ \A s \in 0 .. capa - 1 : BucketOK(items'[s])
      /\ Dict!Put(k)
  BY <1>1, <1>2, CallInsertDict
<1> QED BY <1>1, <1>3 DEF RInv, Filled

\* The end of hashmap_extend is Compact, or Put if hashmap_append called it.
LEMMA ExtendEndDict ==
  ASSUME RInv, ExtendEnd
  PROVE  Filled' /\ (Dict!Compact \/ \E k \in Keys : Dict!Put(k))
<1>1. /\ phase = "rehash" /\ pos >= old_capa /\ capa' = capa
      /\ temp' = Fresh(0) /\ old_capa' = 0 /\ pos' = 0
  BY DEF ExtendEnd
<1>2. \A s \in 0 .. old_capa' - 1 : BucketOK(temp'[s])
  BY <1>1
<1>3. pos \in Nat /\ old_capa \in Nat
  BY RInvFacts
<1>4. CASE pending = NoKey
  <2>1. ret' = [op |-> "extend", key |-> NoKey, idx |-> -1] /\ items' = items
    BY <1>4 DEF ExtendEnd, Returns
  <2>2. Stored(items, capa, Fresh(0), 0, 0) = Stored(items, capa, temp, pos, old_capa)
    BY <1>1, <1>3, NoneToMove
  <2>3. Contents' = Contents
    BY <1>1, <2>1, <2>2, ContentsStored
  <2>4. Dict!Compact
    BY <2>1, <2>3 DEF Dict!Compact, Dict!Answer
  <2> QED BY <1>1, <1>2, <2>1, <2>4 DEF RInv, Filled
<1>5. CASE pending # NoKey
  <2>1. CallInsert(pending) /\ pending \in Keys
    BY <1>5 DEF ExtendEnd, RInv, IInv, TypeOK
  <2>2. cnt < capa
    BY <1>1, <1>5 DEF RInv, IInv, TypeOK, RehashProgress
  <2>3. /\ \A s \in 0 .. capa - 1 : BucketOK(items'[s])
        /\ Dict!Put(pending)
    BY <1>1, <2>1, <2>2, CallInsertDict
  <2> QED BY <1>1, <1>2, <2>1, <2>3 DEF Filled
<1> QED BY <1>4, <1>5

\* What hashmap_find returns tells whether the key is there, and its pages.
LEMMA FindDict ==
  ASSUME RInv, Ready, NEW k \in Keys
  PROVE  LET idx == hashmap_find(items, capa, k)
         IN  \/ /\ idx = -1 /\ Contents[k] = Absent
                /\ \A s \in 0 .. capa - 1 : items[s].objname # k
             \/ /\ idx \in 0 .. capa - 1 /\ idx # -1 /\ items[idx].objname = k
                /\ Contents[k] = Pagenos(items[idx]) /\ Contents[k] # Absent
<1> DEFINE idx == hashmap_find(items, capa, k)
<1>1. /\ capa \in Nat \ {0} /\ Sound(items, capa)
      /\ Contents = Stored(items, capa, temp, 0, 0)
      /\ \A s \in 0 .. capa - 1 : KVOK(items[s]) /\ BucketOK(items[s])
  BY RInvFacts DEF Ready
<1>2. \/ /\ idx = -1
         /\ \A s \in 0 .. capa - 1 : items[s].objname # k
      \/ /\ idx \in 0 .. capa - 1
         /\ items[idx].objname = k
  BY <1>1, FindCases
<1> HIDE DEF idx
<1>3. CASE idx = -1 /\ \A s \in 0 .. capa - 1 : items[s].objname # k
  <2>1. Contents[k] = Absent
    <3>1. 0 .. 0 - 1 = {}
      OBVIOUS
    <3> QED BY <1>1, <1>3, <3>1, StoredNowhere
  <2> QED BY <1>3, <2>1 DEF idx
<1>4. CASE idx \in 0 .. capa - 1 /\ items[idx].objname = k
  <2>1. Contents[k] = Pagenos(items[idx])
    BY <1>1, <1>4, StoredHere DEF Sound
  <2>2. Contents[k] # Absent
    BY <1>1, <1>4, <2>1, PagenosType
  <2>3. idx # -1
    BY <1>1, <1>4
  <2> QED BY <1>4, <2>1, <2>2, <2>3 DEF idx
<1> QED BY <1>2, <1>3, <1>4

\* A call that rewrites the bucket of its key alone, and not its name unless
\* it clears it, changes the contents for that key only.
LEMMA OneKeyChanges ==
  ASSUME RInv, phase = "idle", NEW k \in Keys, NEW idx \in 0 .. capa - 1,
         items[idx].objname = k, items'[idx].objname \in {k, NoKey},
         \A s \in (0 .. capa - 1) \ {idx} : items'[s] = items[s],
         Unique(items', capa), capa' = capa, UNCHANGED <<temp, pos, old_capa>>
  PROVE  /\ Contents' = [Contents EXCEPT ![k] = Contents'[k]]
         /\ items'[idx].objname = k => Contents'[k] = Pagenos(items'[idx])
         /\ items'[idx].objname = NoKey => Contents'[k] = Absent
<1> DEFINE Was == Stored(items, capa, temp, 0, 0)
           Is == Stored(items', capa, temp, 0, 0)
<1>1. /\ Contents = Was /\ Contents' = Is /\ capa \in Nat /\ Unique(items, capa)
  BY RInvFacts, ContentsStored DEF Sound
<1>2. ASSUME NEW j \in Keys, j # k PROVE Is[j] = Was[j]
  <2>1. items[idx].objname # j /\ items'[idx].objname # j
    BY <1>2, NamesAssumption
  <2> QED BY <1>1, <2>1, OneBucket
<1>3. Is = [Was EXCEPT ![k] = Is[k]]
  <2>1. DOMAIN Is = Keys /\ DOMAIN Was = Keys
        /\ Is = [j \in Keys |-> Is[j]] /\ Was = [j \in Keys |-> Was[j]]
    BY StoredDomain
  <2> HIDE DEF Is, Was
  <2> QED BY <1>2, <2>1
<1>4. ASSUME items'[idx].objname = k PROVE Is[k] = Pagenos(items'[idx])
  BY <1>1, <1>4, StoredHere
<1>5. ASSUME items'[idx].objname = NoKey PROVE Is[k] = Absent
  <2>1. 0 .. 0 - 1 = {}
    OBVIOUS
  <2>2. \A s \in 0 .. capa - 1 : items'[s].objname # k
    <3> TAKE s \in 0 .. capa - 1
    <3>1. s # idx => items[s].objname # k
      BY <1>1, NamesAssumption DEF Unique
    <3> QED BY <1>5, <3>1, NamesAssumption
  <2> QED BY <2>1, <2>2, StoredNowhere
<1> HIDE DEF Is, Was
<1> QED BY <1>1, <1>3, <1>4, <1>5

\* hashmap_find is Lookup.
LEMMA FindLookup ==
  ASSUME RInv, NEW k \in Keys, Find(k)
  PROVE  Filled' /\ Dict!Lookup(k)
<1>1. /\ Ready /\ ret' = [op |-> "find", key |-> k, idx |-> hashmap_find(items, capa, k)]
      /\ UNCHANGED <<capa, items, temp, old_capa, pos>>
  BY DEF Find, NoRehash, Returns
<1>2. Contents' = Contents
  BY <1>1 DEF Contents
<1>3. (hashmap_find(items, capa, k) # -1) = (Contents[k] # Absent)
  BY <1>1, FindDict
<1>4. Dict!Lookup(k)
  BY <1>1, <1>2, <1>3 DEF Dict!Lookup, Dict!Answer, Dict!Present
<1> QED BY <1>1, <1>4 DEF RInv, Filled

\* KV_append writes behind the pages counted, and counts one more.
LEMMA AppendedPages ==
  ASSUME NEW kv, KVOK(kv), BucketOK(kv), NEW p \in Pages, kv.objname # NoKey
  PROVE  /\ BucketOK(Appended(kv, p))
         /\ Pagenos(Appended(kv, p)) = Append(Pagenos(kv), p)
<1> DEFINE c == IF kv.cnt < kv.capa THEN kv.capa
                ELSE IF kv.capa = 0 THEN 1 ELSE 2 * kv.capa
           q == [j \in 1 .. c |-> IF j = kv.cnt + 1 THEN p
                                  ELSE IF j <= kv.capa THEN kv.pageno[j]
                                  ELSE NoPage]
           new == Appended(kv, p)
<1>1. kv \in KVs /\ kv.cnt \in Nat /\ kv.capa \in Nat /\ kv.cnt <= kv.capa
  BY DEF KVOK, KVs
<1>2. c \in Nat /\ kv.cnt + 1 <= c
  BY <1>1
<1>3. new = [kv EXCEPT !.capa = c, !.pageno = q, !.cnt = kv.cnt + 1]
  BY DEF Appended
<1>4. /\ q[kv.cnt + 1] = p
      /\ \A j \in 1 .. kv.cnt : q[j] = kv.pageno[j]
  <2> HIDE DEF c
  <2> QED BY <1>1, <1>2
<1> HIDE DEF c, q
<1>5. /\ new.pageno = q /\ new.cnt = kv.cnt + 1 /\ new.objname = kv.objname
  BY <1>1, <1>3 DEF KVs
<1>6. KVOK(new)
  BY AppendedOK
<1> HIDE DEF new
<1>7. BucketOK(new)
  <2>1. ASSUME NEW j \in 1 .. kv.cnt + 1 PROVE q[j] \in Pages
    <3>1. j = kv.cnt + 1 \/ j \in 1 .. kv.cnt
      BY <1>1
    <3> QED BY <1>4, <3>1 DEF BucketOK
  <2> QED BY <1>5, <2>1 DEF BucketOK
<1>8. /\ Pagenos(kv) \in Seq(Pages) /\ Len(Pagenos(kv)) = kv.cnt
      /\ \A j \in 1 .. kv.cnt : Pagenos(kv)[j] = kv.pageno[j]
      /\ Pagenos(new) \in Seq(Pages) /\ Len(Pagenos(new)) = kv.cnt + 1
      /\ \A j \in 1 .. kv.cnt + 1 : Pagenos(new)[j] = q[j]
  BY <1>5, <1>6, <1>7, PagenosType
<1>9. Pagenos(new) = Append(Pagenos(kv), p)
  <2> DEFINE u == Pagenos(new)
             v == Append(Pagenos(kv), p)
  <2>1. v \in Seq(Pages) /\ Len(v) = kv.cnt + 1
        /\ v[kv.cnt + 1] = p /\ \A j \in 1 .. kv.cnt : v[j] = Pagenos(kv)[j]
    BY <1>1, <1>8
  <2>2. ASSUME NEW j \in 1 .. kv.cnt + 1 PROVE u[j] = v[j]
    <3>1. j = kv.cnt + 1 \/ j \in 1 .. kv.cnt
      BY <1>1
    <3> QED BY <1>4, <1>8, <2>1, <3>1
  <2> HIDE DEF u, v
  <2>3. u = v
    BY <1>8, <2>1, <2>2, SeqEqual DEF u
  <2> QED BY <2>3 DEF u, v
<1> QED BY <1>7, <1>9 DEF new

\* KV_append is AddPage.
LEMMA KV_appendDict ==
  ASSUME RInv, NEW k \in Keys, NEW p \in Pages, KV_append(k, p)
  PROVE  Filled' /\ Dict!AddPage(k, p)
<1> DEFINE idx == hashmap_find(items, capa, k)
<1>1. /\ Ready /\ phase = "idle" /\ idx # -1
      /\ items' = [items EXCEPT ![idx] = Appended(@, p)]
      /\ UNCHANGED <<capa, temp, old_capa, pos>>
      /\ ret' = [op |-> "pages", key |-> k, idx |-> idx]
  BY DEF KV_append, Ready, NoRehash, Returns
<1>2. /\ idx \in 0 .. capa - 1 /\ items[idx].objname = k
      /\ Contents[k] = Pagenos(items[idx]) /\ Contents[k] # Absent
  BY <1>1, FindDict
<1> HIDE DEF idx
<1>3. /\ KVOK(items[idx]) /\ BucketOK(items[idx]) /\ items \in [0 .. capa - 1 -> KVs]
      /\ capa \in Nat /\ Unique(items, capa)
  BY <1>2, RInvFacts DEF Sound
<1>4. /\ items'[idx] = Appended(items[idx], p)
      /\ \A s \in (0 .. capa - 1) \ {idx} : items'[s] = items[s]
  BY <1>1, <1>2, <1>3
<1>5. /\ BucketOK(items'[idx]) /\ items'[idx].objname = k
      /\ Pagenos(items'[idx]) = Append(Contents[k], p)
  BY <1>2, <1>3, <1>4, AppendedPages, AppendedOK, NamesAssumption
<1>6. Unique(items', capa)
  <2>1. \A s \in 0 .. capa - 1 : items'[s].objname = items[s].objname
    BY <1>2, <1>4, <1>5
  <2> QED BY <1>3, <2>1 DEF Unique
<1>7. Contents' = [Contents EXCEPT ![k] = Append(Contents[k], p)]
  BY <1>1, <1>2, <1>4, <1>5, <1>6, OneKeyChanges
<1>8. Dict!AddPage(k, p)
  BY <1>1, <1>2, <1>7 DEF Dict!AddPage, Dict!Answer, Dict!Present
<1>9. Filled'
  <2>1. \A s \in 0 .. capa - 1 : BucketOK(items'[s])
    <3> TAKE s \in 0 .. capa - 1
    <3>1. s # idx => BucketOK(items[s])
      BY RInvFacts
    <3> QED BY <1>4, <1>5, <3>1
  <2> QED BY <1>1, <2>1 DEF RInv, Filled
<1> QED BY <1>8, <1>9

\* hashmap_delete is Remove.
LEMMA DeleteDict ==
  ASSUME RInv, NEW k \in Keys, hashmap_delete(k)
  PROVE  Filled' /\ Dict!Remove(k)
<1> DEFINE idx == hashmap_find(items, capa, k)
<1>1. /\ Ready /\ phase = "idle"
      /\ items' = IF idx < 0 THEN items ELSE [items EXCEPT ![idx] = Tombstone(@)]
      /\ UNCHANGED <<capa, temp, old_capa, pos>>
      /\ ret' = [op |-> "delete", key |-> k, idx |-> idx]
  BY DEF hashmap_delete, Ready, NoRehash, Returns
<1>2. \/ /\ idx = -1 /\ Contents[k] = Absent
      \/ /\ idx \in 0 .. capa - 1 /\ idx # -1 /\ items[idx].objname = k
         /\ Contents[k] # Absent
  BY <1>1, FindDict
<1> HIDE DEF idx
<1>3. /\ items \in [0 .. capa - 1 -> KVs] /\ capa \in Nat /\ Unique(items, capa)
      /\ \A s \in 0 .. capa - 1 : BucketOK(items[s])
      /\ DOMAIN Contents = Keys
  BY RInvFacts, StoredDomain DEF Sound
<1>4. CASE idx = -1 /\ Contents[k] = Absent
  <2>1. items' = items
    BY <1>1, <1>4
  <2>2. Contents' = Contents
    BY <1>1, <2>1 DEF Contents
  <2>3. Contents' = [Contents EXCEPT ![k] = Absent]
    <3>1. Contents = [j \in Keys |-> Contents[j]]
      BY DEF Contents
    <3> HIDE DEF Contents
    <3> QED BY <1>3, <1>4, <2>2, <3>1
  <2>4. Dict!Remove(k)
    BY <1>1, <1>4, <2>3 DEF Dict!Remove, Dict!Answer, Dict!Present
  <2> QED BY <1>1, <1>3, <2>1, <2>4 DEF RInv, Filled
<1>5. CASE /\ idx \in 0 .. capa - 1 /\ idx # -1 /\ items[idx].objname = k
           /\ Contents[k] # Absent
  <2>1. /\ items'[idx] = Tombstone(items[idx])
        /\ \A s \in (0 .. capa - 1) \ {idx} : items'[s] = items[s]
    BY <1>1, <1>3, <1>5
  <2>2. items'[idx].objname = NoKey /\ items'[idx].cnt = 0
    <3>1. items[idx] \in KVs
      BY <1>3, <1>5
    <3> QED BY <2>1, <3>1 DEF Tombstone, KVs
  <2>3. Unique(items', capa)
    BY <1>3, <1>5, <2>1, <2>2 DEF Unique
  <2>4. Contents' = [Contents EXCEPT ![k] = Absent]
    BY <1>1, <1>5, <2>1, <2>2, <2>3, OneKeyChanges
  <2>5. Dict!Remove(k)
    BY <1>1, <1>5, <2>4 DEF Dict!Remove, Dict!Answer, Dict!Present
  <2>6. BucketOK(items'[idx])
    BY <2>2 DEF BucketOK
  <2>7. \A s \in 0 .. capa - 1 : BucketOK(items'[s])
    BY <1>3, <2>1, <2>6
  <2> QED BY <1>1, <2>5, <2>7 DEF RInv, Filled
<1> QED BY <1>2, <1>4, <1>5

\* hashmap_free is Clear.
LEMMA FreeDict ==
  ASSUME RInv, hashmap_free
  PROVE  Filled' /\ Dict!Clear
<1>1. /\ phase = "idle" /\ capa' = 0 /\ items' = Fresh(0)
      /\ UNCHANGED <<temp, old_capa, pos>>
      /\ ret' = [op |-> "free", key |-> NoKey, idx |-> -1]
  BY DEF hashmap_free, Ready, NoRehash, Returns
<1>2. Contents' = Stored(Fresh(0), 0, temp, 0, 0)
  BY <1>1, RInvFacts, ContentsStored
<1>3. Contents' = [k \in Keys |-> Absent]
  <2>1. \A s \in 0 .. 0 - 1 : Fresh(0)[s] = EmptyKV
    OBVIOUS
  <2> QED BY <1>2, <2>1, NothingStored
<1>4. Dict!Clear
  BY <1>1, <1>3 DEF Dict!Clear, Dict!Answer
<1>5. 0 .. 0 - 1 = {}
  OBVIOUS
<1> QED BY <1>1, <1>4, <1>5 DEF RInv, Filled

-----------------------------------------------------------------------------
(* The refinement.                                                         *)

\* No map: no key.
LEMMA InitRefines == Init => RInv /\ Dict!DInit
<1> SUFFICES ASSUME Init PROVE RInv /\ Dict!DInit
  OBVIOUS
<1>1. /\ capa = 0 /\ items = Fresh(0) /\ temp = Fresh(0) /\ old_capa = 0 /\ pos = 0
      /\ ret = [op |-> "none", key |-> NoKey, idx |-> -1]
  BY DEF Init
<1>2. IInv
  BY InitIInv
<1>3. Filled
  BY <1>1 DEF Filled
<1>4. Contents = [k \in Keys |-> Absent]
  <2>1. \A s \in 0 .. 0 - 1 : items[s] = EmptyKV
    OBVIOUS
  <2>2. Contents = Stored(items, 0, temp, 0, 0)
    BY <1>1, ContentsStored
  <2> QED BY <2>1, <2>2, NothingStored
<1>5. Dict!DInit
  BY <1>1, <1>4 DEF Dict!DInit
<1> QED BY <1>2, <1>3, <1>5 DEF RInv

\* Every step of the map keeps the invariant and is a call on the dictionary,
\* or a step the dictionary does not see.
LEMMA StepRefines == RInv /\ [Next]_vars => RInv' /\ [Dict!DNext]_(Dict!dvars)
<1> SUFFICES ASSUME RInv, [Next]_vars
             PROVE  RInv' /\ [Dict!DNext]_(Dict!dvars)
  OBVIOUS
<1>1. IInv'
  BY StepIInv DEF RInv
<1>2. ASSUME Stutters PROVE [Dict!DNext]_(Dict!dvars)
  BY <1>2 DEF Stutters, Dict!dvars
<1>3. CASE UNCHANGED vars
  <2>1. Filled'
    BY <1>3 DEF vars, RInv, Filled
  <2>2. Stutters
    BY <1>3 DEF vars, Stutters, Contents
  <2> QED BY <1>1, <1>2, <2>1, <2>2 DEF RInv
<1>4. ASSUME NEW b \in Buckets, hashmap_init(b) PROVE Filled' /\ Stutters
  BY <1>4, InitDict
<1>5. ASSUME NEW k \in Keys, AppendNow(k) PROVE Filled' /\ Dict!DNext
  BY <1>5, AppendNowDict DEF Dict!DNext
<1>6. ASSUME NEW k \in Keys, AppendGrow(k) PROVE Filled' /\ Stutters
  <2>1. Ready /\ ExtendBegin(2, k)
    BY <1>6 DEF AppendGrow
  <2> QED BY <2>1, ExtendBeginDict
<1>7. ASSUME NEW f \in Factors, hashmap_extend(f) PROVE Filled' /\ Stutters
  <2>1. Ready /\ ExtendBegin(f, NoKey) /\ f \in Nat \ {0}
    BY <1>7, SizesAssumption DEF hashmap_extend
  <2> QED BY <2>1, ExtendBeginDict
<1>8. ASSUME NEW k \in Keys, Find(k) PROVE Filled' /\ Dict!DNext
  BY <1>8, FindLookup DEF Dict!DNext
<1>9. ASSUME NEW k \in Keys, NEW p \in Pages, KV_append(k, p)
      PROVE  Filled' /\ Dict!DNext
  BY <1>9, KV_appendDict DEF Dict!DNext
<1>10. ASSUME NEW k \in Keys, hashmap_delete(k) PROVE Filled' /\ Dict!DNext
  BY <1>10, DeleteDict DEF Dict!DNext
<1>11. ASSUME hashmap_free PROVE Filled' /\ Dict!DNext
  BY <1>11, FreeDict DEF Dict!DNext
<1>12. ASSUME Rehash PROVE Filled' /\ (Stutters \/ Dict!DNext)
  <2>1. CASE ExtendSkip
    BY <2>1, ExtendSkipDict
  <2>2. CASE ExtendMove
    BY <2>2, ExtendMoveDict
  <2>3. CASE ExtendEnd
    BY <2>3, ExtendEndDict DEF Dict!DNext
  <2> QED BY <1>12, <2>1, <2>2, <2>3 DEF Rehash
<1>13. CASE Next
  <2>1. Filled' /\ (Stutters \/ Dict!DNext)
    BY <1>4, <1>5, <1>6, <1>7, <1>8, <1>9, <1>10, <1>11, <1>12, <1>13 DEF Next, Calls
  <2> QED BY <1>1, <1>2, <2>1 DEF RInv
<1> QED BY <1>3, <1>13

\* The pages a KV counts have all been written: what hashmap_extend copies and
\* KV_append leaves is never memory realloc has not initialised.
THEOREM PagesWritten == Spec => []Filled
<1>1. RInv => Filled
  BY DEF RInv
<1> QED BY <1>1, InitRefines, StepRefines, PTL DEF Spec

\* The hash map is a dictionary: each call of hashmap.c changes what is stored
\* and answers as the call of Dictionary does, and the iterations of
\* hashmap_extend change neither.
THEOREM Refinement == Spec => ImplementsDictionary
<1> QED BY InitRefines, StepRefines, PTL DEF Spec, ImplementsDictionary, Dict!DSpec

=============================================================================
