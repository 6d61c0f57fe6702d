----------------------------- MODULE Dictionary -----------------------------
(***************************************************************************)
(* What the hash map of hashmap.c promises its callers, with no buckets,   *)
(* no probing and no rehashing: a set of object names, each with the list  *)
(* of page numbers appended to it.  `res' is the answer of the last call:  *)
(* which call it was, for which key, and whether it succeeded.             *)
(***************************************************************************)
EXTENDS Sequences

CONSTANTS
  Keys,     (* object names                                   *)
  Pages,    (* page numbers                                   *)
  NoKey,    (* the key of a call that has no key              *)
  Absent    (* dict[k] when k is not in the map               *)

VARIABLES dict, res

dvars == <<dict, res>>

Present(k) == dict[k] # Absent

Answer(op, k, ok) == res' = [op |-> op, key |-> k, ok |-> ok]

DInit ==
  /\ dict = [k \in Keys |-> Absent]
  /\ res = [op |-> "none", key |-> NoKey, ok |-> FALSE]

\* A new name enters with no pages; a name already there is refused.
Put(k) ==
  /\ dict' = IF Present(k) THEN dict ELSE [dict EXCEPT ![k] = << >>]
  /\ Answer("append", k, ~Present(k))

AddPage(k, p) ==
  /\ Present(k)
  /\ dict' = [dict EXCEPT ![k] = Append(@, p)]
  /\ Answer("pages", k, TRUE)

Lookup(k) ==
  /\ Answer("find", k, Present(k))
  /\ UNCHANGED dict

Remove(k) ==
  /\ dict' = [dict EXCEPT ![k] = Absent]
  /\ Answer("delete", k, Present(k))

\* hashmap_extend called directly: it reorganises and changes nothing.
Compact ==
  /\ Answer("extend", NoKey, FALSE)
  /\ UNCHANGED dict

Clear ==
  /\ dict' = [k \in Keys |-> Absent]
  /\ Answer("free", NoKey, FALSE)

DNext ==
  \/ \E k \in Keys : Put(k) \/ Lookup(k) \/ Remove(k)
  \/ \E k \in Keys, p \in Pages : AddPage(k, p)
  \/ Compact
  \/ Clear

DSpec == DInit /\ [][DNext]_dvars
=============================================================================
