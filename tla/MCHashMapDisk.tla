---------------------------- MODULE MCHashMapDisk ---------------------------
(***************************************************************************)
(* Maps of two buckets saved, cut off and loaded.  Both keys start in the  *)
(* last bucket, so that the second to come lies before the first in the    *)
(* file.                                                                   *)
(***************************************************************************)
EXTENDS HashMapDisk, TLC

CONSTANTS k1, k2

MCHash == [k \in Keys |-> 3]

KeySymmetry == Permutations(Keys)
=============================================================================
