----------------------------- MODULE MCHashMap -----------------------------
(***************************************************************************)
(* HashMap on four buckets or fewer.  The hash values make the chains      *)
(* collide and wrap around: with 4 buckets k1 and k2 start in the last     *)
(* one, k3 in the first; with 2 buckets k1, k2 start in the last.          *)
(***************************************************************************)
EXTENDS HashMap

CONSTANTS k1, k2, k3, k4

MCHash == [k \in Keys |-> CASE k = k1 -> 3 [] k = k2 -> 7 [] k = k3 -> 4 [] OTHER -> 5]
=============================================================================
