----------------------------- MODULE HashMapDisk ----------------------------
(***************************************************************************)
(* hashmap_todisk and hashmap_fromdisk around the hash map, with a process *)
(* that may die at any moment.  Saving truncates the file and writes the   *)
(* header, then for each bucket its KV and its pages, one write after the  *)
(* other; what a dead process has written stays.  Loading reads the file   *)
(* in the same order into zeroed memory and takes whatever is missing for  *)
(* zeros.  The file is the sequence of the pieces written.                 *)
(***************************************************************************)
EXTENDS HashMap

CONSTANT NoFile

ASSUME ZeroIsAPage == 0 \in Pages

VARIABLES
  file,   (* the pieces in the file, or NoFile                            *)
  next,   (* pieces hashmap_todisk has still to write; -1: not saving     *)
  saved,  (* history: the contents when the last save began, and torn     *)
  torn,   (* history: the map comes from a file that was cut off, and has *)
          (*   not been rebuilt since                                     *)
  fresh   (* history: the map is as the last load left it                 *)

disk == <<file, next, saved, torn, fresh>>

dkvars == <<vars, disk>>

DiskInit ==
  /\ Init
  /\ file = NoFile /\ next = -1 /\ saved = [dict |-> Contents, torn |-> FALSE]
  /\ torn = FALSE /\ fresh = FALSE

NotSaving == next = -1

\* A call of the other operations.  A rehash fills a new array.
Use ==
  /\ NotSaving /\ Next
  /\ torn' = (torn /\ phase' # "rehash" /\ capa' # 0)
  /\ fresh' = FALSE
  /\ UNCHANGED <<file, next, saved>>

-----------------------------------------------------------------------------
(* hashmap_todisk.                                                         *)

Header == [capa |-> capa, cnt |-> cnt]

\* The n-th piece: the header, then a KV without its pointer and the used
\* part of its pages in turn.
Piece(n) ==
  LET kv == items[(n - 2) \div 2]
  IN  IF n = 1 THEN Header
      ELSE IF n % 2 = 0 THEN [kv EXCEPT !.pageno = << >>]
      ELSE Pagenos(kv)

Pieces(c) == 1 + 2 * c

\* open with O_TRUNC: the file before is gone.
Open ==
  /\ Ready /\ NotSaving
  /\ file' = << >> /\ next' = Pieces(capa)
  /\ saved' = [dict |-> Contents, torn |-> torn]
  /\ UNCHANGED <<vars, torn, fresh>>

Write ==
  /\ next > 0
  /\ file' = Append(file, Piece(Len(file) + 1))
  /\ next' = next - 1
  /\ UNCHANGED <<vars, saved, torn, fresh>>

Return ==
  /\ next = 0
  /\ next' = -1
  /\ UNCHANGED <<vars, file, saved, torn, fresh>>

-----------------------------------------------------------------------------
(* hashmap_fromdisk.                                                       *)

Missing(n) == n > Len(file)

\* MUTANTS: the pages are not read; the list's memory is not zeroed.
LoadedKV_NoPages(i) ==
  IF Missing(2 * i + 2) THEN EmptyKV
  ELSE LET kv == file[2 * i + 2]
       IN  [kv EXCEPT !.pageno = [j \in 1 .. kv.capa |-> 0]]

LoadedKV_Malloc(i) ==
  IF Missing(2 * i + 2) THEN EmptyKV
  ELSE LET kv == file[2 * i + 2]
       IN  [kv EXCEPT !.pageno =
              [j \in 1 .. kv.capa |->
                 IF j <= kv.cnt /\ ~Missing(2 * i + 3)
                 THEN file[2 * i + 3][j] ELSE NoPage]]

\* Bucket i: zeros if its KV is missing; its list is zeros up to its
\* capacity, over which the pages are read if they are there.
LoadedKV(i) ==
  IF Missing(2 * i + 2) THEN EmptyKV
  ELSE LET kv == file[2 * i + 2]
       IN  [kv EXCEPT !.pageno =
              [j \in 1 .. kv.capa |->
                 IF j <= kv.cnt /\ ~Missing(2 * i + 3)
                 THEN file[2 * i + 3][j] ELSE 0]]

\* MUTANT: the count is not read.
LoadHeader_NoCnt ==
  IF Missing(1) THEN UNCHANGED <<capa, cnt>>
  ELSE capa' = file[1].capa /\ cnt' = 0

\* A missing header leaves the map's own numbers.
LoadHeader ==
  IF Missing(1) THEN UNCHANGED <<capa, cnt>>
  ELSE capa' = file[1].capa /\ cnt' = file[1].cnt

\* Into a map that is new or in use, whose buckets are forgotten.
Load ==
  /\ ~abort /\ phase = "idle" /\ NotSaving /\ file # NoFile
  /\ LoadHeader
  /\ items' = [i \in 0 .. capa' - 1 |-> LoadedKV(i)]
  /\ torn' = (saved.torn \/ Missing(Pieces(capa')))
  /\ fresh' = TRUE
  /\ ret' = [op |-> "none", key |-> NoKey, idx |-> -1]
  /\ NoRehash
  /\ UNCHANGED <<abort, file, next, saved>>

\* The process dies, in the middle of anything; the next one starts with the
\* file as it is.
Crash ==
  /\ ~abort
  /\ capa' = 0 /\ cnt' = 0 /\ items' = Fresh(0)
  /\ phase' = "idle" /\ temp' = Fresh(0) /\ old_capa' = 0 /\ pos' = 0
  /\ pending' = NoKey
  /\ ret' = [op |-> "none", key |-> NoKey, idx |-> -1]
  /\ next' = -1 /\ torn' = FALSE /\ fresh' = FALSE
  /\ UNCHANGED <<abort, file, saved>>

DiskNext == Use \/ Open \/ Write \/ Return \/ Load \/ Crash

DiskSpec == DiskInit /\ [][DiskNext]_dkvars

-----------------------------------------------------------------------------
(* What saving and loading are supposed to guarantee.                      *)

\* A file that was written to its end brings back the map: the same keys with
\* the same pages, whatever the process that saved it did before and however
\* it ended.
SavedComesBack == fresh /\ ~torn => Contents = saved.dict

\* A file cut off brings back nothing that was not in the map: of each key
\* nothing or all, except that one key may have lost the numbers of its
\* pages, which then read 0, the number of the first page.
Zeroed(k) ==
  /\ Contents[k] # Absent /\ saved.dict[k] # Absent
  /\ Contents[k] = [j \in DOMAIN saved.dict[k] |-> 0]

TornInventsNothing ==
  fresh /\ torn /\ ~saved.torn =>
    \E hit \in Keys \cup {NoKey} :
      \A k \in Keys :
        Contents[k] \in {Absent, saved.dict[k]} \/ (k = hit /\ Zeroed(k))

\* Saved or loaded, the map is a map: every key is in one bucket, is found
\* there, and is counted.  A cut-off file can break the chains (a key whose
\* chain starts in a bucket that is missing is stored and not found, and may
\* be stored twice), until the next rehash mends them.
SoundUnlessTorn ==
  ~torn => /\ FlagsAgree /\ NoDuplicates /\ ChainsUnbroken /\ FindIsExact
           /\ CntIsOccupied
=============================================================================
