------------------------------- MODULE DbPage -------------------------------
(***************************************************************************)
(* A page of dbpage.h: a header and a data section that rows fill from its *)
(* end towards its start.  data[i] is the byte at offset i - 1 of the data *)
(* section; a byte is Zero or the k-th byte of a value, <<value, k>>.      *)
(***************************************************************************)
EXTENDS Integers, Sequences

CONSTANTS
  DataSize,   (* sizeof(page->data)                                       *)
  HeaderMod,  (* 2^32: the header's counters are uint32_t                 *)
  ObjNames    (* names a page can carry                                   *)

ASSUME PageAssumption ==
  /\ DataSize \in Nat \ {0}
  /\ HeaderMod \in Nat /\ DataSize < HeaderMod

Zero == <<0, 0>>

Bytes(values) == {Zero} \cup (values \X (Nat \ {0}))

DB_Page(bytes) ==
  [objname : ObjNames, pageno : Nat, slotno : 0 .. HeaderMod - 1, nextpage : {-1},
   freespace : 0 .. HeaderMod - 1, freespacetr : 0 .. HeaderMod - 1,
   data : [1 .. DataSize -> bytes]]

\* MUTANT: the pointer starts behind the last byte.
init_page_Behind(name) ==
  [objname |-> name, pageno |-> 0, slotno |-> 0, nextpage |-> -1,
   freespace |-> DataSize, freespacetr |-> DataSize,
   data |-> [i \in 1 .. DataSize |-> Zero]]

\* A page fresh from calloc and init_page.
init_page(name) ==
  [objname |-> name, pageno |-> 0, slotno |-> 0, nextpage |-> -1,
   freespace |-> DataSize, freespacetr |-> DataSize - 1,
   data |-> [i \in 1 .. DataSize |-> Zero]]

\* Where memcpy puts a row of n bytes, and whether that is in the data
\* section.  The code does not ask: a row that is not lands in the header or
\* outside the page.
Destination(page, n) == page.freespacetr - n + 1

InData(page, n) ==
  n = 0 \/ (Destination(page, n) >= 0 /\ page.freespacetr < DataSize)

\* MUTANTS: the pointer stays; the row is counted twice.
sql_ins_buf_to_page_Stays(page, buf) ==
  LET n   == Len(buf)
      dst == Destination(page, n)
  IN  [page EXCEPT
         !.data = [i \in 1 .. DataSize |->
                     IF i - dst \in 1 .. n THEN buf[i - dst] ELSE page.data[i]],
         !.freespace = (@ - n) % HeaderMod,
         !.slotno = (@ + 1) % HeaderMod]

sql_ins_buf_to_page_Twice(page, buf) ==
  LET n   == Len(buf)
      dst == Destination(page, n)
  IN  [page EXCEPT
         !.data = [i \in 1 .. DataSize |->
                     IF i - dst \in 1 .. n THEN buf[i - dst] ELSE page.data[i]],
         !.freespace = (@ - 2 * n) % HeaderMod,
         !.freespacetr = (@ - n) % HeaderMod,
         !.slotno = (@ + 1) % HeaderMod]

\* The row goes to the end of the free space; the counters follow, and wrap
\* when the page gets full: freespacetr is then HeaderMod - 1.
sql_ins_buf_to_page(page, buf) ==
  LET n   == Len(buf)
      dst == Destination(page, n)
  IN  [page EXCEPT
         !.data = [i \in 1 .. DataSize |->
                     IF i - dst \in 1 .. n THEN buf[i - dst] ELSE page.data[i]],
         !.freespace = (@ - n) % HeaderMod,
         !.freespacetr = (@ - n) % HeaderMod,
         !.slotno = (@ + 1) % HeaderMod]

\* The header describes the data section: freespace bytes are left, the
\* pointer is on the last of them, and they are still zero.
HeaderAgrees(page) ==
  /\ page.freespace <= DataSize
  /\ page.freespacetr = (page.freespace - 1) % HeaderMod
  /\ \A i \in 1 .. page.freespace : page.data[i] = Zero
=============================================================================
