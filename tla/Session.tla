------------------------------- MODULE Session ------------------------------
(***************************************************************************)
(* main.c around the engine: the table a CREATE leaves is filed under its  *)
(* name, and the row an INSERT leaves is laid out by the column            *)
(* definitions and copied to the table's page.  The way to the page is     *)
(* name -> page number (pagedir), page number -> place (pagetable), place  *)
(* -> page (buffer).  The three hash maps are functions from keys to the   *)
(* values appended to them, as Dictionary allows (run MCHashMapRefines).   *)
(*                                                                         *)
(* The code uses the -1 of a failed lookup as an index, copies strings     *)
(* with their own length and rows without asking for room.  Where that     *)
(* leads out of an object the C program has no meaning: storage is then    *)
(* "stray" and the model goes no further.                                  *)
(***************************************************************************)
EXTENDS SqlEngine, DbPage, Functions

CONSTANT StrLen  (* strlen of the strings *)

ASSUME StrLenAssumption == StrLen \in [Strings -> Nat]

VARIABLES
  pagedir,           (* mem.pagedir: name -> <<page number>>              *)
  pagetable,         (* mem.pagetable: page number -> <<place>>           *)
  table_definition,  (* name -> <<address of the column definitions>>     *)
  buffer,            (* mem.buffer[0 .. used-1]                           *)
  global_pageno,
  storage            (* "ok", "stray", or "abort": the assert failed      *)

store == <<pagedir, pagetable, table_definition, buffer, global_pageno, storage>>

svars == <<evars, store>>

SInit ==
  /\ EInit
  /\ pagedir = << >> /\ pagetable = << >> /\ table_definition = << >>
  /\ buffer = << >> /\ global_pageno = 0 /\ storage = "ok"

Ends(how) ==
  /\ storage' = how
  /\ UNCHANGED <<pagedir, pagetable, table_definition, buffer, global_pageno>>

\* hashmap_append of a new key and KV_append of its only value.
Entered(map, key, val) ==
  [k \in DOMAIN map \cup {key} |-> IF k \in DOMAIN map THEN map[k] ELSE <<val>>]

\* mem_append: the free list is always empty; the assert is that the page
\* number is new.
mem_append(page) ==
  /\ buffer' = Append(buffer, page)
  /\ pagetable' = Entered(pagetable, page.pageno, Len(buffer))

\* MUTANT: the page number is not counted up.
FileTable_SameNumber ==
  LET page == [init_page(heap[stack[1] - HeapBase].objname)
                 EXCEPT !.pageno = global_pageno]
  IN  IF page.objname \in DOMAIN pagedir
      THEN Ends("stray")
      ELSE IF page.pageno \in DOMAIN pagetable
      THEN Ends("abort")
      ELSE /\ pagedir' = Entered(pagedir, page.objname, page.pageno)
           /\ mem_append(page)
           /\ table_definition' = Entered(table_definition, page.objname, stack[2])
           /\ UNCHANGED <<global_pageno, storage>>

\* The page gets its number and goes to the memory area; the column
\* definitions are filed, and never looked up.
FileTable ==
  LET page == [init_page(heap[stack[1] - HeapBase].objname)
                 EXCEPT !.pageno = global_pageno]
  IN  IF page.objname \in DOMAIN pagedir
      THEN Ends("stray")
      ELSE IF page.pageno \in DOMAIN pagetable
      THEN Ends("abort")
      ELSE /\ global_pageno' = global_pageno + 1
           /\ pagedir' = Entered(pagedir, page.objname, page.pageno)
           /\ mem_append(page)
           /\ table_definition' = Entered(table_definition, page.objname, stack[2])
           /\ UNCHANGED storage

\* The sums of the first 0, 1, ... numbers of a sequence.
Sums(q) ==
  LET s[i \in 0 .. Len(q)] == IF i = 0 THEN 0 ELSE s[i - 1] + q[i]
  IN  s

\* Where a column starts in a row: the lengths of those before it are added
\* up; and the size of the whole row.
Offsets(cols) == Sums([i \in DOMAIN cols |-> cols[i].len])

Offset(cols, i) == Offsets(cols)[i - 1]

TupleSize(cols) == Offsets(cols)[Len(cols)]

\* The bytes memcpy copies for a value: a string without its end, or the
\* word's bytes.
Copied(type, val, len) ==
  [k \in 1 .. (IF type = T_STRING THEN StrLen[val] ELSE len) |-> <<val, k>>]

\* MUTANT: strings are copied last.
Tuple_StringsLast(cols, vals) ==
  LET src(i) == Copied(vals[i].datatype, vals[i].val, cols[i].len)
      over(p) == {i \in DOMAIN vals : p - Offset(cols, i) \in DOMAIN src(i)}
      last(p) == CHOOSE i \in over(p) :
                   \A j \in over(p) : (vals[i].datatype = T_STRING) \/ j <= i
  IN  [p \in 1 .. TupleSize(cols) |->
         IF over(p) = {} THEN Zero ELSE src(last(p))[p - Offset(cols, last(p))]]

\* The row: zeros, over which the values are copied one after the other.  A
\* byte shows the last copy that reached it.
Tuple(cols, vals) ==
  LET src(i) == Copied(vals[i].datatype, vals[i].val, cols[i].len)
      over(p) == {i \in DOMAIN vals : p - Offset(cols, i) \in DOMAIN src(i)}
      last(p) == CHOOSE i \in over(p) : \A j \in over(p) : j <= i
  IN  [p \in 1 .. TupleSize(cols) |->
         IF over(p) = {} THEN Zero ELSE src(last(p))[p - Offset(cols, last(p))]]

\* A copy runs past the row.
Overruns(cols, vals) ==
  \E i \in DOMAIN vals :
    Offset(cols, i) + Len(Copied(vals[i].datatype, vals[i].val, cols[i].len))
      > TupleSize(cols)

PageOf(name) == buffer[pagetable[pagedir[name][1]][1] + 1]

StoreRow ==
  LET name == stack[1]
      cols == Columns(col_def_arr)
      vals == Columns(stack[2])
  IN  IF \/ name \notin DOMAIN pagedir
         \/ Overruns(cols, vals)
         \/ ~InData(PageOf(name), TupleSize(cols))
      THEN Ends("stray")
      ELSE /\ buffer' = [buffer EXCEPT ![pagetable[pagedir[name][1]][1] + 1] =
                           sql_ins_buf_to_page(@, Tuple(cols, vals))]
           /\ UNCHANGED <<pagedir, pagetable, table_definition, global_pageno, storage>>

CreateTable == storage = "ok" /\ TakeTable /\ FileTable

\* A row that failed the asserts has ended the program.
InsertRow ==
  /\ storage = "ok" /\ TakeRow
  /\ IF phase' = "abort" THEN UNCHANGED store ELSE StoreRow

SNext ==
  \/ storage = "ok" /\ (Compile \/ GenItem \/ GenHalt \/ Exec \/ Exit) /\ UNCHANGED store
  \/ CreateTable
  \/ InsertRow

SSpec == SInit /\ [][SNext]_svars
-----------------------------------------------------------------------------
(* What the session is supposed to guarantee.                              *)

\* The statements whose results are in the store: all but the one that led
\* astray.
Filed == IF storage = "ok" THEN done ELSE SubSeq(done, 1, Len(done) - 1)

RowOf(r, name) == r.stmt.kind = "INSERT" /\ r.stmt.name = name

\* The statements that put rows into the table, among the first n of a log.
RowsUpTo(log, name) ==
  LET rows[n \in 0 .. Len(log)] ==
        IF n = 0 THEN << >>
        ELSE IF RowOf(log[n], name) THEN Append(rows[n - 1], n) ELSE rows[n - 1]
  IN  rows

Rows(name) == RowsUpTo(Filed, name)[Len(Filed)]

\* The layout of the row of statement m, and its place: rows of a page lie
\* one before the other, the first at the end.
Layout(m) == Columns(done[LastCreate(m)].second)

Taken(rows, k) == Sums([j \in DOMAIN rows |-> TupleSize(Layout(rows[j]))])[k]

RowBytes(page, rows, k) ==
  LET start == DataSize - Taken(rows, k)
  IN  SubSeq(page.data, start + 1, start + TupleSize(Layout(rows[k])))

\* The directory leads from each table to a page of its own that carries its
\* name, and the page's header tells how many rows it holds and how much room
\* they leave: insertions into different tables, in any order, do not mix.
PagesAgree ==
  /\ storage # "abort"
  /\ IsInjective([n \in DOMAIN pagedir |-> pagetable[pagedir[n][1]]])
  /\ \A name \in DOMAIN pagedir :
       LET page == PageOf(name)
           rows == Rows(name)
       IN  /\ page.objname = name /\ page.pageno = pagedir[name][1]
           /\ page.slotno = Len(rows)
           /\ page.freespace = DataSize - Taken(rows, Len(rows))
           /\ HeaderAgrees(page)

\* Promises of the one who writes the statements.
NewName(s) == s.name \notin DOMAIN pagedir

StringsFit(s) ==
  \A i \in DOMAIN s.items :
    s.items[i].type = T_STRING => StrLen[s.items[i].val] <= Columns(col_def_arr)[i].len

RoomLeft(s) ==
  LET rows == Rows(s.name)
  IN  Taken(rows, Len(rows)) + TupleSize(Columns(col_def_arr)) <= DataSize

\* Nothing is written where it does not belong as long as tables have
\* different names, rows go to tables that exist, strings fit their columns
\* and the rows of a table fit its page: down to the last byte of the page,
\* and whatever was done before.
StrayOnlyBeyondContract ==
  storage = "stray" =>
    CASE stmt.kind = "CREATE" -> ~NewName(stmt)
      [] stmt.kind = "INSERT" -> NewName(stmt) \/ ~StringsFit(stmt) \/ ~RoomLeft(stmt)
      [] OTHER -> FALSE

\* What is read back from the column of a row: the value whose copy is there,
\* with nothing but zeros behind it.  Garbled is no word.
Garbled == -1

Shows(type, len, bytes, val) ==
  LET src == Copied(type, val, len)
  IN  /\ Len(src) <= len
      /\ bytes = [k \in 1 .. len |-> IF k \in DOMAIN src THEN src[k] ELSE Zero]

ValueRead(type, len, bytes) ==
  LET words == IF type = T_STRING THEN Strings ELSE {bytes[1][1]}
  IN  IF \E val \in words : Shows(type, len, bytes, val)
      THEN CHOOSE val \in words : Shows(type, len, bytes, val) ELSE Garbled

\* A column of a row, and the row.
ColumnRead(cols, bytes, i) ==
  LET start == Offset(cols, i)
  IN  ValueRead(cols[i].type, cols[i].len,
                SubSeq(bytes, start + 1, start + cols[i].len))

RowRead(page, rows, k) ==
  LET cols  == Layout(rows[k])
      bytes == RowBytes(page, rows, k)
  IN  [i \in DOMAIN cols |-> ColumnRead(cols, bytes, i)]

TablesRead ==
  [name \in DOMAIN pagedir |->
     LET page == PageOf(name)
         rows == Rows(name)
     IN  [k \in DOMAIN rows |-> RowRead(page, rows, k)]]

ColumnsRead ==
  IF \A m \in DOMAIN Filed : Filed[m].stmt.kind # "CREATE"
  THEN << >> ELSE Filed[LastCreate(Len(Filed))].stmt.items

\* The session implements tables of rows: what was inserted is read back as
\* it was written, in the order of the insertions, from the table that was
\* named, and no later statement changes it.
Abstract == INSTANCE Tables
              WITH log <- [m \in DOMAIN Filed |-> Filed[m].stmt],
                   tables <- TablesRead, columns <- ColumnsRead, TypeOf <- TypeCode

ImplementsTables == Abstract!TSpec
=============================================================================
