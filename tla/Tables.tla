------------------------------- MODULE Tables -------------------------------
(***************************************************************************)
(* What a session promises, with no pages, no directory and no machine: a  *)
(* table is a sequence of rows, CREATE adds an empty table under a new     *)
(* name, INSERT appends one row to the table it names and touches nothing  *)
(* else, if its values are of the types of the columns.  A value is stored *)
(* as written unless a string of the row, at its place or before it, is    *)
(* longer than its column: then a string may be garbled or read as         *)
(* another, a number is not.  Any two empty strings read the same.         *)
(***************************************************************************)
EXTENDS Integers, Sequences

CONSTANTS
  Statements,  (* [kind, name, items], as in SqlEngine                    *)
  TypeOf,      (* the type of the values of a column, by its datatype     *)
  Strings,     (* the strings                                             *)
  StrLen,      (* the length of a string                                  *)
  Garbled      (* what is read where no value was written                 *)

VARIABLES
  log,         (* the statements executed                                 *)
  tables,      (* name -> rows                                            *)
  columns      (* the columns of the table created last                   *)

tvars == <<log, tables, columns>>

TInit == log = << >> /\ tables = << >> /\ columns = << >>

Executes(s, kind) == s.kind = kind /\ log' = Append(log, s)

Create(s) ==
  /\ Executes(s, "CREATE")
  /\ s.name \notin DOMAIN tables
  /\ tables' = [name \in DOMAIN tables \cup {s.name} |->
                  IF name = s.name THEN << >> ELSE tables[name]]
  /\ columns' = s.items

\* The string for column j is too long for it.
Spills(s, j) ==
  columns[j].dtype = "char" /\ StrLen[s.items[j].val] > columns[j].size

BothEmpty(a, b) == {a, b} \subseteq Strings /\ StrLen[a] = 0 /\ StrLen[b] = 0

Stored(s, row) ==
  \A i \in DOMAIN s.items :
    \/ row[i] = s.items[i].val
    \/ /\ columns[i].dtype = "char"
       /\ BothEmpty(row[i], s.items[i].val) \/ \E j \in 1 .. i : Spills(s, j)

\* What a column may show.
Shown(s) == {s.items[i].val : i \in DOMAIN s.items} \cup Strings \cup {Garbled}

Insert(s) ==
  /\ Executes(s, "INSERT")
  /\ s.name \in DOMAIN tables
  /\ Len(s.items) = Len(columns)
  /\ \A i \in DOMAIN s.items : s.items[i].type = TypeOf[columns[i].dtype]
  /\ \E row \in [DOMAIN s.items -> Shown(s)] :
       /\ Stored(s, row)
       /\ tables' = [tables EXCEPT ![s.name] = Append(@, row)]
  /\ UNCHANGED columns

Select(s) ==
  /\ Executes(s, "SELECT")
  /\ UNCHANGED <<tables, columns>>

TNext == \E s \in Statements : Create(s) \/ Insert(s) \/ Select(s)

TSpec == TInit /\ [][TNext]_tvars
=============================================================================
