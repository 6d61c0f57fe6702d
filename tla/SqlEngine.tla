------------------------------ MODULE SqlEngine ------------------------------
(***************************************************************************)
(* From statements to results: sql_gen_prog_from_ast_arr (sqlengine.c)     *)
(* compiles a statement into a program, the loop of main.c runs it on the  *)
(* stack machine, and main.c takes what it left on the stack: a page and   *)
(* its column definitions after CREATE, a table name and its values after  *)
(* INSERT, which are then checked against the definitions.  main.c runs    *)
(* one CREATE, one INSERT and one SELECT; here the statements are any,     *)
(* run one after the other on the same machine.                            *)
(*                                                                         *)
(* A statement is what preorder_tree makes of the tree of the parser: the  *)
(* head node and one item for each expression of the list.                 *)
(***************************************************************************)
EXTENDS StackMachine

CONSTANTS
  Statements,  (* [kind, name, items]: see CreateItems and InsertItems    *)
  MaxStmts     (* bound: statements in a session                          *)

\* A column: its name (the str of a token), the child the parser hung under it
\* ("none": no child, "other": no datatype word) and the size of a char(n),
\* which atoi reads as an int.
CreateItems == [name : Strings,
                dtype : {"char", "integer", "float", "other", "none"},
                size : {n \in Words : 2 * n < IntMod}]

\* A value: the type of the token at the head of the expression, and its
\* ival, fval or str.
InsertItems ==
  {v \in [type : {T_KEYWORD, T_IDENTIFIER, T_STRING, T_INTEGER, T_FLOAT, T_OPERATOR},
          val : Words] : v.type = T_STRING => v.val \in Strings}

ASSUME StatementsAssumption ==
  /\ MaxStmts \in Nat
  /\ \A s \in Statements :
       /\ s.kind \in {"CREATE", "INSERT", "SELECT"}
       /\ s.name \in Strings
       /\ s.items \in Seq(IF s.kind = "INSERT" THEN InsertItems ELSE CreateItems)

ASSUME WidthAssumption == IntMod > 8

VARIABLES
  phase,        (* "ready", "gen", "exec"; "exit" and "abort" are final    *)
  stmt,         (* the statement in hand                                   *)
  pos,          (* the loop index i of sql_gen_prog_from_ast_arr           *)
  thispage,     (* main.c's pointers to what the last CREATE left, 0 when  *)
  col_def_arr,  (*   there is none                                         *)
  done          (* history: the statements executed and what they left     *)

evars == <<prog, vmvars, phase, stmt, pos, thispage, col_def_arr, done>>

Ins(op, operand) == [op |-> op, operand |-> operand]

Push(w) == Ins("PUSH", w)

Emits(code) == prog' = prog \o code

NoStatement == [kind |-> "none", name |-> 0, items |-> << >>]

-----------------------------------------------------------------------------
(* Compiling.                                                              *)

EInit ==
  /\ VMInit
  /\ prog = << >>
  /\ phase = "ready" /\ stmt = NoStatement /\ pos = 0
  /\ thispage = 0 /\ col_def_arr = 0
  /\ done = << >>

\* The table's name, and what is made of it or next to it.
CreateHead(s) == <<Push(s.name), Ins("CREATE_TABLE", 0)>>

InsertHead(s) == <<Push(s.name), Ins("INSERT_PREP", 0)>>

\* sql_program is called; the code before the loop over the items.
GenHead(s) ==
  /\ phase = "ready" /\ Len(done) < MaxStmts
  /\ phase' = "gen" /\ stmt' = s /\ pos' = 1
  /\ prog' = CASE s.kind = "CREATE" -> CreateHead(s)
               [] s.kind = "INSERT" -> InsertHead(s)
               [] OTHER -> << >>
  /\ UNCHANGED <<vmvars, thispage, col_def_arr, done>>

\* The token type a datatype word stands for.
TypeCode == [char |-> T_STRING, integer |-> T_INTEGER, float |-> T_FLOAT]

\* The size of a column's values: any type except char is 8 bytes.
ColLen(item) == IF item.dtype = "char" THEN item.size ELSE 8

\* MUTANT: no type is pushed for float.
ColumnCode_NoFloat(item) ==
  IF item.dtype \in {"char", "integer"}
  THEN <<Push(item.name), Push(TypeCode[item.dtype]), Push(ColLen(item)),
         Ins("DEFINE_COLUMN", 0)>>
  ELSE <<Push(item.name), Push(ColLen(item)), Ins("DEFINE_COLUMN", 0)>>

\* A column: name, type, length.  The type is pushed only for the three
\* datatypes.
ColumnCode(item) ==
  IF item.dtype \in DOMAIN TypeCode
  THEN <<Push(item.name), Push(TypeCode[item.dtype]), Push(ColLen(item)),
         Ins("DEFINE_COLUMN", 0)>>
  ELSE <<Push(item.name), Push(ColLen(item)), Ins("DEFINE_COLUMN", 0)>>

Literals == {T_STRING, T_INTEGER, T_FLOAT}

\* A value: the token's type and, for a literal, its value.
ValueCode(item) ==
  IF item.type \in Literals
  THEN <<Push(item.type), Push(item.val), Ins("INSERT_VALUE", 0)>>
  ELSE <<Push(item.type), Ins("INSERT_VALUE", 0)>>

InLoop == phase = "gen" /\ stmt.kind # "SELECT" /\ pos <= Len(stmt.items)

\* The loop; at() asserts that a column has a child.
GenItem ==
  /\ InLoop
  /\ LET item == stmt.items[pos]
     IN  IF stmt.kind = "INSERT"
         THEN Emits(ValueCode(item)) /\ UNCHANGED phase
         ELSE IF item.dtype = "none"
         THEN phase' = "abort" /\ UNCHANGED prog
         ELSE Emits(ColumnCode(item)) /\ UNCHANGED phase
  /\ pos' = pos + 1
  /\ UNCHANGED <<vmvars, stmt, thispage, col_def_arr, done>>

\* MUTANT: the stack of the statement before is still there.
GenHalt_NoReset ==
  /\ phase = "gen" /\ ~InLoop
  /\ Emits(<<Ins("HLT", 0)>>)
  /\ IF stmt.kind = "SELECT"
     THEN /\ phase' = "ready"
          /\ done' = Append(done, [stmt |-> stmt, first |-> 0, second |-> 0])
          /\ UNCHANGED vmvars
     ELSE /\ phase' = "exec"
          /\ halt' = FALSE /\ pinst' = 0
          /\ UNCHANGED <<stack, heap, sig, fault, done>>
  /\ UNCHANGED <<stmt, pos, thispage, col_def_arr>>

\* The program ends; main.c empties the stack and rewinds the
\* machine before it runs a program.  It compiles a SELECT and
\* does not run it.
GenHalt ==
  /\ phase = "gen" /\ ~InLoop
  /\ Emits(<<Ins("HLT", 0)>>)
  /\ IF stmt.kind = "SELECT"
     THEN /\ phase' = "ready"
          /\ done' = Append(done, [stmt |-> stmt, first |-> 0, second |-> 0])
          /\ UNCHANGED vmvars
     ELSE /\ phase' = "exec"
          /\ stack' = << >> /\ halt' = FALSE /\ pinst' = 0
          /\ UNCHANGED <<heap, sig, fault, done>>
  /\ UNCHANGED <<stmt, pos, thispage, col_def_arr>>

-----------------------------------------------------------------------------
(* Running, and taking the result.                                         *)

Exec ==
  /\ phase = "exec"
  /\ vm_exec_prog
  /\ UNCHANGED <<prog, phase, stmt, pos, thispage, col_def_arr, done>>

\* MUTANT: the signal is reported and the loop goes on.
Exit_GoesOn ==
  /\ phase = "exec" /\ sig # "INST_SIG_OK"
  /\ sig' = "INST_SIG_OK"
  /\ UNCHANGED <<prog, pinst, stack, halt, heap, fault, phase, stmt, pos, thispage,
                 col_def_arr, done>>

\* exit(1) on a signal.
Exit ==
  /\ phase = "exec" /\ sig # "INST_SIG_OK"
  /\ phase' = "exit"
  /\ UNCHANGED <<prog, vmvars, stmt, pos, thispage, col_def_arr, done>>

\* vm.stack[0] and vm.stack[1].
Left2 == [stmt |-> stmt, first |-> stack[1], second |-> stack[2]]

Columns(ptr) == heap[ptr - HeapBase].items

TakeTable ==
  /\ phase = "exec" /\ halt /\ stmt.kind = "CREATE"
  /\ thispage' = stack[1] /\ col_def_arr' = stack[2]
  /\ done' = Append(done, Left2)
  /\ phase' = "ready"
  /\ UNCHANGED <<prog, vmvars, stmt, pos>>

\* MUTANT: the last column is not compared.
Fits_ButLast(cols, vals) ==
  /\ Len(cols) = Len(vals)
  /\ \A i \in 1 .. Len(vals) - 1 : cols[i].type = vals[i].datatype

\* The asserts: as many values as columns, and of their types.
Fits(cols, vals) ==
  /\ Len(cols) = Len(vals)
  /\ \A i \in 1 .. Len(vals) : cols[i].type = vals[i].datatype

TakeRow ==
  /\ phase = "exec" /\ halt /\ stmt.kind = "INSERT"
  /\ IF Fits(Columns(col_def_arr), Columns(stack[2]))
     THEN phase' = "ready" /\ done' = Append(done, Left2)
     ELSE phase' = "abort" /\ UNCHANGED done
  /\ UNCHANGED <<prog, vmvars, stmt, pos, thispage, col_def_arr>>

\* A statement's column definitions are needed before its rows.
Compile ==
  \E s \in Statements :
    (s.kind = "INSERT" => col_def_arr # 0) /\ GenHead(s)

Run == GenItem \/ GenHalt \/ Exec \/ Exit \/ TakeTable \/ TakeRow

ENext == Compile \/ Run

ESpec == EInit /\ [][ENext]_evars

\* Nothing in sql_program or the loop of main.c waits.
EFairSpec == ESpec /\ WF_evars(Run)

-----------------------------------------------------------------------------
(* What the engine is supposed to guarantee.                               *)

\* What the grammar means by a statement: every column has a datatype and
\* every value is a literal.
WellFormed(s) ==
  \A i \in 1 .. Len(s.items) :
    CASE s.kind = "CREATE" -> s.items[i].dtype \in DOMAIN TypeCode
      [] s.kind = "INSERT" -> s.items[i].type \in Literals
      [] OTHER -> TRUE

\* The compiler and the machine fit together: given five words of stack, the
\* program of a well-formed statement never signals and never reads or
\* writes where it may not.
CompiledCodeRuns ==
  VM_STACK_SIZE >= 5 /\ stmt.kind # "none" /\ WellFormed(stmt) =>
    sig = "INST_SIG_OK" /\ fault = "none"

\* The column definitions a CREATE means.
Meant(item) ==
  [colname |-> item.name, type |-> TypeCode[item.dtype],
   len |-> IF item.dtype = "char" THEN item.size ELSE 8]

\* What the statement left is what it says: the page carries the table's
\* name, its columns and the values of a row are those written, in their
\* order; and it stays so while later statements run on the same machine
\* (main.c uses the column definitions after the INSERT's program has run).
LeftAsWritten(r) ==
  CASE r.stmt.kind = "CREATE" ->
         /\ Points(r.first, "page") /\ Points(r.second, "coldefs")
         /\ heap[r.first - HeapBase].objname = r.stmt.name
         /\ Columns(r.second) = [i \in 1 .. Len(r.stmt.items) |-> Meant(r.stmt.items[i])]
    [] r.stmt.kind = "INSERT" ->
         /\ r.first = r.stmt.name /\ Points(r.second, "values")
         /\ Columns(r.second) =
              [i \in 1 .. Len(r.stmt.items) |->
                 [datatype |-> r.stmt.items[i].type, val |-> r.stmt.items[i].val]]
    [] OTHER -> TRUE

ResultsStand == \A n \in 1 .. Len(done) : LeftAsWritten(done[n])

\* A row that was accepted has a value of the declared datatype for each
\* column of the table created last, which the asserts of main.c compare it
\* with, whichever table it names: the words of the two statements agree,
\* whatever the type codes that went through two programs.
LastCreate(n) ==
  LET before == {m \in 1 .. n : done[m].stmt.kind = "CREATE"}
  IN  CHOOSE m \in before : \A o \in before : o <= m

RowsFitTheirTable ==
  \A n \in 1 .. Len(done) :
    done[n].stmt.kind = "INSERT" =>
      LET columns == done[LastCreate(n)].stmt.items
          values == done[n].stmt.items
      IN  /\ Len(columns) = Len(values)
          /\ \A i \in 1 .. Len(values) :
               values[i].type = TypeCode[columns[i].dtype]

\* Every statement comes to an end: a result, an exit or a failed assert.
StatementsEnd == phase \in {"gen", "exec"} ~> phase \notin {"gen", "exec"} \/ fault # "none"
=============================================================================
