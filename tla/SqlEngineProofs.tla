--------------------------- MODULE SqlEngineProofs ---------------------------
(***************************************************************************)
(* The compiler and the machine, proved together: for every set of         *)
(* statements of any length, every width of a word, every size of the      *)
(* stack and every number of objects.                                      *)
(*                                                                         *)
(* The invariant says where the code of an item lies in the program (every *)
(* item before it being well-formed, at a distance that depends on its     *)
(* index alone), and what the machine has on its stack and in its heap     *)
(* when it has done i items and k instructions of the next.  The program   *)
(* of a statement with an ill-formed item never gets past that item.       *)
(***************************************************************************)
EXTENDS SqlEngine, StackMachineProofs

-----------------------------------------------------------------------------
(* The program of a statement.                                             *)

Inserting(s) == s.kind = "INSERT"

ItemCode(s, i) ==
  IF Inserting(s) THEN ValueCode(s.items[i]) ELSE ColumnCode(s.items[i])

\* The grammar's items, one by one: WellFormed says it of all.
ItemOK(s, i) ==
  IF Inserting(s) THEN s.items[i].type \in Literals ELSE s.items[i].dtype \in DOMAIN TypeCode

UpTo(s, i) == \A j \in 1 .. i : ItemOK(s, j)

\* Where the code of item i starts, counted from 0, if the items before it
\* are well-formed.
Start(s, i) == IF Inserting(s) THEN 2 + 3 * (i - 1) ELSE 2 + 4 * (i - 1)

HeadCode(s) == IF Inserting(s) THEN InsertHead(s) ELSE CreateHead(s)

\* The head and the code of the first n items are in the program.
Laid(s, n) ==
  /\ Len(prog) >= 2 /\ prog[1] = HeadCode(s)[1] /\ prog[2] = HeadCode(s)[2]
  /\ \A i \in 1 .. n : UpTo(s, i - 1) =>
       /\ Start(s, i) + Len(ItemCode(s, i)) <= Len(prog)
       /\ \A k \in 1 .. Len(ItemCode(s, i)) : prog[Start(s, i) + k] = ItemCode(s, i)[k]

\* While the loop runs: the items before pos are compiled.
GenInv ==
  stmt.kind # "SELECT" =>
    /\ pos \in 1 .. Len(stmt.items) + 1
    /\ Laid(stmt, pos - 1)
    /\ UpTo(stmt, pos - 1) => Len(prog) = Start(stmt, pos)

-----------------------------------------------------------------------------
(* The machine while it runs the program.                                  *)

ItemMeant(s, i) ==
  IF Inserting(s)
  THEN [datatype |-> s.items[i].type, val |-> s.items[i].val]
  ELSE Meant(s.items[i])

\* The two words at the bottom of the stack, after i items.
Made(s, i) ==
  /\ Points(stack[2], IF Inserting(s) THEN "values" ELSE "coldefs")
  /\ Columns(stack[2]) = [j \in 1 .. i |-> ItemMeant(s, j)]
  /\ IF Inserting(s)
     THEN stack[1] = s.name
     ELSE Points(stack[1], "page") /\ heap[stack[1] - HeapBase].objname = s.name
  /\ \A m \in 1 .. Len(done) :
       done[m].stmt.kind # "SELECT" => done[m].second < stack[2]

\* i items are done, and k instructions of the next.
Stage(s, i, k) ==
  /\ UpTo(s, i)
  /\ pinst = Start(s, i + 1) + k
  /\ Size = 2 + k
  /\ k > 0 => i < Len(s.items) /\ k < Len(ItemCode(s, i + 1))
  /\ \A j \in 1 .. k : stack[2 + j] = ItemCode(s, i + 1)[j].operand
  /\ Made(s, i)

\* The head is done, up to n of its two instructions.
Opening(s, n) ==
  /\ pinst = n /\ Size = n
  /\ n = 1 => stack[1] = s.name

MachineInv ==
  \/ ~halt /\ \E n \in 0 .. 1 : Opening(stmt, n)
  \/ ~halt /\ \E i \in 0 .. Len(stmt.items), k \in 0 .. 3 : Stage(stmt, i, k)
  \/ halt /\ Stage(stmt, Len(stmt.items), 0)

ExecInv ==
  /\ stmt.kind # "SELECT"
  /\ Laid(stmt, Len(stmt.items))
  /\ UpTo(stmt, Len(stmt.items)) =>
       /\ Len(prog) = Start(stmt, Len(stmt.items) + 1) + 1
       /\ prog[Len(prog)] = Ins("HLT", 0)
  /\ halt => sig = "INST_SIG_OK" /\ fault = "none"
  /\ sig = "INST_SIG_OK" /\ fault = "none" => MachineInv

-----------------------------------------------------------------------------
(* The statements done.                                                    *)

Results == [stmt : Statements, first : Words, second : Words]

EngineTypes ==
  /\ VMTypeOK /\ prog \in Seq(Instructions)
  /\ phase \in {"ready", "gen", "exec", "exit", "abort"}
  /\ stmt = NoStatement \/ stmt \in Statements
  /\ phase \in {"gen", "exec"} => stmt \in Statements
  /\ pos \in Nat
  /\ done \in Seq(Results)

\* m is the last CREATE of the first n statements.
IsLastCreate(m, n) ==
  /\ m \in 1 .. n /\ done[m].stmt.kind = "CREATE"
  /\ \A o \in m + 1 .. n : done[o].stmt.kind # "CREATE"

\* col_def_arr is what the last CREATE left.
PointerInv ==
  /\ col_def_arr = 0 => \A m \in 1 .. Len(done) : done[m].stmt.kind # "CREATE"
  /\ col_def_arr # 0 =>
       \E m \in 1 .. Len(done) :
         IsLastCreate(m, Len(done)) /\ done[m].second = col_def_arr
  /\ phase \in {"gen", "exec"} /\ stmt.kind = "INSERT" => col_def_arr # 0

\* A value of the declared datatype for each column.
RowFits(create, row) ==
  /\ Len(create.items) = Len(row.items)
  /\ \A i \in 1 .. Len(row.items) : row.items[i].type = TypeCode[create.items[i].dtype]

\* Each row has a last CREATE before it, whose columns it fits.
RowsInv ==
  \A n \in 1 .. Len(done) :
    done[n].stmt.kind = "INSERT" =>
      \E m \in 1 .. n : IsLastCreate(m, n) /\ RowFits(done[m].stmt, done[n].stmt)

EInv ==
  /\ EngineTypes
  /\ phase \in {"ready", "gen", "abort"} => sig = "INST_SIG_OK" /\ fault = "none"
  /\ phase = "gen" => GenInv
  /\ phase = "exec" => ExecInv
  /\ CompiledCodeRuns
  /\ ResultsStand
  /\ PointerInv
  /\ RowsInv

-----------------------------------------------------------------------------
(* What the compiler emits.                                                *)

\* Push and Ins make instructions.
LEMMA MakesInstructions ==
  /\ \A w \in Words : Push(w) \in Instructions /\ Push(w).op = "PUSH" /\ Push(w).operand = w
  /\ \A op \in Ops : Ins(op, 0) \in Instructions /\ Ins(op, 0).op = op
BY WordFacts DEF Push, Ins, Instructions, Ops, Words

LEMMA StatementFacts ==
  ASSUME NEW s \in Statements
  PROVE  /\ s.kind \in {"CREATE", "INSERT", "SELECT"} /\ s.kind # "none"
         /\ s.name \in Strings /\ s.name \in Words
         /\ Len(s.items) \in Nat
         /\ Inserting(s) => s.items \in Seq(InsertItems)
         /\ ~Inserting(s) => s.items \in Seq(CreateItems)
BY StatementsAssumption, WordFacts DEF Inserting

\* A type code, and eight bytes, are words.
LEMMA CodeWords ==
  /\ \A d \in DOMAIN TypeCode : TypeCode[d] \in Words
  /\ DOMAIN TypeCode = {"char", "integer", "float"}
  /\ 8 \in Words
  /\ {T_KEYWORD, T_IDENTIFIER, T_STRING, T_INTEGER, T_FLOAT, T_OPERATOR} \subseteq Words
  /\ Literals \subseteq Words
<1>1. {0, 1, 2, 3, 4, 6, 8} \subseteq Words
  BY WidthAssumption, WordsAssumption DEF Words
<1>2. DOMAIN TypeCode = {"char", "integer", "float"}
  BY DEF TypeCode
<1>3. \A d \in DOMAIN TypeCode : TypeCode[d] \in {T_STRING, T_INTEGER, T_FLOAT}
  BY <1>2 DEF TypeCode
<1> QED BY <1>1, <1>2, <1>3
        DEF T_KEYWORD, T_IDENTIFIER, T_STRING, T_INTEGER, T_FLOAT, T_OPERATOR, Literals

\* The type and the size of a column that is compiled fit an int.
LEMMA ColumnFits ==
  ASSUME NEW item \in CreateItems, item.dtype \in DOMAIN TypeCode
  PROVE  /\ Narrowed(TypeCode[item.dtype]) = TypeCode[item.dtype]
         /\ Narrowed(ColLen(item)) = ColLen(item)
<1>1. IntMod \in Nat /\ IntMod > 8
  BY WidthAssumption, WordsAssumption
<1>2. TypeCode[item.dtype] \in {2, 3, 4}
  BY DEF TypeCode, T_STRING, T_INTEGER, T_FLOAT
<1>3. ColLen(item) \in Nat /\ ColLen(item) < IntMod
  <2>1. item.size \in Nat /\ 2 * item.size < IntMod
    BY WordsAssumption DEF CreateItems, Words
  <2> QED BY <1>1, <2>1 DEF ColLen
<1> QED BY <1>1, <1>2, <1>3, NarrowedFacts

\* The code of an item: three or four instructions if it is well-formed, one
\* less if not.
LEMMA CodeFacts ==
  ASSUME NEW s \in Statements, NEW i \in 1 .. Len(s.items)
  PROVE  LET item == s.items[i]
             code == ItemCode(s, i)
         IN  /\ code \in Seq(Instructions) /\ Len(code) \in 2 .. 4
             /\ \A k \in 1 .. Len(code) - 1 :
                  code[k].op = "PUSH" /\ code[k].operand \in Words
             /\ code[Len(code)] =
                  Ins(IF Inserting(s) THEN "INSERT_VALUE" ELSE "DEFINE_COLUMN", 0)
             /\ Inserting(s) /\ ItemOK(s, i) =>
                  /\ Len(code) = 3
                  /\ code[1].operand = item.type /\ code[2].operand = item.val
             /\ Inserting(s) /\ ~ItemOK(s, i) => Len(code) = 2
             /\ ~Inserting(s) /\ ItemOK(s, i) =>
                  /\ Len(code) = 4
                  /\ code[1].operand = item.name /\ code[2].operand = TypeCode[item.dtype]
                  /\ code[3].operand = ColLen(item)
             /\ ~Inserting(s) /\ ~ItemOK(s, i) => Len(code) = 3
<1> DEFINE item == s.items[i]
           code == ItemCode(s, i)
<1>1. CASE Inserting(s)
  <2>1. item \in InsertItems
    BY <1>1, StatementFacts
  <2>2. item.type \in Words /\ item.val \in Words
    BY <2>1, CodeWords DEF InsertItems
  <2>3. /\ Push(item.type) \in Instructions /\ Push(item.val) \in Instructions
        /\ Ins("INSERT_VALUE", 0) \in Instructions
        /\ Push(item.type).op = "PUSH" /\ Push(item.type).operand = item.type
        /\ Push(item.val).op = "PUSH" /\ Push(item.val).operand = item.val
    BY <2>2, MakesInstructions DEF Ops
  <2>4. CASE ItemOK(s, i)
    <3>1. code = <<Push(item.type), Push(item.val), Ins("INSERT_VALUE", 0)>>
      BY <1>1, <2>4 DEF ItemCode, ItemOK, ValueCode
    <3> HIDE DEF item, code
    <3> QED BY <1>1, <2>2, <2>3, <2>4, <3>1 DEF item, code
  <2>5. CASE ~ItemOK(s, i)
    <3>1. code = <<Push(item.type), Ins("INSERT_VALUE", 0)>>
      BY <1>1, <2>5 DEF ItemCode, ItemOK, ValueCode
    <3> HIDE DEF item, code
    <3> QED BY <1>1, <2>2, <2>3, <2>5, <3>1 DEF item, code
  <2> QED BY <2>4, <2>5
<1>2. CASE ~Inserting(s)
  <2>1. item \in CreateItems
    BY <1>2, StatementFacts
  <2>2. item.name \in Words /\ ColLen(item) \in Words
        /\ (item.dtype \in DOMAIN TypeCode => TypeCode[item.dtype] \in Words)
    BY <2>1, CodeWords, WordFacts DEF CreateItems, ColLen
  <2>3. /\ Push(item.name) \in Instructions /\ Push(ColLen(item)) \in Instructions
        /\ Ins("DEFINE_COLUMN", 0) \in Instructions
        /\ Push(item.name).op = "PUSH" /\ Push(item.name).operand = item.name
        /\ Push(ColLen(item)).op = "PUSH" /\ Push(ColLen(item)).operand = ColLen(item)
    BY <2>2, MakesInstructions DEF Ops
  <2>4. CASE ItemOK(s, i)
    <3> DEFINE type == TypeCode[item.dtype]
    <3>1. type \in Words
      BY <1>2, <2>2, <2>4 DEF ItemOK
    <3> HIDE DEF type
    <3>2. Push(type) \in Instructions /\ Push(type).op = "PUSH" /\ Push(type).operand = type
      BY <3>1, MakesInstructions
    <3>3. code = <<Push(item.name), Push(type), Push(ColLen(item)), Ins("DEFINE_COLUMN", 0)>>
      <4> HIDE DEF item
      <4>1. code = ColumnCode(item) /\ item.dtype \in DOMAIN TypeCode
        BY <1>2, <2>4 DEF ItemCode, ItemOK, item
      <4> HIDE DEF code
      <4> QED BY <4>1 DEF ColumnCode, type
    <3> HIDE DEF item, code
    <3>4. /\ code \in Seq(Instructions) /\ Len(code) = 4
          /\ code[1] = Push(item.name) /\ code[2] = Push(type)
          /\ code[3] = Push(ColLen(item)) /\ code[4] = Ins("DEFINE_COLUMN", 0)
      BY ONLY <2>3, <3>2, <3>3
    <3>5. ASSUME NEW k \in 1 .. Len(code) - 1
          PROVE  code[k].op = "PUSH" /\ code[k].operand \in Words
      <4>1. k = 1 \/ k = 2 \/ k = 3
        BY ONLY <3>4, <3>5
      <4> QED BY ONLY <2>2, <2>3, <3>1, <3>2, <3>4, <4>1
    <3>6. /\ Len(code) \in 2 .. 4 /\ code[Len(code)] = Ins("DEFINE_COLUMN", 0)
          /\ code[1].operand = item.name /\ code[2].operand = type
          /\ code[3].operand = ColLen(item)
      BY ONLY <2>3, <3>2, <3>4
    <3> QED BY ONLY <1>2, <2>4, <3>4, <3>5, <3>6 DEF item, code, type
  <2>5. CASE ~ItemOK(s, i)
    <3>1. code = <<Push(item.name), Push(ColLen(item)), Ins("DEFINE_COLUMN", 0)>>
      BY <1>2, <2>5 DEF ItemCode, ItemOK, ColumnCode, ColLen
    <3> HIDE DEF item, code
    <3> QED BY <1>2, <2>2, <2>3, <2>5, <3>1 DEF item, code
  <2> QED BY <2>4, <2>5
<1> QED BY <1>1, <1>2

\* The head: a push and an allocation.
LEMMA HeadFacts ==
  ASSUME NEW s \in Statements
  PROVE  /\ HeadCode(s) \in Seq(Instructions) /\ Len(HeadCode(s)) = 2
         /\ HeadCode(s)[1].op = "PUSH" /\ HeadCode(s)[1].operand = s.name
         /\ HeadCode(s)[2].op = IF Inserting(s) THEN "INSERT_PREP" ELSE "CREATE_TABLE"
<1>1. /\ Push(s.name) \in Instructions /\ Push(s.name).op = "PUSH"
      /\ Push(s.name).operand = s.name
  BY StatementFacts, MakesInstructions
<1>2. /\ Ins("INSERT_PREP", 0) \in Instructions /\ Ins("INSERT_PREP", 0).op = "INSERT_PREP"
      /\ Ins("CREATE_TABLE", 0) \in Instructions /\ Ins("CREATE_TABLE", 0).op = "CREATE_TABLE"
  BY MakesInstructions DEF Ops
<1> QED BY <1>1, <1>2 DEF HeadCode, InsertHead, CreateHead

\* Where items start.
LEMMA StartFacts ==
  ASSUME NEW s, NEW i \in Nat \ {0}
  PROVE  /\ Start(s, i) \in Nat /\ Start(s, i) >= 2 /\ Start(s, 1) = 2
         /\ Start(s, i + 1) = Start(s, i) + IF Inserting(s) THEN 3 ELSE 4
         /\ \A j \in 1 .. i - 1 : Start(s, j + 1) <= Start(s, i)
BY DEF Start

-----------------------------------------------------------------------------
(* Compiling.                                                              *)

\* More code behind it does not disturb what is laid.
LEMMA MoreCode ==
  ASSUME NEW s \in Statements, NEW n \in 0 .. Len(s.items), NEW code \in Seq(Instructions),
         prog \in Seq(Instructions), Laid(s, n), prog' = prog \o code
  PROVE  Laid(s, n)'
<1>1. /\ Len(prog') = Len(prog) + Len(code) /\ Len(prog) \in Nat /\ Len(code) \in Nat
      /\ \A i \in 1 .. Len(prog) : prog'[i] = prog[i]
  BY ConcatLen, ConcatLeft
<1>2. Len(prog') >= 2 /\ prog'[1] = prog[1] /\ prog'[2] = prog[2]
  BY <1>1 DEF Laid
<1>3. ASSUME NEW i \in 1 .. n, UpTo(s, i - 1)
      PROVE  /\ Start(s, i) + Len(ItemCode(s, i)) <= Len(prog')
             /\ \A k \in 1 .. Len(ItemCode(s, i)) :
                  prog'[Start(s, i) + k] = ItemCode(s, i)[k]
  <2>1. /\ Start(s, i) + Len(ItemCode(s, i)) <= Len(prog)
        /\ \A k \in 1 .. Len(ItemCode(s, i)) : prog[Start(s, i) + k] = ItemCode(s, i)[k]
    BY <1>3 DEF Laid
  <2>2. Start(s, i) \in Nat /\ Len(ItemCode(s, i)) \in Nat
    <3>1. i \in Nat \ {0} /\ i \in 1 .. Len(s.items)
      BY StatementFacts
    <3>2. Start(s, i) \in Nat
      BY <3>1, StartFacts
    <3>3. Len(ItemCode(s, i)) \in 2 .. 4
      BY <3>1, CodeFacts
    <3> QED BY ONLY <3>2, <3>3
  <2>3. ASSUME NEW k \in 1 .. Len(ItemCode(s, i))
        PROVE  prog'[Start(s, i) + k] = ItemCode(s, i)[k]
    <3>1. PICK p \in 1 .. Len(prog) : p = Start(s, i) + k
      BY <1>1, <2>1, <2>2
    <3>2. prog'[p] = prog[p]
      BY <1>1
    <3>3. prog[p] = ItemCode(s, i)[k]
      BY <2>1, <3>1
    <3> QED BY ONLY <3>1, <3>2, <3>3
  <2>4. Start(s, i) + Len(ItemCode(s, i)) <= Len(prog')
    BY ONLY <1>1, <2>1, <2>2
  <2> QED BY ONLY <2>3, <2>4
<1> QED BY <1>2, <1>3 DEF Laid

\* The head is laid, and no item.
LEMMA HeadLaid ==
  ASSUME NEW s \in Statements, prog' = HeadCode(s)
  PROVE  Laid(s, 0)' /\ prog' \in Seq(Instructions) /\ Len(prog') = Start(s, 1)
<1>1. HeadCode(s) \in Seq(Instructions) /\ Len(HeadCode(s)) = 2
  BY HeadFacts
<1>2. Laid(s, 0)'
  BY <1>1 DEF Laid
<1>3. Start(s, 1) = 2
  BY DEF Start
<1> QED BY <1>1, <1>2, <1>3

\* The next item is laid behind the well-formed ones.
LEMMA ItemLaid ==
  ASSUME NEW s \in Statements, NEW n \in 1 .. Len(s.items), prog \in Seq(Instructions),
         Laid(s, n - 1), UpTo(s, n - 1) => Len(prog) = Start(s, n),
         prog' = prog \o ItemCode(s, n)
  PROVE  /\ Laid(s, n)' /\ prog' \in Seq(Instructions)
         /\ UpTo(s, n) => Len(prog') = Start(s, n + 1)
<1> DEFINE code == ItemCode(s, n)
<1>1. code \in Seq(Instructions) /\ Len(code) \in Nat
  BY CodeFacts
<1>2. Len(s.items) \in Nat /\ n - 1 \in 0 .. Len(s.items)
  BY StatementFacts
<1>3. Laid(s, n - 1)'
  BY <1>1, <1>2, MoreCode
<1>4. prog' \in Seq(Instructions) /\ Len(prog') = Len(prog) + Len(code)
  BY <1>1, ConcatLen
<1>5. \A k \in 1 .. Len(code) : prog'[Len(prog) + k] = code[k]
  BY <1>1, ConcatRight
<1> HIDE DEF code
<1>6. ASSUME NEW i \in 1 .. n, UpTo(s, i - 1)
      PROVE  /\ Start(s, i) + Len(ItemCode(s, i)) <= Len(prog')
             /\ \A k \in 1 .. Len(ItemCode(s, i)) :
                  prog'[Start(s, i) + k] = ItemCode(s, i)[k]
  <2>1. CASE i = n
    <3>1. Len(prog) = Start(s, n)
      BY <1>6, <2>1
    <3>2. Len(prog) \in Nat
      OBVIOUS
    <3>3. Start(s, n) + Len(code) <= Len(prog')
      BY ONLY <1>1, <1>4, <3>1, <3>2
    <3>4. \A k \in 1 .. Len(code) : prog'[Start(s, n) + k] = code[k]
      BY ONLY <1>5, <3>1
    <3> QED BY ONLY <2>1, <3>3, <3>4 DEF code
  <2>2. CASE i # n
    <3>1. i \in 1 .. n - 1
      BY <1>2, <2>2
    <3> QED BY <1>3, <1>6, <3>1 DEF Laid
  <2> QED BY <2>1, <2>2
<1>7. Laid(s, n)'
  BY <1>3, <1>6 DEF Laid
<1>8. ASSUME UpTo(s, n) PROVE Len(prog') = Start(s, n + 1)
  <2>1. UpTo(s, n - 1) /\ ItemOK(s, n)
    BY <1>2, <1>8 DEF UpTo
  <2>2. Len(code) = IF Inserting(s) THEN 3 ELSE 4
    BY <2>1, CodeFacts DEF code
  <2>3. Start(s, n + 1) = Start(s, n) + IF Inserting(s) THEN 3 ELSE 4
    BY <1>2 DEF Start
  <2> QED BY <1>4, <2>1, <2>2, <2>3
<1> QED BY <1>4, <1>7, <1>8

\* The end of the loop: every item is laid, and HLT behind them.
LEMMA HaltLaid ==
  ASSUME NEW s \in Statements, NEW n, n = Len(s.items), prog \in Seq(Instructions),
         Laid(s, n), UpTo(s, n) => Len(prog) = Start(s, n + 1),
         prog' = prog \o <<Ins("HLT", 0)>>
  PROVE  /\ Laid(s, n)' /\ prog' \in Seq(Instructions)
         /\ UpTo(s, n) => Len(prog') = Start(s, n + 1) + 1 /\ prog'[Len(prog')] = Ins("HLT", 0)
<1> DEFINE code == <<Ins("HLT", 0)>>
<1>1. code \in Seq(Instructions) /\ Len(code) = 1 /\ code[1] = Ins("HLT", 0)
  BY MakesInstructions DEF Ops
<1> HIDE DEF code
<1>2. prog' = prog \o code
  BY DEF code
<1>3. n \in 0 .. Len(s.items) /\ n \in Nat
  BY StatementFacts
<1>4. Laid(s, n)'
  BY <1>1, <1>2, <1>3, MoreCode
<1>5. prog' \in Seq(Instructions) /\ Len(prog') = Len(prog) + Len(code)
  BY <1>1, <1>2, ConcatLen
<1>6. 1 \in 1 .. Len(code)
  BY <1>1
<1>7. prog'[Len(prog) + 1] = Ins("HLT", 0)
  BY <1>1, <1>2, <1>6, ConcatRight
<1> QED BY <1>1, <1>4, <1>5, <1>7

-----------------------------------------------------------------------------
(* One call of the machine.                                                *)

\* The grammar's condition on the statement is the one on its items.
LEMMA WellFormedIs ==
  ASSUME NEW s \in Statements, s.kind # "SELECT"
  PROVE  WellFormed(s) <=> UpTo(s, Len(s.items))
<1>1. s.kind = "CREATE" \/ s.kind = "INSERT"
  BY StatementFacts
<1>2. CASE s.kind = "CREATE"
  BY <1>2 DEF WellFormed, UpTo, ItemOK, Inserting
<1>3. CASE s.kind = "INSERT"
  BY <1>3 DEF WellFormed, UpTo, ItemOK, Inserting
<1> QED BY <1>1, <1>2, <1>3

\* What holds while a program runs.
Executes ==
  /\ EngineTypes /\ phase = "exec" /\ ExecInv /\ ResultsStand
  /\ vm_exec_prog
  /\ UNCHANGED <<prog, phase, stmt, pos, thispage, col_def_arr, done>>

\* The program goes on, or ends with a signal or a fault: then the stack has
\* less than five words or the statement is not the grammar's.
GoesOn == MachineInv' /\ sig' = "INST_SIG_OK" /\ fault' = "none"

Stops ==
  /\ sig' # "INST_SIG_OK" \/ fault' # "none"
  /\ halt' = halt
  /\ VM_STACK_SIZE < 5 \/ ~WellFormed(stmt)

\* The objects of the statements done are as they were.
OthersKept ==
  \A m \in 1 .. Len(done) :
    LET at == done[m].second - HeapBase
    IN  done[m].stmt.kind # "SELECT" => at <= Len(heap') /\ heap'[at] = heap[at]

LEMMA ExecFacts ==
  ASSUME Executes
  PROVE  /\ VMTypeOK /\ prog \in Seq(Instructions) /\ VMTypeOK'
         /\ stmt \in Statements /\ stmt.kind # "SELECT" /\ Len(stmt.items) \in Nat
         /\ done \in Seq(Results)
         /\ ~halt /\ sig = "INST_SIG_OK" /\ fault = "none"
         /\ Laid(stmt, Len(stmt.items)) /\ MachineInv
         /\ prog' = prog /\ stmt' = stmt /\ done' = done
         /\ stack \in Seq(Words) /\ Size = Len(stack) /\ Size \in Nat /\ pinst \in Nat
<1>1. /\ VMTypeOK /\ prog \in Seq(Instructions) /\ stmt \in Statements
      /\ done \in Seq(Results)
  BY DEF Executes, EngineTypes
<1>2. VMTypeOK'
  BY <1>1, CallKeepsTypes DEF Executes
<1>3. ~halt /\ sig = "INST_SIG_OK" /\ fault = "none"
  BY CallRuns DEF Executes
<1>4. stmt.kind # "SELECT" /\ Laid(stmt, Len(stmt.items)) /\ MachineInv
  BY <1>3 DEF Executes, ExecInv
<1>5. stack \in Seq(Words) /\ Size = Len(stack) /\ Size \in Nat /\ pinst \in Nat
  BY <1>1 DEF VMTypeOK, Size
<1>6. Len(stmt.items) \in Nat
  BY <1>1, StatementFacts
<1> QED BY <1>1, <1>2, <1>3, <1>4, <1>5, <1>6 DEF Executes

\* What a statement done left is on the heap; SELECT leaves nothing.
LEMMA DoneOnHeap ==
  ASSUME EngineTypes, ResultsStand, NEW m \in 1 .. Len(done), done[m].stmt.kind # "SELECT"
  PROVE  /\ done[m] \in Results
         /\ done[m].second - HeapBase \in 1 .. Len(heap)
         /\ done[m].stmt.kind \in {"CREATE", "INSERT"}
         /\ done[m].second \in Int /\ HeapBase \in Nat /\ Len(heap) \in Nat
<1>0. done[m] \in Results
  BY DEF EngineTypes
<1>1. done[m] \in Results /\ done[m].stmt \in Statements /\ done[m].second \in Words
  BY <1>0 DEF Results
<1>2. done[m].stmt.kind \in {"CREATE", "INSERT"}
  BY <1>1, StatementFacts
<1>3. LeftAsWritten(done[m])
  BY DEF ResultsStand
<1>4. \E kind : Points(done[m].second, kind)
  <2>1. CASE done[m].stmt.kind = "CREATE"
    BY <1>3, <2>1 DEF LeftAsWritten
  <2>2. CASE done[m].stmt.kind = "INSERT"
    BY <1>3, <2>2 DEF LeftAsWritten
  <2> QED BY <1>2, <2>1, <2>2
<1>5. done[m].second - HeapBase \in 1 .. Len(heap)
  BY <1>4 DEF Points
<1> QED BY <1>1, <1>2, <1>5, AddressAssumption DEF EngineTypes, VMTypeOK, Words

\* The heap alone, or with new objects behind it.
LEMMA KeptOthers ==
  ASSUME Executes,
         \/ heap' = heap
         \/ Len(heap') >= Len(heap) /\ \A i \in 1 .. Len(heap) : heap'[i] = heap[i]
  PROVE  OthersKept
<1>1. SUFFICES ASSUME NEW m \in 1 .. Len(done), done[m].stmt.kind # "SELECT"
               PROVE  LET at == done[m].second - HeapBase
                      IN  at <= Len(heap') /\ heap'[at] = heap[at]
  BY DEF OthersKept
<1>2. /\ done[m].second - HeapBase \in 1 .. Len(heap) /\ Len(heap) \in Nat
      /\ Len(heap') \in Nat
  BY <1>1, DoneOnHeap, ExecFacts DEF Executes, VMTypeOK
<1> QED BY <1>2

\* A call that signals leaves the rest as it was.
LEMMA SignalStops ==
  ASSUME Executes, NEW s, Signals(s), s # "INST_SIG_OK", VM_STACK_SIZE < 5 \/ ~WellFormed(stmt)
  PROVE  Stops /\ OthersKept
BY KeptOthers DEF Signals, Stops

LEMMA FaultStops ==
  ASSUME Executes, NEW f, Faults(f), f # "none", ~WellFormed(stmt)
  PROVE  Stops /\ OthersKept
BY KeptOthers DEF Faults, Stops

\* The table's name is pushed.
LEMMA OpeningPush ==
  ASSUME Executes, Opening(stmt, 0)
  PROVE  (GoesOn \/ Stops) /\ OthersKept
<1>1. pinst = 0 /\ Size = 0
  BY DEF Opening
<1>2. prog[pinst + 1] = HeadCode(stmt)[1] /\ pinst < Len(prog)
  BY <1>1, ExecFacts DEF Laid
<1>3. prog[pinst + 1].op = "PUSH" /\ Operand = stmt.name
  BY <1>2, ExecFacts, HeadFacts DEF Operand
<1>4. INST_PUSH
  BY <1>2, <1>3, ExecFacts, CallIs DEF Executes, CallOf
<1>5. CASE Size >= VM_STACK_SIZE
  <2>1. Signals("INST_SIG_OVERFLOW")
    BY <1>4, <1>5 DEF INST_PUSH
  <2>2. VM_STACK_SIZE < 5
    BY <1>1, <1>5, WordsAssumption
  <2> QED BY <2>1, <2>2, SignalStops
<1>6. CASE ~(Size >= VM_STACK_SIZE)
  <2>1. Continues(Append(stack, stmt.name)) /\ heap' = heap
    BY <1>3, <1>4, <1>6 DEF INST_PUSH
  <2>2. stmt.name \in Words /\ Size < VM_STACK_SIZE
    BY <1>6, ExecFacts, StatementFacts, WordsAssumption
  <2>3. Len(stack') = 1 /\ stack'[1] = stmt.name
    BY <1>1, <2>1, <2>2, ExecFacts, Pushed DEF Continues
  <2>4. Opening(stmt, 1)'
    BY <1>1, <2>1, <2>3, ExecFacts DEF Opening, Continues, Size
  <2>5. GoesOn
    BY <2>1, <2>4, ExecFacts DEF GoesOn, MachineInv, Continues
  <2> QED BY <2>1, <2>5, KeptOthers
<1> QED BY <1>5, <1>6

\* No items yet, and one more.
LEMMA ItemsMeant ==
  ASSUME NEW s
  PROVE  /\ [j \in 1 .. 0 |-> ItemMeant(s, j)] = << >>
         /\ \A i \in Nat : [j \in 1 .. i |-> ItemMeant(s, j)] \in Seq({ItemMeant(s, j) : j \in 1 .. i})
         /\ \A i \in Nat : Append([j \in 1 .. i |-> ItemMeant(s, j)], ItemMeant(s, i + 1))
                             = [j \in 1 .. i + 1 |-> ItemMeant(s, j)]
<1> DEFINE F(j) == ItemMeant(s, j)
           S == {F(j) : j \in Nat}
           q(i) == [j \in 1 .. i |-> F(j)]
<1> HIDE DEF F
<1>1. \A j \in Nat : F(j) \in S
  OBVIOUS
<1>2. \A i \in Nat : q(i) \in Seq({F(j) : j \in 1 .. i})
  OBVIOUS
<1>3. \A i \in Nat : q(i) \in Seq(S) /\ Len(q(i)) = i
  <2> HIDE DEF S
  <2> QED BY <1>1
<1>4. q(0) = << >>
  <2>1. << >> \in Seq(S) /\ Len(<< >>) = 0
    OBVIOUS
  <2> QED BY <1>3, <2>1, SameSequence
<1>5. ASSUME NEW i \in Nat PROVE Append(q(i), F(i + 1)) = q(i + 1)
  <2>1. /\ Append(q(i), F(i + 1)) \in Seq(S) /\ Len(Append(q(i), F(i + 1))) = i + 1
        /\ Append(q(i), F(i + 1))[i + 1] = F(i + 1)
        /\ \A j \in 1 .. i : Append(q(i), F(i + 1))[j] = q(i)[j]
    <3> HIDE DEF q, S
    <3>1. F(i + 1) \in S /\ q(i) \in Seq(S) /\ Len(q(i)) = i
      BY <1>1, <1>3
    <3> QED BY <3>1, AppendKeeps
  <2>2. \A j \in 1 .. i + 1 : Append(q(i), F(i + 1))[j] = q(i + 1)[j]
    BY <2>1
  <2>3. q(i + 1) \in Seq(S) /\ Len(q(i + 1)) = i + 1
    BY <1>3
  <2> HIDE DEF q, S
  <2> QED BY <2>1, <2>2, <2>3, SameSequence
<1> QED BY <1>2, <1>4, <1>5 DEF F

\* INSERT_PREP: an array with nothing in it beside the table's name.
LEMMA OpeningInsert ==
  ASSUME Executes, Opening(stmt, 1), Inserting(stmt)
  PROVE  (GoesOn \/ Stops) /\ OthersKept
<1> DEFINE w == HeapBase + Len(heap) + 1
<1>1. pinst = 1 /\ Size = 1 /\ stack[1] = stmt.name
  BY DEF Opening
<1>2. prog[pinst + 1] = HeadCode(stmt)[2] /\ pinst < Len(prog)
  BY <1>1, ExecFacts DEF Laid
<1>3. prog[pinst + 1].op = "INSERT_PREP"
  BY <1>2, ExecFacts, HeadFacts
<1>4. INST_INSERT_PREP
  BY <1>2, <1>3, ExecFacts, CallIs DEF Executes, CallOf
<1>5. CASE Size >= VM_STACK_SIZE
  <2>1. Signals("INST_SIG_OVERFLOW")
    BY <1>4, <1>5 DEF INST_INSERT_PREP
  <2>2. VM_STACK_SIZE < 5
    BY <1>1, <1>5, WordsAssumption
  <2> QED BY <2>1, <2>2, SignalStops
<1>6. CASE ~(Size >= VM_STACK_SIZE)
  <2>1. heap' = Append(heap, NoValues) /\ Continues(Append(stack, w)) /\ Len(heap) + 1 <= MaxObjs
    BY <1>4, <1>6 DEF INST_INSERT_PREP, NoValues
  <2>2. /\ Len(heap') = Len(heap) + 1 /\ heap'[Len(heap) + 1] = NoValues
        /\ \A i \in 1 .. Len(heap) : heap'[i] = heap[i]
        /\ w \in Words
    BY <2>1, ExecFacts, Allocated DEF NoValues
  <2>3. Size < VM_STACK_SIZE
    BY <1>6, ExecFacts, WordsAssumption
  <2>4. /\ Len(heap) \in Nat /\ HeapBase \in Nat
        /\ w - HeapBase = Len(heap) + 1
    BY ExecFacts, AddressAssumption DEF VMTypeOK
  <2> HIDE DEF w
  <2>5. Len(stack') = 2 /\ stack'[1] = stmt.name /\ stack'[2] = w
    BY <1>1, <2>1, <2>2, <2>3, ExecFacts, Pushed DEF Continues
  <2>6. Points(stack[2], "values")' /\ Columns(stack[2])' = << >>
    BY <2>2, <2>4, <2>5 DEF Points, Columns, NoValues
  <2>7. \A m \in 1 .. Len(done) : done[m].stmt.kind # "SELECT" => done[m].second < w
    <3>1. ASSUME NEW m \in 1 .. Len(done), done[m].stmt.kind # "SELECT"
          PROVE  done[m].second < w
      <4>1. done[m].second - HeapBase \in 1 .. Len(heap) /\ done[m].second \in Int
        BY <3>1, DoneOnHeap DEF Executes
      <4> QED BY <2>4, <4>1 DEF w
    <3> QED BY <3>1
  <2>8. Made(stmt, 0)'
    BY <2>5, <2>6, <2>7, ExecFacts, ItemsMeant DEF Made, Inserting, ItemMeant
  <2>9. Stage(stmt, 0, 0)'
    BY <1>1, <2>1, <2>5, <2>8, ExecFacts DEF Stage, UpTo, Start, Continues, Size
  <2>10. GoesOn
    BY <2>1, <2>9, ExecFacts DEF GoesOn, MachineInv, Continues
  <2> QED BY <2>2, <2>4, <2>10, KeptOthers
<1> QED BY <1>5, <1>6

\* CREATE_TABLE: a page with the table's name, and no columns beside it.
LEMMA OpeningCreate ==
  ASSUME Executes, Opening(stmt, 1), ~Inserting(stmt)
  PROVE  (GoesOn \/ Stops) /\ OthersKept
<1> DEFINE page == HeapBase + Len(heap) + 1
<1>1. pinst = 1 /\ Size = 1 /\ stack[1] = stmt.name /\ Right = stmt.name
  BY DEF Opening, Right
<1>2. prog[pinst + 1] = HeadCode(stmt)[2] /\ pinst < Len(prog)
  BY <1>1, ExecFacts DEF Laid
<1>3. prog[pinst + 1].op = "CREATE_TABLE"
  BY <1>2, ExecFacts, HeadFacts
<1>4. INST_CREATE_TABLE
  BY <1>2, <1>3, ExecFacts, CallIs DEF Executes, CallOf
<1>5. stmt.name \in Strings /\ stmt.name \in Words
  BY ExecFacts, StatementFacts
<1>6. /\ heap' = heap \o TableObjects(stmt.name) /\ Len(heap) + 2 <= MaxObjs
      /\ IF Size >= VM_STACK_SIZE
         THEN sig' = "INST_SIG_OVERFLOW" /\ UNCHANGED <<pinst, halt, fault>>
         ELSE Continues(Below(1) \o <<page, page + 1>>)
  BY <1>1, <1>4, <1>5 DEF INST_CREATE_TABLE, TableObjects
<1>7. /\ Len(heap') = Len(heap) + 2
      /\ heap'[Len(heap) + 1] = [kind |-> "page", objname |-> stmt.name]
      /\ heap'[Len(heap) + 2] = [kind |-> "coldefs", items |-> << >>]
      /\ \A i \in 1 .. Len(heap) : heap'[i] = heap[i]
      /\ HeapBase + Len(heap) + 1 \in Words /\ HeapBase + Len(heap) + 2 \in Words
  BY <1>5, <1>6, ExecFacts, Allocated DEF TableObjects
<1>8. /\ Len(heap) \in Nat /\ HeapBase \in Nat /\ page + 1 = HeapBase + Len(heap) + 2
      /\ page - HeapBase = Len(heap) + 1 /\ (page + 1) - HeapBase = Len(heap) + 2
  BY ExecFacts, AddressAssumption DEF VMTypeOK
<1>9. OthersKept
  BY <1>7, <1>8, KeptOthers
<1>10. CASE Size >= VM_STACK_SIZE
  <2>1. VM_STACK_SIZE < 5
    BY <1>1, <1>10, WordsAssumption
  <2> QED BY <1>6, <1>9, <1>10, <2>1 DEF Stops
<1>11. CASE ~(Size >= VM_STACK_SIZE)
  <2>1. Continues(Below(1) \o <<page, page + 1>>)
    BY <1>6, <1>11
  <2>2. Below(1) \in Seq(Words) /\ Len(Below(1)) = 0
    BY <1>1, ExecFacts, BelowFacts
  <2> HIDE DEF page
  <2>3. page \in Words /\ page + 1 \in Words
    BY <1>7, <1>8 DEF page
  <2>4. Len(stack') = 2 /\ stack'[1] = page /\ stack'[2] = page + 1
    <3>1. stack' = Below(1) \o <<page, page + 1>>
      BY <2>1 DEF Continues
    <3>2. /\ Len(Below(1) \o <<page, page + 1>>) = Len(Below(1)) + 2
          /\ (Below(1) \o <<page, page + 1>>)[Len(Below(1)) + 1] = page
          /\ (Below(1) \o <<page, page + 1>>)[Len(Below(1)) + 2] = page + 1
      BY ONLY <2>2, <2>3, TwoMore
    <3> QED BY <2>2, <3>1, <3>2
  <2>5. Points(stack[2], "coldefs")' /\ Columns(stack[2])' = << >>
    BY <1>7, <1>8, <2>4 DEF Points, Columns
  <2>6. Points(stack[1], "page")' /\ (heap[stack[1] - HeapBase].objname)' = stmt.name
    BY <1>7, <1>8, <2>4 DEF Points
  <2>7. \A m \in 1 .. Len(done) : done[m].stmt.kind # "SELECT" => done[m].second < page + 1
    <3>1. ASSUME NEW m \in 1 .. Len(done), done[m].stmt.kind # "SELECT"
          PROVE  done[m].second < page + 1
      <4>1. done[m].second - HeapBase \in 1 .. Len(heap) /\ done[m].second \in Int
        BY <3>1, DoneOnHeap DEF Executes
      <4> QED BY <1>8, <4>1
    <3> QED BY <3>1
  <2>8. Made(stmt, 0)'
    <3>1. Columns(stack[2])' = [j \in 1 .. 0 |-> ItemMeant(stmt, j)]
      BY <2>5, ItemsMeant
    <3> QED BY <2>4, <2>5, <2>6, <2>7, <3>1, ExecFacts DEF Made, Inserting, ItemMeant
  <2>9. Stage(stmt, 0, 0)'
    BY <1>1, <2>1, <2>4, <2>8, ExecFacts DEF Stage, UpTo, Start, Continues, Size
  <2>10. GoesOn
    BY <2>1, <2>9, ExecFacts DEF GoesOn, MachineInv, Continues
  <2> QED BY <1>9, <2>10
<1> QED BY <1>10, <1>11

\* Made is about the two bottom words, the objects of the heap and the
\* statements done.
LEMMA MadeStays ==
  ASSUME NEW i, Made(stmt, i), stmt' = stmt, done' = done, heap' = heap,
         stack'[1] = stack[1], stack'[2] = stack[2]
  PROVE  Made(stmt, i)'
BY DEF Made, Points, Columns, Inserting, ItemMeant, Meant

\* The code of the item that the machine is at.
LEMMA AtItem ==
  ASSUME Executes, NEW i \in 0 .. Len(stmt.items), NEW k \in 0 .. 3, Stage(stmt, i, k),
         i < Len(stmt.items)
  PROVE  LET code == ItemCode(stmt, i + 1)
         IN  /\ i + 1 \in 1 .. Len(stmt.items) /\ Len(code) \in 2 .. 4 /\ k < Len(code)
             /\ pinst < Len(prog) /\ prog[pinst + 1] = code[k + 1]
             /\ Size = 2 + k /\ Len(stack) = 2 + k /\ pinst = Start(stmt, i + 1) + k
<1> DEFINE code == ItemCode(stmt, i + 1)
<1>1. i + 1 \in 1 .. Len(stmt.items) /\ i + 1 \in Nat \ {0} /\ (i + 1) - 1 = i
  BY ExecFacts
<1>2. Len(code) \in 2 .. 4
  BY <1>1, ExecFacts, CodeFacts
<1>3. k < Len(code)
  <2> DEFINE len == Len(code)
  <2>1. k > 0 => k < len
    BY DEF Stage
  <2>2. len \in 2 .. 4
    BY <1>2
  <2> HIDE DEF len
  <2>3. k < len
    BY <2>1, <2>2
  <2> QED BY <2>3 DEF len
<1>4. pinst = Start(stmt, i + 1) + k /\ Start(stmt, i + 1) \in Nat
  BY <1>1, StartFacts DEF Stage
<1>5. /\ Start(stmt, i + 1) + Len(code) <= Len(prog)
      /\ \A j \in 1 .. Len(code) : prog[Start(stmt, i + 1) + j] = code[j]
  BY <1>1, ExecFacts DEF Laid, Stage
<1> HIDE DEF code
<1>6. prog[pinst + 1] = code[k + 1]
  <2>1. k + 1 \in 1 .. Len(code) /\ pinst + 1 = Start(stmt, i + 1) + (k + 1)
    BY <1>2, <1>3, <1>4
  <2> QED BY <1>5, <2>1
<1>7. pinst < Len(prog)
  BY <1>2, <1>3, <1>4, <1>5, ExecFacts
<1>8. Size = 2 + k /\ Len(stack) = 2 + k
  BY ExecFacts DEF Stage
<1> QED BY <1>1, <1>2, <1>3, <1>4, <1>6, <1>7, <1>8 DEF code

\* The words of an item are pushed one by one.
LEMMA ItemPush ==
  ASSUME Executes, NEW i \in 0 .. Len(stmt.items), NEW k \in 0 .. 3, Stage(stmt, i, k),
         i < Len(stmt.items), k + 1 < Len(ItemCode(stmt, i + 1))
  PROVE  (GoesOn \/ Stops) /\ OthersKept
<1> DEFINE code == ItemCode(stmt, i + 1)
<1>1. /\ i + 1 \in 1 .. Len(stmt.items) /\ Len(code) \in 2 .. 4
      /\ pinst < Len(prog) /\ prog[pinst + 1] = code[k + 1]
      /\ Size = 2 + k /\ Len(stack) = 2 + k /\ pinst = Start(stmt, i + 1) + k
  BY AtItem
<1>0. k + 1 \in 0 .. 3
  <2> DEFINE len == Len(code)
  <2>1. k + 1 < len
    OBVIOUS
  <2>2. len \in 2 .. 4
    BY <1>1
  <2> HIDE DEF len
  <2> QED BY <2>1, <2>2
<1> HIDE DEF code
<1>2. code[k + 1].op = "PUSH" /\ code[k + 1].operand \in Words
  <2>1. k + 1 \in 1 .. Len(code) - 1
    BY <1>0, <1>1 DEF code
  <2> QED BY <1>1, <2>1, ExecFacts, CodeFacts DEF code
<1>3. INST_PUSH /\ Operand = code[k + 1].operand
  BY <1>1, <1>2, ExecFacts, CallIs DEF Executes, CallOf, Operand
<1>4. CASE Size >= VM_STACK_SIZE
  <2>1. Signals("INST_SIG_OVERFLOW")
    BY <1>3, <1>4 DEF INST_PUSH
  <2>2. VM_STACK_SIZE < 5
    BY <1>0, <1>1, <1>4, WordsAssumption
  <2> QED BY <2>1, <2>2, SignalStops
<1>5. CASE ~(Size >= VM_STACK_SIZE)
  <2> DEFINE w == code[k + 1].operand
  <2>1. Continues(Append(stack, w)) /\ heap' = heap
    BY <1>3, <1>5 DEF INST_PUSH
  <2>2. Size < VM_STACK_SIZE /\ w \in Words
    BY <1>2, <1>5, ExecFacts, WordsAssumption
  <2> HIDE DEF w
  <2>3. /\ Len(stack') = 2 + (k + 1) /\ stack'[2 + (k + 1)] = w
        /\ \A j \in 1 .. 2 + k : stack'[j] = stack[j]
    BY <1>1, <2>1, <2>2, ExecFacts, Pushed DEF Continues
  <2>4. Made(stmt, i)
    BY DEF Stage
  <2>5. Made(stmt, i)'
    BY <2>1, <2>3, <2>4, ExecFacts, MadeStays
  <2>6. \A j \in 1 .. k + 1 : stack'[2 + j] = code[j].operand
    <3>1. ASSUME NEW j \in 1 .. k + 1 PROVE stack'[2 + j] = code[j].operand
      <4>1. CASE j = k + 1
        BY <2>3, <4>1 DEF w
      <4>2. CASE j # k + 1
        <5>1. j \in 1 .. k /\ 2 + j \in 1 .. 2 + k
          BY <4>2
        <5>2. stack[2 + j] = code[j].operand
          BY <5>1 DEF Stage, code
        <5> QED BY <2>3, <5>1, <5>2
      <4> QED BY <4>1, <4>2
    <3> QED BY <3>1
  <2>7. pinst' = Start(stmt, i + 1) + (k + 1)
    <3>1. Start(stmt, i + 1) \in Nat
      BY <1>1, StartFacts
    <3> QED BY <1>1, <2>1, <3>1 DEF Continues
  <2>8. Stage(stmt, i, k + 1)'
    BY <2>3, <2>5, <2>6, <2>7, ExecFacts
       DEF Stage, UpTo, ItemOK, Start, ItemCode, Inserting, Size, code
  <2>9. GoesOn
    BY <1>0, <2>1, <2>8, ExecFacts DEF GoesOn, MachineInv, Continues
  <2> QED BY <2>1, <2>9, KeptOthers
<1> QED BY <1>4, <1>5

\* The words under the top, and the instruction at the end of an item.
LEMMA ItemEnd ==
  ASSUME Executes, NEW i \in 0 .. Len(stmt.items), NEW k \in 0 .. 3, Stage(stmt, i, k),
         i < Len(stmt.items), k + 1 = Len(ItemCode(stmt, i + 1))
  PROVE  /\ IF Inserting(stmt) THEN INST_INSERT_VALUE ELSE INST_DEFINE_COLUMN
         /\ i + 1 \in 1 .. Len(stmt.items)
         /\ Size = 2 + k /\ Len(stack) = 2 + k /\ pinst = Start(stmt, i + 1) + k
         /\ Start(stmt, i + 1) \in Nat
<1> DEFINE code == ItemCode(stmt, i + 1)
           len == Len(code)
<1>1. /\ i + 1 \in 1 .. Len(stmt.items) /\ len \in 2 .. 4
      /\ pinst < Len(prog) /\ prog[pinst + 1] = code[k + 1]
      /\ Size = 2 + k /\ Len(stack) = 2 + k /\ pinst = Start(stmt, i + 1) + k
  BY AtItem
<1>2. code[len] = Ins(IF Inserting(stmt) THEN "INSERT_VALUE" ELSE "DEFINE_COLUMN", 0)
  BY <1>1, ExecFacts, CodeFacts
<1>3. k + 1 = len
  OBVIOUS
<1> HIDE DEF code, len
<1>4. prog[pinst + 1].op = IF Inserting(stmt) THEN "INSERT_VALUE" ELSE "DEFINE_COLUMN"
  BY <1>1, <1>2, <1>3 DEF Ins
<1>5. IF Inserting(stmt) THEN INST_INSERT_VALUE ELSE INST_DEFINE_COLUMN
  BY <1>1, <1>4, ExecFacts, CallIs DEF Executes, CallOf
<1>6. Start(stmt, i + 1) \in Nat
  BY <1>1, StartFacts
<1> QED BY <1>1, <1>5, <1>6

\* The item is well-formed and gives the array what it means: the next stage.
LEMMA ItemDone ==
  ASSUME Executes, NEW i \in 0 .. Len(stmt.items), NEW k \in 0 .. 3, Stage(stmt, i, k),
         i < Len(stmt.items), k + 1 = Len(ItemCode(stmt, i + 1)), ItemOK(stmt, i + 1),
         IF Inserting(stmt)
         THEN Points(stack[2], "values") /\ ItemMeant(stmt, i + 1) \in RowVals
         ELSE Points(stack[2], "coldefs") /\ ItemMeant(stmt, i + 1) \in ColDefs,
         heap' = Grown(stack[2] - HeapBase, ItemMeant(stmt, i + 1)),
         Continues(Below(k))
  PROVE  GoesOn /\ OthersKept
<1> DEFINE at == stack[2] - HeapBase
           x == ItemMeant(stmt, i + 1)
<1>0. i \in Nat
  BY ExecFacts
<1>1. /\ i + 1 \in 1 .. Len(stmt.items) /\ i \in Nat
      /\ Size = 2 + k /\ Len(stack) = 2 + k /\ pinst = Start(stmt, i + 1) + k
      /\ Start(stmt, i + 1) \in Nat
  BY <1>0, ItemEnd
<1>2. at \in 1 .. Len(heap) /\ heap[at].kind = IF Inserting(stmt) THEN "values" ELSE "coldefs"
  BY DEF Points
<1>3. /\ Len(heap') = Len(heap) /\ heap'[at].kind = heap[at].kind
      /\ heap'[at].items = Append(heap[at].items, x)
      /\ \A j \in 1 .. Len(heap) : j # at => heap'[j] = heap[j]
  <2>1. \/ heap[at].kind = "coldefs" /\ x \in ColDefs
        \/ heap[at].kind = "values" /\ x \in RowVals
    BY <1>2
  <2> HIDE DEF at, x
  <2>2. heap' = Grown(at, x)
    BY DEF at, x
  <2>3. VMTypeOK /\ at \in 1 .. Len(heap)
    BY <1>2, ExecFacts
  <2>4. /\ Len(Grown(at, x)) = Len(heap) /\ Grown(at, x)[at].kind = heap[at].kind
        /\ Grown(at, x)[at].items = Append(heap[at].items, x)
        /\ \A j \in 1 .. Len(heap) : j # at => Grown(at, x)[j] = heap[j]
    BY ONLY <2>1, <2>3, GrownFacts
  <2> QED BY <2>2, <2>4
<1>4. Len(stack') = 2 /\ stack'[1] = stack[1] /\ stack'[2] = stack[2]
  <2>1. k \in 0 .. Size /\ Size - k = 2 /\ 1 \in 1 .. Size - k /\ 2 \in 1 .. Size - k
    BY <1>1
  <2>2. stack' = Below(k)
    BY DEF Continues
  <2> QED BY <2>1, <2>2, ExecFacts, BelowFacts
<1>5. Made(stmt, i) /\ UpTo(stmt, i)
  BY DEF Stage
<1>6. Points(stack[2], IF Inserting(stmt) THEN "values" ELSE "coldefs")'
  BY <1>2, <1>3, <1>4, ExecFacts DEF Points, Inserting
<1>7. Columns(stack[2])' = [j \in 1 .. i + 1 |-> ItemMeant(stmt, j)]
  <2>1. heap[at].items = [j \in 1 .. i |-> ItemMeant(stmt, j)]
    BY <1>5 DEF Made, Columns
  <2>2. Append([j \in 1 .. i |-> ItemMeant(stmt, j)], x) = [j \in 1 .. i + 1 |-> ItemMeant(stmt, j)]
    BY <1>1, ItemsMeant
  <2>3. Columns(stack[2])' = Append(heap[at].items, x)
    BY <1>3, <1>4 DEF Columns
  <2> HIDE DEF at, x
  <2> QED BY ONLY <2>1, <2>2, <2>3
<1>8. IF Inserting(stmt)
      THEN stack'[1] = stmt.name
      ELSE Points(stack[1], "page")' /\ (heap[stack[1] - HeapBase].objname)' = stmt.name
  <2>1. CASE Inserting(stmt)
    BY <1>4, <1>5, <2>1 DEF Made
  <2>2. CASE ~Inserting(stmt)
    <3>1. Points(stack[1], "page") /\ heap[stack[1] - HeapBase].objname = stmt.name
      BY <1>5, <2>2 DEF Made
    <3>2. stack[1] - HeapBase # at
      BY <1>2, <2>2, <3>1 DEF Points
    <3> HIDE DEF at
    <3> QED BY <1>3, <1>4, <2>2, <3>1, <3>2 DEF Points
  <2> QED BY <2>1, <2>2
<1>9. \A m \in 1 .. Len(done) : done[m].stmt.kind # "SELECT" => done[m].second < stack[2]
  BY <1>5 DEF Made
<1>10. Made(stmt, i + 1)'
  BY <1>4, <1>6, <1>7, <1>8, <1>9, ExecFacts DEF Made, Inserting, ItemMeant, Meant
<1>11. OthersKept
  <2>1. SUFFICES ASSUME NEW m \in 1 .. Len(done), done[m].stmt.kind # "SELECT"
                 PROVE  LET o == done[m].second - HeapBase
                        IN  o <= Len(heap') /\ heap'[o] = heap[o]
    BY DEF OthersKept
  <2>2. /\ done[m].second - HeapBase \in 1 .. Len(heap) /\ done[m].second \in Int
        /\ HeapBase \in Nat
    BY <2>1, DoneOnHeap DEF Executes
  <2>3. done[m].second # stack[2]
    BY <1>9, <2>1, <2>2
  <2>4. done[m].second - HeapBase # at
    <3>1. stack[2] \in Int
      <4>1. 2 \in 1 .. Len(stack) /\ stack \in Seq(Words)
        BY <1>1, ExecFacts
      <4>2. stack[2] \in Words
        BY ONLY <4>1
      <4> QED BY ONLY <4>2, WordsAssumption DEF Words
    <3> QED BY ONLY <2>2, <2>3, <3>1
  <2>5. PICK o \in 1 .. Len(heap) : o = done[m].second - HeapBase
    BY ONLY <2>2
  <2> HIDE DEF at
  <2>6. heap'[o] = heap[o]
    BY ONLY <1>3, <2>4, <2>5
  <2>7. o <= Len(heap')
    <3>1. Len(heap) \in Nat
      BY <2>1, DoneOnHeap DEF Executes
    <3> QED BY ONLY <1>3, <2>5, <3>1
  <2> QED BY ONLY <2>5, <2>6, <2>7
<1>12. pinst' = Start(stmt, i + 2)
  <2>1. Start(stmt, i + 2) = Start(stmt, i + 1) + IF Inserting(stmt) THEN 3 ELSE 4
    BY <1>1 DEF Start
  <2>2. Len(ItemCode(stmt, i + 1)) = IF Inserting(stmt) THEN 3 ELSE 4
    BY <1>1, ExecFacts, CodeFacts
  <2>3. pinst' = Start(stmt, i + 1) + (k + 1)
    BY <1>1 DEF Continues
  <2> QED BY <2>1, <2>2, <2>3
<1>13. UpTo(stmt, i + 1)
  BY <1>1, <1>5 DEF UpTo
<1>14. Stage(stmt, i + 1, 0)'
  <2>1. (i + 1) + 1 = i + 2 /\ Start(stmt, i + 2) \in Nat
    BY <1>1, StartFacts
  <2>2. pinst' = Start(stmt, (i + 1) + 1) + 0
    BY <1>12, <2>1
  <2>3. stmt' = stmt /\ \A s, j : Start(s, j)' = Start(s, j)
    BY ExecFacts DEF Start, Inserting
  <2>4. UpTo(stmt, i + 1)'
    BY <1>13, <2>3 DEF UpTo, ItemOK, Inserting
  <2>5. Size' = 2 + 0
    BY <1>4 DEF Size
  <2>6. (pinst = Start(stmt, (i + 1) + 1) + 0)'
    BY <2>2, <2>3
  <2> QED BY <1>10, <2>4, <2>5, <2>6 DEF Stage
<1>15. MachineInv'
  <2>1. (i + 1 \in 0 .. Len(stmt.items))' /\ 0 \in 0 .. 3 /\ ~halt'
    BY <1>1, ExecFacts DEF Continues
  <2> QED BY ONLY <1>14, <2>1 DEF MachineInv
<1>16. sig' = "INST_SIG_OK" /\ fault' = "none"
  BY ExecFacts DEF Continues
<1> QED BY ONLY <1>11, <1>15, <1>16 DEF GoesOn

\* DEFINE_COLUMN.  Without a type word under it, it takes the page for the
\* array of columns.
LEMMA ItemDefine ==
  ASSUME Executes, NEW i \in 0 .. Len(stmt.items), NEW k \in 0 .. 3, Stage(stmt, i, k),
         i < Len(stmt.items), k + 1 = Len(ItemCode(stmt, i + 1)), ~Inserting(stmt)
  PROVE  (GoesOn \/ Stops) /\ OthersKept
<1> DEFINE item == stmt.items[i + 1]
           code == ItemCode(stmt, i + 1)
<1>0. /\ Len(code) = 4 => k = 3
      /\ Len(code) = 3 => k = 2
      /\ Len(code) = 2 => k = 1
  <2> DEFINE len == Len(code)
  <2>1. k + 1 = len
    OBVIOUS
  <2> HIDE DEF len
  <2>2. (len = 4 => k = 3) /\ (len = 3 => k = 2) /\ (len = 2 => k = 1)
    BY <2>1
  <2> QED BY <2>2 DEF len
<1>1. /\ INST_DEFINE_COLUMN /\ i + 1 \in 1 .. Len(stmt.items)
      /\ Size = 2 + k /\ Len(stack) = 2 + k
  BY ItemEnd
<1>2. Made(stmt, i)
  BY DEF Stage
<1>3. item \in CreateItems
  BY <1>1, ExecFacts, StatementFacts
<1>4. \A j \in 1 .. k : stack[2 + j] = code[j].operand
  BY DEF Stage
<1>5. CASE ItemOK(stmt, i + 1)
  <2>1. /\ Len(code) = 4 /\ code[1].operand = item.name
        /\ code[2].operand = TypeCode[item.dtype] /\ code[3].operand = ColLen(item)
    BY <1>1, <1>5, ExecFacts, CodeFacts
  <2>2. k = 3
    BY <1>0, <2>1
  <2>3. stack[3] = item.name /\ stack[4] = TypeCode[item.dtype] /\ stack[5] = ColLen(item)
    <3> HIDE DEF item, code
    <3>1. stack[2 + 1] = code[1].operand /\ stack[2 + 2] = code[2].operand
          /\ stack[2 + 3] = code[3].operand
      BY <1>4, <2>2
    <3> QED BY <2>1, <3>1
  <2>4. Size - 3 = 2 /\ Size - 2 = 3 /\ Size - 1 = 4 /\ Size = 5 /\ Size >= 4
    BY <1>1, <2>2
  <2>5. Points(stack[Size - 3], "coldefs") /\ stack[Size - 2] \in Strings
    BY <1>2, <1>3, <2>3, <2>4 DEF Made, CreateItems
  <2>6. ColOnTop = ItemMeant(stmt, i + 1)
    <3>1. item.dtype \in DOMAIN TypeCode
      BY <1>1, <1>5 DEF ItemOK
    <3> QED BY <1>3, <2>3, <2>4, <3>1, ColumnFits DEF ColOnTop, Left, Right, ItemMeant, Meant, ColLen
  <2>7. heap' = Grown(stack[Size - 3] - HeapBase, ColOnTop) /\ Continues(Below(3))
    BY <1>1, <2>4, <2>5 DEF INST_DEFINE_COLUMN, Grown, ColOnTop
  <2>8. ColOnTop \in ColDefs
    BY <2>4, ExecFacts, OnTop
  <2>9. /\ Points(stack[2], "coldefs") /\ ItemMeant(stmt, i + 1) \in ColDefs
        /\ heap' = Grown(stack[2] - HeapBase, ItemMeant(stmt, i + 1))
        /\ Continues(Below(k))
    BY <2>2, <2>4, <2>5, <2>6, <2>7, <2>8
  <2> QED BY <1>5, <2>9, ItemDone
<1>6. CASE ~ItemOK(stmt, i + 1)
  <2>1. Len(code) = 3
    BY <1>1, <1>6, ExecFacts, CodeFacts
  <2>2. k = 2
    BY <1>0, <2>1
  <2>3. Size = 4 /\ Size - 3 = 1
    BY <1>1, <2>2
  <2>4. ~Points(stack[Size - 3], "coldefs")
    BY <1>2, <2>3 DEF Made, Points
  <2>5. Faults("wild")
    BY <1>1, <2>3, <2>4 DEF INST_DEFINE_COLUMN
  <2>6. ~WellFormed(stmt)
    BY <1>1, <1>6, ExecFacts, WellFormedIs DEF UpTo
  <2> QED BY <2>5, <2>6, FaultStops
<1> QED BY <1>5, <1>6

\* INSERT_VALUE.  Without the value it takes the table's name for the array.
LEMMA ItemValue ==
  ASSUME Executes, NEW i \in 0 .. Len(stmt.items), NEW k \in 0 .. 3, Stage(stmt, i, k),
         i < Len(stmt.items), k + 1 = Len(ItemCode(stmt, i + 1)), Inserting(stmt)
  PROVE  (GoesOn \/ Stops) /\ OthersKept
<1> DEFINE item == stmt.items[i + 1]
           code == ItemCode(stmt, i + 1)
<1>0. /\ Len(code) = 4 => k = 3
      /\ Len(code) = 3 => k = 2
      /\ Len(code) = 2 => k = 1
  <2> DEFINE len == Len(code)
  <2>1. k + 1 = len
    OBVIOUS
  <2> HIDE DEF len
  <2>2. (len = 4 => k = 3) /\ (len = 3 => k = 2) /\ (len = 2 => k = 1)
    BY <2>1
  <2> QED BY <2>2 DEF len
<1>1. /\ INST_INSERT_VALUE /\ i + 1 \in 1 .. Len(stmt.items)
      /\ Size = 2 + k /\ Len(stack) = 2 + k
  BY ItemEnd
<1>2. Made(stmt, i)
  BY DEF Stage
<1>4. \A j \in 1 .. k : stack[2 + j] = code[j].operand
  BY DEF Stage
<1>3. Size >= 2 =>
        \E arr \in FromTop(3) :
          IF Points(arr, "values")
          THEN heap' = Grown(arr - HeapBase, ValOnTop) /\ Continues(Below(2))
          ELSE Faults("wild")
  <2>1. ASSUME Size >= 2 PROVE ~(Size < 2)
    BY <1>1, <2>1
  <2> QED BY <1>1, <2>1 DEF INST_INSERT_VALUE, Grown, ValOnTop
<1>5. CASE ItemOK(stmt, i + 1)
  <2>1. Len(code) = 3 /\ code[1].operand = item.type /\ code[2].operand = item.val
    BY <1>1, <1>5, ExecFacts, CodeFacts
  <2>2. k = 2
    BY <1>0, <2>1
  <2>3. stack[3] = item.type /\ stack[4] = item.val
    <3> HIDE DEF item, code
    <3>1. stack[2 + 1] = code[1].operand /\ stack[2 + 2] = code[2].operand
      BY <1>4, <2>2
    <3> QED BY <2>1, <3>1
  <2>4. Size - 1 = 3 /\ Size = 4 /\ Size >= 2 /\ Size - 3 + 1 = 2
    BY <1>1, <2>2
  <2>5. FromTop(3) = {stack[2]}
    BY <2>4 DEF FromTop
  <2>6. Points(stack[2], "values")
    BY <1>2 DEF Made
  <2>7. ValOnTop = ItemMeant(stmt, i + 1)
    BY <1>5, <2>3, <2>4 DEF ValOnTop, Left, Right, ItemMeant, ItemOK, Literals
  <2>8. heap' = Grown(stack[2] - HeapBase, ValOnTop) /\ Continues(Below(2))
    BY <1>3, <2>4, <2>5, <2>6
  <2>9. ValOnTop \in RowVals
    BY <2>4, ExecFacts, OnTop
  <2>10. /\ ItemMeant(stmt, i + 1) \in RowVals
         /\ heap' = Grown(stack[2] - HeapBase, ItemMeant(stmt, i + 1))
         /\ Continues(Below(k))
    BY <2>2, <2>7, <2>8, <2>9
  <2> QED BY <1>5, <2>6, <2>10, ItemDone
<1>6. CASE ~ItemOK(stmt, i + 1)
  <2>1. Len(code) = 2
    BY <1>1, <1>6, ExecFacts, CodeFacts
  <2>2. k = 1
    BY <1>0, <2>1
  <2>3. Size = 3 /\ Size >= 2 /\ Size - 3 + 1 = 1
    BY <1>1, <2>2
  <2>4. FromTop(3) = {stack[1]}
    BY <2>3 DEF FromTop
  <2>5. stack[1] = stmt.name /\ stmt.name \in Strings
    BY <1>2, ExecFacts, StatementFacts DEF Made
  <2>6. ~Points(stack[1], "values")
    <3>1. stack[1] \in 1 .. HeapBase /\ HeapBase \in Nat
      BY <2>5, AddressAssumption
    <3> QED BY <3>1 DEF Points
  <2>7. Faults("wild")
    BY <1>3, <2>3, <2>4, <2>6
  <2>8. ~WellFormed(stmt)
    BY <1>1, <1>6, ExecFacts, WellFormedIs DEF UpTo
  <2> QED BY <2>7, <2>8, FaultStops
<1> QED BY <1>5, <1>6

\* HLT, after the last item: the two words at the bottom stay.
LEMMA ProgramEnds ==
  ASSUME Executes, Stage(stmt, Len(stmt.items), 0)
  PROVE  /\ halt' /\ Stage(stmt, Len(stmt.items), 0)' /\ sig' = "INST_SIG_OK" /\ fault' = "none"
         /\ OthersKept
<1>1. UpTo(stmt, Len(stmt.items)) /\ Made(stmt, Len(stmt.items))
      /\ pinst = Start(stmt, Len(stmt.items) + 1) + 0
  BY DEF Stage
<1>2. Len(prog) = Start(stmt, Len(stmt.items) + 1) + 1 /\ prog[Len(prog)] = Ins("HLT", 0)
  BY <1>1 DEF Executes, ExecInv
<1>3. Start(stmt, Len(stmt.items) + 1) \in Nat
  BY ExecFacts, StartFacts
<1>4. pinst < Len(prog) /\ pinst + 1 = Len(prog)
  BY <1>1, <1>2, <1>3
<1>5. prog[pinst + 1].op = "HLT"
  BY <1>2, <1>4 DEF Ins
<1>6. INST_HLT
  BY <1>4, <1>5, ExecFacts, CallIs DEF Executes, CallOf
<1>7. Stage(stmt, Len(stmt.items), 0)'
  <2>1. Made(stmt, Len(stmt.items))'
    BY <1>1, <1>6, ExecFacts
       DEF INST_HLT, Made, Points, Columns, Inserting, ItemMeant, Meant
  <2> QED BY <1>6, <2>1, ExecFacts
          DEF INST_HLT, Stage, UpTo, ItemOK, Start, ItemCode, Inserting, Size
<1> QED BY <1>6, <1>7, ExecFacts, KeptOthers DEF INST_HLT

\* One call: the program goes on or it ends, and the objects of the
\* statements done are as they were.
LEMMA CallGoesOn ==
  ASSUME Executes
  PROVE  (GoesOn \/ Stops) /\ OthersKept
<1>1. \/ \E n \in 0 .. 1 : Opening(stmt, n)
      \/ \E i \in 0 .. Len(stmt.items), k \in 0 .. 3 : Stage(stmt, i, k)
  BY ExecFacts DEF MachineInv
<1>2. ASSUME NEW n \in 0 .. 1, Opening(stmt, n)
      PROVE  (GoesOn \/ Stops) /\ OthersKept
  <2>1. CASE n = 0
    BY <1>2, <2>1, OpeningPush
  <2>2. CASE n = 1
    BY <1>2, <2>2, OpeningInsert, OpeningCreate
  <2> QED BY <2>1, <2>2
<1>3. ASSUME NEW i \in 0 .. Len(stmt.items), NEW k \in 0 .. 3, Stage(stmt, i, k)
      PROVE  (GoesOn \/ Stops) /\ OthersKept
  <2>1. CASE i < Len(stmt.items)
    <3> DEFINE len == Len(ItemCode(stmt, i + 1))
    <3>1. k < len /\ len \in 2 .. 4
      BY <1>3, <2>1, AtItem
    <3> HIDE DEF len
    <3>2. k + 1 < len \/ k + 1 = len
      BY <3>1
    <3>3. CASE k + 1 < len
      BY <1>3, <2>1, <3>3, ItemPush DEF len
    <3>4. CASE k + 1 = len
      BY <1>3, <2>1, <3>4, ItemDefine, ItemValue DEF len
    <3> QED BY <3>2, <3>3, <3>4
  <2>2. CASE i = Len(stmt.items)
    <3>1. k = 0
      <4>1. ~(k > 0)
        BY <1>3, <2>2, ExecFacts DEF Stage
      <4> QED BY <4>1
    <3>2. Stage(stmt, Len(stmt.items), 0)
      BY <1>3, <2>2, <3>1
    <3>3. /\ halt' /\ Stage(stmt, Len(stmt.items), 0)'
          /\ sig' = "INST_SIG_OK" /\ fault' = "none" /\ OthersKept
      BY <3>2, ProgramEnds
    <3> QED BY <3>3 DEF GoesOn, MachineInv
  <2>3. i < Len(stmt.items) \/ i = Len(stmt.items)
    BY ExecFacts
  <2> QED BY <2>1, <2>2, <2>3
<1> QED BY <1>1, <1>2, <1>3

\* What the statements done left is still what they say: their arrays are as
\* they were, and no page is ever written to.
LEMMA ResultsKept ==
  ASSUME Executes, OthersKept
  PROVE  ResultsStand'
<1>1. SUFFICES ASSUME NEW m \in 1 .. Len(done)
               PROVE  LeftAsWritten(done[m])'
  BY ExecFacts DEF ResultsStand
<1>2. LeftAsWritten(done[m]) /\ done[m]' = done[m]
  BY ExecFacts DEF Executes, ResultsStand
<1>3. ASSUME done[m].stmt.kind # "SELECT"
      PROVE  /\ done[m].second - HeapBase \in 1 .. Len(heap')
             /\ heap'[done[m].second - HeapBase] = heap[done[m].second - HeapBase]
  <2>1. done[m].second - HeapBase \in 1 .. Len(heap)
    BY <1>3, DoneOnHeap DEF Executes
  <2>2. Len(heap') \in Nat
    BY ExecFacts DEF VMTypeOK
  <2> QED BY <1>3, <2>1, <2>2 DEF OthersKept
<1>4. CASE done[m].stmt.kind = "CREATE"
  <2> DEFINE at == done[m].first - HeapBase
             to == done[m].second - HeapBase
  <2>1. /\ at \in 1 .. Len(heap) /\ heap[at].kind = "page"
        /\ heap[at].objname = done[m].stmt.name
        /\ heap[to].kind = "coldefs"
        /\ heap[to].items = [i \in 1 .. Len(done[m].stmt.items) |-> Meant(done[m].stmt.items[i])]
    BY <1>2, <1>4 DEF LeftAsWritten, Points, Columns
  <2>2. at \in 1 .. Len(heap') /\ heap'[at] = heap[at]
    <3> HIDE DEF at
    <3>1. Keeps(at)
      BY <2>1, ExecFacts, CallMovesHeap, MovesKeep DEF Executes
    <3>2. Len(heap') \in Nat
      BY ExecFacts DEF VMTypeOK
    <3> QED BY <2>1, <3>1, <3>2 DEF Keeps
  <2>3. Points(done[m].first, "page")' /\ Points(done[m].second, "coldefs")'
    BY <1>2, <1>3, <1>4, <2>1, <2>2 DEF Points
  <2>4. /\ (heap[done[m].first - HeapBase].objname)' = done[m].stmt.name
        /\ Columns(done[m].second)' = heap[to].items
    BY <1>2, <1>3, <1>4, <2>1, <2>2 DEF Columns
  <2>5. [i \in 1 .. Len(done[m].stmt.items) |-> Meant(done[m].stmt.items[i])]'
          = [i \in 1 .. Len(done[m].stmt.items) |-> Meant(done[m].stmt.items[i])]
    BY <1>2 DEF Meant
  <2>6. Columns(done[m].second)'
          = [i \in 1 .. Len(done[m].stmt.items) |-> Meant(done[m].stmt.items[i])]'
    BY <2>1, <2>4, <2>5
  <2> HIDE DEF at, to
  <2> QED BY <1>2, <1>4, <2>3, <2>4, <2>6 DEF LeftAsWritten
<1>5. CASE done[m].stmt.kind = "INSERT"
  <2>1. Points(done[m].second, "values")' /\ Columns(done[m].second)' = Columns(done[m].second)
    BY <1>2, <1>3, <1>5 DEF LeftAsWritten, Points, Columns
  <2>2. /\ done[m].first = done[m].stmt.name
        /\ Columns(done[m].second) =
             [i \in 1 .. Len(done[m].stmt.items) |->
                [datatype |-> done[m].stmt.items[i].type, val |-> done[m].stmt.items[i].val]]
    BY <1>2, <1>5 DEF LeftAsWritten
  <2> QED BY <1>2, <1>5, <2>1, <2>2 DEF LeftAsWritten
<1>6. CASE done[m].stmt.kind # "CREATE" /\ done[m].stmt.kind # "INSERT"
  BY <1>2, <1>6 DEF LeftAsWritten
<1> QED BY <1>4, <1>5, <1>6

\* The call keeps the invariant.
LEMMA ExecKeeps ==
  ASSUME EInv, Exec
  PROVE  EInv'
<1>1. Executes
  BY DEF EInv, Exec, Executes
<1>2. GoesOn \/ Stops
  BY <1>1, CallGoesOn
<1>3. UNCHANGED <<prog, phase, stmt, pos, thispage, col_def_arr, done>> /\ phase = "exec"
  BY DEF Exec
<1>4. EngineTypes'
  <2>1. VMTypeOK'
    BY <1>1, ExecFacts
  <2> QED BY <1>3, <2>1 DEF EInv, EngineTypes
<1>5. ExecInv'
  <2>1. Laid(stmt, Len(stmt.items))' /\ stmt'.kind # "SELECT"
    BY <1>1, <1>3, ExecFacts DEF Laid, UpTo, ItemOK, Start, ItemCode, HeadCode, Inserting
  <2>2. UpTo(stmt, Len(stmt.items))' =>
          /\ Len(prog') = Start(stmt, Len(stmt.items) + 1)' + 1
          /\ prog'[Len(prog')] = Ins("HLT", 0)
    BY <1>1, <1>3 DEF Executes, ExecInv, UpTo, ItemOK, Start, Inserting
  <2>3. halt' => sig' = "INST_SIG_OK" /\ fault' = "none"
    BY <1>1, <1>2, ExecFacts DEF GoesOn, Stops
  <2>4. sig' = "INST_SIG_OK" /\ fault' = "none" => MachineInv'
    BY <1>2 DEF GoesOn, Stops
  <2> QED BY <2>1, <2>2, <2>3, <2>4 DEF ExecInv
<1>6. CompiledCodeRuns'
  <2>1. CASE GoesOn
    BY <2>1 DEF GoesOn, CompiledCodeRuns
  <2>2. CASE Stops
    <3>1. VM_STACK_SIZE < 5 => ~(VM_STACK_SIZE >= 5)
      BY WordsAssumption
    <3> QED BY <1>3, <2>2, <3>1 DEF Stops, CompiledCodeRuns, WellFormed
  <2> QED BY <1>2, <2>1, <2>2
<1>7. ResultsStand'
  BY <1>1, CallGoesOn, ResultsKept
<1>8. PointerInv' /\ RowsInv'
  BY <1>3 DEF EInv, PointerInv, RowsInv, IsLastCreate, RowFits
<1> QED BY <1>3, <1>4, <1>5, <1>6, <1>7, <1>8 DEF EInv

-----------------------------------------------------------------------------
(* The other steps.                                                        *)

\* One more statement done.
LEMMA OneMoreDone ==
  ASSUME EngineTypes, NEW r \in Results, done' = Append(done, r)
  PROVE  /\ done' \in Seq(Results) /\ Len(done') = Len(done) + 1 /\ Len(done) \in Nat
         /\ done'[Len(done) + 1] = r
         /\ \A m \in 1 .. Len(done) : done'[m] = done[m]
<1>1. done \in Seq(Results)
  BY DEF EngineTypes
<1>2. /\ Append(done, r) \in Seq(Results) /\ Len(Append(done, r)) = Len(done) + 1
      /\ Append(done, r)[Len(done) + 1] = r
      /\ \A m \in 1 .. Len(done) : Append(done, r)[m] = done[m]
  BY ONLY <1>1, AppendKeeps
<1> QED BY <1>1, <1>2

\* LeftAsWritten reads the heap and nothing else.
LEMMA SameHeap ==
  ASSUME NEW r, LeftAsWritten(r), heap' = heap
  PROVE  LeftAsWritten(r)'
BY DEF LeftAsWritten, Points, Columns, Meant

\* And so it says the same of a record under another name.
LEMMA SameResult ==
  ASSUME NEW q, NEW m, q = done'[m], LeftAsWritten(q), heap' = heap
  PROVE  LeftAsWritten(done[m])'
<1>1. LeftAsWritten(q)'
  BY SameHeap
<1>2. CASE q.stmt.kind = "CREATE"
  <2>1. /\ Points(q.first, "page")' /\ Points(q.second, "coldefs")'
        /\ heap'[q.first - HeapBase].objname = q.stmt.name
        /\ Columns(q.second)' = [i \in 1 .. Len(q.stmt.items) |-> Meant(q.stmt.items[i])]
    BY <1>1, <1>2 DEF LeftAsWritten, Meant
  <2> QED BY <1>2, <2>1 DEF LeftAsWritten, Points, Columns, Meant
<1>3. CASE q.stmt.kind = "INSERT"
  <2>1. /\ q.first = q.stmt.name /\ Points(q.second, "values")'
        /\ Columns(q.second)' =
             [i \in 1 .. Len(q.stmt.items) |->
                [datatype |-> q.stmt.items[i].type, val |-> q.stmt.items[i].val]]
    BY <1>1, <1>3 DEF LeftAsWritten
  <2> QED BY <1>3, <2>1 DEF LeftAsWritten, Points, Columns
<1>4. CASE q.stmt.kind \notin {"CREATE", "INSERT"}
  BY <1>4 DEF LeftAsWritten
<1> QED BY <1>2, <1>3, <1>4

LEMMA ResultsSame ==
  ASSUME ResultsStand, heap' = heap, done' = done
  PROVE  ResultsStand'
<1>1. SUFFICES ASSUME NEW m \in 1 .. Len(done)
               PROVE  LeftAsWritten(done[m])'
  BY DEF ResultsStand
<1>2. PICK q : q = done'[m] /\ LeftAsWritten(q)
  BY DEF ResultsStand
<1> QED BY <1>2, SameResult

LEMMA OneMoreResult ==
  ASSUME EngineTypes, ResultsStand, heap' = heap,
         NEW r \in Results, LeftAsWritten(r), done' = Append(done, r)
  PROVE  ResultsStand'
<1>1. SUFFICES ASSUME NEW m \in 1 .. Len(done) + 1
               PROVE  LeftAsWritten(done[m])'
  BY OneMoreDone DEF ResultsStand
<1>2. PICK q : q = done'[m] /\ LeftAsWritten(q)
  <2>1. CASE m \in 1 .. Len(done)
    BY <2>1, OneMoreDone DEF ResultsStand
  <2>2. CASE m = Len(done) + 1
    BY <2>2, OneMoreDone
  <2> QED BY <2>1, <2>2, OneMoreDone
<1> QED BY <1>2, SameResult

\* The rows before fit as before, and so does the new one if it is a row.
LEMMA OneMoreRow ==
  ASSUME EngineTypes, RowsInv, NEW r \in Results, done' = Append(done, r),
         r.stmt.kind = "INSERT" =>
           \E m \in 1 .. Len(done) :
             IsLastCreate(m, Len(done)) /\ RowFits(done[m].stmt, r.stmt)
  PROVE  RowsInv'
<1> SUFFICES \A n \in 1 .. Len(done) + 1 :
               done'[n].stmt.kind = "INSERT" =>
                 \E m \in 1 .. n :
                   /\ done'[m].stmt.kind = "CREATE"
                   /\ \A o \in m + 1 .. n : done'[o].stmt.kind # "CREATE"
                   /\ RowFits(done'[m].stmt, done'[n].stmt)
  <2>1. Len(done') = Len(done) + 1
    BY OneMoreDone
  <2>2. ASSUME NEW n \in 1 .. Len(done'), done'[n].stmt.kind = "INSERT"
        PROVE  \E m \in 1 .. n : IsLastCreate(m, n)' /\ RowFits(done'[m].stmt, done'[n].stmt)
    BY <2>1, <2>2 DEF IsLastCreate
  <2> QED BY <2>2 DEF RowsInv
<1>1. SUFFICES ASSUME NEW n \in 1 .. Len(done) + 1, done'[n].stmt.kind = "INSERT"
               PROVE  \E m \in 1 .. n :
                        /\ done'[m].stmt.kind = "CREATE"
                        /\ \A o \in m + 1 .. n : done'[o].stmt.kind # "CREATE"
                        /\ RowFits(done'[m].stmt, done'[n].stmt)
  OBVIOUS
<1>2. CASE n \in 1 .. Len(done)
  <2>1. PICK m \in 1 .. n : IsLastCreate(m, n) /\ RowFits(done[m].stmt, done[n].stmt)
    BY <1>1, <1>2, OneMoreDone DEF RowsInv
  <2>2. \A o \in 1 .. n : done'[o] = done[o]
    BY <1>2, OneMoreDone
  <2>3. /\ done'[m].stmt.kind = "CREATE"
        /\ \A o \in m + 1 .. n : done'[o].stmt.kind # "CREATE"
    BY <1>2, <2>1, <2>2 DEF IsLastCreate
  <2>4. RowFits(done'[m].stmt, done'[n].stmt)
    BY <1>2, <2>1, <2>2
  <2> QED BY <2>3, <2>4
<1>3. CASE n = Len(done) + 1
  <2>1. r.stmt.kind = "INSERT" /\ done'[n] = r
    BY <1>1, <1>3, OneMoreDone
  <2>2. PICK m \in 1 .. Len(done) :
          IsLastCreate(m, Len(done)) /\ RowFits(done[m].stmt, r.stmt)
    BY <2>1
  <2>3. m \in 1 .. n /\ done'[m] = done[m] /\ Len(done) \in Nat
    BY <1>3, OneMoreDone
  <2>4. ASSUME NEW o \in m + 1 .. n PROVE done'[o].stmt.kind # "CREATE"
    <3>1. CASE o = n
      BY <2>1, <3>1
    <3>2. CASE o # n
      <4>1. o \in m + 1 .. Len(done) /\ o \in 1 .. Len(done)
        BY <1>3, <2>3, <3>2
      <4> QED BY <2>2, <4>1, OneMoreDone DEF IsLastCreate
    <3> QED BY <3>1, <3>2
  <2>5. done'[m].stmt.kind = "CREATE" /\ RowFits(done'[m].stmt, done'[n].stmt)
    BY <2>1, <2>2, <2>3 DEF IsLastCreate
  <2>6. \A o \in m + 1 .. n : done'[o].stmt.kind # "CREATE"
    BY <2>4
  <2> QED BY ONLY <2>3, <2>5, <2>6
<1>4. n \in 1 .. Len(done) \/ n = Len(done) + 1
  <2>1. Len(done) \in Nat
    BY OneMoreDone
  <2> QED BY <2>1
<1> QED BY <1>2, <1>3, <1>4

\* The last CREATE of the statements done stays it when no CREATE is added.
LEMMA LastStays ==
  ASSUME EngineTypes, PointerInv, NEW r \in Results, done' = Append(done, r),
         r.stmt.kind # "CREATE", col_def_arr' = col_def_arr,
         phase' \notin {"gen", "exec"}
  PROVE  PointerInv'
<1>1. CASE col_def_arr = 0
  <2>1. ASSUME NEW m \in 1 .. Len(done) + 1 PROVE done'[m].stmt.kind # "CREATE"
    <3>1. m \in 1 .. Len(done) \/ m = Len(done) + 1
      BY OneMoreDone
    <3> QED BY <1>1, <3>1, OneMoreDone DEF PointerInv
  <2> QED BY <1>1, <2>1, OneMoreDone DEF PointerInv
<1>2. CASE col_def_arr # 0
  <2>1. PICK m \in 1 .. Len(done) :
          IsLastCreate(m, Len(done)) /\ done[m].second = col_def_arr
    BY <1>2 DEF PointerInv
  <2>2. Len(done') = Len(done) + 1 /\ Len(done) \in Nat /\ done'[m] = done[m]
        /\ m \in 1 .. Len(done')
    BY OneMoreDone
  <2>3. IsLastCreate(m, Len(done))'
    <3>1. ASSUME NEW o \in m + 1 .. Len(done') PROVE done'[o].stmt.kind # "CREATE"
      <4>1. o \in m + 1 .. Len(done) \/ o = Len(done) + 1
        BY <2>2
      <4>2. CASE o = Len(done) + 1
        BY <4>2, OneMoreDone
      <4>3. CASE o \in m + 1 .. Len(done)
        <5>1. o \in 1 .. Len(done)
          BY <2>2, <4>3
        <5> QED BY <2>1, <4>3, <5>1, OneMoreDone DEF IsLastCreate
      <4> QED BY <4>1, <4>2, <4>3
    <3> QED BY <2>1, <2>2, <3>1 DEF IsLastCreate
  <2> QED BY <1>2, <2>1, <2>2, <2>3 DEF PointerInv
<1> QED BY <1>1, <1>2

\* Steps that leave the statements done, and what the machine is, alone.
LEMMA DoneSame ==
  ASSUME EInv, UNCHANGED <<heap, done, col_def_arr>>
  PROVE  /\ ResultsStand' /\ RowsInv'
         /\ (phase' \in {"gen", "exec"} /\ stmt'.kind = "INSERT" => col_def_arr # 0)
              => PointerInv'
<1>1. ResultsStand'
  BY ResultsSame DEF EInv
<1>2. RowsInv'
  BY DEF EInv, RowsInv, IsLastCreate, RowFits
<1>3. (phase' \in {"gen", "exec"} /\ stmt'.kind = "INSERT" => col_def_arr # 0) => PointerInv'
  BY DEF EInv, PointerInv, IsLastCreate
<1> QED BY <1>1, <1>2, <1>3

LEMMA NoInstructions == << >> \in Seq(Instructions) /\ Len(<< >>) = 0
OBVIOUS

LEMMA CompileKeeps ==
  ASSUME EInv, Compile
  PROVE  EInv'
<1>1. PICK s \in Statements : (s.kind = "INSERT" => col_def_arr # 0) /\ GenHead(s)
  BY DEF Compile
<1>2. /\ phase = "ready" /\ phase' = "gen" /\ stmt' = s /\ pos' = 1
      /\ UNCHANGED <<vmvars, thispage, col_def_arr, done>>
  BY <1>1 DEF GenHead
<1>3. sig' = "INST_SIG_OK" /\ fault' = "none"
  BY <1>2 DEF EInv, vmvars
<1>4. CASE s.kind = "SELECT"
  <2>1. prog' = << >>
    BY <1>1, <1>4 DEF GenHead
  <2>2. prog' \in Seq(Instructions) /\ GenInv'
    BY <1>2, <1>4, <2>1, NoInstructions DEF GenInv
  <2> QED
    <3>1. EngineTypes'
      BY <1>2, <2>2, StutterKeepsTypes DEF EInv, EngineTypes
    <3> QED BY <1>1, <1>2, <1>3, <2>2, <3>1, DoneSame DEF EInv, CompiledCodeRuns, vmvars
<1>5. CASE s.kind # "SELECT"
  <2>1. prog' = HeadCode(s)
    BY <1>1, <1>5, StatementFacts DEF GenHead, HeadCode, Inserting
  <2>2. Laid(s, 0)' /\ prog' \in Seq(Instructions) /\ Len(prog') = Start(s, 1)
    BY <2>1, HeadLaid
  <2>3. GenInv'
    <3>1. Len(s.items) \in Nat
      BY StatementFacts
    <3>2. Laid(stmt, pos - 1)'
      BY <1>2, <2>2 DEF Laid, UpTo, ItemOK, Start, ItemCode, HeadCode, Inserting
    <3>3. Len(prog') = Start(stmt, pos)'
      BY <1>2, <2>2 DEF Start, Inserting
    <3>4. pos' \in 1 .. Len(stmt'.items) + 1
      BY <1>2, <3>1
    <3> QED BY <3>2, <3>3, <3>4 DEF GenInv
  <2>4. EngineTypes'
    BY <1>2, <2>2, StutterKeepsTypes DEF EInv, EngineTypes
  <2> QED BY <1>1, <1>2, <1>3, <2>3, <2>4, DoneSame DEF EInv, CompiledCodeRuns, vmvars
<1> QED BY <1>4, <1>5

LEMMA GenItemKeeps ==
  ASSUME EInv, GenItem
  PROVE  EInv'
<1>1. /\ phase = "gen" /\ stmt.kind # "SELECT" /\ pos <= Len(stmt.items)
      /\ pos' = pos + 1 /\ UNCHANGED <<vmvars, stmt, thispage, col_def_arr, done>>
  BY DEF GenItem, InLoop
<1>2. /\ stmt \in Statements /\ prog \in Seq(Instructions) /\ VMTypeOK
      /\ Len(stmt.items) \in Nat /\ pos \in 1 .. Len(stmt.items) + 1
      /\ Laid(stmt, pos - 1) /\ (UpTo(stmt, pos - 1) => Len(prog) = Start(stmt, pos))
  BY <1>1, StatementFacts DEF EInv, EngineTypes, GenInv
<1>3. sig' = "INST_SIG_OK" /\ fault' = "none"
  BY <1>1 DEF EInv, vmvars
<1>4. VMTypeOK' /\ pos' \in Nat
  BY <1>1, <1>2, StutterKeepsTypes
<1>5. PointerInv' /\ RowsInv' /\ ResultsStand'
  <2>1. stmt.kind = "INSERT" => col_def_arr # 0
    BY <1>1 DEF EInv, PointerInv
  <2> QED BY <1>1, <2>1, DoneSame DEF vmvars
<1>6. CASE phase' = "abort" /\ prog' = prog
  <2>1. EngineTypes'
    BY <1>1, <1>2, <1>4, <1>6 DEF EInv, EngineTypes
  <2> QED BY <1>3, <1>5, <1>6, <2>1 DEF EInv, CompiledCodeRuns
<1>7. CASE phase' = phase /\ prog' = prog \o ItemCode(stmt, pos)
  <2>1. pos \in 1 .. Len(stmt.items)
    BY <1>1, <1>2
  <2>2. PICK s \in Statements : s = stmt
    BY <1>2
  <2>3. PICK n \in 1 .. Len(s.items) : n = pos
    BY <2>1, <2>2
  <2>4. prog' = prog \o ItemCode(s, n) /\ Laid(s, n - 1) /\ (UpTo(s, n - 1) => Len(prog) = Start(s, n))
    BY <1>2, <1>7, <2>2, <2>3
  <2>5. /\ Laid(s, n)' /\ prog' \in Seq(Instructions)
        /\ UpTo(s, n) => Len(prog') = Start(s, n + 1)
    BY <1>2, <2>4, ItemLaid
  <2>6. stmt' = s /\ pos' = n + 1 /\ pos' - 1 = n /\ n \in Nat
    BY <1>1, <1>2, <2>2, <2>3
  <2>7. Laid(stmt, pos - 1)'
    BY <2>5, <2>6 DEF Laid, UpTo, ItemOK, Start, ItemCode, HeadCode, Inserting
  <2>8. UpTo(stmt, pos - 1)' => Len(prog') = Start(stmt, pos)'
    BY <2>5, <2>6 DEF UpTo, ItemOK, Start, Inserting
  <2>9. pos' \in 1 .. Len(stmt'.items) + 1
    BY <1>2, <2>2, <2>3, <2>6
  <2>10. GenInv'
    BY <2>7, <2>8, <2>9 DEF GenInv
  <2>11. EngineTypes'
    BY <1>1, <1>2, <1>4, <1>7, <2>5 DEF EInv, EngineTypes
  <2> QED BY <1>1, <1>3, <1>5, <1>7, <2>10, <2>11 DEF EInv, CompiledCodeRuns
<1>8. \/ phase' = "abort" /\ prog' = prog
      \/ phase' = phase /\ prog' = prog \o ItemCode(stmt, pos)
  BY DEF GenItem, Emits, ItemCode, Inserting
<1> QED BY <1>6, <1>7, <1>8

\* A SELECT is done when it is compiled; other programs are run from the
\* first instruction on an empty stack.
LEMMA GenHaltKeeps ==
  ASSUME EInv, GenHalt
  PROVE  EInv'
<1>1. /\ phase = "gen" /\ ~InLoop /\ prog' = prog \o <<Ins("HLT", 0)>>
      /\ UNCHANGED <<heap, sig, fault, stmt, pos, thispage, col_def_arr>>
  BY DEF GenHalt, Emits, vmvars
<1>2. /\ stmt \in Statements /\ prog \in Seq(Instructions) /\ VMTypeOK
      /\ Len(stmt.items) \in Nat
  BY <1>1, StatementFacts DEF EInv, EngineTypes
<1>3. sig' = "INST_SIG_OK" /\ fault' = "none"
  BY <1>1 DEF EInv
<1>4. prog' \in Seq(Instructions)
  <2>1. <<Ins("HLT", 0)>> \in Seq(Instructions)
    BY MakesInstructions DEF Ops
  <2> QED BY <1>1, <1>2, <2>1, ConcatLen
<1>5. CompiledCodeRuns'
  BY <1>3 DEF CompiledCodeRuns
<1>6. CASE stmt.kind = "SELECT"
  <2> DEFINE r == [stmt |-> stmt, first |-> 0, second |-> 0]
  <2>1. phase' = "ready" /\ done' = Append(done, r) /\ UNCHANGED vmvars
    BY <1>6 DEF GenHalt
  <2>2. r \in Results /\ r.stmt.kind = "SELECT"
    BY <1>2, <1>6, WordFacts DEF Results
  <2>3. LeftAsWritten(r)
    BY <2>2 DEF LeftAsWritten
  <2> HIDE DEF r
  <2>4. EngineTypes /\ ResultsStand /\ RowsInv /\ PointerInv
    BY DEF EInv
  <2>5. ResultsStand' /\ RowsInv' /\ PointerInv'
    BY <1>1, <2>1, <2>2, <2>3, <2>4, OneMoreResult, OneMoreRow, LastStays
  <2>6. done' \in Seq(Results)
    BY <2>1, <2>2, <2>4, OneMoreDone
  <2>7. EngineTypes'
    BY <1>1, <1>2, <1>4, <2>1, <2>4, <2>6, StutterKeepsTypes DEF EngineTypes
  <2> QED BY <1>3, <1>5, <2>1, <2>5, <2>7 DEF EInv
<1>7. CASE stmt.kind # "SELECT"
  <2>1. /\ phase' = "exec" /\ stack' = << >> /\ halt' = FALSE /\ pinst' = 0 /\ done' = done
    BY <1>7 DEF GenHalt
  <2>2. pos = Len(stmt.items) + 1 /\ Laid(stmt, Len(stmt.items))
        /\ (UpTo(stmt, Len(stmt.items)) => Len(prog) = Start(stmt, Len(stmt.items) + 1))
    <3>1. /\ pos \in 1 .. Len(stmt.items) + 1 /\ ~(pos <= Len(stmt.items))
          /\ Laid(stmt, pos - 1)
          /\ UpTo(stmt, pos - 1) => Len(prog) = Start(stmt, pos)
      BY <1>1, <1>7 DEF EInv, GenInv, InLoop
    <3>2. pos = Len(stmt.items) + 1 /\ pos - 1 = Len(stmt.items)
      BY <1>2, <3>1
    <3> QED BY <3>1, <3>2
  <2>3. PICK s \in Statements : s = stmt
    BY <1>2
  <2>4. PICK n \in Nat : n = Len(s.items)
    BY <1>2, <2>3
  <2>5. Laid(s, n) /\ (UpTo(s, n) => Len(prog) = Start(s, n + 1))
    BY <2>2, <2>3, <2>4
  <2>6. /\ Laid(s, n)'
        /\ UpTo(s, n) => Len(prog') = Start(s, n + 1) + 1 /\ prog'[Len(prog')] = Ins("HLT", 0)
    BY <1>1, <1>2, <2>4, <2>5, HaltLaid
  <2>7. stmt' = s /\ Len(stmt'.items) = n
    BY <1>1, <2>3, <2>4
  <2>8. Laid(stmt, Len(stmt.items))'
    BY <2>6, <2>7 DEF Laid, UpTo, ItemOK, Start, ItemCode, HeadCode, Inserting
  <2>9. UpTo(stmt, Len(stmt.items))' =>
          Len(prog') = Start(stmt, Len(stmt.items) + 1)' + 1 /\ prog'[Len(prog')] = Ins("HLT", 0)
    BY <2>6, <2>7 DEF UpTo, ItemOK, Start, Inserting
  <2>10. VMTypeOK'
    <3>1. StackOK(<< >>)
      <4>1. << >> \in Seq(Words) /\ Len(<< >>) = 0
        OBVIOUS
      <4> QED BY <4>1, WordsAssumption DEF StackOK
    <3> QED BY <1>1, <1>2, <2>1, <3>1 DEF VMTypeOK, StackOK, Size
  <2>11. MachineInv'
    <3>1. Opening(stmt, 0)'
      <4>1. Len(<< >>) = 0
        OBVIOUS
      <4> QED BY <2>1, <4>1 DEF Opening, Size
    <3> QED BY <2>1, <3>1 DEF MachineInv
  <2>12. ExecInv'
    BY <1>1, <1>3, <1>7, <2>1, <2>8, <2>9, <2>11 DEF ExecInv
  <2>13. EngineTypes'
    BY <1>1, <1>2, <1>4, <2>1, <2>10 DEF EInv, EngineTypes
  <2>14. PointerInv' /\ RowsInv' /\ ResultsStand'
    <3>1. stmt.kind = "INSERT" => col_def_arr # 0
      BY <1>1 DEF EInv, PointerInv
    <3> QED BY <1>1, <2>1, <3>1, DoneSame
  <2> QED BY <1>3, <1>5, <2>1, <2>12, <2>13, <2>14 DEF EInv
<1> QED BY <1>6, <1>7

LEMMA ExitKeeps ==
  ASSUME EInv, Exit
  PROVE  EInv'
<1>1. phase = "exec" /\ phase' = "exit" /\ UNCHANGED <<prog, vmvars, stmt, pos, thispage, col_def_arr, done>>
  BY DEF Exit
<1>2. EngineTypes'
  BY <1>1, StutterKeepsTypes DEF EInv, EngineTypes
<1>3. CompiledCodeRuns'
  BY <1>1 DEF EInv, CompiledCodeRuns, vmvars, WellFormed
<1>4. PointerInv' /\ RowsInv' /\ ResultsStand'
  BY <1>1, DoneSame DEF vmvars
<1> QED BY <1>1, <1>2, <1>3, <1>4 DEF EInv

\* A program that has halted has done its last item: what is at the bottom
\* of its stack is what the statement says.
LEMMA Left2Written ==
  ASSUME EInv, phase = "exec", halt
  PROVE  /\ Left2 \in Results /\ Left2.stmt = stmt /\ stmt.kind \in {"CREATE", "INSERT"}
         /\ Left2.first = stack[1] /\ Left2.second = stack[2]
         /\ LeftAsWritten(Left2) /\ UpTo(stmt, Len(stmt.items))
         /\ sig = "INST_SIG_OK" /\ fault = "none"
         /\ stack[2] - HeapBase \in 1 .. Len(heap) /\ stack[2] # 0
<1>1. /\ stmt \in Statements /\ stmt.kind # "SELECT"
      /\ sig = "INST_SIG_OK" /\ fault = "none" /\ Stage(stmt, Len(stmt.items), 0)
  BY DEF EInv, EngineTypes, ExecInv, MachineInv
<1>2. stmt.kind \in {"CREATE", "INSERT"}
  BY <1>1, StatementFacts
<1>3. Size = 2 /\ Made(stmt, Len(stmt.items)) /\ UpTo(stmt, Len(stmt.items))
  BY <1>1 DEF Stage
<1>4. stack[1] \in Words /\ stack[2] \in Words
  <2>1. stack \in Seq(Words) /\ Len(stack) = 2
    BY <1>3 DEF EInv, EngineTypes, VMTypeOK, Size
  <2> QED BY <2>1
<1>5. /\ Left2 \in Results /\ Left2.stmt = stmt
      /\ Left2.first = stack[1] /\ Left2.second = stack[2]
  BY <1>1, <1>4 DEF Left2, Results
<1>6. LeftAsWritten(Left2)
  <2>1. CASE stmt.kind = "CREATE"
    <3>1. /\ Points(stack[2], "coldefs") /\ Points(stack[1], "page")
          /\ heap[stack[1] - HeapBase].objname = stmt.name
          /\ Columns(stack[2]) = [j \in 1 .. Len(stmt.items) |-> Meant(stmt.items[j])]
      BY <1>3, <2>1 DEF Made, Inserting, ItemMeant
    <3> QED BY <1>5, <2>1, <3>1 DEF LeftAsWritten
  <2>2. CASE stmt.kind = "INSERT"
    <3>1. /\ Points(stack[2], "values") /\ stack[1] = stmt.name
          /\ Columns(stack[2]) =
               [j \in 1 .. Len(stmt.items) |->
                  [datatype |-> stmt.items[j].type, val |-> stmt.items[j].val]]
      BY <1>3, <2>2 DEF Made, Inserting, ItemMeant
    <3> QED BY <1>5, <2>2, <3>1 DEF LeftAsWritten
  <2> QED BY <1>2, <2>1, <2>2
<1>7. stack[2] - HeapBase \in 1 .. Len(heap)
  BY <1>3 DEF Made, Points
<1>8. stack[2] # 0
  BY <1>7, AddressAssumption
<1> QED BY <1>1, <1>2, <1>3, <1>5, <1>6, <1>7, <1>8

\* The CREATE done becomes the last one.
LEMMA TakeTableKeeps ==
  ASSUME EInv, TakeTable
  PROVE  EInv'
<1>1. /\ phase = "exec" /\ halt /\ stmt.kind = "CREATE" /\ phase' = "ready"
      /\ col_def_arr' = stack[2] /\ done' = Append(done, Left2)
      /\ UNCHANGED <<prog, vmvars, stmt, pos>>
  BY DEF TakeTable
<1>2. /\ Left2 \in Results /\ Left2.stmt = stmt /\ LeftAsWritten(Left2)
      /\ Left2.second = stack[2] /\ stack[2] # 0
      /\ sig = "INST_SIG_OK" /\ fault = "none"
  BY <1>1, Left2Written
<1>3. PICK r \in Results : r = Left2
  BY <1>2
<1>4. EngineTypes /\ ResultsStand /\ RowsInv
  BY DEF EInv
<1>5. /\ done' = Append(done, r) /\ LeftAsWritten(r) /\ r.stmt.kind = "CREATE"
      /\ r.second = stack[2] /\ heap' = heap
  BY <1>1, <1>2, <1>3 DEF vmvars
<1>6. ResultsStand' /\ RowsInv'
  BY <1>4, <1>5, OneMoreResult, OneMoreRow
<1>7. /\ done' \in Seq(Results) /\ Len(done') = Len(done) + 1 /\ Len(done) \in Nat
      /\ done'[Len(done) + 1] = r
  BY <1>4, <1>5, OneMoreDone
<1>8. PointerInv'
  <2>1. PICK m \in Nat : m = Len(done) + 1
    BY <1>7
  <2>2. Len(done') = m /\ m \in 1 .. m /\ done'[m] = r /\ \A o \in m + 1 .. m : FALSE
    BY <1>7, <2>1
  <2>3. IsLastCreate(m, Len(done))' /\ done'[m].second = col_def_arr'
    BY <1>1, <1>5, <2>2 DEF IsLastCreate
  <2> QED BY <1>1, <1>2, <2>2, <2>3 DEF PointerInv
<1>9. EngineTypes'
  BY <1>1, <1>4, <1>7, StutterKeepsTypes DEF EngineTypes
<1>10. sig' = "INST_SIG_OK" /\ fault' = "none"
  BY <1>1, <1>2 DEF vmvars
<1> QED BY <1>1, <1>6, <1>8, <1>9, <1>10 DEF EInv, CompiledCodeRuns

\* The asserts compare the row with the columns of the last CREATE.
LEMMA RowAccepted ==
  ASSUME EInv, phase = "exec", halt, stmt.kind = "INSERT",
         Fits(Columns(col_def_arr), Columns(stack[2]))
  PROVE  \E m \in 1 .. Len(done) : IsLastCreate(m, Len(done)) /\ RowFits(done[m].stmt, stmt)
<1>1. PICK m \in 1 .. Len(done) : IsLastCreate(m, Len(done)) /\ done[m].second = col_def_arr
  BY DEF EInv, PointerInv
<1>2. done[m].stmt.kind = "CREATE" /\ LeftAsWritten(done[m])
  BY <1>1 DEF IsLastCreate, EInv, ResultsStand
<1> DEFINE cs == done[m].stmt.items
           vs == stmt.items
<1>3. Columns(col_def_arr) = [i \in 1 .. Len(cs) |-> Meant(cs[i])]
  BY <1>1, <1>2 DEF LeftAsWritten
<1>4. Columns(stack[2]) =
        [i \in 1 .. Len(vs) |-> [datatype |-> vs[i].type, val |-> vs[i].val]]
  BY Left2Written DEF LeftAsWritten
<1>5. Len(cs) \in Nat /\ Len(vs) \in Nat
  <2>1. stmt \in Statements /\ done[m] \in Results
    BY DEF EInv, EngineTypes
  <2>2. done[m].stmt \in Statements
    BY <2>1 DEF Results
  <2> QED BY <2>1, <2>2, StatementFacts
<1> HIDE DEF cs, vs
<1>6. Len(Columns(col_def_arr)) = Len(cs) /\ Len(Columns(stack[2])) = Len(vs)
  <2>1. \A n \in Nat : \A f : f = [i \in 1 .. n |-> Meant(cs[i])] => Len(f) = n
    BY DEF Meant
  <2>2. \A n \in Nat :
          Len([i \in 1 .. n |-> [datatype |-> vs[i].type, val |-> vs[i].val]]) = n
    OBVIOUS
  <2> QED BY <1>3, <1>4, <1>5, <2>1, <2>2
<1>7. /\ Len(cs) = Len(vs)
      /\ \A i \in 1 .. Len(vs) : Columns(col_def_arr)[i].type = Columns(stack[2])[i].datatype
  BY <1>6 DEF Fits
<1>8. ASSUME NEW i \in 1 .. Len(vs) PROVE vs[i].type = TypeCode[cs[i].dtype]
  <2>1. Columns(col_def_arr)[i] = Meant(cs[i]) /\ Columns(stack[2])[i].datatype = vs[i].type
    BY <1>3, <1>4, <1>7
  <2>2. Meant(cs[i]).type = TypeCode[cs[i].dtype]
    BY DEF Meant
  <2> QED BY <1>7, <2>1, <2>2
<1> QED BY <1>1, <1>7, <1>8 DEF RowFits, cs, vs

LEMMA TakeRowKeeps ==
  ASSUME EInv, TakeRow
  PROVE  EInv'
<1>1. /\ phase = "exec" /\ halt /\ stmt.kind = "INSERT"
      /\ UNCHANGED <<prog, vmvars, stmt, pos, thispage, col_def_arr>>
  BY DEF TakeRow
<1>2. /\ Left2 \in Results /\ Left2.stmt = stmt /\ LeftAsWritten(Left2)
      /\ sig = "INST_SIG_OK" /\ fault = "none"
  BY <1>1, Left2Written
<1>3. sig' = "INST_SIG_OK" /\ fault' = "none" /\ heap' = heap
  BY <1>1, <1>2 DEF vmvars
<1>4. CASE phase' = "abort" /\ done' = done
  <2>1. EngineTypes'
    BY <1>1, <1>4, StutterKeepsTypes DEF EInv, EngineTypes
  <2>2. ResultsStand' /\ RowsInv' /\ PointerInv'
    BY <1>1, <1>3, <1>4, DoneSame
  <2> QED BY <1>3, <1>4, <2>1, <2>2 DEF EInv, CompiledCodeRuns
<1>5. CASE /\ Fits(Columns(col_def_arr), Columns(stack[2]))
           /\ phase' = "ready" /\ done' = Append(done, Left2)
  <2>1. PICK r \in Results : r = Left2
    BY <1>2
  <2>2. /\ EngineTypes /\ ResultsStand /\ RowsInv /\ PointerInv
        /\ done' = Append(done, r) /\ LeftAsWritten(r) /\ r.stmt = stmt
    BY <1>2, <1>5, <2>1 DEF EInv
  <2>3. \E m \in 1 .. Len(done) : IsLastCreate(m, Len(done)) /\ RowFits(done[m].stmt, r.stmt)
    BY <1>1, <1>5, <2>2, RowAccepted
  <2>4. ResultsStand' /\ RowsInv' /\ PointerInv'
    BY <1>1, <1>3, <1>5, <2>2, <2>3, OneMoreResult, OneMoreRow, LastStays
  <2>5. EngineTypes'
    BY <1>1, <1>5, <2>2, OneMoreDone, StutterKeepsTypes DEF EngineTypes
  <2> QED BY <1>3, <1>5, <2>4, <2>5 DEF EInv, CompiledCodeRuns
<1> QED BY <1>4, <1>5 DEF TakeRow

-----------------------------------------------------------------------------
(* The theorems.                                                           *)

LEMMA EngineInit ==
  ASSUME EInit
  PROVE  EInv
<1>1. VMTypeOK
  BY InitTypes DEF EInit
<1>2. prog \in Seq(Instructions) /\ done \in Seq(Results) /\ Len(done) = 0
  <2>1. << >> \in Seq(Instructions) /\ << >> \in Seq(Results) /\ Len(<< >>) = 0
    OBVIOUS
  <2> QED BY <2>1 DEF EInit
<1>3. /\ phase = "ready" /\ stmt = NoStatement /\ pos = 0 /\ col_def_arr = 0
      /\ sig = "INST_SIG_OK" /\ fault = "none"
  BY DEF EInit, VMInit
<1>4. EngineTypes
  BY <1>1, <1>2, <1>3 DEF EngineTypes
<1>5. CompiledCodeRuns
  BY <1>3 DEF CompiledCodeRuns
<1>6. ResultsStand /\ PointerInv /\ RowsInv
  BY <1>2, <1>3 DEF ResultsStand, PointerInv, RowsInv
<1> QED BY <1>3, <1>4, <1>5, <1>6 DEF EInv

LEMMA EngineStep ==
  ASSUME EInv, [ENext]_evars
  PROVE  EInv'
<1>1. CASE UNCHANGED evars
  <2>1. UNCHANGED <<prog, vmvars, phase, stmt, pos, thispage, col_def_arr, done>>
    BY <1>1 DEF evars
  <2>2. VMTypeOK'
    BY <2>1, StutterKeepsTypes DEF EInv, EngineTypes
  <2>3. EngineTypes'
    BY <2>1, <2>2 DEF EInv, EngineTypes
  <2>4. ResultsStand' /\ RowsInv' /\ PointerInv'
    <3>1. phase \in {"gen", "exec"} /\ stmt.kind = "INSERT" => col_def_arr # 0
      BY DEF EInv, PointerInv
    <3> QED BY <2>1, <3>1, DoneSame DEF vmvars
  <2>5. phase' = "gen" => GenInv'
    BY <2>1 DEF EInv, GenInv, Laid, UpTo, ItemOK, Start, ItemCode, HeadCode, Inserting
  <2>6. phase' = "exec" => ExecInv'
    <3>1. ASSUME phase = "exec" PROVE ExecInv'
      <4>1. UNCHANGED <<prog, stmt, pinst, stack, halt, heap, sig, fault, done>>
        BY <2>1 DEF vmvars
      <4>2. MachineInv => MachineInv'
        <5>1. \A n : Opening(stmt, n) => Opening(stmt, n)'
          BY <4>1 DEF Opening, Size
        <5>2. \A i : Made(stmt, i) => Made(stmt, i)'
          BY <4>1, MadeStays
        <5>3. \A i, k : Stage(stmt, i, k) => Stage(stmt, i, k)'
          BY <4>1, <5>2 DEF Stage, UpTo, ItemOK, Start, ItemCode, Inserting, Size
        <5>4. Stage(stmt, Len(stmt.items), 0) => Stage(stmt, Len(stmt.items), 0)'
          <6>1. PICK n : n = Len(stmt.items)
            OBVIOUS
          <6>2. Stage(stmt, n, 0) => Stage(stmt, n, 0)'
            BY <5>3
          <6> QED BY <4>1, <6>1, <6>2 DEF Stage, Made, ItemMeant
        <5> QED BY <4>1, <5>1, <5>3, <5>4 DEF MachineInv
      <4> QED BY <3>1, <4>1, <4>2
              DEF EInv, ExecInv, Laid, UpTo, ItemOK, Start, ItemCode, HeadCode, Inserting
    <3> QED BY <2>1, <3>1
  <2>7. CompiledCodeRuns'
    BY <2>1 DEF EInv, CompiledCodeRuns, WellFormed, vmvars
  <2> QED BY <2>1, <2>3, <2>4, <2>5, <2>6, <2>7 DEF EInv, vmvars
<1>2. CASE ENext
  BY <1>2, CompileKeeps, GenItemKeeps, GenHaltKeeps, ExecKeeps, ExitKeeps, TakeTableKeeps,
     TakeRowKeeps
     DEF ENext, Run
<1> QED BY <1>1, <1>2

\* The last CREATE is the one RowsFitTheirTable chooses.
LEMMA RowsFit ==
  ASSUME RowsInv
  PROVE  RowsFitTheirTable
<1>1. SUFFICES ASSUME NEW n \in 1 .. Len(done), done[n].stmt.kind = "INSERT"
               PROVE  RowFits(done[LastCreate(n)].stmt, done[n].stmt)
  BY DEF RowsFitTheirTable, RowFits
<1>2. PICK m \in 1 .. n : IsLastCreate(m, n) /\ RowFits(done[m].stmt, done[n].stmt)
  BY <1>1 DEF RowsInv
<1> DEFINE before == {o \in 1 .. n : done[o].stmt.kind = "CREATE"}
<1>3. m \in before /\ \A o \in before : o <= m
  BY <1>2 DEF IsLastCreate
<1>4. \A q \in before : (\A o \in before : o <= q) => q = m
  <2>1. before \subseteq Int
    OBVIOUS
  <2> HIDE DEF before
  <2> QED BY <1>3, <2>1
<1>5. LastCreate(n) = CHOOSE q \in before : \A o \in before : o <= q
  BY DEF LastCreate
<1> HIDE DEF before
<1>6. LastCreate(n) = m
  BY <1>3, <1>4, <1>5
<1> QED BY <1>2, <1>6

\* The invariant of the engine.
THEOREM EngineInvariance == ESpec => []EInv
BY EngineInit, EngineStep, PTL DEF ESpec

\* The programs of well-formed statements run: with five words of stack the
\* compiler's code never makes the machine signal, trap or go astray.
THEOREM CompiledRuns == ESpec => []CompiledCodeRuns
<1>1. EInv => CompiledCodeRuns
  BY DEF EInv
<1> QED BY <1>1, EngineInvariance, PTL

\* What a statement left is what it says, for ever after.
THEOREM ResultsKeep == ESpec => []ResultsStand
<1>1. EInv => ResultsStand
  BY DEF EInv
<1> QED BY <1>1, EngineInvariance, PTL

\* Each accepted row fits the table created last before it.
THEOREM RowsFitTables == ESpec => []RowsFitTheirTable
<1>1. EInv => RowsFitTheirTable
  BY RowsFit DEF EInv
<1> QED BY <1>1, EngineInvariance, PTL

=============================================================================
