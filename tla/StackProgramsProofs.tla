------------------------- MODULE StackProgramsProofs -------------------------
(***************************************************************************)
(* What the stack machine guarantees of every program, proved for every    *)
(* set of programs, every even width of a word, every size of the stack    *)
(* and every number of objects.  The types are inductive as they stand,    *)
(* and each action property follows from them, one instruction at a time.  *)
(***************************************************************************)
EXTENDS StackPrograms, StackMachineProofs

\* The types, and that the program is one.
PInv == VMTypeOK /\ prog \in Seq(Instructions)

LEMMA ProgramsInit ==
  ASSUME Init
  PROVE  PInv
BY InitTypes, ProgramsAssumption DEF Init, PInv

LEMMA ProgramsStep ==
  ASSUME PInv, [Next]_vars
  PROVE  PInv'
<1>1. prog' = prog /\ (vm_exec_prog \/ UNCHANGED vmvars)
  BY DEF Next, vars
<1> QED BY <1>1, CallKeepsTypes, StutterKeepsTypes DEF PInv

\* The machine is in a state of its type after any number of calls, whatever
\* the program: vm_exec_prog never runs past the end of the stack's array.
THEOREM Types ==
  Spec => []TypeOK
<1>1. Init => PInv
  BY ProgramsInit
<1>2. PInv /\ [Next]_vars => PInv'
  BY ProgramsStep
<1>3. PInv => TypeOK
  BY DEF PInv, TypeOK
<1> QED BY <1>1, <1>2, <1>3, PTL DEF Spec

-----------------------------------------------------------------------------
(* Which action a call is.                                                 *)

LEMMA CallIsInst ==
  ASSUME PInv, vm_exec_prog, Executing
  PROVE  CallOf(Inst.op)
BY CallIs DEF PInv, Executing, Inst

\* The words each instruction uses, one by one.
LEMMA UsesOf ==
  ASSUME NEW i
  PROVE  /\ i.op \in {"IADD", "ISUB", "IMUL", "IDIV", "EQ", "FADD", "FSUB", "FMUL", "FDIV"}
              => Uses(i) = 2
         /\ i.op \in {"JNZ", "CREATE_TABLE"} => Uses(i) = 1
         /\ i.op \in {"DUP", "SWAP"} => Uses(i) = i.operand + 1
         /\ i.op = "DEFINE_COLUMN" => Uses(i) = 4
         /\ i.op = "INSERT_VALUE" => Uses(i) = 3
         /\ i.op \in {"NOP", "PUSH", "JMP", "HLT", "INSERT_PREP"} => Uses(i) = 0
BY DEF Uses

-----------------------------------------------------------------------------
(* Underflow.                                                              *)

\* An instruction that does not find the words it uses signals it.
LEMMA UnderflowStep ==
  ASSUME PInv, vm_exec_prog, Executing, Inst.op \notin {"DUP", "SWAP", "INSERT_VALUE"},
         Uses(Inst) > Size
  PROVE  sig' = "INST_SIG_UNDERFOW"
<1>1. Size \in Nat
  BY DEF PInv, VMTypeOK, Size
<1>2. CASE Inst.op \in {"NOP", "PUSH", "JMP", "HLT", "INSERT_PREP"}
  BY <1>1, <1>2, UsesOf
<1>3. CASE Inst.op \in {"IADD", "ISUB", "IMUL", "IDIV", "EQ", "FADD", "FSUB", "FMUL", "FDIV"}
  <2>1. Size < 2
    BY <1>1, <1>3, UsesOf
  <2>2. \A R : Binary(R) => sig' = "INST_SIG_UNDERFOW"
    BY <2>1 DEF Binary, Signals
  <2>3. INST_IDIV \/ (\E R : Binary(R))
    <3>1. INST_IADD \/ INST_ISUB \/ INST_IMUL \/ INST_IDIV \/ INST_Float \/ INST_EQ
      BY <1>3, CallIsInst DEF CallOf
    <3> QED BY <3>1 DEF INST_IADD, INST_ISUB, INST_IMUL, INST_Float, INST_EQ
  <2>4. INST_IDIV => \E R : Binary(R)
    BY <1>1, <2>1 DEF INST_IDIV
  <2> QED BY <2>2, <2>3, <2>4
<1>4. CASE Inst.op = "JNZ"
  <2>1. INST_JNZ /\ Size < 1
    BY <1>1, <1>4, CallIsInst, UsesOf DEF CallOf
  <2> QED BY <1>1, <2>1 DEF INST_JNZ, Signals
<1>5. CASE Inst.op = "CREATE_TABLE"
  <2>1. INST_CREATE_TABLE /\ Size < 1
    BY <1>1, <1>5, CallIsInst, UsesOf DEF CallOf
  <2> QED BY <1>1, <2>1 DEF INST_CREATE_TABLE, Signals
<1>6. CASE Inst.op = "DEFINE_COLUMN"
  <2>1. INST_DEFINE_COLUMN /\ Size < 4
    BY <1>1, <1>6, CallIsInst, UsesOf DEF CallOf
  <2> QED BY <1>1, <2>1 DEF INST_DEFINE_COLUMN, Signals
<1>7. Inst.op \in Ops
  BY Fetched DEF PInv, Executing, At, Inst, Instructions
<1> QED BY <1>2, <1>3, <1>4, <1>5, <1>6, <1>7 DEF Ops

\* The types hold at every step, so what the types imply of a call is true of
\* every step of every program.
THEOREM NoSilentUnderflow ==
  Spec => UnderflowSignalled
<1>1. Init => PInv
  BY ProgramsInit
<1>2. PInv /\ [Next]_vars => PInv'
  BY ProgramsStep
<1>3. PInv /\ [Next]_vars =>
        [Executing /\ Inst.op \notin {"DUP", "SWAP", "INSERT_VALUE"}
           /\ Uses(Inst) > Size => sig' = "INST_SIG_UNDERFOW"]_vars
  BY UnderflowStep DEF Next
<1> QED BY <1>1, <1>2, <1>3, PTL DEF Spec, UnderflowSignalled

-----------------------------------------------------------------------------
(* Calls that signal an error.                                             *)

\* A call that signals has changed nothing else, but for CREATE_TABLE on a
\* full stack.
LEMMA SignalsClean ==
  ASSUME PInv, vm_exec_prog, sig' # "INST_SIG_OK"
  PROVE  UNCHANGED <<pinst, stack, halt, heap>> \/ LeavesTable
<1>1. \A s : Signals(s) => UNCHANGED <<pinst, stack, halt, heap>>
  BY DEF Signals
<1>2. \A f : Faults(f) => UNCHANGED <<pinst, stack, halt, heap>>
  BY DEF Faults
<1>3. ASSUME Running, NEW st, Continues(st) PROVE FALSE
  BY <1>3 DEF Continues, Running
<1>4. Illegal => UNCHANGED <<pinst, stack, halt, heap>>
  BY <1>1 DEF Illegal
<1>5. \A R : Running /\ Binary(R) => UNCHANGED <<pinst, stack, halt, heap>>
  BY <1>1, <1>3 DEF Binary
<1>6. CASE INST_NOP \/ INST_PUSH
  BY <1>1, <1>3, <1>6 DEF INST_NOP, INST_PUSH, At
<1>7. CASE INST_IADD \/ INST_ISUB \/ INST_IMUL \/ INST_IDIV \/ INST_Float \/ INST_EQ
  BY <1>1, <1>2, <1>5, <1>7
     DEF INST_IADD, INST_ISUB, INST_IMUL, INST_IDIV, INST_Float, INST_EQ, At
<1>8. CASE INST_JMP \/ INST_HLT
  BY <1>8 DEF INST_JMP, INST_HLT, At, Running
<1>9. CASE INST_JNZ
  <2>1. Running
    BY <1>9 DEF INST_JNZ, At
  <2> QED BY <1>1, <1>3, <1>9, <2>1 DEF INST_JNZ, Running
<1>10. CASE INST_DUP \/ INST_SWAP
  BY <1>1, <1>2, <1>3, <1>10 DEF INST_DUP, INST_SWAP, At
<1>11. CASE INST_CREATE_TABLE
  <2>1. Running /\ Inst.op = "CREATE_TABLE"
    BY <1>11 DEF INST_CREATE_TABLE, At, Inst
  <2>2. CASE Size >= VM_STACK_SIZE
    <3>1. /\ stack \in Seq(Words) /\ heap \in Seq(Objects) /\ Size = Len(stack)
          /\ Size \in Nat /\ Size = VM_STACK_SIZE
      BY <2>2, WordsAssumption DEF PInv, VMTypeOK, Size
    <3>2. CASE Size >= 1 /\ Right \in Strings
      <4>0. ~(Size < 1) /\ Size >= VM_STACK_SIZE
        BY <2>2, <3>1, <3>2
      <4>1. PICK x, y, p : /\ stack' = Append(Below(1), p) /\ heap' = heap \o <<x, y>>
                           /\ UNCHANGED <<pinst, halt>>
        <5>1. PICK x, y, p : /\ x = [kind |-> "page", objname |-> Right]
                             /\ y = [kind |-> "coldefs", items |-> << >>]
                             /\ p = HeapBase + Len(heap) + 1
          OBVIOUS
        <5>2. /\ stack' = Append(Below(1), p) /\ heap' = heap \o <<x, y>>
              /\ UNCHANGED <<pinst, halt>>
          BY <1>11, <3>2, <4>0, <5>1 DEF INST_CREATE_TABLE
        <5> QED BY <5>2
      <4>2. UNCHANGED <<pinst, halt>>
        BY <4>1
      <4>3. Len(heap') = Len(heap) + 2
        BY <3>1, <4>1
      <4>4. Len(stack') = Size
        BY <3>1, <3>2, <4>1 DEF Below
      <4> QED BY <2>1, <3>1, <4>2, <4>3, <4>4 DEF LeavesTable
    <3>3. CASE ~(Size >= 1 /\ Right \in Strings)
      BY <1>1, <1>2, <1>11, <3>1, <3>3 DEF INST_CREATE_TABLE
    <3> QED BY <3>2, <3>3
  <2>3. CASE ~(Size >= VM_STACK_SIZE)
    BY <1>1, <1>2, <1>3, <1>11, <2>1, <2>3 DEF INST_CREATE_TABLE
  <2> QED BY <2>2, <2>3
<1>12. CASE INST_DEFINE_COLUMN \/ INST_INSERT_PREP \/ INST_INSERT_VALUE
  BY <1>1, <1>2, <1>3, <1>12
     DEF INST_DEFINE_COLUMN, INST_INSERT_PREP, INST_INSERT_VALUE, At
<1> QED BY <1>4, <1>6, <1>7, <1>8, <1>9, <1>10, <1>11, <1>12 DEF vm_exec_prog

\* Whoever reports a signal reports the state the instruction failed in; on a
\* full stack CREATE_TABLE has made a table first.
THEOREM FailuresAreClean ==
  Spec => FailedStepsAreClean
<1>1. Init => PInv
  BY ProgramsInit
<1>2. PInv /\ [Next]_vars => PInv'
  BY ProgramsStep
<1>3. PInv /\ [Next]_vars =>
        [sig' # "INST_SIG_OK" => UNCHANGED <<pinst, stack, halt, heap>> \/ LeavesTable]_vars
  BY SignalsClean DEF Next
<1> QED BY <1>1, <1>2, <1>3, PTL DEF Spec, FailedStepsAreClean

-----------------------------------------------------------------------------
(* The heap.                                                               *)

\* No instruction moves or takes back an object, or shortens an array: what a
\* program has on its stack stays good.
THEOREM PointersStayGood ==
  Spec => ObjectsStay
<1>1. Init => PInv
  BY ProgramsInit
<1>2. PInv /\ [Next]_vars => PInv'
  BY ProgramsStep
<1>3. PInv /\ [Next]_vars =>
        [\A i \in 1 .. Len(heap) :
           /\ i <= Len(heap')
           /\ heap'[i].kind = heap[i].kind
           /\ IF heap[i].kind = "page"
              THEN heap'[i] = heap[i]
              ELSE SubSeq(heap'[i].items, 1, Len(heap[i].items)) = heap[i].items]_vars
  <2> SUFFICES ASSUME PInv, vm_exec_prog, NEW i \in 1 .. Len(heap)
               PROVE  /\ i <= Len(heap')
                      /\ heap'[i].kind = heap[i].kind
                      /\ IF heap[i].kind = "page"
                         THEN heap'[i] = heap[i]
                         ELSE SubSeq(heap'[i].items, 1, Len(heap[i].items)) = heap[i].items
    BY DEF Next
  <2>1. Keeps(i)
    BY CallMovesHeap, MovesKeep DEF PInv
  <2> QED BY <2>1 DEF Keeps
<1> QED BY <1>1, <1>2, <1>3, PTL DEF Spec, ObjectsStay

-----------------------------------------------------------------------------
(* The words an instruction does not use.                                  *)

\* What a call leaves of the words below the k on top.
KeepsBelow(k) ==
  Size > k => SubSeq(stack', 1, Size - k) = SubSeq(stack, 1, Size - k)

\* Some of the top k words are taken away and others put in their place.
LEMMA ReplacedKeeps ==
  ASSUME PInv, NEW k \in Nat, stack' \in Seq(Words), Len(stack') >= Size - k,
         \A i \in 1 .. Size - k : stack'[i] = stack[i]
  PROVE  KeepsBelow(k)
<1>1. SUFFICES ASSUME Size > k
               PROVE  SubSeq(stack', 1, Size - k) = SubSeq(stack, 1, Size - k)
  BY DEF KeepsBelow
<1>2. stack \in Seq(Words) /\ Size = Len(stack) /\ Size \in Nat
  BY DEF PInv, VMTypeOK, Size
<1>3. Size - k \in Nat /\ Size - k <= Len(stack) /\ Size - k <= Len(stack')
  BY <1>1, <1>2
<1> QED BY <1>2, <1>3, SameFront

LEMMA BelowStep ==
  ASSUME PInv, vm_exec_prog, Executing
  PROVE  KeepsBelow(Uses(Inst))
<1>1. stack \in Seq(Words) /\ Size = Len(stack) /\ Size \in Nat /\ stack' \in Seq(Words)
  BY CallKeepsTypes DEF PInv, VMTypeOK, Size
<1>2. Inst \in Instructions /\ Operand = Inst.operand /\ Inst.operand \in Nat
  <2>1. At(Inst.op)
    BY DEF At, Executing, Inst
  <2>2. Inst \in Instructions
    BY <2>1, Fetched DEF PInv, Inst
  <2> QED BY <2>2 DEF Instructions, Operand, Inst
<1>3. Uses(Inst) \in Nat
  <2>1. Inst.op \in Ops
    BY <1>2 DEF Instructions
  <2> QED BY <1>2, <2>1, UsesOf DEF Ops
<1>4. CASE stack' = stack
  BY <1>4 DEF KeepsBelow
<1>5. ASSUME NEW w \in Words, stack' = Append(stack, w)
      PROVE  KeepsBelow(Uses(Inst))
  <2>1. Len(stack') = Size + 1 /\ \A i \in 1 .. Size : stack'[i] = stack[i]
    BY <1>1, <1>5, AppendKeeps
  <2> QED BY <1>1, <1>3, <2>1, ReplacedKeeps
<1>6. ASSUME Size >= Uses(Inst), stack' = Below(Uses(Inst))
      PROVE  KeepsBelow(Uses(Inst))
  <2>1. Uses(Inst) \in 0 .. Size
    BY <1>1, <1>3, <1>6
  <2>2. Len(stack') = Size - Uses(Inst) /\ \A i \in 1 .. Size - Uses(Inst) : stack'[i] = stack[i]
    BY <1>6, <2>1, BelowFacts DEF PInv
  <2> QED BY <1>1, <1>3, <2>2, ReplacedKeeps
<1>7. CASE INST_IADD \/ INST_ISUB \/ INST_IMUL \/ INST_IDIV \/ INST_Float \/ INST_EQ
  <2>1. Uses(Inst) = 2
    <3>1. Inst.op \in {"IADD", "ISUB", "IMUL", "IDIV", "EQ", "FADD", "FSUB", "FMUL", "FDIV"}
      BY <1>7 DEF INST_IADD, INST_ISUB, INST_IMUL, INST_IDIV, INST_Float, INST_EQ, At, Inst
    <3> QED BY <3>1, UsesOf
  <2>2. stack' = stack \/ \E R : Binary(R)
    BY <1>7 DEF INST_IADD, INST_ISUB, INST_IMUL, INST_IDIV, INST_Float, INST_EQ,
                Signals, Faults
  <2>3. ASSUME NEW R, Binary(R), Size >= 2 PROVE KeepsBelow(2)
    <3>1. PICK w \in R : stack' = Append(Below(2), w)
      BY <1>1, <2>3 DEF Binary, Continues
    <3>2. 2 \in 0 .. Size
      BY <1>1, <2>3
    <3>3. Below(2) \in Seq(Words) /\ Len(Below(2)) = Size - 2
          /\ \A i \in 1 .. Size - 2 : Below(2)[i] = stack[i]
      BY <3>2, BelowFacts DEF PInv
    <3>4. Len(stack') = Size - 2 + 1 /\ \A i \in 1 .. Size - 2 : stack'[i] = stack[i]
      <4>1. \A S, x : \A q \in Seq(S) : Len(Append(q, x)) = Len(q) + 1
                                        /\ \A i \in 1 .. Len(q) : Append(q, x)[i] = q[i]
        OBVIOUS
      <4> QED BY <3>1, <3>3, <4>1
    <3> QED BY <1>1, <3>4, ReplacedKeeps
  <2>4. CASE Size < 2
    BY <1>1, <2>1, <2>4 DEF KeepsBelow
  <2> QED BY <1>1, <1>4, <2>1, <2>2, <2>3, <2>4
<1>8. CASE Illegal \/ INST_NOP \/ INST_JMP \/ INST_HLT
  BY <1>4, <1>8 DEF Illegal, INST_NOP, INST_JMP, INST_HLT, Signals, Continues
<1>9. CASE INST_PUSH
  <2>1. stack' = stack \/ stack' = Append(stack, Operand)
    BY <1>9 DEF INST_PUSH, Signals, Continues
  <2>2. Operand \in Words
    BY <1>2 DEF Instructions, Words
  <2> QED BY <1>4, <1>5, <2>1, <2>2
<1>10. CASE INST_JNZ
  <2>1. Uses(Inst) = 1
    BY <1>10, UsesOf DEF INST_JNZ, At, Inst
  <2> QED BY <1>4, <1>6, <1>10, <2>1 DEF INST_JNZ, Signals, Continues
<1>11. CASE INST_DUP
  <2>1. stack' = stack \/ \E w \in FromTop(Operand + 1) : stack' = Append(stack, w)
    BY <1>11 DEF INST_DUP, Signals, Continues
  <2> QED BY <1>2, <1>4, <1>5, <2>1, ReadIsWord DEF PInv
<1>12. CASE INST_SWAP
  <2>1. Uses(Inst) = Operand + 1
    BY <1>2, <1>12, UsesOf DEF INST_SWAP, At, Inst
  <2>2. CASE Operand < Size
             /\ stack' = [stack EXCEPT ![Size] = stack[Size - Operand],
                                       ![Size - Operand] = stack[Size]]
    <3>1. Len(stack') = Size /\ \A i \in 1 .. Size - (Operand + 1) : stack'[i] = stack[i]
      BY <1>1, <1>2, <2>2
    <3>2. Operand + 1 \in Nat /\ Len(stack') >= Size - (Operand + 1)
      BY <1>1, <1>2, <3>1
    <3>3. KeepsBelow(Operand + 1)
      BY <1>1, <3>1, <3>2, ReplacedKeeps
    <3> QED BY <2>1, <3>3
  <2> QED BY <1>4, <1>12, <2>2 DEF INST_SWAP, Signals, Faults, Continues
<1>13. CASE INST_CREATE_TABLE
  <2>1. Uses(Inst) = 1
    BY <1>13, UsesOf DEF INST_CREATE_TABLE, At, Inst
  <2>2. ASSUME Size >= 1, NEW st, stack' = Below(1) \o st, st \in Seq(Words)
        PROVE  KeepsBelow(1)
    <3>1. 1 \in 0 .. Size
      BY <1>1, <2>2
    <3>2. Below(1) \in Seq(Words) /\ Len(Below(1)) = Size - 1
          /\ \A i \in 1 .. Size - 1 : Below(1)[i] = stack[i]
      BY <3>1, BelowFacts DEF PInv
    <3>3. Len(stack') >= Size - 1 /\ \A i \in 1 .. Size - 1 : stack'[i] = stack[i]
      <4>1. \A S : \A q \in Seq(S), r \in Seq(S) :
              Len(q \o r) >= Len(q) /\ \A i \in 1 .. Len(q) : (q \o r)[i] = q[i]
        OBVIOUS
      <4> QED BY <2>2, <3>2, <4>1
    <3> QED BY <1>1, <3>3, ReplacedKeeps
  <2>3. \/ stack' = stack
        \/ /\ Size >= 1 /\ Len(heap) + 2 <= MaxObjs
           /\ LET page == HeapBase + Len(heap) + 1
              IN  \/ stack' = Append(Below(1), page)
                  \/ stack' = Below(1) \o <<page, page + 1>>
    BY <1>13 DEF INST_CREATE_TABLE, Signals, Faults, Continues
  <2>4. Len(heap) + 2 <= MaxObjs =>
          /\ HeapBase + Len(heap) + 1 \in Words
          /\ HeapBase + Len(heap) + 1 + 1 \in Words
    <3>1. Len(heap) \in Nat
      BY DEF PInv, VMTypeOK
    <3> QED BY <3>1, AddressAssumption, WordsAssumption DEF Words
  <2>5. \A q \in Seq(Words), w \in Words : Append(q, w) = q \o <<w>>
    OBVIOUS
  <2>6. Size >= 1 => Below(1) \in Seq(Words)
    BY <1>1, BelowFacts DEF PInv
  <2>7. \A v \in Words, w \in Words : <<v>> \in Seq(Words) /\ <<v, w>> \in Seq(Words)
    OBVIOUS
  <2>8. ASSUME Size >= 1, Len(heap) + 2 <= MaxObjs, NEW page \in Words,
               page = HeapBase + Len(heap) + 1,
               stack' = Append(Below(1), page) \/ stack' = Below(1) \o <<page, page + 1>>
        PROVE  KeepsBelow(1)
    <3>1. page + 1 \in Words
      BY <2>4, <2>8
    <3>2. CASE stack' = Append(Below(1), page)
      <4>1. stack' = Below(1) \o <<page>>
        BY <2>5, <2>6, <2>8, <3>2
      <4> QED BY <2>2, <2>7, <2>8, <4>1
    <3>3. CASE stack' = Below(1) \o <<page, page + 1>>
      BY <2>2, <2>7, <2>8, <3>1, <3>3
    <3> QED BY <2>8, <3>2, <3>3
  <2>9. CASE stack' = stack
    BY <1>4, <2>9
  <2> QED BY <2>1, <2>3, <2>4, <2>8, <2>9
<1>14. CASE INST_DEFINE_COLUMN
  <2>1. Uses(Inst) = 4
    BY <1>14, UsesOf DEF INST_DEFINE_COLUMN, At, Inst
  <2>2. CASE Size >= 4 /\ stack' = Below(3)
    <3>1. 3 \in 0 .. Size
      BY <1>1, <2>2
    <3>2. Len(stack') = Size - 3 /\ \A i \in 1 .. Size - 3 : stack'[i] = stack[i]
      BY <2>2, <3>1, BelowFacts DEF PInv
    <3> QED BY <1>1, <2>1, <2>2, <3>2, ReplacedKeeps
  <2> QED BY <1>4, <1>14, <2>2 DEF INST_DEFINE_COLUMN, Signals, Faults, Continues
<1>15. CASE INST_INSERT_PREP
  <2>1. \/ stack' = stack
        \/ Len(heap) + 1 <= MaxObjs /\ stack' = Append(stack, HeapBase + Len(heap) + 1)
    BY <1>15 DEF INST_INSERT_PREP, Signals, Continues
  <2>2. Len(heap) + 1 <= MaxObjs => HeapBase + Len(heap) + 1 \in Words
    BY Allocated DEF PInv
  <2> QED BY <1>4, <1>5, <2>1, <2>2
<1>16. CASE INST_INSERT_VALUE
  <2>1. Uses(Inst) = 3
    BY <1>16, UsesOf DEF INST_INSERT_VALUE, At, Inst
  <2>2. CASE Size >= 2 /\ stack' = Below(2)
    <3>1. 2 \in 0 .. Size
      BY <1>1, <2>2
    <3>2. Len(stack') = Size - 2 /\ \A i \in 1 .. Size - 2 : stack'[i] = stack[i]
      BY <2>2, <3>1, BelowFacts DEF PInv
    <3> QED BY <1>1, <2>1, <2>2, <3>2, ReplacedKeeps
  <2> QED BY <1>4, <1>16, <2>2 DEF INST_INSERT_VALUE, Signals, Faults, Continues
<1> QED BY <1>7, <1>8, <1>9, <1>10, <1>11, <1>12, <1>13, <1>14, <1>15, <1>16
        DEF vm_exec_prog

\* An instruction leaves the words below those it uses as they are, for
\* DUP and SWAP by any distance as well.
THEOREM BelowUntouched ==
  Spec => BelowIsKept
<1>1. Init => PInv
  BY ProgramsInit
<1>2. PInv /\ [Next]_vars => PInv'
  BY ProgramsStep
<1>3. PInv /\ [Next]_vars =>
        [Executing /\ Size > Uses(Inst) =>
           SubSeq(stack', 1, Size - Uses(Inst)) = SubSeq(stack, 1, Size - Uses(Inst))]_vars
  BY BelowStep DEF Next, KeepsBelow
<1> QED BY <1>1, <1>2, <1>3, PTL DEF Spec, BelowIsKept

-----------------------------------------------------------------------------
(* Division.                                                               *)

\* Division of natural numbers.
LEMMA NaturalDivision ==
  ASSUME NEW m \in Nat, NEW n \in Nat \ {0}
  PROVE  /\ m \div n \in Nat /\ m \div n <= m
         /\ 0 <= m - n * (m \div n) /\ m - n * (m \div n) < n
         /\ n >= 2 /\ m > 0 => m \div n < m
<1>1. m \div n \in Nat /\ m \div n <= m
  OBVIOUS
<1>2. 0 <= m - n * (m \div n) /\ m - n * (m \div n) < n
  OBVIOUS
<1>3. ASSUME n >= 2, m > 0 PROVE m \div n < m
  <2> DEFINE q == m \div n
  <2>1. q \in Nat /\ n * q <= m
    BY <1>1, <1>2
  <2> HIDE DEF q
  <2>2. 2 * q <= n * q
    BY <1>3, <2>1
  <2>3. q < m
    BY <1>3, <2>1, <2>2
  <2> QED BY <2>3 DEF q
<1> QED BY <1>1, <1>2, <1>3

\* C's division: the remainder has the sign of the dividend and is smaller
\* than the divisor, and the quotient is no larger than the dividend.
LEMMA QuotientFacts ==
  ASSUME NEW a \in Int, NEW b \in Int, b # 0
  PROVE  LET q == Quotient(a, b)
             r == a - b * q
         IN  /\ q \in Int /\ r * r < b * b /\ a * r >= 0
             /\ a >= 0 => -a <= q /\ q <= a
             /\ a < 0 => a <= q /\ q <= -a
             /\ a < 0 /\ q = -a => b = -1
<1> DEFINE abs(n) == IF n < 0 THEN -n ELSE n
           m == abs(a)
           n == abs(b)
           d == m \div n
           rest == m - n * d
<1>1. m \in Nat /\ n \in Nat \ {0}
  OBVIOUS
<1>2. /\ d \in Nat /\ d <= m /\ 0 <= rest /\ rest < n
      /\ n >= 2 /\ m > 0 => d < m
  <2> HIDE DEF m, n
  <2> QED BY <1>1, NaturalDivision
<1>3. Quotient(a, b) = IF (a < 0) = (b < 0) THEN d ELSE -d
  BY DEF Quotient
<1>4. rest \in Nat /\ rest * rest < n * n /\ n * n = b * b
  <2>1. rest \in Nat
    <3> HIDE DEF m, n, d
    <3> QED BY <1>1, <1>2
  <2>2. \A x \in Nat, y \in Nat : x < y => x * x < y * y
    OBVIOUS
  <2>3. rest * rest < n * n
    <3> HIDE DEF m, n, d, rest
    <3> QED BY <1>1, <1>2, <2>1, <2>2
  <2>4. n * n = b * b
    OBVIOUS
  <2> QED BY <2>1, <2>3, <2>4
<1>5. a - b * Quotient(a, b) = IF a < 0 THEN -rest ELSE rest
  <2> HIDE DEF d
  <2>1. CASE a < 0 /\ b < 0
    BY <1>2, <1>3, <2>1
  <2>2. CASE a < 0 /\ b > 0
    BY <1>2, <1>3, <2>2
  <2>3. CASE a >= 0 /\ b < 0
    BY <1>2, <1>3, <2>3
  <2>4. CASE a >= 0 /\ b > 0
    BY <1>2, <1>3, <2>4
  <2> QED BY <2>1, <2>2, <2>3, <2>4
<1>6. /\ (-rest) * (-rest) = rest * rest
      /\ a >= 0 => a * rest >= 0
      /\ a < 0 => a * (-rest) >= 0
  <2> HIDE DEF rest
  <2> QED BY <1>4
<1>7. \/ Quotient(a, b) = d
      \/ Quotient(a, b) = -d
  BY <1>3
<1>8. ASSUME a < 0, Quotient(a, b) = -a PROVE b = -1
  <2>1. m = -a /\ m > 0
    BY <1>8
  <2> HIDE DEF d, m
  <2>2. Quotient(a, b) = d
    BY <1>2, <1>7, <1>8, <2>1
  <2>3. ~(n >= 2)
    BY <1>2, <1>8, <2>1, <2>2
  <2>4. b < 0
    BY <1>2, <1>3, <1>8, <2>1, <2>2
  <2> QED BY <2>3, <2>4
<1>9. Quotient(a, b) \in Int /\ -m <= Quotient(a, b) /\ Quotient(a, b) <= m
  <2> HIDE DEF d, m, n
  <2> QED BY <1>1, <1>2, <1>7
<1>10. (a >= 0 => m = a) /\ (a < 0 => m = -a)
  OBVIOUS
<1> HIDE DEF m, n, d, rest
<1> QED BY <1>1, <1>4, <1>5, <1>6, <1>8, <1>9, <1>10

\* A word read as a signed number, and written back.
LEMMA SignedRange ==
  ASSUME NEW w \in Words
  PROVE  -WordMod <= 2 * Signed(w) /\ 2 * Signed(w) < WordMod
BY WordsAssumption DEF Signed, Words

LEMMA SignedOf ==
  ASSUME NEW q \in Int, -WordMod <= 2 * q, 2 * q < WordMod
  PROVE  Signed(q % WordMod) = q
<1>1. WordMod \in Nat \ {0}
  BY WordsAssumption
<1>2. CASE q >= 0
  <2>1. q % WordMod = q
    BY <1>1, <1>2
  <2> QED BY <2>1 DEF Signed
<1>3. CASE q < 0
  <2>1. q % WordMod = q + WordMod
    BY <1>1, <1>3
  <2>2. ~(2 * (q + WordMod) < WordMod)
    BY <1>1
  <2> QED BY <1>1, <2>1, <2>2 DEF Signed
<1> QED BY <1>2, <1>3

\* An IDIV that goes on has divided as C does.
LEMMA DivisionStep ==
  ASSUME PInv, vm_exec_prog, Executing, Inst.op = "IDIV", pinst' = pinst + 1
  PROVE  LET a == Signed(Left)
             b == Signed(Right)
             r == a - b * Signed(stack'[Size - 1])
         IN  r * r < b * b /\ a * r >= 0
<1> DEFINE a == Signed(Left)
           b == Signed(Right)
           q == Quotient(a, b)
<1>1. stack \in Seq(Words) /\ Size = Len(stack) /\ Size \in Nat /\ pinst \in Nat
  BY DEF PInv, VMTypeOK, Size
<1>2. INST_IDIV
  BY CallIsInst DEF CallOf
<1>3. (\A s : ~Signals(s)) /\ (\A f : ~Faults(f))
  BY <1>1 DEF Signals, Faults
<1>4. Size >= 2
  BY <1>1, <1>2, <1>3 DEF INST_IDIV, Binary
<1>5. /\ Right # 0 /\ ~(b = -1 /\ 2 * Left = WordMod)
      /\ Continues(Append(Below(2), q % WordMod))
  BY <1>1, <1>2, <1>3, <1>4 DEF INST_IDIV, Binary
<1>6. stack'[Size - 1] = q % WordMod
  <2>1. 2 \in 0 .. Size
    BY <1>1, <1>4
  <2>2. Below(2) \in Seq(Words) /\ Len(Below(2)) = Size - 2
    BY <2>1, BelowFacts DEF PInv
  <2>3. \A S, x : \A p \in Seq(S) : Append(p, x)[Len(p) + 1] = x
    OBVIOUS
  <2>4. stack' = Append(Below(2), q % WordMod)
    BY <1>5 DEF Continues
  <2>5. Size - 1 = Len(Below(2)) + 1
    BY <1>1, <2>2
  <2> QED BY <2>2, <2>3, <2>4, <2>5
<1>7. Left \in Words /\ Right \in Words
  BY <1>1, <1>4 DEF Left, Right
<1>8. a \in Int /\ b \in Int /\ b # 0
  BY <1>5, <1>7, SignedType
<1>9. -WordMod <= 2 * a /\ 2 * a < WordMod
  BY <1>7, SignedRange
<1>10. 2 * a = -WordMod => 2 * Left = WordMod
  BY <1>7, WordsAssumption DEF Signed, Words
<1> HIDE DEF a, b
<1>11. /\ q \in Int
       /\ (a - b * q) * (a - b * q) < b * b /\ a * (a - b * q) >= 0
       /\ a >= 0 => -a <= q /\ q <= a
       /\ a < 0 => a <= q /\ q <= -a
       /\ a < 0 /\ q = -a => b = -1
  BY <1>8, QuotientFacts
<1> HIDE DEF q
<1>12. -WordMod <= 2 * q /\ 2 * q < WordMod
  BY <1>5, <1>8, <1>9, <1>10, <1>11, WordsAssumption
<1>13. Signed(q % WordMod) = q
  BY <1>11, <1>12, SignedOf
<1> QED BY <1>6, <1>11, <1>13 DEF a, b

\* IDIV divides as C does, at any width of a word, for every pair of words
\* that does not trap or signal.
THEOREM DivisionIsC ==
  Spec => DivisionTruncates
<1>1. Init => PInv
  BY ProgramsInit
<1>2. PInv /\ [Next]_vars => PInv'
  BY ProgramsStep
<1>3. PInv /\ [Next]_vars =>
        [Executing /\ Inst.op = "IDIV" /\ pinst' = pinst + 1 =>
           LET a == Signed(Left)
               b == Signed(Right)
               r == a - b * Signed(stack'[Size - 1])
           IN  /\ r * r < b * b
               /\ a * r >= 0]_vars
  BY DivisionStep DEF Next
<1> QED BY <1>1, <1>2, <1>3, PTL DEF Spec, DivisionTruncates

=============================================================================
