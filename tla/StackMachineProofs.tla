-------------------------- MODULE StackMachineProofs --------------------------
(***************************************************************************)
(* What one call of vm_exec_prog does, for every program, every width of a *)
(* word and every size of the stack: one lemma per instruction says that   *)
(* it keeps the types and what it does to the stack and the heap.  The     *)
(* theorems about programs (StackProgramsProofs) and about compiled        *)
(* statements (SqlEngineProofs) rest on them.                              *)
(***************************************************************************)
EXTENDS StackMachine, TLAPS

-----------------------------------------------------------------------------
(* Sequences.                                                              *)

\* What SubSeq takes from the front.
LEMMA FrontOf ==
  ASSUME NEW S, NEW q \in Seq(S), NEW n \in 0 .. Len(q)
  PROVE  /\ SubSeq(q, 1, n) \in Seq(S) /\ Len(SubSeq(q, 1, n)) = n
         /\ \A i \in 1 .. n : SubSeq(q, 1, n)[i] = q[i]
OBVIOUS

\* Sequences of the same length and elements are the same.
LEMMA SameSequence ==
  ASSUME NEW S, NEW T, NEW q \in Seq(S), NEW r \in Seq(T), Len(q) = Len(r),
         \A i \in 1 .. Len(q) : q[i] = r[i]
  PROVE  q = r
OBVIOUS

\* Two sequences that agree up to n have the same front.
LEMMA SameFront ==
  ASSUME NEW S, NEW q \in Seq(S), NEW r \in Seq(S),
         NEW n \in Nat, n <= Len(q), n <= Len(r), \A i \in 1 .. n : q[i] = r[i]
  PROVE  SubSeq(q, 1, n) = SubSeq(r, 1, n)
OBVIOUS

\* Append keeps what was there.
LEMMA AppendKeeps ==
  ASSUME NEW S, NEW q \in Seq(S), NEW x \in S
  PROVE  /\ Append(q, x) \in Seq(S) /\ Len(Append(q, x)) = Len(q) + 1
         /\ Append(q, x)[Len(q) + 1] = x
         /\ \A i \in 1 .. Len(q) : Append(q, x)[i] = q[i]
OBVIOUS

\* So does the concatenation of two more elements.
LEMMA TwoMore ==
  ASSUME NEW S, NEW q \in Seq(S), NEW x \in S, NEW y \in S
  PROVE  /\ q \o <<x, y>> \in Seq(S) /\ Len(q \o <<x, y>>) = Len(q) + 2
         /\ (q \o <<x, y>>)[Len(q) + 1] = x /\ (q \o <<x, y>>)[Len(q) + 2] = y
         /\ \A i \in 1 .. Len(q) : (q \o <<x, y>>)[i] = q[i]
<1>1. <<x, y>> \in Seq(S) /\ Len(<<x, y>>) = 2 /\ <<x, y>>[1] = x /\ <<x, y>>[2] = y
  OBVIOUS
<1>2. q \o <<x, y>> \in Seq(S) /\ Len(q \o <<x, y>>) = Len(q) + 2
  BY <1>1
<1>3. \A i \in 1 .. Len(q) + 2 :
        (q \o <<x, y>>)[i] = IF i <= Len(q) THEN q[i] ELSE <<x, y>>[i - Len(q)]
  BY <1>1
<1>4. Len(q) \in Nat
  OBVIOUS
<1> QED BY <1>1, <1>2, <1>3, <1>4

\* Concatenation.
LEMMA ConcatLen ==
  ASSUME NEW S, NEW p \in Seq(S), NEW q \in Seq(S)
  PROVE  p \o q \in Seq(S) /\ Len(p \o q) = Len(p) + Len(q)
OBVIOUS

LEMMA ConcatLeft ==
  ASSUME NEW S, NEW p \in Seq(S), NEW q \in Seq(S), NEW i \in 1 .. Len(p)
  PROVE  (p \o q)[i] = p[i]
OBVIOUS

LEMMA ConcatRight ==
  ASSUME NEW S, NEW p \in Seq(S), NEW q \in Seq(S), NEW j \in 1 .. Len(q)
  PROVE  (p \o q)[Len(p) + j] = q[j]
<1>1. /\ Len(p) + j \in Nat /\ Len(p) + j >= 1 /\ Len(p) + j <= Len(p) + Len(q)
      /\ ~(Len(p) + j <= Len(p)) /\ (Len(p) + j) - Len(p) = j
  OBVIOUS
<1>2. (p \o q)[Len(p) + j] = q[(Len(p) + j) - Len(p)]
  BY <1>1
<1> QED BY <1>1, <1>2

-----------------------------------------------------------------------------
(* Words and objects.                                                      *)

\* A word is a word; so are 0, the address of an object and a type code.
LEMMA WordFacts ==
  /\ 0 \in Words /\ 1 \in Words
  /\ \A n \in Int : n % WordMod \in Words
  /\ Strings \subseteq Words
  /\ \A i \in 1 .. MaxObjs : HeapBase + i \in Words
BY WordsAssumption, AddressAssumption DEF Words

\* Cutting a word off leaves an int, and leaves one that is an int already.
LEMMA NarrowedFacts ==
  /\ \A n \in Int : Narrowed(n) \in 0 .. IntMod - 1
  /\ \A n \in 0 .. IntMod - 1 : Narrowed(n) = n
<1>1. IntMod \in Nat \ {0}
  BY WordsAssumption
<1>2. \A n \in Int : n % IntMod \in 0 .. IntMod - 1
  BY ONLY <1>1
<1>3. \A n \in 0 .. IntMod - 1 : n % IntMod = n
  BY ONLY <1>1
<1> QED BY <1>2, <1>3 DEF Narrowed

ColDefs == [colname : Words, type : 0 .. IntMod - 1, len : 0 .. IntMod - 1]

RowVals == [datatype : Words, val : Words]

\* The three kinds of object.
LEMMA ObjectKinds ==
  /\ \A w \in Words : [kind |-> "page", objname |-> w] \in Objects
  /\ \A q \in Seq(ColDefs) : [kind |-> "coldefs", items |-> q] \in Objects
  /\ \A q \in Seq(RowVals) : [kind |-> "values", items |-> q] \in Objects
  /\ \A o \in Objects :
       /\ o.kind \in {"page", "coldefs", "values"}
       /\ o.kind = "page" => o.objname \in Words /\ o = [kind |-> "page", objname |-> o.objname]
       /\ o.kind = "coldefs" =>
            o.items \in Seq(ColDefs) /\ o = [kind |-> "coldefs", items |-> o.items]
       /\ o.kind = "values" =>
            o.items \in Seq(RowVals) /\ o = [kind |-> "values", items |-> o.items]
BY DEF Objects, ColDefs, RowVals

-----------------------------------------------------------------------------
(* Types.                                                                  *)

\* The instruction fetched and its operand.
LEMMA Fetched ==
  ASSUME prog \in Seq(Instructions), NEW op, VMTypeOK, At(op)
  PROVE  /\ prog[pinst + 1] \in Instructions /\ prog[pinst + 1].op = op
         /\ Operand \in Words
<1>1. pinst + 1 \in 1 .. Len(prog)
  BY DEF At, VMTypeOK
<1>2. prog[pinst + 1] \in Instructions
  BY <1>1
<1>3. prog[pinst + 1].operand \in Words
  BY <1>2 DEF Instructions, Words
<1> QED BY <1>2, <1>3 DEF At, Operand

\* A word read below the stack is any word, but a word.
LEMMA ReadIsWord ==
  ASSUME VMTypeOK, NEW k \in Nat \ {0}, NEW w \in FromTop(k)
  PROVE  w \in Words
<1>1. stack \in Seq(Words)
  BY DEF VMTypeOK
<1>2. CASE k <= Size
  BY <1>1, <1>2 DEF FromTop, Size
<1> QED BY <1>2 DEF FromTop

\* The stack without its top k words.
LEMMA BelowFacts ==
  ASSUME VMTypeOK, NEW k \in 0 .. Size
  PROVE  /\ Below(k) \in Seq(Words) /\ Len(Below(k)) = Size - k
         /\ \A i \in 1 .. Size - k : Below(k)[i] = stack[i]
<1>1. stack \in Seq(Words) /\ Size \in Nat /\ Size = Len(stack)
  BY DEF VMTypeOK, Size
<1>2. Size - k \in 0 .. Len(stack)
  BY <1>1
<1> QED BY <1>1, <1>2, FrontOf DEF Below

\* Growing an object's array by one item of its kind gives an object.
LEMMA ItemAdded ==
  /\ \A o \in Objects, x \in ColDefs :
       o.kind = "coldefs" => /\ [o EXCEPT !.items = Append(@, x)] \in Objects
                             /\ Append(o.items, x) \in Seq(ColDefs)
  /\ \A o \in Objects, x \in RowVals :
       o.kind = "values" => /\ [o EXCEPT !.items = Append(@, x)] \in Objects
                            /\ Append(o.items, x) \in Seq(RowVals)
<1>1. ASSUME NEW o \in Objects, NEW x \in ColDefs, o.kind = "coldefs"
      PROVE  /\ [o EXCEPT !.items = Append(@, x)] \in Objects
             /\ Append(o.items, x) \in Seq(ColDefs)
  <2>1. o.items \in Seq(ColDefs) /\ o = [kind |-> "coldefs", items |-> o.items]
    BY <1>1, ObjectKinds
  <2>2. Append(o.items, x) \in Seq(ColDefs)
    BY <2>1
  <2>3. [o EXCEPT !.items = Append(@, x)] = [kind |-> "coldefs", items |-> Append(o.items, x)]
    <3>1. PICK list : list = o.items
      OBVIOUS
    <3>2. o = [kind |-> "coldefs", items |-> list]
      BY <2>1, <3>1
    <3> QED BY ONLY <3>2
  <2> QED BY <2>2, <2>3, ObjectKinds
<1>2. ASSUME NEW o \in Objects, NEW x \in RowVals, o.kind = "values"
      PROVE  /\ [o EXCEPT !.items = Append(@, x)] \in Objects
             /\ Append(o.items, x) \in Seq(RowVals)
  <2>1. o.items \in Seq(RowVals) /\ o = [kind |-> "values", items |-> o.items]
    BY <1>2, ObjectKinds
  <2>2. Append(o.items, x) \in Seq(RowVals)
    BY <2>1
  <2>3. [o EXCEPT !.items = Append(@, x)] = [kind |-> "values", items |-> Append(o.items, x)]
    <3>1. PICK list : list = o.items
      OBVIOUS
    <3>2. o = [kind |-> "values", items |-> list]
      BY <2>1, <3>1
    <3> QED BY ONLY <3>2
  <2> QED BY <2>2, <2>3, ObjectKinds
<1> QED BY <1>1, <1>2

\* What DEFINE_COLUMN and INSERT_VALUE make of the heap.
Grown(i, x) == [heap EXCEPT ![i].items = Append(@, x)]

\* It is the heap but for the object named, whose array is one item longer.
LEMMA GrownFacts ==
  ASSUME VMTypeOK, NEW i \in 1 .. Len(heap), NEW x,
         \/ heap[i].kind = "coldefs" /\ x \in ColDefs
         \/ heap[i].kind = "values" /\ x \in RowVals
  PROVE  /\ Grown(i, x) \in Seq(Objects) /\ Len(Grown(i, x)) = Len(heap)
         /\ Grown(i, x)[i].kind = heap[i].kind
         /\ Grown(i, x)[i].items = Append(heap[i].items, x)
         /\ \A j \in 1 .. Len(heap) : j # i => Grown(i, x)[j] = heap[j]
<1> DEFINE o == [heap[i] EXCEPT !.items = Append(@, x)]
<1>1. heap \in Seq(Objects) /\ heap[i] \in Objects
  BY DEF VMTypeOK
<1>2. o \in Objects
  BY <1>1, ItemAdded
<1>3. Grown(i, x) = [heap EXCEPT ![i] = o]
  BY DEF Grown
<1>4. o.kind = heap[i].kind /\ o.items = Append(heap[i].items, x)
  BY <1>1, ObjectKinds
<1> HIDE DEF o
<1>5. [heap EXCEPT ![i] = o] \in Seq(Objects) /\ Len([heap EXCEPT ![i] = o]) = Len(heap)
  BY <1>1, <1>2
<1>6. [heap EXCEPT ![i] = o][i] = o
      /\ \A j \in 1 .. Len(heap) : j # i => [heap EXCEPT ![i] = o][j] = heap[j]
  BY <1>1
<1> QED BY <1>3, <1>4, <1>5, <1>6

\* Stacks and heaps that have their types.
StackOK(st) == st \in Seq(Words) /\ Len(st) <= VM_STACK_SIZE

HeapOK(h) == h \in Seq(Objects) /\ Len(h) <= MaxObjs

\* A new word on the stack, in the place of the top k ones.
LEMMA Replaced ==
  ASSUME VMTypeOK, NEW k \in 0 .. Size, NEW w \in Words, Size - k < VM_STACK_SIZE
  PROVE  /\ StackOK(Append(Below(k), w)) /\ Len(Append(Below(k), w)) = Size - k + 1
         /\ Append(Below(k), w)[Size - k + 1] = w
         /\ \A i \in 1 .. Size - k : Append(Below(k), w)[i] = stack[i]
<1>1. /\ Below(k) \in Seq(Words) /\ Len(Below(k)) = Size - k
      /\ \A i \in 1 .. Size - k : Below(k)[i] = stack[i]
  BY BelowFacts
<1>2. Size \in Nat
  BY DEF VMTypeOK, Size
<1>3. VM_STACK_SIZE \in Nat
  BY WordsAssumption
<1>4. /\ Append(Below(k), w) \in Seq(Words) /\ Len(Append(Below(k), w)) = Len(Below(k)) + 1
      /\ Append(Below(k), w)[Len(Below(k)) + 1] = w
      /\ \A i \in 1 .. Len(Below(k)) : Append(Below(k), w)[i] = Below(k)[i]
  BY ONLY <1>1, AppendKeeps
<1> QED BY <1>1, <1>2, <1>3, <1>4 DEF StackOK

\* A word pushed.
LEMMA Pushed ==
  ASSUME VMTypeOK, NEW w \in Words, Size < VM_STACK_SIZE
  PROVE  /\ StackOK(Append(stack, w)) /\ Len(Append(stack, w)) = Size + 1
         /\ Append(stack, w)[Size + 1] = w
         /\ \A i \in 1 .. Size : Append(stack, w)[i] = stack[i]
<1>1. stack \in Seq(Words) /\ Size \in Nat /\ VM_STACK_SIZE \in Nat
  BY WordsAssumption DEF VMTypeOK, Size
<1> QED BY <1>1, AppendKeeps DEF StackOK, Size

\* The calls that go on, signal or fault keep the types if what they leave
\* on the stack and in the heap has them.
LEMMA CallTypes ==
  ASSUME VMTypeOK
  PROVE  /\ \A st : Continues(st) /\ StackOK(st) /\ HeapOK(heap') => VMTypeOK'
         /\ \A s \in Sigs : Signals(s) => VMTypeOK'
         /\ \A f \in {"none", "trap", "wild"} : Faults(f) => VMTypeOK'
<1>1. ASSUME NEW st, Continues(st), StackOK(st), HeapOK(heap') PROVE VMTypeOK'
  BY <1>1 DEF Continues, StackOK, HeapOK, VMTypeOK, Size
<1>2. ASSUME NEW s \in Sigs, Signals(s) PROVE VMTypeOK'
  BY <1>2 DEF Signals, VMTypeOK, Size
<1>3. ASSUME NEW f \in {"none", "trap", "wild"}, Faults(f) PROVE VMTypeOK'
  BY <1>3 DEF Faults, VMTypeOK, Size
<1> QED BY <1>1, <1>2, <1>3

\* The heap has its type, and keeps it where an action leaves it alone.
LEMMA HeapTyped ==
  ASSUME VMTypeOK
  PROVE  HeapOK(heap) /\ (heap' = heap => HeapOK(heap'))
BY DEF VMTypeOK, HeapOK

\* Two words replaced by one.
LEMMA BinaryTypes ==
  ASSUME VMTypeOK, NEW R \in SUBSET Words, Binary(R)
  PROVE  VMTypeOK'
<1>1. CASE Size < 2
  BY <1>1, CallTypes DEF Binary, Sigs
<1>2. CASE Size >= 2
  <2>1. PICK w \in R : Continues(Append(Below(2), w)) /\ heap' = heap
    BY <1>2, WordsAssumption DEF Binary, VMTypeOK, Size
  <2>2. StackOK(Append(Below(2), w))
    BY <1>2, Replaced, WordsAssumption DEF VMTypeOK, Size
  <2> QED BY <2>1, <2>2, CallTypes, HeapTyped
<1> QED BY <1>1, <1>2 DEF VMTypeOK, Size

\* A word wraps: the arithmetic of a machine of any width.
LEMMA ArithmeticTypes ==
  ASSUME VMTypeOK, INST_IADD \/ INST_ISUB \/ INST_IMUL \/ INST_EQ \/ INST_Float
  PROVE  VMTypeOK'
<1>1. CASE Size < 2
  BY <1>1, CallTypes
     DEF INST_IADD, INST_ISUB, INST_IMUL, INST_EQ, INST_Float, Binary, Sigs
<1>2. CASE Size >= 2
  <2>1. Left \in Words /\ Right \in Words
    BY <1>2 DEF VMTypeOK, Left, Right, Size
  <2>2. /\ Left + Right \in Int /\ Left - Right \in Int /\ Left * Right \in Int
    BY <2>1 DEF Words
  <2>3. /\ {(Left + Right) % WordMod} \in SUBSET Words
        /\ {(Left - Right) % WordMod} \in SUBSET Words
        /\ {(Left * Right) % WordMod} \in SUBSET Words
        /\ {IF Left = Right THEN 1 ELSE 0} \in SUBSET Words
    BY <2>2, WordFacts
  <2> QED BY <2>3, BinaryTypes
          DEF INST_IADD, INST_ISUB, INST_IMUL, INST_EQ, INST_Float
<1> QED BY <1>1, <1>2 DEF VMTypeOK, Size

\* A quotient is an integer.
LEMMA QuotientType ==
  ASSUME NEW a \in Int, NEW b \in Int, b # 0
  PROVE  Quotient(a, b) \in Int
BY DEF Quotient

LEMMA SignedType ==
  ASSUME NEW w \in Words
  PROVE  Signed(w) \in Int /\ (w # 0 => Signed(w) # 0)
BY WordsAssumption DEF Signed, Words

\* IDIV.
LEMMA DivisionTypes ==
  ASSUME VMTypeOK, INST_IDIV
  PROVE  VMTypeOK'
<1>1. CASE Size >= 2 /\ Right = 0
  BY <1>1, CallTypes DEF INST_IDIV, Sigs
<1>2. CASE Size >= 2 /\ Right # 0 /\ Signed(Right) = -1 /\ 2 * Left = WordMod
  BY <1>2, CallTypes DEF INST_IDIV
<1>3. CASE Size >= 2 /\ Right # 0 /\ ~(Signed(Right) = -1 /\ 2 * Left = WordMod)
  <2>1. Left \in Words /\ Right \in Words
    BY <1>3 DEF VMTypeOK, Left, Right, Size
  <2>2. Quotient(Signed(Left), Signed(Right)) \in Int
    BY <1>3, <2>1, SignedType, QuotientType
  <2>3. {Quotient(Signed(Left), Signed(Right)) % WordMod} \in SUBSET Words
    BY <2>2, WordFacts
  <2> QED BY <1>3, <2>3, BinaryTypes DEF INST_IDIV
<1>4. CASE Size < 2
  BY <1>4, CallTypes DEF INST_IDIV, Binary, Sigs
<1> QED BY <1>1, <1>2, <1>3, <1>4 DEF VMTypeOK, Size

\* The instructions without operands on the stack, PUSH and the jumps.
LEMMA ControlTypes ==
  ASSUME VMTypeOK, prog \in Seq(Instructions),
         Illegal \/ INST_NOP \/ INST_PUSH \/ INST_JMP \/ INST_HLT \/ INST_JNZ
  PROVE  VMTypeOK'
<1>1. StackOK(stack) /\ HeapOK(heap) /\ Size \in Nat
  BY DEF VMTypeOK, StackOK, HeapOK, Size
<1>2. CASE Illegal
  BY <1>2, CallTypes DEF Illegal, Sigs
<1>3. CASE INST_NOP
  BY <1>1, <1>3, CallTypes DEF INST_NOP
<1>4. CASE INST_PUSH
  <2>1. Operand \in Words
    BY <1>4, Fetched DEF INST_PUSH
  <2>2. CASE Size >= VM_STACK_SIZE
    BY <1>4, <2>2, CallTypes DEF INST_PUSH, Sigs
  <2>3. CASE Size < VM_STACK_SIZE
    <3>1. StackOK(Append(stack, Operand))
      BY <2>1, <2>3, Pushed
    <3> QED BY <1>1, <1>4, <2>3, <3>1, CallTypes, WordsAssumption DEF INST_PUSH
  <2> QED BY <1>1, <2>2, <2>3, WordsAssumption
<1>5. CASE INST_JMP
  <2>1. Operand \in Words
    BY <1>5, Fetched DEF INST_JMP
  <2> QED BY <1>5, <2>1 DEF INST_JMP, VMTypeOK, Words, Size
<1>6. CASE INST_HLT
  BY <1>6 DEF INST_HLT, VMTypeOK, Size
<1>7. CASE INST_JNZ
  <2>1. Operand \in Words
    BY <1>7, Fetched DEF INST_JNZ
  <2>2. CASE Size < 1 /\ Signals("INST_SIG_UNDERFOW")
    BY <2>2, CallTypes DEF Sigs
  <2>3. CASE Size >= 1 /\ stack' = Below(1) /\ pinst' = Operand
             /\ UNCHANGED <<halt, heap, sig, fault>>
    <3>1. Below(1) \in Seq(Words) /\ Len(Below(1)) = Size - 1
      BY <1>1, <2>3, BelowFacts
    <3> QED BY <1>1, <2>1, <2>3, <3>1, WordsAssumption DEF VMTypeOK, Words, Size
  <2>4. CASE Continues(stack) /\ UNCHANGED heap
    BY <1>1, <2>4, CallTypes
  <2> QED BY <1>7, <2>2, <2>3, <2>4 DEF INST_JNZ
<1> QED BY <1>2, <1>3, <1>4, <1>5, <1>6, <1>7

\* DUP and SWAP.
LEMMA OffsetTypes ==
  ASSUME VMTypeOK, prog \in Seq(Instructions), INST_DUP \/ INST_SWAP
  PROVE  VMTypeOK'
<1>1. HeapOK(heap) /\ Size \in Nat /\ VM_STACK_SIZE \in Nat
  BY WordsAssumption DEF VMTypeOK, HeapOK, Size
<1>2. Operand \in Words /\ Operand \in Nat
  BY Fetched DEF INST_DUP, INST_SWAP, Words
<1>3. OffsetSignal \in Sigs
  BY DEF OffsetSignal, Sigs
<1>4. OffsetSignal = "INST_SIG_OK" => Size < VM_STACK_SIZE /\ Size # Operand
  BY <1>1 DEF OffsetSignal
<1>5. CASE INST_DUP
  <2>1. CASE Signals(OffsetSignal)
    BY <1>3, <2>1, CallTypes
  <2>2. CASE OffsetSignal = "INST_SIG_OK" /\ heap' = heap
             /\ \E w \in FromTop(Operand + 1) : Continues(Append(stack, w))
    <3>1. PICK w \in FromTop(Operand + 1) : Continues(Append(stack, w))
      BY <2>2
    <3>2. w \in Words
      BY <1>2, ReadIsWord
    <3>3. StackOK(Append(stack, w))
      BY <1>4, <2>2, <3>2, Pushed
    <3> QED BY <1>1, <2>2, <3>1, <3>3, CallTypes
  <2> QED BY <1>5, <2>1, <2>2 DEF INST_DUP
<1>6. CASE INST_SWAP
  <2>1. CASE Signals(OffsetSignal)
    BY <1>3, <2>1, CallTypes
  <2>2. CASE Faults("wild")
    BY <2>2, CallTypes
  <2>3. CASE /\ OffsetSignal = "INST_SIG_OK" /\ Operand < Size /\ heap' = heap
             /\ Continues([stack EXCEPT ![Size] = stack[Size - Operand],
                                        ![Size - Operand] = stack[Size]])
    <3>1. Size - Operand \in 1 .. Len(stack) /\ Size \in 1 .. Len(stack)
          /\ stack \in Seq(Words) /\ Len(stack) <= VM_STACK_SIZE
      BY <1>1, <1>2, <2>3 DEF Size, VMTypeOK
    <3>2. StackOK([stack EXCEPT ![Size] = stack[Size - Operand],
                                ![Size - Operand] = stack[Size]])
      BY <3>1 DEF StackOK
    <3> QED BY <1>1, <2>3, <3>2, CallTypes
  <2> QED BY <1>6, <2>1, <2>2, <2>3 DEF INST_SWAP
<1> QED BY <1>5, <1>6

\* The objects CREATE_TABLE and INSERT_PREP allocate.
LEMMA Allocated ==
  ASSUME VMTypeOK
  PROVE  /\ \A w \in Words : Len(heap) + 2 <= MaxObjs =>
              LET h == heap \o <<[kind |-> "page", objname |-> w],
                                 [kind |-> "coldefs", items |-> << >>]>>
              IN  /\ HeapOK(h) /\ Len(h) = Len(heap) + 2
                  /\ h[Len(heap) + 1] = [kind |-> "page", objname |-> w]
                  /\ h[Len(heap) + 2] = [kind |-> "coldefs", items |-> << >>]
                  /\ \A i \in 1 .. Len(heap) : h[i] = heap[i]
                  /\ HeapBase + Len(heap) + 1 \in Words
                  /\ HeapBase + Len(heap) + 2 \in Words
         /\ Len(heap) + 1 <= MaxObjs =>
              LET h == Append(heap, [kind |-> "values", items |-> << >>])
              IN  /\ HeapOK(h) /\ Len(h) = Len(heap) + 1
                  /\ h[Len(heap) + 1] = [kind |-> "values", items |-> << >>]
                  /\ \A i \in 1 .. Len(heap) : h[i] = heap[i]
                  /\ HeapBase + Len(heap) + 1 \in Words
<1>1. heap \in Seq(Objects) /\ Len(heap) \in Nat
  BY DEF VMTypeOK
<1>2. HeapBase \in Nat /\ MaxObjs \in Nat /\ HeapBase + MaxObjs < WordMod /\ WordMod \in Nat
  BY WordsAssumption, AddressAssumption
<1>3. ASSUME NEW w \in Words, Len(heap) + 2 <= MaxObjs
      PROVE  LET h == heap \o <<[kind |-> "page", objname |-> w],
                                 [kind |-> "coldefs", items |-> << >>]>>
             IN  /\ HeapOK(h) /\ Len(h) = Len(heap) + 2
                 /\ h[Len(heap) + 1] = [kind |-> "page", objname |-> w]
                 /\ h[Len(heap) + 2] = [kind |-> "coldefs", items |-> << >>]
                 /\ \A i \in 1 .. Len(heap) : h[i] = heap[i]
                 /\ HeapBase + Len(heap) + 1 \in Words
                 /\ HeapBase + Len(heap) + 2 \in Words
  <2> DEFINE page == [kind |-> "page", objname |-> w]
             defs == [kind |-> "coldefs", items |-> << >>]
  <2>1. page \in Objects /\ defs \in Objects
    <3>1. << >> \in Seq(ColDefs)
      OBVIOUS
    <3> QED BY <3>1, ObjectKinds
  <2> HIDE DEF page, defs
  <2>2. /\ heap \o <<page, defs>> \in Seq(Objects)
        /\ Len(heap \o <<page, defs>>) = Len(heap) + 2
        /\ (heap \o <<page, defs>>)[Len(heap) + 1] = page
        /\ (heap \o <<page, defs>>)[Len(heap) + 2] = defs
        /\ \A i \in 1 .. Len(heap) : (heap \o <<page, defs>>)[i] = heap[i]
    BY ONLY <1>1, <2>1, TwoMore
  <2>3. HeapBase + Len(heap) + 1 \in Words /\ HeapBase + Len(heap) + 2 \in Words
    BY <1>1, <1>2, <1>3 DEF Words
  <2>4. HeapOK(heap \o <<page, defs>>)
    BY <1>1, <1>2, <1>3, <2>2 DEF HeapOK
  <2> QED BY <2>2, <2>3, <2>4 DEF page, defs
<1>4. ASSUME Len(heap) + 1 <= MaxObjs
      PROVE  LET h == Append(heap, [kind |-> "values", items |-> << >>])
             IN  /\ HeapOK(h) /\ Len(h) = Len(heap) + 1
                 /\ h[Len(heap) + 1] = [kind |-> "values", items |-> << >>]
                 /\ \A i \in 1 .. Len(heap) : h[i] = heap[i]
                 /\ HeapBase + Len(heap) + 1 \in Words
  <2> DEFINE vals == [kind |-> "values", items |-> << >>]
  <2>1. vals \in Objects
    <3>1. << >> \in Seq(RowVals)
      OBVIOUS
    <3> QED BY <3>1, ObjectKinds
  <2> HIDE DEF vals
  <2>2. /\ Append(heap, vals) \in Seq(Objects) /\ Len(Append(heap, vals)) = Len(heap) + 1
        /\ Append(heap, vals)[Len(heap) + 1] = vals
        /\ \A i \in 1 .. Len(heap) : Append(heap, vals)[i] = heap[i]
    BY ONLY <1>1, <2>1, AppendKeeps
  <2>3. HeapBase + Len(heap) + 1 \in Words
    BY <1>1, <1>2, <1>4 DEF Words
  <2>4. HeapOK(Append(heap, vals))
    BY <1>1, <1>2, <1>4, <2>2 DEF HeapOK
  <2> QED BY <2>2, <2>3, <2>4 DEF vals
<1> QED BY <1>3, <1>4

\* A pointer to an object of a kind names one on the heap.
LEMMA PointsAt ==
  ASSUME VMTypeOK, NEW w, NEW kind, Points(w, kind)
  PROVE  w - HeapBase \in 1 .. Len(heap) /\ heap[w - HeapBase].kind = kind
BY DEF Points

\* CREATE_TABLE.
LEMMA CreateTypes ==
  ASSUME VMTypeOK, INST_CREATE_TABLE
  PROVE  VMTypeOK'
<1> DEFINE page == HeapBase + Len(heap) + 1
<1>1. Size \in Nat /\ VM_STACK_SIZE \in Nat /\ Size <= VM_STACK_SIZE
  BY WordsAssumption DEF VMTypeOK, Size
<1>2. CASE Signals("INST_SIG_UNDERFOW") \/ Faults("wild")
  BY <1>2, CallTypes DEF Sigs
<1>3. CASE Size >= 1 /\ Right \in Strings
           /\ heap' = heap \o <<[kind |-> "page", objname |-> Right],
                                [kind |-> "coldefs", items |-> << >>]>>
  <2>1. Right \in Words
    BY <1>3, WordFacts
  <2>2. Len(heap) + 2 <= MaxObjs
    BY DEF INST_CREATE_TABLE
  <2>3. HeapOK(heap') /\ page \in Words /\ page + 1 \in Words
    <3>1. Len(heap) \in Nat /\ HeapBase \in Nat
      BY AddressAssumption DEF VMTypeOK
    <3>2. page + 1 = HeapBase + Len(heap) + 2
      BY <3>1
    <3> QED BY <1>3, <2>1, <2>2, <3>2, Allocated
  <2> HIDE DEF page
  <2>4. CASE Size >= VM_STACK_SIZE /\ stack' = Append(Below(1), page)
             /\ sig' = "INST_SIG_OVERFLOW" /\ UNCHANGED <<pinst, halt, fault>>
    <3>1. StackOK(Append(Below(1), page))
      BY <1>1, <1>3, <2>3, Replaced
    <3> QED BY <2>3, <2>4, <3>1 DEF VMTypeOK, StackOK, HeapOK, Size, Sigs
  <2>5. CASE Size < VM_STACK_SIZE /\ Continues(Below(1) \o <<page, page + 1>>)
    <3>1. Below(1) \in Seq(Words) /\ Len(Below(1)) = Size - 1
      BY <1>1, <1>3, BelowFacts
    <3>2. Below(1) \o <<page, page + 1>> \in Seq(Words)
          /\ Len(Below(1) \o <<page, page + 1>>) = Len(Below(1)) + 2
      BY ONLY <2>3, <3>1, TwoMore
    <3>3. StackOK(Below(1) \o <<page, page + 1>>)
      BY <1>1, <2>5, <3>1, <3>2 DEF StackOK
    <3> QED BY <2>3, <2>5, <3>3, CallTypes
  <2> QED BY <1>1, <1>3, <2>4, <2>5, CallTypes DEF INST_CREATE_TABLE, page, Sigs
<1> QED BY <1>2, <1>3 DEF INST_CREATE_TABLE

\* The column and the value that the words on top of the stack make.
ColOnTop ==
  [colname |-> stack[Size - 2], type |-> Narrowed(Left), len |-> Narrowed(Right)]

ValOnTop ==
  IF Left \in {T_INTEGER, T_FLOAT, T_STRING}
  THEN [datatype |-> Left, val |-> Right]
  ELSE [datatype |-> T_KEYWORD, val |-> 0]

LEMMA OnTop ==
  ASSUME VMTypeOK
  PROVE  /\ Size >= 4 => ColOnTop \in ColDefs
         /\ Size >= 2 => ValOnTop \in RowVals
<1>1. stack \in Seq(Words) /\ Size = Len(stack) /\ Size \in Nat
  BY DEF VMTypeOK, Size
<1>2. ASSUME Size >= 4 PROVE ColOnTop \in ColDefs
  <2>1. stack[Size - 2] \in Words /\ Left \in Words /\ Right \in Words
    BY <1>1, <1>2 DEF Left, Right
  <2>2. Narrowed(Left) \in 0 .. IntMod - 1 /\ Narrowed(Right) \in 0 .. IntMod - 1
    BY <2>1, WordFacts, NarrowedFacts DEF Words
  <2> QED BY <2>1, <2>2 DEF ColDefs, ColOnTop
<1>3. ASSUME Size >= 2 PROVE ValOnTop \in RowVals
  <2>1. Left \in Words /\ Right \in Words /\ T_KEYWORD \in Words /\ 0 \in Words
    BY <1>1, <1>3, WordFacts DEF Left, Right, T_KEYWORD
  <2> QED BY <2>1 DEF RowVals, ValOnTop
<1> QED BY <1>2, <1>3

\* DEFINE_COLUMN.
LEMMA DefineTypes ==
  ASSUME VMTypeOK, INST_DEFINE_COLUMN
  PROVE  VMTypeOK'
<1> DEFINE arr == stack[Size - 3]
           col == ColOnTop
<1>1. CASE Signals("INST_SIG_UNDERFOW") \/ Faults("wild")
  BY <1>1, CallTypes DEF Sigs
<1>2. CASE Size >= 4 /\ Points(arr, "coldefs")
           /\ heap' = Grown(arr - HeapBase, col) /\ Continues(Below(3))
  <2>1. col \in ColDefs
    BY <1>2, OnTop
  <2> HIDE DEF col, arr
  <2>2. HeapOK(heap')
    <3>1. /\ Grown(arr - HeapBase, col) \in Seq(Objects)
          /\ Len(Grown(arr - HeapBase, col)) = Len(heap)
      BY <1>2, <2>1, PointsAt, GrownFacts
    <3> QED BY <1>2, <3>1 DEF HeapOK, VMTypeOK
  <2>3. StackOK(Below(3))
    <3>1. 3 \in 0 .. Size /\ Size \in Nat /\ Size <= VM_STACK_SIZE /\ VM_STACK_SIZE \in Nat
      BY <1>2, WordsAssumption DEF VMTypeOK, Size
    <3> QED BY <3>1, BelowFacts DEF StackOK
  <2> QED BY <1>2, <2>2, <2>3, CallTypes
<1> QED BY <1>1, <1>2 DEF INST_DEFINE_COLUMN, Grown, ColOnTop

\* INSERT_PREP.
LEMMA PrepTypes ==
  ASSUME VMTypeOK, INST_INSERT_PREP
  PROVE  VMTypeOK'
<1>1. Size \in Nat /\ VM_STACK_SIZE \in Nat
  BY WordsAssumption DEF VMTypeOK, Size
<1>2. CASE Size >= VM_STACK_SIZE
  BY <1>2, CallTypes DEF INST_INSERT_PREP, Sigs
<1>3. CASE Size < VM_STACK_SIZE
  <2>1. heap' = Append(heap, [kind |-> "values", items |-> << >>])
        /\ Continues(Append(stack, HeapBase + Len(heap) + 1))
    BY <1>1, <1>3 DEF INST_INSERT_PREP
  <2>2. HeapOK(heap') /\ HeapBase + Len(heap) + 1 \in Words
    BY <2>1, Allocated DEF INST_INSERT_PREP
  <2>3. StackOK(Append(stack, HeapBase + Len(heap) + 1))
    BY <1>3, <2>2, Pushed
  <2> QED BY <2>1, <2>2, <2>3, CallTypes
<1> QED BY <1>1, <1>2, <1>3

\* INSERT_VALUE.
LEMMA ValueTypes ==
  ASSUME VMTypeOK, INST_INSERT_VALUE
  PROVE  VMTypeOK'
<1> DEFINE val == ValOnTop
<1>1. CASE Signals("INST_SIG_UNDERFOW")
  BY <1>1, CallTypes DEF Sigs
<1>2. CASE Faults("wild")
  BY <1>2, CallTypes
<1>3. ASSUME NEW arr \in FromTop(3), Size >= 2, Points(arr, "values"),
             heap' = Grown(arr - HeapBase, val), Continues(Below(2))
      PROVE  VMTypeOK'
  <2>1. val \in RowVals
    BY <1>3, OnTop
  <2> HIDE DEF val
  <2>2. HeapOK(heap')
    <3>1. /\ Grown(arr - HeapBase, val) \in Seq(Objects)
          /\ Len(Grown(arr - HeapBase, val)) = Len(heap)
      BY <1>3, <2>1, PointsAt, GrownFacts
    <3> QED BY <1>3, <3>1 DEF HeapOK, VMTypeOK
  <2>3. StackOK(Below(2))
    <3>1. 2 \in 0 .. Size /\ Size \in Nat /\ Size <= VM_STACK_SIZE /\ VM_STACK_SIZE \in Nat
      BY <1>3, WordsAssumption DEF VMTypeOK, Size
    <3> QED BY <3>1, BelowFacts DEF StackOK
  <2> QED BY <1>3, <2>2, <2>3, CallTypes
<1> QED BY <1>1, <1>2, <1>3 DEF INST_INSERT_VALUE, Grown, ValOnTop

\* Every call keeps the types: in particular the stack never runs past its
\* array, whatever the program.
LEMMA CallKeepsTypes ==
  ASSUME VMTypeOK, prog \in Seq(Instructions), vm_exec_prog
  PROVE  VMTypeOK'
BY ControlTypes, ArithmeticTypes, DivisionTypes, OffsetTypes, CreateTypes, DefineTypes,
   PrepTypes, ValueTypes
   DEF vm_exec_prog

\* Nothing changes, and the types with it.
LEMMA StutterKeepsTypes ==
  ASSUME VMTypeOK, UNCHANGED vmvars
  PROVE  VMTypeOK'
BY DEF VMTypeOK, vmvars, Size

\* A machine of zeros has its types.
LEMMA InitTypes ==
  ASSUME VMInit
  PROVE  VMTypeOK
<1>1. << >> \in Seq(Words) /\ << >> \in Seq(Objects) /\ Len(<< >>) = 0
  OBVIOUS
<1>2. stack \in Seq(Words) /\ Size = 0 /\ heap \in Seq(Objects) /\ Len(heap) = 0
  BY <1>1 DEF VMInit, Size
<1>3. Size <= VM_STACK_SIZE /\ Len(heap) <= MaxObjs
  BY <1>2, WordsAssumption, AddressAssumption
<1>4. pinst \in Nat /\ halt \in BOOLEAN /\ sig \in Sigs /\ fault \in {"none", "trap", "wild"}
  BY DEF VMInit, Sigs
<1> QED BY <1>2, <1>3, <1>4 DEF VMTypeOK

-----------------------------------------------------------------------------
(* What a call does to the heap.                                           *)

\* Two objects of CREATE_TABLE for the table name w, one of INSERT_PREP.
TableObjects(w) ==
  <<[kind |-> "page", objname |-> w], [kind |-> "coldefs", items |-> << >>]>>

NoValues == [kind |-> "values", items |-> << >>]

\* The heap is left alone, has new objects behind its end, or one array has
\* one item more.
HeapMoves ==
  \/ heap' = heap
  \/ \E w \in Words : Len(heap) + 2 <= MaxObjs /\ heap' = heap \o TableObjects(w)
  \/ Len(heap) + 1 <= MaxObjs /\ heap' = Append(heap, NoValues)
  \/ \E i \in 1 .. Len(heap), x \in ColDefs :
       heap[i].kind = "coldefs" /\ heap' = Grown(i, x)
  \/ \E i \in 1 .. Len(heap), x \in RowVals :
       heap[i].kind = "values" /\ heap' = Grown(i, x)

LEMMA CallMovesHeap ==
  ASSUME VMTypeOK, vm_exec_prog
  PROVE  HeapMoves
<1>1. ASSUME NEW R, Binary(R) PROVE heap' = heap
  BY <1>1 DEF Binary, Signals
<1>2. \A f : Faults(f) => heap' = heap
  BY DEF Faults
<1>3. \A s : Signals(s) => heap' = heap
  BY DEF Signals
<1>4. CASE Illegal \/ INST_NOP \/ INST_PUSH \/ INST_JMP \/ INST_HLT \/ INST_JNZ
  BY <1>3, <1>4 DEF HeapMoves, Illegal, INST_NOP, INST_PUSH, INST_JMP, INST_HLT, INST_JNZ
<1>5. CASE INST_IADD \/ INST_ISUB \/ INST_IMUL \/ INST_IDIV \/ INST_Float \/ INST_EQ
  BY <1>1, <1>2, <1>3, <1>5
     DEF HeapMoves, INST_IADD, INST_ISUB, INST_IMUL, INST_IDIV, INST_Float, INST_EQ
<1>6. CASE INST_DUP \/ INST_SWAP
  BY <1>2, <1>3, <1>6 DEF HeapMoves, INST_DUP, INST_SWAP
<1>7. CASE INST_CREATE_TABLE
  <2>1. CASE Right \in Strings /\ heap' = heap \o TableObjects(Right)
    BY <1>7, <2>1, WordFacts DEF HeapMoves, INST_CREATE_TABLE
  <2> QED BY <1>2, <1>3, <1>7, <2>1 DEF HeapMoves, INST_CREATE_TABLE, TableObjects
<1>8. CASE INST_DEFINE_COLUMN
  <2>1. CASE Size >= 4 /\ Points(stack[Size - 3], "coldefs")
             /\ heap' = Grown(stack[Size - 3] - HeapBase, ColOnTop)
    BY <2>1, OnTop, PointsAt DEF HeapMoves
  <2> QED BY <1>2, <1>3, <1>8, <2>1 DEF HeapMoves, INST_DEFINE_COLUMN, Grown, ColOnTop
<1>9. CASE INST_INSERT_PREP
  BY <1>3, <1>9 DEF HeapMoves, INST_INSERT_PREP, NoValues
<1>10. CASE INST_INSERT_VALUE
  <2>1. ASSUME NEW arr, Size >= 2, Points(arr, "values"),
               heap' = Grown(arr - HeapBase, ValOnTop)
        PROVE  HeapMoves
    BY <2>1, OnTop, PointsAt DEF HeapMoves
  <2> QED BY <1>2, <1>3, <1>10, <2>1 DEF HeapMoves, INST_INSERT_VALUE, Grown, ValOnTop
<1> QED BY <1>4, <1>5, <1>6, <1>7, <1>8, <1>9, <1>10 DEF vm_exec_prog

\* An object stays where it is and what it is, and its array only grows.
Keeps(i) ==
  /\ i <= Len(heap')
  /\ heap'[i].kind = heap[i].kind
  /\ heap[i].kind = "page" => heap'[i] = heap[i]
  /\ heap[i].kind # "page" =>
       SubSeq(heap'[i].items, 1, Len(heap[i].items)) = heap[i].items

LEMMA MovesKeep ==
  ASSUME VMTypeOK, HeapMoves, NEW i \in 1 .. Len(heap)
  PROVE  Keeps(i)
<1>1. heap[i] \in Objects /\ heap \in Seq(Objects) /\ Len(heap) \in Nat
  BY DEF VMTypeOK
<1>2. heap[i].kind \in {"page", "coldefs", "values"}
  BY <1>1, ObjectKinds
<1>3. heap[i].kind # "page" =>
        SubSeq(heap[i].items, 1, Len(heap[i].items)) = heap[i].items
  <2>1. \A S : \A q \in Seq(S) : SubSeq(q, 1, Len(q)) = q
    OBVIOUS
  <2> QED BY <1>1, <1>2, <2>1, ObjectKinds
<1>4. CASE i <= Len(heap') /\ heap'[i] = heap[i]
  BY <1>3, <1>4 DEF Keeps
<1>5. CASE heap' = heap
  BY <1>1, <1>4, <1>5
<1>6. ASSUME NEW w \in Words, Len(heap) + 2 <= MaxObjs, heap' = heap \o TableObjects(w)
      PROVE  Keeps(i)
  BY <1>1, <1>4, <1>6, Allocated DEF TableObjects
<1>7. CASE Len(heap) + 1 <= MaxObjs /\ heap' = Append(heap, NoValues)
  BY <1>1, <1>4, <1>7, Allocated DEF NoValues
<1>8. ASSUME NEW j \in 1 .. Len(heap), NEW x, heap' = Grown(j, x),
             \/ heap[j].kind = "coldefs" /\ x \in ColDefs
             \/ heap[j].kind = "values" /\ x \in RowVals
      PROVE  Keeps(i)
  <2>1. CASE i # j
    BY <1>1, <1>4, <1>8, <2>1, GrownFacts
  <2>2. CASE i = j
    <3>1. /\ Len(heap') = Len(heap) /\ heap'[i].kind = heap[i].kind
          /\ heap'[i].items = Append(heap[i].items, x)
      BY <1>8, <2>2, GrownFacts
    <3>2. SubSeq(Append(heap[i].items, x), 1, Len(heap[i].items)) = heap[i].items
      <4>1. \A S : \A q \in Seq(S), y \in S : SubSeq(Append(q, y), 1, Len(q)) = q
        OBVIOUS
      <4> QED BY <1>1, <1>8, <2>2, <4>1, ObjectKinds
    <3> QED BY <1>1, <1>8, <2>2, <3>1, <3>2 DEF Keeps
  <2> QED BY <2>1, <2>2
<1> QED BY <1>5, <1>6, <1>7, <1>8 DEF HeapMoves

-----------------------------------------------------------------------------
(* Which action a call is.                                                 *)

\* The actions that execute op.
CallOf(op) ==
  \/ op = "NOP" /\ INST_NOP
  \/ op = "PUSH" /\ INST_PUSH
  \/ op = "IADD" /\ INST_IADD
  \/ op = "ISUB" /\ INST_ISUB
  \/ op = "IMUL" /\ INST_IMUL
  \/ op = "IDIV" /\ INST_IDIV
  \/ op \in {"FADD", "FSUB", "FMUL", "FDIV"} /\ INST_Float
  \/ op = "EQ" /\ INST_EQ
  \/ op = "JMP" /\ INST_JMP
  \/ op = "HLT" /\ INST_HLT
  \/ op = "JNZ" /\ INST_JNZ
  \/ op = "DUP" /\ INST_DUP
  \/ op = "SWAP" /\ INST_SWAP
  \/ op = "CREATE_TABLE" /\ INST_CREATE_TABLE
  \/ op = "DEFINE_COLUMN" /\ INST_DEFINE_COLUMN
  \/ op = "INSERT_PREP" /\ INST_INSERT_PREP
  \/ op = "INSERT_VALUE" /\ INST_INSERT_VALUE

\* A call executes the instruction fetched.
LEMMA CallIs ==
  ASSUME VMTypeOK, prog \in Seq(Instructions), vm_exec_prog, pinst < Len(prog)
  PROVE  CallOf(prog[pinst + 1].op)
<1> DEFINE fetched == prog[pinst + 1].op
<1>1. \A op : At(op) => fetched = op
  BY DEF At
<1> HIDE DEF fetched
<1>2. ~Illegal
  BY DEF Illegal, VMTypeOK
<1>3. (INST_NOP => At("NOP")) /\ (INST_PUSH => At("PUSH"))
  BY DEF INST_NOP, INST_PUSH
<1>4. /\ INST_IADD => At("IADD")
      /\ INST_ISUB => At("ISUB")
      /\ INST_IMUL => At("IMUL")
      /\ INST_IDIV => At("IDIV")
      /\ INST_EQ => At("EQ")
  BY DEF INST_IADD, INST_ISUB, INST_IMUL, INST_IDIV, INST_EQ
<1>5. INST_Float => \E op \in {"FADD", "FSUB", "FMUL", "FDIV"} : At(op)
  BY DEF INST_Float
<1>6. (INST_JMP => At("JMP")) /\ (INST_HLT => At("HLT")) /\ (INST_JNZ => At("JNZ"))
  BY DEF INST_JMP, INST_HLT, INST_JNZ
<1>7. (INST_DUP => At("DUP")) /\ (INST_SWAP => At("SWAP"))
  BY DEF INST_DUP, INST_SWAP
<1>8. /\ INST_CREATE_TABLE => At("CREATE_TABLE")
      /\ INST_DEFINE_COLUMN => At("DEFINE_COLUMN")
      /\ INST_INSERT_PREP => At("INSERT_PREP")
      /\ INST_INSERT_VALUE => At("INSERT_VALUE")
  BY DEF INST_CREATE_TABLE, INST_DEFINE_COLUMN, INST_INSERT_PREP, INST_INSERT_VALUE
<1>9. INST_Float => fetched \in {"FADD", "FSUB", "FMUL", "FDIV"}
  BY <1>1, <1>5
<1>10. CallOf(fetched)
  BY <1>1, <1>2, <1>3, <1>4, <1>6, <1>7, <1>8, <1>9 DEF vm_exec_prog, CallOf
<1> QED BY <1>10 DEF fetched

\* A call is made of a machine that runs.
LEMMA CallRuns ==
  ASSUME vm_exec_prog
  PROVE  Running /\ ~halt /\ sig = "INST_SIG_OK" /\ fault = "none"
<1>1. Running
  BY DEF vm_exec_prog, Illegal, INST_NOP, INST_PUSH, INST_IADD, INST_ISUB, INST_IMUL,
         INST_IDIV, INST_Float, INST_EQ, INST_JMP, INST_HLT, INST_JNZ, INST_DUP, INST_SWAP,
         INST_CREATE_TABLE, INST_DEFINE_COLUMN, INST_INSERT_PREP, INST_INSERT_VALUE, At
<1> QED BY <1>1 DEF Running

=============================================================================
