---------------------------- MODULE StackMachine ----------------------------
(***************************************************************************)
(* The stack machine of stackmachine.c: vm_exec_prog executes one          *)
(* instruction per call and returns a signal, and the loop around it       *)
(* (main.c:232-240) calls it until the machine halts or signals an error.  *)
(* One action per instruction, each with its error returns.                *)
(*                                                                         *)
(* A word is a bit pattern 0 .. WordMod-1, read as a signed number, as an  *)
(* unsigned one or as an address, as the union Word is.  The addresses of  *)
(* the tokens' strings are Strings; object i of the heap is at             *)
(* HeapBase + i.  A word used as a pointer that is no such address, and a  *)
(* write outside the stack, leave the C program without meaning: `fault'   *)
(* is then "wild" and the model goes no further.  A read below the stack   *)
(* yields any word.                                                        *)
(***************************************************************************)
EXTENDS Integers, Sequences

CONSTANTS
  WordMod,        (* 2^64 in the code                                    *)
  IntMod,         (* 2^32: an int and an enum keep that much of a word   *)
  VM_STACK_SIZE,  (* 1024 in the code                                    *)
  Strings,        (* addresses of NUL-terminated strings                 *)
  HeapBase,       (* calloc returns HeapBase + 1, HeapBase + 2, ...      *)
  MaxObjs         (* bound: objects allocated                            *)

ASSUME WordsAssumption ==
  /\ WordMod \in Nat \ {0} /\ WordMod % 2 = 0
  /\ IntMod \in 1 .. WordMod
  /\ VM_STACK_SIZE \in Nat /\ 2 * VM_STACK_SIZE <= WordMod
ASSUME AddressAssumption ==
  /\ HeapBase \in Nat /\ MaxObjs \in Nat
  /\ HeapBase + MaxObjs < WordMod
  /\ Strings \subseteq 1 .. HeapBase

VARIABLES
  prog,   (* the program: a sequence of [op, operand]                     *)
  pinst,  (* vm->pinst, counted from 0                                    *)
  stack,  (* vm->stack[0 .. stack_size-1]                                 *)
  halt,   (* vm->halt                                                     *)
  heap,   (* the objects CREATE_TABLE and INSERT_PREP allocated           *)
  sig,    (* the signal of the last vm_exec_prog                          *)
  fault   (* "none"; "trap": SIGFPE; "wild": undefined from here on       *)

vmvars == <<pinst, stack, halt, heap, sig, fault>>

\* VM_Instruction.
Ops == {"NOP", "PUSH", "DUP", "SWAP", "IADD", "ISUB", "IDIV", "IMUL", "FADD", "FSUB",
        "FDIV", "FMUL", "JMP", "JNZ", "EQ", "HLT", "CREATE_TABLE", "DEFINE_COLUMN",
        "INSERT_PREP", "INSERT_VALUE"}

Instructions == [op : Ops, operand : 0 .. WordMod - 1]

Words == 0 .. WordMod - 1

Signed(w) == IF 2 * w < WordMod THEN w ELSE w - WordMod

\* A word assigned to an int or an enum: what does not fit is cut off.
Narrowed(w) == w % IntMod

\* enum TokenType; STRING is a word of TLA+, hence the prefix.
T_KEYWORD == 0
T_IDENTIFIER == 1
T_STRING == 2
T_INTEGER == 3
T_FLOAT == 4
T_OPERATOR == 6

-----------------------------------------------------------------------------
(* The stack, the heap, and the ways a call ends.                          *)

Size == Len(stack)

\* The words vm->stack[stack_size - k] may read.
FromTop(k) == IF k <= Size THEN {stack[Size - k + 1]} ELSE Words

\* The stack without its top k words.
Below(k) == SubSeq(stack, 1, Size - k)

Points(w, kind) ==
  w - HeapBase \in 1 .. Len(heap) /\ heap[w - HeapBase].kind = kind

\* The loop calls vm_exec_prog and the instruction fetched is op.
Running == ~halt /\ sig = "INST_SIG_OK" /\ fault = "none"

At(op) == Running /\ pinst < Len(prog) /\ prog[pinst + 1].op = op

Operand == prog[pinst + 1].operand

Signals(s) == sig' = s /\ UNCHANGED <<pinst, stack, halt, heap, fault>>

Continues(st) ==
  /\ stack' = st
  /\ pinst' = pinst + 1
  /\ UNCHANGED <<halt, sig, fault>>

Faults(f) == fault' = f /\ UNCHANGED <<pinst, stack, halt, heap, sig>>

-----------------------------------------------------------------------------
\* pinst is unsigned, and so is the comparison.
Illegal == Running /\ pinst >= Len(prog) /\ Signals("INST_SIG_ILLEGAL")

\* MUTANT: the instruction is not stepped over.
INST_NOP_Stays == At("NOP") /\ UNCHANGED vmvars

INST_NOP == At("NOP") /\ Continues(stack) /\ UNCHANGED heap

\* MUTANT: no test for a full stack.
INST_PUSH_Unchecked == At("PUSH") /\ Continues(Append(stack, Operand)) /\ UNCHANGED heap

INST_PUSH ==
  /\ At("PUSH")
  /\ IF Size >= VM_STACK_SIZE
     THEN Signals("INST_SIG_OVERFLOW")
     ELSE Continues(Append(stack, Operand)) /\ UNCHANGED heap

\* MUTANT: one operand is enough.
Binary_One(results) ==
  IF Size < 1
  THEN Signals("INST_SIG_UNDERFOW")
  ELSE /\ \E w \in IF Size = 1 THEN Words ELSE results :
            Continues(Append(IF Size = 1 THEN << >> ELSE Below(2), w))
       /\ UNCHANGED heap

\* Two words are replaced by one.
Binary(results) ==
  IF Size < 2
  THEN Signals("INST_SIG_UNDERFOW")
  ELSE /\ \E w \in results : Continues(Append(Below(2), w))
       /\ UNCHANGED heap

Left == stack[Size - 1]
Right == stack[Size]

\* Two's complement: the build wraps.
INST_IADD == At("IADD") /\ Binary({(Left + Right) % WordMod})
INST_ISUB == At("ISUB") /\ Binary({(Left - Right) % WordMod})
INST_IMUL == At("IMUL") /\ Binary({(Left * Right) % WordMod})
INST_EQ == At("EQ") /\ Binary({IF Left = Right THEN 1 ELSE 0})

\* Floating-point results are any word: nothing depends on them.
INST_Float == (\E op \in {"FADD", "FSUB", "FMUL", "FDIV"} : At(op)) /\ Binary(Words)

\* MUTANT: the words are divided as unsigned numbers.
Quotient_Unsigned(a, b) == (a % WordMod) \div (b % WordMod)

\* C division truncates; the least integer divided by -1 traps.
Quotient(a, b) ==
  LET abs(n) == IF n < 0 THEN -n ELSE n
      q == abs(a) \div abs(b)
  IN  IF (a < 0) = (b < 0) THEN q ELSE -q

INST_IDIV ==
  /\ At("IDIV")
  /\ IF Size >= 2 /\ Right = 0
     THEN Signals("INST_SIG_FPE")
     ELSE IF Size >= 2 /\ Signed(Right) = -1 /\ 2 * Left = WordMod
     THEN Faults("trap")
     ELSE Binary({Quotient(Signed(Left), Signed(Right)) % WordMod})

INST_JMP ==
  /\ At("JMP")
  /\ pinst' = Operand
  /\ UNCHANGED <<stack, halt, heap, sig, fault>>

INST_HLT ==
  /\ At("HLT")
  /\ halt' = TRUE
  /\ UNCHANGED <<pinst, stack, heap, sig, fault>>

\* The word tested is popped only when the jump is taken.
INST_JNZ ==
  /\ At("JNZ")
  /\ \/ Size < 1 /\ Signals("INST_SIG_UNDERFOW")
     \/ /\ Size >= 1 /\ Right # 0
        /\ stack' = Below(1)
        /\ pinst' = Operand
        /\ UNCHANGED <<halt, heap, sig, fault>>
     \/ /\ Size >= 1 /\ Right = 0
        /\ Continues(stack) /\ UNCHANGED heap

\* The checks DUP and SWAP share, in their order; stack_size - operand is
\* unsigned, so that `<= 0' is `= 0'.
OffsetSignal ==
  IF Size >= VM_STACK_SIZE THEN "INST_SIG_OVERFLOW"
  ELSE IF Size = Operand THEN "INST_SIG_UNDERFOW"
  ELSE IF Signed(Operand) < 0 THEN "INST_SIG_ILLEGAL"
  ELSE "INST_SIG_OK"

INST_DUP ==
  /\ At("DUP")
  /\ \/ OffsetSignal # "INST_SIG_OK" /\ Signals(OffsetSignal)
     \/ /\ OffsetSignal = "INST_SIG_OK"
        /\ \E w \in FromTop(Operand + 1) : Continues(Append(stack, w))
        /\ UNCHANGED heap

INST_SWAP ==
  /\ At("SWAP")
  /\ \/ OffsetSignal # "INST_SIG_OK" /\ Signals(OffsetSignal)
     \/ /\ OffsetSignal = "INST_SIG_OK" /\ Operand < Size
        /\ Continues([stack EXCEPT ![Size] = stack[Size - Operand],
                                   ![Size - Operand] = stack[Size]])
        /\ UNCHANGED heap
     \/ OffsetSignal = "INST_SIG_OK" /\ Operand > Size /\ Faults("wild")

\* MUTANT: the page is stored a word too low.
INST_CREATE_TABLE_Low ==
  /\ At("CREATE_TABLE")
  /\ Len(heap) + 2 <= MaxObjs
  /\ Size >= 2 /\ Size < VM_STACK_SIZE /\ Right \in Strings
  /\ heap' = heap \o <<[kind |-> "page", objname |-> Right],
                       [kind |-> "coldefs", items |-> << >>]>>
  /\ LET page == HeapBase + Len(heap) + 1
     IN  Continues(Below(2) \o <<page, Right, page + 1>>)

\* The overflow check comes after the table name has been replaced by the
\* page, and the second object allocated.
INST_CREATE_TABLE ==
  /\ At("CREATE_TABLE")
  /\ Len(heap) + 2 <= MaxObjs
  /\ \/ Size < 1 /\ Signals("INST_SIG_UNDERFOW")
     \/ Size >= 1 /\ Right \notin Strings /\ Faults("wild")
     \/ /\ Size >= 1 /\ Right \in Strings
        /\ heap' = heap \o <<[kind |-> "page", objname |-> Right],
                             [kind |-> "coldefs", items |-> << >>]>>
        /\ LET page == HeapBase + Len(heap) + 1
           IN  IF Size >= VM_STACK_SIZE
               THEN /\ stack' = Append(Below(1), page)
                    /\ sig' = "INST_SIG_OVERFLOW"
                    /\ UNCHANGED <<pinst, halt, fault>>
               ELSE Continues(Below(1) \o <<page, page + 1>>)

\* MUTANT: growing the array loses what was in it.
INST_DEFINE_COLUMN_Fresh ==
  /\ At("DEFINE_COLUMN") /\ Size >= 4
  /\ LET arr == stack[Size - 3]
         col == [colname |-> stack[Size - 2], type |-> Narrowed(Left), len |-> Narrowed(Right)]
     IN  /\ Points(arr, "coldefs")
         /\ heap' = [heap EXCEPT ![arr - HeapBase].items = <<col>>]
         /\ Continues(Below(3))

INST_DEFINE_COLUMN ==
  /\ At("DEFINE_COLUMN")
  /\ \/ Size < 4 /\ Signals("INST_SIG_UNDERFOW")
     \/ /\ Size >= 4
        /\ LET arr == stack[Size - 3]
               name == stack[Size - 2]
               col == [colname |-> name, type |-> Narrowed(Left), len |-> Narrowed(Right)]
           IN  IF Points(arr, "coldefs") /\ name \in Strings
               THEN /\ heap' = [heap EXCEPT ![arr - HeapBase].items = Append(@, col)]
                    /\ Continues(Below(3))
               ELSE Faults("wild")

\* MUTANT: the array is allocated before the test.
INST_INSERT_PREP_Leaks ==
  /\ At("INSERT_PREP")
  /\ Len(heap) + 1 <= MaxObjs
  /\ heap' = Append(heap, [kind |-> "values", items |-> << >>])
  /\ IF Size >= VM_STACK_SIZE
     THEN sig' = "INST_SIG_OVERFLOW" /\ UNCHANGED <<pinst, stack, halt, fault>>
     ELSE Continues(Append(stack, HeapBase + Len(heap) + 1))

INST_INSERT_PREP ==
  /\ At("INSERT_PREP")
  /\ Len(heap) + 1 <= MaxObjs
  /\ IF Size >= VM_STACK_SIZE
     THEN Signals("INST_SIG_OVERFLOW")
     ELSE /\ heap' = Append(heap, [kind |-> "values", items |-> << >>])
          /\ Continues(Append(stack, HeapBase + Len(heap) + 1))

\* Two words are checked for, three are used.
INST_INSERT_VALUE ==
  /\ At("INSERT_VALUE")
  /\ \/ Size < 2 /\ Signals("INST_SIG_UNDERFOW")
     \/ /\ Size >= 2
        /\ \E arr \in FromTop(3) :
             LET val == IF Left \in {T_INTEGER, T_FLOAT, T_STRING}
                        THEN [datatype |-> Left, val |-> Right]
                        ELSE [datatype |-> T_KEYWORD, val |-> 0]
             IN  IF Points(arr, "values")
                 THEN /\ heap' = [heap EXCEPT ![arr - HeapBase].items = Append(@, val)]
                      /\ Continues(Below(2))
                 ELSE Faults("wild")

\* vm_exec_prog.
vm_exec_prog ==
  \/ Illegal
  \/ INST_NOP \/ INST_PUSH
  \/ INST_IADD \/ INST_ISUB \/ INST_IMUL \/ INST_IDIV \/ INST_Float \/ INST_EQ
  \/ INST_JMP \/ INST_HLT \/ INST_JNZ
  \/ INST_DUP \/ INST_SWAP
  \/ INST_CREATE_TABLE \/ INST_DEFINE_COLUMN
  \/ INST_INSERT_PREP \/ INST_INSERT_VALUE

\* VM vm = {0}.
VMInit ==
  /\ pinst = 0 /\ stack = << >> /\ halt = FALSE /\ heap = << >>
  /\ sig = "INST_SIG_OK" /\ fault = "none"

-----------------------------------------------------------------------------
Objects ==
  [kind : {"page"}, objname : Words]
  \cup [kind : {"coldefs"},
        items : Seq([colname : Words, type : 0 .. IntMod - 1, len : 0 .. IntMod - 1])]
  \cup [kind : {"values"}, items : Seq([datatype : Words, val : Words])]

Sigs == {"INST_SIG_OK", "INST_SIG_OVERFLOW", "INST_SIG_UNDERFOW",
         "INST_SIG_ILLEGAL", "INST_SIG_FPE"}

\* Types; the stack never runs past its array.
VMTypeOK ==
  /\ pinst \in Nat
  /\ stack \in Seq(Words) /\ Size <= VM_STACK_SIZE
  /\ halt \in BOOLEAN
  /\ heap \in Seq(Objects) /\ Len(heap) <= MaxObjs
  /\ sig \in Sigs
  /\ fault \in {"none", "trap", "wild"}
=============================================================================
