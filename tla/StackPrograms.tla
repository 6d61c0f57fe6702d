--------------------------- MODULE StackPrograms ----------------------------
(***************************************************************************)
(* The stack machine on arbitrary programs: what every instruction         *)
(* guarantees, whoever wrote the program.  The loop is that of             *)
(* main.c:232-240, which calls vm_exec_prog until it halts or signals.     *)
(***************************************************************************)
EXTENDS StackMachine

CONSTANT Programs  (* programs the machine is started on *)

ASSUME ProgramsAssumption == Programs \subseteq Seq(Instructions)

Init == VMInit /\ prog \in Programs

Next == vm_exec_prog /\ UNCHANGED prog

vars == <<prog, vmvars>>

Spec == Init /\ [][Next]_vars

\* The loop calls vm_exec_prog again as long as it may.
FairSpec == Spec /\ WF_vars(Next)

-----------------------------------------------------------------------------
(* What the machine is supposed to guarantee.                              *)

TypeOK == VMTypeOK

Executing == Running /\ pinst < Len(prog)
Inst == prog[pinst + 1]

\* How many words of the stack an instruction uses: the comments of enum
\* VM_Instruction_Type (stackmachine.h:22-52) and, where they are silent, the
\* words its code reads.
Uses(i) ==
  CASE i.op \in {"IADD", "ISUB", "IMUL", "IDIV", "EQ",
                 "FADD", "FSUB", "FMUL", "FDIV"} -> 2
    [] i.op \in {"JNZ", "CREATE_TABLE"} -> 1
    [] i.op \in {"DUP", "SWAP"} -> i.operand + 1
    [] i.op = "DEFINE_COLUMN" -> 4
    [] i.op = "INSERT_VALUE" -> 3
    [] OTHER -> 0

\* An instruction that does not find the words it uses signals an underflow
\* and nothing else happens.  DUP and SWAP beyond the bottom of the stack,
\* and INSERT_VALUE on two words, are left to OffsetUnderflow and
\* InsertUnderflow below.
UnderflowSignalled ==
  [][Executing /\ Inst.op \notin {"DUP", "SWAP", "INSERT_VALUE"}
       /\ Uses(Inst) > Size => sig' = "INST_SIG_UNDERFOW"]_vars

\* "INST_SIG_UNDERFOW, // cause by stack or float" (stackmachine.h:15): DUP
\* and SWAP of a word below the bottom of the stack do not succeed.
OffsetUnderflow ==
  [][Executing /\ Inst.op \in {"DUP", "SWAP"} /\ Uses(Inst) > Size
       => sig' # "INST_SIG_OK"]_vars

\* "use 3 stack values, consume 2" (stackmachine.h:49): INSERT_VALUE on a
\* stack of two words does not succeed.
InsertUnderflow ==
  [][Executing /\ Inst.op = "INSERT_VALUE" /\ Uses(Inst) > Size
       => sig' # "INST_SIG_OK"]_vars

\* CREATE_TABLE on a full stack: the machine stands where it stood and its
\* stack is full as before, but two objects have been allocated.
LeavesTable ==
  /\ Inst.op = "CREATE_TABLE" /\ Size = VM_STACK_SIZE
  /\ UNCHANGED <<pinst, halt>>
  /\ Len(stack') = Size
  /\ Len(heap') = Len(heap) + 2

\* A call that signals an error has changed nothing, so that the caller can
\* report the state it failed in.  CREATE_TABLE breaks this, on a full stack
\* only, and goes no further than LeavesTable: with BelowIsKept and
\* ObjectsStay, the table's name is replaced and a table nobody uses is made.
FailedStepsAreClean ==
  [][sig' # "INST_SIG_OK" => UNCHANGED <<pinst, stack, halt, heap>> \/ LeavesTable]_vars

\* An instruction leaves the words below those it uses as they are.
BelowIsKept ==
  [][Executing /\ Size > Uses(Inst) =>
       SubSeq(stack', 1, Size - Uses(Inst)) = SubSeq(stack, 1, Size - Uses(Inst))]_vars

\* Objects are never moved or taken back, and the arrays only grow at the
\* end: a pointer a program has left on the stack stays good.
ObjectsStay ==
  [][\A i \in 1 .. Len(heap) :
       /\ i <= Len(heap')
       /\ heap'[i].kind = heap[i].kind
       /\ IF heap[i].kind = "page"
          THEN heap'[i] = heap[i]
          ELSE SubSeq(heap'[i].items, 1, Len(heap[i].items)) = heap[i].items]_vars

\* IDIV is C's division: the remainder is smaller than the divisor and has the
\* sign of the dividend.
DivisionTruncates ==
  [][Executing /\ Inst.op = "IDIV" /\ pinst' = pinst + 1 =>
       LET a == Signed(Left)
           b == Signed(Right)
           r == a - b * Signed(stack'[Size - 1])
       IN  /\ r * r < b * b
           /\ a * r >= 0]_vars

\* A program whose jumps all go forward ends: by HLT, a signal or a fault.
JumpsForward ==
  \A i \in 1 .. Len(prog) :
    prog[i].op \in {"JMP", "JNZ"} => prog[i].operand >= i

ForwardProgramsEnd == JumpsForward ~> ~Running
=============================================================================
