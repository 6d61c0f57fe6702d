-------------------------- MODULE MCStackPrograms --------------------------
(***************************************************************************)
(* The machine on every short program over two instruction sets: numbers   *)
(* and jumps, and the table instructions.  Words have five bits: 16 is the *)
(* least integer, 31 is -1; 1 is the address of a string.                  *)
(***************************************************************************)
EXTENDS StackPrograms, SequencesExt

Ins(op, operand) == [op |-> op, operand |-> operand]

Plain(ops) == {Ins(op, 0) : op \in ops}

NumberSet ==
  Plain({"NOP", "IADD", "ISUB", "IMUL", "IDIV", "EQ", "FADD", "HLT"})
  \cup {Ins("PUSH", 16), Ins("PUSH", 31), Ins("PUSH", 3)}
  \cup {Ins("JMP", 31), Ins("JNZ", 1), Ins("JNZ", 3)}
  \cup {Ins("DUP", 1), Ins("DUP", 31), Ins("SWAP", 1)}

\* Every three instructions, on the empty stack and on three words.
NumberPrograms ==
  [1 .. 3 -> NumberSet]
  \cup {<<Ins("PUSH", 16), Ins("PUSH", 31), Ins("PUSH", 3)>> \o p : p \in [1 .. 3 -> NumberSet]}

TableSet ==
  Plain({"CREATE_TABLE", "DEFINE_COLUMN", "INSERT_PREP", "INSERT_VALUE"})
  \cup {Ins("PUSH", 1), Ins("PUSH", 3)}

\* Longer programs: several columns or values for one array, a full stack.
Pieces ==
  {<<i>> : i \in TableSet}
  \cup {<<Ins("PUSH", 1), Ins("PUSH", 1), Ins("PUSH", 1)>>}
  \cup {<<Ins("PUSH", 1), Ins("PUSH", 3), Ins("PUSH", n), Ins("DEFINE_COLUMN", 0)>> : n \in {1, 3}}
  \cup {<<Ins("PUSH", 3), Ins("PUSH", n), Ins("INSERT_VALUE", 0)>> : n \in {1, 3}}

TablePrograms ==
  [1 .. 4 -> TableSet] \cup {FlattenSeq(pieces) : pieces \in [1 .. 4 -> Pieces]}

AllPrograms == NumberPrograms \cup TablePrograms
=============================================================================
