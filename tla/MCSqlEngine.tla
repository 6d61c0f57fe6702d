---------------------------- MODULE MCSqlEngine -----------------------------
(***************************************************************************)
(* SqlEngine on statements of up to two items of every sort the parser can *)
(* produce.  A column needs five words of stack; the run has four.         *)
(* 1 .. 3 are strings.                                                     *)
(***************************************************************************)
EXTENDS SqlEngine, SequencesExt

Column(n, d, sz) == [name |-> n, dtype |-> d, size |-> sz]

Columns3 == {Column(2, "integer", 0), Column(3, "char", 15), Column(2, "float", 0)}

OddColumns == {Column(3, "none", 0), Column(2, "other", 0)}

Value(t, v) == [type |-> t, val |-> v]

Values3 == {Value(T_INTEGER, 0), Value(T_STRING, 3), Value(T_FLOAT, 40)}

OddValues == {Value(T_OPERATOR, 0), Value(T_IDENTIFIER, 2)}

Create(cols) == {[kind |-> "CREATE", name |-> 1, items |-> c] : c \in BoundedSeq(cols, 2)}

Insert(vals) == {[kind |-> "INSERT", name |-> 1, items |-> v] : v \in BoundedSeq(vals, 2)}

Select == {[kind |-> "SELECT", name |-> 1, items |-> << >>]}

AllStatements ==
  Create(Columns3 \cup OddColumns) \cup Insert(Values3 \cup OddValues) \cup Select
=============================================================================
