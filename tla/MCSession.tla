----------------------------- MODULE MCSession ------------------------------
(***************************************************************************)
(* Sessions on two tables and one that does not exist.  Strings have one,  *)
(* two, four and no characters (two of them), columns two or none; a page  *)
(* has room for two integers.                                              *)
(***************************************************************************)
EXTENDS Session, MCSqlEngine

Lengths == <<1, 2, 4, 0, 0>>

Char2 == Column(2, "char", 2)

Char0 == Column(4, "char", 0)

Integer == Column(3, "integer", 0)

Tab(kind, name, lists) == [kind : {kind}, name : {name}, items : lists]

Creates ==
  Tab("CREATE", 1, {<<Integer>>, <<Char2, Integer>>, <<Char2, Char2>>, <<Char0, Char2>>})
    \cup Tab("CREATE", 2, {<<Integer>>, << >>})

Number == Value(T_INTEGER, 40)

Text(n) == Value(T_STRING, n)

\* Rows that fit, spill into the column behind, and run past the row,
\* and a string that goes where an empty one belongs.
Inserts ==
  Tab("INSERT", 1, {<<Number>>, <<Text(2), Number>>, <<Text(3), Number>>,
                    <<Text(1), Text(2)>>, <<Text(3), Text(1)>>, <<Text(1), Text(3)>>,
                    <<Text(2), Text(5)>>})
    \cup Tab("INSERT", 2, {<<Number>>, <<Text(2), Number>>})
    \cup Tab("INSERT", 3, {<<Number>>})

\* The other sorts of item, once.
OddOnes ==
  Select \cup {s \in AllStatements :
              \E i \in OddColumns \cup OddValues \cup {Column(2, "float", 0), Value(T_FLOAT, 40)} :
                s.items = <<i>>}

SessionStatements == Creates \cup Inserts \cup OddOnes
=============================================================================
