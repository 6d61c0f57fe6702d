------------------------------ MODULE MCParser ------------------------------
(***************************************************************************)
(* The parser on every short query of four sorts: expressions, column      *)
(* lists, value lists and statements; and on sentences of the grammar.     *)
(***************************************************************************)
EXTENDS Parser

Listed(words) ==
  FoldLeft(LAMBDA acc, w : IF acc = << >> THEN w ELSE acc \o <<",">> \o w, << >>, words)

\* create table a (a integer, a char (1), ...).
CreateSentence(cols) ==
  <<"create", "table", "a", "(">>
  \o Listed([c \in 1 .. Len(cols) |->
              IF cols[c] = "char" THEN <<"a", "char", "(", "1", ")">> ELSE <<"a", cols[c]>>])
  \o <<")", "EOQ">>

\* insert into a values (1, 's', ...).
InsertSentence(vals) ==
  <<"insert", "into", "a", "values", "(">>
  \o Listed([v \in 1 .. Len(vals) |-> <<vals[v]>>]) \o <<")", "EOQ">>

Query(head, words, n) == {head \o w \o <<"EOQ">> : w \in BoundedSeq(words, n)}

ExpressionQueries ==
  Query(<<"select">>, {"a", "-", "*", "(", ")", ">"}, 5)
  \cup Query(<<"select">>, {"a", "-", "(", ",", "="}, 4)
  \cup Query(<<"where">>, {"a", "and", "or", "+", "=", ">"}, 5)

ColumnQueries ==
  Query(<<"create", "table", "a">>, {"a", "integer", "char", "(", ")", ",", "1"}, 3)
  \cup Query(<<"create", "table", "a", "(">>, {"a", "integer", "char", "(", ")", ",", "1"}, 4)
  \cup Query(<<"create", "table", "a", "(", "a", "char">>, {"'('", "'s'", "1", "(", ")"}, 4)
  \cup Query(<<"create", "table", "a", "(", "a", "char", "(">>, {"a", "1", "char", "(", ")", ","}, 4)
  \cup {<<"create", "table", "a", "(", "a", "integer", ",", "a", "char", ")", "EOQ">>}
  \cup {CreateSentence(cols) : cols \in BoundedSeq(Datatypes, 3)}

ValueQueries ==
  Query(<<"insert", "into", "a", "values">>, {"1", "-", "(", ")", ","}, 3)
  \cup Query(<<"insert", "into", "a", "values", "(">>, {"1", "-", "(", ")", ","}, 5)
  \cup {InsertSentence(vals) : vals \in BoundedSeq(Literals \cup Names, 3)}
  \cup {InsertSentence(<<"1", "'s'", "1.5", "a", "'('">>)}

StatementQueries ==
  Query(<< >>, {"select", "from", "where", "create", "insert", "into", "values",
                "table", "update", "is", "a", ","}, 3)
  \cup Query(<<"select", "a", "from", "a">>, {"where", "from", "a", "=", "1", ",", "is", "update"}, 4)

\* More clauses than the root's first array has room for, and the second.
LongQueries == {FlattenSeq([c \in 1 .. n |-> <<"from", "a">>]) \o <<"EOQ">> : n \in 4 .. 9}

AllQueries == LongQueries \cup ExpressionQueries \cup ColumnQueries \cup ValueQueries \cup StatementQueries
=============================================================================
