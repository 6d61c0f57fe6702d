------------------------------- MODULE Parser -------------------------------
(***************************************************************************)
(* The parser of parse.c and preorder_tree (sqlengine.c), which makes the  *)
(* list the compiler works on from the tree the parser built.              *)
(*                                                                         *)
(* A query is a sequence of tokens ending with "EOQ"; a token is the word  *)
(* the tokenizer found, reduced to one name, one integer and one word for  *)
(* each keyword, datatype and operator the parser tells apart.  A node is  *)
(* the place of its token in the query and those of its children; two      *)
(* tokens with the same text are two places, so that nothing can be lost   *)
(* unnoticed.                                                              *)
(*                                                                         *)
(* parse() is a loop with one action per kind of statement or clause.  The *)
(* five Pratt parsers it calls call themselves for what is behind a        *)
(* prefix, a parenthesis or an operator: Parsed is what calls do, by how   *)
(* deep they are nested.  A call ends "ok", with NULL after a message      *)
(* ("error"), in exit(EXIT_FAILURE) ("exit"), or by dereferencing the NULL *)
(* that follows the last token ("crash").                                  *)
(***************************************************************************)
EXTENDS Integers, Sequences, FiniteSets, SequencesExt

CONSTANTS
  Queries,   (* what the tokenizer may hand over                          *)
  FirstCapa  (* 32: room for children in an array that is new             *)

ASSUME FirstCapaAssumption == FirstCapa \in Nat \ {0}

\* What the tokenizer hands over ends with EOQ, and has no other.
IsQuery(q) ==
  /\ q = [i \in 1 .. Len(q) |-> q[i]] /\ Len(q) \in Nat \ {0}
  /\ \A i \in 1 .. Len(q) : q[i] = "EOQ" <=> i = Len(q)

ASSUME QueriesAssumption == \A q \in Queries : IsQuery(q)

VARIABLES
  query,  (* the tokens                                                   *)
  token,  (* parse()'s cursor                                             *)
  root,   (* root->childs, by place                                       *)
  nodes,  (* the nodes below the root                                     *)
  out     (* "run", or how parse() ended                                  *)

vars == <<query, token, root, nodes, out>>

-----------------------------------------------------------------------------
(* node_from_token.                                                        *)

Names == {"a"}
Literals == {"1", "1.5", "'s'", "'('"}
Datatypes == {"char", "integer", "float"}
Operators == {"+", "-", "*", "/", "(", ")", ",", "=", "<>", ">", "<", ">=", "<=",
              "and", "or"}
Expressions == Names \cup Literals \cup Datatypes \cup Operators

Handled == {"select", "where", "from", "create", "insert"}
Unhandled == {"update", "delete", "into", "values", "order", "by", "on"}
Objects == {"table", "index"}

\* token->str: of a string the text between the quotes.
Text(t) == IF t = "'('" THEN "(" ELSE t

\* Keywords node_from_token has no case for.
Unknown == {"is", "not", "null", "like"}

\* What looking at a token does.
Look(i) ==
  IF i > Len(query) THEN "crash" ELSE IF query[i] \in Unknown THEN "exit" ELSE "ok"

Expect(i, S) ==
  IF Look(i) # "ok" THEN Look(i) ELSE IF query[i] \in S THEN "ok" ELSE "error"

\* bindpower_lookup.
Lhs(t) == CASE t \in {"+", "-"} -> 5 [] t \in {"*", "/", "(", ")"} -> 7
            [] t \in {"=", "<>"} -> 4 [] t = "and" -> 1 [] t = "or" -> 0
            [] OTHER -> 3

Rhs(t) == IF t \in {"=", "<>"} THEN 3 ELSE Lhs(t) + 1

-----------------------------------------------------------------------------
(* The Pratt parsers.  They differ in the clause's name only, but for two  *)
(* things: which operators may follow an operand, and that parse_create    *)
(* knows columns and no prefix operators.                                  *)

Node(i, childs) == [tok |-> i, childs |-> childs]

\* A tree: its head, and the nodes from there on.
Tree(i, below) ==
  [head  |-> i,
   nodes |-> {Node(i, [c \in DOMAIN below |-> below[c].head])}
               \cup UNION {below[c].nodes : c \in DOMAIN below}]

Leaf(i) == Tree(i, << >>)

\* A call that ended well has a tree and has moved the cursor to its last
\* token.
Done(tree, i) == [st |-> "ok", tree |-> tree, i |-> i]
Stop(st) == [st |-> st]

Follows(kind) == IF kind \in {"select", "where"} THEN Operators ELSE {","}

\* A column: a name, a datatype and, for char, a size in parentheses; of the
\* opening one the text is compared, not the type; the closing one is stepped
\* on, not looked at.
Column(i) ==
  LET dtype == Expect(i + 1, Datatypes)
  IN  IF dtype # "ok" THEN Stop(dtype)
      ELSE IF query[i + 1] # "char" THEN Done(Tree(i, <<Leaf(i + 1)>>), i + 1)
      ELSE IF Text(query[i + 2]) # "(" THEN Stop("error")
      ELSE IF Look(i + 3) # "ok" THEN Stop(Look(i + 3))
      ELSE Done(Tree(i, <<Leaf(i + 1), Leaf(i + 3)>>), i + 4)

\* What comes first: a prefix operator takes all that follows, a parenthesis
\* what it encloses; any other token is an operand, operators included.
\* call[i][min_bp] is what the parser does when it calls itself.
Operand(kind, call, i) ==
  IF Look(i) # "ok" THEN Stop(Look(i))
  ELSE IF kind # "create" /\ query[i] \in {"+", "-"} THEN
    LET r == call[i + 1][0]
    IN  IF r.st # "ok" THEN r ELSE Done(Tree(i, <<r.tree>>), r.i)
  ELSE IF query[i] = "(" THEN
    LET r == call[i + 1][0]
    IN  IF r.st # "ok" THEN r
        ELSE IF query[r.i + 1] # ")" THEN Stop("error")
        ELSE Done(r.tree, r.i + 1)
  ELSE IF kind = "create" /\ query[i] \in Names THEN Column(i)
  ELSE Done(Leaf(i), i)

\* MUTANT: what has been taken need not be an expression.
Start_NoCheck(kind, call, i) == Operand(kind, call, i)

\* Up to the loop.
Start(kind, call, i) ==
  LET lhs == Operand(kind, call, i)
  IN  IF lhs.st = "ok" /\ Expect(lhs.i, Expressions) # "ok"
      THEN Stop(Expect(lhs.i, Expressions)) ELSE lhs

\* MUTANT: an operator of equal power does not continue the expression.
Infix_Strict(kind, call, lhs, min_bp) ==
  LET op == lhs.i + 1
  IN  IF lhs.st # "ok" THEN lhs
      ELSE IF Look(op) # "ok" THEN Stop(Look(op))
      ELSE IF query[op] = "(" THEN Stop("error")
      ELSE IF query[op] = ")" \/ query[op] \notin Expressions THEN lhs
      ELSE IF query[op] \notin Follows(kind) THEN Stop("error")
      ELSE IF Lhs(query[op]) <= min_bp THEN lhs
      ELSE LET rhs == call[op + 1][Rhs(query[op])]
           IN  IF rhs.st # "ok" THEN rhs
               ELSE Done(Tree(op, <<lhs.tree, rhs.tree>>), rhs.i)

\* The loop's body: the operator that follows is taken if it binds strongly
\* enough.  Where the loop is left, nothing changes any more.
Infix(kind, call, lhs, min_bp) ==
  LET op == lhs.i + 1
  IN  IF lhs.st # "ok" THEN lhs
      ELSE IF Look(op) # "ok" THEN Stop(Look(op))
      ELSE IF query[op] = "(" THEN Stop("error")
      ELSE IF query[op] = ")" \/ query[op] \notin Expressions THEN lhs
      ELSE IF query[op] \notin Follows(kind) THEN Stop("error")
      ELSE IF Lhs(query[op]) < min_bp THEN lhs
      ELSE LET rhs == call[op + 1][Rhs(query[op])]
           IN  IF rhs.st # "ok" THEN rhs
               ELSE Done(Tree(op, <<lhs.tree, rhs.tree>>), rhs.i)

\* One call: the loop takes an operator a turn, and there are fewer of them
\* than tokens.
Expr(kind, call, i, min_bp) ==
  LET lhs[n \in 0 .. Len(query)] ==
        IF n = 0 THEN Start(kind, call, i) ELSE Infix(kind, call, lhs[n - 1], min_bp)
  IN  lhs[Len(query)]

\* All calls, with at most n nested in them: each begins behind the one it is
\* nested in, so that one more than the query has tokens is enough.
Nested(kind) ==
  LET calls[n \in 0 .. Len(query) + 1] ==
        [i \in 1 .. Len(query) + 1 |-> [min_bp \in 0 .. 8 |->
           IF n = 0 THEN Stop("deep") ELSE Expr(kind, calls[n - 1], i, min_bp)]]
  IN  calls

Parsed(kind, i) == Nested(kind)[Len(query) + 1][i][0]

parse_select(i) == Parsed("select", i)
parse_from(i) == Parsed("from", i)
parse_where(i) == Parsed("where", i)
parse_create(i) == Parsed("create", i)
parse_insert(i) == Parsed("insert", i)

parse_expr(type, i) ==
  CASE type = "select" -> parse_select(i)
    [] type = "from" -> parse_from(i)
    [] type = "where" -> parse_where(i)
    [] type = "create" -> parse_create(i)
    [] type = "insert" -> parse_insert(i)

-----------------------------------------------------------------------------
(* parse.                                                                  *)

Init == query \in Queries /\ token = 1 /\ root = << >> /\ nodes = {} /\ out = "run"

\* How far the words after the keyword are as they must be.
First(sts) ==
  IF \A j \in 1 .. Len(sts) : sts[j] = "ok" THEN "ok"
  ELSE sts[CHOOSE j \in 1 .. Len(sts) :
             sts[j] # "ok" /\ \A h \in 1 .. j - 1 : sts[h] = "ok"]

\* The trees hung under the root: a clause with its expression; a statement
\* next to its columns; a statement next to "values" with the values under it.
Hung(type, tree) ==
  CASE type = "create" -> <<Tree(token, <<Leaf(token + 1), Leaf(token + 2)>>), tree>>
    [] type = "insert" -> <<Tree(token, <<Tree(token + 1, <<Leaf(token + 2)>>)>>),
                            Tree(token + 3, <<tree>>)>>
    [] OTHER -> <<Tree(token, <<tree>>)>>

\* The capacity of an array that n items were appended to: it grows when
\* there is no room for one more.
Capa(n) ==
  LET capa[m \in 0 .. n] ==
        IF m = 0 THEN 0
        ELSE IF m - 1 < capa[m - 1] THEN capa[m - 1]
        ELSE IF capa[m - 1] = 0 THEN FirstCapa ELSE 2 * capa[m - 1]
  IN  capa[n]

\* MUTANT: the array grows one child too early.
append_Early(childs, node) ==
  LET full == Len(childs) + 1 >= Capa(Len(childs))
  IN  Append(IF full THEN [c \in DOMAIN childs |-> 0] ELSE childs, node)

\* append (array.c): an array that is full gets a new one of twice the size
\* and nothing is copied to it: the children before are zeroed memory.
append(childs, node) ==
  LET full == Len(childs) >= Capa(Len(childs))
  IN  Append(IF full THEN [c \in DOMAIN childs |-> 0] ELSE childs, node)

\* One tree or two are hung under the root.
Hang(trees) ==
  /\ root' = IF Len(trees) = 1 THEN append(root, trees[1].head)
             ELSE append(append(root, trees[1].head), trees[2].head)
  /\ nodes' = nodes \cup UNION {trees[c].nodes : c \in DOMAIN trees}

\* MUTANT: the token after the expression is skipped.
Takes_Skips(type, st, i) ==
  LET r == IF st = "ok" THEN parse_expr(type, i) ELSE Stop(st)
  IN  /\ IF r.st = "ok"
         THEN token' = r.i + 2 /\ Hang(Hung(type, r.tree)) /\ UNCHANGED out
         ELSE out' = r.st /\ UNCHANGED <<token, root, nodes>>
      /\ UNCHANGED query

\* The words after the keyword have been looked at with status st, and the
\* expression starts at i.
Takes(type, st, i) ==
  LET r == IF st = "ok" THEN parse_expr(type, i) ELSE Stop(st)
  IN  /\ IF r.st = "ok"
         THEN token' = r.i + 1 /\ Hang(Hung(type, r.tree)) /\ UNCHANGED out
         ELSE out' = r.st /\ UNCHANGED <<token, root, nodes>>
      /\ UNCHANGED query

At(words) == out = "run" /\ Look(token) = "ok" /\ query[token] \in words

\* The cases SELECT, WHERE and FROM.
Clause ==
  \E type \in {"select", "where", "from"} :
    /\ At({type})
    /\ Takes(type, Expect(token + 1, Expressions), token + 1)

Create ==
  /\ At({"create"})
  /\ Takes("create",
           First(<<Expect(token + 1, {"table"}), Expect(token + 2, Names),
                   Expect(token + 3, Expressions)>>),
           token + 3)

Insert ==
  /\ At({"insert"})
  /\ Takes("insert",
           First(<<Expect(token + 1, {"into"}), Expect(token + 2, Names),
                   Expect(token + 3, {"values"}), Expect(token + 4, Expressions)>>),
           token + 4)

Ends(st) == out' = st /\ UNCHANGED <<query, token, root, nodes>>

NotConsumed == At(Unhandled) /\ Ends("exit")

NotRecognised == At(Objects \cup Expressions) /\ Ends("error")

NoNodetype == out = "run" /\ Look(token) = "exit" /\ Ends("exit")

Return == At({"EOQ"}) /\ Ends("ok")

Next == Clause \/ Create \/ Insert \/ NotConsumed \/ NotRecognised \/ NoNodetype \/ Return

Spec == Init /\ [][Next]_vars

-----------------------------------------------------------------------------
(* preorder_tree: the head nodes of the expressions in a list.             *)

ChildsOf(i) == (CHOOSE node \in nodes : node.tok = i).childs

\* MUTANT: a list in a list is not opened.
preorder_tree_OneLevel(i) ==
  IF query[i] \notin {",", "values"} THEN <<i>> ELSE ChildsOf(i)

\* By how many lists are in each other.
preorder_tree(i) ==
  LET heads[n \in 0 .. Len(query)] == [j \in 1 .. Len(query) |->
        IF n = 0 \/ query[j] \notin {",", "values"} THEN <<j>>
        ELSE FlattenSeq([c \in DOMAIN ChildsOf(j) |-> heads[n - 1][ChildsOf(j)[c]]])]
  IN  heads[Len(query)][i]

\* The node ROOT is a list, too.
Items == FlattenSeq([c \in 1 .. Len(root) |-> preorder_tree(root[c])])

-----------------------------------------------------------------------------
(* What the parser is supposed to guarantee.                               *)

\* The cursor stays in the query, and the tree is made of tokens already read.
TypeOK ==
  /\ token \in 1 .. Len(query)
  /\ out \in {"run", "ok", "error", "exit", "crash"}
  /\ \A c \in 1 .. Len(root) : root[c] \in 0 .. token - 1
  /\ \A node \in nodes : {node.tok} \cup Range(node.childs) \subseteq 1 .. token - 1

IsInfix(node) == query[node.tok] \in Operators /\ Len(node.childs) = 2
IsSigned(node) == query[node.tok] \in Operators /\ Len(node.childs) = 1

\* These places and those of their children; and a node's with all under it.
WithChilds(S) == S \cup UNION {Range(node.childs) : node \in {n \in nodes : n.tok \in S}}

Below(i) ==
  LET below[n \in 0 .. Len(query)] ==
        IF n = 0 THEN {i} ELSE WithChilds(below[n - 1])
  IN  below[Len(query)]

Before(S, T) == \A i \in S, j \in T : i < j

InOrder(parts) == \A c, d \in DOMAIN parts : c < d => Before(parts[c], parts[d])

\* A node's token and what is below its children, in the order they are read:
\* an infix operator between its operands, any other token before all.
Parts(node) ==
  LET below == [c \in DOMAIN node.childs |-> Below(node.childs[c])]
  IN  IF IsInfix(node) THEN <<below[1], {node.tok}, below[2]>>
      ELSE <<{node.tok}>> \o below

CharColumns == {node \in nodes : query[node.tok] \in Names /\ Len(node.childs) = 2}

\* The tokens around the size of a char column.
Stepped == UNION {{node.childs[2] - 1, node.childs[2] + 1} : node \in CharColumns}

\* How many of the root's n children its array has forgotten: as many as the
\* one before it had room for.
Gone(n) == IF Capa(n) <= FirstCapa THEN 0 ELSE Capa(n) \div 2

\* A query that is accepted has been read whole, each token once: a token is
\* a node's, a parenthesis, or next to the size of a char column; and a node's
\* tree, read in order, is a part of the query.  Of the clauses, the root has
\* lost those it held when its array last grew and no other: the rest hangs
\* under it in order, what is lost was read before it, and if the clauses fit
\* the first array every node hangs in the tree.
\* (What hangs in the tree are its nodes, one to a token; and since what is
\* read before is in front, nothing hangs twice or under itself.)
NothingLost ==
  out = "ok" =>
    LET toks == {node.tok : node \in nodes}
        kept == {c \in DOMAIN root : root[c] # 0}
        hung == {root[c] : c \in kept} \cup UNION {Range(node.childs) : node \in nodes}
    IN  /\ kept = {c \in DOMAIN root : c > Gone(Len(root))}
        /\ hung \subseteq toks /\ (kept = DOMAIN root => hung = toks)
        /\ \A i \in toks \ hung, c \in kept : Before({i}, Below(root[c]))
        /\ \A m, n \in nodes : m.tok = n.tok => m = n
        /\ \A node \in nodes : InOrder(Parts(node))
        /\ InOrder([c \in kept |-> Below(root[c])])
        /\ \A i \in 1 .. Len(query) - 1 :
             i \in toks \cup Stepped \/ query[i] \in {"(", ")"}

\* How deep in parentheses a token is, those around the size of a char
\* column not counted.
Depth ==
  LET opens(i) == IF i \in Stepped THEN 0
                  ELSE CASE query[i] = "(" -> 1 [] query[i] = ")" -> -1 [] OTHER -> 0
      depth[i \in 0 .. Len(query)] == IF i = 0 THEN 0 ELSE depth[i - 1] + opens(i)
  IN  depth

\* The binding powers decide every tree: between an operator and the
\* operator of its operand on the same level of parentheses, the stronger
\* one is below; a prefix operator has taken everything to its right, and so
\* is never the left operand of an infix one.
Precedence ==
  (\A node \in nodes : query[node.tok] \notin {"(", ")"}) =>
    \A node, left, right \in nodes :
      IsInfix(node) /\ node.childs = <<left.tok, right.tok>> =>
        LET op == query[node.tok]
        IN  /\ Depth[left.tok] = Depth[node.tok] =>
                 /\ ~IsSigned(left)
                 /\ IsInfix(left) => Lhs(op) < Rhs(query[left.tok])
            /\ Depth[right.tok] = Depth[node.tok] /\ IsInfix(right) =>
                 Lhs(query[right.tok]) >= Rhs(op)

\* The parsers do not read past the end of the query, except in one place:
\* after `char (' parse_create takes the token that follows as the size and
\* the next as the closing parenthesis, whatever they are.
CrashesAfterCharOnly ==
  out = "crash" =>
    Text(query[Len(query) - 1]) = "(" /\ query[Len(query) - 2] = "char"

\* A sentence of the grammar, word by word: create table a (a integer, a char (1),
\* ...).  at tells where the columns begin, and in the end where EOQ is.
ColumnAt(cols) ==
  LET at[c \in 1 .. Len(cols) + 1] ==
        IF c = 1 THEN 5 ELSE at[c - 1] + (IF cols[c - 1] = "char" THEN 6 ELSE 3)
  IN  at

IsCreate(cols, at) ==
  /\ Len(query) = at[Len(cols) + 1]
  /\ \A i \in 1 .. 4 : query[i] = <<"create", "table", "a", "(">>[i]
  /\ \A c \in 1 .. Len(cols) :
       /\ query[at[c]] = "a" /\ query[at[c] + 1] = cols[c]
       /\ cols[c] = "char" =>
            query[at[c] + 2] = "(" /\ query[at[c] + 3] = "1" /\ query[at[c] + 4] = ")"
       /\ query[at[c + 1] - 1] = IF c = Len(cols) THEN ")" ELSE ","

\* insert into a values (1, 's', ...).
IsInsert(n) ==
  /\ Len(query) = 2 * n + 6
  /\ \A i \in 1 .. 5 : query[i] = <<"insert", "into", "a", "values", "(">>[i]
  /\ \A v \in 1 .. n : /\ query[4 + 2 * v] \in Literals \cup Names
                       /\ query[5 + 2 * v] = IF v = n THEN ")" ELSE ","

\* No column takes fewer than three words.
CreateUnderstood ==
  query[1] = "create" /\ out # "run" =>
    \A cols \in BoundedSeq(Datatypes, Len(query) \div 3) \ {<< >>} :
      LET at == ColumnAt(cols)
      IN  IsCreate(cols, at) =>
            /\ out = "ok"
            /\ ChildsOf(1) = <<2, 3>>
            /\ Items = <<1>> \o [c \in 1 .. Len(cols) |-> at[c]]
            /\ \A c \in 1 .. Len(cols) :
                 ChildsOf(at[c]) = IF cols[c] = "char" THEN <<at[c] + 1, at[c] + 3>>
                                   ELSE <<at[c] + 1>>

InsertUnderstood ==
  out # "run" =>
    \A n \in 1 .. Len(query) :
      IsInsert(n) =>
        /\ out = "ok"
        /\ ChildsOf(1) = <<2>> /\ ChildsOf(2) = <<3>>
        /\ Items = <<1>> \o [v \in 1 .. n |-> 4 + 2 * v]
        /\ \A v \in 1 .. n : ChildsOf(4 + 2 * v) = << >>

\* The sentences of the grammar are accepted, and the compiler is given one
\* item for each column, with its datatype and its size under it, or each value.
SentencesUnderstood == CreateUnderstood /\ InsertUnderstood

\* "char(8), cursor to RPAREN" (parse.c:566): the token after the size of a
\* char column is the closing parenthesis.
CharSizeClosed ==
  \A node \in CharColumns : query[node.childs[2] + 1] = ")"
=============================================================================
