---------------------------- MODULE ParserProofs ----------------------------
(***************************************************************************)
(* The parser, proved for every query: it stays in the query but for one   *)
(* place, a query it accepts is in its tree, whole and in order, and the   *)
(* sentences of the grammar are accepted and handed over item by item.     *)
(*                                                                         *)
(* A call of a Pratt parser that ends well has a tree of the tokens it has *)
(* read: Grown.  That is shown of one turn of the loop, of all turns, and  *)
(* of calls nested in each other as deep as may be; and then kept by what  *)
(* parse() hangs under its root.                                           *)
(***************************************************************************)
EXTENDS Parser, TLAPS, SequenceTheorems, WellFoundedInduction

-----------------------------------------------------------------------------
(* Induction.                                                              *)

LEMMA LeastNumber ==
  ASSUME NEW T \in SUBSET Nat, T # {}
  PROVE  \E x \in T : \A y \in T : x <= y
<1> DEFINE R == {ss \in Nat \X Nat : ss[1] < ss[2]}
<1>1. R = OpToRel(<, Nat)
  BY DEF OpToRel
<1>2. IsWellFoundedOn(R, Nat)
  BY <1>1, NatLessThanWellFounded
<1> HIDE DEF R
<1>3. PICK x \in T : \A y \in T : ~(<<y, x>> \in R)
  BY <1>2, WFMin
<1>4. ASSUME NEW y \in T PROVE x <= y
  <2>1. x \in Nat /\ y \in Nat
    OBVIOUS
  <2>2. ASSUME y < x PROVE <<y, x>> \in R
    <3>1. <<y, x>> \in Nat \X Nat /\ <<y, x>>[1] = y /\ <<y, x>>[2] = x
      BY <2>1
    <3> QED BY <2>2, <3>1 DEF R
  <2>3. ~(y < x)
    BY <1>3, <2>2
  <2> QED BY <2>1, <2>3
<1> QED BY <1>4

\* A set of numbers with 0 and with the successor of each has every number.
LEMMA Induction ==
  ASSUME NEW S \in SUBSET Nat, 0 \in S, \A n \in S : n + 1 \in S
  PROVE  S = Nat
<1>1. SUFFICES ASSUME Nat \ S # {} PROVE FALSE
  OBVIOUS
<1>2. PICK x \in Nat \ S : \A y \in Nat \ S : x <= y
  BY <1>1, LeastNumber
<1>3. x - 1 \in Nat /\ x # 0
  BY <1>2
<1>4. x - 1 \in S
  BY <1>2, <1>3
<1>5. x \in S
  BY <1>3, <1>4
<1> QED BY <1>2, <1>5

-----------------------------------------------------------------------------
(* Words.                                                                  *)

LEMMA WordFacts ==
  /\ "EOQ" \notin Expressions /\ "EOQ" \notin Handled /\ Text("EOQ") # "("
  /\ Operators \subseteq Expressions /\ Names \subseteq Expressions
  /\ Datatypes \subseteq Expressions
  /\ Names \cap Operators = {} /\ Handled \cap Expressions = {}
  /\ Handled \cap Names = {} /\ Handled \cap Operators = {}
  /\ "(" \in Operators /\ ")" \in Operators
BY DEF Expressions, Handled, Operators, Names, Datatypes, Literals, Text

LEMMA FollowsFacts == ASSUME NEW kind PROVE Follows(kind) \subseteq Operators
BY DEF Follows, Operators

LEMMA PowerFacts ==
  ASSUME NEW t
  PROVE  Lhs(t) \in 0 .. 7 /\ Rhs(t) \in 0 .. 8
<1>1. Lhs(t) \in 0 .. 7
  BY DEF Lhs
<1>2. CASE t \in {"=", "<>"}
  BY <1>1, <1>2 DEF Rhs
<1>3. CASE t \notin {"=", "<>"}
  BY <1>1, <1>3 DEF Rhs
<1> QED BY <1>1, <1>2, <1>3

\* A query, its length and its end.
LEMMA QueryFacts ==
  ASSUME IsQuery(query)
  PROVE  /\ Len(query) \in Nat /\ Len(query) >= 1
         /\ \A i \in 1 .. Len(query) : query[i] # "EOQ" => i < Len(query)
         /\ query[Len(query)] = "EOQ"
<1>1. /\ Len(query) \in Nat \ {0}
      /\ \A i \in 1 .. Len(query) : query[i] = "EOQ" <=> i = Len(query)
  BY DEF IsQuery
<1>2. Len(query) \in 1 .. Len(query)
  BY <1>1
<1> QED BY <1>1, <1>2

\* Looking at a token of the query does not crash, at EOQ either.
LEMMA LookFacts ==
  ASSUME IsQuery(query), NEW i \in Nat
  PROVE  /\ Look(i) \in {"ok", "exit", "crash"}
         /\ Look(i) = "crash" <=> i > Len(query)
<1>1. Len(query) \in Nat
  BY QueryFacts
<1> QED BY <1>1 DEF Look

LEMMA ExpectFacts ==
  ASSUME IsQuery(query), NEW i \in Nat, NEW S
  PROVE  /\ Expect(i, S) \in {"ok", "error", "exit", "crash"}
         /\ Expect(i, S) = "crash" <=> i > Len(query)
         /\ Expect(i, S) = "ok" => i <= Len(query) /\ query[i] \in S
<1>1. Len(query) \in Nat
  BY QueryFacts
<1>2. /\ Look(i) \in {"ok", "exit", "crash"}
      /\ Look(i) = "crash" <=> i > Len(query)
  BY LookFacts
<1>3. Look(i) = "ok" => i <= Len(query)
  BY <1>1 DEF Look
<1> QED BY <1>2, <1>3 DEF Expect

-----------------------------------------------------------------------------
(* Trees.                                                                  *)

Toks(N) == {x.tok : x \in N}
Kids(N) == UNION {Range(x.childs) : x \in N}

\* No node in S has children outside of it.
Closed(N, S) == \A x \in N : x.tok \in S => Range(x.childs) \subseteq S

\* The places a node's children and what is below them are among, S[c] for
\* child c, are in the order of Parts.
Apart(x, S) ==
  /\ \A c \in DOMAIN x.childs :
       IF IsInfix(x) /\ c = 1 THEN Before(S[c], {x.tok}) ELSE Before({x.tok}, S[c])
  /\ \A c, d \in DOMAIN x.childs : c < d => Before(S[c], S[d])

Placed(N, R, x) ==
  \E S : /\ \A c \in DOMAIN x.childs :
              x.childs[c] \in S[c] /\ S[c] \subseteq R /\ Closed(N, S[c])
         /\ Apart(x, S)

\* Nodes of tokens in R, one to a token, in order.
Neat(N, R) ==
  /\ \A x \in N : x.tok \in R /\ x.childs \in Seq(R)
  /\ \A x, y \in N : x.tok = y.tok => x = y
  /\ \A x \in N : Placed(N, R, x)

SteppedBy(N) ==
  UNION {{x.childs[2] - 1, x.childs[2] + 1} :
           x \in {y \in N : query[y.tok] \in Names /\ Len(y.childs) = 2}}

\* No token in R is lost.
Covers(N, R) ==
  \A i \in R : i \in Toks(N) \cup SteppedBy(N) \/ query[i] \in {"(", ")"}

Grown(T, R) ==
  /\ Neat(T.nodes, R)
  /\ Toks(T.nodes) = {T.head} \cup Kids(T.nodes)
  /\ Covers(T.nodes, R)

LEMMA ToksFacts ==
  ASSUME NEW M, NEW N
  PROVE  /\ Toks(M \cup N) = Toks(M) \cup Toks(N)
         /\ Kids(M \cup N) = Kids(M) \cup Kids(N)
         /\ SteppedBy(M \cup N) = SteppedBy(M) \cup SteppedBy(N)
         /\ M \subseteq N => /\ Toks(M) \subseteq Toks(N)
                             /\ SteppedBy(M) \subseteq SteppedBy(N)
BY DEF Toks, Kids, SteppedBy

LEMMA CoversMore ==
  ASSUME NEW M, NEW N, M \subseteq N, NEW R, Covers(M, R)
  PROVE  Covers(N, R)
<1>1. Toks(M) \subseteq Toks(N) /\ SteppedBy(M) \subseteq SteppedBy(N)
  BY ToksFacts
<1> QED BY <1>1 DEF Covers

\* What is in a larger place is placed, with nothing more in it.
LEMMA PlacedOn ==
  ASSUME NEW M, NEW N, NEW R, NEW Q, M \subseteq N, R \subseteq Q,
         \A x \in N : x.tok \in R => x \in M,
         NEW x \in M, Placed(M, R, x)
  PROVE  Placed(N, Q, x)
<1>1. PICK S : /\ \A c \in DOMAIN x.childs :
                    x.childs[c] \in S[c] /\ S[c] \subseteq R /\ Closed(M, S[c])
               /\ Apart(x, S)
  BY DEF Placed
<1>2. ASSUME NEW c \in DOMAIN x.childs
      PROVE  x.childs[c] \in S[c] /\ S[c] \subseteq Q /\ Closed(N, S[c])
  <2>1. S[c] \subseteq R
    BY <1>1
  <2>2. ASSUME NEW y \in N, y.tok \in S[c] PROVE Range(y.childs) \subseteq S[c]
    <3>1. y \in M
      BY <2>1, <2>2
    <3> QED BY <1>1, <2>2, <3>1 DEF Closed
  <2> QED BY <1>1, <2>1, <2>2 DEF Closed
<1> QED BY <1>1, <1>2 DEF Placed

LEMMA SeqOn ==
  ASSUME NEW R, NEW Q, R \subseteq Q, NEW s \in Seq(R)
  PROVE  s \in Seq(Q)
OBVIOUS

\* Two sets of nodes that have no place in common.
LEMMA NeatUnion ==
  ASSUME NEW M, NEW N, NEW R, NEW Q, Neat(M, R), Neat(N, Q), R \cap Q = {}
  PROVE  Neat(M \cup N, R \cup Q)
<1>1. /\ \A x \in M : x.tok \in R /\ x.childs \in Seq(R)
      /\ \A x \in N : x.tok \in Q /\ x.childs \in Seq(Q)
      /\ \A x, y \in M : x.tok = y.tok => x = y
      /\ \A x, y \in N : x.tok = y.tok => x = y
      /\ \A x \in M : Placed(M, R, x)
      /\ \A x \in N : Placed(N, Q, x)
  BY DEF Neat
<1>2. ASSUME NEW x \in M \cup N
      PROVE  x.tok \in R \cup Q /\ x.childs \in Seq(R \cup Q) /\ Placed(M \cup N, R \cup Q, x)
  <2>1. CASE x \in M
    <3>1. \A y \in M \cup N : y.tok \in R => y \in M
      BY <1>1
    <3>2. Placed(M \cup N, R \cup Q, x)
      BY <1>1, <2>1, <3>1, PlacedOn
    <3>3. x.childs \in Seq(R \cup Q)
      BY <1>1, <2>1, SeqOn
    <3> QED BY <1>1, <2>1, <3>2, <3>3
  <2>2. CASE x \in N
    <3>1. \A y \in M \cup N : y.tok \in Q => y \in N
      BY <1>1
    <3>2. Placed(M \cup N, R \cup Q, x)
      BY <1>1, <2>2, <3>1, PlacedOn
    <3>3. x.childs \in Seq(R \cup Q)
      BY <1>1, <2>2, SeqOn
    <3> QED BY <1>1, <2>2, <3>2, <3>3
  <2> QED BY <2>1, <2>2
<1>3. \A x, y \in M \cup N : x.tok = y.tok => x = y
  BY <1>1
<1> QED BY <1>2, <1>3 DEF Neat

LEMMA NeatOn ==
  ASSUME NEW N, NEW R, NEW Q, R \subseteq Q, Neat(N, R)
  PROVE  Neat(N, Q)
<1>1. \A x \in N : x.tok \in R /\ x.childs \in Seq(R) /\ Placed(N, R, x)
  BY DEF Neat
<1>2. ASSUME NEW x \in N
      PROVE  x.tok \in Q /\ x.childs \in Seq(Q) /\ Placed(N, Q, x)
  <2>1. Placed(N, Q, x)
    BY <1>1, PlacedOn
  <2> QED BY <1>1, <2>1, SeqOn
<1>3. \A x, y \in N : x.tok = y.tok => x = y
  BY DEF Neat
<1> QED BY <1>2, <1>3 DEF Neat

\* Tokens around a tree's that are parentheses or stepped over.
LEMMA GrownOn ==
  ASSUME NEW T, NEW R, NEW Q, R \subseteq Q, Grown(T, R),
         \A i \in Q \ R : query[i] \in {"(", ")"} \/ i \in SteppedBy(T.nodes)
  PROVE  Grown(T, Q)
<1>1. Neat(T.nodes, Q)
  BY NeatOn DEF Grown
<1>2. Covers(T.nodes, Q)
  BY DEF Grown, Covers
<1> QED BY <1>1, <1>2 DEF Grown

\* A head of a tree and trees below it, each in a place of its own.
Beside(i, k, R) ==
  /\ \A c \in 1 .. k : R[c] \subseteq Nat
  /\ \A c \in 1 .. k : IF query[i] \in Operators /\ k = 2 /\ c = 1
                       THEN Before(R[c], {i}) ELSE Before({i}, R[c])
  /\ \A c, d \in 1 .. k : c < d => Before(R[c], R[d])

All(k, R) == UNION {R[c] : c \in 1 .. k}

LEMMA TreeGrows ==
  ASSUME NEW i \in Nat, NEW k \in Nat, NEW below, DOMAIN below = 1 .. k,
         NEW R, \A c \in 1 .. k : Grown(below[c], R[c]), Beside(i, k, R)
  PROVE  Grown(Tree(i, below), {i} \cup All(k, R))
<1> DEFINE T == Tree(i, below)
           x == Node(i, [c \in 1 .. k |-> below[c].head])
           Q == {i} \cup UNION {R[c] : c \in 1 .. k}
<1>1. /\ T.head = i
      /\ T.nodes = {x} \cup UNION {below[c].nodes : c \in 1 .. k}
      /\ x.tok = i /\ x.childs = [c \in 1 .. k |-> below[c].head]
  <2>1. T.head = i
    BY DEF Tree
  <2>2. x.tok = i /\ x.childs = [c \in 1 .. k |-> below[c].head]
    BY DEF Node
  <2>3. T.nodes = {Node(i, [c \in 1 .. k |-> below[c].head])}
                    \cup UNION {below[c].nodes : c \in 1 .. k}
    BY DEF Tree
  <2> QED BY <2>1, <2>2, <2>3
<1> HIDE DEF T, x
<1>2. ASSUME NEW c \in 1 .. k
      PROVE  /\ Neat(below[c].nodes, R[c])
             /\ Toks(below[c].nodes) = {below[c].head} \cup Kids(below[c].nodes)
             /\ Covers(below[c].nodes, R[c])
             /\ \A y \in below[c].nodes : /\ y.tok \in R[c] /\ y.childs \in Seq(R[c])
                                          /\ Placed(below[c].nodes, R[c], y)
             /\ \A y, z \in below[c].nodes : y.tok = z.tok => y = z
  BY DEF Grown, Neat
<1>3. \A c \in 1 .. k : i \notin R[c]
  BY DEF Beside, Before
<1>4. \A c, d \in 1 .. k : c # d => R[c] \cap R[d] = {}
  <2>1. ASSUME NEW c \in 1 .. k, NEW d \in 1 .. k, c < d PROVE R[c] \cap R[d] = {}
    BY <2>1 DEF Beside, Before
  <2>2. \A c, d \in 1 .. k : c # d => c < d \/ d < c
    OBVIOUS
  <2> QED BY <2>1, <2>2
<1>5. ASSUME NEW c \in 1 .. k, NEW y \in T.nodes, y.tok \in R[c]
      PROVE  y \in below[c].nodes
  <2>1. y # x
    BY <1>1, <1>3, <1>5
  <2>2. PICK d \in 1 .. k : y \in below[d].nodes
    BY <1>1, <2>1
  <2>3. y.tok \in R[d]
    BY <1>2, <2>2
  <2> QED BY <1>4, <1>5, <2>2, <2>3
<1>6. \A c \in 1 .. k : below[c].head \in R[c] /\ R[c] \subseteq Q
  <2>1. ASSUME NEW c \in 1 .. k PROVE below[c].head \in R[c]
    <3>1. below[c].head \in Toks(below[c].nodes)
      BY <1>2
    <3> QED BY <1>2, <3>1 DEF Toks
  <2> QED BY <2>1
<1>7. Placed(T.nodes, Q, x)
  <2>1. ASSUME NEW c \in 1 .. k PROVE Closed(T.nodes, R[c])
    <3>1. ASSUME NEW y \in T.nodes, y.tok \in R[c] PROVE Range(y.childs) \subseteq R[c]
      <4>1. y.childs \in Seq(R[c])
        BY <1>2, <1>5, <3>1
      <4> QED BY <4>1 DEF Range
    <3> QED BY <3>1 DEF Closed
  <2>2. DOMAIN x.childs = 1 .. k /\ Len(x.childs) = k
    BY <1>1
  <2>3. Apart(x, R)
    <3>1. IsInfix(x) <=> query[i] \in Operators /\ k = 2
      BY <1>1, <2>2 DEF IsInfix
    <3> QED BY <1>1, <2>2, <3>1 DEF Apart, Beside
  <2>4. \A c \in 1 .. k : x.childs[c] \in R[c]
    BY <1>1, <1>6
  <2> QED BY <1>6, <2>1, <2>2, <2>3, <2>4 DEF Placed
<1>8. x.tok \in Q /\ x.childs \in Seq(Q)
  <2>1. \A c \in 1 .. k : below[c].head \in Q
    BY <1>6
  <2> HIDE DEF Q
  <2>2. x.childs \in Seq(Q)
    BY <1>1, <2>1
  <2> QED BY <1>1, <2>2 DEF Q
<1>9. ASSUME NEW c \in 1 .. k, NEW y \in below[c].nodes
      PROVE  y.tok \in Q /\ y.childs \in Seq(Q) /\ Placed(T.nodes, Q, y)
  <2>1. \A z \in T.nodes : z.tok \in R[c] => z \in below[c].nodes
    BY <1>5
  <2>2. below[c].nodes \subseteq T.nodes
    BY <1>1
  <2>3. Placed(T.nodes, Q, y)
    BY <1>2, <1>6, <2>1, <2>2, PlacedOn
  <2>4. y.childs \in Seq(Q)
    BY <1>2, <1>6, SeqOn
  <2> QED BY <1>2, <1>6, <2>3, <2>4
<1>10. ASSUME NEW y \in T.nodes, NEW z \in T.nodes, y.tok = z.tok PROVE y = z
  <2>1. CASE y = x /\ z = x
    BY <2>1
  <2>2. CASE y # x
    <3>1. PICK c \in 1 .. k : y \in below[c].nodes
      BY <1>1, <2>2
    <3>2. y.tok \in R[c]
      BY <1>2, <3>1
    <3>3. z \in below[c].nodes
      BY <1>5, <1>10, <3>2
    <3> QED BY <1>2, <1>10, <3>1, <3>3
  <2>3. CASE z # x
    <3>1. PICK c \in 1 .. k : z \in below[c].nodes
      BY <1>1, <2>3
    <3>2. z.tok \in R[c]
      BY <1>2, <3>1
    <3>3. y \in below[c].nodes
      BY <1>5, <1>10, <3>2
    <3> QED BY <1>2, <1>10, <3>1, <3>3
  <2> QED BY <2>1, <2>2, <2>3
<1>11. Neat(T.nodes, Q)
  <2>1. ASSUME NEW y \in T.nodes
        PROVE  y.tok \in Q /\ y.childs \in Seq(Q) /\ Placed(T.nodes, Q, y)
    <3>1. y = x \/ \E c \in 1 .. k : y \in below[c].nodes
      BY <1>1
    <3> HIDE DEF Q
    <3> QED BY <1>7, <1>8, <1>9, <3>1
  <2> HIDE DEF Q
  <2> QED BY <1>10, <2>1 DEF Neat
<1>12. Toks(T.nodes) = {i} \cup UNION {Toks(below[c].nodes) : c \in 1 .. k}
  BY <1>1 DEF Toks
<1>13. Kids(T.nodes) = {below[c].head : c \in 1 .. k}
                         \cup UNION {Kids(below[c].nodes) : c \in 1 .. k}
  <2>1. Range(x.childs) = {below[c].head : c \in 1 .. k}
    BY <1>1 DEF Range
  <2>2. Kids(T.nodes) = Range(x.childs) \cup UNION {Kids(below[c].nodes) : c \in 1 .. k}
    BY <1>1 DEF Kids
  <2> QED BY <2>1, <2>2
<1>14. Toks(T.nodes) = {T.head} \cup Kids(T.nodes)
  <2>1. \A c \in 1 .. k :
          Toks(below[c].nodes) = {below[c].head} \cup Kids(below[c].nodes)
    BY <1>2
  <2>2. UNION {Toks(below[c].nodes) : c \in 1 .. k}
          = {below[c].head : c \in 1 .. k} \cup UNION {Kids(below[c].nodes) : c \in 1 .. k}
    <3>1. ASSUME NEW e
          PROVE  (\E c \in 1 .. k : e \in Toks(below[c].nodes))
                   <=> \E c \in 1 .. k : e = below[c].head \/ e \in Kids(below[c].nodes)
      BY <2>1
    <3> QED BY <3>1
  <2> QED BY <1>1, <1>12, <1>13, <2>2
<1>15. Covers(T.nodes, Q)
  <2>1. ASSUME NEW c \in 1 .. k PROVE Covers(T.nodes, R[c])
    <3>1. below[c].nodes \subseteq T.nodes
      BY <1>1
    <3> QED BY <1>2, <3>1, CoversMore
  <2>2. i \in Toks(T.nodes)
    BY <1>12
  <2> QED BY <2>1, <2>2 DEF Covers
<1>16. Grown(T, Q)
  BY <1>11, <1>14, <1>15 DEF Grown
<1> QED BY <1>16 DEF T, All

\* What the tree's tokens step over is what those of its parts do, unless its
\* head is the name of a column.
AllSteps(k, below) == UNION {SteppedBy(below[c].nodes) : c \in 1 .. k}

LEMMA TreeSteps ==
  ASSUME NEW i, NEW k \in Nat, NEW below, DOMAIN below = 1 .. k,
         query[i] \notin Names \/ k # 2
  PROVE  SteppedBy(Tree(i, below).nodes) = AllSteps(k, below)
<1> DEFINE x == Node(i, [c \in 1 .. k |-> below[c].head])
           N == UNION {below[c].nodes : c \in 1 .. k}
<1>1. Tree(i, below).nodes = {x} \cup N
  BY DEF Tree
<1>2. SteppedBy({x}) = {}
  <2>1. x.tok = i /\ Len(x.childs) = k
    BY DEF Node
  <2> HIDE DEF x
  <2> QED BY <2>1 DEF SteppedBy
<1>3. SteppedBy({x} \cup N) = SteppedBy({x}) \cup SteppedBy(N)
  <2> HIDE DEF x, N
  <2> QED BY ToksFacts
<1>4. SteppedBy(N) = UNION {SteppedBy(below[c].nodes) : c \in 1 .. k}
  BY DEF SteppedBy
<1> QED BY <1>1, <1>2, <1>3, <1>4 DEF AllSteps

\* The trees the parser makes: with nothing below, with one part behind the
\* head, with two behind it, and with one part on each side.
LEMMA LeafGrown ==
  ASSUME NEW i \in Nat
  PROVE  /\ Grown(Leaf(i), {i}) /\ SteppedBy(Leaf(i).nodes) = {}
         /\ Leaf(i).head = i /\ Leaf(i).nodes = {Node(i, << >>)}
<1> DEFINE R == << >>
<1>1. DOMAIN << >> = 1 .. 0 /\ Beside(i, 0, R)
  BY DEF Beside
<1>2. Grown(Tree(i, << >>), {i} \cup All(0, R))
  <2> HIDE DEF R
  <2>1. \A c \in 1 .. 0 : FALSE
    OBVIOUS
  <2> QED BY <1>1, <2>1, TreeGrows
<1>3. SteppedBy(Tree(i, << >>).nodes) = AllSteps(0, << >>)
  <2>1. query[i] \notin Names \/ 0 # 2
    OBVIOUS
  <2>2. 0 \in Nat
    OBVIOUS
  <2> QED BY ONLY <1>1, <2>1, <2>2, TreeSteps
<1>4. {i} \cup All(0, R) = {i}
  BY DEF All
<1>5. AllSteps(0, << >>) = {}
  BY DEF AllSteps
<1>6. Leaf(i).head = i
  BY DEF Leaf, Tree
<1>7. Leaf(i).nodes = {Node(i, << >>)}
  BY DEF Leaf, Tree
<1> QED BY <1>2, <1>3, <1>4, <1>5, <1>6, <1>7 DEF Leaf

LEMMA OneBelow ==
  ASSUME NEW i \in Nat, NEW T, NEW R \in SUBSET Nat, Grown(T, R), Before({i}, R)
  PROVE  /\ Grown(Tree(i, <<T>>), {i} \cup R)
         /\ SteppedBy(Tree(i, <<T>>).nodes) = SteppedBy(T.nodes)
<1> DEFINE below == <<T>>
           P == <<R>>
<1>1. DOMAIN below = 1 .. 1 /\ below[1] = T /\ P[1] = R /\ \A c \in 1 .. 1 : c = 1
  OBVIOUS
<1> HIDE DEF below, P
<1>2. Beside(i, 1, P)
  BY <1>1 DEF Beside
<1>3. Grown(Tree(i, below), {i} \cup All(1, P))
  <2>1. \A c \in 1 .. 1 : Grown(below[c], P[c])
    BY <1>1
  <2> QED BY <1>1, <1>2, <2>1, TreeGrows
<1>4. All(1, P) = R
  BY <1>1 DEF All
<1>5. SteppedBy(Tree(i, below).nodes) = AllSteps(1, below)
  <2>1. query[i] \notin Names \/ 1 # 2
    OBVIOUS
  <2>2. 1 \in Nat
    OBVIOUS
  <2> QED BY ONLY <1>1, <2>1, <2>2, TreeSteps
<1>6. AllSteps(1, below) = SteppedBy(T.nodes)
  BY <1>1 DEF AllSteps
<1> QED BY <1>3, <1>4, <1>5, <1>6 DEF below

Sides(i, R, Q) ==
  /\ R \subseteq Nat /\ Q \subseteq Nat /\ Before(R, Q) /\ Before({i}, Q)
  /\ IF query[i] \in Operators THEN Before(R, {i}) ELSE Before({i}, R)

LEMMA TwoBelow ==
  ASSUME NEW i \in Nat, NEW T, NEW U, NEW R, NEW Q,
         Grown(T, R), Grown(U, Q), Sides(i, R, Q)
  PROVE  Grown(Tree(i, <<T, U>>), {i} \cup R \cup Q)
<1> DEFINE below == <<T, U>>
           P == <<R, Q>>
<1>1. /\ DOMAIN below = 1 .. 2 /\ below[1] = T /\ below[2] = U
      /\ P[1] = R /\ P[2] = Q /\ \A c \in 1 .. 2 : c = 1 \/ c = 2
  OBVIOUS
<1> HIDE DEF below, P
<1>2. Beside(i, 2, P)
  <2>1. \A c \in 1 .. 2 : P[c] \subseteq Nat
    BY <1>1 DEF Sides
  <2>2. ASSUME NEW c \in 1 .. 2
        PROVE  IF query[i] \in Operators /\ 2 = 2 /\ c = 1
               THEN Before(P[c], {i}) ELSE Before({i}, P[c])
    <3>1. CASE c = 1
      BY <1>1, <3>1 DEF Sides
    <3>2. CASE c = 2
      BY <1>1, <3>2 DEF Sides
    <3> QED BY <1>1, <3>1, <3>2
  <2>3. ASSUME NEW c \in 1 .. 2, NEW d \in 1 .. 2, c < d PROVE Before(P[c], P[d])
    <3>1. c = 1 /\ d = 2
      BY <2>3
    <3> QED BY <1>1, <3>1 DEF Sides
  <2> QED BY <2>1, <2>2, <2>3 DEF Beside
<1>3. Grown(Tree(i, below), {i} \cup All(2, P))
  <2>1. \A c \in 1 .. 2 : Grown(below[c], P[c])
    BY <1>1
  <2> QED BY <1>1, <1>2, <2>1, TreeGrows
<1>4. All(2, P) = R \cup Q
  BY <1>1 DEF All
<1>5. {i} \cup (R \cup Q) = {i} \cup R \cup Q
  OBVIOUS
<1> QED BY <1>3, <1>4, <1>5 DEF below

LEMMA TwoSteps ==
  ASSUME NEW i, NEW T, NEW U, query[i] \notin Names
  PROVE  SteppedBy(Tree(i, <<T, U>>).nodes) = SteppedBy(T.nodes) \cup SteppedBy(U.nodes)
<1> DEFINE below == <<T, U>>
<1>1. DOMAIN below = 1 .. 2 /\ below[1] = T /\ below[2] = U
  OBVIOUS
<1> HIDE DEF below
<1>2. SteppedBy(Tree(i, below).nodes) = AllSteps(2, below)
  BY <1>1, TreeSteps
<1>3. AllSteps(2, below) = SteppedBy(T.nodes) \cup SteppedBy(U.nodes)
  BY <1>1 DEF AllSteps
<1> QED BY <1>2, <1>3 DEF below

-----------------------------------------------------------------------------
(* The loop and the nesting, turn by turn and level by level.              *)

Turns(kind, call, i, min_bp) ==
  LET lhs[n \in 0 .. Len(query)] ==
        IF n = 0 THEN Start(kind, call, i) ELSE Infix(kind, call, lhs[n - 1], min_bp)
  IN  lhs

LEMMA TurnsFacts ==
  ASSUME Len(query) \in Nat, NEW kind, NEW call, NEW i, NEW min_bp
  PROVE  LET lhs == Turns(kind, call, i, min_bp)
         IN  /\ lhs[0] = Start(kind, call, i)
             /\ \A n \in 1 .. Len(query) : lhs[n] = Infix(kind, call, lhs[n - 1], min_bp)
             /\ Expr(kind, call, i, min_bp) = lhs[Len(query)]
<1> DEFINE Fits(s, m) == /\ s = [n \in 0 .. m |-> s[n]] /\ s[0] = Start(kind, call, i)
                         /\ \A n \in 1 .. m : s[n] = Infix(kind, call, s[n - 1], min_bp)
           P == {m \in Nat : \E s : Fits(s, m)}
<1>1. 0 \in P
  <2> DEFINE s == [n \in 0 .. 0 |-> Start(kind, call, i)]
  <2>1. Fits(s, 0)
    OBVIOUS
  <2> QED BY <2>1
<1>2. ASSUME NEW m \in P PROVE m + 1 \in P
  <2>1. PICK s : Fits(s, m)
    OBVIOUS
  <2> DEFINE x == Infix(kind, call, s[m], min_bp)
             t == [n \in 0 .. m + 1 |-> IF n = m + 1 THEN x ELSE s[n]]
  <2>2. t = [n \in 0 .. m + 1 |-> t[n]] /\ t[0] = s[0]
    OBVIOUS
  <2>3. ASSUME NEW n \in 1 .. m + 1 PROVE t[n] = Infix(kind, call, t[n - 1], min_bp)
    <3>1. CASE n = m + 1
      <4>1. n - 1 = m /\ n - 1 \in 0 .. m + 1 /\ n - 1 # m + 1 /\ n \in 0 .. m + 1
        BY <3>1
      <4>2. t[n] = x /\ t[n - 1] = s[m]
        BY <3>1, <4>1
      <4> HIDE DEF t
      <4> QED BY <4>2 DEF x
    <3>2. CASE n # m + 1
      <4>1. n \in 1 .. m /\ n \in 0 .. m + 1 /\ n - 1 \in 0 .. m + 1 /\ n - 1 # m + 1
        BY <3>2
      <4>2. t[n] = s[n] /\ t[n - 1] = s[n - 1]
        BY <3>2, <4>1
      <4> HIDE DEF t
      <4> QED BY <2>1, <4>1, <4>2
    <3> QED BY <3>1, <3>2
  <2> HIDE DEF t
  <2>4. Fits(t, m + 1)
    BY <2>1, <2>2, <2>3
  <2> HIDE DEF Fits
  <2> QED BY <2>4
<1>3. P = Nat
  <2>1. P \in SUBSET Nat
    OBVIOUS
  <2> HIDE DEF P
  <2> QED BY <1>1, <1>2, <2>1, Induction
<1>4. PICK s : Fits(s, Len(query))
  <2>1. Len(query) \in P
    BY <1>3
  <2> HIDE DEF Fits
  <2> QED BY <2>1
<1>5. s = [n \in 0 .. Len(query) |->
             IF n = 0 THEN Start(kind, call, i) ELSE Infix(kind, call, s[n - 1], min_bp)]
  <2>1. ASSUME NEW n \in 0 .. Len(query)
        PROVE  s[n] = IF n = 0 THEN Start(kind, call, i)
                      ELSE Infix(kind, call, s[n - 1], min_bp)
    <3>1. n = 0 \/ n \in 1 .. Len(query)
      OBVIOUS
    <3> QED BY <1>4, <3>1
  <2>2. s = [n \in 0 .. Len(query) |-> s[n]]
    BY <1>4
  <2> QED BY <2>1, <2>2
<1>6. \E t : t = [n \in 0 .. Len(query) |->
             IF n = 0 THEN Start(kind, call, i) ELSE Infix(kind, call, t[n - 1], min_bp)]
  BY <1>5
<1>7. Turns(kind, call, i, min_bp) = [n \in 0 .. Len(query) |->
             IF n = 0 THEN Start(kind, call, i)
             ELSE Infix(kind, call, Turns(kind, call, i, min_bp)[n - 1], min_bp)]
  BY <1>6 DEF Turns
<1> DEFINE lhs == Turns(kind, call, i, min_bp)
<1>8. Expr(kind, call, i, min_bp) = lhs[Len(query)]
  BY DEF Expr, Turns
<1> HIDE DEF lhs
<1>9. /\ lhs[0] = Start(kind, call, i)
      /\ \A n \in 1 .. Len(query) : lhs[n] = Infix(kind, call, lhs[n - 1], min_bp)
  <2>1. 0 \in 0 .. Len(query) /\ \A n \in 1 .. Len(query) : n \in 0 .. Len(query) /\ n # 0
    OBVIOUS
  <2> QED BY <1>7, <2>1 DEF lhs
<1> QED BY <1>8, <1>9 DEF lhs

Level(kind, n, calls) ==
  [i \in 1 .. Len(query) + 1 |-> [min_bp \in 0 .. 8 |->
     IF n = 0 THEN Stop("deep") ELSE Expr(kind, calls[n - 1], i, min_bp)]]

LEMMA NestedFacts ==
  ASSUME Len(query) \in Nat, NEW kind
  PROVE  /\ \A i \in 1 .. Len(query) + 1, min_bp \in 0 .. 8 :
              Nested(kind)[0][i][min_bp] = Stop("deep")
         /\ \A n \in 1 .. Len(query) + 1, i \in 1 .. Len(query) + 1, min_bp \in 0 .. 8 :
              Nested(kind)[n][i][min_bp] = Expr(kind, Nested(kind)[n - 1], i, min_bp)
<1> DEFINE Fits(s, m) == s = [n \in 0 .. m |-> s[n]] /\ \A n \in 0 .. m : s[n] = Level(kind, n, s)
           P == {m \in Nat : \E s : Fits(s, m)}
           top == Len(query) + 1
<1>1. 0 \in P
  <2> DEFINE s == [n \in 0 .. 0 |-> Level(kind, 0, << >>)]
  <2>1. s = [n \in 0 .. 0 |-> s[n]] /\ s[0] = Level(kind, 0, << >>)
    OBVIOUS
  <2>2. Level(kind, 0, << >>) = Level(kind, 0, s)
    BY DEF Level
  <2> HIDE DEF s
  <2>3. Fits(s, 0)
    BY <2>1, <2>2
  <2> QED BY <2>3
<1>2. ASSUME NEW m \in P PROVE m + 1 \in P
  <2>1. PICK s : Fits(s, m)
    OBVIOUS
  <2> DEFINE x == Level(kind, m + 1, s)
             t == [n \in 0 .. m + 1 |-> IF n = m + 1 THEN x ELSE s[n]]
  <2>2. t = [n \in 0 .. m + 1 |-> t[n]] /\ t[m + 1] = x /\ \A n \in 0 .. m : t[n] = s[n]
    <3> HIDE DEF x
    <3> QED OBVIOUS
  <2>3. ASSUME NEW n \in 0 .. m + 1 PROVE t[n] = Level(kind, n, t)
    <3>1. CASE n = 0
      <4>1. t[0] = s[0] /\ s[0] = Level(kind, 0, s)
        BY <2>1, <2>2
      <4>2. Level(kind, 0, s) = Level(kind, 0, t)
        <5> HIDE DEF t
        <5> QED BY DEF Level
      <4> QED BY <3>1, <4>1, <4>2
    <3>2. CASE n # 0
      <4>1. n - 1 \in 0 .. m
        BY <3>2
      <4>2. t[n - 1] = s[n - 1]
        BY <2>2, <4>1
      <4>3. Level(kind, n, s) = Level(kind, n, t)
        <5> HIDE DEF t
        <5> QED BY <3>2, <4>2 DEF Level
      <4>4. t[n] = Level(kind, n, s)
        <5>1. n = m + 1 \/ n \in 0 .. m
          OBVIOUS
        <5> HIDE DEF t
        <5> QED BY <2>1, <2>2, <5>1 DEF x
      <4> QED BY <4>3, <4>4
    <3> QED BY <3>1, <3>2
  <2> HIDE DEF t
  <2>4. Fits(t, m + 1)
    BY <2>2, <2>3
  <2> HIDE DEF Fits
  <2> QED BY <2>4
<1>3. P = Nat
  <2>1. P \in SUBSET Nat
    OBVIOUS
  <2> HIDE DEF P
  <2> QED BY <1>1, <1>2, <2>1, Induction
<1>4. PICK s : Fits(s, top)
  <2>1. top \in P
    BY <1>3
  <2> HIDE DEF Fits
  <2> QED BY <2>1
<1>5. s = [n \in 0 .. top |-> Level(kind, n, s)]
  BY <1>4
<1>6. \E t : t = [n \in 0 .. top |-> Level(kind, n, t)]
  BY <1>5
<1>7. Nested(kind) = [n \in 0 .. top |-> Level(kind, n, Nested(kind))]
  BY <1>6 DEF Nested, Level
<1> DEFINE calls == Nested(kind)
<1> HIDE DEF calls
<1>8. \A n \in 0 .. top : calls[n] = Level(kind, n, calls)
  BY <1>7 DEF calls
<1>9. ASSUME NEW n \in 0 .. top, NEW i \in 1 .. Len(query) + 1, NEW min_bp \in 0 .. 8
      PROVE  calls[n][i][min_bp] = IF n = 0 THEN Stop("deep")
                                   ELSE Expr(kind, calls[n - 1], i, min_bp)
  <2>1. calls[n] = Level(kind, n, calls)
    BY <1>8
  <2>2. Level(kind, n, calls)[i][min_bp] = IF n = 0 THEN Stop("deep")
                                           ELSE Expr(kind, calls[n - 1], i, min_bp)
    BY DEF Level
  <2> QED BY ONLY <2>1, <2>2
<1>10. 0 \in 0 .. top /\ \A n \in 1 .. top : n \in 0 .. top /\ n # 0
  OBVIOUS
<1> QED BY <1>9, <1>10 DEF calls

-----------------------------------------------------------------------------
(* Calls.                                                                  *)

\* The one place where the end of the query is missed.
AfterChar == Text(query[Len(query) - 1]) = "(" /\ query[Len(query) - 2] = "char"

\* What has been read from place i on, up to a last token that may be behind
\* the query's end where that is missed.
Reads(r, i) ==
  /\ r.i \in i .. Len(query) + 1
  /\ r.i = Len(query) + 1 => AfterChar
  /\ Grown(r.tree, i .. r.i)
  /\ SteppedBy(r.tree.nodes) \subseteq i .. r.i

Ended == {"error", "exit", "crash", "deep"}

SoundStop(r, i, n) ==
  /\ r.st \in Ended
  /\ r.st = "crash" => AfterChar
  /\ r.st = "deep" => i + n <= Len(query)

\* A call begun at i with at most n others nested in it.
SoundOperand(r, i, n) ==
  IF r.st = "ok" THEN Reads(r, i) ELSE SoundStop(r, i, n)

SoundCall(r, i, n) ==
  IF r.st = "ok" THEN r.i < Len(query) /\ query[r.i] \in Expressions /\ Reads(r, i)
  ELSE SoundStop(r, i, n)

Sound(call, n) ==
  \A i \in 1 .. Len(query), min_bp \in 0 .. 8 : SoundCall(call[i][min_bp], i, n)

LEMMA ResultFacts ==
  /\ \A st : Stop(st).st = st
  /\ \A tree, i : Done(tree, i).st = "ok" /\ Done(tree, i).tree = tree /\ Done(tree, i).i = i
BY DEF Stop, Done

\* A call that failed makes the one that called it fail.
LEMMA FailsOn ==
  ASSUME IsQuery(query), NEW n \in Nat, NEW i \in Nat, NEW j \in Nat, i < j, NEW r,
         SoundCall(r, j, n), r.st # "ok"
  PROVE  SoundStop(r, i, n + 1) /\ r.st # "ok"
<1>1. Len(query) \in Nat
  BY QueryFacts
<1> QED BY <1>1 DEF SoundCall, SoundStop

LEMMA StopSound ==
  ASSUME IsQuery(query), NEW st \in {"error", "exit"}, NEW i, NEW n
  PROVE  SoundStop(Stop(st), i, n) /\ Stop(st).st # "ok"
BY ResultFacts DEF SoundStop, Ended

\* A prefix operator.
LEMMA PrefixReads ==
  ASSUME IsQuery(query), NEW i \in 1 .. Len(query), NEW r, r.st = "ok",
         NEW n, SoundCall(r, i + 1, n)
  PROVE  Reads(Done(Tree(i, <<r.tree>>), r.i), i)
<1>1. /\ Len(query) \in Nat /\ r.i \in i + 1 .. Len(query) + 1
      /\ r.i < Len(query)
      /\ Grown(r.tree, i + 1 .. r.i) /\ SteppedBy(r.tree.nodes) \subseteq i + 1 .. r.i
  BY QueryFacts DEF SoundCall, Reads
<1>2. Before({i}, i + 1 .. r.i)
  BY DEF Before
<1>3. /\ Grown(Tree(i, <<r.tree>>), {i} \cup (i + 1 .. r.i))
      /\ SteppedBy(Tree(i, <<r.tree>>).nodes) = SteppedBy(r.tree.nodes)
  <2>1. i \in Nat /\ i + 1 .. r.i \in SUBSET Nat
    BY <1>1
  <2>2. PICK R \in SUBSET Nat : R = i + 1 .. r.i
    BY <2>1
  <2>3. Grown(r.tree, R) /\ Before({i}, R)
    BY <1>1, <1>2, <2>2
  <2>4. /\ Grown(Tree(i, <<r.tree>>), {i} \cup R)
        /\ SteppedBy(Tree(i, <<r.tree>>).nodes) = SteppedBy(r.tree.nodes)
    BY ONLY <2>1, <2>3, R \in SUBSET Nat, OneBelow
  <2> QED BY ONLY <2>2, <2>4
<1>4. {i} \cup (i + 1 .. r.i) = i .. r.i
  BY <1>1
<1>5. SteppedBy(Tree(i, <<r.tree>>).nodes) \subseteq i .. r.i
  BY <1>1, <1>3
<1>6. r.i \in i .. Len(query) + 1 /\ r.i # Len(query) + 1
  BY <1>1
<1> QED BY <1>3, <1>4, <1>5, <1>6, ResultFacts DEF Reads

\* A parenthesis.
LEMMA EnclosedReads ==
  ASSUME IsQuery(query), NEW i \in 1 .. Len(query), NEW r, r.st = "ok",
         NEW n, SoundCall(r, i + 1, n),
         query[i] = "(", query[r.i + 1] = ")"
  PROVE  Reads(Done(r.tree, r.i + 1), i)
<1>1. /\ Len(query) \in Nat /\ r.i \in i + 1 .. Len(query) + 1
      /\ r.i < Len(query)
      /\ Grown(r.tree, i + 1 .. r.i) /\ SteppedBy(r.tree.nodes) \subseteq i + 1 .. r.i
  BY QueryFacts DEF SoundCall, Reads
<1>2. /\ i + 1 .. r.i \subseteq i .. r.i + 1
      /\ \A p \in (i .. r.i + 1) \ (i + 1 .. r.i) : p = i \/ p = r.i + 1
  BY <1>1
<1>3. \A p \in (i .. r.i + 1) \ (i + 1 .. r.i) : query[p] \in {"(", ")"}
  BY <1>2
<1>4. Grown(r.tree, i .. r.i + 1)
  BY <1>1, <1>2, <1>3, GrownOn
<1>5. SteppedBy(r.tree.nodes) \subseteq i .. r.i + 1
  BY <1>1, <1>2
<1>6. r.i + 1 \in i .. Len(query) + 1 /\ r.i + 1 # Len(query) + 1
  BY <1>1
<1> QED BY <1>4, <1>5, <1>6, ResultFacts DEF Reads

\* A column.
LEMMA SizedTree ==
  ASSUME NEW i \in Nat, query[i] \in Names
  PROVE  LET T == Tree(i, <<Leaf(i + 1), Leaf(i + 3)>>)
         IN  Grown(T, i .. i + 4) /\ SteppedBy(T.nodes) = {i + 2, i + 4}
<1> DEFINE T == Tree(i, <<Leaf(i + 1), Leaf(i + 3)>>)
           x == Node(i, <<i + 1, i + 3>>)
           N == {Node(i + 1, << >>), Node(i + 3, << >>)}
<1>1. /\ Grown(Leaf(i + 1), {i + 1}) /\ Grown(Leaf(i + 3), {i + 3})
      /\ Leaf(i + 1).head = i + 1 /\ Leaf(i + 3).head = i + 3
      /\ Leaf(i + 1).nodes = {Node(i + 1, << >>)} /\ Leaf(i + 3).nodes = {Node(i + 3, << >>)}
  <2>1. i + 1 \in Nat /\ i + 3 \in Nat
    OBVIOUS
  <2> QED BY <2>1, LeafGrown
<1>2. query[i] \notin Operators
  BY WordFacts
<1>3. Grown(T, {i} \cup {i + 1} \cup {i + 3})
  <2>1. /\ Before({i + 1}, {i + 3}) /\ Before({i}, {i + 3}) /\ Before({i}, {i + 1})
    BY DEF Before
  <2>2. {i + 1} \in SUBSET Nat /\ {i + 3} \in SUBSET Nat
    OBVIOUS
  <2>3. PICK R \in SUBSET Nat, Q \in SUBSET Nat : R = {i + 1} /\ Q = {i + 3}
    BY <2>2
  <2>4. PICK U, V : U = Leaf(i + 1) /\ V = Leaf(i + 3)
    OBVIOUS
  <2>5. Sides(i, R, Q)
    BY <1>2, <2>1, <2>3 DEF Sides
  <2>6. Grown(Tree(i, <<U, V>>), {i} \cup R \cup Q)
    BY <1>1, <2>3, <2>4, <2>5, TwoBelow
  <2> QED BY <2>3, <2>4, <2>6
<1>4. T.nodes = {x} \cup N
  <2> DEFINE below == <<Leaf(i + 1), Leaf(i + 3)>>
  <2>1. DOMAIN below = {1, 2} /\ below[1] = Leaf(i + 1) /\ below[2] = Leaf(i + 3)
    OBVIOUS
  <2> HIDE DEF below
  <2>2. [c \in DOMAIN below |-> below[c].head] = <<i + 1, i + 3>>
    BY <1>1, <2>1
  <2>3. UNION {below[c].nodes : c \in DOMAIN below} = N
    BY <1>1, <2>1
  <2>4. Tree(i, below).nodes = {Node(i, [c \in DOMAIN below |-> below[c].head])}
                                 \cup UNION {below[c].nodes : c \in DOMAIN below}
    BY DEF Tree
  <2> QED BY <2>2, <2>3, <2>4 DEF below
<1>5. SteppedBy(T.nodes) = {i + 2, i + 4}
  <2>1. /\ x.tok = i /\ Len(x.childs) = 2 /\ x.childs[2] = i + 3
        /\ \A y \in N : Len(y.childs) = 0
    BY DEF Node
  <2> HIDE DEF x, N, T
  <2>2. {y \in T.nodes : query[y.tok] \in Names /\ Len(y.childs) = 2} = {x}
    BY <1>4, <2>1
  <2>3. (i + 3) - 1 = i + 2 /\ (i + 3) + 1 = i + 4
    OBVIOUS
  <2> QED BY <2>1, <2>2, <2>3 DEF SteppedBy
<1> HIDE DEF T
<1>6. Grown(T, i .. i + 4)
  <2>1. {i} \cup {i + 1} \cup {i + 3} \subseteq i .. i + 4
    OBVIOUS
  <2>2. \A p \in (i .. i + 4) \ ({i} \cup {i + 1} \cup {i + 3}) : p \in SteppedBy(T.nodes)
    BY <1>5
  <2> QED BY <1>3, <2>1, <2>2, GrownOn
<1> QED BY <1>5, <1>6 DEF T

LEMMA ColumnSound ==
  ASSUME IsQuery(query), NEW i \in 1 .. Len(query), query[i] \in Names, NEW n
  PROVE  SoundOperand(Column(i), i, n)
<1> DEFINE dtype == Expect(i + 1, Datatypes)
<1>1. Len(query) \in Nat /\ i < Len(query) /\ i \in Nat /\ i + 1 \in Nat
  BY QueryFacts, WordFacts
<1>2. /\ dtype \in {"ok", "error", "exit"}
      /\ dtype = "ok" => query[i + 1] \in Datatypes
  BY <1>1, ExpectFacts
<1> HIDE DEF dtype
<1>3. CASE dtype # "ok"
  <2>1. Column(i) = Stop(dtype) /\ dtype \in {"error", "exit"}
    BY <1>2, <1>3 DEF Column, dtype
  <2> QED BY <2>1, StopSound DEF SoundOperand
<1>4. CASE dtype = "ok" /\ query[i + 1] # "char"
  <2>1. PICK T : T = Tree(i, <<Leaf(i + 1)>>)
    OBVIOUS
  <2>2. Column(i) = Done(T, i + 1)
    BY <1>4, <2>1 DEF Column, dtype
  <2>3. /\ Grown(Leaf(i + 1), {i + 1}) /\ SteppedBy(Leaf(i + 1).nodes) = {}
    BY <1>1, LeafGrown
  <2>4. Grown(T, {i} \cup {i + 1}) /\ SteppedBy(T.nodes) = {}
    <3>0. PICK U : U = Leaf(i + 1)
      OBVIOUS
    <3>1. PICK R \in SUBSET Nat : R = {i + 1}
      BY <1>1
    <3>2. Before({i}, R)
      BY <1>1, <3>1 DEF Before
    <3>3. Grown(Tree(i, <<U>>), {i} \cup R) /\ SteppedBy(Tree(i, <<U>>).nodes) = SteppedBy(U.nodes)
      BY <1>1, <2>3, <3>0, <3>1, <3>2, OneBelow
    <3> QED BY <2>1, <2>3, <3>0, <3>1, <3>3
  <2>5. {i} \cup {i + 1} = i .. i + 1
    BY <1>1
  <2>6. i + 1 \in i .. Len(query) + 1 /\ i + 1 # Len(query) + 1
    BY <1>1
  <2>7. Reads(Done(T, i + 1), i)
    BY <2>4, <2>5, <2>6, ResultFacts DEF Reads
  <2> QED BY <2>2, <2>7, ResultFacts DEF SoundOperand
<1>5. CASE dtype = "ok" /\ query[i + 1] = "char" /\ Text(query[i + 2]) # "("
  <2>1. Column(i) = Stop("error")
    BY <1>5 DEF Column, dtype
  <2> QED BY <2>1, StopSound DEF SoundOperand
<1>6. CASE dtype = "ok" /\ query[i + 1] = "char" /\ Text(query[i + 2]) = "("
  <2>1. i + 3 <= Len(query)
    <3>1. query[i + 1] # "EOQ" /\ query[i + 2] # "EOQ"
      BY <1>6, WordFacts
    <3>2. i + 1 < Len(query)
      BY <1>1, <3>1, QueryFacts
    <3>3. i + 2 < Len(query)
      BY <1>1, <3>1, <3>2, QueryFacts
    <3> QED BY <1>1, <3>3
  <2>2. Look(i + 3) \in {"ok", "exit"}
    <3>1. i + 3 \in Nat /\ ~(i + 3 > Len(query))
      BY <1>1, <2>1
    <3> QED BY <3>1, LookFacts
  <2>3. CASE Look(i + 3) # "ok"
    <3>1. Column(i) = Stop(Look(i + 3)) /\ Look(i + 3) \in {"error", "exit"}
      BY <1>6, <2>2, <2>3 DEF Column, dtype
    <3> QED BY <3>1, StopSound DEF SoundOperand
  <2>4. CASE Look(i + 3) = "ok"
    <3>1. PICK T : T = Tree(i, <<Leaf(i + 1), Leaf(i + 3)>>)
      OBVIOUS
    <3>2. Column(i) = Done(T, i + 4)
      BY <1>6, <2>4, <3>1 DEF Column, dtype
    <3>3. Grown(T, i .. i + 4) /\ SteppedBy(T.nodes) = {i + 2, i + 4}
      BY <1>1, <3>1, SizedTree
    <3>4. SteppedBy(T.nodes) \subseteq i .. i + 4
      BY <1>1, <3>3
    <3>5. i + 4 \in i .. Len(query) + 1
      BY <1>1, <2>1
    <3>6. i + 4 = Len(query) + 1 => AfterChar
      <4>1. ASSUME i + 4 = Len(query) + 1
            PROVE  Len(query) - 1 = i + 2 /\ Len(query) - 2 = i + 1
        BY <1>1, <4>1
      <4> QED BY <1>6, <4>1 DEF AfterChar
    <3>7. Reads(Done(T, i + 4), i)
      BY <3>3, <3>4, <3>5, <3>6, ResultFacts DEF Reads
    <3> QED BY <3>2, <3>7, ResultFacts DEF SoundOperand
  <2> QED BY <2>2, <2>3, <2>4
<1> QED BY <1>2, <1>3, <1>4, <1>5, <1>6

\* What comes first.
LEMMA OperandSound ==
  ASSUME IsQuery(query), NEW kind, NEW call, NEW n \in Nat, Sound(call, n),
         NEW i \in 1 .. Len(query)
  PROVE  SoundOperand(Operand(kind, call, i), i, n + 1)
<1>1. Len(query) \in Nat /\ i \in Nat /\ i < i + 1 /\ i + 1 \in Nat /\ 0 \in 0 .. 8
  BY QueryFacts
<1>2. Look(i) \in {"ok", "exit"}
  BY <1>1, LookFacts
<1> DEFINE r == call[i + 1][0]
           signed == kind # "create" /\ query[i] \in {"+", "-"}
<1> HIDE DEF r, signed
<1>3. query[i] \in Operators => SoundCall(r, i + 1, n)
  <2>1. ASSUME query[i] \in Operators PROVE i + 1 \in 1 .. Len(query)
    <3>1. query[i] # "EOQ"
      BY <2>1, WordFacts
    <3> QED BY <1>1, <3>1, QueryFacts
  <2> QED BY <1>1, <2>1 DEF Sound, r
<1>4. (signed => query[i] \in Operators) /\ (query[i] = "(" => query[i] \in Operators)
  BY DEF signed, Operators
<1>5. CASE Look(i) # "ok"
  <2>1. Operand(kind, call, i) = Stop(Look(i)) /\ Look(i) \in {"error", "exit"}
    BY <1>2, <1>5 DEF Operand
  <2> QED BY <2>1, StopSound DEF SoundOperand
<1>6. CASE Look(i) = "ok" /\ signed
  <2>1. CASE r.st # "ok"
    <3>1. Operand(kind, call, i) = r
      BY <1>6, <2>1 DEF Operand, r, signed
    <3> QED BY <1>1, <1>3, <1>4, <1>6, <2>1, <3>1, FailsOn DEF SoundOperand
  <2>2. CASE r.st = "ok"
    <3>1. PICK d : d = Done(Tree(i, <<r.tree>>), r.i)
      OBVIOUS
    <3>2. Operand(kind, call, i) = d
      BY <1>6, <2>2, <3>1 DEF Operand, r, signed
    <3>3. Reads(d, i) /\ d.st = "ok"
      BY <1>3, <1>4, <1>6, <2>2, <3>1, PrefixReads, ResultFacts
    <3> QED BY <3>2, <3>3 DEF SoundOperand
  <2> QED BY <2>1, <2>2
<1>7. CASE Look(i) = "ok" /\ ~signed /\ query[i] = "("
  <2>1. CASE r.st # "ok"
    <3>1. Operand(kind, call, i) = r
      BY <1>7, <2>1 DEF Operand, r, signed
    <3> QED BY <1>1, <1>3, <1>4, <1>7, <2>1, <3>1, FailsOn DEF SoundOperand
  <2>2. CASE r.st = "ok" /\ query[r.i + 1] # ")"
    <3>1. Operand(kind, call, i) = Stop("error")
      BY <1>7, <2>2 DEF Operand, r, signed
    <3> QED BY <3>1, StopSound DEF SoundOperand
  <2>3. CASE r.st = "ok" /\ query[r.i + 1] = ")"
    <3>1. PICK d : d = Done(r.tree, r.i + 1)
      OBVIOUS
    <3>2. Operand(kind, call, i) = d
      BY <1>7, <2>3, <3>1 DEF Operand, r, signed
    <3>3. Reads(d, i) /\ d.st = "ok"
      BY <1>3, <1>4, <1>7, <2>3, <3>1, EnclosedReads, ResultFacts
    <3> QED BY <3>2, <3>3 DEF SoundOperand
  <2> QED BY <2>1, <2>2, <2>3
<1>8. CASE Look(i) = "ok" /\ ~signed /\ query[i] # "(" /\ kind = "create" /\ query[i] \in Names
  <2>1. Operand(kind, call, i) = Column(i)
    BY <1>8 DEF Operand, signed
  <2> QED BY <1>8, <2>1, ColumnSound
<1>9. CASE Look(i) = "ok" /\ ~signed /\ query[i] # "(" /\ ~(kind = "create" /\ query[i] \in Names)
  <2>1. PICK d : d = Done(Leaf(i), i)
    OBVIOUS
  <2>2. Operand(kind, call, i) = d
    BY <1>9, <2>1 DEF Operand, signed
  <2>3. Reads(d, i)
    <3>0. Grown(Leaf(i), {i}) /\ SteppedBy(Leaf(i).nodes) = {}
      BY <1>1, LeafGrown
    <3>1. Grown(Leaf(i), i .. i) /\ SteppedBy(Leaf(i).nodes) = {}
      <4>1. {i} = i .. i
        BY <1>1
      <4> QED BY <3>0, <4>1
    <3>2. i \in i .. Len(query) + 1 /\ i # Len(query) + 1
      BY <1>1
    <3> QED BY <2>1, <3>1, <3>2, ResultFacts DEF Reads
  <2> QED BY <2>1, <2>2, <2>3, ResultFacts DEF SoundOperand
<1> QED BY <1>2, <1>5, <1>6, <1>7, <1>8, <1>9

\* Up to the loop.
LEMMA StartSound ==
  ASSUME IsQuery(query), NEW kind, NEW call, NEW n \in Nat, Sound(call, n),
         NEW i \in 1 .. Len(query)
  PROVE  SoundCall(Start(kind, call, i), i, n + 1)
<1> DEFINE lhs == Operand(kind, call, i)
<1>1. SoundOperand(lhs, i, n + 1)
  BY OperandSound
<1>2. Len(query) \in Nat /\ i \in Nat
  BY QueryFacts
<1> HIDE DEF lhs
<1>3. CASE lhs.st # "ok"
  <2>1. Start(kind, call, i) = lhs
    BY <1>3 DEF Start, lhs
  <2> QED BY <1>1, <1>3, <2>1 DEF SoundOperand, SoundCall
<1>4. CASE lhs.st = "ok"
  <2>1. /\ lhs.i \in i .. Len(query) + 1 /\ lhs.i \in Nat
        /\ lhs.i = Len(query) + 1 => AfterChar
    BY <1>1, <1>2, <1>4 DEF SoundOperand, Reads
  <2> DEFINE st == Expect(lhs.i, Expressions)
  <2>2. /\ st \in {"ok", "error", "exit", "crash"}
        /\ st = "crash" <=> lhs.i > Len(query)
        /\ st = "ok" => lhs.i <= Len(query) /\ query[lhs.i] \in Expressions
    BY <2>1, ExpectFacts
  <2> HIDE DEF st
  <2>3. CASE st # "ok"
    <3>1. Start(kind, call, i) = Stop(st)
      BY <1>4, <2>3 DEF Start, lhs, st
    <3>2. st = "crash" => AfterChar
      BY <1>2, <2>1, <2>2
    <3> QED BY <2>2, <2>3, <3>1, <3>2, ResultFacts DEF SoundCall, SoundStop, Ended
  <2>4. CASE st = "ok"
    <3>1. Start(kind, call, i) = lhs
      BY <1>4, <2>4 DEF Start, lhs, st
    <3>2. query[lhs.i] # "EOQ"
      BY <2>2, <2>4, WordFacts
    <3>3. lhs.i < Len(query)
      <4>1. lhs.i \in 1 .. Len(query)
        BY <1>2, <2>1, <2>2, <2>4
      <4> QED BY <3>2, <4>1, QueryFacts
    <3> QED BY <1>1, <1>4, <2>2, <2>4, <3>1, <3>3 DEF SoundOperand, SoundCall
  <2> QED BY <2>3, <2>4
<1> QED BY <1>3, <1>4

\* An infix operator with both operands.
LEMMA InfixReads ==
  ASSUME IsQuery(query), NEW i \in 1 .. Len(query), NEW lhs, NEW rhs,
         NEW m, NEW n, SoundCall(lhs, i, m), lhs.st = "ok",
         SoundCall(rhs, lhs.i + 2, n), rhs.st = "ok",
         query[lhs.i + 1] \in Operators
  PROVE  SoundCall(Done(Tree(lhs.i + 1, <<lhs.tree, rhs.tree>>), rhs.i), i, m)
<1> DEFINE op == lhs.i + 1
<1>1. /\ Len(query) \in Nat /\ i \in Nat /\ lhs.i \in i .. Len(query) + 1
      /\ lhs.i < Len(query) /\ Grown(lhs.tree, i .. lhs.i)
      /\ SteppedBy(lhs.tree.nodes) \subseteq i .. lhs.i
  BY QueryFacts DEF SoundCall, Reads
<1>2. /\ rhs.i \in lhs.i + 2 .. Len(query) + 1 /\ rhs.i < Len(query)
      /\ query[rhs.i] \in Expressions /\ Grown(rhs.tree, lhs.i + 2 .. rhs.i)
      /\ SteppedBy(rhs.tree.nodes) \subseteq lhs.i + 2 .. rhs.i
  BY DEF SoundCall, Reads
<1>3. op \in Nat
  BY <1>1
<1>4. PICK R \in SUBSET Nat : R = i .. lhs.i
  BY <1>1
<1>5. PICK Q \in SUBSET Nat : Q = lhs.i + 2 .. rhs.i
  BY <1>1, <1>2
<1>6. Before(R, Q) /\ Before({op}, Q) /\ Before(R, {op})
  <2>1. Before(R, {op})
    BY <1>1, <1>4 DEF Before
  <2>2. Before({op}, Q)
    BY <1>1, <1>2, <1>5 DEF Before
  <2>3. Before(R, Q)
    BY <1>1, <1>2, <1>4, <1>5 DEF Before
  <2> QED BY <2>1, <2>2, <2>3
<1>7. query[op] \in Operators /\ query[op] \notin Names
  BY WordFacts
<1>8. Grown(lhs.tree, R) /\ Grown(rhs.tree, Q)
  BY <1>1, <1>2, <1>4, <1>5
<1>9. {op} \cup R \cup Q = i .. rhs.i
  <2>1. PICK a \in Nat : a = lhs.i
    BY <1>1
  <2>2. PICK c \in Nat : c = rhs.i
    BY <1>1, <1>2
  <2>3. i <= a /\ a + 2 <= c
    BY <1>1, <1>2, <2>1, <2>2
  <2>4. {a + 1} \cup (i .. a) \cup (a + 2 .. c) = i .. c
    BY ONLY <1>1, <2>3, i \in Nat, a \in Nat, c \in Nat
  <2> QED BY ONLY <1>4, <1>5, <2>1, <2>2, <2>4
<1> HIDE DEF op
<1>10. PICK T : T = Tree(op, <<lhs.tree, rhs.tree>>)
  OBVIOUS
<1>11. /\ Grown(T, {op} \cup R \cup Q)
       /\ SteppedBy(T.nodes) = SteppedBy(lhs.tree.nodes) \cup SteppedBy(rhs.tree.nodes)
  <2>1. PICK A : A = lhs.tree
    OBVIOUS
  <2>2. PICK B : B = rhs.tree
    OBVIOUS
  <2>3. Sides(op, R, Q)
    BY <1>6, <1>7 DEF Sides
  <2>4. Grown(A, R) /\ Grown(B, Q)
    BY <1>8, <2>1, <2>2
  <2>5. /\ Grown(Tree(op, <<A, B>>), {op} \cup R \cup Q)
        /\ SteppedBy(Tree(op, <<A, B>>).nodes) = SteppedBy(A.nodes) \cup SteppedBy(B.nodes)
    <3>1. Grown(Tree(op, <<A, B>>), {op} \cup R \cup Q)
      BY ONLY <1>3, <2>3, <2>4, TwoBelow
    <3>2. SteppedBy(Tree(op, <<A, B>>).nodes) = SteppedBy(A.nodes) \cup SteppedBy(B.nodes)
      BY ONLY <1>7, TwoSteps
    <3> QED BY ONLY <3>1, <3>2
  <2> QED BY ONLY <1>10, <2>1, <2>2, <2>5
<1>12. Grown(T, i .. rhs.i) /\ SteppedBy(T.nodes) \subseteq i .. rhs.i
  <2>1. SteppedBy(T.nodes) \subseteq R \cup Q
    BY <1>1, <1>2, <1>4, <1>5, <1>11
  <2> QED BY <1>9, <1>11, <2>1
<1>13. rhs.i \in i .. Len(query) + 1 /\ rhs.i # Len(query) + 1
  BY <1>1, <1>2
<1>14. Reads(Done(T, rhs.i), i)
  BY <1>12, <1>13, ResultFacts DEF Reads
<1>15. SoundCall(Done(T, rhs.i), i, m)
  BY <1>2, <1>14, ResultFacts DEF SoundCall
<1> QED BY <1>10, <1>15 DEF op

\* One turn.
LEMMA InfixSound ==
  ASSUME IsQuery(query), NEW kind, NEW call, NEW n \in Nat, Sound(call, n),
         NEW i \in 1 .. Len(query), NEW lhs, SoundCall(lhs, i, n + 1), NEW min_bp
  PROVE  SoundCall(Infix(kind, call, lhs, min_bp), i, n + 1)
<1>1. CASE lhs.st # "ok"
  BY <1>1 DEF Infix
<1>2. CASE lhs.st = "ok"
  <2> DEFINE op == lhs.i + 1
             rhs == call[op + 1][Rhs(query[op])]
  <2>1. /\ Len(query) \in Nat /\ i \in Nat /\ lhs.i \in i .. Len(query) + 1
        /\ lhs.i < Len(query)
    BY <1>2, QueryFacts DEF SoundCall, Reads
  <2>2. op \in 1 .. Len(query) /\ op \in Nat
    BY <2>1
  <2>3. Look(op) \in {"ok", "exit"}
    BY <2>2, LookFacts
  <2>4. CASE Infix(kind, call, lhs, min_bp) = lhs
    BY <2>4
  <2>5. CASE Infix(kind, call, lhs, min_bp) = Stop("error")
    BY <2>5, StopSound DEF SoundCall
  <2>6. CASE Look(op) # "ok"
    <3>1. Infix(kind, call, lhs, min_bp) = Stop(Look(op)) /\ Look(op) \in {"error", "exit"}
      BY <1>2, <2>3, <2>6 DEF Infix
    <3> QED BY <3>1, StopSound DEF SoundCall
  <2>7. CASE /\ Infix(kind, call, lhs, min_bp) # lhs
             /\ Infix(kind, call, lhs, min_bp) # Stop("error")
             /\ Look(op) = "ok"
    <3>1. /\ query[op] \in Follows(kind)
          /\ Infix(kind, call, lhs, min_bp)
               = IF rhs.st # "ok" THEN rhs
                 ELSE Done(Tree(op, <<lhs.tree, rhs.tree>>), rhs.i)
      BY <1>2, <2>7 DEF Infix
    <3>2. query[op] \in Operators /\ query[op] # "EOQ"
      BY <3>1, FollowsFacts, WordFacts
    <3>3. op + 1 \in 1 .. Len(query) /\ op + 1 = lhs.i + 2
      <4>1. op < Len(query)
        BY <2>2, <3>2, QueryFacts
      <4> QED BY <2>1, <2>2, <4>1
    <3>4. SoundCall(rhs, lhs.i + 2, n)
      <4>1. Rhs(query[op]) \in 0 .. 8
        BY PowerFacts
      <4>2. SoundCall(call[op + 1][Rhs(query[op])], op + 1, n)
        BY <3>3, <4>1 DEF Sound
      <4> QED BY <3>3, <4>2
    <3> HIDE DEF rhs
    <3>5. CASE rhs.st # "ok"
      <4>1. lhs.i + 2 \in Nat /\ i < lhs.i + 2
        BY <2>1
      <4>2. SoundStop(rhs, i, n + 1)
        BY <2>1, <3>4, <3>5, <4>1, FailsOn
      <4> QED BY <3>1, <3>5, <4>2 DEF SoundCall
    <3>6. CASE rhs.st = "ok"
      <4>1. SoundCall(Done(Tree(op, <<lhs.tree, rhs.tree>>), rhs.i), i, n + 1)
        BY <1>2, <3>2, <3>4, <3>6, InfixReads
      <4> QED BY <3>1, <3>6, <4>1
    <3> QED BY <3>5, <3>6
  <2> QED BY <2>3, <2>4, <2>5, <2>6, <2>7
<1> QED BY <1>1, <1>2

\* All turns.
LEMMA TurnsSound ==
  ASSUME IsQuery(query), NEW kind, NEW call, NEW n \in Nat, Sound(call, n),
         NEW i \in 1 .. Len(query), NEW min_bp
  PROVE  \A t \in 0 .. Len(query) : SoundCall(Turns(kind, call, i, min_bp)[t], i, n + 1)
<1>1. Len(query) \in Nat
  BY QueryFacts
<1> DEFINE lhs == Turns(kind, call, i, min_bp)
           P == {t \in Nat : t <= Len(query) => SoundCall(lhs[t], i, n + 1)}
<1>2. /\ lhs[0] = Start(kind, call, i)
      /\ \A t \in 1 .. Len(query) : lhs[t] = Infix(kind, call, lhs[t - 1], min_bp)
  BY <1>1, TurnsFacts
<1> HIDE DEF lhs
<1>3. 0 \in P
  BY <1>2, StartSound
<1>4. ASSUME NEW t \in P PROVE t + 1 \in P
  <2>1. ASSUME t + 1 <= Len(query) PROVE SoundCall(lhs[t + 1], i, n + 1)
    <3>1. t + 1 \in 1 .. Len(query) /\ (t + 1) - 1 = t /\ t <= Len(query)
      BY <1>1, <2>1
    <3>2. lhs[t + 1] = Infix(kind, call, lhs[t], min_bp)
      BY <1>2, <3>1
    <3>3. SoundCall(lhs[t], i, n + 1)
      BY <3>1
    <3> QED BY <3>2, <3>3, InfixSound
  <2> QED BY <2>1
<1>5. P = Nat
  <2>1. P \in SUBSET Nat
    OBVIOUS
  <2> HIDE DEF P
  <2> QED BY <1>3, <1>4, <2>1, Induction
<1>6. ASSUME NEW t \in 0 .. Len(query) PROVE SoundCall(lhs[t], i, n + 1)
  BY <1>1, <1>5
<1> QED BY <1>6 DEF lhs

\* However deep calls are nested, and so for every call parse() makes.
LEMMA NestedSound ==
  ASSUME IsQuery(query), NEW kind
  PROVE  \A n \in 0 .. Len(query) + 1 : Sound(Nested(kind)[n], n)
<1>1. Len(query) \in Nat
  BY QueryFacts
<1> DEFINE calls == Nested(kind)
           P == {n \in Nat : n <= Len(query) + 1 => Sound(calls[n], n)}
<1>2. /\ \A i \in 1 .. Len(query) + 1, min_bp \in 0 .. 8 : calls[0][i][min_bp] = Stop("deep")
      /\ \A n \in 1 .. Len(query) + 1, i \in 1 .. Len(query) + 1, min_bp \in 0 .. 8 :
           calls[n][i][min_bp] = Expr(kind, calls[n - 1], i, min_bp)
  BY <1>1, NestedFacts
<1> HIDE DEF calls
<1>3. 0 \in P
  <2>1. ASSUME NEW i \in 1 .. Len(query), NEW min_bp \in 0 .. 8
        PROVE  SoundCall(calls[0][i][min_bp], i, 0)
    <3>1. i \in 1 .. Len(query) + 1 /\ i + 0 <= Len(query)
      BY <1>1
    <3>2. calls[0][i][min_bp] = Stop("deep")
      BY ONLY <1>2, <2>1, <3>1
    <3>3. Stop("deep").st = "deep"
      BY ResultFacts
    <3> QED BY <3>1, <3>2, <3>3 DEF SoundCall, SoundStop, Ended
  <2> QED BY <2>1 DEF Sound
<1>4. ASSUME NEW n \in P PROVE n + 1 \in P
  <2>1. ASSUME n + 1 <= Len(query) + 1 PROVE Sound(calls[n + 1], n + 1)
    <3>1. n + 1 \in 1 .. Len(query) + 1 /\ (n + 1) - 1 = n /\ n <= Len(query) + 1
      BY <1>1, <2>1
    <3>2. Sound(calls[n], n)
      BY <3>1
    <3>3. ASSUME NEW i \in 1 .. Len(query), NEW min_bp \in 0 .. 8
          PROVE  SoundCall(calls[n + 1][i][min_bp], i, n + 1)
      <4>1. i \in 1 .. Len(query) + 1
        BY <1>1
      <4>2. calls[n + 1][i][min_bp] = Expr(kind, calls[n], i, min_bp)
        BY <1>2, <3>1, <4>1
      <4>3. Expr(kind, calls[n], i, min_bp) = Turns(kind, calls[n], i, min_bp)[Len(query)]
        BY <1>1, TurnsFacts
      <4>4. Len(query) \in 0 .. Len(query)
        BY <1>1
      <4>5. SoundCall(Turns(kind, calls[n], i, min_bp)[Len(query)], i, n + 1)
        BY <3>2, <4>4, TurnsSound
      <4> QED BY <4>2, <4>3, <4>5
    <3> QED BY <3>3 DEF Sound
  <2> QED BY <2>1
<1>5. P = Nat
  <2>1. P \in SUBSET Nat
    OBVIOUS
  <2> HIDE DEF P
  <2> QED BY <1>3, <1>4, <2>1, Induction
<1>6. ASSUME NEW n \in 0 .. Len(query) + 1 PROVE Sound(calls[n], n)
  BY <1>1, <1>5
<1> QED BY <1>6 DEF calls

\* What a clause's call does: parse() never runs out of levels.
LEMMA ParsedSound ==
  ASSUME IsQuery(query), NEW kind, NEW i \in 1 .. Len(query)
  PROVE  LET r == Parsed(kind, i)
         IN  /\ r.st \in {"ok", "error", "exit", "crash"}
             /\ r.st = "crash" => AfterChar
             /\ r.st = "ok" => /\ r.i \in i .. Len(query) - 1
                               /\ Grown(r.tree, i .. r.i)
                               /\ SteppedBy(r.tree.nodes) \subseteq i .. r.i
<1>1. Len(query) \in Nat /\ Len(query) + 1 \in 0 .. Len(query) + 1 /\ 0 \in 0 .. 8
  BY QueryFacts
<1>2. PICK r : r = Parsed(kind, i)
  OBVIOUS
<1>3. SoundCall(r, i, Len(query) + 1)
  BY <1>1, <1>2, NestedSound DEF Parsed, Sound
<1>4. ~(i + (Len(query) + 1) <= Len(query))
  BY <1>1
<1>5. r.st # "ok" => r.st \in {"error", "exit", "crash"} /\ (r.st = "crash" => AfterChar)
  BY <1>3, <1>4 DEF SoundCall, SoundStop, Ended
<1>6. r.st = "ok" => r.i < Len(query) /\ Reads(r, i)
  BY <1>3 DEF SoundCall
<1>7. r.st = "ok" => /\ r.i \in i .. Len(query) - 1 /\ Grown(r.tree, i .. r.i)
                     /\ SteppedBy(r.tree.nodes) \subseteq i .. r.i
  BY <1>1, <1>6 DEF Reads
<1> QED BY <1>2, <1>5, <1>7

-----------------------------------------------------------------------------
(* What hangs under the root.                                              *)

\* The capacity after the m-th append, if it was c before; and the capacities
\* after 0 to n.
Room(c, m) == IF m - 1 < c THEN c ELSE IF c = 0 THEN FirstCapa ELSE 2 * c

Rooms(s, n) == s = [m \in 0 .. n |-> IF m = 0 THEN 0 ELSE Room(s[m - 1], m)]

LEMMA RoomsAre ==
  ASSUME NEW n \in Nat, NEW s, Rooms(s, n)
  PROVE  s[0] = 0 /\ \A m \in 0 .. n - 1 : s[m + 1] = Room(s[m], m + 1)
<1>1. \A m \in 0 .. n : s[m] = IF m = 0 THEN 0 ELSE Room(s[m - 1], m)
  BY DEF Rooms
<1>2. ASSUME NEW m \in 0 .. n - 1 PROVE s[m + 1] = Room(s[m], m + 1)
  <2>1. m + 1 \in 0 .. n /\ m + 1 # 0 /\ (m + 1) - 1 = m
    OBVIOUS
  <2>2. s[m + 1] = Room(s[(m + 1) - 1], m + 1)
    BY <1>1, <2>1
  <2> QED BY <2>1, <2>2
<1> QED BY <1>1, <1>2

\* There are such capacities for every n.
LEMMA RoomsExist == ASSUME NEW n \in Nat PROVE \E s : Rooms(s, n)
<1> DEFINE P == {m \in Nat : \E s : Rooms(s, m)}
<1>1. 0 \in P
  <2> DEFINE s == [m \in 0 .. 0 |-> 0]
  <2>1. s = [m \in 0 .. 0 |-> IF m = 0 THEN 0 ELSE Room(s[m - 1], m)]
    OBVIOUS
  <2>2. Rooms(s, 0)
    BY <2>1 DEF Rooms
  <2> QED BY <2>2
<1>2. ASSUME NEW k \in P PROVE k + 1 \in P
  <2>1. PICK s : Rooms(s, k)
    OBVIOUS
  <2>2. \A m \in 0 .. k : s[m] = IF m = 0 THEN 0 ELSE Room(s[m - 1], m)
    BY <2>1 DEF Rooms
  <2> DEFINE t == [m \in 0 .. k + 1 |-> IF m = k + 1 THEN Room(s[k], k + 1) ELSE s[m]]
  <2>3. ASSUME NEW m \in 0 .. k + 1
        PROVE  t[m] = IF m = 0 THEN 0 ELSE Room(t[m - 1], m)
    <3>1. CASE m = k + 1
      <4>1. m # 0 /\ m - 1 = k /\ k \in 0 .. k + 1 /\ k # k + 1
        BY <3>1
      <4>2. t[m] = Room(s[k], k + 1) /\ t[m - 1] = s[k]
        BY <3>1, <4>1
      <4> HIDE DEF t
      <4> QED BY <3>1, <4>1, <4>2
    <3>2. CASE m # k + 1
      <4>1. m \in 0 .. k /\ (m # 0 => m - 1 \in 0 .. k + 1 /\ m - 1 # k + 1)
        BY <3>2
      <4>2. t[m] = s[m] /\ (m # 0 => t[m - 1] = s[m - 1])
        BY <3>2, <4>1
      <4> HIDE DEF t
      <4> QED BY <2>2, <4>1, <4>2
    <3> QED BY <3>1, <3>2
  <2>4. t = [m \in 0 .. k + 1 |-> t[m]]
    OBVIOUS
  <2> HIDE DEF t
  <2>5. Rooms(t, k + 1)
    BY <2>3, <2>4 DEF Rooms
  <2> QED BY <2>5
<1>3. P = Nat
  <2>1. P \in SUBSET Nat
    OBVIOUS
  <2> HIDE DEF P
  <2> QED BY <1>1, <1>2, <2>1, Induction
<1> QED BY <1>3

\* And a longer list of them begins with the shorter one.
LEMMA RoomsAgree ==
  ASSUME NEW n \in Nat, NEW s, NEW t, Rooms(s, n), Rooms(t, n + 1)
  PROVE  \A m \in 0 .. n : s[m] = t[m]
<1>1. s[0] = 0 /\ \A m \in 0 .. n - 1 : s[m + 1] = Room(s[m], m + 1)
  BY RoomsAre
<1>2. t[0] = 0 /\ \A m \in 0 .. n : t[m + 1] = Room(t[m], m + 1)
  <2>1. (n + 1) - 1 = n /\ n + 1 \in Nat
    OBVIOUS
  <2> QED BY <2>1, RoomsAre
<1> DEFINE P == {m \in Nat : m <= n => s[m] = t[m]}
<1>3. 0 \in P
  BY <1>1, <1>2
<1>4. ASSUME NEW m \in P PROVE m + 1 \in P
  <2>1. ASSUME m + 1 <= n PROVE s[m + 1] = t[m + 1]
    <3>1. m \in 0 .. n - 1 /\ m \in 0 .. n /\ s[m] = t[m]
      BY <2>1
    <3> QED BY <1>1, <1>2, <3>1
  <2> QED BY <2>1
<1>5. P = Nat
  <2>1. P \in SUBSET Nat
    OBVIOUS
  <2> HIDE DEF P
  <2> QED BY <1>3, <1>4, <2>1, Induction
<1> QED BY <1>5

LEMMA CapaRooms == ASSUME NEW n \in Nat PROVE \E s : Rooms(s, n) /\ Capa(n) = s[n]
<1> DEFINE capa == CHOOSE s : s = [m \in 0 .. n |->
                     IF m = 0 THEN 0
                     ELSE IF m - 1 < s[m - 1] THEN s[m - 1]
                     ELSE IF s[m - 1] = 0 THEN FirstCapa ELSE 2 * s[m - 1]]
<1>1. Capa(n) = capa[n]
  BY DEF Capa
<1>2. \E s : s = [m \in 0 .. n |->
                     IF m = 0 THEN 0
                     ELSE IF m - 1 < s[m - 1] THEN s[m - 1]
                     ELSE IF s[m - 1] = 0 THEN FirstCapa ELSE 2 * s[m - 1]]
  BY RoomsExist DEF Rooms, Room
<1>3. Rooms(capa, n)
  BY <1>2 DEF Rooms, Room
<1> HIDE DEF capa
<1> QED BY <1>1, <1>3

LEMMA CapaNext ==
  Capa(0) = 0 /\ \A n \in Nat : Capa(n + 1) = Room(Capa(n), n + 1)
<1>1. Capa(0) = 0
  <2>1. PICK s : Rooms(s, 0) /\ Capa(0) = s[0]
    BY CapaRooms
  <2> QED BY <2>1, RoomsAre
<1>2. ASSUME NEW n \in Nat PROVE Capa(n + 1) = Room(Capa(n), n + 1)
  <2>1. PICK s : Rooms(s, n) /\ Capa(n) = s[n]
    BY CapaRooms
  <2>2. n + 1 \in Nat /\ n \in 0 .. (n + 1) - 1 /\ n \in 0 .. n
    OBVIOUS
  <2>3. PICK t : Rooms(t, n + 1) /\ Capa(n + 1) = t[n + 1]
    BY <2>2, CapaRooms
  <2>4. t[n + 1] = Room(t[n], n + 1)
    BY <2>2, <2>3, RoomsAre
  <2>5. s[n] = t[n]
    BY <2>1, <2>2, <2>3, RoomsAgree
  <2> QED BY <2>1, <2>3, <2>4, <2>5
<1> QED BY <1>1, <1>2

\* An array has room for what is in it; a first array for FirstCapa.
LEMMA CapaFacts ==
  ASSUME NEW n \in Nat
  PROVE  /\ Capa(n) \in Nat /\ n <= Capa(n)
         /\ Capa(n) = 0 \/ FirstCapa <= Capa(n)
         /\ n <= FirstCapa => Capa(n) = IF n = 0 THEN 0 ELSE FirstCapa
<1> DEFINE Good(m, c) == /\ c \in Nat /\ m <= c
                         /\ c = 0 \/ FirstCapa <= c
                         /\ m <= FirstCapa => c = IF m = 0 THEN 0 ELSE FirstCapa
           P == {m \in Nat : Good(m, Capa(m))}
<1>0. FirstCapa \in Nat \ {0}
  BY FirstCapaAssumption
<1>1. 0 \in P
  BY <1>0, CapaNext
<1>2. ASSUME NEW m \in P PROVE m + 1 \in P
  <2>1. PICK c : c = Capa(m)
    OBVIOUS
  <2>2. Good(m, c) /\ m \in Nat /\ Capa(m + 1) = Room(c, m + 1)
    BY <2>1, CapaNext
  <2>3. Good(m + 1, Room(c, m + 1))
    BY <1>0, <2>2 DEF Room
  <2> HIDE DEF Good
  <2> QED BY <2>2, <2>3
<1>3. P = Nat
  <2>1. P \in SUBSET Nat
    OBVIOUS
  <2> HIDE DEF P
  <2> QED BY <1>1, <1>2, <2>1, Induction
<1> QED BY <1>3

\* One more append forgets nothing, or all there were.
LEMMA GoneFacts ==
  ASSUME NEW n \in Nat
  PROVE  /\ n <= FirstCapa => Gone(n) = 0
         /\ Gone(n + 1) = IF n >= Capa(n) THEN n ELSE Gone(n)
<1>0. FirstCapa \in Nat \ {0}
  BY FirstCapaAssumption
<1>1. PICK c : c = Capa(n)
  OBVIOUS
<1>2. PICK d : d = Capa(n + 1)
  OBVIOUS
<1>3. /\ c \in Nat /\ n <= c /\ (c = 0 \/ FirstCapa <= c)
      /\ n <= FirstCapa => c = IF n = 0 THEN 0 ELSE FirstCapa
  BY <1>1, CapaFacts
<1>4. d = IF n < c THEN c ELSE IF c = 0 THEN FirstCapa ELSE 2 * c
  <2>1. (n + 1) - 1 = n
    OBVIOUS
  <2> QED BY <1>1, <1>2, <2>1, CapaNext DEF Room
<1>5. /\ Gone(n) = IF c <= FirstCapa THEN 0 ELSE c \div 2
      /\ Gone(n + 1) = IF d <= FirstCapa THEN 0 ELSE d \div 2
  BY <1>1, <1>2 DEF Gone
<1>6. n <= FirstCapa => Gone(n) = 0
  BY <1>0, <1>3, <1>5
<1>7. CASE n < c
  BY <1>1, <1>3, <1>4, <1>5, <1>7
<1>8. CASE ~(n < c)
  <2>1. n = c /\ n >= c
    BY <1>3, <1>8
  <2>2. CASE c = 0
    <3>1. d = FirstCapa
      BY <1>4, <2>1, <2>2
    <3> QED BY <1>0, <1>1, <1>5, <1>6, <2>1, <2>2, <3>1
  <2>3. CASE c # 0
    <3>1. d = 2 * c /\ FirstCapa <= c
      BY <1>3, <1>8, <1>4, <2>3
    <3>2. d > FirstCapa /\ d \div 2 = c
      BY <1>0, <1>3, <2>3, <3>1
    <3>3. ~(d <= FirstCapa)
      BY <1>0, <1>3, <3>1, <3>2
    <3>4. Gone(n + 1) = c
      BY <1>5, <3>2, <3>3
    <3>5. n >= Capa(n)
      BY <1>1, <2>1
    <3> QED BY <1>6, <2>1, <3>4, <3>5
  <2> QED BY <2>2, <2>3
<1> QED BY <1>6, <1>7, <1>8

\* No more is gone than there was.
LEMMA GoneBound == ASSUME NEW n \in Nat PROVE Gone(n) \in Nat /\ Gone(n) <= n
<1> DEFINE P == {m \in Nat : Gone(m) \in Nat /\ Gone(m) <= m}
<1>1. 0 \in P
  <2>1. Gone(0) = 0
    BY FirstCapaAssumption, GoneFacts
  <2> QED BY <2>1
<1>2. ASSUME NEW m \in P PROVE m + 1 \in P
  <2>1. m \in Nat /\ Gone(m) \in Nat /\ Gone(m) <= m
    OBVIOUS
  <2>2. Gone(m + 1) = m \/ Gone(m + 1) = Gone(m)
    BY <2>1, GoneFacts
  <2> QED BY <2>1, <2>2
<1>3. P = Nat
  <2>1. P \in SUBSET Nat
    OBVIOUS
  <2> HIDE DEF P
  <2> QED BY <1>1, <1>2, <2>1, Induction
<1> QED BY <1>3

\* What append leaves, child by child.
LEMMA AppendChilds ==
  ASSUME NEW t \in Nat, NEW childs \in Seq(0 .. t), NEW node \in 0 .. t
  PROVE  /\ append(childs, node) \in Seq(0 .. t)
         /\ Len(append(childs, node)) = Len(childs) + 1
         /\ append(childs, node)[Len(childs) + 1] = node
         /\ \A c \in 1 .. Len(childs) :
              append(childs, node)[c] =
                IF Len(childs) >= Capa(Len(childs)) THEN 0 ELSE childs[c]
         /\ Len(childs) < FirstCapa => append(childs, node) = Append(childs, node)
<1>0. FirstCapa \in Nat \ {0}
  BY FirstCapaAssumption
<1> DEFINE full == Len(childs) >= Capa(Len(childs))
           zeroed == [c \in DOMAIN childs |-> 0]
<1>1. append(childs, node) = Append(IF full THEN zeroed ELSE childs, node)
  BY DEF append
<1>2. zeroed \in Seq(0 .. t) /\ Len(zeroed) = Len(childs)
      /\ \A c \in 1 .. Len(childs) : zeroed[c] = 0
  <2>1. DOMAIN childs = 1 .. Len(childs) /\ Len(childs) \in Nat /\ 0 \in 0 .. t
    OBVIOUS
  <2> QED BY <2>1
<1>3. Len(childs) < FirstCapa /\ full => zeroed = childs
  <2>1. ASSUME Len(childs) < FirstCapa, full PROVE zeroed = childs
    <3>1. Capa(Len(childs)) = IF Len(childs) = 0 THEN 0 ELSE FirstCapa
      BY <1>0, <2>1, CapaFacts
    <3>2. Len(childs) = 0
      BY <1>0, <2>1, <3>1
    <3>3. childs = << >>
      BY <3>2
    <3> QED BY <3>3
  <2> QED BY <2>1
<1> HIDE DEF zeroed
<1>4. PICK kept : kept = IF full THEN zeroed ELSE childs
  OBVIOUS
<1>5. /\ kept \in Seq(0 .. t) /\ Len(kept) = Len(childs)
      /\ \A c \in 1 .. Len(childs) : kept[c] = IF full THEN 0 ELSE childs[c]
      /\ append(childs, node) = Append(kept, node)
      /\ Len(childs) < FirstCapa => kept = childs
  BY <1>1, <1>2, <1>3, <1>4
<1> HIDE DEF full
<1>6. /\ Append(kept, node) \in Seq(0 .. t) /\ Len(Append(kept, node)) = Len(kept) + 1
      /\ Append(kept, node)[Len(kept) + 1] = node
      /\ \A c \in 1 .. Len(kept) : Append(kept, node)[c] = kept[c]
  BY <1>5
<1> QED BY <1>5, <1>6 DEF full

LEMMA AppendFacts ==
  ASSUME NEW t \in Nat, NEW childs \in Seq(0 .. t), NEW node \in 0 .. t
  PROVE  /\ append(childs, node) \in Seq(0 .. t)
         /\ Len(append(childs, node)) = Len(childs) + 1
         /\ Len(childs) < FirstCapa => append(childs, node) = Append(childs, node)
BY AppendChilds

\* The root's children and all nodes, up to token t.
Hangs(rt, N, t) ==
  /\ Toks(N) = Range(rt) \cup Kids(N)
  /\ \E S : /\ \A c \in 1 .. Len(rt) :
                 rt[c] \in S[c] /\ S[c] \subseteq 1 .. t - 1 /\ Closed(N, S[c])
            /\ \A c, d \in 1 .. Len(rt) : c < d => Before(S[c], S[d])

\* The root's array holds what was hung under the root, but for what it has
\* forgotten.
Remembers(rt, hs) ==
  /\ Len(hs) = Len(rt)
  /\ \A c \in 1 .. Len(rt) : rt[c] = IF c <= Gone(Len(rt)) THEN 0 ELSE hs[c]

Built(rt, N, t) ==
  /\ rt \in Seq(0 .. t - 1)
  /\ Neat(N, 1 .. t - 1) /\ Covers(N, 1 .. t - 1) /\ SteppedBy(N) \subseteq 1 .. t - 1
  /\ \E hs \in Seq(0 .. t - 1) : Hangs(hs, N, t) /\ Remembers(rt, hs)

LEMMA RemembersMore ==
  ASSUME NEW t \in Nat, NEW rt \in Seq(0 .. t), NEW hs \in Seq(0 .. t), NEW node \in 0 .. t,
         Remembers(rt, hs)
  PROVE  Remembers(append(rt, node), Append(hs, node))
<1> DEFINE n == Len(rt)
           ap == append(rt, node)
           hp == Append(hs, node)
<1>1. n \in Nat /\ Len(hs) = n /\ \A c \in 1 .. n : rt[c] = IF c <= Gone(n) THEN 0 ELSE hs[c]
  BY DEF Remembers
<1>2. /\ Len(ap) = n + 1 /\ ap[n + 1] = node
      /\ \A c \in 1 .. n : ap[c] = IF n >= Capa(n) THEN 0 ELSE rt[c]
  BY AppendChilds
<1>3. Len(hp) = n + 1 /\ hp[n + 1] = node /\ \A c \in 1 .. n : hp[c] = hs[c]
  BY <1>1
<1>4. Gone(n + 1) = IF n >= Capa(n) THEN n ELSE Gone(n)
  BY <1>1, GoneFacts
<1>5. Gone(n) \in Nat /\ Gone(n) <= n
  BY <1>1, GoneBound
<1> HIDE DEF n, ap, hp
<1>6. ASSUME NEW c \in 1 .. n + 1
      PROVE  ap[c] = IF c <= Gone(n + 1) THEN 0 ELSE hp[c]
  <2>1. CASE c = n + 1
    <3>1. ~(c <= Gone(n + 1))
      BY <1>1, <1>4, <1>5, <2>1
    <3> QED BY <1>2, <1>3, <2>1, <3>1
  <2>2. CASE c # n + 1
    <3>1. c \in 1 .. n
      BY <1>1, <2>2
    <3>2. CASE n >= Capa(n)
      <4>1. c <= Gone(n + 1)
        BY <1>4, <3>1, <3>2
      <4> QED BY <1>2, <3>1, <3>2, <4>1
    <3>3. CASE ~(n >= Capa(n))
      BY <1>1, <1>2, <1>3, <1>4, <3>1, <3>3
    <3> QED BY <3>2, <3>3
  <2> QED BY <2>1, <2>2
<1>7. Remembers(ap, hp)
  BY <1>2, <1>3, <1>6 DEF Remembers
<1> QED BY <1>7 DEF ap, hp

LEMMA HangsMore ==
  ASSUME NEW rt, NEW N, NEW t \in Nat \ {0}, NEW j \in Nat, t <= j, NEW T, NEW head,
         rt \in Seq(0 .. t - 1), Neat(N, 1 .. t - 1), Hangs(rt, N, t),
         Grown(T, t .. j), head = T.head
  PROVE  Hangs(Append(rt, head), N \cup T.nodes, j + 1)
<1> DEFINE M == N \cup T.nodes
           n == Len(rt)
           ap == Append(rt, head)
<1>1. PICK S : /\ \A c \in 1 .. n :
                    rt[c] \in S[c] /\ S[c] \subseteq 1 .. t - 1 /\ Closed(N, S[c])
               /\ \A c, d \in 1 .. n : c < d => Before(S[c], S[d])
  BY DEF Hangs
<1>2. /\ \A x \in N : x.tok \in 1 .. t - 1
      /\ \A x \in T.nodes : x.tok \in t .. j /\ x.childs \in Seq(t .. j)
      /\ Toks(T.nodes) = {head} \cup Kids(T.nodes)
  BY DEF Neat, Grown
<1>3. n \in Nat /\ Len(ap) = n + 1 /\ ap[n + 1] = head /\ \A c \in 1 .. n : ap[c] = rt[c]
  OBVIOUS
<1>4. Range(ap) = Range(rt) \cup {head}
  <2>1. DOMAIN rt = 1 .. n /\ DOMAIN ap = 1 .. n + 1
    OBVIOUS
  <2>2. \A c \in 1 .. n + 1 : c = n + 1 \/ c \in 1 .. n
    BY <1>3
  <2>3. n + 1 \in 1 .. n + 1 /\ \A c \in 1 .. n : c \in 1 .. n + 1
    BY <1>3
  <2> HIDE DEF ap, n
  <2> QED BY <1>3, <2>1, <2>2, <2>3 DEF Range
<1>5. Toks(M) = Toks(N) \cup Toks(T.nodes) /\ Kids(M) = Kids(N) \cup Kids(T.nodes)
  BY ToksFacts
<1>6. Toks(M) = Range(ap) \cup Kids(M)
  BY <1>2, <1>4, <1>5 DEF Hangs
<1> DEFINE Q == [c \in 1 .. n + 1 |-> IF c = n + 1 THEN t .. j ELSE S[c]]
<1>7. Q[n + 1] = t .. j /\ \A c \in 1 .. n : Q[c] = S[c]
  BY <1>3
<1> HIDE DEF Q, ap, n
<1>8. ASSUME NEW c \in 1 .. n + 1
      PROVE  ap[c] \in Q[c] /\ Q[c] \subseteq 1 .. (j + 1) - 1 /\ Closed(M, Q[c])
  <2>1. CASE c = n + 1
    <3>1. head \in t .. j
      BY <1>2 DEF Toks
    <3>2. ASSUME NEW x \in M, x.tok \in t .. j PROVE Range(x.childs) \subseteq t .. j
      <4>1. x \in T.nodes
        BY <1>2, <3>2
      <4>2. x.childs \in Seq(t .. j)
        BY <1>2, <4>1
      <4> QED BY <4>2 DEF Range
    <3>3. t .. j \subseteq 1 .. (j + 1) - 1
      OBVIOUS
    <3>4. Closed(M, t .. j)
      BY <3>2 DEF Closed
    <3> QED BY <1>3, <1>7, <2>1, <3>1, <3>3, <3>4
  <2>2. CASE c \in 1 .. n
    <3>1. rt[c] \in S[c] /\ S[c] \subseteq 1 .. t - 1 /\ Closed(N, S[c])
      BY <1>1, <2>2
    <3>2. ASSUME NEW x \in M, x.tok \in S[c] PROVE Range(x.childs) \subseteq S[c]
      <4>1. x \in N
        <5>1. x.tok \notin t .. j
          BY <3>1, <3>2
        <5> QED BY <1>2, <5>1
      <4> QED BY <3>1, <3>2, <4>1 DEF Closed
    <3>3. 1 .. t - 1 \subseteq 1 .. (j + 1) - 1
      OBVIOUS
    <3>4. Closed(M, S[c])
      BY <3>2 DEF Closed
    <3> QED BY <1>3, <1>7, <2>2, <3>1, <3>3, <3>4
  <2> QED BY <1>3, <2>1, <2>2
<1>9. ASSUME NEW c \in 1 .. n + 1, NEW d \in 1 .. n + 1, c < d
      PROVE  Before(Q[c], Q[d])
  <2>1. CASE d = n + 1
    <3>1. c \in 1 .. n
      BY <1>3, <1>9, <2>1
    <3>2. Q[c] \subseteq 1 .. t - 1
      BY <1>1, <1>7, <3>1
    <3>3. \A x \in 1 .. t - 1, y \in t .. j : x < y
      OBVIOUS
    <3> QED BY <1>7, <2>1, <3>2, <3>3 DEF Before
  <2>2. CASE d # n + 1
    <3>1. c \in 1 .. n /\ d \in 1 .. n
      BY <1>3, <1>9, <2>2
    <3> QED BY <1>1, <1>7, <1>9, <3>1
  <2> QED BY <2>1, <2>2
<1>10. Hangs(ap, M, j + 1)
  <2> HIDE DEF M
  <2> QED BY <1>3, <1>6, <1>8, <1>9 DEF Hangs
<1> QED BY <1>10 DEF ap

LEMMA BuiltMore ==
  ASSUME NEW rt, NEW N, NEW t \in Nat \ {0}, NEW j \in Nat, t <= j, NEW T, NEW head,
         Built(rt, N, t), Grown(T, t .. j), SteppedBy(T.nodes) \subseteq t .. j,
         head = T.head
  PROVE  Built(append(rt, head), N \cup T.nodes, j + 1)
<1>0. PICK hs \in Seq(0 .. t - 1) : Hangs(hs, N, t) /\ Remembers(rt, hs)
  BY DEF Built
<1>1. /\ rt \in Seq(0 .. t - 1) /\ Neat(N, 1 .. t - 1) /\ Covers(N, 1 .. t - 1)
      /\ SteppedBy(N) \subseteq 1 .. t - 1
  BY DEF Built
<1>2. /\ Neat(T.nodes, t .. j) /\ Toks(T.nodes) = {head} \cup Kids(T.nodes)
      /\ Covers(T.nodes, t .. j)
  BY DEF Grown
<1>3. (1 .. t - 1) \cup (t .. j) = 1 .. (j + 1) - 1 /\ (1 .. t - 1) \cap (t .. j) = {}
  OBVIOUS
<1>4. Neat(N \cup T.nodes, 1 .. (j + 1) - 1)
  <2>1. Neat(N \cup T.nodes, (1 .. t - 1) \cup (t .. j))
    BY <1>1, <1>2, <1>3, NeatUnion
  <2> QED BY <1>3, <2>1
<1>5. Covers(N \cup T.nodes, 1 .. (j + 1) - 1)
  <2>1. Covers(N \cup T.nodes, 1 .. t - 1) /\ Covers(N \cup T.nodes, t .. j)
    BY <1>1, <1>2, CoversMore
  <2>2. \A i \in 1 .. (j + 1) - 1 : i \in 1 .. t - 1 \/ i \in t .. j
    BY <1>3
  <2> QED BY <2>1, <2>2 DEF Covers
<1>6. SteppedBy(N \cup T.nodes) \subseteq 1 .. (j + 1) - 1
  <2>1. SteppedBy(N \cup T.nodes) = SteppedBy(N) \cup SteppedBy(T.nodes)
    BY ToksFacts
  <2> QED BY <1>1, <1>3, <2>1
<1>7. head \in 0 .. j /\ rt \in Seq(0 .. j) /\ hs \in Seq(0 .. j) /\ j = (j + 1) - 1
  <2>1. head \in Toks(T.nodes)
    BY <1>2
  <2>2. head \in t .. j
    BY <1>2, <2>1 DEF Neat, Toks
  <2>3. 0 .. t - 1 \subseteq 0 .. j /\ t .. j \subseteq 0 .. j
    OBVIOUS
  <2>4. rt \in Seq(0 .. j) /\ hs \in Seq(0 .. j)
    BY <1>1, <2>3, SeqOn
  <2> QED BY <2>2, <2>3, <2>4
<1>8. append(rt, head) \in Seq(0 .. j) /\ Append(hs, head) \in Seq(0 .. j)
  <2>1. append(rt, head) \in Seq(0 .. j)
    BY <1>7, AppendFacts
  <2>2. Append(hs, head) \in Seq(0 .. j)
    BY ONLY <1>7
  <2> QED BY <2>1, <2>2
<1>9. /\ Hangs(Append(hs, head), N \cup T.nodes, j + 1)
      /\ Remembers(append(rt, head), Append(hs, head))
  BY <1>0, <1>1, <1>7, HangsMore, RemembersMore
<1>10. /\ append(rt, head) \in Seq(0 .. (j + 1) - 1)
       /\ Append(hs, head) \in Seq(0 .. (j + 1) - 1)
  BY <1>7, <1>8
<1> QED BY <1>4, <1>5, <1>6, <1>9, <1>10 DEF Built

-----------------------------------------------------------------------------
(* parse.                                                                  *)

\* The query from token t to j, as one tree or two.
HungAs(trees, t, j) ==
  \/ /\ Len(trees) = 1 /\ DOMAIN trees = {1}
     /\ Grown(trees[1], t .. j) /\ SteppedBy(trees[1].nodes) \subseteq t .. j
  \/ /\ Len(trees) = 2 /\ DOMAIN trees = {1, 2}
     /\ \E m \in t .. j - 1 :
          /\ Grown(trees[1], t .. m) /\ SteppedBy(trees[1].nodes) \subseteq t .. m
          /\ Grown(trees[2], m + 1 .. j) /\ SteppedBy(trees[2].nodes) \subseteq m + 1 .. j

LEMMA OneTree ==
  ASSUME NEW t \in Nat, NEW j \in Nat, t <= j, NEW T,
         Grown(T, t .. j), SteppedBy(T.nodes) \subseteq t .. j
  PROVE  HungAs(<<T>>, t, j)
<1> DEFINE trees == <<T>>
<1>1. Len(trees) = 1 /\ DOMAIN trees = {1} /\ trees[1] = T
  OBVIOUS
<1> HIDE DEF trees
<1>2. HungAs(trees, t, j)
  BY <1>1 DEF HungAs
<1> QED BY <1>2 DEF trees

LEMMA TwoTrees ==
  ASSUME NEW t \in Nat, NEW j \in Nat, NEW m \in t .. j - 1, NEW T, NEW U,
         Grown(T, t .. m), SteppedBy(T.nodes) \subseteq t .. m,
         Grown(U, m + 1 .. j), SteppedBy(U.nodes) \subseteq m + 1 .. j
  PROVE  HungAs(<<T, U>>, t, j)
<1> DEFINE trees == <<T, U>>
<1>1. Len(trees) = 2 /\ DOMAIN trees = {1, 2} /\ trees[1] = T /\ trees[2] = U
  OBVIOUS
<1> HIDE DEF trees
<1>2. HungAs(trees, t, j)
  BY <1>1 DEF HungAs
<1> QED BY <1>2 DEF trees

\* One tree under a word.
LEMMA WordOver ==
  ASSUME NEW t \in Nat, NEW j \in Nat, t < j, NEW T,
         Grown(T, t + 1 .. j), SteppedBy(T.nodes) \subseteq t + 1 .. j
  PROVE  Grown(Tree(t, <<T>>), t .. j) /\ SteppedBy(Tree(t, <<T>>).nodes) \subseteq t .. j
<1>1. PICK R \in SUBSET Nat : R = t + 1 .. j
  OBVIOUS
<1>2. Before({t}, R)
  BY <1>1 DEF Before
<1>3. Grown(T, R)
  BY <1>1
<1>4. Grown(Tree(t, <<T>>), {t} \cup R) /\ SteppedBy(Tree(t, <<T>>).nodes) = SteppedBy(T.nodes)
  BY <1>2, <1>3, OneBelow
<1>5. {t} \cup R = t .. j /\ t + 1 .. j \subseteq t .. j
  BY <1>1
<1>6. Grown(Tree(t, <<T>>), t .. j)
  BY <1>4, <1>5
<1> QED BY <1>4, <1>5, <1>6

\* The words of a statement before what it lists.
LEMMA TableWords ==
  ASSUME NEW t \in Nat, query[t] = "create"
  PROVE  LET T == Tree(t, <<Leaf(t + 1), Leaf(t + 2)>>)
         IN  Grown(T, t .. t + 2) /\ SteppedBy(T.nodes) \subseteq t .. t + 2
<1>1. /\ Grown(Leaf(t + 1), {t + 1}) /\ SteppedBy(Leaf(t + 1).nodes) = {}
      /\ Grown(Leaf(t + 2), {t + 2}) /\ SteppedBy(Leaf(t + 2).nodes) = {}
  <2>1. t + 1 \in Nat /\ t + 2 \in Nat
    OBVIOUS
  <2> QED BY <2>1, LeafGrown
<1>2. query[t] \notin Operators /\ query[t] \notin Names
  BY DEF Operators, Names
<1>3. PICK R : R = {t + 1}
  OBVIOUS
<1>4. PICK Q : Q = {t + 2}
  OBVIOUS
<1>5. Sides(t, R, Q)
  <2>1. Before(R, Q) /\ Before({t}, Q) /\ Before({t}, R)
    BY <1>3, <1>4 DEF Before
  <2> QED BY <1>2, <1>3, <1>4, <2>1 DEF Sides
<1>6. PICK A : A = Leaf(t + 1)
  OBVIOUS
<1>7. PICK B : B = Leaf(t + 2)
  OBVIOUS
<1>8. Grown(A, R) /\ Grown(B, Q)
  BY <1>1, <1>3, <1>4, <1>6, <1>7
<1>9. Grown(Tree(t, <<A, B>>), {t} \cup R \cup Q)
  BY <1>5, <1>8, TwoBelow
<1>10. SteppedBy(Tree(t, <<A, B>>).nodes) = SteppedBy(A.nodes) \cup SteppedBy(B.nodes)
  BY <1>2, TwoSteps
<1>11. {t} \cup R \cup Q = t .. t + 2
  BY <1>3, <1>4
<1>12. SteppedBy(Tree(t, <<A, B>>).nodes) = {}
  BY <1>1, <1>6, <1>7, <1>10
<1>13. Grown(Tree(t, <<A, B>>), t .. t + 2)
  BY <1>9, <1>11
<1> QED BY <1>6, <1>7, <1>12, <1>13

LEMMA IntoWords ==
  ASSUME NEW t \in Nat
  PROVE  LET T == Tree(t, <<Tree(t + 1, <<Leaf(t + 2)>>)>>)
         IN  Grown(T, t .. t + 2) /\ SteppedBy(T.nodes) \subseteq t .. t + 2
<1>1. PICK A : A = Leaf(t + 2)
  OBVIOUS
<1>2. Grown(A, {t + 2}) /\ SteppedBy(A.nodes) = {}
  <2>1. t + 2 \in Nat
    OBVIOUS
  <2> QED BY <1>1, <2>1, LeafGrown
<1>3. {t + 2} = (t + 1) + 1 .. t + 2 /\ t + 1 \in Nat /\ t + 2 \in Nat /\ t + 1 < t + 2 /\ t < t + 2
  OBVIOUS
<1>4. Grown(A, (t + 1) + 1 .. t + 2) /\ SteppedBy(A.nodes) \subseteq (t + 1) + 1 .. t + 2
  BY <1>2, <1>3
<1>5. PICK B : B = Tree(t + 1, <<A>>)
  OBVIOUS
<1>6. Grown(B, t + 1 .. t + 2) /\ SteppedBy(B.nodes) \subseteq t + 1 .. t + 2
  BY <1>3, <1>4, <1>5, WordOver
<1>7. Grown(Tree(t, <<B>>), t .. t + 2) /\ SteppedBy(Tree(t, <<B>>).nodes) \subseteq t .. t + 2
  BY <1>3, <1>6, WordOver
<1> QED BY <1>1, <1>5, <1>7

\* Where a clause's or a statement's expression starts.
From(type) == CASE type = "create" -> 3 [] type = "insert" -> 4 [] OTHER -> 1

LEMMA HungFacts ==
  ASSUME token \in Nat \ {0}, NEW type, NEW i, i = token + From(type),
         type = "create" => query[token] = "create",
         NEW j \in Nat, i <= j, NEW T,
         Grown(T, i .. j), SteppedBy(T.nodes) \subseteq i .. j
  PROVE  HungAs(Hung(type, T), token, j)
<1>1. CASE type = "create"
  <2>1. PICK W : W = Tree(token, <<Leaf(token + 1), Leaf(token + 2)>>)
    OBVIOUS
  <2>2. Grown(W, token .. token + 2) /\ SteppedBy(W.nodes) \subseteq token .. token + 2
    BY <1>1, <2>1, TableWords
  <2>3. i = (token + 2) + 1 /\ token + 2 \in token .. j - 1
    BY <1>1 DEF From
  <2>4. Grown(T, (token + 2) + 1 .. j) /\ SteppedBy(T.nodes) \subseteq (token + 2) + 1 .. j
    BY <2>3
  <2>5. HungAs(<<W, T>>, token, j)
    BY <2>2, <2>3, <2>4, TwoTrees
  <2> QED BY <1>1, <2>1, <2>5 DEF Hung
<1>2. CASE type = "insert"
  <2>1. PICK W : W = Tree(token, <<Tree(token + 1, <<Leaf(token + 2)>>)>>)
    OBVIOUS
  <2>2. Grown(W, token .. token + 2) /\ SteppedBy(W.nodes) \subseteq token .. token + 2
    BY <2>1, IntoWords
  <2>3. i = (token + 3) + 1 /\ token + 3 \in Nat /\ token + 3 < j
    BY <1>2 DEF From
  <2>4. PICK V : V = Tree(token + 3, <<T>>)
    OBVIOUS
  <2>5. Grown(V, token + 3 .. j) /\ SteppedBy(V.nodes) \subseteq token + 3 .. j
    BY <2>3, <2>4, WordOver
  <2>6. token + 3 = (token + 2) + 1 /\ token + 2 \in token .. j - 1
    BY <2>3
  <2>7. Grown(V, (token + 2) + 1 .. j) /\ SteppedBy(V.nodes) \subseteq (token + 2) + 1 .. j
    BY <2>5, <2>6
  <2>8. HungAs(<<W, V>>, token, j)
    BY <2>2, <2>6, <2>7, TwoTrees
  <2> QED BY <1>2, <2>1, <2>4, <2>8 DEF Hung
<1>3. CASE type # "create" /\ type # "insert"
  <2>1. i = token + 1 /\ token < j /\ token <= j
    BY <1>3 DEF From
  <2>2. PICK W : W = Tree(token, <<T>>)
    OBVIOUS
  <2>3. Grown(W, token .. j) /\ SteppedBy(W.nodes) \subseteq token .. j
    BY <2>1, <2>2, WordOver
  <2>4. HungAs(<<W>>, token, j)
    BY <2>1, <2>3, OneTree
  <2> QED BY <1>3, <2>2, <2>4 DEF Hung
<1> QED BY <1>1, <1>2, <1>3

LEMMA HangBuilds ==
  ASSUME token \in Nat \ {0}, NEW j \in Nat, token <= j, NEW trees, HungAs(trees, token, j),
         Built(root, nodes, token), Hang(trees), query' = query
  PROVE  \E rt, N : root' = rt /\ nodes' = N /\ Built(rt, N, j + 1)
<1>1. CASE /\ Len(trees) = 1 /\ DOMAIN trees = {1}
           /\ Grown(trees[1], token .. j) /\ SteppedBy(trees[1].nodes) \subseteq token .. j
  <2>1. root' = append(root, trees[1].head)
    BY <1>1 DEF Hang
  <2>2. nodes' = nodes \cup trees[1].nodes
    BY <1>1 DEF Hang
  <2>3. PICK T : T = trees[1]
    OBVIOUS
  <2>4. Built(append(root, T.head), nodes \cup T.nodes, j + 1)
    BY <1>1, <2>3, BuiltMore
  <2> QED BY <2>1, <2>2, <2>3, <2>4
<1>2. CASE /\ Len(trees) = 2 /\ DOMAIN trees = {1, 2}
           /\ \E m \in token .. j - 1 :
                /\ Grown(trees[1], token .. m) /\ SteppedBy(trees[1].nodes) \subseteq token .. m
                /\ Grown(trees[2], m + 1 .. j) /\ SteppedBy(trees[2].nodes) \subseteq m + 1 .. j
  <2>1. root' = append(append(root, trees[1].head), trees[2].head)
    BY <1>2 DEF Hang
  <2>2. nodes' = (nodes \cup trees[1].nodes) \cup trees[2].nodes
    BY <1>2 DEF Hang
  <2>3. PICK m \in token .. j - 1 :
           /\ Grown(trees[1], token .. m) /\ SteppedBy(trees[1].nodes) \subseteq token .. m
           /\ Grown(trees[2], m + 1 .. j) /\ SteppedBy(trees[2].nodes) \subseteq m + 1 .. j
    BY <1>2
  <2>4. PICK T : T = trees[1]
    OBVIOUS
  <2>5. PICK U : U = trees[2]
    OBVIOUS
  <2>6. m \in Nat /\ token <= m /\ m + 1 \in Nat \ {0} /\ m + 1 <= j
    OBVIOUS
  <2>7. Built(append(root, T.head), nodes \cup T.nodes, m + 1)
    BY <2>3, <2>4, <2>6, BuiltMore
  <2>8. PICK rt, N : rt = append(root, T.head) /\ N = nodes \cup T.nodes
    OBVIOUS
  <2>9. Built(append(rt, U.head), N \cup U.nodes, j + 1)
    BY <2>3, <2>5, <2>6, <2>7, <2>8, BuiltMore
  <2> QED BY <2>1, <2>2, <2>4, <2>5, <2>8, <2>9
<1> QED BY <1>1, <1>2 DEF HungAs

ParseInv ==
  /\ IsQuery(query) /\ token \in 1 .. Len(query)
  /\ out \in {"run", "ok", "error", "exit", "crash"}
  /\ out = "ok" => token = Len(query)
  /\ out = "crash" => AfterChar
  /\ Built(root, nodes, token)

LEMMA SameQuery ==
  ASSUME query' = query, NEW rt, NEW N, NEW t
  PROVE  Built(rt, N, t)' <=> Built(rt, N, t)
<1>1. \A R, x : Placed(N, R, x)' <=> Placed(N, R, x)
  BY DEF Placed, Apart, IsInfix
<1>2. \A R : Neat(N, R)' <=> Neat(N, R)
  BY <1>1 DEF Neat
<1>3. SteppedBy(N)' = SteppedBy(N)
  BY DEF SteppedBy
<1>4. \A R : Covers(N, R)' <=> Covers(N, R)
  BY <1>3 DEF Covers
<1> QED BY <1>2, <1>3, <1>4 DEF Built

\* A step that leaves what has been built.
LEMMA StaysBuilt ==
  ASSUME ParseInv, UNCHANGED <<query, token, root, nodes>>,
         out' \in {"run", "ok", "error", "exit", "crash"},
         out' = "ok" => token = Len(query), out' = "crash" => AfterChar
  PROVE  ParseInv'
<1>1. PICK rt, N, t : rt = root /\ N = nodes /\ t = token
  OBVIOUS
<1>2. Built(rt, N, t)'
  BY <1>1, SameQuery DEF ParseInv
<1>3. Built(root, nodes, token)'
  BY <1>1, <1>2
<1> QED BY <1>3 DEF ParseInv, AfterChar

\* What the three actions that take an expression have in common.
Ready(type, st, i) ==
  /\ out = "run" /\ st \in {"ok", "error", "exit"} /\ i = token + From(type)
  /\ type \in {"select", "where", "from", "create", "insert"}
  /\ query[token] = type
  /\ st = "ok" => i \in 1 .. Len(query)

LEMMA TakesKeeps ==
  ASSUME ParseInv, NEW type, NEW st, NEW i, Ready(type, st, i), Takes(type, st, i)
  PROVE  ParseInv'
<1>0. /\ out = "run" /\ st \in {"ok", "error", "exit"} /\ i = token + From(type)
      /\ type \in {"select", "where", "from", "create", "insert"}
      /\ type = "create" => query[token] = "create"
      /\ st = "ok" => i \in 1 .. Len(query)
  BY DEF Ready
<1>1. Len(query) \in Nat /\ token \in Nat \ {0} /\ IsQuery(query) /\ query' = query
  BY QueryFacts DEF ParseInv, Takes
<1>2. PICK r : r = IF st = "ok" THEN parse_expr(type, i) ELSE Stop(st)
  OBVIOUS
<1>3. CASE r.st # "ok"
  <2>1. out' = r.st /\ UNCHANGED <<query, token, root, nodes>>
    BY <1>2, <1>3 DEF Takes
  <2>2. r.st \in {"error", "exit", "crash"} /\ (r.st = "crash" => AfterChar)
    <3>1. CASE st # "ok"
      BY <1>0, <1>2, <3>1, ResultFacts
    <3>2. CASE st = "ok"
      <4>1. r = Parsed(type, i)
        BY <1>0, <1>2, <3>2 DEF parse_expr, parse_select, parse_where, parse_from, parse_create,
                          parse_insert
      <4> QED BY <1>0, <1>1, <1>3, <3>2, <4>1, ParsedSound
    <3> QED BY <3>1, <3>2
  <2> QED BY <2>1, <2>2, StaysBuilt
<1>4. CASE r.st = "ok"
  <2>1. st = "ok"
    BY <1>2, <1>4, ResultFacts
  <2>2. r = Parsed(type, i)
    BY <1>0, <1>2, <2>1 DEF parse_expr, parse_select, parse_where, parse_from, parse_create,
                      parse_insert
  <2>3. /\ r.i \in i .. Len(query) - 1
        /\ Grown(r.tree, i .. r.i) /\ SteppedBy(r.tree.nodes) \subseteq i .. r.i
    BY <1>0, <1>1, <1>4, <2>1, <2>2, ParsedSound
  <2>4. PICK j \in Nat : j = r.i
    BY <1>0, <1>1, <2>1, <2>3
  <2>5. PICK T : T = r.tree
    OBVIOUS
  <2>6. token' = j + 1 /\ Hang(Hung(type, T)) /\ out' = out
    BY <1>2, <1>4, <2>4, <2>5 DEF Takes
  <2>7. i <= j /\ token <= j /\ j + 1 \in 1 .. Len(query)
    BY <1>0, <1>1, <2>1, <2>3, <2>4 DEF From
  <2>8. HungAs(Hung(type, T), token, j)
    BY <1>0, <1>1, <2>3, <2>4, <2>5, <2>7, HungFacts
  <2>9. \E rt, N : root' = rt /\ nodes' = N /\ Built(rt, N, j + 1)
    <3>1. Built(root, nodes, token)
      BY DEF ParseInv
    <3> QED BY <1>1, <2>6, <2>7, <2>8, <3>1, HangBuilds
  <2>10. PICK rt, N : root' = rt /\ nodes' = N /\ Built(rt, N, j + 1)
    BY <2>9
  <2>11. PICK t : t = j + 1
    OBVIOUS
  <2>12. Built(rt, N, t)'
    BY <1>1, <2>10, <2>11, SameQuery
  <2>13. Built(root, nodes, token)'
    BY <2>6, <2>10, <2>11, <2>12
  <2> QED BY <1>0, <1>1, <2>6, <2>7, <2>13 DEF ParseInv
<1> QED BY <1>3, <1>4

LEMMA FirstFacts ==
  ASSUME NEW sts, NEW n \in Nat, Len(sts) = n,
         \A j \in 1 .. n : (\A h \in 1 .. j - 1 : sts[h] = "ok") => sts[j] \in {"ok", "error", "exit"}
  PROVE  /\ First(sts) \in {"ok", "error", "exit"}
         /\ First(sts) = "ok" => \A j \in 1 .. n : sts[j] = "ok"
<1>1. CASE \A j \in 1 .. n : sts[j] = "ok"
  BY <1>1 DEF First
<1>2. CASE ~\A j \in 1 .. n : sts[j] = "ok"
  <2> DEFINE Fails(j) == j \in 1 .. n /\ sts[j] # "ok" /\ \A h \in 1 .. j - 1 : sts[h] = "ok"
             T == {j \in 1 .. n : sts[j] # "ok"}
  <2>1. T \in SUBSET Nat /\ T # {}
    BY <1>2
  <2>2. PICK k \in T : \A y \in T : k <= y
    <3> HIDE DEF T
    <3> QED BY <2>1, LeastNumber
  <2>3. \A h \in 1 .. k - 1 : sts[h] = "ok"
    <3>1. ASSUME NEW h \in 1 .. k - 1, sts[h] # "ok" PROVE FALSE
      <4>1. h \in T
        BY <2>1, <3>1
      <4>2. k <= h
        <5> HIDE DEF T
        <5> QED BY <2>2, <4>1
      <4> QED BY <2>1, <4>2
    <3> QED BY <3>1
  <2>4. Fails(k)
    BY <2>2, <2>3
  <2> DEFINE c == CHOOSE j \in 1 .. n : sts[j] # "ok" /\ \A h \in 1 .. j - 1 : sts[h] = "ok"
  <2>5. Fails(c)
    BY <2>4
  <2>6. First(sts) = sts[c]
    BY <1>2 DEF First
  <2> HIDE DEF c
  <2> QED BY <2>5, <2>6
<1> QED BY <1>1, <1>2

\* Looking ahead behind a token that is not EOQ.
LEMMA NextExpected ==
  ASSUME IsQuery(query), NEW i \in 1 .. Len(query), query[i] # "EOQ", NEW S
  PROVE  /\ i + 1 \in 1 .. Len(query)
         /\ Expect(i + 1, S) \in {"ok", "error", "exit"}
         /\ Expect(i + 1, S) = "ok" => query[i + 1] \in S
<1>1. Len(query) \in Nat /\ i < Len(query)
  BY QueryFacts
<1>2. i + 1 \in Nat /\ ~(i + 1 > Len(query)) /\ i + 1 \in 1 .. Len(query)
  BY <1>1
<1> QED BY <1>2, ExpectFacts

LEMMA ClauseTakes ==
  ParseInv /\ Clause => \E type, st, i : Ready(type, st, i) /\ Takes(type, st, i)
<1> SUFFICES ASSUME ParseInv, Clause PROVE \E type, st, i : Ready(type, st, i) /\ Takes(type, st, i)
  OBVIOUS
<1>1. PICK type \in {"select", "where", "from"} :
         At({type}) /\ Takes(type, Expect(token + 1, Expressions), token + 1)
  BY DEF Clause
<1>2. IsQuery(query) /\ token \in 1 .. Len(query)
  BY DEF ParseInv
<1>3. out = "run" /\ query[token] = type /\ type # "EOQ"
  BY <1>1 DEF At
<1>4. PICK st : st = Expect(token + 1, Expressions)
  OBVIOUS
<1>5. st \in {"ok", "error", "exit"} /\ token + 1 \in 1 .. Len(query)
  BY <1>2, <1>3, <1>4, NextExpected
<1>6. PICK i : i = token + 1 /\ i = token + From(type)
  BY <1>1 DEF From
<1>7. Takes(type, st, i)
  BY <1>1, <1>4, <1>6
<1>8. Ready(type, st, i)
  BY <1>1, <1>3, <1>5, <1>6 DEF Ready
<1> QED BY <1>7, <1>8

LEMMA CreateTakes ==
  ParseInv /\ Create => \E type, st, i : Ready(type, st, i) /\ Takes(type, st, i)
<1> SUFFICES ASSUME ParseInv, Create PROVE \E type, st, i : Ready(type, st, i) /\ Takes(type, st, i)
  OBVIOUS
<1>1. IsQuery(query) /\ token \in 1 .. Len(query)
  BY DEF ParseInv
<1>2. out = "run" /\ query[token] = "create"
  BY DEF Create, At
<1> DEFINE sts == <<Expect(token + 1, {"table"}), Expect(token + 2, Names),
                    Expect(token + 3, Expressions)>>
<1>3. /\ token + 1 \in 1 .. Len(query)
      /\ sts[1] \in {"ok", "error", "exit"} /\ (sts[1] = "ok" => query[token + 1] = "table")
  BY <1>1, <1>2, NextExpected
<1>4. ASSUME sts[1] = "ok"
      PROVE  /\ token + 2 \in 1 .. Len(query)
             /\ sts[2] \in {"ok", "error", "exit"} /\ (sts[2] = "ok" => query[token + 2] \in Names)
  <2>1. query[token + 1] # "EOQ" /\ (token + 1) + 1 = token + 2
    BY <1>1, <1>3, <1>4
  <2>2. /\ (token + 1) + 1 \in 1 .. Len(query)
        /\ Expect((token + 1) + 1, Names) \in {"ok", "error", "exit"}
        /\ Expect((token + 1) + 1, Names) = "ok" => query[(token + 1) + 1] \in Names
    BY <1>1, <1>3, <2>1, NextExpected
  <2> QED BY <2>1, <2>2
<1>5. ASSUME sts[1] = "ok", sts[2] = "ok"
      PROVE  token + 3 \in 1 .. Len(query) /\ sts[3] \in {"ok", "error", "exit"}
  <2>1. query[token + 2] # "EOQ" /\ (token + 2) + 1 = token + 3
    BY <1>1, <1>4, <1>5, WordFacts
  <2>2. /\ (token + 2) + 1 \in 1 .. Len(query)
        /\ Expect((token + 2) + 1, Expressions) \in {"ok", "error", "exit"}
    BY <1>1, <1>4, <1>5, <2>1, NextExpected
  <2> QED BY <2>1, <2>2
<1>6. Takes("create", First(sts), token + 3)
  BY DEF Create
<1>7. Len(sts) = 3
  OBVIOUS
<1> HIDE DEF sts
<1>8. /\ First(sts) \in {"ok", "error", "exit"}
      /\ First(sts) = "ok" => \A j \in 1 .. 3 : sts[j] = "ok"
  <2>1. ASSUME NEW j \in 1 .. 3, \A h \in 1 .. j - 1 : sts[h] = "ok"
        PROVE  sts[j] \in {"ok", "error", "exit"}
    <3>1. j = 1 \/ j = 2 \/ j = 3
      OBVIOUS
    <3>2. (j = 2 => sts[1] = "ok") /\ (j = 3 => sts[1] = "ok" /\ sts[2] = "ok")
      BY <2>1
    <3> QED BY <1>3, <1>4, <1>5, <3>1, <3>2
  <2> QED BY <1>7, <2>1, FirstFacts
<1>9. PICK st : st = First(sts)
  OBVIOUS
<1>10. PICK i : i = token + 3 /\ i = token + From("create")
  BY DEF From
<1>11. st = "ok" => i \in 1 .. Len(query)
  <2>1. 1 \in 1 .. 3 /\ 2 \in 1 .. 3
    OBVIOUS
  <2> QED BY <1>5, <1>8, <1>9, <1>10, <2>1
<1>12. Takes("create", st, i)
  BY <1>6, <1>9, <1>10
<1>13. Ready("create", st, i)
  BY <1>2, <1>8, <1>9, <1>10, <1>11 DEF Ready
<1> QED BY <1>12, <1>13

LEMMA InsertTakes ==
  ParseInv /\ Insert => \E type, st, i : Ready(type, st, i) /\ Takes(type, st, i)
<1> SUFFICES ASSUME ParseInv, Insert PROVE \E type, st, i : Ready(type, st, i) /\ Takes(type, st, i)
  OBVIOUS
<1>1. IsQuery(query) /\ token \in 1 .. Len(query)
  BY DEF ParseInv
<1>2. out = "run" /\ query[token] = "insert"
  BY DEF Insert, At
<1> DEFINE sts == <<Expect(token + 1, {"into"}), Expect(token + 2, Names),
                    Expect(token + 3, {"values"}), Expect(token + 4, Expressions)>>
<1>3. /\ token + 1 \in 1 .. Len(query)
      /\ sts[1] \in {"ok", "error", "exit"} /\ (sts[1] = "ok" => query[token + 1] = "into")
  BY <1>1, <1>2, NextExpected
<1>4. ASSUME sts[1] = "ok"
      PROVE  /\ token + 2 \in 1 .. Len(query)
             /\ sts[2] \in {"ok", "error", "exit"} /\ (sts[2] = "ok" => query[token + 2] \in Names)
  <2>1. query[token + 1] # "EOQ" /\ (token + 1) + 1 = token + 2
    BY <1>1, <1>3, <1>4
  <2>2. /\ (token + 1) + 1 \in 1 .. Len(query)
        /\ Expect((token + 1) + 1, Names) \in {"ok", "error", "exit"}
        /\ Expect((token + 1) + 1, Names) = "ok" => query[(token + 1) + 1] \in Names
    BY <1>1, <1>3, <2>1, NextExpected
  <2> QED BY <2>1, <2>2
<1>5. ASSUME sts[1] = "ok", sts[2] = "ok"
      PROVE  /\ token + 3 \in 1 .. Len(query)
             /\ sts[3] \in {"ok", "error", "exit"} /\ (sts[3] = "ok" => query[token + 3] = "values")
  <2>1. query[token + 2] # "EOQ" /\ (token + 2) + 1 = token + 3
    BY <1>1, <1>4, <1>5, WordFacts
  <2>2. /\ (token + 2) + 1 \in 1 .. Len(query)
        /\ Expect((token + 2) + 1, {"values"}) \in {"ok", "error", "exit"}
        /\ Expect((token + 2) + 1, {"values"}) = "ok" => query[(token + 2) + 1] \in {"values"}
    BY <1>1, <1>4, <1>5, <2>1, NextExpected
  <2> QED BY <2>1, <2>2
<1>6. ASSUME sts[1] = "ok", sts[2] = "ok", sts[3] = "ok"
      PROVE  token + 4 \in 1 .. Len(query) /\ sts[4] \in {"ok", "error", "exit"}
  <2>1. query[token + 3] # "EOQ" /\ (token + 3) + 1 = token + 4
    BY <1>1, <1>5, <1>6
  <2>2. /\ (token + 3) + 1 \in 1 .. Len(query)
        /\ Expect((token + 3) + 1, Expressions) \in {"ok", "error", "exit"}
    BY <1>1, <1>5, <1>6, <2>1, NextExpected
  <2> QED BY <2>1, <2>2
<1>7. Takes("insert", First(sts), token + 4)
  BY DEF Insert
<1>8. Len(sts) = 4
  OBVIOUS
<1> HIDE DEF sts
<1>9. /\ First(sts) \in {"ok", "error", "exit"}
      /\ First(sts) = "ok" => \A j \in 1 .. 4 : sts[j] = "ok"
  <2>1. ASSUME NEW j \in 1 .. 4, \A h \in 1 .. j - 1 : sts[h] = "ok"
        PROVE  sts[j] \in {"ok", "error", "exit"}
    <3>1. j = 1 \/ j = 2 \/ j = 3 \/ j = 4
      OBVIOUS
    <3>2. /\ j = 2 => sts[1] = "ok"
          /\ j = 3 => sts[1] = "ok" /\ sts[2] = "ok"
          /\ j = 4 => sts[1] = "ok" /\ sts[2] = "ok" /\ sts[3] = "ok"
      BY <2>1
    <3> QED BY <1>3, <1>4, <1>5, <1>6, <3>1, <3>2
  <2> QED BY <1>8, <2>1, FirstFacts
<1>10. PICK st : st = First(sts)
  OBVIOUS
<1>11. PICK i : i = token + 4 /\ i = token + From("insert")
  BY DEF From
<1>12. st = "ok" => i \in 1 .. Len(query)
  <2>1. 1 \in 1 .. 4 /\ 2 \in 1 .. 4 /\ 3 \in 1 .. 4
    OBVIOUS
  <2> QED BY <1>6, <1>9, <1>10, <1>11, <2>1
<1>13. Takes("insert", st, i)
  BY <1>7, <1>10, <1>11
<1>14. Ready("insert", st, i)
  BY <1>2, <1>9, <1>10, <1>11, <1>12 DEF Ready
<1> QED BY <1>13, <1>14

LEMMA ParseStep == ParseInv /\ [Next]_vars => ParseInv'
<1> SUFFICES ASSUME ParseInv, [Next]_vars PROVE ParseInv'
  OBVIOUS
<1>1. CASE Clause
  BY <1>1, ClauseTakes, TakesKeeps
<1>2. CASE Create
  BY <1>2, CreateTakes, TakesKeeps
<1>3. CASE Insert
  BY <1>3, InsertTakes, TakesKeeps
<1>4. CASE NotConsumed \/ NotRecognised \/ NoNodetype
  <2>1. UNCHANGED <<query, token, root, nodes>> /\ out' \in {"error", "exit"}
    BY <1>4 DEF NotConsumed, NotRecognised, NoNodetype, Ends
  <2> QED BY <2>1, StaysBuilt
<1>5. CASE Return
  <2>1. UNCHANGED <<query, token, root, nodes>> /\ out' = "ok" /\ query[token] = "EOQ"
    BY <1>5 DEF Return, Ends, At
  <2>2. token = Len(query)
    BY <2>1 DEF ParseInv, IsQuery
  <2> QED BY <2>1, <2>2, StaysBuilt
<1>6. CASE UNCHANGED vars
  <2>1. UNCHANGED <<query, token, root, nodes>> /\ out' = out
    BY <1>6 DEF vars
  <2> QED BY <2>1, StaysBuilt DEF ParseInv
<1> QED BY <1>1, <1>2, <1>3, <1>4, <1>5, <1>6 DEF Next

LEMMA NothingBuilt == Built(<< >>, {}, 1)
<1>1. << >> \in Seq(0 .. 1 - 1) /\ Len(<< >>) = 0
  OBVIOUS
<1>2. Neat({}, 1 .. 1 - 1) /\ Covers({}, 1 .. 1 - 1)
  BY DEF Neat, Covers
<1>3. SteppedBy({}) = {} /\ Toks({}) = {} /\ Kids({}) = {} /\ Range(<< >>) = {}
  BY DEF SteppedBy, Toks, Kids, Range
<1>4. Hangs(<< >>, {}, 1) /\ Remembers(<< >>, << >>)
  BY <1>1, <1>3 DEF Hangs, Remembers
<1> QED BY <1>1, <1>2, <1>3, <1>4 DEF Built

LEMMA ParseInit == Init => ParseInv
<1> SUFFICES ASSUME Init PROVE ParseInv
  OBVIOUS
<1>1. IsQuery(query) /\ token = 1 /\ root = << >> /\ nodes = {} /\ out = "run"
  BY QueriesAssumption DEF Init
<1>2. 1 \in 1 .. Len(query)
  BY <1>1, QueryFacts
<1> QED BY <1>1, <1>2, NothingBuilt DEF ParseInv

LEMMA ParseInvariance == Spec => []ParseInv
BY ParseInit, ParseStep, PTL DEF Spec

\* The cursor stays in the query, whatever it is, and the tree is of tokens
\* already read.
THEOREM StaysInQuery == Spec => []TypeOK
<1>1. ParseInv => TypeOK
  <2> SUFFICES ASSUME ParseInv PROVE TypeOK
    OBVIOUS
  <2>1. /\ root \in Seq(0 .. token - 1) /\ Neat(nodes, 1 .. token - 1)
        /\ token \in 1 .. Len(query)
        /\ out \in {"run", "ok", "error", "exit", "crash"}
    BY DEF ParseInv, Built
  <2>2. ASSUME NEW x \in nodes PROVE {x.tok} \cup Range(x.childs) \subseteq 1 .. token - 1
    <3>1. x.tok \in 1 .. token - 1 /\ x.childs \in Seq(1 .. token - 1)
      BY <2>1 DEF Neat
    <3>2. PICK R : R = 1 .. token - 1
      OBVIOUS
    <3>3. Range(x.childs) \subseteq R
      <4>1. x.childs \in Seq(R)
        BY <3>1, <3>2
      <4>2. \A c \in DOMAIN x.childs : x.childs[c] \in R
        BY <4>1
      <4> QED BY <4>2 DEF Range
    <3> QED BY <3>1, <3>2, <3>3
  <2> QED BY <2>1, <2>2 DEF TypeOK
<1> QED BY <1>1, ParseInvariance, PTL

\* The parsers read past the end of a query in one place only: after
\* char (, the last words of it.
THEOREM OneCrash == Spec => []CrashesAfterCharOnly
<1>1. ParseInv => CrashesAfterCharOnly
  BY DEF ParseInv, AfterChar, CrashesAfterCharOnly
<1> QED BY <1>1, ParseInvariance, PTL

-----------------------------------------------------------------------------
(* Nothing is lost.                                                        *)

\* What is below a token is among places no node leads out of.
LEMMA BelowIn ==
  ASSUME Len(query) \in Nat, NEW S, Closed(nodes, S), NEW i \in S
  PROVE  Below(i) \subseteq S
<1> DEFINE top == Len(query)
           Fits(s, m) == /\ s = [n \in 0 .. m |-> s[n]] /\ s[0] = {i}
                         /\ \A n \in 1 .. m : s[n] = WithChilds(s[n - 1])
           P == {m \in Nat : \E s : Fits(s, m)}
<1>1. 0 \in P
  <2> DEFINE s == [n \in 0 .. 0 |-> {i}]
  <2>1. Fits(s, 0)
    OBVIOUS
  <2> QED BY <2>1
<1>2. ASSUME NEW m \in P PROVE m + 1 \in P
  <2>1. PICK s : Fits(s, m)
    OBVIOUS
  <2> DEFINE x == WithChilds(s[m])
             t == [n \in 0 .. m + 1 |-> IF n = m + 1 THEN x ELSE s[n]]
  <2> HIDE DEF x
  <2>2. t = [n \in 0 .. m + 1 |-> t[n]] /\ t[0] = s[0]
    OBVIOUS
  <2>3. ASSUME NEW n \in 1 .. m + 1 PROVE t[n] = WithChilds(t[n - 1])
    <3>1. CASE n = m + 1
      <4>1. n - 1 = m /\ n - 1 \in 0 .. m + 1 /\ n - 1 # m + 1 /\ n \in 0 .. m + 1
        BY <3>1
      <4>2. t[n] = x /\ t[n - 1] = s[m]
        BY <3>1, <4>1
      <4> HIDE DEF t
      <4> QED BY <4>2 DEF x
    <3>2. CASE n # m + 1
      <4>1. n \in 1 .. m /\ n \in 0 .. m + 1 /\ n - 1 \in 0 .. m + 1 /\ n - 1 # m + 1
        BY <3>2
      <4>2. t[n] = s[n] /\ t[n - 1] = s[n - 1]
        BY <3>2, <4>1
      <4> HIDE DEF t
      <4> QED BY <2>1, <4>1, <4>2
    <3> QED BY <3>1, <3>2
  <2> HIDE DEF t
  <2>4. Fits(t, m + 1)
    BY <2>1, <2>2, <2>3
  <2> HIDE DEF Fits
  <2> QED BY <2>4
<1>3. P = Nat
  <2>1. P \in SUBSET Nat
    OBVIOUS
  <2> HIDE DEF P
  <2> QED BY <1>1, <1>2, <2>1, Induction
<1>4. PICK s : Fits(s, top)
  <2>1. top \in P
    BY <1>3
  <2> HIDE DEF Fits
  <2> QED BY <2>1
<1>5. s = [n \in 0 .. top |-> IF n = 0 THEN {i} ELSE WithChilds(s[n - 1])]
  <2>1. ASSUME NEW n \in 0 .. top PROVE s[n] = IF n = 0 THEN {i} ELSE WithChilds(s[n - 1])
    <3>1. n = 0 \/ n \in 1 .. top
      OBVIOUS
    <3> QED BY <1>4, <3>1
  <2>2. s = [n \in 0 .. top |-> s[n]]
    BY <1>4
  <2> QED BY <2>1, <2>2
<1> DEFINE below == CHOOSE b : b = [n \in 0 .. top |-> IF n = 0 THEN {i} ELSE WithChilds(b[n - 1])]
<1>6. below = [n \in 0 .. top |-> IF n = 0 THEN {i} ELSE WithChilds(below[n - 1])]
  BY <1>5
<1>7. Below(i) = below[top]
  BY DEF Below
<1> HIDE DEF below
<1> DEFINE Q == {n \in Nat : n <= top => below[n] \subseteq S}
<1>8. 0 \in Q
  <2>1. below[0] = {i}
    BY <1>6
  <2> QED BY <2>1
<1>9. ASSUME NEW n \in Q PROVE n + 1 \in Q
  <2>1. ASSUME n + 1 <= top PROVE below[n + 1] \subseteq S
    <3>1. n + 1 \in 0 .. top /\ n + 1 # 0 /\ (n + 1) - 1 = n /\ below[n] \subseteq S
      BY <2>1
    <3>2. below[n + 1] = WithChilds(below[n])
      BY <1>6, <3>1
    <3>3. WithChilds(below[n]) \subseteq S
      BY <3>1 DEF WithChilds, Closed
    <3> QED BY <3>2, <3>3
  <2> QED BY <2>1
<1>10. Q = Nat
  <2>1. Q \in SUBSET Nat
    OBVIOUS
  <2> HIDE DEF Q
  <2> QED BY <1>8, <1>9, <2>1, Induction
<1> QED BY <1>7, <1>10

LEMMA PartsInOrder ==
  ASSUME Len(query) \in Nat, NEW R, Neat(nodes, R), NEW x \in nodes
  PROVE  InOrder(Parts(x))
<1>1. x.childs \in Seq(R) /\ Placed(nodes, R, x)
  BY DEF Neat
<1>2. PICK S : /\ \A c \in DOMAIN x.childs :
                    x.childs[c] \in S[c] /\ S[c] \subseteq R /\ Closed(nodes, S[c])
               /\ Apart(x, S)
  BY <1>1 DEF Placed
<1> DEFINE below == [c \in DOMAIN x.childs |-> Below(x.childs[c])]
<1>3. \A c \in DOMAIN x.childs : below[c] \subseteq S[c]
  BY <1>2, BelowIn
<1>4. PICK n \in Nat : n = Len(x.childs) /\ DOMAIN x.childs = 1 .. n
  BY <1>1
<1>5. Parts(x) = IF IsInfix(x) THEN <<below[1], {x.tok}, below[2]>> ELSE <<{x.tok}>> \o below
  BY DEF Parts
<1>6. DOMAIN below = 1 .. n
  BY <1>4
<1> HIDE DEF below
<1>7. \A c, d \in 1 .. n : c < d => Before(below[c], below[d])
  BY <1>2, <1>3, <1>4 DEF Apart, Before
<1>8. CASE IsInfix(x)
  <2>1. n = 2
    BY <1>4, <1>8 DEF IsInfix
  <2>2. /\ 1 \in DOMAIN x.childs /\ 2 \in DOMAIN x.childs
    BY <1>4, <2>1
  <2>3. Before(below[1], {x.tok}) /\ Before({x.tok}, below[2]) /\ Before(below[1], below[2])
    <3>1. Before(S[1], {x.tok}) /\ Before({x.tok}, S[2])
      <4>1. IF IsInfix(x) /\ 1 = 1 THEN Before(S[1], {x.tok}) ELSE Before({x.tok}, S[1])
        BY <1>2, <2>2 DEF Apart
      <4>2. IF IsInfix(x) /\ 2 = 1 THEN Before(S[2], {x.tok}) ELSE Before({x.tok}, S[2])
        BY <1>2, <2>2 DEF Apart
      <4> QED BY <1>8, <4>1, <4>2
    <3>2. Before(below[1], below[2])
      BY <1>7, <2>1
    <3> QED BY <1>3, <2>2, <3>1, <3>2 DEF Before
  <2> DEFINE parts == <<below[1], {x.tok}, below[2]>>
  <2>4. /\ DOMAIN parts = 1 .. 3
        /\ parts[1] = below[1] /\ parts[2] = {x.tok} /\ parts[3] = below[2]
    OBVIOUS
  <2>5. Parts(x) = parts
    BY <1>5, <1>8
  <2> HIDE DEF parts
  <2>6. ASSUME NEW c \in 1 .. 3, NEW d \in 1 .. 3, c < d PROVE Before(parts[c], parts[d])
    <3>1. (c = 1 /\ d = 2) \/ (c = 1 /\ d = 3) \/ (c = 2 /\ d = 3)
      BY <2>6
    <3> QED BY <2>3, <2>4, <3>1
  <2> QED BY <2>4, <2>5, <2>6 DEF InOrder
<1>9. CASE ~IsInfix(x)
  <2> DEFINE parts == <<{x.tok}>> \o below
  <2>1. below = [c \in 1 .. n |-> below[c]]
    BY <1>6 DEF below
  <2>2. below \in Seq(SUBSET R) /\ Len(below) = n
    <3>1. \A c \in 1 .. n : below[c] \in SUBSET R
      BY <1>2, <1>3, <1>4
    <3> QED BY <2>1, <3>1
  <2>3. /\ DOMAIN parts = 1 .. n + 1 /\ parts[1] = {x.tok}
        /\ \A c \in 1 .. n : parts[c + 1] = below[c]
    BY <2>2
  <2>4. Parts(x) = parts
    BY <1>5, <1>9
  <2> HIDE DEF parts
  <2>5. \A c \in 1 .. n : Before({x.tok}, below[c])
    <3>1. \A c \in 1 .. n : Before({x.tok}, S[c])
      BY <1>2, <1>4, <1>9 DEF Apart
    <3> QED BY <1>3, <1>4, <3>1 DEF Before
  <2>6. ASSUME NEW c \in 1 .. n + 1, NEW d \in 1 .. n + 1, c < d
        PROVE  Before(parts[c], parts[d])
    <3>1. d - 1 \in 1 .. n /\ parts[d] = below[d - 1]
      <4>1. d - 1 \in 1 .. n /\ (d - 1) + 1 = d
        BY <2>6
      <4>2. parts[(d - 1) + 1] = below[d - 1]
        BY <2>3, <4>1
      <4> QED BY <4>1, <4>2
    <3>2. CASE c = 1
      BY <2>3, <2>5, <3>1, <3>2
    <3>3. CASE c # 1
      <4>1. c - 1 \in 1 .. n /\ (c - 1) + 1 = c /\ c - 1 < d - 1
        BY <2>6, <3>3
      <4>2. parts[(c - 1) + 1] = below[c - 1]
        BY <2>3, <4>1
      <4> QED BY <1>7, <3>1, <4>1, <4>2
    <3> QED BY <3>2, <3>3
  <2> QED BY <2>3, <2>4, <2>6 DEF InOrder
<1> QED BY <1>8, <1>9

LEMMA SteppedFacts == Stepped = SteppedBy(nodes)
BY DEF Stepped, SteppedBy, CharColumns

LEMMA LosesNothing == ParseInv => NothingLost
<1> SUFFICES ASSUME ParseInv, out = "ok" PROVE NothingLost
  BY DEF NothingLost
<1>1. /\ Len(query) \in Nat /\ token = Len(query)
      /\ root \in Seq(0 .. token - 1) /\ Neat(nodes, 1 .. token - 1)
      /\ Covers(nodes, 1 .. token - 1)
  BY QueryFacts DEF ParseInv, Built
<1>2. PICK hs \in Seq(0 .. token - 1) : Hangs(hs, nodes, token) /\ Remembers(root, hs)
  BY DEF ParseInv, Built
<1>3. PICK g : g = Gone(Len(root))
  OBVIOUS
<1> DEFINE toks == {x.tok : x \in nodes}
           kept == {c \in DOMAIN root : root[c] # 0}
           hung == {root[c] : c \in kept} \cup UNION {Range(x.childs) : x \in nodes}
<1>4. toks = Toks(nodes)
  BY DEF Toks
<1>5. hung = {root[c] : c \in kept} \cup Kids(nodes)
  BY DEF Kids
<1>6. PICK S : /\ \A c \in 1 .. Len(hs) :
                    hs[c] \in S[c] /\ S[c] \subseteq 1 .. token - 1 /\ Closed(nodes, S[c])
               /\ \A c, d \in 1 .. Len(hs) : c < d => Before(S[c], S[d])
  BY <1>2 DEF Hangs
<1>7. /\ DOMAIN root = 1 .. Len(root) /\ DOMAIN hs = 1 .. Len(root)
      /\ Len(root) \in Nat /\ Len(hs) = Len(root)
      /\ \A c \in 1 .. Len(root) : root[c] = IF c <= g THEN 0 ELSE hs[c]
  BY <1>1, <1>2, <1>3 DEF Remembers
<1>8. \A c \in 1 .. Len(root) : hs[c] # 0 /\ Below(hs[c]) \subseteq S[c]
  <2>1. ASSUME NEW c \in 1 .. Len(root) PROVE hs[c] # 0 /\ Below(hs[c]) \subseteq S[c]
    <3>1. hs[c] \in S[c] /\ S[c] \subseteq 1 .. token - 1 /\ Closed(nodes, S[c])
      BY <1>6, <1>7
    <3> QED BY <1>1, <3>1, BelowIn
  <2> QED BY <2>1
<1>9. g \in Nat
  BY <1>3, <1>7, GoneBound
<1>10. kept = {c \in DOMAIN root : c > g}
  BY <1>7, <1>8, <1>9
<1>11. \A c \in kept : c \in 1 .. Len(root) /\ c > g /\ root[c] = hs[c]
  BY <1>7, <1>9, <1>10
<1>12. \A i \in toks : i \in Kids(nodes) \/ \E c \in 1 .. Len(root) : i = hs[c]
  BY <1>2, <1>4, <1>7 DEF Hangs, Range
<1>13. hung \subseteq toks
  <2>1. \A c \in kept : root[c] \in Range(hs)
    BY <1>7, <1>11 DEF Range
  <2>2. Toks(nodes) = Range(hs) \cup Kids(nodes)
    BY <1>2 DEF Hangs
  <2> HIDE DEF toks, kept, hung
  <2> QED BY <1>4, <1>5, <2>1, <2>2
<1> HIDE DEF toks, kept
<1>14. ASSUME NEW i \in toks, i \notin hung
       PROVE  \E c \in 1 .. Len(root) : i = hs[c] /\ c <= g
  <2>1. i \notin Kids(nodes)
    BY <1>5, <1>14
  <2>2. PICK c \in 1 .. Len(root) : i = hs[c]
    BY <1>12, <2>1
  <2>3. CASE c \in kept
    <3>1. i = root[c]
      BY <1>11, <2>2, <2>3
    <3> QED BY <1>14, <2>3, <3>1
  <2>4. CASE c \notin kept
    <3>1. c <= g
      BY <1>7, <1>9, <1>10, <2>4
    <3> QED BY <2>2, <3>1
  <2> QED BY <2>3, <2>4
<1> HIDE DEF hung
<1>15. kept = DOMAIN root => hung = toks
  <2>1. ASSUME kept = DOMAIN root, NEW i \in toks PROVE i \in hung
    <3>1. SUFFICES ASSUME i \notin hung PROVE FALSE
      OBVIOUS
    <3>2. PICK c \in 1 .. Len(root) : i = hs[c] /\ c <= g
      BY <1>14, <3>1
    <3>3. c \in kept
      BY <1>7, <2>1, <3>2
    <3>4. c > g
      BY <1>11, <3>3
    <3> QED BY <1>9, <3>2, <3>4
  <2> QED BY <1>13, <2>1
<1>16. \A i \in toks \ hung, c \in kept : Before({i}, Below(root[c]))
  <2>1. ASSUME NEW i \in toks \ hung, NEW d \in kept PROVE Before({i}, Below(root[d]))
    <3>1. PICK c \in 1 .. Len(root) : i = hs[c] /\ c <= g
      BY <1>14
    <3>2. d \in 1 .. Len(root) /\ d > g /\ root[d] = hs[d]
      BY <1>11
    <3>3. c < d
      BY <1>9, <3>1, <3>2
    <3>4. hs[c] \in S[c] /\ Before(S[c], S[d]) /\ Below(hs[d]) \subseteq S[d]
      BY <1>6, <1>7, <1>8, <3>2, <3>3
    <3> QED BY <3>1, <3>2, <3>4 DEF Before
  <2> QED BY <2>1
<1>17. \A x, y \in nodes : x.tok = y.tok => x = y
  BY <1>1 DEF Neat
<1>18. \A x \in nodes : InOrder(Parts(x))
  BY <1>1, PartsInOrder
<1>19. InOrder([c \in kept |-> Below(root[c])])
  <2>1. ASSUME NEW c \in kept, NEW d \in kept, c < d
        PROVE  Before(Below(root[c]), Below(root[d]))
    <3>1. /\ c \in 1 .. Len(root) /\ root[c] = hs[c]
          /\ d \in 1 .. Len(root) /\ root[d] = hs[d]
      BY <1>11
    <3>2. Before(S[c], S[d]) /\ Below(hs[c]) \subseteq S[c] /\ Below(hs[d]) \subseteq S[d]
      BY <1>6, <1>7, <1>8, <2>1, <3>1
    <3> QED BY <3>1, <3>2 DEF Before
  <2> QED BY <2>1 DEF InOrder
<1>20. \A i \in 1 .. Len(query) - 1 : i \in toks \cup Stepped \/ query[i] \in {"(", ")"}
  BY <1>1, <1>4, SteppedFacts DEF Covers
<1>21. kept = {c \in DOMAIN root : c > Gone(Len(root))}
  BY <1>3, <1>10
<1> QED BY <1>13, <1>15, <1>16, <1>17, <1>18, <1>19, <1>20, <1>21
        DEF NothingLost, toks, kept, hung

\* A query that is accepted is in its nodes, each token once and in its place,
\* but for the parentheses and what is stepped over; and all nodes are in its
\* tree, but for the clauses the root held when its array last grew, if it did.
THEOREM NothingIsLost == Spec => []NothingLost
BY ParseInvariance, LosesNothing, PTL

-----------------------------------------------------------------------------
(* Binding powers.  What is said of a call's tree is said for all depths   *)
(* D and all tokens stepped over that agree with the tree, for the query   *)
(* behind it has not been read yet.                                        *)

Opens(St, p) ==
  IF p \in St THEN 0
  ELSE CASE query[p] = "(" -> 1 [] query[p] = ")" -> -1 [] OTHER -> 0

Sums(D, St) ==
  /\ \A p \in 0 .. Len(query) : D[p] \in Int
  /\ \A p \in 1 .. Len(query) : D[p] = D[p - 1] + Opens(St, p)

Plain(N) == \A x \in N : query[x.tok] \notin {"(", ")"}

Fit(N, R, D, St) == Sums(D, St) /\ Plain(N) /\ SteppedBy(N) = St \cap R

\* An operator and its operands, as Precedence says.
Binds(D, node, left, right) ==
  LET op == query[node.tok]
  IN  /\ D[left.tok] = D[node.tok] =>
           /\ ~IsSigned(left)
           /\ IsInfix(left) => Lhs(op) < Rhs(query[left.tok])
      /\ D[right.tok] = D[node.tok] /\ IsInfix(right) => Lhs(query[right.tok]) >= Rhs(op)

Prec(N, D) ==
  \A node, left, right \in N :
    IsInfix(node) /\ node.childs = <<left.tok, right.tok>> => Binds(D, node, left, right)

\* The token at p is no operator that binds as strongly as b.
Weak(p, b) ==
  query[p] \notin Expressions \/ query[p] \in {"(", ")"} \/ Lhs(query[p]) < b

\* What an operator at place p that takes the tree as its left operand, or one
\* that binds at most as strongly as b and takes it as its right one, relies on.
Heads(T, b, p, depth, D) ==
  \A h \in T.nodes :
    h.tok = T.head /\ D[h.tok] = depth =>
      /\ IsInfix(h) => Lhs(query[h.tok]) >= b /\ Weak(p, Rhs(query[h.tok]))
      /\ IsSigned(h) => Weak(p, 0)

StrongAt(T, j, i, b, D) ==
  /\ D[j] = D[i - 1] /\ D[T.head] >= D[i - 1]
  /\ Prec(T.nodes, D)
  /\ Heads(T, b, j + 1, D[i - 1], D)

Strong(T, j, i, b) ==
  \A D, St : Fit(T.nodes, i .. j, D, St) => StrongAt(T, j, i, b, D)

StrongCall(r, i, b) == r.st = "ok" => Strong(r.tree, r.i, i, b) /\ Weak(r.i + 1, b)

Binding(call) ==
  \A i \in 1 .. Len(query), b \in 0 .. 8 : StrongCall(call[i][b], i, b)

\* A token that is no parenthesis, or stepped over, is as deep as the one before.
LEMMA SameDepth ==
  ASSUME NEW D, NEW St, Sums(D, St), NEW p \in 1 .. Len(query),
         p \in St \/ query[p] \notin {"(", ")"}
  PROVE  D[p] = D[p - 1]
<1>1. Opens(St, p) = 0
  BY DEF Opens
<1>2. D[p] = D[p - 1] + Opens(St, p) /\ D[p - 1] \in Int
  <2>1. p - 1 \in 0 .. Len(query)
    OBVIOUS
  <2> QED BY <2>1 DEF Sums
<1> QED BY <1>1, <1>2

LEMMA Deeper ==
  ASSUME NEW D, NEW St, Sums(D, St), NEW p \in 1 .. Len(query), p \notin St
  PROVE  /\ query[p] = "(" => D[p] = D[p - 1] + 1
         /\ query[p] = ")" => D[p] = D[p - 1] - 1
<1>1. D[p] = D[p - 1] + Opens(St, p) /\ D[p - 1] \in Int
  <2>1. p - 1 \in 0 .. Len(query)
    OBVIOUS
  <2> QED BY <2>1 DEF Sums
<1>2. query[p] = "(" => Opens(St, p) = 1
  BY DEF Opens
<1>3. query[p] = ")" => Opens(St, p) = -1
  BY DEF Opens
<1> QED BY <1>1, <1>2, <1>3

LEMMA PairIn ==
  ASSUME NEW R, NEW s \in Seq(R), NEW a, NEW b, s = <<a, b>>
  PROVE  a \in R /\ b \in R
<1>1. 1 \in DOMAIN s /\ 2 \in DOMAIN s /\ s[1] = a /\ s[2] = b
  OBVIOUS
<1>2. \A c \in DOMAIN s : s[c] \in R
  OBVIOUS
<1> QED BY <1>1, <1>2

\* What is true of the parts is true of the whole.
LEMMA PrecUnion ==
  ASSUME NEW M, NEW N, NEW R, NEW Q, Neat(M, R), Neat(N, Q), R \cap Q = {},
         NEW D, Prec(M, D), Prec(N, D)
  PROVE  Prec(M \cup N, D)
<1>1. /\ \A x \in M : x.tok \in R /\ x.childs \in Seq(R)
      /\ \A x \in N : x.tok \in Q /\ x.childs \in Seq(Q)
  BY DEF Neat
<1>2. ASSUME NEW node \in M \cup N, NEW left \in M \cup N, NEW right \in M \cup N,
             IsInfix(node), node.childs = <<left.tok, right.tok>>
      PROVE  Binds(D, node, left, right)
  <2>1. CASE node \in M
    <3>1. left.tok \in R /\ right.tok \in R
      BY <1>1, <1>2, <2>1, PairIn
    <3>2. left \in M /\ right \in M
      BY <1>1, <3>1
    <3> QED BY <1>2, <2>1, <3>2 DEF Prec
  <2>2. CASE node \in N
    <3>1. left.tok \in Q /\ right.tok \in Q
      BY <1>1, <1>2, <2>2, PairIn
    <3>2. left \in N /\ right \in N
      BY <1>1, <3>1
    <3> QED BY <1>2, <2>2, <3>2 DEF Prec
  <2> QED BY <2>1, <2>2
<1> QED BY <1>2 DEF Prec

\* A node on top of others.
Tops(x, N, D) ==
  \A left, right \in {x} \cup N :
    IsInfix(x) /\ x.childs = <<left.tok, right.tok>> => Binds(D, x, left, right)

LEMMA PrecTop ==
  ASSUME NEW x, NEW N, NEW R, Neat(N, R), x.tok \notin R, NEW D, Prec(N, D), Tops(x, N, D)
  PROVE  Prec({x} \cup N, D)
<1>1. \A y \in N : y.tok \in R /\ y.childs \in Seq(R)
  BY DEF Neat
<1>2. ASSUME NEW node \in {x} \cup N, NEW left \in {x} \cup N, NEW right \in {x} \cup N,
             IsInfix(node), node.childs = <<left.tok, right.tok>>
      PROVE  Binds(D, node, left, right)
  <2>1. CASE node = x
    BY <1>2, <2>1 DEF Tops
  <2>2. CASE node \in N
    <3>1. left.tok \in R /\ right.tok \in R
      BY <1>1, <1>2, <2>2, PairIn
    <3>2. left \in N /\ right \in N
      BY <3>1
    <3> QED BY <1>2, <2>2, <3>2 DEF Prec
  <2> QED BY <2>1, <2>2
<1> QED BY <1>2 DEF Prec

\* Nodes that are no operators with two operands.
LEMMA PrecNone ==
  ASSUME NEW N, NEW D, \A x \in N : ~IsInfix(x)
  PROVE  Prec(N, D)
BY DEF Prec

LEMMA PlainFacts ==
  ASSUME NEW M, NEW N, M \subseteq N, Plain(N)
  PROVE  Plain(M)
BY DEF Plain

\* What one part has read of it fits the part.
LEMMA FitPart ==
  ASSUME NEW M, NEW N, NEW R, NEW Q, NEW D, NEW St, Fit(N, Q, D, St), M \subseteq N,
         R \subseteq Q, SteppedBy(N) \cap R = SteppedBy(M)
  PROVE  Fit(M, R, D, St)
<1>1. Plain(M)
  BY PlainFacts DEF Fit
<1>2. SteppedBy(M) = St \cap R
  BY DEF Fit
<1> QED BY <1>1, <1>2 DEF Fit

-----------------------------------------------------------------------------
(* The calls bind.                                                         *)

LEMMA OneNode ==
  ASSUME NEW i, NEW T
  PROVE  /\ Tree(i, <<T>>).head = i
         /\ Tree(i, <<T>>).nodes = {Node(i, <<T.head>>)} \cup T.nodes
<1> DEFINE below == <<T>>
<1>1. DOMAIN below = {1} /\ below[1] = T
  OBVIOUS
<1> HIDE DEF below
<1>2. [c \in DOMAIN below |-> below[c].head] = <<T.head>>
  BY <1>1
<1>3. UNION {below[c].nodes : c \in DOMAIN below} = T.nodes
  BY <1>1
<1>4. /\ Tree(i, below).head = i
      /\ Tree(i, below).nodes = {Node(i, [c \in DOMAIN below |-> below[c].head])}
                                   \cup UNION {below[c].nodes : c \in DOMAIN below}
  BY DEF Tree
<1> QED BY <1>2, <1>3, <1>4 DEF below

LEMMA TwoNodes ==
  ASSUME NEW i, NEW T, NEW U
  PROVE  /\ Tree(i, <<T, U>>).head = i
         /\ Tree(i, <<T, U>>).nodes = {Node(i, <<T.head, U.head>>)} \cup (T.nodes \cup U.nodes)
<1> DEFINE below == <<T, U>>
<1>1. DOMAIN below = {1, 2} /\ below[1] = T /\ below[2] = U
  OBVIOUS
<1> HIDE DEF below
<1>2. [c \in DOMAIN below |-> below[c].head] = <<T.head, U.head>>
  BY <1>1
<1>3. UNION {below[c].nodes : c \in DOMAIN below} = T.nodes \cup U.nodes
  BY <1>1
<1>4. /\ Tree(i, below).head = i
      /\ Tree(i, below).nodes = {Node(i, [c \in DOMAIN below |-> below[c].head])}
                                   \cup UNION {below[c].nodes : c \in DOMAIN below}
  BY DEF Tree
<1> QED BY <1>2, <1>3, <1>4 DEF below

LEMMA NodeFacts ==
  /\ \A i, s : Node(i, s).tok = i /\ Node(i, s).childs = s
  /\ \A i, a : ~IsInfix(Node(i, <<a>>)) /\ ~IsInfix(Node(i, << >>)) /\ ~IsSigned(Node(i, << >>))
  /\ \A i, a, b : ~IsSigned(Node(i, <<a, b>>))
<1>1. \A i, s : Node(i, s).tok = i /\ Node(i, s).childs = s
  BY DEF Node
<1>2. \A a, b : Len(<<a>>) = 1 /\ Len(<<a, b>>) = 2
  OBVIOUS
<1>3. Len(<< >>) = 0
  OBVIOUS
<1> QED BY <1>1, <1>2, <1>3 DEF IsInfix, IsSigned

\* The head's own node is all that Heads is about.
LEMMA HeadsTop ==
  ASSUME NEW T, NEW x, NEW N, T.nodes = {x} \cup N, T.head = x.tok,
         \A y \in N : y.tok # x.tok, NEW b, NEW p, NEW depth, NEW D,
         IsInfix(x) => Lhs(query[x.tok]) >= b /\ Weak(p, Rhs(query[x.tok])),
         IsSigned(x) => Weak(p, 0)
  PROVE  Heads(T, b, p, depth, D)
<1>1. ASSUME NEW h \in T.nodes, h.tok = T.head PROVE h = x
  BY <1>1
<1> QED BY <1>1 DEF Heads

\* What a part of the tree stepped over, and nothing else of what it has read.
LEMMA PartFits ==
  ASSUME NEW M, NEW N, NEW R, NEW Q, NEW D, NEW St, Fit(N, Q, D, St), M \subseteq N,
         R \subseteq Q, SteppedBy(M) \subseteq R, NEW P, SteppedBy(N) = SteppedBy(M) \cup P,
         P \cap R = {}
  PROVE  Fit(M, R, D, St)
<1>1. SteppedBy(N) \cap R = SteppedBy(M)
  OBVIOUS
<1> QED BY <1>1, FitPart

LEMMA PrefixStrong ==
  ASSUME IsQuery(query), NEW i \in 1 .. Len(query), NEW T, NEW j, NEW b,
         j \in i + 1 .. Len(query), Grown(T, i + 1 .. j),
         SteppedBy(T.nodes) \subseteq i + 1 .. j,
         query[i] \in {"+", "-"}, Strong(T, j, i + 1, 0), Weak(j + 1, 0)
  PROVE  Strong(Tree(i, <<T>>), j, i, b)
<1> DEFINE U == Tree(i, <<T>>)
           x == Node(i, <<T.head>>)
<1>1. Len(query) \in Nat /\ i \in Nat /\ j \in Nat /\ (i + 1) - 1 = i
  BY QueryFacts
<1>2. U.head = i /\ U.nodes = {x} \cup T.nodes
  BY OneNode
<1>3. x.tok = i /\ ~IsInfix(x)
  BY NodeFacts
<1>4. SteppedBy(U.nodes) = SteppedBy(T.nodes)
  <2>1. PICK R \in SUBSET Nat : R = i + 1 .. j
    BY <1>1
  <2>2. Before({i}, R) /\ Grown(T, R)
    BY <1>1, <2>1 DEF Before
  <2> QED BY <1>1, <2>1, <2>2, OneBelow
<1>5. /\ \A y \in T.nodes : y.tok \in i + 1 .. j
      /\ Neat(T.nodes, i + 1 .. j) /\ i \notin i + 1 .. j
  BY <1>1 DEF Grown, Neat
<1> HIDE DEF U, x
<1>6. ASSUME NEW D, NEW St, Fit(U.nodes, i .. j, D, St)
      PROVE  StrongAt(U, j, i, b, D)
  <2>1. Fit(T.nodes, i + 1 .. j, D, St)
    <3>1. T.nodes \subseteq U.nodes /\ i + 1 .. j \subseteq i .. j
      BY <1>1, <1>2
    <3>2. SteppedBy(U.nodes) \cap (i + 1 .. j) = SteppedBy(T.nodes)
      BY <1>4
    <3> QED BY <1>6, <3>1, <3>2, FitPart
  <2>2. StrongAt(T, j, i + 1, 0, D)
    BY <2>1 DEF Strong
  <2>3. D[i] = D[i - 1]
    <3>1. Sums(D, St)
      BY <1>6 DEF Fit
    <3> QED BY <3>1, SameDepth
  <2>4. D[j] = D[i - 1] /\ Prec(T.nodes, D)
    BY <1>1, <2>2, <2>3 DEF StrongAt
  <2>5. D[U.head] >= D[i - 1]
    <3>1. D[i] \in Int
      <4>1. i \in 0 .. Len(query)
        BY <1>1
      <4> QED BY <1>6, <4>1 DEF Fit, Sums
    <3> QED BY <1>2, <2>3, <3>1
  <2>6. Prec(U.nodes, D)
    <3>1. Tops(x, T.nodes, D)
      BY <1>3 DEF Tops
    <3>2. x.tok \notin i + 1 .. j
      BY <1>3, <1>5
    <3> QED BY <1>2, <1>5, <2>4, <3>1, <3>2, PrecTop
  <2>7. Heads(U, b, j + 1, D[i - 1], D)
    <3>1. \A y \in T.nodes : y.tok # x.tok
      BY <1>3, <1>5
    <3>2. U.head = x.tok
      BY <1>2, <1>3
    <3> QED BY <1>2, <1>3, <3>1, <3>2, HeadsTop
  <2> QED BY <2>4, <2>5, <2>6, <2>7 DEF StrongAt
<1> QED BY <1>6 DEF Strong, U

LEMMA EnclosedStrong ==
  ASSUME IsQuery(query), NEW i \in 1 .. Len(query), NEW T, NEW j, NEW b,
         j \in i + 1 .. Len(query) - 1, Grown(T, i + 1 .. j),
         SteppedBy(T.nodes) \subseteq i + 1 .. j,
         query[i] = "(", query[j + 1] = ")", Strong(T, j, i + 1, 0)
  PROVE  Strong(T, j + 1, i, b)
<1>1. Len(query) \in Nat /\ i \in Nat /\ j \in Nat /\ (i + 1) - 1 = i /\ (j + 1) - 1 = j
  BY QueryFacts
<1>2. ASSUME NEW D, NEW St, Fit(T.nodes, i .. j + 1, D, St)
      PROVE  StrongAt(T, j + 1, i, b, D)
  <2>1. Sums(D, St) /\ SteppedBy(T.nodes) = St \cap (i .. j + 1)
    BY <1>2 DEF Fit
  <2>2. i \notin St /\ j + 1 \notin St
    <3>1. i \in i .. j + 1 /\ i \notin i + 1 .. j /\ j + 1 \in i .. j + 1 /\ j + 1 \notin i + 1 .. j
      BY <1>1
    <3> QED BY <2>1, <3>1
  <2>3. Fit(T.nodes, i + 1 .. j, D, St)
    <3>1. i + 1 .. j \subseteq i .. j + 1
      BY <1>1
    <3> QED BY <1>2, <3>1, FitPart
  <2>4. StrongAt(T, j, i + 1, 0, D)
    BY <2>3 DEF Strong
  <2>5. /\ D[j] = D[i] /\ D[T.head] >= D[i] /\ Prec(T.nodes, D)
    BY <1>1, <2>4 DEF StrongAt
  <2>6. D[i - 1] \in Int /\ D[i] = D[i - 1] + 1
    <3>1. i - 1 \in 0 .. Len(query)
      BY <1>1
    <3> QED BY <2>1, <2>2, <3>1, Deeper DEF Sums
  <2>7. D[j + 1] = D[i - 1]
    <3>1. j + 1 \in 1 .. Len(query)
      BY <1>1
    <3>2. D[j + 1] = D[j] - 1
      BY <1>1, <2>1, <2>2, <3>1, Deeper
    <3> QED BY <2>5, <2>6, <3>2
  <2>8. D[T.head] \in Int
    <3>1. T.head \in 0 .. Len(query)
      <4>1. T.head \in i + 1 .. j
        BY DEF Grown, Neat, Toks
      <4> QED BY <1>1, <4>1
    <3> QED BY <2>1, <3>1 DEF Sums
  <2>9. D[T.head] >= D[i - 1] /\ D[T.head] # D[i - 1]
    BY <2>5, <2>6, <2>8
  <2>10. Heads(T, b, (j + 1) + 1, D[i - 1], D)
    BY <2>9 DEF Heads
  <2> QED BY <2>5, <2>7, <2>9, <2>10 DEF StrongAt
<1> QED BY <1>2 DEF Strong

\* An operand that is read without a call: its tokens are all in its tree, or
\* stepped over.
Words(T, i, j) ==
  /\ T.head = i
  /\ \A x \in T.nodes : ~IsInfix(x) /\ (x.tok = i => ~IsSigned(x))
  /\ \A p \in i .. j : p \in Toks(T.nodes) \cup SteppedBy(T.nodes)

LEMMA WordsStrong ==
  ASSUME IsQuery(query), NEW i \in 1 .. Len(query), NEW T, NEW j, NEW b,
         j = i \/ j = i + 1 \/ j = i + 4, j <= Len(query), Words(T, i, j)
  PROVE  Strong(T, j, i, b)
<1>1. Len(query) \in Nat /\ i \in Nat /\ j \in Nat
  BY QueryFacts
<1>2. ASSUME NEW D, NEW St, Fit(T.nodes, i .. j, D, St)
      PROVE  StrongAt(T, j, i, b, D)
  <2>1. Sums(D, St) /\ Plain(T.nodes) /\ SteppedBy(T.nodes) = St \cap (i .. j)
    BY <1>2 DEF Fit
  <2>2. ASSUME NEW p \in i .. j PROVE D[p] = D[p - 1]
    <3>1. p \in St \/ query[p] \notin {"(", ")"}
      BY <2>1 DEF Plain, Toks, Words
    <3>2. p \in 1 .. Len(query)
      BY <1>1
    <3> QED BY <2>1, <3>1, <3>2, SameDepth
  <2>3. D[i] = D[i - 1]
    <3>1. i \in i .. j
      BY <1>1
    <3> QED BY <2>2, <3>1
  <2>4. j = i + 1 => D[i + 1] = D[i]
    <3>1. j = i + 1 => i + 1 \in i .. j /\ (i + 1) - 1 = i
      BY <1>1
    <3> QED BY <2>2, <3>1
  <2>5. j = i + 4 => D[i + 4] = D[i]
    <3>1. j = i + 4 => /\ i + 1 \in i .. j /\ (i + 1) - 1 = i
                       /\ i + 2 \in i .. j /\ (i + 2) - 1 = i + 1
                       /\ i + 3 \in i .. j /\ (i + 3) - 1 = i + 2
                       /\ i + 4 \in i .. j /\ (i + 4) - 1 = i + 3
      BY <1>1
    <3> QED BY <2>2, <3>1
  <2>6. D[j] = D[i - 1]
    BY <2>3, <2>4, <2>5
  <2>7. D[T.head] >= D[i - 1]
    <3>1. i \in 0 .. Len(query)
      BY <1>1
    <3>2. D[i] \in Int
      BY <2>1, <3>1 DEF Sums
    <3> QED BY <2>3, <3>2 DEF Words
  <2>8. Prec(T.nodes, D)
    BY PrecNone DEF Words
  <2>9. Heads(T, b, j + 1, D[i - 1], D)
    BY DEF Heads, Words
  <2> QED BY <2>6, <2>7, <2>8, <2>9 DEF StrongAt
<1> QED BY <1>2 DEF Strong

LEMMA LeafStrong ==
  ASSUME IsQuery(query), NEW i \in 1 .. Len(query), NEW b
  PROVE  Strong(Leaf(i), i, i, b)
<1>1. Len(query) \in Nat /\ i \in Nat /\ i <= Len(query)
  BY QueryFacts
<1>2. PICK T : T = Leaf(i)
  OBVIOUS
<1>3. T.head = i /\ T.nodes = {Node(i, << >>)}
  BY <1>1, <1>2, LeafGrown
<1>4. \A x \in T.nodes : ~IsInfix(x) /\ ~IsSigned(x) /\ x.tok = i
  BY <1>3, NodeFacts
<1>5. \A p \in i .. i : p \in Toks(T.nodes) \cup SteppedBy(T.nodes)
  <2>1. i \in Toks(T.nodes)
    BY <1>3, <1>4 DEF Toks
  <2>2. \A p \in i .. i : p = i
    BY <1>1
  <2> QED BY <2>1, <2>2
<1>6. Strong(T, i, i, b)
  <2>1. Words(T, i, i)
    BY <1>3, <1>4, <1>5 DEF Words
  <2> QED BY <1>1, <2>1, WordsStrong
<1> QED BY <1>2, <1>6

LEMMA ColumnStrong ==
  ASSUME IsQuery(query), NEW i \in 1 .. Len(query), query[i] \in Names, NEW b,
         NEW r, r = Column(i), r.st = "ok", r.i <= Len(query)
  PROVE  Strong(r.tree, r.i, i, b)
<1> DEFINE dtype == Expect(i + 1, Datatypes)
<1>1. Len(query) \in Nat /\ i < Len(query) /\ i \in Nat /\ i + 1 \in Nat /\ i + 3 \in Nat
  BY QueryFacts, WordFacts
<1>2. query[i] \notin Operators
  BY WordFacts
<1>3. \A x : x.tok = i => ~IsInfix(x) /\ ~IsSigned(x)
  BY <1>2 DEF IsInfix, IsSigned
<1>4. dtype = "ok"
  BY ResultFacts DEF Column, dtype
<1> HIDE DEF dtype
<1>5. /\ Leaf(i + 1).head = i + 1 /\ Leaf(i + 1).nodes = {Node(i + 1, << >>)}
      /\ Leaf(i + 3).head = i + 3 /\ Leaf(i + 3).nodes = {Node(i + 3, << >>)}
  BY <1>1, LeafGrown
<1>6. CASE query[i + 1] # "char"
  <2>1. PICK T : T = Tree(i, <<Leaf(i + 1)>>)
    OBVIOUS
  <2>2. r = Done(T, i + 1)
    BY <1>4, <1>6, <2>1 DEF Column, dtype
  <2>3. r.tree = T /\ r.i = i + 1
    BY <2>2, ResultFacts
  <2>4. T.head = i /\ T.nodes = {Node(i, <<i + 1>>), Node(i + 1, << >>)}
    <3>1. PICK A : A = Leaf(i + 1)
      OBVIOUS
    <3>2. Tree(i, <<A>>).head = i /\ Tree(i, <<A>>).nodes = {Node(i, <<A.head>>)} \cup A.nodes
      BY OneNode
    <3> QED BY <1>5, <2>1, <3>1, <3>2
  <2>5. \A x \in T.nodes : ~IsInfix(x) /\ (x.tok = i => ~IsSigned(x))
    BY <1>3, <2>4, NodeFacts
  <2>6. \A p \in i .. i + 1 : p \in Toks(T.nodes) \cup SteppedBy(T.nodes)
    <3>1. Node(i, <<i + 1>>).tok = i /\ Node(i + 1, << >>).tok = i + 1
      BY NodeFacts
    <3>2. i \in Toks(T.nodes) /\ i + 1 \in Toks(T.nodes)
      BY <2>4, <3>1 DEF Toks
    <3>3. \A p \in i .. i + 1 : p = i \/ p = i + 1
      BY <1>1
    <3> QED BY <3>2, <3>3
  <2>7. Words(T, i, i + 1)
    BY <2>4, <2>5, <2>6 DEF Words
  <2>8. Strong(T, i + 1, i, b)
    <3>1. PICK j : j = i + 1
      OBVIOUS
    <3>2. j <= Len(query)
      BY <1>1, <3>1
    <3> QED BY <2>7, <3>1, <3>2, WordsStrong
  <2> QED BY <2>3, <2>8
<1>7. CASE query[i + 1] = "char"
  <2>1. PICK T : T = Tree(i, <<Leaf(i + 1), Leaf(i + 3)>>)
    OBVIOUS
  <2>2. Text(query[i + 2]) = "(" /\ Look(i + 3) = "ok"
    BY <1>4, <1>7, ResultFacts DEF Column, dtype
  <2>3. r = Done(T, i + 4)
    BY <1>4, <1>7, <2>1, <2>2 DEF Column, dtype
  <2>4. r.tree = T /\ r.i = i + 4
    BY <2>3, ResultFacts
  <2>5. /\ T.head = i
        /\ T.nodes = {Node(i, <<i + 1, i + 3>>)} \cup ({Node(i + 1, << >>)} \cup {Node(i + 3, << >>)})
    <3>1. PICK A, B : A = Leaf(i + 1) /\ B = Leaf(i + 3)
      OBVIOUS
    <3>2. /\ Tree(i, <<A, B>>).head = i
          /\ Tree(i, <<A, B>>).nodes = {Node(i, <<A.head, B.head>>)} \cup (A.nodes \cup B.nodes)
      BY TwoNodes
    <3> QED BY <1>5, <2>1, <3>1, <3>2
  <2>6. SteppedBy(T.nodes) = {i + 2, i + 4}
    BY <1>1, <2>1, SizedTree
  <2>7. \A x \in T.nodes : ~IsInfix(x) /\ (x.tok = i => ~IsSigned(x))
    <3>1. Node(i, <<i + 1, i + 3>>).tok = i
      BY NodeFacts
    <3>2. ASSUME NEW x \in T.nodes PROVE ~IsInfix(x) /\ (x.tok = i => ~IsSigned(x))
      <4>1. CASE x = Node(i, <<i + 1, i + 3>>)
        BY <1>3, <3>1, <4>1
      <4>2. CASE x = Node(i + 1, << >>) \/ x = Node(i + 3, << >>)
        BY <4>2, NodeFacts
      <4> QED BY <2>5, <4>1, <4>2
    <3> QED BY <3>2
  <2>8. \A p \in i .. i + 4 : p \in Toks(T.nodes) \cup SteppedBy(T.nodes)
    <3>1. /\ Node(i, <<i + 1, i + 3>>).tok = i /\ Node(i + 1, << >>).tok = i + 1
          /\ Node(i + 3, << >>).tok = i + 3
      BY NodeFacts
    <3>2. i \in Toks(T.nodes) /\ i + 1 \in Toks(T.nodes) /\ i + 3 \in Toks(T.nodes)
      BY <2>5, <3>1 DEF Toks
    <3>3. \A p \in i .. i + 4 : p = i \/ p = i + 1 \/ p = i + 2 \/ p = i + 3 \/ p = i + 4
      BY <1>1
    <3> QED BY <2>6, <3>2, <3>3
  <2>9. i + 4 <= Len(query) /\ Words(T, i, i + 4)
    BY <2>4, <2>5, <2>7, <2>8 DEF Words
  <2>10. Strong(T, i + 4, i, b)
    <3>1. PICK j : j = i + 4
      OBVIOUS
    <3> QED BY <2>9, <3>1, WordsStrong
  <2> QED BY <2>4, <2>10
<1> QED BY <1>6, <1>7

\* What comes first.
LEMMA OperandStrong ==
  ASSUME IsQuery(query), NEW kind, NEW call, NEW n \in Nat, Sound(call, n), Binding(call),
         NEW i \in 1 .. Len(query), NEW lhs, lhs = Operand(kind, call, i),
         lhs.st = "ok", lhs.i <= Len(query), NEW b
  PROVE  Strong(lhs.tree, lhs.i, i, b)
<1>1. Len(query) \in Nat /\ i \in Nat /\ i + 1 \in Nat /\ 0 \in 0 .. 8
  BY QueryFacts
<1> DEFINE r == call[i + 1][0]
           signed == kind # "create" /\ query[i] \in {"+", "-"}
<1> HIDE DEF r, signed
<1>2. query[i] \in Operators =>
        SoundCall(r, i + 1, n) /\ StrongCall(r, i + 1, 0) /\ i + 1 \in 1 .. Len(query)
  <2>1. ASSUME query[i] \in Operators PROVE i + 1 \in 1 .. Len(query)
    <3>1. query[i] # "EOQ"
      BY <2>1, WordFacts
    <3> QED BY <1>1, <3>1, QueryFacts
  <2> QED BY <1>1, <2>1 DEF Sound, Binding, r
<1>3. (signed => query[i] \in Operators) /\ (query[i] = "(" => query[i] \in Operators)
  BY DEF signed, Operators
<1>4. r.st = "ok" /\ query[i] \in Operators =>
        /\ r.i \in i + 1 .. Len(query) - 1 /\ Grown(r.tree, i + 1 .. r.i)
        /\ SteppedBy(r.tree.nodes) \subseteq i + 1 .. r.i
        /\ Strong(r.tree, r.i, i + 1, 0) /\ Weak(r.i + 1, 0)
  BY <1>1, <1>2 DEF SoundCall, Reads, StrongCall
<1>5. Look(i) = "ok"
  BY ResultFacts DEF Operand
<1>6. CASE signed
  <2>1. r.st = "ok"
    BY <1>5, <1>6 DEF Operand, r, signed
  <2>2. lhs = Done(Tree(i, <<r.tree>>), r.i)
    BY <1>5, <1>6, <2>1 DEF Operand, r, signed
  <2>3. lhs.tree = Tree(i, <<r.tree>>) /\ lhs.i = r.i
    BY <2>2, ResultFacts
  <2>4. PICK T : T = r.tree
    OBVIOUS
  <2>5. PICK j : j = r.i
    OBVIOUS
  <2>6. j \in i + 1 .. Len(query)
    BY <1>1, <1>3, <1>4, <1>6, <2>1, <2>5
  <2>7. Strong(Tree(i, <<T>>), j, i, b)
    <3>1. query[i] \in {"+", "-"}
      BY <1>6 DEF signed
    <3> QED BY <1>3, <1>4, <1>6, <2>1, <2>4, <2>5, <2>6, <3>1, PrefixStrong
  <2> QED BY <2>3, <2>4, <2>5, <2>7
<1>7. CASE ~signed /\ query[i] = "("
  <2>1. r.st = "ok" /\ query[r.i + 1] = ")"
    BY <1>5, <1>7, ResultFacts DEF Operand, r, signed
  <2>2. lhs = Done(r.tree, r.i + 1)
    BY <1>5, <1>7, <2>1 DEF Operand, r, signed
  <2>3. lhs.tree = r.tree /\ lhs.i = r.i + 1
    BY <2>2, ResultFacts
  <2>4. PICK T : T = r.tree
    OBVIOUS
  <2>5. PICK j : j = r.i
    OBVIOUS
  <2>6. Strong(T, j + 1, i, b)
    BY <1>3, <1>4, <1>7, <2>1, <2>4, <2>5, EnclosedStrong
  <2> QED BY <2>3, <2>4, <2>5, <2>6
<1>8. CASE ~signed /\ query[i] # "(" /\ kind = "create" /\ query[i] \in Names
  <2>1. lhs = Column(i)
    BY <1>5, <1>8 DEF Operand, signed
  <2> QED BY <1>8, <2>1, ColumnStrong
<1>9. CASE ~signed /\ query[i] # "(" /\ ~(kind = "create" /\ query[i] \in Names)
  <2>1. lhs = Done(Leaf(i), i)
    BY <1>5, <1>9 DEF Operand, signed
  <2>2. lhs.tree = Leaf(i) /\ lhs.i = i
    BY <2>1, ResultFacts
  <2> QED BY <2>2, LeafStrong
<1> QED BY <1>6, <1>7, <1>8, <1>9

\* Up to the loop.
LEMMA StartStrong ==
  ASSUME IsQuery(query), NEW kind, NEW call, NEW n \in Nat, Sound(call, n), Binding(call),
         NEW i \in 1 .. Len(query), NEW lhs, lhs = Start(kind, call, i),
         lhs.st = "ok", NEW b
  PROVE  Strong(lhs.tree, lhs.i, i, b)
<1>1. SoundCall(lhs, i, n + 1)
  BY StartSound
<1>2. lhs.i <= Len(query)
  BY <1>1, QueryFacts DEF SoundCall, Reads
<1>3. lhs = Operand(kind, call, i)
  BY ResultFacts DEF Start
<1> QED BY <1>2, <1>3, OperandStrong

\* An infix operator binds its operands.
LEMMA InfixBinds ==
  ASSUME IsQuery(query), NEW i \in 1 .. Len(query), NEW T, NEW U, NEW k, NEW j, NEW b,
         k \in i .. Len(query), j \in k + 2 .. Len(query),
         Grown(T, i .. k), SteppedBy(T.nodes) \subseteq i .. k,
         Grown(U, k + 2 .. j), SteppedBy(U.nodes) \subseteq k + 2 .. j,
         query[k + 1] \in Operators \ {"(", ")"}, Lhs(query[k + 1]) >= b,
         Strong(T, k, i, b), Strong(U, j, k + 2, Rhs(query[k + 1])),
         Weak(j + 1, Rhs(query[k + 1]))
  PROVE  Strong(Tree(k + 1, <<T, U>>), j, i, b)
<1>1. PICK op : op = k + 1
  OBVIOUS
<1> DEFINE V == Tree(op, <<T, U>>)
           x == Node(op, <<T.head, U.head>>)
<1>2. /\ Len(query) \in Nat /\ i \in Nat /\ k \in Nat /\ j \in Nat /\ op \in Nat
      /\ op - 1 = k /\ (k + 2) - 1 = op /\ op \in 1 .. Len(query)
  BY <1>1, QueryFacts
<1>3. V.head = op /\ V.nodes = {x} \cup (T.nodes \cup U.nodes)
  <2>1. V.head = op
    BY ONLY TwoNodes
  <2>2. V.nodes = {x} \cup (T.nodes \cup U.nodes)
    BY ONLY TwoNodes
  <2> QED BY ONLY <2>1, <2>2
<1>4. x.tok = op /\ x.childs = <<T.head, U.head>> /\ ~IsSigned(x)
  BY NodeFacts
<1>5. PICK R : R = i .. k
  OBVIOUS
<1>6. PICK Q : Q = k + 2 .. j
  OBVIOUS
<1>7. R \cap Q = {} /\ op \notin R /\ op \notin Q /\ R \subseteq i .. j /\ Q \subseteq i .. j
  BY <1>1, <1>2, <1>5, <1>6
<1>8. /\ Neat(T.nodes, R) /\ Neat(U.nodes, Q)
      /\ SteppedBy(T.nodes) \subseteq R /\ SteppedBy(U.nodes) \subseteq Q
  BY <1>5, <1>6 DEF Grown
<1>9. /\ \A y \in T.nodes : y.tok \in R
      /\ \A y \in U.nodes : y.tok \in Q
  BY <1>8 DEF Neat
<1>10. T.head \in R /\ U.head \in Q
  BY <1>9 DEF Grown, Toks
<1>11. SteppedBy(V.nodes) = SteppedBy(T.nodes) \cup SteppedBy(U.nodes)
  <2>1. query[op] \notin Names
    BY <1>1, WordFacts
  <2> QED BY <2>1, TwoSteps
<1>12. query[op] \notin {"(", ")"} /\ query[op] \in Expressions
  BY <1>1, WordFacts
<1> HIDE DEF V, x
<1>13. ASSUME NEW D, NEW St, Fit(V.nodes, i .. j, D, St)
       PROVE  StrongAt(V, j, i, b, D)
  <2>1. Sums(D, St)
    BY <1>13 DEF Fit
  <2>2. Fit(T.nodes, R, D, St)
    <3>1. T.nodes \subseteq V.nodes
      BY <1>3
    <3>2. SteppedBy(V.nodes) \cap R = SteppedBy(T.nodes)
      BY <1>7, <1>8, <1>11
    <3> QED BY <1>7, <1>13, <3>1, <3>2, FitPart
  <2>3. Fit(U.nodes, Q, D, St)
    <3>1. U.nodes \subseteq V.nodes
      BY <1>3
    <3>2. SteppedBy(V.nodes) \cap Q = SteppedBy(U.nodes)
      BY <1>7, <1>8, <1>11
    <3> QED BY <1>7, <1>13, <3>1, <3>2, FitPart
  <2>4. StrongAt(T, k, i, b, D)
    BY <1>5, <2>2 DEF Strong
  <2>5. StrongAt(U, j, k + 2, Rhs(query[op]), D)
    BY <1>1, <1>6, <2>3 DEF Strong
  <2>6. D[op] = D[k]
    BY <1>2, <1>12, <2>1, SameDepth
  <2>7. D[k] = D[i - 1] /\ D[j] = D[op] /\ D[i - 1] \in Int
    <3>1. i - 1 \in 0 .. Len(query)
      BY <1>2
    <3> QED BY <1>2, <2>1, <2>4, <2>5, <3>1 DEF StrongAt, Sums
  <2>8. Tops(x, T.nodes \cup U.nodes, D)
    <3>1. ASSUME NEW left \in {x} \cup (T.nodes \cup U.nodes),
                 NEW right \in {x} \cup (T.nodes \cup U.nodes),
                 IsInfix(x), x.childs = <<left.tok, right.tok>>
          PROVE  Binds(D, x, left, right)
      <4>1. left.tok = T.head /\ right.tok = U.head
        BY <1>4, <3>1
      <4>2. left \in T.nodes /\ right \in U.nodes
        BY <1>4, <1>7, <1>9, <1>10, <4>1
      <4>3. D[left.tok] = D[op] =>
              /\ IsInfix(left) => Weak(op, Rhs(query[left.tok]))
              /\ IsSigned(left) => Weak(op, 0)
        BY <1>1, <2>4, <2>6, <2>7, <4>1, <4>2 DEF StrongAt, Heads
      <4>4. D[right.tok] = D[op] /\ IsInfix(right) => Lhs(query[right.tok]) >= Rhs(query[op])
        BY <1>2, <2>5, <4>1, <4>2 DEF StrongAt, Heads
      <4>5. \A p : Weak(op, p) => Lhs(query[op]) < p
        BY <1>12 DEF Weak
      <4>6. ~(Lhs(query[op]) < 0)
        BY PowerFacts
      <4> QED BY <1>4, <4>3, <4>4, <4>5, <4>6 DEF Binds
    <3> QED BY <3>1 DEF Tops
  <2>9. Prec(V.nodes, D)
    <3>1. Prec(T.nodes, D) /\ Prec(U.nodes, D)
      BY <2>4, <2>5 DEF StrongAt
    <3>2. PICK N : N = T.nodes \cup U.nodes
      OBVIOUS
    <3>3. Prec(N, D)
      BY <1>7, <1>8, <3>1, <3>2, PrecUnion
    <3>4. PICK P : P = R \cup Q
      OBVIOUS
    <3>5. Neat(N, P) /\ x.tok \notin P
      BY <1>4, <1>7, <1>8, <3>2, <3>4, NeatUnion
    <3>6. Prec({x} \cup N, D)
      BY <2>8, <3>2, <3>3, <3>5, PrecTop
    <3> QED BY <1>3, <3>2, <3>6
  <2>10. Heads(V, b, j + 1, D[i - 1], D)
    <3>1. PICK N : N = T.nodes \cup U.nodes
      OBVIOUS
    <3>2. \A y \in N : y.tok # x.tok
      BY <1>4, <1>7, <1>9, <3>1
    <3>3. V.nodes = {x} \cup N /\ V.head = x.tok
      BY <1>3, <1>4, <3>1
    <3>4. Lhs(query[x.tok]) >= b /\ Weak(j + 1, Rhs(query[x.tok]))
      BY <1>1, <1>4
    <3> QED BY <1>4, <3>2, <3>3, <3>4, HeadsTop
  <2> QED BY <1>3, <2>6, <2>7, <2>9, <2>10 DEF StrongAt
<1> QED BY <1>1, <1>13 DEF Strong, V

\* One turn.
StrongSoFar(lhs, i, b) == lhs.st = "ok" => Strong(lhs.tree, lhs.i, i, b)

Goes(lhs, r, i, b) ==
  /\ lhs.st = "ok" /\ Strong(r.tree, r.i, i, b)
  /\ r = lhs => Weak(r.i + 1, b)
  /\ r # lhs => r.i > lhs.i

LEMMA InfixStrong ==
  ASSUME IsQuery(query), NEW kind, NEW call, NEW n \in Nat, Sound(call, n), Binding(call),
         NEW i \in 1 .. Len(query), NEW lhs, SoundCall(lhs, i, n + 1), NEW b \in 0 .. 8,
         StrongSoFar(lhs, i, b),
         NEW r, r = Infix(kind, call, lhs, b), r.st = "ok"
  PROVE  Goes(lhs, r, i, b)
<1>1. lhs.st = "ok"
  BY DEF Infix
<1>0. Strong(lhs.tree, lhs.i, i, b)
  BY <1>1 DEF StrongSoFar
<1> DEFINE op == lhs.i + 1
           rhs == call[op + 1][Rhs(query[op])]
<1>2. /\ Len(query) \in Nat /\ i \in Nat /\ lhs.i \in i .. Len(query) - 1
      /\ Grown(lhs.tree, i .. lhs.i) /\ SteppedBy(lhs.tree.nodes) \subseteq i .. lhs.i
  BY <1>1, QueryFacts DEF SoundCall, Reads
<1>3. op \in 1 .. Len(query)
  BY <1>2
<1>4. Look(op) = "ok" /\ query[op] # "("
  BY <1>1, ResultFacts DEF Infix
<1> HIDE DEF rhs
<1>5. CASE query[op] = ")" \/ query[op] \notin Expressions
  <2>1. r = lhs
    BY <1>1, <1>4, <1>5 DEF Infix
  <2>2. Weak(op, b)
    BY <1>5 DEF Weak
  <2> QED BY <1>0, <1>1, <2>1, <2>2 DEF Goes
<1>6. CASE query[op] # ")" /\ query[op] \in Expressions /\ Lhs(query[op]) < b
  <2>1. query[op] \in Follows(kind)
    BY <1>1, <1>4, <1>6, ResultFacts DEF Infix
  <2>2. r = lhs
    BY <1>1, <1>4, <1>6, <2>1 DEF Infix
  <2>3. Weak(op, b)
    BY <1>6 DEF Weak
  <2> QED BY <1>0, <1>1, <2>2, <2>3 DEF Goes
<1>7. CASE query[op] # ")" /\ query[op] \in Expressions /\ ~(Lhs(query[op]) < b)
  <2>1. query[op] \in Follows(kind)
    BY <1>1, <1>4, <1>7, ResultFacts DEF Infix
  <2>2. query[op] \in Operators /\ query[op] # "EOQ"
    BY <2>1, FollowsFacts, WordFacts
  <2>3. op + 1 \in 1 .. Len(query) /\ op + 1 = lhs.i + 2
    <3>1. op < Len(query)
      BY <1>3, <2>2, QueryFacts
    <3> QED BY <1>2, <3>1
  <2>4. Rhs(query[op]) \in 0 .. 8
    BY PowerFacts
  <2>5. SoundCall(rhs, lhs.i + 2, n) /\ StrongCall(rhs, lhs.i + 2, Rhs(query[op]))
    BY <2>3, <2>4 DEF Sound, Binding, rhs
  <2>6. r = IF rhs.st # "ok" THEN rhs ELSE Done(Tree(op, <<lhs.tree, rhs.tree>>), rhs.i)
    BY <1>1, <1>4, <1>7, <2>1 DEF Infix, rhs
  <2>7. rhs.st = "ok" /\ r = Done(Tree(op, <<lhs.tree, rhs.tree>>), rhs.i)
    BY <2>6
  <2>8. r.tree = Tree(op, <<lhs.tree, rhs.tree>>) /\ r.i = rhs.i
    BY <2>7, ResultFacts
  <2>9. /\ rhs.i \in lhs.i + 2 .. Len(query) - 1 /\ Grown(rhs.tree, lhs.i + 2 .. rhs.i)
        /\ SteppedBy(rhs.tree.nodes) \subseteq lhs.i + 2 .. rhs.i
        /\ Strong(rhs.tree, rhs.i, lhs.i + 2, Rhs(query[op]))
        /\ Weak(rhs.i + 1, Rhs(query[op]))
    BY <1>2, <2>5, <2>7 DEF SoundCall, Reads, StrongCall
  <2>10. PICK T, U, k, j : T = lhs.tree /\ U = rhs.tree /\ k = lhs.i /\ j = rhs.i
    OBVIOUS
  <2>11. /\ k \in i .. Len(query) /\ j \in k + 2 .. Len(query)
         /\ query[k + 1] \in Operators \ {"(", ")"} /\ Lhs(query[k + 1]) >= b
    <3>1. Lhs(query[op]) \in Int
      BY PowerFacts
    <3>2. Lhs(query[op]) >= b
      BY <1>7, <3>1
    <3> QED BY <1>2, <1>4, <1>7, <2>2, <2>9, <2>10, <3>2
  <2>12. Strong(Tree(k + 1, <<T, U>>), j, i, b)
    BY <1>0, <1>2, <2>9, <2>10, <2>11, InfixBinds
  <2>13. r.i > lhs.i
    BY <1>2, <2>8, <2>9
  <2>14. r # lhs
    BY <1>2, <2>13
  <2> QED BY <1>1, <2>8, <2>10, <2>12, <2>13, <2>14 DEF Goes
<1> QED BY <1>5, <1>6, <1>7

\* All turns: the one that takes no operator is the last, and there is one.
StrongTurn(lhs, t, i, b) ==
  /\ Strong(lhs[t].tree, lhs[t].i, i, b)
  /\ lhs[t].i >= i + t \/ Weak(lhs[t].i + 1, b)

LEMMA TurnsStrong ==
  ASSUME IsQuery(query), NEW kind, NEW call, NEW n \in Nat, Sound(call, n), Binding(call),
         NEW i \in 1 .. Len(query), NEW b \in 0 .. 8
  PROVE  StrongCall(Expr(kind, call, i, b), i, b)
<1>1. Len(query) \in Nat /\ i \in Nat
  BY QueryFacts
<1> DEFINE lhs == Turns(kind, call, i, b)
           P == {t \in Nat : t <= Len(query) /\ lhs[t].st = "ok" => StrongTurn(lhs, t, i, b)}
<1>2. /\ lhs[0] = Start(kind, call, i)
      /\ \A t \in 1 .. Len(query) : lhs[t] = Infix(kind, call, lhs[t - 1], b)
      /\ Expr(kind, call, i, b) = lhs[Len(query)]
  BY <1>1, TurnsFacts
<1>3. \A t \in 0 .. Len(query) : SoundCall(lhs[t], i, n + 1)
  BY TurnsSound
<1> HIDE DEF lhs
<1>4. ASSUME NEW t \in 0 .. Len(query), lhs[t].st = "ok"
      PROVE  lhs[t].i \in i .. Len(query) - 1
  BY <1>1, <1>3, <1>4 DEF SoundCall, Reads
<1>5. 0 \in P
  <2>1. ASSUME lhs[0].st = "ok" PROVE StrongTurn(lhs, 0, i, b)
    <3>1. Strong(lhs[0].tree, lhs[0].i, i, b)
      BY <1>2, <2>1, StartStrong
    <3>2. lhs[0].i >= i + 0
      BY <1>1, <1>4, <2>1
    <3> QED BY <3>1, <3>2 DEF StrongTurn
  <2> QED BY <2>1
<1>6. ASSUME NEW t \in P PROVE t + 1 \in P
  <2>1. ASSUME t + 1 <= Len(query), lhs[t + 1].st = "ok" PROVE StrongTurn(lhs, t + 1, i, b)
    <3>1. t + 1 \in 1 .. Len(query) /\ (t + 1) - 1 = t /\ t \in 0 .. Len(query)
          /\ t + 1 \in 0 .. Len(query)
      BY <1>1, <2>1
    <3>2. PICK l : l = lhs[t]
      OBVIOUS
    <3>3. PICK r : r = lhs[t + 1]
      OBVIOUS
    <3>4. r = Infix(kind, call, l, b) /\ SoundCall(l, i, n + 1)
      BY <1>2, <1>3, <3>1, <3>2, <3>3
    <3>5. l.st = "ok" => Strong(l.tree, l.i, i, b) /\ (l.i >= i + t \/ Weak(l.i + 1, b))
      BY <3>1, <3>2 DEF StrongTurn
    <3>6. /\ l.st = "ok" /\ Strong(r.tree, r.i, i, b)
          /\ r = l => Weak(r.i + 1, b)
          /\ r # l => r.i > l.i
      <4>1. StrongSoFar(l, i, b)
        BY <3>5 DEF StrongSoFar
      <4>2. r.st = "ok"
        BY <2>1, <3>3
      <4>3. Goes(l, r, i, b)
        BY <3>4, <4>1, <4>2, InfixStrong
      <4> QED BY <4>3 DEF Goes
    <3>7. l.i \in Nat /\ r.i \in Nat
      BY <1>1, <1>4, <2>1, <3>1, <3>2, <3>3, <3>6
    <3>8. r # l => ~Weak(l.i + 1, b)
      <4>1. PICK op : op = l.i + 1
        OBVIOUS
      <4>2. ASSUME Weak(op, b), r # l PROVE FALSE
        <5>1. r.st = "ok"
          BY <2>1, <3>3
        <5>2. Look(op) = "ok" /\ query[op] # "(" /\ query[op] # ")" /\ query[op] \in Expressions
          BY <3>4, <3>6, <4>1, <4>2, <5>1, ResultFacts DEF Infix
        <5>3. query[op] \in Follows(kind) /\ ~(Lhs(query[op]) < b)
          BY <3>4, <3>6, <4>1, <4>2, <5>1, <5>2, ResultFacts DEF Infix
        <5> QED BY <4>2, <5>2, <5>3 DEF Weak
      <4> QED BY <4>1, <4>2
    <3>9. r.i >= i + (t + 1) \/ Weak(r.i + 1, b)
      BY <1>1, <3>5, <3>6, <3>7, <3>8
    <3> QED BY <3>3, <3>6, <3>9 DEF StrongTurn
  <2> QED BY <2>1
<1>7. P = Nat
  <2>1. P \in SUBSET Nat
    OBVIOUS
  <2> HIDE DEF P
  <2> QED BY <1>5, <1>6, <2>1, Induction
<1>8. ASSUME lhs[Len(query)].st = "ok" PROVE StrongCall(lhs[Len(query)], i, b)
  <2>1. StrongTurn(lhs, Len(query), i, b)
    BY <1>1, <1>7, <1>8
  <2>2. ~(lhs[Len(query)].i >= i + Len(query))
    BY <1>1, <1>4, <1>8
  <2> QED BY <2>1, <2>2 DEF StrongTurn, StrongCall
<1> QED BY <1>2, <1>8 DEF StrongCall

\* However deep calls are nested.
LEMMA NestedBinds ==
  ASSUME IsQuery(query), NEW kind
  PROVE  \A n \in 0 .. Len(query) + 1 : Binding(Nested(kind)[n])
<1>1. Len(query) \in Nat
  BY QueryFacts
<1> DEFINE calls == Nested(kind)
           P == {n \in Nat : n <= Len(query) + 1 => Binding(calls[n])}
<1>2. /\ \A i \in 1 .. Len(query) + 1, min_bp \in 0 .. 8 : calls[0][i][min_bp] = Stop("deep")
      /\ \A n \in 1 .. Len(query) + 1, i \in 1 .. Len(query) + 1, min_bp \in 0 .. 8 :
           calls[n][i][min_bp] = Expr(kind, calls[n - 1], i, min_bp)
  BY <1>1, NestedFacts
<1>3. \A n \in 0 .. Len(query) + 1 : Sound(calls[n], n)
  BY NestedSound
<1> HIDE DEF calls
<1>4. 0 \in P
  <2>1. ASSUME NEW i \in 1 .. Len(query), NEW b \in 0 .. 8
        PROVE  StrongCall(calls[0][i][b], i, b)
    <3>1. calls[0][i][b] = Stop("deep")
      BY <1>1, <1>2
    <3>2. Stop("deep").st = "deep"
      BY ResultFacts
    <3> QED BY <3>1, <3>2 DEF StrongCall
  <2> QED BY <2>1 DEF Binding
<1>5. ASSUME NEW n \in P PROVE n + 1 \in P
  <2>1. ASSUME n + 1 <= Len(query) + 1 PROVE Binding(calls[n + 1])
    <3>1. n + 1 \in 1 .. Len(query) + 1 /\ (n + 1) - 1 = n /\ n <= Len(query) + 1
          /\ n \in 0 .. Len(query) + 1
      BY <1>1, <2>1
    <3>2. Binding(calls[n]) /\ Sound(calls[n], n)
      BY <1>3, <3>1
    <3>3. ASSUME NEW i \in 1 .. Len(query), NEW b \in 0 .. 8
          PROVE  StrongCall(calls[n + 1][i][b], i, b)
      <4>1. i \in 1 .. Len(query) + 1
        BY <1>1
      <4>2. calls[n + 1][i][b] = Expr(kind, calls[n], i, b)
        BY <1>2, <3>1, <4>1
      <4> QED BY <3>2, <4>2, TurnsStrong
    <3> QED BY <3>3 DEF Binding
  <2> QED BY <2>1
<1>6. P = Nat
  <2>1. P \in SUBSET Nat
    OBVIOUS
  <2> HIDE DEF P
  <2> QED BY <1>4, <1>5, <2>1, Induction
<1>7. ASSUME NEW n \in 0 .. Len(query) + 1 PROVE Binding(calls[n])
  BY <1>1, <1>6
<1> QED BY <1>7 DEF calls

LEMMA ParsedBinds ==
  ASSUME IsQuery(query), NEW kind, NEW i \in 1 .. Len(query), NEW r, r = Parsed(kind, i),
         r.st = "ok"
  PROVE  Strong(r.tree, r.i, i, 0)
<1>1. Len(query) \in Nat /\ Len(query) + 1 \in 0 .. Len(query) + 1 /\ 0 \in 0 .. 8
  BY QueryFacts
<1>2. StrongCall(r, i, 0)
  BY <1>1, NestedBinds DEF Parsed, Binding
<1> QED BY <1>2 DEF StrongCall

-----------------------------------------------------------------------------
(* What parse() has hung under its root.                                   *)

Bound(N, t) ==
  \A D, St : Fit(N, 1 .. t - 1, D, St) => Prec(N, D)

\* The nodes of a clause's or a statement's own words, and of the rest.
WordNodes(W, t, i) ==
  \A x \in W : /\ x.tok \in t .. i - 1 /\ ~IsInfix(x)
               /\ query[x.tok] \notin Names \/ Len(x.childs) # 2

LEMMA WordsPlain ==
  ASSUME NEW W, NEW t, NEW i, WordNodes(W, t, i)
  PROVE  SteppedBy(W) = {}
BY DEF SteppedBy, WordNodes

LEMMA HangNodes ==
  ASSUME NEW trees, Hang(trees), NEW T, NEW U
  PROVE  /\ trees = <<T>> => nodes' = nodes \cup T.nodes
         /\ trees = <<T, U>> => nodes' = nodes \cup (T.nodes \cup U.nodes)
<1>1. nodes' = nodes \cup UNION {trees[c].nodes : c \in DOMAIN trees}
  BY DEF Hang
<1>2. trees = <<T>> => DOMAIN trees = {1} /\ trees[1] = T
  OBVIOUS
<1>3. trees = <<T, U>> => DOMAIN trees = {1, 2} /\ trees[1] = T /\ trees[2] = U
  OBVIOUS
<1>4. ASSUME trees = <<T>> PROVE nodes' = nodes \cup T.nodes
  BY <1>1, <1>2, <1>4
<1>5. ASSUME trees = <<T, U>> PROVE nodes' = nodes \cup (T.nodes \cup U.nodes)
  BY <1>1, <1>3, <1>5
<1> QED BY <1>4, <1>5

LEMMA HungNodes ==
  ASSUME token \in Nat \ {0}, NEW type, NEW i, i = token + From(type),
         query[token] = type, NEW T, Hang(Hung(type, T))
  PROVE  \E W : WordNodes(W, token, i) /\ nodes' = nodes \cup (W \cup T.nodes)
<1>0. /\ \A p \in Nat : Leaf(p).head = p /\ Leaf(p).nodes = {Node(p, << >>)}
      /\ token \in Nat /\ token + 1 \in Nat /\ token + 2 \in Nat /\ token + 3 \in Nat
  <2>1. ASSUME NEW p \in Nat PROVE Leaf(p).head = p /\ Leaf(p).nodes = {Node(p, << >>)}
    BY LeafGrown
  <2> QED BY <2>1
<1>1. \A p, a : Len(Node(p, << >>).childs) # 2 /\ Len(Node(p, <<a>>).childs) # 2
  <2>1. \A a : Len(<<a>>) = 1
    OBVIOUS
  <2>2. Len(<< >>) = 0
    OBVIOUS
  <2>3. \A p, s : Node(p, s).childs = s
    BY NodeFacts
  <2>4. ASSUME NEW p, NEW a
        PROVE  Len(Node(p, << >>).childs) # 2 /\ Len(Node(p, <<a>>).childs) # 2
    <3>1. Node(p, << >>).childs = << >> /\ Node(p, <<a>>).childs = <<a>>
      BY <2>3
    <3> QED BY <2>1, <2>2, <3>1
  <2> QED BY <2>4
<1>2. CASE type = "create"
  <2>1. PICK A, B : A = Leaf(token + 1) /\ B = Leaf(token + 2)
    OBVIOUS
  <2>2. PICK S : S = Tree(token, <<A, B>>)
    OBVIOUS
  <2>3. Hung(type, T) = <<S, T>>
    BY <1>2, <2>1, <2>2 DEF Hung
  <2>4. nodes' = nodes \cup (S.nodes \cup T.nodes)
    BY <2>3, HangNodes
  <2>5. S.nodes = {Node(token, <<A.head, B.head>>)} \cup (A.nodes \cup B.nodes)
    BY <2>2, TwoNodes
  <2>6. A.nodes = {Node(token + 1, << >>)} /\ B.nodes = {Node(token + 2, << >>)}
    BY <1>0, <2>1
  <2>7. ASSUME NEW x \in S.nodes
        PROVE  /\ x.tok \in token .. i - 1 /\ ~IsInfix(x)
               /\ query[x.tok] \notin Names \/ Len(x.childs) # 2
    <3>1. i = token + 3
      BY <1>2 DEF From
    <3>2. CASE x = Node(token, <<A.head, B.head>>)
      <4>1. x.tok = token
        BY <3>2, NodeFacts
      <4>2. query[token] \notin Names /\ query[token] \notin Operators
        BY <1>2 DEF Names, Operators
      <4>3. token \in token .. i - 1
        BY <3>1
      <4> QED BY <4>1, <4>2, <4>3 DEF IsInfix
    <3>3. CASE x = Node(token + 1, << >>)
      <4>1. x.tok = token + 1 /\ token + 1 \in token .. i - 1
        BY <3>1, <3>3, NodeFacts
      <4> QED BY <1>1, <3>3, <4>1, NodeFacts
    <3>4. CASE x = Node(token + 2, << >>)
      <4>1. x.tok = token + 2 /\ token + 2 \in token .. i - 1
        BY <3>1, <3>4, NodeFacts
      <4> QED BY <1>1, <3>4, <4>1, NodeFacts
    <3> QED BY <2>5, <2>6, <3>2, <3>3, <3>4
  <2>8. WordNodes(S.nodes, token, i)
    BY <2>7 DEF WordNodes
  <2> QED BY <2>4, <2>8
<1>3. CASE type = "insert"
  <2>1. PICK A, B : A = Leaf(token + 2) /\ B = Tree(token + 1, <<A>>)
    OBVIOUS
  <2>2. PICK S, V : S = Tree(token, <<B>>) /\ V = Tree(token + 3, <<T>>)
    OBVIOUS
  <2>3. Hung(type, T) = <<S, V>>
    BY <1>3, <2>1, <2>2 DEF Hung
  <2>4. nodes' = nodes \cup (S.nodes \cup V.nodes)
    BY <2>3, HangNodes
  <2>5. /\ A.nodes = {Node(token + 2, << >>)}
        /\ B.nodes = {Node(token + 1, <<A.head>>)} \cup A.nodes
        /\ S.nodes = {Node(token, <<B.head>>)} \cup B.nodes
        /\ V.nodes = {Node(token + 3, <<T.head>>)} \cup T.nodes
    <3>1. A.nodes = {Node(token + 2, << >>)}
      BY <1>0, <2>1
    <3>2. B.nodes = {Node(token + 1, <<A.head>>)} \cup A.nodes
      BY <2>1, OneNode
    <3>3. S.nodes = {Node(token, <<B.head>>)} \cup B.nodes
      BY <2>2, OneNode
    <3>4. V.nodes = {Node(token + 3, <<T.head>>)} \cup T.nodes
      BY <2>2, OneNode
    <3> QED BY <3>1, <3>2, <3>3, <3>4
  <2> DEFINE W == S.nodes \cup {Node(token + 3, <<T.head>>)}
  <2>6. nodes' = nodes \cup (W \cup T.nodes)
    BY <2>4, <2>5
  <2>7. ASSUME NEW x \in W
        PROVE  /\ x.tok \in token .. i - 1 /\ ~IsInfix(x)
               /\ query[x.tok] \notin Names \/ Len(x.childs) # 2
    <3>1. i = token + 4
      BY <1>3 DEF From
    <3>2. CASE x = Node(token, <<B.head>>)
      <4>1. x.tok = token /\ token \in token .. i - 1
        BY <3>1, <3>2, NodeFacts
      <4> QED BY <1>1, <3>2, <4>1, NodeFacts
    <3>3. CASE x = Node(token + 1, <<A.head>>)
      <4>1. x.tok = token + 1 /\ token + 1 \in token .. i - 1
        BY <3>1, <3>3, NodeFacts
      <4> QED BY <1>1, <3>3, <4>1, NodeFacts
    <3>4. CASE x = Node(token + 2, << >>)
      <4>1. x.tok = token + 2 /\ token + 2 \in token .. i - 1
        BY <3>1, <3>4, NodeFacts
      <4> QED BY <1>1, <3>4, <4>1, NodeFacts
    <3>5. CASE x = Node(token + 3, <<T.head>>)
      <4>1. x.tok = token + 3 /\ token + 3 \in token .. i - 1
        BY <3>1, <3>5, NodeFacts
      <4> QED BY <1>1, <3>5, <4>1, NodeFacts
    <3> QED BY <2>5, <3>2, <3>3, <3>4, <3>5
  <2>8. WordNodes(W, token, i)
    BY <2>7 DEF WordNodes
  <2> QED BY <2>6, <2>8
<1>4. CASE type # "create" /\ type # "insert"
  <2>1. PICK S : S = Tree(token, <<T>>)
    OBVIOUS
  <2>2. Hung(type, T) = <<S>>
    BY <1>4, <2>1 DEF Hung
  <2>3. nodes' = nodes \cup S.nodes
    BY <2>2, HangNodes
  <2>4. S.nodes = {Node(token, <<T.head>>)} \cup T.nodes
    BY <2>1, OneNode
  <2> DEFINE W == {Node(token, <<T.head>>)}
  <2>5. nodes' = nodes \cup (W \cup T.nodes)
    BY <2>3, <2>4
  <2>6. ASSUME NEW x \in W
        PROVE  /\ x.tok \in token .. i - 1 /\ ~IsInfix(x)
               /\ query[x.tok] \notin Names \/ Len(x.childs) # 2
    <3>1. i = token + 1
      BY <1>4 DEF From
    <3>2. x.tok = token /\ token \in token .. i - 1
      BY <3>1, NodeFacts
    <3> QED BY <1>1, <3>2, NodeFacts
  <2>7. WordNodes(W, token, i)
    BY <2>6 DEF WordNodes
  <2> QED BY <2>5, <2>7
<1> QED BY <1>2, <1>3, <1>4

LEMMA PrecMore ==
  ASSUME NEW M, NEW R, Neat(M, R), NEW N, NEW Q, Neat(N, Q), NEW W, R \cap Q = {},
         \A x \in W : ~IsInfix(x) /\ x.tok \notin R /\ x.tok \notin Q,
         NEW D, Prec(M, D), Prec(N, D)
  PROVE  Prec(M \cup (W \cup N), D)
<1>1. /\ \A x \in M : x.tok \in R /\ x.childs \in Seq(R)
      /\ \A x \in N : x.tok \in Q /\ x.childs \in Seq(Q)
  BY DEF Neat
<1> DEFINE A == M \cup (W \cup N)
<1>2. ASSUME NEW node \in A, NEW left \in A, NEW right \in A,
             IsInfix(node), node.childs = <<left.tok, right.tok>>
      PROVE  Binds(D, node, left, right)
  <2>1. CASE node \in M
    <3>1. left.tok \in R /\ right.tok \in R
      BY <1>1, <1>2, <2>1, PairIn
    <3>2. left \in M /\ right \in M
      BY <1>1, <3>1
    <3> QED BY <1>2, <2>1, <3>2 DEF Prec
  <2>2. CASE node \in N
    <3>1. left.tok \in Q /\ right.tok \in Q
      BY <1>1, <1>2, <2>2, PairIn
    <3>2. left \in N /\ right \in N
      BY <1>1, <3>1
    <3> QED BY <1>2, <2>2, <3>2 DEF Prec
  <2> QED BY <1>2, <2>1, <2>2
<1> QED BY <1>2 DEF Prec

\* Another clause.
LEMMA BoundMore ==
  ASSUME NEW M, NEW t \in Nat \ {0}, Neat(M, 1 .. t - 1), SteppedBy(M) \subseteq 1 .. t - 1,
         Bound(M, t), NEW i \in Nat, t < i, NEW W, WordNodes(W, t, i),
         NEW j \in Nat, i <= j, NEW T, Grown(T, i .. j), SteppedBy(T.nodes) \subseteq i .. j,
         Strong(T, j, i, 0)
  PROVE  Bound(M \cup (W \cup T.nodes), j + 1)
<1>1. PICK N : N = T.nodes
  OBVIOUS
<1>2. PICK R : R = 1 .. t - 1
  OBVIOUS
<1>3. PICK Q : Q = i .. j
  OBVIOUS
<1>4. PICK P : P = 1 .. (j + 1) - 1
  OBVIOUS
<1>5. R \cap Q = {} /\ R \subseteq P /\ Q \subseteq P
  BY <1>2, <1>3, <1>4
<1> DEFINE A == M \cup (W \cup N)
<1>6. SteppedBy(A) = SteppedBy(M) \cup SteppedBy(N)
  <2>1. PICK V : V = W \cup N
    OBVIOUS
  <2>2. SteppedBy(V) = SteppedBy(W) \cup SteppedBy(N)
    BY <2>1, ToksFacts
  <2>3. SteppedBy(M \cup V) = SteppedBy(M) \cup SteppedBy(V)
    BY ToksFacts
  <2>4. SteppedBy(W) = {}
    BY WordsPlain
  <2> QED BY <2>1, <2>2, <2>3, <2>4
<1>7. Neat(M, R) /\ Neat(N, Q) /\ SteppedBy(M) \subseteq R /\ SteppedBy(N) \subseteq Q
  BY <1>1, <1>2, <1>3 DEF Grown
<1>8. ASSUME NEW x \in W PROVE ~IsInfix(x) /\ x.tok \notin R /\ x.tok \notin Q
  <2>1. ~IsInfix(x) /\ x.tok \in t .. i - 1
    BY DEF WordNodes
  <2>2. \A p \in t .. i - 1 : p \notin 1 .. t - 1 /\ p \notin i .. j
    OBVIOUS
  <2> QED BY <1>2, <1>3, <2>1, <2>2
<1>9. ASSUME NEW D, NEW St, Fit(A, P, D, St)
      PROVE  Prec(A, D)
  <2>1. Fit(M, R, D, St)
    <3>1. M \subseteq A /\ SteppedBy(A) \cap R = SteppedBy(M)
      BY <1>5, <1>6, <1>7
    <3> HIDE DEF A
    <3> QED BY <1>5, <1>9, <3>1, FitPart
  <2>2. Fit(N, Q, D, St)
    <3>1. N \subseteq A /\ SteppedBy(A) \cap Q = SteppedBy(N)
      BY <1>5, <1>6, <1>7
    <3> HIDE DEF A
    <3> QED BY <1>5, <1>9, <3>1, FitPart
  <2>3. Prec(M, D)
    BY <1>2, <2>1 DEF Bound
  <2>4. Prec(N, D)
    BY <1>1, <1>3, <2>2 DEF Strong, StrongAt
  <2> QED BY <1>5, <1>7, <1>8, <2>3, <2>4, PrecMore
<1> HIDE DEF A
<1>10. Bound(A, j + 1)
  BY <1>4, <1>9 DEF Bound
<1> QED BY <1>1, <1>10 DEF A

LEMMA SameBound == query' = query => \A N, t : Bound(N, t)' <=> Bound(N, t)
<1>1. SUFFICES ASSUME query' = query PROVE \A N, t : Bound(N, t)' <=> Bound(N, t)
  OBVIOUS
<1> QED BY <1>1 DEF Bound, Fit, Sums, Opens, Plain, SteppedBy, Prec, Binds, IsInfix, IsSigned

LEMMA TakesBinds ==
  ASSUME ParseInv, Bound(nodes, token), NEW type, NEW st, NEW i, Ready(type, st, i),
         Takes(type, st, i)
  PROVE  Bound(nodes, token)'
<1>0. /\ Len(query) \in Nat /\ token \in Nat \ {0} /\ IsQuery(query) /\ query' = query
      /\ type \in {"select", "where", "from", "create", "insert"}
      /\ i = token + From(type) /\ query[token] = type
      /\ st = "ok" => i \in 1 .. Len(query)
  BY QueryFacts DEF ParseInv, Takes, Ready
<1>1. \A N, t : Bound(N, t)' <=> Bound(N, t)
  BY <1>0, SameBound
<1>2. PICK r : r = IF st = "ok" THEN parse_expr(type, i) ELSE Stop(st)
  OBVIOUS
<1>3. CASE r.st # "ok"
  <2>1. nodes' = nodes /\ token' = token
    BY <1>2, <1>3 DEF Takes
  <2> QED BY <1>1, <2>1
<1>4. CASE r.st = "ok"
  <2>1. st = "ok"
    BY <1>2, <1>4, ResultFacts
  <2>2. r = Parsed(type, i)
    BY <1>0, <1>2, <2>1 DEF parse_expr, parse_select, parse_where, parse_from, parse_create,
                            parse_insert
  <2>3. /\ r.i \in i .. Len(query) - 1
        /\ Grown(r.tree, i .. r.i) /\ SteppedBy(r.tree.nodes) \subseteq i .. r.i
    BY <1>0, <1>4, <2>1, <2>2, ParsedSound
  <2>4. Strong(r.tree, r.i, i, 0)
    BY <1>0, <1>4, <2>1, <2>2, ParsedBinds
  <2>5. PICK j \in Nat : j = r.i
    BY <1>0, <2>1, <2>3
  <2>6. PICK T : T = r.tree
    OBVIOUS
  <2>7. token' = j + 1 /\ Hang(Hung(type, T))
    BY <1>2, <1>4, <2>5, <2>6 DEF Takes
  <2>8. PICK W : WordNodes(W, token, i) /\ nodes' = nodes \cup (W \cup T.nodes)
    BY <1>0, <2>7, HungNodes
  <2>9. Neat(nodes, 1 .. token - 1) /\ SteppedBy(nodes) \subseteq 1 .. token - 1
    BY DEF ParseInv, Built
  <2>10. i \in Nat /\ token < i /\ i <= j
    BY <1>0, <2>1, <2>3, <2>5 DEF From
  <2>11. Bound(nodes \cup (W \cup T.nodes), j + 1)
    BY <1>0, <2>3, <2>4, <2>5, <2>6, <2>8, <2>9, <2>10, BoundMore
  <2>12. PICK N, t : N = nodes \cup (W \cup T.nodes) /\ t = j + 1
    OBVIOUS
  <2>13. nodes' = N /\ token' = t
    BY <2>7, <2>8, <2>12
  <2>14. Bound(N, t)'
    BY <1>1, <2>11, <2>12
  <2> QED BY <2>13, <2>14
<1> QED BY <1>3, <1>4

BoundInv == ParseInv /\ Bound(nodes, token)

LEMMA BoundInit == Init => BoundInv
<1> SUFFICES ASSUME Init PROVE BoundInv
  OBVIOUS
<1>1. nodes = {}
  BY DEF Init
<1>2. Bound(nodes, token)
  BY <1>1, PrecNone DEF Bound
<1> QED BY <1>2, ParseInit DEF BoundInv

LEMMA BoundStep == BoundInv /\ [Next]_vars => BoundInv'
<1> SUFFICES ASSUME BoundInv, [Next]_vars PROVE BoundInv'
  OBVIOUS
<1>1. ParseInv /\ Bound(nodes, token)
  BY DEF BoundInv
<1>2. ParseInv'
  BY <1>1, ParseStep
<1>3. CASE Clause \/ Create \/ Insert
  <2>1. PICK type, st, i : Ready(type, st, i) /\ Takes(type, st, i)
    BY <1>1, <1>3, ClauseTakes, CreateTakes, InsertTakes
  <2> QED BY <1>1, <1>2, <2>1, TakesBinds DEF BoundInv
<1>4. CASE ~(Clause \/ Create \/ Insert)
  <2>1. query' = query /\ nodes' = nodes /\ token' = token
    BY <1>4 DEF Next, NotConsumed, NotRecognised, NoNodetype, Return, Ends, vars
  <2>2. Bound(nodes, token)'
    <3>1. PICK N, t : N = nodes /\ t = token
      OBVIOUS
    <3>2. Bound(N, t)'
      BY <1>1, <2>1, <3>1, SameBound
    <3> QED BY <2>1, <3>1, <3>2
  <2> QED BY <1>2, <2>2 DEF BoundInv
<1> QED BY <1>3, <1>4

LEMMA BoundInvariance == Spec => []BoundInv
BY BoundInit, BoundStep, PTL DEF Spec

\* The depth that Precedence speaks of is one of those.
LEMMA DepthFacts ==
  ASSUME Len(query) \in Nat
  PROVE  Sums(Depth, Stepped)
<1> DEFINE o(p) == Opens(Stepped, p)
           Fits(s, m) == /\ s = [p \in 0 .. m |-> s[p]] /\ s[0] = 0
                         /\ \A p \in 1 .. m : s[p] = s[p - 1] + o(p)
           P == {m \in Nat : \E s : Fits(s, m)}
           top == Len(query)
           Step(s, p) == IF p = 0 THEN 0 ELSE s[p - 1] + o(p)
<1>1. 0 \in P
  <2> DEFINE s == [p \in 0 .. 0 |-> 0]
  <2>1. s = [p \in 0 .. 0 |-> s[p]] /\ s[0] = 0
    OBVIOUS
  <2> HIDE DEF s, o
  <2>2. Fits(s, 0)
    BY <2>1
  <2> QED BY <2>2
<1>2. ASSUME NEW m \in P PROVE m + 1 \in P
  <2> HIDE DEF o
  <2>1. PICK s : Fits(s, m)
    OBVIOUS
  <2> DEFINE t == [p \in 0 .. m + 1 |-> IF p = m + 1 THEN s[m] + o(m + 1) ELSE s[p]]
  <2>2. \A p \in 0 .. m : t[p] = s[p]
    OBVIOUS
  <2>3. t[m + 1] = s[m] + o(m + 1)
    OBVIOUS
  <2>4. t = [p \in 0 .. m + 1 |-> t[p]]
    OBVIOUS
  <2> HIDE DEF t
  <2>5. ASSUME NEW p \in 1 .. m + 1 PROVE t[p] = t[p - 1] + o(p)
    <3>1. CASE p = m + 1
      <4>1. p - 1 = m /\ m \in 0 .. m
        BY <3>1
      <4> QED BY <2>2, <2>3, <3>1, <4>1
    <3>2. CASE p # m + 1
      <4>1. p \in 1 .. m /\ p \in 0 .. m /\ p - 1 \in 0 .. m
        BY <3>2
      <4> QED BY <2>1, <2>2, <4>1
    <3> QED BY <3>1, <3>2
  <2>6. t[0] = 0
    BY <2>1, <2>2
  <2>7. Fits(t, m + 1)
    BY <2>4, <2>5, <2>6
  <2> HIDE DEF Fits
  <2>8. m + 1 \in Nat /\ \E s0 : Fits(s0, m + 1)
    BY <2>7
  <2> QED BY <2>8
<1>3. P = Nat
  <2>1. P \in SUBSET Nat
    OBVIOUS
  <2> HIDE DEF P
  <2> QED BY <1>1, <1>2, <2>1, Induction
<1>4. \E s : s = [p \in 0 .. top |-> Step(s, p)]
  <2> HIDE DEF o
  <2>1. PICK s : Fits(s, top)
    BY <1>3
  <2>2. \A p \in 0 .. top : s[p] = Step(s, p)
    BY <2>1
  <2>3. s = [p \in 0 .. top |-> s[p]]
    BY <2>1
  <2> HIDE DEF Step, Fits
  <2>4. s = [p \in 0 .. top |-> Step(s, p)]
    BY <2>2, <2>3
  <2> QED BY <2>4
<1> DEFINE depth == CHOOSE s : s = [p \in 0 .. top |-> Step(s, p)]
<1>5. Depth = depth
  BY DEF Depth, Opens
<1>6. depth = [p \in 0 .. top |-> Step(depth, p)]
  <2> HIDE DEF Step
  <2> QED BY <1>4
<1> HIDE DEF depth
<1>7. \A p \in 0 .. top : depth[p] = Step(depth, p)
  <2> HIDE DEF Step
  <2> QED BY <1>6
<1>8. \A p : o(p) \in Int
  BY DEF Opens
<1> HIDE DEF o
<1>9. depth[0] = 0 /\ \A p \in 1 .. top : depth[p] = depth[p - 1] + o(p)
  <2>1. 0 \in 0 .. top /\ \A p \in 1 .. top : p \in 0 .. top /\ p # 0
    OBVIOUS
  <2> QED BY <1>7, <2>1
<1> DEFINE Q == {p \in Nat : p <= top => depth[p] \in Int}
<1>10. 0 \in Q
  BY <1>9
<1>11. ASSUME NEW p \in Q PROVE p + 1 \in Q
  <2>1. ASSUME p + 1 <= top PROVE depth[p + 1] \in Int
    <3>1. p + 1 \in 1 .. top /\ (p + 1) - 1 = p /\ p <= top
      BY <2>1
    <3>2. depth[p + 1] = depth[p] + o(p + 1)
      BY <1>9, <3>1
    <3>3. depth[p] \in Int /\ o(p + 1) \in Int
      BY <1>8, <3>1
    <3> QED BY <3>2, <3>3
  <2> QED BY <2>1
<1>12. Q = Nat
  <2>1. Q \in SUBSET Nat
    OBVIOUS
  <2> HIDE DEF Q
  <2> QED BY <1>10, <1>11, <2>1, Induction
<1>13. \A p \in 0 .. top : depth[p] \in Int
  BY <1>12
<1> QED BY <1>5, <1>9, <1>13 DEF Sums, o

LEMMA BoundPrecedes == BoundInv => Precedence
<1> SUFFICES ASSUME BoundInv, Plain(nodes) PROVE Prec(nodes, Depth)
  <2>1. ASSUME Prec(nodes, Depth) PROVE Precedence
    BY <2>1 DEF Precedence, Prec, Binds
  <2>2. ~Plain(nodes) => Precedence
    BY DEF Precedence, Plain
  <2> QED BY <2>1, <2>2
<1>1. /\ Len(query) \in Nat /\ SteppedBy(nodes) \subseteq 1 .. token - 1
      /\ Bound(nodes, token)
  BY QueryFacts DEF BoundInv, ParseInv, Built
<1>2. PICK D : D = Depth
  OBVIOUS
<1>3. PICK St : St = Stepped
  OBVIOUS
<1>4. Sums(D, St)
  BY <1>1, <1>2, <1>3, DepthFacts
<1>5. SteppedBy(nodes) = St \cap (1 .. token - 1)
  BY <1>1, <1>3, SteppedFacts
<1>6. Fit(nodes, 1 .. token - 1, D, St)
  BY <1>4, <1>5 DEF Fit
<1> QED BY <1>1, <1>2, <1>6 DEF Bound

\* The binding powers decide every tree of every query: of an operator and
\* that of its operand, on one level of parentheses, the stronger is below.
THEOREM BindingPowersHold == Spec => []Precedence
BY BoundInvariance, BoundPrecedes, PTL
-----------------------------------------------------------------------------
(* Sentences.  Columns and values are lists in parentheses: the elements   *)
(* v = 1 .. n begin at b[v], and b[n + 1] is where EOQ is; each is what    *)
(* Start makes of it, the tree E[v].                                       *)

AList(kind, n, b, E) ==
  /\ n \in Nat \ {0} /\ n <= Len(query) /\ b[n + 1] = Len(query)
  /\ \A v \in 1 .. n + 1 : b[v] \in 2 .. Len(query)
  /\ query[b[1] - 1] = "("
  /\ \A v \in 1 .. n :
       /\ b[v] + 2 <= b[v + 1]
       /\ query[b[v + 1] - 1] = IF v = n THEN ")" ELSE ","
       /\ E[v].head = b[v]
       /\ \A call : Start(kind, call, b[v]) = Done(E[v], b[v + 1] - 2)

\* The tree of the first v elements: the commas bind to the left.
ListHead(b, v) == IF v = 1 THEN b[1] ELSE b[v] - 1

CommaNode(b, v) == Node(b[v] - 1, <<ListHead(b, v - 1), b[v]>>)

ListNodes(b, E, v) ==
  {CommaNode(b, w) : w \in 2 .. v} \cup UNION {E[w].nodes : w \in 1 .. v}

Listed(r, b, E, v) ==
  /\ r.st = "ok" /\ r.i = b[v + 1] - 2
  /\ r.tree.head = ListHead(b, v) /\ r.tree.nodes = ListNodes(b, E, v)

\* Commas and closing parentheses, as the loop sees them.
LEMMA CommaFacts ==
  /\ \A kind : "," \in Follows(kind)
  /\ "," \in Expressions /\ ")" \in Expressions /\ "(" \in Expressions
  /\ "," \notin Unknown /\ ")" \notin Unknown /\ "(" \notin Unknown /\ "EOQ" \notin Unknown
  /\ Lhs(",") = 3 /\ Rhs(",") = 4
<1>1. \A kind : "," \in Follows(kind)
  BY DEF Follows, Operators
<1>2. "," \in Expressions /\ ")" \in Expressions /\ "(" \in Expressions
  BY DEF Expressions, Operators
<1>3. "," \notin Unknown /\ ")" \notin Unknown /\ "(" \notin Unknown /\ "EOQ" \notin Unknown
  BY DEF Unknown
<1>4. Lhs(",") = 3
  BY DEF Lhs
<1>5. Rhs(",") = 4
  <2>1. "," \notin {"=", "<>"} /\ 3 + 1 = 4
    OBVIOUS
  <2>2. Rhs(",") = Lhs(",") + 1
    BY <2>1 DEF Rhs
  <2> QED BY <1>4, <2>1, <2>2
<1> QED BY <1>1, <1>2, <1>3, <1>4, <1>5

\* Where the loop does not go on, the call is what came first.
LEMMA NoTurn ==
  ASSUME IsQuery(query), NEW kind, NEW call, NEW i, NEW bp, NEW lhs,
         lhs = Start(kind, call, i), Infix(kind, call, lhs, bp) = lhs
  PROVE  Expr(kind, call, i, bp) = lhs
<1>1. Len(query) \in Nat
  BY QueryFacts
<1> DEFINE s == Turns(kind, call, i, bp)
           P == {t \in Nat : t <= Len(query) => s[t] = lhs}
<1>2. /\ s[0] = Start(kind, call, i)
      /\ \A t \in 1 .. Len(query) : s[t] = Infix(kind, call, s[t - 1], bp)
      /\ Expr(kind, call, i, bp) = s[Len(query)]
  BY <1>1, TurnsFacts
<1> HIDE DEF s
<1>3. 0 \in P
  BY <1>2
<1>4. ASSUME NEW t \in P PROVE t + 1 \in P
  <2>1. ASSUME t + 1 <= Len(query) PROVE s[t + 1] = lhs
    <3>1. t + 1 \in 1 .. Len(query) /\ (t + 1) - 1 = t /\ t <= Len(query)
      BY <1>1, <2>1
    <3>2. s[t + 1] = Infix(kind, call, s[t], bp) /\ s[t] = lhs
      BY <1>2, <3>1
    <3> QED BY <3>2
  <2> QED BY <2>1
<1>5. P = Nat
  <2>1. P \in SUBSET Nat
    OBVIOUS
  <2> HIDE DEF P
  <2> QED BY <1>3, <1>4, <2>1, Induction
<1>6. s[Len(query)] = lhs
  BY <1>1, <1>5
<1> QED BY <1>2, <1>6

\* An operator too weak, a closing parenthesis and EOQ end the loop.
LoopEnds(lhs, j, bp) ==
  /\ lhs.st = "ok" /\ lhs.i = j /\ j \in Nat /\ j + 1 <= Len(query)
  /\ query[j + 1] = ")" \/ query[j + 1] = "EOQ" \/ (query[j + 1] = "," /\ bp > 3)

LEMMA Stays ==
  ASSUME IsQuery(query), NEW kind, NEW call, NEW bp \in 0 .. 8, NEW lhs, NEW j,
         LoopEnds(lhs, j, bp)
  PROVE  Infix(kind, call, lhs, bp) = lhs
<1>0. /\ lhs.st = "ok" /\ lhs.i = j /\ j \in Nat /\ j + 1 <= Len(query)
      /\ query[j + 1] = ")" \/ query[j + 1] = "EOQ" \/ (query[j + 1] = "," /\ bp > 3)
  BY DEF LoopEnds
<1>2. j \in Nat /\ j + 1 <= Len(query)
  BY <1>0
<1>1. Len(query) \in Nat
  BY QueryFacts
<1>4. PICK op \in Nat : op = j + 1
  BY ONLY <1>2
<1>5. PICK t : t = query[op]
  OBVIOUS
<1>6. t = ")" \/ t = "EOQ" \/ (t = "," /\ bp > 3)
  BY <1>0, <1>4, <1>5
<1>7. t \notin Unknown /\ t # "("
  BY <1>6, CommaFacts
<1>8. Look(op) = "ok"
  <2>1. ~(op > Len(query))
    BY ONLY <1>1, <1>2, <1>4
  <2> QED BY ONLY <1>5, <1>7, <2>1 DEF Look
<1>9. t = ")" \/ t \notin Expressions \/ (t \in Expressions /\ t \in Follows(kind) /\ Lhs(t) < bp)
  <2>1. CASE t = ","
    BY <1>6, <2>1, CommaFacts
  <2>2. CASE t # ","
    BY <1>6, <2>2, WordFacts
  <2> QED BY <2>1, <2>2
<1> QED BY ONLY <1>0, <1>4, <1>5, <1>7, <1>8, <1>9 DEF Infix

\* A comma is taken where nothing binds more strongly.
CommaNext(call, lhs, j, U, k) ==
  /\ lhs.st = "ok" /\ lhs.i = j /\ j \in Nat /\ j + 1 <= Len(query)
  /\ query[j + 1] = "," /\ call[j + 2][4] = Done(U, k)

WithComma(lhs, j, U, k) == Done(Tree(j + 1, <<lhs.tree, U>>), k)

LEMMA TakesComma ==
  ASSUME IsQuery(query), NEW kind, NEW call, NEW lhs, NEW j, NEW U, NEW k,
         CommaNext(call, lhs, j, U, k)
  PROVE  Infix(kind, call, lhs, 0) = WithComma(lhs, j, U, k)
<1>0. /\ lhs.st = "ok" /\ lhs.i = j /\ j \in Nat /\ j + 1 <= Len(query)
      /\ query[j + 1] = "," /\ call[j + 2][4] = Done(U, k)
  BY DEF CommaNext
<1>2. j \in Nat /\ j + 1 <= Len(query)
  BY <1>0
<1>1. Len(query) \in Nat
  BY QueryFacts
<1>4. PICK rhs : rhs = Done(U, k)
  OBVIOUS
<1>5. rhs.st = "ok" /\ rhs.i = k /\ rhs.tree = U
  BY ONLY <1>4, ResultFacts
<1>6. PICK op \in Nat : op = j + 1 /\ op + 1 = j + 2
  BY ONLY <1>2
<1>7. /\ query[op] = "," /\ query[op] # "(" /\ query[op] # ")" /\ query[op] \in Expressions
      /\ query[op] \in Follows(kind) /\ ~(Lhs(query[op]) < 0) /\ Rhs(query[op]) = 4
  <2>1. ~(3 < 0)
    BY ONLY TRUE
  <2>2. query[op] = ","
    BY <1>0, <1>6
  <2> QED BY ONLY <2>1, <2>2, CommaFacts
<1>8. Look(op) = "ok"
  <2>1. ~(op > Len(query))
    BY ONLY <1>1, <1>2, <1>6
  <2> QED BY ONLY <1>7, <2>1, CommaFacts DEF Look
<1>9. call[op + 1][Rhs(query[op])] = rhs
  BY <1>0, <1>4, <1>6, <1>7
<1>10. Infix(kind, call, lhs, 0) = Done(Tree(op, <<lhs.tree, rhs.tree>>), rhs.i)
  BY ONLY <1>0, <1>5, <1>6, <1>7, <1>8, <1>9 DEF Infix
<1> QED BY <1>5, <1>6, <1>10 DEF WithComma

\* An element, parsed with a comma's power, is what came first.
LEMMA ElementCall ==
  ASSUME IsQuery(query), NEW kind, NEW n, NEW b, NEW E, AList(kind, n, b, E),
         NEW call, NEW v \in 1 .. n
  PROVE  Expr(kind, call, b[v], 4) = Done(E[v], b[v + 1] - 2)
<1>0. n \in Nat
  BY DEF AList
<1>1. v \in 1 .. n + 1 /\ v + 1 \in 1 .. n + 1
  BY ONLY <1>0, v \in 1 .. n
<1>2. /\ Start(kind, call, b[v]) = Done(E[v], b[v + 1] - 2)
      /\ query[b[v + 1] - 1] = IF v = n THEN ")" ELSE ","
      /\ b[v] \in 2 .. Len(query) /\ b[v + 1] \in 2 .. Len(query) /\ b[v] + 2 <= b[v + 1]
  BY <1>1 DEF AList
<1>3. Len(query) \in Nat
  BY QueryFacts
<1>4. PICK j \in Nat : j = b[v + 1] - 2 /\ j + 1 = b[v + 1] - 1 /\ j + 1 <= Len(query)
  <2>1. PICK x \in 2 .. Len(query) : x = b[v + 1]
    BY <1>2
  <2>2. x - 2 \in Nat /\ (x - 2) + 1 = x - 1 /\ (x - 2) + 1 <= Len(query)
    BY ONLY <1>3, x \in 2 .. Len(query)
  <2> QED BY ONLY <2>1, <2>2
<1>5. PICK lhs : lhs = Done(E[v], j)
  OBVIOUS
<1>6. lhs.st = "ok" /\ lhs.i = j
  BY <1>5, ResultFacts
<1>7. query[j + 1] = ")" \/ (query[j + 1] = "," /\ 4 > 3)
  <2>1. query[b[v + 1] - 1] = ")" \/ query[b[v + 1] - 1] = ","
    BY <1>2
  <2>2. 4 > 3
    BY ONLY TRUE
  <2> QED BY ONLY <1>4, <2>1, <2>2
<1>8. 4 \in 0 .. 8
  BY ONLY TRUE
<1>9. Infix(kind, call, lhs, 4) = lhs
  <2>1. LoopEnds(lhs, j, 4)
    BY ONLY <1>4, <1>6, <1>7 DEF LoopEnds
  <2> QED BY <1>8, <2>1, Stays
<1>10. lhs = Start(kind, call, b[v])
  BY <1>2, <1>4, <1>5
<1> QED BY <1>4, <1>5, <1>9, <1>10, NoTurn

LEMMA ListNodesNext ==
  ASSUME NEW b, NEW E, NEW v \in Nat \ {0}
  PROVE  /\ ListNodes(b, E, 1) = E[1].nodes
         /\ ListNodes(b, E, v + 1) =
              {CommaNode(b, v + 1)} \cup (ListNodes(b, E, v) \cup E[v + 1].nodes)
<1>1. ListNodes(b, E, 1) = E[1].nodes
  <2>1. 1 .. 1 = {1} /\ 2 .. 1 = {}
    OBVIOUS
  <2> QED BY <2>1 DEF ListNodes
<1>2. 1 .. v + 1 = (1 .. v) \cup {v + 1} /\ 2 .. v + 1 = (2 .. v) \cup {v + 1}
  OBVIOUS
<1>3. PICK A, B, C, D, u : /\ A = 1 .. v /\ B = 1 .. v + 1 /\ C = 2 .. v /\ D = 2 .. v + 1
                           /\ u = v + 1
  OBVIOUS
<1>4. B = A \cup {u} /\ D = C \cup {u}
  BY <1>2, <1>3
<1>5. UNION {E[w].nodes : w \in B} = E[u].nodes \cup UNION {E[w].nodes : w \in A}
  BY ONLY <1>4
<1>6. {CommaNode(b, w) : w \in D} = {CommaNode(b, w) : w \in C} \cup {CommaNode(b, u)}
  BY ONLY <1>4
<1>7. ListNodes(b, E, u) = {CommaNode(b, w) : w \in D} \cup UNION {E[w].nodes : w \in B}
  BY <1>3 DEF ListNodes
<1>8. ListNodes(b, E, v) = {CommaNode(b, w) : w \in C} \cup UNION {E[w].nodes : w \in A}
  BY <1>3 DEF ListNodes
<1>9. ListNodes(b, E, u) = {CommaNode(b, u)} \cup (ListNodes(b, E, v) \cup E[u].nodes)
  <2>1. PICK W, X : W = UNION {E[w].nodes : w \in A} /\ X = {CommaNode(b, w) : w \in C}
    OBVIOUS
  <2>2. /\ ListNodes(b, E, u) = (X \cup {CommaNode(b, u)}) \cup (E[u].nodes \cup W)
        /\ ListNodes(b, E, v) = X \cup W
    BY ONLY <1>5, <1>6, <1>7, <1>8, <2>1
  <2> QED BY ONLY <2>2
<1> QED BY <1>1, <1>3, <1>9

\* One more comma.
LEMMA ListGrows ==
  ASSUME IsQuery(query), NEW kind, NEW n, NEW b, NEW E, AList(kind, n, b, E),
         NEW call, NEW v \in 1 .. n - 1, call[b[v + 1]][4] = Done(E[v + 1], b[v + 2] - 2),
         NEW lhs, Listed(lhs, b, E, v)
  PROVE  Listed(Infix(kind, call, lhs, 0), b, E, v + 1)
<1>0. n \in Nat
  BY DEF AList
<1>1. n \in Nat /\ v \in 1 .. n /\ v + 1 \in 1 .. n /\ v + 1 \in 1 .. n + 1 /\ v # n
  BY ONLY <1>0, v \in 1 .. n - 1
<1>2. /\ query[b[v + 1] - 1] = "," /\ b[v + 1] \in 2 .. Len(query)
      /\ E[v + 1].head = b[v + 1]
  BY <1>1 DEF AList
<1>3. Len(query) \in Nat
  BY QueryFacts
<1>4. PICK j \in Nat : /\ j = b[v + 1] - 2 /\ j + 1 = b[v + 1] - 1 /\ j + 2 = b[v + 1]
                       /\ j + 1 <= Len(query)
  <2>1. PICK x \in 2 .. Len(query) : x = b[v + 1]
    BY <1>2
  <2>2. x - 2 \in Nat /\ (x - 2) + 1 = x - 1 /\ (x - 2) + 2 = x /\ (x - 2) + 1 <= Len(query)
    BY ONLY <1>3, x \in 2 .. Len(query)
  <2> QED BY ONLY <2>1, <2>2
<1>5. /\ lhs.st = "ok" /\ lhs.i = j /\ lhs.tree.head = ListHead(b, v)
      /\ lhs.tree.nodes = ListNodes(b, E, v)
  BY <1>4 DEF Listed
<1>6. PICK U : U = E[v + 1]
  OBVIOUS
<1>7. PICK k : k = b[v + 2] - 2
  OBVIOUS
<1>8. call[j + 2][4] = Done(U, k) /\ query[j + 1] = ","
  BY <1>2, <1>4, <1>6, <1>7
<1>9. PICK r : r = Infix(kind, call, lhs, 0)
  OBVIOUS
<1>10. r = Done(Tree(j + 1, <<lhs.tree, U>>), k)
  <2>1. CommaNext(call, lhs, j, U, k)
    BY ONLY <1>4, <1>5, <1>8 DEF CommaNext
  <2>2. Infix(kind, call, lhs, 0) = WithComma(lhs, j, U, k)
    BY ONLY IsQuery(query), <2>1, TakesComma
  <2> QED BY ONLY <1>9, <2>2 DEF WithComma
<1>11. PICK T : T = Tree(j + 1, <<lhs.tree, U>>)
  OBVIOUS
<1>12. r.st = "ok" /\ r.i = k /\ r.tree = T
  BY <1>10, <1>11, ResultFacts
<1>13. T.head = j + 1 /\ T.nodes = {Node(j + 1, <<lhs.tree.head, U.head>>)}
                                      \cup (lhs.tree.nodes \cup U.nodes)
  <2>1. T.head = j + 1
    BY ONLY <1>11, TwoNodes
  <2>2. T.nodes = {Node(j + 1, <<lhs.tree.head, U.head>>)} \cup (lhs.tree.nodes \cup U.nodes)
    BY ONLY <1>11, TwoNodes
  <2> QED BY ONLY <2>1, <2>2
<1>14. ListHead(b, v + 1) = j + 1
  <2>1. v + 1 # 1
    BY <1>1
  <2> QED BY <1>4, <2>1 DEF ListHead
<1>15. CommaNode(b, v + 1) = Node(j + 1, <<lhs.tree.head, U.head>>)
  <2>1. (v + 1) - 1 = v
    BY <1>1
  <2> QED BY <1>2, <1>4, <1>5, <1>6, <2>1 DEF CommaNode
<1>16. ListNodes(b, E, v + 1) = {CommaNode(b, v + 1)} \cup (ListNodes(b, E, v) \cup E[v + 1].nodes)
  <2>1. v \in Nat \ {0}
    BY <1>1
  <2> QED BY <2>1, ListNodesNext
<1>17. T.nodes = ListNodes(b, E, v + 1)
  BY ONLY <1>5, <1>6, <1>13, <1>15, <1>16
<1>18. (v + 1) + 1 = v + 2
  BY <1>1
<1> QED BY <1>7, <1>9, <1>12, <1>13, <1>14, <1>17, <1>18 DEF Listed

\* The call behind the opening parenthesis.
LEMMA ListCall ==
  ASSUME IsQuery(query), NEW kind, NEW n, NEW b, NEW E, AList(kind, n, b, E),
         NEW call, \A v \in 1 .. n : call[b[v]][4] = Done(E[v], b[v + 1] - 2)
  PROVE  Listed(Expr(kind, call, b[1], 0), b, E, n)
<1>1. Len(query) \in Nat /\ n \in Nat \ {0} /\ n <= Len(query)
  BY QueryFacts DEF AList
<1> DEFINE s == Turns(kind, call, b[1], 0)
           Upto(t) == IF t < n THEN t + 1 ELSE n
           P == {t \in Nat : t <= Len(query) => Listed(s[t], b, E, Upto(t))}
<1>2. /\ s[0] = Start(kind, call, b[1])
      /\ \A t \in 1 .. Len(query) : s[t] = Infix(kind, call, s[t - 1], 0)
      /\ Expr(kind, call, b[1], 0) = s[Len(query)]
  BY <1>1, TurnsFacts
<1> HIDE DEF s
<1>3. 0 \in P
  <2>1. 1 \in 1 .. n /\ Upto(0) = 1
    BY <1>1
  <2>2. s[0] = Done(E[1], b[1 + 1] - 2) /\ E[1].head = b[1]
    BY <1>2, <2>1 DEF AList
  <2>3. s[0].st = "ok" /\ s[0].i = b[1 + 1] - 2 /\ s[0].tree = E[1]
    BY <2>2, ResultFacts
  <2>4. ListNodes(b, E, 1) = E[1].nodes
    BY ListNodesNext
  <2>5. Listed(s[0], b, E, 1)
    BY <2>2, <2>3, <2>4 DEF Listed, ListHead
  <2> QED BY <2>1, <2>5
<1>4. ASSUME NEW t \in P PROVE t + 1 \in P
  <2>1. ASSUME t + 1 <= Len(query) PROVE Listed(s[t + 1], b, E, Upto(t + 1))
    <3>1. t + 1 \in 1 .. Len(query) /\ (t + 1) - 1 = t /\ t <= Len(query) /\ t \in Nat
      BY <1>1, <2>1
    <3>2. s[t + 1] = Infix(kind, call, s[t], 0) /\ Listed(s[t], b, E, Upto(t))
      BY <1>2, <3>1
    <3>3. CASE t + 1 < n
      <4>1. PICK v \in 1 .. n - 1 : v = t + 1
        BY <1>1, <3>1, <3>3
      <4>2. Upto(t) = v /\ Upto(t + 1) = v + 1 /\ v + 1 \in 1 .. n /\ (v + 1) + 1 = v + 2
        BY <1>1, <3>1, <3>3, <4>1
      <4>3. call[b[v + 1]][4] = Done(E[v + 1], b[v + 2] - 2)
        BY <4>2
      <4> HIDE DEF Upto
      <4>4. Listed(Infix(kind, call, s[t], 0), b, E, v + 1)
        BY <3>2, <4>2, <4>3, ListGrows
      <4> QED BY <3>2, <4>2, <4>4
    <3>4. CASE ~(t + 1 < n)
      <4>1. Upto(t) = n /\ Upto(t + 1) = n
        BY <1>1, <3>1, <3>4
      <4>2. s[t].st = "ok" /\ s[t].i = b[n + 1] - 2
        BY <3>2, <4>1 DEF Listed
      <4>3. /\ b[n + 1] \in 2 .. Len(query) /\ query[b[n + 1] - 1] = ")"
        <5>1. n \in 1 .. n /\ n + 1 \in 1 .. n + 1
          BY <1>1
        <5> QED BY <5>1 DEF AList
      <4>4. PICK j \in Nat : j = b[n + 1] - 2 /\ j + 1 = b[n + 1] - 1 /\ j + 1 <= Len(query)
        <5>1. PICK x \in 2 .. Len(query) : x = b[n + 1]
          BY <4>3
        <5>2. x - 2 \in Nat /\ (x - 2) + 1 = x - 1 /\ (x - 2) + 1 <= Len(query)
          BY ONLY <1>1, x \in 2 .. Len(query)
        <5> QED BY ONLY <5>1, <5>2
      <4>5. 0 \in 0 .. 8
        BY ONLY TRUE
      <4> HIDE DEF Upto
      <4>6. Infix(kind, call, s[t], 0) = s[t]
        <5>1. LoopEnds(s[t], j, 0)
          BY ONLY <4>2, <4>3, <4>4 DEF LoopEnds
        <5> QED BY <4>5, <5>1, Stays
      <4> QED BY <3>2, <4>1, <4>6
    <3> QED BY <3>3, <3>4
  <2> QED BY <2>1
<1>5. P = Nat
  <2>1. P \in SUBSET Nat
    OBVIOUS
  <2> HIDE DEF P
  <2> QED BY <1>3, <1>4, <2>1, Induction
<1>6. Len(query) \in P /\ Upto(Len(query)) = n
  BY <1>1, <1>5
<1> QED BY <1>1, <1>2, <1>6

\* The parentheses around the list.
LEMMA EnclosedList ==
  ASSUME IsQuery(query), NEW kind, NEW n, NEW b, NEW E, AList(kind, n, b, E),
         NEW call, Listed(call[b[1]][0], b, E, n)
  PROVE  Expr(kind, call, b[1] - 1, 0) = Done(call[b[1]][0].tree, Len(query) - 1)
<1>1. Len(query) \in Nat /\ query[Len(query)] = "EOQ"
  BY QueryFacts
<1>2. PICK r : r = call[b[1]][0]
  OBVIOUS
<1>3. /\ n \in Nat \ {0} /\ b[n + 1] = Len(query) /\ query[b[1] - 1] = "("
      /\ \A v \in 1 .. n + 1 : b[v] \in 2 .. Len(query)
      /\ \A v \in 1 .. n : query[b[v + 1] - 1] = IF v = n THEN ")" ELSE ","
  BY DEF AList
<1>4. 1 \in 1 .. n + 1 /\ n \in 1 .. n
  <2>1. n \in Nat \ {0}
    BY <1>3
  <2> QED BY ONLY <2>1
<1>5. query[Len(query) - 1] = ")" /\ b[1] \in 2 .. Len(query)
  BY ONLY <1>3, <1>4
<1>6. PICK p \in Nat : p = b[1] - 1 /\ p + 1 = b[1] /\ p <= Len(query)
  <2>1. PICK x \in 2 .. Len(query) : x = b[1]
    BY <1>5
  <2>2. x - 1 \in Nat /\ (x - 1) + 1 = x /\ x - 1 <= Len(query)
    BY ONLY <1>1, x \in 2 .. Len(query)
  <2> QED BY ONLY <2>1, <2>2
<1>7. PICK j \in Nat : j = Len(query) - 1 /\ j + 1 = Len(query) /\ (Len(query) - 2) + 1 = j
  BY ONLY <1>1, <1>5
<1>8. r.st = "ok" /\ r.i = Len(query) - 2
  BY <1>2, <1>3 DEF Listed
<1>9. query[p] = "(" /\ query[r.i + 1] = ")" /\ call[p + 1][0] = r
  BY ONLY <1>2, <1>3, <1>5, <1>6, <1>7, <1>8
<1>10. Look(p) = "ok"
  <2>1. ~(p > Len(query))
    BY ONLY <1>1, <1>6
  <2> QED BY ONLY <1>9, <2>1, CommaFacts DEF Look
<1>11. PICK lhs : lhs = Done(r.tree, j)
  OBVIOUS
<1>12. lhs.st = "ok" /\ lhs.i = j
  BY ONLY <1>11, ResultFacts
<1>13. Operand(kind, call, p) = lhs
  <2>1. query[p] \notin {"+", "-"}
    BY <1>9
  <2>2. r.i + 1 = j
    BY ONLY <1>7, <1>8
  <2> QED BY ONLY <1>8, <1>9, <1>10, <1>11, <2>1, <2>2 DEF Operand
<1>14. Expect(j, Expressions) = "ok"
  <2>1. ~(j > Len(query)) /\ query[j] = ")"
    BY ONLY <1>1, <1>5, <1>7
  <2>2. Look(j) = "ok"
    BY ONLY <2>1, CommaFacts DEF Look
  <2> QED BY ONLY <2>1, <2>2, CommaFacts DEF Expect
<1>15. Start(kind, call, p) = lhs
  BY ONLY <1>12, <1>13, <1>14 DEF Start
<1>16. LoopEnds(lhs, j, 0)
  <2>1. j + 1 <= Len(query)
    BY ONLY <1>1, <1>7
  <2> QED BY ONLY <1>1, <1>7, <1>12, <2>1 DEF LoopEnds
<1>17. 0 \in 0 .. 8
  BY ONLY TRUE
<1>18. Infix(kind, call, lhs, 0) = lhs
  BY ONLY IsQuery(query), <1>16, <1>17, Stays
<1>19. Expr(kind, call, p, 0) = lhs
  BY ONLY IsQuery(query), <1>15, <1>18, NoTurn
<1> QED BY ONLY <1>2, <1>6, <1>7, <1>11, <1>19

\* What the parser makes of a list in parentheses, up to the closing one.
LEMMA ListParsed ==
  ASSUME IsQuery(query), NEW kind, NEW n, NEW b, NEW E, AList(kind, n, b, E)
  PROVE  \E T : /\ Parsed(kind, b[1] - 1) = Done(T, Len(query) - 1)
                /\ T.head = ListHead(b, n) /\ T.nodes = ListNodes(b, E, n)
<1>1. PICK L \in Nat : L = Len(query)
  BY QueryFacts
<1>2. n \in Nat \ {0} /\ \A v \in 1 .. n + 1 : b[v] \in 2 .. L
  BY <1>1 DEF AList
<1>3. 1 \in 1 .. n + 1 /\ \A v \in 1 .. n : v \in 1 .. n + 1
  BY ONLY <1>2
<1>4. b[1] \in 2 .. L
  BY ONLY <1>2, <1>3
<1>5. /\ L + 1 \in 1 .. L + 1 /\ L \in 1 .. L + 1 /\ L - 1 \in 1 .. L + 1
      /\ b[1] \in 1 .. L + 1 /\ b[1] - 1 \in 1 .. L + 1 /\ (L + 1) - 1 = L
      /\ 0 \in 0 .. 8 /\ 4 \in 0 .. 8
  BY ONLY <1>1, <1>4
<1> DEFINE calls == Nested(kind)
<1>6. \A m \in 1 .. L + 1, i \in 1 .. L + 1, bp \in 0 .. 8 :
        calls[m][i][bp] = Expr(kind, calls[m - 1], i, bp)
  BY <1>1, NestedFacts
<1>7. Parsed(kind, b[1] - 1) = calls[L + 1][b[1] - 1][0]
  BY <1>1 DEF Parsed
<1> HIDE DEF calls
<1>8. \A v \in 1 .. n : calls[L - 1][b[v]][4] = Done(E[v], b[v + 1] - 2)
  <2>1. ASSUME NEW v \in 1 .. n PROVE calls[L - 1][b[v]][4] = Done(E[v], b[v + 1] - 2)
    <3>1. b[v] \in 2 .. L
      BY ONLY <1>2, <1>3, <2>1
    <3>2. b[v] \in 1 .. L + 1
      BY ONLY <1>1, <3>1
    <3>3. PICK call : call = calls[(L - 1) - 1]
      OBVIOUS
    <3>4. calls[L - 1][b[v]][4] = Expr(kind, call, b[v], 4)
      BY ONLY <1>5, <1>6, <3>2, <3>3
    <3>5. Expr(kind, call, b[v], 4) = Done(E[v], b[v + 1] - 2)
      BY ONLY IsQuery(query), AList(kind, n, b, E), <2>1, ElementCall
    <3> QED BY ONLY <3>4, <3>5
  <2> QED BY <2>1
<1>9. Listed(calls[L][b[1]][0], b, E, n)
  <2>1. PICK call : call = calls[L - 1]
    OBVIOUS
  <2>2. calls[L][b[1]][0] = Expr(kind, call, b[1], 0)
    BY ONLY <1>5, <1>6, <2>1
  <2>3. \A v \in 1 .. n : call[b[v]][4] = Done(E[v], b[v + 1] - 2)
    BY ONLY <1>8, <2>1
  <2>4. Listed(Expr(kind, call, b[1], 0), b, E, n)
    BY ONLY IsQuery(query), AList(kind, n, b, E), <2>3, ListCall
  <2> QED BY ONLY <2>2, <2>4
<1>10. PICK call : call = calls[L]
  OBVIOUS
<1>11. calls[L + 1][b[1] - 1][0] = Expr(kind, call, b[1] - 1, 0)
  BY ONLY <1>5, <1>6, <1>10
<1>12. Listed(call[b[1]][0], b, E, n)
  BY ONLY <1>9, <1>10
<1>13. PICK T : T = call[b[1]][0].tree
  OBVIOUS
<1>14. Expr(kind, call, b[1] - 1, 0) = Done(T, Len(query) - 1)
  BY ONLY IsQuery(query), AList(kind, n, b, E), <1>12, <1>13, EnclosedList
<1>15. T.head = ListHead(b, n) /\ T.nodes = ListNodes(b, E, n)
  BY ONLY <1>12, <1>13 DEF Listed
<1> QED BY ONLY <1>7, <1>11, <1>14, <1>15

-----------------------------------------------------------------------------
(* The list of a sentence's items.                                         *)

LEMMA FlattenOne == ASSUME NEW s PROVE FlattenSeq(<<s>>) = s
<1> DEFINE one == <<s>>
           flat == [i \in 1 .. 1 |-> s]
<1>1. Len(one) = 1 /\ one[1] = s
  OBVIOUS
<1> HIDE DEF one
<1>2. flat = [i \in 1 .. Len(one) |-> IF i = 1 THEN one[i] ELSE flat[i - 1] \o one[i]]
  BY <1>1
<1> DEFINE f == CHOOSE g : g = [i \in 1 .. Len(one) |-> IF i = 1 THEN one[i] ELSE g[i - 1] \o one[i]]
<1>3. f = [i \in 1 .. Len(one) |-> IF i = 1 THEN one[i] ELSE f[i - 1] \o one[i]]
  <2> HIDE DEF flat
  <2> QED BY <1>2
<1>4. FlattenSeq(one) = f[Len(one)]
  BY <1>1 DEF FlattenSeq
<1> HIDE DEF f
<1>5. f[1] = one[1]
  <2>1. 1 \in 1 .. Len(one)
    BY <1>1
  <2> QED BY <1>3, <2>1
<1> QED BY <1>1, <1>4, <1>5 DEF one

LEMMA FlattenTwo == ASSUME NEW s, NEW t PROVE FlattenSeq(<<s, t>>) = s \o t
<1> DEFINE two == <<s, t>>
           flat == [i \in 1 .. 2 |-> IF i = 1 THEN s ELSE s \o t]
<1>1. Len(two) = 2 /\ two[1] = s /\ two[2] = t
  OBVIOUS
<1> HIDE DEF two
<1>2. flat = [i \in 1 .. Len(two) |-> IF i = 1 THEN two[i] ELSE flat[i - 1] \o two[i]]
  <2>1. ASSUME NEW i \in 1 .. 2
        PROVE  flat[i] = IF i = 1 THEN two[i] ELSE flat[i - 1] \o two[i]
    <3>1. CASE i = 1
      BY <1>1, <3>1
    <3>2. CASE i # 1
      <4>1. i = 2 /\ i - 1 = 1 /\ 1 \in 1 .. 2 /\ 2 \in 1 .. 2 /\ 2 # 1
        BY <3>2
      <4>2. flat[2] = s \o t /\ flat[1] = s
        BY <4>1
      <4> HIDE DEF flat
      <4> QED BY <1>1, <3>2, <4>1, <4>2
    <3> QED BY <3>1, <3>2
  <2>2. flat = [i \in 1 .. 2 |-> flat[i]]
    OBVIOUS
  <2> HIDE DEF flat
  <2> QED BY <1>1, <2>1, <2>2
<1> DEFINE f == CHOOSE g : g = [i \in 1 .. Len(two) |-> IF i = 1 THEN two[i] ELSE g[i - 1] \o two[i]]
<1>3. f = [i \in 1 .. Len(two) |-> IF i = 1 THEN two[i] ELSE f[i - 1] \o two[i]]
  <2> HIDE DEF flat
  <2> QED BY <1>2
<1>4. FlattenSeq(two) = f[Len(two)]
  BY <1>1 DEF FlattenSeq
<1> HIDE DEF f
<1>5. f[1] = two[1] /\ f[2] = f[1] \o two[2]
  <2>1. 1 \in 1 .. Len(two) /\ 2 \in 1 .. Len(two) /\ 2 # 1 /\ 2 - 1 = 1
    BY <1>1
  <2> QED BY <1>3, <2>1
<1> QED BY <1>1, <1>4, <1>5 DEF two

\* preorder_tree, list in list.
ItemHeads ==
  LET heads[n \in 0 .. Len(query)] == [j \in 1 .. Len(query) |->
        IF n = 0 \/ query[j] \notin {",", "values"} THEN <<j>>
        ELSE FlattenSeq([c \in DOMAIN ChildsOf(j) |-> heads[n - 1][ChildsOf(j)[c]]])]
  IN  heads

Opened(n, heads) ==
  [j \in 1 .. Len(query) |->
     IF n = 0 \/ query[j] \notin {",", "values"} THEN <<j>>
     ELSE FlattenSeq([c \in DOMAIN ChildsOf(j) |-> heads[n - 1][ChildsOf(j)[c]]])]

LEMMA ItemHeadsFacts ==
  ASSUME Len(query) \in Nat
  PROVE  /\ \A n \in 0 .. Len(query) : ItemHeads[n] = Opened(n, ItemHeads)
         /\ \A i : preorder_tree(i) = ItemHeads[Len(query)][i]
<1> DEFINE Fits(s, m) == s = [n \in 0 .. m |-> s[n]] /\ \A n \in 0 .. m : s[n] = Opened(n, s)
           P == {m \in Nat : \E s : Fits(s, m)}
           top == Len(query)
<1>1. 0 \in P
  <2> DEFINE s == [n \in 0 .. 0 |-> Opened(0, << >>)]
  <2>1. s = [n \in 0 .. 0 |-> s[n]] /\ s[0] = Opened(0, << >>)
    OBVIOUS
  <2>2. Opened(0, << >>) = Opened(0, s)
    BY DEF Opened
  <2> HIDE DEF s
  <2>3. Fits(s, 0)
    BY <2>1, <2>2
  <2> QED BY <2>3
<1>2. ASSUME NEW m \in P PROVE m + 1 \in P
  <2>1. PICK s : Fits(s, m)
    OBVIOUS
  <2> DEFINE x == Opened(m + 1, s)
             t == [n \in 0 .. m + 1 |-> IF n = m + 1 THEN x ELSE s[n]]
  <2>2. t = [n \in 0 .. m + 1 |-> t[n]] /\ t[m + 1] = x /\ \A n \in 0 .. m : t[n] = s[n]
    <3> HIDE DEF x
    <3> QED OBVIOUS
  <2>3. ASSUME NEW n \in 0 .. m + 1 PROVE t[n] = Opened(n, t)
    <3>1. CASE n = 0
      <4>1. t[0] = s[0] /\ s[0] = Opened(0, s)
        BY <2>1, <2>2
      <4>2. Opened(0, s) = Opened(0, t)
        <5> HIDE DEF t
        <5> QED BY DEF Opened
      <4> QED BY <3>1, <4>1, <4>2
    <3>2. CASE n # 0
      <4>1. n - 1 \in 0 .. m
        BY <3>2
      <4>2. t[n - 1] = s[n - 1]
        BY <2>2, <4>1
      <4>3. Opened(n, s) = Opened(n, t)
        <5> HIDE DEF t
        <5> QED BY <3>2, <4>2 DEF Opened
      <4>4. t[n] = Opened(n, s)
        <5>1. n = m + 1 \/ n \in 0 .. m
          OBVIOUS
        <5> HIDE DEF t
        <5> QED BY <2>1, <2>2, <5>1 DEF x
      <4> QED BY <4>3, <4>4
    <3> QED BY <3>1, <3>2
  <2> HIDE DEF t
  <2>4. Fits(t, m + 1)
    BY <2>2, <2>3
  <2> HIDE DEF Fits
  <2> QED BY <2>4
<1>3. P = Nat
  <2>1. P \in SUBSET Nat
    OBVIOUS
  <2> HIDE DEF P
  <2> QED BY <1>1, <1>2, <2>1, Induction
<1>4. PICK s : Fits(s, top)
  <2>1. top \in P
    BY <1>3
  <2> HIDE DEF Fits
  <2> QED BY <2>1
<1>5. s = [n \in 0 .. top |-> Opened(n, s)]
  BY <1>4
<1>6. \E t : t = [n \in 0 .. top |-> Opened(n, t)]
  BY <1>5
<1>7. ItemHeads = [n \in 0 .. top |-> Opened(n, ItemHeads)]
  BY <1>6 DEF ItemHeads, Opened
<1>8. \A n \in 0 .. top : ItemHeads[n] = Opened(n, ItemHeads)
  BY <1>7
<1>9. \A i : preorder_tree(i) = ItemHeads[Len(query)][i]
  BY DEF preorder_tree, ItemHeads
<1> QED BY <1>8, <1>9

OneEach == \A x, y \in nodes : x.tok = y.tok => x = y

LEMMA ChildsFacts ==
  ASSUME OneEach, NEW i, NEW s, Node(i, s) \in nodes
  PROVE  ChildsOf(i) = s
<1>1. PICK x : x = Node(i, s)
  OBVIOUS
<1>2. x \in nodes /\ x.tok = i /\ x.childs = s
  BY <1>1 DEF Node
<1>3. \A y \in nodes : y.tok = i => y = x
  BY <1>2 DEF OneEach
<1>4. (CHOOSE node \in nodes : node.tok = i) = x
  BY <1>2, <1>3
<1> QED BY <1>2, <1>4 DEF ChildsOf

IsList(i) == query[i] \in {",", "values"}

\* A token that is no list is an item; a list is what its elements are.
LEMMA OpensNone ==
  ASSUME Len(query) \in Nat, NEW m \in 0 .. Len(query), NEW i \in 1 .. Len(query),
         ~IsList(i)
  PROVE  ItemHeads[m][i] = <<i>>
<1>1. ItemHeads[m] = Opened(m, ItemHeads)
  BY ItemHeadsFacts
<1> QED BY <1>1 DEF Opened, IsList

LEMMA OpensOne ==
  ASSUME Len(query) \in Nat, NEW m \in 1 .. Len(query), NEW i \in 1 .. Len(query),
         IsList(i), NEW x, ChildsOf(i) = <<x>>
  PROVE  ItemHeads[m][i] = ItemHeads[m - 1][x]
<1>1. ItemHeads[m] = Opened(m, ItemHeads) /\ m # 0
  <2>1. m \in 0 .. Len(query) /\ m # 0
    BY ONLY Len(query) \in Nat, m \in 1 .. Len(query)
  <2> QED BY <2>1, ItemHeadsFacts
<1> DEFINE ch == <<x>>
<1>3. DOMAIN ch = {1} /\ ch[1] = x
  BY ONLY TRUE
<1> HIDE DEF ch
<1>2. ch = <<x>>
  BY DEF ch
<1>4. ItemHeads[m][i] = FlattenSeq([c \in DOMAIN ch |-> ItemHeads[m - 1][ch[c]]])
  BY <1>1, <1>2 DEF Opened, IsList
<1>5. [c \in DOMAIN ch |-> ItemHeads[m - 1][ch[c]]] = <<ItemHeads[m - 1][x]>>
  <2>1. PICK h : h = ItemHeads[m - 1]
    OBVIOUS
  <2>2. [c \in DOMAIN ch |-> h[ch[c]]] = <<h[x]>>
    BY ONLY <1>3
  <2> QED BY <2>1, <2>2
<1> QED BY <1>4, <1>5, FlattenOne

OpenedTo(m, i, x, y, s, t) ==
  /\ m \in 1 .. Len(query) /\ i \in 1 .. Len(query) /\ IsList(i) /\ ChildsOf(i) = <<x, y>>
  /\ s = ItemHeads[m - 1][x] /\ t = ItemHeads[m - 1][y]

LEMMA OpensTwo ==
  ASSUME Len(query) \in Nat
  PROVE  \A m, i, x, y, s, t : OpenedTo(m, i, x, y, s, t) => ItemHeads[m][i] = s \o t
<1> SUFFICES ASSUME NEW m, NEW i, NEW x, NEW y, NEW s, NEW t, OpenedTo(m, i, x, y, s, t)
             PROVE  ItemHeads[m][i] = s \o t
  OBVIOUS
<1>0. /\ m \in 1 .. Len(query) /\ i \in 1 .. Len(query) /\ IsList(i) /\ ChildsOf(i) = <<x, y>>
      /\ s = ItemHeads[m - 1][x] /\ t = ItemHeads[m - 1][y]
  BY DEF OpenedTo
<1>1. ItemHeads[m] = Opened(m, ItemHeads) /\ m # 0
  <2>1. m \in 0 .. Len(query) /\ m # 0
    BY ONLY Len(query) \in Nat, <1>0
  <2> QED BY <2>1, ItemHeadsFacts
<1> DEFINE ch == <<x, y>>
<1>3. DOMAIN ch = {1, 2} /\ ch[1] = x /\ ch[2] = y
  BY ONLY TRUE
<1> HIDE DEF ch
<1>2. ch = <<x, y>> /\ ch = ChildsOf(i)
  BY <1>0 DEF ch
<1>4. ItemHeads[m][i] = FlattenSeq([c \in DOMAIN ch |-> ItemHeads[m - 1][ch[c]]])
  BY <1>0, <1>1, <1>2 DEF Opened, IsList
<1>5. [c \in DOMAIN ch |-> ItemHeads[m - 1][ch[c]]] = <<ItemHeads[m - 1][x], ItemHeads[m - 1][y]>>
  <2>1. PICK h : h = ItemHeads[m - 1]
    OBVIOUS
  <2>2. [c \in DOMAIN ch |-> h[ch[c]]] = <<h[x], h[y]>>
    BY ONLY <1>3
  <2> QED BY <2>1, <2>2
<1> QED BY <1>0, <1>4, <1>5, FlattenTwo

\* The first v places of b.
Upto(b, v) == [w \in 1 .. v |-> b[w]]

LEMMA UptoNext ==
  ASSUME NEW b, NEW v \in Nat
  PROVE  Upto(b, 1) = <<b[1]>> /\ Upto(b, v) \o <<b[v + 1]>> = Upto(b, v + 1)
<1>1. Upto(b, 1) = <<b[1]>>
  BY DEF Upto
<1>2. PICK s : s = Upto(b, v)
  OBVIOUS
<1>3. s = [w \in 1 .. v |-> b[w]] /\ Len(s) = v
  BY <1>2 DEF Upto
<1>4. s \o <<b[v + 1]>> = [w \in 1 .. v + 1 |-> b[w]]
  <2>1. PICK t : t = <<b[v + 1]>>
    OBVIOUS
  <2>2. Len(t) = 1 /\ t[1] = b[v + 1]
    BY <2>1
  <2>3. s \o t = [w \in 1 .. v + 1 |-> IF w <= v THEN s[w] ELSE t[w - v]]
    <3>1. PICK X : X = {b[w] : w \in 1 .. v + 1}
      OBVIOUS
    <3>2. v + 1 \in 1 .. v + 1 /\ \A w \in 1 .. v : w \in 1 .. v + 1
      OBVIOUS
    <3>3. s \in Seq(X)
      <4>1. s \in [1 .. v -> X]
        BY ONLY <1>3, <3>1, <3>2
      <4> QED BY ONLY v \in Nat, <4>1
    <3>4. t \in Seq(X)
      <4>1. b[v + 1] \in X
        BY ONLY <3>1, <3>2
      <4> QED BY ONLY <2>1, <4>1
    <3>5. PICK r : r = s \o t
      OBVIOUS
    <3>6. /\ r \in Seq(X) /\ Len(r) = Len(s) + Len(t)
          /\ \A i \in 1 .. Len(s) + Len(t) : r[i] = IF i <= Len(s) THEN s[i] ELSE t[i - Len(s)]
      BY ONLY <3>3, <3>4, <3>5, ConcatProperties
    <3>7. r = [w \in 1 .. Len(r) |-> r[w]]
      BY ONLY <3>6
    <3> QED BY ONLY <1>3, <2>2, <3>5, <3>6, <3>7
  <2>4. ASSUME NEW w \in 1 .. v + 1
        PROVE  (IF w <= v THEN s[w] ELSE t[w - v]) = b[w]
    <3>1. CASE w <= v
      BY <1>3, <3>1
    <3>2. CASE ~(w <= v)
      <4>1. w = v + 1 /\ w - v = 1
        BY <3>2
      <4> QED BY <2>2, <3>2, <4>1
    <3> QED BY <3>1, <3>2
  <2> QED BY <2>1, <2>3, <2>4
<1> QED BY <1>1, <1>2, <1>4 DEF Upto

\* The list hangs in the tree, and its elements are no lists.
ListHung(kind, n, b, E) ==
  /\ AList(kind, n, b, E) /\ ListNodes(b, E, n) \subseteq nodes /\ OneEach
  /\ \A v \in 1 .. n : ~IsList(b[v])

LEMMA ListItems ==
  ASSUME IsQuery(query), NEW kind, NEW n, NEW b, NEW E, ListHung(kind, n, b, E),
         NEW m \in n - 1 .. Len(query)
  PROVE  ItemHeads[m][ListHead(b, n)] = Upto(b, n)
<1>1. PICK L \in Nat : L = Len(query)
  BY QueryFacts
<1>2. /\ n \in Nat \ {0} /\ n <= L /\ \A v \in 1 .. n + 1 : b[v] \in 2 .. L
      /\ \A v \in 1 .. n : query[b[v + 1] - 1] = IF v = n THEN ")" ELSE ","
      /\ \A v \in 1 .. n : ~IsList(b[v])
      /\ ListNodes(b, E, n) \subseteq nodes /\ OneEach
  BY <1>1 DEF ListHung, AList
<1>0. n \in Nat \ {0}
  BY <1>2
<1> DEFINE Holds(u) == u + 1 <= n => \A k \in u .. L : ItemHeads[k][ListHead(b, u + 1)] = Upto(b, u + 1)
           P == {u \in Nat : Holds(u)}
<1>3. 0 \in P
  <2>1. ListHead(b, 1) = b[1]
    BY DEF ListHead
  <2>2. 1 \in 1 .. n /\ 1 \in 1 .. n + 1
    BY ONLY <1>0
  <2>3. b[1] \in 2 .. L /\ ~IsList(b[1])
    BY <1>2, <2>2
  <2>4. b[1] \in 1 .. Len(query)
    <3>1. PICK x \in 2 .. L : x = b[1]
      BY <2>3
    <3>2. x \in 1 .. L
      BY ONLY L \in Nat, x \in 2 .. L
    <3> QED BY ONLY <1>1, <3>1, <3>2
  <2>5. ASSUME NEW k \in 0 .. L PROVE ItemHeads[k][ListHead(b, 1)] = Upto(b, 1)
    <3>1. ItemHeads[k][b[1]] = <<b[1]>>
      BY <1>1, <2>3, <2>4, OpensNone
    <3>2. Upto(b, 1) = <<b[1]>>
      BY <1>1, UptoNext
    <3> QED BY <2>1, <3>1, <3>2
  <2>6. 0 + 1 = 1
    OBVIOUS
  <2> QED BY <2>5, <2>6
<1>4. ASSUME NEW u \in Nat, Holds(u) PROVE Holds(u + 1)
  <2>0. u \in Nat /\ Holds(u)
    BY <1>4
  <2>1. ASSUME (u + 1) + 1 <= n, NEW k \in u + 1 .. L
        PROVE  ItemHeads[k][ListHead(b, (u + 1) + 1)] = Upto(b, (u + 1) + 1)
    <3>1. PICK v \in Nat : v = u + 1
      BY <2>0
    <3>a. u \in Nat
      BY <2>0
    <3>2. /\ v \in 1 .. n /\ v # n /\ v + 1 \in 1 .. n /\ v + 1 # 1 /\ v + 1 \in 2 .. n
          /\ v + 1 \in 1 .. n + 1 /\ u + 1 <= n /\ k - 1 \in u .. L /\ k \in 1 .. L
          /\ k - 1 \in 0 .. L /\ (v + 1) - 1 = v
      BY ONLY <1>0, <2>1, <3>a, L \in Nat, k \in u + 1 .. L, <3>1
    <3>3. b[v + 1] \in 2 .. L /\ IsList(b[v + 1] - 1) /\ ~IsList(b[v + 1])
      <4>1. query[b[v + 1] - 1] = ","
        BY <1>2, <3>2
      <4> QED BY <1>2, <3>2, <4>1 DEF IsList
    <3>4. b[v + 1] - 1 \in 1 .. L /\ b[v + 1] \in 1 .. L
      <4>1. PICK x \in 2 .. L : x = b[v + 1]
        BY <3>3
      <4>2. x - 1 \in 1 .. L /\ x \in 1 .. L
        BY ONLY L \in Nat, x \in 2 .. L
      <4> QED BY ONLY <4>1, <4>2
    <3>5. CommaNode(b, v + 1) \in nodes
      <4>1. CommaNode(b, v + 1) \in ListNodes(b, E, n)
        BY <3>2 DEF ListNodes
      <4> QED BY <1>2, <4>1
    <3>6. CommaNode(b, v + 1) = Node(b[v + 1] - 1, <<ListHead(b, v), b[v + 1]>>)
      BY <3>2 DEF CommaNode
    <3>7. ChildsOf(b[v + 1] - 1) = <<ListHead(b, v), b[v + 1]>>
      BY <1>2, <3>5, <3>6, ChildsFacts
    <3>8. ItemHeads[k][b[v + 1] - 1] = ItemHeads[k - 1][ListHead(b, v)] \o ItemHeads[k - 1][b[v + 1]]
      <4>1. PICK i, x, y : i = b[v + 1] - 1 /\ x = ListHead(b, v) /\ y = b[v + 1]
        OBVIOUS
      <4>2. /\ ChildsOf(i) = <<x, y>> /\ IsList(i) /\ Len(query) \in Nat
            /\ i \in 1 .. Len(query) /\ k \in 1 .. Len(query)
        BY ONLY <1>1, <3>2, <3>3, <3>4, <3>7, <4>1
      <4>3. PICK s, t : s = ItemHeads[k - 1][x] /\ t = ItemHeads[k - 1][y]
        OBVIOUS
      <4>4. OpenedTo(k, i, x, y, s, t)
        BY ONLY <4>2, <4>3 DEF OpenedTo
      <4>5. ItemHeads[k][i] = s \o t
        <5>1. Len(query) \in Nat
          BY ONLY <4>2
        <5>2. \A j, h, c, d, f, g : OpenedTo(j, h, c, d, f, g) => ItemHeads[j][h] = f \o g
          BY ONLY <5>1, OpensTwo
        <5> QED BY ONLY <4>4, <5>2
      <4> QED BY ONLY <4>1, <4>3, <4>5
    <3>9. ItemHeads[k - 1][ListHead(b, v)] = Upto(b, v)
      BY <2>0, <3>1, <3>2
    <3>10. ItemHeads[k - 1][b[v + 1]] = <<b[v + 1]>>
      BY <1>1, <3>2, <3>3, <3>4, OpensNone
    <3>11. ListHead(b, v + 1) = b[v + 1] - 1
      BY <3>2 DEF ListHead
    <3>12. Upto(b, v) \o <<b[v + 1]>> = Upto(b, v + 1)
      BY UptoNext
    <3> QED BY ONLY <3>1, <3>8, <3>9, <3>10, <3>11, <3>12
  <2> QED BY <2>1
<1>5. P = Nat
  <2>1. P \in SUBSET Nat
    OBVIOUS
  <2>2. \A u \in P : u + 1 \in P
    <3> HIDE DEF Holds
    <3> QED BY <1>4
  <2> HIDE DEF P
  <2> QED BY <1>3, <2>1, <2>2, Induction
<1>6. n - 1 \in Nat /\ (n - 1) + 1 = n
  BY ONLY <1>0
<1>7. Holds(n - 1)
  <2>1. n - 1 \in P
    BY <1>5, <1>6
  <2> HIDE DEF Holds
  <2> QED BY <2>1
<1>8. m \in n - 1 .. L
  BY <1>1
<1>9. n <= n
  BY ONLY <1>0
<1> QED BY ONLY <1>6, <1>7, <1>8, <1>9

-----------------------------------------------------------------------------
(* The sentences' lists.                                                   *)

Values(n) == [v \in 1 .. n + 1 |-> 4 + 2 * v]
ValueTrees(n) == [v \in 1 .. n |-> Leaf(4 + 2 * v)]

ColumnTree(dtype, i) ==
  IF dtype = "char" THEN Tree(i, <<Leaf(i + 1), Leaf(i + 3)>>) ELSE Tree(i, <<Leaf(i + 1)>>)

ColumnTrees(cols, at) == [c \in 1 .. Len(cols) |-> ColumnTree(cols[c], at[c])]

LEMMA ValueWords ==
  ASSUME NEW t \in Literals \cup Names
  PROVE  /\ t \in Expressions /\ t \notin Unknown /\ t \notin {"+", "-"} /\ t # "("
         /\ t \notin {",", "values"}
BY DEF Literals, Names, Expressions, Unknown

LEMMA DatatypeFacts ==
  ASSUME NEW t \in Datatypes
  PROVE  t \in Expressions /\ t \notin Unknown
BY DEF Datatypes, Expressions, Unknown

LEMMA ColumnWords ==
  /\ "a" \in Names /\ "a" \in Expressions /\ "a" \notin Unknown /\ "a" # "("
  /\ "a" \notin {",", "values"} /\ "a" # "EOQ" /\ "1" \notin Unknown /\ Text("(") = "("
BY DEF Names, Expressions, Unknown, Text

\* What comes first, if it is a value.
LEMMA ValueStart ==
  ASSUME Len(query) \in Nat, NEW call, NEW i \in 1 .. Len(query), query[i] \in Literals \cup Names
  PROVE  Start("insert", call, i) = Done(Leaf(i), i)
<1>1. PICK t : t = query[i]
  OBVIOUS
<1>2. t \in Expressions /\ t \notin Unknown /\ t \notin {"+", "-"} /\ t # "("
  BY <1>1, ValueWords
<1>3. ~(i > Len(query))
  BY ONLY Len(query) \in Nat, i \in 1 .. Len(query)
<1>4. Look(i) = "ok"
  BY ONLY <1>1, <1>2, <1>3 DEF Look
<1>5. Expect(i, Expressions) = "ok"
  BY ONLY <1>1, <1>2, <1>4 DEF Expect
<1>6. PICK lhs : lhs = Done(Leaf(i), i)
  OBVIOUS
<1>7. lhs.st = "ok" /\ lhs.i = i
  BY ONLY <1>6, ResultFacts
<1>8. Operand("insert", call, i) = lhs
  <2>1. "insert" # "create"
    OBVIOUS
  <2> QED BY ONLY <1>1, <1>2, <1>4, <1>6, <2>1 DEF Operand
<1> QED BY ONLY <1>5, <1>6, <1>7, <1>8 DEF Start

\* What comes first, if it is a column.
IsColumn(i, dtype) ==
  /\ query[i] = "a" /\ query[i + 1] = dtype /\ dtype \in Datatypes
  /\ dtype = "char" => query[i + 2] = "(" /\ query[i + 3] = "1" /\ query[i + 4] = ")"

LEMMA ColumnStart ==
  ASSUME Len(query) \in Nat, NEW call, NEW i \in Nat, NEW dtype, IsColumn(i, dtype),
         NEW j, j = i + (IF dtype = "char" THEN 4 ELSE 1), j <= Len(query)
  PROVE  Start("create", call, i) = Done(ColumnTree(dtype, i), j)
<1>0. /\ query[i] = "a" /\ query[i + 1] = dtype /\ dtype \in Datatypes
      /\ dtype = "char" => query[i + 2] = "(" /\ query[i + 3] = "1" /\ query[i + 4] = ")"
  BY DEF IsColumn
<1>1. /\ ~(i > Len(query)) /\ ~(i + 1 > Len(query)) /\ ~(j > Len(query))
      /\ dtype = "char" => ~(i + 3 > Len(query)) /\ j = i + 4
      /\ dtype # "char" => j = i + 1
  <2>1. CASE dtype = "char"
    <3>1. j = i + 4
      BY <2>1
    <3> QED BY ONLY Len(query) \in Nat, i \in Nat, j <= Len(query), <2>1, <3>1
  <2>2. CASE dtype # "char"
    <3>1. j = i + 1
      BY <2>2
    <3> QED BY ONLY Len(query) \in Nat, i \in Nat, j <= Len(query), <2>2, <3>1
  <2> QED BY <2>1, <2>2
<1>2. Look(i) = "ok"
  BY ONLY <1>0, <1>1, ColumnWords DEF Look
<1>3. Expect(i + 1, Datatypes) = "ok"
  <2>1. dtype \notin Unknown
    BY <1>0, DatatypeFacts
  <2> QED BY ONLY <1>0, <1>1, <2>1 DEF Expect, Look
<1>4. PICK lhs : lhs = Done(ColumnTree(dtype, i), j)
  OBVIOUS
<1>5. lhs.st = "ok" /\ lhs.i = j
  BY ONLY <1>4, ResultFacts
<1>6. Column(i) = lhs
  <2>1. CASE dtype = "char"
    <3>1. Look(i + 3) = "ok" /\ Text(query[i + 2]) = "("
      BY ONLY <1>0, <1>1, <2>1, ColumnWords DEF Look
    <3>2. ColumnTree(dtype, i) = Tree(i, <<Leaf(i + 1), Leaf(i + 3)>>)
      BY ONLY <2>1 DEF ColumnTree
    <3> QED BY ONLY <1>0, <1>1, <1>3, <1>4, <2>1, <3>1, <3>2 DEF Column
  <2>2. CASE dtype # "char"
    <3>1. ColumnTree(dtype, i) = Tree(i, <<Leaf(i + 1)>>)
      BY ONLY <2>2 DEF ColumnTree
    <3> QED BY ONLY <1>0, <1>1, <1>3, <1>4, <2>2, <3>1 DEF Column
  <2> QED BY <2>1, <2>2
<1>7. Operand("create", call, i) = lhs
  BY ONLY <1>0, <1>2, <1>6, ColumnWords DEF Operand
<1>8. Expect(j, Expressions) = "ok"
  <2>1. query[j] \in Expressions /\ query[j] \notin Unknown
    <3>1. CASE dtype = "char"
      BY ONLY <1>0, <1>1, <3>1, CommaFacts
    <3>2. CASE dtype # "char"
      BY <1>0, <1>1, <3>2, DatatypeFacts
    <3> QED BY <3>1, <3>2
  <2> QED BY ONLY <1>1, <2>1 DEF Expect, Look
<1> QED BY ONLY <1>4, <1>5, <1>7, <1>8 DEF Start

Width(cols, c) == IF cols[c] = "char" THEN 6 ELSE 3

\* Where the columns are, one by one.
LEMMA ColumnAtNext ==
  ASSUME NEW cols, Len(cols) \in Nat
  PROVE  /\ ColumnAt(cols)[1] = 5
         /\ \A c \in 1 .. Len(cols) : ColumnAt(cols)[c + 1] = ColumnAt(cols)[c] + Width(cols, c)
<1> DEFINE Step(s, c) == IF c = 1 THEN 5 ELSE s[c - 1] + (IF cols[c - 1] = "char" THEN 6 ELSE 3)
           Fits(s, m) == s = [c \in 1 .. m + 1 |-> s[c]] /\ \A c \in 1 .. m + 1 : s[c] = Step(s, c)
           P == {m \in Nat : \E s : Fits(s, m)}
           top == Len(cols)
<1>1. 0 \in P
  <2> DEFINE s == [c \in 1 .. 0 + 1 |-> 5]
  <2>1. s = [c \in 1 .. 0 + 1 |-> s[c]] /\ \A c \in 1 .. 0 + 1 : c = 1 /\ s[c] = 5
    OBVIOUS
  <2>2. Fits(s, 0)
    <3> HIDE DEF s
    <3> QED BY <2>1
  <2> QED BY <2>2
<1>2. ASSUME NEW m \in P PROVE m + 1 \in P
  <2>1. PICK s : Fits(s, m)
    OBVIOUS
  <2>0. m \in Nat /\ (m + 1) + 1 \in Nat
    OBVIOUS
  <2> DEFINE x == Step(s, (m + 1) + 1)
             t == [c \in 1 .. (m + 1) + 1 |-> IF c = (m + 1) + 1 THEN x ELSE s[c]]
  <2>2. /\ t = [c \in 1 .. (m + 1) + 1 |-> t[c]] /\ t[(m + 1) + 1] = x
        /\ \A c \in 1 .. m + 1 : t[c] = s[c]
    <3> HIDE DEF x
    <3> QED BY <2>0
  <2>3. ASSUME NEW c \in 1 .. (m + 1) + 1 PROVE t[c] = Step(t, c)
    <3>1. t[c] = Step(s, c)
      <4>1. c = (m + 1) + 1 \/ c \in 1 .. m + 1
        BY <2>0
      <4> HIDE DEF t, Step
      <4> QED BY <2>1, <2>2, <4>1 DEF x
    <3>2. CASE c = 1
      BY <3>1, <3>2
    <3>3. CASE c # 1
      <4>1. c - 1 \in 1 .. m + 1
        BY <2>0, <3>3
      <4>2. t[c - 1] = s[c - 1]
        <5> HIDE DEF t
        <5> QED BY <2>2, <4>1
      <4> HIDE DEF t
      <4> QED BY <3>1, <3>3, <4>2
    <3> QED BY <3>2, <3>3
  <2> HIDE DEF t, Step
  <2>4. Fits(t, m + 1)
    BY <2>2, <2>3
  <2>5. m + 1 \in Nat
    BY <2>0
  <2> HIDE DEF Fits
  <2> QED BY <2>4, <2>5
<1>3. P = Nat
  <2>1. P \in SUBSET Nat
    OBVIOUS
  <2> HIDE DEF P
  <2> QED BY <1>1, <1>2, <2>1, Induction
<1>4. PICK s : Fits(s, top)
  <2>1. top \in P
    BY <1>3
  <2> HIDE DEF Fits
  <2> QED BY <2>1
<1>5. s = [c \in 1 .. top + 1 |-> Step(s, c)]
  <2>1. s = [c \in 1 .. top + 1 |-> s[c]] /\ \A c \in 1 .. top + 1 : s[c] = Step(s, c)
    BY <1>4
  <2> HIDE DEF Step
  <2> QED BY <2>1
<1> DEFINE at == CHOOSE g : g = [c \in 1 .. top + 1 |-> Step(g, c)]
<1>6. at = [c \in 1 .. top + 1 |-> Step(at, c)]
  BY <1>5
<1>7. ColumnAt(cols) = at
  BY DEF ColumnAt
<1> HIDE DEF at
<1>8. \A c \in 1 .. top + 1 : at[c] = Step(at, c)
  BY <1>6
<1>9. at[1] = 5
  <2>1. 1 \in 1 .. top + 1
    OBVIOUS
  <2> QED BY <1>8, <2>1
<1>10. ASSUME NEW c \in 1 .. top PROVE at[c + 1] = at[c] + Width(cols, c)
  <2>1. c + 1 \in 1 .. top + 1 /\ c + 1 # 1 /\ (c + 1) - 1 = c
    OBVIOUS
  <2>2. at[c + 1] = Step(at, c + 1)
    BY <1>8, <2>1
  <2> QED BY <2>1, <2>2 DEF Width
<1> QED BY <1>7, <1>9, <1>10

LEMMA ColumnPlaces ==
  ASSUME NEW n \in Nat, NEW at, at[1] = 5,
         \A c \in 1 .. n : at[c + 1] = at[c] + 3 \/ at[c + 1] = at[c] + 6
  PROVE  \A c \in 1 .. n + 1 : at[c] \in Nat /\ at[c] >= 4 + c /\ at[c] <= at[n + 1]
<1> DEFINE Holds(u) == u <= n => \A d \in 1 .. u + 1 :
                         at[d] \in Nat /\ at[d] >= 4 + d /\ at[d] <= at[u + 1]
           P == {u \in Nat : Holds(u)}
<1>1. Holds(0)
  <2>1. 0 + 1 = 1 /\ \A d \in 1 .. 0 + 1 : d = 1
    OBVIOUS
  <2>2. 5 <= 5 /\ 5 >= 4 + 1 /\ 5 \in Nat
    OBVIOUS
  <2> QED BY <2>1, <2>2
<1>2. ASSUME NEW u \in Nat, Holds(u) PROVE Holds(u + 1)
  <2>1. ASSUME u + 1 <= n, NEW d \in 1 .. (u + 1) + 1
        PROVE  at[d] \in Nat /\ at[d] >= 4 + d /\ at[d] <= at[(u + 1) + 1]
    <3>1. u <= n /\ u + 1 \in 1 .. n /\ u + 1 \in 1 .. u + 1
      BY <2>1
    <3>2. PICK x, y : x = at[u + 1] /\ y = at[(u + 1) + 1]
      OBVIOUS
    <3>3. x \in Nat /\ x >= 4 + (u + 1) /\ (y = x + 3 \/ y = x + 6)
      <4>1. x \in Nat /\ x >= 4 + (u + 1)
        BY <1>2, <3>1, <3>2
      <4>2. y = x + 3 \/ y = x + 6
        BY <3>1, <3>2
      <4> QED BY <4>1, <4>2
    <3>4. CASE d = (u + 1) + 1
      <4>1. y \in Nat /\ y >= 4 + d /\ y <= y
        BY ONLY u \in Nat, <3>3, <3>4
      <4> QED BY ONLY <3>2, <3>4, <4>1
    <3>5. CASE d # (u + 1) + 1
      <4>1. d \in 1 .. u + 1
        BY ONLY u \in Nat, d \in 1 .. (u + 1) + 1, <3>5
      <4>2. at[d] \in Nat /\ at[d] >= 4 + d /\ at[d] <= x
        BY <1>2, <3>1, <3>2, <4>1
      <4>3. PICK z : z = at[d]
        OBVIOUS
      <4>4. z <= y
        BY ONLY <3>3, <4>2, <4>3
      <4> QED BY ONLY <3>2, <4>2, <4>3, <4>4
    <3> QED BY <3>4, <3>5
  <2> QED BY <2>1
<1>3. P = Nat
  <2>1. P \in SUBSET Nat
    OBVIOUS
  <2>2. 0 \in P /\ \A u \in P : u + 1 \in P
    <3> HIDE DEF Holds
    <3> QED BY <1>1, <1>2
  <2> HIDE DEF P
  <2> QED BY <2>1, <2>2, Induction
<1>4. Holds(n)
  <2>1. n \in P
    BY <1>3
  <2> HIDE DEF Holds
  <2> QED BY <2>1
<1>5. n <= n
  OBVIOUS
<1> QED BY ONLY <1>4, <1>5

LEMMA InsertWords ==
  ASSUME NEW n, IsInsert(n)
  PROVE  /\ query[1] = "insert" /\ query[2] = "into" /\ query[3] = "a" /\ query[4] = "values"
         /\ query[5] = "("
<1> DEFINE words == <<"insert", "into", "a", "values", "(">>
<1>1. /\ words[1] = "insert" /\ words[2] = "into" /\ words[3] = "a" /\ words[4] = "values"
      /\ words[5] = "("
  OBVIOUS
<1>2. \A i \in 1 .. 5 : query[i] = words[i]
  BY DEF IsInsert
<1> HIDE DEF words
<1>3. 1 \in 1 .. 5 /\ 2 \in 1 .. 5 /\ 3 \in 1 .. 5 /\ 4 \in 1 .. 5 /\ 5 \in 1 .. 5
  BY ONLY TRUE
<1> QED BY ONLY <1>1, <1>2, <1>3

LEMMA CreateWords ==
  ASSUME NEW cols, NEW at, IsCreate(cols, at)
  PROVE  query[1] = "create" /\ query[2] = "table" /\ query[3] = "a" /\ query[4] = "("
<1> DEFINE words == <<"create", "table", "a", "(">>
<1>1. words[1] = "create" /\ words[2] = "table" /\ words[3] = "a" /\ words[4] = "("
  OBVIOUS
<1>2. \A i \in 1 .. 4 : query[i] = words[i]
  BY DEF IsCreate
<1> HIDE DEF words
<1>3. 1 \in 1 .. 4 /\ 2 \in 1 .. 4 /\ 3 \in 1 .. 4 /\ 4 \in 1 .. 4
  BY ONLY TRUE
<1> QED BY ONLY <1>1, <1>2, <1>3

LEMMA InsertList ==
  ASSUME IsQuery(query), NEW n \in 1 .. Len(query), IsInsert(n)
  PROVE  /\ AList("insert", n, Values(n), ValueTrees(n)) /\ Values(n)[1] = 6
         /\ \A v \in 1 .. n : ~IsList(Values(n)[v])
<1>1. /\ Len(query) = 2 * n + 6
      /\ \A v \in 1 .. n : query[4 + 2 * v] \in Literals \cup Names
      /\ \A v \in 1 .. n : query[5 + 2 * v] = IF v = n THEN ")" ELSE ","
  BY DEF IsInsert
<1>2. Len(query) \in Nat /\ n \in Nat \ {0} /\ n <= Len(query)
  <2>1. Len(query) \in Nat
    BY QueryFacts
  <2> QED BY ONLY <2>1, n \in 1 .. Len(query)
<1>3. PICK b, E : b = Values(n) /\ E = ValueTrees(n)
  OBVIOUS
<1>4. \A v \in 1 .. n + 1 : b[v] = 4 + 2 * v
  BY ONLY <1>3 DEF Values
<1>5. \A v \in 1 .. n : E[v] = Leaf(4 + 2 * v)
  BY ONLY <1>3 DEF ValueTrees
<1>6. b[n + 1] = Len(query) /\ b[1] = 6 /\ b[1] - 1 = 5
  <2>1. n + 1 \in 1 .. n + 1 /\ 1 \in 1 .. n + 1
    BY ONLY <1>2
  <2>2. 4 + 2 * (n + 1) = 2 * n + 6 /\ 4 + 2 * 1 = 6 /\ 6 - 1 = 5
    BY ONLY <1>2
  <2> QED BY ONLY <1>1, <1>4, <2>1, <2>2
<1>7. ASSUME NEW v \in 1 .. n + 1 PROVE b[v] \in 2 .. Len(query)
  <2>1. 4 + 2 * v \in 2 .. 2 * n + 6
    BY ONLY <1>2, v \in 1 .. n + 1
  <2> QED BY ONLY <1>1, <1>4, <1>7, <2>1
<1>8. ASSUME NEW v \in 1 .. n
      PROVE  /\ b[v] + 2 <= b[v + 1] /\ query[b[v + 1] - 1] = IF v = n THEN ")" ELSE ","
             /\ E[v].head = b[v] /\ ~IsList(b[v])
             /\ \A call : Start("insert", call, b[v]) = Done(E[v], b[v + 1] - 2)
  <2>1. v \in 1 .. n + 1 /\ v + 1 \in 1 .. n + 1
    BY ONLY <1>2, v \in 1 .. n
  <2>2. PICK p \in Nat : p = 4 + 2 * v /\ 5 + 2 * v = p + 1 /\ 4 + 2 * (v + 1) = p + 2
    BY ONLY <1>2, v \in 1 .. n
  <2>3. /\ (p + 2) - 1 = p + 1 /\ (p + 2) - 2 = p /\ p + 2 <= p + 2
        /\ p \in 1 .. 2 * n + 6
    BY ONLY <1>2, v \in 1 .. n, <2>2
  <2>4. b[v] = p /\ b[v + 1] = p + 2
    BY ONLY <1>4, <2>1, <2>2
  <2>5. E[v] = Leaf(p) /\ query[p] \in Literals \cup Names
    BY ONLY <1>1, <1>5, <2>2, v \in 1 .. n
  <2>6. Leaf(p).head = p
    BY LeafGrown
  <2>7. PICK sep : sep = query[p + 1]
    OBVIOUS
  <2>8. query[b[v + 1] - 1] = IF v = n THEN ")" ELSE ","
    <3>1. query[p + 1] = IF v = n THEN ")" ELSE ","
      BY <1>1, <2>2
    <3>2. b[v + 1] - 1 = p + 1
      BY ONLY <2>3, <2>4
    <3> QED BY <3>1, <3>2
  <2>9. ~IsList(p)
    <3>1. PICK t : t = query[p]
      OBVIOUS
    <3>2. t \notin {",", "values"}
      BY <2>5, <3>1, ValueWords
    <3> QED BY <3>1, <3>2 DEF IsList
  <2>10. ASSUME NEW call PROVE Start("insert", call, p) = Done(Leaf(p), p)
    <3>1. p \in 1 .. Len(query)
      BY ONLY <1>1, <2>3
    <3> QED BY ONLY <1>2, <2>5, <3>1, ValueStart
  <2>11. b[v] + 2 <= b[v + 1] /\ b[v + 1] - 2 = p
    BY ONLY <2>3, <2>4
  <2> QED BY <2>4, <2>5, <2>6, <2>8, <2>9, <2>10, <2>11
<1>9. query[b[1] - 1] = "("
  BY <1>6, InsertWords
<1>10. AList("insert", n, b, E)
  BY ONLY <1>2, <1>6, <1>7, <1>8, <1>9 DEF AList
<1> QED BY ONLY <1>3, <1>6, <1>8, <1>10

\* A column's tree, its word and where it ends.
LEMMA CreateList ==
  ASSUME IsQuery(query), NEW cols \in Seq(Datatypes), cols # << >>,
         NEW b, b = ColumnAt(cols), IsCreate(cols, b)
  PROVE  /\ AList("create", Len(cols), b, ColumnTrees(cols, b)) /\ b[1] = 5
         /\ \A c \in 1 .. Len(cols) : ~IsList(b[c])
<1>1. PICK n : n = Len(cols)
  OBVIOUS
<1>2. /\ n \in Nat \ {0} /\ \A c \in 1 .. n : cols[c] \in Datatypes
  BY ONLY <1>1, cols \in Seq(Datatypes), cols # << >>
<1>3. b[1] = 5 /\ \A c \in 1 .. n : b[c + 1] = b[c] + Width(cols, c)
  <2>1. Len(cols) \in Nat
    BY <1>1, <1>2
  <2> QED BY ONLY <1>1, <2>1, b = ColumnAt(cols), ColumnAtNext
<1>4. \A c \in 1 .. n + 1 : b[c] \in Nat /\ b[c] >= 4 + c /\ b[c] <= b[n + 1]
  <2>1. \A c \in 1 .. n : b[c + 1] = b[c] + 3 \/ b[c + 1] = b[c] + 6
    BY ONLY <1>3 DEF Width
  <2>2. n \in Nat
    BY ONLY <1>2
  <2> QED BY ONLY <1>3, <2>1, <2>2, ColumnPlaces
<1>5. /\ b[n + 1] = Len(query)
      /\ \A c \in 1 .. n :
           /\ query[b[c]] = "a" /\ query[b[c] + 1] = cols[c]
           /\ cols[c] = "char" =>
                query[b[c] + 2] = "(" /\ query[b[c] + 3] = "1" /\ query[b[c] + 4] = ")"
           /\ query[b[c + 1] - 1] = IF c = n THEN ")" ELSE ","
  <2>1. /\ b[Len(cols) + 1] = Len(query)
        /\ \A c \in 1 .. Len(cols) :
             /\ query[b[c]] = "a" /\ query[b[c] + 1] = cols[c]
             /\ cols[c] = "char" =>
                  query[b[c] + 2] = "(" /\ query[b[c] + 3] = "1" /\ query[b[c] + 4] = ")"
             /\ query[b[c + 1] - 1] = IF c = Len(cols) THEN ")" ELSE ","
    BY DEF IsCreate
  <2> QED BY ONLY <1>1, <2>1, Zenon
<1>6. Len(query) \in Nat
  BY QueryFacts
<1>7. n <= Len(query)
  <2>1. n + 1 \in 1 .. n + 1
    BY ONLY <1>2
  <2>2. Len(query) >= 4 + (n + 1)
    BY ONLY <1>4, <1>5, <2>1
  <2> QED BY ONLY <1>2, <1>6, <2>2
<1>8. ASSUME NEW c \in 1 .. n + 1 PROVE b[c] \in 2 .. Len(query)
  <2>1. PICK x : x = b[c]
    OBVIOUS
  <2>2. x \in Nat /\ x >= 4 + c /\ x <= Len(query)
    BY ONLY <1>4, <1>5, <1>8, <2>1
  <2>3. x \in 2 .. Len(query)
    BY ONLY <1>2, <1>6, c \in 1 .. n + 1, <2>2
  <2> QED BY ONLY <2>1, <2>3
<1>9. PICK E : E = ColumnTrees(cols, b)
  OBVIOUS
<1>10. ASSUME NEW c \in 1 .. n
       PROVE  /\ b[c] + 2 <= b[c + 1]
              /\ E[c].head = b[c] /\ ~IsList(b[c])
              /\ \A call : Start("create", call, b[c]) = Done(E[c], b[c + 1] - 2)
  <2>1. c \in 1 .. n + 1 /\ c + 1 \in 1 .. n + 1
    BY ONLY <1>2, c \in 1 .. n
  <2>2. PICK p \in Nat : p = b[c]
    BY ONLY <1>4, <2>1
  <2>3. PICK q : q = b[c + 1]
    OBVIOUS
  <2>4. q \in Nat /\ q <= Len(query)
    BY ONLY <1>4, <1>5, <2>1, <2>3
  <2>5. PICK dtype : dtype = cols[c]
    OBVIOUS
  <2>6. q = p + (IF dtype = "char" THEN 6 ELSE 3)
    BY ONLY <1>3, <2>2, <2>3, <2>5, c \in 1 .. n DEF Width
  <2>7. IsColumn(p, dtype)
    BY ONLY <1>2, <1>5, <2>2, <2>5, c \in 1 .. n DEF IsColumn
  <2>8. PICK j : j = p + (IF dtype = "char" THEN 4 ELSE 1)
    OBVIOUS
  <2>9. j = q - 2 /\ j <= Len(query) /\ p + 2 <= q
    <3>1. CASE dtype = "char"
      <4>1. q = p + 6 /\ j = p + 4
        BY ONLY <2>6, <2>8, <3>1
      <4> QED BY ONLY p \in Nat, <1>6, <2>4, <4>1
    <3>2. CASE dtype # "char"
      <4>1. q = p + 3 /\ j = p + 1
        BY ONLY <2>6, <2>8, <3>2
      <4> QED BY ONLY p \in Nat, <1>6, <2>4, <4>1
    <3> QED BY ONLY <3>1, <3>2
  <2>10. E[c] = ColumnTree(dtype, p)
    BY ONLY <1>1, <1>9, <2>2, <2>5, c \in 1 .. n DEF ColumnTrees
  <2>11. ColumnTree(dtype, p).head = p
    <3>1. \A below : Tree(p, below).head = p
      BY DEF Tree
    <3> QED BY ONLY <3>1 DEF ColumnTree
  <2>12. ASSUME NEW call PROVE Start("create", call, p) = Done(ColumnTree(dtype, p), j)
    BY ONLY <1>6, <2>7, <2>8, <2>9, ColumnStart
  <2>13. ~IsList(p)
    BY <2>7, ColumnWords DEF IsList, IsColumn
  <2> QED BY ONLY <2>2, <2>3, <2>9, <2>10, <2>11, <2>12, <2>13
<1>11. query[b[1] - 1] = "("
  <2>1. b[1] - 1 = 4
    BY ONLY <1>3
  <2> QED BY <2>1, CreateWords
<1>12. AList("create", n, b, E)
  <2>1. \A c \in 1 .. n : query[b[c + 1] - 1] = IF c = n THEN ")" ELSE ","
    BY <1>5
  <2> QED BY ONLY <1>2, <1>5, <1>7, <1>8, <1>10, <1>11, <2>1 DEF AList
<1> QED BY ONLY <1>1, <1>3, <1>9, <1>10, <1>12

-----------------------------------------------------------------------------
(* A sentence is read in one step.                                         *)

Untouched == token = 1 /\ root = << >> /\ nodes = {} /\ out = "run"

\* What hangs in the tree before the list.
Opening(type, head) ==
  IF type = "insert" THEN {Node(1, <<2>>), Node(2, <<3>>), Node(4, <<head>>)}
  ELSE {Node(1, <<2, 3>>)}

SentenceRead(type, n, b, E) ==
  /\ token = Len(query) /\ out \in {"run", "ok"}
  /\ root = <<1, IF type = "insert" THEN 4 ELSE ListHead(b, n)>>
  /\ Opening(type, ListHead(b, n)) \subseteq nodes /\ ListNodes(b, E, n) \subseteq nodes

SentencesRead ==
  /\ \A n \in 1 .. Len(query) :
       IsInsert(n) => SentenceRead("insert", n, Values(n), ValueTrees(n))
  /\ \A cols \in Seq(Datatypes) \ {<< >>} :
       IsCreate(cols, ColumnAt(cols)) =>
         SentenceRead("create", Len(cols), ColumnAt(cols), ColumnTrees(cols, ColumnAt(cols)))

SentInv == FirstCapa >= 2 /\ (Untouched \/ SentencesRead)

LEMMA TwoHung ==
  ASSUME FirstCapa >= 2, NEW t \in Nat, NEW x \in 0 .. t, NEW y \in 0 .. t
  PROVE  append(append(<< >>, x), y) = <<x, y>>
<1>0. FirstCapa \in Nat
  BY FirstCapaAssumption
<1>1. PICK none : none = << >>
  OBVIOUS
<1>2. none \in Seq(0 .. t) /\ Len(none) = 0 /\ Append(none, x) = <<x>>
  BY ONLY <1>1
<1>3. PICK one : one = <<x>>
  OBVIOUS
<1>4. one \in Seq(0 .. t) /\ Len(one) = 1 /\ Append(one, y) = <<x, y>>
  <2>1. one \in Seq(0 .. t)
    BY ONLY <1>3, x \in 0 .. t
  <2>2. Len(one) = 1 /\ Append(one, y) = <<x, y>>
    <3>1. Len(<<x>>) = 1
      BY ONLY TRUE
    <3>2. Append(<<x>>, y) = <<x, y>>
      <4>1. PICK r : r = Append(one, y)
        OBVIOUS
      <4>2. one[1] = x /\ Len(one) = 1
        BY ONLY <1>3
      <4>3. r \in Seq(0 .. t) /\ Len(r) = 2 /\ r[1] = x /\ r[2] = y
        <5>1. PICK S : S = 0 .. t
          OBVIOUS
        <5>2. one \in Seq(S) /\ y \in S
          BY ONLY <2>1, <5>1, y \in 0 .. t
        <5>3. /\ r \in Seq(S) /\ Len(r) = Len(one) + 1 /\ r[Len(one) + 1] = y
              /\ \A i \in 1 .. Len(one) : r[i] = one[i]
          BY ONLY <4>1, <5>2, AppendProperties
        <5>4. 1 \in 1 .. 1 /\ 1 + 1 = 2
          BY ONLY TRUE
        <5> QED BY ONLY <4>2, <5>1, <5>3, <5>4
      <4>4. r = [c \in 1 .. 2 |-> r[c]]
        BY ONLY <4>3
      <4>5. r = [c \in 1 .. 2 |-> <<x, y>>[c]]
        BY ONLY <4>3, <4>4
      <4>6. r = <<x, y>>
        BY ONLY <4>5
      <4> QED BY ONLY <1>3, <4>1, <4>6
    <3> QED BY ONLY <1>3, <3>1, <3>2
  <2> QED BY ONLY <2>1, <2>2
<1>5. 0 < FirstCapa /\ 1 < FirstCapa
  BY ONLY <1>0, FirstCapa >= 2
<1>6. append(none, x) = one
  BY ONLY <1>2, <1>3, <1>5, t \in Nat, x \in 0 .. t, AppendFacts
<1>7. append(one, y) = <<x, y>>
  BY ONLY <1>4, <1>5, t \in Nat, y \in 0 .. t, AppendFacts
<1> QED BY ONLY <1>1, <1>6, <1>7

LEMMA SameWords == [Next]_vars => query' = query
BY DEF Next, Clause, Create, Insert, NotConsumed, NotRecognised, NoNodetype, Return, Ends, Takes,
       vars

\* At the end there is nothing to do but to return.
LEMMA AtTheEnd ==
  ASSUME IsQuery(query), token = Len(query), [Next]_vars
  PROVE  UNCHANGED <<query, token, root, nodes>> /\ out' \in {out, "ok"}
<1>1. query[token] = "EOQ" /\ token \in Nat
  BY QueryFacts
<1>2. Look(token) # "exit"
  <2>1. ~(token > Len(query))
    BY ONLY <1>1, token = Len(query)
  <2> QED BY <1>1, <2>1, CommaFacts DEF Look
<1>3. /\ "EOQ" \notin {"select", "where", "from"} /\ "EOQ" \notin {"create"}
      /\ "EOQ" \notin {"insert"} /\ "EOQ" \notin Unhandled /\ "EOQ" \notin Objects \cup Expressions
  BY WordFacts DEF Unhandled, Objects
<1>4. ~Clause
  BY <1>1, <1>3 DEF Clause, At
<1>5. ~Create /\ ~Insert /\ ~NotConsumed /\ ~NotRecognised
  BY <1>1, <1>3 DEF Create, Insert, NotConsumed, NotRecognised, At
<1>6. ~NoNodetype
  BY <1>2 DEF NoNodetype
<1>7. CASE Return
  BY <1>7 DEF Return, Ends
<1>8. CASE UNCHANGED vars
  BY <1>8 DEF vars
<1> QED BY <1>4, <1>5, <1>6, <1>7, <1>8 DEF Next

\* What a statement that takes a list does, if the words before it are as
\* they must be.
LEMMA TakesList ==
  ASSUME IsQuery(query), NEW type \in {"create", "insert"}, NEW n, NEW b, NEW E,
         AList(type, n, b, E), NEW i, i = b[1] - 1, Takes(type, "ok", i)
  PROVE  \E T : /\ T.head = ListHead(b, n) /\ T.nodes = ListNodes(b, E, n)
                /\ token' = Len(query) /\ Hang(Hung(type, T)) /\ out' = out
<1>1. PICK T : /\ Parsed(type, i) = Done(T, Len(query) - 1)
               /\ T.head = ListHead(b, n) /\ T.nodes = ListNodes(b, E, n)
  BY ListParsed
<1>2. parse_expr(type, i) = Parsed(type, i)
  BY DEF parse_expr, parse_create, parse_insert
<1>3. PICK r : r = parse_expr(type, i)
  OBVIOUS
<1>4. r.st = "ok" /\ r.tree = T /\ r.i = Len(query) - 1
  BY ONLY <1>1, <1>2, <1>3, ResultFacts
<1>5. token' = r.i + 1 /\ Hang(Hung(type, r.tree)) /\ UNCHANGED out
  BY <1>3, <1>4 DEF Takes
<1>6. (Len(query) - 1) + 1 = Len(query)
  <2>1. Len(query) \in Nat
    BY QueryFacts
  <2> QED BY ONLY <2>1
<1> QED BY <1>1, <1>4, <1>5, <1>6

LEMMA InsertIsRead ==
  ASSUME FirstCapa >= 2, IsQuery(query), Untouched, Next, NEW n \in 1 .. Len(query), IsInsert(n)
  PROVE  SentenceRead("insert", n, Values(n), ValueTrees(n))'
<1>1. PICK b, E : b = Values(n) /\ E = ValueTrees(n)
  OBVIOUS
<1>2. AList("insert", n, b, E) /\ b[1] = 6
  BY <1>1, InsertList
<1>3. /\ query[1] = "insert" /\ query[2] = "into" /\ query[3] = "a" /\ query[4] = "values"
      /\ query[5] = "("
  BY InsertWords
<1>4. Len(query) \in Nat /\ Len(query) >= 5
  <2>1. Len(query) = 2 * n + 6
    BY DEF IsInsert
  <2> QED BY ONLY <2>1, n \in 1 .. Len(query), IsQuery(query), QueryFacts
<1>5. token = 1 /\ root = << >> /\ nodes = {} /\ out = "run" /\ query[token] = "insert"
  BY <1>3 DEF Untouched
<1>6. Insert
  <2>1. /\ "insert" \notin {"select", "where", "from"} /\ "insert" \notin {"create"}
        /\ "insert" \notin Unhandled /\ "insert" \notin Objects \cup Expressions
        /\ "insert" \notin {"EOQ"} /\ "insert" \notin Unknown
    BY WordFacts DEF Unhandled, Objects, Handled, Unknown
  <2>2. Look(1) # "exit"
    <3>1. ~(1 > Len(query))
      BY ONLY <1>4
    <3> QED BY ONLY <1>3, <2>1, <3>1 DEF Look
  <2>3. ~Clause
    BY <1>5, <2>1 DEF Clause, At
  <2>4. ~Create /\ ~NotConsumed /\ ~NotRecognised /\ ~Return
    BY <1>5, <2>1 DEF Create, NotConsumed, NotRecognised, Return, At
  <2>5. ~NoNodetype
    BY <1>5, <2>2 DEF NoNodetype
  <2> QED BY <2>3, <2>4, <2>5 DEF Next
<1>7. /\ Expect(2, {"into"}) = "ok" /\ Expect(3, Names) = "ok" /\ Expect(4, {"values"}) = "ok"
      /\ Expect(5, Expressions) = "ok"
  <2>1. ~(2 > Len(query)) /\ ~(3 > Len(query)) /\ ~(4 > Len(query)) /\ ~(5 > Len(query))
    BY ONLY <1>4
  <2>2. "into" \notin Unknown /\ "values" \notin Unknown
    BY DEF Unknown
  <2>3. /\ Look(2) = "ok" /\ Look(3) = "ok" /\ Look(4) = "ok" /\ Look(5) = "ok"
    BY ONLY <1>3, <2>1, <2>2, ColumnWords, CommaFacts DEF Look
  <2> QED BY ONLY <1>3, <2>3, ColumnWords, CommaFacts DEF Expect
<1>8. Takes("insert", "ok", 5)
  <2>1. /\ token + 1 = 2 /\ token + 2 = 3 /\ token + 3 = 4 /\ token + 4 = 5
    BY ONLY <1>5
  <2> DEFINE sts == <<Expect(2, {"into"}), Expect(3, Names), Expect(4, {"values"}),
                      Expect(5, Expressions)>>
  <2>2. Takes("insert", First(sts), 5)
    BY <1>6, <2>1 DEF Insert
  <2>3. First(sts) = "ok"
    <3>1. sts = <<"ok", "ok", "ok", "ok">>
      BY <1>7
    <3> HIDE DEF sts
    <3>2. Len(sts) = 4 /\ \A j \in 1 .. 4 : sts[j] = "ok"
      BY <3>1
    <3> QED BY <3>2 DEF First
  <2> HIDE DEF sts
  <2> QED BY <2>2, <2>3
<1>9. PICK T : /\ T.head = ListHead(b, n) /\ T.nodes = ListNodes(b, E, n)
               /\ token' = Len(query) /\ Hang(Hung("insert", T)) /\ out' = out
  <2>1. 5 = b[1] - 1
    BY ONLY <1>2
  <2>2. "insert" \in {"create", "insert"}
    OBVIOUS
  <2> QED BY ONLY <1>2, <1>8, <2>1, <2>2, IsQuery(query), TakesList
<1>10. PICK V, W : V = Tree(1, <<Tree(2, <<Leaf(3)>>)>>) /\ W = Tree(4, <<T>>)
  OBVIOUS
<1>11. Hung("insert", T) = <<V, W>>
  <2>1. token + 1 = 2 /\ token + 2 = 3 /\ token + 3 = 4
    BY ONLY <1>5
  <2>2. "insert" # "create"
    OBVIOUS
  <2> QED BY ONLY <1>5, <1>10, <2>1, <2>2 DEF Hung
<1>12. V.head = 1 /\ Node(1, <<2>>) \in V.nodes /\ Node(2, <<3>>) \in V.nodes
  <2>1. PICK U : U = Tree(2, <<Leaf(3)>>)
    OBVIOUS
  <2>2. Leaf(3).head = 3
    BY LeafGrown
  <2>3. U.head = 2 /\ U.nodes = {Node(2, <<3>>)} \cup Leaf(3).nodes
    BY ONLY <2>1, <2>2, OneNode
  <2>4. V = Tree(1, <<U>>)
    BY ONLY <1>10, <2>1
  <2>5. V.head = 1 /\ V.nodes = {Node(1, <<2>>)} \cup U.nodes
    BY ONLY <2>3, <2>4, OneNode
  <2> QED BY ONLY <2>3, <2>5
<1>13. W.head = 4 /\ W.nodes = {Node(4, <<ListHead(b, n)>>)} \cup ListNodes(b, E, n)
  <2>1. Tree(4, <<T>>).head = 4 /\ Tree(4, <<T>>).nodes = {Node(4, <<T.head>>)} \cup T.nodes
    BY ONLY OneNode
  <2> QED BY ONLY <1>9, <1>10, <2>1
<1>14. root' = <<1, 4>>
  <2>1. PICK trees : trees = <<V, W>>
    OBVIOUS
  <2>2. Len(trees) = 2 /\ trees[1] = V /\ trees[2] = W
    BY ONLY <2>1
  <2>3. Hang(trees)
    BY ONLY <1>9, <1>11, <2>1
  <2>4. root' = append(append(<< >>, 1), 4)
    <3>1. root' = append(append(root, trees[1].head), trees[2].head)
      BY <2>2, <2>3 DEF Hang
    <3> QED BY ONLY <1>5, <1>12, <1>13, <2>2, <3>1
  <2>5. 4 \in Nat /\ 1 \in 0 .. 4 /\ 4 \in 0 .. 4
    BY ONLY TRUE
  <2> QED BY ONLY <2>4, <2>5, FirstCapa >= 2, TwoHung
<1>15. nodes' = nodes \cup (V.nodes \cup W.nodes)
  BY ONLY <1>9, <1>11, HangNodes
<1>16. Opening("insert", ListHead(b, n)) \subseteq nodes' /\ ListNodes(b, E, n) \subseteq nodes'
  BY ONLY <1>12, <1>13, <1>15 DEF Opening
<1>17. query' = query
  BY SameWords
<1>18. SentenceRead("insert", n, b, E)'
  <2>1. token' = Len(query') /\ out' \in {"run", "ok"}
    BY <1>5, <1>9, <1>17
  <2> QED BY <1>14, <1>16, <2>1 DEF SentenceRead
<1> QED BY ONLY <1>1, <1>18

LEMMA CreateIsRead ==
  ASSUME FirstCapa >= 2, IsQuery(query), Untouched, Next, NEW cols \in Seq(Datatypes) \ {<< >>},
         NEW b, b = ColumnAt(cols), IsCreate(cols, b)
  PROVE  SentenceRead("create", Len(cols), b, ColumnTrees(cols, b))'
<1>1. PICK n, E : n = Len(cols) /\ E = ColumnTrees(cols, b)
  OBVIOUS
<1>2. AList("create", n, b, E) /\ b[1] = 5
  BY <1>1, CreateList
<1>3. query[1] = "create" /\ query[2] = "table" /\ query[3] = "a" /\ query[4] = "("
  BY CreateWords
<1>4. Len(query) \in Nat /\ Len(query) >= 5
  <2>1. Len(query) \in Nat
    BY QueryFacts
  <2>2. n \in Nat \ {0} /\ \A v \in 1 .. n + 1 : b[v] \in 2 .. Len(query)
    BY <1>2 DEF AList
  <2>3. 1 \in 1 .. n + 1
    BY ONLY <2>2
  <2>4. 5 \in 2 .. Len(query)
    BY ONLY <1>2, <2>2, <2>3
  <2> QED BY ONLY <2>1, <2>4
<1>5. token = 1 /\ root = << >> /\ nodes = {} /\ out = "run" /\ query[token] = "create"
  BY <1>3 DEF Untouched
<1>6. Create
  <2>1. /\ "create" \notin {"select", "where", "from"} /\ "create" \notin {"insert"}
        /\ "create" \notin Unhandled /\ "create" \notin Objects \cup Expressions
        /\ "create" \notin {"EOQ"} /\ "create" \notin Unknown
    BY WordFacts DEF Unhandled, Objects, Handled, Unknown
  <2>2. Look(1) # "exit"
    <3>1. ~(1 > Len(query))
      BY ONLY <1>4
    <3> QED BY ONLY <1>3, <2>1, <3>1 DEF Look
  <2>3. ~Clause
    BY <1>5, <2>1 DEF Clause, At
  <2>4. ~Insert /\ ~NotConsumed /\ ~NotRecognised /\ ~Return
    BY <1>5, <2>1 DEF Insert, NotConsumed, NotRecognised, Return, At
  <2>5. ~NoNodetype
    BY <1>5, <2>2 DEF NoNodetype
  <2> QED BY <2>3, <2>4, <2>5 DEF Next
<1>7. Expect(2, {"table"}) = "ok" /\ Expect(3, Names) = "ok" /\ Expect(4, Expressions) = "ok"
  <2>1. ~(2 > Len(query)) /\ ~(3 > Len(query)) /\ ~(4 > Len(query))
    BY ONLY <1>4
  <2>2. "table" \notin Unknown
    BY DEF Unknown
  <2>3. Look(2) = "ok" /\ Look(3) = "ok" /\ Look(4) = "ok"
    BY ONLY <1>3, <2>1, <2>2, ColumnWords, CommaFacts DEF Look
  <2> QED BY ONLY <1>3, <2>3, ColumnWords, CommaFacts DEF Expect
<1>8. Takes("create", "ok", 4)
  <2>1. token + 1 = 2 /\ token + 2 = 3 /\ token + 3 = 4
    BY ONLY <1>5
  <2> DEFINE sts == <<Expect(2, {"table"}), Expect(3, Names), Expect(4, Expressions)>>
  <2>2. Takes("create", First(sts), 4)
    BY <1>6, <2>1 DEF Create
  <2>3. First(sts) = "ok"
    <3>1. sts = <<"ok", "ok", "ok">>
      BY <1>7
    <3> HIDE DEF sts
    <3>2. Len(sts) = 3 /\ \A j \in 1 .. 3 : sts[j] = "ok"
      BY <3>1
    <3> QED BY <3>2 DEF First
  <2> HIDE DEF sts
  <2> QED BY <2>2, <2>3
<1>9. PICK T : /\ T.head = ListHead(b, n) /\ T.nodes = ListNodes(b, E, n)
               /\ token' = Len(query) /\ Hang(Hung("create", T)) /\ out' = out
  <2>1. 4 = b[1] - 1
    BY ONLY <1>2
  <2>2. "create" \in {"create", "insert"}
    OBVIOUS
  <2> QED BY ONLY <1>2, <1>8, <2>1, <2>2, IsQuery(query), TakesList
<1>10. PICK V : V = Tree(1, <<Leaf(2), Leaf(3)>>)
  OBVIOUS
<1>11. Hung("create", T) = <<V, T>>
  <2>1. token + 1 = 2 /\ token + 2 = 3
    BY ONLY <1>5
  <2> QED BY ONLY <1>5, <1>10, <2>1 DEF Hung
<1>12. V.head = 1 /\ Node(1, <<2, 3>>) \in V.nodes
  <2>1. Leaf(2).head = 2 /\ Leaf(3).head = 3
    <3>1. \A p \in Nat : Leaf(p).head = p
      <4>1. ASSUME NEW p \in Nat PROVE Leaf(p).head = p
        BY LeafGrown
      <4> QED BY <4>1
    <3>2. 2 \in Nat /\ 3 \in Nat
      OBVIOUS
    <3> QED BY ONLY <3>1, <3>2
  <2>2. PICK x, y : x = Leaf(2) /\ y = Leaf(3)
    OBVIOUS
  <2>3. PICK i : i = 1 /\ V = Tree(i, <<x, y>>)
    BY ONLY <1>10, <2>2
  <2>4. V.head = i /\ V.nodes = {Node(i, <<x.head, y.head>>)} \cup (x.nodes \cup y.nodes)
    <3>1. V.head = i
      <4>1. \A below : Tree(i, below).head = i
        BY DEF Tree
      <4> QED BY ONLY <2>3, <4>1
    <3>2. V.nodes = {Node(i, <<x.head, y.head>>)} \cup (x.nodes \cup y.nodes)
      BY ONLY <2>3, TwoNodes
    <3> QED BY ONLY <3>1, <3>2
  <2> QED BY ONLY <2>1, <2>2, <2>3, <2>4
<1>13. PICK h : h = ListHead(b, n)
  OBVIOUS
<1>14. root' = <<1, h>>
  <2>1. PICK trees : trees = <<V, T>>
    OBVIOUS
  <2>2. Len(trees) = 2 /\ trees[1] = V /\ trees[2] = T
    BY ONLY <2>1
  <2>3. Hang(trees)
    BY ONLY <1>9, <1>11, <2>1
  <2>4. root' = append(append(<< >>, 1), h)
    <3>1. root' = append(append(root, trees[1].head), trees[2].head)
      BY <2>2, <2>3 DEF Hang
    <3> QED BY ONLY <1>5, <1>9, <1>12, <1>13, <2>2, <3>1
  <2>5. h \in Nat /\ h >= 1
    <3>1. n \in Nat \ {0} /\ \A v \in 1 .. n + 1 : b[v] \in 2 .. Len(query)
      BY <1>2 DEF AList
    <3>2. n \in 1 .. n + 1 /\ 1 \in 1 .. n + 1
      BY ONLY <3>1
    <3>3. PICK x \in 2 .. Len(query), y \in 2 .. Len(query) : x = b[1] /\ y = b[n]
      BY ONLY <3>1, <3>2
    <3>4. h = x \/ h = y - 1
      BY ONLY <1>13, <3>3 DEF ListHead
    <3> QED BY ONLY <1>4, <3>4, x \in 2 .. Len(query), y \in 2 .. Len(query)
  <2>6. 1 \in 0 .. h /\ h \in 0 .. h
    BY ONLY <2>5
  <2> QED BY ONLY <2>4, <2>5, <2>6, FirstCapa >= 2, TwoHung
<1>15. nodes' = nodes \cup (V.nodes \cup T.nodes)
  BY ONLY <1>9, <1>11, HangNodes
<1>16. Opening("create", h) \subseteq nodes' /\ ListNodes(b, E, n) \subseteq nodes'
  <2>1. "create" # "insert"
    OBVIOUS
  <2> QED BY ONLY <1>9, <1>12, <1>15, <2>1 DEF Opening
<1>17. query' = query
  BY SameWords
<1>18. SentenceRead("create", n, b, E)'
  <2>1. token' = Len(query') /\ out' \in {"run", "ok"}
    BY <1>5, <1>9, <1>17
  <2>2. "create" # "insert"
    OBVIOUS
  <2> QED BY <1>13, <1>14, <1>16, <2>1, <2>2 DEF SentenceRead
<1> QED BY ONLY <1>1, <1>18

LEMMA ReadStays ==
  ASSUME query' = query, token' = token, root' = root, nodes' = nodes, out' \in {out, "ok"},
         NEW type, NEW n, NEW b, NEW E, SentenceRead(type, n, b, E)
  PROVE  SentenceRead(type, n, b, E)'
BY DEF SentenceRead

LEMMA SentStep == ParseInv /\ SentInv /\ [Next]_vars => SentInv'
<1> SUFFICES ASSUME ParseInv, SentInv, [Next]_vars PROVE SentInv'
  OBVIOUS
<1>1. IsQuery(query) /\ FirstCapa >= 2 /\ (Untouched \/ SentencesRead)
  BY DEF ParseInv, SentInv
<1>2. query' = query
  BY SameWords
<1>3. \A n : IsInsert(n)' <=> IsInsert(n)
  BY <1>2 DEF IsInsert
<1>4. \A cols, at : IsCreate(cols, at)' <=> IsCreate(cols, at)
  BY <1>2 DEF IsCreate
<1>5. CASE Untouched /\ UNCHANGED vars
  BY <1>1, <1>5 DEF SentInv, Untouched, vars
<1>6. CASE Untouched /\ Next
  <2>1. ASSUME NEW n \in 1 .. Len(query'), IsInsert(n)'
        PROVE  SentenceRead("insert", n, Values(n), ValueTrees(n))'
    <3>1. n \in 1 .. Len(query) /\ IsInsert(n)
      BY ONLY <1>2, <1>3, <2>1
    <3> QED BY <1>1, <1>6, <3>1, InsertIsRead
  <2>2. ASSUME NEW cols \in Seq(Datatypes) \ {<< >>}, IsCreate(cols, ColumnAt(cols))'
        PROVE  SentenceRead("create", Len(cols), ColumnAt(cols), ColumnTrees(cols, ColumnAt(cols)))'
    <3>1. PICK b : b = ColumnAt(cols)
      OBVIOUS
    <3>2. IsCreate(cols, b)
      BY ONLY <1>4, <2>2, <3>1
    <3>3. SentenceRead("create", Len(cols), b, ColumnTrees(cols, b))'
      BY <1>1, <1>6, <3>1, <3>2, CreateIsRead
    <3> QED BY ONLY <3>1, <3>3
  <2> QED BY <1>1, <2>1, <2>2 DEF SentInv, SentencesRead
<1>7. CASE SentencesRead
  <2>1. ASSUME NEW n \in 1 .. Len(query'), IsInsert(n)'
        PROVE  SentenceRead("insert", n, Values(n), ValueTrees(n))'
    <3>1. n \in 1 .. Len(query) /\ IsInsert(n)
      BY ONLY <1>2, <1>3, <2>1
    <3>2. PICK b, E : b = Values(n) /\ E = ValueTrees(n)
      OBVIOUS
    <3>3. SentenceRead("insert", n, b, E)
      BY <1>7, <3>1, <3>2 DEF SentencesRead
    <3>4. token = Len(query)
      BY <3>3 DEF SentenceRead
    <3>5. SentenceRead("insert", n, b, E)'
      BY <1>1, <3>3, <3>4, AtTheEnd, ReadStays
    <3> QED BY ONLY <3>2, <3>5
  <2>2. ASSUME NEW cols \in Seq(Datatypes) \ {<< >>}, IsCreate(cols, ColumnAt(cols))'
        PROVE  SentenceRead("create", Len(cols), ColumnAt(cols), ColumnTrees(cols, ColumnAt(cols)))'
    <3>1. IsCreate(cols, ColumnAt(cols))
      BY ONLY <1>4, <2>2
    <3>2. PICK n, b, E : n = Len(cols) /\ b = ColumnAt(cols) /\ E = ColumnTrees(cols, ColumnAt(cols))
      OBVIOUS
    <3>3. SentenceRead("create", n, b, E)
      BY <1>7, <3>1, <3>2 DEF SentencesRead
    <3>4. token = Len(query)
      BY <3>3 DEF SentenceRead
    <3>5. SentenceRead("create", n, b, E)'
      BY <1>1, <3>3, <3>4, AtTheEnd, ReadStays
    <3> QED BY ONLY <3>2, <3>5
  <2> QED BY <1>1, <2>1, <2>2 DEF SentInv, SentencesRead
<1> QED BY <1>1, <1>5, <1>6, <1>7

LEMMA ItemsOfTwo ==
  ASSUME NEW x, NEW y, root = <<x, y>>, NEW s, NEW t, s = preorder_tree(x), t = preorder_tree(y)
  PROVE  Items = s \o t
<1>1. Len(root) = 2 /\ root[1] = x /\ root[2] = y
  BY ONLY root = <<x, y>>
<1>2. [c \in 1 .. Len(root) |-> preorder_tree(root[c])] = <<s, t>>
  <2> DEFINE f == [c \in 1 .. Len(root) |-> preorder_tree(root[c])]
             g == <<s, t>>
  <2>1. 1 .. Len(root) = {1, 2}
    BY ONLY <1>1
  <2>2. f = [c \in {1, 2} |-> IF c = 1 THEN s ELSE t]
    <3>1. \A c \in {1, 2} : preorder_tree(root[c]) = IF c = 1 THEN s ELSE t
      BY <1>1
    <3> QED BY ONLY <2>1, <3>1
  <2>3. g = [c \in {1, 2} |-> IF c = 1 THEN s ELSE t]
    BY ONLY TRUE
  <2> HIDE DEF f, g
  <2>4. f = g
    BY ONLY <2>2, <2>3
  <2> QED BY <2>4 DEF f, g
<1> QED BY <1>2, FlattenTwo DEF Items

LEMMA EachOnce == ParseInv => OneEach
BY DEF ParseInv, Built, Neat, OneEach

\* What the words and the list of a sentence that has been read are turned into.
LEMMA ReadItems ==
  ASSUME ParseInv, NEW type \in {"create", "insert"}, NEW n, NEW b, NEW E,
         AList(type, n, b, E), SentenceRead(type, n, b, E), query[1] = type,
         type = "insert" => query[4] = "values" /\ Len(query) >= 4,
         \A v \in 1 .. n : ~IsList(b[v])
  PROVE  Items = <<1>> \o Upto(b, n)
<1>1. PICK L \in Nat : L = Len(query) /\ L >= 1
  BY QueryFacts DEF ParseInv
<1>2. IsQuery(query) /\ OneEach
  BY EachOnce DEF ParseInv
<1>3. PICK h : h = ListHead(b, n)
  OBVIOUS
<1>4. /\ root = <<1, IF type = "insert" THEN 4 ELSE h>>
      /\ Opening(type, h) \subseteq nodes /\ ListNodes(b, E, n) \subseteq nodes
  BY <1>3 DEF SentenceRead
<1>5. ListHung(type, n, b, E)
  BY ONLY <1>2, <1>4, AList(type, n, b, E), \A v \in 1 .. n : ~IsList(b[v]) DEF ListHung
<1>6. n \in Nat \ {0} /\ n <= L
  BY <1>1 DEF AList
<1>7. preorder_tree(1) = <<1>>
  <2>1. ~IsList(1)
    <3>1. "create" \notin {",", "values"} /\ "insert" \notin {",", "values"}
      OBVIOUS
    <3> QED BY <3>1 DEF IsList
  <2>2. L \in 0 .. L /\ 1 \in 1 .. L /\ L \in Nat
    BY ONLY <1>1
  <2>3. ItemHeads[Len(query)][1] = <<1>>
    BY ONLY <1>1, <2>1, <2>2, OpensNone
  <2> QED BY ONLY <1>1, <2>2, <2>3, ItemHeadsFacts
<1>8. \A m \in n - 1 .. L : ItemHeads[m][h] = Upto(b, n)
  <2>1. ASSUME NEW m \in n - 1 .. L PROVE ItemHeads[m][h] = Upto(b, n)
    <3>1. m \in n - 1 .. Len(query)
      BY ONLY <1>1, <2>1
    <3> QED BY ONLY <1>2, <1>3, <1>5, <3>1, ListItems
  <2> QED BY <2>1
<1>9. L \in n - 1 .. L /\ L - 1 \in n - 1 .. L
  BY ONLY <1>1, <1>6
<1>10. PICK y : y = IF type = "insert" THEN 4 ELSE h
  OBVIOUS
<1>11. preorder_tree(y) = Upto(b, n)
  <2>0. preorder_tree(y) = ItemHeads[L][y]
    BY ONLY <1>1, ItemHeadsFacts
  <2>1. CASE type = "insert"
    <3>1. y = 4 /\ Node(4, <<h>>) \in nodes
      BY <1>4, <1>10, <2>1 DEF Opening
    <3>2. ChildsOf(4) = <<h>>
      BY ONLY <1>2, <3>1, ChildsFacts
    <3>3. IsList(4)
      BY <2>1 DEF IsList
    <3>4. 4 \in 1 .. Len(query) /\ L \in 1 .. Len(query) /\ Len(query) \in Nat
      <4>1. Len(query) >= 4
        BY <2>1
      <4> QED BY ONLY <1>1, <4>1
    <3>5. ItemHeads[L][4] = ItemHeads[L - 1][h]
      BY ONLY <3>2, <3>3, <3>4, OpensOne
    <3> QED BY ONLY <1>8, <1>9, <2>0, <3>1, <3>5
  <2>2. CASE type # "insert"
    <3>1. y = h
      BY ONLY <1>10, <2>2
    <3> QED BY ONLY <1>8, <1>9, <2>0, <3>1
  <2> QED BY <2>1, <2>2
<1>12. PICK s, t : s = preorder_tree(1) /\ t = preorder_tree(y)
  OBVIOUS
<1>13. Items = s \o t
  BY ONLY <1>4, <1>10, <1>12, ItemsOfTwo
<1> QED BY ONLY <1>7, <1>11, <1>12, <1>13

LEMMA InsertIsUnderstood ==
  ASSUME ParseInv, out # "run", NEW n \in 1 .. Len(query), IsInsert(n),
         SentenceRead("insert", n, Values(n), ValueTrees(n))
  PROVE  /\ out = "ok"
         /\ ChildsOf(1) = <<2>> /\ ChildsOf(2) = <<3>>
         /\ Items = <<1>> \o [v \in 1 .. n |-> 4 + 2 * v]
         /\ \A v \in 1 .. n : ChildsOf(4 + 2 * v) = << >>
<1>1. IsQuery(query) /\ OneEach
  BY EachOnce DEF ParseInv
<1>2. PICK b, E : b = Values(n) /\ E = ValueTrees(n)
  OBVIOUS
<1>3. AList("insert", n, b, E) /\ \A v \in 1 .. n : ~IsList(b[v])
  BY <1>1, <1>2, InsertList
<1>4. SentenceRead("insert", n, b, E)
  BY <1>2
<1>5. out = "ok" /\ Opening("insert", ListHead(b, n)) \subseteq nodes /\ ListNodes(b, E, n) \subseteq nodes
  BY <1>4 DEF SentenceRead
<1>6. Node(1, <<2>>) \in nodes /\ Node(2, <<3>>) \in nodes
  BY ONLY <1>5 DEF Opening
<1>7. ChildsOf(1) = <<2>> /\ ChildsOf(2) = <<3>>
  BY ONLY <1>1, <1>6, ChildsFacts
<1>8. ASSUME NEW v \in 1 .. n PROVE ChildsOf(4 + 2 * v) = << >>
  <2>0. n \in Nat
    BY <1>3 DEF AList
  <2>1. PICK p \in Nat : p = 4 + 2 * v
    BY ONLY <2>0, v \in 1 .. n
  <2>2. E[v] = Leaf(p)
    BY ONLY <1>2, <2>1, v \in 1 .. n DEF ValueTrees
  <2>3. Leaf(p).nodes = {Node(p, << >>)}
    BY LeafGrown
  <2>4. E[v].nodes \subseteq ListNodes(b, E, n)
    BY DEF ListNodes
  <2>5. Node(p, << >>) \in nodes
    BY ONLY <1>5, <2>2, <2>3, <2>4
  <2>6. ChildsOf(p) = << >>
    BY ONLY <1>1, <2>5, ChildsFacts
  <2> QED BY ONLY <2>1, <2>6
<1>9. Items = <<1>> \o Upto(b, n)
  <2>1. query[1] = "insert" /\ query[4] = "values"
    BY InsertWords
  <2>2. Len(query) >= 4
    <3>1. Len(query) = 2 * n + 6
      BY DEF IsInsert
    <3>2. n \in Nat
      BY <1>3 DEF AList
    <3> QED BY ONLY <3>1, <3>2
  <2>3. "insert" \in {"create", "insert"}
    OBVIOUS
  <2> QED BY ONLY ParseInv, <1>3, <1>4, <2>1, <2>2, <2>3, ReadItems
<1>10. Upto(b, n) = [v \in 1 .. n |-> 4 + 2 * v]
  <2>0. n \in Nat
    BY <1>3 DEF AList
  <2>1. \A v \in 1 .. n : v \in 1 .. n + 1
    BY ONLY <2>0
  <2>2. \A v \in 1 .. n : b[v] = 4 + 2 * v
    BY ONLY <1>2, <2>1 DEF Values
  <2> QED BY ONLY <2>2 DEF Upto
<1> QED BY ONLY <1>5, <1>7, <1>8, <1>9, <1>10

LEMMA CreateIsUnderstood ==
  ASSUME ParseInv, out # "run", NEW cols \in Seq(Datatypes) \ {<< >>},
         NEW b, b = ColumnAt(cols), IsCreate(cols, b),
         SentenceRead("create", Len(cols), b, ColumnTrees(cols, b))
  PROVE  /\ out = "ok"
         /\ ChildsOf(1) = <<2, 3>>
         /\ Items = <<1>> \o [c \in 1 .. Len(cols) |-> b[c]]
         /\ \A c \in 1 .. Len(cols) :
              ChildsOf(b[c]) = IF cols[c] = "char" THEN <<b[c] + 1, b[c] + 3>> ELSE <<b[c] + 1>>
<1>1. IsQuery(query) /\ OneEach
  BY EachOnce DEF ParseInv
<1>2. PICK n, E : n = Len(cols) /\ E = ColumnTrees(cols, b)
  OBVIOUS
<1>3. AList("create", n, b, E) /\ \A c \in 1 .. n : ~IsList(b[c])
  BY <1>1, <1>2, CreateList
<1>4. SentenceRead("create", n, b, E)
  BY <1>2
<1>5. out = "ok" /\ Opening("create", ListHead(b, n)) \subseteq nodes /\ ListNodes(b, E, n) \subseteq nodes
  BY <1>4 DEF SentenceRead
<1>6. ChildsOf(1) = <<2, 3>>
  <2>1. "create" # "insert"
    OBVIOUS
  <2>2. Node(1, <<2, 3>>) \in nodes
    BY ONLY <1>5, <2>1 DEF Opening
  <2> QED BY ONLY <1>1, <2>2, ChildsFacts
<1>7. ASSUME NEW c \in 1 .. n
      PROVE  ChildsOf(b[c]) = IF cols[c] = "char" THEN <<b[c] + 1, b[c] + 3>> ELSE <<b[c] + 1>>
  <2>0. n \in Nat /\ \A v \in 1 .. n + 1 : b[v] \in 2 .. Len(query)
    BY <1>3 DEF AList
  <2>1. c \in 1 .. n + 1
    BY ONLY <2>0, c \in 1 .. n
  <2>2. PICK p \in 2 .. Len(query) : p = b[c]
    BY ONLY <2>0, <2>1
  <2>3. p \in Nat /\ p + 1 \in Nat /\ p + 3 \in Nat
    BY ONLY p \in 2 .. Len(query)
  <2>4. Leaf(p + 1).head = p + 1 /\ Leaf(p + 3).head = p + 3
    <3>1. \A q \in Nat : Leaf(q).head = q
      <4>1. ASSUME NEW q \in Nat PROVE Leaf(q).head = q
        BY LeafGrown
      <4> QED BY <4>1
    <3> QED BY ONLY <2>3, <3>1
  <2>5. PICK dtype : dtype = cols[c]
    OBVIOUS
  <2>6. E[c] = ColumnTree(dtype, p)
    BY ONLY <1>2, <2>2, <2>5, c \in 1 .. n DEF ColumnTrees
  <2>7. E[c].nodes \subseteq ListNodes(b, E, n)
    BY DEF ListNodes
  <2>8. CASE dtype = "char"
    <3>1. PICK x, y : x = Leaf(p + 1) /\ y = Leaf(p + 3)
      OBVIOUS
    <3>2. E[c] = Tree(p, <<x, y>>)
      BY ONLY <2>6, <2>8, <3>1 DEF ColumnTree
    <3>3. Node(p, <<x.head, y.head>>) \in E[c].nodes
      BY ONLY <3>2, TwoNodes
    <3>4. Node(p, <<p + 1, p + 3>>) \in nodes
      BY ONLY <1>5, <2>4, <2>7, <3>1, <3>3
    <3>5. ChildsOf(p) = <<p + 1, p + 3>>
      BY ONLY <1>1, <3>4, ChildsFacts
    <3> QED BY ONLY <2>2, <2>5, <2>8, <3>5
  <2>9. CASE dtype # "char"
    <3>1. PICK x : x = Leaf(p + 1)
      OBVIOUS
    <3>2. E[c] = Tree(p, <<x>>)
      BY ONLY <2>6, <2>9, <3>1 DEF ColumnTree
    <3>3. Node(p, <<x.head>>) \in E[c].nodes
      BY ONLY <3>2, OneNode
    <3>4. Node(p, <<p + 1>>) \in nodes
      BY ONLY <1>5, <2>4, <2>7, <3>1, <3>3
    <3>5. ChildsOf(p) = <<p + 1>>
      BY ONLY <1>1, <3>4, ChildsFacts
    <3> QED BY ONLY <2>2, <2>5, <2>9, <3>5
  <2> QED BY <2>8, <2>9
<1>8. Items = <<1>> \o Upto(b, n)
  <2>1. query[1] = "create"
    BY CreateWords
  <2>2. "create" \in {"create", "insert"} /\ "create" # "insert"
    OBVIOUS
  <2> QED BY ONLY ParseInv, <1>3, <1>4, <2>1, <2>2, ReadItems
<1> QED BY <1>2, <1>5, <1>6, <1>7, <1>8 DEF Upto

LEMMA AllUnderstood == ParseInv /\ SentInv => SentencesUnderstood
<1> SUFFICES ASSUME ParseInv, SentInv PROVE SentencesUnderstood
  OBVIOUS
<1>1. ASSUME out # "run" PROVE SentencesRead
  BY <1>1 DEF SentInv, Untouched
<1>2. InsertUnderstood
  <2>1. ASSUME out # "run", NEW n \in 1 .. Len(query), IsInsert(n)
        PROVE  /\ out = "ok"
               /\ ChildsOf(1) = <<2>> /\ ChildsOf(2) = <<3>>
               /\ Items = <<1>> \o [v \in 1 .. n |-> 4 + 2 * v]
               /\ \A v \in 1 .. n : ChildsOf(4 + 2 * v) = << >>
    <3>1. SentenceRead("insert", n, Values(n), ValueTrees(n))
      BY <1>1, <2>1 DEF SentencesRead
    <3> QED BY ONLY ParseInv, <2>1, <3>1, InsertIsUnderstood
  <2> QED BY ONLY <2>1 DEF InsertUnderstood
<1>3. CreateUnderstood
  <2>1. ASSUME out # "run", NEW cols \in BoundedSeq(Datatypes, Len(query) \div 3) \ {<< >>},
               NEW at, at = ColumnAt(cols), IsCreate(cols, at)
        PROVE  /\ out = "ok"
               /\ ChildsOf(1) = <<2, 3>>
               /\ Items = <<1>> \o [c \in 1 .. Len(cols) |-> at[c]]
               /\ \A c \in 1 .. Len(cols) :
                    ChildsOf(at[c]) = IF cols[c] = "char" THEN <<at[c] + 1, at[c] + 3>>
                                      ELSE <<at[c] + 1>>
    <3>1. cols \in Seq(Datatypes) \ {<< >>}
      <4>1. PICK m \in 0 .. Len(query) \div 3 : cols \in [1 .. m -> Datatypes]
        BY DEF BoundedSeq, SeqOf
      <4>2. m \in Nat
        BY ONLY m \in 0 .. Len(query) \div 3
      <4>3. cols \in Seq(Datatypes)
        BY ONLY <4>1, <4>2
      <4> QED BY <4>3
    <3>2. SentenceRead("create", Len(cols), at, ColumnTrees(cols, at))
      BY <1>1, <2>1, <3>1 DEF SentencesRead
    <3> QED BY ONLY ParseInv, <2>1, <3>1, <3>2, CreateIsUnderstood
  <2> QED BY ONLY <2>1 DEF CreateUnderstood
<1> QED BY <1>2, <1>3 DEF SentencesUnderstood

LEMMA SentInit == FirstCapa >= 2 /\ Init => SentInv
BY DEF Init, SentInv, Untouched

\* Every create and every insert of the grammar, with as many columns or
\* values as you like, is accepted and handed over item by item, if the
\* root's first array has room for two.
THEOREM SentencesAreUnderstood == FirstCapa >= 2 /\ Spec => []SentencesUnderstood
<1>1. ParseInv /\ SentInv /\ [Next]_vars => (ParseInv /\ SentInv)'
  BY ParseStep, SentStep
<1>2. FirstCapa >= 2 /\ Init => ParseInv /\ SentInv
  BY ParseInit, SentInit
<1> QED BY <1>1, <1>2, AllUnderstood, PTL DEF Spec
=============================================================================
