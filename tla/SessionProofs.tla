---------------------------- MODULE SessionProofs ----------------------------
(***************************************************************************)
(* The session, proved: it runs the engine, so that what is proved of the  *)
(* engine holds of it; the directory and the headers of the pages agree    *)
(* with the statements; it goes astray only where its user broke a         *)
(* promise; and it implements tables of rows: the rows inserted are read   *)
(* back from the bytes of the pages.                                       *)
(*                                                                         *)
(* Rows, offsets and the room taken are computed by recursion.  The        *)
(* theorems of the library about recursion and induction take operators as *)
(* parameters; here induction is over sets of numbers and recursion over   *)
(* step functions, which are data.                                         *)
(***************************************************************************)
EXTENDS Session, SqlEngineProofs, WellFoundedInduction

-----------------------------------------------------------------------------
(* Induction and recursion.                                                *)

LEMMA LeastNumber ==
  ASSUME NEW T \in SUBSET Nat, T # {}
  PROVE  \E x \in T : \A y \in T : x <= y
<1> DEFINE R == {ss \in Nat \X Nat : ss[1] < ss[2]}
<1>1. R = OpToRel(<, Nat)
  BY DEF OpToRel
<1>2. IsWellFoundedOn(R, Nat)
  BY <1>1, NatLessThanWellFounded
<1> HIDE DEF R
<1>3. PICK x \in T : \A y \in T : ~(<<y, x>> \in R)
  BY <1>2, WFMin
<1>4. ASSUME NEW y \in T PROVE x <= y
  <2>1. x \in Nat /\ y \in Nat
    OBVIOUS
  <2>2. ASSUME y < x PROVE <<y, x>> \in R
    <3>1. <<y, x>> \in Nat \X Nat /\ <<y, x>>[1] = y /\ <<y, x>>[2] = x
      BY <2>1
    <3> QED BY <2>2, <3>1 DEF R
  <2>3. ~(y < x)
    BY <1>3, <2>2
  <2> QED BY <2>1, <2>3
<1> QED BY <1>4

\* The largest of a set of numbers with a bound.
LEMMA Largest ==
  ASSUME NEW n \in Nat, NEW T \in SUBSET (1 .. n), T # {}
  PROVE  \E x \in T : \A y \in T : y <= x
<1> DEFINE U == {n - x : x \in T}
<1>1. U \in SUBSET Nat /\ U # {}
  <2>1. \A x \in T : x \in 1 .. n
    OBVIOUS
  <2>2. \A x \in T : n - x \in Nat
    BY <2>1
  <2> QED BY <2>2
<1>2. PICK u \in U : \A y \in U : u <= y
  <2> HIDE DEF U
  <2> QED BY <1>1, LeastNumber
<1>3. PICK x \in T : u = n - x
  OBVIOUS
<1>4. ASSUME NEW y \in T PROVE y <= x
  <2>1. n - y \in U /\ y \in 1 .. n /\ x \in 1 .. n
    OBVIOUS
  <2>2. n - x <= n - y
    BY <1>2, <1>3, <2>1
  <2> QED BY <2>1, <2>2
<1> QED BY <1>4

\* A set of numbers with 0 and with the successor of each is Nat.
LEMMA Induction ==
  ASSUME NEW S \in SUBSET Nat, 0 \in S, \A n \in S : n + 1 \in S
  PROVE  S = Nat
<1>1. SUFFICES ASSUME Nat \ S # {} PROVE FALSE
  OBVIOUS
<1>2. PICK x \in Nat \ S : \A y \in Nat \ S : x <= y
  BY <1>1, LeastNumber
<1>3. x - 1 \in Nat /\ x # 0
  BY <1>2
<1>4. x - 1 \in S
  BY <1>2, <1>3
<1>5. x \in S
  BY <1>3, <1>4
<1> QED BY <1>2, <1>5

\* A function on 0 .. n with its value at 0 and its steps given: there is one.
Computes(s, n, S, a, G) ==
  s \in [0 .. n -> S] /\ s[0] = a /\ \A i \in 1 .. n : s[i] = G[i][s[i - 1]]

LEMMA Recursion ==
  ASSUME NEW n \in Nat, NEW S, NEW a \in S, NEW G \in [1 .. n -> [S -> S]]
  PROVE  \E s : Computes(s, n, S, a, G)
<1> DEFINE P(m) == \E s \in [0 .. m -> S] :
                     s[0] = a /\ \A i \in 1 .. m : s[i] = G[i][s[i - 1]]
           T == {m \in Nat : m <= n => P(m)}
<1>1. P(0)
  <2> DEFINE s == [i \in 0 .. 0 |-> a]
  <2>1. s \in [0 .. 0 -> S] /\ s[0] = a /\ \A i \in 1 .. 0 : FALSE
    OBVIOUS
  <2> HIDE DEF s
  <2> QED BY <2>1
<1>2. ASSUME NEW m \in Nat, m + 1 <= n, P(m) PROVE P(m + 1)
  <2>1. PICK s \in [0 .. m -> S] : s[0] = a /\ \A i \in 1 .. m : s[i] = G[i][s[i - 1]]
    BY <1>2
  <2> DEFINE x == G[m + 1][s[m]]
             t == [i \in 0 .. m + 1 |-> IF i = m + 1 THEN x ELSE s[i]]
  <2>2. x \in S
    <3>1. m + 1 \in 1 .. n /\ s[m] \in S
      BY <1>2
    <3> QED BY <3>1
  <2> HIDE DEF x
  <2>3. t \in [0 .. m + 1 -> S]
    BY <2>2
  <2>4. t[0] = a
    BY <2>1
  <2>5. ASSUME NEW i \in 1 .. m + 1 PROVE t[i] = G[i][t[i - 1]]
    <3>1. CASE i = m + 1
      <4>1. i - 1 = m /\ i - 1 \in 0 .. m + 1 /\ i - 1 # m + 1 /\ i \in 0 .. m + 1
        BY <3>1
      <4>2. t[i] = x /\ t[i - 1] = s[m]
        BY <3>1, <4>1
      <4> HIDE DEF t
      <4> QED BY <3>1, <4>2 DEF x
    <3>2. CASE i # m + 1
      <4>1. i \in 1 .. m /\ i - 1 # m + 1 /\ i - 1 \in 0 .. m + 1
        BY <3>2
      <4>2. t[i] = s[i] /\ t[i - 1] = s[i - 1]
        BY <3>2, <4>1
      <4> HIDE DEF t
      <4> QED BY <2>1, <4>1, <4>2
    <3> QED BY <3>1, <3>2
  <2> HIDE DEF t, x
  <2> QED BY <2>3, <2>4, <2>5
<1> HIDE DEF P
<1>3. 0 \in T /\ \A m \in T : m + 1 \in T
  BY <1>1, <1>2
<1> HIDE DEF T
<1>4. T = Nat
  <2>1. T \in SUBSET Nat
    BY DEF T
  <2> QED BY <1>3, <2>1, Induction
<1>5. P(n)
  BY <1>4 DEF T
<1> QED BY <1>5 DEF P, Computes

\* Two functions that start and step alike are alike.
Alike(s, t, n) == s[0] = t[0] /\ \A i \in 1 .. n : s[i - 1] = t[i - 1] => s[i] = t[i]

LEMMA SameRecursion ==
  ASSUME NEW n \in Nat, NEW s, NEW t, Alike(s, t, n)
  PROVE  \A i \in 0 .. n : s[i] = t[i]
<1>0. s[0] = t[0] /\ \A i \in 1 .. n : s[i - 1] = t[i - 1] => s[i] = t[i]
  BY DEF Alike
<1> DEFINE T == {m \in Nat : m <= n => s[m] = t[m]}
<1>1. 0 \in T
  BY <1>0
<1>2. ASSUME NEW m \in T PROVE m + 1 \in T
  <2>1. ASSUME m + 1 <= n PROVE s[m + 1] = t[m + 1]
    <3>1. m + 1 \in 1 .. n /\ (m + 1) - 1 = m /\ m <= n
      BY <2>1
    <3>2. s[(m + 1) - 1] = t[(m + 1) - 1]
      BY <3>1
    <3> QED BY <1>0, <3>1, <3>2
  <2> QED BY <2>1
<1>3. T = Nat
  <2>1. T \in SUBSET Nat
    OBVIOUS
  <2> HIDE DEF T
  <2> QED BY <1>1, <1>2, <2>1, Induction
<1> QED BY <1>3

\* A function that does not fall from step to step does not fall.
LEMMA Rises ==
  ASSUME NEW n \in Nat, NEW s \in [0 .. n -> Nat], \A i \in 1 .. n : s[i - 1] <= s[i]
  PROVE  \A i \in 0 .. n : s[i] <= s[n]
<1> DEFINE T == {m \in Nat : m <= n => \A i \in 0 .. m : s[i] <= s[m]}
<1>1. 0 \in T
  OBVIOUS
<1>2. ASSUME NEW m \in T PROVE m + 1 \in T
  <2>1. ASSUME m + 1 <= n, NEW i \in 0 .. m + 1 PROVE s[i] <= s[m + 1]
    <3>1. m + 1 \in 1 .. n /\ (m + 1) - 1 = m /\ m <= n /\ m \in 0 .. n
      BY <2>1
    <3>2. s[m] <= s[m + 1] /\ s[m] \in Nat /\ s[m + 1] \in Nat /\ s[i] \in Nat
      BY <2>1, <3>1
    <3>3. i = m + 1 \/ i \in 0 .. m
      OBVIOUS
    <3>4. i \in 0 .. m => s[i] <= s[m]
      BY <3>1
    <3> QED BY <3>2, <3>3, <3>4
  <2> QED BY <2>1
<1>3. T = Nat
  <2>1. T \in SUBSET Nat
    OBVIOUS
  <2> HIDE DEF T
  <2> QED BY <1>1, <1>2, <2>1, Induction
<1>4. n \in T
  BY <1>3
<1> QED BY <1>4

\* A function that does not fall from step to step does not fall
\* between any two places.
LEMMA Climbs ==
  ASSUME NEW n \in Nat, NEW s \in [0 .. n -> Nat], \A i \in 1 .. n : s[i - 1] <= s[i],
         NEW j \in 0 .. n, NEW i \in 0 .. j
  PROVE  s[i] <= s[j]
<1> DEFINE t == [x \in 0 .. j |-> s[x]]
<1>1. j \in Nat /\ t \in [0 .. j -> Nat]
  OBVIOUS
<1>2. \A x \in 1 .. j : t[x - 1] <= t[x]
  OBVIOUS
<1>3. t[i] = s[i] /\ t[j] = s[j]
  OBVIOUS
<1> HIDE DEF t
<1>4. t[i] <= t[j]
  BY <1>1, <1>2, Rises
<1> QED BY <1>3, <1>4

\* A function that steps by one at most.
LEMMA Counts ==
  ASSUME NEW n \in Nat, NEW s \in [0 .. n -> Nat], s[0] = 0,
         \A i \in 1 .. n : s[i] <= s[i - 1] + 1
  PROVE  s[n] <= n
<1> DEFINE T == {m \in Nat : m <= n => s[m] <= m}
<1>1. 0 \in T
  OBVIOUS
<1>2. ASSUME NEW m \in T PROVE m + 1 \in T
  <2>1. ASSUME m + 1 <= n PROVE s[m + 1] <= m + 1
    <3>1. m + 1 \in 1 .. n /\ (m + 1) - 1 = m /\ m <= n /\ m \in 0 .. n
      BY <2>1
    <3>2. s[m + 1] <= s[m] + 1 /\ s[m] \in Nat /\ s[m + 1] \in Nat /\ s[m] <= m
      BY <2>1, <3>1
    <3> QED BY <3>2
  <2> QED BY <2>1
<1>3. T = Nat
  <2>1. T \in SUBSET Nat
    OBVIOUS
  <2> HIDE DEF T
  <2> QED BY <1>1, <1>2, <2>1, Induction
<1> QED BY <1>3

-----------------------------------------------------------------------------
(* Sums.                                                                   *)

\* The sums of a sequence of numbers, step by step.
LEMMA SumsFacts ==
  ASSUME NEW q \in Seq(Nat)
  PROVE  /\ Sums(q) \in [0 .. Len(q) -> Nat] /\ Sums(q)[0] = 0
         /\ \A i \in 1 .. Len(q) : Sums(q)[i] = Sums(q)[i - 1] + q[i]
<1> DEFINE n == Len(q)
           G == [i \in 1 .. n |-> [x \in Nat |-> x + q[i]]]
<1>0. n \in Nat /\ \A i \in 1 .. n : q[i] \in Nat
  OBVIOUS
<1>1. G \in [1 .. n -> [Nat -> Nat]]
  BY <1>0
<1>2. \A i \in 1 .. n, x \in Nat : G[i][x] = x + q[i]
  OBVIOUS
<1> HIDE DEF G
<1>3. PICK s : Computes(s, n, Nat, 0, G)
  BY <1>0, <1>1, Recursion
<1>4. s \in [0 .. n -> Nat] /\ s[0] = 0 /\ \A i \in 1 .. n : s[i] = G[i][s[i - 1]]
  BY <1>3 DEF Computes
<1>5. \A i \in 1 .. n : s[i - 1] \in Nat /\ s[i] = s[i - 1] + q[i]
  <2>1. ASSUME NEW i \in 1 .. n PROVE s[i - 1] \in Nat /\ s[i] = s[i - 1] + q[i]
    <3>1. i - 1 \in 0 .. n
      BY <1>0
    <3>2. s[i - 1] \in Nat
      BY <1>4, <3>1
    <3> QED BY <1>2, <1>4, <3>2
  <2> QED BY <2>1
<1>6. s = [i \in 0 .. n |-> IF i = 0 THEN 0 ELSE s[i - 1] + q[i]]
  <2>1. ASSUME NEW i \in 0 .. n PROVE s[i] = IF i = 0 THEN 0 ELSE s[i - 1] + q[i]
    <3>1. i = 0 \/ i \in 1 .. n
      BY <1>0
    <3> QED BY <1>5, <1>4, <3>1
  <2> QED BY <1>4, <2>1
<1>7. \E t : t = [i \in 0 .. n |-> IF i = 0 THEN 0 ELSE t[i - 1] + q[i]]
  BY <1>6
<1>8. Sums(q) = [i \in 0 .. n |-> IF i = 0 THEN 0 ELSE Sums(q)[i - 1] + q[i]]
  BY <1>7 DEF Sums
<1> DEFINE t == Sums(q)
<1> HIDE DEF t
<1>9. t[0] = 0 /\ \A i \in 1 .. n : t[i] = t[i - 1] + q[i]
  <2>1. 0 \in 0 .. n /\ \A i \in 1 .. n : i \in 0 .. n /\ i # 0
    BY <1>0
  <2> QED BY <1>8, <2>1 DEF t
<1>10. \A i \in 0 .. n : t[i] = s[i]
  <2>1. \A i \in 1 .. n : t[i - 1] = s[i - 1] => t[i] = s[i]
    BY <1>5, <1>9
  <2>2. t[0] = s[0]
    BY <1>9, <1>4
  <2>3. Alike(t, s, n)
    BY <2>1, <2>2 DEF Alike
  <2> QED BY <1>0, <2>3, SameRecursion
<1>11. t \in [0 .. n -> Nat]
  <2>1. DOMAIN t = 0 .. n /\ t = [i \in 0 .. n |-> t[i]]
    BY <1>8 DEF t
  <2> QED BY <1>10, <1>4, <2>1
<1> QED BY <1>9, <1>11 DEF t

\* The sums of what goes before do not depend on what comes behind.
LEMMA SumsBefore ==
  ASSUME NEW q \in Seq(Nat), NEW r \in Seq(Nat), Len(q) <= Len(r),
         \A i \in 1 .. Len(q) : r[i] = q[i]
  PROVE  \A i \in 0 .. Len(q) : Sums(r)[i] = Sums(q)[i]
<1> DEFINE n == Len(q)
           s == Sums(r)
           t == Sums(q)
<1>1. n \in Nat /\ n <= Len(r) /\ Len(r) \in Nat
  OBVIOUS
<1>2. s[0] = 0 /\ \A i \in 1 .. n : s[i] = s[i - 1] + r[i]
  <2>1. \A i \in 1 .. n : i \in 1 .. Len(r)
    BY <1>1
  <2> QED BY <2>1, SumsFacts
<1>3. t[0] = 0 /\ \A i \in 1 .. n : t[i] = t[i - 1] + q[i]
  BY SumsFacts
<1>4. \A i \in 1 .. n : r[i] = q[i]
  OBVIOUS
<1> HIDE DEF n, s, t
<1>5. \A i \in 1 .. n : s[i - 1] = t[i - 1] => s[i] = t[i]
  BY <1>2, <1>3, <1>4
<1>6. Alike(s, t, n)
  BY <1>2, <1>3, <1>5 DEF Alike
<1>7. \A i \in 0 .. n : s[i] = t[i]
  BY <1>1, <1>6, SameRecursion
<1> QED BY <1>7 DEF n, s, t

\* No part of a sum is more than the sum.
LEMMA SumsRise ==
  ASSUME NEW q \in Seq(Nat)
  PROVE  \A i \in 0 .. Len(q) : Sums(q)[i] <= Sums(q)[Len(q)]
<1> DEFINE n == Len(q)
           s == Sums(q)
<1>1. n \in Nat /\ \A i \in 1 .. n : q[i] \in Nat
  OBVIOUS
<1>2. s \in [0 .. n -> Nat] /\ \A i \in 1 .. n : s[i] = s[i - 1] + q[i]
  BY SumsFacts
<1> HIDE DEF n, s
<1>3. \A i \in 1 .. n : s[i - 1] <= s[i]
  <2>1. ASSUME NEW i \in 1 .. n PROVE s[i - 1] <= s[i]
    <3>1. i - 1 \in 0 .. n
      BY <1>1
    <3>2. s[i - 1] \in Nat /\ q[i] \in Nat /\ s[i] = s[i - 1] + q[i]
      BY <1>1, <1>2, <3>1
    <3> QED BY <3>2
  <2> QED BY <2>1
<1>4. \A i \in 0 .. n : s[i] <= s[n]
  BY <1>1, <1>2, <1>3, Rises
<1> QED BY <1>4 DEF n, s

-----------------------------------------------------------------------------
(* The rows of a table in a log of statements.                             *)

RowsOf(log, name) == {m \in 1 .. Len(log) : RowOf(log[m], name)}

\* Statement by statement: a row of the table is added to the others.
LEMMA RowsFacts ==
  ASSUME NEW L, NEW log \in Seq(L), NEW name
  PROVE  LET rows == RowsUpTo(log, name)
         IN  /\ rows \in [0 .. Len(log) -> Seq(RowsOf(log, name))] /\ rows[0] = << >>
             /\ \A n \in 1 .. Len(log) :
                  rows[n] = IF RowOf(log[n], name) THEN Append(rows[n - 1], n) ELSE rows[n - 1]
<1> DEFINE n == Len(log)
           S == Seq(RowsOf(log, name))
           G == [i \in 1 .. n |-> [x \in S |-> IF RowOf(log[i], name) THEN Append(x, i) ELSE x]]
<1>1. n \in Nat
  OBVIOUS
<1>2. ASSUME NEW i \in 1 .. n, NEW x \in S
      PROVE  (IF RowOf(log[i], name) THEN Append(x, i) ELSE x) \in S
  <2>1. RowOf(log[i], name) => i \in RowsOf(log, name)
    BY DEF RowsOf
  <2>2. RowOf(log[i], name) => Append(x, i) \in S
    BY <2>1
  <2> QED BY <2>2
<1>3. << >> \in S
  OBVIOUS
<1> HIDE DEF S
<1>4. G \in [1 .. n -> [S -> S]]
  BY <1>2
<1>5. \A i \in 1 .. n, x \in S :
        G[i][x] = IF RowOf(log[i], name) THEN Append(x, i) ELSE x
  OBVIOUS
<1> HIDE DEF G
<1>6. PICK s : Computes(s, n, S, << >>, G)
  BY <1>1, <1>3, <1>4, Recursion
<1>7. s \in [0 .. n -> S] /\ s[0] = << >> /\ \A i \in 1 .. n : s[i] = G[i][s[i - 1]]
  BY <1>6 DEF Computes
<1>8. \A i \in 1 .. n : s[i] = IF RowOf(log[i], name) THEN Append(s[i - 1], i) ELSE s[i - 1]
  <2>1. ASSUME NEW i \in 1 .. n
        PROVE  s[i] = IF RowOf(log[i], name) THEN Append(s[i - 1], i) ELSE s[i - 1]
    <3>1. i - 1 \in 0 .. n
      BY <1>1
    <3>2. s[i - 1] \in S
      BY <1>7, <3>1
    <3> QED BY <1>5, <1>7, <3>2
  <2> QED BY <2>1
<1> DEFINE F(t) == [i \in 0 .. n |->
                      IF i = 0 THEN << >>
                      ELSE IF RowOf(log[i], name) THEN Append(t[i - 1], i) ELSE t[i - 1]]
<1>9. s = F(s)
  <2>1. ASSUME NEW i \in 0 .. n
        PROVE  s[i] = IF i = 0 THEN << >>
                      ELSE IF RowOf(log[i], name) THEN Append(s[i - 1], i) ELSE s[i - 1]
    <3>1. i = 0 \/ i \in 1 .. n
      BY <1>1
    <3> QED BY <1>7, <1>8, <3>1
  <2> QED BY <1>7, <2>1
<1>10. RowsUpTo(log, name) = F(RowsUpTo(log, name))
  BY <1>9 DEF RowsUpTo
<1> DEFINE t == RowsUpTo(log, name)
<1> HIDE DEF t
<1>11. /\ t[0] = << >>
       /\ \A i \in 1 .. n :
            t[i] = IF RowOf(log[i], name) THEN Append(t[i - 1], i) ELSE t[i - 1]
  <2>1. 0 \in 0 .. n /\ \A i \in 1 .. n : i \in 0 .. n /\ i # 0
    BY <1>1
  <2> QED BY <1>10, <2>1 DEF t
<1>12. \A i \in 0 .. n : t[i] = s[i]
  <2>1. \A i \in 1 .. n : t[i - 1] = s[i - 1] => t[i] = s[i]
    BY <1>8, <1>11
  <2>2. t[0] = s[0]
    BY <1>7, <1>11
  <2>3. Alike(t, s, n)
    BY <2>1, <2>2 DEF Alike
  <2> QED BY <1>1, <2>3, SameRecursion
<1>13. t \in [0 .. n -> S]
  <2>1. DOMAIN t = 0 .. n /\ t = [i \in 0 .. n |-> t[i]]
    BY <1>10 DEF t
  <2> QED BY <1>7, <1>12, <2>1
<1> QED BY <1>11, <1>13 DEF t, S

RowsIn(log, name) == RowsUpTo(log, name)[Len(log)]

\* The rows are statements of the log, and no more than there are.
LEMMA RowsAreIn ==
  ASSUME NEW L, NEW log \in Seq(L), NEW name
  PROVE  /\ RowsIn(log, name) \in Seq(RowsOf(log, name))
         /\ Len(RowsIn(log, name)) \in 0 .. Len(log)
<1> DEFINE n == Len(log)
           t == RowsUpTo(log, name)
           c == [i \in 0 .. n |-> Len(t[i])]
<1>1. n \in Nat
  OBVIOUS
<1>2. /\ t \in [0 .. n -> Seq(RowsOf(log, name))] /\ t[0] = << >>
      /\ \A i \in 1 .. n :
           t[i] = IF RowOf(log[i], name) THEN Append(t[i - 1], i) ELSE t[i - 1]
  BY RowsFacts
<1> HIDE DEF n, t
<1>3. \A i \in 0 .. n : t[i] \in Seq(RowsOf(log, name)) /\ Len(t[i]) \in Nat
  BY <1>2
<1>4. c \in [0 .. n -> Nat] /\ c[0] = 0
  <2>1. Len(<< >>) = 0 /\ 0 \in 0 .. n
    BY <1>1
  <2> QED BY <1>2, <1>3, <2>1
<1>5. ASSUME NEW i \in 1 .. n PROVE c[i] <= c[i - 1] + 1
  <2>1. i - 1 \in 0 .. n /\ i \in 0 .. n
    BY <1>1
  <2>2. c[i] = Len(t[i]) /\ c[i - 1] = Len(t[i - 1]) /\ Len(t[i - 1]) \in Nat
    BY <1>3, <2>1
  <2>3. Len(t[i]) <= Len(t[i - 1]) + 1
    <3>1. Len(Append(t[i - 1], i)) = Len(t[i - 1]) + 1
      <4>1. t[i - 1] \in Seq(RowsOf(log, name))
        BY <1>3, <2>1
      <4> QED BY <4>1
    <3>2. t[i] = Append(t[i - 1], i) \/ t[i] = t[i - 1]
      BY <1>2
    <3>3. Len(t[i]) = Len(t[i - 1]) + 1 \/ Len(t[i]) = Len(t[i - 1])
      BY <3>1, <3>2
    <3> QED BY <2>2, <3>3
  <2> HIDE DEF c
  <2> QED BY <2>2, <2>3
<1>6. n \in 0 .. n /\ c[n] = Len(t[n])
  BY <1>1
<1> HIDE DEF c
<1>7. c[n] <= n
  BY <1>1, <1>4, <1>5, Counts
<1>8. Len(t[n]) \in 0 .. n
  BY <1>1, <1>3, <1>6, <1>7
<1> QED BY <1>3, <1>6, <1>8 DEF n, t, RowsIn

\* One more statement: one more row, or none.
LEMMA OneMoreRowIn ==
  ASSUME NEW L, NEW log \in Seq(L), NEW r \in L, NEW name
  PROVE  RowsIn(Append(log, r), name) =
           IF RowOf(r, name) THEN Append(RowsIn(log, name), Len(log) + 1)
           ELSE RowsIn(log, name)
<1> DEFINE n == Len(log)
           more == Append(log, r)
           s == RowsUpTo(more, name)
           t == RowsUpTo(log, name)
<1>1. /\ n \in Nat /\ more \in Seq(L) /\ Len(more) = n + 1 /\ more[n + 1] = r
      /\ \A i \in 1 .. n : more[i] = log[i]
  BY AppendKeeps
<1>2. s[0] = << >> /\ \A i \in 1 .. n + 1 :
        s[i] = IF RowOf(more[i], name) THEN Append(s[i - 1], i) ELSE s[i - 1]
  <2> HIDE DEF more, s, n
  <2>1. s[0] = << >> /\ \A i \in 1 .. Len(more) :
          s[i] = IF RowOf(more[i], name) THEN Append(s[i - 1], i) ELSE s[i - 1]
    BY <1>1, RowsFacts DEF s
  <2> QED BY <1>1, <2>1
<1>3. t[0] = << >> /\ \A i \in 1 .. n :
        t[i] = IF RowOf(log[i], name) THEN Append(t[i - 1], i) ELSE t[i - 1]
  BY RowsFacts
<1> HIDE DEF n, more, s, t
<1>4. \A i \in 1 .. n : s[i - 1] = t[i - 1] => s[i] = t[i]
  <2>1. \A i \in 1 .. n : i \in 1 .. n + 1
    BY <1>1
  <2> QED BY <1>1, <1>2, <1>3, <2>1
<1>5. s[n] = t[n]
  <2>1. Alike(s, t, n)
    BY <1>2, <1>3, <1>4 DEF Alike
  <2>2. \A i \in 0 .. n : s[i] = t[i]
    BY <1>1, <2>1, SameRecursion
  <2>3. n \in 0 .. n
    BY <1>1
  <2> QED BY <2>2, <2>3
<1>6. n + 1 \in 1 .. n + 1 /\ (n + 1) - 1 = n
  BY <1>1
<1>7. s[n + 1] = IF RowOf(r, name) THEN Append(s[n], n + 1) ELSE s[n]
  BY <1>1, <1>2, <1>6
<1>8. RowsIn(more, name) = s[n + 1] /\ RowsIn(log, name) = t[n]
  BY <1>1 DEF RowsIn, s, t, n
<1> QED BY <1>5, <1>7, <1>8 DEF more, n

\* A table without rows.
LEMMA NoRows ==
  ASSUME NEW L, NEW log \in Seq(L), NEW name,
         \A m \in 1 .. Len(log) : ~RowOf(log[m], name)
  PROVE  RowsIn(log, name) = << >>
<1>1. RowsOf(log, name) = {}
  BY DEF RowsOf
<1>2. PICK rows : rows = RowsIn(log, name)
  OBVIOUS
<1>3. rows \in Seq({})
  BY <1>1, <1>2, RowsAreIn
<1>4. Len(rows) = 0
  <2>1. Len(rows) \in Nat /\ \A i \in 1 .. Len(rows) : rows[i] \in {}
    BY <1>3
  <2>2. Len(rows) > 0 => 1 \in 1 .. Len(rows)
    BY <2>1
  <2> QED BY <2>1, <2>2
<1>5. rows = << >>
  BY <1>3, <1>4
<1> QED BY <1>2, <1>5

-----------------------------------------------------------------------------
(* The layout of rows.                                                     *)

\* LastCreate, of a log that is given.
LastIn(log, n) ==
  LET before == {m \in 1 .. n : log[m].stmt.kind = "CREATE"}
  IN  CHOOSE m \in before : \A o \in before : o <= m

LEMMA LastIs ==
  ASSUME NEW log, NEW n \in Nat, NEW m \in 1 .. n, log[m].stmt.kind = "CREATE",
         \A o \in m + 1 .. n : log[o].stmt.kind # "CREATE"
  PROVE  LastIn(log, n) = m
<1> DEFINE before == {o \in 1 .. n : log[o].stmt.kind = "CREATE"}
<1>1. m \in before
  OBVIOUS
<1>2. \A o \in before : o <= m
  <2>1. ASSUME NEW o \in before PROVE o <= m
    <3>1. o \in 1 .. n /\ o \notin m + 1 .. n
      OBVIOUS
    <3> QED BY <3>1
  <2> QED BY <2>1
<1>3. \A x \in before : (\A o \in before : o <= x) => x = m
  <2>1. \A x \in before : x \in Nat
    OBVIOUS
  <2> HIDE DEF before
  <2> QED BY <1>1, <1>2, <2>1
<1>4. LastIn(log, n) = CHOOSE x \in before : \A o \in before : o <= x
  BY DEF LastIn
<1> HIDE DEF before
<1> QED BY <1>1, <1>2, <1>3, <1>4

\* The columns a CREATE means.
Means(create) == [i \in 1 .. Len(create.items) |-> Meant(create.items[i])]

\* A list of columns whose lengths are numbers.
Lengths(cols) == [i \in DOMAIN cols |-> cols[i].len]

LEMMA MeansFacts ==
  ASSUME NEW s \in Statements, s.kind = "CREATE"
  PROVE  /\ DOMAIN Means(s) = 1 .. Len(s.items) /\ Len(Means(s)) = Len(s.items)
         /\ Len(s.items) \in Nat
         /\ Lengths(Means(s)) \in Seq(Nat) /\ Len(Lengths(Means(s))) = Len(s.items)
         /\ \A i \in 1 .. Len(s.items) : Lengths(Means(s))[i] = Means(s)[i].len
<1>1. Len(s.items) \in Nat /\ s.items \in Seq(CreateItems)
  BY StatementFacts DEF Inserting
<1>2. PICK n \in Nat : n = Len(s.items)
  BY <1>1
<1>3. \A i \in 1 .. n : Meant(s.items[i]).len \in Nat
  <2>1. ASSUME NEW i \in 1 .. n PROVE Meant(s.items[i]).len \in Nat
    <3>1. s.items[i] \in CreateItems
      BY <1>1, <1>2
    <3>2. s.items[i].size \in Nat
      BY <3>1, WordFacts DEF CreateItems, Words
    <3> QED BY <3>2 DEF Meant
  <2> QED BY <2>1
<1>4. Means(s) = [i \in 1 .. n |-> Meant(s.items[i])]
  BY <1>2 DEF Means
<1>5. Lengths(Means(s)) = [i \in 1 .. n |-> Meant(s.items[i]).len]
  BY <1>4 DEF Lengths
<1>6. Len(Means(s)) = n /\ DOMAIN Means(s) = 1 .. n
  BY <1>4
<1>7. Lengths(Means(s)) \in Seq(Nat) /\ Len(Lengths(Means(s))) = n
  BY <1>3, <1>5
<1>8. \A i \in 1 .. n : Lengths(Means(s))[i] = Means(s)[i].len
  BY <1>4, <1>5
<1> QED BY <1>2, <1>6, <1>7, <1>8

\* The size of a row is a number, and no column ends behind it.
LEMMA SizeFacts ==
  ASSUME NEW s \in Statements, s.kind = "CREATE"
  PROVE  /\ TupleSize(Means(s)) \in Nat
         /\ \A i \in 1 .. Len(s.items) :
              Offset(Means(s), i) \in Nat /\ Means(s)[i].len \in Nat
                /\ Offset(Means(s), i) + Means(s)[i].len <= TupleSize(Means(s))
<1> DEFINE n == Len(s.items)
           q == Lengths(Means(s))
           t == Sums(q)
<1>1. /\ n \in Nat /\ q \in Seq(Nat) /\ Len(q) = n /\ Len(Means(s)) = n
      /\ \A i \in 1 .. n : q[i] = Means(s)[i].len
  BY MeansFacts
<1>2. Offsets(Means(s)) = t
  BY DEF Offsets, Lengths
<1> HIDE DEF n, q
<1>3. t \in [0 .. n -> Nat] /\ \A i \in 1 .. n : t[i] = t[i - 1] + q[i]
  BY <1>1, SumsFacts
<1>4. \A i \in 0 .. n : t[i] <= t[n]
  BY <1>1, SumsRise
<1>5. \A i \in 1 .. n : q[i] \in Nat
  BY <1>1
<1>6. TupleSize(Means(s)) = t[n] /\ \A i : Offset(Means(s), i) = t[i - 1]
  BY <1>1, <1>2 DEF TupleSize, Offset
<1> HIDE DEF t
<1>7. t[n] \in Nat
  BY <1>1, <1>3
<1>8. ASSUME NEW i \in 1 .. n PROVE t[i - 1] \in Nat /\ t[i - 1] + q[i] <= t[n]
  <2>1. i - 1 \in 0 .. n /\ i \in 0 .. n
    BY <1>1
  <2>2. t[i] = t[i - 1] + q[i] /\ t[i] <= t[n]
    BY <1>3, <1>4, <2>1
  <2> QED BY <1>3, <2>1, <2>2
<1>9. \A i \in 1 .. n :
        Offset(Means(s), i) \in Nat /\ Means(s)[i].len \in Nat
          /\ Offset(Means(s), i) + Means(s)[i].len <= TupleSize(Means(s))
  BY <1>1, <1>5, <1>6, <1>8
<1> QED BY <1>6, <1>7, <1>9 DEF n

\* A row is laid out as the CREATE before it says.
LEMMA RowLayout ==
  ASSUME EInv, NEW n \in 1 .. Len(done), done[n].stmt.kind = "INSERT"
  PROVE  \E m \in 1 .. n :
           /\ IsLastCreate(m, n) /\ done[m].stmt \in Statements
           /\ done[m].stmt.kind = "CREATE" /\ Layout(n) = Means(done[m].stmt)
<1>1. PICK m \in 1 .. n : IsLastCreate(m, n)
  BY DEF EInv, RowsInv
<1>2. done \in Seq(Results) /\ Len(done) \in Nat
  BY DEF EInv, EngineTypes
<1>3. m \in 1 .. Len(done)
  BY <1>2
<1>4. done[m].stmt \in Statements
  <2>1. done[m] \in Results
    BY <1>2, <1>3
  <2> QED BY <2>1 DEF Results
<1>5. LastIn(done, n) = m
  BY <1>1, <1>2, LastIs DEF IsLastCreate
<1>6. LastCreate(n) = m
  BY <1>5 DEF LastCreate, LastIn
<1>7. Columns(done[m].second) = Means(done[m].stmt)
  BY <1>1, <1>3 DEF EInv, ResultsStand, LeftAsWritten, IsLastCreate, Means
<1> QED BY <1>1, <1>4, <1>6, <1>7 DEF Layout, IsLastCreate

\* Its layout stays what it was.
LEMMA LayoutKept ==
  ASSUME EInv, EInv', Len(done') \in Nat, Len(done) <= Len(done'),
         \A i \in 1 .. Len(done) : done'[i] = done[i],
         NEW n \in 1 .. Len(done), done[n].stmt.kind = "INSERT"
  PROVE  Layout(n)' = Layout(n)
<1>1. PICK m \in 1 .. n :
        /\ IsLastCreate(m, n) /\ done[m].stmt.kind = "CREATE"
        /\ Layout(n) = Means(done[m].stmt)
  BY RowLayout
<1>2. Len(done) \in Nat
  BY DEF EInv, EngineTypes
<1>3. /\ m \in 1 .. Len(done) /\ m \in 1 .. Len(done') /\ done'[m] = done[m]
      /\ \A o \in m + 1 .. n : done'[o] = done[o]
  BY <1>2
<1>4. LastIn(done', n) = m
  <2>1. \A o \in m + 1 .. n : done[o].stmt.kind # "CREATE"
    BY <1>1 DEF IsLastCreate
  <2>2. PICK log : log = done'
    OBVIOUS
  <2>3. /\ n \in Nat /\ m \in 1 .. n /\ log[m].stmt.kind = "CREATE"
        /\ \A o \in m + 1 .. n : log[o].stmt.kind # "CREATE"
    BY <1>1, <1>2, <1>3, <2>1, <2>2
  <2> QED BY ONLY <2>2, <2>3, LastIs
<1>5. LastCreate(n)' = m
  BY <1>4 DEF LastCreate, LastIn
<1>6. LeftAsWritten(done[m])'
  BY <1>3 DEF EInv, ResultsStand
<1>7. Columns(done[m].second)' = Means(done[m].stmt)'
  BY <1>1, <1>3, <1>6 DEF LeftAsWritten, Means
<1>8. Means(done[m].stmt)' = Means(done[m].stmt)
  BY <1>3 DEF Means, Meant
<1> QED BY <1>1, <1>5, <1>7, <1>8 DEF Layout

-----------------------------------------------------------------------------
(* The invariant of the session.                                           *)

\* The sizes of rows, and the room they take.
Sizes(rows) == [j \in DOMAIN rows |-> TupleSize(Layout(rows[j]))]

Used(rows) == Sums(Sizes(rows))[Len(rows)]

\* A page of the memory area: the k-th, with n rows of a table in so many
\* bytes.
PageIs(page, name, k, n, used) ==
  /\ page = [objname |-> name, pageno |-> k, slotno |-> n, nextpage |-> -1,
             freespace |-> DataSize - used, freespacetr |-> page.freespacetr,
             data |-> page.data]
  /\ used \in 0 .. DataSize
  /\ HeaderAgrees(page)

\* Page numbers are places in the memory area; a table's page has the rows
\* that were inserted into it; there are no rows of tables without a page.
PagesInv ==
  /\ global_pageno \in Nat
  /\ buffer \in Seq(Range(buffer)) /\ Len(buffer) = global_pageno
  /\ pagetable = [k \in 0 .. global_pageno - 1 |-> <<k>>]
  /\ \A name \in DOMAIN pagedir : \E k \in 0 .. global_pageno - 1 :
       /\ pagedir[name] = <<k>>
       /\ PageIs(buffer[k + 1], name, k, Len(Rows(name)), Used(Rows(name)))
  /\ \A m \in 1 .. Len(Filed) :
       Filed[m].stmt.kind = "INSERT" => Filed[m].stmt.name \in DOMAIN pagedir

BoundInv ==
  /\ Len(done) <= MaxStmts
  /\ phase \in {"gen", "exec"} => Len(done) < MaxStmts

SInv ==
  /\ EInv
  /\ storage \in {"ok", "stray"}
  /\ storage = "stray" => Len(done) > 0
  /\ BoundInv
  /\ PagesInv
  /\ StrayOnlyBeyondContract

-----------------------------------------------------------------------------
(* A page and its rows.                                                    *)

\* The header's counters, while they do not wrap, and when they do.
LEMMA Counters ==
  /\ HeaderMod \in Nat /\ DataSize \in Nat /\ 1 <= DataSize /\ DataSize < HeaderMod
  /\ \A n \in 0 .. HeaderMod - 1 : n % HeaderMod = n
  /\ (-1) % HeaderMod = HeaderMod - 1
  /\ \A n \in Int : n % HeaderMod \in 0 .. HeaderMod - 1
<1>1. HeaderMod \in Nat /\ DataSize \in Nat /\ 1 <= DataSize /\ DataSize < HeaderMod
  BY PageAssumption
<1>2. ASSUME NEW n \in 0 .. HeaderMod - 1 PROVE n % HeaderMod = n
  BY <1>1
<1>3. (-1) % HeaderMod = HeaderMod - 1
  BY <1>1
<1>4. \A n \in Int : n % HeaderMod \in 0 .. HeaderMod - 1
  BY <1>1
<1> QED BY <1>1, <1>2, <1>3, <1>4

\* What a page's header says.
LEMMA PageHas ==
  ASSUME NEW page, NEW name, NEW k, NEW n, NEW used, PageIs(page, name, k, n, used)
  PROVE  /\ page.objname = name /\ page.pageno = k /\ page.slotno = n
         /\ page.freespace = DataSize - used /\ HeaderAgrees(page)
<1>1. PICK tr, dt :
        page = [objname |-> name, pageno |-> k, slotno |-> n, nextpage |-> -1,
                freespace |-> DataSize - used, freespacetr |-> tr, data |-> dt]
  BY DEF PageIs
<1> QED BY <1>1 DEF PageIs

\* A new page.
LEMMA NewPage ==
  ASSUME NEW name, NEW k
  PROVE  PageIs([init_page(name) EXCEPT !.pageno = k], name, k, 0, 0)
<1> DEFINE data == [i \in 1 .. DataSize |-> Zero]
           page == [init_page(name) EXCEPT !.pageno = k]
<1>1. page = [objname |-> name, pageno |-> k, slotno |-> 0, nextpage |-> -1,
              freespace |-> DataSize, freespacetr |-> DataSize - 1, data |-> data]
  <2>1. init_page(name) =
          [objname |-> name, pageno |-> 0, slotno |-> 0, nextpage |-> -1,
           freespace |-> DataSize, freespacetr |-> DataSize - 1, data |-> data]
    BY DEF init_page
  <2> HIDE DEF data
  <2> QED BY <2>1
<1> HIDE DEF page
<1>2. DataSize - 1 \in 0 .. HeaderMod - 1 /\ DataSize - 0 = DataSize
  BY Counters
<1>3. (DataSize - 1) % HeaderMod = DataSize - 1
  BY <1>2, Counters
<1>4. \A i \in 1 .. DataSize : page.data[i] = Zero
  BY <1>1
<1>5. HeaderAgrees(page)
  BY <1>1, <1>3, <1>4, Counters DEF HeaderAgrees
<1>6. page = [objname |-> name, pageno |-> k, slotno |-> 0, nextpage |-> -1,
              freespace |-> DataSize - 0, freespacetr |-> page.freespacetr,
              data |-> page.data]
  BY <1>1, <1>2
<1> QED BY <1>5, <1>6, Counters DEF PageIs, page

\* Where the next row of a page goes, if anywhere.
LEMMA RoomIs ==
  ASSUME NEW page, NEW name, NEW k, NEW n, NEW used, PageIs(page, name, k, n, used),
         NEW size \in Nat
  PROVE  /\ InData(page, size) => used + size <= DataSize
         /\ InData(page, size) /\ size > 0 => Destination(page, size) = DataSize - used - size
<1>1. page.freespace = DataSize - used /\ used \in 0 .. DataSize
      /\ page.freespacetr = (page.freespace - 1) % HeaderMod
  BY DEF PageIs, HeaderAgrees
<1>2. CASE used = DataSize
  <2>1. page.freespacetr = HeaderMod - 1
    BY <1>1, <1>2, Counters
  <2>2. InData(page, size) => size = 0
    BY <2>1, Counters DEF InData
  <2> QED BY <1>2, <2>2, Counters
<1>3. CASE used # DataSize
  <2>1. DataSize - used - 1 \in 0 .. HeaderMod - 1
    BY <1>1, <1>3, Counters
  <2>2. page.freespacetr = DataSize - used - 1
    BY <1>1, <2>1, Counters
  <2>3. Destination(page, size) = DataSize - used - size
    BY <1>1, <2>2, Counters DEF Destination
  <2>4. InData(page, size) => used + size <= DataSize
    BY <1>1, <2>3, Counters DEF InData
  <2> QED BY <2>3, <2>4
<1> QED BY <1>2, <1>3

\* And the other way round: a row that is not put into the data section has
\* no room there.
LEMMA NoRoom ==
  ASSUME NEW page, NEW name, NEW k, NEW n, NEW used, PageIs(page, name, k, n, used),
         NEW size \in Nat, used + size <= DataSize
  PROVE  InData(page, size)
<1>1. page.freespace = DataSize - used /\ used \in 0 .. DataSize
      /\ page.freespacetr = (page.freespace - 1) % HeaderMod
  BY DEF PageIs, HeaderAgrees
<1>2. CASE size = 0
  BY <1>2 DEF InData
<1>3. CASE size > 0
  <2>1. DataSize - used - 1 \in 0 .. HeaderMod - 1
    BY <1>1, <1>3, Counters
  <2>2. page.freespacetr = DataSize - used - 1
    BY <1>1, <2>1, Counters
  <2>3. Destination(page, size) = DataSize - used - size
    BY <1>1, <2>2, Counters DEF Destination
  <2> QED BY <1>1, <2>2, <2>3, Counters DEF InData
<1> QED BY <1>2, <1>3

\* A row more on a page that has room for it.
LEMMA RowOnPage ==
  ASSUME NEW page, NEW name, NEW k, NEW n \in Nat, NEW used, PageIs(page, name, k, n, used),
         n + 1 < HeaderMod, NEW buf, Len(buf) \in Nat, InData(page, Len(buf))
  PROVE  PageIs(sql_ins_buf_to_page(page, buf), name, k, n + 1, used + Len(buf))
<1> DEFINE size == Len(buf)
           dst == Destination(page, size)
           data == [i \in 1 .. DataSize |->
                      IF i - dst \in 1 .. size THEN buf[i - dst] ELSE page.data[i]]
           more == sql_ins_buf_to_page(page, buf)
<1>1. /\ page = [objname |-> name, pageno |-> k, slotno |-> n, nextpage |-> -1,
                 freespace |-> DataSize - used, freespacetr |-> page.freespacetr,
                 data |-> page.data]
      /\ used \in 0 .. DataSize
      /\ page.freespacetr = (page.freespace - 1) % HeaderMod
      /\ \A i \in 1 .. page.freespace : page.data[i] = Zero
  BY DEF PageIs, HeaderAgrees
<1>2. more = [objname |-> name, pageno |-> k, slotno |-> (n + 1) % HeaderMod,
              nextpage |-> -1, freespace |-> (DataSize - used - size) % HeaderMod,
              freespacetr |-> (page.freespacetr - size) % HeaderMod, data |-> data]
  <2> HIDE DEF data, dst
  <2>1. more = [page EXCEPT !.data = data,
                            !.freespace = (page.freespace - size) % HeaderMod,
                            !.freespacetr = (page.freespacetr - size) % HeaderMod,
                            !.slotno = (page.slotno + 1) % HeaderMod]
    BY DEF sql_ins_buf_to_page, data, dst
  <2> HIDE DEF more, size
  <2>2. PICK tr, dt :
          page = [objname |-> name, pageno |-> k, slotno |-> n, nextpage |-> -1,
                  freespace |-> DataSize - used, freespacetr |-> tr, data |-> dt]
    BY <1>1
  <2> QED BY <2>1, <2>2
<1> HIDE DEF size, more
<1>3. size \in Nat /\ used + size <= DataSize /\ (size > 0 => dst = DataSize - used - size)
  BY RoomIs DEF size
<1> HIDE DEF dst
<1>4. /\ n + 1 \in 0 .. HeaderMod - 1
      /\ DataSize - used - size \in 0 .. HeaderMod - 1
      /\ DataSize - used - size = DataSize - (used + size)
      /\ used + size \in 0 .. DataSize
  <2>1. used \in Nat /\ used <= DataSize
    BY <1>1, Counters
  <2> QED BY <1>3, <2>1, Counters
<1>5. (n + 1) % HeaderMod = n + 1
      /\ (DataSize - used - size) % HeaderMod = DataSize - (used + size)
  BY <1>4, Counters
<1>6. (page.freespacetr - size) % HeaderMod = (DataSize - (used + size) - 1) % HeaderMod
  <2>1. page.freespacetr = (DataSize - used - 1) % HeaderMod
    BY <1>1
  <2>2. CASE used = DataSize
    <3>1. size = 0 /\ page.freespacetr = HeaderMod - 1
      BY <1>1, <1>3, <2>1, <2>2, Counters
    <3>2. page.freespacetr - size \in 0 .. HeaderMod - 1 /\ page.freespacetr - size = HeaderMod - 1
      BY <3>1, Counters
    <3>3. (page.freespacetr - size) % HeaderMod = HeaderMod - 1
      BY <3>2, Counters
    <3>4. DataSize - (used + size) - 1 = -1
      BY <2>2, <3>1, Counters
    <3> QED BY <3>3, <3>4, Counters
  <2>3. CASE used # DataSize
    <3>1. DataSize - used - 1 \in 0 .. HeaderMod - 1
      <4>1. used \in 0 .. DataSize
        BY <1>1
      <4> QED BY ONLY <2>3, <4>1, Counters
    <3>2. page.freespacetr = DataSize - used - 1
      BY ONLY <2>1, <3>1, Counters
    <3>3. page.freespacetr - size = DataSize - (used + size) - 1
      BY <1>1, <1>3, <3>2, Counters
    <3> QED BY <3>3
  <2> QED BY <2>2, <2>3
<1>7. ASSUME NEW i \in 1 .. DataSize - (used + size) PROVE data[i] = Zero
  <2>1. i \in 1 .. DataSize /\ i \in 1 .. DataSize - used
    <3>1. used \in Nat /\ used <= DataSize
      BY <1>1, Counters
    <3>2. DataSize \in Nat /\ size \in Nat
      BY <1>3, Counters
    <3> QED BY ONLY <1>7, <3>1, <3>2
  <2>2. i - dst \notin 1 .. size
    <3>1. CASE size = 0
      BY <3>1
    <3>2. CASE size > 0
      <4>1. i - dst <= 0
        BY <1>1, <1>3, <3>2, Counters
      <4> QED BY <1>3, <4>1
    <3> QED BY <1>3, <3>1, <3>2
  <2>3. page.freespace = DataSize - used
    BY <1>1
  <2>4. page.data[i] = Zero
    BY <1>1, <2>1, <2>3
  <2> QED BY <2>1, <2>2, <2>4
<1> HIDE DEF data
<1>8. /\ more.freespace = DataSize - (used + size) /\ more.data = data
      /\ more.freespacetr = (more.freespace - 1) % HeaderMod
      /\ more.slotno = n + 1
  BY <1>2, <1>5, <1>6
<1>9. more.freespace <= DataSize
  BY ONLY <1>3, <1>4, <1>8, Counters
<1>10. HeaderAgrees(more)
  BY <1>7, <1>8, <1>9 DEF HeaderAgrees
<1>11. more = [objname |-> name, pageno |-> k, slotno |-> n + 1, nextpage |-> -1,
               freespace |-> DataSize - (used + size), freespacetr |-> more.freespacetr,
               data |-> more.data]
  BY <1>2, <1>5
<1>12. PageIs(more, name, k, n + 1, used + size)
  BY <1>4, <1>10, <1>11 DEF PageIs
<1> QED BY <1>12 DEF more, size

-----------------------------------------------------------------------------
(* What a step leaves as it was.                                           *)

\* Statements are only added to those done.
Grows ==
  /\ Len(done') \in Nat /\ Len(done) <= Len(done')
  /\ \A i \in 1 .. Len(done) : done'[i] = done[i]

InsertsDone == {m \in 1 .. Len(done) : done[m].stmt.kind = "INSERT"}

LEMMA SizeOfRow ==
  ASSUME EInv, NEW m \in InsertsDone
  PROVE  TupleSize(Layout(m)) \in Nat
<1>1. m \in 1 .. Len(done) /\ done[m].stmt.kind = "INSERT"
  BY DEF InsertsDone
<1>2. PICK c \in 1 .. m :
        /\ done[c].stmt \in Statements /\ done[c].stmt.kind = "CREATE"
        /\ Layout(m) = Means(done[c].stmt)
  BY <1>1, RowLayout
<1> QED BY <1>2, SizeFacts

LEMMA SizesFacts ==
  ASSUME EInv, NEW rows \in Seq(InsertsDone)
  PROVE  /\ Sizes(rows) \in Seq(Nat) /\ Len(Sizes(rows)) = Len(rows)
         /\ \A j \in 1 .. Len(rows) : Sizes(rows)[j] = TupleSize(Layout(rows[j]))
<1>1. PICK n \in Nat : n = Len(rows)
  OBVIOUS
<1>2. DOMAIN rows = 1 .. n /\ \A j \in 1 .. n : rows[j] \in InsertsDone
  BY <1>1
<1>3. Sizes(rows) = [j \in 1 .. n |-> TupleSize(Layout(rows[j]))]
  BY <1>2 DEF Sizes
<1>4. \A j \in 1 .. n : TupleSize(Layout(rows[j])) \in Nat
  BY <1>2, SizeOfRow
<1>5. Sizes(rows) \in Seq(Nat) /\ Len(Sizes(rows)) = n
  BY <1>3, <1>4
<1>6. \A j \in 1 .. n : Sizes(rows)[j] = TupleSize(Layout(rows[j]))
  BY <1>3
<1> QED BY <1>1, <1>5, <1>6

\* Rows take the room they took.
LEMMA UsedKept ==
  ASSUME EInv, EInv', Grows, NEW rows \in Seq(InsertsDone)
  PROVE  Sizes(rows)' = Sizes(rows) /\ Used(rows)' = Used(rows)
<1>1. ASSUME NEW j \in DOMAIN rows PROVE Layout(rows[j])' = Layout(rows[j])
  <2>1. rows[j] \in InsertsDone
    OBVIOUS
  <2>2. PICK n : n = rows[j]
    OBVIOUS
  <2>3. n \in 1 .. Len(done) /\ done[n].stmt.kind = "INSERT"
    BY <2>1, <2>2 DEF InsertsDone
  <2>4. Layout(n)' = Layout(n)
    BY <2>3, LayoutKept DEF Grows
  <2> QED BY <2>2, <2>4 DEF Layout, LastCreate, Columns
<1>2. \A j \in DOMAIN rows : Layout(rows[j])' = Layout(rows[j])
  BY <1>1
<1>3. Sizes(rows)' = Sizes(rows)
  BY <1>2 DEF Sizes
<1> QED BY <1>3 DEF Used

\* The statements whose results are in the store.
LEMMA FiledFacts ==
  ASSUME EInv, storage \in {"ok", "stray"}, storage = "stray" => Len(done) > 0
  PROVE  /\ Filed \in Seq(Results) /\ Len(Filed) <= Len(done)
         /\ Len(Filed) \in Nat /\ Len(done) \in Nat
         /\ \A m \in 1 .. Len(Filed) : Filed[m] = done[m]
<1>1. done \in Seq(Results)
  BY DEF EInv, EngineTypes
<1>2. CASE storage = "ok"
  BY <1>1, <1>2 DEF Filed
<1>3. CASE storage = "stray"
  <2>1. Filed = SubSeq(done, 1, Len(done) - 1) /\ Len(done) > 0
    BY <1>3 DEF Filed
  <2>2. PICK log \in Seq(Results) : log = done
    BY <1>1
  <2>3. Len(log) > 0
    BY <2>1, <2>2
  <2>4. /\ SubSeq(log, 1, Len(log) - 1) \in Seq(Results)
        /\ Len(SubSeq(log, 1, Len(log) - 1)) = Len(log) - 1
        /\ \A m \in 1 .. Len(log) - 1 : SubSeq(log, 1, Len(log) - 1)[m] = log[m]
    <3>1. Len(log) \in Nat
      OBVIOUS
    <3>2. Len(log) - 1 \in 0 .. Len(log)
      BY <2>3, <3>1
    <3>3. PICK n \in 0 .. Len(log) : n = Len(log) - 1
      BY <3>2
    <3> QED BY <2>2, <3>3, FrontOf
  <2> QED BY <2>1, <2>2, <2>4
<1> QED BY <1>2, <1>3

\* A table's rows are inserts done.
LEMMA RowsAreDone ==
  ASSUME EInv, storage \in {"ok", "stray"}, storage = "stray" => Len(done) > 0, NEW name
  PROVE  /\ Rows(name) \in Seq(InsertsDone) /\ Len(Rows(name)) \in 0 .. Len(Filed)
         /\ Rows(name) = RowsIn(Filed, name)
<1>1. PICK log : log = Filed
  OBVIOUS
<1>2. log \in Seq(Results) /\ Len(log) \in Nat /\ Len(log) <= Len(done) /\ Len(done) \in Nat
      /\ \A m \in 1 .. Len(log) : log[m] = done[m]
  BY <1>1, FiledFacts
<1>3. RowsIn(log, name) \in Seq(RowsOf(log, name)) /\ Len(RowsIn(log, name)) \in 0 .. Len(log)
  BY <1>2, RowsAreIn
<1>4. RowsOf(log, name) \subseteq InsertsDone
  BY <1>2 DEF RowsOf, RowOf, InsertsDone
<1>5. RowsIn(log, name) \in Seq(InsertsDone)
  BY <1>3, <1>4
<1>6. Rows(name) = RowsIn(log, name)
  BY <1>1 DEF Rows, RowsIn
<1> QED BY <1>1, <1>3, <1>5, <1>6

\* The same rows take the same room.
LEMMA SameRows ==
  ASSUME SInv, EInv', Grows, NEW name, Rows(name)' = Rows(name)
  PROVE  Len(Rows(name))' = Len(Rows(name)) /\ Used(Rows(name))' = Used(Rows(name))
<1>1. PICK rows \in Seq(InsertsDone) : rows = Rows(name)
  BY RowsAreDone DEF SInv
<1>2. Sizes(rows)' = Sizes(rows)
  BY <1>1, UsedKept DEF SInv
<1>3. Rows(name)' = rows
  BY <1>1
<1>4. Sizes(Rows(name))' = Sizes(rows)'
  BY <1>3 DEF Sizes
<1> QED BY <1>1, <1>2, <1>3, <1>4 DEF Used

\* What is filed is no row: every table has the rows it had.
NoRowFiled ==
  \/ Filed' = Filed
  \/ \E r \in Results : r.stmt.kind # "INSERT" /\ Filed' = Append(Filed, r)

LEMMA NoNewRow ==
  ASSUME SInv, NoRowFiled, NEW name
  PROVE  Rows(name)' = Rows(name)
<1>1. PICK log \in Seq(Results) : log = Filed
  BY FiledFacts DEF SInv
<1>2. \/ Filed' = log
      \/ \E r \in Results : r.stmt.kind # "INSERT" /\ Filed' = Append(log, r)
  BY <1>1 DEF NoRowFiled
<1>3. Rows(name) = RowsIn(log, name)
  BY <1>1 DEF Rows, RowsIn
<1>4. Rows(name)' = RowsIn(Filed', name)
  BY DEF Rows, RowsIn
<1>5. RowsIn(Filed', name) = RowsIn(log, name)
  <2>1. CASE Filed' = log
    BY <2>1
  <2>2. CASE \E r \in Results : r.stmt.kind # "INSERT" /\ Filed' = Append(log, r)
    <3>1. PICK r \in Results : r.stmt.kind # "INSERT" /\ Filed' = Append(log, r)
      BY <2>2
    <3>2. RowsIn(Append(log, r), name) = RowsIn(log, name)
      BY <3>1, OneMoreRowIn DEF RowOf
    <3> QED BY <3>1, <3>2
  <2> QED BY <1>2, <2>1, <2>2
<1> QED BY <1>3, <1>4, <1>5

\* Its rows take the room they took.
LEMMA RowsSame ==
  ASSUME SInv, EInv', Grows, NoRowFiled, NEW name
  PROVE  Len(Rows(name))' = Len(Rows(name)) /\ Used(Rows(name))' = Used(Rows(name))
BY NoNewRow, SameRows

\* The tables of the rows filed are in the directory.
LEMMA RowsFiled ==
  ASSUME SInv, NoRowFiled, DOMAIN pagedir \subseteq DOMAIN pagedir'
  PROVE  \A m \in 1 .. Len(Filed') :
           Filed'[m].stmt.kind = "INSERT" => Filed'[m].stmt.name \in DOMAIN pagedir'
<1>1. PICK log \in Seq(Results) : log = Filed
  BY FiledFacts DEF SInv
<1>2. \/ Filed' = log
      \/ \E r \in Results : r.stmt.kind # "INSERT" /\ Filed' = Append(log, r)
  BY <1>1 DEF NoRowFiled
<1>3. \A i \in 1 .. Len(log) : log[i].stmt.kind = "INSERT" => log[i].stmt.name \in DOMAIN pagedir'
  BY <1>1 DEF SInv, PagesInv
<1>4. SUFFICES ASSUME NEW m \in 1 .. Len(Filed'), Filed'[m].stmt.kind = "INSERT"
               PROVE  Filed'[m].stmt.name \in DOMAIN pagedir'
  OBVIOUS
<1>5. CASE Filed' = log
  BY <1>3, <1>4, <1>5
<1>6. ASSUME NEW r \in Results, r.stmt.kind # "INSERT", Filed' = Append(log, r)
      PROVE  Filed'[m].stmt.name \in DOMAIN pagedir'
  <2>1. /\ Len(Filed') = Len(log) + 1 /\ Filed'[Len(log) + 1] = r /\ Len(log) \in Nat
        /\ \A i \in 1 .. Len(log) : Filed'[i] = log[i]
    BY <1>6, AppendKeeps
  <2>2. m \in 1 .. Len(log)
    BY <1>4, <1>6, <2>1
  <2> QED BY <1>3, <1>4, <2>1, <2>2
<1> QED BY <1>2, <1>5, <1>6

\* The pages agree with the statements filed when neither changes, or when
\* what is filed is no row.
LEMMA PagesSame ==
  ASSUME SInv, EInv', Grows, UNCHANGED <<pagedir, pagetable, buffer, global_pageno>>,
         NoRowFiled
  PROVE  PagesInv'
<1>1. ASSUME NEW name \in DOMAIN pagedir'
      PROVE  \E k \in 0 .. global_pageno' - 1 :
               /\ pagedir'[name] = <<k>>
               /\ PageIs(buffer'[k + 1], name, k, Len(Rows(name))', Used(Rows(name))')
  <2>1. PICK k \in 0 .. global_pageno - 1 :
          /\ pagedir[name] = <<k>>
          /\ PageIs(buffer[k + 1], name, k, Len(Rows(name)), Used(Rows(name)))
    BY DEF SInv, PagesInv
  <2>2. Len(Rows(name))' = Len(Rows(name)) /\ Used(Rows(name))' = Used(Rows(name))
    BY RowsSame
  <2> QED BY <2>1, <2>2
<1>2. \A m \in 1 .. Len(Filed') :
        Filed'[m].stmt.kind = "INSERT" => Filed'[m].stmt.name \in DOMAIN pagedir'
  BY RowsFiled
<1>3. /\ global_pageno' \in Nat /\ buffer' \in Seq(Range(buffer')) /\ Len(buffer') = global_pageno'
      /\ pagetable' = [k \in 0 .. global_pageno' - 1 |-> <<k>>]
  <2>1. /\ global_pageno \in Nat /\ buffer \in Seq(Range(buffer)) /\ Len(buffer) = global_pageno
        /\ pagetable = [k \in 0 .. global_pageno - 1 |-> <<k>>]
    BY DEF SInv, PagesInv
  <2> QED BY <2>1
<1> QED BY <1>1, <1>2, <1>3 DEF PagesInv

\* The session steps of the engine keep within the bound of statements.
LEMMA BoundKept ==
  ASSUME EInv, BoundInv, ENext
  PROVE  BoundInv' /\ Grows
<1>1. Len(done) \in Nat /\ MaxStmts \in Nat /\ done \in Seq(Results)
  BY StatementsAssumption DEF EInv, EngineTypes
<1>2. ASSUME done' = done, phase' \in {"gen", "exec"} => phase \in {"gen", "exec"} \/ Len(done) < MaxStmts
      PROVE  BoundInv' /\ Grows
  BY <1>1, <1>2 DEF BoundInv, Grows
<1>3. ASSUME NEW r \in Results, done' = Append(done, r), phase \in {"gen", "exec"},
             phase' \notin {"gen", "exec"}
      PROVE  BoundInv' /\ Grows
  <2>1. /\ Len(done') = Len(done) + 1 /\ \A i \in 1 .. Len(done) : done'[i] = done[i]
    BY <1>3, OneMoreDone DEF EInv
  <2>2. Len(done) < MaxStmts
    BY <1>3 DEF BoundInv
  <2> QED BY <1>1, <1>3, <2>1, <2>2 DEF BoundInv, Grows
<1>4. CASE Compile
  BY <1>2, <1>4 DEF Compile, GenHead
<1>5. CASE GenItem
  BY <1>2, <1>5 DEF GenItem, InLoop
<1>6. CASE GenHalt
  <2>1. phase = "gen"
    BY <1>6 DEF GenHalt
  <2>2. CASE stmt.kind = "SELECT"
    <3>1. phase' = "ready" /\ done' = Append(done, [stmt |-> stmt, first |-> 0, second |-> 0])
      BY <1>6, <2>2 DEF GenHalt
    <3>2. [stmt |-> stmt, first |-> 0, second |-> 0] \in Results
      BY <2>1, WordFacts DEF Results, EInv, EngineTypes
    <3> QED BY <1>3, <2>1, <3>1, <3>2
  <2>3. CASE stmt.kind # "SELECT"
    BY <1>2, <1>6, <2>1, <2>3 DEF GenHalt
  <2> QED BY <2>2, <2>3
<1>7. CASE Exec
  BY <1>2, <1>7 DEF Exec
<1>8. CASE Exit
  BY <1>2, <1>8 DEF Exit
<1>9. CASE TakeTable
  <2>1. phase = "exec" /\ halt /\ phase' = "ready" /\ done' = Append(done, Left2)
    BY <1>9 DEF TakeTable
  <2>2. Left2 \in Results
    BY <2>1, Left2Written
  <2> QED BY <1>3, <2>1, <2>2
<1>10. CASE TakeRow
  <2>1. phase = "exec" /\ halt
        /\ \/ phase' = "ready" /\ done' = Append(done, Left2)
           \/ phase' = "abort" /\ done' = done
    BY <1>10 DEF TakeRow
  <2>2. Left2 \in Results
    BY <2>1, Left2Written
  <2> QED BY <1>2, <1>3, <2>1, <2>2
<1> QED BY <1>4, <1>5, <1>6, <1>7, <1>8, <1>9, <1>10 DEF ENext, Run

-----------------------------------------------------------------------------
(* The steps.                                                              *)

\* A step of the engine that leaves the store alone files a SELECT or nothing.
LEMMA QuietFiles ==
  ASSUME SInv, storage = "ok", Compile \/ GenItem \/ GenHalt \/ Exec \/ Exit,
         UNCHANGED store
  PROVE  \/ Filed' = Filed
         \/ \E r \in Results : r.stmt.kind = "SELECT" /\ Filed' = Append(Filed, r)
<1>1. Filed = done /\ Filed' = done'
  BY DEF Filed, store
<1>2. CASE done' = done
  BY <1>1, <1>2
<1>3. CASE GenHalt /\ stmt.kind = "SELECT"
  <2> DEFINE r == [stmt |-> stmt, first |-> 0, second |-> 0]
  <2>1. phase = "gen" /\ done' = Append(done, r)
    BY <1>3 DEF GenHalt
  <2>2. r \in Results /\ r.stmt.kind = "SELECT"
    BY <1>3, <2>1, WordFacts DEF Results, SInv, EInv, EngineTypes
  <2> HIDE DEF r
  <2> QED BY <1>1, <2>1, <2>2
<1>4. done' = done \/ (GenHalt /\ stmt.kind = "SELECT")
  BY DEF Compile, GenHead, GenItem, GenHalt, Exec, Exit
<1> QED BY <1>2, <1>3, <1>4

\* A step of the engine that leaves the store alone.
LEMMA QuietKeeps ==
  ASSUME SInv, storage = "ok", Compile \/ GenItem \/ GenHalt \/ Exec \/ Exit,
         UNCHANGED store
  PROVE  SInv'
<1>1. ENext
  BY DEF ENext, Run
<1>2. EInv' /\ BoundInv' /\ Grows
  BY <1>1, EngineStep, BoundKept DEF SInv
<1>3. UNCHANGED <<pagedir, pagetable, buffer, global_pageno, storage>>
  BY DEF store
<1>4. NoRowFiled
  BY QuietFiles DEF NoRowFiled
<1>5. PagesInv'
  BY <1>2, <1>3, <1>4, PagesSame
<1>6. StrayOnlyBeyondContract'
  BY <1>3 DEF StrayOnlyBeyondContract
<1> QED BY <1>2, <1>3, <1>5, <1>6 DEF SInv

\* A statement that leads astray is done, and not filed.
LEMMA AstrayNotFiled ==
  ASSUME SInv, storage = "ok", storage' = "stray", NEW r \in Results, done' = Append(done, r)
  PROVE  Filed' = Filed /\ Filed = done /\ Len(done') > 0
<1>1. PICK log \in Seq(Results) : log = done
  BY DEF SInv, EInv, EngineTypes
<1>2. /\ Len(log) \in Nat /\ Append(log, r) \in Seq(Results)
      /\ Len(Append(log, r)) = Len(log) + 1
      /\ \A i \in 1 .. Len(log) : Append(log, r)[i] = log[i]
  BY AppendKeeps
<1>3. SubSeq(Append(log, r), 1, Len(log)) = log
  <2>1. Len(log) \in 0 .. Len(Append(log, r))
    BY <1>2
  <2>2. /\ SubSeq(Append(log, r), 1, Len(log)) \in Seq(Results)
        /\ Len(SubSeq(Append(log, r), 1, Len(log))) = Len(log)
        /\ \A i \in 1 .. Len(log) : SubSeq(Append(log, r), 1, Len(log))[i] = Append(log, r)[i]
    BY <1>2, <2>1, FrontOf
  <2> QED BY <1>2, <2>2, SameSequence
<1>4. done' = Append(log, r) /\ Len(done') - 1 = Len(log)
  BY <1>1, <1>2
<1>5. Filed' = SubSeq(done', 1, Len(done') - 1)
  BY DEF Filed
<1>6. Filed' = log
  BY <1>3, <1>4, <1>5
<1> QED BY <1>1, <1>2, <1>6 DEF Filed

\* A page more in the memory area, and a page changed.
LEMMA PageAppended ==
  ASSUME NEW q, q \in Seq(Range(q)), NEW x
  PROVE  /\ Append(q, x) \in Seq(Range(Append(q, x))) /\ Len(Append(q, x)) = Len(q) + 1
         /\ Append(q, x)[Len(q) + 1] = x /\ Len(q) \in Nat
         /\ \A i \in 1 .. Len(q) : Append(q, x)[i] = q[i]
<1> DEFINE S == Range(q) \cup {x}
           r == Append(q, x)
<1>1. q \in Seq(S) /\ x \in S
  OBVIOUS
<1> HIDE DEF S
<1>2. /\ r \in Seq(S) /\ Len(r) = Len(q) + 1 /\ r[Len(q) + 1] = x /\ Len(q) \in Nat
      /\ \A i \in 1 .. Len(q) : r[i] = q[i]
  BY <1>1, AppendKeeps
<1> HIDE DEF r
<1>3. r \in Seq(Range(r))
  BY <1>2 DEF Range
<1> QED BY <1>2, <1>3 DEF r

Changed(q, n, x) == [q EXCEPT ![n] = x]

LEMMA PageChanged ==
  ASSUME NEW q, q \in Seq(Range(q)), NEW n \in 1 .. Len(q), NEW x
  PROVE  /\ Changed(q, n, x) \in Seq(Range(Changed(q, n, x)))
         /\ Len(Changed(q, n, x)) = Len(q) /\ Changed(q, n, x)[n] = x
         /\ \A i \in 1 .. Len(q) : i # n => Changed(q, n, x)[i] = q[i]
<1> DEFINE S == Range(q) \cup {x}
           r == Changed(q, n, x)
<1>1. q \in Seq(S) /\ x \in S
  OBVIOUS
<1> HIDE DEF S
<1>2. /\ r \in Seq(S) /\ Len(r) = Len(q) /\ r[n] = x
      /\ \A i \in 1 .. Len(q) : i # n => r[i] = q[i]
  BY <1>1 DEF Changed
<1> HIDE DEF r
<1>3. r \in Seq(Range(r))
  BY ONLY <1>2 DEF Range
<1> QED BY <1>2, <1>3 DEF r

\* The page a CREATE left carries its name.
LEMMA TableLeft ==
  ASSUME EInv, TakeTable
  PROVE  /\ stmt.kind = "CREATE" /\ Left2 \in Results /\ Left2.stmt = stmt
         /\ done' = Append(done, Left2) /\ stmt' = stmt
         /\ heap[stack[1] - HeapBase].objname = stmt.name
<1>1. /\ phase = "exec" /\ halt /\ stmt.kind = "CREATE" /\ stmt' = stmt
      /\ done' = Append(done, Left2)
  BY DEF TakeTable
<1>2. /\ Left2 \in Results /\ Left2.stmt = stmt /\ Left2.first = stack[1]
      /\ LeftAsWritten(Left2)
  BY <1>1, Left2Written
<1>3. heap[Left2.first - HeapBase].objname = Left2.stmt.name
  BY <1>1, <1>2 DEF LeftAsWritten
<1> QED BY <1>1, <1>2, <1>3

\* A table that has no page has no rows.
LEMMA NewTableEmpty ==
  ASSUME SInv, storage = "ok", NEW name, name \notin DOMAIN pagedir
  PROVE  Len(Rows(name)) = 0 /\ Used(Rows(name)) = 0
<1>1. PICK log \in Seq(Results) : log = Filed
  BY FiledFacts DEF SInv
<1>2. \A m \in 1 .. Len(log) : ~RowOf(log[m], name)
  BY <1>1 DEF SInv, PagesInv, RowOf
<1>3. Rows(name) = << >>
  <2>1. RowsIn(log, name) = << >>
    BY <1>2, NoRows
  <2> QED BY <1>1, <2>1 DEF Rows, RowsIn
<1>4. PICK rows \in Seq(InsertsDone) : rows = << >>
  BY <1>3, RowsAreDone DEF SInv
<1>5. Sizes(rows) \in Seq(Nat) /\ Len(rows) = 0
  BY <1>4, SizesFacts DEF SInv
<1>6. Sums(Sizes(rows))[0] = 0
  BY <1>5, SumsFacts
<1>7. Used(rows) = 0
  BY <1>5, <1>6 DEF Used
<1>8. Used(Rows(name)) = Used(rows)
  BY <1>3, <1>4
<1> QED BY <1>3, <1>4, <1>5, <1>7, <1>8

\* The new table's page, in the place its number says.
LEMMA TableFiled ==
  ASSUME SInv, EInv', Grows, storage = "ok", storage' = "ok", NEW name,
         name \notin DOMAIN pagedir, NEW page,
         page = [init_page(name) EXCEPT !.pageno = global_pageno],
         global_pageno' = global_pageno + 1,
         pagedir' = Entered(pagedir, name, global_pageno),
         buffer' = Append(buffer, page),
         pagetable' = Entered(pagetable, global_pageno, Len(buffer)),
         NoRowFiled
  PROVE  PagesInv'
<1>1. /\ global_pageno \in Nat /\ buffer \in Seq(Range(buffer)) /\ Len(buffer) = global_pageno
      /\ pagetable = [k \in 0 .. global_pageno - 1 |-> <<k>>]
  BY DEF SInv, PagesInv
<1>2. PICK g \in Nat : g = global_pageno
  BY <1>1
<1>3. PICK pages : pages = buffer
  OBVIOUS
<1>4. /\ buffer' \in Seq(Range(buffer')) /\ Len(buffer') = g + 1 /\ buffer'[g + 1] = page
      /\ \A i \in 1 .. g : buffer'[i] = buffer[i]
  <2>1. pages \in Seq(Range(pages)) /\ Len(pages) = g /\ buffer' = Append(pages, page)
    BY <1>1, <1>2, <1>3
  <2> QED BY <1>3, <2>1, PageAppended
<1>5. pagetable' = [k \in 0 .. g |-> <<k>>]
  <2>1. PICK old : old = pagetable
    OBVIOUS
  <2>2. g \notin DOMAIN old /\ DOMAIN old = 0 .. g - 1 /\ \A k \in 0 .. g - 1 : old[k] = <<k>>
    BY <1>1, <1>2, <2>1
  <2>3. pagetable' = [k \in DOMAIN old \cup {g} |-> IF k \in DOMAIN old THEN old[k] ELSE <<g>>]
    <3>1. pagetable' = Entered(old, g, g)
      BY <1>1, <1>2, <2>1
    <3> QED BY <3>1 DEF Entered
  <2>4. DOMAIN old \cup {g} = 0 .. g
    BY <2>2
  <2>5. \A k \in 0 .. g : (IF k \in DOMAIN old THEN old[k] ELSE <<g>>) = <<k>>
    BY <2>2
  <2> QED BY <2>3, <2>4, <2>5
<1>6. /\ DOMAIN pagedir' = DOMAIN pagedir \cup {name} /\ pagedir'[name] = <<g>>
      /\ \A n \in DOMAIN pagedir : pagedir'[n] = pagedir[n]
  <2>1. PICK dir : dir = pagedir
    OBVIOUS
  <2>2. PICK new : new = Entered(dir, name, g)
    OBVIOUS
  <2>3. name \notin DOMAIN dir /\ pagedir' = new
    BY <1>2, <2>1, <2>2
  <2>4. /\ DOMAIN new = DOMAIN dir \cup {name} /\ new[name] = <<g>>
        /\ \A n \in DOMAIN dir : new[n] = dir[n]
    BY ONLY <2>2, <2>3 DEF Entered
  <2> QED BY <2>1, <2>3, <2>4
<1>7. ASSUME NEW n \in DOMAIN pagedir'
      PROVE  \E k \in 0 .. global_pageno' - 1 :
               /\ pagedir'[n] = <<k>>
               /\ PageIs(buffer'[k + 1], n, k, Len(Rows(n))', Used(Rows(n))')
  <2>1. Len(Rows(n))' = Len(Rows(n)) /\ Used(Rows(n))' = Used(Rows(n))
    BY RowsSame
  <2>2. global_pageno' - 1 = g
    BY <1>2
  <2>3. CASE n = name
    <3>1. PageIs(page, name, g, 0, 0)
      BY <1>2, NewPage
    <3>2. Len(Rows(n))' = 0 /\ Used(Rows(n))' = 0
      BY <2>1, <2>3, NewTableEmpty
    <3>3. g \in 0 .. global_pageno' - 1
      BY <2>2
    <3> QED BY <1>4, <1>6, <2>3, <3>1, <3>2, <3>3
  <2>4. CASE n # name
    <3>1. n \in DOMAIN pagedir
      BY <1>6, <2>4
    <3>2. PICK k \in 0 .. g - 1 :
            /\ pagedir[n] = <<k>>
            /\ PageIs(buffer[k + 1], n, k, Len(Rows(n)), Used(Rows(n)))
      BY <1>2, <3>1 DEF SInv, PagesInv
    <3>3. k + 1 \in 1 .. g /\ k \in 0 .. global_pageno' - 1
      BY <2>2
    <3>4. buffer'[k + 1] = buffer[k + 1]
      BY <1>4, <3>3
    <3> QED BY <1>6, <2>1, <3>1, <3>2, <3>3, <3>4
  <2> QED BY <2>3, <2>4
<1>8. \A m \in 1 .. Len(Filed') :
        Filed'[m].stmt.kind = "INSERT" => Filed'[m].stmt.name \in DOMAIN pagedir'
  BY <1>6, RowsFiled
<1>9. /\ global_pageno' \in Nat /\ Len(buffer') = global_pageno'
      /\ pagetable' = [k \in 0 .. global_pageno' - 1 |-> <<k>>]
  BY <1>2, <1>4, <1>5
<1> QED BY <1>4, <1>7, <1>8, <1>9 DEF PagesInv

\* What a CREATE does: it goes astray if there is a table of that name, and is
\* never refused by the assert.
LEMMA CreateDoes ==
  ASSUME SInv, CreateTable
  PROVE  /\ storage = "ok" /\ stmt.kind = "CREATE" /\ stmt' = stmt
         /\ Filed = done /\ NoRowFiled
         /\ \E r \in Results : r.stmt = stmt /\ done' = Append(done, r)
         /\ \/ /\ stmt.name \in DOMAIN pagedir
               /\ storage' = "stray" /\ Filed' = Filed /\ Len(done') > 0
               /\ UNCHANGED <<pagedir, pagetable, buffer, global_pageno>>
            \/ /\ stmt.name \notin DOMAIN pagedir
               /\ storage' = "ok" /\ Filed' = done'
               /\ global_pageno' = global_pageno + 1
               /\ pagedir' = Entered(pagedir, stmt.name, global_pageno)
               /\ buffer' = Append(buffer, [init_page(stmt.name) EXCEPT !.pageno = global_pageno])
               /\ pagetable' = Entered(pagetable, global_pageno, Len(buffer))
<1>1. storage = "ok" /\ TakeTable /\ FileTable
  BY DEF CreateTable
<1>2. PICK r \in Results : r = Left2
  BY <1>1, TableLeft DEF SInv
<1>3. /\ stmt.kind = "CREATE" /\ r.stmt = stmt /\ done' = Append(done, r) /\ stmt' = stmt
      /\ heap[stack[1] - HeapBase].objname = stmt.name
  BY <1>1, <1>2, TableLeft DEF SInv
<1>4. PICK name : name = stmt.name
  OBVIOUS
<1>5. PICK page : page = [init_page(name) EXCEPT !.pageno = global_pageno]
  OBVIOUS
<1>6. page.objname = name /\ page.pageno = global_pageno
  BY <1>5 DEF init_page
<1>7. global_pageno \notin DOMAIN pagetable
  BY DEF SInv, PagesInv
<1>8. IF name \in DOMAIN pagedir
      THEN Ends("stray")
      ELSE /\ global_pageno' = global_pageno + 1
           /\ pagedir' = Entered(pagedir, name, global_pageno)
           /\ mem_append(page)
           /\ storage' = storage
  BY <1>1, <1>3, <1>4, <1>5, <1>6, <1>7 DEF FileTable
<1>9. Filed = done
  BY <1>1 DEF Filed
<1>10. CASE name \in DOMAIN pagedir
  <2>1. storage' = "stray" /\ UNCHANGED <<pagedir, pagetable, buffer, global_pageno>>
    BY <1>8, <1>10 DEF Ends
  <2>2. Filed' = Filed /\ Len(done') > 0
    BY <1>1, <1>3, <2>1, AstrayNotFiled
  <2>3. NoRowFiled
    BY <2>2 DEF NoRowFiled
  <2> QED BY <1>1, <1>3, <1>4, <1>9, <1>10, <2>1, <2>2, <2>3
<1>11. CASE name \notin DOMAIN pagedir
  <2>1. /\ global_pageno' = global_pageno + 1
        /\ pagedir' = Entered(pagedir, name, global_pageno)
        /\ buffer' = Append(buffer, page)
        /\ pagetable' = Entered(pagetable, global_pageno, Len(buffer))
        /\ storage' = "ok"
    BY <1>1, <1>6, <1>8, <1>11 DEF mem_append
  <2>2. Filed' = done'
    BY <2>1 DEF Filed
  <2>3. NoRowFiled
    BY <1>3, <1>9, <2>2 DEF NoRowFiled
  <2> QED BY <1>1, <1>3, <1>4, <1>5, <1>9, <1>11, <2>1, <2>2, <2>3
<1> QED BY <1>10, <1>11

\* A CREATE keeps the invariant.
LEMMA TableKeeps ==
  ASSUME SInv, CreateTable
  PROVE  SInv'
<1>1. TakeTable
  BY DEF CreateTable
<1>2. EInv' /\ BoundInv' /\ Grows
  BY <1>1, EngineStep, BoundKept DEF SInv, ENext, Run
<1>3. storage = "ok" /\ stmt.kind = "CREATE" /\ stmt' = stmt /\ NoRowFiled
  BY CreateDoes
<1>4. PICK name : name = stmt.name
  OBVIOUS
<1>5. CASE name \in DOMAIN pagedir
  <2>1. /\ storage' = "stray" /\ Len(done') > 0
        /\ UNCHANGED <<pagedir, pagetable, buffer, global_pageno>>
    BY <1>4, <1>5, CreateDoes
  <2>2. PagesInv'
    BY <1>2, <1>3, <2>1, PagesSame
  <2>3. ~NewName(stmt)'
    BY <1>3, <1>4, <1>5, <2>1 DEF NewName
  <2>4. StrayOnlyBeyondContract'
    BY <1>3, <2>3 DEF StrayOnlyBeyondContract
  <2> QED BY <1>2, <2>1, <2>2, <2>4 DEF SInv
<1>6. CASE name \notin DOMAIN pagedir
  <2>1. PICK page : page = [init_page(name) EXCEPT !.pageno = global_pageno]
    OBVIOUS
  <2>2. /\ global_pageno' = global_pageno + 1
        /\ pagedir' = Entered(pagedir, name, global_pageno)
        /\ buffer' = Append(buffer, page)
        /\ pagetable' = Entered(pagetable, global_pageno, Len(buffer))
        /\ storage' = "ok"
    BY <1>4, <1>6, <2>1, CreateDoes
  <2>3. PagesInv'
    BY <1>2, <1>3, <1>6, <2>1, <2>2, TableFiled
  <2>4. StrayOnlyBeyondContract'
    BY <2>2 DEF StrayOnlyBeyondContract
  <2> QED BY <1>2, <2>2, <2>3, <2>4 DEF SInv
<1> QED BY <1>5, <1>6

-----------------------------------------------------------------------------
(* Rows.                                                                   *)

\* What an INSERT leaves, value by value.
Vals(s) == [i \in 1 .. Len(s.items) |-> [datatype |-> s.items[i].type, val |-> s.items[i].val]]

\* A row that was accepted has as many values as there are columns, those of
\* the last CREATE, and will be laid out by them.
LEMMA RowLeft ==
  ASSUME EInv, TakeRow, phase' # "abort"
  PROVE  /\ stmt.kind = "INSERT" /\ stmt \in Statements
         /\ Left2 \in Results /\ Left2.stmt = stmt
         /\ done' = Append(done, Left2)
         /\ UNCHANGED <<stmt, heap, col_def_arr>>
         /\ stack[1] = stmt.name /\ Columns(stack[2]) = Vals(stmt)
         /\ \E m \in 1 .. Len(done) :
              /\ IsLastCreate(m, Len(done)) /\ done[m].stmt \in Statements
              /\ Columns(col_def_arr) = Means(done[m].stmt)
              /\ RowFits(done[m].stmt, stmt)
         /\ \A n \in Nat : n = Len(done) + 1 => Layout(n)' = Columns(col_def_arr)
<1>1. /\ phase = "exec" /\ halt /\ stmt.kind = "INSERT"
      /\ Fits(Columns(col_def_arr), Columns(stack[2]))
      /\ done' = Append(done, Left2)
      /\ UNCHANGED <<stmt, heap, col_def_arr>>
  BY DEF TakeRow, vmvars
<1>2. /\ Left2 \in Results /\ Left2.stmt = stmt /\ LeftAsWritten(Left2)
      /\ Left2.first = stack[1] /\ Left2.second = stack[2]
  BY <1>1, Left2Written
<1>3. stmt \in Statements
  BY <1>1 DEF EInv, EngineTypes
<1>4. stack[1] = stmt.name /\ Columns(stack[2]) = Vals(stmt)
  BY <1>1, <1>2 DEF LeftAsWritten, Vals
<1>5. PICK m \in 1 .. Len(done) : IsLastCreate(m, Len(done)) /\ done[m].second = col_def_arr
  BY <1>1 DEF EInv, PointerInv
<1>6. done[m].stmt.kind = "CREATE" /\ Columns(col_def_arr) = Means(done[m].stmt)
  BY <1>5 DEF EInv, ResultsStand, LeftAsWritten, IsLastCreate, Means
<1>7. PICK c \in Statements : c = done[m].stmt
  <2>1. done \in Seq(Results)
    BY DEF EInv, EngineTypes
  <2>2. done[m] \in Results
    BY <2>1
  <2> QED BY <2>2 DEF Results
<1>8. RowFits(c, stmt)
  <2>1. PICK n \in Nat : n = Len(stmt.items)
    BY <1>3, StatementFacts
  <2>2. /\ Len(Vals(stmt)) = n
        /\ \A i \in 1 .. n : Vals(stmt)[i].datatype = stmt.items[i].type
    BY <2>1 DEF Vals
  <2>3. /\ Len(Means(c)) = Len(Vals(stmt))
        /\ \A i \in 1 .. Len(Vals(stmt)) : Means(c)[i].type = Vals(stmt)[i].datatype
    BY <1>1, <1>4, <1>6, <1>7 DEF Fits
  <2>4. Len(Means(c)) = Len(c.items)
    BY <1>6, <1>7, MeansFacts
  <2>5. ASSUME NEW i \in 1 .. n PROVE stmt.items[i].type = TypeCode[c.items[i].dtype]
    <3>1. i \in 1 .. Len(c.items)
      BY <2>2, <2>3, <2>4
    <3>2. Means(c)[i] = Meant(c.items[i])
      BY <3>1 DEF Means
    <3>3. Meant(c.items[i]).type = TypeCode[c.items[i].dtype]
      BY DEF Meant
    <3> QED BY <2>2, <2>3, <3>2, <3>3
  <2> QED BY <2>1, <2>2, <2>3, <2>4, <2>5 DEF RowFits
<1>9. ASSUME NEW n \in Nat, n = Len(done) + 1 PROVE Layout(n)' = Columns(col_def_arr)
  <2>1. PICK r \in Results : r = Left2
    BY <1>2
  <2>2. /\ Len(done) \in Nat /\ done'[Len(done) + 1] = r
        /\ \A i \in 1 .. Len(done) : done'[i] = done[i]
    BY <1>1, <2>1, OneMoreDone DEF EInv
  <2>3. n = Len(done) + 1
    BY <1>9
  <2>4. m \in 1 .. n /\ done'[m] = done[m]
    BY <2>2, <2>3
  <2>5. ASSUME NEW o \in m + 1 .. n PROVE done'[o].stmt.kind # "CREATE"
    <3>1. CASE o = n
      BY <1>1, <1>2, <2>1, <2>2, <2>3, <3>1
    <3>2. CASE o # n
      <4>1. o \in m + 1 .. Len(done) /\ o \in 1 .. Len(done)
        BY <2>2, <2>3, <3>2
      <4> QED BY <1>5, <2>2, <4>1 DEF IsLastCreate
    <3> QED BY <3>1, <3>2
  <2>6. LastIn(done', n) = m
    BY <1>6, <2>4, <2>5, LastIs
  <2>7. LastCreate(n)' = m
    BY <2>6 DEF LastCreate, LastIn
  <2> QED BY <1>1, <1>5, <2>4, <2>7 DEF Layout, Columns
<1> QED BY <1>1, <1>2, <1>3, <1>4, <1>5, <1>6, <1>7, <1>8, <1>9

\* A row has the size of its columns.
LEMMA TupleLen ==
  ASSUME NEW cols, NEW vals, TupleSize(cols) \in Nat
  PROVE  Len(Tuple(cols, vals)) = TupleSize(cols)
<1> DEFINE src(i) == Copied(vals[i].datatype, vals[i].val, cols[i].len)
           over(p) == {i \in DOMAIN vals : p - Offset(cols, i) \in DOMAIN src(i)}
           last(p) == CHOOSE i \in over(p) : \A j \in over(p) : j <= i
           byte(p) == IF over(p) = {} THEN Zero ELSE src(last(p))[p - Offset(cols, last(p))]
<1>1. Tuple(cols, vals) = [p \in 1 .. TupleSize(cols) |-> byte(p)]
  BY DEF Tuple
<1>2. PICK n \in Nat : n = TupleSize(cols)
  OBVIOUS
<1> HIDE DEF byte
<1> QED BY <1>1, <1>2

\* Strings that fit their columns do not run past the row.
LEMMA NoOverrun ==
  ASSUME NEW c \in Statements, c.kind = "CREATE",
         NEW s \in Statements, s.kind = "INSERT", Len(c.items) = Len(s.items),
         \A i \in 1 .. Len(s.items) :
           s.items[i].type = T_STRING => StrLen[s.items[i].val] <= Means(c)[i].len
  PROVE  ~Overruns(Means(c), Vals(s))
<1>1. PICK n \in Nat : n = Len(s.items)
  BY StatementFacts
<1>2. PICK vals : vals = Vals(s)
  OBVIOUS
<1>3. /\ DOMAIN vals = 1 .. n
      /\ \A i \in 1 .. n :
           vals[i].datatype = s.items[i].type /\ vals[i].val = s.items[i].val
  BY <1>1, <1>2 DEF Vals
<1>4. PICK cols : cols = Means(c)
  OBVIOUS
<1>5. \A i \in 1 .. n :
        Offset(cols, i) \in Nat /\ cols[i].len \in Nat
          /\ Offset(cols, i) + cols[i].len <= TupleSize(cols)
  BY <1>1, <1>4, SizeFacts
<1>6. TupleSize(cols) \in Nat
  BY <1>4, SizeFacts
<1>7. ASSUME NEW i \in 1 .. n
      PROVE  ~(Offset(cols, i) + Len(Copied(vals[i].datatype, vals[i].val, cols[i].len))
                 > TupleSize(cols))
  <2> DEFINE type == vals[i].datatype
             val == vals[i].val
             len == IF type = T_STRING THEN StrLen[val] ELSE cols[i].len
  <2>1. type = T_STRING => StrLen[val] \in Nat /\ StrLen[val] <= cols[i].len
    <3>1. s.items[i] \in InsertItems
      <4>1. s.items \in Seq(InsertItems)
        BY StatementFacts DEF Inserting
      <4> QED BY <1>1, <4>1
    <3>2. type = T_STRING => val \in Strings
      BY <1>3, <3>1 DEF InsertItems
    <3> QED BY <1>1, <1>3, <1>4, <3>2, StrLenAssumption
  <2>2. len \in Nat /\ len <= cols[i].len
    BY <1>5, <2>1
  <2>3. Copied(type, val, cols[i].len) = [k \in 1 .. len |-> <<val, k>>]
    BY DEF Copied
  <2> HIDE DEF type, val, len
  <2>4. Len(Copied(type, val, cols[i].len)) = len
    <3>1. PICK l \in Nat : l = len
      BY <2>2
    <3> QED BY <2>3, <3>1
  <2>5. ~(Offset(cols, i) + len > TupleSize(cols))
    BY <1>5, <1>6, <2>2
  <2> QED BY <2>4, <2>5 DEF type, val
<1> QED BY <1>2, <1>3, <1>4, <1>7 DEF Overruns

\* One more row: its size behind the others.
LEMMA OneMoreSize ==
  ASSUME EInv, EInv', Grows, NEW rows \in Seq(InsertsDone), NEW n, NEW size \in Nat,
         TupleSize(Layout(n))' = size
  PROVE  Sizes(Append(rows, n))' = Append(Sizes(rows), size)
<1> DEFINE len == Len(rows)
           q == Sizes(rows)
           r == Append(q, size)
<1>1. PICK more : more = Append(rows, n)
  OBVIOUS
<1>2. /\ len \in Nat /\ DOMAIN rows = 1 .. len /\ Len(more) = len + 1
      /\ DOMAIN more = 1 .. len + 1 /\ more[len + 1] = n
      /\ \A j \in 1 .. len : more[j] = rows[j]
  BY <1>1
<1>3. q \in Seq(Nat) /\ Len(q) = len
  BY SizesFacts
<1>4. q = [j \in 1 .. len |-> TupleSize(Layout(rows[j]))']
  <2>1. q = Sizes(rows)'
    BY UsedKept
  <2> QED BY <1>2, <2>1 DEF Sizes
<1>5. Sizes(more)' = [j \in 1 .. len + 1 |-> TupleSize(Layout(more[j]))']
  BY <1>2 DEF Sizes
<1>6. \A j \in 1 .. len : TupleSize(Layout(rows[j]))' = q[j]
  BY <1>4
<1> HIDE DEF len, q
<1>7. /\ r \in Seq(Nat) /\ Len(r) = len + 1 /\ r[len + 1] = size
      /\ \A j \in 1 .. len : r[j] = q[j]
  BY <1>2, <1>3, AppendKeeps
<1> HIDE DEF r
<1>8. ASSUME NEW j \in 1 .. len + 1 PROVE TupleSize(Layout(more[j]))' = r[j]
  <2>1. CASE j = len + 1
    <3>1. more[j] = n
      BY <1>2, <2>1
    <3> QED BY <1>7, <2>1, <3>1
  <2>2. CASE j # len + 1
    <3>1. j \in 1 .. len
      BY <1>2, <2>2
    <3>2. more[j] = rows[j]
      BY <1>2, <3>1
    <3>3. TupleSize(Layout(rows[j]))' = q[j] /\ r[j] = q[j]
      BY <1>6, <1>7, <3>1
    <3> QED BY <3>2, <3>3
  <2> QED BY <2>1, <2>2
<1>9. Sizes(more)' = r
  <2>1. r = [j \in 1 .. len + 1 |-> r[j]]
    BY <1>7
  <2> QED BY <1>5, <1>8, <2>1
<1>10. Sizes(Append(rows, n))' = Sizes(more)'
  BY <1>1 DEF Sizes
<1> QED BY <1>9, <1>10 DEF r, q

\* One more row takes the room of its columns.
LEMMA OneMoreUsed ==
  ASSUME EInv, EInv', Grows, NEW rows \in Seq(InsertsDone), NEW n, NEW size \in Nat,
         TupleSize(Layout(n))' = size
  PROVE  Used(Append(rows, n))' = Used(rows) + size /\ Used(rows) \in Nat
<1> DEFINE len == Len(rows)
           q == Sizes(rows)
           r == Append(q, size)
<1>1. len \in Nat /\ Len(Append(rows, n)) = len + 1
  OBVIOUS
<1>2. q \in Seq(Nat) /\ Len(q) = len
  BY SizesFacts
<1>3. Sizes(Append(rows, n))' = r
  BY OneMoreSize
<1>4. Used(rows) = Sums(q)[len]
  BY DEF Used
<1> HIDE DEF len, q
<1>5. /\ r \in Seq(Nat) /\ Len(r) = len + 1 /\ r[len + 1] = size
      /\ \A j \in 1 .. len : r[j] = q[j]
  BY <1>1, <1>2, AppendKeeps
<1> HIDE DEF r
<1>6. Used(Append(rows, n))' = Sums(r)[len + 1]
  BY <1>1, <1>3 DEF Used
<1>7. Sums(r)[len + 1] = Sums(r)[(len + 1) - 1] + r[len + 1] /\ (len + 1) - 1 = len
  <2>1. len + 1 \in 1 .. Len(r)
    BY <1>1, <1>5
  <2> QED BY <1>1, <1>5, <2>1, SumsFacts
<1>8. Sums(r)[len] = Sums(q)[len]
  <2>1. len \in 0 .. Len(q) /\ Len(q) <= Len(r) /\ \A j \in 1 .. Len(q) : r[j] = q[j]
    BY <1>1, <1>2, <1>5
  <2> QED BY <1>2, <1>5, <2>1, SumsBefore
<1>9. Sums(q)[len] \in Nat
  <2>1. Sums(q) \in [0 .. Len(q) -> Nat]
    BY <1>2, SumsFacts
  <2>2. len \in 0 .. Len(q)
    BY <1>1, <1>2
  <2> QED BY <2>1, <2>2
<1> QED BY <1>4, <1>5, <1>6, <1>7, <1>8, <1>9

\* The row on the table's page, and the other pages as they were.
LEMMA RowFiled ==
  ASSUME SInv, EInv', Grows, storage = "ok", storage' = "ok",
         NEW r \in Results, r.stmt.kind = "INSERT", done' = Append(done, r),
         NEW name, name = r.stmt.name, name \in DOMAIN pagedir,
         NEW size \in Nat, \A n \in Nat : n = Len(done) + 1 => TupleSize(Layout(n))' = size,
         NEW k \in 0 .. global_pageno - 1, pagedir[name] = <<k>>,
         NEW page, buffer' = [buffer EXCEPT ![k + 1] = page],
         PageIs(page, name, k, Len(Rows(name)) + 1, Used(Rows(name)) + size),
         UNCHANGED <<pagedir, pagetable, global_pageno>>
  PROVE  PagesInv'
<1>1. /\ global_pageno \in Nat /\ buffer \in Seq(Range(buffer)) /\ Len(buffer) = global_pageno
      /\ pagetable = [j \in 0 .. global_pageno - 1 |-> <<j>>]
  BY DEF SInv, PagesInv
<1>2. PICK g \in Nat : g = global_pageno
  BY <1>1
<1>3. PICK pages : pages = buffer
  OBVIOUS
<1>4. /\ buffer' \in Seq(Range(buffer')) /\ Len(buffer') = g /\ buffer'[k + 1] = page
      /\ \A i \in 1 .. g : i # k + 1 => buffer'[i] = buffer[i]
  <2>1. pages \in Seq(Range(pages)) /\ Len(pages) = g /\ buffer' = [pages EXCEPT ![k + 1] = page]
    BY <1>1, <1>2, <1>3
  <2>2. k + 1 \in 1 .. Len(pages)
    BY <1>2, <2>1
  <2>3. buffer' = Changed(pages, k + 1, page)
    BY <2>1 DEF Changed
  <2>4. PICK n \in 1 .. Len(pages) : n = k + 1
    BY <2>2
  <2>5. PICK new : new = Changed(pages, n, page)
    OBVIOUS
  <2>6. /\ new \in Seq(Range(new)) /\ Len(new) = Len(pages) /\ new[n] = page
        /\ \A i \in 1 .. Len(pages) : i # n => new[i] = pages[i]
    <3>1. pages \in Seq(Range(pages)) /\ n \in 1 .. Len(pages)
      BY <2>1, <2>4
    <3> QED BY ONLY <2>5, <3>1, PageChanged
  <2>7. buffer' = new
    BY <2>3, <2>4, <2>5
  <2> QED BY <1>3, <2>1, <2>4, <2>6, <2>7
<1>5. PICK log \in Seq(Results) : log = done
  BY DEF SInv, EInv, EngineTypes
<1>6. Filed = log /\ Filed' = Append(log, r)
  BY <1>5 DEF Filed
<1>7. ASSUME NEW n
      PROVE  Rows(n)' = IF n = name THEN Append(Rows(n), Len(log) + 1) ELSE Rows(n)
  <2>1. Rows(n)' = RowsIn(Append(log, r), n) /\ Rows(n) = RowsIn(log, n)
    BY <1>6 DEF Rows, RowsIn
  <2>2. RowOf(r, n) <=> n = name
    BY DEF RowOf
  <2> QED BY <2>1, <2>2, OneMoreRowIn
<1>8. Len(Rows(name))' = Len(Rows(name)) + 1 /\ Used(Rows(name))' = Used(Rows(name)) + size
  <2>1. PICK rows \in Seq(InsertsDone) : rows = Rows(name)
    BY RowsAreDone DEF SInv
  <2>2. PICK n \in Nat : n = Len(log) + 1
    OBVIOUS
  <2>3. PICK more : more = Append(rows, n)
    OBVIOUS
  <2>4. Rows(name)' = more
    BY <1>7, <2>1, <2>2, <2>3
  <2>5. TupleSize(Layout(n))' = size
    BY <1>5, <2>2
  <2>6. Used(Append(rows, n))' = Used(rows) + size
    BY <2>5, OneMoreUsed DEF SInv
  <2>7. Used(more)' = Used(Append(rows, n))'
    BY <2>3 DEF Used, Sizes
  <2>8. Used(Rows(name))' = Used(more)'
    BY <2>4 DEF Used, Sizes
  <2>9. Len(more) = Len(rows) + 1
    BY <2>3
  <2> QED BY <2>1, <2>4, <2>6, <2>7, <2>8, <2>9
<1>9. ASSUME NEW n \in DOMAIN pagedir'
      PROVE  \E j \in 0 .. global_pageno' - 1 :
               /\ pagedir'[n] = <<j>>
               /\ PageIs(buffer'[j + 1], n, j, Len(Rows(n))', Used(Rows(n))')
  <2>1. CASE n = name
    <3>1. PageIs(buffer'[k + 1], n, k, Len(Rows(n))', Used(Rows(n))')
      BY <1>4, <1>8, <2>1
    <3> QED BY <2>1, <3>1
  <2>2. CASE n # name
    <3>1. PICK j \in 0 .. g - 1 :
            /\ pagedir[n] = <<j>>
            /\ PageIs(buffer[j + 1], n, j, Len(Rows(n)), Used(Rows(n)))
      BY <1>2 DEF SInv, PagesInv
    <3>2. j # k
      <4>1. PICK i \in 0 .. g - 1 :
              /\ pagedir[name] = <<i>>
              /\ PageIs(buffer[i + 1], name, i, Len(Rows(name)), Used(Rows(name)))
        BY <1>2 DEF SInv, PagesInv
      <4>2. i = k
        BY <4>1
      <4>3. buffer[k + 1].objname = name /\ buffer[j + 1].objname = n
        BY <3>1, <4>1, <4>2, PageHas
      <4> QED BY <2>2, <4>3
    <3>3. buffer'[j + 1] = buffer[j + 1]
      <4>1. j + 1 \in 1 .. g /\ j + 1 # k + 1
        BY <1>2, <3>2
      <4> QED BY <1>4, <4>1
    <3>4. Rows(n)' = Rows(n)
      BY <1>7, <2>2
    <3>5. Len(Rows(n))' = Len(Rows(n)) /\ Used(Rows(n))' = Used(Rows(n))
      BY <3>4, SameRows
    <3> QED BY <1>2, <3>1, <3>3, <3>5
  <2> QED BY <2>1, <2>2
<1>10. ASSUME NEW m \in 1 .. Len(Filed'), Filed'[m].stmt.kind = "INSERT"
       PROVE  Filed'[m].stmt.name \in DOMAIN pagedir'
  <2>1. /\ Len(Filed') = Len(log) + 1 /\ Filed'[Len(log) + 1] = r /\ Len(log) \in Nat
        /\ \A i \in 1 .. Len(log) : Filed'[i] = log[i]
    BY <1>6, AppendKeeps
  <2>2. CASE m = Len(log) + 1
    BY <2>1, <2>2
  <2>3. CASE m # Len(log) + 1
    <3>1. m \in 1 .. Len(log)
      BY <2>1, <2>3
    <3>2. \A i \in 1 .. Len(log) :
            log[i].stmt.kind = "INSERT" => log[i].stmt.name \in DOMAIN pagedir
      BY <1>6 DEF SInv, PagesInv
    <3> QED BY <1>10, <2>1, <3>1, <3>2
  <2> QED BY <2>2, <2>3
<1>11. /\ global_pageno' \in Nat /\ Len(buffer') = global_pageno'
       /\ pagetable' = [j \in 0 .. global_pageno' - 1 |-> <<j>>]
  BY <1>1, <1>2, <1>4
<1> QED BY <1>4, <1>9, <1>10, <1>11 DEF PagesInv

\* A row that leads astray: its table is missing, a string is too long, or
\* there is no room.
LEMMA RowAstray ==
  ASSUME SInv, storage = "ok", NEW s \in Statements, s.kind = "INSERT", s = stmt,
         NEW c \in Statements, c.kind = "CREATE", Len(c.items) = Len(s.items),
         Columns(col_def_arr) = Means(c),
         \/ s.name \notin DOMAIN pagedir
         \/ Overruns(Means(c), Vals(s))
         \/ ~InData(PageOf(s.name), TupleSize(Means(c)))
  PROVE  NewName(s) \/ ~StringsFit(s) \/ ~RoomLeft(s)
<1>1. SUFFICES ASSUME s.name \in DOMAIN pagedir, StringsFit(s), RoomLeft(s)
               PROVE  FALSE
  BY DEF NewName
<1>2. ~Overruns(Means(c), Vals(s))
  <2>1. DOMAIN s.items = 1 .. Len(s.items)
    BY StatementFacts DEF Inserting
  <2>2. \A i \in 1 .. Len(s.items) :
          s.items[i].type = T_STRING => StrLen[s.items[i].val] <= Means(c)[i].len
    BY <1>1, <2>1 DEF StringsFit
  <2> QED BY <2>2, NoOverrun
<1>3. PICK k \in 0 .. global_pageno - 1 :
        /\ pagedir[s.name] = <<k>>
        /\ PageIs(buffer[k + 1], s.name, k, Len(Rows(s.name)), Used(Rows(s.name)))
  BY <1>1 DEF SInv, PagesInv
<1>4. PageOf(s.name) = buffer[k + 1]
  <2>1. pagetable[k] = <<k>>
    BY DEF SInv, PagesInv
  <2> QED BY <1>3, <2>1 DEF PageOf
<1>5. TupleSize(Means(c)) \in Nat
  BY SizeFacts
<1>6. Used(Rows(s.name)) + TupleSize(Means(c)) <= DataSize
  BY <1>1 DEF RoomLeft, Taken, Used, Sizes
<1>7. InData(PageOf(s.name), TupleSize(Means(c)))
  BY <1>3, <1>4, <1>5, <1>6, NoRoom
<1> QED BY <1>1, <1>2, <1>7

\* The row of s is laid out by the columns of c, the last CREATE.
RowBy(c, s) ==
  /\ s \in Statements /\ s.kind = "INSERT" /\ s = stmt /\ stmt' = s
  /\ c \in Statements /\ c.kind = "CREATE" /\ Columns(col_def_arr) = Means(c)
  /\ \E m \in 1 .. Len(done) : IsLastCreate(m, Len(done)) /\ done[m].stmt = c
  /\ RowFits(c, s)
  /\ \A n \in Nat : n = Len(done) + 1 => Layout(n)' = Means(c)
  /\ \E r \in Results : r.stmt = s /\ done' = Append(done, r)
  /\ Columns(col_def_arr)' = Columns(col_def_arr)

\* The row cannot be stored where it belongs.
NoWay(c, s) ==
  \/ s.name \notin DOMAIN pagedir
  \/ Overruns(Means(c), Vals(s))
  \/ ~InData(PageOf(s.name), TupleSize(Means(c)))

\* What an INSERT does: it fails the asserts, goes astray or puts the row on
\* its table's page, the k-th.
LEMMA InsertDoes ==
  ASSUME SInv, InsertRow
  PROVE  /\ storage = "ok" /\ Filed = done
         /\ UNCHANGED <<pagedir, pagetable, global_pageno>>
         /\ \/ /\ phase' = "abort" /\ UNCHANGED <<buffer, storage, done>>
            \/ \E c, s \in Statements :
                 /\ RowBy(c, s)
                 /\ \/ /\ NoWay(c, s)
                       /\ storage' = "stray" /\ UNCHANGED buffer
                       /\ Filed' = Filed /\ Len(done') > 0
                    \/ /\ ~NoWay(c, s) /\ storage' = "ok" /\ Filed' = done'
                       /\ \E k \in 0 .. global_pageno - 1 :
                            /\ pagedir[s.name] = <<k>>
                            /\ PageOf(s.name) = buffer[k + 1]
                            /\ PageIs(buffer[k + 1], s.name, k, Len(Rows(s.name)),
                                      Used(Rows(s.name)))
                            /\ buffer' = [buffer EXCEPT ![k + 1] =
                                 sql_ins_buf_to_page(buffer[k + 1], Tuple(Means(c), Vals(s)))]
<1>1. storage = "ok" /\ TakeRow
  BY DEF InsertRow
<1>2. Filed = done
  BY <1>1 DEF Filed
<1>3. CASE phase' = "abort"
  <2>1. UNCHANGED <<pagedir, pagetable, buffer, global_pageno, storage>> /\ done' = done
    BY <1>3 DEF InsertRow, TakeRow, store
  <2> QED BY <1>1, <1>2, <1>3, <2>1
<1>4. CASE phase' # "abort"
  <2>1. StoreRow
    BY <1>4 DEF InsertRow
  <2>2. /\ stmt.kind = "INSERT" /\ stmt \in Statements
        /\ Left2 \in Results /\ Left2.stmt = stmt /\ done' = Append(done, Left2)
        /\ UNCHANGED <<stmt, heap, col_def_arr>>
        /\ stack[1] = stmt.name /\ Columns(stack[2]) = Vals(stmt)
        /\ \A n \in Nat : n = Len(done) + 1 => Layout(n)' = Columns(col_def_arr)
    BY <1>1, <1>4, RowLeft DEF SInv
  <2>3. PICK m \in 1 .. Len(done) :
          /\ IsLastCreate(m, Len(done)) /\ done[m].stmt \in Statements
          /\ Columns(col_def_arr) = Means(done[m].stmt)
          /\ RowFits(done[m].stmt, stmt)
    BY <1>1, <1>4, RowLeft DEF SInv
  <2>4. PICK r \in Results : r = Left2
    BY <2>2
  <2>5. PICK s \in Statements : s = stmt
    BY <2>2
  <2>6. PICK c \in Statements : c = done[m].stmt
    BY <2>3
  <2>7. RowBy(c, s)
    <3>1. c.kind = "CREATE" /\ Columns(col_def_arr) = Means(c) /\ RowFits(c, s)
      BY <2>3, <2>5, <2>6 DEF IsLastCreate
    <3>2. stmt' = s /\ s.kind = "INSERT" /\ r.stmt = s /\ done' = Append(done, r)
      BY <2>2, <2>4, <2>5
    <3>3. Columns(col_def_arr)' = Columns(col_def_arr)
      BY <2>2 DEF Columns
    <3> QED BY <2>2, <2>3, <2>5, <2>6, <3>1, <3>2, <3>3 DEF RowBy
  <2>8. PICK name : name = s.name
    OBVIOUS
  <2>9. IF NoWay(c, s) THEN Ends("stray")
        ELSE /\ buffer' = [buffer EXCEPT ![pagetable[pagedir[name][1]][1] + 1] =
                              sql_ins_buf_to_page(@, Tuple(Means(c), Vals(s)))]
             /\ UNCHANGED <<pagedir, pagetable, global_pageno, storage>>
    BY <2>1, <2>2, <2>3, <2>5, <2>6, <2>8 DEF StoreRow, NoWay
  <2>10. CASE NoWay(c, s)
    <3>1. storage' = "stray" /\ UNCHANGED <<pagedir, pagetable, buffer, global_pageno>>
      BY <2>9, <2>10 DEF Ends
    <3>2. Filed' = Filed /\ Len(done') > 0
      BY <1>1, <2>2, <2>4, <3>1, AstrayNotFiled
    <3> QED BY <1>1, <1>2, <2>7, <2>10, <3>1, <3>2
  <2>11. CASE ~NoWay(c, s)
    <3>1. PICK k \in 0 .. global_pageno - 1 :
            /\ pagedir[name] = <<k>>
            /\ PageIs(buffer[k + 1], name, k, Len(Rows(name)), Used(Rows(name)))
      BY <2>8, <2>11 DEF SInv, PagesInv, NoWay
    <3>2. pagetable[pagedir[name][1]][1] + 1 = k + 1
      <4>1. pagetable[k] = <<k>>
        BY DEF SInv, PagesInv
      <4> QED BY <3>1, <4>1
    <3>3. PageOf(name) = buffer[k + 1]
      BY <3>2 DEF PageOf
    <3>4. /\ buffer' = [buffer EXCEPT ![k + 1] =
                          sql_ins_buf_to_page(buffer[k + 1], Tuple(Means(c), Vals(s)))]
          /\ UNCHANGED <<pagedir, pagetable, global_pageno, storage>>
      BY <2>9, <2>11, <3>2
    <3>5. storage' = "ok" /\ Filed' = done'
      BY <1>1, <3>4 DEF Filed
    <3> QED BY <1>1, <1>2, <2>7, <2>8, <2>11, <3>1, <3>3, <3>4, <3>5
  <2> QED BY <2>10, <2>11
<1> QED BY <1>3, <1>4

\* The row on its page.
LEMMA RowGoesOn ==
  ASSUME MaxStmts < HeaderMod, SInv, BoundInv', storage = "ok",
         NEW c \in Statements, NEW s \in Statements, RowBy(c, s), ~NoWay(c, s),
         NEW k \in 0 .. global_pageno - 1, PageOf(s.name) = buffer[k + 1],
         PageIs(buffer[k + 1], s.name, k, Len(Rows(s.name)), Used(Rows(s.name))),
         NEW buf, buf = Tuple(Means(c), Vals(s))
  PROVE  /\ Len(buf) = TupleSize(Means(c)) /\ Len(buf) \in Nat
         /\ InData(buffer[k + 1], Len(buf))
         /\ PageIs(sql_ins_buf_to_page(buffer[k + 1], buf), s.name, k,
                   Len(Rows(s.name)) + 1, Used(Rows(s.name)) + Len(buf))
<1>1. PICK name : name = s.name
  OBVIOUS
<1>2. TupleSize(Means(c)) \in Nat
  BY SizeFacts DEF RowBy
<1>3. Len(buf) = TupleSize(Means(c))
  BY <1>2, TupleLen
<1>4. InData(buffer[k + 1], Len(buf))
  BY <1>3 DEF NoWay
<1>5. Len(Rows(name)) \in Nat /\ Len(Rows(name)) + 1 < HeaderMod
  <2>1. Len(Rows(name)) \in 0 .. Len(Filed) /\ Len(Filed) \in Nat /\ Filed = done
    BY RowsAreDone, FiledFacts DEF SInv, Filed
  <2>2. PICK r \in Results : done' = Append(done, r)
    BY DEF RowBy
  <2>3. Len(done') = Len(done) + 1 /\ Len(done') <= MaxStmts
    BY <2>2, OneMoreDone DEF SInv, EInv, BoundInv
  <2> QED BY <2>1, <2>3, Counters, StatementsAssumption
<1> QED BY <1>1, <1>2, <1>3, <1>4, <1>5, RowOnPage

\* An INSERT keeps the invariant.
LEMMA RowKeeps ==
  ASSUME MaxStmts < HeaderMod, SInv, InsertRow
  PROVE  SInv'
<1>1. /\ storage = "ok" /\ TakeRow /\ Filed = done
      /\ UNCHANGED <<pagedir, pagetable, global_pageno>>
  BY InsertDoes DEF InsertRow
<1>2. EInv' /\ BoundInv' /\ Grows
  BY <1>1, EngineStep, BoundKept DEF SInv, ENext, Run
<1>3. CASE UNCHANGED <<buffer, storage, done>>
  <2>1. NoRowFiled
    BY <1>1, <1>3 DEF Filed, NoRowFiled
  <2>2. PagesInv'
    BY <1>1, <1>2, <1>3, <2>1, PagesSame
  <2>3. StrayOnlyBeyondContract'
    BY <1>1, <1>3 DEF StrayOnlyBeyondContract
  <2> QED BY <1>1, <1>2, <1>3, <2>2, <2>3 DEF SInv
<1>4. ASSUME NEW c \in Statements, NEW s \in Statements, RowBy(c, s), NoWay(c, s),
             storage' = "stray", UNCHANGED buffer, Filed' = Filed, Len(done') > 0
      PROVE  SInv'
  <2>1. NoRowFiled
    BY <1>4 DEF NoRowFiled
  <2>2. PagesInv'
    BY <1>1, <1>2, <1>4, <2>1, PagesSame
  <2>3. NewName(s) \/ ~StringsFit(s) \/ ~RoomLeft(s)
    BY <1>1, <1>4, RowAstray DEF RowBy, RowFits, NoWay
  <2>4. NewName(stmt)' <=> NewName(s)
    BY <1>1, <1>4 DEF NewName, RowBy
  <2>5. StringsFit(stmt)' <=> StringsFit(s)
    BY <1>4 DEF StringsFit, RowBy
  <2>6. RoomLeft(stmt)' <=> RoomLeft(s)
    <3>1. PICK name : name = s.name
      OBVIOUS
    <3>2. Used(Rows(name))' = Used(Rows(name))
      BY <1>2, <2>1, RowsSame
    <3>3. RoomLeft(s) <=> Used(Rows(name)) + TupleSize(Columns(col_def_arr)) <= DataSize
      BY <3>1 DEF RoomLeft, Taken, Used, Sizes
    <3>4. RoomLeft(stmt)' <=>
            Used(Rows(name))' + TupleSize(Columns(col_def_arr))' <= DataSize
      BY <1>4, <3>1 DEF RoomLeft, Taken, Used, Sizes, RowBy
    <3>5. Columns(col_def_arr)' = Columns(col_def_arr)
      BY <1>4 DEF RowBy
    <3> QED BY <3>2, <3>3, <3>4, <3>5
  <2>7. StrayOnlyBeyondContract'
    BY <1>4, <2>3, <2>4, <2>5, <2>6 DEF StrayOnlyBeyondContract, RowBy
  <2> QED BY <1>2, <1>4, <2>2, <2>7 DEF SInv
<1>5. ASSUME NEW c \in Statements, NEW s \in Statements, RowBy(c, s), ~NoWay(c, s),
             storage' = "ok",
             NEW k \in 0 .. global_pageno - 1, pagedir[s.name] = <<k>>,
             PageOf(s.name) = buffer[k + 1],
             PageIs(buffer[k + 1], s.name, k, Len(Rows(s.name)), Used(Rows(s.name))),
             buffer' = [buffer EXCEPT ![k + 1] =
                          sql_ins_buf_to_page(buffer[k + 1], Tuple(Means(c), Vals(s)))]
      PROVE  SInv'
  <2>1. PICK buf : buf = Tuple(Means(c), Vals(s))
    OBVIOUS
  <2>2. PICK page : page = sql_ins_buf_to_page(buffer[k + 1], buf)
    OBVIOUS
  <2>3. PICK name : name = s.name
    OBVIOUS
  <2>4. PICK size : size = Len(buf)
    OBVIOUS
  <2>5. /\ size = TupleSize(Means(c)) /\ size \in Nat
        /\ PageIs(page, name, k, Len(Rows(name)) + 1, Used(Rows(name)) + size)
    BY <1>1, <1>2, <1>5, <2>1, <2>2, <2>3, <2>4, RowGoesOn
  <2>6. PICK r \in Results : r.stmt = s /\ done' = Append(done, r)
    BY <1>5 DEF RowBy
  <2>7. r.stmt.kind = "INSERT" /\ name = r.stmt.name /\ name \in DOMAIN pagedir
    BY <1>5, <2>3, <2>6 DEF RowBy, NoWay
  <2>8. \A n \in Nat : n = Len(done) + 1 => TupleSize(Layout(n))' = size
    BY <1>5, <2>5 DEF RowBy
  <2>9. buffer' = [buffer EXCEPT ![k + 1] = page]
    BY <1>5, <2>1, <2>2
  <2>10. PagesInv'
    <3>1. UNCHANGED <<pagedir, pagetable, global_pageno>>
      BY <1>1
    <3>2. storage = "ok" /\ pagedir[name] = <<k>> /\ EInv' /\ Grows
      BY <1>1, <1>2, <1>5, <2>3
    <3>3. storage' = "ok" /\ k \in 0 .. global_pageno - 1
      BY <1>5
    <3> QED BY ONLY SInv, <3>1, <3>2, <3>3, <2>5, <2>6, <2>7, <2>8, <2>9, RowFiled
  <2>11. StrayOnlyBeyondContract'
    BY <1>5 DEF StrayOnlyBeyondContract
  <2> QED BY <1>2, <1>5, <2>10, <2>11 DEF SInv
<1> QED BY <1>3, <1>4, <1>5, InsertDoes

-----------------------------------------------------------------------------
(* The theorems.                                                           *)

LEMMA SessionInit ==
  ASSUME SInit
  PROVE  SInv
<1>1. EInv
  BY EngineInit DEF SInit
<1>2. /\ done = << >> /\ phase = "ready" /\ storage = "ok" /\ global_pageno = 0
      /\ buffer = << >> /\ pagedir = << >> /\ pagetable = << >>
  BY DEF SInit, EInit
<1>3. Len(done) = 0 /\ Filed = << >> /\ Len(Filed) = 0
  BY <1>2 DEF Filed
<1>4. BoundInv
  BY <1>2, <1>3, StatementsAssumption DEF BoundInv
<1>5. PagesInv
  <2>1. buffer \in Seq(Range(buffer)) /\ Len(buffer) = global_pageno
    BY <1>2
  <2>2. pagetable = [k \in 0 .. global_pageno - 1 |-> <<k>>]
    <3>1. 0 .. global_pageno - 1 = {}
      BY <1>2
    <3> QED BY <1>2, <3>1
  <2>3. DOMAIN pagedir = {}
    BY <1>2
  <2>4. 1 .. Len(Filed) = {}
    BY <1>3
  <2> QED BY <1>2, <2>1, <2>2, <2>3, <2>4 DEF PagesInv
<1>6. StrayOnlyBeyondContract
  BY <1>2 DEF StrayOnlyBeyondContract
<1> QED BY <1>1, <1>2, <1>4, <1>5, <1>6 DEF SInv

\* The session's steps are the engine's, seen from the engine.
LEMMA StepsOfTheEngine ==
  ASSUME [SNext]_svars
  PROVE  [ENext]_evars
BY DEF SNext, svars, CreateTable, InsertRow, ENext, Run

LEMMA SessionStep ==
  ASSUME MaxStmts < HeaderMod, SInv, [SNext]_svars
  PROVE  SInv'
<1>1. CASE UNCHANGED svars
  <2>1. UNCHANGED evars /\ UNCHANGED store
    BY <1>1 DEF svars
  <2>2. UNCHANGED <<pagedir, pagetable, buffer, global_pageno, storage>>
        /\ done' = done /\ phase' = phase /\ stmt' = stmt /\ heap' = heap
        /\ col_def_arr' = col_def_arr
    BY <2>1 DEF evars, store, vmvars
  <2>3. EInv'
    BY <2>1, EngineStep DEF SInv
  <2>4. BoundInv' /\ Grows
    <3>1. Len(done) \in Nat
      BY DEF SInv, EInv, EngineTypes
    <3> QED BY <2>2, <3>1 DEF SInv, BoundInv, Grows
  <2>5. NoRowFiled
    BY <2>2 DEF NoRowFiled, Filed
  <2>6. PagesInv'
    BY <2>2, <2>3, <2>4, <2>5, PagesSame DEF SInv
  <2>7. StrayOnlyBeyondContract'
    <3>1. NewName(stmt)' <=> NewName(stmt)
      BY <2>2 DEF NewName
    <3>2. Columns(col_def_arr)' = Columns(col_def_arr)
      BY <2>2 DEF Columns
    <3>3. StringsFit(stmt)' <=> StringsFit(stmt)
      BY <2>2 DEF StringsFit, Columns
    <3>4. Used(Rows(stmt.name))' = Used(Rows(stmt.name))
      <4>1. PICK name : name = stmt.name
        OBVIOUS
      <4>2. Used(Rows(name))' = Used(Rows(name))
        BY <2>3, <2>4, <2>5, RowsSame DEF SInv
      <4>3. stmt.name' = name
        BY <2>2, <4>1
      <4> QED BY <4>1, <4>2, <4>3
    <3>5. RoomLeft(stmt) <=>
            Used(Rows(stmt.name)) + TupleSize(Columns(col_def_arr)) <= DataSize
      BY DEF RoomLeft, Taken, Used, Sizes
    <3>6. RoomLeft(stmt)' <=>
            Used(Rows(stmt.name))' + TupleSize(Columns(col_def_arr))' <= DataSize
      BY DEF RoomLeft, Taken, Used, Sizes
    <3>7. RoomLeft(stmt)' <=> RoomLeft(stmt)
      BY <3>2, <3>4, <3>5, <3>6
    <3> QED BY <2>2, <3>1, <3>3, <3>7 DEF SInv, StrayOnlyBeyondContract
  <2> QED BY <2>2, <2>3, <2>4, <2>6, <2>7 DEF SInv
<1>2. CASE storage = "ok" /\ (Compile \/ GenItem \/ GenHalt \/ Exec \/ Exit) /\ UNCHANGED store
  BY <1>2, QuietKeeps
<1>3. CASE CreateTable
  BY <1>3, TableKeeps
<1>4. CASE InsertRow
  BY <1>4, RowKeeps
<1> QED BY <1>1, <1>2, <1>3, <1>4 DEF SNext

\* What the invariant says of the pages is what is promised of them.
LEMMA PagesAreRight ==
  ASSUME SInv
  PROVE  PagesAgree
<1>1. storage # "abort"
  BY DEF SInv
<1>2. ASSUME NEW name \in DOMAIN pagedir
      PROVE  \E k \in 0 .. global_pageno - 1 :
               /\ pagedir[name] = <<k>> /\ pagetable[pagedir[name][1]] = <<k>>
               /\ PageIs(PageOf(name), name, k, Len(Rows(name)), Used(Rows(name)))
  <2>1. PICK k \in 0 .. global_pageno - 1 :
          /\ pagedir[name] = <<k>>
          /\ PageIs(buffer[k + 1], name, k, Len(Rows(name)), Used(Rows(name)))
    BY DEF SInv, PagesInv
  <2>2. pagetable[k] = <<k>>
    BY DEF SInv, PagesInv
  <2>3. PageOf(name) = buffer[k + 1]
    BY <2>1, <2>2 DEF PageOf
  <2> QED BY <2>1, <2>2, <2>3
<1>3. ASSUME NEW name \in DOMAIN pagedir
      PROVE  /\ PageOf(name).objname = name /\ PageOf(name).pageno = pagedir[name][1]
             /\ PageOf(name).slotno = Len(Rows(name))
             /\ PageOf(name).freespace = DataSize - Taken(Rows(name), Len(Rows(name)))
             /\ HeaderAgrees(PageOf(name))
  <2>1. PICK k \in 0 .. global_pageno - 1 :
          /\ pagedir[name] = <<k>>
          /\ PageIs(PageOf(name), name, k, Len(Rows(name)), Used(Rows(name)))
    BY <1>2
  <2>2. Taken(Rows(name), Len(Rows(name))) = Used(Rows(name))
    BY DEF Taken, Used, Sizes
  <2>3. PICK page : page = PageOf(name)
    OBVIOUS
  <2>4. /\ page.objname = name /\ page.pageno = k /\ page.slotno = Len(Rows(name))
        /\ page.freespace = DataSize - Used(Rows(name)) /\ HeaderAgrees(page)
    BY <2>1, <2>3, PageHas
  <2> QED BY <2>1, <2>2, <2>3, <2>4
<1>4. ASSUME NEW a \in DOMAIN pagedir, NEW b \in DOMAIN pagedir,
             pagetable[pagedir[a][1]] = pagetable[pagedir[b][1]]
      PROVE  a = b
  <2>1. PICK k \in 0 .. global_pageno - 1 :
          pagedir[a] = <<k>> /\ pagetable[pagedir[a][1]] = <<k>>
    BY <1>2
  <2>2. PICK l \in 0 .. global_pageno - 1 :
          pagedir[b] = <<l>> /\ pagetable[pagedir[b][1]] = <<l>>
    BY <1>2
  <2>3. k = l
    BY <1>4, <2>1, <2>2
  <2>4. PageOf(a) = PageOf(b)
    BY <2>1, <2>2, <2>3 DEF PageOf
  <2> QED BY <1>3, <2>4
<1>5. IsInjective([n \in DOMAIN pagedir |-> pagetable[pagedir[n][1]]])
  BY <1>4 DEF IsInjective
<1> QED BY <1>1, <1>3, <1>5 DEF PagesAgree

\* Whatever is said of the engine alone holds in the session: main.c stops
\* the engine where storage goes astray and takes no other step in between.
THEOREM SessionIsEngine == SSpec => ESpec
<1>1. SInit => EInit
  BY DEF SInit
<1>2. [SNext]_svars => [ENext]_evars
  BY StepsOfTheEngine
<1> QED BY <1>1, <1>2, PTL DEF SSpec, ESpec

\* The invariant of the session, as long as a page's row counter does not
\* wrap around: it has 32 bits, and only rows of no bytes could get there.
THEOREM SessionInvariance ==
  ASSUME MaxStmts < HeaderMod
  PROVE  SSpec => []SInv
BY SessionInit, SessionStep, PTL DEF SSpec

\* The directory leads from each table to a page of its own, and its header
\* tells the rows and the room left, in any order of the statements.
THEOREM PagesStayApart ==
  ASSUME MaxStmts < HeaderMod
  PROVE  SSpec => []PagesAgree
<1>1. SInv => PagesAgree
  BY PagesAreRight
<1> QED BY <1>1, SessionInvariance, PTL

\* The lookups, the string copies and the pointer arithmetic of main.c stay
\* within their objects while the statements keep the contract, down to the
\* last byte of the page.
THEOREM ContractKeepsOnTrack ==
  ASSUME MaxStmts < HeaderMod
  PROVE  SSpec => []StrayOnlyBeyondContract
<1>1. SInv => StrayOnlyBeyondContract
  BY DEF SInv
<1> QED BY <1>1, SessionInvariance, PTL

-----------------------------------------------------------------------------
(* The bytes of a row.                                                     *)

\* The columns of a row lie one behind the other.
LEMMA ColumnsApart ==
  ASSUME NEW c \in Statements, c.kind = "CREATE",
         NEW j \in 1 .. Len(c.items), NEW i \in 1 .. j - 1
  PROVE  Offset(Means(c), i) + Means(c)[i].len <= Offset(Means(c), j)
<1> DEFINE n == Len(c.items)
           q == Lengths(Means(c))
           t == Sums(q)
<1>1. /\ n \in Nat /\ q \in Seq(Nat) /\ Len(q) = n /\ Len(Means(c)) = n
      /\ \A k \in 1 .. n : q[k] = Means(c)[k].len
  BY MeansFacts
<1>2. Offsets(Means(c)) = t
  BY DEF Offsets, Lengths
<1>3. j \in 1 .. n /\ i \in 1 .. j - 1
  OBVIOUS
<1> HIDE DEF n, q
<1>4. t \in [0 .. n -> Nat] /\ \A k \in 1 .. n : t[k] = t[k - 1] + q[k]
  BY <1>1, SumsFacts
<1>5. \A k \in 1 .. n : q[k] \in Nat
  BY <1>1
<1>6. \A k : Offset(Means(c), k) = t[k - 1]
  BY <1>1, <1>2 DEF Offset
<1> HIDE DEF t
<1>7. \A k \in 1 .. n : t[k - 1] <= t[k]
  <2>1. ASSUME NEW k \in 1 .. n PROVE t[k - 1] <= t[k]
    <3>1. k - 1 \in 0 .. n
      BY <1>1
    <3>2. t[k - 1] \in Nat /\ q[k] \in Nat /\ t[k] = t[k - 1] + q[k]
      BY <1>4, <1>5, <3>1
    <3> QED BY <3>2
  <2> QED BY <2>1
<1>8. j - 1 \in 0 .. n /\ i \in 0 .. j - 1 /\ i \in 1 .. n
  BY <1>1, <1>3
<1>9. t[i] <= t[j - 1]
  BY <1>1, <1>4, <1>7, <1>8, Climbs
<1>10. t[i] = t[i - 1] + q[i]
  BY <1>4, <1>8
<1> QED BY <1>1, <1>6, <1>8, <1>9, <1>10

\* How many bytes memcpy takes for value i, and whether they reach byte p of
\* the row.
CopyLen(cols, vals, i) ==
  IF vals[i].datatype = T_STRING THEN StrLen[vals[i].val] ELSE cols[i].len

Reaches(cols, vals, i, p) == p - Offset(cols, i) \in 1 .. CopyLen(cols, vals, i)

\* A byte of the row is that of the last copy that reaches it.
LEMMA ByteOfRow ==
  ASSUME NEW cols, NEW vals, NEW n \in Nat, DOMAIN vals = 1 .. n,
         NEW p \in 1 .. TupleSize(cols)
  PROVE  \/ /\ \A i \in 1 .. n : ~Reaches(cols, vals, i, p)
            /\ Tuple(cols, vals)[p] = Zero
         \/ \E i \in 1 .. n :
              /\ Reaches(cols, vals, i, p)
              /\ \A j \in 1 .. n : Reaches(cols, vals, j, p) => j <= i
              /\ Tuple(cols, vals)[p] = <<vals[i].val, p - Offset(cols, i)>>
<1> DEFINE src(i) == Copied(vals[i].datatype, vals[i].val, cols[i].len)
           over(q) == {i \in DOMAIN vals : q - Offset(cols, i) \in DOMAIN src(i)}
           last(q) == CHOOSE i \in over(q) : \A j \in over(q) : j <= i
           byte(q) == IF over(q) = {} THEN Zero ELSE src(last(q))[q - Offset(cols, last(q))]
<1>1. Tuple(cols, vals) = [q \in 1 .. TupleSize(cols) |-> byte(q)]
  BY DEF Tuple
<1>2. \A i : src(i) = [k \in 1 .. CopyLen(cols, vals, i) |-> <<vals[i].val, k>>]
  BY DEF Copied, CopyLen
<1>3. over(p) = {i \in 1 .. n : Reaches(cols, vals, i, p)}
  BY <1>2 DEF Reaches
<1>4. Tuple(cols, vals)[p] = byte(p)
  <2> HIDE DEF byte
  <2> QED BY <1>1
<1> HIDE DEF src
<1>5. CASE over(p) = {}
  BY <1>3, <1>4, <1>5
<1>6. CASE over(p) # {}
  <2>1. PICK T : T = over(p)
    OBVIOUS
  <2>2. T \in SUBSET (1 .. n) /\ T # {}
    BY <1>3, <1>6, <2>1
  <2>3. \E x \in T : \A y \in T : y <= x
    BY <2>2, Largest
  <2>4. PICK i : i = last(p)
    OBVIOUS
  <2>5. i \in T /\ \A y \in T : y <= i
    <3>1. i = CHOOSE x \in T : \A y \in T : y <= x
      BY <2>1, <2>4
    <3> QED BY <2>3, <3>1
  <2>6. byte(p) = src(i)[p - Offset(cols, i)]
    BY <1>6, <2>4
  <2> HIDE DEF over, last, byte
  <2>7. /\ i \in 1 .. n /\ Reaches(cols, vals, i, p)
        /\ \A j \in 1 .. n : Reaches(cols, vals, j, p) => j <= i
    BY <1>3, <2>1, <2>5
  <2>8. src(i)[p - Offset(cols, i)] = <<vals[i].val, p - Offset(cols, i)>>
    BY <1>2, <2>7 DEF Reaches
  <2> QED BY <1>4, <2>6, <2>7, <2>8
<1> QED BY <1>5, <1>6

-----------------------------------------------------------------------------
(* What is read back of a row.                                             *)

\* A row that fits its table, from the statements alone.
FitsTable(c, s) ==
  /\ c.kind = "CREATE" /\ s.kind = "INSERT" /\ Len(c.items) = Len(s.items)
  /\ \A i \in 1 .. Len(s.items) :
       /\ c.items[i].dtype \in DOMAIN TypeCode
       /\ s.items[i].type = TypeCode[c.items[i].dtype]

\* The string for column i is too long for it.
TooLong(c, s, i) ==
  c.items[i].dtype = "char" /\ StrLen[s.items[i].val] > c.items[i].size

\* A value is copied whole, and only a string can be longer than its column.
LEMMA CopyFits ==
  ASSUME NEW c \in Statements, NEW s \in Statements, FitsTable(c, s),
         NEW i \in 1 .. Len(s.items)
  PROVE  /\ i \in DOMAIN Vals(s) /\ Vals(s)[i].val = s.items[i].val
         /\ Vals(s)[i].datatype = Means(c)[i].type
         /\ CopyLen(Means(c), Vals(s), i) \in Nat /\ Means(c)[i].len \in Nat
         /\ Means(c)[i].type = T_STRING <=> c.items[i].dtype = "char"
         /\ Means(c)[i].type = T_STRING =>
              /\ s.items[i].val \in Strings
              /\ CopyLen(Means(c), Vals(s), i) = StrLen[s.items[i].val]
         /\ Means(c)[i].type # T_STRING =>
              CopyLen(Means(c), Vals(s), i) = Means(c)[i].len /\ Means(c)[i].len = 8
         /\ CopyLen(Means(c), Vals(s), i) > Means(c)[i].len <=> TooLong(c, s, i)
<1>1. PICK n \in Nat : n = Len(s.items) /\ n = Len(c.items)
  BY StatementFacts DEF FitsTable
<1>2. i \in 1 .. n
  BY <1>1
<1>3. PICK item \in CreateItems : item = c.items[i]
  <2>1. c.items \in Seq(CreateItems)
    BY StatementFacts DEF FitsTable, Inserting
  <2> QED BY <1>1, <1>2, <2>1
<1>4. PICK value \in InsertItems : value = s.items[i]
  <2>1. PICK values \in Seq(InsertItems) : values = s.items
    BY StatementFacts DEF FitsTable, Inserting
  <2>2. i \in 1 .. Len(values)
    BY <1>1, <1>2, <2>1
  <2>3. \A j \in 1 .. Len(values) : values[j] \in InsertItems
    BY ONLY values \in Seq(InsertItems)
  <2> QED BY <2>1, <2>2, <2>3
<1>5. Means(c)[i] = Meant(item)
  BY <1>1, <1>2, <1>3 DEF Means
<1>6. /\ Meant(item).type = TypeCode[item.dtype]
      /\ Meant(item).len = IF item.dtype = "char" THEN item.size ELSE 8
  BY DEF Meant
<1>7. i \in DOMAIN Vals(s) /\ Vals(s)[i].val = value.val /\ Vals(s)[i].datatype = value.type
  BY <1>1, <1>2, <1>4 DEF Vals
<1>8. item.dtype \in DOMAIN TypeCode /\ value.type = TypeCode[item.dtype]
  BY <1>1, <1>2, <1>3, <1>4 DEF FitsTable
<1>9. /\ item.dtype \in {"char", "integer", "float"}
      /\ TypeCode[item.dtype] = T_STRING <=> item.dtype = "char"
  BY <1>8 DEF TypeCode, T_STRING, T_INTEGER, T_FLOAT
<1>10. item.size \in Nat
  BY WordFacts DEF CreateItems, Words
<1>11. value.type = T_STRING => value.val \in Strings /\ StrLen[value.val] \in Nat
  BY StrLenAssumption DEF InsertItems
<1>12. CopyLen(Means(c), Vals(s), i) =
         IF value.type = T_STRING THEN StrLen[value.val] ELSE Meant(item).len
  BY <1>5, <1>7 DEF CopyLen
<1>13. Meant(item).len \in Nat /\ (item.dtype # "char" => Meant(item).len = 8)
  BY <1>6, <1>10
<1>14. CASE item.dtype = "char"
  BY <1>3, <1>4, <1>5, <1>6, <1>7, <1>8, <1>9, <1>11, <1>12, <1>13, <1>14 DEF TooLong
<1>15. CASE item.dtype # "char"
  BY <1>3, <1>4, <1>5, <1>6, <1>7, <1>8, <1>9, <1>12, <1>13, <1>15 DEF TooLong
<1> QED BY <1>14, <1>15

\* A byte of a column is of its own value, as far as that reaches; behind it
\* is a zero, or the tail of a string before it that was too long.
LEMMA ByteOfColumn ==
  ASSUME NEW c \in Statements, NEW s \in Statements, FitsTable(c, s),
         NEW i \in 1 .. Len(s.items), NEW k \in 1 .. Means(c)[i].len
  PROVE  LET byte == Tuple(Means(c), Vals(s))[Offset(Means(c), i) + k]
             size == CopyLen(Means(c), Vals(s), i)
         IN  /\ k <= size => byte = <<s.items[i].val, k>>
             /\ k > size => byte = Zero \/ \E j \in 1 .. i : TooLong(c, s, j)
<1>1. PICK n \in Nat : n = Len(s.items) /\ n = Len(c.items)
  BY StatementFacts DEF FitsTable
<1>2. PICK cols : cols = Means(c)
  OBVIOUS
<1>3. PICK vals : vals = Vals(s)
  OBVIOUS
<1>4. DOMAIN vals = 1 .. n
  BY <1>1, <1>3 DEF Vals
<1>5. ASSUME NEW j \in 1 .. n
      PROVE  /\ Offset(cols, j) \in Nat /\ cols[j].len \in Nat
             /\ Offset(cols, j) + cols[j].len <= TupleSize(cols)
             /\ CopyLen(cols, vals, j) \in Nat
             /\ CopyLen(cols, vals, j) > cols[j].len => TooLong(c, s, j)
             /\ vals[j].val = s.items[j].val
  <2>1. /\ Offset(cols, j) \in Nat /\ cols[j].len \in Nat
        /\ Offset(cols, j) + cols[j].len <= TupleSize(cols)
    BY <1>1, <1>2, SizeFacts DEF FitsTable
  <2>2. /\ CopyLen(cols, vals, j) \in Nat
        /\ CopyLen(cols, vals, j) > cols[j].len => TooLong(c, s, j)
        /\ vals[j].val = s.items[j].val
    <3>1. PICK size \in Nat : size = CopyLen(cols, vals, j)
      BY <1>1, <1>2, <1>3, CopyFits
    <3>2. size > cols[j].len <=> TooLong(c, s, j)
      BY <1>1, <1>2, <1>3, <3>1, CopyFits
    <3>3. Vals(s)[j].val = s.items[j].val
      <4>1. j \in 1 .. Len(s.items)
        BY <1>1
      <4> QED BY <4>1, CopyFits
    <3> QED BY <1>3, <3>1, <3>2, <3>3
  <2> QED BY <2>1, <2>2
<1>6. TupleSize(cols) \in Nat
  BY <1>2, SizeFacts DEF FitsTable
<1>7. PICK p \in 1 .. TupleSize(cols) : p = Offset(cols, i) + k
  BY <1>1, <1>2, <1>5, <1>6
<1>8. i \in 1 .. n /\ k \in 1 .. cols[i].len /\ p - Offset(cols, i) = k
  BY <1>1, <1>2, <1>5, <1>7
<1>9. Reaches(cols, vals, i, p) <=> k <= CopyLen(cols, vals, i)
  BY <1>5, <1>8 DEF Reaches
<1>10. ASSUME NEW j \in 1 .. n, j > i PROVE ~Reaches(cols, vals, j, p)
  <2>1. Offset(cols, i) + cols[i].len <= Offset(cols, j)
    <3>1. i \in 1 .. j - 1
      BY <1>8, <1>10
    <3> QED BY <1>1, <1>2, <3>1, ColumnsApart DEF FitsTable
  <2>2. PICK here \in Nat, there \in Nat, len \in Nat :
          here = Offset(cols, i) /\ there = Offset(cols, j) /\ len = cols[i].len
    BY <1>5, <1>8
  <2>3. here + len <= there /\ p = here + k /\ k <= len /\ k \in Nat
    <3>1. here + len <= there
      BY ONLY <2>1, <2>2
    <3>2. p = here + k
      BY ONLY <1>7, <2>2
    <3>3. k \in 1 .. len
      BY ONLY <1>8, <2>2
    <3> QED BY ONLY len \in Nat, <3>1, <3>2, <3>3
  <2>4. ~(p - there \in 1 .. CopyLen(cols, vals, j))
    BY ONLY here \in Nat, there \in Nat, len \in Nat, <2>3
  <2> QED BY <2>2, <2>4 DEF Reaches
<1>11. ASSUME NEW j \in 1 .. n, j < i, Reaches(cols, vals, j, p) PROVE TooLong(c, s, j)
  <2>1. Offset(cols, j) + cols[j].len <= Offset(cols, i)
    <3>1. j \in 1 .. i - 1
      BY <1>8, <1>11
    <3> QED BY <1>1, <1>2, <3>1, ColumnsApart DEF FitsTable
  <2>2. p - Offset(cols, j) <= CopyLen(cols, vals, j)
    BY <1>5, <1>11 DEF Reaches
  <2>3. CopyLen(cols, vals, j) > cols[j].len
    <3>1. PICK here \in Nat, there \in Nat, len \in Nat, size \in Nat :
            /\ here = Offset(cols, i) /\ there = Offset(cols, j)
            /\ len = cols[j].len /\ size = CopyLen(cols, vals, j)
      BY <1>5, <1>8
    <3>2. there + len <= here /\ here + k - there <= size /\ k \in Nat /\ k >= 1
      <4>1. there + len <= here
        BY ONLY <2>1, <3>1
      <4>2. p = here + k /\ p - there <= size
        BY ONLY <1>7, <2>2, <3>1
      <4>3. k \in Nat /\ k >= 1
        BY <1>5, <1>8
      <4> QED BY ONLY <4>1, <4>2, <4>3
    <3>3. size > len
      BY ONLY here \in Nat, there \in Nat, len \in Nat, size \in Nat, <3>2
    <3> QED BY <3>1, <3>3
  <2> QED BY <1>5, <2>3
<1>12. PICK byte : byte = Tuple(cols, vals)[p]
  OBVIOUS
<1>13. \/ (\A j \in 1 .. n : ~Reaches(cols, vals, j, p)) /\ byte = Zero
       \/ \E j \in 1 .. n :
            /\ Reaches(cols, vals, j, p)
            /\ \A l \in 1 .. n : Reaches(cols, vals, l, p) => l <= j
            /\ byte = <<vals[j].val, p - Offset(cols, j)>>
  BY <1>4, <1>12, ByteOfRow
<1>14. ASSUME k <= CopyLen(cols, vals, i) PROVE byte = <<s.items[i].val, k>>
  <2>1. Reaches(cols, vals, i, p)
    BY <1>9, <1>14
  <2>2. PICK j \in 1 .. n :
          /\ Reaches(cols, vals, j, p)
          /\ \A l \in 1 .. n : Reaches(cols, vals, l, p) => l <= j
          /\ byte = <<vals[j].val, p - Offset(cols, j)>>
    BY <1>8, <1>13, <2>1
  <2>3. j = i
    <3>1. i <= j
      BY <1>8, <2>1, <2>2
    <3>2. ~(j > i)
      BY <1>10, <2>2
    <3> QED BY <1>8, <3>1, <3>2
  <2> QED BY <1>5, <1>8, <2>2, <2>3
<1>15. ASSUME k > CopyLen(cols, vals, i)
       PROVE  byte = Zero \/ \E j \in 1 .. i : TooLong(c, s, j)
  <2>1. SUFFICES ASSUME NEW j \in 1 .. n, Reaches(cols, vals, j, p)
                 PROVE  \E l \in 1 .. i : TooLong(c, s, l)
    BY <1>13
  <2>2. j # i
    BY <1>5, <1>8, <1>9, <1>15, <2>1
  <2>3. j < i
    BY <1>8, <1>10, <2>1, <2>2
  <2>4. TooLong(c, s, j) /\ j \in 1 .. i
    BY <1>8, <1>11, <2>1, <2>3
  <2> QED BY <2>4
<1> QED BY <1>2, <1>3, <1>7, <1>12, <1>14, <1>15

\* The copy of a value of so many bytes, and zeros behind it.
Whole(q, start, len, size, val) ==
  /\ size <= len
  /\ \A k \in 1 .. len : q[start + k] = IF k <= size THEN <<val, k>> ELSE Zero

\* What is read shows: some value's copy and zeros behind it.
LEMMA ShowsFacts ==
  ASSUME NEW type, NEW len \in Nat, NEW q, NEW start \in Nat, NEW val, NEW size \in Nat,
         size = IF type = T_STRING THEN StrLen[val] ELSE len
  PROVE  Shows(type, len, SubSeq(q, start + 1, start + len), val) <=>
           Whole(q, start, len, size, val)
<1>1. SubSeq(q, start + 1, start + len) = [k \in 1 .. len |-> q[start + k]]
  <2>1. PICK n \in Nat : n = start + len
    OBVIOUS
  <2>2. SubSeq(q, start + 1, n) = [k \in 1 .. (1 + n) - (start + 1) |-> q[k + (start + 1) - 1]]
    BY <2>1
  <2>3. (1 + n) - (start + 1) = len /\ \A k \in 1 .. len : k + (start + 1) - 1 = start + k
    BY <2>1
  <2> QED BY <2>1, <2>2, <2>3
<1>2. PICK src : src = Copied(type, val, len)
  OBVIOUS
<1>3. src = [k \in 1 .. size |-> <<val, k>>]
  BY <1>2 DEF Copied
<1>4. Len(src) = size /\ DOMAIN src = 1 .. size /\ \A k \in 1 .. size : src[k] = <<val, k>>
  BY <1>3
<1>5. PICK bytes : bytes = [k \in 1 .. len |-> q[start + k]]
  OBVIOUS
<1>6. Shows(type, len, bytes, val) <=>
        /\ size <= len
        /\ bytes = [k \in 1 .. len |-> IF k \in DOMAIN src THEN src[k] ELSE Zero]
  BY <1>2, <1>4 DEF Shows
<1>7. \A k \in 1 .. len :
        (IF k \in DOMAIN src THEN src[k] ELSE Zero) = IF k <= size THEN <<val, k>> ELSE Zero
  BY <1>4
<1>8. bytes = [k \in 1 .. len |-> IF k \in DOMAIN src THEN src[k] ELSE Zero] <=>
        \A k \in 1 .. len : q[start + k] = IF k <= size THEN <<val, k>> ELSE Zero
  BY <1>5, <1>7
<1> QED BY <1>1, <1>5, <1>6, <1>8 DEF Whole

\* The pair of a byte tells its value; no byte of a value is zero.
LEMMA BytesTell ==
  ASSUME NEW v, NEW w, NEW k \in Nat, NEW l \in Nat
  PROVE  (<<v, k>> = <<w, l>> => v = w) /\ (k # 0 => <<v, k>> # Zero)
BY DEF Zero

\* A string is as long as it is; any other value has eight bytes.
SizeOf(type, len, val) == IF type = T_STRING THEN StrLen[val] ELSE len

\* The value is all there is in these bytes; and it is read from them.
IsThere(type, len, q, start, val) ==
  /\ SizeOf(type, len, val) \in Nat /\ SizeOf(type, len, val) <= len
  /\ \A k \in 1 .. len :
       q[start + k] = IF k <= SizeOf(type, len, val) THEN <<val, k>> ELSE Zero

IsRead(type, len, q, start, got) ==
  got = ValueRead(type, len, SubSeq(q, start + 1, start + len))

\* Two values that show in the same bytes are one, or empty strings.
LEMMA OneShows ==
  ASSUME NEW type, NEW len \in Nat, NEW q, NEW start \in Nat, NEW v, NEW w,
         IsThere(type, len, q, start, v), IsThere(type, len, q, start, w)
  PROVE  v = w \/ (SizeOf(type, len, v) = 0 /\ SizeOf(type, len, w) = 0)
<1>0. /\ SizeOf(type, len, v) \in Nat /\ SizeOf(type, len, w) \in Nat
      /\ SizeOf(type, len, v) <= len /\ SizeOf(type, len, w) <= len
      /\ \A k \in 1 .. len :
           q[start + k] = IF k <= SizeOf(type, len, v) THEN <<v, k>> ELSE Zero
      /\ \A k \in 1 .. len :
           q[start + k] = IF k <= SizeOf(type, len, w) THEN <<w, k>> ELSE Zero
  BY DEF IsThere
<1>1. PICK m \in Nat : m = SizeOf(type, len, v)
  BY <1>0
<1>2. PICK n \in Nat : n = SizeOf(type, len, w)
  BY <1>0
<1>3. CASE m = 0 /\ n = 0
  BY <1>1, <1>2, <1>3
<1>4. CASE ~(m = 0 /\ n = 0)
  <2>1. 1 \in 1 .. len
    BY <1>0, <1>1, <1>2, <1>4
  <2>2. /\ q[start + 1] = IF 1 <= m THEN <<v, 1>> ELSE Zero
        /\ q[start + 1] = IF 1 <= n THEN <<w, 1>> ELSE Zero
    BY <1>0, <1>1, <1>2, <2>1
  <2>3. /\ <<v, 1>> = <<w, 1>> => v = w
        /\ <<v, 1>> # Zero /\ <<w, 1>> # Zero
    BY BytesTell
  <2>4. 1 <= m \/ 1 <= n
    BY <1>4
  <2> QED BY <2>2, <2>3, <2>4
<1> QED BY <1>3, <1>4

\* A value whose copy is all that is there is read back, or another empty
\* string for an empty one.
LEMMA ReadWhole ==
  ASSUME NEW type, NEW len \in Nat, NEW q, NEW start \in Nat, NEW val, NEW got,
         type = T_STRING => val \in Strings,
         type # T_STRING => len > 0,
         IsThere(type, len, q, start, val),
         IsRead(type, len, q, start, got)
  PROVE  \/ got = val
         \/ /\ type = T_STRING /\ got \in Strings /\ StrLen[got] = 0
            /\ StrLen[val] = 0
<1>0. PICK bytes : bytes = SubSeq(q, start + 1, start + len)
  OBVIOUS
<1>1. /\ SizeOf(type, len, val) \in Nat
      /\ \A k \in 1 .. len :
           q[start + k] = IF k <= SizeOf(type, len, val) THEN <<val, k>> ELSE Zero
  BY DEF IsThere
<1>2. PICK words : words = IF type = T_STRING THEN Strings ELSE {bytes[1][1]}
  OBVIOUS
<1>3. Shows(type, len, bytes, val)
  <2>1. PICK size \in Nat : size = SizeOf(type, len, val)
    BY <1>1
  <2>2. size = IF type = T_STRING THEN StrLen[val] ELSE len
    BY <2>1 DEF SizeOf
  <2>3. Whole(q, start, len, size, val)
    BY <2>1 DEF IsThere, Whole
  <2>4. Shows(type, len, SubSeq(q, start + 1, start + len), val)
    BY ONLY start \in Nat, len \in Nat, <2>2, <2>3, ShowsFacts
  <2> QED BY ONLY <1>0, <2>4
<1>4. val \in words
  <2>1. CASE type = T_STRING
    BY <1>2, <2>1
  <2>2. CASE type # T_STRING
    <3>1. bytes[1] = q[start + 1]
      <4>1. PICK n \in Nat : n = start + len /\ 1 <= n - start
        BY <2>2
      <4>2. bytes = SubSeq(q, start + 1, n)
        BY ONLY <1>0, <4>1
      <4>3. bytes = [k \in 1 .. (1 + n) - (start + 1) |-> q[k + (start + 1) - 1]]
        BY <4>2
      <4>4. 1 \in 1 .. (1 + n) - (start + 1) /\ 1 + (start + 1) - 1 = start + 1
        BY <4>1
      <4> QED BY <4>3, <4>4
    <3>2. q[start + 1] = <<val, 1>>
      <4>1. 1 \in 1 .. len /\ 1 <= SizeOf(type, len, val)
        BY <2>2 DEF SizeOf
      <4> QED BY <1>1, <4>1
    <3>3. <<val, 1>>[1] = val
      OBVIOUS
    <3> QED BY <1>2, <2>2, <3>1, <3>2, <3>3
  <2> QED BY <2>1, <2>2
<1>5. got = ValueRead(type, len, bytes)
  BY ONLY <1>0, IsRead(type, len, q, start, got) DEF IsRead
<1>6. got \in words /\ Shows(type, len, bytes, got)
  <2>1. got = IF \E v \in words : Shows(type, len, bytes, v)
              THEN CHOOSE v \in words : Shows(type, len, bytes, v) ELSE Garbled
    BY <1>2, <1>5 DEF ValueRead
  <2> QED BY <1>3, <1>4, <2>1
<1>7. SizeOf(type, len, got) \in Nat
  BY <1>2, <1>6, StrLenAssumption DEF SizeOf
<1>8. IsThere(type, len, q, start, got)
  <2>1. PICK size \in Nat : size = SizeOf(type, len, got)
    BY <1>7
  <2>2. size = IF type = T_STRING THEN StrLen[got] ELSE len
    BY <2>1 DEF SizeOf
  <2>3. Shows(type, len, SubSeq(q, start + 1, start + len), got)
    BY ONLY <1>0, <1>6
  <2>4. Whole(q, start, len, size, got)
    BY ONLY start \in Nat, len \in Nat, <2>2, <2>3, ShowsFacts
  <2> QED BY <2>1, <2>4 DEF IsThere, Whole
<1>9. val = got \/ (SizeOf(type, len, val) = 0 /\ SizeOf(type, len, got) = 0)
  BY ONLY len \in Nat, start \in Nat, IsThere(type, len, q, start, val), <1>8, OneShows
<1>10. CASE type = T_STRING
  <2>1. words = Strings
    BY ONLY <1>2, <1>10
  <2>2. /\ SizeOf(type, len, val) = StrLen[val]
        /\ SizeOf(type, len, got) = StrLen[got]
    BY ONLY <1>10 DEF SizeOf
  <2>3. got \in Strings
    BY ONLY <1>6, <2>1
  <2> QED BY ONLY <1>9, <1>10, <2>2, <2>3
<1>11. CASE type # T_STRING
  <2>1. SizeOf(type, len, val) = len
    BY ONLY <1>11 DEF SizeOf
  <2>2. len > 0
    BY <1>11
  <2>3. SizeOf(type, len, val) # 0
    BY ONLY len \in Nat, <2>1, <2>2
  <2> QED BY ONLY <1>9, <2>3
<1> QED BY <1>10, <1>11

\* A row is read back as it was stored.
LEMMA ReadBack ==
  ASSUME NEW c \in Statements, NEW s \in Statements, FitsTable(c, s),
         NEW i \in 1 .. Len(s.items)
  PROVE  LET got == ColumnRead(Means(c), Tuple(Means(c), Vals(s)), i)
             val == s.items[i].val
         IN  \/ got = val
             \/ /\ c.items[i].dtype = "char" /\ got \in Strings \cup {Garbled}
                /\ \/ {got, val} \subseteq Strings /\ StrLen[got] = 0 /\ StrLen[val] = 0
                   \/ \E j \in 1 .. i : TooLong(c, s, j)
<1>1. PICK n \in Nat : n = Len(s.items) /\ n = Len(c.items)
  BY StatementFacts DEF FitsTable
<1>2. PICK cols : cols = Means(c)
  OBVIOUS
<1>3. PICK q : q = Tuple(cols, Vals(s))
  OBVIOUS
<1>4. PICK val : val = s.items[i].val
  OBVIOUS
<1>5. PICK start \in Nat : start = Offset(cols, i)
  BY <1>1, <1>2, SizeFacts DEF FitsTable
<1>6. PICK len \in Nat : len = cols[i].len
  BY <1>2, CopyFits
<1>7. PICK type : type = cols[i].type
  OBVIOUS
<1>8. PICK size \in Nat : size = CopyLen(cols, Vals(s), i)
  BY <1>2, CopyFits
<1>9. /\ type = T_STRING <=> c.items[i].dtype = "char"
      /\ type = T_STRING => val \in Strings /\ size = StrLen[val]
      /\ type # T_STRING => size = len /\ len = 8
      /\ size > len <=> TooLong(c, s, i)
  BY <1>2, <1>4, <1>6, <1>7, <1>8, CopyFits
<1>10. size = SizeOf(type, len, val)
  BY <1>9 DEF SizeOf
<1>11. ASSUME NEW k \in 1 .. len
       PROVE  /\ k <= size => q[start + k] = <<val, k>>
              /\ k > size => q[start + k] = Zero \/ \E j \in 1 .. i : TooLong(c, s, j)
  BY <1>2, <1>3, <1>4, <1>5, <1>6, <1>8, ByteOfColumn
<1>12. PICK got : got = ValueRead(type, len, SubSeq(q, start + 1, start + len))
  OBVIOUS
<1>13. got = ColumnRead(cols, q, i)
  BY <1>5, <1>6, <1>7, <1>12 DEF ColumnRead
<1>14. CASE type # T_STRING \/ ~\E j \in 1 .. i : TooLong(c, s, j)
  <2>1. size <= len
    <3>1. ~(size > len)
      <4>1. CASE type # T_STRING
        BY <1>9, <4>1
      <4>2. CASE ~\E j \in 1 .. i : TooLong(c, s, j)
        BY <1>9, <4>2
      <4> QED BY <1>14, <4>1, <4>2
    <3> QED BY <3>1
  <2>2. ASSUME NEW k \in 1 .. len
        PROVE  q[start + k] = IF k <= size THEN <<val, k>> ELSE Zero
    <3>1. ~(k > size /\ \E j \in 1 .. i : TooLong(c, s, j))
      BY <1>9, <1>14
    <3>2. k > size => q[start + k] = Zero
      BY <1>11, <3>1
    <3>3. k <= size \/ k > size
      OBVIOUS
    <3> QED BY <1>11, <3>2, <3>3
  <2>3. (type = T_STRING => val \in Strings) /\ (type # T_STRING => len > 0)
    BY <1>9
  <2>4. \/ got = val
        \/ type = T_STRING /\ got \in Strings /\ StrLen[got] = 0 /\ StrLen[val] = 0
    <3>1. IsThere(type, len, q, start, val)
      BY <1>10, <2>1, <2>2 DEF IsThere
    <3>2. IsRead(type, len, q, start, got)
      BY ONLY <1>12 DEF IsRead
    <3> QED BY ONLY len \in Nat, start \in Nat, <2>3, <3>1, <3>2, ReadWhole
  <2>5. type = T_STRING => c.items[i].dtype = "char" /\ val \in Strings
    BY <1>9
  <2>6. \/ got = val
        \/ /\ c.items[i].dtype = "char" /\ got \in Strings
           /\ {got, val} \subseteq Strings /\ StrLen[got] = 0 /\ StrLen[val] = 0
    BY ONLY <2>4, <2>5
  <2> QED BY <1>2, <1>3, <1>4, <1>13, <2>6
<1>15. CASE type = T_STRING /\ \E j \in 1 .. i : TooLong(c, s, j)
  <2>1. got \in Strings \cup {Garbled}
    BY <1>12, <1>15 DEF ValueRead
  <2> QED BY <1>2, <1>3, <1>4, <1>9, <1>13, <1>15, <2>1
<1> QED BY <1>14, <1>15


-----------------------------------------------------------------------------
(* The bytes of the rows on their pages.                                   *)

\* The bytes of the row of statement m.
RowTuple(m) == Tuple(Layout(m), Vals(done[m].stmt))

\* A page has the bytes that end so many before its end.
Holds(page, taken, buf) ==
  \A i \in 1 .. Len(buf) : page.data[DataSize - taken + i] = buf[i]

\* The page has the rows of the table, one before the other.
HoldsRows(page, name) ==
  \A j \in 1 .. Len(Rows(name)) :
    Holds(page, Taken(Rows(name), j), RowTuple(Rows(name)[j]))

BytesInv == \A name \in DOMAIN pagedir : HoldsRows(PageOf(name), name)

\* What was executed is what the grammar means.
DoneWell ==
  \A m \in 1 .. Len(done) :
    done[m].stmt.kind # "SELECT" => UpTo(done[m].stmt, Len(done[m].stmt.items))

ReadInv == SInv /\ DoneWell /\ BytesInv

\* A row has as many bytes as its layout says.
LEMMA RowTupleLen ==
  ASSUME EInv, NEW m \in InsertsDone
  PROVE  Len(RowTuple(m)) = TupleSize(Layout(m)) /\ TupleSize(Layout(m)) \in Nat
BY SizeOfRow, TupleLen DEF RowTuple

\* A row's bytes stay what they were.
LEMMA RowTupleKept ==
  ASSUME EInv, EInv', Grows, NEW m \in InsertsDone
  PROVE  Layout(m)' = Layout(m) /\ RowTuple(m)' = RowTuple(m)
<1>1. m \in 1 .. Len(done) /\ done[m].stmt.kind = "INSERT"
  BY DEF InsertsDone
<1>2. Layout(m)' = Layout(m)
  BY <1>1, LayoutKept DEF Grows
<1>3. done'[m] = done[m]
  BY <1>1 DEF Grows
<1>4. Vals(done[m].stmt)' = Vals(done[m].stmt)
  BY <1>3 DEF Vals
<1>5. RowTuple(m)' = Tuple(Layout(m)', Vals(done[m].stmt)')
  BY DEF RowTuple, Tuple, TupleSize, Offset, Offsets, Sums, Copied
<1> QED BY <1>2, <1>4, <1>5 DEF RowTuple

\* A row's place is within the room taken, and leaves room for it.
LEMMA TakenFacts ==
  ASSUME EInv, NEW rows \in Seq(InsertsDone), NEW j \in 1 .. Len(rows)
  PROVE  /\ Taken(rows, j) \in Nat /\ Used(rows) \in Nat /\ Taken(rows, j) <= Used(rows)
         /\ TupleSize(Layout(rows[j])) \in Nat
         /\ TupleSize(Layout(rows[j])) <= Taken(rows, j)
<1> DEFINE q == Sizes(rows)
           n == Len(rows)
           t == Sums(q)
<1>1. /\ q \in Seq(Nat) /\ Len(q) = n /\ n \in Nat
      /\ q[j] = TupleSize(Layout(rows[j]))
  BY SizesFacts
<1>2. Taken(rows, j) = t[j] /\ Used(rows) = t[n]
  BY DEF Taken, Used, Sizes
<1> HIDE DEF q
<1>3. t \in [0 .. n -> Nat] /\ t[j] = t[j - 1] + q[j] /\ t[j] <= t[n]
  <2>1. j \in 0 .. Len(q) /\ j \in 1 .. Len(q)
    BY <1>1
  <2> QED BY <1>1, <2>1, SumsFacts, SumsRise
<1>4. j \in 0 .. n /\ j - 1 \in 0 .. n /\ n \in 0 .. n
  BY <1>1
<1> HIDE DEF t, n
<1>5. t[j] \in Nat /\ t[j - 1] \in Nat /\ t[n] \in Nat
  BY <1>3, <1>4
<1>6. q[j] \in Nat
  <2>1. j \in 1 .. Len(q)
    BY <1>1 DEF n
  <2> QED BY <1>1, <2>1
<1> QED BY <1>1, <1>2, <1>3, <1>5, <1>6

\* Its place stays the same.
LEMMA TakenKept ==
  ASSUME EInv, EInv', Grows, NEW rows \in Seq(InsertsDone), NEW j
  PROVE  Taken(rows, j)' = Taken(rows, j)
BY UsedKept DEF Taken, Sizes

\* The places of the rows when there is one more.
LEMMA TakenMore ==
  ASSUME EInv, EInv', Grows, NEW rows \in Seq(InsertsDone), NEW n, NEW size \in Nat,
         TupleSize(Layout(n))' = size
  PROVE  /\ \A j \in 1 .. Len(rows) : Taken(Append(rows, n), j)' = Taken(rows, j)
         /\ Taken(Append(rows, n), Len(rows) + 1)' = Used(rows) + size
<1>1. PICK q : q = Sizes(rows)
  OBVIOUS
<1>2. q \in Seq(Nat) /\ Len(q) = Len(rows) /\ Len(rows) \in Nat
  BY <1>1, SizesFacts
<1>3. PICK r : r = Append(q, size)
  OBVIOUS
<1>4. Sizes(Append(rows, n))' = r
  BY <1>1, <1>3, OneMoreSize
<1>5. /\ r \in Seq(Nat) /\ Len(r) = Len(q) + 1 /\ r[Len(q) + 1] = size
      /\ \A j \in 1 .. Len(q) : r[j] = q[j]
  BY <1>2, <1>3, AppendKeeps
<1>6. \A j : Taken(Append(rows, n), j)' = Sums(r)[j]
  BY <1>4 DEF Taken, Sizes
<1>7. \A j : Taken(rows, j) = Sums(q)[j]
  BY <1>1 DEF Taken, Sizes
<1>8. \A j \in 0 .. Len(q) : Sums(r)[j] = Sums(q)[j]
  <2>1. Len(q) <= Len(r)
    BY <1>2, <1>5
  <2> QED BY <1>2, <1>5, <2>1, SumsBefore
<1>9. \A j \in 1 .. Len(rows) : Taken(Append(rows, n), j)' = Taken(rows, j)
  <2>1. ASSUME NEW j \in 1 .. Len(rows) PROVE j \in 0 .. Len(q)
    BY <1>2
  <2> QED BY <1>6, <1>7, <1>8, <2>1
<1>10. Taken(Append(rows, n), Len(rows) + 1)' = Used(Append(rows, n))'
  <2>1. Len(Append(rows, n)) = Len(rows) + 1
    BY <1>2
  <2>2. Used(Append(rows, n))' = Sums(r)[Len(rows) + 1]
    BY <1>4, <2>1 DEF Used
  <2>3. PICK l : l = Len(rows) + 1
    OBVIOUS
  <2>4. Taken(Append(rows, n), l)' = Sums(r)[l]
    BY <1>6
  <2> QED BY <2>2, <2>3, <2>4
<1> QED BY <1>9, <1>10, OneMoreUsed

\* The row goes where it is held, and leaves the others alone.
LEMMA RowHeld ==
  ASSUME NEW page, NEW name, NEW k, NEW n, NEW used, PageIs(page, name, k, n, used),
         NEW buf, Len(buf) \in Nat, InData(page, Len(buf))
  PROVE  LET more == sql_ins_buf_to_page(page, buf)
         IN  /\ Holds(more, used + Len(buf), buf)
             /\ \A taken \in 0 .. used : \A old :
                  Len(old) \in 0 .. taken /\ Holds(page, taken, old) => Holds(more, taken, old)
<1> DEFINE size == Len(buf)
           dst == Destination(page, size)
           data == [i \in 1 .. DataSize |->
                      IF i - dst \in 1 .. size THEN buf[i - dst] ELSE page.data[i]]
<1>1. PICK more : more = sql_ins_buf_to_page(page, buf)
  OBVIOUS
<1>2. more.data = data
  <2> HIDE DEF data, dst
  <2>1. more = [page EXCEPT !.data = data,
                            !.freespace = (page.freespace - size) % HeaderMod,
                            !.freespacetr = (page.freespacetr - size) % HeaderMod,
                            !.slotno = (page.slotno + 1) % HeaderMod]
    BY <1>1 DEF sql_ins_buf_to_page, data, dst
  <2> HIDE DEF size
  <2>2. PICK tr, dt :
          page = [objname |-> name, pageno |-> k, slotno |-> n, nextpage |-> -1,
                  freespace |-> DataSize - used, freespacetr |-> tr, data |-> dt]
    BY DEF PageIs
  <2> QED BY <2>1, <2>2
<1>3. /\ size \in Nat /\ used \in Nat /\ DataSize \in Nat /\ used + size <= DataSize
      /\ size > 0 => dst = DataSize - used - size
  <2>1. used \in Nat /\ DataSize \in Nat
    BY Counters DEF PageIs
  <2> HIDE DEF dst
  <2>2. /\ used + size <= DataSize
        /\ size > 0 => dst = DataSize - used - size
    BY RoomIs DEF dst
  <2> QED BY <2>1, <2>2
<1> HIDE DEF size, dst
<1>4. ASSUME NEW i \in 1 .. size PROVE more.data[DataSize - (used + size) + i] = buf[i]
  <2>1. PICK p : p = DataSize - (used + size) + i
    OBVIOUS
  <2>2. p \in 1 .. DataSize /\ p - dst = i
    BY <1>3, <1>4, <2>1
  <2> QED BY <1>2, <1>4, <2>1, <2>2
<1>5. ASSUME NEW taken \in 0 .. used, NEW old, Len(old) \in 0 .. taken,
             Holds(page, taken, old), NEW i \in 1 .. Len(old)
      PROVE  more.data[DataSize - taken + i] = old[i]
  <2>1. PICK p : p = DataSize - taken + i
    OBVIOUS
  <2>2. PICK len \in 0 .. taken : len = Len(old)
    BY <1>5
  <2>3. p \in 1 .. DataSize /\ p > DataSize - used
    BY <1>3, <1>5, <2>1, <2>2
  <2>4. p - dst \notin 1 .. size
    BY <1>3, <2>3
  <2>5. page.data[p] = old[i]
    BY <1>5, <2>1 DEF Holds
  <2> QED BY <1>2, <2>1, <2>3, <2>4, <2>5
<1> QED BY <1>1, <1>4, <1>5 DEF Holds, size

\* A page that held the rows of a table holds them after the step.
LEMMA RowsHeld ==
  ASSUME SInv, EInv', Grows, NEW name, Rows(name)' = Rows(name), NEW page,
         HoldsRows(page, name)
  PROVE  HoldsRows(page, name)'
<1>1. PICK rows \in Seq(InsertsDone) : rows = Rows(name)
  BY RowsAreDone DEF SInv
<1>2. Rows(name)' = rows
  BY <1>1
<1>3. ASSUME NEW j \in 1 .. Len(rows)
      PROVE  Holds(page, Taken(rows, j)', RowTuple(rows[j])')
  <2>1. Taken(rows, j)' = Taken(rows, j)
    BY TakenKept DEF SInv
  <2>2. PICK m \in InsertsDone : m = rows[j]
    OBVIOUS
  <2>3. RowTuple(m)' = RowTuple(m)
    BY RowTupleKept DEF SInv
  <2>4. RowTuple(rows[j])' = RowTuple(rows[j])
    BY <2>2, <2>3
  <2>5. Holds(page, Taken(rows, j), RowTuple(rows[j]))
    BY <1>1 DEF HoldsRows
  <2> QED BY <2>1, <2>4, <2>5
<1> QED BY <1>2, <1>3 DEF HoldsRows, Holds

\* A step that leaves the store as it was, and files no row.
LEMMA BytesSame ==
  ASSUME SInv, BytesInv, EInv', Grows, UNCHANGED <<pagedir, pagetable, buffer>>, NoRowFiled
  PROVE  BytesInv'
<1>1. ASSUME NEW name \in DOMAIN pagedir PROVE HoldsRows(PageOf(name), name)'
  <2>1. PICK page : page = PageOf(name)
    OBVIOUS
  <2>2. Rows(name)' = Rows(name)
    BY NoNewRow
  <2>3. HoldsRows(page, name)
    BY <2>1 DEF BytesInv
  <2>4. HoldsRows(page, name)'
    BY <2>2, <2>3, RowsHeld
  <2>5. PageOf(name)' = page
    BY <2>1 DEF PageOf
  <2> QED BY <2>4, <2>5 DEF HoldsRows, Holds
<1> QED BY <1>1 DEF BytesInv

\* A new table has no rows, and takes no page from another.
LEMMA BytesOfTable ==
  ASSUME SInv, BytesInv, EInv', Grows, storage = "ok", NEW name, name \notin DOMAIN pagedir,
         NEW page,
         pagedir' = Entered(pagedir, name, global_pageno),
         buffer' = Append(buffer, page),
         pagetable' = Entered(pagetable, global_pageno, Len(buffer)),
         NoRowFiled
  PROVE  BytesInv'
<1>1. /\ global_pageno \in Nat /\ buffer \in Seq(Range(buffer)) /\ Len(buffer) = global_pageno
      /\ pagetable = [k \in 0 .. global_pageno - 1 |-> <<k>>]
  BY DEF SInv, PagesInv
<1>2. PICK pages : pages = buffer
  OBVIOUS
<1>3. \A i \in 1 .. Len(buffer) : buffer'[i] = buffer[i]
  BY <1>1, <1>2, PageAppended
<1>4. ASSUME NEW n \in DOMAIN pagedir'
      PROVE  HoldsRows(PageOf(n), n)'
  <2>1. Rows(n)' = Rows(n)
    BY NoNewRow
  <2>2. CASE n = name
    <3>1. Len(Rows(n)) = 0
      BY <2>2, NewTableEmpty
    <3>2. 1 .. Len(Rows(n))' = {}
      BY <2>1, <3>1
    <3> QED BY <3>2 DEF HoldsRows
  <2>3. CASE n # name
    <3>1. n \in DOMAIN pagedir /\ pagedir'[n] = pagedir[n]
      <4>1. PICK dir : dir = pagedir
        OBVIOUS
      <4>2. PICK new : new = pagedir'
        OBVIOUS
      <4>3. new = [m \in DOMAIN dir \cup {name} |-> IF m \in DOMAIN dir THEN dir[m] ELSE <<global_pageno>>]
        BY <4>1, <4>2 DEF Entered
      <4> QED BY <2>3, <4>1, <4>2, <4>3
    <3>2. PICK k \in 0 .. global_pageno - 1 : pagedir[n] = <<k>>
      BY <3>1 DEF SInv, PagesInv
    <3>3. pagetable[k] = <<k>> /\ pagetable'[k] = <<k>>
      <4>1. PICK map : map = pagetable
        OBVIOUS
      <4>2. PICK new : new = pagetable'
        OBVIOUS
      <4>3. new = [m \in DOMAIN map \cup {global_pageno} |->
                     IF m \in DOMAIN map THEN map[m] ELSE <<Len(buffer)>>]
        BY <4>1, <4>2 DEF Entered
      <4>4. k \in DOMAIN map /\ map[k] = <<k>>
        BY <1>1, <4>1
      <4> QED BY <4>1, <4>2, <4>3, <4>4
    <3>4. PICK old : old = buffer[k + 1]
      OBVIOUS
    <3>5. PageOf(n) = old
      BY <3>2, <3>3, <3>4 DEF PageOf
    <3>6. PageOf(n)' = old
      <4>1. k + 1 \in 1 .. Len(buffer)
        BY <1>1
      <4>2. buffer'[k + 1] = old
        BY <1>3, <3>4, <4>1
      <4>3. pagedir'[n][1] = k /\ pagetable'[k][1] = k
        <5>1. pagedir'[n] = <<k>>
          BY <3>1, <3>2
        <5> QED BY <3>3, <5>1
      <4>4. PageOf(n)' = buffer'[pagetable'[pagedir'[n][1]][1] + 1]
        BY DEF PageOf
      <4> QED BY <4>2, <4>3, <4>4
    <3>7. HoldsRows(old, n)
      BY <3>1, <3>5 DEF BytesInv
    <3>8. HoldsRows(old, n)'
      BY <2>1, <3>7, RowsHeld
    <3> QED BY <3>6, <3>8 DEF HoldsRows, Holds
  <2> QED BY <2>2, <2>3
<1> QED BY <1>4 DEF BytesInv

\* The rows of the tables when one more is filed.
LEMMA RowAdded ==
  ASSUME SInv, storage = "ok", storage' = "ok",
         NEW r \in Results, r.stmt.kind = "INSERT", done' = Append(done, r), NEW name
  PROVE  Rows(name)' = IF name = r.stmt.name THEN Append(Rows(name), Len(done) + 1)
                       ELSE Rows(name)
<1>1. PICK log \in Seq(Results) : log = done
  BY DEF SInv, EInv, EngineTypes
<1>2. Filed = log /\ Filed' = Append(log, r)
  BY <1>1 DEF Filed
<1>3. Rows(name)' = RowsIn(Append(log, r), name) /\ Rows(name) = RowsIn(log, name)
  BY <1>2 DEF Rows, RowsIn
<1>4. RowOf(r, name) <=> name = r.stmt.name
  BY DEF RowOf
<1> QED BY <1>1, <1>3, <1>4, OneMoreRowIn

\* The new row is on its table's page, with those that were there.
LEMMA RowsHeldMore ==
  ASSUME SInv, EInv', Grows, NEW name, NEW n,
         Rows(name)' = Append(Rows(name), n),
         NEW k, NEW l, NEW page, PageIs(page, name, k, l, Used(Rows(name))),
         HoldsRows(page, name),
         NEW buf, Len(buf) \in Nat, InData(page, Len(buf)),
         RowTuple(n)' = buf, TupleSize(Layout(n))' = Len(buf)
  PROVE  HoldsRows(sql_ins_buf_to_page(page, buf), name)'
<1>1. PICK rows \in Seq(InsertsDone) : rows = Rows(name)
  BY RowsAreDone DEF SInv
<1>2. PICK size \in Nat : size = Len(buf)
  OBVIOUS
<1>3. PICK more : more = Append(rows, n)
  OBVIOUS
<1>4. /\ Len(rows) \in Nat /\ Len(more) = Len(rows) + 1 /\ more[Len(rows) + 1] = n
      /\ \A j \in 1 .. Len(rows) : more[j] = rows[j]
  BY <1>3
<1>5. /\ \A j \in 1 .. Len(rows) : Taken(more, j)' = Taken(rows, j)
      /\ Taken(more, Len(rows) + 1)' = Used(rows) + size
  <2>1. /\ \A j \in 1 .. Len(rows) : Taken(Append(rows, n), j)' = Taken(rows, j)
        /\ Taken(Append(rows, n), Len(rows) + 1)' = Used(rows) + size
    BY <1>2, TakenMore DEF SInv
  <2>2. \A j : Taken(Append(rows, n), j)' = Taken(more, j)'
    BY <1>3 DEF Taken
  <2> QED BY <2>1, <2>2
<1>6. PICK new : new = sql_ins_buf_to_page(page, buf)
  OBVIOUS
<1>7. PICK used : used = Used(rows)
  OBVIOUS
<1>8. /\ Holds(new, used + size, buf)
      /\ \A taken \in 0 .. used : \A old :
           Len(old) \in 0 .. taken /\ Holds(page, taken, old) => Holds(new, taken, old)
  <2>1. PageIs(page, name, k, l, used)
    BY <1>1, <1>7
  <2> QED BY <1>2, <1>6, <2>1, RowHeld
<1>9. ASSUME NEW j \in 1 .. Len(more) PROVE Holds(new, Taken(more, j)', RowTuple(more[j])')
  <2>1. CASE j = Len(rows) + 1
    <3>1. RowTuple(more[j])' = buf
      BY <1>4, <2>1
    <3>2. Taken(more, j)' = used + size
      BY <1>5, <1>7, <2>1
    <3> QED BY <1>8, <3>1, <3>2
  <2>2. CASE j # Len(rows) + 1
    <3>1. j \in 1 .. Len(rows)
      BY <1>4, <2>2
    <3>2. PICK m \in InsertsDone : m = rows[j]
      BY <3>1
    <3>3. PICK old : old = RowTuple(m)
      OBVIOUS
    <3>4. RowTuple(m)' = old
      BY <3>3, RowTupleKept DEF SInv
    <3>5. RowTuple(more[j])' = old
      BY <1>4, <3>1, <3>2, <3>4
    <3>6. Holds(page, Taken(rows, j), old)
      BY <1>1, <3>1, <3>2, <3>3 DEF HoldsRows
    <3>7. /\ Taken(rows, j) \in Nat /\ used \in Nat /\ Taken(rows, j) <= used
          /\ TupleSize(Layout(rows[j])) \in Nat
          /\ TupleSize(Layout(rows[j])) <= Taken(rows, j)
      BY <1>7, <3>1, TakenFacts DEF SInv
    <3>8. Len(old) = TupleSize(Layout(m))
      BY <3>3, RowTupleLen DEF SInv
    <3>9. Taken(rows, j) \in 0 .. used /\ Len(old) \in 0 .. Taken(rows, j)
      BY <3>2, <3>7, <3>8
    <3>10. Holds(new, Taken(rows, j), old)
      BY <1>8, <3>6, <3>9
    <3> QED BY <1>5, <3>1, <3>5, <3>10
  <2> QED BY <2>1, <2>2
<1>10. Rows(name)' = more
  BY <1>1, <1>3
<1>11. HoldsRows(new, name)'
  BY <1>9, <1>10 DEF HoldsRows, Holds
<1> QED BY <1>6, <1>11 DEF HoldsRows, Holds

\* The bytes of the row an INSERT adds.
LEMMA NewRowTuple ==
  ASSUME SInv, NEW c \in Statements, NEW s \in Statements, RowBy(c, s),
         NEW n \in Nat, n = Len(done) + 1
  PROVE  Layout(n)' = Means(c) /\ RowTuple(n)' = Tuple(Means(c), Vals(s))
<1>1. Layout(n)' = Means(c)
  BY DEF RowBy
<1>2. PICK r \in Results : r.stmt = s /\ done' = Append(done, r)
  BY DEF RowBy
<1>3. done'[n] = r
  BY <1>2, OneMoreDone DEF SInv, EInv
<1>4. Vals(done[n].stmt)' = Vals(s)
  BY <1>2, <1>3 DEF Vals
<1>5. RowTuple(n)' = Tuple(Layout(n)', Vals(done[n].stmt)')
  BY DEF RowTuple, Tuple, TupleSize, Offset, Offsets, Sums, Copied
<1> QED BY <1>1, <1>4, <1>5

\* A CREATE keeps the bytes.
LEMMA TableKeepsBytes ==
  ASSUME SInv, BytesInv, EInv', Grows, CreateTable
  PROVE  BytesInv'
<1>1. storage = "ok" /\ NoRowFiled
  BY CreateDoes
<1>2. PICK name : name = stmt.name
  OBVIOUS
<1>3. CASE name \in DOMAIN pagedir
  <2>1. UNCHANGED <<pagedir, pagetable, buffer>>
    BY <1>2, <1>3, CreateDoes
  <2> QED BY <1>1, <2>1, BytesSame
<1>4. CASE name \notin DOMAIN pagedir
  <2>1. PICK page : page = [init_page(name) EXCEPT !.pageno = global_pageno]
    OBVIOUS
  <2>2. /\ pagedir' = Entered(pagedir, name, global_pageno)
        /\ buffer' = Append(buffer, page)
        /\ pagetable' = Entered(pagetable, global_pageno, Len(buffer))
    BY <1>2, <1>4, <2>1, CreateDoes
  <2> QED BY <1>1, <1>4, <2>2, BytesOfTable
<1> QED BY <1>3, <1>4

\* An INSERT keeps the bytes of the rows before, and puts its own.
LEMMA RowKeepsBytes ==
  ASSUME MaxStmts < HeaderMod, SInv, BytesInv, EInv', BoundInv', Grows, InsertRow
  PROVE  BytesInv'
<1>1. /\ storage = "ok" /\ Filed = done
      /\ UNCHANGED <<pagedir, pagetable, global_pageno>>
  BY InsertDoes
<1>2. CASE UNCHANGED <<buffer, storage, done>>
  <2>1. NoRowFiled
    BY <1>1, <1>2 DEF Filed, NoRowFiled
  <2> QED BY <1>1, <1>2, <2>1, BytesSame
<1>3. CASE UNCHANGED buffer /\ Filed' = Filed
  <2>1. NoRowFiled
    BY <1>3 DEF NoRowFiled
  <2> QED BY <1>1, <1>3, <2>1, BytesSame
<1>4. ASSUME NEW c \in Statements, NEW s \in Statements, RowBy(c, s), ~NoWay(c, s),
             storage' = "ok",
             NEW k \in 0 .. global_pageno - 1, pagedir[s.name] = <<k>>,
             PageOf(s.name) = buffer[k + 1],
             PageIs(buffer[k + 1], s.name, k, Len(Rows(s.name)), Used(Rows(s.name))),
             buffer' = [buffer EXCEPT ![k + 1] =
                          sql_ins_buf_to_page(buffer[k + 1], Tuple(Means(c), Vals(s)))]
      PROVE  BytesInv'
  <2>1. PICK buf : buf = Tuple(Means(c), Vals(s))
    OBVIOUS
  <2>2. PICK name : name = s.name
    OBVIOUS
  <2>3. PICK page : page = buffer[k + 1]
    OBVIOUS
  <2>4. PICK new : new = sql_ins_buf_to_page(page, buf)
    OBVIOUS
  <2>5. name \in DOMAIN pagedir
    BY <1>4, <2>2 DEF NoWay
  <2>6. Len(buf) = TupleSize(Means(c)) /\ Len(buf) \in Nat /\ InData(page, Len(buf))
    BY <1>1, <1>4, <2>1, <2>3, RowGoesOn
  <2>7. PICK r \in Results : r.stmt = s /\ done' = Append(done, r)
    BY <1>4 DEF RowBy
  <2>8. r.stmt.kind = "INSERT"
    BY <1>4, <2>7 DEF RowBy
  <2>9. PICK n \in Nat : n = Len(done) + 1
    <3>1. Len(done) \in Nat
      BY FiledFacts DEF SInv
    <3> QED BY <3>1
  <2>10. \A a : Rows(a)' = IF a = name THEN Append(Rows(a), n) ELSE Rows(a)
    BY <1>1, <1>4, <2>2, <2>7, <2>8, <2>9, RowAdded
  <2>11. Layout(n)' = Means(c) /\ RowTuple(n)' = buf
    BY <1>4, <2>1, <2>9, NewRowTuple
  <2>12. TupleSize(Layout(n))' = Len(buf)
    <3>1. PICK cols : cols = Means(c)
      OBVIOUS
    <3>2. Layout(n)' = cols
      BY <2>11, <3>1
    <3>3. TupleSize(Layout(n))' = TupleSize(cols)
      BY <3>2 DEF TupleSize, Offsets, Sums
    <3> QED BY <2>6, <3>1, <3>3
  <2>13. HoldsRows(new, name)'
    <3>1. HoldsRows(page, name)
      BY <1>4, <2>2, <2>3, <2>5 DEF BytesInv
    <3>2. Rows(name)' = Append(Rows(name), n)
      BY <2>10
    <3>3. PICK l : l = Len(Rows(name))
      OBVIOUS
    <3>4. PageIs(page, name, k, l, Used(Rows(name)))
      BY <1>4, <2>2, <2>3, <3>3
    <3>5. HoldsRows(sql_ins_buf_to_page(page, buf), name)'
      BY <2>6, <2>11, <2>12, <3>1, <3>2, <3>4, RowsHeldMore
    <3> QED BY <2>4, <3>5 DEF HoldsRows, Holds
  <2>14. /\ buffer \in Seq(Range(buffer)) /\ Len(buffer) = global_pageno
         /\ global_pageno \in Nat
         /\ pagetable = [j \in 0 .. global_pageno - 1 |-> <<j>>]
    BY DEF SInv, PagesInv
  <2>15. /\ k + 1 \in 1 .. Len(buffer) /\ buffer'[k + 1] = new
         /\ \A i \in 1 .. Len(buffer) : i # k + 1 => buffer'[i] = buffer[i]
    <3>1. k + 1 \in 1 .. Len(buffer)
      BY <2>14
    <3>2. PICK pages : pages = buffer
      OBVIOUS
    <3>3. PICK i \in 1 .. Len(pages) : i = k + 1
      BY <3>1, <3>2
    <3>4. buffer' = Changed(pages, i, new)
      BY <1>4, <2>1, <2>3, <2>4, <3>2, <3>3 DEF Changed
    <3> QED BY <2>14, <3>1, <3>2, <3>3, <3>4, PageChanged
  <2>16. ASSUME NEW a \in DOMAIN pagedir PROVE HoldsRows(PageOf(a), a)'
    <3>1. PICK j \in 0 .. global_pageno - 1 :
            /\ pagedir[a] = <<j>>
            /\ PageIs(buffer[j + 1], a, j, Len(Rows(a)), Used(Rows(a)))
      BY DEF SInv, PagesInv
    <3>2. pagetable[pagedir[a][1]][1] = j
      <4>1. pagetable[j] = <<j>> /\ pagedir[a][1] = j
        BY <2>14, <3>1
      <4> QED BY <4>1
    <3>3. PageOf(a) = buffer[j + 1] /\ PageOf(a)' = buffer'[j + 1]
      BY <1>1, <3>2 DEF PageOf
    <3>4. CASE a = name
      <4>1. j = k
        BY <1>4, <2>2, <3>1, <3>4
      <4>2. PageOf(a)' = new
        BY <2>15, <3>3, <4>1
      <4> QED BY <2>13, <3>4, <4>2 DEF HoldsRows, Holds
    <3>5. CASE a # name
      <4>1. j # k
        <5>1. buffer[j + 1].objname = a
          BY <3>1, PageHas
        <5>2. buffer[k + 1].objname = name
          BY <1>4, <2>2, PageHas
        <5> QED BY <3>5, <5>1, <5>2
      <4>2. PICK old : old = buffer[j + 1]
        OBVIOUS
      <4>3. j + 1 \in 1 .. Len(buffer) /\ j + 1 # k + 1
        BY <2>14, <4>1
      <4>4. PageOf(a)' = old
        BY <2>15, <3>3, <4>2, <4>3
      <4>5. HoldsRows(old, a)
        BY <3>3, <4>2 DEF BytesInv
      <4>6. Rows(a)' = Rows(a)
        BY <2>10, <3>5
      <4>7. HoldsRows(old, a)'
        BY <4>5, <4>6, RowsHeld
      <4> QED BY <4>4, <4>7 DEF HoldsRows, Holds
    <3> QED BY <3>4, <3>5
  <2> QED BY <1>1, <2>16 DEF BytesInv
<1> QED BY <1>2, <1>3, <1>4, InsertDoes

\* What is executed is what the grammar means: the machine signals otherwise.
LEMMA DoneWellKept ==
  ASSUME EInv, DoneWell, [ENext]_evars
  PROVE  DoneWell'
<1>1. CASE done' = done
  BY <1>1 DEF DoneWell, UpTo, ItemOK, Inserting
<1>2. ASSUME NEW r \in Results, done' = Append(done, r),
             r.stmt.kind # "SELECT" => UpTo(r.stmt, Len(r.stmt.items))
      PROVE  DoneWell'
  <2>1. /\ Len(done') = Len(done) + 1 /\ Len(done) \in Nat /\ done'[Len(done) + 1] = r
        /\ \A m \in 1 .. Len(done) : done'[m] = done[m]
    BY <1>2, OneMoreDone DEF EInv
  <2>2. ASSUME NEW m \in 1 .. Len(done')
        PROVE  done'[m].stmt.kind # "SELECT" =>
                 UpTo(done'[m].stmt, Len(done'[m].stmt.items))
    <3>1. CASE m = Len(done) + 1
      BY <1>2, <2>1, <3>1
    <3>2. CASE m # Len(done) + 1
      <4>1. m \in 1 .. Len(done)
        BY <2>1, <3>2
      <4> QED BY <2>1, <4>1 DEF DoneWell
    <3> QED BY <3>1, <3>2
  <2> QED BY <2>2 DEF DoneWell, UpTo, ItemOK, Inserting
<1>3. CASE GenHalt /\ stmt.kind = "SELECT"
  <2> DEFINE r == [stmt |-> stmt, first |-> 0, second |-> 0]
  <2>1. phase = "gen" /\ done' = Append(done, r)
    BY <1>3 DEF GenHalt
  <2>2. r \in Results /\ r.stmt.kind = "SELECT"
    BY <1>3, <2>1, WordFacts DEF Results, EInv, EngineTypes
  <2> HIDE DEF r
  <2> QED BY <1>2, <2>1, <2>2
<1>4. CASE phase = "exec" /\ halt /\ done' = Append(done, Left2)
  <2>1. PICK r \in Results : r = Left2 /\ r.stmt = stmt /\ UpTo(stmt, Len(stmt.items))
    BY <1>4, Left2Written
  <2> QED BY <1>2, <1>4, <2>1
<1>5. \/ done' = done \/ (GenHalt /\ stmt.kind = "SELECT")
      \/ phase = "exec" /\ halt /\ done' = Append(done, Left2)
  BY DEF ENext, Run, Compile, GenHead, GenItem, GenHalt, Exec, Exit, TakeTable, TakeRow, evars
<1> QED BY <1>1, <1>3, <1>4, <1>5

\* A session starts with nothing to read.
LEMMA ReadInit ==
  ASSUME SInit
  PROVE  ReadInv
<1>1. SInv
  BY SessionInit
<1>2. done = << >> /\ DOMAIN pagedir = {}
  BY DEF SInit, EInit
<1>3. DoneWell
  <2>1. Len(done) = 0
    BY <1>2
  <2>2. 1 .. Len(done) = {}
    BY <2>1
  <2> QED BY <2>2 DEF DoneWell
<1> QED BY <1>1, <1>2, <1>3 DEF ReadInv, BytesInv

\* The bytes are kept, step by step.
LEMMA ReadStep ==
  ASSUME MaxStmts < HeaderMod, ReadInv, [SNext]_svars
  PROVE  ReadInv' /\ Grows
<1>1. SInv /\ DoneWell /\ BytesInv
  BY DEF ReadInv
<1>2. SInv' /\ EInv' /\ BoundInv'
  BY <1>1, SessionStep DEF SInv
<1>3. DoneWell'
  BY <1>1, StepsOfTheEngine, DoneWellKept DEF SInv
<1>4. Grows
  <2>1. CASE ENext
    BY <1>1, <2>1, BoundKept DEF SInv
  <2>2. CASE done' = done
    <3>1. Len(done) \in Nat
      BY <1>1, FiledFacts DEF SInv
    <3> QED BY <2>2, <3>1 DEF Grows
  <2> QED BY <2>1, <2>2, StepsOfTheEngine DEF evars
<1>5. CASE UNCHANGED svars
  <2>1. UNCHANGED <<pagedir, pagetable, buffer, storage, done>>
    BY <1>5 DEF svars, evars, store
  <2>2. NoRowFiled
    BY <2>1 DEF NoRowFiled, Filed
  <2>3. BytesInv'
    BY <1>1, <1>2, <1>4, <2>1, <2>2, BytesSame
  <2> QED BY <1>2, <1>3, <1>4, <2>3 DEF ReadInv
<1>6. CASE storage = "ok" /\ (Compile \/ GenItem \/ GenHalt \/ Exec \/ Exit) /\ UNCHANGED store
  <2>1. NoRowFiled
    BY <1>1, <1>6, QuietFiles DEF NoRowFiled
  <2>2. BytesInv'
    BY <1>1, <1>2, <1>4, <1>6, <2>1, BytesSame DEF store
  <2> QED BY <1>2, <1>3, <1>4, <2>2 DEF ReadInv
<1>7. CASE CreateTable
  BY <1>1, <1>2, <1>3, <1>4, <1>7, TableKeepsBytes DEF ReadInv
<1>8. CASE InsertRow
  BY <1>1, <1>2, <1>3, <1>4, <1>8, RowKeepsBytes DEF ReadInv
<1> QED BY <1>5, <1>6, <1>7, <1>8 DEF SNext

-----------------------------------------------------------------------------
(* The session implements tables of rows.                                  *)

\* The row of statement m, as it is read from its bytes.
AbsRow(m) ==
  [i \in DOMAIN Layout(m) |-> ColumnRead(Layout(m), RowTuple(m), i)]

TableRead(name) == [k \in DOMAIN Rows(name) |-> AbsRow(Rows(name)[k])]

\* The columns of the last CREATE of a log.
ColumnsOf(log) ==
  IF \A m \in DOMAIN log : log[m].stmt.kind # "CREATE"
  THEN << >> ELSE log[LastIn(log, Len(log))].stmt.items

\* What is read depends on the statements filed, and no more on the pages.
TablesAgree == TablesRead = [name \in DOMAIN pagedir |-> TableRead(name)]

ColumnsAgree == ColumnsRead = ColumnsOf(Filed)

\* The bytes of a row are those at its place on the page.
LEMMA BytesThere ==
  ASSUME NEW page, NEW taken \in 0 .. DataSize, NEW size \in 0 .. taken, NEW buf,
         buf = [i \in 1 .. size |-> buf[i]], Holds(page, taken, buf)
  PROVE  SubSeq(page.data, DataSize - taken + 1, DataSize - taken + size) = buf
<1>1. PICK start \in Nat : start = DataSize - taken
  BY Counters
<1>2. PICK q : q = page.data
  OBVIOUS
<1>3. size \in Nat
  BY Counters
<1>4. Len(buf) = size
  BY <1>3
<1>5. \A i \in 1 .. size : q[start + i] = buf[i]
  BY <1>1, <1>2, <1>4 DEF Holds
<1>6. SubSeq(q, start + 1, start + size) = [i \in 1 .. size |-> q[start + i]]
  <2>1. PICK n \in Nat : n = start + size
    BY <1>3
  <2>2. SubSeq(q, start + 1, n) = [k \in 1 .. (1 + n) - (start + 1) |-> q[k + (start + 1) - 1]]
    BY <2>1
  <2>3. (1 + n) - (start + 1) = size /\ \A k \in 1 .. size : k + (start + 1) - 1 = start + k
    BY <1>3, <2>1
  <2> QED BY <2>1, <2>2, <2>3
<1>7. [i \in 1 .. size |-> q[start + i]] = [i \in 1 .. size |-> buf[i]]
  BY <1>5
<1> QED BY <1>1, <1>2, <1>6, <1>7

\* The tables are read from the bytes of their rows.
LEMMA ReadsTables ==
  ASSUME ReadInv
  PROVE  TablesAgree
<1>1. ASSUME NEW name \in DOMAIN pagedir, NEW k \in DOMAIN Rows(name)
      PROVE  RowRead(PageOf(name), Rows(name), k) = AbsRow(Rows(name)[k])
  <2>1. PICK rows \in Seq(InsertsDone) : rows = Rows(name)
    BY RowsAreDone DEF ReadInv, SInv
  <2>2. k \in 1 .. Len(rows)
    BY <2>1
  <2>3. PICK m \in InsertsDone : m = rows[k]
    BY <2>2
  <2>4. PICK page : page = PageOf(name)
    OBVIOUS
  <2>5. PICK l \in 0 .. global_pageno - 1 :
          PageIs(buffer[l + 1], name, l, Len(rows), Used(rows))
    BY <2>1 DEF ReadInv, SInv, PagesInv
  <2>6. PICK taken : taken = Taken(rows, k)
    OBVIOUS
  <2>7. PICK size : size = TupleSize(Layout(m))
    OBVIOUS
  <2>8. taken \in 0 .. DataSize /\ size \in 0 .. taken
    <3>1. /\ taken \in Nat /\ Used(rows) \in Nat /\ taken <= Used(rows)
          /\ size \in Nat /\ size <= taken
      BY <2>2, <2>3, <2>6, <2>7, TakenFacts DEF ReadInv, SInv
    <3>2. Used(rows) <= DataSize /\ DataSize \in Nat
      BY <2>5, Counters DEF PageIs
    <3> QED BY <3>1, <3>2
  <2>9. PICK buf : buf = RowTuple(m)
    OBVIOUS
  <2>10. buf = [i \in 1 .. size |-> buf[i]]
    <3> DEFINE cols == Layout(m)
               vals == Vals(done[m].stmt)
               src(i) == Copied(vals[i].datatype, vals[i].val, cols[i].len)
               over(p) == {i \in DOMAIN vals : p - Offset(cols, i) \in DOMAIN src(i)}
               last(p) == CHOOSE i \in over(p) : \A j \in over(p) : j <= i
               byte(p) == IF over(p) = {} THEN Zero
                          ELSE src(last(p))[p - Offset(cols, last(p))]
    <3>1. buf = [p \in 1 .. size |-> byte(p)]
      BY <2>7, <2>9 DEF RowTuple, Tuple
    <3> HIDE DEF byte
    <3> QED BY <3>1
  <2>11. Holds(page, taken, buf)
    BY <2>1, <2>2, <2>3, <2>4, <2>6, <2>9 DEF ReadInv, BytesInv, HoldsRows
  <2>12. RowBytes(page, rows, k) = buf
    <3>1. SubSeq(page.data, DataSize - taken + 1, DataSize - taken + size) = buf
      BY <2>8, <2>10, <2>11, BytesThere
    <3> QED BY <2>3, <2>6, <2>7, <3>1 DEF RowBytes
  <2>13. RowRead(page, rows, k) = AbsRow(m)
    BY <2>3, <2>9, <2>12 DEF RowRead, AbsRow
  <2> QED BY <2>1, <2>3, <2>4, <2>13
<1>2. ASSUME NEW name \in DOMAIN pagedir
      PROVE  [k \in DOMAIN Rows(name) |-> RowRead(PageOf(name), Rows(name), k)]
               = TableRead(name)
  BY <1>1 DEF TableRead
<1>3. TablesRead = [name \in DOMAIN pagedir |->
                     [k \in DOMAIN Rows(name) |-> RowRead(PageOf(name), Rows(name), k)]]
  BY DEF TablesRead
<1> QED BY <1>2, <1>3 DEF TablesAgree

\* The columns in force are those of the last CREATE filed.
LEMMA ReadsColumns ==
  ASSUME SInv
  PROVE  ColumnsAgree
<1>1. PICK log \in Seq(Results) : log = Filed
  BY FiledFacts DEF SInv
<1>2. /\ Len(log) \in Nat /\ DOMAIN log = 1 .. Len(log)
      /\ \A m \in 1 .. Len(log) : log[m] = done[m]
  BY <1>1, FiledFacts DEF SInv
<1>3. {m \in 1 .. Len(log) : done[m].stmt.kind = "CREATE"}
        = {m \in 1 .. Len(log) : log[m].stmt.kind = "CREATE"}
  BY <1>2
<1>4. LastCreate(Len(log)) = LastIn(log, Len(log))
  BY <1>3 DEF LastCreate, LastIn
<1> QED BY <1>1, <1>4 DEF ColumnsAgree, ColumnsRead, ColumnsOf

\* Rows are read as they were.
LEMMA AbsRowKept ==
  ASSUME EInv, EInv', Grows, NEW m \in InsertsDone
  PROVE  AbsRow(m)' = AbsRow(m)
<1>1. Layout(m)' = Layout(m) /\ RowTuple(m)' = RowTuple(m)
  BY RowTupleKept
<1>2. AbsRow(m)' = [i \in DOMAIN Layout(m)' |-> ColumnRead(Layout(m)', RowTuple(m)', i)]
  BY DEF AbsRow, ColumnRead, Offset, Offsets, Sums, ValueRead, Shows, Copied
<1> QED BY <1>1, <1>2 DEF AbsRow

\* A table that got no row is read as it was.
LEMMA TableReadSame ==
  ASSUME SInv, EInv', Grows, NEW name, Rows(name)' = Rows(name)
  PROVE  TableRead(name)' = TableRead(name)
<1>1. PICK rows \in Seq(InsertsDone) : rows = Rows(name)
  BY RowsAreDone DEF SInv
<1>2. ASSUME NEW k \in DOMAIN rows PROVE AbsRow(rows[k])' = AbsRow(rows[k])
  <2>1. PICK m \in InsertsDone : m = rows[k]
    OBVIOUS
  <2>2. AbsRow(m)' = AbsRow(m)
    BY AbsRowKept DEF SInv
  <2> QED BY <2>1, <2>2
<1>3. Rows(name)' = rows
  BY <1>1
<1> QED BY <1>1, <1>2, <1>3 DEF TableRead

\* A table that got one has one row more, behind the others.
LEMMA TableReadMore ==
  ASSUME SInv, EInv', Grows, NEW name, NEW n, Rows(name)' = Append(Rows(name), n)
  PROVE  TableRead(name)' = Append(TableRead(name), AbsRow(n)')
<1>1. PICK rows \in Seq(InsertsDone) : rows = Rows(name)
  BY RowsAreDone DEF SInv
<1>2. PICK len \in Nat : len = Len(rows)
  OBVIOUS
<1>3. PICK more : more = Append(rows, n)
  OBVIOUS
<1>4. /\ DOMAIN rows = 1 .. len /\ DOMAIN more = 1 .. len + 1 /\ more[len + 1] = n
      /\ \A j \in 1 .. len : more[j] = rows[j]
  BY <1>2, <1>3
<1>5. PICK old : old = [k \in 1 .. len |-> AbsRow(rows[k])]
  OBVIOUS
<1>6. TableRead(name) = old
  BY <1>1, <1>4, <1>5 DEF TableRead
<1>7. PICK row : row = AbsRow(n)'
  OBVIOUS
<1>8. TableRead(name)' = [k \in 1 .. len + 1 |-> AbsRow(more[k])']
  <2>1. Rows(name)' = more
    BY <1>1, <1>3
  <2> QED BY <1>4, <2>1 DEF TableRead
<1>9. ASSUME NEW k \in 1 .. len + 1
      PROVE  AbsRow(more[k])' = IF k = len + 1 THEN row ELSE old[k]
  <2>1. CASE k = len + 1
    <3>1. more[k] = n
      BY <1>4, <2>1
    <3> QED BY <1>7, <2>1, <3>1
  <2>2. CASE k # len + 1
    <3>1. k \in 1 .. len
      BY <2>2
    <3>2. PICK m \in InsertsDone : m = rows[k]
      BY <1>4, <3>1
    <3>3. AbsRow(m)' = AbsRow(m)
      BY AbsRowKept DEF SInv
    <3>4. more[k] = m /\ old[k] = AbsRow(m)
      BY <1>4, <1>5, <3>1, <3>2
    <3> QED BY <2>2, <3>3, <3>4
  <2> QED BY <2>1, <2>2
<1>10. Append(old, row) = [k \in 1 .. len + 1 |-> IF k = len + 1 THEN row ELSE old[k]]
  <2>1. Len(old) = len /\ old \in Seq(Range(old))
    <3>1. old \in [1 .. len -> Range(old)] /\ DOMAIN old = 1 .. len
      BY <1>5 DEF Range
    <3> QED BY ONLY len \in Nat, <3>1
  <2>2. PICK new : new = Append(old, row)
    OBVIOUS
  <2>3. /\ new \in Seq(Range(new)) /\ Len(new) = len + 1 /\ new[len + 1] = row
        /\ \A k \in 1 .. len : new[k] = old[k]
    BY ONLY len \in Nat, <2>1, <2>2, PageAppended
  <2>4. new = [k \in 1 .. len + 1 |-> new[k]]
    BY <2>3
  <2>5. \A k \in 1 .. len + 1 : new[k] = IF k = len + 1 THEN row ELSE old[k]
    BY <2>3
  <2> QED BY <2>2, <2>4, <2>5
<1> QED BY <1>6, <1>7, <1>8, <1>9, <1>10

\* The columns in force, one statement later.
LEMMA ColumnsMore ==
  ASSUME NEW log \in Seq(Results), NEW r \in Results
  PROVE  ColumnsOf(Append(log, r)) =
           IF r.stmt.kind = "CREATE" THEN r.stmt.items ELSE ColumnsOf(log)
<1>1. PICK more : more = Append(log, r)
  OBVIOUS
<1>2. PICK n \in Nat : n = Len(log)
  OBVIOUS
<1>3. /\ Len(more) = n + 1 /\ DOMAIN more = 1 .. n + 1 /\ DOMAIN log = 1 .. n
      /\ more[n + 1] = r /\ \A m \in 1 .. n : more[m] = log[m]
  BY <1>1, <1>2
<1>4. CASE r.stmt.kind = "CREATE"
  <2>1. LastIn(more, n + 1) = n + 1
    <3>1. PICK l \in Nat : l = n + 1
      OBVIOUS
    <3>2. l \in 1 .. l /\ more[l].stmt.kind = "CREATE" /\ l + 1 .. l = {}
      BY <1>3, <1>4, <3>1
    <3>3. LastIn(more, l) = l
      BY <3>2, LastIs
    <3> QED BY <3>1, <3>3
  <2>2. n + 1 \in DOMAIN more /\ more[n + 1].stmt.kind = "CREATE"
    BY <1>3, <1>4
  <2> QED BY <1>1, <1>3, <1>4, <2>1, <2>2 DEF ColumnsOf
<1>5. CASE r.stmt.kind # "CREATE"
  <2> DEFINE T == {m \in 1 .. n : log[m].stmt.kind = "CREATE"}
  <2>1. {m \in 1 .. n + 1 : more[m].stmt.kind = "CREATE"} = T
    <3>1. ASSUME NEW m
          PROVE  m \in 1 .. n + 1 /\ more[m].stmt.kind = "CREATE" <=>
                   m \in 1 .. n /\ log[m].stmt.kind = "CREATE"
      <4>1. CASE m = n + 1
        BY <1>3, <1>5, <4>1
      <4>2. CASE m # n + 1
        <5>1. m \in 1 .. n + 1 <=> m \in 1 .. n
          BY <4>2
        <5> QED BY <1>3, <5>1
      <4> QED BY <4>1, <4>2
    <3> QED BY <3>1
  <2>2. LastIn(more, n + 1) = LastIn(log, n)
    BY <2>1 DEF LastIn
  <2>3. CASE T = {}
    <3>1. /\ \A m \in DOMAIN log : log[m].stmt.kind # "CREATE"
          /\ \A m \in DOMAIN more : more[m].stmt.kind # "CREATE"
      BY <1>3, <2>1, <2>3
    <3> QED BY <1>1, <1>5, <3>1 DEF ColumnsOf
  <2>4. CASE T # {}
    <3>1. \E x \in T : \A y \in T : y <= x
      <4>1. T \in SUBSET (1 .. n)
        OBVIOUS
      <4> HIDE DEF T
      <4> QED BY <2>4, <4>1, Largest
    <3>2. LastIn(log, n) \in T
      <4>1. LastIn(log, n) = CHOOSE x \in T : \A y \in T : y <= x
        BY DEF LastIn
      <4> HIDE DEF T
      <4> QED BY <3>1, <4>1
    <3>3. more[LastIn(log, n)] = log[LastIn(log, n)]
      BY <1>3, <3>2
    <3>4. /\ ~\A m \in DOMAIN log : log[m].stmt.kind # "CREATE"
          /\ ~\A m \in DOMAIN more : more[m].stmt.kind # "CREATE"
      BY <1>3, <2>1, <2>4
    <3> QED BY <1>1, <1>2, <1>3, <1>5, <2>2, <3>3, <3>4 DEF ColumnsOf
  <2> QED BY <2>3, <2>4
<1> QED BY <1>4, <1>5

\* The statements as the tables know them.
LogRead == [m \in DOMAIN Filed |-> Filed[m].stmt]

\* The log, one statement later.
LEMMA LogMore ==
  ASSUME SInv, NEW r \in Results, Filed' = Append(Filed, r)
  PROVE  LogRead' = Append(LogRead, r.stmt)
<1>1. PICK log \in Seq(Results) : log = Filed
  BY FiledFacts DEF SInv
<1>2. PICK n \in Nat : n = Len(log)
  OBVIOUS
<1>3. PICK more : more = Append(log, r)
  OBVIOUS
<1>4. /\ DOMAIN more = 1 .. n + 1 /\ DOMAIN log = 1 .. n
      /\ more[n + 1] = r /\ \A m \in 1 .. n : more[m] = log[m]
  BY <1>2, <1>3
<1>5. PICK old : old = [m \in 1 .. n |-> log[m].stmt]
  OBVIOUS
<1>6. LogRead = old
  BY <1>1, <1>4, <1>5 DEF LogRead
<1>7. LogRead' = [m \in 1 .. n + 1 |-> more[m].stmt]
  <2>1. Filed' = more
    BY <1>1, <1>3
  <2> QED BY <1>4, <2>1 DEF LogRead
<1>8. old \in Seq(Statements) /\ Len(old) = n
  <2>1. \A m \in 1 .. n : log[m].stmt \in Statements
    <3>1. ASSUME NEW m \in 1 .. n PROVE log[m].stmt \in Statements
      <4>1. log[m] \in Results
        BY <1>2
      <4> QED BY <4>1 DEF Results
    <3> QED BY <3>1
  <2> QED BY <1>5, <2>1
<1>9. PICK new : new = Append(old, r.stmt)
  OBVIOUS
<1>10. /\ new = [m \in 1 .. n + 1 |-> new[m]] /\ new[n + 1] = r.stmt
       /\ \A m \in 1 .. n : new[m] = old[m]
  BY <1>8, <1>9
<1>11. ASSUME NEW m \in 1 .. n + 1 PROVE new[m] = more[m].stmt
  <2>1. CASE m = n + 1
    BY <1>4, <1>10, <2>1
  <2>2. CASE m # n + 1
    <3>1. m \in 1 .. n
      BY <2>2
    <3> QED BY <1>4, <1>5, <1>10, <3>1
  <2> QED BY <2>1, <2>2
<1> QED BY <1>6, <1>7, <1>9, <1>10, <1>11

\* The state, read as tables, before and after a step.
ReadsRight == ReadInv /\ TablesAgree /\ ColumnsAgree

LEMMA ReadsFacts ==
  ASSUME ReadsRight
  PROVE  /\ SInv /\ EInv /\ DoneWell
         /\ TablesRead = [name \in DOMAIN pagedir |-> TableRead(name)]
         /\ ColumnsRead = ColumnsOf(Filed)
BY DEF ReadsRight, ReadInv, SInv, TablesAgree, ColumnsAgree

\* A step that files no row leaves all tables as they were.
LEMMA TablesReadSame ==
  ASSUME ReadsRight, ReadsRight', Grows, NoRowFiled, DOMAIN pagedir' = DOMAIN pagedir
  PROVE  TablesRead' = TablesRead
<1>1. EInv'
  BY DEF ReadsRight, ReadInv, SInv
<1>2. ASSUME NEW name PROVE TableRead(name)' = TableRead(name)
  BY <1>1, NoNewRow, TableReadSame, ReadsFacts
<1>3. TablesRead' = [name \in DOMAIN pagedir' |-> TableRead(name)']
  BY DEF ReadsRight, TablesAgree
<1> QED BY <1>2, <1>3, ReadsFacts

\* A step that files nothing.
LEMMA ReadsSame ==
  ASSUME ReadsRight, ReadsRight', Grows, Filed' = Filed, DOMAIN pagedir' = DOMAIN pagedir
  PROVE  UNCHANGED Abstract!tvars
<1>1. TablesRead' = TablesRead
  BY TablesReadSame DEF NoRowFiled
<1>2. ColumnsRead' = ColumnsRead
  BY DEF ReadsRight, ColumnsAgree, ColumnsOf, LastIn
<1>3. [m \in DOMAIN Filed |-> Filed[m].stmt]' = [m \in DOMAIN Filed |-> Filed[m].stmt]
  OBVIOUS
<1> QED BY <1>1, <1>2, <1>3 DEF Abstract!tvars

\* The log and the columns when a statement is filed.
LEMMA OneMoreFiled ==
  ASSUME ReadsRight, ReadsRight', NEW r \in Results, Filed' = Append(Filed, r)
  PROVE  /\ [m \in DOMAIN Filed |-> Filed[m].stmt]' =
              Append([m \in DOMAIN Filed |-> Filed[m].stmt], r.stmt)
         /\ ColumnsRead' = IF r.stmt.kind = "CREATE" THEN r.stmt.items ELSE ColumnsRead
         /\ r.stmt \in Statements
<1>1. LogRead' = Append(LogRead, r.stmt)
  BY LogMore, ReadsFacts
<1>2. PICK log \in Seq(Results) : log = Filed
  BY FiledFacts, ReadsFacts DEF SInv
<1>3. PICK more : more = Append(log, r)
  OBVIOUS
<1>4. ColumnsRead' = ColumnsOf(more)
  <2>1. Filed' = more
    BY <1>2, <1>3
  <2> QED BY <2>1 DEF ReadsRight, ColumnsAgree, ColumnsOf, LastIn
<1>5. ColumnsRead = ColumnsOf(log)
  BY <1>2, ReadsFacts
<1> QED BY <1>1, <1>3, <1>4, <1>5, ColumnsMore DEF LogRead, Results

\* A SELECT is filed and reads nothing into the tables.
LEMMA SelectReads ==
  ASSUME ReadsRight, ReadsRight', Grows, NEW r \in Results, r.stmt.kind = "SELECT",
         Filed' = Append(Filed, r), DOMAIN pagedir' = DOMAIN pagedir
  PROVE  Abstract!TNext
<1>1. TablesRead' = TablesRead
  BY TablesReadSame DEF NoRowFiled
<1>2. Abstract!Select(r.stmt) /\ r.stmt \in Statements
  BY <1>1, OneMoreFiled DEF Abstract!Select, Abstract!Executes
<1> QED BY <1>2 DEF Abstract!TNext

\* A CREATE that is filed adds an empty table.
LEMMA CreateReads ==
  ASSUME ReadsRight, ReadsRight', Grows, storage = "ok",
         NEW r \in Results, r.stmt.kind = "CREATE", Filed' = Append(Filed, r),
         r.stmt.name \notin DOMAIN pagedir,
         pagedir' = Entered(pagedir, r.stmt.name, global_pageno)
  PROVE  Abstract!TNext
<1>1. PICK name : name = r.stmt.name
  OBVIOUS
<1>2. EInv' /\ NoRowFiled /\ SInv
  BY ReadsFacts DEF ReadsRight, ReadInv, SInv, NoRowFiled
<1>3. ASSUME NEW n PROVE TableRead(n)' = TableRead(n)
  BY <1>2, NoNewRow, TableReadSame
<1>4. TableRead(name) = << >>
  <2>1. PICK rows \in Seq(InsertsDone) : rows = Rows(name)
    BY <1>2, RowsAreDone DEF SInv
  <2>2. Len(rows) = 0
    BY <1>1, <1>2, <2>1, NewTableEmpty
  <2>3. DOMAIN rows = {}
    BY <2>1, <2>2
  <2> QED BY <2>1, <2>3 DEF TableRead
<1>5. DOMAIN pagedir' = DOMAIN pagedir \cup {name}
  BY <1>1 DEF Entered
<1>6. TablesRead' = [n \in DOMAIN pagedir' |-> TableRead(n)']
  BY DEF ReadsRight, TablesAgree
<1>7. TablesRead = [n \in DOMAIN pagedir |-> TableRead(n)]
  BY ReadsFacts
<1>8. TablesRead' = [n \in DOMAIN TablesRead \cup {name} |->
                      IF n = name THEN << >> ELSE TablesRead[n]]
  <2>1. ASSUME NEW n \in DOMAIN pagedir \cup {name}
        PROVE  TableRead(n)' = IF n = name THEN << >> ELSE TablesRead[n]
    <3>1. CASE n = name
      BY <1>3, <1>4, <3>1
    <3>2. CASE n # name
      BY <1>3, <1>7, <3>2
    <3> QED BY <3>1, <3>2
  <2>2. DOMAIN TablesRead = DOMAIN pagedir
    BY <1>7
  <2> QED BY <1>5, <1>6, <2>1, <2>2
<1>9. name \notin DOMAIN TablesRead
  BY <1>1, <1>7
<1>10. Abstract!Create(r.stmt) /\ r.stmt \in Statements
  BY <1>1, <1>8, <1>9, OneMoreFiled DEF Abstract!Create, Abstract!Executes
<1> QED BY <1>10 DEF Abstract!TNext

\* A row that was accepted is of its table.
LEMMA RowFitsTable ==
  ASSUME EInv, DoneWell, NEW c \in Statements, NEW s \in Statements, RowBy(c, s)
  PROVE  FitsTable(c, s)
<1>1. PICK m \in 1 .. Len(done) : done[m].stmt = c
  BY DEF RowBy
<1>2. c.kind = "CREATE" /\ s.kind = "INSERT" /\ RowFits(c, s)
  BY DEF RowBy
<1>3. UpTo(c, Len(c.items))
  BY <1>1, <1>2 DEF DoneWell
<1>4. \A i \in 1 .. Len(c.items) : c.items[i].dtype \in DOMAIN TypeCode
  BY <1>2, <1>3 DEF UpTo, ItemOK, Inserting
<1> QED BY <1>2, <1>4 DEF FitsTable, RowFits

\* The row that is read is stored as the tables demand.
LEMMA RowStored ==
  ASSUME NEW c \in Statements, NEW s \in Statements, FitsTable(c, s), ColumnsRead = c.items,
         NEW row,
         row = [i \in DOMAIN Means(c) |-> ColumnRead(Means(c), Tuple(Means(c), Vals(s)), i)]
  PROVE  /\ row \in [DOMAIN s.items -> Abstract!Shown(s)] /\ Abstract!Stored(s, row)
         /\ Len(s.items) = Len(ColumnsRead)
         /\ \A i \in DOMAIN s.items : s.items[i].type = TypeCode[ColumnsRead[i].dtype]
<1>1. PICK n \in Nat : n = Len(s.items) /\ n = Len(c.items)
  BY StatementFacts DEF FitsTable
<1>2. DOMAIN s.items = 1 .. n /\ DOMAIN Means(c) = 1 .. n
  <2>1. s.items \in Seq(InsertItems)
    BY StatementFacts DEF FitsTable, Inserting
  <2> QED BY <1>1, <2>1, MeansFacts DEF FitsTable
<1>3. ASSUME NEW i \in 1 .. n
      PROVE  LET val == s.items[i].val
             IN  \/ row[i] = val
                 \/ /\ c.items[i].dtype = "char" /\ row[i] \in Strings \cup {Garbled}
                    /\ \/ {row[i], val} \subseteq Strings /\ StrLen[row[i]] = 0 /\ StrLen[val] = 0
                       \/ \E j \in 1 .. i : TooLong(c, s, j)
  <2>1. row[i] = ColumnRead(Means(c), Tuple(Means(c), Vals(s)), i)
    BY <1>2
  <2> QED BY <1>1, <2>1, ReadBack
<1>4. ASSUME NEW i \in 1 .. n PROVE row[i] \in Abstract!Shown(s)
  BY <1>2, <1>3 DEF Abstract!Shown
<1>5. row \in [DOMAIN s.items -> Abstract!Shown(s)]
  BY <1>2, <1>4
<1>6. Abstract!Stored(s, row)
  BY <1>2, <1>3 DEF Abstract!Stored, Abstract!BothEmpty, Abstract!Spills, TooLong
<1>7. \A i \in DOMAIN s.items : s.items[i].type = TypeCode[ColumnsRead[i].dtype]
  BY <1>1, <1>2 DEF FitsTable
<1> QED BY <1>1, <1>5, <1>6, <1>7

\* An INSERT that is filed appends its row to its table.
LEMMA InsertReads ==
  ASSUME ReadsRight, ReadsRight', Grows, storage = "ok", storage' = "ok",
         NEW c \in Statements, NEW s \in Statements, RowBy(c, s), ~NoWay(c, s),
         Filed = done, Filed' = done', UNCHANGED pagedir
  PROVE  Abstract!TNext
<1>1. SInv /\ EInv /\ DoneWell /\ EInv'
  BY ReadsFacts DEF ReadsRight, ReadInv, SInv
<1>2. PICK r \in Results : r.stmt = s /\ done' = Append(done, r)
  BY DEF RowBy
<1>3. s.kind = "INSERT" /\ Filed' = Append(Filed, r)
  BY <1>2 DEF RowBy
<1>4. PICK name : name = s.name
  OBVIOUS
<1>5. PICK n \in Nat : n = Len(done) + 1
  <2>1. Len(done) \in Nat
    BY <1>1, FiledFacts DEF SInv
  <2> QED BY <2>1
<1>6. \A a : Rows(a)' = IF a = name THEN Append(Rows(a), n) ELSE Rows(a)
  BY <1>1, <1>2, <1>3, <1>4, <1>5, RowAdded
<1>7. PICK row :
        row = [i \in DOMAIN Means(c) |-> ColumnRead(Means(c), Tuple(Means(c), Vals(s)), i)]
  OBVIOUS
<1>8. AbsRow(n)' = row
  <2>1. Layout(n)' = Means(c) /\ RowTuple(n)' = Tuple(Means(c), Vals(s))
    BY <1>1, <1>5, NewRowTuple
  <2>2. AbsRow(n)' = [i \in DOMAIN Layout(n)' |-> ColumnRead(Layout(n)', RowTuple(n)', i)]
    BY DEF AbsRow, ColumnRead, Offset, Offsets, Sums, ValueRead, Shows, Copied
  <2> QED BY <1>7, <2>1, <2>2
<1>9. ColumnsRead = c.items
  <2>1. PICK m \in 1 .. Len(done) : IsLastCreate(m, Len(done)) /\ done[m].stmt = c
    BY DEF RowBy
  <2>2. PICK log \in Seq(Results) : log = done
    BY <1>1 DEF EInv, EngineTypes
  <2>3. PICK len \in Nat : len = Len(log)
    OBVIOUS
  <2>4. /\ m \in 1 .. len /\ DOMAIN log = 1 .. len /\ log[m].stmt.kind = "CREATE"
        /\ \A o \in m + 1 .. len : log[o].stmt.kind # "CREATE"
    BY <2>1, <2>2, <2>3 DEF IsLastCreate
  <2>5. LastIn(log, len) = m
    BY <2>4, LastIs
  <2>6. ColumnsOf(log) = log[m].stmt.items
    BY <2>3, <2>4, <2>5 DEF ColumnsOf
  <2> QED BY <2>1, <2>2, <2>6, ReadsFacts
<1>10. /\ row \in [DOMAIN s.items -> Abstract!Shown(s)] /\ Abstract!Stored(s, row)
       /\ Len(s.items) = Len(ColumnsRead)
       /\ \A i \in DOMAIN s.items : s.items[i].type = TypeCode[ColumnsRead[i].dtype]
  <2>1. FitsTable(c, s)
    BY <1>1, RowFitsTable
  <2> QED BY <1>7, <1>9, <2>1, RowStored
<1>11. \A a : TableRead(a)' = IF a = name THEN Append(TableRead(a), row) ELSE TableRead(a)
  <2>1. ASSUME NEW a PROVE TableRead(a)' = IF a = name THEN Append(TableRead(a), row) ELSE TableRead(a)
    <3>1. CASE a = name
      <4>1. Rows(a)' = Append(Rows(a), n)
        BY <1>6, <3>1
      <4>2. TableRead(a)' = Append(TableRead(a), AbsRow(n)')
        BY <1>1, <4>1, TableReadMore
      <4> QED BY <1>8, <3>1, <4>2
    <3>2. CASE a # name
      <4>1. Rows(a)' = Rows(a)
        BY <1>6, <3>2
      <4> QED BY <1>1, <3>2, <4>1, TableReadSame
    <3> QED BY <3>1, <3>2
  <2> QED BY <2>1
<1>12. PICK dir : dir = DOMAIN pagedir
  OBVIOUS
<1>13. name \in dir
  BY <1>4, <1>12 DEF NoWay
<1>14. TablesRead = [a \in dir |-> TableRead(a)]
  BY <1>12, ReadsFacts
<1>15. TablesRead' = [a \in dir |-> TableRead(a)']
  <2>1. TablesRead' = [a \in DOMAIN pagedir' |-> TableRead(a)']
    BY DEF ReadsRight, TablesAgree
  <2> QED BY <1>12, <2>1
<1>16. TablesRead' = [TablesRead EXCEPT ![name] = Append(TablesRead[name], row)]
  <2>1. PICK old : old = TablesRead
    OBVIOUS
  <2>2. \A a \in dir : old[a] = TableRead(a)
    BY <1>14, <2>1
  <2>3. old = [a \in dir |-> old[a]] /\ DOMAIN old = dir
    BY <1>14, <2>1
  <2>4. TablesRead' = [a \in dir |-> IF a = name THEN Append(old[a], row) ELSE old[a]]
    BY <1>11, <1>15, <2>2
  <2>5. [old EXCEPT ![name] = Append(old[name], row)]
          = [a \in dir |-> IF a = name THEN Append(old[a], row) ELSE old[a]]
    BY <2>3
  <2> QED BY <2>1, <2>4, <2>5
<1>17. Abstract!Insert(s)
  <2>1. /\ s.name \in DOMAIN TablesRead
        /\ TablesRead' = [TablesRead EXCEPT ![s.name] = Append(@, row)]
    BY <1>4, <1>13, <1>14, <1>16
  <2>2. /\ [m \in DOMAIN Filed |-> Filed[m].stmt]' =
             Append([m \in DOMAIN Filed |-> Filed[m].stmt], s)
        /\ ColumnsRead' = ColumnsRead
    BY <1>2, <1>3, OneMoreFiled
  <2> QED BY <1>3, <1>10, <2>1, <2>2 DEF Abstract!Insert, Abstract!Executes
<1> QED BY <1>17 DEF Abstract!TNext

\* Each step of the session is a statement's, or changes nothing that is read.
LEMMA SessionReads ==
  ASSUME MaxStmts < HeaderMod, ReadsRight, ReadsRight', [SNext]_svars
  PROVE  [Abstract!TNext]_(Abstract!tvars)
<1>1. SInv /\ EInv /\ ReadInv /\ Grows
  BY ReadsFacts, ReadStep DEF ReadsRight
<1>2. CASE UNCHANGED svars
  <2>1. UNCHANGED <<pagedir, storage, done>>
    BY <1>2 DEF svars, evars, store
  <2>2. Filed' = Filed /\ DOMAIN pagedir' = DOMAIN pagedir
    BY <2>1 DEF Filed
  <2> QED BY <1>1, <2>2, ReadsSame
<1>3. CASE storage = "ok" /\ (Compile \/ GenItem \/ GenHalt \/ Exec \/ Exit) /\ UNCHANGED store
  <2>1. DOMAIN pagedir' = DOMAIN pagedir
    BY <1>3 DEF store
  <2>2. \/ Filed' = Filed
        \/ \E r \in Results : r.stmt.kind = "SELECT" /\ Filed' = Append(Filed, r)
    BY <1>1, <1>3, QuietFiles
  <2> QED BY <1>1, <2>1, <2>2, ReadsSame, SelectReads
<1>4. CASE CreateTable
  <2>1. PICK r \in Results : r.stmt = stmt /\ done' = Append(done, r)
    BY <1>1, <1>4, CreateDoes
  <2>2. storage = "ok" /\ Filed = done /\ r.stmt.kind = "CREATE"
    BY <1>1, <1>4, <2>1, CreateDoes
  <2>3. PICK name : name = stmt.name
    OBVIOUS
  <2>4. CASE name \in DOMAIN pagedir
    <3>1. Filed' = Filed /\ UNCHANGED pagedir
      BY <1>1, <1>4, <2>3, <2>4, CreateDoes
    <3> QED BY <1>1, <3>1, ReadsSame
  <2>5. CASE name \notin DOMAIN pagedir
    <3>1. Filed' = done' /\ pagedir' = Entered(pagedir, name, global_pageno)
      BY <1>1, <1>4, <2>3, <2>5, CreateDoes
    <3>2. Filed' = Append(Filed, r) /\ r.stmt.name = name
      BY <2>1, <2>2, <2>3, <3>1
    <3> QED BY <1>1, <2>2, <2>5, <3>1, <3>2, CreateReads
  <2> QED BY <2>4, <2>5
<1>5. CASE InsertRow
  <2>1. storage = "ok" /\ Filed = done /\ UNCHANGED pagedir
    BY <1>1, <1>5, InsertDoes
  <2>2. CASE UNCHANGED <<buffer, storage, done>>
    <3>1. Filed' = Filed
      BY <2>1, <2>2 DEF Filed
    <3> QED BY <1>1, <2>1, <3>1, ReadsSame
  <2>3. CASE Filed' = Filed
    BY <1>1, <2>1, <2>3, ReadsSame
  <2>4. ASSUME NEW c \in Statements, NEW s \in Statements, RowBy(c, s), ~NoWay(c, s),
               storage' = "ok", Filed' = done'
        PROVE  Abstract!TNext
    BY <1>1, <2>1, <2>4, InsertReads
  <2> QED BY <1>1, <1>5, <2>2, <2>3, <2>4, InsertDoes
<1> QED BY <1>2, <1>3, <1>4, <1>5 DEF SNext

\* The session starts as the tables do.
LEMMA ReadsInit ==
  ASSUME SInit
  PROVE  Abstract!TInit
<1>1. done = << >> /\ storage = "ok" /\ DOMAIN pagedir = {}
  BY DEF SInit, EInit
<1>2. Filed = << >> /\ DOMAIN Filed = {}
  BY <1>1 DEF Filed
<1>3. [m \in DOMAIN Filed |-> Filed[m].stmt] = << >>
  BY <1>2
<1>4. TablesRead = << >>
  BY <1>1 DEF TablesRead
<1>5. ColumnsRead = << >>
  BY <1>2 DEF ColumnsRead
<1> QED BY <1>3, <1>4, <1>5 DEF Abstract!TInit

-----------------------------------------------------------------------------

\* Every page holds, byte by byte and one before the other, the rows that were
\* inserted into its table: no later statement, to whatever table, touches
\* them, and every statement done was one the grammar means.
THEOREM BytesStay ==
  ASSUME MaxStmts < HeaderMod
  PROVE  SSpec => []ReadInv
<1>1. ReadInv /\ [SNext]_svars => ReadInv'
  BY ReadStep
<1>2. SInit => ReadInv
  BY ReadInit
<1> QED BY <1>1, <1>2, PTL DEF SSpec

\* The session implements tables of rows: what the statements inserted is read
\* back from the bytes of the pages as it was written, in the order of the
\* insertions, from the table that was named, and no later statement changes
\* it, whatever the statements, the columns and the strings are.
THEOREM TablesImplemented ==
  ASSUME MaxStmts < HeaderMod
  PROVE  SSpec => ImplementsTables
<1>1. SInit => Abstract!TInit
  BY ReadsInit
<1>2. ReadInv => ReadsRight
  BY ReadsTables, ReadsColumns DEF ReadsRight, ReadInv
<1>3. ReadsRight /\ ReadsRight' /\ [SNext]_svars => [Abstract!TNext]_(Abstract!tvars)
  BY SessionReads
<1> QED BY <1>1, <1>2, <1>3, BytesStay, PTL DEF SSpec, ImplementsTables, Abstract!TSpec

=============================================================================
