--------------------------- MODULE FrontEndProofs ---------------------------
(***************************************************************************)
(* What holds of the tokenizer for every text and a region of any size:    *)
(* the texts' pieces are in one token each, and what is written to the     *)
(* region stays in its block.  And of the tokenizer with the parser behind *)
(* it: what is accepted has been understood down to its last piece.        *)
(***************************************************************************)
EXTENDS FrontEnd, ParserProofs, FiniteSetTheorems

-----------------------------------------------------------------------------
(* The matchers.                                                           *)

\* A repeated bracket expression has a length.
LEMMA RunType ==
  ASSUME text \in Seq(STRING), NEW i \in Nat, NEW S
  PROVE  Run(i, S) \in Nat
<1> DEFINE R == {k \in i .. Len(text) : \A j \in i .. k : text[j] \in S}
<1>1. Len(text) \in Nat
  OBVIOUS
<1>2. IsFiniteSet(i .. Len(text))
  BY <1>1, FS_Interval
<1>3. IsFiniteSet(R)
  BY <1>2, FS_Subset
<1>4. Cardinality(R) \in Nat
  BY <1>3, FS_CardinalityType
<1> QED BY <1>4 DEF Run

\* So has every match, and a string has its two quotes.
LEMMA LengthsType ==
  ASSUME text \in Seq(STRING), NEW i \in Nat
  PROVE  /\ Lengths(i) \in [1 .. 7 -> Nat]
         /\ Lengths(i)[4] = 0 \/ Lengths(i)[4] >= 2
<1>1. match_float(i) \in Nat
  <2>1. Run(i, Digits) \in Nat
    BY RunType
  <2>2. i + Run(i, Digits) + 1 \in Nat
    BY <2>1
  <2>3. Run(i + Run(i, Digits) + 1, Digits) \in Nat
    BY <2>2, RunType
  <2> QED BY <2>1, <2>3 DEF match_float
<1>2. match_integer(i) \in Nat
  BY RunType DEF match_integer
<1>3. match_operator(i) \in Nat
  BY DEF match_operator
<1>4. match_string(i) = 0 \/ (match_string(i) \in Nat /\ match_string(i) >= 2)
  <2> DEFINE Inside == WordChars \cup OperatorChars \cup Spaces \cup {".", "?", "\""}
             inside == Run(i + 1, Inside)
             Quoted == Char(i) = "'" /\ Char(i + 1 + inside) = "'"
  <2>1. i + 1 \in Nat
    OBVIOUS
  <2>2. \A S : Run(i + 1, S) \in Nat
    BY <2>1, RunType
  <2>3. inside \in Nat
    BY <2>2
  <2>4. match_string(i) = IF Quoted THEN inside + 2 ELSE 0
    BY DEF match_string
  <2> HIDE DEF inside, Quoted
  <2> QED BY <2>3, <2>4
<1>5. match_keyword(i) \in Nat
  BY DEF match_keyword
<1>6. match_dtype(i) \in Nat
  BY DEF match_dtype
<1>7. match_identifier(i) \in Nat
  BY RunType DEF match_identifier
<1> QED BY <1>1, <1>2, <1>3, <1>4, <1>5, <1>6, <1>7 DEF Lengths

TokenTypes == {"EOQ"} \cup {Types[m] : m \in 1 .. 7}

\* The fourth matcher is the one of strings.
LEMMA TypesType ==
  \A m \in 1 .. 7 : Types[m] = "STRING" => m = 4
<1>1. /\ Types[1] = "FLOAT" /\ Types[2] = "INTEGER" /\ Types[3] = "OPERATOR"
      /\ Types[4] = "STRING" /\ Types[5] = "KEYWORD" /\ Types[6] = "DATATYPE"
      /\ Types[7] = "IDENTIFIER"
  BY DEF Types
<1> TAKE m \in 1 .. 7
<1>2. m = 1 \/ m = 2 \/ m = 3 \/ m = 4 \/ m = 5 \/ m = 6 \/ m = 7
  OBVIOUS
<1> QED BY <1>1, <1>2

\* Some matcher is the first that matches.
LEMMA FirstOfSeven ==
  ASSUME NEW S \in SUBSET (1 .. 7), S # {}
  PROVE  \E m \in S : \A n \in S : m <= n
<1>1. CASE 1 \in S
  BY <1>1
<1>2. CASE 1 \notin S /\ 2 \in S
  BY <1>2
<1>3. CASE {1, 2} \cap S = {} /\ 3 \in S
  BY <1>3
<1>4. CASE {1, 2, 3} \cap S = {} /\ 4 \in S
  BY <1>4
<1>5. CASE {1, 2, 3, 4} \cap S = {} /\ 5 \in S
  BY <1>5
<1>6. CASE {1, 2, 3, 4, 5} \cap S = {} /\ 6 \in S
  BY <1>6
<1>7. CASE {1, 2, 3, 4, 5, 6} \cap S = {}
  <2>1. \A n \in S : n = 7
    <3> TAKE n \in S
    <3>1. n \in 1 .. 7 /\ n \notin {1, 2, 3, 4, 5, 6}
      BY <1>7
    <3> QED BY <3>1
  <2>2. PICK m \in S : TRUE
    OBVIOUS
  <2>3. \A n \in S : m <= n
    BY <2>1
  <2> QED BY <2>3
<1> QED BY <1>1, <1>2, <1>3, <1>4, <1>5, <1>6, <1>7

\* A token that was matched begins at the cursor and is not empty.
LEMMA MatchIsToken ==
  ASSUME text \in Seq(STRING), NEW i \in Nat, Match(i) # NoToken
  PROVE  /\ Match(i) \in [type : TokenTypes, loc : {i}, len : Nat \ {0}]
         /\ Match(i).type = "STRING" => Match(i).len >= 2
<1> DEFINE lens == Lengths(i)
           hits == {m \in DOMAIN lens : lens[m] > 0}
           first == CHOOSE m \in hits : \A h \in hits : m <= h
<1>1. lens \in [1 .. 7 -> Nat] /\ (lens[4] = 0 \/ lens[4] >= 2)
  BY LengthsType
<1>2. hits # {}
  BY DEF Match
<1>3. Match(i) = [type |-> Types[first], loc |-> i, len |-> lens[first]]
  BY <1>2, Zenon DEF Match
<1>4. \E m \in hits : \A h \in hits : m <= h
  <2>1. hits \subseteq 1 .. 7
    BY <1>1
  <2> HIDE DEF hits
  <2> QED BY <1>2, <2>1, FirstOfSeven
<1>5. first \in hits
  <2> HIDE DEF hits
  <2> QED BY <1>4
<1>6. first \in 1 .. 7 /\ lens[first] \in Nat \ {0}
  <2> HIDE DEF first, lens
  <2>1. first \in DOMAIN lens /\ lens[first] > 0
    BY ONLY <1>5
  <2>2. first \in 1 .. 7 /\ lens[first] \in Nat
    BY ONLY <1>1, <2>1
  <2> QED BY ONLY <2>1, <2>2
<1>7. Types[first] \in TokenTypes /\ (Types[first] = "STRING" => first = 4)
  <2> HIDE DEF first
  <2> QED BY <1>6, TypesType DEF TokenTypes
<1>8. Match(i).type = "STRING" => Match(i).len >= 2
  <2> HIDE DEF first, lens
  <2> QED BY <1>1, <1>3, <1>6, <1>7
<1> HIDE DEF first, lens
<1> QED BY <1>3, <1>6, <1>7, <1>8

-----------------------------------------------------------------------------
(* The inductive invariant.                                                *)

Token == [type : TokenTypes, loc : Nat \ {0}, len : Nat]

Region == [at : Nat, size : Nat, written : Nat]

TokTypeOK ==
  /\ text \in Seq(STRING) /\ s \in Nat \ {0}
  /\ tokens \in Seq(Token) /\ blocks \in Seq(Region) /\ used \in Nat

\* No token reaches beyond the cursor, and all are of the text: the token EOQ
\* ends the loop.
Behind ==
  /\ \A k \in DOMAIN tokens : tokens[k].loc + tokens[k].len <= s
  /\ status = "run" => \A k \in DOMAIN tokens : tokens[k].len > 0

TokInv == TokTypeOK /\ Behind /\ BlocksHold /\ TextCovered

\* It holds when tokenize is called.
LEMMA TokInitInv ==
  ASSUME NEW Inputs \in SUBSET Seq(STRING), TokInit(Inputs)
  PROVE  TokInv
<1> USE DEF TokInit
<1>1. TokTypeOK
  BY DEF TokTypeOK
<1>2. Behind
  BY DEF Behind
<1>3. BlocksHold
  BY ArenaAssumption DEF BlocksHold
<1>4. TextCovered
  BY DEF TextCovered
<1> QED BY <1>1, <1>2, <1>3, <1>4 DEF TokInv

\* The cursor passes a space.
LEMMA SpaceCovered ==
  ASSUME TokTypeOK, Behind, TextCovered, Char(s) \in Spaces
  PROVE  \A i \in 1 .. s : Covered(i, tokens)
<1> TAKE i \in 1 .. s
<1>1. CASE i < s
  <2>1. i \in 1 .. s - 1
    BY <1>1 DEF TokTypeOK
  <2> QED BY <2>1 DEF TextCovered
<1>2. CASE i = s
  <2>1. Holders(s, tokens) = {}
    <3> SUFFICES ASSUME NEW k \in DOMAIN tokens, s < tokens[k].loc + tokens[k].len
                 PROVE  FALSE
      BY DEF Holders
    <3>1. tokens[k] \in Token
      BY DEF TokTypeOK
    <3> QED BY <3>1 DEF Behind, Token, TokTypeOK
  <2> QED BY <1>2, <2>1 DEF Covered
<1>3. i < s \/ i = s
  BY DEF TokTypeOK
<1> QED BY <1>1, <1>2, <1>3

\* What ends by some place has no piece from there on, and begins before it.
LEMMA NothingBeyond ==
  ASSUME NEW i \in Nat, NEW loc \in Nat, NEW len \in Nat, NEW end \in Nat,
         i < loc + len, loc + len <= end, i >= end
  PROVE  FALSE
OBVIOUS

LEMMA EndsLater ==
  ASSUME NEW loc \in Nat, NEW len \in Nat, NEW end \in Nat, len > 0, loc + len <= end
  PROVE  loc < end
OBVIOUS

\* The cursor passes a token that begins there.
LEMMA TokenCovered ==
  ASSUME TokTypeOK, Behind, TextCovered, status = "run",
         NEW t \in Token, t.loc = s, t.len > 0,
         NEW list \in Seq(Token), Len(list) = Len(tokens) + 1, list[Len(list)] = t,
         \A k \in 1 .. Len(tokens) : list[k] = tokens[k],
         NEW i \in 1 .. s + t.len - 1
  PROVE  Covered(i, list)
<1> DEFINE n == Len(tokens) + 1
<1>1. /\ DOMAIN tokens = 1 .. n - 1 /\ DOMAIN list = 1 .. n /\ n \in Nat
      /\ \A k \in 1 .. n - 1 : list[k] = tokens[k] /\ tokens[k] \in Token
      /\ list[n] = t
  BY DEF TokTypeOK
<1>2. \A k \in 1 .. n - 1 : list[k].loc + list[k].len <= s /\ list[k].loc < s
  <2> TAKE k \in 1 .. n - 1
  <2>1. tokens[k].len > 0 /\ tokens[k].loc + tokens[k].len <= s
    BY <1>1 DEF Behind
  <2>2. tokens[k].loc \in Nat /\ tokens[k].len \in Nat /\ s \in Nat
    BY <1>1 DEF Token, TokTypeOK
  <2>3. tokens[k].loc < s
    BY <2>1, <2>2, EndsLater
  <2> QED BY <1>1, <2>1, <2>3
<1>3. s \in Nat /\ t.loc \in Nat /\ t.len \in Nat /\ i \in Nat /\ i < s + t.len
  BY DEF TokTypeOK, Token
<1> HIDE DEF n
<1>4. CASE i < s
  <2>1. n \notin Holders(i, list)
    BY <1>1, <1>3, <1>4 DEF Holders
  <2>2. Holders(i, list) = Holders(i, tokens)
    <3>1. ASSUME NEW k \in Holders(i, list) PROVE k \in Holders(i, tokens)
      <4>1. k \in 1 .. n - 1
        BY <1>1, <2>1 DEF Holders
      <4> QED BY <1>1, <3>1, <4>1 DEF Holders
    <3>2. ASSUME NEW k \in Holders(i, tokens) PROVE k \in Holders(i, list)
      BY <1>1, <3>2 DEF Holders
    <3> QED BY <3>1, <3>2
  <2>3. Covered(i, tokens)
    <3>1. i \in 1 .. s - 1
      BY <1>3, <1>4
    <3> QED BY <3>1 DEF TextCovered
  <2>4. CASE Holders(i, tokens) = {}
    BY <2>2, <2>3, <2>4 DEF Covered
  <2>5. CASE Holders(i, tokens) # {}
    <3>1. PICK k \in Holders(i, tokens) :
            /\ Holders(i, tokens) = {k}
            /\ \A j \in DOMAIN tokens : j < k => tokens[j].loc < tokens[k].loc
      BY <2>3, <2>5 DEF Covered
    <3>2. k \in 1 .. n - 1
      BY <1>1 DEF Holders
    <3>3. \A j \in DOMAIN list : j < k => list[j].loc < list[k].loc
      <4> TAKE j \in DOMAIN list
      <4> HAVE j < k
      <4>1. j \in 1 .. n - 1
        BY <1>1, <3>2
      <4> QED BY <1>1, <3>1, <3>2, <4>1
    <3> QED BY <2>2, <3>1, <3>3 DEF Covered
  <2> QED BY <2>4, <2>5
<1>5. CASE i >= s
  <2>1. n \in Holders(i, list)
    BY <1>1, <1>3, <1>5 DEF Holders
  <2>2. ASSUME NEW k \in Holders(i, list) PROVE k = n
    <3> SUFFICES ASSUME k # n PROVE FALSE
      OBVIOUS
    <3>1. k \in 1 .. n - 1 /\ i < list[k].loc + list[k].len
      BY <1>1, <2>2 DEF Holders
    <3>2. list[k].loc + list[k].len <= s
      BY <1>2, <3>1
    <3>3. list[k].loc \in Nat /\ list[k].len \in Nat
      BY <1>1, <3>1 DEF Token
    <3> QED BY <1>3, <1>5, <3>1, <3>2, <3>3, NothingBeyond
  <2>3. Holders(i, list) = {n}
    BY <2>1, <2>2
  <2>4. \A j \in DOMAIN list : j < n => list[j].loc < list[n].loc
    BY <1>1, <1>2
  <2> QED BY <2>1, <2>3, <2>4 DEF Covered
<1>6. i < s \/ i >= s
  BY <1>3
<1> QED BY <1>4, <1>5, <1>6

\* BlocksHold of a list of blocks and the place where the next will be.
Hold(list, end) ==
  /\ \A b \in DOMAIN list :
       /\ list[b].written <= list[b].size
       /\ list[b].at + list[b].size <= IF b = Len(list) THEN end ELSE list[b + 1].at
  /\ end <= ArenaSize

\* region_alloc keeps them apart.
LEMMA OneMoreHolds ==
  ASSUME NEW list \in Seq(Region), NEW end \in Nat, Hold(list, end),
         NEW size \in Nat, NEW n \in Nat, n <= size, end + size <= ArenaSize
  PROVE  /\ Append(list, Block(end, size, n)) \in Seq(Region)
         /\ Hold(Append(list, Block(end, size, n)), end + size)
<1> DEFINE new == Append(list, Block(end, size, n))
<1>1. Block(end, size, n) \in Region
  BY DEF Block, Region
<1>2. new \in Seq(Region)
  BY <1>1
<1> PICK m \in Nat : m = Len(list)
  OBVIOUS
<1>3. /\ Len(new) = m + 1 /\ DOMAIN list = 1 .. m /\ DOMAIN new = 1 .. m + 1
      /\ \A b \in 1 .. m : new[b] = list[b] /\ list[b] \in Region
      /\ new[m + 1] = Block(end, size, n)
  OBVIOUS
<1> HIDE DEF new
<1>4. ASSUME NEW b \in 1 .. m + 1
      PROVE  /\ new[b].written <= new[b].size
             /\ new[b].at + new[b].size <= IF b = m + 1 THEN end + size ELSE new[b + 1].at
  <2>1. CASE b = m + 1
    BY <1>3, <2>1 DEF Block
  <2>2. CASE b = m
    <3>1. b \in 1 .. m /\ b # m + 1
      BY <2>2
    <3>2. new[b + 1].at = end
      BY <1>3, <2>2 DEF Block
    <3>3. list[b].written <= list[b].size /\ list[b].at + list[b].size <= end
      BY <1>3, <2>2, <3>1 DEF Hold
    <3> QED BY <1>3, <3>1, <3>2, <3>3
  <2>3. CASE b < m
    <3>1. b \in 1 .. m /\ b + 1 \in 1 .. m /\ b # m /\ b # m + 1
      BY <2>3
    <3>2. new[b] = list[b] /\ new[b + 1] = list[b + 1]
      BY <1>3, <3>1
    <3>3. list[b].written <= list[b].size /\ list[b].at + list[b].size <= list[b + 1].at
      BY <1>3, <3>1 DEF Hold
    <3> QED BY <3>1, <3>2, <3>3
  <2> QED BY <2>1, <2>2, <2>3
<1> QED BY <1>2, <1>3, <1>4 DEF Hold

-----------------------------------------------------------------------------
(* The steps.                                                              *)

\* The text does not change: what is covered stays so.
LEMMA TextCoveredNext ==
  ASSUME UNCHANGED text, \A i \in 1 .. s' - 1 : Covered(i, tokens')
  PROVE  TextCovered'
<1> SUFFICES ASSUME NEW i \in 1 .. s' - 1 PROVE Covered(i, tokens)'
  BY DEF TextCovered
<1>1. Covered(i, tokens')
  OBVIOUS
<1>2. Char(i)' = Char(i)
  BY DEF Char
<1>3. Holders(i, tokens)' = Holders(i, tokens')
  BY DEF Holders
<1> QED BY <1>1, <1>2, <1>3 DEF Covered

\* The list of tokens, the cursor and the blocks stay.
LEMMA StaysInv ==
  ASSUME TokInv, UNCHANGED <<text, s, tokens, blocks, used>>,
         status' = "run" => status = "run"
  PROVE  TokInv'
<1> USE DEF TokInv
<1>1. TokTypeOK'
  BY DEF TokTypeOK
<1>2. Behind'
  BY DEF Behind
<1>3. BlocksHold'
  BY DEF BlocksHold
<1>4. TextCovered'
  <2>1. \A i \in 1 .. s' - 1 : Covered(i, tokens')
    BY DEF TextCovered
  <2> QED BY <2>1, TextCoveredNext
<1> QED BY <1>1, <1>2, <1>3, <1>4

LEMMA SkipSpaceInv == TokInv /\ SkipSpace => TokInv'
<1> SUFFICES ASSUME TokInv, SkipSpace PROVE TokInv'
  OBVIOUS
<1> USE DEF TokInv, SkipSpace
<1>1. TokTypeOK'
  BY DEF TokTypeOK
<1>2. Behind'
  <2>1. \A k \in DOMAIN tokens : tokens[k].loc + tokens[k].len <= s + 1
    <3> TAKE k \in DOMAIN tokens
    <3>1. tokens[k] \in Token
      BY DEF TokTypeOK
    <3> QED BY <3>1 DEF Behind, TokTypeOK, Token
  <2> QED BY <2>1 DEF Behind
<1>3. BlocksHold'
  BY DEF BlocksHold
<1>4. TextCovered'
  <2>1. \A i \in 1 .. s : Covered(i, tokens)
    BY SpaceCovered
  <2>2. s' - 1 = s /\ tokens' = tokens /\ text' = text
    BY DEF TokTypeOK
  <2>3. \A i \in 1 .. s' - 1 : Covered(i, tokens')
    BY <2>1, <2>2
  <2> QED BY <2>2, <2>3, TextCoveredNext
<1> QED BY <1>1, <1>2, <1>3, <1>4

LEMMA QuitsInv ==
  ASSUME TokInv, NEW how \in {"exit", "abort"}, Quits(how)
  PROVE  TokInv'
BY StaysInv DEF Quits

LEMMA TakeTokenInv == TokInv /\ TakeToken => TokInv'
<1> SUFFICES ASSUME TokInv, TakeToken PROVE TokInv'
  OBVIOUS
<1> DEFINE t == Match(s)
           size == TokenSize + BufferSize(t)
<1>1. t # NoToken /\ status = "run"
  BY DEF TakeToken, Tokenizing
<1>2. /\ t \in Token /\ t.loc = s /\ t.len > 0
      /\ t.type = "STRING" => t.len >= 2
  BY <1>1, MatchIsToken DEF TokInv, TokTypeOK, Token
<1>3. CASE Quits("abort")
  BY <1>3, QuitsInv
<1>4. CASE ~Quits("abort")
  <2>1. /\ ~(used + size > ArenaSize)
        /\ tokens' = Append(tokens, t)
        /\ blocks' = blocks \o Allocated(t)
        /\ used' = used + size
        /\ s' = s + t.len
        /\ UNCHANGED <<text, status>>
    BY <1>4 DEF TakeToken, After
  <2> HIDE DEF t
  <2>2. /\ BufferSize(t) \in Nat /\ Written(t) \in Nat
        /\ Written(t) <= BufferSize(t) /\ TokenSize \in Nat /\ size \in Nat
    BY <1>2, ArenaAssumption DEF BufferSize, Written, Token
  <2>3. /\ blocks' \in Seq(Region) /\ Hold(blocks', used')
    <3> DEFINE one == Append(blocks, Block(used, TokenSize, TokenSize))
               two == Append(one, Block(used + TokenSize, BufferSize(t), Written(t)))
    <3>1. blocks \in Seq(Region) /\ used \in Nat /\ Hold(blocks, used) /\ ArenaSize \in Nat
      BY ArenaAssumption DEF TokInv, TokTypeOK, BlocksHold, Hold
    <3>2. used + TokenSize <= ArenaSize /\ used + TokenSize + BufferSize(t) <= ArenaSize
      <4>1. ~(used + (TokenSize + BufferSize(t)) > ArenaSize)
        BY <2>1
      <4> QED BY ONLY <2>2, <3>1, <4>1
    <3>3. one \in Seq(Region) /\ Hold(one, used + TokenSize)
      BY <2>2, <3>1, <3>2, OneMoreHolds
    <3>4. used + TokenSize \in Nat
      BY <2>2, <3>1
    <3>5. two \in Seq(Region) /\ Hold(two, used + TokenSize + BufferSize(t))
      <4> HIDE DEF one
      <4> QED BY <2>2, <3>2, <3>3, <3>4, OneMoreHolds
    <3>6. blocks' = two
      <4>1. Block(used, TokenSize, TokenSize) \in Region
            /\ Block(used + TokenSize, BufferSize(t), Written(t)) \in Region
        BY <2>2, <3>1, <3>4 DEF Block, Region
      <4> QED BY <2>1, <3>1, <4>1 DEF Allocated
    <3>7. used' = used + TokenSize + BufferSize(t)
      BY <2>1, <2>2, <3>1
    <3> HIDE DEF two, one
    <3> QED BY <3>5, <3>6, <3>7
  <2>4. BlocksHold'
    BY <2>3 DEF BlocksHold, Hold
  <2>5. TokTypeOK'
    <3>1. tokens' \in Seq(Token)
      BY <1>2, <2>1 DEF TokInv, TokTypeOK
    <3>2. s' \in Nat \ {0}
      BY <1>2, <2>1 DEF TokInv, TokTypeOK, Token
    <3>3. used' \in Nat
      <4>1. used \in Nat /\ size \in Nat /\ used' = used + size
        BY <2>1, <2>2 DEF TokInv, TokTypeOK
      <4> QED BY ONLY <4>1
    <3>4. text' \in Seq(STRING)
      BY <2>1 DEF TokInv, TokTypeOK
    <3> QED BY <2>3, <3>1, <3>2, <3>3, <3>4 DEF TokTypeOK
  <2>6. Behind'
    <3>1. ASSUME NEW k \in DOMAIN tokens'
          PROVE  tokens'[k].loc + tokens'[k].len <= s + t.len /\ tokens'[k].len > 0
      <4>1. CASE k = Len(tokens) + 1
        BY <1>2, <2>1, <4>1 DEF TokInv, TokTypeOK, Token
      <4>2. CASE k \in DOMAIN tokens
        <5>1. tokens'[k] = tokens[k] /\ tokens[k] \in Token
          BY <2>1, <4>2 DEF TokInv, TokTypeOK
        <5>2. tokens[k].loc + tokens[k].len <= s /\ tokens[k].len > 0
          BY <1>1, <4>2 DEF TokInv, Behind
        <5>3. tokens[k].loc + tokens[k].len \in Nat /\ s \in Nat /\ t.len \in Nat
          BY <1>2, <5>1 DEF TokInv, TokTypeOK, Token
        <5> QED BY <5>1, <5>2, <5>3
      <4> QED BY <2>1, <4>1, <4>2 DEF TokInv, TokTypeOK
    <3> QED BY <2>1, <3>1 DEF Behind
  <2>7. TextCovered'
    <3>1. \A i \in 1 .. s + t.len - 1 : Covered(i, tokens')
      <4>1. /\ tokens' \in Seq(Token) /\ Len(tokens') = Len(tokens) + 1
            /\ tokens'[Len(tokens')] = t
            /\ \A k \in 1 .. Len(tokens) : tokens'[k] = tokens[k]
        BY <1>2, <2>1 DEF TokInv, TokTypeOK
      <4> QED BY <1>1, <1>2, <4>1, TokenCovered DEF TokInv
    <3>2. s' = s + t.len
      BY <2>1
    <3>3. ASSUME NEW i \in 1 .. s' - 1 PROVE Covered(i, tokens')
      <4>1. s \in Nat /\ t.len \in Nat /\ s' \in Nat
        BY <1>2, <2>5 DEF TokInv, TokTypeOK, Token
      <4>2. i \in 1 .. s + t.len - 1
        BY <3>2, <4>1
      <4> QED BY <3>1, <4>2
    <3> QED BY <2>1, <3>3, TextCoveredNext
  <2> QED BY <2>4, <2>5, <2>6, <2>7 DEF TokInv
<1> QED BY <1>3, <1>4

LEMMA EndOfTextInv == TokInv /\ EndOfText => TokInv'
<1> SUFFICES ASSUME TokInv, EndOfText PROVE TokInv'
  OBVIOUS
<1> DEFINE t == [type |-> "EOQ", loc |-> s, len |-> 0]
<1>1. CASE Quits("abort")
  BY <1>1, QuitsInv
<1>2. CASE ~Quits("abort")
  <2>1. /\ ~(used + TokenSize > ArenaSize)
        /\ tokens' = Append(tokens, t)
        /\ blocks' = Append(blocks, Block(used, TokenSize, TokenSize))
        /\ used' = used + TokenSize
        /\ status' = "ok"
        /\ UNCHANGED <<text, s>>
    BY <1>2 DEF EndOfText
  <2>2. t \in Token
    BY DEF TokInv, TokTypeOK, Token, TokenTypes
  <2>3. /\ blocks' \in Seq(Region) /\ Hold(blocks', used')
    <3>1. blocks \in Seq(Region) /\ used \in Nat /\ Hold(blocks, used) /\ TokenSize \in Nat
          /\ ArenaSize \in Nat
      BY ArenaAssumption DEF TokInv, TokTypeOK, BlocksHold, Hold
    <3>2. used + TokenSize <= ArenaSize
      BY <2>1, <3>1
    <3> QED BY <2>1, <3>1, <3>2, OneMoreHolds
  <2>4. BlocksHold'
    BY <2>3 DEF BlocksHold, Hold
  <2>5. TokTypeOK'
    BY <2>1, <2>2, <2>3, ArenaAssumption DEF TokInv, TokTypeOK
  <2>6. Behind'
    <3>1. ASSUME NEW k \in DOMAIN tokens'
          PROVE  tokens'[k].loc + tokens'[k].len <= s
      <4>1. CASE k = Len(tokens) + 1
        BY <2>1, <4>1 DEF TokInv, TokTypeOK
      <4>2. CASE k \in DOMAIN tokens
        BY <2>1, <4>2 DEF TokInv, TokTypeOK, Behind
      <4> QED BY <2>1, <4>1, <4>2 DEF TokInv, TokTypeOK
    <3> QED BY <2>1, <3>1 DEF Behind
  <2>7. TextCovered'
    <3>1. ASSUME NEW i \in 1 .. s - 1 PROVE Covered(i, tokens')
      <4>1. Holders(i, tokens') = Holders(i, tokens)
        BY <2>1 DEF TokInv, TokTypeOK, Holders
      <4>2. Covered(i, tokens)
        BY DEF TokInv, TextCovered
      <4>3. ASSUME NEW k \in Holders(i, tokens), NEW j \in DOMAIN tokens', j < k
            PROVE  /\ k \in DOMAIN tokens /\ tokens'[k] = tokens[k]
                   /\ j \in DOMAIN tokens /\ tokens'[j] = tokens[j]
        BY <2>1, <4>3 DEF TokInv, TokTypeOK, Holders
      <4>4. CASE Holders(i, tokens) = {}
        BY <4>1, <4>2, <4>4 DEF Covered
      <4>5. CASE Holders(i, tokens) # {}
        <5>1. PICK k \in Holders(i, tokens) :
                /\ Holders(i, tokens) = {k}
                /\ \A j \in DOMAIN tokens : j < k => tokens[j].loc < tokens[k].loc
          BY <4>2, <4>5 DEF Covered
        <5>2. \A j \in DOMAIN tokens' : j < k => tokens'[j].loc < tokens'[k].loc
          BY <4>3, <5>1
        <5> QED BY <4>1, <5>1, <5>2 DEF Covered
      <4> QED BY <4>4, <4>5
    <3>2. \A i \in 1 .. s' - 1 : Covered(i, tokens')
      BY <2>1, <3>1
    <3> QED BY <2>1, <3>2, TextCoveredNext
  <2> QED BY <2>4, <2>5, <2>6, <2>7 DEF TokInv
<1> QED BY <1>1, <1>2

LEMMA StepTokInv == TokInv /\ [tokenize]_tokvars => TokInv'
<1> SUFFICES ASSUME TokInv, [tokenize]_tokvars PROVE TokInv'
  OBVIOUS
<1>1. CASE SkipSpace
  BY <1>1, SkipSpaceInv
<1>2. CASE TakeToken
  BY <1>2, TakeTokenInv
<1>3. CASE UnknownToken
  BY <1>3, QuitsInv DEF UnknownToken
<1>4. CASE EndOfText
  BY <1>4, EndOfTextInv
<1>5. CASE UNCHANGED tokvars
  BY <1>5, StaysInv DEF tokvars
<1> QED BY <1>1, <1>2, <1>3, <1>4, <1>5 DEF tokenize

-----------------------------------------------------------------------------
(* No token is cut short.                                                  *)

\* A repeated bracket expression that does not match has length 0; one that
\* matches a single piece has length 1.
LEMMA RunNothing ==
  ASSUME text \in Seq(STRING), NEW i \in Nat, NEW S, Char(i) \notin S
  PROVE  Run(i, S) = 0
<1> DEFINE R == {k \in i .. Len(text) : \A j \in i .. k : text[j] \in S}
<1>1. R = {}
  <2> SUFFICES ASSUME NEW k \in R PROVE FALSE
    OBVIOUS
  <2>1. Len(text) \in Nat /\ k \in i .. Len(text) /\ \A j \in i .. k : text[j] \in S
    OBVIOUS
  <2>2. i \in i .. k /\ i <= Len(text)
    BY <2>1
  <2>3. text[i] \in S
    BY <2>1, <2>2
  <2> QED BY <2>2, <2>3 DEF Char
<1>2. Run(i, S) = Cardinality(R)
  BY DEF Run
<1> HIDE DEF R
<1> QED BY <1>1, <1>2, FS_EmptySet

LEMMA RunOne ==
  ASSUME text \in Seq(STRING), NEW i \in Nat, NEW S, "NUL" \notin S,
         Char(i) \in S, Char(i + 1) \notin S
  PROVE  Run(i, S) = 1
<1> DEFINE R == {k \in i .. Len(text) : \A j \in i .. k : text[j] \in S}
<1>1. Len(text) \in Nat /\ i <= Len(text) /\ text[i] \in S
  BY DEF Char, NUL
<1>2. R = {i}
  <2>1. i \in R
    BY <1>1
  <2>2. ASSUME NEW k \in R PROVE k = i
    <3> SUFFICES ASSUME k # i PROVE FALSE
      OBVIOUS
    <3>1. k \in i .. Len(text) /\ \A j \in i .. k : text[j] \in S
      OBVIOUS
    <3>2. i + 1 \in i .. k /\ i + 1 <= Len(text)
      BY <1>1, <3>1
    <3>3. text[i + 1] \in S
      BY <3>1, <3>2
    <3> QED BY <3>2, <3>3 DEF Char
  <2> QED BY <2>1, <2>2
<1>3. Run(i, S) = Cardinality(R)
  BY DEF Run
<1> HIDE DEF R
<1> QED BY <1>2, <1>3, FS_Singleton

\* The first piece of a token tells most matchers to give up.
LEMMA FirstPiece ==
  /\ \A c \in Digits : c \notin OperatorChars \cup Letters \cup {"'"}
  /\ \A c \in OperatorChars : c \notin Digits \cup Letters \cup {"'"}
  /\ \A c \in Letters : c \notin Digits \cup OperatorChars \cup {"'"}
  /\ "'" \notin Digits \cup Letters \cup OperatorChars
  /\ "NUL" \notin WordChars
  /\ Letters = KeywordWords \cup DatatypeWords \cup {"or", "and", "der", "a"}
  /\ Letters \subseteq WordChars
  /\ \A c \in KeywordWords : c \notin DatatypeWords \cup {"or", "and"}
  /\ \A c \in DatatypeWords : c \notin {"or", "and"}
BY DEF Digits, OperatorChars, Letters, KeywordWords, DatatypeWords, WordChars

\* What Match returns: the first matcher that matches.
LEMMA MatchFirst ==
  ASSUME text \in Seq(STRING), NEW i \in Nat, Match(i) # NoToken
  PROVE  \E first \in 1 .. 7 :
           /\ Lengths(i)[first] > 0 /\ \A h \in 1 .. 7 : h < first => Lengths(i)[h] = 0
           /\ Match(i) = [type |-> Types[first], loc |-> i, len |-> Lengths(i)[first]]
<1> DEFINE lens == Lengths(i)
           hits == {m \in DOMAIN lens : lens[m] > 0}
           first == CHOOSE m \in hits : \A h \in hits : m <= h
<1>1. lens \in [1 .. 7 -> Nat]
  BY LengthsType
<1>2. hits # {}
  BY DEF Match
<1>3. Match(i) = [type |-> Types[first], loc |-> i, len |-> lens[first]]
  BY <1>2, Zenon DEF Match
<1>4. hits \subseteq 1 .. 7 /\ \A h \in 1 .. 7 : h \notin hits => lens[h] = 0
  <2> HIDE DEF lens
  <2> QED BY ONLY <1>1
<1>5. \A h \in hits : lens[h] > 0
  OBVIOUS
<1> HIDE DEF hits, lens
<1>6. \E m \in hits : \A h \in hits : m <= h
  BY <1>2, <1>4, FirstOfSeven
<1>7. first \in hits /\ \A h \in hits : first <= h
  BY <1>6
<1> HIDE DEF first
<1>8. \A h \in 1 .. 7 : h < first => lens[h] = 0
  <2> TAKE h \in 1 .. 7
  <2>1. first \in 1 .. 7
    BY <1>4, <1>7
  <2> QED BY <1>4, <1>7, <2>1
<1> QED BY <1>3, <1>4, <1>5, <1>7, <1>8 DEF lens

\* Which matchers can match, by the first piece.
LEMMA Lengths7 ==
  ASSUME NEW i
  PROVE  /\ Lengths(i)[1] = match_float(i) /\ Lengths(i)[2] = match_integer(i)
         /\ Lengths(i)[3] = match_operator(i) /\ Lengths(i)[4] = match_string(i)
         /\ Lengths(i)[5] = match_keyword(i) /\ Lengths(i)[6] = match_dtype(i)
         /\ Lengths(i)[7] = match_identifier(i)
BY DEF Lengths

LEMMA NoNumber ==
  ASSUME text \in Seq(STRING), NEW i \in Nat, Char(i) \notin Digits
  PROVE  match_float(i) = 0 /\ match_integer(i) = 0
<1>1. Run(i, Digits) = 0
  BY RunNothing
<1> QED BY <1>1 DEF match_float, match_integer

LEMMA NoOperator ==
  ASSUME NEW i, Char(i) \notin OperatorChars \cup {"or", "and"}
  PROVE  match_operator(i) = 0
BY DEF match_operator, OperatorChars

LEMMA NoString ==
  ASSUME NEW i, Char(i) # "'"
  PROVE  match_string(i) = 0
BY DEF match_string

LEMMA NoWord ==
  ASSUME NEW i, Char(i) \notin Letters
  PROVE  match_keyword(i) = 0 /\ match_dtype(i) = 0 /\ match_identifier(i) = 0
<1>1. Char(i) \notin KeywordWords /\ Char(i) \notin DatatypeWords /\ Char(i) # "or"
  BY DEF Letters
<1> QED BY <1>1 DEF match_keyword, match_dtype, match_identifier

\* A number that ends in a fraction is longer than its whole part.
LEMMA FloatIsLonger ==
  ASSUME text \in Seq(STRING), NEW i \in Nat, match_float(i) > 0
  PROVE  match_float(i) >= match_integer(i)
<1>1. Run(i, Digits) \in Nat
  BY RunType
<1>2. i + Run(i, Digits) + 1 \in Nat
  BY <1>1
<1>3. Run(i + Run(i, Digits) + 1, Digits) \in Nat
  BY <1>2, RunType
<1>4. match_float(i) = Run(i, Digits) + 1 + Run(i + Run(i, Digits) + 1, Digits)
  BY DEF match_float
<1> QED BY <1>1, <1>3, <1>4 DEF match_integer

\* A keyword or datatype is a word to its end.
LEMMA WordIsAll ==
  ASSUME text \in Seq(STRING), NEW i \in Nat, Char(i) \in KeywordWords \cup DatatypeWords
  PROVE  /\ match_keyword(i) > 0 => match_keyword(i) = 1 /\ match_identifier(i) = 1
         /\ match_dtype(i) > 0 => match_dtype(i) = 1 /\ match_identifier(i) = 1
<1>1. Char(i) \in Letters /\ Char(i) \in WordChars /\ Char(i) # "or" /\ "NUL" \notin WordChars
  BY FirstPiece
<1>2. WordEnds(i + 1) => match_identifier(i) = 1
  <2> SUFFICES ASSUME WordEnds(i + 1) PROVE match_identifier(i) = 1
    OBVIOUS
  <2>1. Char(i + 1) \notin WordChars
    BY DEF WordEnds
  <2>2. Run(i, WordChars) = 1
    BY <1>1, <2>1, RunOne
  <2> QED BY <1>1, <2>2 DEF match_identifier
<1>3. match_keyword(i) > 0 => WordEnds(i + 1) /\ match_keyword(i) = 1
  BY <1>1 DEF match_keyword
<1>4. match_dtype(i) > 0 => WordEnds(i + 1) /\ match_dtype(i) = 1
  BY DEF match_dtype
<1> QED BY <1>2, <1>3, <1>4

\* A list of seven lengths, of which the first that is not 0 is the longest.
LEMMA FirstIsLongest ==
  ASSUME NEW lens \in [1 .. 7 -> Nat], NEW first \in 1 .. 7,
         \A h \in 1 .. 7 : h < first => lens[h] = 0,
         \A h \in 1 .. 7 : h > first => lens[h] <= lens[first]
  PROVE  \A h \in 1 .. 7 : lens[h] <= lens[first]
<1> TAKE h \in 1 .. 7
<1>1. h < first \/ h = first \/ h > first
  OBVIOUS
<1> QED BY <1>1

\* The matcher that comes first matches most, but for `or' and `and'.
LEMMA FirstMatchIsLongest ==
  ASSUME text \in Seq(STRING), NEW i \in Nat, Match(i) # NoToken
  PROVE  \/ \A m \in 1 .. 7 : Lengths(i)[m] <= Match(i).len
         \/ Match(i).type = "OPERATOR" /\ Char(i) \in {"or", "and"}
<1> DEFINE lens == Lengths(i)
<1>1. PICK first \in 1 .. 7 :
        /\ lens[first] > 0 /\ \A h \in 1 .. 7 : h < first => lens[h] = 0
        /\ Match(i) = [type |-> Types[first], loc |-> i, len |-> lens[first]]
  BY MatchFirst
<1>2. lens \in [1 .. 7 -> Nat]
  BY LengthsType
<1>3. Match(i).len = lens[first] /\ Match(i).type = Types[first]
  BY <1>1
<1>4. /\ lens[1] = match_float(i) /\ lens[2] = match_integer(i)
      /\ lens[3] = match_operator(i) /\ lens[4] = match_string(i)
      /\ lens[5] = match_keyword(i) /\ lens[6] = match_dtype(i)
      /\ lens[7] = match_identifier(i)
  BY Lengths7
<1> HIDE DEF lens
<1>5. SUFFICES ASSUME ~(Types[first] = "OPERATOR" /\ Char(i) \in {"or", "and"})
               PROVE  \A h \in 1 .. 7 : h > first => lens[h] <= lens[first]
  BY <1>1, <1>2, <1>3, FirstIsLongest DEF lens
<1>6. CASE Char(i) \in Digits
  <2>1. lens[3] = 0 /\ lens[4] = 0 /\ lens[5] = 0 /\ lens[6] = 0 /\ lens[7] = 0
    <3>1. Char(i) \notin OperatorChars \cup Letters \cup {"'"}
          /\ Char(i) \notin {"or", "and"}
      BY <1>6, FirstPiece
    <3> QED BY <1>4, <3>1, NoOperator, NoString, NoWord
  <2>2. lens[1] > 0 => lens[1] >= lens[2]
    BY <1>4, FloatIsLonger
  <2>3. first = 1 \/ first = 2
    BY <1>1, <2>1
  <2> QED BY <1>2, <2>1, <2>2, <2>3, <1>1
<1>7. CASE Char(i) \in OperatorChars \cup {"'"}
  <2>1. Char(i) \notin Digits \cup Letters /\ Char(i) \notin {"or", "and"}
    BY <1>7, FirstPiece
  <2>2. lens[1] = 0 /\ lens[2] = 0 /\ lens[5] = 0 /\ lens[6] = 0 /\ lens[7] = 0
    BY <1>4, <2>1, NoNumber, NoWord
  <2>3. lens[3] = 0 \/ lens[4] = 0
    <3>1. Char(i) # "'" \/ Char(i) \notin OperatorChars
      BY FirstPiece
    <3> QED BY <1>4, <2>1, <3>1, NoOperator, NoString
  <2> QED BY <1>1, <1>2, <2>2, <2>3
<1>8. CASE Char(i) \in KeywordWords \cup DatatypeWords
  <2>1. /\ Char(i) \notin Digits \cup OperatorChars \cup {"'"}
        /\ Char(i) \notin {"or", "and"}
    BY <1>8, FirstPiece
  <2>2. lens[1] = 0 /\ lens[2] = 0 /\ lens[3] = 0 /\ lens[4] = 0
    BY <1>4, <2>1, NoNumber, NoOperator, NoString
  <2>3. /\ lens[5] > 0 => lens[5] = 1 /\ lens[7] = 1
        /\ lens[6] > 0 => lens[6] = 1 /\ lens[7] = 1
    BY <1>4, <1>8, WordIsAll
  <2>4. first \in {5, 6, 7} /\ lens[first] > 0
    BY <1>1, <2>2
  <2>5. lens[5] \in Nat /\ lens[6] \in Nat /\ lens[7] \in Nat
    BY <1>2
  <2>6. first = 5 => lens[6] <= lens[5] /\ lens[7] <= lens[5]
    BY ONLY <2>3, <2>4, <2>5
  <2>7. first = 6 => lens[7] <= lens[6]
    BY ONLY <2>3, <2>4, <2>5
  <2>8. ASSUME NEW h \in 1 .. 7, h > first
        PROVE  \/ first = 5 /\ h \in {6, 7}
               \/ first = 6 /\ h = 7
    BY ONLY <2>4, <2>8
  <2> QED BY ONLY <2>6, <2>7, <2>8
<1>9. CASE Char(i) \notin Digits \cup OperatorChars \cup {"'"}
                          \cup KeywordWords \cup DatatypeWords
  <2>1. CASE Char(i) \in {"or", "and"}
    <3>1. lens[1] = 0 /\ lens[2] = 0
      BY <1>4, <1>9, NoNumber
    <3>2. lens[3] = 1
      BY <1>4, <2>1 DEF match_operator
    <3>3. first = 3 /\ Types[3] = "OPERATOR"
      BY <1>1, <3>1, <3>2 DEF Types
    <3> QED BY <1>5, <2>1, <3>3
  <2>2. CASE Char(i) \notin {"or", "and"}
    <3>1. lens[1] = 0 /\ lens[2] = 0 /\ lens[3] = 0 /\ lens[4] = 0
      BY <1>4, <1>9, <2>2, NoNumber, NoOperator, NoString
    <3>2. lens[5] = 0 /\ lens[6] = 0
      BY <1>4, <1>9, <2>2 DEF match_keyword, match_dtype
    <3>3. first = 7
      BY <1>1, <3>1, <3>2
    <3> QED BY <3>3
  <2> QED BY <2>1, <2>2
<1> QED BY <1>6, <1>7, <1>8, <1>9

\* At the end of the text no matcher matches.
LEMMA NothingAtEnd ==
  ASSUME text \in Seq(STRING), NEW i \in Nat, Char(i) = NUL
  PROVE  \A m \in 1 .. 7 : Lengths(i)[m] = 0
<1>1. Char(i) \notin Digits /\ Char(i) \notin OperatorChars \cup {"or", "and"}
      /\ Char(i) # "'" /\ Char(i) \notin Letters
  BY DEF NUL, Digits, OperatorChars, Letters, KeywordWords, DatatypeWords
<1>2. /\ match_float(i) = 0 /\ match_integer(i) = 0 /\ match_operator(i) = 0
      /\ match_string(i) = 0 /\ match_keyword(i) = 0 /\ match_dtype(i) = 0
      /\ match_identifier(i) = 0
  BY <1>1, NoNumber, NoOperator, NoString, NoWord
<1> QED BY <1>2, Lengths7

\* A token cut off is the longest; the list before it does not matter.
LEMMA StepLongest ==
  ASSUME TokInv, LongestMatch, [tokenize]_tokvars
  PROVE  LongestMatch'
<1>1. text \in Seq(STRING) /\ s \in Nat /\ tokens \in Seq(Token)
  BY DEF TokInv, TokTypeOK
<1>2. text' = text
  BY DEF tokenize, SkipSpace, TakeToken, UnknownToken, EndOfText, Quits, tokvars
<1>3. \A i : Lengths(i)' = Lengths(i)
  <2>1. \A i : Char(i)' = Char(i)
    BY <1>2 DEF Char
  <2>2. \A i, S : Run(i, S)' = Run(i, S)
    BY <1>2 DEF Run
  <2> TAKE i
  <2>3. match_float(i)' = match_float(i) /\ match_integer(i)' = match_integer(i)
    BY <2>1, <2>2 DEF match_float, match_integer
  <2>4. match_operator(i)' = match_operator(i) /\ match_string(i)' = match_string(i)
    BY <1>2, <2>1, <2>2 DEF match_operator, match_string
  <2>5. match_keyword(i)' = match_keyword(i) /\ match_dtype(i)' = match_dtype(i)
    BY <2>1 DEF match_keyword, match_dtype, WordEnds
  <2>6. match_identifier(i)' = match_identifier(i)
    BY <2>1, <2>2 DEF match_identifier
  <2> QED BY <2>3, <2>4, <2>5, <2>6 DEF Lengths
<1>4. CASE tokens' = tokens
  BY <1>2, <1>3, <1>4 DEF LongestMatch
<1>5. ASSUME NEW t, tokens' = Append(tokens, t), t.loc = s,
             \/ \A m \in 1 .. 7 : Lengths(s)[m] <= t.len
             \/ t.type = "OPERATOR" /\ Char(s) \in {"or", "and"}
      PROVE  LongestMatch'
  <2>1. tokens'[Len(tokens')] = t
    BY <1>1, <1>5
  <2>2. DOMAIN Lengths(s) = 1 .. 7
    BY <1>1, LengthsType
  <2>3. Char(s) \in {"or", "and"} => text[s] \in {"or", "and"}
    BY DEF Char, NUL
  <2> QED BY <1>2, <1>3, <1>5, <2>1, <2>2, <2>3 DEF LongestMatch
<1>6. CASE TakeToken
  <2>1. CASE tokens' = Append(tokens, Match(s)) /\ Match(s) # NoToken
    <3>1. Match(s).loc = s
      BY <1>1, <2>1, MatchIsToken
    <3>2. \/ \A m \in 1 .. 7 : Lengths(s)[m] <= Match(s).len
          \/ Match(s).type = "OPERATOR" /\ Char(s) \in {"or", "and"}
      BY <1>1, <2>1, FirstMatchIsLongest
    <3> QED BY <1>5, <2>1, <3>1, <3>2
  <2> QED BY <1>4, <1>6, <2>1 DEF TakeToken, Quits
<1>7. CASE EndOfText
  <2>1. CASE tokens' = Append(tokens, [type |-> "EOQ", loc |-> s, len |-> 0])
             /\ Char(s) = NUL
    <3>1. \A m \in 1 .. 7 : Lengths(s)[m] <= 0
      BY <1>1, <2>1, NothingAtEnd
    <3> QED BY <1>5, <2>1, <3>1
  <2> QED BY <1>4, <1>7, <2>1 DEF EndOfText, Quits
<1> QED BY <1>4, <1>6, <1>7 DEF tokenize, SkipSpace, UnknownToken, Quits, tokvars

-----------------------------------------------------------------------------
(* The theorems about the tokenizer.                                       *)

\* The inductive invariant holds whatever the texts and the region's size.
THEOREM TokInvariance ==
  ASSUME NEW Inputs \in SUBSET Seq(STRING)
  PROVE  TokSpec(Inputs) => []TokInv
<1>1. TokInit(Inputs) => TokInv
  BY TokInitInv
<1> QED BY <1>1, StepTokInv, PTL DEF TokSpec

\* What is written to a block of the region stays in it, and no two blocks
\* share a byte (region_alloc and the seven copies of tokenize).
THEOREM BlocksNeverOverlap ==
  ASSUME NEW Inputs \in SUBSET Seq(STRING)
  PROVE  TokSpec(Inputs) => []BlocksHold
<1>1. TokInv => BlocksHold
  BY DEF TokInv
<1>2. TokSpec(Inputs) => []TokInv
  BY TokInvariance
<1> QED BY <1>1, <1>2, PTL

\* Every piece of the text that has been passed is in one token, in the order
\* of the text, or is a space between two.
THEOREM NothingSkipped ==
  ASSUME NEW Inputs \in SUBSET Seq(STRING)
  PROVE  TokSpec(Inputs) => []TextCovered
<1>1. TokInv => TextCovered
  BY DEF TokInv
<1>2. TokSpec(Inputs) => []TokInv
  BY TokInvariance
<1> QED BY <1>1, <1>2, PTL

\* The order of the seven `if (len)' is right: the first matcher that matches
\* matches as much as any other, but where `or' or `and' begins a word.
THEOREM FirstIsRight ==
  ASSUME NEW Inputs \in SUBSET Seq(STRING)
  PROVE  TokSpec(Inputs) => []LongestMatch
<1>1. TokInit(Inputs) => LongestMatch
  BY DEF TokInit, LongestMatch
<1>2. TokSpec(Inputs) => []TokInv
  BY TokInvariance
<1>3. TokInv /\ LongestMatch /\ [tokenize]_tokvars => LongestMatch'
  BY StepLongest
<1> QED BY <1>1, <1>2, <1>3, PTL DEF TokSpec

-----------------------------------------------------------------------------
(* From the list of tokens to a query.                                     *)

Firsts == Digits \cup OperatorChars \cup {"or", "and", "'"} \cup Letters

\* Each matcher knows the pieces a token begins with.
LEMMA MatchBegins ==
  ASSUME text \in Seq(STRING), NEW i \in Nat, Match(i) # NoToken
  PROVE  /\ Char(i) \in Firsts
         /\ Match(i).type # "EOQ" /\ Match(i).loc = i
<1>1. PICK first \in 1 .. 7 :
           /\ Lengths(i)[first] > 0
           /\ Match(i) = [type |-> Types[first], loc |-> i, len |-> Lengths(i)[first]]
  BY MatchFirst
<1>2. first = 1 \/ first = 2 \/ first = 3 \/ first = 4 \/ first = 5 \/ first = 6 \/ first = 7
  OBVIOUS
<1>3. Types[first] # "EOQ"
  BY <1>2 DEF Types
<1>4. Char(i) \in Firsts
  <2>1. ASSUME Char(i) \notin Firsts PROVE \A m \in 1 .. 7 : Lengths(i)[m] = 0
    <3>1. Char(i) \notin Digits /\ Char(i) \notin OperatorChars \cup {"or", "and"}
          /\ Char(i) # "'" /\ Char(i) \notin Letters
      BY <2>1 DEF Firsts
    <3>2. /\ Lengths(i)[1] = 0 /\ Lengths(i)[2] = 0 /\ Lengths(i)[3] = 0 /\ Lengths(i)[4] = 0
          /\ Lengths(i)[5] = 0 /\ Lengths(i)[6] = 0 /\ Lengths(i)[7] = 0
      BY <3>1, Lengths7, NoNumber, NoOperator, NoString, NoWord
    <3>3. \A m \in 1 .. 7 : m = 1 \/ m = 2 \/ m = 3 \/ m = 4 \/ m = 5 \/ m = 6 \/ m = 7
      OBVIOUS
    <3> QED BY <3>2, <3>3
  <2> QED BY <1>1, <2>1
<1> QED BY <1>1, <1>3, <1>4

\* A token other than EOQ begins with a piece of the text, and EOQ is there
\* when tokenize has returned, and last.
Begun(t) == t.loc \in Nat /\ t.type # "EOQ" /\ Char(t.loc) \in Firsts

WithEnd ==
  IF status = "ok"
  THEN /\ Len(tokens) >= 1 /\ tokens[Len(tokens)].type = "EOQ"
       /\ \A k \in 1 .. Len(tokens) - 1 : Begun(tokens[k])
  ELSE \A k \in 1 .. Len(tokens) : Begun(tokens[k])

LEMMA WithEndStep == TokInv /\ WithEnd /\ [tokenize]_tokvars => WithEnd'
<1> SUFFICES ASSUME TokInv, WithEnd, [tokenize]_tokvars PROVE WithEnd'
  OBVIOUS
<1>1. /\ text \in Seq(STRING) /\ s \in Nat /\ tokens \in Seq(Token) /\ Len(tokens) \in Nat
  BY DEF TokInv, TokTypeOK
<1>2. CASE UNCHANGED <<text, tokens>> /\ (status' = "ok" <=> status = "ok")
  BY <1>2 DEF WithEnd, Begun, Char
<1>3. CASE TakeToken /\ ~Quits("abort")
  <2>1. PICK t : t = Match(s)
    OBVIOUS
  <2>2. /\ status = "run" /\ status' = status /\ text' = text
        /\ t # NoToken /\ tokens' = Append(tokens, t)
    BY <1>3, <2>1 DEF TakeToken, Tokenizing
  <2>3. Begun(t)
    BY <1>1, <2>1, <2>2, MatchBegins DEF Begun
  <2>4. ASSUME NEW k \in 1 .. Len(tokens') PROVE Begun(tokens'[k])
    <3>1. CASE k \in 1 .. Len(tokens)
      <4>1. tokens'[k] = tokens[k]
        BY <1>1, <2>2, <3>1
      <4> QED BY <2>2, <3>1, <4>1 DEF WithEnd
    <3>2. CASE k = Len(tokens) + 1
      BY <1>1, <2>2, <2>3, <3>2
    <3>3. Len(tokens') = Len(tokens) + 1
      BY <1>1, <2>2
    <3> QED BY <1>1, <3>1, <3>2, <3>3
  <2>5. \A t0 : Begun(t0)' <=> Begun(t0)
    BY <2>2 DEF Begun, Char
  <2>6. \A k \in 1 .. Len(tokens') : Begun(tokens[k])'
    BY <2>2, <2>4 DEF Begun, Char
  <2> QED BY <2>2, <2>6 DEF WithEnd
<1>4. CASE EndOfText /\ ~Quits("abort")
  <2>1. PICK t : t = [type |-> "EOQ", loc |-> s, len |-> 0]
    OBVIOUS
  <2>2. /\ status = "run" /\ status' = "ok" /\ text' = text
        /\ tokens' = Append(tokens, t)
    BY <1>4, <2>1 DEF EndOfText, Tokenizing
  <2>3. Len(tokens') = Len(tokens) + 1 /\ tokens'[Len(tokens')] = t /\ t.type = "EOQ"
    BY <1>1, <2>1, <2>2
  <2>4. \A k \in 1 .. Len(tokens') - 1 : k \in 1 .. Len(tokens) /\ tokens'[k] = tokens[k]
    BY <1>1, <2>2, <2>3
  <2>5. \A k \in 1 .. Len(tokens) : Begun(tokens[k])
    BY <2>2 DEF WithEnd
  <2>6. \A k \in 1 .. Len(tokens') - 1 : Begun(tokens[k])'
    BY <2>2, <2>4, <2>5 DEF Begun, Char
  <2>7. Len(tokens') >= 1
    BY <1>1, <2>3
  <2> QED BY <2>2, <2>3, <2>6, <2>7 DEF WithEnd
<1>5. \A how : how # "ok" /\ status = "run" /\ Quits(how) =>
        UNCHANGED <<text, tokens>> /\ (status' = "ok" <=> status = "ok")
  BY DEF Quits
<1>6. CASE SkipSpace \/ UnknownToken \/ UNCHANGED tokvars
  BY <1>2, <1>5, <1>6 DEF SkipSpace, UnknownToken, tokvars, Tokenizing
<1>7. CASE TakeToken \/ EndOfText
  <2>1. status = "run"
    BY <1>7 DEF TakeToken, EndOfText, Tokenizing
  <2> QED BY <1>2, <1>3, <1>4, <1>5, <1>7, <2>1
<1> QED BY <1>6, <1>7 DEF tokenize

\* The parser's word for a token is EOQ for the last one only.
LEMMA WordOfToken ==
  ASSUME NEW t \in Token, text \in Seq(STRING)
  PROVE  /\ t.type = "EOQ" => Word(t) = "EOQ"
         /\ Begun(t) => Word(t) # "EOQ"
<1>1. ASSUME t.type = "EOQ" PROVE Word(t) = "EOQ"
  BY <1>1 DEF Word
<1>2. ASSUME Begun(t) PROVE Word(t) # "EOQ"
  <2>1. t.type # "EOQ" /\ Char(t.loc) \in Firsts
    BY <1>2 DEF Begun
  <2>2. "EOQ" \notin Firsts /\ "NUL" \notin Firsts
    BY DEF Firsts, Digits, OperatorChars, Letters, KeywordWords, DatatypeWords
  <2>3. text[t.loc] # "EOQ"
    <3>1. Char(t.loc) = text[t.loc]
      BY <2>1, <2>2 DEF Char, NUL
    <3> QED BY <2>1, <2>2, <3>1
  <2>4. t.type \in {"FLOAT", "INTEGER", "OPERATOR", "STRING", "KEYWORD", "DATATYPE",
                    "IDENTIFIER"}
    <3>1. PICK m \in 1 .. 7 : t.type = Types[m]
      BY <2>1 DEF Token, TokenTypes
    <3>2. m = 1 \/ m = 2 \/ m = 3 \/ m = 4 \/ m = 5 \/ m = 6 \/ m = 7
      OBVIOUS
    <3> QED BY <3>1, <3>2 DEF Types
  <2> QED BY <2>3, <2>4 DEF Word
<1> QED BY <1>1, <1>2

LEMMA TokensAreQuery ==
  ASSUME TokInv, WithEnd, status = "ok", NEW q, q = [k \in DOMAIN tokens |-> Word(tokens[k])]
  PROVE  IsQuery(q)
<1>1. text \in Seq(STRING) /\ DOMAIN tokens = 1 .. Len(tokens) /\ Len(tokens) \in Nat \ {0}
  BY DEF TokInv, TokTypeOK, WithEnd
<1>0. \A k \in 1 .. Len(tokens) : tokens[k] \in Token
  BY DEF TokInv, TokTypeOK
<1>2. PICK n : n = Len(tokens)
  OBVIOUS
<1>3. n \in Nat \ {0} /\ DOMAIN q = 1 .. n /\ q = [k \in 1 .. n |-> Word(tokens[k])]
  BY <1>1, <1>2
<1>4. Len(q) = n
  BY <1>3
<1>5. \A k \in 1 .. n : q[k] = Word(tokens[k])
  BY <1>3
<1>6. ASSUME NEW k \in 1 .. n PROVE q[k] = "EOQ" <=> k = n
  <2>1. k # n => k \in 1 .. n - 1
    BY <1>3
  <2>2. tokens[n].type = "EOQ" /\ (k # n => Begun(tokens[k]))
    BY <1>2, <2>1 DEF WithEnd
  <2>3. tokens[k] \in Token
    BY <1>0, <1>2
  <2> QED BY <1>1, <1>2, <1>5, <2>2, <2>3, WordOfToken
<1>7. q = [k \in 1 .. n |-> q[k]]
  BY <1>3
<1> QED BY <1>3, <1>4, <1>6, <1>7 DEF IsQuery

-----------------------------------------------------------------------------
(* The two together.                                                       *)

\* Until parse() is called it has built nothing; from then on the tokens do
\* not change.
FrontInv ==
  /\ TokInv /\ WithEnd
  /\ out = "idle" => token = 1 /\ root = << >> /\ nodes = {}
  /\ out # "idle" => status = "ok" /\ ParseInv

LEMMA FrontInit == FInit => FrontInv
<1> SUFFICES ASSUME FInit PROVE FrontInv
  OBVIOUS
<1>1. PICK t \in Texts : TokInit({t.text})
  BY DEF FInit
<1>2. {t.text} \in SUBSET Seq(STRING)
  BY TextsAssumption
<1>3. TokInv
  BY <1>1, <1>2, TokInitInv
<1>4. WithEnd
  BY <1>1 DEF TokInit, WithEnd
<1> QED BY <1>3, <1>4 DEF FInit, FrontInv

LEMMA CallReady ==
  ASSUME IsQuery(query'), token' = 1, root' = << >>, nodes' = {}, out' = "run"
  PROVE  ParseInv'
<1>1. Built(<< >>, {}, 1)'
  BY NothingBuilt, PTL
<1>2. PICK rt, N, t : rt = << >> /\ N = {} /\ t = 1
  OBVIOUS
<1>3. Built(rt, N, t)'
  BY <1>1, <1>2
<1>4. Built(root, nodes, token)'
  BY <1>2, <1>3
<1>5. 1 \in 1 .. Len(query')
  BY DEF IsQuery
<1>6. IsQuery(query)'
  BY DEF IsQuery
<1> QED BY <1>4, <1>5, <1>6 DEF ParseInv

LEMMA FrontStep == FrontInv /\ [FNext]_fvars => FrontInv'
<1> SUFFICES ASSUME FrontInv, [FNext]_fvars PROVE FrontInv'
  OBVIOUS
<1>0. TokInv /\ WithEnd
  BY DEF FrontInv
<1>1. CASE Tokenize
  <2>1. tokenize /\ UNCHANGED vars
    BY <1>1 DEF Tokenize
  <2>2. TokInv' /\ WithEnd'
    BY <1>0, <2>1, StepTokInv, WithEndStep
  <2>3. status = "run"
    BY <2>1 DEF tokenize, SkipSpace, TakeToken, UnknownToken, EndOfText, Tokenizing
  <2>4. out = "idle"
    BY <2>3 DEF FrontInv
  <2> QED BY <2>1, <2>2, <2>4 DEF FrontInv, vars
<1>2. CASE CallParse
  <2>1. /\ status = "ok" /\ out = "idle" /\ out' = "run"
        /\ query' = [k \in DOMAIN tokens |-> Word(tokens[k])]
        /\ UNCHANGED <<token, root, nodes, tokvars>>
    BY <1>2 DEF CallParse
  <2>2. IsQuery(query')
    BY <1>0, <2>1, TokensAreQuery
  <2>3. token' = 1 /\ root' = << >> /\ nodes' = {}
    BY <2>1 DEF FrontInv
  <2>4. ParseInv'
    BY <2>1, <2>2, <2>3, CallReady
  <2>5. TokInv' /\ WithEnd'
    BY <1>0, <2>1, StepTokInv, WithEndStep
  <2>6. status' = "ok"
    BY <2>1 DEF tokvars
  <2> QED BY <2>1, <2>4, <2>5, <2>6 DEF FrontInv
<1>3. CASE Parse
  <2>1. Next /\ UNCHANGED tokvars
    BY <1>3 DEF Parse
  <2>2. out = "run"
    BY <2>1 DEF Next, Clause, Create, Insert, NotConsumed, NotRecognised, NoNodetype, Return, At
  <2>3. status = "ok" /\ ParseInv
    BY <2>2 DEF FrontInv
  <2>4. ParseInv'
    BY <2>1, <2>3, ParseStep
  <2>5. TokInv' /\ WithEnd'
    BY <1>0, <2>1, StepTokInv, WithEndStep
  <2>6. status' = "ok"
    BY <2>1, <2>3 DEF tokvars
  <2>7. out' # "idle"
    BY <2>4 DEF ParseInv
  <2> QED BY <2>4, <2>5, <2>6, <2>7 DEF FrontInv
<1>4. CASE UNCHANGED fvars
  <2>1. UNCHANGED vars /\ UNCHANGED tokvars
    BY <1>4 DEF fvars
  <2>2. TokInv' /\ WithEnd'
    BY <1>0, <2>1, StepTokInv, WithEndStep
  <2>3. ParseInv => ParseInv'
    BY <2>1, ParseStep
  <2> QED BY <2>1, <2>2, <2>3 DEF FrontInv, vars, tokvars
<1> QED BY <1>1, <1>2, <1>3, <1>4 DEF FNext, Finished

LEMMA FrontInvariance == FSpec => []FrontInv
BY FrontInit, FrontStep, PTL DEF FSpec

\* Whatever the text, its length and the region's size: when parse() has
\* accepted it, each piece is in one token or is a space, and each token is a
\* node's, in its place, or has been stepped over.  If the clauses fit the
\* root's first array all nodes are in the tree; of a longer text it lacks the
\* clauses the root held when its array last grew, and nothing else.
THEOREM NothingIsDropped == FSpec => []NothingDropped
<1>1. FrontInv => NothingDropped
  BY LosesNothing DEF FrontInv, TokInv, NothingDropped
<1> QED BY <1>1, FrontInvariance, PTL

=============================================================================
