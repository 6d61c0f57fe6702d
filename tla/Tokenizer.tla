----------------------------- MODULE Tokenizer ------------------------------
(***************************************************************************)
(* tokenize (tokenize.c): seven matchers are tried at the cursor, the      *)
(* first that matches cuts its token off, and for each token the structure *)
(* and a copy of its text are taken from the region of region.c.           *)
(*                                                                         *)
(* A text is a sequence of pieces: a digit, a space, a character that is   *)
(* an operator or a quote, and letters that stand together: a keyword, a   *)
(* datatype, "or", "and", or "a" for letters that begin none of these.     *)
(* "order" is the piece "or" and the piece "der".  Case does not matter.   *)
(* A piece counts as one character of memory.                              *)
(***************************************************************************)
EXTENDS Integers, Sequences, FiniteSets

CONSTANTS
  TokenSize,  (* sizeof(Token)                                            *)
  ArenaSize   (* the region's capacity                                    *)

ASSUME ArenaAssumption == TokenSize \in Nat \ {0} /\ ArenaSize \in Nat

VARIABLES
  text,    (* the query                                                   *)
  s,       (* the cursor                                                  *)
  tokens,  (* the list: type, place and length in the text                *)
  blocks,  (* what region_alloc gave away, and what was written to it     *)
  used,    (* mem_ast.used                                                *)
  status   (* "run", "ok", "exit" (unknown token) or "abort" (the assert) *)

tokvars == <<text, s, tokens, blocks, used, status>>

KeywordWords == {"create", "select", "insert", "into", "delete", "update", "from", "is",
                 "not", "null", "where", "like", "table", "index", "by", "values", "on"}
DatatypeWords == {"char", "integer", "float"}
Letters == KeywordWords \cup DatatypeWords \cup {"or", "and", "der", "a"}
Digits == {"1"}
WordChars == Letters \cup Digits \cup {"_"}
OperatorChars == {"+", "-", "*", "/", "(", ")", ",", "=", "<", ">"}
Spaces == {" "}
NUL == "NUL"

Char(i) == IF i <= Len(text) THEN text[i] ELSE NUL

\* How many pieces from i on are in S.
Run(i, S) ==
  Cardinality({k \in i .. Len(text) : \A j \in i .. k : text[j] \in S})

-----------------------------------------------------------------------------
(* The matchers: the length of the match at i, 0 if there is none.         *)

match_float(i) ==
  LET whole    == Run(i, Digits)
      fraction == Run(i + whole + 1, Digits)
  IN  IF whole > 0 /\ Char(i + whole) = "." /\ fraction > 0
      THEN whole + 1 + fraction ELSE 0

match_integer(i) == Run(i, Digits)

\* The longest alternative, as POSIX has it; `or' and `and' end anywhere.
match_operator(i) ==
  IF <<Char(i), Char(i + 1)>> \in {<<"<", ">">>, <<"<", "=">>, <<">", "=">>} THEN 2
  ELSE IF Char(i) \in OperatorChars \cup {"or", "and"} THEN 1 ELSE 0

match_string(i) ==
  LET inside == Run(i + 1, WordChars \cup OperatorChars \cup Spaces \cup {".", "?", "\""})
  IN  IF Char(i) = "'" /\ Char(i + 1 + inside) = "'" THEN inside + 2 ELSE 0

\* \b: the word ends here.
WordEnds(i) == Char(i) \notin WordChars

\* MUTANT: a keyword may be the beginning of a word.
match_keyword_NoBoundary(i) ==
  IF Char(i) \in KeywordWords THEN 1
  ELSE IF Char(i) = "or" /\ Char(i + 1) = "der" THEN 2 ELSE 0

match_keyword(i) ==
  IF Char(i) \in KeywordWords /\ WordEnds(i + 1) THEN 1
  ELSE IF Char(i) = "or" /\ Char(i + 1) = "der" /\ WordEnds(i + 2) THEN 2 ELSE 0

match_dtype(i) == IF Char(i) \in DatatypeWords /\ WordEnds(i + 1) THEN 1 ELSE 0

match_identifier(i) == IF Char(i) \in Letters THEN Run(i, WordChars) ELSE 0

Types == <<"FLOAT", "INTEGER", "OPERATOR", "STRING", "KEYWORD", "DATATYPE", "IDENTIFIER">>

Lengths(i) ==
  <<match_float(i), match_integer(i), match_operator(i), match_string(i),
    match_keyword(i), match_dtype(i), match_identifier(i)>>

NoToken == [type |-> "none", loc |-> 0, len |-> 0]

\* MUTANT: the last matcher that matches is taken.
Match_Last(i) ==
  LET lens == Lengths(i)
      hits == {m \in DOMAIN lens : lens[m] > 0}
      last == CHOOSE m \in hits : \A h \in hits : h <= m
  IN  IF hits = {} THEN NoToken ELSE [type |-> Types[last], loc |-> i, len |-> lens[last]]

Match(i) ==
  LET lens  == Lengths(i)
      hits  == {m \in DOMAIN lens : lens[m] > 0}
      first == CHOOSE m \in hits : \A h \in hits : m <= h
  IN  IF hits = {} THEN NoToken ELSE [type |-> Types[first], loc |-> i, len |-> lens[first]]

-----------------------------------------------------------------------------
TokInit(texts) ==
  /\ text \in texts
  /\ s = 1 /\ tokens = << >> /\ blocks = << >> /\ used = 0 /\ status = "run"

Quits(how) == status' = how /\ UNCHANGED <<text, s, tokens, blocks, used>>

Tokenizing == status = "run"

\* MUTANT: the cursor stays.
SkipSpace_Stays == Tokenizing /\ Char(s) \in Spaces /\ UNCHANGED tokvars

SkipSpace ==
  /\ Tokenizing /\ Char(s) \in Spaces
  /\ s' = s + 1
  /\ UNCHANGED <<text, tokens, blocks, used, status>>

\* MUTANT: a string's copy has no room for its end.
BufferSize_NoEnd(t) == IF t.type = "STRING" THEN t.len - 2 ELSE t.len + 1

\* The copy of a token's text with its end, a string's without its quotes.
BufferSize(t) == IF t.type = "STRING" THEN t.len - 1 ELSE t.len + 1

Written(t) == (IF t.type = "STRING" THEN t.len - 2 ELSE t.len) + 1

Block(at, size, n) == [at |-> at, size |-> size, written |-> n]

\* MUTANT: the second allocation starts where the first did.
Allocated_Twice(t) ==
  <<Block(used, TokenSize, TokenSize), Block(used, BufferSize(t), Written(t))>>

\* new_token and region_alloc, one after the other.
Allocated(t) ==
  <<Block(used, TokenSize, TokenSize), Block(used + TokenSize, BufferSize(t), Written(t))>>

\* MUTANT: a string's length is taken to leave out its closing quote.
After_Quote(t) == IF t.type = "STRING" THEN s + t.len + 1 ELSE s + t.len

\* Where the text goes on after a token.
After(t) == s + t.len

\* One of the seven `if (len)'.
TakeToken ==
  /\ Tokenizing /\ Char(s) \notin Spaces
  /\ \E t \in {Match(s)} \ {NoToken} :
       LET size == TokenSize + BufferSize(t)
       IN  IF used + size > ArenaSize
           THEN Quits("abort")
           ELSE /\ tokens' = Append(tokens, t)
                /\ blocks' = blocks \o Allocated(t)
                /\ used' = used + size
                /\ s' = After(t)
                /\ UNCHANGED <<text, status>>

UnknownToken ==
  /\ Tokenizing /\ Char(s) \notin Spaces \cup {NUL} /\ Match(s) = NoToken
  /\ Quits("exit")

\* The token EOQ has no copy of its text.
EndOfText ==
  /\ Tokenizing /\ Char(s) = NUL
  /\ IF used + TokenSize > ArenaSize
     THEN Quits("abort")
     ELSE /\ tokens' = Append(tokens, [type |-> "EOQ", loc |-> s, len |-> 0])
          /\ blocks' = Append(blocks, Block(used, TokenSize, TokenSize))
          /\ used' = used + TokenSize
          /\ status' = "ok"
          /\ UNCHANGED <<text, s>>

tokenize == SkipSpace \/ TakeToken \/ UnknownToken \/ EndOfText

TokSpec(texts) == TokInit(texts) /\ [][tokenize]_tokvars

-----------------------------------------------------------------------------
(* What the tokenizer is supposed to guarantee.                            *)

\* The tokens of a list that hold a piece.
Holders(i, list) ==
  {k \in DOMAIN list : list[k].loc <= i /\ i < list[k].loc + list[k].len}

Covered(i, list) ==
  IF Holders(i, list) = {} THEN Char(i) \in Spaces
  ELSE \E k \in Holders(i, list) :
         /\ Holders(i, list) = {k}
         /\ \A j \in DOMAIN list : j < k => list[j].loc < list[k].loc

\* Every piece of the text passed is in one token or is a space outside
\* them, and the tokens are in the order of the text.
TextCovered == \A i \in 1 .. s - 1 : Covered(i, tokens)

\* The order of the matchers does not cut a token short: at its place no
\* other matches more, except where `or' or `and' begins a word.  (Of the
\* token just cut off: each is the last one once.)
LongestMatch ==
  LET t    == tokens[Len(tokens)]
      lens == Lengths(t.loc)
  IN  tokens # << >> =>
        \/ \A m \in DOMAIN lens : lens[m] <= t.len
        \/ t.type = "OPERATOR" /\ text[t.loc] \in {"or", "and"}

\* What is written to a block stays in it, and the blocks lie side by side
\* within the region.
BlocksHold ==
  /\ \A b \in DOMAIN blocks :
       /\ blocks[b].written <= blocks[b].size
       /\ blocks[b].at + blocks[b].size <= IF b = Len(blocks) THEN used ELSE blocks[b + 1].at
  /\ used <= ArenaSize
=============================================================================
