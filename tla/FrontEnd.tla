------------------------------ MODULE FrontEnd ------------------------------
(***************************************************************************)
(* main_sqlparser: the tokenizer makes a list of tokens of a text, and the *)
(* parser a tree of the tokens.  The parser's word for a token forgets     *)
(* which name, number or string it is.                                     *)
(***************************************************************************)
EXTENDS Parser, Tokenizer

CONSTANT Texts  (* [text, meant]: texts, and the words meant by them or << >> *)

ASSUME TextsAssumption == \A t \in Texts : t.text \in Seq(STRING)

VARIABLE meant

fvars == <<vars, tokvars, meant>>

FInit ==
  /\ \E t \in Texts : meant = t.meant /\ TokInit({t.text})
  /\ query = << >> /\ token = 1 /\ root = << >> /\ nodes = {} /\ out = "idle"

\* A token as the parser sees it.
Word(t) ==
  CASE t.type = "IDENTIFIER" -> "a"
    [] t.type = "INTEGER" -> "1"
    [] t.type = "FLOAT" -> "1.5"
    [] t.type = "STRING" -> IF t.len = 3 /\ text[t.loc + 1] = "(" THEN "'('" ELSE "'s'"
    [] t.type = "EOQ" -> "EOQ"
    [] t.type = "KEYWORD" -> IF t.len = 1 THEN text[t.loc] ELSE "order"
    [] t.type = "DATATYPE" -> text[t.loc]
    [] t.type = "OPERATOR" -> IF t.len = 1 THEN text[t.loc]
                              ELSE IF text[t.loc] = ">" THEN ">="
                              ELSE IF text[t.loc + 1] = ">" THEN "<>" ELSE "<="

Tokenize == tokenize /\ UNCHANGED <<vars, meant>>

CallParse ==
  /\ status = "ok" /\ out = "idle"
  /\ query' = [k \in DOMAIN tokens |-> Word(tokens[k])]
  /\ out' = "run"
  /\ UNCHANGED <<token, root, nodes, tokvars, meant>>

Parse == Next /\ UNCHANGED <<tokvars, meant>>

Refused == status \in {"exit", "abort"} \/ out \in {"error", "exit", "crash"}

\* main_sqlparser has returned, or the process has ended.
Finished == (Refused \/ out = "ok") /\ UNCHANGED fvars

FNext == Tokenize \/ CallParse \/ Parse \/ Finished

FSpec == FInit /\ [][FNext]_fvars

\* Nothing in main_sqlparser waits once it has its text.  The last conjunct is
\* WF_fvars(Parse) with its ENABLED written out: parse has a step as long as it
\* runs, or the run would report a deadlock.
FFairSpec ==
  FSpec /\ WF_fvars(Tokenize) /\ WF_fvars(CallParse)
        /\ ([]<>(out # "run") \/ []<><<Parse>>_fvars)

-----------------------------------------------------------------------------
(* What the two are supposed to guarantee together.                        *)

\* A sentence is understood as it was meant however it is spaced: its words
\* reach the parser one by one, and are accepted.
AsMeant ==
  meant # << >> => ~Refused /\ (out # "idle" => query = meant)

\* A text that was accepted has been read down to its last piece: each one
\* that is not a space is in a token, and each token is a node's, in its place,
\* or a parenthesis or stepped over by parse_create.  All nodes are in the tree
\* if the clauses fit the root's first array (32); of a longer text those are
\* missing that were there when the array last grew, and no other.
NothingDropped == out = "ok" => TextCovered /\ NothingLost

\* Whatever the text, both come to an end.
TextsEnd == <>(Refused \/ out = "ok")

\* The texts test_parser.sh counts as passed when the program succeeds
\* (test_parser.sh:6,13,20).
TestScript ==
  {<<"select", " ", "*", " ", "from", " ", "a", "1">>,
   <<"create", " ", "table", " ", "a", "1", " ", "(", "a", " ", "integer", ",", " ",
     "a", " ", "char", ")">>,
   <<"insert", " ", "into", " ", "a", "1", " ", "values", " ", "(", "1", ",", " ",
     "\"", "a", " ", "a", "\"", ")">>}

TestScriptAccepted == text \in TestScript => ~Refused
=============================================================================
