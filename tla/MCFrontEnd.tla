----------------------------- MODULE MCFrontEnd -----------------------------
(***************************************************************************)
(* Every short text over the pieces the tokenizer tells apart, sentences   *)
(* with the spaces between their words left out where the words do not run *)
(* together, the texts of main.c, and one too long for the region.         *)
(***************************************************************************)
EXTENDS FrontEnd

Unmeant(texts) == {[text |-> t, meant |-> << >>] : t \in texts}

ShortTexts ==
  BoundedSeq({"or", "and", "select", "char", "a", "der", "1", ".", "_", " ", "'", "<", ">",
              "=", "(", "?"}, 3)
  \cup BoundedSeq({"or", "der", "a", "1", ".", "'", "<", "="}, 4)
  \cup {<<"select", " ">> \o w : w \in BoundedSeq({"a", "1", "or", "=", " ", ","}, 4)}

\* A word with its spelling.
W(word, spelling) == [word |-> word, pieces |-> spelling]

Plain(words) == [k \in DOMAIN words |-> W(words[k], <<words[k]>>)]

Name == W("a", <<"a", "1">>)
Select2 == W("a", <<"select", "a">>)
Under == W("a", <<"a", "_", "or">>)
Str == W("'s'", <<"'", "a", " ", "select", "'">>)

Sentences ==
  {Plain(<<"create", "table">>) \o <<Select2>> \o Plain(<<"(", "a", "integer", ",">>)
     \o <<Name>> \o Plain(<<"char", "(", "1", ")", ")">>),
   Plain(<<"insert", "into">>) \o <<Name>> \o Plain(<<"values", "(", "1", ",">>)
     \o <<Str>> \o Plain(<<",">>) \o <<W("1.5", <<"1", ".", "1">>)>> \o Plain(<<")">>),
   Plain(<<"select", "*", "from">>) \o <<Name>> \o Plain(<<"where">>)
     \o <<Under, W(">=", <<">", "=">>)>> \o Plain(<<"1", "and", "a", "=">>) \o <<Str>>}

Letter(w) == w.pieces[1] \in WordChars

\* The spaces that may be there and those that must.
Spacings(words) ==
  {g \in [1 .. Len(words) -> BOOLEAN] :
     \A k \in 1 .. Len(words) - 1 :
       Letter(words[k]) /\ Letter(words[k + 1]) => g[k]}

Spelled(words, gaps) ==
  FlattenSeq([k \in DOMAIN words |-> words[k].pieces \o (IF gaps[k] THEN <<" ">> ELSE << >>)])

SpacedTexts ==
  UNION {{[text |-> Spelled(words, g),
           meant |-> Append([k \in DOMAIN words |-> words[k].word], "EOQ")] :
            g \in Spacings(words)} : words \in Sentences}

LongText == [k \in 1 .. 30 |-> "+"]

AllTexts == Unmeant(ShortTexts \cup {LongText}) \cup SpacedTexts

ScriptTexts == Unmeant(TestScript)
=============================================================================
