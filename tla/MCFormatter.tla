----------------------------- MODULE MCFormatter -----------------------------
(* Small instances of Formatter: texts that fit, that split at lines, between *)
(* words and inside a word, and one with a tab.                               *)
EXTENDS Formatter

PlainTexts == {<<>>, <<"a">>, <<"a", "n", "a", "a">>, <<"a", "a", "a", "_", "a">>}
LongWord   == <<"a", "a", "a", "a">>
TabText    == <<"a", "t", "a">>

AllTexts   == PlainTexts \cup {LongWord, TabText}
=============================================================================
