------------------------------ MODULE MCYajlLexer ------------------------------
(***************************************************************************)
(* Small instance of YajlLexer.  The texts are the concatenations of a few *)
(* fragments, cut into chunks anywhere, also inside a fragment.            *)
(***************************************************************************)
EXTENDS LexerWords

CONSTANTS Numbers, Strings, Others   \* the number of fragments of each kind

RECURSIVE Joint(_)
Joint(s) == IF s = <<>> THEN <<" ">> ELSE Head(s) \o Joint(Tail(s))

Texts(First, Rest, n, comments) ==
  [text : {Joint(<<f>> \o s) : f \in First, s \in [1 .. n - 1 -> Rest]},
   comments : {comments}]

NumberFragments == {<<"-">>, <<"0">>, <<"1">>, <<".">>, <<".", "0">>, <<"e">>, <<"+">>}
StringFragments == {<<"quote">>, <<"quote", "backslash">>, <<"backslash">>, <<"x">>, <<"u", "0", "a">>,
                    <<"0", "0", "quote">>, <<"n", "quote">>, <<"cont", "quote">>, <<"lead2">>,
                    <<"lead3", "cont">>, <<"lead4", "cont", "cont">>, <<"ctrl">>, <<"tab">>}
OtherFragments  == {<<"n", "u">>, <<"l", "l">>, <<"t", "r", "u", "e">>, <<"/", "*">>,
                    <<"*", "/">>, <<"*">>, <<"/">>, <<"newline">>, <<"tab">>, <<"vtab">>, <<"[">>,
                    <<"1">>}

MCInputs ==
  UNION {Texts({<<"-">>, <<"0">>, <<"1">>}, NumberFragments, Numbers, FALSE),
         Texts({<<"quote">>, <<"quote", "backslash">>}, StringFragments, Strings, FALSE),
         Texts(OtherFragments, OtherFragments, Others, TRUE),
         Texts(OtherFragments, OtherFragments, 2, FALSE)}

-----------------------------------------------------------------------------

(* Every call of the lexer returns.                                        *)
CallsReturn == (scan.at # "idle") ~> (scan.at = "idle")
=============================================================================
