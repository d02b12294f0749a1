------------------------------ MODULE MCYajlParser ------------------------------
(***************************************************************************)
(* Small instance of YajlParser, and its comparison with the grammar.      *)
(***************************************************************************)
EXTENDS ParserTexts, JsonGrammar

Lexeme(tok) == [tok |-> tok, text |-> ""]

MCTexts == {""}
\* A string, a number that may overflow, and the token of a lexical error.
MCLexemes == {Lexeme(t) : t \in Brackets \cup {"string", "integer", "error"}}

\* The generator and the recogniser of the grammar agree on the texts.
ASSUME GeneratedIsJson ==
  /\ \A s \in OneText : IsJson(s)
  /\ \A s \in TextsInARow : IsJsonStream(s)
  /\ \A n \in 1 .. 6 : \A s \in [1 .. n -> MCLexemes] : IsJson(s) => s \in OneText
=============================================================================
