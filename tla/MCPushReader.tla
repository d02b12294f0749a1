----------------------------- MODULE MCPushReader -----------------------------
(***************************************************************************)
(* Small instance of PushReader.                                           *)
(***************************************************************************)
EXTENDS ReaderTexts

Lexeme(tok) == [tok |-> tok, text |-> ""]
StringLexeme(text) == [tok |-> "string", text |-> text]

MCTexts == {"", "a", "b"}
\* All tokens but an error, one of each kind of scalar.
MCLexemes ==
  {Lexeme(t) : t \in (Toks \ (ScalarToks \cup {"error"})) \cup {"integer"}}
    \cup {StringLexeme("a")}
MCArrayLexemes == {Lexeme(t) : t \in {"left_brace", "right_brace", "comma", "integer"}}
=============================================================================
