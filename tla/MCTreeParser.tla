----------------------------- MODULE MCTreeParser -----------------------------
(***************************************************************************)
(* Small instance of TreeParser, and its comparison with the grammar: two  *)
(* strings, so that keys, values and their order can be told apart.        *)
(***************************************************************************)
EXTENDS TreeTexts, TreeFree, JsonGrammar

Lexeme(tok) == [tok |-> tok, text |-> ""]
StringLexeme(text) == [tok |-> "string", text |-> text]

MCTexts == {"", "a", "b"}
MCLexemes ==
  {Lexeme(t) : t \in Brackets \cup {"integer"}} \cup {StringLexeme(t) : t \in {"a", "b"}}

\* A text of the grammar denotes one value.
ASSUME DenotesOneValue ==
  \A n \in 1 .. 7 : \A p \in Phrases[n].values : p.keys = <<>> /\ p.values = Ref(Denoted(p.text))
=============================================================================
