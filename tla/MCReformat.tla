------------------------------ MODULE MCReformat ------------------------------
(***************************************************************************)
(* Small instance of Reformat: strings with and without escapes, two       *)
(* numbers, and a generator that is full at a small depth.                 *)
(***************************************************************************)
EXTENDS Reformat

MCTexts == {"", "a", "b"}
MCLexemes ==
  {[tok |-> t, text |-> ""] : t \in Toks \ {"string", "integer", "double", "bool"}}
    \cup {[tok |-> "string", text |-> "a"], [tok |-> "integer", text |-> "b"]}
=============================================================================
