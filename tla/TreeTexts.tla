------------------------------- MODULE TreeTexts -------------------------------
(***************************************************************************)
(* The trees that yajl_tree_parse and the push parser build, compared with *)
(* the values that the JSON grammar gives the texts.                       *)
(***************************************************************************)
EXTENDS TreeParser, ParserTexts

(* A value of the grammar is a node of the tree: the tree is the value the *)
(* text denotes, with every value under its own key, in the order of the   *)
(* text, and duplicate keys kept.                                          *)
TreeIsTheText == Accepted => Denotes(consumed, ctx.root)
=============================================================================
