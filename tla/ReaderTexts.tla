------------------------------ MODULE ReaderTexts ------------------------------
(***************************************************************************)
(* What fromJSON on a connection returns, compared with the values that    *)
(* the JSON grammar gives the texts.                                       *)
(***************************************************************************)
EXTENDS PushReader, TreeTexts

(* A call returns the value of the text it read itself, whatever the calls *)
(* before it have left in the context, and however they ended.             *)
ResultIsTheText == pc = "returned" => Denotes(consumed, result)
=============================================================================
