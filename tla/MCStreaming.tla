------------------------------ MODULE MCStreaming ------------------------------
(***************************************************************************)
(* Small instance of Streaming.                                            *)
(***************************************************************************)
EXTENDS Streaming

MCOldLines ==
  UNION {[1 .. n -> {Blank, Garbage, Record(0)}] : n \in 0 .. 3}
=============================================================================
