------------------------------- MODULE ErrorText -------------------------------
(***************************************************************************)
(* yajl_render_error_string, src/src/yajl/yajl_parser.c: a line with the   *)
(* text around an error, under which an arrow points at the error.  The    *)
(* line is put together in an array on the stack, from an offset and the   *)
(* text of the chunk that the caller still has.                            *)
(***************************************************************************)
EXTENDS Conversion

CONSTANTS
  Window,    \* 30, the characters shown on each side
  Column,    \* 40, the characters left of the arrow
  TextSize   \* 72, the array

ASSUME ErrorTextAssumption ==
  /\ Window \in Nat /\ Column \in Nat /\ TextSize \in Nat
  /\ Window <= Column /\ Column + Window + 2 <= TextSize

Renderer == "yajl_render_error_string"

\* Slip: the offset is compared with the column.
spacesNeededColumn(offset) == IF offset < Column THEN Column - offset ELSE Column - Window
spacesNeeded(offset) == IF offset < Window THEN Column - offset ELSE Column - Window
start(offset) == IF offset >= Window THEN offset - Window ELSE 0
end(offset, n) == IF offset + Window > n THEN n ELSE offset + Window

CallRender(jsonText, offset) ==
  /\ fn' = Renderer /\ at' = "loop" /\ input' = jsonText /\ arg' = offset
  /\ cur' = start(offset) + 1
  /\ counts' = <<0>> /\ size' = TextSize /\ acc' = 0
  /\ out' = [k \in 1 .. spacesNeeded(offset) |-> Space]

Shown(c) == IF c \in {Newline, CarriageReturn} THEN Space ELSE c

CopyShown ==
  /\ fn = Renderer /\ at = "loop"
  /\ cur <= end(arg, Len(input))
  /\ WriteOne(<<Shown(input[cur])>>)

EndShown ==
  /\ fn = Renderer /\ at = "loop"
  /\ cur > end(arg, Len(input))
  /\ Finished(out \o <<Newline, NUL>>)

RenderNext == CopyShown \/ EndShown

-----------------------------------------------------------------------------

(* The line fits the array (the assertion i <= 71), whatever the offset    *)
(* and the length of the text are, also when they belong to different      *)
(* chunks; and the character at the offset is the one above the arrow.     *)
RenderFits ==
  fn = Renderer =>
    /\ Len(out) <= size
    /\ at = "return" /\ arg < Len(input) /\ Window > 0
         => out[Column + 1] = Shown(input[arg + 1])
=============================================================================
