------------------------------- MODULE Reformat -------------------------------
(***************************************************************************)
(* prettify and minify: R_reformat (src/src/prettify.c) parses a text with *)
(* the generator as the client of the parser, so that every callback       *)
(* writes the event it is told of.  The text is fed in one chunk, and is   *)
(* completed only if that succeeded.                                       *)
(***************************************************************************)
EXTENDS YajlParser, YajlGen

\* The callbacks have yajl_number, and allow_comments is the only option.
ASSUME ReformatOptionsAssumption == Configurations = {{}} /\ ~ConvertsNumbers
ASSUME ReformatTextsAssumption == "" \in Texts

VARIABLES
  g,        \* the generator
  refusal,  \* what the last callback got from the generator
  output    \* the second element of the list R_reformat returns

reformatVars ==
  <<flags, stateStack, parseError, call, status, unfinished, consumed, g, refusal, output>>

Nothing   == [kind |-> "none", text |-> <<>>]
Message   == [kind |-> "message", text |-> <<>>]
Json(out) == [kind |-> "json", text |-> out]

(* How the token t is written.  The parser decodes the escapes of a string *)
(* and the generator encodes them again.                                   *)
Written(t) ==
  IF t.tok = "string_with_escapes" THEN [tok |-> "string", text |-> t.text]
  ELSE IF t.tok \in ScalarToks THEN t
  ELSE Mark(t.tok)

(* GEN_AND_RETURN; nobody sets s_streamReformat.                           *)
Generated(result) ==
  /\ g' = result.g
  /\ refusal' = result.status
  /\ UNCHANGED output

GenerateScalar(t) ==
  LET r == IF t.tok \in StringToks THEN yajl_gen_string(g, Written(t))
                                   ELSE yajl_gen_scalar(g, Written(t))
  IN  Scalar(t, r.status = "ok") /\ Generated(r)

GenerateKey(t) ==
  LET r == yajl_gen_string(g, Written(t))
  IN  MapKey(t, r.status = "ok") /\ Generated(r)

GenerateMapOpen(t) ==
  LET r == yajl_gen_open(g, Written(t), "map_start")
  IN  OpenMap(t, r.status = "ok") /\ Generated(r)

GenerateArrayOpen(t) ==
  LET r == yajl_gen_open(g, Written(t), "array_start")
  IN  OpenArray(t, r.status = "ok") /\ Generated(r)

GenerateMapClose(t) ==
  LET r == yajl_gen_close(g, Written(t))
  IN  (CloseEmptyMap(t, r.status = "ok") \/ CloseMap(t, r.status = "ok")) /\ Generated(r)

GenerateArrayClose(t) ==
  LET r == yajl_gen_close(g, Written(t))
  IN  (CloseEmptyArray(t, r.status = "ok") \/ CloseArray(t, r.status = "ok")) /\ Generated(r)

GenerateStep(t) ==
  \/ GenerateScalar(t)
  \/ GenerateKey(t)
  \/ GenerateMapOpen(t)
  \/ GenerateArrayOpen(t)
  \/ GenerateMapClose(t)
  \/ GenerateArrayClose(t)

-----------------------------------------------------------------------------
(* R_reformat *)

ParseText    == call = "none" /\ Parse
CompleteText == call = "parse" /\ status = "ok" /\ CompleteParse

Return ==
  /\ output = Nothing
  /\ status # "running"
  /\ call # "none"
  /\ status = "ok" => call = "complete"
  /\ output' = IF status = "ok" THEN Json(g.out) ELSE Message
  /\ UNCHANGED <<vars, g, refusal>>

ReformatInit == Init /\ g = NewGenerator /\ refusal = "ok" /\ output = Nothing

ReformatNext ==
  \/ Return
  \/ (ParseText \/ EndChunk \/ CompleteText \/ Finish) /\ UNCHANGED <<g, refusal, output>>
  \/ \E t \in Lexemes :
       \/ SilentStep(t) /\ UNCHANGED <<g, refusal, output>>
       \/ GenerateStep(t)

ReformatSpec == ReformatInit /\ [][ReformatNext]_reformatVars

-----------------------------------------------------------------------------
(* Safety *)

Broken == Current \in ErrorStates

(* What the generator believes of a level, when the parser is in state s   *)
(* there, and when that level has an open child.                           *)
SameLevel(s, gs) ==
  CASE s = "start"          -> gs = "start"
    [] s = "parse_complete" -> gs = "complete"
    [] s = "map_start"      -> gs = "map_start"
    [] s \in {"map_sep", "map_need_val"}        -> gs = "map_val"
    [] s \in {"map_got_val", "map_need_key"}    -> gs = "map_key"
    [] s = "array_start"                        -> gs = "array_start"
    [] s \in {"array_got_val", "array_need_val"} -> gs = "in_array"
    [] OTHER                -> FALSE

OuterLevel(s, gs) ==
  CASE s = "parse_complete" -> gs = "start"
    [] s = "map_got_val"    -> gs = "map_val"
    [] s = "array_got_val"  -> gs \in {"array_start", "in_array"}
    [] OTHER                -> FALSE

(* The generator is always in the state that the parser is in, level by    *)
(* level, and it never leaves its array of YAJL_MAX_DEPTH states.          *)
GeneratorInStep ==
  /\ g.depth \in 0 .. MaxDepth - 1
  /\ ~Broken =>
       /\ Len(stateStack) = g.depth + 1
       /\ \A i \in 1 .. Len(stateStack) :
            IF i = Len(stateStack) THEN SameLevel(stateStack[i], g.state[i - 1])
                                   ELSE OuterLevel(stateStack[i], g.state[i - 1])

(* The generator refuses a container that is nested too deep and nothing   *)
(* else: prettify fails on a valid text for no other reason.               *)
OnlyDepthIsRefused ==
  parseError = "client cancelled" =>
    /\ refusal = "max_depth_exceeded"
    /\ Len(stateStack) = MaxDepth
    /\ consumed[Len(consumed)].tok \in {"left_bracket", "left_brace"}

(* What prettify and minify return is the text they were given, token by   *)
(* token, with the separators in their places.                             *)
OutputIsInput ==
  output.kind = "json" => output.text = [i \in 1 .. Len(consumed) |-> Written(consumed[i])]
=============================================================================
