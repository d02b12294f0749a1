------------------------------- MODULE YajlGen -------------------------------
(***************************************************************************)
(* The generator, src/src/yajl/yajl_gen.c: it writes JSON one token at a   *)
(* time and puts the separators in.  Each function is a pure operator from *)
(* a generator to the yajl_gen_status it returns and the generator it      *)
(* leaves.  The text written is a sequence of tokens: the white space that *)
(* yajl_gen_beautify adds, and the escapes of a string, are layout here.   *)
(* The state array has room for YAJL_MAX_DEPTH levels.                     *)
(***************************************************************************)
EXTENDS Integers, Sequences

CONSTANT MaxDepth   \* YAJL_MAX_DEPTH, 128 in yajl_common.h

ASSUME MaxDepthAssumption == MaxDepth \in Nat \ {0}

GenStates == {"start", "map_start", "map_key", "map_val", "array_start",
              "in_array", "complete", "error"}
GenStatuses == {"ok", "keys_must_be_strings", "max_depth_exceeded",
                "in_error_state", "generation_complete"}

Generator(depth, state, out) == [depth |-> depth, state |-> state, out |-> out]

(* yajl_gen_alloc zeroes the whole structure, and yajl_gen_start is 0.     *)
NewGenerator == Generator(0, [level \in 0 .. MaxDepth - 1 |-> "start"], <<>>)

StateOf(g) == g.state[g.depth]

Done(g)            == [status |-> "ok", g |-> g]
Refused(g, reason) == [status |-> reason, g |-> g]

Emit(g, toks) == Generator(g.depth, g.state, g.out \o toks)
Set(g, s)      == Generator(g.depth, [g.state EXCEPT ![g.depth] = s], g.out)

Mark(tok) == [tok |-> tok, text |-> ""]

\* Slip: no colon.
SeparatedByComma(g) ==
  IF StateOf(g) \in {"map_key", "in_array"} THEN Emit(g, <<Mark("comma")>>) ELSE g

(* INSERT_SEP                                                              *)
Separated(g) ==
  CASE StateOf(g) \in {"map_key", "in_array"} -> Emit(g, <<Mark("comma")>>)
    [] StateOf(g) = "map_val"                 -> Emit(g, <<Mark("colon")>>)
    [] OTHER                                  -> g

\* Slip: no case for the value of a key.
AppendedKeyOnly(g) ==
  CASE StateOf(g) = "start"                    -> Set(g, "complete")
    [] StateOf(g) \in {"map_start", "map_key"} -> Set(g, "map_val")
    [] StateOf(g) = "array_start"              -> Set(g, "in_array")
    [] OTHER                                   -> g

(* APPENDED_ATOM                                                           *)
Appended(g) ==
  CASE StateOf(g) = "start"                    -> Set(g, "complete")
    [] StateOf(g) \in {"map_start", "map_key"} -> Set(g, "map_val")
    [] StateOf(g) = "array_start"              -> Set(g, "in_array")
    [] StateOf(g) = "map_val"                  -> Set(g, "map_key")
    [] OTHER                                   -> g

(* ENSURE_VALID_STATE, and then what is done in a valid state.             *)
IfValid(g, result) ==
  CASE StateOf(g) = "error"    -> Refused(g, "in_error_state")
    [] StateOf(g) = "complete" -> Refused(g, "generation_complete")
    [] OTHER                   -> result

(* ENSURE_NOT_KEY                                                          *)
IfNotKey(g, result) ==
  IF StateOf(g) \in {"map_key", "map_start"} THEN Refused(g, "keys_must_be_strings")
                                             ELSE result

yajl_gen_string(g, t) ==
  IfValid(g, Done(Appended(Emit(Separated(g), <<t>>))))

(* yajl_gen_number, yajl_gen_null, yajl_gen_bool                           *)
yajl_gen_scalar(g, t) == IfValid(g, IfNotKey(g, yajl_gen_string(g, t)))

\* Slip: one level too early.
FullEarly(g) == g.depth + 1 >= MaxDepth - 1
Full(g) == g.depth >= MaxDepth - 1

(* yajl_gen_map_open, yajl_gen_array_open: INCREMENT_DEPTH comes after the *)
(* separator is written.                                                   *)
yajl_gen_open(g, t, s) ==
  LET deeper == Generator(g.depth + 1, [g.state EXCEPT ![g.depth + 1] = s], Separated(g).out)
  IN  IfValid(g, IfNotKey(g,
        IF Full(g) THEN Refused(Separated(g), "max_depth_exceeded")
                   ELSE Done(Emit(deeper, <<t>>))))

(* yajl_gen_map_close, yajl_gen_array_close                                *)
yajl_gen_close(g, t) ==
  LET outer == Generator(g.depth - 1, g.state, g.out)
  IN  IfValid(g, IF g.depth = 0 THEN Refused(g, "generation_complete")
                                ELSE Done(Emit(Appended(outer), <<t>>)))
=============================================================================
