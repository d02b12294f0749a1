------------------------------- MODULE Collapse -------------------------------
(***************************************************************************)
(* The functions that join the JSON of elements to the JSON of an array or *)
(* an object: src/src/collapse_array.c, collapse_object.c and              *)
(* collapse_pretty.c.  Each counts what it needs, reserves it, and writes. *)
(* The input is a sequence of elements: a key, already quoted, and a value,*)
(* or NA in its place.  arg is the indentation: ni, the characters before  *)
(* the closing bracket, and spaces, those of one more level; tabs, which   *)
(* a negative indent_spaces asks for, are written as spaces here.          *)
(***************************************************************************)
EXTENDS Conversion

ObjectJoiners == {"C_collapse_object", "C_collapse_object_pretty"}
ArrayJoiners  == {"C_collapse_array", "C_collapse_array_pretty_inner",
                  "C_collapse_array_pretty_outer"}
Joiners == ObjectJoiners \cup ArrayJoiners

Element(key, value) == [key |-> key, value |-> value, na |-> FALSE]
NAElement(key)      == [key |-> key, value |-> <<78, 65>>, na |-> TRUE]

\* An object has no member for NA; an array has its text, NA.
Skipped(e) == fn \in ObjectJoiners /\ e.na

Count   == Len(input)
Indent  == arg.ni + arg.spaces
Whitespace(n) == [k \in 1 .. n |-> Space]

\* What each function reserves for an element that it does not skip.
Needed(e) ==
  CASE fn = "C_collapse_object"        -> Len(e.key) + Len(e.value) + 2
    [] fn = "C_collapse_object_pretty" -> Len(e.key) + Len(e.value) + Indent + 4
    [] OTHER                           -> Len(e.value)

\* Slip: one character less for every separator of the last function.
ExtraOneLess ==
  CASE fn = "C_collapse_array"              -> Count + 3
    [] fn = "C_collapse_object"             -> 3
    [] fn = "C_collapse_object_pretty"      -> arg.ni + 4
    [] fn = "C_collapse_array_pretty_inner" -> (IF Count > 0 THEN (Count - 1) * 2 ELSE 0) + 3
    [] OTHER                                -> Count * (Indent + 1) + arg.ni + 4

\* What each reserves besides.
Extra ==
  CASE fn = "C_collapse_array"              -> Count + 3
    [] fn = "C_collapse_object"             -> 3
    [] fn = "C_collapse_object_pretty"      -> arg.ni + 4
    [] fn = "C_collapse_array_pretty_inner" -> (IF Count > 0 THEN (Count - 1) * 2 ELSE 0) + 3
    [] OTHER                                -> Count * (Indent + 2) + arg.ni + 4

\* The pretty functions open at once, the others write over the first comma.
Opening ==
  CASE fn = "C_collapse_object_pretty" -> <<OpenBracket>>
    [] fn \in {"C_collapse_array_pretty_inner", "C_collapse_array_pretty_outer"} -> <<OpenBrace>>
    [] OTHER -> <<>>

Written(e) ==
  CASE fn = "C_collapse_array"  -> <<Comma>> \o e.value
    [] fn = "C_collapse_object" -> <<Comma>> \o e.key \o <<Colon>> \o e.value
    [] fn = "C_collapse_object_pretty" ->
         <<Newline>> \o Whitespace(Indent) \o e.key \o <<Colon, Space>> \o e.value \o <<Comma>>
    [] fn = "C_collapse_array_pretty_inner" -> e.value \o <<Comma, Space>>
    [] OTHER -> <<Newline>> \o Whitespace(Indent) \o e.value \o <<Comma>>

\* Slip: the brace is put behind the first comma.
BracketKept(bracket) == IF out = <<>> THEN <<bracket>> ELSE <<bracket>> \o out

\* if(olds == s) s++; olds[0] = bracket
Bracketed(bracket) == IF out = <<>> THEN <<bracket>> ELSE [out EXCEPT ![1] = bracket]

\* if(cursor != start) the last comma becomes a line break before the indent
Closing == IF Len(out) = 1 THEN out
           ELSE [out EXCEPT ![Len(out)] = Newline] \o Whitespace(arg.ni)

\* What has been written before the closing bracket.
JoinedText ==
  CASE fn = "C_collapse_array"              -> Bracketed(OpenBrace)
    [] fn = "C_collapse_object"             -> Bracketed(OpenBracket)
    [] fn = "C_collapse_array_pretty_inner" -> IF Count > 0 THEN SubSeq(out, 1, Len(out) - 2) ELSE out
    [] OTHER                                -> Closing

Close == <<IF fn \in ObjectJoiners THEN CloseBracket ELSE CloseBrace, NUL>>

-----------------------------------------------------------------------------

CallJoin(f, elements, indent) == f \in Joiners /\ Call(f, "count", elements, indent)

CountElement ==
  /\ fn \in Joiners /\ InLoop(fn, "count")
  /\ CountOne(IF Skipped(input[cur]) THEN 0 ELSE Needed(input[cur]))

ReserveJoined ==
  /\ fn \in Joiners /\ AfterLoop(fn, "count")
  /\ Reserve(Last(counts) + Extra, Opening)

WriteElement ==
  /\ fn \in Joiners /\ InLoop(fn, "write")
  /\ WriteOne(IF Skipped(input[cur]) THEN <<>> ELSE Written(input[cur]))

CloseJoined == fn \in Joiners /\ AfterLoop(fn, "write") /\ Finished(JoinedText \o Close)

CollapseNext == CountElement \/ ReserveJoined \/ WriteElement \/ CloseJoined

-----------------------------------------------------------------------------

(* What is written stays in what was counted, also where a separator is    *)
(* written and then taken back, and where nothing is joined at all.        *)
CollapseFits ==
  fn \in Joiners /\ at \in {"write", "return"} => Len(out) <= size
=============================================================================
