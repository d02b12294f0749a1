------------------------------ MODULE TreeParser ------------------------------
(***************************************************************************)
(* The parser with the tree builder as its client, as yajl_tree_parse and  *)
(* push_parser_new (src/src/yajl/yajl_tree.c) put them together: every     *)
(* callback of YajlParser runs a handler of YajlTree on the context, and   *)
(* what the handler returns decides whether the parse goes on.             *)
(***************************************************************************)
EXTENDS YajlParser, YajlTree

CONSTANT Failures   \* which allocations may fail

ASSUME FailuresAssumption ==
  "none" \in Failures /\ Failures \subseteq AllocationFailures
\* Both constructors set allow_comments only, and a yajl_number callback.
ASSUME TreeOptionsAssumption == Configurations = {{}} /\ ~ConvertsNumbers

VARIABLE ctx        \* context_t

treeVars == <<flags, stateStack, parseError, call, status, unfinished, consumed, ctx>>

LeafType(t) ==
  CASE t.tok \in StringToks -> "string"
    [] t.tok \in NumberToks -> "number"
    [] OTHER                -> t.tok

BuildLeaf(t, mem) ==
  LET r == handle_leaf(ctx, LeafType(t), t.text, mem)
  IN  Scalar(t, r.go) /\ ctx' = r.ctx

BuildKey(t, mem) ==
  LET r == handle_leaf(ctx, LeafType(t), t.text, mem)
  IN  MapKey(t, r.go) /\ ctx' = r.ctx

StartObject(t, mem) ==
  LET r == handle_start(ctx, "object", mem)
  IN  OpenMap(t, r.go) /\ ctx' = r.ctx

StartArray(t, mem) ==
  LET r == handle_start(ctx, "array", mem)
  IN  OpenArray(t, r.go) /\ ctx' = r.ctx

EndObject(t, mem) ==
  LET r == handle_end(ctx, mem)
  IN  (CloseEmptyMap(t, r.go) \/ CloseMap(t, r.go)) /\ ctx' = r.ctx

EndArray(t, mem) ==
  LET r == handle_end(ctx, mem)
  IN  (CloseEmptyArray(t, r.go) \/ CloseArray(t, r.go)) /\ ctx' = r.ctx

BuildStep(t, mem) ==
  \/ BuildLeaf(t, mem)
  \/ BuildKey(t, mem)
  \/ StartObject(t, mem)
  \/ StartArray(t, mem)
  \/ EndObject(t, mem)
  \/ EndArray(t, mem)

TreeInit == Init /\ ctx = EmptyContext

TreeNext ==
  \/ ApiStep /\ UNCHANGED ctx
  \/ \E t \in Lexemes :
       \/ SilentStep(t) /\ UNCHANGED ctx
       \/ \E mem \in Failures : BuildStep(t, mem)

TreeSpec == TreeInit /\ [][TreeNext]_treeVars

-----------------------------------------------------------------------------
(* Safety *)

Failed == Current \in ErrorStates

MapStates   == {"map_start", "map_sep", "map_need_val", "map_got_val", "map_need_key"}
ArrayStates == {"array_start", "array_got_val", "array_need_val"}

(* The innermost container matches the state the parser is in, and holds a *)
(* key exactly between a key and its value.                                *)
MatchesCurrent(elem, s) ==
  /\ elem.value.type = IF s \in MapStates THEN "object" ELSE "array"
  /\ (elem.key # NULL) <=> (s \in {"map_sep", "map_need_val"})

(* An outer container waits for the value of the key it has read, although *)
(* the parser has already moved that level on to "got the value".          *)
MatchesOuter(elem, s) ==
  /\ elem.value.type = IF s \in MapStates THEN "object" ELSE "array"
  /\ (elem.key # NULL) <=> (s \in MapStates)

(* The two stacks move in step: one open container per open level, of the  *)
(* kind the parser believes it is in, and the root appears only when the   *)
(* parser has seen the whole value.                                        *)
InStep ==
  /\ Len(stateStack) = Len(ctx.stack) + 1
  /\ \A i \in 1 .. Len(ctx.stack) :
       IF i = Len(ctx.stack) THEN MatchesCurrent(ctx.stack[i], stateStack[i + 1])
                             ELSE MatchesOuter(ctx.stack[i], stateStack[i + 1])
  /\ (ctx.root # NULL) <=> (Len(stateStack) = 1 /\ Current = "parse_complete")

ParserAndTreeInStep == Failed \/ InStep

(* The errors of yajl_tree.c that blame the sequence of callbacks never    *)
(* happen; running out of memory is the only one.                          *)
OnlyMemoryFails == ctx.err \in {"none", "Out of memory"}

(* When yajl_complete_parse reports success there is a root, which         *)
(* ParseValue (parse.c) dereferences without a check, and nothing is left  *)
(* on the stack of open containers.                                        *)
SuccessHasRoot ==
  (call = "complete" /\ status = "ok") => (ctx.root # NULL /\ ~IsOpen(ctx))

(* The root is assigned once, as the assertion of yajl_tree.c:239 says; a  *)
(* second value would overwrite the first.                                 *)
RootAssignedOnce == [][(ctx.root # NULL) => (ctx'.root = ctx.root)]_treeVars
=============================================================================
