------------------------------- MODULE YajlTree -------------------------------
(***************************************************************************)
(* The tree builder, src/src/yajl/yajl_tree.c: the callbacks that turn the *)
(* events of the parser into a tree of yajl_val.  Each handler is a pure   *)
(* operator from a context to the value it returns, "go on" (TRUE) or      *)
(* STATUS_ABORT, and the context it leaves.                                *)
(*                                                                         *)
(* A context is the stack of open containers (the innermost last, each     *)
(* with the key it has read, if any), the root, the message left in        *)
(* errbuf, and the number of blocks malloc has handed out and nobody has   *)
(* freed.  A pointer that may be NULL is a sequence of at most one value.  *)
(* mem says which allocation of the handler fails, if any.                 *)
(***************************************************************************)
EXTENDS Integers, Sequences

NULL == <<>>
Ref(x) == <<x>>

\* value: the yajl_val itself; link: what attaches it (stack_elem_t, realloc);
\* values: the second of the two arrays that a pair needs.
AllocationFailures == {"none", "value", "link", "values"}

Node(type, text, keys, values) ==
  [type |-> type, text |-> text, keys |-> keys, values |-> values]

Leaf(type, text) == Node(type, text, <<>>, <<>>)
Container(type)  == Node(type, "", <<>>, <<>>)

Elem(v, key) == [value |-> v, key |-> key]
Context(stack, root, err, blocks) ==
  [stack |-> stack, root |-> root, err |-> err, blocks |-> blocks]

EmptyContext == Context(<<>>, NULL, "none", 0)

IsOpen(ctx) == Len(ctx.stack) > 0
Innermost(ctx) == ctx.stack[Len(ctx.stack)]

Continue(ctx) == [go |-> TRUE, ctx |-> ctx]
Abort(ctx, message) ==
  [go |-> FALSE, ctx |-> Context(ctx.stack, ctx.root, message, ctx.blocks)]

\* n more blocks allocated.
Allocated(ctx, n) == Context(ctx.stack, ctx.root, ctx.err, ctx.blocks + n)

\* The innermost container, its key and the number of blocks change.
Update(ctx, v, key, n) ==
  Context([ctx.stack EXCEPT ![Len(ctx.stack)] = Elem(v, key)],
          ctx.root, ctx.err, ctx.blocks + n)

-----------------------------------------------------------------------------

context_push(ctx, v, mem) ==
  IF mem = "link"
    THEN Abort(ctx, "Out of memory")
    ELSE Continue(Context(Append(ctx.stack, Elem(v, NULL)),
                          ctx.root, ctx.err, ctx.blocks + 1))

\* What context_pop leaves of a stack that is not empty; it frees the key.
\* Slip in the next: the stack_elem_t is not freed.
PoppedUnfreed(ctx) ==
  Context(SubSeq(ctx.stack, 1, Len(ctx.stack) - 1), ctx.root, ctx.err,
          ctx.blocks - Len(Innermost(ctx).key))
Popped(ctx) ==
  Context(SubSeq(ctx.stack, 1, Len(ctx.stack) - 1), ctx.root, ctx.err,
          ctx.blocks - (1 + Len(Innermost(ctx).key)))

\* Slips: the key stays on the stack; a new value goes to the front.
KeyStays(ctx, key, v, mem) ==
  LET obj == Innermost(ctx).value
  IN  Continue(Update(ctx, Node(obj.type, "", Append(obj.keys, key), Append(obj.values, v)),
                      Ref(key), 0))
NewestFirst(ctx, key, v, mem) ==
  LET obj == Innermost(ctx).value
  IN  Continue(Update(ctx, Node(obj.type, "", Append(obj.keys, key), <<v>> \o obj.values),
                      NULL, IF obj.keys = <<>> THEN 2 ELSE 0))

\* Slip: a key and its value, a leaf, are freed for want of memory; the key stays.
KeyFreedAndKept(ctx, key, v, mem) ==
  LET obj == Innermost(ctx).value
  IN  IF mem \in {"link", "values"}
        THEN Abort(Update(ctx, obj, Ref(key), IF v.type \in {"string", "number"} THEN -3 ELSE -2),
                   "Out of memory")
        ELSE Continue(Update(ctx,
                             Node(obj.type, "", Append(obj.keys, key), Append(obj.values, v)),
                             NULL,
                             IF obj.keys = <<>> THEN 2 ELSE 0))

\* The key leaves the stack first; the first pair allocates two arrays, and the
\* object keeps the first of them when there is no memory for the second.
object_add_keyval(ctx, key, v, mem) ==
  LET obj == Innermost(ctx).value
  IN  IF mem \in {"link", "values"}
        THEN Abort(Update(ctx, obj, NULL, IF mem = "values" /\ obj.keys = <<>> THEN 1 ELSE 0),
                   "Out of memory")
        ELSE Continue(Update(ctx,
                             Node(obj.type, "", Append(obj.keys, key), Append(obj.values, v)),
                             NULL,
                             IF obj.keys = <<>> THEN 2 ELSE 0))

\* Slip: a new element goes to the front.
NewestElementFirst(ctx, v, mem) ==
  LET array == Innermost(ctx).value
  IN  Continue(Update(ctx, Node(array.type, "", <<>>, <<v>> \o array.values),
                      Innermost(ctx).key, IF array.values = <<>> THEN 1 ELSE 0))

array_add_value(ctx, v, mem) ==
  LET array == Innermost(ctx).value
  IN  IF mem = "link"
        THEN Abort(ctx, "Out of memory")
        ELSE Continue(Update(ctx,
                             Node(array.type, "", <<>>, Append(array.values, v)),
                             Innermost(ctx).key,
                             IF array.values = <<>> THEN 1 ELSE 0))

\* A string that becomes a key loses its yajl_val and keeps its text.
context_add_value(ctx, v, mem) ==
  LET top == Innermost(ctx) IN
  CASE ~IsOpen(ctx) ->
         Continue(Context(ctx.stack, Ref(v), ctx.err, ctx.blocks))
    [] IsOpen(ctx) /\ top.value.type = "object" /\ top.key # NULL ->
         object_add_keyval(ctx, top.key[1], v, mem)
    [] IsOpen(ctx) /\ top.value.type = "object" /\ top.key = NULL /\ v.type = "string" ->
         Continue(Update(ctx, top.value, Ref(v.text), -1))
    [] IsOpen(ctx) /\ top.value.type = "object" /\ top.key = NULL /\ v.type # "string" ->
         Abort(ctx, "Object key is not a string")
    [] IsOpen(ctx) /\ top.value.type = "array" ->
         array_add_value(ctx, v, mem)
    [] OTHER ->
         Abort(ctx, "Cannot add value to a value that is not composite")

-----------------------------------------------------------------------------

\* A string or a number is two blocks: the yajl_val and its text.
BlocksOfLeaf(type) == IF type \in {"string", "number"} THEN 2 ELSE 1

(* handle_null, handle_boolean, handle_number, handle_string *)
handle_leaf(ctx, type, text, mem) ==
  IF mem = "value"
    THEN Abort(ctx, "Out of memory")
    ELSE context_add_value(Allocated(ctx, BlocksOfLeaf(type)), Leaf(type, text), mem)

(* handle_start_map, handle_start_array *)
handle_start(ctx, type, mem) ==
  IF mem = "value"
    THEN Abort(ctx, "Out of memory")
    ELSE context_push(Allocated(ctx, 1), Container(type), mem)

\* Slips: the container is not popped; the outermost one is popped and dropped.
EndUnpopped(ctx, mem) == context_add_value(ctx, Innermost(ctx).value, mem)
EndRootless(ctx, mem) ==
  IF Len(ctx.stack) > 1
    THEN context_add_value(Popped(ctx), Innermost(ctx).value, mem)
    ELSE Continue(Popped(ctx))

(* handle_end_map, handle_end_array *)
handle_end(ctx, mem) ==
  IF IsOpen(ctx)
    THEN context_add_value(Popped(ctx), Innermost(ctx).value, mem)
    ELSE Abort(ctx, "Bottom of stack reached prematurely")
=============================================================================
