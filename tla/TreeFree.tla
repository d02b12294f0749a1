------------------------------- MODULE TreeFree -------------------------------
(***************************************************************************)
(* What yajl_tree_free (src/src/yajl/yajl_tree.c) gives back: the blocks   *)
(* of a tree.  An object has two arrays and an array one, once they hold   *)
(* something; an object also owns the text of its keys.                    *)
(*                                                                         *)
(* The C function calls itself for each value; here the blocks are counted *)
(* level by level, from trees of n levels to trees of n + 1.               *)
(***************************************************************************)
EXTENDS TreeParser

Types == Toks \cup {"object", "array", "number"}

\* The trees below whose root all are in subtrees.
Trees(subtrees) ==
  [type : Types, text : Texts \cup {""}, keys : Seq(Texts), values : Seq(subtrees)]

\* The sum of a sequence of numbers.
Total(ns) ==
  LET sum[i \in 0 .. Len(ns)] == IF i = 0 THEN 0 ELSE sum[i - 1] + ns[i]
  IN  sum[Len(ns)]

BlocksOfNode(v) ==
  BlocksOfLeaf(v.type) + Len(v.keys)
    + IF v.values = <<>> THEN 0 ELSE IF v.type = "object" THEN 2 ELSE 1

\* blocks has the trees of some number of levels, this those of one more.
OneLevelMore(blocks) ==
  [v \in Trees(DOMAIN blocks) |->
     BlocksOfNode(v) + Total([i \in 1 .. Len(v.values) |-> blocks[v.values[i]]])]

BlocksByLevels[n \in Nat] == IF n = 0 THEN <<>> ELSE OneLevelMore(BlocksByLevels[n - 1])

\* Every level of a tree takes a token, so no tree has more levels than that.
Blocks(v) == BlocksByLevels[MaxTokens][v]
BlocksOfAll(vs) == Total([i \in 1 .. Len(vs) |-> Blocks(vs[i])])

yajl_tree_free(c, root) == Context(c.stack, c.root, c.err, c.blocks - BlocksOfAll(root))

\* The blocks that a context reaches: its stack, and its root if there is one.
BlocksOfElem(e) == 1 + Len(e.key) + Blocks(e.value)
BlocksOfStack(stack) == Total([i \in 1 .. Len(stack) |-> BlocksOfElem(stack[i])])

Reachable(c) == BlocksOfStack(c.stack) + BlocksOfAll(c.root)

-----------------------------------------------------------------------------
(* Every block that was allocated can be reached from the stack or the     *)
(* root, also after a parse error, so the cleanup of yajl_tree_parse can   *)
(* free them all, unless an allocation has failed.  A handler that fails   *)
(* does give up what it holds, a value that is not added yet and its key;  *)
(* but what is left of the stack and the root is still allocated, and no   *)
(* block can be reached in two ways, so nothing is freed twice.  A block   *)
(* has one owner, and the owner changes: a string becomes a key on the     *)
(* stack, then a key of an object; a container leaves the stack for the    *)
(* one around it.                                                          *)
NothingLost ==
  /\ Reachable(ctx) <= ctx.blocks
  /\ ctx.err = "none" => ctx.blocks = Reachable(ctx)
=============================================================================
