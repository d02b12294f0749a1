------------------------------ MODULE TreeProofs ------------------------------
(***************************************************************************)
(* Theorems about the tree builder: in yajl_tree_parse (TreeParser), and   *)
(* in the calls of fromJSON on a connection (PushReader).                  *)
(*                                                                         *)
(* First, the state stack of the parser and the stack of open containers   *)
(* of the tree builder move in step, whatever the text, its chunks and the *)
(* allocations that fail.  From it follow the assertions and the unchecked *)
(* assumptions of yajl_tree.c and of parse.c.                              *)
(*                                                                         *)
(* Second, the tree is the value that the grammar gives the text.  The     *)
(* text read so far can be cut into one piece per open container: each but *)
(* the innermost is the beginning of a container that waits for a value,   *)
(* and the innermost is a beginning that the state of the parser tells     *)
(* (Begun).  A token extends the innermost piece, begins a new one, or     *)
(* completes a value that then extends the piece below.                    *)
(*                                                                         *)
(* Third, nothing that was allocated is lost, and a call on a connection   *)
(* that succeeds returns the value of the text it has read and frees its   *)
(* tree.                                                                   *)
(***************************************************************************)
EXTENDS ReaderTexts, YajlParserProofs

\* What the proofs need to know of the type of a context.
Stacked(c) == \E S : c.stack \in Seq(S)

-----------------------------------------------------------------------------
(* The contexts that the operators of YajlTree build.                      *)

LEMMA FieldsOfContext ==
  ASSUME NEW stack, NEW root, NEW err, NEW blocks
  PROVE  /\ Context(stack, root, err, blocks).stack = stack
         /\ Context(stack, root, err, blocks).root = root
         /\ Context(stack, root, err, blocks).err = err
  BY DEF Context

LEMMA ReplacedTop ==
  ASSUME NEW c, Stacked(c), IsOpen(c), NEW v, NEW key, NEW n
  PROVE  LET d == Update(c, v, key, n)
         IN  /\ Stacked(d)
             /\ Len(d.stack) = Len(c.stack)
             /\ \A i \in 1 .. Len(c.stack) - 1 : d.stack[i] = c.stack[i]
             /\ Innermost(d).value = v
             /\ Innermost(d).key = key
             /\ d.root = c.root
             /\ d.err = c.err
<1> DEFINE d == Update(c, v, key, n)
<1>1. PICK S : c.stack \in Seq(S)
  BY DEF Stacked
<1>2. Len(c.stack) \in Nat /\ Len(c.stack) > 0
  BY <1>1 DEF IsOpen
<1>3. d.stack = [c.stack EXCEPT ![Len(c.stack)] = Elem(v, key)]
  BY FieldsOfContext DEF Update
<1>4. c.stack \in Seq(S \cup {Elem(v, key)})
  BY <1>1
<1>5. /\ d.stack \in Seq(S \cup {Elem(v, key)})
      /\ Len(d.stack) = Len(c.stack)
      /\ d.stack[Len(c.stack)] = Elem(v, key)
      /\ \A i \in 1 .. Len(c.stack) - 1 : d.stack[i] = c.stack[i]
  BY <1>2, <1>3, <1>4
<1>6. Stacked(d)
  BY <1>5 DEF Stacked
<1>7. Innermost(d).value = v /\ Innermost(d).key = key
  BY <1>5 DEF Innermost, Elem
<1>8. d.root = c.root /\ d.err = c.err
  BY FieldsOfContext DEF Update
<1> QED
  BY <1>5, <1>6, <1>7, <1>8

LEMMA NullIsNotRef == \A x : Ref(x) # NULL
  BY DEF Ref, NULL

-----------------------------------------------------------------------------
(* The handlers.  A context is ready for a value when the value has a      *)
(* place: no container is open, the innermost one is an array, or it is an *)
(* object that holds a key.                                                *)

Ready(c) ==
  IsOpen(c) => \/ Innermost(c).value.type = "array" /\ Innermost(c).key = NULL
               \/ Innermost(c).value.type = "object" /\ Innermost(c).key # NULL

(* d is c with a value added, at the root or in the innermost container.   *)
Added(c, d) ==
  /\ Stacked(d)
  /\ Len(d.stack) = Len(c.stack)
  /\ \A i \in 1 .. Len(c.stack) - 1 : d.stack[i] = c.stack[i]
  /\ IF IsOpen(c)
       THEN /\ Innermost(d).value.type = Innermost(c).value.type
            /\ Innermost(d).key = NULL
            /\ d.root = c.root
       ELSE d.root # NULL
  /\ d.err = c.err

OutOfMemory(r) == r.go = FALSE /\ r.ctx.err = "Out of memory"

LEMMA Aborted ==
  ASSUME NEW c
  PROVE  OutOfMemory(Abort(c, "Out of memory"))
<1>1. Abort(c, "Out of memory").go = FALSE
  BY DEF Abort
<1>2. Abort(c, "Out of memory").ctx.err = "Out of memory"
  BY DEF Abort, Context
<1> QED
  BY <1>1, <1>2 DEF OutOfMemory

LEMMA AddValue ==
  ASSUME NEW c, Stacked(c), Ready(c), NEW v, NEW mem
  PROVE  LET r == context_add_value(c, v, mem)
         IN  OutOfMemory(r) \/ (r.go = TRUE /\ Added(c, r.ctx))
<1> DEFINE r == context_add_value(c, v, mem)
<1>1. CASE ~IsOpen(c)
  <2>1. r = Continue(Context(c.stack, Ref(v), c.err, c.blocks))
    BY <1>1 DEF context_add_value
  <2>2. r.go = TRUE /\ r.ctx.stack = c.stack /\ r.ctx.root = Ref(v) /\ r.ctx.err = c.err
    BY <2>1, FieldsOfContext DEF Continue
  <2> QED
    BY <1>1, <2>2, NullIsNotRef DEF Added, Stacked
<1>2. CASE IsOpen(c) /\ Innermost(c).value.type = "object" /\ Innermost(c).key # NULL
  <2> DEFINE obj == Innermost(c).value
             key == Innermost(c).key[1]
  <2>1. r = object_add_keyval(c, key, v, mem)
    BY <1>2 DEF context_add_value
  <2>2. CASE mem \in {"link", "values"}
    BY <2>1, <2>2, Aborted DEF object_add_keyval
  <2>3. CASE mem \notin {"link", "values"}
    <3>1. PICK w, n : w.type = obj.type /\ r = Continue(Update(c, w, NULL, n))
      BY <2>1, <2>3 DEF object_add_keyval, Node
    <3>2. r.go = TRUE /\ r.ctx = Update(c, w, NULL, n)
      BY <3>1 DEF Continue
    <3> QED
      BY <1>2, <3>1, <3>2, ReplacedTop DEF Added
  <2> QED
    BY <2>2, <2>3
<1>3. CASE IsOpen(c) /\ Innermost(c).value.type = "array" /\ Innermost(c).key = NULL
  <2> DEFINE array == Innermost(c).value
  <2>1. r = array_add_value(c, v, mem)
    BY <1>3 DEF context_add_value
  <2>2. CASE mem = "link"
    BY <2>1, <2>2, Aborted DEF array_add_value
  <2>3. CASE mem # "link"
    <3>1. PICK w, n : w.type = array.type /\ r = Continue(Update(c, w, NULL, n))
      BY <1>3, <2>1, <2>3 DEF array_add_value, Node
    <3>2. r.go = TRUE /\ r.ctx = Update(c, w, NULL, n)
      BY <3>1 DEF Continue
    <3> QED
      BY <1>3, <3>1, <3>2, ReplacedTop DEF Added
  <2> QED
    BY <2>2, <2>3
<1> QED
  BY <1>1, <1>2, <1>3 DEF Ready

(* d is c with the innermost object holding a key.                         *)
KeyRead(c, d) ==
  /\ Stacked(d)
  /\ Len(d.stack) = Len(c.stack)
  /\ \A i \in 1 .. Len(c.stack) - 1 : d.stack[i] = c.stack[i]
  /\ Innermost(d).value.type = "object"
  /\ Innermost(d).key # NULL
  /\ d.root = c.root
  /\ d.err = c.err

LEMMA AddKey ==
  ASSUME NEW c, Stacked(c), IsOpen(c),
         Innermost(c).value.type = "object", Innermost(c).key = NULL,
         NEW v, v.type = "string", NEW mem
  PROVE  LET r == context_add_value(c, v, mem)
         IN  r.go = TRUE /\ KeyRead(c, r.ctx)
<1> DEFINE r == context_add_value(c, v, mem)
           d == Update(c, Innermost(c).value, Ref(v.text), -1)
<1>1. r = Continue(d)
  BY DEF context_add_value
<1>2. r.go = TRUE /\ r.ctx = d
  BY <1>1 DEF Continue
<1> QED
  BY <1>2, ReplacedTop, NullIsNotRef DEF KeyRead

(* Allocated counts a block and changes nothing else.                      *)
LEMMA AllocatedAlike ==
  ASSUME NEW c, Stacked(c), NEW n
  PROVE  LET a == Allocated(c, n)
         IN  /\ a.stack = c.stack /\ a.root = c.root /\ a.err = c.err
             /\ Stacked(a)
             /\ IsOpen(a) = IsOpen(c)
             /\ Innermost(a) = Innermost(c)
  BY FieldsOfContext DEF Allocated, Stacked, IsOpen, Innermost

LEMMA LeafHandler ==
  ASSUME NEW c, Stacked(c), Ready(c), NEW type, NEW text, NEW mem
  PROVE  LET r == handle_leaf(c, type, text, mem)
         IN  OutOfMemory(r) \/ (r.go = TRUE /\ Added(c, r.ctx))
<1> DEFINE a == Allocated(c, BlocksOfLeaf(type))
           r == handle_leaf(c, type, text, mem)
<1>1. CASE mem = "value"
  BY <1>1, Aborted DEF handle_leaf
<1>2. CASE mem # "value"
  <2>1. r = context_add_value(a, Leaf(type, text), mem)
    BY <1>2 DEF handle_leaf
  <2>2. Stacked(a) /\ Ready(a)
    BY AllocatedAlike DEF Ready
  <2>3. OutOfMemory(r) \/ (r.go = TRUE /\ Added(a, r.ctx))
    BY <2>1, <2>2, AddValue
  <2> QED
    BY <2>3, AllocatedAlike DEF Added
<1> QED
  BY <1>1, <1>2

LEMMA KeyHandler ==
  ASSUME NEW c, Stacked(c), IsOpen(c),
         Innermost(c).value.type = "object", Innermost(c).key = NULL,
         NEW text, NEW mem
  PROVE  LET r == handle_leaf(c, "string", text, mem)
         IN  OutOfMemory(r) \/ (r.go = TRUE /\ KeyRead(c, r.ctx))
<1> DEFINE a == Allocated(c, BlocksOfLeaf("string"))
           r == handle_leaf(c, "string", text, mem)
<1>1. CASE mem = "value"
  BY <1>1, Aborted DEF handle_leaf
<1>2. CASE mem # "value"
  <2>1. r = context_add_value(a, Leaf("string", text), mem)
    BY <1>2 DEF handle_leaf
  <2>2. Leaf("string", text).type = "string"
    BY DEF Leaf, Node
  <2>3. /\ Stacked(a) /\ IsOpen(a)
        /\ Innermost(a).value.type = "object" /\ Innermost(a).key = NULL
    BY AllocatedAlike
  <2>4. r.go = TRUE /\ KeyRead(a, r.ctx)
    BY <2>1, <2>2, <2>3, AddKey
  <2> QED
    BY <2>4, AllocatedAlike DEF KeyRead
<1> QED
  BY <1>1, <1>2

(* d is c with an empty container of the given type open.                  *)
Started(c, type, d) ==
  /\ d.stack = Append(c.stack, Elem(Container(type), NULL))
  /\ d.root = c.root
  /\ d.err = c.err

LEMMA StartHandler ==
  ASSUME NEW c, NEW type, NEW mem
  PROVE  LET r == handle_start(c, type, mem)
         IN  OutOfMemory(r) \/ (r.go = TRUE /\ Started(c, type, r.ctx))
<1> DEFINE a == Allocated(c, 1)
           r == handle_start(c, type, mem)
<1>1. CASE mem \in {"value", "link"}
  BY <1>1, Aborted DEF handle_start, context_push
<1>2. CASE mem \notin {"value", "link"}
  <2> DEFINE d == Context(Append(a.stack, Elem(Container(type), NULL)),
                          a.root, a.err, a.blocks + 1)
  <2>1. r = Continue(d)
    BY <1>2 DEF handle_start, context_push
  <2>2. a.stack = c.stack /\ a.root = c.root /\ a.err = c.err
    BY FieldsOfContext DEF Allocated
  <2>3. /\ d.stack = Append(c.stack, Elem(Container(type), NULL))
        /\ d.root = c.root
        /\ d.err = c.err
    BY <2>2 DEF Context
  <2> HIDE DEF d
  <2>4. r.go = TRUE /\ r.ctx = d
    BY <2>1 DEF Continue
  <2> QED
    BY <2>3, <2>4 DEF Started
<1> QED
  BY <1>1, <1>2

LEMMA EndHandler ==
  ASSUME NEW c, Stacked(c), IsOpen(c), Ready(Popped(c)), NEW mem
  PROVE  LET r == handle_end(c, mem)
         IN  OutOfMemory(r) \/ (r.go = TRUE /\ Added(Popped(c), r.ctx))
<1>1. PICK S : c.stack \in Seq(S)
  BY DEF Stacked
<1>2. SubSeq(c.stack, 1, Len(c.stack) - 1) \in Seq(S)
  BY <1>1 DEF IsOpen
<1>3. Stacked(Popped(c))
  <2>1. Popped(c).stack = SubSeq(c.stack, 1, Len(c.stack) - 1)
    BY DEF Popped, Context
  <2> QED
    BY <1>2, <2>1 DEF Stacked
<1>4. handle_end(c, mem) = context_add_value(Popped(c), Innermost(c).value, mem)
  BY DEF handle_end
<1> QED
  BY <1>3, <1>4, AddValue

-----------------------------------------------------------------------------
(* The stacks move in step.  d is the context after the step.              *)

\* InStep, for a given state stack and context.
InStepOf(stack, c) ==
  /\ Len(stack) = Len(c.stack) + 1
  /\ \A i \in 1 .. Len(c.stack) :
       IF i = Len(c.stack) THEN MatchesCurrent(c.stack[i], stack[i + 1])
                           ELSE MatchesOuter(c.stack[i], stack[i + 1])
  /\ (c.root # NULL) <=> (Len(stack) = 1 /\ stack[1] = "parse_complete")

LEMMA InStepHere == InStep <=> InStepOf(stateStack, ctx)
  BY DEF InStep, InStepOf, Current

LEMMA InStepThere == InStep' <=> InStepOf(stateStack', ctx')
  BY DEF InStep, InStepOf, Current

LEMMA OneOrMore == \A n \in Nat : n > 0 => (n = 1 \/ n > 1)
  OBVIOUS

(* The top of both stacks changes, and they keep their heights.            *)
LEMMA TopChanges ==
  ASSUME stateStack \in Seq(States), StackShape, Stacked(ctx), InStep,
         NEW s \in States, NEW d, Stacked(d),
         Len(d.stack) = Len(ctx.stack),
         \A i \in 1 .. Len(ctx.stack) - 1 : d.stack[i] = ctx.stack[i],
         IsOpen(ctx) => MatchesCurrent(Innermost(d), s),
         (d.root # NULL) <=> (~IsOpen(ctx) /\ s = "parse_complete")
  PROVE  InStepOf(SetCurrent(s), d)
<1> DEFINE n == Len(stateStack)
           new == SetCurrent(s)
<1>1. n \in Nat /\ n > 0 /\ Len(ctx.stack) = n - 1
  BY DEF StackShape, WellFormed, Stacked, InStep
<1>2. /\ new \in Seq(States)
      /\ Len(new) = n
      /\ new[n] = s
      /\ \A i \in 1 .. n - 1 : new[i] = stateStack[i]
  BY <1>1 DEF SetCurrent
<1>3. ASSUME NEW i \in 1 .. Len(d.stack), i = Len(d.stack)
      PROVE  MatchesCurrent(d.stack[i], new[i + 1])
  BY <1>1, <1>2, <1>3 DEF IsOpen, Innermost
<1>4. ASSUME NEW i \in 1 .. Len(d.stack), i # Len(d.stack)
      PROVE  MatchesOuter(d.stack[i], new[i + 1])
  <2>1. i \in 1 .. Len(ctx.stack) - 1
    BY <1>1, <1>4
  <2>2. d.stack[i] = ctx.stack[i]
    BY <2>1
  <2>3. i + 1 \in 1 .. n - 1
    BY <1>1, <2>1
  <2>4. new[i + 1] = stateStack[i + 1]
    BY <1>2, <2>3
  <2>5. MatchesOuter(ctx.stack[i], stateStack[i + 1])
    BY <1>1, <2>1 DEF InStep
  <2> QED
    BY <2>2, <2>4, <2>5
<1>5. CASE n = 1
  BY <1>1, <1>2, <1>3, <1>4, <1>5 DEF InStepOf, IsOpen
<1>6. CASE n > 1
  <2>1. IsOpen(ctx)
    BY <1>1, <1>6 DEF IsOpen
  <2> QED
    BY <1>1, <1>2, <1>3, <1>4, <1>6, <2>1 DEF InStepOf
<1> QED
  BY <1>1, <1>5, <1>6, OneOrMore

(* A container opens on both sides.                                        *)
LEMMA BothOpen ==
  ASSUME stateStack \in Seq(States), StackShape, Stacked(ctx), InStep,
         Current \in ValueStates,
         NEW s \in InnerStates, NEW elem, NEW d,
         d.stack = Append(ctx.stack, elem), d.root = ctx.root,
         MatchesCurrent(elem, s)
  PROVE  InStepOf(Push(SetCurrent(AfterValue(Current)), s), d)
<1> DEFINE n == Len(stateStack)
           after == AfterValue(Current)
           new == Push(SetCurrent(after), s)
<1>1. n \in Nat /\ n > 0 /\ Len(ctx.stack) = n - 1
  BY DEF StackShape, WellFormed, Stacked, InStep
<1>2. after \in States /\ s \in States
  BY StateKinds DEF AfterValue, States
<1>3. /\ SetCurrent(after) \in Seq(States)
      /\ Len(SetCurrent(after)) = n
      /\ SetCurrent(after)[n] = after
      /\ \A i \in 1 .. n - 1 : SetCurrent(after)[i] = stateStack[i]
  BY <1>1, <1>2 DEF SetCurrent
<1>4. /\ new \in Seq(States)
      /\ Len(new) = n + 1
      /\ new[n + 1] = s
      /\ new[n] = after
      /\ \A i \in 1 .. n - 1 : new[i] = stateStack[i]
  BY <1>1, <1>2, <1>3 DEF Push
<1>5. PICK S : ctx.stack \in Seq(S)
  BY DEF Stacked
<1>6. ctx.stack \in Seq(S \cup {elem})
  BY <1>5
<1>7. /\ Len(d.stack) = n
      /\ d.stack[n] = elem
      /\ \A i \in 1 .. n - 1 : d.stack[i] = ctx.stack[i]
  BY <1>1, <1>6
<1>8. ASSUME NEW i \in 1 .. n - 1
      PROVE  MatchesOuter(d.stack[i], new[i + 1])
  <2>1. CASE i = n - 1
    <3>1. MatchesCurrent(ctx.stack[i], Current)
      BY <1>1, <2>1 DEF InStep, Current
    <3>2. n # 1
      BY <1>1, <2>1
    <3>3. Current \in {"map_need_val", "array_need_val", "array_start"}
      BY <3>2, StateKinds DEF StackShape, WellFormed, Current, ValueStates, ErrorStates
    <3>4. new[i + 1] = after /\ d.stack[i] = ctx.stack[i]
      BY <1>1, <1>4, <1>7, <2>1
    <3> QED
      BY <3>1, <3>3, <3>4 DEF MatchesCurrent, MatchesOuter, AfterValue, MapStates
  <2>2. CASE i # n - 1
    <3>1. MatchesOuter(ctx.stack[i], stateStack[i + 1])
      BY <1>1, <2>2 DEF InStep
    <3>2. i + 1 \in 1 .. n - 1
      BY <1>1, <2>2
    <3> QED
      BY <1>4, <1>7, <3>1, <3>2
  <2> QED
    BY <2>1, <2>2
<1>9. d.root = NULL /\ Len(new) > 1
  <2>1. Current # "parse_complete"
    BY DEF ValueStates
  <2>2. d.root = NULL
    BY <2>1 DEF InStep
  <2> QED
    BY <1>1, <1>4, <2>2
<1>10. ASSUME NEW i \in 1 .. n
       PROVE  IF i = n THEN MatchesCurrent(d.stack[i], new[i + 1])
                       ELSE MatchesOuter(d.stack[i], new[i + 1])
  <2>1. i = n \/ i \in 1 .. n - 1
    BY <1>1
  <2> QED
    BY <1>4, <1>7, <1>8, <2>1
<1>11. Len(new) = Len(d.stack) + 1
  BY <1>4, <1>7
<1>12. Len(new) \in Nat /\ Len(new) # 1
  BY <1>1, <1>4
<1> HIDE DEF new, n
<1>13. InStepOf(new, d)
  BY <1>7, <1>9, <1>10, <1>11, <1>12 DEF InStepOf
<1> QED
  BY <1>13 DEF new

LEMMA Prefix ==
  ASSUME NEW S, NEW seq \in Seq(S), NEW k \in 0 .. Len(seq)
  PROVE  /\ SubSeq(seq, 1, k) \in Seq(S)
         /\ Len(SubSeq(seq, 1, k)) = k
         /\ \A i \in 1 .. k : SubSeq(seq, 1, k)[i] = seq[i]
  OBVIOUS

LEMMA TwoOrMore == \A n \in Nat : n > 1 => (n = 2 \/ n > 2)
  OBVIOUS

(* What a pop uncovers is ready for the container that has closed.         *)
LEMMA PopUncovers ==
  ASSUME stateStack \in Seq(States), StackShape, Stacked(ctx), InStep,
         Current \in InnerStates
  PROVE  LET n == Len(stateStack)
             c == Popped(ctx)
         IN  /\ n \in Nat /\ n > 1 /\ Len(ctx.stack) = n - 1
             /\ Stacked(c)
             /\ Len(c.stack) = n - 2
             /\ \A i \in 1 .. n - 2 : /\ c.stack[i] = ctx.stack[i]
                                      /\ MatchesOuter(c.stack[i], stateStack[i + 1])
             /\ c.root = ctx.root
             /\ c.err = ctx.err
             /\ IsOpen(ctx)
             /\ Ready(c)
<1> DEFINE n == Len(stateStack)
           c == Popped(ctx)
<1>1. n \in Nat /\ n > 1 /\ Len(ctx.stack) = n - 1
  BY CloseShape DEF InStep, Stacked
<1>2. PICK S : ctx.stack \in Seq(S)
  BY DEF Stacked
<1>3. c.stack = SubSeq(ctx.stack, 1, n - 2) /\ c.root = ctx.root /\ c.err = ctx.err
  BY <1>1 DEF Popped, Context
<1>4. /\ c.stack \in Seq(S)
      /\ Len(c.stack) = n - 2
      /\ \A i \in 1 .. n - 2 : c.stack[i] = ctx.stack[i]
  <2>1. n - 2 \in 0 .. Len(ctx.stack)
    BY <1>1
  <2> QED
    BY <1>2, <1>3, <2>1, Prefix, ZenonT(40)
<1>5. ASSUME NEW i \in 1 .. n - 2
      PROVE  MatchesOuter(c.stack[i], stateStack[i + 1])
  BY <1>1, <1>4 DEF InStep
<1>6. Ready(c)
  <2> SUFFICES ASSUME IsOpen(c)
               PROVE  \/ Innermost(c).value.type = "array" /\ Innermost(c).key = NULL
                      \/ Innermost(c).value.type = "object" /\ Innermost(c).key # NULL
    BY DEF Ready
  <2>1. n - 2 \in 1 .. n - 2 /\ Innermost(c) = c.stack[n - 2]
    BY <1>1, <1>4 DEF IsOpen, Innermost
  <2>2. MatchesOuter(Innermost(c), stateStack[n - 1])
    BY <1>1, <1>5, <2>1
  <2> QED
    BY <2>2 DEF MatchesOuter
<1>7. IsOpen(ctx)
  BY <1>1 DEF IsOpen
<1>8. Stacked(c)
  BY <1>4 DEF Stacked
<1> QED
  BY <1>1, <1>3, <1>4, <1>5, <1>6, <1>7, <1>8

(* A container closes on both sides.                                       *)
LEMMA BothClose ==
  ASSUME stateStack \in Seq(States), StackShape, Stacked(ctx), InStep,
         Current \in InnerStates,
         NEW d, Added(Popped(ctx), d)
  PROVE  InStepOf(Pop(stateStack), d)
<1> DEFINE n == Len(stateStack)
           c == Popped(ctx)
           new == Pop(stateStack)
<1>1. /\ n \in Nat /\ n > 1 /\ Len(ctx.stack) = n - 1
      /\ Len(c.stack) = n - 2
      /\ \A i \in 1 .. n - 2 : MatchesOuter(c.stack[i], stateStack[i + 1])
      /\ c.root = ctx.root
  BY PopUncovers
<1>2. /\ new \in Seq(States)
      /\ Len(new) = n - 1
      /\ \A i \in 1 .. n - 1 : new[i] = stateStack[i]
  BY <1>1 DEF Pop
<1>3. \A i \in 1 .. n - 1 :
        IF i = 1 THEN stateStack[i] = "parse_complete"
                 ELSE stateStack[i] \in {"map_got_val", "array_got_val"}
  BY DEF StackShape, WellFormed
<1>4. Len(d.stack) = n - 2
  BY <1>1 DEF Added
<1>5. CASE n = 2
  <2>1. ~IsOpen(c)
    BY <1>1, <1>5 DEF IsOpen
  <2>2. d.root # NULL
    BY <2>1 DEF Added
  <2>3. Len(new) = 1 /\ new[1] = "parse_complete"
    BY <1>2, <1>3, <1>5
  <2>4. Len(d.stack) = 0
    BY <1>4, <1>5
  <2> QED
    BY <2>2, <2>3, <2>4 DEF InStepOf
<1>6. CASE n > 2
  <2>1. IsOpen(c)
    BY <1>1, <1>6 DEF IsOpen
  <2>2. d.root = ctx.root
    BY <1>1, <2>1 DEF Added
  <2>3. ctx.root = NULL
    BY <1>1 DEF InStep
  <2>4. Innermost(c) = c.stack[n - 2] /\ Innermost(d) = d.stack[n - 2]
    BY <1>1, <1>4 DEF Innermost
  <2>5. /\ d.stack[n - 2].value.type = c.stack[n - 2].value.type
        /\ d.stack[n - 2].key = NULL
    BY <2>1, <2>4 DEF Added
  <2>6. MatchesOuter(c.stack[n - 2], new[n - 1])
    <3>1. n - 2 \in 1 .. n - 2 /\ n - 1 \in 1 .. n - 1 /\ (n - 2) + 1 = n - 1
      BY <1>1, <1>6
    <3>2. MatchesOuter(c.stack[n - 2], stateStack[(n - 2) + 1])
      BY <1>1, <3>1
    <3> QED
      BY <1>2, <3>1, <3>2
  <2>7. new[n - 1] \in {"map_got_val", "array_got_val"}
    BY <1>1, <1>2, <1>3, <1>6
  <2>8. MatchesCurrent(d.stack[n - 2], new[n - 1])
    BY <2>5, <2>6, <2>7 DEF MatchesCurrent, MatchesOuter
  <2>9. ASSUME NEW i \in 1 .. n - 2, i # n - 2
        PROVE  MatchesOuter(d.stack[i], new[i + 1])
    <3>1. i \in 1 .. n - 3 /\ i + 1 \in 1 .. n - 1
      BY <1>1, <2>9
    <3>2. d.stack[i] = c.stack[i]
      BY <1>1, <3>1 DEF Added
    <3> QED
      BY <1>1, <1>2, <3>1, <3>2
  <2>10. ASSUME NEW i \in 1 .. Len(d.stack)
         PROVE  IF i = Len(d.stack) THEN MatchesCurrent(d.stack[i], new[i + 1])
                                    ELSE MatchesOuter(d.stack[i], new[i + 1])
    <3>1. Len(d.stack) + 1 = n - 1
      BY <1>1, <1>4
    <3> QED
      BY <1>1, <1>4, <2>8, <2>9, <3>1
  <2>11. Len(new) = Len(d.stack) + 1 /\ Len(new) # 1
    BY <1>1, <1>2, <1>4, <1>6
  <2> HIDE DEF new
  <2>12. InStepOf(new, d)
    BY <2>2, <2>3, <2>10, <2>11 DEF InStepOf
  <2> QED
    BY <2>12 DEF new
<1>7. n = 2 \/ n > 2
  BY <1>1, TwoOrMore
<1> QED
  BY <1>5, <1>6, <1>7

-----------------------------------------------------------------------------
(* The inductive invariant.                                                *)

Success == call = "complete" /\ status = "ok"

TreeInv ==
  /\ Inv
  /\ Failed \/ (Stacked(ctx) /\ InStep)
  /\ OnlyMemoryFails
  /\ Success => Current = "parse_complete"

(* TreeParser only resolves what YajlParser leaves open: the answers of    *)
(* the client.                                                             *)
LEMMA BuildIsClientStep ==
  ASSUME NEW t \in Lexemes, NEW mem, BuildStep(t, mem)
  PROVE  \E go \in BOOLEAN : ClientStep(t, go)
<1>1. \A c, v : context_add_value(c, v, mem).go \in BOOLEAN
  <2> SUFFICES ASSUME NEW c, NEW v
               PROVE  context_add_value(c, v, mem).go \in BOOLEAN
    OBVIOUS
  <2>1. \A d, message : Continue(d).go \in BOOLEAN /\ Abort(d, message).go \in BOOLEAN
    BY DEF Continue, Abort
  <2> QED
    BY <2>1 DEF context_add_value, object_add_keyval, array_add_value
<1>2. /\ \A type, text : handle_leaf(ctx, type, text, mem).go \in BOOLEAN
      /\ \A type : handle_start(ctx, type, mem).go \in BOOLEAN
      /\ handle_end(ctx, mem).go \in BOOLEAN
  <2>1. \A d, message : Continue(d).go \in BOOLEAN /\ Abort(d, message).go \in BOOLEAN
    BY DEF Continue, Abort
  <2> QED
    BY <1>1, <2>1 DEF handle_leaf, handle_start, handle_end, context_push
<1> QED
  BY <1>2 DEF BuildStep, BuildLeaf, BuildKey, StartObject, StartArray, EndObject,
              EndArray, ClientStep

LEMMA TreeStepIsParserStep == [TreeNext]_treeVars => [Next]_vars
  BY BuildIsClientStep DEF TreeNext, treeVars, Next, vars

LEMMA ErrorSet ==
  ASSUME stateStack \in Seq(States), StackShape, NEW s \in ErrorStates,
         stateStack' = SetCurrent(s)
  PROVE  Failed'
<1>1. Len(stateStack) \in Nat /\ Len(stateStack) > 0
  BY DEF StackShape, WellFormed
<1>2. Len(SetCurrent(s)) = Len(stateStack) /\ SetCurrent(s)[Len(stateStack)] = s
  BY <1>1 DEF SetCurrent
<1> QED
  BY <1>2 DEF Failed, Current

(* What the context and the parser are after a callback.                   *)
LEMMA CallbackOutcome ==
  ASSUME stateStack \in Seq(States), StackShape, OnlyMemoryFails,
         status = "running",
         NEW r, NEW stack, Callback(r.go, stack), ctx' = r.ctx,
         \/ OutOfMemory(r)
         \/ /\ r.go = TRUE
            /\ Stacked(r.ctx)
            /\ r.ctx.err = ctx.err
            /\ InStepOf(stack, r.ctx)
  PROVE  /\ Failed' \/ (Stacked(ctx)' /\ InStep')
         /\ OnlyMemoryFails'
         /\ status' # "ok"
<1>1. CASE OutOfMemory(r)
  <2>1. stateStack' = SetCurrent("parse_error") /\ status' = "client_canceled"
    BY <1>1 DEF OutOfMemory, Callback
  <2> QED
    BY <1>1, <2>1, ErrorSet DEF ErrorStates, OutOfMemory, OnlyMemoryFails
<1>2. CASE r.go = TRUE /\ Stacked(r.ctx) /\ r.ctx.err = ctx.err /\ InStepOf(stack, r.ctx)
  <2>1. stateStack' = stack /\ status' = status
    BY <1>2 DEF Callback, GoTo
  <2>2. InStepOf(stateStack', ctx')
    BY <1>2, <2>1
  <2> QED
    BY <1>2, <2>1, <2>2, InStepThere DEF OnlyMemoryFails, Stacked
<1> QED
  BY <1>1, <1>2

(* In a state that expects a value the context is ready for one, and no    *)
(* root has been set.                                                      *)
LEMMA ValueHasPlace ==
  ASSUME stateStack \in Seq(States), StackShape, Stacked(ctx), InStep,
         Current \in ValueStates
  PROVE  Ready(ctx) /\ ctx.root = NULL
<1>1. ctx.root = NULL
  BY DEF InStep, ValueStates
<1>2. ASSUME IsOpen(ctx)
      PROVE  MatchesCurrent(Innermost(ctx), Current) /\ Current \in InnerStates
  <2>1. Len(ctx.stack) \in Nat /\ Len(ctx.stack) > 0
    BY <1>2 DEF IsOpen, Stacked
  <2>2. Len(stateStack) = Len(ctx.stack) + 1 /\ Len(stateStack) # 1
    BY <2>1 DEF InStep
  <2>3. MatchesCurrent(ctx.stack[Len(ctx.stack)], stateStack[Len(ctx.stack) + 1])
    BY <2>1 DEF InStep
  <2>4. Current \notin ErrorStates
    BY DEF ValueStates, ErrorStates
  <2> QED
    BY <2>2, <2>3, <2>4 DEF Current, Innermost, StackShape, WellFormed
<1>3. Ready(ctx)
  <2> SUFFICES ASSUME IsOpen(ctx)
               PROVE  \/ Innermost(ctx).value.type = "array" /\ Innermost(ctx).key = NULL
                      \/ Innermost(ctx).value.type = "object" /\ Innermost(ctx).key # NULL
    BY DEF Ready
  <2>1. Current \in {"map_need_val", "array_need_val", "array_start"}
    BY <1>2, StateKinds DEF ValueStates
  <2> QED
    BY <1>2, <2>1 DEF MatchesCurrent, MapStates
<1> QED
  BY <1>1, <1>3

(* Inside a container the innermost container matches the current state.   *)
LEMMA InsideContainer ==
  ASSUME stateStack \in Seq(States), StackShape, Stacked(ctx), InStep,
         Current \in InnerStates
  PROVE  /\ IsOpen(ctx)
         /\ MatchesCurrent(Innermost(ctx), Current)
         /\ ctx.root = NULL
<1>1. /\ Len(stateStack) \in Nat /\ Len(stateStack) > 1
      /\ Len(ctx.stack) = Len(stateStack) - 1
  BY PopUncovers
<1>2. Len(ctx.stack) \in 1 .. Len(ctx.stack) /\ Len(ctx.stack) + 1 = Len(stateStack)
  BY <1>1
<1>3. MatchesCurrent(ctx.stack[Len(ctx.stack)], stateStack[Len(ctx.stack) + 1])
  BY <1>2 DEF InStep
<1>4. Current # "parse_complete"
  BY StateKinds
<1> QED
  BY <1>1, <1>2, <1>3, <1>4 DEF IsOpen, Innermost, Current, InStep

(* The value of a leaf.                                                    *)
LEMMA LeafInStep ==
  ASSUME stateStack \in Seq(States), StackShape, Stacked(ctx), InStep,
         Current \in ValueStates, NEW d, Added(ctx, d)
  PROVE  InStepOf(SetCurrent(AfterValue(Current)), d)
<1> DEFINE s == AfterValue(Current)
<1>1. s \in States
  BY DEF AfterValue, States
<1>2. Len(stateStack) \in Nat /\ Len(ctx.stack) \in Nat
      /\ Len(stateStack) = Len(ctx.stack) + 1
  BY DEF Stacked, InStep
<1>3. CASE IsOpen(ctx)
  <2>1. Len(stateStack) # 1
    BY <1>2, <1>3 DEF IsOpen
  <2>2. Current \in InnerStates
    BY <2>1 DEF StackShape, WellFormed, Current, ValueStates, ErrorStates
  <2>3. MatchesCurrent(Innermost(ctx), Current)
    BY <2>2, InsideContainer
  <2>4. s \in {"map_got_val", "array_got_val"} /\ (s = "map_got_val" <=> Current \in MapStates)
    BY <2>2, StateKinds DEF AfterValue, ValueStates, MapStates
  <2>5. MatchesCurrent(Innermost(d), s)
    BY <1>3, <2>3, <2>4 DEF Added, MatchesCurrent, MapStates
  <2>6. d.root = NULL
    BY <1>3, ValueHasPlace DEF Added
  <2> QED
    BY <1>1, <1>3, <2>5, <2>6, TopChanges DEF Added
<1>4. CASE ~IsOpen(ctx)
  <2>1. Len(stateStack) = 1
    BY <1>2, <1>4 DEF IsOpen
  <2>2. Current \notin InnerStates
    BY <2>1, StateKinds DEF StackShape, WellFormed, Current
  <2>3. s = "parse_complete"
    BY <2>2, StateKinds DEF AfterValue, ValueStates
  <2>4. d.root # NULL
    BY <1>4 DEF Added
  <2> QED
    BY <1>1, <1>4, <2>3, <2>4, TopChanges DEF Added
<1> QED
  BY <1>3, <1>4

-----------------------------------------------------------------------------
(* One lemma per kind of step.  Kept is what every step establishes.       *)

Kept ==
  /\ Failed' \/ (Stacked(ctx)' /\ InStep')
  /\ OnlyMemoryFails'

LEMMA BuildStepKeeps ==
  ASSUME TreeInv, NEW t \in Lexemes, NEW mem, BuildStep(t, mem)
  PROVE  Kept /\ status' # "ok"
<1>1. stateStack \in Seq(States) /\ StackShape /\ OnlyMemoryFails
  BY DEF TreeInv, Inv, TypeOK
<1>2. status = "running" /\ ~Failed
  BY DEF BuildStep, BuildLeaf, BuildKey, StartObject, StartArray, EndObject, EndArray,
         Scalar, MapKey, OpenMap, OpenArray, CloseEmptyMap, CloseMap, CloseEmptyArray,
         CloseArray, Lex, Failed, ErrorStates, ValueStates, KeyStates
<1>3. Stacked(ctx) /\ InStep
  BY <1>2 DEF TreeInv
<1>4. CASE BuildLeaf(t, mem)
  <2> DEFINE r == handle_leaf(ctx, LeafType(t), t.text, mem)
  <2>1. /\ Current \in ValueStates /\ ctx' = r.ctx
        /\ Callback(r.go, SetCurrent(AfterValue(Current)))
    BY <1>4 DEF BuildLeaf, Scalar
  <2>2. OutOfMemory(r) \/ (r.go = TRUE /\ Added(ctx, r.ctx))
    BY <1>1, <1>3, <2>1, ValueHasPlace, LeafHandler
  <2>3. Added(ctx, r.ctx) => /\ InStepOf(SetCurrent(AfterValue(Current)), r.ctx)
                             /\ Stacked(r.ctx) /\ r.ctx.err = ctx.err
    BY <1>1, <1>3, <2>1, LeafInStep DEF Added
  <2> HIDE DEF r
  <2> QED
    BY <1>1, <1>2, <2>1, <2>2, <2>3, CallbackOutcome DEF Kept
<1>5. CASE BuildKey(t, mem)
  <2> DEFINE r == handle_leaf(ctx, LeafType(t), t.text, mem)
  <2>1. /\ Current \in KeyStates /\ ctx' = r.ctx
        /\ Callback(r.go, SetCurrent("map_sep"))
        /\ t.tok \in StringToks
    BY <1>5 DEF BuildKey, MapKey
  <2>7. LeafType(t) = "string"
    BY <2>1 DEF LeafType, StringToks, NumberToks
  <2>2. Current \in InnerStates
    BY <2>1, StateKinds DEF KeyStates
  <2>3. IsOpen(ctx) /\ MatchesCurrent(Innermost(ctx), Current) /\ ctx.root = NULL
    BY <1>1, <1>3, <2>2, InsideContainer
  <2>4. Innermost(ctx).value.type = "object" /\ Innermost(ctx).key = NULL
    BY <2>1, <2>3 DEF MatchesCurrent, MapStates, KeyStates
  <2>5. OutOfMemory(r) \/ (r.go = TRUE /\ KeyRead(ctx, r.ctx))
    BY <1>3, <2>3, <2>4, <2>7, KeyHandler
  <2>6. ASSUME KeyRead(ctx, r.ctx)
        PROVE  /\ InStepOf(SetCurrent("map_sep"), r.ctx)
               /\ Stacked(r.ctx) /\ r.ctx.err = ctx.err
    <3>1. "map_sep" \in States
      BY DEF States
    <3>2. MatchesCurrent(Innermost(r.ctx), "map_sep")
      BY <2>6 DEF KeyRead, MatchesCurrent, MapStates
    <3> HIDE DEF r
    <3> QED
      BY <1>1, <1>3, <2>3, <2>6, <3>1, <3>2, TopChanges DEF KeyRead
  <2> HIDE DEF r
  <2> QED
    BY <1>1, <1>2, <2>1, <2>5, <2>6, CallbackOutcome DEF Kept
<1>6. ASSUME NEW type, NEW s,
             <<type, s>> \in {<<"object", "map_start">>, <<"array", "array_start">>},
             Current \in ValueStates,
             Callback(handle_start(ctx, type, mem).go,
                      Push(SetCurrent(AfterValue(Current)), s)),
             ctx' = handle_start(ctx, type, mem).ctx
      PROVE  Kept /\ status' # "ok"
  <2> DEFINE r == handle_start(ctx, type, mem)
             elem == Elem(Container(type), NULL)
  <2>1. s \in InnerStates
    BY <1>6, StateKinds
  <2>2. MatchesCurrent(elem, s)
    BY <1>6 DEF MatchesCurrent, MapStates, Elem, Container, Node
  <2>3. OutOfMemory(r) \/ (r.go = TRUE /\ Started(ctx, type, r.ctx))
    BY StartHandler
  <2>4. Stacked(ctx) => \E S : Append(ctx.stack, elem) \in Seq(S)
    <3> SUFFICES ASSUME NEW S, ctx.stack \in Seq(S)
                 PROVE  Append(ctx.stack, elem) \in Seq(S \cup {elem})
      BY DEF Stacked
    <3>1. ctx.stack \in Seq(S \cup {elem})
      OBVIOUS
    <3> QED
      BY <3>1
  <2>5. ASSUME Started(ctx, type, r.ctx)
        PROVE  /\ InStepOf(Push(SetCurrent(AfterValue(Current)), s), r.ctx)
               /\ Stacked(r.ctx)
               /\ r.ctx.err = ctx.err
    <3>1. /\ r.ctx.stack = Append(ctx.stack, elem)
          /\ r.ctx.root = ctx.root
          /\ r.ctx.err = ctx.err
      BY <2>5 DEF Started
    <3> HIDE DEF r, elem
    <3> QED
      BY <1>1, <1>3, <1>6, <2>1, <2>2, <2>4, <3>1, BothOpen DEF Stacked
  <2> HIDE DEF r
  <2>6. Callback(r.go, Push(SetCurrent(AfterValue(Current)), s)) /\ ctx' = r.ctx
    BY <1>6 DEF r
  <2> QED
    BY <1>1, <1>2, <2>3, <2>5, <2>6, CallbackOutcome DEF Kept
<1>7. CASE StartObject(t, mem)
  BY <1>6, <1>7 DEF StartObject, OpenMap
<1>8. CASE StartArray(t, mem)
  BY <1>6, <1>8 DEF StartArray, OpenArray
<1>9. CASE EndObject(t, mem) \/ EndArray(t, mem)
  <2> DEFINE r == handle_end(ctx, mem)
  <2>1. Current \in InnerStates /\ ctx' = r.ctx /\ Callback(r.go, Pop(stateStack))
    BY <1>9, StateKinds DEF EndObject, EndArray, CloseEmptyMap, CloseMap,
                            CloseEmptyArray, CloseArray
  <2>2. IsOpen(ctx) /\ Ready(Popped(ctx)) /\ Popped(ctx).err = ctx.err
    BY <1>1, <1>3, <2>1, PopUncovers
  <2>3. OutOfMemory(r) \/ (r.go = TRUE /\ Added(Popped(ctx), r.ctx))
    BY <1>3, <2>2, EndHandler
  <2>4. Added(Popped(ctx), r.ctx) => InStepOf(Pop(stateStack), r.ctx)
                                     /\ Stacked(r.ctx) /\ r.ctx.err = ctx.err
    BY <1>1, <1>3, <2>1, <2>2, BothClose DEF Added
  <2> HIDE DEF r
  <2> QED
    BY <1>1, <1>2, <2>1, <2>3, <2>4, CallbackOutcome DEF Kept
<1> QED
  BY <1>4, <1>5, <1>7, <1>8, <1>9 DEF BuildStep

LEMMA SilentTreeStepKeeps ==
  ASSUME TreeInv, NEW t \in Lexemes, SilentStep(t), UNCHANGED ctx
  PROVE  Kept /\ status' # "ok"
<1>1. stateStack \in Seq(States) /\ StackShape /\ OnlyMemoryFails
  BY DEF TreeInv, Inv, TypeOK
<1>2. OnlyMemoryFails'
  BY <1>1 DEF OnlyMemoryFails
<1>3. ASSUME NEW s \in ErrorStates, stateStack' = SetCurrent(s), status' = "error"
      PROVE  Kept /\ status' # "ok"
  BY <1>1, <1>2, <1>3, ErrorSet DEF Kept
<1>4. ASSUME NEW message, Fail(message)
      PROVE  Kept /\ status' # "ok"
  BY <1>3, <1>4 DEF Fail, ErrorStates
<1>5. ASSUME NEW s, <<Current, s>> \in {<<"map_sep", "map_need_val">>,
                                       <<"map_got_val", "map_need_key">>,
                                       <<"array_got_val", "array_need_val">>},
             status = "running", GoTo(SetCurrent(s))
      PROVE  Kept /\ status' # "ok"
  <2>1. Current \in InnerStates /\ ~Failed /\ s \in States /\ s # "parse_complete"
    BY <1>5, StateKinds DEF Failed
  <2>2. Stacked(ctx) /\ InStep
    BY <2>1 DEF TreeInv
  <2>3. IsOpen(ctx) /\ MatchesCurrent(Innermost(ctx), Current) /\ ctx.root = NULL
    BY <1>1, <2>1, <2>2, InsideContainer
  <2>4. MatchesCurrent(Innermost(ctx), s)
    BY <1>5, <2>3 DEF MatchesCurrent, MapStates
  <2>5. InStepOf(SetCurrent(s), ctx)
    BY <1>1, <2>1, <2>2, <2>3, <2>4, TopChanges
  <2>6. stateStack' = SetCurrent(s) /\ status' = "running" /\ ctx' = ctx
    BY <1>5 DEF GoTo
  <2>7. InStep' /\ Stacked(ctx)'
    BY <2>2, <2>5, <2>6, InStepThere DEF Stacked
  <2> QED
    BY <1>2, <2>6, <2>7 DEF Kept
<1>6. CASE MapColon(t) \/ MapComma(t) \/ ArrayComma(t)
  BY <1>5, <1>6 DEF MapColon, MapComma, ArrayComma, Lex
<1>7. CASE LexicalError(t)
  BY <1>3, <1>7 DEF LexicalError, ErrorStates
<1>8. CASE \/ Overflow(t) \/ UnallowedToken(t) \/ BadKey(t) \/ NoColon(t)
           \/ BadAfterPair(t) \/ BadAfterElement(t) \/ TrailingGarbage(t)
  BY <1>4, <1>8 DEF Overflow, UnallowedToken, BadKey, NoColon, BadAfterPair,
                    BadAfterElement, TrailingGarbage
<1> QED
  BY <1>6, <1>7, <1>8 DEF SilentStep

LEMMA ApiStepKeeps ==
  ASSUME TreeInv, ApiStep, UNCHANGED ctx
  PROVE  Kept /\ (Success' => Current' = "parse_complete")
<1>1. stateStack \in Seq(States) /\ StackShape /\ OnlyMemoryFails
  BY DEF TreeInv, Inv, TypeOK
<1>2. OnlyMemoryFails'
  BY <1>1 DEF OnlyMemoryFails
<1>3. ASSUME stateStack' = stateStack
      PROVE  Kept
  <2>1. Current' = Current
    BY <1>3 DEF Current
  <2>2. InStep => InStep'
    BY <1>3, InStepHere, InStepThere
  <2>3. Stacked(ctx)' = Stacked(ctx)
    BY DEF Stacked
  <2> QED
    BY <1>2, <2>1, <2>2, <2>3 DEF Kept, TreeInv, Failed
<1>4. CASE Parse \/ CompleteParse \/ Refuse \/ EndChunk
  <2>1. stateStack' = stateStack /\ ~Success'
    BY <1>4 DEF Parse, CompleteParse, Enter, Refuse, EndChunk, AtChunkEnd,
                Success
  <2> QED
    BY <1>3, <2>1
<1>0. flags = {}
  BY TreeOptionsAssumption DEF TreeInv, Inv, TypeOK
<1>5. CASE Finish
  <2>1. CASE MayEndIn(Current)
    <3>1. Current \in {"got_value", "parse_complete"}
      BY <1>0, <2>1 DEF MayEndIn
    <3>2. Current \in TopStates
      BY <1>1, <3>1, StateKinds DEF StackShape, WellFormed, Current, ErrorStates
    <3>3. Current = "parse_complete"
      BY <1>0, <3>1, <3>2 DEF TopStates
    <3>4. stateStack' = stateStack
      BY <1>5, <2>1 DEF Finish
    <3> QED
      BY <1>3, <3>3, <3>4 DEF Current
  <2>2. CASE ~MayEndIn(Current)
    <3>1. Fail("premature EOF")
      BY <1>5, <2>2 DEF Finish
    <3> QED
      BY <1>1, <1>2, <3>1, ErrorSet DEF Fail, Kept, Success, ErrorStates
  <2> QED
    BY <2>1, <2>2
<1>6. ~NextValue
  BY <1>0 DEF NextValue
<1> QED
  BY <1>4, <1>5, <1>6 DEF ApiStep

-----------------------------------------------------------------------------
(* TreeInv is an invariant.                                                *)

LEMMA TreeInvInit == TreeInit => TreeInv
<1> SUFFICES ASSUME TreeInit
             PROVE  TreeInv
  OBVIOUS
<1>1. Inv
  BY InvInit DEF TreeInit
<1>2. ctx.stack = <<>> /\ ctx.root = NULL /\ ctx.err = "none"
  BY DEF TreeInit, EmptyContext, Context
<1>3. Stacked(ctx)
  <2>1. ctx.stack \in Seq({})
    BY <1>2
  <2> QED
    BY <2>1 DEF Stacked
<1>4. /\ Len(stateStack) = 1 /\ stateStack[1] = "start" /\ call = "none"
  BY DEF TreeInit, Init, Push
<1>5. InStep
  BY <1>2, <1>4 DEF InStep, Current
<1> QED
  BY <1>1, <1>2, <1>3, <1>4, <1>5 DEF TreeInv, OnlyMemoryFails, Success

LEMMA TreeInvNext == TreeInv /\ [TreeNext]_treeVars => TreeInv'
<1> SUFFICES ASSUME TreeInv, [TreeNext]_treeVars
             PROVE  TreeInv'
  OBVIOUS
<1>1. Inv'
  BY TreeStepIsParserStep, InvNext DEF TreeInv
<1>2. ASSUME Kept, Success' => Current' = "parse_complete"
      PROVE  TreeInv'
  BY <1>1, <1>2 DEF TreeInv, Kept
<1>3. ASSUME Kept, status' # "ok"
      PROVE  TreeInv'
  BY <1>2, <1>3 DEF Success
<1>4. CASE ApiStep /\ UNCHANGED ctx
  BY <1>2, <1>4, ApiStepKeeps
<1>5. ASSUME NEW t \in Lexemes, SilentStep(t), UNCHANGED ctx
      PROVE  TreeInv'
  BY <1>3, <1>5, SilentTreeStepKeeps
<1>6. ASSUME NEW t \in Lexemes, NEW mem \in Failures, BuildStep(t, mem)
      PROVE  TreeInv'
  BY <1>3, <1>6, BuildStepKeeps
<1>7. CASE UNCHANGED treeVars
  BY <1>1, <1>7 DEF treeVars, TreeInv, Failed, Current, InStep, Stacked, IsOpen,
                    OnlyMemoryFails, Success
<1> QED
  BY <1>4, <1>5, <1>6, <1>7 DEF TreeNext

-----------------------------------------------------------------------------
(* The tree parser is a YajlParser whose client is the tree builder: every *)
(* behaviour of yajl_parse with the callbacks of yajl_tree.c is one that   *)
(* YajlParser allows, so whatever holds of YajlParser holds here.          *)
THEOREM TreeParserIsAParser == TreeSpec => Spec
<1>1. TreeInit => Init
  BY DEF TreeInit
<1> QED
  BY <1>1, TreeStepIsParserStep, PTL DEF TreeSpec, Spec

(* Until the parse fails, the stack of open containers of yajl_tree.c      *)
(* mirrors the state stack of yajl_parser.c, keys included.                *)
THEOREM StacksMoveTogether == TreeSpec => []ParserAndTreeInStep
<1>1. TreeInv => ParserAndTreeInStep
  BY DEF TreeInv, ParserAndTreeInStep
<1> QED
  BY <1>1, TreeInvInit, TreeInvNext, PTL DEF TreeSpec

(* The errors with which yajl_tree.c blames the order of the callbacks     *)
(* ("Bottom of stack reached prematurely", "Object key is not a string"    *)
(* and their like) cannot occur.                                           *)
THEOREM BuilderNeverBlamesParser == TreeSpec => []OnlyMemoryFails
<1>1. TreeInv => OnlyMemoryFails
  BY DEF TreeInv
<1> QED
  BY <1>1, TreeInvInit, TreeInvNext, PTL DEF TreeSpec

LEMMA SuccessRoot == TreeInv => SuccessHasRoot
<1> SUFFICES ASSUME TreeInv, Success
             PROVE  ctx.root # NULL /\ ~IsOpen(ctx)
  BY DEF SuccessHasRoot, Success
<1>1. Current = "parse_complete"
  BY DEF TreeInv
<1>2. ~Failed
  BY <1>1 DEF Failed, ErrorStates
<1>3. stateStack \in Seq(States) /\ StackShape /\ Stacked(ctx) /\ InStep
  BY <1>2 DEF TreeInv, Inv, TypeOK
<1>4. Current \notin InnerStates \cup ErrorStates
  BY <1>1, StateKinds DEF ErrorStates
<1>5. Len(stateStack) = 1
  BY <1>3, <1>4 DEF StackShape, WellFormed, Current
<1>6. Len(ctx.stack) \in Nat /\ ~(Len(ctx.stack) > 0)
  <2>1. Len(ctx.stack) \in Nat
    BY <1>3 DEF Stacked
  <2>2. 1 = Len(ctx.stack) + 1
    BY <1>3, <1>5 DEF InStep
  <2> QED
    BY <2>1, <2>2
<1> QED
  BY <1>1, <1>3, <1>5, <1>6 DEF InStep, IsOpen

(* A parse that reports success has a root: ParseValue (parse.c) may       *)
(* dereference what push_parser_get and yajl_tree_parse return.            *)
THEOREM SuccessYieldsRoot == TreeSpec => []SuccessHasRoot
  BY SuccessRoot, TreeInvInit, TreeInvNext, PTL DEF TreeSpec

LEMMA RootStays ==
  ASSUME TreeInv, TreeNext, ctx.root # NULL
  PROVE  ctx' = ctx
<1> SUFFICES ASSUME NEW t \in Lexemes, NEW mem \in Failures, BuildStep(t, mem)
             PROVE  FALSE
  BY DEF TreeNext
<1>1. Current \in ValueStates \cup KeyStates \cup {"map_got_val", "array_got_val"}
  BY DEF BuildStep, BuildLeaf, BuildKey, StartObject, StartArray, EndObject, EndArray,
         Scalar, MapKey, OpenMap, OpenArray, CloseEmptyMap, CloseMap, CloseEmptyArray,
         CloseArray, ValueStates, KeyStates
<1>2. Current # "parse_complete" /\ ~Failed
  BY <1>1 DEF ValueStates, KeyStates, Failed, ErrorStates
<1>3. InStep
  BY <1>2 DEF TreeInv
<1> QED
  BY <1>2, <1>3 DEF InStep

(* The root is assigned once: assert(ctx->root == NULL) of yajl_tree.c:239 *)
(* never fires, and no second value replaces the first.                    *)
THEOREM RootIsAssignedOnce == TreeSpec => RootAssignedOnce
<1>1. TreeInv /\ [TreeNext]_treeVars
        => [(ctx.root # NULL) => (ctx'.root = ctx.root)]_treeVars
  BY RootStays
<1> QED
  BY <1>1, TreeInvInit, TreeInvNext, PTL DEF TreeSpec, RootAssignedOnce

-----------------------------------------------------------------------------
(* The phrases of the grammar: how they are put together.                  *)

PhrasesOf(rule) == UNION {RowOf(n)[rule] : n \in Nat \ {0}}

LEMMA InPhrasesOf ==
  ASSUME NEW rule, NEW p
  PROVE  p \in PhrasesOf(rule) <=> \E n \in Nat \ {0} : p \in RowOf(n)[rule]
  BY DEF PhrasesOf

LEMMA InListed ==
  ASSUME NEW n \in Nat \ {0}, NEW k \in Nat, k < n, NEW rule, NEW p
  PROVE  /\ k > 0 => (p \in Listed(Rows[n - 1], k, rule) <=> p \in RowOf(k)[rule])
         /\ k > 0 => (p \in Within(Rows[n - 1], k, rule) <=> p \in RowOf(k)[rule])
         /\ k = 0 => (p \in Within(Rows[n - 1], k, rule) <=> p = EmptyPhrase)
<1>1. k > 0 => Rows[n - 1][k] = RowOf(k)
  <2>1. n - 1 \in Nat /\ (k > 0 => k \in 1 .. n - 1)
    OBVIOUS
  <2> QED
    BY <2>1, RowsAre
<1> QED
  BY <1>1 DEF Listed, Within

\* What the rules "elements" and "members" are lists of.
ListRules == {<<"values", "elements">>, <<"pairs", "members">>}

LEMMA ListRule ==
  ASSUME NEW n \in Nat \ {0}, NEW r \in ListRules
  PROVE  RowOf(n)[r[2]] = ListOf(Rows[n - 1], n, RowOf(n)[r[1]], r[1], r[2])
<1>1. RowOf(n)["elements"] = ListOf(Rows[n - 1], n, RowOf(n)["values"], "values", "elements")
  BY DEF RowOf, Row
<1>2. RowOf(n)["members"] = ListOf(Rows[n - 1], n, RowOf(n)["pairs"], "pairs", "members")
  BY DEF RowOf, Row
<1>3. \/ r[1] = "values" /\ r[2] = "elements"
      \/ r[1] = "pairs" /\ r[2] = "members"
  BY DEF ListRules
<1> QED
  BY <1>1, <1>2, <1>3

LEMMA InList ==
  ASSUME NEW n \in Nat \ {0}, NEW r \in ListRules, NEW p
  PROVE  p \in RowOf(n)[r[2]] <=>
           \/ p \in RowOf(n)[r[1]]
           \/ \E k \in 1 .. n - 2 :
                p \in Then(RowOf(k)[r[1]], Then(Symbol("comma"), RowOf(n - 1 - k)[r[2]]))
<1> DEFINE rows == Rows[n - 1]
           Longer(k) == Then(rows[k][r[1]], Then(Symbol("comma"), rows[n - 1 - k][r[2]]))
<1>1. ASSUME NEW k \in 1 .. n - 2
      PROVE  Longer(k) = Then(RowOf(k)[r[1]], Then(Symbol("comma"), RowOf(n - 1 - k)[r[2]]))
  <2>1. n - 1 \in Nat /\ k \in 1 .. n - 1 /\ n - 1 - k \in 1 .. n - 1
    OBVIOUS
  <2>2. rows[k] = RowOf(k) /\ rows[n - 1 - k] = RowOf(n - 1 - k)
    BY <2>1, RowsAre
  <2> QED
    BY <2>2
<1>2. RowOf(n)[r[2]] = RowOf(n)[r[1]] \cup UNION {Longer(k) : k \in 1 .. n - 2}
  BY ListRule DEF ListOf
<1> HIDE DEF Longer
<1> QED
  BY <1>1, <1>2

(* An item is a list; an item, a comma and a list are a list.              *)
LEMMA ItemIsList ==
  ASSUME NEW r \in ListRules
  PROVE  PhrasesOf(r[1]) \subseteq PhrasesOf(r[2])
  BY InPhrasesOf, InList

LEMMA ItemBeforeList ==
  ASSUME NEW r \in ListRules, NEW p \in PhrasesOf(r[1]), NEW c \in Symbol("comma"),
         NEW q \in PhrasesOf(r[2])
  PROVE  Joined(p, Joined(c, q)) \in PhrasesOf(r[2])
<1>1. PICK k \in Nat \ {0} : p \in RowOf(k)[r[1]]
  BY InPhrasesOf
<1>2. PICK m \in Nat \ {0} : q \in RowOf(m)[r[2]]
  BY InPhrasesOf
<1>3. PICK n \in Nat \ {0} : n = k + m + 1
  OBVIOUS
<1>4. k \in 1 .. n - 2 /\ n - 1 - k = m
  BY <1>3
<1>5. Joined(c, q) \in Then(Symbol("comma"), RowOf(n - 1 - k)[r[2]])
  BY <1>2, <1>4, InThen
<1>6. Joined(p, Joined(c, q)) \in Then(RowOf(k)[r[1]], Then(Symbol("comma"), RowOf(n - 1 - k)[r[2]]))
  BY <1>1, <1>5, InThen
<1> QED
  BY <1>4, <1>6, InList, InPhrasesOf

(* Brackets make a value of a list, or of nothing.                         *)
LEMMA LiteralIsValue == Literals \subseteq PhrasesOf("values")
<1>1. 1 \in Nat \ {0}
  OBVIOUS
<1>2. Literals \subseteq RowOf(1)["values"]
  BY DEF RowOf, Row
<1> QED
  BY <1>1, <1>2, InPhrasesOf

LEMMA Bracketed ==
  ASSUME NEW rule, NEW p \in PhrasesOf(rule) \cup {EmptyPhrase}
  PROVE  \E n \in Nat \ {0} : \A a, b : \A x \in Symbol(a), y \in Symbol(b) :
           Joined(x, Joined(p, y)) \in
             Then(Symbol(a), Then(Within(Rows[n - 1], n - 2, rule), Symbol(b)))
<1>1. \E n \in Nat \ {0} : p \in Within(Rows[n - 1], n - 2, rule)
  <2>1. CASE p \in PhrasesOf(rule)
    <3>1. PICK k \in Nat \ {0} : p \in RowOf(k)[rule]
      BY <2>1, InPhrasesOf
    <3>2. PICK n \in Nat \ {0} : n = k + 2
      OBVIOUS
    <3>3. n - 2 = k /\ k \in Nat /\ k > 0 /\ k < n
      BY <3>2
    <3> QED
      BY <3>1, <3>3, InListed
  <2>2. CASE p = EmptyPhrase
    <3>1. 2 \in Nat \ {0} /\ 2 - 2 = 0 /\ 0 \in Nat /\ 0 < 2
      OBVIOUS
    <3>2. p \in Within(Rows[2 - 1], 0, rule)
      BY <2>2, <3>1, InListed
    <3> QED
      BY <3>1, <3>2
  <2> QED
    BY <2>1, <2>2
<1> QED
  BY <1>1, InThen

LEMMA ArrayIsValue ==
  ASSUME NEW x \in Symbol("left_brace"), NEW y \in Symbol("right_brace"),
         NEW p \in PhrasesOf("elements") \cup {EmptyPhrase}
  PROVE  AsArray(Joined(x, Joined(p, y))) \in PhrasesOf("values")
<1>1. PICK n \in Nat \ {0} :
        Joined(x, Joined(p, y)) \in
          Then(Symbol("left_brace"), Then(Within(Rows[n - 1], n - 2, "elements"), Symbol("right_brace")))
  BY Bracketed
<1>2. AsArray(Joined(x, Joined(p, y))) \in RowOf(n)["values"]
  BY <1>1 DEF RowOf, Row
<1> QED
  BY <1>2, InPhrasesOf

LEMMA ObjectIsValue ==
  ASSUME NEW x \in Symbol("left_bracket"), NEW y \in Symbol("right_bracket"),
         NEW p \in PhrasesOf("members") \cup {EmptyPhrase}
  PROVE  AsObject(Joined(x, Joined(p, y))) \in PhrasesOf("values")
<1>1. PICK n \in Nat \ {0} :
        Joined(x, Joined(p, y)) \in
          Then(Symbol("left_bracket"), Then(Within(Rows[n - 1], n - 2, "members"), Symbol("right_bracket")))
  BY Bracketed
<1>2. AsObject(Joined(x, Joined(p, y))) \in RowOf(n)["values"]
  BY <1>1 DEF RowOf, Row
<1> QED
  BY <1>2, InPhrasesOf

LEMMA PairIsPair ==
  ASSUME NEW k \in Keys, NEW c \in Symbol("colon"), NEW v \in PhrasesOf("values")
  PROVE  Joined(k, Joined(c, v)) \in PhrasesOf("pairs")
<1>1. PICK m \in Nat \ {0} : v \in RowOf(m)["values"]
  BY InPhrasesOf
<1>2. PICK n \in Nat \ {0} : n = m + 2
  OBVIOUS
<1>3. n - 2 = m /\ m \in Nat /\ m > 0 /\ m < n
  BY <1>2
<1>4. v \in Listed(Rows[n - 1], n - 2, "values")
  BY <1>1, <1>3, InListed
<1>5. Joined(k, Joined(c, v)) \in
        Then(Keys, Then(Symbol("colon"), Listed(Rows[n - 1], n - 2, "values")))
  BY <1>4, InThen
<1>6. Joined(k, Joined(c, v)) \in RowOf(n)["pairs"]
  BY <1>5 DEF RowOf, Row
<1> QED
  BY <1>6, InPhrasesOf

-----------------------------------------------------------------------------
(* Phrases are joined one after the other, in any grouping.                *)

Sequence(x) == \E S : x \in Seq(S)

LEMMA SequencesJoin ==
  ASSUME NEW a, NEW b, NEW c, Sequence(a), Sequence(b), Sequence(c)
  PROVE  /\ Sequence(a \o b)
         /\ (a \o b) \o c = a \o (b \o c)
         /\ a \o <<>> = a /\ <<>> \o a = a
<1>1. PICK S : a \in Seq(S)
  BY DEF Sequence
<1>2. PICK T : b \in Seq(T)
  BY DEF Sequence
<1>3. PICK U : c \in Seq(U)
  BY DEF Sequence
<1>4. PICK V : V = S \cup T \cup U
  OBVIOUS
<1>5. a \in Seq(V)
  BY <1>1, <1>4
<1>6. b \in Seq(V)
  BY <1>2, <1>4
<1>7. c \in Seq(V)
  BY <1>3, <1>4
<1>8. a \o b \in Seq(V)
  BY <1>5, <1>6
<1>9. (a \o b) \o c = a \o (b \o c)
  BY <1>5, <1>6, <1>7, ConcatAssociative
<1>10. a \o <<>> = a /\ <<>> \o a = a
  BY <1>5, ConcatSimplifications
<1> QED
  BY <1>8, <1>9, <1>10 DEF Sequence

LEMMA SequencesAssociate ==
  ASSUME NEW a, NEW b, NEW c, Sequence(a), Sequence(b), Sequence(c)
  PROVE  (a \o b) \o c = a \o (b \o c)
  BY SequencesJoin

LEMMA ShortSequences ==
  /\ Sequence(<<>>)
  /\ \A x : Sequence(<<x>>)
<1>1. <<>> \in Seq({})
  OBVIOUS
<1>2. ASSUME NEW x PROVE Sequence(<<x>>)
  <2>1. <<x>> \in Seq({x})
    OBVIOUS
  <2> QED
    BY <2>1 DEF Sequence
<1> QED
  BY <1>1, <1>2 DEF Sequence

Proper(p) ==
  /\ Sequence(p.text) /\ Sequence(p.keys) /\ Sequence(p.values)
  /\ p = Phrase(p.text, p.keys, p.values)

LEMMA ProperPhrase ==
  ASSUME NEW a, NEW b, NEW c, Sequence(a), Sequence(b), Sequence(c)
  PROVE  Proper(Phrase(a, b, c))
  BY PartsOfPhrase DEF Proper

LEMMA PartsOfJoined ==
  ASSUME NEW p, NEW q
  PROVE  /\ Joined(p, q).text = p.text \o q.text
         /\ Joined(p, q).keys = p.keys \o q.keys
         /\ Joined(p, q).values = p.values \o q.values
  BY DEF Joined, Phrase

LEMMA JoinedIsProper ==
  ASSUME NEW p, NEW q, Proper(p), Proper(q)
  PROVE  Proper(Joined(p, q))
<1>1. Sequence(p.text \o q.text)
  BY SequencesJoin DEF Proper
<1>2. Sequence(p.keys \o q.keys)
  BY SequencesJoin DEF Proper
<1>3. Sequence(p.values \o q.values)
  BY SequencesJoin DEF Proper
<1> QED
  BY <1>1, <1>2, <1>3, ProperPhrase DEF Joined

LEMMA JoinedAssociates ==
  ASSUME NEW p, NEW q, NEW r, Proper(p), Proper(q), Proper(r)
  PROVE  Joined(Joined(p, q), r) = Joined(p, Joined(q, r))
<1>1. (p.text \o q.text) \o r.text = p.text \o (q.text \o r.text)
  <2>1. PICK a, b, c : a = p.text /\ b = q.text /\ c = r.text
    OBVIOUS
  <2>2. Sequence(a) /\ Sequence(b) /\ Sequence(c)
    BY <2>1 DEF Proper
  <2>3. (a \o b) \o c = a \o (b \o c)
    BY <2>2, SequencesAssociate
  <2> QED
    BY <2>1, <2>3
<1>2. (p.keys \o q.keys) \o r.keys = p.keys \o (q.keys \o r.keys)
  <2>1. PICK a, b, c : a = p.keys /\ b = q.keys /\ c = r.keys
    OBVIOUS
  <2>2. Sequence(a) /\ Sequence(b) /\ Sequence(c)
    BY <2>1 DEF Proper
  <2>3. (a \o b) \o c = a \o (b \o c)
    BY <2>2, SequencesAssociate
  <2> QED
    BY <2>1, <2>3
<1>3. (p.values \o q.values) \o r.values = p.values \o (q.values \o r.values)
  <2>1. PICK a, b, c : a = p.values /\ b = q.values /\ c = r.values
    OBVIOUS
  <2>2. Sequence(a) /\ Sequence(b) /\ Sequence(c)
    BY <2>1 DEF Proper
  <2>3. (a \o b) \o c = a \o (b \o c)
    BY <2>2, SequencesAssociate
  <2> QED
    BY <2>1, <2>3
<1>4. Joined(Joined(p, q), r) =
        Phrase((p.text \o q.text) \o r.text, (p.keys \o q.keys) \o r.keys,
               (p.values \o q.values) \o r.values)
  BY PartsOfJoined DEF Joined
<1>5. Joined(p, Joined(q, r)) =
        Phrase(p.text \o (q.text \o r.text), p.keys \o (q.keys \o r.keys),
               p.values \o (q.values \o r.values))
  BY PartsOfJoined DEF Joined
<1> QED
  BY <1>1, <1>2, <1>3, <1>4, <1>5

LEMMA JoinedWithEmpty ==
  ASSUME NEW p, Proper(p)
  PROVE  Joined(p, EmptyPhrase) = p /\ Joined(EmptyPhrase, p) = p
<1>1. EmptyPhrase.text = <<>> /\ EmptyPhrase.keys = <<>> /\ EmptyPhrase.values = <<>>
  BY PartsOfPhrase DEF EmptyPhrase
<1>2. Joined(p, EmptyPhrase) = Phrase(p.text \o <<>>, p.keys \o <<>>, p.values \o <<>>)
  BY <1>1 DEF Joined
<1>3. Joined(EmptyPhrase, p) = Phrase(<<>> \o p.text, <<>> \o p.keys, <<>> \o p.values)
  BY <1>1 DEF Joined
<1>4. p.text \o <<>> = p.text /\ <<>> \o p.text = p.text
  BY SequencesJoin DEF Proper
<1>5. p.keys \o <<>> = p.keys /\ <<>> \o p.keys = p.keys
  BY SequencesJoin DEF Proper
<1>6. p.values \o <<>> = p.values /\ <<>> \o p.values = p.values
  BY SequencesJoin DEF Proper
<1> QED
  BY <1>2, <1>3, <1>4, <1>5, <1>6 DEF Proper

LEMMA TokensAreProper ==
  /\ \A tok : \A p \in Symbol(tok) : Proper(p)
  /\ \A p \in Keys \cup Literals : Proper(p)
<1>1. ASSUME NEW tok, NEW p \in Symbol(tok)
      PROVE  Proper(p)
  <2>1. PICK t \in Lexemes : t.tok = tok /\ p = Phrase(<<t>>, <<>>, <<>>)
    BY DEF Symbol
  <2> QED
    BY <2>1, ShortSequences, ProperPhrase
<1>2. ASSUME NEW p \in Keys
      PROVE  Proper(p)
  <2>1. PICK t : p = Phrase(<<t>>, <<t.text>>, <<>>)
    BY InKeys
  <2> QED
    BY <2>1, ShortSequences, ProperPhrase
<1>3. ASSUME NEW p \in Literals
      PROVE  Proper(p)
  <2>1. PICK t : p = Phrase(<<t>>, <<>>, <<Spelt(t)>>)
    BY InLiterals
  <2> QED
    BY <2>1, ShortSequences, ProperPhrase
<1> QED
  BY <1>1, <1>2, <1>3

(* Every phrase of the grammar is proper, and one of a value lists it.     *)
LEMMA ValuesAreProper ==
  ASSUME NEW p \in PhrasesOf("values")
  PROVE  Proper(p) /\ \E v : p = Phrase(p.text, <<>>, <<v>>)
<1>1. PICK n \in Nat \ {0} : p \in RowOf(n)["values"]
  BY InPhrasesOf
<1>2. \E v : p = Phrase(p.text, <<>>, <<v>>)
  <2>1. \/ p \in Literals
        \/ \E q : p = AsArray(q)
        \/ \E q : p = AsObject(q)
    BY <1>1 DEF RowOf, Row
  <2>2. ASSUME p \in Literals PROVE \E a, v : p = Phrase(a, <<>>, <<v>>)
    BY <2>2 DEF Literals
  <2>3. \A q : \E a, v : AsArray(q) = Phrase(a, <<>>, <<v>>)
    BY DEF AsArray
  <2>4. \A q : \E a, v : AsObject(q) = Phrase(a, <<>>, <<v>>)
    BY DEF AsObject
  <2>5. PICK a, v : p = Phrase(a, <<>>, <<v>>)
    BY <2>1, <2>2, <2>3, <2>4
  <2>6. p.text = a
    BY <2>5, PartsOfPhrase
  <2> QED
    BY <2>5, <2>6
<1>3. Sequence(p.text)
  <2>1. p.text \in TextsWith("values", n)
    BY <1>1, InTexts DEF TextsWith
  <2>2. p.text \in Seq(Lexemes)
    BY <2>1, TextsSized DEF Sized, Words, Rules
  <2> QED
    BY <2>2 DEF Sequence
<1> QED
  BY <1>2, <1>3, ShortSequences, ProperPhrase

LEMMA PairsAreProper ==
  ASSUME NEW p \in PhrasesOf("pairs")
  PROVE  Proper(p)
<1>1. PICK n \in Nat \ {0} : p \in RowOf(n)["pairs"]
  BY InPhrasesOf
<1>2. p \in Then(Keys, Then(Symbol("colon"), Listed(Rows[n - 1], n - 2, "values")))
  BY <1>1 DEF RowOf, Row
<1>3. PICK k \in Keys, y \in Then(Symbol("colon"), Listed(Rows[n - 1], n - 2, "values")) : p = Joined(k, y)
  BY <1>2, InThen
<1>4. PICK c \in Symbol("colon"), v \in Listed(Rows[n - 1], n - 2, "values") : y = Joined(c, v)
  BY InThen
<1>5. v \in PhrasesOf("values")
  <2>1. n - 2 > 0
    BY DEF Listed
  <2>2. n - 2 \in Nat /\ n - 2 < n /\ n - 2 \in Nat \ {0}
    BY <2>1
  <2>3. v \in RowOf(n - 2)["values"]
    BY <2>1, <2>2, InListed
  <2> QED
    BY <2>2, <2>3, InPhrasesOf
<1> QED
  BY <1>3, <1>4, <1>5, TokensAreProper, ValuesAreProper, JoinedIsProper

LEMMA ListsAreProper ==
  ASSUME NEW r \in ListRules
  PROVE  \A p \in PhrasesOf(r[1]) \cup PhrasesOf(r[2]) : Proper(p)
<1>1. ASSUME NEW p \in PhrasesOf(r[1])
      PROVE  Proper(p)
  BY ValuesAreProper, PairsAreProper DEF ListRules
<1> DEFINE S == {n \in Nat : n # 0 => \A p \in RowOf(n)[r[2]] : Proper(p)}
<1>2. ASSUME NEW n \in Nat, \A m \in 0 .. n - 1 : m \in S, n # 0, NEW p \in RowOf(n)[r[2]]
      PROVE  Proper(p)
  <2>1. CASE p \in RowOf(n)[r[1]]
    BY <1>1, <1>2, <2>1, InPhrasesOf
  <2>2. ASSUME NEW k \in 1 .. n - 2,
               p \in Then(RowOf(k)[r[1]], Then(Symbol("comma"), RowOf(n - 1 - k)[r[2]]))
        PROVE  Proper(p)
    <3>1. k \in Nat \ {0} /\ n - 1 - k \in 0 .. n - 1 /\ n - 1 - k # 0
      BY <1>2
    <3>2. PICK x \in RowOf(k)[r[1]], y \in Then(Symbol("comma"), RowOf(n - 1 - k)[r[2]]) : p = Joined(x, y)
      BY <2>2, InThen
    <3>3. PICK c \in Symbol("comma"), q \in RowOf(n - 1 - k)[r[2]] : y = Joined(c, q)
      BY InThen
    <3>4. Proper(x)
      BY <1>1, <3>1, InPhrasesOf
    <3>5. Proper(q)
      BY <1>2, <3>1
    <3> QED
      BY <3>2, <3>3, <3>4, <3>5, TokensAreProper, JoinedIsProper
  <2>3. n \in Nat \ {0}
    BY <1>2
  <2> QED
    BY <1>2, <2>1, <2>2, <2>3, InList
<1>3. \A n \in Nat : n \in S
  <2>1. \A n \in Nat : (\A m \in 0 .. n - 1 : m \in S) => n \in S
    BY <1>2
  <2> HIDE DEF S
  <2> QED
    BY <2>1, StrongInduction
<1> QED
  BY <1>1, <1>3, InPhrasesOf

(* A list, a comma and one more item are a list.                           *)
LEMMA ListBeforeItem ==
  ASSUME NEW r \in ListRules, NEW p \in PhrasesOf(r[2]), NEW c \in Symbol("comma"),
         NEW q \in PhrasesOf(r[1])
  PROVE  Joined(p, Joined(c, q)) \in PhrasesOf(r[2])
<1> DEFINE S == {n \in Nat : n # 0 => \A x \in RowOf(n)[r[2]] : Joined(x, Joined(c, q)) \in PhrasesOf(r[2])}
<1>1. q \in PhrasesOf(r[2]) /\ Proper(c) /\ Proper(q)
  BY ItemIsList, TokensAreProper, ListsAreProper
<1>2. ASSUME NEW n \in Nat, \A m \in 0 .. n - 1 : m \in S, n # 0, NEW x \in RowOf(n)[r[2]]
      PROVE  Joined(x, Joined(c, q)) \in PhrasesOf(r[2])
  <2>1. CASE x \in RowOf(n)[r[1]]
    <3>1. x \in PhrasesOf(r[1])
      BY <1>2, <2>1, InPhrasesOf
    <3> QED
      BY <1>1, <3>1, ItemBeforeList
  <2>2. ASSUME NEW k \in 1 .. n - 2,
               x \in Then(RowOf(k)[r[1]], Then(Symbol("comma"), RowOf(n - 1 - k)[r[2]]))
        PROVE  Joined(x, Joined(c, q)) \in PhrasesOf(r[2])
    <3>1. k \in Nat \ {0} /\ n - 1 - k \in 0 .. n - 1 /\ n - 1 - k # 0
      BY <1>2
    <3>2. PICK i \in RowOf(k)[r[1]], y \in Then(Symbol("comma"), RowOf(n - 1 - k)[r[2]]) : x = Joined(i, y)
      BY <2>2, InThen
    <3>3. PICK d \in Symbol("comma"), e \in RowOf(n - 1 - k)[r[2]] : y = Joined(d, e)
      BY InThen
    <3>4. i \in PhrasesOf(r[1]) /\ e \in PhrasesOf(r[2])
      BY <3>1, InPhrasesOf
    <3>5. Joined(e, Joined(c, q)) \in PhrasesOf(r[2])
      BY <1>2, <3>1
    <3>6. Joined(i, Joined(d, Joined(e, Joined(c, q)))) \in PhrasesOf(r[2])
      BY <3>4, <3>5, ItemBeforeList
    <3>7. Proper(i) /\ Proper(d) /\ Proper(e) /\ Proper(Joined(c, q)) /\ Proper(Joined(d, e))
      BY <1>1, <3>4, TokensAreProper, ListsAreProper, JoinedIsProper
    <3>8. Joined(Joined(i, Joined(d, e)), Joined(c, q)) = Joined(i, Joined(Joined(d, e), Joined(c, q)))
      BY <3>7, JoinedAssociates
    <3>9. Joined(Joined(d, e), Joined(c, q)) = Joined(d, Joined(e, Joined(c, q)))
      BY <3>7, JoinedAssociates
    <3> QED
      BY <3>2, <3>3, <3>6, <3>8, <3>9
  <2>3. n \in Nat \ {0}
    BY <1>2
  <2> QED
    BY <1>2, <2>1, <2>2, <2>3, InList
<1>3. \A n \in Nat : n \in S
  <2>1. \A n \in Nat : (\A m \in 0 .. n - 1 : m \in S) => n \in S
    BY <1>2
  <2> HIDE DEF S
  <2> QED
    BY <2>1, StrongInduction
<1> QED
  BY <1>3, InPhrasesOf

-----------------------------------------------------------------------------
(* The phrases of a container of which the beginning has been read.        *)

BeforeKey ==
  Symbol("left_bracket") \cup Then(Then(Symbol("left_bracket"), PhrasesOf("members")), Symbol("comma"))
BeforeElement ==
  Symbol("left_brace") \cup Then(Then(Symbol("left_brace"), PhrasesOf("elements")), Symbol("comma"))

\* When the parser is in the state s.
Begun(s) ==
  CASE s = "array_start"    -> Symbol("left_brace")
    [] s = "array_need_val" -> BeforeElement
    [] s = "array_got_val"  -> Then(Symbol("left_brace"), PhrasesOf("elements"))
    [] s = "map_start"      -> Symbol("left_bracket")
    [] s = "map_need_key"   -> BeforeKey
    [] s = "map_sep"        -> Then(BeforeKey, Keys)
    [] s = "map_need_val"   -> Then(Then(BeforeKey, Keys), Symbol("colon"))
    [] s = "map_got_val"    -> Then(Symbol("left_bracket"), PhrasesOf("members"))
    [] OTHER                -> {}

\* When a value of it has begun; what it is after the value.
Waiting(type) == IF type = "array" THEN BeforeElement ELSE Begun("map_need_val")
Got(type) == IF type = "array" THEN "array_got_val" ELSE "map_got_val"

LEMMA ListsExtend ==
  ASSUME NEW r \in ListRules, NEW open,
         NEW p \in Symbol(open) \cup Then(Then(Symbol(open), PhrasesOf(r[2])), Symbol("comma")),
         NEW q \in PhrasesOf(r[1])
  PROVE  Joined(p, q) \in Then(Symbol(open), PhrasesOf(r[2]))
<1>1. CASE p \in Symbol(open)
  BY <1>1, ItemIsList, InThen
<1>2. CASE p \in Then(Then(Symbol(open), PhrasesOf(r[2])), Symbol("comma"))
  <2>1. PICK y \in Then(Symbol(open), PhrasesOf(r[2])), c \in Symbol("comma") : p = Joined(y, c)
    BY <1>2, InThen
  <2>2. PICK x \in Symbol(open), e \in PhrasesOf(r[2]) : y = Joined(x, e)
    BY InThen
  <2>3. Proper(x) /\ Proper(c) /\ Proper(e) /\ Proper(q) /\ Proper(Joined(c, q))
    BY TokensAreProper, ListsAreProper, JoinedIsProper
  <2>4. Joined(Joined(Joined(x, e), c), q) = Joined(Joined(x, e), Joined(c, q))
    BY <2>3, JoinedAssociates, JoinedIsProper
  <2>5. Joined(Joined(x, e), Joined(c, q)) = Joined(x, Joined(e, Joined(c, q)))
    BY <2>3, JoinedAssociates
  <2>6. Joined(e, Joined(c, q)) \in PhrasesOf(r[2])
    BY ListBeforeItem
  <2> QED
    BY <2>1, <2>2, <2>4, <2>5, <2>6, InThen
<1> QED
  BY <1>1, <1>2

LEMMA BeforeIsProper ==
  /\ \A p \in BeforeKey : Proper(p)
  /\ \A p \in BeforeElement : Proper(p)
<1>1. ASSUME NEW r \in ListRules, NEW open,
             NEW p \in Symbol(open) \cup Then(Then(Symbol(open), PhrasesOf(r[2])), Symbol("comma"))
      PROVE  Proper(p)
  <2>1. CASE p \in Symbol(open)
    BY <2>1, TokensAreProper
  <2>2. CASE p \in Then(Then(Symbol(open), PhrasesOf(r[2])), Symbol("comma"))
    <3>1. PICK y \in Then(Symbol(open), PhrasesOf(r[2])), c \in Symbol("comma") : p = Joined(y, c)
      BY <2>2, InThen
    <3>2. PICK x \in Symbol(open), e \in PhrasesOf(r[2]) : y = Joined(x, e)
      BY InThen
    <3> QED
      BY <3>1, <3>2, TokensAreProper, ListsAreProper, JoinedIsProper
  <2> QED
    BY <2>1, <2>2
<1>2. <<"values", "elements">> \in ListRules /\ <<"pairs", "members">> \in ListRules
  BY DEF ListRules
<1>3. <<"values", "elements">>[2] = "elements" /\ <<"pairs", "members">>[2] = "members"
  OBVIOUS
<1> QED
  BY <1>1, <1>2, <1>3 DEF BeforeKey, BeforeElement

LEMMA ValueExtends ==
  ASSUME NEW type \in {"array", "object"}, NEW p \in Waiting(type), NEW v \in PhrasesOf("values")
  PROVE  Joined(p, v) \in Begun(Got(type))
<1>1. CASE type = "array"
  <2>1. PICK r \in ListRules : r[1] = "values" /\ r[2] = "elements"
    BY DEF ListRules
  <2>2. p \in Symbol("left_brace") \cup Then(Then(Symbol("left_brace"), PhrasesOf(r[2])), Symbol("comma"))
    BY <1>1, <2>1 DEF Waiting, BeforeElement
  <2>3. Joined(p, v) \in Then(Symbol("left_brace"), PhrasesOf(r[2]))
    BY <2>1, <2>2, ListsExtend
  <2> QED
    BY <1>1, <2>1, <2>3 DEF Begun, Got
<1>2. CASE type = "object"
  <2>1. PICK r \in ListRules : r[1] = "pairs" /\ r[2] = "members"
    BY DEF ListRules
  <2>2. p \in Then(Then(BeforeKey, Keys), Symbol("colon"))
    BY <1>2 DEF Waiting, Begun
  <2>3. PICK y \in Then(BeforeKey, Keys), c \in Symbol("colon") : p = Joined(y, c)
    BY <2>2, InThen
  <2>4. PICK b \in BeforeKey, k \in Keys : y = Joined(b, k)
    BY InThen
  <2>5. Proper(b) /\ Proper(k) /\ Proper(c) /\ Proper(v) /\ Proper(Joined(c, v))
    BY TokensAreProper, ValuesAreProper, BeforeIsProper, JoinedIsProper
  <2>6. Joined(Joined(Joined(b, k), c), v) = Joined(Joined(b, k), Joined(c, v))
    BY <2>5, JoinedAssociates, JoinedIsProper
  <2>7. Joined(Joined(b, k), Joined(c, v)) = Joined(b, Joined(k, Joined(c, v)))
    BY <2>5, JoinedAssociates
  <2>8. Joined(k, Joined(c, v)) \in PhrasesOf(r[1])
    BY <2>1, PairIsPair
  <2>9. b \in Symbol("left_bracket") \cup Then(Then(Symbol("left_bracket"), PhrasesOf(r[2])), Symbol("comma"))
    BY <2>1 DEF BeforeKey
  <2>10. Joined(b, Joined(k, Joined(c, v))) \in Then(Symbol("left_bracket"), PhrasesOf(r[2]))
    BY <2>8, <2>9, ListsExtend
  <2> QED
    BY <1>2, <2>1, <2>3, <2>4, <2>6, <2>7, <2>10 DEF Begun, Got
<1> QED
  BY <1>1, <1>2

\* p begins with the symbol tok, then lists one of L or nothing, and y ends it.
Encloses(tok, L, p, y) ==
  \E x \in Symbol(tok) : \E e : /\ e \in L \/ e = EmptyPhrase
                                /\ p = Joined(x, Joined(e, y))

LEMMA EnclosedPhrase ==
  ASSUME NEW L, \A e \in L : Proper(e), NEW open, NEW close, NEW y \in Symbol(close),
         NEW p, p \in Symbol(open) \/ p \in Then(Symbol(open), L)
  PROVE  Encloses(open, L, Joined(p, y), y)
<1>1. Proper(y)
  BY TokensAreProper
<1>2. CASE p \in Symbol(open)
  <2>1. Joined(EmptyPhrase, y) = y
    BY <1>1, JoinedWithEmpty
  <2> QED
    BY <1>2, <2>1 DEF Encloses
<1>3. CASE p \in Then(Symbol(open), L)
  <2>1. PICK x \in Symbol(open), e \in L : p = Joined(x, e)
    BY <1>3, InThen
  <2>2. Proper(x) /\ Proper(e)
    BY TokensAreProper
  <2>3. Joined(p, y) = Joined(x, Joined(e, y))
    BY <1>1, <2>1, <2>2, JoinedAssociates
  <2> QED
    BY <2>1, <2>3 DEF Encloses
<1> QED
  BY <1>2, <1>3

LEMMA ArrayCloses ==
  ASSUME NEW p \in Begun("array_start") \cup Begun("array_got_val"), NEW y \in Symbol("right_brace")
  PROVE  AsArray(Joined(p, y)) \in PhrasesOf("values")
<1>1. \A e \in PhrasesOf("elements") : Proper(e)
  <2>1. PICK r \in ListRules : r[2] = "elements"
    BY DEF ListRules
  <2> QED
    BY <2>1, ListsAreProper
<1>2. PICK L : L = PhrasesOf("elements")
  OBVIOUS
<1>3. \A e \in L : Proper(e)
  BY <1>1, <1>2
<1>4. p \in Symbol("left_brace") \/ p \in Then(Symbol("left_brace"), L)
  BY <1>2 DEF Begun
<1>5. Encloses("left_brace", L, Joined(p, y), y)
  BY <1>3, <1>4, EnclosedPhrase, Zenon
<1>6. PICK x \in Symbol("left_brace") : \E e : /\ e \in L \/ e = EmptyPhrase
                                               /\ Joined(p, y) = Joined(x, Joined(e, y))
  BY <1>5 DEF Encloses
<1> QED
  BY <1>2, <1>6, ArrayIsValue

LEMMA ObjectCloses ==
  ASSUME NEW p \in Begun("map_start") \cup Begun("map_got_val"), NEW y \in Symbol("right_bracket")
  PROVE  AsObject(Joined(p, y)) \in PhrasesOf("values")
<1>1. \A e \in PhrasesOf("members") : Proper(e)
  <2>1. PICK r \in ListRules : r[2] = "members"
    BY DEF ListRules
  <2> QED
    BY <2>1, ListsAreProper
<1>2. PICK L : L = PhrasesOf("members")
  OBVIOUS
<1>3. \A e \in L : Proper(e)
  BY <1>1, <1>2
<1>4. p \in Symbol("left_bracket") \/ p \in Then(Symbol("left_bracket"), L)
  BY <1>2 DEF Begun
<1>5. Encloses("left_bracket", L, Joined(p, y), y)
  BY <1>3, <1>4, EnclosedPhrase, Zenon
<1>6. PICK x \in Symbol("left_bracket") : \E e : /\ e \in L \/ e = EmptyPhrase
                                                 /\ Joined(p, y) = Joined(x, Joined(e, y))
  BY <1>5 DEF Encloses
<1> QED
  BY <1>2, <1>6, ObjectIsValue

-----------------------------------------------------------------------------
(* The open containers and the text.                                       *)

\* An open container, without what its last key waits for.
Plain(v) == v = Node(v.type, "", v.keys, v.values)

Holder(e) ==
  /\ e.value.type \in {"array", "object"}
  /\ Plain(e.value)
  /\ Sequence(e.value.keys) /\ Sequence(e.value.values)
  /\ e.value.type = "array" => e.value.keys = <<>>
  /\ e.key = NULL \/ \E k : e.key = Ref(k)

OpenPhrase(text, e) == Phrase(text, e.value.keys \o e.key, e.value.values)

\* s is cut into a piece for each of n containers.
Cuts(cut, s, n) ==
  /\ cut \in [1 .. n + 1 -> Nat]
  /\ cut[1] = 0
  /\ cut[n + 1] = Len(s)
  /\ \A i, j \in 1 .. n + 1 : i <= j => cut[i] <= cut[j]

Level(c, s, cut, i, A) ==
  /\ Holder(c.stack[i])
  /\ OpenPhrase(SubSeq(s, cut[i] + 1, cut[i + 1]), c.stack[i]) \in
       (IF i = Len(c.stack) THEN A ELSE Waiting(c.stack[i].value.type))

(* The text s is what the open containers of c have been read from; what   *)
(* the innermost one has been read from makes a phrase of A.               *)
Spells(c, s, A) ==
  \E cut : /\ Cuts(cut, s, Len(c.stack))
           /\ \A i \in 1 .. Len(c.stack) : Level(c, s, cut, i, A)

LEMMA HeadStretch ==
  ASSUME NEW s \in Words, NEW t \in Words, NEW a \in Nat, NEW b \in Nat, a <= b, b <= Len(s)
  PROVE  SubSeq(s \o t, a + 1, b) = SubSeq(s, a + 1, b)
<1>1. s \in Seq(Lexemes) /\ t \in Seq(Lexemes)
  BY DEF Words
<1>2. s \o t \in Seq(Lexemes) /\ Len(s \o t) = Len(s) + Len(t)
  BY <1>1
<1>3. SubSeq(s \o t, a + 1, b) \in Seq(Lexemes) /\ SubSeq(s, a + 1, b) \in Seq(Lexemes)
  BY <1>1, <1>2
<1> QED
  BY <1>1, <1>2, <1>3

LEMMA Splits ==
  ASSUME NEW s \in Words, NEW a \in Nat, a <= Len(s)
  PROVE  /\ SubSeq(s, 1, a) \in Words /\ SubSeq(s, a + 1, Len(s)) \in Words
         /\ s = SubSeq(s, 1, a) \o SubSeq(s, a + 1, Len(s))
         /\ Len(SubSeq(s, 1, a)) = a
<1>1. s \in Seq(Lexemes)
  BY DEF Words
<1>2. 1 \in 1 .. Len(s) + 1 /\ a \in 1 - 1 .. Len(s) /\ Len(s) \in a .. Len(s)
  BY <1>1
<1>3. SubSeq(s, 1, a) \o SubSeq(s, a + 1, Len(s)) = SubSeq(s, 1, Len(s))
  BY <1>1, <1>2, ConcatAdjacentSubSeq
<1>4. SubSeq(s, 1, Len(s)) = s
  BY <1>1
<1>5. SubSeq(s, 1, a) \in Seq(Lexemes) /\ SubSeq(s, a + 1, Len(s)) \in Seq(Lexemes)
  BY <1>1
<1>6. Len(SubSeq(s, 1, a)) = a
  BY <1>1
<1> QED
  BY <1>3, <1>4, <1>5, <1>6 DEF Words

LEMMA TailStretch ==
  ASSUME NEW s \in Words, NEW t \in Words, NEW a \in Nat, a <= Len(s)
  PROVE  SubSeq(s \o t, a + 1, Len(s \o t)) = SubSeq(s, a + 1, Len(s)) \o t
<1>1. PICK x, y : x = SubSeq(s, 1, a) /\ y = SubSeq(s, a + 1, Len(s))
  OBVIOUS
<1>2. x \in Words /\ y \in Words /\ s = x \o y /\ Len(x) = a
  BY <1>1, Splits
<1>3. y \o t \in Words
  BY <1>2, WordsJoin
<1>4. (x \o y) \o t = x \o (y \o t)
  BY <1>2, ConcatAssociative DEF Words
<1>5. PICK z \in Words : z = y \o t
  BY <1>3
<1>6. SubSeq(x \o z, Len(x) + 1, Len(x \o z)) = z
  BY <1>2 DEF Words
<1>7. s \o t = x \o z
  BY <1>2, <1>4, <1>5
<1> QED
  BY <1>1, <1>2, <1>5, <1>6, <1>7

(* The innermost container is read on.                                     *)
LEMMA TopReadsOn ==
  ASSUME NEW c, NEW d, NEW n \in Nat, n > 0, Len(c.stack) = n, Len(d.stack) = n,
         \A i \in 1 .. n - 1 : d.stack[i] = c.stack[i],
         NEW s \in Words, NEW t \in Words, NEW A, NEW B, Spells(c, s, A),
         Holder(c.stack[n]) => Holder(d.stack[n]),
         \A x : x \in Words /\ Holder(c.stack[n]) /\ OpenPhrase(x, c.stack[n]) \in A
                => OpenPhrase(x \o t, d.stack[n]) \in B
  PROVE  Spells(d, s \o t, B)
<1>1. PICK cut : Cuts(cut, s, n) /\ \A i \in 1 .. n : Level(c, s, cut, i, A)
  BY DEF Spells
<1>2. /\ cut \in [1 .. n + 1 -> Nat] /\ cut[1] = 0 /\ cut[n + 1] = Len(s)
      /\ \A i, j \in 1 .. n + 1 : i <= j => cut[i] <= cut[j]
  BY <1>1 DEF Cuts
<1>3. s \o t \in Words /\ Len(s \o t) = Len(s) + Len(t) /\ Len(s) \in Nat /\ Len(t) \in Nat
  BY WordsJoin DEF Words
<1> DEFINE new == [i \in 1 .. n + 1 |-> IF i = n + 1 THEN Len(s \o t) ELSE cut[i]]
<1>4. Cuts(new, s \o t, n)
  <2>1. new \in [1 .. n + 1 -> Nat] /\ new[1] = 0 /\ new[n + 1] = Len(s \o t)
    BY <1>2, <1>3
  <2>2. ASSUME NEW i \in 1 .. n + 1, NEW j \in 1 .. n + 1, i <= j
        PROVE  new[i] <= new[j]
    <3>1. cut[i] <= cut[j] /\ cut[i] <= Len(s) /\ cut[i] \in Nat
      <4>1. n + 1 \in 1 .. n + 1
        OBVIOUS
      <4> QED
        BY <1>2, <2>2, <4>1
    <3> QED
      BY <1>3, <2>2, <3>1
  <2> QED
    BY <2>1, <2>2 DEF Cuts
<1>5. ASSUME NEW i \in 1 .. n - 1
      PROVE  Level(d, s \o t, new, i, B)
  <2>1. /\ i \in 1 .. n + 1 /\ i + 1 \in 1 .. n + 1 /\ i # n + 1 /\ i + 1 # n + 1 /\ i # n
        /\ i \in 1 .. n /\ n + 1 \in 1 .. n + 1 /\ i <= i + 1 /\ i + 1 <= n + 1
    OBVIOUS
  <2>2. new[i] = cut[i] /\ new[i + 1] = cut[i + 1]
    BY <2>1
  <2>3. cut[i] \in Nat /\ cut[i + 1] \in Nat /\ cut[i] <= cut[i + 1] /\ cut[i + 1] <= Len(s)
    BY <1>2, <2>1
  <2>4. PICK a, b : a = cut[i] /\ b = cut[i + 1]
    OBVIOUS
  <2>5. SubSeq(s \o t, a + 1, b) = SubSeq(s, a + 1, b)
    BY <2>3, <2>4, HeadStretch
  <2>6. SubSeq(s \o t, new[i] + 1, new[i + 1]) = SubSeq(s, cut[i] + 1, cut[i + 1])
    BY <2>2, <2>4, <2>5
  <2>7. Level(c, s, cut, i, A) /\ d.stack[i] = c.stack[i]
    BY <1>1, <2>1
  <2> QED
    BY <2>1, <2>6, <2>7 DEF Level
<1>6. Level(d, s \o t, new, n, B)
  <2>1. n \in 1 .. n + 1 /\ n + 1 \in 1 .. n + 1 /\ n # n + 1 /\ n \in 1 .. n /\ n <= n + 1
    OBVIOUS
  <2>2. new[n] = cut[n] /\ new[n + 1] = Len(s \o t)
    BY <2>1
  <2>3. cut[n] \in Nat /\ cut[n] <= Len(s)
    BY <1>2, <2>1
  <2>4. PICK a : a = cut[n]
    OBVIOUS
  <2>5. SubSeq(s \o t, a + 1, Len(s \o t)) = SubSeq(s, a + 1, Len(s)) \o t
    BY <2>3, <2>4, TailStretch
  <2>6. SubSeq(s \o t, new[n] + 1, new[n + 1]) = SubSeq(s, cut[n] + 1, Len(s)) \o t
    BY <2>2, <2>4, <2>5
  <2>7. Holder(c.stack[n]) /\ OpenPhrase(SubSeq(s, cut[n] + 1, Len(s)), c.stack[n]) \in A
    BY <1>1, <1>2, <2>1 DEF Level
  <2>8. SubSeq(s, cut[n] + 1, Len(s)) \in Words
    BY <2>3, Splits
  <2>9. OpenPhrase(SubSeq(s \o t, new[n] + 1, new[n + 1]), d.stack[n]) \in B
    BY <2>6, <2>7, <2>8
  <2> QED
    BY <2>7, <2>9 DEF Level
<1> HIDE DEF new
<1>7. \A i \in 1 .. n : i \in 1 .. n - 1 \/ i = n
  OBVIOUS
<1>8. \A i \in 1 .. n : Level(d, s \o t, new, i, B)
  BY <1>5, <1>6, <1>7
<1> QED
  BY <1>4, <1>8 DEF Spells

(* One more container opens.                                               *)
LEMMA TopOpens ==
  ASSUME NEW c, NEW d, NEW n \in Nat, Len(c.stack) = n, Len(d.stack) = n + 1,
         \A i \in 1 .. n : d.stack[i] = c.stack[i],
         NEW s \in Words, NEW t \in Words, NEW A, NEW B, Spells(c, s, A),
         n > 0 => A \subseteq Waiting(c.stack[n].value.type),
         Holder(d.stack[n + 1]), OpenPhrase(t, d.stack[n + 1]) \in B
  PROVE  Spells(d, s \o t, B)
<1>1. PICK cut : Cuts(cut, s, n) /\ \A i \in 1 .. n : Level(c, s, cut, i, A)
  BY DEF Spells
<1>2. /\ cut \in [1 .. n + 1 -> Nat] /\ cut[1] = 0 /\ cut[n + 1] = Len(s)
      /\ \A i, j \in 1 .. n + 1 : i <= j => cut[i] <= cut[j]
  BY <1>1 DEF Cuts
<1>3. s \o t \in Words /\ Len(s \o t) = Len(s) + Len(t) /\ Len(s) \in Nat /\ Len(t) \in Nat
  BY WordsJoin DEF Words
<1> DEFINE new == [i \in 1 .. (n + 1) + 1 |-> IF i = n + 2 THEN Len(s \o t) ELSE cut[i]]
<1>4. Cuts(new, s \o t, n + 1)
  <2>1. new \in [1 .. (n + 1) + 1 -> Nat] /\ new[1] = 0 /\ new[(n + 1) + 1] = Len(s \o t)
    BY <1>2, <1>3
  <2>2. ASSUME NEW i \in 1 .. (n + 1) + 1, NEW j \in 1 .. (n + 1) + 1, i <= j
        PROVE  new[i] <= new[j]
    <3>1. CASE j = n + 2
      <4>1. CASE i = n + 2
        BY <1>3, <3>1, <4>1
      <4>2. CASE i # n + 2
        <5>1. i \in 1 .. n + 1 /\ n + 1 \in 1 .. n + 1 /\ i <= n + 1
          BY <4>2
        <5>2. cut[i] <= Len(s) /\ cut[i] \in Nat
          BY <1>2, <5>1
        <5> QED
          BY <1>3, <3>1, <4>2, <5>2
      <4> QED
        BY <4>1, <4>2
    <3>2. CASE j # n + 2
      <4>1. i \in 1 .. n + 1 /\ j \in 1 .. n + 1 /\ i # n + 2
        BY <2>2, <3>2
      <4> QED
        BY <1>2, <2>2, <3>2, <4>1
    <3> QED
      BY <3>1, <3>2
  <2> QED
    BY <2>1, <2>2 DEF Cuts
<1>5. ASSUME NEW i \in 1 .. n
      PROVE  Level(d, s \o t, new, i, B)
  <2>1. /\ i \in 1 .. n + 1 /\ i + 1 \in 1 .. n + 1 /\ i # n + 2 /\ i + 1 # n + 2 /\ i # n + 1
        /\ i \in 1 .. (n + 1) + 1 /\ i + 1 \in 1 .. (n + 1) + 1
        /\ n + 1 \in 1 .. n + 1 /\ i <= i + 1 /\ i + 1 <= n + 1
    OBVIOUS
  <2>2. new[i] = cut[i] /\ new[i + 1] = cut[i + 1]
    BY <2>1
  <2>3. cut[i] \in Nat /\ cut[i + 1] \in Nat /\ cut[i] <= cut[i + 1] /\ cut[i + 1] <= Len(s)
    BY <1>2, <2>1
  <2>4. PICK a, b : a = cut[i] /\ b = cut[i + 1]
    OBVIOUS
  <2>5. SubSeq(s \o t, a + 1, b) = SubSeq(s, a + 1, b)
    BY <2>3, <2>4, HeadStretch, ZenonT(40)
  <2>6. SubSeq(s \o t, new[i] + 1, new[i + 1]) = SubSeq(s, cut[i] + 1, cut[i + 1])
    BY <2>2, <2>4, <2>5
  <2>7. Level(c, s, cut, i, A) /\ d.stack[i] = c.stack[i]
    BY <1>1, <2>1
  <2>8. OpenPhrase(SubSeq(s, cut[i] + 1, cut[i + 1]), c.stack[i]) \in Waiting(c.stack[i].value.type)
    BY <2>7 DEF Level
  <2> QED
    BY <2>1, <2>6, <2>7, <2>8 DEF Level
<1>6. Level(d, s \o t, new, n + 1, B)
  <2>1. /\ n + 1 \in 1 .. (n + 1) + 1 /\ n + 2 \in 1 .. (n + 1) + 1
        /\ n + 1 # n + 2 /\ n + 1 \in 1 .. n + 1 /\ (n + 1) + 1 = n + 2
    OBVIOUS
  <2>2. new[n + 1] = Len(s) /\ new[(n + 1) + 1] = Len(s \o t)
    BY <1>2, <2>1
  <2>3. SubSeq(s \o t, Len(s) + 1, Len(s \o t)) = t
    BY <1>3 DEF Words
  <2>4. PICK k : k = n + 1
    OBVIOUS
  <2>5. SubSeq(s \o t, new[k] + 1, new[k + 1]) = t
    BY <2>2, <2>3, <2>4
  <2>6. Level(d, s \o t, new, k, B)
    <3>1. Holder(d.stack[k]) /\ OpenPhrase(t, d.stack[k]) \in B /\ k = Len(d.stack)
      BY <2>4
    <3> HIDE DEF new
    <3> QED
      BY <2>5, <3>1 DEF Level
  <2> QED
    BY <2>4, <2>6
<1> HIDE DEF new
<1>7. \A i \in 1 .. n + 1 : i \in 1 .. n \/ i = n + 1
  OBVIOUS
<1>8. \A i \in 1 .. n + 1 : Level(d, s \o t, new, i, B)
  BY <1>5, <1>6, <1>7
<1> QED
  BY <1>4, <1>8 DEF Spells

(* The innermost container closes.                                         *)
LEMMA TopCloses ==
  ASSUME NEW c, NEW d, NEW n \in Nat, n > 0, Len(c.stack) = n, Len(d.stack) = n - 1,
         \A i \in 1 .. n - 1 : d.stack[i] = c.stack[i],
         NEW s \in Words, NEW A, Spells(c, s, A)
  PROVE  \E x, y \in Words :
           /\ s = x \o y
           /\ Holder(c.stack[n]) /\ OpenPhrase(y, c.stack[n]) \in A
           /\ Spells(d, x, Waiting(d.stack[n - 1].value.type))
<1>1. PICK cut : Cuts(cut, s, n) /\ \A i \in 1 .. n : Level(c, s, cut, i, A)
  BY DEF Spells
<1>2. /\ cut \in [1 .. n + 1 -> Nat] /\ cut[1] = 0 /\ cut[n + 1] = Len(s)
      /\ \A i, j \in 1 .. n + 1 : i <= j => cut[i] <= cut[j]
  BY <1>1 DEF Cuts
<1>3. n \in 1 .. n + 1 /\ n + 1 \in 1 .. n + 1 /\ n <= n + 1 /\ n \in 1 .. n
  OBVIOUS
<1>4. cut[n] \in Nat /\ cut[n] <= Len(s)
  BY <1>2, <1>3
<1>5. PICK x, y : x = SubSeq(s, 1, cut[n]) /\ y = SubSeq(s, cut[n] + 1, Len(s))
  OBVIOUS
<1>6. x \in Words /\ y \in Words /\ s = x \o y /\ Len(x) = cut[n]
  BY <1>4, <1>5, Splits
<1>7. Holder(c.stack[n]) /\ OpenPhrase(y, c.stack[n]) \in A
  BY <1>1, <1>2, <1>3, <1>5 DEF Level
<1> DEFINE new == [i \in 1 .. (n - 1) + 1 |-> cut[i]]
           B == Waiting(d.stack[n - 1].value.type)
<1>8. Cuts(new, x, n - 1)
  <2>1. \A i \in 1 .. (n - 1) + 1 : i \in 1 .. n + 1 /\ cut[i] \in Nat
    BY <1>2
  <2>2. new \in [1 .. (n - 1) + 1 -> Nat] /\ new[1] = 0 /\ new[(n - 1) + 1] = Len(x)
    BY <1>2, <1>6, <2>1
  <2>3. \A i, j \in 1 .. (n - 1) + 1 : i <= j => new[i] <= new[j]
    BY <1>2, <2>1
  <2> QED
    BY <2>2, <2>3 DEF Cuts
<1>9. ASSUME NEW i \in 1 .. n - 1
      PROVE  Level(d, x, new, i, B)
  <2>1. /\ i \in 1 .. n + 1 /\ i + 1 \in 1 .. n + 1 /\ i # n /\ i \in 1 .. n
        /\ i \in 1 .. (n - 1) + 1 /\ i + 1 \in 1 .. (n - 1) + 1 /\ i <= i + 1 /\ i + 1 <= n
    OBVIOUS
  <2>2. new[i] = cut[i] /\ new[i + 1] = cut[i + 1]
    BY <2>1
  <2>3. cut[i] \in Nat /\ cut[i + 1] \in Nat /\ cut[i] <= cut[i + 1] /\ cut[i + 1] <= Len(x)
    BY <1>2, <1>3, <1>6, <2>1
  <2>4. PICK a, b : a = cut[i] /\ b = cut[i + 1]
    OBVIOUS
  <2>5. SubSeq(x \o y, a + 1, b) = SubSeq(x, a + 1, b)
    <3>1. x \in Words /\ y \in Words
      BY <1>6
    <3>2. a \in Nat /\ b \in Nat /\ a <= b /\ b <= Len(x)
      BY <2>3, <2>4
    <3> QED
      BY <3>1, <3>2, HeadStretch
  <2>6. SubSeq(x, new[i] + 1, new[i + 1]) = SubSeq(s, cut[i] + 1, cut[i + 1])
    BY <1>6, <2>2, <2>4, <2>5
  <2>7. Level(c, s, cut, i, A) /\ d.stack[i] = c.stack[i]
    BY <1>1, <2>1
  <2>8. OpenPhrase(SubSeq(s, cut[i] + 1, cut[i + 1]), c.stack[i]) \in Waiting(c.stack[i].value.type)
    BY <2>1, <2>7 DEF Level
  <2> QED
    BY <2>6, <2>7, <2>8 DEF Level
<1> HIDE DEF new, B
<1>10. Spells(d, x, B)
  BY <1>8, <1>9 DEF Spells
<1> QED
  BY <1>6, <1>7, <1>10 DEF B

-----------------------------------------------------------------------------
(* The handlers read the text.                                             *)

LEMMA AppendJoins ==
  ASSUME NEW a, NEW v, Sequence(a)
  PROVE  Append(a, v) = a \o <<v>> /\ Sequence(Append(a, v))
<1>1. PICK S : a \in Seq(S)
  BY DEF Sequence
<1>2. PICK T : T = S \cup {v}
  OBVIOUS
<1>3. a \in Seq(T) /\ v \in T
  BY <1>1, <1>2
<1>4. Append(a, v) = a \o <<v>> /\ Append(a, v) \in Seq(T)
  BY <1>3, AppendIsConcat
<1> QED
  BY <1>4 DEF Sequence

LEMMA NothingOpen ==
  ASSUME NEW c, Len(c.stack) = 0, NEW s \in Words, NEW A
  PROVE  Spells(c, s, A) <=> s = <<>>
<1>1. ASSUME Spells(c, s, A)
      PROVE  s = <<>>
  <2>1. PICK cut : Cuts(cut, s, 0)
    BY <1>1 DEF Spells
  <2>2. Len(s) = 0
    BY <2>1 DEF Cuts
  <2> QED
    BY <2>2 DEF Words
<1>2. ASSUME s = <<>>
      PROVE  Spells(c, s, A)
  <2> DEFINE cut == [i \in 1 .. 0 + 1 |-> 0]
  <2>1. Cuts(cut, s, 0)
    BY <1>2 DEF Cuts
  <2> HIDE DEF cut
  <2>2. \A i \in 1 .. 0 : Level(c, s, cut, i, A)
    OBVIOUS
  <2> QED
    BY <2>1, <2>2 DEF Spells
<1> QED
  BY <1>1, <1>2

\* What a container lists: its keys, the one that waits for a value included.
KeysRead(e) == e.value.keys \o e.key

LEMMA OpenJoins ==
  ASSUME NEW e, NEW f, NEW x, NEW t, NEW z, NEW u,
         KeysRead(f) = KeysRead(e) \o z, f.value.values = e.value.values \o u
  PROVE  OpenPhrase(x \o t, f) = Joined(OpenPhrase(x, e), Phrase(t, z, u))
<1>1. PICK p, q, l : p = OpenPhrase(x, e) /\ q = Phrase(t, z, u) /\ l = KeysRead(e)
  OBVIOUS
<1>2. p = Phrase(x, l, e.value.values)
  BY <1>1 DEF OpenPhrase, KeysRead
<1>3. /\ p.text = x /\ p.keys = KeysRead(e) /\ p.values = e.value.values
      /\ q.text = t /\ q.keys = z /\ q.values = u
  BY <1>1, <1>2, PartsOfPhrase
<1>4. Joined(p, q) = Phrase(p.text \o q.text, p.keys \o q.keys, p.values \o q.values)
  BY DEF Joined
<1>5. OpenPhrase(x \o t, f) = Phrase(x \o t, KeysRead(f), f.value.values)
  BY DEF OpenPhrase, KeysRead
<1> QED
  BY <1>1, <1>3, <1>4, <1>5

LEMMA PlainNode ==
  ASSUME NEW type, NEW keys, NEW values, NEW w, w = Node(type, "", keys, values)
  PROVE  Plain(w) /\ w.type = type /\ w.keys = keys /\ w.values = values
<1>1. w.type = type /\ w.keys = keys /\ w.values = values
  BY DEF Node
<1> QED
  BY <1>1 DEF Plain

LEMMA ElementReadOn ==
  ASSUME NEW e, Holder(e), e.value.type = "array", e.key = NULL, NEW v,
         NEW vs, vs = Append(e.value.values, v),
         NEW f, Plain(f.value), f.value.type = "array", f.value.keys = <<>>,
         f.value.values = vs, f.key = NULL
  PROVE  /\ Holder(f)
         /\ \A x, t : OpenPhrase(x \o t, f) = Joined(OpenPhrase(x, e), Phrase(t, <<>>, <<v>>))
<1>1. PICK z, u : z = <<>> /\ u = <<v>>
  OBVIOUS
<1>2. Sequence(e.value.values) /\ e.value.keys = z
  BY <1>1 DEF Holder
<1>3. vs = e.value.values \o u /\ Sequence(vs)
  BY <1>1, <1>2, AppendJoins
<1>4. f.value.keys = z
  BY <1>1
<1>5. Sequence(z) /\ z \o z = z
  BY <1>1, ShortSequences, SequencesJoin
<1>6. Holder(f)
  BY <1>1, <1>3, <1>4, <1>5 DEF Holder
<1>7. KeysRead(f) = KeysRead(e) \o z
  BY <1>1, <1>2, <1>4, <1>5 DEF KeysRead, NULL
<1>8. \A x, t : OpenPhrase(x \o t, f) = Joined(OpenPhrase(x, e), Phrase(t, z, u))
  BY <1>3, <1>4, <1>7, OpenJoins, SMTT(20)
<1> QED
  BY <1>1, <1>6, <1>8

\* f reads on after e: the value v, spelled t, comes after what e lists.
ReadsOn(e, f, t, v) ==
  Holder(e) =>
    Holder(f) /\ \A x : OpenPhrase(x \o t, f) = Joined(OpenPhrase(x, e), Phrase(t, <<>>, <<v>>))

\* d is c with the value v, spelled t, in the innermost container.
Places(c, v, t, d) ==
  \E w, m : /\ d = Update(c, w, NULL, m)
            /\ \A f : f.value = w /\ f.key = NULL => ReadsOn(Innermost(c), f, t, v)

LEMMA TopReadsValue ==
  ASSUME NEW c, Stacked(c), IsOpen(c), NEW s \in Words, NEW t \in Words, NEW A,
         Spells(c, s, A), NEW type \in {"array", "object"}, A \subseteq Waiting(type),
         NEW v, Phrase(t, <<>>, <<v>>) \in PhrasesOf("values"),
         NEW d, Places(c, v, t, d)
  PROVE  Spells(d, s \o t, Begun(Got(type)))
<1>1. PICK w, m : /\ d = Update(c, w, NULL, m)
                  /\ \A f : f.value = w /\ f.key = NULL => ReadsOn(Innermost(c), f, t, v)
  BY DEF Places
<1>2. PICK n, e, B : n = Len(c.stack) /\ e = Innermost(c) /\ B = Begun(Got(type))
  OBVIOUS
<1>3. n \in Nat /\ n > 0 /\ c.stack[n] = e
  BY <1>2 DEF Stacked, IsOpen, Innermost
<1>4. /\ Len(d.stack) = n /\ \A i \in 1 .. n - 1 : d.stack[i] = c.stack[i]
      /\ Innermost(d).value = w /\ Innermost(d).key = NULL
  BY <1>1, <1>2, ReplacedTop
<1>5. d.stack[n] = Innermost(d)
  BY <1>4 DEF Innermost
<1>6. ReadsOn(e, d.stack[n], t, v)
  BY <1>1, <1>2, <1>4, <1>5
<1>7. Holder(e) => Holder(d.stack[n])
  BY <1>6 DEF ReadsOn
<1>8. ASSUME NEW x \in Words, Holder(e), OpenPhrase(x, e) \in A
      PROVE  OpenPhrase(x \o t, d.stack[n]) \in B
  <2>1. OpenPhrase(x \o t, d.stack[n]) = Joined(OpenPhrase(x, e), Phrase(t, <<>>, <<v>>))
    BY <1>6, <1>8 DEF ReadsOn
  <2>2. OpenPhrase(x, e) \in Waiting(type)
    BY <1>8
  <2>3. PICK p, q : p = OpenPhrase(x, e) /\ q = Phrase(t, <<>>, <<v>>)
    OBVIOUS
  <2>4. Joined(p, q) \in B
    BY <1>2, <2>2, <2>3, ValueExtends
  <2> QED
    BY <2>1, <2>3, <2>4
<1>9. Spells(d, s \o t, B)
  BY <1>2, <1>3, <1>4, <1>7, <1>8, TopReadsOn
<1> QED
  BY <1>2, <1>9

LEMMA Aborts == \A c, message : Abort(c, message).go = FALSE
  BY DEF Abort

LEMMA ElementAdded ==
  ASSUME NEW c, IsOpen(c), Innermost(c).value.type = "array", Innermost(c).key = NULL,
         NEW v, NEW mem, NEW r, r = context_add_value(c, v, mem), r.go = TRUE, NEW t
  PROVE  Places(c, v, t, r.ctx)
<1>1. r = array_add_value(c, v, mem)
  BY DEF context_add_value
<1>2. mem # "link"
  BY <1>1, Aborts DEF array_add_value
<1>3. PICK e, vs : e = Innermost(c) /\ vs = Append(Innermost(c).value.values, v)
  OBVIOUS
<1>4. PICK w : w = Node("array", "", <<>>, vs)
  OBVIOUS
<1>5. PICK m : r = Continue(Update(c, w, NULL, m))
  BY <1>1, <1>2, <1>3, <1>4 DEF array_add_value
<1>6. r.ctx = Update(c, w, NULL, m)
  BY <1>5 DEF Continue
<1>7. Plain(w) /\ w.type = "array" /\ w.keys = <<>> /\ w.values = vs
  BY <1>4 DEF Plain, Node
<1>8. ASSUME NEW f, f.value = w, f.key = NULL
      PROVE  ReadsOn(e, f, t, v)
  <2>1. ASSUME Holder(e)
        PROVE  /\ Holder(f)
               /\ \A x, u : OpenPhrase(x \o u, f) = Joined(OpenPhrase(x, e), Phrase(u, <<>>, <<v>>))
    <3>1. Plain(f.value) /\ f.value.type = "array" /\ f.value.keys = <<>> /\ f.value.values = vs
      BY <1>7, <1>8
    <3>2. e.value.type = "array" /\ e.key = NULL /\ vs = Append(e.value.values, v)
      BY <1>3
    <3> QED
      BY <1>8, <2>1, <3>1, <3>2, ElementReadOn
  <2> QED
    BY <2>1 DEF ReadsOn
<1> QED
  BY <1>3, <1>6, <1>8 DEF Places

LEMMA PairAdded ==
  ASSUME NEW c, IsOpen(c), Innermost(c).value.type = "object", Innermost(c).key # NULL,
         NEW v, NEW mem, NEW r, r = context_add_value(c, v, mem), r.go = TRUE, NEW t
  PROVE  Places(c, v, t, r.ctx)
<1>1. r = object_add_keyval(c, Innermost(c).key[1], v, mem)
  BY DEF context_add_value
<1>2. mem \notin {"link", "values"}
  BY <1>1, Aborts DEF object_add_keyval
<1>3. PICK e, k, ks, vs : /\ e = Innermost(c) /\ k = Innermost(c).key[1]
                          /\ ks = Append(Innermost(c).value.keys, k)
                          /\ vs = Append(Innermost(c).value.values, v)
  OBVIOUS
<1>4. PICK w : w = Node("object", "", ks, vs)
  OBVIOUS
<1>5. PICK m : r = Continue(Update(c, w, NULL, m))
  BY <1>1, <1>2, <1>3, <1>4 DEF object_add_keyval
<1>6. r.ctx = Update(c, w, NULL, m)
  BY <1>5 DEF Continue
<1>7. Plain(w) /\ w.type = "object" /\ w.keys = ks /\ w.values = vs
  BY <1>4 DEF Plain, Node
<1>8. ASSUME NEW f, f.value = w, f.key = NULL
      PROVE  ReadsOn(e, f, t, v)
  <2>1. ASSUME Holder(e)
        PROVE  /\ Holder(f)
               /\ \A x, u : OpenPhrase(x \o u, f) = Joined(OpenPhrase(x, e), Phrase(u, <<>>, <<v>>))
    <3>1. PICK l : e.key = Ref(l)
      BY <1>3, <2>1 DEF Holder
    <3>2. l = k
      BY <1>3, <3>1 DEF Ref
    <3>3. Sequence(e.value.keys) /\ Sequence(e.value.values)
      BY <2>1 DEF Holder
    <3>4. PICK z, u : z = NULL /\ u = <<v>>
      OBVIOUS
    <3>5. ks = e.value.keys \o <<k>> /\ Sequence(ks)
      BY <1>3, <3>3, AppendJoins
    <3>6. vs = e.value.values \o u /\ Sequence(vs)
      BY <1>3, <3>3, <3>4, AppendJoins
    <3>7. ks = KeysRead(e)
      BY <3>1, <3>2, <3>5 DEF KeysRead, Ref
    <3>8. ks \o z = ks
      BY <3>4, <3>5, SequencesJoin DEF NULL
    <3>9. e.value.type = "object"
      BY <1>3
    <3>10. /\ Holder(f)
           /\ \A x, y : OpenPhrase(x \o y, f) = Joined(OpenPhrase(x, e), Phrase(y, z, u))
      <4>1. Plain(f.value) /\ f.value.type = "object" /\ f.value.keys = ks /\ f.value.values = vs
        BY <1>7, <1>8
      <4>2. f.value.keys = KeysRead(e) /\ Sequence(f.value.keys) /\ f.value.keys \o z = f.value.keys
        BY <3>5, <3>7, <3>8, <4>1
      <4>3. f.value.values = e.value.values \o u /\ Sequence(f.value.values)
        BY <3>6, <4>1
      <4>4. f.key = z /\ z = NULL
        BY <1>8, <3>4
      <4>5. Holder(f)
        BY <4>1, <4>2, <4>3, <4>4 DEF Holder
      <4>6. KeysRead(f) = KeysRead(e) \o z
        BY <4>2, <4>4 DEF KeysRead
      <4>7. \A x, y : OpenPhrase(x \o y, f) = Joined(OpenPhrase(x, e), Phrase(y, z, u))
        BY <4>3, <4>6, OpenJoins
      <4> QED
        BY <4>5, <4>7
    <3> QED
      BY <3>4, <3>10 DEF NULL
  <2> QED
    BY <2>1 DEF ReadsOn
<1> QED
  BY <1>3, <1>6, <1>8 DEF Places

(* A value that is added has been read.                                    *)
LEMMA ValueAdded ==
  ASSUME NEW c, Stacked(c), Ready(c), NEW s \in Words, NEW t \in Words, NEW A,
         Spells(c, s, A), IsOpen(c) => A \subseteq Waiting(Innermost(c).value.type),
         NEW v, Phrase(t, <<>>, <<v>>) \in PhrasesOf("values"), NEW mem,
         NEW r, r = context_add_value(c, v, mem), r.go = TRUE
  PROVE  IF IsOpen(c) THEN Spells(r.ctx, s \o t, Begun(Got(Innermost(c).value.type)))
                      ELSE Phrase(s \o t, <<>>, r.ctx.root) \in PhrasesOf("values")
<1>1. CASE ~IsOpen(c)
  <2>1. r = Continue(Context(c.stack, Ref(v), c.err, c.blocks))
    BY <1>1 DEF context_add_value
  <2>2. r.ctx.root = Ref(v)
    BY <2>1, FieldsOfContext DEF Continue
  <2>3. s = <<>>
    <3>1. Len(c.stack) = 0
      BY <1>1 DEF IsOpen, Stacked
    <3> QED
      BY <3>1, NothingOpen
  <2>4. <<>> \o t = t
    BY DEF Words
  <2> QED
    BY <1>1, <2>2, <2>3, <2>4 DEF Ref
<1>2. CASE IsOpen(c)
  <2>1. PICK type : type = Innermost(c).value.type
    OBVIOUS
  <2>2. type \in {"array", "object"}
    BY <1>2, <2>1 DEF Ready
  <2>3. Places(c, v, t, r.ctx)
    <3>1. CASE type = "array" /\ Innermost(c).key = NULL
      BY <1>2, <2>1, <3>1, ElementAdded
    <3>2. CASE type = "object" /\ Innermost(c).key # NULL
      BY <1>2, <2>1, <3>2, PairAdded
    <3> QED
      BY <1>2, <2>1, <3>1, <3>2 DEF Ready
  <2>4. Spells(r.ctx, s \o t, Begun(Got(type)))
    BY <1>2, <2>1, <2>2, <2>3, TopReadsValue
  <2> QED
    BY <1>2, <2>1, <2>4
<1> QED
  BY <1>1, <1>2

-----------------------------------------------------------------------------
(* What is built is what has been read.                                    *)

Reads(c, s, state) ==
  IF c.root # NULL THEN Phrase(s, <<>>, c.root) \in PhrasesOf("values")
                   ELSE Spells(c, s, Begun(state))

TreeText == ~Failed => Reads(ctx, consumed, Current)

\* What holds while the parser reads.
Reading ==
  /\ stateStack \in Seq(States) /\ StackShape /\ Stacked(ctx) /\ InStep
  /\ consumed \in Words /\ Reads(ctx, consumed, Current)

LEMMA SpellsAlike ==
  ASSUME NEW a, NEW c, a.stack = c.stack, NEW s, NEW A, Spells(c, s, A)
  PROVE  Spells(a, s, A)
  BY DEF Spells, Level

LEMMA OneMore ==
  ASSUME NEW t \in Lexemes
  PROVE  /\ <<t>> \in Words
         /\ \A s \in Words : s \o <<t>> \in Words /\ Append(s, t) = s \o <<t>>
<1>1. <<t>> \in Seq(Lexemes)
  OBVIOUS
<1>2. ASSUME NEW s \in Seq(Lexemes)
      PROVE  s \o <<t>> \in Seq(Lexemes) /\ Append(s, t) = s \o <<t>>
  <2>1. Append(s, t) = s \o <<t>> /\ Append(s, t) \in Seq(Lexemes)
    BY AppendIsConcat
  <2> QED
    BY <2>1
<1> QED
  BY <1>1, <1>2 DEF Words

LEMMA LeafPhrase ==
  ASSUME NEW t \in Lexemes, t.tok \in ScalarToks
  PROVE  Phrase(<<t>>, <<>>, <<Leaf(LeafType(t), t.text)>>) \in PhrasesOf("values")
<1>1. SpellsLiteral(t)
  BY DEF SpellsLiteral, Punctuation, ScalarToks, StringToks, NumberToks
<1>2. LeafType(t) = TypeSpelled(t)
  BY DEF LeafType, TypeSpelled, SpellsKey, StringToks, NumberToks
<1>3. Leaf(LeafType(t), t.text) = JsonValue(TypeSpelled(t), t.text, <<>>, <<>>)
  BY <1>2 DEF Leaf, Node, JsonValue
<1>4. Phrase(<<t>>, <<>>, <<JsonValue(TypeSpelled(t), t.text, <<>>, <<>>)>>) \in Literals
  BY <1>1 DEF Literals
<1> QED
  BY <1>3, <1>4, LiteralIsValue

(* Before a value, the innermost container waits for one.                  *)
LEMMA WaitsForValue ==
  ASSUME Reading, Current \in ValueStates, IsOpen(ctx)
  PROVE  /\ Innermost(ctx).value.type \in {"array", "object"}
         /\ Begun(Current) \subseteq Waiting(Innermost(ctx).value.type)
         /\ AfterValue(Current) = Got(Innermost(ctx).value.type)
<1>1. Len(ctx.stack) \in Nat /\ Len(ctx.stack) > 0
  BY DEF IsOpen, Stacked, Reading
<1>2. Len(stateStack) = Len(ctx.stack) + 1 /\ Len(stateStack) # 1
  BY <1>1 DEF InStep, Reading
<1>3. MatchesCurrent(Innermost(ctx), Current)
  BY <1>1, <1>2 DEF InStep, Current, Innermost, Reading
<1>4. Current \in InnerStates
  BY <1>2 DEF StackShape, WellFormed, Current, Reading, ValueStates, ErrorStates
<1>5. Current \in {"map_need_val", "array_need_val", "array_start"}
  BY <1>4, StateKinds DEF ValueStates
<1>6. CASE Current = "map_need_val"
  BY <1>3, <1>6 DEF MatchesCurrent, MapStates, Waiting, AfterValue, Got
<1>7. CASE Current = "array_need_val"
  BY <1>3, <1>7 DEF MatchesCurrent, MapStates, Waiting, AfterValue, Got, Begun
<1>8. CASE Current = "array_start"
  BY <1>3, <1>8 DEF MatchesCurrent, MapStates, Waiting, AfterValue, Got, Begun, BeforeElement
<1> QED
  BY <1>5, <1>6, <1>7, <1>8

LEMMA ReadsOfAdded ==
  ASSUME NEW c, NEW d, Added(c, d), IsOpen(c) => c.root = NULL, NEW s, NEW state,
         IF IsOpen(c) THEN Spells(d, s, Begun(state))
                      ELSE Phrase(s, <<>>, d.root) \in PhrasesOf("values")
  PROVE  Reads(d, s, state)
  BY DEF Reads, Added

LEMMA LeafReads ==
  ASSUME Reading, Current \in ValueStates, NEW t \in Lexemes, t.tok \in ScalarToks, NEW mem,
         NEW r, r = handle_leaf(ctx, LeafType(t), t.text, mem), r.go = TRUE
  PROVE  Reads(r.ctx, consumed \o <<t>>, AfterValue(Current))
<1>1. Ready(ctx) /\ ctx.root = NULL /\ Stacked(ctx)
  BY ValueHasPlace DEF Reading
<1>2. Added(ctx, r.ctx)
  BY <1>1, LeafHandler DEF OutOfMemory
<1>3. Spells(ctx, consumed, Begun(Current))
  BY <1>1 DEF Reading, Reads
<1>4. mem # "value"
  BY Aborts DEF handle_leaf
<1>5. PICK a, v : a = Allocated(ctx, BlocksOfLeaf(LeafType(t))) /\ v = Leaf(LeafType(t), t.text)
  OBVIOUS
<1>6. r = context_add_value(a, v, mem)
  BY <1>4, <1>5 DEF handle_leaf
<1>7. /\ a.stack = ctx.stack /\ Stacked(a) /\ IsOpen(a) = IsOpen(ctx) /\ Innermost(a) = Innermost(ctx)
  BY <1>1, <1>5, AllocatedAlike
<1>8. Ready(a) /\ Spells(a, consumed, Begun(Current))
  BY <1>1, <1>3, <1>7, SpellsAlike DEF Ready
<1>9. PICK u, A : u = <<t>> /\ A = Begun(Current)
  OBVIOUS
<1>10. Phrase(u, <<>>, <<v>>) \in PhrasesOf("values") /\ u \in Words /\ consumed \in Words
  BY <1>5, <1>9, LeafPhrase, OneMore DEF Reading
<1>11. IsOpen(a) => A \subseteq Waiting(Innermost(a).value.type)
  BY <1>7, <1>9, WaitsForValue
<1>12. IF IsOpen(a) THEN Spells(r.ctx, consumed \o u, Begun(Got(Innermost(a).value.type)))
                    ELSE Phrase(consumed \o u, <<>>, r.ctx.root) \in PhrasesOf("values")
  <2>1. Spells(a, consumed, A)
    BY <1>8, <1>9
  <2> QED
    BY <1>6, <1>7, <1>8, <1>10, <1>11, <2>1, ValueAdded
<1>13. PICK w : w = consumed \o u
  OBVIOUS
<1>14. IF IsOpen(ctx) THEN Spells(r.ctx, w, Begun(AfterValue(Current)))
                      ELSE Phrase(w, <<>>, r.ctx.root) \in PhrasesOf("values")
  BY <1>7, <1>12, <1>13, WaitsForValue
<1> QED
  BY <1>1, <1>2, <1>9, <1>13, <1>14, ReadsOfAdded


\* After the token t the innermost container lists what it did.
LEMMA SeparatorRead ==
  ASSUME Reading, Current \in InnerStates, NEW t \in Lexemes, NEW state,
         Then(Begun(Current), Symbol(t.tok)) \subseteq Begun(state)
  PROVE  Reads(ctx, consumed \o <<t>>, state)
<1>1. IsOpen(ctx) /\ ctx.root = NULL
  BY InsideContainer DEF Reading
<1>2. PICK n, e, u, z : n = Len(ctx.stack) /\ e = Innermost(ctx) /\ u = <<t>> /\ z = <<>>
  OBVIOUS
<1>3. n \in Nat /\ n > 0 /\ ctx.stack[n] = e
  BY <1>1, <1>2 DEF IsOpen, Stacked, Innermost, Reading
<1>4. u \in Words /\ consumed \in Words
  BY <1>2, OneMore DEF Reading
<1>5. PICK A, B : A = Begun(Current) /\ B = Begun(state)
  OBVIOUS
<1>6. ASSUME NEW x \in Words, Holder(e), OpenPhrase(x, e) \in A
      PROVE  OpenPhrase(x \o u, e) \in B
  <2>1. Sequence(e.value.keys) /\ Sequence(e.value.values) /\ Sequence(e.key)
    <3>1. Sequence(e.key)
      BY <1>6, ShortSequences DEF Holder, NULL, Ref
    <3> QED
      BY <1>6, <3>1 DEF Holder
  <2>2. e.value.values = e.value.values \o z
    BY <1>2, <2>1, SequencesJoin
  <2>3. KeysRead(e) = KeysRead(e) \o z
    <3>1. PICK l : l = KeysRead(e)
      OBVIOUS
    <3>2. Sequence(l)
      BY <2>1, <3>1, SequencesJoin DEF KeysRead
    <3>3. l \o <<>> = l
      BY <3>2, SequencesJoin
    <3> QED
      BY <1>2, <3>1, <3>3
  <2>4. OpenPhrase(x \o u, e) = Joined(OpenPhrase(x, e), Phrase(u, z, z))
    BY <2>2, <2>3, OpenJoins
  <2>5. Phrase(u, z, z) \in Symbol(t.tok)
    BY <1>2 DEF Symbol
  <2> QED
    BY <1>5, <1>6, <2>4, <2>5, InThen
<1>7. Spells(ctx, consumed, A)
  BY <1>1, <1>5 DEF Reading, Reads
<1>8. Spells(ctx, consumed \o u, B)
  BY <1>2, <1>3, <1>4, <1>6, <1>7, TopReadsOn
<1> QED
  BY <1>1, <1>2, <1>5, <1>8 DEF Reads

\* What a separator moves the parser on to.
SeparatorMovesOn ==
  {<<"map_sep", "colon", "map_need_val">>, <<"map_got_val", "comma", "map_need_key">>,
   <<"array_got_val", "comma", "array_need_val">>}

LEMMA SeparatorReads ==
  ASSUME Reading, NEW t \in Lexemes, NEW state, <<Current, t.tok, state>> \in SeparatorMovesOn
  PROVE  Reads(ctx, consumed \o <<t>>, state)
<1>1. Current \in InnerStates
  BY StateKinds DEF SeparatorMovesOn
<1>2. Then(Begun(Current), Symbol(t.tok)) \subseteq Begun(state)
  <2>1. CASE Current = "map_sep" /\ t.tok = "colon" /\ state = "map_need_val"
    BY <2>1 DEF Begun
  <2>2. CASE Current = "map_got_val" /\ t.tok = "comma" /\ state = "map_need_key"
    BY <2>2 DEF Begun, BeforeKey
  <2>3. CASE Current = "array_got_val" /\ t.tok = "comma" /\ state = "array_need_val"
    BY <2>3 DEF Begun, BeforeElement
  <2> QED
    BY <2>1, <2>2, <2>3 DEF SeparatorMovesOn
<1> QED
  BY <1>1, <1>2, SeparatorRead

(* A key waits for its value.                                              *)
LEMMA KeyReads ==
  ASSUME Reading, Current \in KeyStates, NEW t \in Lexemes, t.tok \in StringToks, NEW mem,
         NEW r, r = handle_leaf(ctx, LeafType(t), t.text, mem), r.go = TRUE
  PROVE  Reads(r.ctx, consumed \o <<t>>, "map_sep")
<1>1. Current \in InnerStates
  BY StateKinds DEF KeyStates
<1>2. IsOpen(ctx) /\ MatchesCurrent(Innermost(ctx), Current) /\ ctx.root = NULL
  BY <1>1, InsideContainer DEF Reading
<1>3. Innermost(ctx).value.type = "object" /\ Innermost(ctx).key = NULL
  BY <1>2 DEF MatchesCurrent, MapStates, KeyStates
<1>4. mem # "value"
  BY Aborts DEF handle_leaf
<1>5. LeafType(t) = "string"
  BY DEF LeafType, StringToks, NumberToks
<1>6. PICK a, v : a = Allocated(ctx, BlocksOfLeaf("string")) /\ v = Leaf("string", t.text)
  OBVIOUS
<1>7. r = context_add_value(a, v, mem)
  BY <1>4, <1>5, <1>6 DEF handle_leaf
<1>8. v.type = "string" /\ v.text = t.text
  BY <1>6 DEF Leaf, Node
<1>9. /\ a.stack = ctx.stack /\ a.root = ctx.root /\ Stacked(a) /\ IsOpen(a)
      /\ Innermost(a) = Innermost(ctx)
  BY <1>2, <1>6, AllocatedAlike DEF Reading
<1>10. r = Continue(Update(a, Innermost(a).value, Ref(t.text), -1))
  BY <1>3, <1>7, <1>8, <1>9 DEF context_add_value
<1>11. PICK d : d = Update(a, Innermost(a).value, Ref(t.text), -1)
  OBVIOUS
<1>12. r.ctx = d
  BY <1>10, <1>11 DEF Continue
<1>13. PICK n, e, f, u, z : /\ n = Len(ctx.stack) /\ e = Innermost(ctx) /\ f = Innermost(d)
                            /\ u = <<t>> /\ z = <<>>
  OBVIOUS
<1>14. /\ Len(d.stack) = n /\ \A i \in 1 .. n - 1 : d.stack[i] = ctx.stack[i]
       /\ f.value = e.value /\ f.key = Ref(t.text) /\ d.root = NULL
  BY <1>2, <1>9, <1>11, <1>13, ReplacedTop
<1>15. n \in Nat /\ n > 0 /\ ctx.stack[n] = e /\ d.stack[n] = f
  BY <1>2, <1>13, <1>14 DEF IsOpen, Stacked, Innermost, Reading
<1>16. u \in Words /\ consumed \in Words
  BY <1>13, OneMore DEF Reading
<1>17. Holder(e) => Holder(f)
  BY <1>14 DEF Holder
<1>18. PICK A, B : A = Begun(Current) /\ B = Begun("map_sep")
  OBVIOUS
<1>19. ASSUME NEW x \in Words, Holder(e), OpenPhrase(x, e) \in A
       PROVE  OpenPhrase(x \o u, f) \in B
  <2>1. PICK w : w = <<t.text>>
    OBVIOUS
  <2>2. Sequence(e.value.keys) /\ Sequence(e.value.values)
    BY <1>19 DEF Holder
  <2>3. f.value.values = e.value.values \o z
    BY <1>13, <1>14, <2>2, SequencesJoin
  <2>4. KeysRead(f) = KeysRead(e) \o w
    <3>1. PICK l : l = e.value.keys
      OBVIOUS
    <3>2. l \o <<>> = l
      BY <2>2, <3>1, SequencesJoin
    <3>3. KeysRead(e) = l
      BY <1>3, <1>13, <3>1, <3>2 DEF KeysRead, NULL
    <3> QED
      BY <1>14, <2>1, <3>1, <3>3 DEF KeysRead, Ref
  <2>5. OpenPhrase(x \o u, f) = Joined(OpenPhrase(x, e), Phrase(u, w, z))
    BY <2>3, <2>4, OpenJoins
  <2>6. Phrase(u, w, z) \in Keys
    <3>1. SpellsKey(t)
      BY DEF SpellsKey, StringToks
    <3> QED
      BY <1>13, <2>1, <3>1 DEF Keys
  <2>7. A \subseteq BeforeKey
    BY <1>18 DEF Begun, BeforeKey, KeyStates
  <2>8. B = Then(BeforeKey, Keys)
    BY <1>18 DEF Begun
  <2> QED
    BY <1>19, <2>5, <2>6, <2>7, <2>8, InThen
<1>20. Spells(ctx, consumed, A)
  BY <1>2, <1>18 DEF Reading, Reads
<1>21. Spells(d, consumed \o u, B)
  BY <1>13, <1>14, <1>15, <1>16, <1>17, <1>19, <1>20, TopReadsOn, ZenonT(40)
<1> QED
  BY <1>12, <1>13, <1>14, <1>18, <1>21 DEF Reads

(* A container opens.                                                      *)
LEMMA StartReads ==
  ASSUME Reading, Current \in ValueStates, NEW t \in Lexemes, NEW type, NEW s,
         <<t.tok, type, s>> \in {<<"left_bracket", "object", "map_start">>,
                                 <<"left_brace", "array", "array_start">>},
         NEW d, Started(ctx, type, d)
  PROVE  Reads(d, consumed \o <<t>>, s)
<1>1. ctx.root = NULL
  BY ValueHasPlace DEF Reading
<1>2. PICK elem, n, u, A, B : /\ elem = Elem(Container(type), NULL) /\ n = Len(ctx.stack)
                              /\ u = <<t>> /\ A = Begun(Current) /\ B = Begun(s)
  OBVIOUS
<1>3. d.stack = Append(ctx.stack, elem) /\ d.root = NULL
  BY <1>1, <1>2 DEF Started
<1>4. /\ n \in Nat /\ Len(d.stack) = n + 1 /\ d.stack[n + 1] = elem
      /\ \A i \in 1 .. n : d.stack[i] = ctx.stack[i]
  <2>1. PICK S : ctx.stack \in Seq(S)
    BY DEF Stacked, Reading
  <2>2. ctx.stack \in Seq(S \cup {elem})
    BY <2>1
  <2> QED
    BY <1>2, <1>3, <2>2
<1>5. /\ elem.value.type = type /\ elem.value.keys = <<>> /\ elem.value.values = <<>>
      /\ elem.key = NULL /\ Plain(elem.value)
  BY <1>2 DEF Elem, Container, Node, Plain
<1>6. Holder(elem)
  BY <1>5, ShortSequences DEF Holder
<1>7. OpenPhrase(u, elem) \in B
  <2>1. <<>> \o <<>> = <<>>
    BY SequencesJoin, ShortSequences
  <2>2. OpenPhrase(u, elem) = Phrase(u, <<>>, <<>>)
    BY <1>5, <2>1 DEF OpenPhrase, NULL
  <2>3. Phrase(u, <<>>, <<>>) \in Symbol(t.tok)
    BY <1>2 DEF Symbol
  <2>4. B = Symbol(t.tok)
    BY <1>2 DEF Begun
  <2> QED
    BY <2>2, <2>3, <2>4
<1>8. n > 0 => A \subseteq Waiting(ctx.stack[n].value.type)
  BY <1>2, WaitsForValue DEF IsOpen, Innermost
<1>9. u \in Words /\ consumed \in Words /\ Spells(ctx, consumed, A)
  BY <1>1, <1>2, OneMore DEF Reading, Reads
<1>10. Spells(d, consumed \o u, B)
  BY <1>2, <1>4, <1>6, <1>7, <1>8, <1>9, TopOpens
<1> QED
  BY <1>2, <1>3, <1>10 DEF Reads


\* What closes the innermost container.
ClosingTokens ==
  {<<"right_bracket", "map_start">>, <<"right_bracket", "map_got_val">>,
   <<"right_brace", "array_start">>, <<"right_brace", "array_got_val">>}

(* The closed container is a value, spelled by its part of the text.       *)
LEMMA ClosedValue ==
  ASSUME NEW e, Holder(e), NEW s, MatchesCurrent(e, s), NEW t \in Lexemes,
         <<t.tok, s>> \in ClosingTokens, NEW y, OpenPhrase(y, e) \in Begun(s)
  PROVE  Phrase(y \o <<t>>, <<>>, <<e.value>>) \in PhrasesOf("values")
<1>1. e.key = NULL
  BY DEF MatchesCurrent, ClosingTokens
<1>2. PICK ks, vs, u, z, l : /\ ks = e.value.keys /\ vs = e.value.values /\ u = <<t>>
                             /\ z = <<>> /\ l = y \o <<t>>
  OBVIOUS
<1>3. Sequence(ks) /\ Sequence(vs)
  BY <1>2 DEF Holder
<1>4. ks \o z = ks /\ vs \o z = vs
  BY <1>2, <1>3, SequencesJoin
<1>5. OpenPhrase(y, e) = Phrase(y, ks, vs)
  BY <1>1, <1>2, <1>4 DEF OpenPhrase, NULL
<1>6. PICK p, q : p = Phrase(y, ks, vs) /\ q = Phrase(u, z, z)
  OBVIOUS
<1>7. /\ p.text = y /\ p.keys = ks /\ p.values = vs
      /\ q.text = u /\ q.keys = z /\ q.values = z
  BY <1>6, PartsOfPhrase
<1>8. Joined(p, q) = Phrase(l, ks, vs)
  <2>1. Joined(p, q) = Phrase(p.text \o q.text, p.keys \o q.keys, p.values \o q.values)
    BY DEF Joined
  <2>2. y \o u = l
    BY <1>2
  <2> QED
    BY <1>4, <1>7, <2>1, <2>2
<1>9. q \in Symbol(t.tok)
  BY <1>2, <1>6 DEF Symbol
<1>10. PICK j : j = Joined(p, q)
  OBVIOUS
<1>11. j.text = l /\ j.keys = ks /\ j.values = vs
  BY <1>8, <1>10, PartsOfPhrase
<1>12. e.value = Node(e.value.type, "", ks, vs)
  BY <1>2 DEF Holder, Plain
<1>13. CASE t.tok = "right_brace"
  <2>1. e.value.type = "array" /\ s \in {"array_start", "array_got_val"}
    BY <1>13 DEF MatchesCurrent, ClosingTokens, MapStates
  <2>2. ks = <<>>
    BY <1>2, <2>1 DEF Holder
  <2>3. p \in Begun("array_start") \cup Begun("array_got_val")
    BY <1>5, <1>6, <2>1
  <2>4. AsArray(j) \in PhrasesOf("values")
    BY <1>9, <1>10, <1>13, <2>3, ArrayCloses
  <2>5. AsArray(j) = Phrase(l, <<>>, <<e.value>>)
    BY <1>11, <1>12, <2>1, <2>2 DEF AsArray, JsonValue, Node
  <2> QED
    BY <1>2, <2>4, <2>5
<1>14. CASE t.tok = "right_bracket"
  <2>1. e.value.type = "object" /\ s \in {"map_start", "map_got_val"}
    BY <1>14 DEF MatchesCurrent, ClosingTokens, MapStates
  <2>2. p \in Begun("map_start") \cup Begun("map_got_val")
    BY <1>5, <1>6, <2>1
  <2>3. AsObject(j) \in PhrasesOf("values")
    BY <1>9, <1>10, <1>14, <2>2, ObjectCloses
  <2>4. AsObject(j) = Phrase(l, <<>>, <<e.value>>)
    BY <1>11, <1>12, <2>1 DEF AsObject, JsonValue, Node
  <2> QED
    BY <1>2, <2>3, <2>4
<1> QED
  BY <1>13, <1>14 DEF ClosingTokens

(* What a pop uncovers in the state stack goes with the container below.   *)
LEMMA Uncovered ==
  ASSUME Reading, Current \in InnerStates, IsOpen(Popped(ctx))
  PROVE  LET s == Pop(stateStack)[Len(Pop(stateStack))]
         IN  s = Got(Innermost(Popped(ctx)).value.type)
<1>1. PICK n, c : n = Len(stateStack) /\ c = Popped(ctx)
  OBVIOUS
<1>2. /\ n \in Nat /\ n > 1 /\ Len(c.stack) = n - 2
      /\ \A i \in 1 .. n - 2 : MatchesOuter(c.stack[i], stateStack[i + 1])
  BY <1>1, PopUncovers DEF Reading
<1>3. n > 2
  BY <1>1, <1>2 DEF IsOpen
<1>4. MatchesOuter(Innermost(c), stateStack[n - 1])
  <2>1. n - 2 \in 1 .. n - 2 /\ (n - 2) + 1 = n - 1
    BY <1>2, <1>3
  <2>2. MatchesOuter(c.stack[n - 2], stateStack[(n - 2) + 1])
    BY <1>2, <2>1
  <2> QED
    BY <1>2, <2>1, <2>2 DEF Innermost
<1>5. stateStack[n - 1] \in {"map_got_val", "array_got_val"}
  <2>1. n - 1 \in 1 .. n - 1 /\ n - 1 # 1
    BY <1>2, <1>3
  <2> QED
    BY <1>1, <2>1 DEF Reading, StackShape, WellFormed
<1>6. stateStack[n - 1] = Got(Innermost(c).value.type)
  BY <1>4, <1>5 DEF MatchesOuter, MapStates, Got
<1>7. Len(Pop(stateStack)) = n - 1 /\ Pop(stateStack)[n - 1] = stateStack[n - 1]
  BY <1>1, <1>2 DEF Pop, Reading
<1> QED
  BY <1>1, <1>6, <1>7

(* A container closes.                                                     *)
LEMMA EndReads ==
  ASSUME Reading, NEW t \in Lexemes, <<t.tok, Current>> \in ClosingTokens, NEW mem,
         NEW r, r = handle_end(ctx, mem), r.go = TRUE
  PROVE  Reads(r.ctx, consumed \o <<t>>, Pop(stateStack)[Len(Pop(stateStack))])
<1>1. Current \in InnerStates
  BY StateKinds DEF ClosingTokens
<1>2. IsOpen(ctx) /\ MatchesCurrent(Innermost(ctx), Current) /\ ctx.root = NULL
  BY <1>1, InsideContainer DEF Reading
<1>3. PICK c, n, e, A : /\ c = Popped(ctx) /\ n = Len(ctx.stack) /\ e = Innermost(ctx)
                        /\ A = Begun(Current)
  OBVIOUS
<1>4. /\ n \in Nat /\ n > 0 /\ Stacked(c) /\ Len(c.stack) = n - 1 /\ ctx.stack[n] = e
      /\ \A i \in 1 .. n - 1 : c.stack[i] = ctx.stack[i]
      /\ c.root = NULL /\ Ready(c)
  BY <1>1, <1>2, <1>3, PopUncovers DEF Reading, Innermost
<1>5. consumed \in Words /\ Spells(ctx, consumed, A)
  BY <1>2, <1>3 DEF Reading, Reads
<1>6. PICK x, y \in Words :
        /\ consumed = x \o y
        /\ Holder(e) /\ OpenPhrase(y, e) \in A
        /\ Spells(c, x, Waiting(c.stack[n - 1].value.type))
  <2>1. n = Len(ctx.stack)
    BY <1>3
  <2>2. \E x, y \in Words :
          /\ consumed = x \o y
          /\ Holder(ctx.stack[n]) /\ OpenPhrase(y, ctx.stack[n]) \in A
          /\ Spells(c, x, Waiting(c.stack[n - 1].value.type))
    BY <1>4, <1>5, <2>1, TopCloses
  <2> QED
    BY <1>4, <2>2
<1>7. PICK u : u = y \o <<t>>
  OBVIOUS
<1>8. u \in Words /\ x \o u = consumed \o <<t>>
  <2>1. <<t>> \in Words /\ u \in Words
    BY <1>7, OneMore
  <2>2. (x \o y) \o <<t>> = x \o (y \o <<t>>)
    BY <2>1, ConcatAssociative DEF Words
  <2> QED
    BY <1>6, <1>7, <2>1, <2>2
<1>9. PICK v : v = e.value
  OBVIOUS
<1>10. Phrase(u, <<>>, <<v>>) \in PhrasesOf("values")
  BY <1>2, <1>3, <1>6, <1>7, <1>9, ClosedValue
<1>11. r = context_add_value(c, v, mem)
  BY <1>2, <1>3, <1>9 DEF handle_end
<1>12. PICK B : B = Waiting(c.stack[n - 1].value.type)
  OBVIOUS
<1>13. IsOpen(c) => B \subseteq Waiting(Innermost(c).value.type)
  BY <1>4, <1>12 DEF Innermost
<1>14. IF IsOpen(c) THEN Spells(r.ctx, x \o u, Begun(Got(Innermost(c).value.type)))
                    ELSE Phrase(x \o u, <<>>, r.ctx.root) \in PhrasesOf("values")
  <2>1. Spells(c, x, B)
    BY <1>6, <1>12
  <2> QED
    BY <1>4, <1>8, <1>10, <1>11, <1>13, <2>1, ValueAdded
<1>15. Added(c, r.ctx)
  BY <1>2, <1>3, <1>4, EndHandler DEF OutOfMemory, Reading
<1>16. PICK s, w : s = Pop(stateStack)[Len(Pop(stateStack))] /\ w = x \o u
  OBVIOUS
<1>17. IF IsOpen(c) THEN Spells(r.ctx, w, Begun(s))
                    ELSE Phrase(w, <<>>, r.ctx.root) \in PhrasesOf("values")
  BY <1>1, <1>3, <1>14, <1>16, Uncovered
<1>18. Reads(r.ctx, w, s)
  BY <1>4, <1>15, <1>17, ReadsOfAdded
<1> QED
  BY <1>8, <1>16, <1>18


TreeTextInv == TreeInv /\ TextInv /\ TreeText

LEMMA ReadingNow ==
  ASSUME TreeInv, TreeText, ~Failed
  PROVE  Reading
  BY DEF TreeInv, Inv, TypeOK, TreeText, Reading, Words

LEMMA TokenIsRead ==
  ASSUME TreeInv, NEW t \in Lexemes, Lex(t)
  PROVE  consumed' = consumed \o <<t>>
  BY OneMore DEF TreeInv, Inv, TypeOK, Lex, Words

(* The outcome of a callback, and of a separator.                          *)
LEMMA TextAfterCallback ==
  ASSUME TreeInv, NEW t \in Lexemes, Lex(t), NEW r, NEW stack, Callback(r.go, stack),
         ctx' = r.ctx, r.go \in BOOLEAN,
         r.go = TRUE => Reads(r.ctx, consumed \o <<t>>, stack[Len(stack)])
  PROVE  TreeText'
<1>1. CASE r.go = TRUE
  <2>1. stateStack' = stack
    BY <1>1 DEF Callback, GoTo
  <2>2. Reads(ctx', consumed', Current')
    BY <1>1, <2>1, TokenIsRead DEF Current
  <2> QED
    BY <2>2 DEF TreeText, Reads, Spells, Level
<1>2. CASE r.go = FALSE
  <2>1. stateStack' = SetCurrent("parse_error")
    BY <1>2 DEF Callback
  <2>2. Failed'
    BY <2>1, ErrorSet DEF ErrorStates, TreeInv, Inv, TypeOK
  <2> QED
    BY <2>2 DEF TreeText
<1> QED
  BY <1>1, <1>2

LEMMA HandlersAnswer ==
  ASSUME NEW mem
  PROVE  /\ \A type, text : handle_leaf(ctx, type, text, mem).go \in BOOLEAN
         /\ \A type : handle_start(ctx, type, mem).go \in BOOLEAN
         /\ handle_end(ctx, mem).go \in BOOLEAN
<1>1. \A d, message : Continue(d).go \in BOOLEAN /\ Abort(d, message).go \in BOOLEAN
  BY DEF Continue, Abort
<1>2. \A c, v : context_add_value(c, v, mem).go \in BOOLEAN
  <2> SUFFICES ASSUME NEW c, NEW v
               PROVE  context_add_value(c, v, mem).go \in BOOLEAN
    OBVIOUS
  <2> QED
    BY <1>1 DEF context_add_value, object_add_keyval, array_add_value
<1> QED
  BY <1>1, <1>2 DEF handle_leaf, handle_start, handle_end, context_push

LEMMA SetTop ==
  ASSUME Reading, NEW s \in States
  PROVE  SetCurrent(s)[Len(SetCurrent(s))] = s
  BY DEF Reading, StackShape, WellFormed, SetCurrent

LEMMA PushedTop ==
  ASSUME Reading, NEW s \in States, NEW inner \in States
  PROVE  Push(SetCurrent(s), inner)[Len(Push(SetCurrent(s), inner))] = inner
<1>1. SetCurrent(s) \in Seq(States)
  <2>1. \A q \in Seq(States) : Len(q) > 0 => [q EXCEPT ![Len(q)] = s] \in Seq(States)
    OBVIOUS
  <2> QED
    BY <2>1 DEF Reading, StackShape, WellFormed, SetCurrent
<1>2. \A q \in Seq(States) : Append(q, inner)[Len(Append(q, inner))] = inner
  OBVIOUS
<1> QED
  BY <1>1, <1>2 DEF Push

LEMMA BuildReads ==
  ASSUME TreeInv, TreeText, NEW t \in Lexemes, NEW mem, BuildStep(t, mem)
  PROVE  TreeText'
<1>1. Lex(t) /\ ~Failed
  BY DEF BuildStep, BuildLeaf, BuildKey, StartObject, StartArray, EndObject, EndArray,
         Scalar, MapKey, OpenMap, OpenArray, CloseEmptyMap, CloseMap, CloseEmptyArray,
         CloseArray, Failed, ErrorStates, ValueStates, KeyStates
<1>2. Reading
  BY <1>1, ReadingNow
<1>3. CASE BuildLeaf(t, mem)
  <2>1. PICK r, s : r = handle_leaf(ctx, LeafType(t), t.text, mem) /\ s = AfterValue(Current)
    OBVIOUS
  <2>2. /\ Current \in ValueStates /\ t.tok \in ScalarToks
        /\ Callback(r.go, SetCurrent(s)) /\ ctx' = r.ctx
    BY <1>3, <2>1 DEF BuildLeaf, Scalar
  <2>3. s \in States
    BY <2>1 DEF AfterValue, States
  <2>4. PICK stack : stack = SetCurrent(s)
    OBVIOUS
  <2>5. r.go = TRUE => Reads(r.ctx, consumed \o <<t>>, stack[Len(stack)])
    BY <1>2, <2>1, <2>2, <2>3, <2>4, LeafReads, SetTop
  <2>6. r.go \in BOOLEAN
    BY <2>1, HandlersAnswer
  <2> QED
    BY <1>1, <2>2, <2>4, <2>5, <2>6, TextAfterCallback
<1>4. CASE BuildKey(t, mem)
  <2>1. PICK r : r = handle_leaf(ctx, LeafType(t), t.text, mem)
    OBVIOUS
  <2>2. /\ Current \in KeyStates /\ t.tok \in StringToks
        /\ Callback(r.go, SetCurrent("map_sep")) /\ ctx' = r.ctx
    BY <1>4, <2>1 DEF BuildKey, MapKey
  <2>3. "map_sep" \in States
    BY DEF States
  <2>4. PICK stack : stack = SetCurrent("map_sep")
    OBVIOUS
  <2>5. r.go = TRUE => Reads(r.ctx, consumed \o <<t>>, stack[Len(stack)])
    BY <1>2, <2>1, <2>2, <2>3, <2>4, KeyReads, SetTop
  <2>6. r.go \in BOOLEAN
    BY <2>1, HandlersAnswer
  <2> QED
    BY <1>1, <2>2, <2>4, <2>5, <2>6, TextAfterCallback
<1>5. ASSUME NEW type, NEW inner,
             <<t.tok, type, inner>> \in {<<"left_bracket", "object", "map_start">>,
                                         <<"left_brace", "array", "array_start">>},
             Current \in ValueStates,
             NEW r, r = handle_start(ctx, type, mem),
             Callback(r.go, Push(SetCurrent(AfterValue(Current)), inner)), ctx' = r.ctx
      PROVE  TreeText'
  <2>1. PICK s : s = AfterValue(Current)
    OBVIOUS
  <2>2. s \in States /\ inner \in States
    BY <1>5, <2>1 DEF AfterValue, States, ValueStates, KeyStates
  <2>3. PICK stack : stack = Push(SetCurrent(s), inner)
    OBVIOUS
  <2>4. stack[Len(stack)] = inner
    BY <1>2, <2>2, <2>3, PushedTop
  <2>5. ASSUME r.go = TRUE
        PROVE  Reads(r.ctx, consumed \o <<t>>, inner)
    <3>1. Started(ctx, type, r.ctx)
      BY <1>5, <2>5, StartHandler DEF OutOfMemory
    <3> QED
      BY <1>2, <1>5, <3>1, StartReads
  <2>6. r.go \in BOOLEAN
    BY <1>5, HandlersAnswer
  <2>7. Callback(r.go, stack)
    BY <1>5, <2>1, <2>3
  <2> QED
    BY <1>1, <1>5, <2>4, <2>5, <2>6, <2>7, TextAfterCallback
<1>6. CASE StartObject(t, mem)
  BY <1>5, <1>6 DEF StartObject, OpenMap
<1>7. CASE StartArray(t, mem)
  BY <1>5, <1>7 DEF StartArray, OpenArray
<1>8. CASE EndObject(t, mem) \/ EndArray(t, mem)
  <2>1. PICK r, stack : r = handle_end(ctx, mem) /\ stack = Pop(stateStack)
    OBVIOUS
  <2>2. <<t.tok, Current>> \in ClosingTokens /\ Callback(r.go, stack) /\ ctx' = r.ctx
    BY <1>8, <2>1 DEF EndObject, EndArray, CloseEmptyMap, CloseMap, CloseEmptyArray,
                      CloseArray, ClosingTokens
  <2>3. r.go = TRUE => Reads(r.ctx, consumed \o <<t>>, stack[Len(stack)])
    BY <1>2, <2>1, <2>2, EndReads
  <2>4. r.go \in BOOLEAN
    BY <2>1, HandlersAnswer
  <2> QED
    BY <1>1, <2>2, <2>3, <2>4, TextAfterCallback
<1> QED
  BY <1>3, <1>4, <1>6, <1>7, <1>8 DEF BuildStep

LEMMA SilenceReads ==
  ASSUME TreeInv, TreeText, NEW t \in Lexemes, SilentStep(t), UNCHANGED ctx
  PROVE  TreeText'
<1>1. ASSUME NEW s \in ErrorStates, stateStack' = SetCurrent(s)
      PROVE  TreeText'
  BY <1>1, ErrorSet DEF TreeText, TreeInv, Inv, TypeOK
<1>2. ASSUME NEW message, Fail(message)
      PROVE  TreeText'
  BY <1>1, <1>2 DEF Fail, ErrorStates
<1>3. ASSUME NEW s, <<Current, t.tok, s>> \in SeparatorMovesOn, Lex(t), GoTo(SetCurrent(s))
      PROVE  TreeText'
  <2>1. ~Failed /\ s \in States
    BY <1>3 DEF SeparatorMovesOn, Failed, ErrorStates, States, ValueStates, KeyStates
  <2>2. Reading
    BY <2>1, ReadingNow
  <2>3. Reads(ctx, consumed \o <<t>>, s)
    BY <1>3, <2>2, SeparatorReads
  <2>4. Current' = s
    BY <1>3, <2>1, <2>2, SetTop DEF GoTo, Current
  <2>5. Reads(ctx', consumed', Current')
    BY <1>3, <2>3, <2>4, TokenIsRead
  <2> QED
    BY <2>5 DEF TreeText, Reads, Spells, Level
<1>4. CASE MapColon(t) \/ MapComma(t) \/ ArrayComma(t)
  BY <1>3, <1>4 DEF MapColon, MapComma, ArrayComma, SeparatorMovesOn
<1>5. CASE LexicalError(t)
  BY <1>1, <1>5 DEF LexicalError, ErrorStates
<1>6. CASE \/ Overflow(t) \/ UnallowedToken(t) \/ BadKey(t) \/ NoColon(t)
           \/ BadAfterPair(t) \/ BadAfterElement(t) \/ TrailingGarbage(t)
  BY <1>2, <1>6 DEF Overflow, UnallowedToken, BadKey, NoColon, BadAfterPair,
                    BadAfterElement, TrailingGarbage
<1> QED
  BY <1>4, <1>5, <1>6 DEF SilentStep

LEMMA QuietReads ==
  ASSUME TreeText, stateStack' = stateStack, consumed' = consumed, ctx' = ctx
  PROVE  TreeText'
  BY DEF TreeText, Failed, Current, Reads, Spells, Level

LEMMA ApiReads ==
  ASSUME TreeInv, TreeText, ApiStep, UNCHANGED ctx
  PROVE  TreeText'
<1>1. ASSUME stateStack' = stateStack, consumed' = consumed
      PROVE  TreeText'
  BY <1>1, QuietReads
<1>2. ASSUME Fail("premature EOF")
      PROVE  TreeText'
  BY <1>2, ErrorSet DEF Fail, TreeText, ErrorStates, TreeInv, Inv, TypeOK
<1>3. ~NextValue
  BY TreeOptionsAssumption DEF NextValue, TreeInv, Inv, TypeOK
<1>4. CASE Parse \/ CompleteParse \/ Refuse \/ EndChunk
  BY <1>1, <1>4 DEF Parse, CompleteParse, Enter, Refuse, EndChunk, AtChunkEnd
<1>5. CASE Finish
  BY <1>1, <1>2, <1>5 DEF Finish, AtChunkEnd
<1> QED
  BY <1>3, <1>4, <1>5 DEF ApiStep

LEMMA TreeTextInit == TreeInit => TreeText
<1> SUFFICES ASSUME TreeInit
             PROVE  Reads(ctx, consumed, Current)
  BY DEF TreeText
<1>1. ctx.stack = <<>> /\ ctx.root = NULL /\ consumed = <<>>
  BY DEF TreeInit, Init, EmptyContext, Context
<1>2. consumed \in Words /\ Len(ctx.stack) = 0
  BY <1>1 DEF Words
<1>3. Spells(ctx, consumed, Begun(Current))
  BY <1>1, <1>2, NothingOpen
<1> QED
  BY <1>1, <1>3 DEF Reads

LEMMA TreeTextInvNext == TreeTextInv /\ [TreeNext]_treeVars => TreeTextInv'
<1> SUFFICES ASSUME TreeTextInv, [TreeNext]_treeVars
             PROVE  TreeTextInv'
  OBVIOUS
<1>1. TreeInv /\ TextInv /\ TreeText /\ Inv
  BY DEF TreeTextInv, TreeInv
<1>2. TreeInv' /\ TextInv'
  <2>1. [Next]_vars
    BY TreeStepIsParserStep
  <2>2. TreeInv'
    BY <1>1, TreeInvNext
  <2>3. TextInv'
    BY <1>1, <2>1, TextInvNext
  <2> QED
    BY <2>2, <2>3
<1>3. ASSUME ApiStep, UNCHANGED ctx
      PROVE  TreeText'
  BY <1>1, <1>3, ApiReads
<1>4. ASSUME NEW t \in Lexemes, SilentStep(t), UNCHANGED ctx
      PROVE  TreeText'
  BY <1>1, <1>4, SilenceReads
<1>5. ASSUME NEW t \in Lexemes, NEW mem \in Failures, BuildStep(t, mem)
      PROVE  TreeText'
  BY <1>1, <1>5, BuildReads
<1>6. ASSUME UNCHANGED treeVars
      PROVE  TreeText'
  <2>1. stateStack' = stateStack /\ consumed' = consumed /\ ctx' = ctx
    BY <1>6 DEF treeVars
  <2> QED
    BY <1>1, <2>1, QuietReads
<1>7. TreeText'
  <2>1. ASSUME TreeNext
        PROVE  TreeText'
    BY <1>3, <1>4, <1>5, <2>1 DEF TreeNext
  <2> QED
    BY <1>6, <2>1
<1> QED
  BY <1>2, <1>7 DEF TreeTextInv

LEMMA TreeTextStart == TreeInit => TreeTextInv
  BY TreeInvInit, TreeTextInit, TextInvInit DEF TreeInit, TreeTextInv

LEMMA TextGivesTree == TreeTextInv => TreeIsTheText
<1> SUFFICES ASSUME TreeTextInv, Accepted
             PROVE  Denotes(consumed, ctx.root)
  BY DEF TreeIsTheText
<1>1. Current = "parse_complete"
  BY DEF TreeTextInv, TreeInv, Success, Accepted
<1>2. Reading
  BY <1>1, ReadingNow DEF TreeTextInv, Failed, ErrorStates
<1>3. ctx.root # NULL
  <2>1. Current \notin InnerStates \cup ErrorStates
    BY <1>1, StateKinds DEF ErrorStates
  <2>2. Len(stateStack) = 1
    BY <1>2, <2>1 DEF Reading, StackShape, WellFormed, Current
  <2> QED
    BY <1>1, <1>2, <2>2 DEF Reading, InStep
<1>4. PICK p : p = Phrase(consumed, <<>>, ctx.root)
  OBVIOUS
<1>5. PICK n \in Nat \ {0} : p \in RowOf(n)["values"]
  BY <1>2, <1>3, <1>4, InPhrasesOf DEF Reading, Reads
<1>6. n = Len(consumed)
  <2>1. p.text = consumed
    BY <1>4, PartsOfPhrase
  <2>2. consumed \in TextsWith("values", n)
    BY <1>5, <2>1, InTexts DEF TextsWith
  <2> QED
    BY <2>2, TextsSized DEF Sized, Rules
<1>7. n \in 1 .. MaxTokens /\ MaxTokens \in Nat
  BY <1>6, MaxTokensAssumption DEF TreeTextInv, TextInv
<1>8. Phrases[n] = RowOf(n)
  BY <1>7, RowsAre DEF Phrases
<1> QED
  BY <1>4, <1>5, <1>7, <1>8 DEF Denotes

(* When the whole text has been read, the root of the tree is the value    *)
(* that the JSON grammar gives it.                                         *)
THEOREM TreeIsTheTextHolds == TreeSpec => []TreeIsTheText
  BY TreeTextStart, TreeTextInvNext, TextGivesTree, PTL DEF TreeSpec

-----------------------------------------------------------------------------
(* The blocks of trees, level by level.                                    *)

Counts(f, m) ==
  /\ f[0] = <<>>
  /\ \A n \in 1 .. m : f[n] = OneLevelMore(f[n - 1])

LEMMA CountsExist ==
  \A m \in Nat : \E f : Counts(f, m)
<1> DEFINE S == {m \in Nat : \E f : Counts(f, m)}
<1>1. 0 \in S
  <2>1. Counts([k \in {0} |-> <<>>], 0)
    BY DEF Counts
  <2> QED
    BY <2>1
<1>2. ASSUME NEW m \in Nat, m \in S
      PROVE  m + 1 \in S
  <2>1. PICK f : Counts(f, m)
    BY <1>2
  <2> DEFINE level == OneLevelMore(f[m])
             g == [k \in 0 .. m + 1 |-> IF k = m + 1 THEN level ELSE f[k]]
  <2> HIDE DEF level
  <2>2. g[0] = <<>>
    BY <2>1 DEF Counts
  <2>3. ASSUME NEW n \in 1 .. m + 1
        PROVE  g[n] = OneLevelMore(g[n - 1])
    <3>1. n \in 0 .. m + 1 /\ n - 1 \in 0 .. m + 1 /\ n - 1 # m + 1
      OBVIOUS
    <3>2. g[n - 1] = f[n - 1]
      BY <3>1
    <3>3. CASE n = m + 1
      <4>1. n - 1 = m /\ g[n] = level
        BY <3>1, <3>3
      <4> HIDE DEF g
      <4> QED
        BY <3>2, <3>3, <4>1 DEF level
    <3>4. CASE n # m + 1
      <4>1. n \in 1 .. m /\ g[n] = f[n]
        BY <3>1, <3>4
      <4>2. f[n] = OneLevelMore(f[n - 1])
        BY <2>1, <4>1 DEF Counts
      <4> HIDE DEF g
      <4> QED
        BY <3>2, <4>1, <4>2
    <3> QED
      BY <3>3, <3>4
  <2>4. Counts(g, m + 1)
    <3> HIDE DEF g
    <3> QED
      BY <2>2, <2>3 DEF Counts
  <2>5. m + 1 \in Nat
    OBVIOUS
  <2> QED
    BY <2>4, <2>5
<1>3. \A m \in Nat : m \in S
  <2> HIDE DEF S
  <2> QED
    BY <1>1, <1>2, InductionOnNat
<1> QED
  BY <1>3

LEMMA CountsAgree ==
  ASSUME NEW m \in Nat, NEW k \in Nat, NEW f, NEW g, Counts(f, m), Counts(g, k), m <= k
  PROVE  \A n \in 0 .. m : f[n] = g[n]
<1> DEFINE S == {n \in 0 .. m : f[n] = g[n]}
<1>1. 0 \in S
  BY DEF Counts
<1>2. ASSUME NEW n \in 0 .. m - 1, n \in S
      PROVE  n + 1 \in S
  <2>1. n + 1 \in 1 .. m /\ n + 1 \in 1 .. k /\ (n + 1) - 1 = n /\ n + 1 \in 0 .. m
    OBVIOUS
  <2>2. f[n + 1] = OneLevelMore(f[n]) /\ g[n + 1] = OneLevelMore(g[n]) /\ f[n] = g[n]
    BY <1>2, <2>1 DEF Counts
  <2>3. f[n + 1] = g[n + 1]
    BY <2>2, Zenon
  <2> QED
    BY <2>1, <2>3
<1>3. \A n \in 0 .. m : n \in S
  <2> HIDE DEF S
  <2> QED
    BY <1>1, <1>2, InductionUpTo
<1> QED
  BY <1>3

LEMMA LevelsEquation ==
  /\ BlocksByLevels[0] = <<>>
  /\ \A n \in Nat \ {0} : BlocksByLevels[n] = OneLevelMore(BlocksByLevels[n - 1])
<1> DEFINE Equation(f) == f = [n \in Nat |-> IF n = 0 THEN <<>> ELSE OneLevelMore(f[n - 1])]
           Tally(m) == CHOOSE f : Counts(f, m)
           h == [n \in Nat |-> Tally(n)[n]]
<1>1. \A m \in Nat : Counts(Tally(m), m)
  BY CountsExist, Zenon
<1> HIDE DEF Tally
<1>2. h[0] = <<>>
  BY <1>1 DEF Counts
<1>3. ASSUME NEW n \in Nat \ {0}
      PROVE  h[n] = OneLevelMore(h[n - 1])
  <2>1. n - 1 \in Nat /\ n \in Nat /\ n \in 1 .. n /\ n - 1 \in 0 .. n - 1 /\ n - 1 <= n
    OBVIOUS
  <2>2. Tally(n)[n] = OneLevelMore(Tally(n)[n - 1])
    BY <1>1, <2>1 DEF Counts
  <2>3. Tally(n - 1)[n - 1] = Tally(n)[n - 1]
    BY <1>1, <2>1, CountsAgree
  <2>4. h[n] = Tally(n)[n] /\ h[n - 1] = Tally(n - 1)[n - 1]
    BY <2>1
  <2> HIDE DEF h
  <2> QED
    BY <2>2, <2>3, <2>4
<1>4. h = [n \in Nat |-> IF n = 0 THEN <<>> ELSE OneLevelMore(h[n - 1])]
  <2> DEFINE k == [n \in Nat |-> IF n = 0 THEN <<>> ELSE OneLevelMore(h[n - 1])]
  <2>1. \A n \in Nat : h[n] = k[n]
    <3> HIDE DEF h
    <3> QED
      BY <1>2, <1>3
  <2>2. h = [n \in Nat |-> h[n]]
    BY Zenon
  <2> HIDE DEF h
  <2> QED
    BY <2>1, <2>2
<1>5. Equation(CHOOSE f : Equation(f))
  <2>1. Equation(h)
    BY <1>4, Zenon
  <2> HIDE DEF Equation
  <2> QED
    BY <2>1
<1>6. BlocksByLevels = CHOOSE f : Equation(f)
  BY DEF BlocksByLevels
<1>7. BlocksByLevels = [n \in Nat |-> IF n = 0 THEN <<>> ELSE OneLevelMore(BlocksByLevels[n - 1])]
  <2> HIDE DEF h
  <2> QED
    BY <1>5, <1>6, Zenon
<1> QED
  BY <1>7

-----------------------------------------------------------------------------
(* Sums.                                                                   *)

\* f has the sums of the beginnings of ns.
Adds(f, ns) ==
  /\ f \in [0 .. Len(ns) -> Nat]
  /\ f[0] = 0
  /\ \A i \in 1 .. Len(ns) : f[i] = f[i - 1] + ns[i]

LEMMA TotalIsSum ==
  ASSUME NEW ns \in Seq(Nat)
  PROVE  \E f : Adds(f, ns) /\ Total(ns) = f[Len(ns)]
<1> DEFINE N == Len(ns)
           Equation(s) == s = [i \in 0 .. N |-> IF i = 0 THEN 0 ELSE s[i - 1] + ns[i]]
           F == [p \in (1 .. N) \X Nat |-> p[2] + ns[p[1]]]
<1>1. N \in Nat /\ \A i \in 1 .. N : ns[i] \in Nat
  OBVIOUS
<1>2. F \in [(1 .. N) \X Nat -> Nat]
  BY <1>1
<1>3. PICK f \in [0 .. N -> Nat] : Iterates(f, N, 0, F)
  <2> HIDE DEF F
  <2> QED
    BY <1>1, <1>2, IterationExists
<1>4. ASSUME NEW i \in 1 .. N
      PROVE  f[i] = f[i - 1] + ns[i]
  <2>0. i - 1 \in 0 .. N
    BY <1>1
  <2>1. f[i - 1] \in Nat /\ <<i, f[i - 1]>> \in (1 .. N) \X Nat
    BY <2>0
  <2>2. f[i] = F[<<i, f[i - 1]>>]
    BY <1>3 DEF Iterates
  <2> QED
    BY <2>1, <2>2
<1>5. f[0] = 0
  BY <1>3 DEF Iterates
<1>6. Equation(f)
  <2> DEFINE k == [i \in 0 .. N |-> IF i = 0 THEN 0 ELSE f[i - 1] + ns[i]]
  <2>1. \A i \in 0 .. N : f[i] = k[i]
    BY <1>1, <1>4, <1>5
  <2>2. f = [i \in 0 .. N |-> f[i]]
    OBVIOUS
  <2> QED
    BY <2>1, <2>2
<1>7. PICK s : s = CHOOSE r : Equation(r)
  OBVIOUS
<1>8. Equation(s)
  <2> HIDE DEF Equation
  <2> QED
    BY <1>6, <1>7
<1>9. Total(ns) = s[N]
  BY <1>7 DEF Total
<1>10. s \in [0 .. N -> Nat] /\ s[0] = 0 /\ \A i \in 1 .. N : s[i] = s[i - 1] + ns[i]
  <2>0. \A i \in 0 .. N : s[i] = IF i = 0 THEN 0 ELSE s[i - 1] + ns[i]
    BY <1>8, Zenon
  <2>1. s[0] = 0 /\ \A i \in 1 .. N : s[i] = s[i - 1] + ns[i]
    <3> HIDE DEF Equation
    <3>1. 0 \in 0 .. N /\ \A i \in 1 .. N : i \in 0 .. N /\ i # 0
      BY <1>1
    <3> QED
      BY <2>0, <3>1
  <2>2. ASSUME NEW i \in 1 .. N, s[i - 1] \in Nat
        PROVE  s[i] \in Nat
    <3> HIDE DEF N, Equation, F
    <3>1. s[i] = s[i - 1] + ns[i] /\ ns[i] \in Nat
      BY <1>1, <2>1
    <3> QED
      BY <2>2, <3>1
  <2>3. \A i \in 0 .. N : s[i] \in Nat
    <3>1. s[0] \in Nat
      BY <2>1
    <3> HIDE DEF Equation, N
    <3> QED
      BY <1>1, <2>2, <3>1, IterationTyped
  <2>4. s = [i \in 0 .. N |-> s[i]]
    BY <1>8, Zenon
  <2> QED
    BY <2>1, <2>3, <2>4
<1> QED
  BY <1>9, <1>10 DEF Adds

LEMMA TotalOfNone == Total(<<>>) = 0
<1>1. <<>> \in Seq(Nat) /\ Len(<<>>) = 0
  OBVIOUS
<1>2. PICK f : Adds(f, <<>>) /\ Total(<<>>) = f[Len(<<>>)]
  BY <1>1, TotalIsSum
<1> QED
  BY <1>1, <1>2 DEF Adds

LEMMA TotalIsNatural ==
  ASSUME NEW ns \in Seq(Nat)
  PROVE  Total(ns) \in Nat
<1>1. PICK f : Adds(f, ns) /\ Total(ns) = f[Len(ns)]
  BY TotalIsSum
<1> QED
  BY <1>1 DEF Adds

\* ns is ms and one more number.
LEMMA TotalOfOneMore ==
  ASSUME NEW ms \in Seq(Nat), NEW ns \in Seq(Nat), Len(ns) = Len(ms) + 1,
         \A i \in 1 .. Len(ms) : ns[i] = ms[i]
  PROVE  Total(ns) = Total(ms) + ns[Len(ns)]
<1>1. PICK f : Adds(f, ms) /\ Total(ms) = f[Len(ms)]
  BY TotalIsSum
<1>2. PICK g : Adds(g, ns) /\ Total(ns) = g[Len(ns)]
  BY TotalIsSum
<1>3. PICK N \in Nat : N = Len(ms) /\ Len(ns) = N + 1
  OBVIOUS
<1> DEFINE S == {i \in 0 .. N : f[i] = g[i]}
<1>4. 0 \in S
  BY <1>1, <1>2, <1>3 DEF Adds
<1>5. ASSUME NEW i \in 0 .. N - 1, i \in S
      PROVE  i + 1 \in S
  <2>1. i + 1 \in 1 .. N /\ i + 1 \in 1 .. Len(ns) /\ i + 1 \in 1 .. Len(ms) /\ (i + 1) - 1 = i
    BY <1>3
  <2>2. f[i + 1] = f[i] + ms[i + 1] /\ g[i + 1] = g[i] + ns[i + 1] /\ ns[i + 1] = ms[i + 1]
    BY <1>1, <1>2, <2>1 DEF Adds
  <2> QED
    BY <1>5, <2>1, <2>2
<1>6. \A i \in 0 .. N : i \in S
  <2> HIDE DEF S
  <2> QED
    BY <1>4, <1>5, InductionUpTo
<1>7. f[N] = g[N]
  BY <1>6
<1>8. g[N + 1] = g[N] + ns[N + 1]
  <2>1. N + 1 \in 1 .. Len(ns) /\ (N + 1) - 1 = N
    BY <1>3
  <2> QED
    BY <1>2, <2>1 DEF Adds
<1> QED
  BY <1>1, <1>2, <1>3, <1>7, <1>8

-----------------------------------------------------------------------------
(* Trees of at most n levels.                                              *)

TreesOf(n) == DOMAIN BlocksByLevels[n]

LEMMA LevelsStart ==
  /\ TreesOf(0) = {}
  /\ \A n \in Nat : /\ TreesOf(n + 1) = Trees(TreesOf(n))
                    /\ BlocksByLevels[n + 1] = OneLevelMore(BlocksByLevels[n])
<1>1. TreesOf(0) = {}
  BY LevelsEquation DEF TreesOf
<1>2. ASSUME NEW n \in Nat
      PROVE  /\ TreesOf(n + 1) = Trees(TreesOf(n))
             /\ BlocksByLevels[n + 1] = OneLevelMore(BlocksByLevels[n])
  <2>1. n + 1 \in Nat \ {0} /\ (n + 1) - 1 = n
    OBVIOUS
  <2>2. BlocksByLevels[n + 1] = OneLevelMore(BlocksByLevels[n])
    BY <2>1, LevelsEquation
  <2> QED
    BY <2>2 DEF TreesOf, OneLevelMore
<1> QED
  BY <1>1, <1>2

LEMMA PartsOfTree ==
  ASSUME NEW T, NEW v \in Trees(T)
  PROVE  /\ v.type \in Types /\ v.text \in Texts \cup {""}
         /\ v.keys \in Seq(Texts) /\ v.values \in Seq(T)
         /\ v = Node(v.type, v.text, v.keys, v.values)
  BY DEF Trees, Node

LEMMA NodeIsTree ==
  ASSUME NEW T, NEW type \in Types, NEW text \in Texts \cup {""},
         NEW keys \in Seq(Texts), NEW values \in Seq(T)
  PROVE  Node(type, text, keys, values) \in Trees(T)
  BY DEF Trees, Node

LEMMA NodeCounts ==
  ASSUME NEW T, NEW v \in Trees(T)
  PROVE  BlocksOfNode(v) \in Nat
<1>1. v.keys \in Seq(Texts)
  BY PartsOfTree
<1>2. Len(v.keys) \in Nat
  BY <1>1
<1>3. BlocksOfLeaf(v.type) \in Nat
  BY DEF BlocksOfLeaf
<1>4. (IF v.values = <<>> THEN 0 ELSE IF v.type = "object" THEN 2 ELSE 1) \in Nat
  OBVIOUS
<1> HIDE DEF Trees
<1> QED
  BY <1>2, <1>3, <1>4 DEF BlocksOfNode

LEMMA LevelCounts ==
  ASSUME NEW n \in Nat, NEW v \in TreesOf(n + 1)
  PROVE  /\ v \in Trees(TreesOf(n))
         /\ BlocksByLevels[n + 1][v] =
              BlocksOfNode(v) + Total([i \in 1 .. Len(v.values) |-> BlocksByLevels[n][v.values[i]]])
  BY LevelsStart DEF OneLevelMore, TreesOf

LEMMA BlocksNatural ==
  \A n \in Nat : \A v \in TreesOf(n) : BlocksByLevels[n][v] \in Nat
<1> DEFINE S == {n \in Nat : \A v \in TreesOf(n) : BlocksByLevels[n][v] \in Nat}
<1>1. 0 \in S
  BY LevelsStart
<1>2. ASSUME NEW n \in Nat, n \in S
      PROVE  n + 1 \in S
  <2>1. ASSUME NEW v \in TreesOf(n + 1)
        PROVE  BlocksByLevels[n + 1][v] \in Nat
    <3>1. PICK ns : ns = [i \in 1 .. Len(v.values) |-> BlocksByLevels[n][v.values[i]]]
      OBVIOUS
    <3>2. v \in Trees(TreesOf(n)) /\ BlocksByLevels[n + 1][v] = BlocksOfNode(v) + Total(ns)
      BY <3>1, LevelCounts
    <3>3. v.values \in Seq(TreesOf(n))
      BY <3>2, PartsOfTree
    <3>4. ns \in Seq(Nat)
      <4>1. \A i \in 1 .. Len(v.values) : v.values[i] \in TreesOf(n)
        BY <3>3
      <4>2. \A i \in 1 .. Len(v.values) : BlocksByLevels[n][v.values[i]] \in Nat
        BY <1>2, <4>1
      <4> QED
        BY <3>1, <3>3, <4>2
    <3> QED
      BY <3>2, <3>4, NodeCounts, TotalIsNatural
  <2> QED
    BY <2>1
<1>3. \A n \in Nat : n \in S
  <2> HIDE DEF S
  <2> QED
    BY <1>1, <1>2, InductionOnNat
<1> QED
  BY <1>3

(* A level more adds trees, and counts those it had as before.             *)
Contained(m, n) ==
  \A v \in TreesOf(m) : v \in TreesOf(n) /\ BlocksByLevels[n][v] = BlocksByLevels[m][v]

LEMMA OneLevelContained == \A n \in Nat : Contained(n, n + 1)
<1> DEFINE S == {n \in Nat : Contained(n, n + 1)}
<1>1. 0 \in S
  BY LevelsStart DEF Contained
<1>2. ASSUME NEW n \in Nat, n \in S
      PROVE  n + 1 \in S
  <2>1. ASSUME NEW v \in TreesOf(n + 1)
        PROVE  /\ v \in TreesOf(n + 1 + 1)
               /\ BlocksByLevels[n + 1 + 1][v] = BlocksByLevels[n + 1][v]
    <3>1. v \in Trees(TreesOf(n))
      BY LevelCounts
    <3>0. v.values \in Seq(TreesOf(n))
      BY <3>1, PartsOfTree
    <3>2. \A i \in 1 .. Len(v.values) : v.values[i] \in TreesOf(n)
      BY <3>0
    <3>3. \A w \in TreesOf(n) : w \in TreesOf(n + 1) /\ BlocksByLevels[n + 1][w] = BlocksByLevels[n][w]
      BY <1>2 DEF Contained
    <3>4. v.values \in Seq(TreesOf(n + 1))
      BY <3>0, <3>3
    <3>5. v \in Trees(TreesOf(n + 1))
      <4>1. v.type \in Types /\ v.text \in Texts \cup {""} /\ v.keys \in Seq(Texts)
        BY <3>1, PartsOfTree
      <4>2. v = Node(v.type, v.text, v.keys, v.values)
        BY <3>1, PartsOfTree
      <4>3. Node(v.type, v.text, v.keys, v.values) \in Trees(TreesOf(n + 1))
        BY <3>4, <4>1, NodeIsTree
      <4> QED
        BY <4>2, <4>3
    <3>6. n + 1 \in Nat
      OBVIOUS
    <3>7. v \in TreesOf(n + 1 + 1)
      BY <3>5, <3>6, LevelsStart
    <3>8. [i \in 1 .. Len(v.values) |-> BlocksByLevels[n + 1][v.values[i]]] =
            [i \in 1 .. Len(v.values) |-> BlocksByLevels[n][v.values[i]]]
      BY <3>2, <3>3
    <3>9. BlocksByLevels[n + 1][v] =
            BlocksOfNode(v) + Total([i \in 1 .. Len(v.values) |-> BlocksByLevels[n][v.values[i]]])
      BY LevelCounts
    <3>10. BlocksByLevels[n + 1 + 1][v] =
             BlocksOfNode(v) + Total([i \in 1 .. Len(v.values) |-> BlocksByLevels[n + 1][v.values[i]]])
      BY <3>6, <3>7, LevelCounts
    <3> QED
      BY <3>7, <3>8, <3>9, <3>10
  <2> QED
    BY <2>1 DEF Contained
<1>3. \A n \in Nat : n \in S
  <2> HIDE DEF S
  <2> QED
    BY <1>1, <1>2, InductionOnNat
<1> QED
  BY <1>3

LEMMA LevelsContained ==
  ASSUME NEW m \in Nat, NEW n \in Nat, m <= n
  PROVE  Contained(m, n)
<1> DEFINE S == {k \in Nat : Contained(m, m + k)}
<1>1. 0 \in S
  BY DEF Contained
<1>2. ASSUME NEW k \in Nat, k \in S
      PROVE  k + 1 \in S
  <2>1. Contained(m + k, (m + k) + 1) /\ (m + k) + 1 = m + (k + 1)
    BY OneLevelContained
  <2> QED
    BY <1>2, <2>1 DEF Contained
<1>3. \A k \in Nat : k \in S
  <2> HIDE DEF S
  <2> QED
    BY <1>1, <1>2, InductionOnNat
<1>4. n - m \in S /\ m + (n - m) = n
  BY <1>3
<1> QED
  BY <1>4

-----------------------------------------------------------------------------
(* The blocks of trees that fit in a text.                                 *)

LEMMA TokensNatural == MaxTokens \in Nat
  BY MaxTokensAssumption

LEMMA DeeperTrees ==
  ASSUME NEW m \in Nat, NEW n \in Nat, m <= n, NEW v \in TreesOf(m)
  PROVE  v \in TreesOf(n)
  BY LevelsContained DEF Contained

LEMMA DeeperSequences ==
  ASSUME NEW m \in Nat, NEW n \in Nat, m <= n, NEW vs \in Seq(TreesOf(m))
  PROVE  vs \in Seq(TreesOf(n))
<1>1. \A v \in TreesOf(m) : v \in TreesOf(n)
  BY DeeperTrees
<1> QED
  BY <1>1

LEMMA AllMapped ==
  ASSUME NEW vs \in Seq(TreesOf(MaxTokens))
  PROVE  [i \in 1 .. Len(vs) |-> Blocks(vs[i])] \in Seq(Nat)
<1>1. \A i \in 1 .. Len(vs) : Blocks(vs[i]) \in Nat
  BY BlocksNatural, TokensNatural DEF Blocks
<1> QED
  BY <1>1

LEMMA BlocksOfTree ==
  ASSUME NEW n \in 0 .. MaxTokens, NEW v \in TreesOf(n)
  PROVE  /\ n > 0
         /\ v.type \in Types /\ v.keys \in Seq(Texts)
         /\ v.values \in Seq(TreesOf(n - 1)) /\ v.values \in Seq(TreesOf(MaxTokens))
         /\ v \in TreesOf(MaxTokens)
         /\ BlocksOfNode(v) \in Nat
         /\ Blocks(v) \in Nat
         /\ Blocks(v) = BlocksOfNode(v) + BlocksOfAll(v.values)
<1>1. n > 0 /\ n - 1 \in Nat /\ (n - 1) + 1 = n /\ n <= MaxTokens
  <2>1. n # 0
    BY LevelsStart
  <2> QED
    BY <2>1, TokensNatural
<1>2. PICK m \in Nat : MaxTokens = m + 1 /\ n - 1 <= m
  <2>1. MaxTokens - 1 \in Nat /\ MaxTokens = (MaxTokens - 1) + 1 /\ n - 1 <= MaxTokens - 1
    BY <1>1, TokensNatural
  <2> QED
    BY <2>1
<1>3. v \in Trees(TreesOf(n - 1))
  BY <1>1, LevelCounts
<1>4. v.type \in Types /\ v.keys \in Seq(Texts) /\ v.values \in Seq(TreesOf(n - 1))
  BY <1>3, PartsOfTree
<1>5. BlocksOfNode(v) \in Nat
  BY <1>3, NodeCounts
<1>6. v \in TreesOf(MaxTokens)
  BY <1>1, TokensNatural, DeeperTrees
<1>7. v.values \in Seq(TreesOf(m)) /\ v.values \in Seq(TreesOf(MaxTokens))
  BY <1>1, <1>2, <1>4, TokensNatural, DeeperSequences
<1>8. BlocksByLevels[m + 1][v] =
        BlocksOfNode(v) + Total([i \in 1 .. Len(v.values) |-> BlocksByLevels[m][v.values[i]]])
  BY <1>2, <1>6, LevelCounts
<1>9. \A i \in 1 .. Len(v.values) : BlocksByLevels[m][v.values[i]] = BlocksByLevels[m + 1][v.values[i]]
  <2>1. Contained(m, m + 1)
    BY OneLevelContained
  <2>2. \A i \in 1 .. Len(v.values) : v.values[i] \in TreesOf(m)
    BY <1>7
  <2> QED
    BY <2>1, <2>2 DEF Contained
<1>10. [i \in 1 .. Len(v.values) |-> BlocksByLevels[m][v.values[i]]] =
         [i \in 1 .. Len(v.values) |-> Blocks(v.values[i])]
  BY <1>2, <1>9 DEF Blocks
<1>11. Blocks(v) = BlocksOfNode(v) + BlocksOfAll(v.values)
  BY <1>2, <1>8, <1>10 DEF Blocks, BlocksOfAll
<1>12. Blocks(v) \in Nat
  BY <1>6, BlocksNatural, TokensNatural DEF Blocks
<1> QED
  BY <1>1, <1>4, <1>5, <1>6, <1>7, <1>11, <1>12

LEMMA TreeOfNode ==
  ASSUME NEW n \in Nat, NEW type \in Types, NEW text \in Texts \cup {""},
         NEW keys \in Seq(Texts), NEW values \in Seq(TreesOf(n))
  PROVE  Node(type, text, keys, values) \in TreesOf(n + 1)
<1>1. Node(type, text, keys, values) \in Trees(TreesOf(n))
  BY NodeIsTree
<1> QED
  BY <1>1, LevelsStart

LEMMA BlocksOfNone == BlocksOfAll(<<>>) = 0
<1>1. [i \in 1 .. Len(<<>>) |-> Blocks(<<>>[i])] = <<>>
  OBVIOUS
<1> QED
  BY <1>1, TotalOfNone DEF BlocksOfAll

LEMMA AllOfOneMore ==
  ASSUME NEW vs \in Seq(TreesOf(MaxTokens)), NEW v \in TreesOf(MaxTokens)
  PROVE  /\ BlocksOfAll(vs) \in Nat
         /\ BlocksOfAll(Append(vs, v)) = BlocksOfAll(vs) + Blocks(v)
<1>1. PICK ws : ws = Append(vs, v)
  OBVIOUS
<1>2. /\ ws \in Seq(TreesOf(MaxTokens)) /\ Len(ws) = Len(vs) + 1 /\ ws[Len(ws)] = v
      /\ \A i \in 1 .. Len(vs) : ws[i] = vs[i]
  BY <1>1
<1>3. PICK ms, ns : /\ ms = [i \in 1 .. Len(vs) |-> Blocks(vs[i])]
                    /\ ns = [i \in 1 .. Len(ws) |-> Blocks(ws[i])]
  OBVIOUS
<1>4. ms \in Seq(Nat) /\ ns \in Seq(Nat)
  BY <1>2, <1>3, AllMapped
<1>5. Len(ms) = Len(vs) /\ Len(ns) = Len(ws) /\ Len(ns) = Len(ms) + 1 /\ Len(vs) \in Nat
  BY <1>2, <1>3
<1>6. ns[Len(ns)] = Blocks(v) /\ \A i \in 1 .. Len(ms) : ns[i] = ms[i]
  BY <1>2, <1>3, <1>5
<1>7. Total(ns) = Total(ms) + Blocks(v) /\ Total(ms) \in Nat
  BY <1>4, <1>5, <1>6, TotalOfOneMore, TotalIsNatural
<1> QED
  BY <1>1, <1>3, <1>7 DEF BlocksOfAll

LEMMA BlocksOfOne ==
  ASSUME NEW v \in TreesOf(MaxTokens)
  PROVE  BlocksOfAll(Ref(v)) = Blocks(v)
<1>1. <<>> \in Seq(TreesOf(MaxTokens)) /\ Ref(v) = Append(<<>>, v)
  BY DEF Ref
<1>2. BlocksOfAll(Append(<<>>, v)) = BlocksOfAll(<<>>) + Blocks(v)
  BY <1>1, AllOfOneMore
<1>3. Blocks(v) \in Nat
  BY BlocksNatural, TokensNatural DEF Blocks
<1> QED
  BY <1>1, <1>2, <1>3, BlocksOfNone

(* w is u with a child more, and the given keys.                           *)
WithChild(u, v, keys, w) == w = Node(u.type, "", keys, Append(u.values, v))

LEMMA ChildAdded ==
  ASSUME NEW n \in 1 .. MaxTokens - 1, NEW u \in TreesOf(n), NEW v \in TreesOf(n),
         NEW keys \in Seq(Texts), NEW w, WithChild(u, v, keys, w)
  PROVE  /\ w \in TreesOf(n + 1)
         /\ Blocks(u) \in Nat /\ Blocks(v) \in Nat /\ Blocks(w) \in Nat
         /\ BlocksOfNode(u) \in Nat /\ BlocksOfNode(w) \in Nat
         /\ Blocks(w) = Blocks(u) + Blocks(v) + BlocksOfNode(w) - BlocksOfNode(u)
<1>1. n \in 0 .. MaxTokens /\ n + 1 \in 0 .. MaxTokens /\ n - 1 \in Nat /\ n \in Nat /\ n - 1 <= n
  <2>1. PICK m \in Nat : m = MaxTokens
    BY TokensNatural
  <2> QED
    BY <2>1
<1>2. /\ u.type \in Types /\ u.values \in Seq(TreesOf(n - 1)) /\ u.values \in Seq(TreesOf(MaxTokens))
      /\ BlocksOfNode(u) \in Nat /\ Blocks(u) \in Nat
      /\ Blocks(u) = BlocksOfNode(u) + BlocksOfAll(u.values)
  BY <1>1, BlocksOfTree
<1>3. Blocks(v) \in Nat /\ v \in TreesOf(MaxTokens)
  BY <1>1, BlocksOfTree
<1>4. PICK vs : vs = Append(u.values, v)
  OBVIOUS
<1>5. vs \in Seq(TreesOf(n))
  <2>1. u.values \in Seq(TreesOf(n))
    BY <1>1, <1>2, DeeperSequences
  <2>2. PICK T : T = TreesOf(n)
    OBVIOUS
  <2>3. \A s \in Seq(T) : Append(s, v) \in Seq(T)
    BY <2>2
  <2> QED
    BY <1>4, <2>1, <2>2, <2>3
<1>6. w \in TreesOf(n + 1)
  <2>1. w = Node(u.type, "", keys, vs)
    BY <1>4, Zenon DEF WithChild
  <2>2. Node(u.type, "", keys, vs) \in TreesOf(n + 1)
    BY <1>1, <1>2, <1>5, TreeOfNode
  <2> QED
    BY <2>1, <2>2, Zenon
<1>7. w.values = vs
  BY <1>4 DEF Node, WithChild
<1>8. /\ BlocksOfNode(w) \in Nat /\ Blocks(w) \in Nat
      /\ Blocks(w) = BlocksOfNode(w) + BlocksOfAll(w.values)
  BY <1>1, <1>6, BlocksOfTree
<1>9. BlocksOfAll(vs) = BlocksOfAll(u.values) + Blocks(v) /\ BlocksOfAll(u.values) \in Nat
  BY <1>2, <1>3, <1>4, AllOfOneMore
<1>10. PICK a, b, c, d, e, f : /\ a = BlocksOfNode(u) /\ b = BlocksOfAll(u.values) /\ c = Blocks(v)
                               /\ d = BlocksOfNode(w) /\ e = Blocks(u) /\ f = Blocks(w)
  OBVIOUS
<1>11. /\ a \in Nat /\ b \in Nat /\ c \in Nat /\ d \in Nat
       /\ e = a + b /\ f = d + (b + c)
  BY <1>2, <1>3, <1>7, <1>8, <1>9, <1>10
<1>12. f = e + c + d - a
  BY <1>11
<1> QED
  BY <1>2, <1>3, <1>6, <1>8, <1>10, <1>12

-----------------------------------------------------------------------------
(* The blocks of a stack.                                                  *)

Counted(stack) ==
  Sequence(stack) /\ \A i \in 1 .. Len(stack) : BlocksOfElem(stack[i]) \in Nat

LEMMA StackMapped ==
  ASSUME NEW s, Counted(s)
  PROVE  /\ [i \in 1 .. Len(s) |-> BlocksOfElem(s[i])] \in Seq(Nat)
         /\ BlocksOfStack(s) \in Nat
<1>1. PICK S : s \in Seq(S)
  BY DEF Counted, Sequence
<1>2. PICK ns : ns = [i \in 1 .. Len(s) |-> BlocksOfElem(s[i])]
  OBVIOUS
<1>3. ns \in Seq(Nat)
  BY <1>1, <1>2 DEF Counted
<1>4. Total(ns) \in Nat
  BY <1>3, TotalIsNatural
<1> QED
  BY <1>2, <1>3, <1>4 DEF BlocksOfStack

LEMMA StackOfOneMore ==
  ASSUME NEW s, NEW r, Counted(s), Counted(r), Len(r) = Len(s) + 1,
         \A i \in 1 .. Len(s) : r[i] = s[i]
  PROVE  BlocksOfStack(r) = BlocksOfStack(s) + BlocksOfElem(r[Len(r)])
<1>1. PICK ms, ns : /\ ms = [i \in 1 .. Len(s) |-> BlocksOfElem(s[i])]
                    /\ ns = [i \in 1 .. Len(r) |-> BlocksOfElem(r[i])]
  OBVIOUS
<1>2. ms \in Seq(Nat) /\ ns \in Seq(Nat)
  BY <1>1, StackMapped
<1>3. Len(s) \in Nat /\ Len(r) \in Nat
  BY DEF Counted, Sequence
<1>4. Len(ms) = Len(s) /\ Len(ns) = Len(r)
  BY <1>1, <1>3
<1>5. ns[Len(ns)] = BlocksOfElem(r[Len(r)]) /\ \A i \in 1 .. Len(ms) : ns[i] = ms[i]
  BY <1>1, <1>3, <1>4
<1>6. Total(ns) = Total(ms) + ns[Len(ns)]
  BY <1>2, <1>4, <1>5, TotalOfOneMore
<1> QED
  BY <1>1, <1>5, <1>6 DEF BlocksOfStack

LEMMA CountedBelow ==
  ASSUME NEW s, Counted(s), Len(s) > 0, NEW below, below = SubSeq(s, 1, Len(s) - 1)
  PROVE  /\ Counted(below)
         /\ Len(below) \in Nat /\ Len(s) = Len(below) + 1
         /\ \A i \in 1 .. Len(below) : s[i] = below[i]
         /\ BlocksOfStack(s) = BlocksOfStack(below) + BlocksOfElem(s[Len(s)])
<1>1. PICK S : s \in Seq(S)
  BY DEF Counted, Sequence
<1>2. /\ below \in Seq(S) /\ Len(below) = Len(s) - 1 /\ Len(below) \in Nat
      /\ \A i \in 1 .. Len(below) : s[i] = below[i]
  <2>1. PICK m \in Nat : Len(s) = m + 1
    <3>1. Len(s) - 1 \in Nat /\ Len(s) = (Len(s) - 1) + 1
      BY <1>1
    <3> QED
      BY <3>1
  <2>2. below = SubSeq(s, 1, m)
    BY <2>1
  <2> QED
    BY <1>1, <2>1, <2>2
<1>3. Len(s) = Len(below) + 1
  BY <1>1, <1>2
<1>4. Counted(below)
  <2>1. Sequence(below)
    BY <1>2 DEF Sequence
  <2>2. \A i \in 1 .. Len(below) : BlocksOfElem(below[i]) \in Nat
    <3>1. \A i \in 1 .. Len(below) : i \in 1 .. Len(s)
      BY <1>2, <1>3
    <3> QED
      BY <1>2, <3>1 DEF Counted
  <2> QED
    BY <2>1, <2>2 DEF Counted
<1> QED
  BY <1>2, <1>3, <1>4, StackOfOneMore

(* Two stacks that differ at the top.                                      *)
LEMMA StackTop ==
  ASSUME NEW s, NEW r, Counted(s), Counted(r), Len(s) > 0, Len(r) = Len(s),
         \A i \in 1 .. Len(s) - 1 : r[i] = s[i]
  PROVE  \E b \in Nat : /\ BlocksOfStack(s) = b + BlocksOfElem(s[Len(s)])
                        /\ BlocksOfStack(r) = b + BlocksOfElem(r[Len(r)])
<1>1. PICK below : below = SubSeq(s, 1, Len(s) - 1)
  OBVIOUS
<1>2. /\ Counted(below)
      /\ Len(below) \in Nat /\ Len(s) = Len(below) + 1
      /\ \A i \in 1 .. Len(below) : s[i] = below[i]
      /\ BlocksOfStack(s) = BlocksOfStack(below) + BlocksOfElem(s[Len(s)])
  BY <1>1, CountedBelow
<1>3. \A i \in 1 .. Len(below) : r[i] = below[i]
  <2>1. \A i \in 1 .. Len(below) : i \in 1 .. Len(s) - 1
    BY <1>2
  <2> QED
    BY <1>2, <2>1
<1>4. BlocksOfStack(r) = BlocksOfStack(below) + BlocksOfElem(r[Len(r)])
  BY <1>2, <1>3, StackOfOneMore
<1>5. BlocksOfStack(below) \in Nat
  BY <1>2, StackMapped
<1> QED
  BY <1>2, <1>4, <1>5

-----------------------------------------------------------------------------
(* The contexts that the parser makes.                                     *)

\* An open container of at most n levels, with the key it has read, if any.
Owned(e, n) ==
  /\ e.value \in TreesOf(n)
  /\ \/ e.value.type = "array" /\ e.value.keys = <<>>
     \/ e.value.type = "object" /\ Len(e.value.keys) = Len(e.value.values)
  /\ e.key = NULL \/ \E k \in Texts : e.key = Ref(k)

(* After n tokens.  A container that is nested in others has fewer levels, *)
(* so what is in it can be added to what is around it.                     *)
Levelled(c, n) ==
  /\ Sequence(c.stack)
  /\ Len(c.stack) <= n
  /\ \A i \in 1 .. Len(c.stack) : Owned(c.stack[i], n - i + 1)
  /\ c.root = NULL \/ \E v \in TreesOf(n) : c.root = Ref(v)

LEMMA OwnedBlocks ==
  ASSUME NEW n \in 0 .. MaxTokens, NEW e, Owned(e, n)
  PROVE  BlocksOfElem(e) \in Nat /\ n > 0
<1>1. Blocks(e.value) \in Nat /\ n > 0
  BY BlocksOfTree DEF Owned
<1>2. Len(e.key) \in Nat
  BY DEF Owned, NULL, Ref
<1> QED
  BY <1>1, <1>2 DEF BlocksOfElem

LEMMA OwnedDeeper ==
  ASSUME NEW m \in Nat, NEW n \in Nat, m <= n, NEW e, Owned(e, m)
  PROVE  Owned(e, n)
  BY DeeperTrees DEF Owned

LEMMA LevelledCounts ==
  ASSUME NEW n \in 0 .. MaxTokens, NEW c, Levelled(c, n)
  PROVE  /\ Counted(c.stack)
         /\ Len(c.stack) \in Nat
         /\ Stacked(c)
         /\ BlocksOfStack(c.stack) \in Nat
         /\ BlocksOfAll(c.root) \in Nat
         /\ Reachable(c) \in Nat
<1>1. PICK S : c.stack \in Seq(S)
  BY DEF Levelled, Sequence
<1>2. PICK k \in Nat : k = Len(c.stack)
  BY <1>1
<1>3. PICK M \in Nat : M = MaxTokens
  BY TokensNatural
<1>4. ASSUME NEW i \in 1 .. k
      PROVE  BlocksOfElem(c.stack[i]) \in Nat
  <2>1. Owned(c.stack[i], n - i + 1)
    BY <1>2 DEF Levelled
  <2>2. n - i + 1 \in 0 .. MaxTokens
    <3>1. k <= n
      BY <1>2 DEF Levelled
    <3> QED
      BY <1>3, <3>1
  <2> QED
    BY <2>1, <2>2, OwnedBlocks
<1>5. Counted(c.stack)
  BY <1>2, <1>4 DEF Counted, Levelled
<1>6. BlocksOfStack(c.stack) \in Nat
  BY <1>5, StackMapped
<1>7. BlocksOfAll(c.root) \in Nat
  <2>1. CASE c.root = NULL
    BY <2>1, BlocksOfNone DEF NULL
  <2>2. CASE c.root # NULL
    <3>1. PICK v \in TreesOf(n) : c.root = Ref(v)
      BY <2>2 DEF Levelled
    <3>2. v \in TreesOf(MaxTokens) /\ Blocks(v) \in Nat
      BY BlocksOfTree
    <3> QED
      BY <3>1, <3>2, BlocksOfOne
  <2> QED
    BY <2>1, <2>2
<1>8. Stacked(c)
  BY <1>1 DEF Stacked
<1> QED
  BY <1>2, <1>5, <1>6, <1>7, <1>8 DEF Reachable

(* A token that the builder is not told of.                                *)
LEMMA LevelledOn ==
  ASSUME NEW n \in Nat, NEW c, Levelled(c, n)
  PROVE  Levelled(c, n + 1)
<1>1. PICK k \in Nat : k = Len(c.stack) /\ k <= n
  BY DEF Levelled, Sequence
<1>2. ASSUME NEW i \in 1 .. k
      PROVE  Owned(c.stack[i], (n + 1) - i + 1)
  <2>1. n - i + 1 \in Nat /\ (n + 1) - i + 1 \in Nat /\ n - i + 1 <= (n + 1) - i + 1
    BY <1>1
  <2> QED
    BY <1>1, <2>1, OwnedDeeper DEF Levelled
<1>3. \A v \in TreesOf(n) : v \in TreesOf(n + 1)
  BY DeeperTrees
<1>4. Sequence(c.stack) /\ k <= n + 1
  BY <1>1 DEF Levelled
<1>5. c.root = NULL \/ \E v \in TreesOf(n + 1) : c.root = Ref(v)
  BY <1>3 DEF Levelled
<1> QED
  BY <1>1, <1>2, <1>4, <1>5 DEF Levelled

LEMMA StackHeight ==
  ASSUME NEW n, NEW c, Levelled(c, n)
  PROVE  \E k \in Nat : k = Len(c.stack) /\ k <= n
  BY DEF Levelled, Sequence

(* The innermost container and its key change.                             *)
TopChange(n, c, w, key, b, e, d) ==
  /\ n \in 0 .. MaxTokens - 1 /\ Levelled(c, n) /\ IsOpen(c)
  /\ c.blocks \in Int /\ b \in Int
  /\ e = Elem(w, key) /\ Owned(e, n - Len(c.stack) + 2)
  /\ d = Update(c, w, key, b)

LEMMA TopUpdated ==
  ASSUME NEW n, NEW c, NEW w, NEW key, NEW b, NEW e, NEW d, TopChange(n, c, w, key, b, e, d)
  PROVE  /\ Levelled(d, n + 1)
         /\ d.blocks = c.blocks + b
         /\ Reachable(d) = Reachable(c) - BlocksOfElem(Innermost(c)) + BlocksOfElem(e)
<1>a. /\ n \in 0 .. MaxTokens - 1 /\ Levelled(c, n) /\ IsOpen(c)
      /\ c.blocks \in Int /\ b \in Int
  BY DEF TopChange
<1>b. PICK j : j = n - Len(c.stack) + 2 /\ Owned(e, j)
  BY DEF TopChange
<1>c. e = Elem(w, key) /\ d = Update(c, w, key, b)
  BY DEF TopChange
<1>1. PICK k \in Nat : k = Len(c.stack) /\ k <= n /\ k > 0
  <2>1. PICK k \in Nat : k = Len(c.stack) /\ k <= n
    BY <1>a, StackHeight, Zenon
  <2> QED
    BY <1>a, <2>1 DEF IsOpen
<1>2. PICK M \in Nat : M = MaxTokens
  BY TokensNatural
<1>3. n \in 0 .. MaxTokens /\ n + 1 \in 0 .. MaxTokens /\ n \in Nat
  BY <1>2, <1>a
<1>4. Stacked(c) /\ Counted(c.stack) /\ BlocksOfAll(c.root) \in Nat
  BY <1>3, <1>a, LevelledCounts
<1>5. /\ Stacked(d)
      /\ Len(d.stack) = k
      /\ \A i \in 1 .. k - 1 : d.stack[i] = c.stack[i]
      /\ Innermost(d).value = w /\ Innermost(d).key = key
      /\ d.root = c.root
  BY <1>1, <1>4, <1>a, <1>c, ReplacedTop
<1>6. d.blocks = c.blocks + b
  BY <1>c DEF Update, Context
<1>7. Innermost(d) = d.stack[k] /\ Innermost(c) = c.stack[k]
  BY <1>1, <1>5 DEF Innermost
<1>8. e.value = w /\ e.key = key
  BY <1>c DEF Elem
<1>9. Owned(d.stack[k], (n + 1) - k + 1)
  <2>1. (n + 1) - k + 1 = n - Len(c.stack) + 2
    BY <1>1, <1>3
  <2> QED
    BY <1>5, <1>7, <1>8, <1>b, <2>1 DEF Owned
<1>10. Levelled(c, n + 1)
  BY <1>3, <1>a, LevelledOn
<1>11. ASSUME NEW i \in 1 .. k
       PROVE  Owned(d.stack[i], (n + 1) - i + 1)
  <2>1. CASE i = k
    BY <1>9, <2>1
  <2>2. CASE i # k
    <3>1. i \in 1 .. k - 1
      BY <2>2
    <3> QED
      BY <1>1, <1>5, <1>10, <3>1 DEF Levelled
  <2> QED
    BY <2>1, <2>2
<1>12. Levelled(d, n + 1)
  <2>1. Sequence(d.stack)
    BY <1>5 DEF Stacked, Sequence
  <2> QED
    BY <1>1, <1>3, <1>5, <1>10, <1>11, <2>1 DEF Levelled
<1>13. Counted(d.stack)
  BY <1>3, <1>12, LevelledCounts
<1>14. PICK below \in Nat : /\ BlocksOfStack(c.stack) = below + BlocksOfElem(c.stack[k])
                            /\ BlocksOfStack(d.stack) = below + BlocksOfElem(d.stack[k])
  <2>1. PICK s, r : s = c.stack /\ r = d.stack
    OBVIOUS
  <2>2. /\ Counted(s) /\ Counted(r) /\ Len(s) = k /\ Len(r) = k /\ Len(s) > 0 /\ Len(r) = Len(s)
        /\ \A i \in 1 .. Len(s) - 1 : r[i] = s[i]
    BY <1>1, <1>4, <1>5, <1>13, <2>1
  <2>3. \E a \in Nat : /\ BlocksOfStack(s) = a + BlocksOfElem(s[Len(s)])
                         /\ BlocksOfStack(r) = a + BlocksOfElem(r[Len(r)])
    BY <2>2, StackTop
  <2> QED
    BY <2>1, <2>2, <2>3
<1>15. BlocksOfElem(d.stack[k]) = BlocksOfElem(e)
  <2>1. \A t : t.value = e.value /\ t.key = e.key => BlocksOfElem(t) = BlocksOfElem(e)
    BY Zenon DEF BlocksOfElem
  <2>2. Innermost(d).value = e.value /\ Innermost(d).key = e.key
    BY <1>5, <1>8, Zenon
  <2>3. BlocksOfElem(Innermost(d)) = BlocksOfElem(e)
    BY <2>1, <2>2, Zenon
  <2> QED
    BY <1>7, <2>3, Zenon
<1>16. BlocksOfElem(c.stack[k]) \in Nat /\ BlocksOfElem(d.stack[k]) \in Nat
  BY <1>1, <1>4, <1>5, <1>13 DEF Counted
<1>17. Reachable(d) = Reachable(c) - BlocksOfElem(Innermost(c)) + BlocksOfElem(e)
  BY <1>4, <1>5, <1>7, <1>14, <1>15, <1>16 DEF Reachable
<1> QED
  BY <1>6, <1>12, <1>17

-----------------------------------------------------------------------------
(* What the handlers allocate can be reached.                              *)

\* After n tokens, with every block accounted for.
Holds(c, n) == Levelled(c, n) /\ c.blocks = Reachable(c)

LEMMA ArrayGrows ==
  ASSUME NEW T, NEW u, u.type = "array", u.keys = <<>>, u.values \in Seq(T), NEW v \in T,
         NEW w, WithChild(u, v, <<>>, w)
  PROVE  /\ w.type = "array" /\ w.keys = <<>>
         /\ BlocksOfNode(w) = BlocksOfNode(u) + (IF u.values = <<>> THEN 1 ELSE 0)
<1>1. PICK vs : vs = Append(u.values, v)
  OBVIOUS
<1>2. vs # <<>>
  BY <1>1
<1>3. w.type = "array" /\ w.keys = <<>> /\ w.values = vs
  BY <1>1 DEF WithChild, Node
<1>4. BlocksOfLeaf("array") = 1
  BY DEF BlocksOfLeaf
<1>5. BlocksOfNode(w) = 2
  BY <1>2, <1>3, <1>4 DEF BlocksOfNode
<1>6. BlocksOfNode(u) = IF u.values = <<>> THEN 1 ELSE 2
  BY <1>4 DEF BlocksOfNode
<1> QED
  BY <1>3, <1>5, <1>6

LEMMA ObjectCounts ==
  ASSUME NEW u, u.type = "object", NEW m \in Nat, m = Len(u.keys)
  PROVE  BlocksOfNode(u) = 1 + m + (IF u.values = <<>> THEN 0 ELSE 2)
<1>1. BlocksOfLeaf("object") = 1
  BY DEF BlocksOfLeaf
<1>2. CASE u.values = <<>>
  <2>1. BlocksOfNode(u) = 1 + m + 0
    BY <1>1, <1>2, Zenon DEF BlocksOfNode
  <2> QED
    BY <1>2, <2>1
<1>3. CASE u.values # <<>>
  <2>1. BlocksOfNode(u) = 1 + m + 2
    BY <1>1, <1>3, Zenon DEF BlocksOfNode
  <2> QED
    BY <1>3, <2>1
<1> QED
  BY <1>2, <1>3

LEMMA ObjectGrows ==
  ASSUME NEW T, NEW u, u.type = "object", u.keys \in Seq(Texts), u.values \in Seq(T),
         Len(u.keys) = Len(u.values), NEW v \in T, NEW key \in Texts,
         NEW keys, keys = Append(u.keys, key), NEW w, WithChild(u, v, keys, w)
  PROVE  /\ w.type = "object" /\ keys \in Seq(Texts) /\ Len(w.keys) = Len(w.values)
         /\ BlocksOfNode(w) = BlocksOfNode(u) + 1 + (IF u.keys = <<>> THEN 2 ELSE 0)
<1>1. PICK vs : vs = Append(u.values, v)
  OBVIOUS
<1>2. vs # <<>> /\ Len(vs) = Len(u.values) + 1 /\ Len(u.values) \in Nat
  BY <1>1
<1>3. keys \in Seq(Texts) /\ Len(keys) = Len(u.keys) + 1 /\ Len(u.keys) \in Nat
  OBVIOUS
<1>4. w.type = "object" /\ w.keys = keys /\ w.values = vs
  BY <1>1 DEF WithChild, Node
<1>5. BlocksOfLeaf("object") = 1
  BY DEF BlocksOfLeaf
<1>6. u.keys = <<>> <=> u.values = <<>>
  OBVIOUS
<1>7. PICK m \in Nat : m = Len(u.keys) /\ Len(w.keys) = m + 1
  BY <1>3, <1>4
<1>8. (IF w.values = <<>> THEN 0 ELSE IF w.type = "object" THEN 2 ELSE 1) = 2
  BY <1>2, <1>4
<1>9. BlocksOfNode(w) = 1 + (m + 1) + 2
  BY <1>4, <1>5, <1>7, <1>8, Zenon DEF BlocksOfNode
<1>10. PICK a \in Nat : a = IF u.keys = <<>> THEN 0 ELSE 2
  OBVIOUS
<1>12. BlocksOfNode(u) = 1 + m + a
  BY <1>6, <1>7, <1>10, ObjectCounts
<1>13. BlocksOfNode(w) = BlocksOfNode(u) + 1 + (2 - a)
  BY <1>9, <1>12
<1>14. 2 - a = IF u.keys = <<>> THEN 2 ELSE 0
  BY <1>10
<1>15. Len(w.keys) = Len(w.values)
  BY <1>2, <1>4, <1>7
<1> QED
  BY <1>3, <1>4, <1>13, <1>14, <1>15

\* u is the container, v the child, w the container with the child.
LEMMA GrowthBalances ==
  \A x \in Nat, m \in Nat, bu \in Nat, bv \in Nat, bw \in Nat, nu \in Nat, nw \in Nat, b \in Int :
     nw = nu + m + b /\ bw = bu + bv + nw - nu => x + bv + b = x - (1 + m + bu) + (1 + bw)
  OBVIOUS

Composite(w) ==
  \/ w.type = "array" /\ w.keys = <<>>
  \/ w.type = "object" /\ Len(w.keys) = Len(w.values)
\* w is the innermost container, once b blocks more and its key are in it.
Grown(c, w, b) == BlocksOfNode(w) = BlocksOfNode(Innermost(c).value) + Len(Innermost(c).key) + b
\* All blocks can be reached but those of v.
AllBut(c, v) == c.blocks = Reachable(c) + Blocks(v)
\* w is the innermost container with v and the given keys.
Grows(c, v, keys, w) == WithChild(Innermost(c).value, v, keys, w)

(* A child is placed in the innermost container, whose key is used.        *)
LEMMA ChildPlaced ==
  ASSUME NEW n \in 0 .. MaxTokens - 1, NEW c, Levelled(c, n), IsOpen(c),
         NEW v \in TreesOf(n - Len(c.stack) + 1), AllBut(c, v),
         NEW keys \in Seq(Texts), NEW w, Grows(c, v, keys, w), Composite(w),
         NEW b \in Int, Grown(c, w, b)
  PROVE  Holds(Update(c, w, NULL, b), n + 1)
<1>1. PICK k \in Nat : k = Len(c.stack) /\ k <= n /\ k > 0
  <2>1. PICK k \in Nat : k = Len(c.stack) /\ k <= n
    BY StackHeight, Zenon
  <2> QED
    BY <2>1 DEF IsOpen
<1>2. PICK M \in Nat : M = MaxTokens
  BY TokensNatural
<1>3. PICK j : j = n - k + 1
  OBVIOUS
<1>4. /\ n \in 0 .. MaxTokens /\ n \in Nat
      /\ j \in 1 .. MaxTokens - 1 /\ j \in 0 .. MaxTokens /\ j + 1 = n - Len(c.stack) + 2
      /\ k \in 1 .. Len(c.stack)
  BY <1>1, <1>2, <1>3
<1>5. PICK e, u : e = Innermost(c) /\ u = e.value
  OBVIOUS
<1>6. Owned(e, j)
  BY <1>1, <1>3, <1>4, <1>5 DEF Levelled, Innermost
<1>7. u \in TreesOf(j) /\ v \in TreesOf(j)
  BY <1>1, <1>3, <1>5, <1>6 DEF Owned
<1>8. WithChild(u, v, keys, w)
  BY <1>5 DEF Grows
<1>9. /\ w \in TreesOf(j + 1)
      /\ Blocks(u) \in Nat /\ Blocks(v) \in Nat /\ Blocks(w) \in Nat
      /\ BlocksOfNode(u) \in Nat /\ BlocksOfNode(w) \in Nat
      /\ Blocks(w) = Blocks(u) + Blocks(v) + BlocksOfNode(w) - BlocksOfNode(u)
  BY <1>4, <1>7, <1>8, ChildAdded
<1>10. PICK f : f = Elem(w, NULL)
  OBVIOUS
<1>11. f.value = w /\ f.key = NULL
  BY <1>10 DEF Elem
<1>12. Owned(f, n - Len(c.stack) + 2)
  BY <1>4, <1>9, <1>11 DEF Owned, Composite
<1>13. PICK m \in Nat : m = Len(e.key)
  BY <1>6 DEF Owned, NULL, Ref
<1>14. PICK x \in Nat : x = Reachable(c)
  BY <1>4, LevelledCounts
<1>15. PICK bu \in Nat, bv \in Nat, bw \in Nat, nu \in Nat, nw \in Nat :
         /\ bu = Blocks(u) /\ bv = Blocks(v) /\ bw = Blocks(w)
         /\ nu = BlocksOfNode(u) /\ nw = BlocksOfNode(w)
  BY <1>9
<1>16. c.blocks = x + bv /\ c.blocks \in Int
  BY <1>14, <1>15 DEF AllBut
<1>17. PICK d : d = Update(c, w, NULL, b)
  OBVIOUS
<1>18. /\ Levelled(d, n + 1)
       /\ d.blocks = c.blocks + b
       /\ Reachable(d) = Reachable(c) - BlocksOfElem(Innermost(c)) + BlocksOfElem(f)
  <2>1. TopChange(n, c, w, NULL, b, f, d)
    BY <1>10, <1>12, <1>16, <1>17, Zenon DEF TopChange
  <2> QED
    BY <2>1, TopUpdated
<1>19. BlocksOfElem(e) = 1 + m + bu
  BY <1>5, <1>13, <1>15 DEF BlocksOfElem
<1>20. BlocksOfElem(f) = 1 + bw
  <2>1. Len(f.key) = 0
    BY <1>11 DEF NULL
  <2> QED
    BY <1>11, <1>15, <2>1 DEF BlocksOfElem
<1>21. nw = nu + m + b /\ bw = bu + bv + nw - nu
  BY <1>5, <1>9, <1>13, <1>15 DEF Grown
<1>22. d.blocks = x + bv + b /\ Reachable(d) = x - (1 + m + bu) + (1 + bw)
  BY <1>5, <1>14, <1>16, <1>18, <1>19, <1>20
<1>23. d.blocks = Reachable(d)
  <2>1. b \in Int
    OBVIOUS
  <2>2. x + bv + b = x - (1 + m + bu) + (1 + bw)
    BY <1>21, <2>1, GrowthBalances
  <2> QED
    BY <1>22, <2>2, Zenon
<1> QED
  BY <1>17, <1>18, <1>23 DEF Holds

\* r is what adding v to c returns.
AddedBy(r, c, v, mem) == r = context_add_value(c, v, mem)

WithElement(c, e, u, v) ==
  Update(c, Node(u.type, "", <<>>, Append(u.values, v)), e.key,
         IF u.values = <<>> THEN 1 ELSE 0)
WithPair(c, e, u, v) ==
  Update(c, Node(u.type, "", Append(u.keys, e.key[1]), Append(u.values, v)), NULL,
         IF u.keys = <<>> THEN 2 ELSE 0)

\* The cases of context_add_value that go on with a value.
LEMMA RootAdded ==
  ASSUME NEW c, NEW v, NEW mem, NEW r, AddedBy(r, c, v, mem), ~IsOpen(c)
  PROVE  r.ctx = Context(c.stack, Ref(v), c.err, c.blocks)
<1>1. r = Continue(Context(c.stack, Ref(v), c.err, c.blocks))
  BY DEF context_add_value, AddedBy
<1>2. \A d : Continue(d).ctx = d
  BY DEF Continue
<1> QED
  BY <1>1, <1>2

LEMMA ElementIsAdded ==
  ASSUME NEW c, NEW v, NEW mem, NEW r, AddedBy(r, c, v, mem), r.go = TRUE, IsOpen(c),
         NEW e, e = Innermost(c), NEW u, u = e.value, u.type = "array", e.key = NULL
  PROVE  r.ctx = WithElement(c, e, u, v)
<1>1. \A d, message : r # Abort(d, message)
  BY Aborts
<1>2. \A d : Continue(d).ctx = d
  BY DEF Continue
<1>3. r = array_add_value(c, v, mem)
  BY DEF context_add_value, AddedBy
<1>4. mem # "link"
  BY <1>1, <1>3, Zenon DEF array_add_value
<1>5. r = Continue(WithElement(c, e, u, v))
  BY <1>3, <1>4, Zenon DEF array_add_value, WithElement
<1> QED
  BY <1>2, <1>5, Zenon

LEMMA PairIsAdded ==
  ASSUME NEW c, NEW v, NEW mem, NEW r, AddedBy(r, c, v, mem), r.go = TRUE, IsOpen(c),
         NEW e, e = Innermost(c), NEW u, u = e.value, u.type = "object", e.key # NULL
  PROVE  r.ctx = WithPair(c, e, u, v)
<1>1. \A d, message : r # Abort(d, message)
  BY Aborts
<1>2. \A d : Continue(d).ctx = d
  BY DEF Continue
<1>3. r = object_add_keyval(c, e.key[1], v, mem)
  BY DEF context_add_value, AddedBy
<1>4. mem \notin {"link", "values"}
  BY <1>1, <1>3, Zenon DEF object_add_keyval
<1>5. r = Continue(WithPair(c, e, u, v))
  BY <1>3, <1>4, Zenon DEF object_add_keyval, WithPair
<1> QED
  BY <1>2, <1>5, Zenon

LEMMA ValuePlaced ==
  ASSUME NEW n \in 0 .. MaxTokens - 1, NEW c, Levelled(c, n), Ready(c),
         IsOpen(c) \/ c.root = NULL,
         NEW v \in TreesOf(n - Len(c.stack) + 1), AllBut(c, v),
         NEW mem, NEW r, AddedBy(r, c, v, mem), r.go = TRUE
  PROVE  Holds(r.ctx, n + 1)
<1>1. PICK k \in Nat : k = Len(c.stack) /\ k <= n
  BY StackHeight, Zenon
<1>2. PICK M \in Nat : M = MaxTokens
  BY TokensNatural
<1>3. n \in 0 .. MaxTokens /\ n \in Nat /\ n + 1 \in 0 .. MaxTokens
  BY <1>2
<1>4. PICK e, u : e = Innermost(c) /\ u = e.value
  OBVIOUS
<1>5. CASE ~IsOpen(c)
  <2>0. r.ctx = Context(c.stack, Ref(v), c.err, c.blocks)
    BY <1>5, RootAdded, Zenon
  <2>1. k = 0
    BY <1>1, <1>5 DEF IsOpen
  <2>2. r.ctx.stack = c.stack /\ r.ctx.root = Ref(v) /\ r.ctx.blocks = c.blocks
    BY <2>0 DEF Context
  <2>3. k = 0 /\ n - Len(c.stack) + 1 = n + 1
    BY <1>1, <1>3, <2>1
  <2>4. Levelled(r.ctx, n + 1)
    <3>1. Sequence(r.ctx.stack)
      BY <2>2 DEF Levelled
    <3>2. v \in TreesOf(n + 1)
      BY <2>3
    <3>3. Len(r.ctx.stack) = 0
      BY <1>1, <2>2, <2>3
    <3> QED
      BY <2>2, <3>1, <3>2, <3>3 DEF Levelled
  <2>5. v \in TreesOf(MaxTokens) /\ Blocks(v) \in Nat
    BY <1>3, <2>3, BlocksOfTree
  <2>6. BlocksOfAll(c.root) = 0 /\ BlocksOfAll(r.ctx.root) = Blocks(v)
    BY <1>5, <2>2, <2>5, BlocksOfNone, BlocksOfOne DEF NULL
  <2>7. BlocksOfStack(c.stack) \in Nat
    BY <1>3, LevelledCounts
  <2> QED
    BY <2>2, <2>4, <2>5, <2>6, <2>7 DEF Holds, Reachable, AllBut
<1>6. CASE IsOpen(c)
  <2>1. e = Innermost(c) /\ u = e.value
    BY <1>4
  <2>2. PICK j : j = n - k + 1
    OBVIOUS
  <2>3. j \in 0 .. MaxTokens /\ j \in Nat /\ j >= 1 /\ k \in 1 .. Len(c.stack) /\ j - 1 \in Nat /\ j - 1 <= j
    BY <1>1, <1>2, <1>6, <2>2 DEF IsOpen
  <2>4. Owned(e, j)
    BY <1>1, <2>1, <2>2, <2>3 DEF Levelled, Innermost
  <2>5. PICK T : T = TreesOf(j)
    OBVIOUS
  <2>6. u \in T /\ v \in T
    BY <1>1, <2>1, <2>2, <2>4, <2>5 DEF Owned
  <2>7. u.keys \in Seq(Texts) /\ u.values \in Seq(T) /\ BlocksOfNode(u) \in Nat
    BY <2>3, <2>5, <2>6, BlocksOfTree, DeeperSequences
  <2>8. CASE u.type = "array" /\ e.key = NULL
    <3>1. PICK w : w = Node(u.type, "", <<>>, Append(u.values, v))
      OBVIOUS
    <3>4. PICK b : b = IF u.values = <<>> THEN 1 ELSE 0
      OBVIOUS
    <3>5. r.ctx = Update(c, w, NULL, b)
      <4>1. r.ctx = WithElement(c, e, u, v)
        BY <1>6, <2>1, <2>8, ElementIsAdded
      <4> QED
        BY <2>8, <3>1, <3>4, <4>1, Zenon DEF WithElement
    <3>6. WithChild(u, v, <<>>, w)
      BY <3>1, Zenon DEF WithChild
    <3>7. u.keys = <<>>
      BY <2>1, <2>4, <2>8 DEF Owned
    <3>8. w.type = "array" /\ w.keys = <<>> /\ BlocksOfNode(w) = BlocksOfNode(u) + b
      BY <2>6, <2>7, <2>8, <3>4, <3>6, <3>7, ArrayGrows
    <3>9. Len(e.key) = 0 /\ b \in Int /\ <<>> \in Seq(Texts)
      BY <2>8, <3>4 DEF NULL
    <3>10. BlocksOfNode(w) = BlocksOfNode(u) + Len(e.key) + b
      BY <2>7, <3>8, <3>9
    <3>11. Grows(c, v, <<>>, w) /\ Grown(c, w, b) /\ Composite(w)
      BY <2>1, <3>6, <3>8, <3>10 DEF Grows, Grown, Composite
    <3>12. Holds(Update(c, w, NULL, b), n + 1)
      BY <1>6, <3>9, <3>11, ChildPlaced
    <3> QED
      BY <3>5, <3>12
  <2>9. CASE u.type = "object" /\ e.key # NULL
    <3>1. PICK key \in Texts : e.key = Ref(key)
      BY <2>4, <2>9 DEF Owned
    <3>4. PICK keys : keys = Append(u.keys, key)
      OBVIOUS
    <3>5. PICK w : w = Node(u.type, "", keys, Append(u.values, v))
      OBVIOUS
    <3>6. PICK b : b = IF u.keys = <<>> THEN 2 ELSE 0
      OBVIOUS
    <3>7. r.ctx = Update(c, w, NULL, b)
      <4>1. e.key[1] = key
        BY <3>1 DEF Ref
      <4>2. r.ctx = WithPair(c, e, u, v)
        BY <1>6, <2>1, <2>9, PairIsAdded
      <4> QED
        BY <3>4, <3>5, <3>6, <4>1, <4>2, Zenon DEF WithPair
    <3>8. WithChild(u, v, keys, w)
      BY <3>5, Zenon DEF WithChild
    <3>9. Len(u.keys) = Len(u.values)
      BY <2>1, <2>4, <2>9 DEF Owned
    <3>10. /\ w.type = "object" /\ keys \in Seq(Texts) /\ Len(w.keys) = Len(w.values)
           /\ BlocksOfNode(w) = BlocksOfNode(u) + 1 + b
      BY <2>6, <2>7, <2>9, <3>4, <3>6, <3>8, <3>9, ObjectGrows
    <3>11. Len(e.key) = 1 /\ b \in Int
      BY <3>1, <3>6 DEF Ref
    <3>12. BlocksOfNode(w) = BlocksOfNode(u) + Len(e.key) + b
      BY <2>7, <3>10, <3>11
    <3>13. Grows(c, v, keys, w) /\ Grown(c, w, b) /\ Composite(w)
      BY <2>1, <3>8, <3>10, <3>12 DEF Grows, Grown, Composite
    <3>14. Holds(Update(c, w, NULL, b), n + 1)
      BY <1>6, <3>10, <3>11, <3>13, ChildPlaced
    <3> QED
      BY <3>7, <3>14
  <2> QED
    BY <1>6, <2>1, <2>8, <2>9 DEF Ready
<1> QED
  BY <1>5, <1>6

-----------------------------------------------------------------------------
(* Every handler keeps the count.                                          *)

LEMMA AllocatedHolds ==
  ASSUME NEW n, NEW c, Levelled(c, n), NEW b, NEW a, a = Allocated(c, b)
  PROVE  /\ Levelled(a, n) /\ Reachable(a) = Reachable(c) /\ a.blocks = c.blocks + b
         /\ a.stack = c.stack /\ a.root = c.root
         /\ IsOpen(a) = IsOpen(c) /\ Innermost(a) = Innermost(c)
<1>1. a.stack = c.stack /\ a.root = c.root /\ a.blocks = c.blocks + b
  BY DEF Allocated, Context
<1> QED
  BY <1>1 DEF Levelled, Reachable, IsOpen, Innermost

Bare(v, type, text) == v = Node(type, text, <<>>, <<>>)

LeafText(text) == text \in Texts \cup {""}

\* A node without children.
LEMMA BareNode ==
  ASSUME NEW n \in 1 .. MaxTokens, NEW type \in Types, NEW text, LeafText(text),
         NEW v, Bare(v, type, text)
  PROVE  v \in TreesOf(n) /\ v.type = type /\ Blocks(v) = BlocksOfLeaf(type)
<1>1. v.type = type /\ v.keys = <<>> /\ v.values = <<>>
  BY DEF Node, Bare
<1>2. PICK M \in Nat : M = MaxTokens
  BY TokensNatural
<1>3. 0 \in Nat /\ 1 \in Nat /\ n \in Nat /\ 1 <= n /\ n \in 0 .. MaxTokens
  BY <1>2
<1>4. v \in TreesOf(1)
  <2>1. \A T : <<>> \in Seq(T)
    OBVIOUS
  <2>2. Node(type, text, <<>>, <<>>) \in TreesOf(0 + 1)
    BY <1>3, <2>1, TreeOfNode DEF LeafText
  <2>3. 0 + 1 = 1
    OBVIOUS
  <2> QED
    BY <2>2, <2>3, Zenon DEF Bare
<1>5. v \in TreesOf(n)
  BY <1>3, <1>4, DeeperTrees
<1>6. Blocks(v) = BlocksOfNode(v) + BlocksOfAll(v.values)
  BY <1>3, <1>5, BlocksOfTree
<1>7. Len(v.keys) = 0
  BY <1>1
<1>8. BlocksOfLeaf(type) \in Nat
  BY DEF BlocksOfLeaf
<1>9. BlocksOfNode(v) = BlocksOfLeaf(type) + 0 + 0
  BY <1>1, <1>7, Zenon DEF BlocksOfNode
<1> QED
  BY <1>1, <1>5, <1>6, <1>8, <1>9, BlocksOfNone, SMT

LEMMA RoomForToken ==
  ASSUME NEW n \in 0 .. MaxTokens - 1
  PROVE  n \in Nat /\ n \in 0 .. MaxTokens /\ n + 1 \in 0 .. MaxTokens /\ n + 1 \in 1 .. MaxTokens
<1>1. PICK M \in Nat : M = MaxTokens
  BY TokensNatural
<1> QED
  BY <1>1

LEMMA LeafHolds ==
  ASSUME NEW n \in 0 .. MaxTokens - 1, NEW c, Holds(c, n), Ready(c), IsOpen(c) \/ c.root = NULL,
         NEW type \in Types, NEW text \in Texts, NEW mem,
         NEW r, r = handle_leaf(c, type, text, mem), r.go = TRUE
  PROVE  Holds(r.ctx, n + 1)
<1>1. mem # "value"
  BY Aborts DEF handle_leaf
<1>2. PICK a, v : a = Allocated(c, BlocksOfLeaf(type)) /\ v = Leaf(type, text)
  OBVIOUS
<1>3. AddedBy(r, a, v, mem)
  BY <1>1, <1>2 DEF handle_leaf, AddedBy
<1>4. Levelled(c, n) /\ c.blocks = Reachable(c)
  BY DEF Holds
<1>5. /\ Levelled(a, n) /\ Reachable(a) = Reachable(c) /\ a.blocks = c.blocks + BlocksOfLeaf(type)
      /\ a.stack = c.stack /\ a.root = c.root
      /\ IsOpen(a) = IsOpen(c) /\ Innermost(a) = Innermost(c)
  BY <1>2, <1>4, AllocatedHolds
<1>6. Ready(a) /\ (IsOpen(a) \/ a.root = NULL)
  BY <1>5 DEF Ready
<1>7. PICK k \in Nat : k = Len(a.stack) /\ k <= n
  BY <1>5, StackHeight, Zenon
<1>8. n - Len(a.stack) + 1 \in 1 .. MaxTokens
  <2>1. PICK M \in Nat : M = MaxTokens
    BY TokensNatural
  <2> QED
    BY <1>7, <2>1
<1>9. v \in TreesOf(n - Len(a.stack) + 1) /\ Blocks(v) = BlocksOfLeaf(type)
  <2>1. Bare(v, type, text) /\ LeafText(text)
    BY <1>2, Zenon DEF Leaf, Bare, LeafText
  <2> QED
    BY <1>8, <2>1, BareNode
<1>10. AllBut(a, v)
  BY <1>4, <1>5, <1>9 DEF AllBut
<1> QED
  BY <1>3, <1>5, <1>6, <1>9, <1>10, ValuePlaced

WaitsForKey(c) ==
  IsOpen(c) /\ Innermost(c).value.type = "object" /\ Innermost(c).key = NULL
KeyAdded(r, c, text, mem) == r = handle_leaf(c, "string", text, mem)

(* A string that becomes a key loses its yajl_val and keeps its text.      *)
LEMMA KeyHolds ==
  ASSUME NEW n \in 0 .. MaxTokens - 1, NEW c, Holds(c, n), WaitsForKey(c),
         NEW text \in Texts, NEW mem, NEW r, KeyAdded(r, c, text, mem), r.go = TRUE
  PROVE  Holds(r.ctx, n + 1)
<1>1. mem # "value"
  BY Aborts DEF handle_leaf, KeyAdded
<1>2. PICK a, v : a = Allocated(c, 2) /\ v = Leaf("string", text)
  OBVIOUS
<1>3. r = context_add_value(a, v, mem)
  BY <1>1, <1>2 DEF handle_leaf, BlocksOfLeaf, KeyAdded
<1>4. v.type = "string" /\ v.text = text
  BY <1>2 DEF Leaf, Node
<1>5. Levelled(c, n) /\ c.blocks = Reachable(c)
  BY DEF Holds
<1>6. /\ Levelled(a, n) /\ Reachable(a) = Reachable(c) /\ a.blocks = c.blocks + 2
      /\ a.stack = c.stack /\ a.root = c.root
      /\ IsOpen(a) = IsOpen(c) /\ Innermost(a) = Innermost(c)
  BY <1>2, <1>5, AllocatedHolds
<1>7. PICK e, u, w : e = Innermost(a) /\ u = e.value /\ w = Ref(text)
  OBVIOUS
<1>8. r = Continue(Update(a, u, w, -1))
  BY <1>3, <1>4, <1>6, <1>7 DEF context_add_value, WaitsForKey
<1>9. PICK d : d = Update(a, u, w, -1)
  OBVIOUS
<1>10. r.ctx = d
  BY <1>8, <1>9 DEF Continue
<1>11. PICK k \in Nat : k = Len(a.stack) /\ k <= n
  BY <1>6, StackHeight, Zenon
<1>12. PICK M \in Nat : M = MaxTokens
  BY TokensNatural
<1>13. k > 0
  BY <1>6, <1>11 DEF IsOpen, WaitsForKey
<1>14a. PICK j : j = n - k + 1
  OBVIOUS
<1>14. j \in Nat /\ j = n - k + 1 /\ j >= 1 /\ j <= M
  <2>1. n \in Nat /\ n <= M - 1
    BY <1>12
  <2> QED
    BY <1>11, <1>12, <1>13, <1>14a, <2>1
<1>15. Owned(e, j)
  <2>1. e = a.stack[k] /\ k \in 1 .. Len(a.stack)
    BY <1>7, <1>11, <1>13 DEF Innermost
  <2>2. \A i \in 1 .. Len(a.stack) : Owned(a.stack[i], n - i + 1)
    BY <1>6, Zenon DEF Levelled
  <2>3. Owned(a.stack[k], n - k + 1)
    BY <2>1, <2>2, Zenon
  <2> QED
    BY <1>14a, <2>1, <2>3, Zenon
<1>16. PICK f : f = Elem(u, w)
  OBVIOUS
<1>17. f.value = u /\ f.key = w
  BY <1>16 DEF Elem
<1>18. Owned(f, j)
  BY <1>7, <1>15, <1>17 DEF Owned
<1>19. Owned(f, n - Len(a.stack) + 2)
  <2>1. PICK i : i = n - Len(a.stack) + 2
    OBVIOUS
  <2>2. i \in Nat /\ j <= i /\ j \in Nat
    BY <1>11, <1>14, <2>1
  <2>3. Owned(f, i)
    BY <1>18, <2>2, OwnedDeeper
  <2> QED
    BY <2>1, <2>3
<1>20. PICK x \in Nat : x = Reachable(c)
  BY <1>5, RoomForToken, LevelledCounts
<1>21. a.blocks = x + 2 /\ a.blocks \in Int
  BY <1>5, <1>6, <1>20
<1>22. TopChange(n, a, u, w, -1, f, d)
  <2>1. -1 \in Int /\ n \in 0 .. MaxTokens - 1
    OBVIOUS
  <2> QED
    BY <1>6, <1>9, <1>16, <1>19, <1>21, <2>1, Zenon DEF TopChange, WaitsForKey
<1>23. /\ Levelled(d, n + 1) /\ d.blocks = a.blocks + -1
       /\ Reachable(d) = Reachable(a) - BlocksOfElem(e) + BlocksOfElem(f)
  BY <1>7, <1>22, TopUpdated
<1>24. Blocks(u) \in Nat
  <2>1. j \in 0 .. MaxTokens /\ u \in TreesOf(j)
    BY <1>7, <1>12, <1>14, <1>15 DEF Owned
  <2> QED
    BY <2>1, BlocksOfTree
<1>25. BlocksOfElem(e) = 1 + Blocks(u)
  <2>1. Len(e.key) = 0
    BY <1>6, <1>7 DEF NULL, WaitsForKey
  <2> QED
    BY <1>7, <1>24, <2>1 DEF BlocksOfElem
<1>26. BlocksOfElem(f) = 2 + Blocks(u)
  <2>1. Len(f.key) = 1
    BY <1>7, <1>17 DEF Ref
  <2> QED
    BY <1>17, <1>24, <2>1 DEF BlocksOfElem
<1>27. d.blocks = Reachable(d)
  <2>1. d.blocks = x + 1
    BY <1>21, <1>23
  <2>2. Reachable(d) = x - (1 + Blocks(u)) + (2 + Blocks(u))
    BY <1>6, <1>20, <1>23, <1>25, <1>26
  <2> QED
    BY <1>24, <2>1, <2>2
<1> QED
  BY <1>10, <1>23, <1>27 DEF Holds

Starts(r, c, type, mem) == r = handle_start(c, type, mem)

LEMMA StartHolds ==
  ASSUME NEW n \in 0 .. MaxTokens - 1, NEW c, Holds(c, n), NEW type \in {"object", "array"},
         NEW mem, NEW r, Starts(r, c, type, mem), r.go = TRUE
  PROVE  Holds(r.ctx, n + 1)
<1>1. mem # "value" /\ mem # "link"
  <2>1. \A d, message : r # Abort(d, message)
    BY Aborts
  <2> QED
    BY <2>1, Zenon DEF handle_start, context_push, Starts
<1>2. PICK a, v, e : a = Allocated(c, 1) /\ v = Container(type) /\ e = Elem(v, NULL)
  OBVIOUS
<1>3. r = Continue(Context(Append(a.stack, e), a.root, a.err, a.blocks + 1))
  BY <1>1, <1>2 DEF handle_start, context_push, Starts
<1>4. PICK d : d = Context(Append(a.stack, e), a.root, a.err, a.blocks + 1)
  OBVIOUS
<1>5. r.ctx = d
  BY <1>3, <1>4 DEF Continue
<1>6. Levelled(c, n) /\ c.blocks = Reachable(c)
  BY DEF Holds
<1>7. /\ Levelled(a, n) /\ Reachable(a) = Reachable(c) /\ a.blocks = c.blocks + 1
      /\ a.stack = c.stack /\ a.root = c.root
  BY <1>2, <1>6, AllocatedHolds
<1>8. d.stack = Append(a.stack, e) /\ d.root = a.root /\ d.blocks = a.blocks + 1
  BY <1>4 DEF Context
<1>9. PICK k \in Nat : k = Len(a.stack) /\ k <= n
  BY <1>7, StackHeight, Zenon
<1>10. /\ Sequence(d.stack) /\ Len(d.stack) = k + 1 /\ d.stack[k + 1] = e
       /\ \A i \in 1 .. k : d.stack[i] = a.stack[i]
  <2>1. PICK S : a.stack \in Seq(S)
    BY <1>7 DEF Levelled, Sequence
  <2>2. PICK s : s = a.stack
    OBVIOUS
  <2>3. s \in Seq(S \cup {e}) /\ Len(s) = k
    BY <1>9, <2>1, <2>2
  <2>4. PICK w : w = Append(s, e)
    OBVIOUS
  <2>5. /\ w \in Seq(S \cup {e}) /\ Len(w) = k + 1 /\ w[k + 1] = e
        /\ \A i \in 1 .. k : w[i] = s[i]
    BY <2>3, <2>4
  <2>6. w = d.stack
    BY <1>8, <2>2, <2>4
  <2> QED
    BY <2>2, <2>5, <2>6 DEF Sequence
<1>11. PICK M \in Nat : M = MaxTokens
  BY TokensNatural
<1>12. PICK j : j = n - k + 1
  OBVIOUS
<1>13. j \in 1 .. MaxTokens /\ j \in 0 .. MaxTokens
  <2>1. n \in Nat /\ n <= M - 1
    BY <1>11
  <2> QED
    BY <1>9, <1>11, <1>12, <2>1
<1>14. e.value = v /\ e.key = NULL
  BY <1>2 DEF Elem
<1>15. v \in TreesOf(j) /\ v.type = type /\ Blocks(v) = 1
  <2>1. Bare(v, type, "") /\ LeafText("") /\ type \in Types
    BY <1>2 DEF Container, Bare, LeafText, Types
  <2>2. v \in TreesOf(j) /\ v.type = type /\ Blocks(v) = BlocksOfLeaf(type)
    BY <1>13, <2>1, BareNode, Zenon
  <2> QED
    BY <2>2 DEF BlocksOfLeaf
<1>16. v.keys = <<>> /\ v.values = <<>>
  BY <1>2 DEF Container, Node
<1>17. Owned(e, j)
  <2>1. \/ v.type = "array" /\ v.keys = <<>>
        \/ v.type = "object" /\ Len(v.keys) = Len(v.values)
    BY <1>15, <1>16
  <2> QED
    BY <1>14, <1>15, <2>1 DEF Owned
<1>18. Levelled(a, n + 1)
  BY <1>7, RoomForToken, LevelledOn
<1>19. Levelled(d, n + 1)
  <2>1. ASSUME NEW i \in 1 .. Len(d.stack)
        PROVE  Owned(d.stack[i], (n + 1) - i + 1)
    <3>1. CASE i = k + 1
      <4>1. (n + 1) - i + 1 = j
        BY <1>9, <1>12, <3>1, RoomForToken
      <4> QED
        BY <1>10, <1>17, <3>1, <4>1
    <3>2. CASE i # k + 1
      <4>1. i \in 1 .. k
        BY <1>9, <1>10, <3>2
      <4> QED
        BY <1>9, <1>10, <1>18, <4>1 DEF Levelled
    <3> QED
      BY <3>1, <3>2
  <2>2. Len(d.stack) <= n + 1
    BY <1>9, <1>10, RoomForToken
  <2>3. d.root = NULL \/ \E w \in TreesOf(n + 1) : d.root = Ref(w)
    BY <1>8, <1>18 DEF Levelled
  <2> QED
    BY <1>10, <2>1, <2>2, <2>3 DEF Levelled
<1>20. /\ Counted(a.stack) /\ BlocksOfStack(a.stack) \in Nat /\ BlocksOfAll(a.root) \in Nat
       /\ Counted(d.stack)
  BY <1>7, <1>19, RoomForToken, LevelledCounts
<1>21. BlocksOfStack(d.stack) = BlocksOfStack(a.stack) + BlocksOfElem(e)
  <2>1. PICK s, w : s = a.stack /\ w = d.stack
    OBVIOUS
  <2>2. /\ Counted(s) /\ Counted(w) /\ Len(w) = Len(s) + 1
        /\ \A i \in 1 .. Len(s) : w[i] = s[i]
    BY <1>9, <1>10, <1>20, <2>1
  <2>3. BlocksOfStack(w) = BlocksOfStack(s) + BlocksOfElem(w[Len(w)])
    BY <2>2, StackOfOneMore
  <2>4. w[Len(w)] = e
    BY <1>10, <2>1
  <2> QED
    BY <2>1, <2>3, <2>4
<1>22. BlocksOfElem(e) = 2
  <2>1. Len(e.key) = 0
    BY <1>14 DEF NULL
  <2> QED
    BY <1>14, <1>15, <2>1 DEF BlocksOfElem
<1>23. d.blocks = Reachable(d)
  <2>1. Reachable(d) = BlocksOfStack(a.stack) + 2 + BlocksOfAll(a.root)
    BY <1>8, <1>21, <1>22 DEF Reachable
  <2>2. d.blocks = (BlocksOfStack(a.stack) + BlocksOfAll(a.root)) + 1 + 1
    BY <1>6, <1>7, <1>8 DEF Reachable
  <2> QED
    BY <1>20, <2>1, <2>2
<1> QED
  BY <1>5, <1>19, <1>23 DEF Holds

Ends(r, c, mem) == r = handle_end(c, mem)

(* The innermost container is taken off the stack, with its blocks but for *)
(* those of the level.                                                     *)
TakenOff(c, d, v) == d = Popped(c) /\ v = Innermost(c).value

LEMMA ContainerTaken ==
  ASSUME NEW n \in 0 .. MaxTokens - 1, NEW c, Holds(c, n), IsOpen(c), c.root = NULL,
         NEW d, NEW v, TakenOff(c, d, v)
  PROVE  Levelled(d, n) /\ v \in TreesOf(n - Len(d.stack) + 1) /\ AllBut(d, v) /\ d.root = NULL
<1>1. PICK e : d = Popped(c) /\ e = Innermost(c) /\ v = e.value
  BY DEF TakenOff
<1>3. Levelled(c, n) /\ c.blocks = Reachable(c)
  BY DEF Holds
<1>4. PICK k \in Nat : k = Len(c.stack) /\ k <= n
  BY <1>3, StackHeight, Zenon
<1>5. k > 0
  BY <1>4 DEF IsOpen
<1>6. /\ d.stack = SubSeq(c.stack, 1, Len(c.stack) - 1) /\ d.root = c.root
      /\ d.blocks = c.blocks - (1 + Len(e.key))
  BY <1>1 DEF Popped, Context
<1>7. Counted(c.stack) /\ BlocksOfAll(c.root) \in Nat
  BY <1>3, RoomForToken, LevelledCounts
<1>8. PICK s, b : s = c.stack /\ b = d.stack
  OBVIOUS
<1>9. /\ Counted(b) /\ Len(b) \in Nat /\ Len(s) = Len(b) + 1
      /\ \A i \in 1 .. Len(b) : s[i] = b[i]
      /\ BlocksOfStack(s) = BlocksOfStack(b) + BlocksOfElem(s[Len(s)])
  <2>1. Counted(s) /\ Len(s) > 0 /\ b = SubSeq(s, 1, Len(s) - 1)
    BY <1>4, <1>5, <1>6, <1>7, <1>8
  <2> QED
    BY <2>1, CountedBelow
<1>10. Len(b) = k - 1
  BY <1>4, <1>8, <1>9
<1>11. n \in Nat /\ n \in 0 .. MaxTokens
  BY RoomForToken
<1>12. Levelled(d, n)
  <2>1. ASSUME NEW i \in 1 .. Len(d.stack)
        PROVE  Owned(d.stack[i], n - i + 1)
    <3>1. i \in 1 .. k /\ d.stack[i] = c.stack[i]
      BY <1>4, <1>8, <1>9, <1>10
    <3> QED
      BY <1>3, <1>4, <3>1 DEF Levelled
  <2>2. Sequence(d.stack) /\ Len(d.stack) <= n
    BY <1>4, <1>8, <1>9, <1>10, <1>11 DEF Counted
  <2>3. d.root = NULL
    BY <1>6
  <2> QED
    BY <2>1, <2>2, <2>3 DEF Levelled
<1>13. PICK j : j = n - k + 1
  OBVIOUS
<1>14. PICK M \in Nat : M = MaxTokens
  BY TokensNatural
<1>15. j \in Nat /\ j <= n /\ j \in 0 .. MaxTokens /\ j <= j + 1
  <2>1. n <= M
    BY <1>11, <1>14
  <2>2. j \in Nat /\ j <= n
    BY <1>4, <1>5, <1>11, <1>13
  <2>3. \A i \in Nat : i <= n => i <= M /\ i \in 0 .. M /\ i <= i + 1
    BY <1>11, <2>1
  <2>4. j \in 0 .. M /\ j <= j + 1
    BY <2>2, <2>3, Zenon
  <2>5. j \in 0 .. MaxTokens
    BY <1>14, <2>4, Zenon
  <2> QED
    BY <2>2, <2>4, <2>5
<1>16. Owned(e, j)
  <2>1. \A i \in 1 .. k : Owned(c.stack[i], n - i + 1)
    BY <1>3, <1>4, Zenon DEF Levelled
  <2>2. k \in 1 .. k
    BY <1>5
  <2>3. Owned(c.stack[k], n - k + 1)
    BY <2>1, <2>2, Zenon
  <2>4. e = c.stack[k]
    BY <1>1, <1>4, Zenon DEF Innermost
  <2> QED
    BY <1>13, <2>3, <2>4, Zenon
<1>17. v \in TreesOf(j) /\ Blocks(v) \in Nat
  BY <1>1, <1>15, <1>16, BlocksOfTree DEF Owned
<1>18. v \in TreesOf(n - Len(d.stack) + 1)
  <2>1. n - Len(d.stack) + 1 = j + 1 /\ j + 1 \in Nat
    BY <1>4, <1>8, <1>10, <1>11, <1>13, <1>15
  <2> QED
    BY <1>15, <1>17, <2>1, DeeperTrees
<1>19. PICK m \in Nat : m = Len(e.key)
  BY <1>16 DEF Owned, NULL, Ref
<1>20. BlocksOfElem(e) = 1 + m + Blocks(v)
  BY <1>1, <1>19 DEF BlocksOfElem
<1>21. s[Len(s)] = e
  BY <1>1, <1>8 DEF Innermost
<1>22. BlocksOfStack(b) \in Nat
  BY <1>9, StackMapped
<1>23. AllBut(d, v)
  <2>1. PICK x \in Nat, y \in Nat, z \in Nat :
          x = BlocksOfStack(b) /\ y = BlocksOfAll(c.root) /\ z = Blocks(v)
    BY <1>7, <1>17, <1>22
  <2>2. c.blocks = (x + (1 + m + z)) + y
    BY <1>3, <1>8, <1>9, <1>20, <1>21, <2>1 DEF Reachable
  <2>3. d.blocks = c.blocks - (1 + m)
    BY <1>6, <1>19
  <2>4. Reachable(d) = x + y
    BY <1>6, <1>8, <2>1 DEF Reachable
  <2>5. d.blocks = (x + y) + z
    BY <2>2, <2>3
  <2> QED
    BY <2>1, <2>4, <2>5 DEF AllBut
<1> QED
  BY <1>6, <1>12, <1>18, <1>23

LEMMA EndHolds ==
  ASSUME NEW n \in 0 .. MaxTokens - 1, NEW c, Holds(c, n), IsOpen(c), Ready(Popped(c)),
         c.root = NULL, NEW mem, NEW r, Ends(r, c, mem), r.go = TRUE
  PROVE  Holds(r.ctx, n + 1)
<1>1. PICK d, v : TakenOff(c, d, v)
  BY DEF TakenOff
<1>2. AddedBy(r, d, v, mem)
  BY <1>1 DEF handle_end, Ends, AddedBy, TakenOff
<1>3. Levelled(d, n) /\ v \in TreesOf(n - Len(d.stack) + 1) /\ AllBut(d, v) /\ d.root = NULL
  BY <1>1, ContainerTaken
<1>4. Ready(d)
  BY <1>1 DEF TakenOff
<1> QED
  BY <1>2, <1>3, <1>4, ValuePlaced

-----------------------------------------------------------------------------
(* A handler that fails gives up what it holds, and keeps what it has not  *)
(* freed.                                                                  *)

Spared(c) == Reachable(c) <= c.blocks

LEMMA GivenUp ==
  ASSUME NEW r, OutOfMemory(r)
  PROVE  \A d : r # Continue(d)
<1>1. \A d : Continue(d).go = TRUE
  BY DEF Continue
<1>2. r.go = FALSE
  BY DEF OutOfMemory
<1> QED
  BY <1>1, <1>2

LEMMA KeptOnAbort ==
  ASSUME NEW r, NEW d, NEW message, r = Abort(d, message)
  PROVE  r.ctx.stack = d.stack /\ r.ctx.root = d.root /\ r.ctx.blocks = d.blocks
  BY DEF Abort, Context

\* The innermost container loses its key.
LEMMA KeyDropped ==
  ASSUME NEW n \in 0 .. MaxTokens - 1, NEW c, Levelled(c, n), IsOpen(c),
         NEW x \in Nat, c.blocks = Reachable(c) + x,
         NEW b \in {0, 1}, NEW w, w = Innermost(c).value
  PROVE  Spared(Update(c, w, NULL, b))
<1>1. PICK k \in Nat : k = Len(c.stack) /\ k <= n
  BY StackHeight, Zenon
<1>2. PICK M \in Nat : M = MaxTokens
  BY TokensNatural
<1>3. k > 0 /\ n \in Nat /\ n \in 0 .. MaxTokens
  BY <1>1, RoomForToken DEF IsOpen
<1>4. PICK j : j = n - k + 1
  OBVIOUS
<1>5. /\ j \in Nat /\ j + 1 \in Nat /\ j <= j + 1 /\ j \in 0 .. MaxTokens
      /\ j + 1 = n - Len(c.stack) + 2 /\ k \in 1 .. Len(c.stack)
  BY <1>1, <1>2, <1>3, <1>4
<1>6. PICK e, f, d : e = Innermost(c) /\ f = Elem(w, NULL) /\ d = Update(c, w, NULL, b)
  OBVIOUS
<1>7. Owned(e, j)
  BY <1>1, <1>4, <1>5, <1>6 DEF Levelled, Innermost
<1>8. f.value = w /\ f.key = NULL /\ e.value = w
  BY <1>6 DEF Elem
<1>9. Owned(f, j)
  BY <1>7, <1>8 DEF Owned
<1>10. Owned(f, n - Len(c.stack) + 2)
  BY <1>5, <1>9, OwnedDeeper
<1>11. PICK y \in Nat : y = Reachable(c)
  BY <1>3, LevelledCounts
<1>12. c.blocks \in Int /\ b \in Int
  BY <1>11
<1>13. TopChange(n, c, w, NULL, b, f, d)
  BY <1>6, <1>10, <1>12, Zenon DEF TopChange
<1>14. d.blocks = c.blocks + b /\ Reachable(d) = Reachable(c) - BlocksOfElem(e) + BlocksOfElem(f)
  BY <1>6, <1>13, TopUpdated
<1>15. PICK m \in Nat, u \in Nat : m = Len(e.key) /\ u = Blocks(w)
  BY <1>5, <1>7, <1>8, BlocksOfTree DEF Owned, NULL, Ref
<1>16. Len(f.key) = 0
  BY <1>8 DEF NULL
<1>17. BlocksOfElem(e) = 1 + m + u /\ BlocksOfElem(f) = 1 + u
  BY <1>8, <1>15, <1>16 DEF BlocksOfElem
<1>18. Reachable(d) <= d.blocks
  BY <1>11, <1>14, <1>15, <1>17, SMTT(20)
<1> QED
  BY <1>6, <1>18 DEF Spared

\* The value that could not be added is lost, with the key that was to be its own.
LEMMA AddSpares ==
  ASSUME NEW n \in 0 .. MaxTokens - 1, NEW c, Levelled(c, n),
         NEW v, Blocks(v) \in Nat, AllBut(c, v),
         NEW mem, NEW r, AddedBy(r, c, v, mem), OutOfMemory(r)
  PROVE  Spared(r.ctx)
<1>1. \A d : r # Continue(d)
  BY GivenUp
<1>2. ASSUME NEW message, r = Abort(c, message)
      PROVE  message = "Out of memory"
  <2>1. OutOfMemory(r) /\ r = Abort(c, message)
    BY <1>2
  <2>2. r.ctx.err = message
    BY <2>1 DEF Abort, Context
  <2>3. r.ctx.err = "Out of memory"
    BY <2>1 DEF OutOfMemory
  <2> QED
    BY <2>2, <2>3
<1>3. ASSUME NEW d, r = Abort(d, "Out of memory"), Spared(d)
      PROVE  Spared(r.ctx)
  <2>1. r.ctx.stack = d.stack /\ r.ctx.root = d.root /\ r.ctx.blocks = d.blocks
    BY <1>3, KeptOnAbort
  <2> QED
    BY <1>3, <2>1, Zenon DEF Spared, Reachable
<1>4. PICK top : top = Innermost(c)
  OBVIOUS
<1>5. r = context_add_value(c, v, mem)
  BY DEF AddedBy
<1>6. PICK x \in Nat : x = Blocks(v) /\ c.blocks = Reachable(c) + x
  BY DEF AllBut
<1>7. Spared(c)
  <2>1. Reachable(c) \in Nat
    BY RoomForToken, LevelledCounts
  <2> QED
    BY <1>6, <2>1 DEF Spared
<1>8. CASE IsOpen(c) /\ top.value.type = "object" /\ top.key # NULL
  <2>1. r = object_add_keyval(c, top.key[1], v, mem)
    BY <1>4, <1>5, <1>8 DEF context_add_value
  <2>2. mem \in {"link", "values"}
    BY <1>1, <2>1, Zenon DEF object_add_keyval
  <2>3. PICK b \in {0, 1} : r = Abort(Update(c, top.value, NULL, b), "Out of memory")
    BY <1>4, <2>1, <2>2 DEF object_add_keyval
  <2>4. Spared(Update(c, top.value, NULL, b))
    BY <1>4, <1>6, <1>8, KeyDropped
  <2> QED
    BY <1>3, <2>3, <2>4, Zenon
<1>9. CASE IsOpen(c) /\ top.value.type = "array"
  <2>1. top.value.type # "object"
    BY <1>9
  <2>2. r = array_add_value(c, v, mem)
    BY <1>4, <1>5, <1>9, <2>1, Zenon DEF context_add_value
  <2>3. r = Abort(c, "Out of memory")
    BY <1>1, <2>2, Zenon DEF array_add_value
  <2> QED
    BY <1>3, <1>7, <2>3, Zenon
<1>10. CASE ~IsOpen(c)
  BY <1>1, <1>5, <1>10 DEF context_add_value
<1>11. CASE IsOpen(c) /\ top.value.type = "object" /\ top.key = NULL
  <2>1. CASE v.type = "string"
    BY <1>1, <1>4, <1>5, <1>11, <2>1 DEF context_add_value
  <2>2. CASE v.type # "string"
    <3>1. r = Abort(c, "Object key is not a string")
      BY <1>4, <1>5, <1>11, <2>2 DEF context_add_value
    <3> QED
      <4>1. PICK message : message = "Object key is not a string"
        OBVIOUS
      <4>2. message = "Out of memory"
        BY <1>2, <3>1, <4>1
      <4> QED
        BY <4>1, <4>2
  <2> QED
    BY <2>1, <2>2
<1>12. CASE IsOpen(c) /\ top.value.type \notin {"object", "array"}
  <2>1. r = Abort(c, "Cannot add value to a value that is not composite")
    BY <1>4, <1>5, <1>12 DEF context_add_value
  <2>2. PICK message : message = "Cannot add value to a value that is not composite"
    OBVIOUS
  <2>3. message = "Out of memory"
    BY <1>2, <2>1, <2>2
  <2> QED
    BY <2>2, <2>3
<1> QED
  BY <1>8, <1>9, <1>10, <1>11, <1>12

LeafAdded(r, c, type, text, mem) == r = handle_leaf(c, type, text, mem)

LEMMA LeafSpares ==
  ASSUME NEW n \in 0 .. MaxTokens - 1, NEW c, Holds(c, n), NEW type \in Types, NEW text \in Texts,
         NEW mem, NEW r, LeafAdded(r, c, type, text, mem), OutOfMemory(r)
  PROVE  Spared(r.ctx)
<1>1. Levelled(c, n) /\ c.blocks = Reachable(c) /\ Reachable(c) \in Nat
  BY RoomForToken, LevelledCounts DEF Holds
<1>2. CASE mem = "value"
  <2>1. r.ctx.stack = c.stack /\ r.ctx.root = c.root /\ r.ctx.blocks = c.blocks
    BY <1>2 DEF LeafAdded, handle_leaf, Abort, Context
  <2> QED
    BY <1>1, <2>1 DEF Spared, Reachable
<1>3. CASE mem # "value"
  <2>1. PICK a, v : a = Allocated(c, BlocksOfLeaf(type)) /\ v = Leaf(type, text)
    OBVIOUS
  <2>2. AddedBy(r, a, v, mem)
    BY <1>3, <2>1 DEF handle_leaf, AddedBy, LeafAdded
  <2>3. Levelled(a, n) /\ Reachable(a) = Reachable(c) /\ a.blocks = c.blocks + BlocksOfLeaf(type)
    BY <1>1, <2>1, AllocatedHolds
  <2>4. Bare(v, type, text) /\ LeafText(text)
    BY <2>1, Zenon DEF Leaf, Bare, LeafText
  <2>5. Blocks(v) = BlocksOfLeaf(type) /\ BlocksOfLeaf(type) \in Nat
    BY <2>4, RoomForToken, BareNode DEF BlocksOfLeaf
  <2>6. AllBut(a, v) /\ Blocks(v) \in Nat
    BY <1>1, <2>3, <2>5 DEF AllBut
  <2> QED
    BY <2>2, <2>3, <2>6, AddSpares
<1> QED
  BY <1>2, <1>3

LEMMA StartSpares ==
  ASSUME NEW n \in 0 .. MaxTokens - 1, NEW c, Holds(c, n), NEW type,
         NEW mem, NEW r, Starts(r, c, type, mem), OutOfMemory(r)
  PROVE  Spared(r.ctx)
<1>1. c.blocks = Reachable(c) /\ Reachable(c) \in Nat
  BY RoomForToken, LevelledCounts DEF Holds
<1>2. PICK a : a = Allocated(c, 1)
  OBVIOUS
<1>3. a.stack = c.stack /\ a.root = c.root /\ a.blocks = c.blocks + 1
  BY <1>2 DEF Allocated, Context
<1>4. r = Abort(c, "Out of memory") \/ r = Abort(a, "Out of memory")
  <2>1. \A d : r # Continue(d)
    BY GivenUp
  <2> QED
    BY <1>2, <2>1, Zenon DEF handle_start, context_push, Starts
<1>5. /\ r.ctx.stack = c.stack /\ r.ctx.root = c.root
      /\ r.ctx.blocks = c.blocks \/ r.ctx.blocks = c.blocks + 1
  <2>1. CASE r = Abort(c, "Out of memory")
    BY <2>1, KeptOnAbort
  <2>2. CASE r = Abort(a, "Out of memory")
    <3>1. r.ctx.stack = a.stack /\ r.ctx.root = a.root /\ r.ctx.blocks = a.blocks
      BY <2>2, KeptOnAbort
    <3> QED
      BY <1>3, <3>1
  <2> QED
    BY <1>4, <2>1, <2>2
<1>6. Reachable(r.ctx) = Reachable(c)
  BY <1>5 DEF Reachable
<1> QED
  BY <1>1, <1>5, <1>6 DEF Spared

LEMMA EndSpares ==
  ASSUME NEW n \in 0 .. MaxTokens - 1, NEW c, Holds(c, n), IsOpen(c), c.root = NULL,
         NEW mem, NEW r, Ends(r, c, mem), OutOfMemory(r)
  PROVE  Spared(r.ctx)
<1>1. PICK d, v : TakenOff(c, d, v)
  BY DEF TakenOff
<1>2. AddedBy(r, d, v, mem)
  BY <1>1 DEF handle_end, Ends, AddedBy, TakenOff
<1>3. Levelled(d, n) /\ v \in TreesOf(n - Len(d.stack) + 1) /\ AllBut(d, v)
  BY <1>1, ContainerTaken
<1>4. PICK k \in Nat : k = Len(d.stack) /\ k <= n
  BY <1>3, StackHeight, Zenon
<1>5. n - Len(d.stack) + 1 \in 0 .. MaxTokens
  <2>1. PICK M \in Nat : M = MaxTokens
    BY TokensNatural
  <2> QED
    BY <1>4, <2>1
<1>6. Blocks(v) \in Nat
  BY <1>3, <1>5, BlocksOfTree
<1> QED
  BY <1>2, <1>3, <1>6, AddSpares

-----------------------------------------------------------------------------
(* Every step of the parser with its tree builder keeps the count.         *)

BlocksInv ==
  /\ ~Failed => Holds(ctx, Len(consumed))
  /\ NothingLost

LEMMA TokenCounts ==
  ASSUME TreeInv, NEW t \in Lexemes, Lex(t)
  PROVE  Len(consumed) \in 0 .. MaxTokens - 1 /\ Len(consumed') = Len(consumed) + 1
<1>1. PICK s, n : s = consumed /\ n = Len(s)
  OBVIOUS
<1>2. PICK M \in Nat : M = MaxTokens
  BY TokensNatural
<1>3. s \in Seq(Lexemes) /\ n < M
  BY <1>1, <1>2 DEF TreeInv, Inv, TypeOK, Lex
<1>4. PICK w : w = Append(s, t)
  OBVIOUS
<1>5. n \in Nat /\ Len(w) = n + 1
  BY <1>1, <1>3, <1>4
<1>6. n \in 0 .. MaxTokens - 1
  BY <1>2, <1>3, <1>5
<1>7. consumed' = w
  BY <1>1, <1>4 DEF Lex
<1> QED
  BY <1>1, <1>5, <1>6, <1>7

LEMMA BlocksAfterCallback ==
  ASSUME TreeInv, NEW t \in Lexemes, Lex(t), NEW r, NEW stack, Callback(r.go, stack),
         ctx' = r.ctx, OutOfMemory(r) \/ r.go = TRUE,
         r.go = TRUE => Holds(r.ctx, Len(consumed) + 1),
         OutOfMemory(r) => Spared(r.ctx)
  PROVE  BlocksInv'
<1>1. CASE r.go = TRUE
  <2>1. PICK n, d : n = Len(consumed) + 1 /\ d = r.ctx
    OBVIOUS
  <2>2. Holds(d, n) /\ ctx' = d /\ Len(consumed') = n
    BY <1>1, <2>1, TokenCounts
  <2>3. Holds(ctx', Len(consumed'))
    BY <2>2
  <2>4. ctx'.blocks = Reachable(ctx') /\ Reachable(ctx') \in Nat
    <3>1. n \in 0 .. MaxTokens
      BY <2>1, TokenCounts, RoomForToken
    <3>2. d.blocks = Reachable(d) /\ Reachable(d) \in Nat
      BY <2>2, <3>1, LevelledCounts DEF Holds
    <3> QED
      BY <2>2, <3>2
  <2>5. NothingLost'
    BY <2>4 DEF NothingLost, Reachable
  <2> QED
    BY <2>3, <2>5 DEF BlocksInv, Holds, Levelled, Reachable
<1>2. CASE OutOfMemory(r)
  <2>1. stateStack' = SetCurrent("parse_error")
    BY <1>2 DEF Callback, OutOfMemory
  <2>2. Failed'
    BY <2>1, ErrorSet DEF ErrorStates, TreeInv, Inv, TypeOK
  <2>3. ctx'.err # "none"
    BY <1>2 DEF OutOfMemory
  <2>4. PICK d : d = ctx' /\ Spared(d)
    BY <1>2
  <2>5. Reachable(ctx') <= ctx'.blocks
    BY <2>4 DEF Spared
  <2>6. NothingLost'
    BY <2>3, <2>5 DEF NothingLost, Reachable
  <2> QED
    BY <2>2, <2>6 DEF BlocksInv
<1> QED
  BY <1>1, <1>2

LEMMA LexemeParts ==
  ASSUME NEW t \in Lexemes
  PROVE  t.text \in Texts /\ LeafType(t) \in Types
<1>1. t.text \in Texts /\ t.tok \in Toks
  BY LexemesAssumption
<1> QED
  BY <1>1 DEF LeafType, Types, Toks, ScalarToks, StringToks

LEMMA BuildHolds ==
  ASSUME TreeInv, BlocksInv, NEW t \in Lexemes, NEW mem, BuildStep(t, mem)
  PROVE  BlocksInv'
<1>1. Lex(t) /\ ~Failed
  BY DEF BuildStep, BuildLeaf, BuildKey, StartObject, StartArray, EndObject, EndArray,
         Scalar, MapKey, OpenMap, OpenArray, CloseEmptyMap, CloseMap, CloseEmptyArray,
         CloseArray, Failed, ErrorStates, ValueStates, KeyStates
<1>2. stateStack \in Seq(States) /\ StackShape /\ Stacked(ctx) /\ InStep
  BY <1>1 DEF TreeInv, Inv, TypeOK
<1>3. PICK n : n = Len(consumed)
  OBVIOUS
<1>4. n \in 0 .. MaxTokens - 1 /\ Holds(ctx, n)
  BY <1>1, <1>3, TokenCounts DEF BlocksInv
<1>5. CASE BuildLeaf(t, mem)
  <2>1. PICK r, type, text : r = handle_leaf(ctx, type, text, mem) /\ type = LeafType(t) /\ text = t.text
    OBVIOUS
  <2>2. /\ Current \in ValueStates
        /\ Callback(r.go, SetCurrent(AfterValue(Current))) /\ ctx' = r.ctx
    BY <1>5, <2>1 DEF BuildLeaf, Scalar
  <2>3. Ready(ctx) /\ ctx.root = NULL
    BY <1>2, <2>2, ValueHasPlace
  <2>4. OutOfMemory(r) \/ r.go = TRUE
    BY <1>2, <2>1, <2>3, LeafHandler
  <2>5. ASSUME r.go = TRUE
        PROVE  Holds(r.ctx, n + 1)
    BY <1>4, <2>1, <2>3, <2>5, LeafHolds, LexemeParts
  <2>6. ASSUME OutOfMemory(r)
        PROVE  Spared(r.ctx)
    <3>1. LeafAdded(r, ctx, type, text, mem) /\ type \in Types /\ text \in Texts
      BY <2>1, LexemeParts DEF LeafAdded
    <3> QED
      BY <1>4, <2>6, <3>1, LeafSpares
  <2> QED
    BY <1>1, <1>3, <2>2, <2>4, <2>5, <2>6, BlocksAfterCallback
<1>6. CASE BuildKey(t, mem)
  <2>1. PICK r, text : r = handle_leaf(ctx, "string", text, mem) /\ text = t.text
    OBVIOUS
  <2>2. Current \in KeyStates /\ t.tok \in StringToks
    BY <1>6 DEF BuildKey, MapKey
  <2>3. LeafType(t) = "string"
    BY <2>2 DEF LeafType, StringToks, NumberToks
  <2>4. Callback(r.go, SetCurrent("map_sep")) /\ ctx' = r.ctx
    BY <1>6, <2>1, <2>3 DEF BuildKey, MapKey
  <2>5. Current \in InnerStates
    BY <2>2, StateKinds DEF KeyStates
  <2>6. IsOpen(ctx) /\ MatchesCurrent(Innermost(ctx), Current) /\ ctx.root = NULL
    BY <1>2, <2>5, InsideContainer
  <2>7. Innermost(ctx).value.type = "object" /\ Innermost(ctx).key = NULL
    BY <2>2, <2>6 DEF MatchesCurrent, MapStates, KeyStates
  <2>8. OutOfMemory(r) \/ r.go = TRUE
    BY <1>2, <2>1, <2>6, <2>7, KeyHandler
  <2>9. ASSUME r.go = TRUE
        PROVE  Holds(r.ctx, n + 1)
    <3>1. WaitsForKey(ctx) /\ KeyAdded(r, ctx, text, mem) /\ text \in Texts
      BY <2>1, <2>6, <2>7, LexemeParts DEF WaitsForKey, KeyAdded
    <3> QED
      BY <1>4, <2>9, <3>1, KeyHolds
  <2>10. ASSUME OutOfMemory(r)
         PROVE  Spared(r.ctx)
    <3>1. LeafAdded(r, ctx, "string", text, mem) /\ "string" \in Types /\ text \in Texts
      BY <2>1, <2>3, LexemeParts DEF LeafAdded
    <3> QED
      BY <1>4, <2>10, <3>1, LeafSpares
  <2> QED
    BY <1>1, <1>3, <2>4, <2>8, <2>9, <2>10, BlocksAfterCallback
<1>7. ASSUME NEW type \in {"object", "array"}, NEW stack, NEW r, Starts(r, ctx, type, mem),
             Callback(r.go, stack), ctx' = r.ctx
      PROVE  BlocksInv'
  <2>1. OutOfMemory(r) \/ r.go = TRUE
    BY <1>7, StartHandler DEF Starts
  <2>2. ASSUME r.go = TRUE
        PROVE  Holds(r.ctx, n + 1)
    BY <1>4, <1>7, <2>2, StartHolds
  <2>3. ASSUME OutOfMemory(r)
        PROVE  Spared(r.ctx)
    BY <1>4, <1>7, <2>3, StartSpares
  <2> QED
    BY <1>1, <1>3, <1>7, <2>1, <2>2, <2>3, BlocksAfterCallback
<1>8. CASE StartObject(t, mem)
  <2>1. PICK r, stack : /\ Starts(r, ctx, "object", mem)
                        /\ stack = Push(SetCurrent(AfterValue(Current)), "map_start")
    BY DEF Starts
  <2>2. Callback(r.go, stack) /\ ctx' = r.ctx
    BY <1>8, <2>1 DEF StartObject, OpenMap, Starts
  <2> QED
    BY <1>7, <2>1, <2>2
<1>9. CASE StartArray(t, mem)
  <2>1. PICK r, stack : /\ Starts(r, ctx, "array", mem)
                        /\ stack = Push(SetCurrent(AfterValue(Current)), "array_start")
    BY DEF Starts
  <2>2. Callback(r.go, stack) /\ ctx' = r.ctx
    BY <1>9, <2>1 DEF StartArray, OpenArray, Starts
  <2> QED
    BY <1>7, <2>1, <2>2
<1>10. CASE EndObject(t, mem) \/ EndArray(t, mem)
  <2>1. PICK r, stack : Ends(r, ctx, mem) /\ stack = Pop(stateStack)
    BY DEF Ends
  <2>2. /\ Current \in {"map_start", "map_got_val", "array_start", "array_got_val"}
        /\ Callback(r.go, stack) /\ ctx' = r.ctx
    BY <1>10, <2>1 DEF EndObject, EndArray, CloseEmptyMap, CloseMap, CloseEmptyArray,
                       CloseArray, Ends
  <2>3. Current \in InnerStates
    BY <2>2, StateKinds
  <2>4. IsOpen(ctx) /\ Ready(Popped(ctx))
    BY <1>2, <2>3, PopUncovers
  <2>5. ctx.root = NULL
    BY <1>2, <2>3, InsideContainer
  <2>6. OutOfMemory(r) \/ r.go = TRUE
    BY <1>2, <2>1, <2>4, EndHandler DEF Ends
  <2>7. ASSUME r.go = TRUE
        PROVE  Holds(r.ctx, n + 1)
    BY <1>4, <2>1, <2>4, <2>5, <2>7, EndHolds
  <2>8. ASSUME OutOfMemory(r)
        PROVE  Spared(r.ctx)
    BY <1>4, <2>1, <2>4, <2>5, <2>8, EndSpares
  <2> QED
    BY <1>1, <1>3, <2>2, <2>6, <2>7, <2>8, BlocksAfterCallback
<1> QED
  BY <1>5, <1>6, <1>8, <1>9, <1>10 DEF BuildStep

\* A step that leaves the context alone.
LEMMA BlocksStay ==
  ASSUME BlocksInv, UNCHANGED ctx, Failed' \/ (~Failed /\ Holds(ctx, Len(consumed')))
  PROVE  BlocksInv'
<1>1. NothingLost'
  BY DEF NothingLost, BlocksInv, Reachable
<1>2. ~Failed' => Holds(ctx', Len(consumed'))
  OBVIOUS
<1> QED
  BY <1>1, <1>2 DEF BlocksInv, Holds, Levelled, Reachable

LEMMA SilenceHolds ==
  ASSUME TreeInv, BlocksInv, NEW t \in Lexemes, SilentStep(t), UNCHANGED ctx
  PROVE  BlocksInv'
<1>1. ASSUME NEW s \in ErrorStates, stateStack' = SetCurrent(s)
      PROVE  BlocksInv'
  BY <1>1, ErrorSet, BlocksStay DEF TreeInv, Inv, TypeOK
<1>2. ASSUME NEW message, Fail(message)
      PROVE  BlocksInv'
  BY <1>1, <1>2 DEF Fail, ErrorStates
<1>3. ASSUME Lex(t), Current \in {"map_sep", "map_got_val", "array_got_val"}
      PROVE  BlocksInv'
  <2>1. ~Failed
    BY <1>3 DEF Failed, ErrorStates
  <2>2. PICK n : n = Len(consumed)
    OBVIOUS
  <2>3. n \in 0 .. MaxTokens - 1 /\ Len(consumed') = n + 1 /\ Holds(ctx, n)
    BY <1>3, <2>1, <2>2, TokenCounts DEF BlocksInv
  <2>4. Holds(ctx, n + 1)
    BY <2>3, RoomForToken, LevelledOn DEF Holds
  <2> QED
    BY <2>1, <2>3, <2>4, BlocksStay
<1>4. CASE MapColon(t) \/ MapComma(t) \/ ArrayComma(t)
  BY <1>3, <1>4 DEF MapColon, MapComma, ArrayComma
<1>5. CASE LexicalError(t)
  BY <1>1, <1>5 DEF LexicalError, ErrorStates
<1>6. CASE \/ Overflow(t) \/ UnallowedToken(t) \/ BadKey(t) \/ NoColon(t)
           \/ BadAfterPair(t) \/ BadAfterElement(t) \/ TrailingGarbage(t)
  BY <1>2, <1>6 DEF Overflow, UnallowedToken, BadKey, NoColon, BadAfterPair,
                    BadAfterElement, TrailingGarbage
<1> QED
  BY <1>4, <1>5, <1>6 DEF SilentStep

LEMMA QuietHolds ==
  ASSUME BlocksInv, stateStack' = stateStack, consumed' = consumed, ctx' = ctx
  PROVE  BlocksInv'
  BY DEF BlocksInv, NothingLost, Failed, Current, Holds, Levelled, Reachable

LEMMA ApiHolds ==
  ASSUME TreeInv, BlocksInv, ApiStep, UNCHANGED ctx
  PROVE  BlocksInv'
<1>1. ASSUME stateStack' = stateStack, consumed' = consumed
      PROVE  BlocksInv'
  BY <1>1, QuietHolds
<1>2. ASSUME Fail("premature EOF")
      PROVE  BlocksInv'
  BY <1>2, ErrorSet, BlocksStay DEF Fail, ErrorStates, TreeInv, Inv, TypeOK
<1>3. ~NextValue
  BY TreeOptionsAssumption DEF NextValue, TreeInv, Inv, TypeOK
<1>4. CASE Parse \/ CompleteParse \/ Refuse \/ EndChunk
  BY <1>1, <1>4 DEF Parse, CompleteParse, Enter, Refuse, EndChunk, AtChunkEnd
<1>5. CASE Finish
  BY <1>1, <1>2, <1>5 DEF Finish, AtChunkEnd
<1> QED
  BY <1>3, <1>4, <1>5 DEF ApiStep

LEMMA EmptyHolds == Holds(EmptyContext, 0)
<1>1. PICK c : c = EmptyContext
  OBVIOUS
<1>2. c.stack = <<>> /\ c.root = NULL /\ c.blocks = 0
  BY <1>1 DEF EmptyContext, Context
<1>3. Sequence(c.stack) /\ Len(c.stack) = 0
  BY <1>2, ShortSequences
<1>4. Levelled(c, 0)
  BY <1>2, <1>3 DEF Levelled
<1>5. BlocksOfStack(c.stack) = 0
  <2>1. [i \in 1 .. Len(<<>>) |-> BlocksOfElem(<<>>[i])] = <<>>
    OBVIOUS
  <2> QED
    BY <1>2, <2>1, TotalOfNone DEF BlocksOfStack
<1>6. BlocksOfAll(c.root) = 0
  BY <1>2, BlocksOfNone DEF NULL
<1> QED
  BY <1>1, <1>2, <1>4, <1>5, <1>6 DEF Holds, Reachable

LEMMA BlocksInit == TreeInit => BlocksInv
<1> SUFFICES ASSUME TreeInit
             PROVE  BlocksInv
  OBVIOUS
<1>1. ctx = EmptyContext /\ Len(consumed) = 0
  BY DEF TreeInit, Init
<1>2. Holds(ctx, Len(consumed))
  BY <1>1, EmptyHolds
<1>3. Reachable(ctx) \in Nat
  <2>1. Len(consumed) \in 0 .. MaxTokens
    BY <1>1, TokensNatural
  <2> QED
    BY <1>2, <2>1, LevelledCounts DEF Holds
<1> QED
  BY <1>2, <1>3 DEF BlocksInv, NothingLost, Holds

LEMMA BlocksNext == TreeInv /\ BlocksInv /\ [TreeNext]_treeVars => BlocksInv'
<1> SUFFICES ASSUME TreeInv, BlocksInv, [TreeNext]_treeVars
             PROVE  BlocksInv'
  OBVIOUS
<1>1. ASSUME UNCHANGED treeVars
      PROVE  BlocksInv'
  <2>1. stateStack' = stateStack /\ consumed' = consumed /\ ctx' = ctx
    BY <1>1 DEF treeVars
  <2> QED
    BY <2>1, QuietHolds
<1>2. ASSUME TreeNext
      PROVE  BlocksInv'
  BY <1>2, ApiHolds, SilenceHolds, BuildHolds DEF TreeNext
<1> QED
  BY <1>1, <1>2

(* Every block that was allocated can be reached from the stack or the     *)
(* root, so the cleanup can free it, unless an allocation has failed; and  *)
(* also then nothing is reached twice or after it was freed.               *)
THEOREM NothingIsLost == TreeSpec => []NothingLost
<1>1. TreeInit => TreeInv /\ BlocksInv
  BY TreeInvInit, BlocksInit
<1>2. TreeInv /\ BlocksInv /\ [TreeNext]_treeVars => TreeInv' /\ BlocksInv'
  BY TreeInvNext, BlocksNext
<1>3. BlocksInv => NothingLost
  BY DEF BlocksInv
<1> QED
  BY <1>1, <1>2, <1>3, PTL DEF TreeSpec

-----------------------------------------------------------------------------
(* A call of R_parse_connection, with no other call in its readBin.        *)

OneCall == TreeTextInv /\ BlocksInv

ReaderInv ==
  /\ suspended = <<>>
  /\ flags \in Configurations
  /\ pc \in {"idle", "reading", "parsing", "returned", "failed"}
  /\ pc \in {"reading", "parsing"} => OneCall
  /\ pc = "returned" => Denotes(consumed, result) /\ ctx.blocks = 0 /\ ~IsOpen(ctx)

LEMMA OneCallStarts == TreeInit => OneCall
  BY TreeTextStart, BlocksInit DEF OneCall

LEMMA OneCallRuns == OneCall /\ [TreeNext]_treeVars => OneCall'
  BY TreeTextInvNext, BlocksNext DEF OneCall, TreeTextInv

LEMMA BeginStarts == ReaderInv /\ Begin => TreeInit'
<1> SUFFICES ASSUME ReaderInv, Begin
             PROVE  TreeInit'
  OBVIOUS
<1>1. flags' \in Configurations /\ ctx' = EmptyContext
  BY DEF ReaderInv, Begin, NewContext
<1>2. /\ stateStack' = Push(<<>>, "start") /\ parseError' = "none" /\ call' = "none"
      /\ status' = "ok" /\ unfinished' = FALSE /\ consumed' = <<>>
  BY DEF Begin, SetHandle, NewHandle
<1> QED
  BY <1>1, <1>2 DEF TreeInit, Init, Push

LEMMA RunIsTreeStep == Run => TreeNext
<1> SUFFICES ASSUME Run
             PROVE  TreeNext
  OBVIOUS
<1>1. CASE (EndChunk \/ Finish) /\ UNCHANGED ctx
  BY <1>1 DEF TreeNext, ApiStep
<1>2. ASSUME NEW t \in Lexemes,
             \/ SilentStep(t) /\ UNCHANGED ctx
             \/ \E mem \in Failures : BuildStep(t, mem)
      PROVE  TreeNext
  BY <1>2 DEF TreeNext
<1> QED
  BY <1>1, <1>2 DEF Run

LEMMA RunKeepsRoot ==
  ASSUME ReaderInv, pc = "parsing", ctx.root # NULL, Run
  PROVE  ctx'.root = ctx.root
<1>1. TreeInv
  BY DEF ReaderInv, OneCall, TreeTextInv
<1> QED
  BY <1>1, RunIsTreeStep, RootStays

LEMMA CompleteCall ==
  ASSUME ReaderInv, Returned("complete"), status = "ok"
  PROVE  /\ ctx.root # NULL /\ ~IsOpen(ctx)
         /\ Denotes(consumed, ctx.root)
         /\ Levelled(ctx, Len(consumed)) /\ ctx.blocks = Reachable(ctx)
<1>1. OneCall /\ call = "complete"
  BY DEF ReaderInv, Returned
<1>2. TreeInv /\ TreeTextInv /\ BlocksInv
  BY <1>1 DEF OneCall, TreeTextInv
<1>3. ctx.root # NULL /\ ~IsOpen(ctx)
  BY <1>1, <1>2, SuccessRoot DEF SuccessHasRoot
<1>4. Denotes(consumed, ctx.root)
  BY <1>1, <1>2, TextGivesTree DEF TreeIsTheText, Accepted
<1>5. ~Failed
  <2>1. Current = "parse_complete"
    BY <1>1, <1>2 DEF TreeInv, Success
  <2> QED
    BY <2>1 DEF Failed, ErrorStates
<1> QED
  BY <1>2, <1>3, <1>4, <1>5 DEF BlocksInv, Holds

\* A context with nothing open owns the blocks of its root.
LEMMA RootOwnsAll ==
  ASSUME NEW c, NEW n \in 0 .. MaxTokens, Levelled(c, n), ~IsOpen(c), c.root # NULL,
         c.blocks = Reachable(c)
  PROVE  yajl_tree_free(c, c.root).blocks = 0 /\ ~IsOpen(yajl_tree_free(c, c.root))
<1>1. PICK a : a = yajl_tree_free(c, c.root)
  OBVIOUS
<1>2. a.blocks = c.blocks - BlocksOfAll(c.root) /\ a.stack = c.stack
  BY <1>1 DEF yajl_tree_free, Context
<1>3. BlocksOfStack(c.stack) = 0
  <2>1. [i \in 1 .. Len(<<>>) |-> BlocksOfElem(<<>>[i])] = <<>>
    OBVIOUS
  <2>2. PICK S, s : s = c.stack /\ s \in Seq(S)
    BY DEF Levelled, Sequence
  <2>3. Len(s) \in Nat /\ ~(Len(s) > 0)
    BY <2>2 DEF IsOpen
  <2>4. s = <<>>
    BY <2>2, <2>3
  <2> QED
    BY <2>1, <2>2, <2>4, TotalOfNone DEF BlocksOfStack
<1>4. BlocksOfAll(c.root) \in Nat
  BY LevelledCounts
<1> QED
  BY <1>1, <1>2, <1>3, <1>4 DEF IsOpen, Reachable

LEMMA GetTreeKeeps ==
  ASSUME ReaderInv, GetTree
  PROVE  ReaderInv'
<1>1. /\ ctx.root # NULL /\ ~IsOpen(ctx)
      /\ Denotes(consumed, ctx.root)
      /\ Levelled(ctx, Len(consumed)) /\ ctx.blocks = Reachable(ctx)
  BY CompleteCall DEF GetTree
<1>2. /\ pc' = "returned" /\ result' = ctx.root /\ ctx' = yajl_tree_free(ctx, ctx.root)
      /\ flags' = flags /\ consumed' = consumed /\ suspended' = suspended
  BY <1>1 DEF GetTree, handleVars
<1>3. Len(consumed) \in 0 .. MaxTokens
  <2>1. TextInv /\ TypeOK
    BY DEF GetTree, Returned, ReaderInv, OneCall, TreeTextInv, TreeInv, Inv
  <2>2. Len(consumed) \in Nat /\ Len(consumed) <= MaxTokens
    BY <2>1 DEF TextInv, TypeOK
  <2> QED
    BY <2>2, TokensNatural
<1>4. ctx'.blocks = 0 /\ ~IsOpen(ctx')
  BY <1>1, <1>2, <1>3, RootOwnsAll
<1>5. Denotes(consumed', result')
  BY <1>1, <1>2
<1>6. pc' \notin {"reading", "parsing"}
  BY <1>2
<1> QED
  BY <1>2, <1>4, <1>5, <1>6 DEF ReaderInv, IsOpen

LEMMA ReaderInvNext ==
  ASSUME MaxNested = 1, ReaderInv, [ReaderNext]_readerVars, TreeInit' => OneCall'
  PROVE  ReaderInv'
<1>1. ASSUME Begin
      PROVE  ReaderInv'
  <2>1. TreeInit'
    BY <1>1, BeginStarts
  <2>2. OneCall'
    BY <2>1
  <2>3. ~(Len(suspended) + 1 < MaxNested)
    BY DEF ReaderInv
  <2>4. suspended' = <<>> /\ flags' = flags /\ pc' = "reading"
    BY <1>1, <2>3 DEF Begin, ReaderInv
  <2> QED
    BY <2>2, <2>4 DEF ReaderInv
<1>2. ASSUME ReadChunk \/ ReadEnd, UNCHANGED <<ctx, suspended, calls, result>>
      PROVE  ReaderInv'
  <2>1. TreeNext /\ OneCall /\ pc' = "parsing"
    BY <1>2 DEF ReadChunk, ReadEnd, TreeNext, ApiStep, ReaderInv
  <2>2. OneCall'
    BY <2>1, OneCallRuns
  <2>3. suspended' = suspended /\ flags' = flags
    BY <1>2 DEF ReadChunk, ReadEnd, Parse, CompleteParse, Enter
  <2> QED
    BY <2>1, <2>2, <2>3 DEF ReaderInv
<1>3. ASSUME ReadError, UNCHANGED <<ctx, suspended, calls, result>>
      PROVE  ReaderInv'
  BY <1>3 DEF ReadError, ReaderInv
<1>4. ASSUME Run
      PROVE  ReaderInv'
  <2>1. TreeNext /\ OneCall
    BY <1>4, RunIsTreeStep DEF ReaderInv, Run
  <2>2. OneCall'
    BY <2>1, OneCallRuns
  <2>3. pc' = "parsing" /\ suspended' = suspended
    BY <1>4 DEF Run
  <2>4. flags' \in Configurations
    BY <2>2 DEF OneCall, TreeTextInv, TreeInv, Inv, TypeOK
  <2> QED
    BY <2>2, <2>3, <2>4 DEF ReaderInv
<1>5. ASSUME NextChunk
      PROVE  ReaderInv'
  <2>1. OneCall /\ UNCHANGED treeVars
    BY <1>5 DEF NextChunk, Returned, ReaderInv, treeVars, handleVars
  <2>2. OneCall'
    BY <2>1, OneCallRuns
  <2>3. suspended' = suspended /\ flags' = flags /\ pc' = "reading"
    BY <1>5 DEF NextChunk
  <2> QED
    BY <2>2, <2>3 DEF ReaderInv
<1>6. ASSUME GetTree
      PROVE  ReaderInv'
  BY <1>6, GetTreeKeeps
<1>7. ASSUME JsonFail
      PROVE  ReaderInv'
  BY <1>7 DEF JsonFail, ReaderInv
<1>8. ASSUME Resume
      PROVE  ReaderInv'
  BY <1>8 DEF Resume, ReaderInv
<1>9. ASSUME UNCHANGED readerVars
      PROVE  ReaderInv'
  <2>1. UNCHANGED treeVars
    BY <1>9 DEF readerVars, treeVars, handleVars
  <2>2. OneCall => OneCall'
    BY <2>1, OneCallRuns
  <2>3. /\ flags' = flags /\ pc' = pc /\ suspended' = suspended /\ result' = result
        /\ ctx' = ctx /\ consumed' = consumed
    BY <1>9 DEF readerVars, handleVars
  <2> QED
    BY <2>2, <2>3 DEF ReaderInv, IsOpen
<1> QED
  BY <1>1, <1>2, <1>3, <1>4, <1>5, <1>6, <1>7, <1>8, <1>9 DEF ReaderNext

LEMMA ReaderInvariant ==
  ASSUME MaxNested = 1
  PROVE  ReaderSpec => []ReaderInv
<1>1. ReaderInit => ReaderInv
  BY DEF ReaderInit, ReaderInv, TreeInit, Init
<1>2. (TreeInit => OneCall)'
  BY OneCallStarts, PTL
<1>3. ReaderInv /\ [ReaderNext]_readerVars => ReaderInv'
  BY <1>2, ReaderInvNext
<1> QED
  BY <1>1, <1>3, PTL DEF ReaderSpec

(* A call that succeeds returns the value that the grammar gives the text  *)
(* it has read, however that was cut into chunks and whatever the calls    *)
(* before it left in the context.                                          *)
THEOREM ResultIsTheTextHolds ==
  ASSUME MaxNested = 1
  PROVE  ReaderSpec => []ResultIsTheText
<1>1. ReaderInv => ResultIsTheText
  BY DEF ReaderInv, ResultIsTheText
<1> QED
  BY <1>1, ReaderInvariant, PTL

(* push_parser_get always finds a root for ParseValue.                     *)
THEOREM RootIsThereHolds ==
  ASSUME MaxNested = 1
  PROVE  ReaderSpec => []RootIsThere
<1>1. ReaderInv => RootIsThere
  BY CompleteCall DEF RootIsThere
<1> QED
  BY <1>1, ReaderInvariant, PTL

(* A call that succeeds has freed every block that its parse allocated.    *)
THEOREM SuccessFreesAllHolds ==
  ASSUME MaxNested = 1
  PROVE  ReaderSpec => []SuccessFreesAll
<1>1. ReaderInv => SuccessFreesAll
  BY DEF ReaderInv, SuccessFreesAll
<1> QED
  BY <1>1, ReaderInvariant, PTL

(* The assertion ctx->root == NULL of yajl_tree.c:239 never fires.         *)
THEOREM RootIsFreeHolds ==
  ASSUME MaxNested = 1
  PROVE  ReaderSpec => RootIsFree
<1>1. ReaderInv => ((pc = "parsing" /\ ctx.root # NULL /\ Run) => ctx'.root = ctx.root)
  BY RunKeepsRoot
<1> QED
  BY <1>1, ReaderInvariant, PTL DEF RootIsFree

===============================================================================
