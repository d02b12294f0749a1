----------------------------- MODULE ReformatProofs -----------------------------
(***************************************************************************)
(* Theorems about Reformat: prettify and minify are clients of the parser, *)
(* their generator is in step with it, refuses nothing but what is nested  *)
(* too deep, and what it has written is what was read; for texts of every  *)
(* length and every YAJL_MAX_DEPTH.                                        *)
(***************************************************************************)
EXTENDS Reformat, YajlParserProofs, SequenceTheorems

-----------------------------------------------------------------------------
(* The generator                                                           *)

OutTok == [tok : Toks, text : Texts]

GenTyped(gg) ==
  /\ gg.depth \in 0 .. MaxDepth - 1
  /\ gg.state \in [0 .. MaxDepth - 1 -> GenStates]
  /\ gg.out \in Seq(OutTok)

(* INSERT_SEP and APPENDED_ATOM, as functions of the state of the level.   *)
SepOf(gs) ==
  CASE gs \in {"map_key", "in_array"} -> <<Mark("comma")>>
    [] gs = "map_val"                 -> <<Mark("colon")>>
    [] OTHER                          -> <<>>

NextOf(gs) ==
  CASE gs = "start"                    -> "complete"
    [] gs \in {"map_start", "map_key"} -> "map_val"
    [] gs = "array_start"              -> "in_array"
    [] gs = "map_val"                  -> "map_key"
    [] OTHER                           -> gs

LEMMA MarksTyped == Mark("comma") \in OutTok /\ Mark("colon") \in OutTok
<1>1. "" \in Texts
  BY ReformatTextsAssumption
<1>2. "comma" \in Toks /\ "colon" \in Toks
  BY DEF Toks
<1> QED
  BY <1>1, <1>2 DEF Mark, OutTok

LEMMA WrittenTyped ==
  ASSUME NEW t \in Lexemes
  PROVE  Written(t) \in OutTok
<1>1. t.tok \in Toks /\ t.text \in Texts /\ t \in OutTok
  BY LexemesAssumption DEF OutTok
<1>2. "string" \in Toks /\ "" \in Texts
  BY ReformatTextsAssumption DEF Toks, ScalarToks, StringToks
<1> QED
  BY <1>1, <1>2 DEF Written, Mark, OutTok

LEMMA SepTyped == \A gs : SepOf(gs) \in Seq(OutTok)
  BY MarksTyped DEF SepOf

LEMMA NextTyped == \A gs \in GenStates : NextOf(gs) \in GenStates
  BY DEF NextOf, GenStates

LEMMA Fields ==
  ASSUME NEW d, NEW s, NEW o
  PROVE  /\ Generator(d, s, o).depth = d
         /\ Generator(d, s, o).state = s
         /\ Generator(d, s, o).out = o
  BY DEF Generator

LEMMA EmitFields ==
  ASSUME NEW gg, NEW toks
  PROVE  /\ Emit(gg, toks).depth = gg.depth
         /\ Emit(gg, toks).state = gg.state
         /\ Emit(gg, toks).out = gg.out \o toks
<1> DEFINE o == gg.out \o toks
<1>1. Emit(gg, toks) = Generator(gg.depth, gg.state, o)
  BY DEF Emit
<1> HIDE DEF o
<1>2. /\ Emit(gg, toks).depth = gg.depth
      /\ Emit(gg, toks).state = gg.state
      /\ Emit(gg, toks).out = o
  BY <1>1, Fields
<1> QED
  BY <1>2 DEF o

LEMMA SeparatedFields ==
  ASSUME NEW gg, GenTyped(gg)
  PROVE  /\ Separated(gg).depth = gg.depth
         /\ Separated(gg).state = gg.state
         /\ Separated(gg).out = gg.out \o SepOf(StateOf(gg))
         /\ GenTyped(Separated(gg))
<1>1. /\ Separated(gg).depth = gg.depth
      /\ Separated(gg).state = gg.state
  BY Fields DEF Separated, Emit
<1>2. Separated(gg).out = gg.out \o SepOf(StateOf(gg))
  <2>1. CASE StateOf(gg) \in {"map_key", "in_array"}
    <3>1. Separated(gg) = Emit(gg, <<Mark("comma")>>)
      BY <2>1 DEF Separated
    <3>2. SepOf(StateOf(gg)) = <<Mark("comma")>>
      BY <2>1 DEF SepOf
    <3> QED
      BY <3>1, <3>2, EmitFields, Zenon
  <2>2. CASE StateOf(gg) = "map_val"
    <3>1. Separated(gg) = Emit(gg, <<Mark("colon")>>)
      BY <2>2 DEF Separated
    <3>2. SepOf(StateOf(gg)) = <<Mark("colon")>>
      BY <2>2 DEF SepOf
    <3> QED
      BY <3>1, <3>2, EmitFields, Zenon
  <2>3. CASE StateOf(gg) \notin {"map_key", "in_array", "map_val"}
    <3>1. Separated(gg) = gg
      BY <2>3 DEF Separated
    <3>2. SepOf(StateOf(gg)) = <<>>
      BY <2>3 DEF SepOf
    <3>3. gg.out \in Seq(OutTok)
      BY DEF GenTyped
    <3>4. gg.out \o <<>> = gg.out
      BY <3>3, ConcatEmptySeq
    <3> QED
      BY <3>1, <3>2, <3>4
  <2> QED
    BY <2>1, <2>2, <2>3
<1>3. gg.out \o SepOf(StateOf(gg)) \in Seq(OutTok)
  BY SepTyped, ConcatProperties DEF GenTyped
<1> QED
  BY <1>1, <1>2, <1>3 DEF GenTyped

(* A generator that is as gg but for the state of its level and its text.  *)
Moved(gg, hh, gs, o) ==
  /\ hh.depth = gg.depth
  /\ hh.state = [gg.state EXCEPT ![gg.depth] = gs]
  /\ hh.out = o

LEMMA AppendedMoves ==
  ASSUME NEW gg, GenTyped(gg)
  PROVE  Moved(gg, Appended(gg), NextOf(StateOf(gg)), gg.out)
<1>1. gg.state = [gg.state EXCEPT ![gg.depth] = StateOf(gg)]
  BY DEF GenTyped, StateOf
<1>2. CASE StateOf(gg) = "start"
  BY <1>2, Fields DEF Appended, Set, NextOf, Moved
<1>3. CASE StateOf(gg) \in {"map_start", "map_key"}
  BY <1>3, Fields DEF Appended, Set, NextOf, Moved
<1>4. CASE StateOf(gg) = "array_start"
  BY <1>4, Fields DEF Appended, Set, NextOf, Moved
<1>5. CASE StateOf(gg) = "map_val"
  BY <1>5, Fields DEF Appended, Set, NextOf, Moved
<1>6. CASE StateOf(gg) \notin {"start", "map_start", "map_key", "array_start", "map_val"}
  <2>1. Appended(gg) = gg /\ NextOf(StateOf(gg)) = StateOf(gg)
    BY <1>6 DEF Appended, NextOf
  <2> QED
    BY <1>1, <2>1 DEF Moved
<1> QED
  BY <1>2, <1>3, <1>4, <1>5, <1>6

LEMMA MovedTyped ==
  ASSUME NEW gg, GenTyped(gg), NEW hh, NEW gs \in GenStates, NEW o \in Seq(OutTok),
         Moved(gg, hh, gs, o)
  PROVE  GenTyped(hh) /\ StateOf(hh) = gs
  BY DEF Moved, GenTyped, StateOf

-----------------------------------------------------------------------------
(* The functions of the generator, in the states in which they are called  *)

Alive(gs) == gs \notin {"error", "complete"}
NoKey(gs) == gs \notin {"map_key", "map_start"}

(* The text with a separator and the token t.                              *)
With(gg, t) == (gg.out \o SepOf(StateOf(gg))) \o <<t>>

LEMMA WithTyped ==
  ASSUME NEW gg, GenTyped(gg), NEW t \in OutTok
  PROVE  With(gg, t) \in Seq(OutTok)
<1>1. gg.out \o SepOf(StateOf(gg)) \in Seq(OutTok)
  BY SeparatedFields DEF GenTyped
<1>2. <<t>> \in Seq(OutTok)
  OBVIOUS
<1> HIDE DEF With
<1> QED
  BY <1>1, <1>2, ConcatProperties DEF With

LEMMA StringWritten ==
  ASSUME NEW gg, GenTyped(gg), Alive(StateOf(gg)), NEW t \in OutTok
  PROVE  LET r == yajl_gen_string(gg, t)
         IN  r.status = "ok" /\ Moved(gg, r.g, NextOf(StateOf(gg)), With(gg, t))
<1> DEFINE e == Emit(Separated(gg), <<t>>)
<1>1. yajl_gen_string(gg, t) = Done(Appended(e))
  BY DEF yajl_gen_string, IfValid, Alive
<1>2. e.depth = gg.depth /\ e.state = gg.state /\ e.out = With(gg, t)
  <2>1. /\ e.depth = Separated(gg).depth
        /\ e.state = Separated(gg).state
        /\ e.out = Separated(gg).out \o <<t>>
    BY EmitFields, Zenon
  <2>2. /\ Separated(gg).depth = gg.depth
        /\ Separated(gg).state = gg.state
        /\ Separated(gg).out = gg.out \o SepOf(StateOf(gg))
    BY SeparatedFields
  <2> HIDE DEF e
  <2> QED
    BY <2>1, <2>2, Zenon DEF With
<1>3. GenTyped(e)
  BY <1>2, WithTyped DEF GenTyped
<1>4. StateOf(e) = StateOf(gg)
  BY <1>2 DEF StateOf
<1> HIDE DEF e
<1>5. Moved(e, Appended(e), NextOf(StateOf(gg)), With(gg, t))
  BY <1>2, <1>3, <1>4, AppendedMoves
<1>6. Moved(gg, Appended(e), NextOf(StateOf(gg)), With(gg, t))
  BY <1>2, <1>5, Zenon DEF Moved
<1> QED
  BY <1>1, <1>6 DEF Done

LEMMA ScalarWritten ==
  ASSUME NEW gg, GenTyped(gg), Alive(StateOf(gg)), NoKey(StateOf(gg)), NEW t \in OutTok
  PROVE  yajl_gen_scalar(gg, t) = yajl_gen_string(gg, t)
  BY DEF yajl_gen_scalar, IfValid, IfNotKey, Alive, NoKey

(* hh is gg with one level more, in the state gs.                          *)
Deeper(gg, hh, gs, o) ==
  /\ hh.depth = gg.depth + 1
  /\ hh.state = [gg.state EXCEPT ![gg.depth + 1] = gs]
  /\ hh.out = o

LEMMA Opened ==
  ASSUME NEW gg, GenTyped(gg), Alive(StateOf(gg)), NoKey(StateOf(gg)),
         NEW t \in OutTok, NEW gs
  PROVE  LET r == yajl_gen_open(gg, t, gs)
         IN  IF gg.depth = MaxDepth - 1
               THEN r.status = "max_depth_exceeded" /\ GenTyped(r.g) /\ r.g.depth = gg.depth
               ELSE r.status = "ok" /\ Deeper(gg, r.g, gs, With(gg, t))
<1> DEFINE deeper == Generator(gg.depth + 1, [gg.state EXCEPT ![gg.depth + 1] = gs], Separated(gg).out)
           r == yajl_gen_open(gg, t, gs)
<1>1. r = IF Full(gg) THEN Refused(Separated(gg), "max_depth_exceeded")
                      ELSE Done(Emit(deeper, <<t>>))
  BY DEF yajl_gen_open, IfValid, IfNotKey, Alive, NoKey
<1>2. Full(gg) <=> gg.depth = MaxDepth - 1
  BY MaxDepthAssumption DEF Full, GenTyped
<1>3. CASE gg.depth = MaxDepth - 1
  <2>1. r = Refused(Separated(gg), "max_depth_exceeded")
    BY <1>1, <1>2, <1>3
  <2>2. r.status = "max_depth_exceeded" /\ r.g = Separated(gg)
    BY <2>1 DEF Refused
  <2> QED
    BY <1>3, <2>2, SeparatedFields
<1>4. CASE gg.depth # MaxDepth - 1
  <2>1. r = Done(Emit(deeper, <<t>>))
    BY <1>1, <1>2, <1>4
  <2>2. r.status = "ok" /\ r.g = Emit(deeper, <<t>>)
    BY <2>1 DEF Done
  <2>3. /\ deeper.depth = gg.depth + 1
        /\ deeper.state = [gg.state EXCEPT ![gg.depth + 1] = gs]
        /\ deeper.out = gg.out \o SepOf(StateOf(gg))
    <3>1. /\ deeper.depth = gg.depth + 1
          /\ deeper.state = [gg.state EXCEPT ![gg.depth + 1] = gs]
          /\ deeper.out = Separated(gg).out
      BY Fields
    <3>2. Separated(gg).out = gg.out \o SepOf(StateOf(gg))
      BY SeparatedFields
    <3> HIDE DEF deeper
    <3> QED
      BY <3>1, <3>2, Zenon
  <2> HIDE DEF deeper
  <2>4. PICK hh : hh = Emit(deeper, <<t>>)
    OBVIOUS
  <2>5. hh.depth = deeper.depth /\ hh.state = deeper.state /\ hh.out = deeper.out \o <<t>>
    BY <2>4, EmitFields, Zenon
  <2>6. hh.out = With(gg, t)
    BY <2>3, <2>5, Zenon DEF With
  <2>7. Deeper(gg, hh, gs, With(gg, t))
    BY <2>3, <2>5, <2>6, Zenon DEF Deeper
  <2> QED
    BY <1>4, <2>2, <2>4, <2>7
<1> QED
  BY <1>3, <1>4

(* hh is gg with one level less, which has got its value.                  *)
Shallower(gg, hh, o) ==
  /\ hh.depth = gg.depth - 1
  /\ hh.state = [gg.state EXCEPT ![gg.depth - 1] = NextOf(gg.state[gg.depth - 1])]
  /\ hh.out = o

LEMMA Closed ==
  ASSUME NEW gg, GenTyped(gg), Alive(StateOf(gg)), gg.depth # 0, NEW t \in OutTok
  PROVE  LET r == yajl_gen_close(gg, t)
         IN  r.status = "ok" /\ Shallower(gg, r.g, gg.out \o <<t>>)
<1> DEFINE outer == Generator(gg.depth - 1, gg.state, gg.out)
           r == yajl_gen_close(gg, t)
<1>1. r = Done(Emit(Appended(outer), <<t>>))
  BY DEF yajl_gen_close, IfValid, Alive
<1>2. outer.depth = gg.depth - 1 /\ outer.state = gg.state /\ outer.out = gg.out
  BY Fields
<1> HIDE DEF outer
<1>3. GenTyped(outer)
  <2>1. gg.depth - 1 \in 0 .. MaxDepth - 1
    BY MaxDepthAssumption DEF GenTyped
  <2> QED
    BY <1>2, <2>1 DEF GenTyped
<1>4. Moved(outer, Appended(outer), NextOf(StateOf(outer)), gg.out)
  BY <1>2, <1>3, AppendedMoves
<1>5. Shallower(gg, Emit(Appended(outer), <<t>>), gg.out \o <<t>>)
  <2> DEFINE a == Appended(outer)
  <2>1. /\ Emit(a, <<t>>).depth = a.depth
        /\ Emit(a, <<t>>).state = a.state
        /\ Emit(a, <<t>>).out = a.out \o <<t>>
    BY EmitFields, Zenon
  <2>2. /\ a.depth = gg.depth - 1
        /\ a.state = [gg.state EXCEPT ![gg.depth - 1] = NextOf(gg.state[gg.depth - 1])]
        /\ a.out = gg.out
    BY <1>2, <1>4, Zenon DEF Moved, StateOf
  <2> HIDE DEF a
  <2>3. Shallower(gg, Emit(a, <<t>>), gg.out \o <<t>>)
    BY <2>1, <2>2, Zenon DEF Shallower
  <2> QED
    BY <2>3 DEF a
<1> QED
  BY <1>1, <1>5 DEF Done

-----------------------------------------------------------------------------
(* The states of parser and generator at one level                         *)

(* The separator that was read and is not yet written.                     *)
PendingOf(s) ==
  CASE s \in {"map_need_key", "array_need_val"} -> <<Mark("comma")>>
    [] s = "map_need_val"                       -> <<Mark("colon")>>
    [] OTHER                                    -> <<>>

LEMMA ValueLevel ==
  ASSUME NEW s \in ValueStates, NEW gs, SameLevel(s, gs)
  PROVE  /\ gs \in GenStates /\ Alive(gs) /\ NoKey(gs)
         /\ SepOf(gs) = PendingOf(s)
         /\ SameLevel(AfterValue(s), NextOf(gs))
         /\ OuterLevel(AfterValue(s), gs)
<1>1. CASE s = "start"
  <2>1. gs = "start"
    BY <1>1 DEF SameLevel
  <2>2. SepOf(gs) = <<>> /\ PendingOf(s) = <<>>
    BY <1>1, <2>1 DEF SepOf, PendingOf
  <2> QED
    BY <1>1, <2>1, <2>2 DEF GenStates, Alive, NoKey, AfterValue, NextOf, SameLevel, OuterLevel
<1>2. CASE s = "map_need_val"
  <2>1. gs = "map_val"
    BY <1>2 DEF SameLevel
  <2>2. SepOf(gs) = <<Mark("colon")>> /\ PendingOf(s) = <<Mark("colon")>>
    BY <1>2, <2>1 DEF SepOf, PendingOf
  <2> QED
    BY <1>2, <2>1, <2>2 DEF GenStates, Alive, NoKey, AfterValue, NextOf, SameLevel, OuterLevel
<1>3. CASE s = "array_need_val"
  <2>1. gs = "in_array"
    BY <1>3 DEF SameLevel
  <2>2. SepOf(gs) = <<Mark("comma")>> /\ PendingOf(s) = <<Mark("comma")>>
    BY <1>3, <2>1 DEF SepOf, PendingOf
  <2> QED
    BY <1>3, <2>1, <2>2 DEF GenStates, Alive, NoKey, AfterValue, NextOf, SameLevel, OuterLevel
<1>4. CASE s = "array_start"
  <2>1. gs = "array_start"
    BY <1>4 DEF SameLevel
  <2>2. SepOf(gs) = <<>> /\ PendingOf(s) = <<>>
    BY <1>4, <2>1 DEF SepOf, PendingOf
  <2> QED
    BY <1>4, <2>1, <2>2 DEF GenStates, Alive, NoKey, AfterValue, NextOf, SameLevel, OuterLevel
<1>5. CASE s = "got_value"
  BY <1>5 DEF SameLevel
<1> QED
  BY <1>1, <1>2, <1>3, <1>4, <1>5 DEF ValueStates

LEMMA KeyLevel ==
  ASSUME NEW s \in KeyStates, NEW gs, SameLevel(s, gs)
  PROVE  /\ gs \in GenStates /\ Alive(gs)
         /\ SepOf(gs) = PendingOf(s)
         /\ SameLevel("map_sep", NextOf(gs))
<1>1. CASE s = "map_start"
  <2>1. gs = "map_start"
    BY <1>1 DEF SameLevel
  <2>2. SepOf(gs) = <<>> /\ PendingOf(s) = <<>>
    BY <1>1, <2>1 DEF SepOf, PendingOf
  <2> QED
    BY <2>1, <2>2 DEF GenStates, Alive, NextOf, SameLevel
<1>2. CASE s = "map_need_key"
  <2>1. gs = "map_key"
    BY <1>2 DEF SameLevel
  <2>2. SepOf(gs) = <<Mark("comma")>> /\ PendingOf(s) = <<Mark("comma")>>
    BY <1>2, <2>1 DEF SepOf, PendingOf
  <2> QED
    BY <2>1, <2>2 DEF GenStates, Alive, NextOf, SameLevel
<1> QED
  BY <1>1, <1>2 DEF KeyStates

LEMMA ClosingLevel ==
  ASSUME NEW s \in {"array_start", "array_got_val", "map_start", "map_got_val"},
         NEW gs, SameLevel(s, gs)
  PROVE  Alive(gs)
  BY DEF SameLevel, Alive

LEMMA OuterNext ==
  ASSUME NEW s, NEW gs, OuterLevel(s, gs)
  PROVE  gs \in GenStates /\ SameLevel(s, NextOf(gs)) /\ PendingOf(s) = <<>>
<1>1. CASE s = "parse_complete"
  <2>1. gs = "start"
    BY <1>1 DEF OuterLevel
  <2> QED
    BY <1>1, <2>1 DEF GenStates, SameLevel, NextOf, PendingOf
<1>2. CASE s = "map_got_val"
  <2>1. gs = "map_val"
    BY <1>2 DEF OuterLevel
  <2> QED
    BY <1>2, <2>1 DEF GenStates, SameLevel, NextOf, PendingOf
<1>3. CASE s = "array_got_val"
  <2>1. gs = "array_start" \/ gs = "in_array"
    BY <1>3 DEF OuterLevel
  <2> QED
    BY <1>3, <2>1 DEF GenStates, SameLevel, NextOf, PendingOf
<1> QED
  BY <1>1, <1>2, <1>3 DEF OuterLevel

-----------------------------------------------------------------------------
(* The stacks of parser and generator                                      *)

Levels(stack, gg) ==
  /\ Len(stack) = gg.depth + 1
  /\ \A k \in 1 .. Len(stack) :
       IF k = Len(stack) THEN SameLevel(stack[k], gg.state[k - 1])
                         ELSE OuterLevel(stack[k], gg.state[k - 1])

LEMMA Heights ==
  ASSUME stateStack \in Seq(States), GenTyped(g), Levels(stateStack, g)
  PROVE  /\ Len(stateStack) \in Nat /\ Len(stateStack) = g.depth + 1
         /\ g.depth \in Nat /\ g.depth < MaxDepth /\ MaxDepth \in Nat
         /\ SameLevel(Current, StateOf(g))
         /\ \A k \in 1 .. g.depth : OuterLevel(stateStack[k], g.state[k - 1])
<1>1. g.depth \in Nat /\ g.depth < MaxDepth /\ MaxDepth \in Nat
  BY MaxDepthAssumption DEF GenTyped
<1>2. Len(stateStack) \in Nat /\ Len(stateStack) = g.depth + 1
  BY <1>1 DEF Levels
<1>3. SameLevel(stateStack[g.depth + 1], g.state[g.depth])
  BY <1>1, <1>2 DEF Levels
<1>4. \A k \in 1 .. g.depth : OuterLevel(stateStack[k], g.state[k - 1])
  BY <1>1, <1>2 DEF Levels
<1> QED
  BY <1>1, <1>2, <1>3, <1>4 DEF Current, StateOf

LEMMA Updated ==
  ASSUME NEW f \in [0 .. MaxDepth - 1 -> GenStates], NEW m \in 0 .. MaxDepth - 1,
         NEW v \in GenStates
  PROVE  /\ [f EXCEPT ![m] = v] \in [0 .. MaxDepth - 1 -> GenStates]
         /\ [f EXCEPT ![m] = v][m] = v
         /\ \A k \in 1 .. m : [f EXCEPT ![m] = v][k - 1] = f[k - 1]
<1>1. ASSUME NEW k \in 1 .. m PROVE [f EXCEPT ![m] = v][k - 1] = f[k - 1]
  <2>1. k - 1 \in 0 .. MaxDepth - 1 /\ k - 1 # m
    BY MaxDepthAssumption
  <2> QED
    BY <2>1
<1> QED
  BY <1>1

LEMMA LevelMoves ==
  ASSUME stateStack \in Seq(States), GenTyped(g), Levels(stateStack, g),
         NEW s \in States, NEW gs \in GenStates, SameLevel(s, gs),
         NEW h, NEW o \in Seq(OutTok), Moved(g, h, gs, o)
  PROVE  Levels(SetCurrent(s), h) /\ GenTyped(h)
<1> DEFINE n == g.depth
           new == SetCurrent(s)
<1>1. n \in Nat /\ Len(stateStack) = n + 1 /\ n \in 0 .. MaxDepth - 1
  BY Heights DEF GenTyped
<1>2. /\ new \in Seq(States) /\ Len(new) = n + 1 /\ new[n + 1] = s
      /\ \A k \in 1 .. n : new[k] = stateStack[k]
  BY <1>1 DEF SetCurrent
<1>3. h.depth = n /\ h.state[n] = gs /\ \A k \in 1 .. n : h.state[k - 1] = g.state[k - 1]
  <2>1. h.depth = n /\ h.state = [g.state EXCEPT ![n] = gs]
    BY DEF Moved
  <2>2. g.state \in [0 .. MaxDepth - 1 -> GenStates]
    BY DEF GenTyped
  <2> QED
    BY <1>1, <2>1, <2>2, Updated
<1>4. \A k \in 1 .. n : OuterLevel(stateStack[k], g.state[k - 1])
  BY Heights
<1>5. GenTyped(h)
  BY MovedTyped
<1> HIDE DEF new, n
<1>6. ASSUME NEW k \in 1 .. n + 1
      PROVE  IF k = n + 1 THEN SameLevel(new[k], h.state[k - 1])
                          ELSE OuterLevel(new[k], h.state[k - 1])
  <2>1. CASE k = n + 1
    <3>1. k - 1 = n
      BY <1>1, <2>1
    <3> QED
      BY <1>2, <1>3, <2>1, <3>1
  <2>2. CASE k # n + 1
    <3>1. k \in 1 .. n
      BY <1>1, <2>2
    <3> QED
      BY <1>2, <1>3, <1>4, <2>2, <3>1
  <2> QED
    BY <2>1, <2>2
<1>7. Levels(new, h)
  BY <1>2, <1>3, <1>6 DEF Levels
<1> QED
  BY <1>5, <1>7 DEF new

LEMMA LevelOpens ==
  ASSUME stateStack \in Seq(States), GenTyped(g), Levels(stateStack, g),
         Current \in ValueStates, g.depth # MaxDepth - 1,
         NEW s \in States, NEW gs \in GenStates, SameLevel(s, gs),
         NEW h, NEW o \in Seq(OutTok), Deeper(g, h, gs, o)
  PROVE  Levels(Push(SetCurrent(AfterValue(Current)), s), h) /\ GenTyped(h)
<1> DEFINE n == g.depth
           below == SetCurrent(AfterValue(Current))
           new == Push(below, s)
<1>1. n \in Nat /\ Len(stateStack) = n + 1 /\ n + 1 \in 0 .. MaxDepth - 1
  BY Heights
<1>2. AfterValue(Current) \in States
  BY DEF AfterValue, States
<1>3. /\ below \in Seq(States) /\ Len(below) = n + 1 /\ below[n + 1] = AfterValue(Current)
      /\ \A k \in 1 .. n : below[k] = stateStack[k]
  BY <1>1, <1>2 DEF SetCurrent
<1> HIDE DEF below
<1>4. /\ new \in Seq(States) /\ Len(new) = n + 2 /\ new[n + 2] = s
      /\ \A k \in 1 .. n + 1 : new[k] = below[k]
  BY <1>1, <1>3 DEF Push
<1> HIDE DEF new
<1>5. /\ h.depth = n + 1 /\ h.state[n + 1] = gs /\ h.out = o
      /\ h.state \in [0 .. MaxDepth - 1 -> GenStates]
      /\ \A k \in 1 .. n + 1 : h.state[k - 1] = g.state[k - 1]
  <2>1. h.depth = n + 1 /\ h.state = [g.state EXCEPT ![n + 1] = gs] /\ h.out = o
    BY DEF Deeper
  <2>2. g.state \in [0 .. MaxDepth - 1 -> GenStates]
    BY DEF GenTyped
  <2> QED
    BY <1>1, <2>1, <2>2, Updated
<1>6. OuterLevel(AfterValue(Current), g.state[n])
  BY Heights, ValueLevel DEF StateOf
<1>7. \A k \in 1 .. n : OuterLevel(stateStack[k], g.state[k - 1])
  BY Heights
<1>8. GenTyped(h)
  BY <1>1, <1>5 DEF GenTyped
<1> HIDE DEF n
<1>9. ASSUME NEW k \in 1 .. n + 2
      PROVE  IF k = n + 2 THEN SameLevel(new[k], h.state[k - 1])
                          ELSE OuterLevel(new[k], h.state[k - 1])
  <2>1. CASE k = n + 2
    <3>1. k - 1 = n + 1
      BY <1>1, <2>1
    <3> QED
      BY <1>4, <1>5, <2>1, <3>1
  <2>2. CASE k = n + 1
    <3>1. k - 1 = n /\ k \in 1 .. n + 1 /\ k # n + 2
      BY <1>1, <2>2
    <3> QED
      BY <1>3, <1>4, <1>5, <1>6, <2>2, <3>1
  <2>3. CASE k \notin {n + 1, n + 2}
    <3>1. k \in 1 .. n /\ k \in 1 .. n + 1
      BY <1>1, <2>3
    <3> QED
      BY <1>3, <1>4, <1>5, <1>7, <2>3, <3>1
  <2> QED
    BY <2>1, <2>2, <2>3
<1>10. Levels(new, h)
  <2>1. Len(new) = h.depth + 1
    BY <1>1, <1>4, <1>5
  <2> QED
    BY <1>4, <1>9, <2>1 DEF Levels
<1> QED
  BY <1>8, <1>10 DEF new, below

LEMMA LevelCloses ==
  ASSUME stateStack \in Seq(States), GenTyped(g), Levels(stateStack, g), g.depth # 0,
         NEW h, NEW o \in Seq(OutTok), Shallower(g, h, o)
  PROVE  /\ Levels(Pop(stateStack), h) /\ GenTyped(h)
         /\ PendingOf(Pop(stateStack)[Len(Pop(stateStack))]) = <<>>
<1> DEFINE n == g.depth
           new == Pop(stateStack)
<1>1. n \in Nat /\ Len(stateStack) = n + 1 /\ n - 1 \in 0 .. MaxDepth - 1
  BY Heights
<1>2. new \in Seq(States) /\ Len(new) = n /\ \A k \in 1 .. n : new[k] = stateStack[k]
  BY <1>1 DEF Pop
<1> HIDE DEF new
<1>3. \A k \in 1 .. n : OuterLevel(stateStack[k], g.state[k - 1])
  BY Heights
<1>4. OuterLevel(stateStack[n], g.state[n - 1])
  BY <1>1, <1>3
<1>5. /\ NextOf(g.state[n - 1]) \in GenStates
      /\ SameLevel(stateStack[n], NextOf(g.state[n - 1]))
      /\ PendingOf(stateStack[n]) = <<>>
  BY <1>4, OuterNext, NextTyped
<1>6. /\ h.depth = n - 1 /\ h.state[n - 1] = NextOf(g.state[n - 1]) /\ h.out = o
      /\ h.state \in [0 .. MaxDepth - 1 -> GenStates]
      /\ \A k \in 1 .. n - 1 : h.state[k - 1] = g.state[k - 1]
  <2>1. h.depth = n - 1 /\ h.state = [g.state EXCEPT ![n - 1] = NextOf(g.state[n - 1])] /\ h.out = o
    BY DEF Shallower
  <2>2. g.state \in [0 .. MaxDepth - 1 -> GenStates]
    BY DEF GenTyped
  <2> QED
    BY <1>1, <1>5, <2>1, <2>2, Updated
<1>7. GenTyped(h)
  BY <1>1, <1>6 DEF GenTyped
<1> HIDE DEF n
<1>8. ASSUME NEW k \in 1 .. n
      PROVE  IF k = n THEN SameLevel(new[k], h.state[k - 1])
                      ELSE OuterLevel(new[k], h.state[k - 1])
  <2>1. CASE k = n
    BY <1>1, <1>2, <1>5, <1>6, <2>1
  <2>2. CASE k # n
    <3>1. k \in 1 .. n - 1
      BY <1>1, <2>2
    <3> QED
      BY <1>2, <1>3, <1>6, <2>2, <3>1
  <2> QED
    BY <2>1, <2>2
<1>9. Levels(new, h)
  <2>1. Len(new) = h.depth + 1
    BY <1>1, <1>2, <1>6
  <2> QED
    BY <1>2, <1>8, <2>1 DEF Levels
<1>10. PendingOf(new[Len(new)]) = <<>>
  BY <1>1, <1>2, <1>5
<1> QED
  BY <1>7, <1>9, <1>10 DEF new

-----------------------------------------------------------------------------
(* What was read, and what is written of it                                *)

All(tokens) == [k \in 1 .. Len(tokens) |-> Written(tokens[k])]

LEMMA OneMore ==
  ASSUME NEW S, NEW a \in Seq(S), NEW w \in Seq(S), Len(w) = 1
  PROVE  /\ a \o w \in Seq(S) /\ Len(a \o w) = Len(a) + 1
         /\ (a \o w)[Len(a) + 1] = w[1]
         /\ \A k \in 1 .. Len(a) : (a \o w)[k] = a[k]
<1>1. Len(a) \in Nat
  OBVIOUS
<1>2. a \o w \in Seq(S) /\ Len(a \o w) = Len(a) + Len(w)
  BY ConcatProperties
<1>3. (a \o w)[Len(a) + 1] = w[1]
  OBVIOUS
<1>4. \A k \in 1 .. Len(a) : (a \o w)[k] = a[k]
  OBVIOUS
<1> QED
  BY <1>2, <1>3, <1>4

LEMMA AllAppends ==
  ASSUME NEW c \in Seq(Lexemes), NEW t \in Lexemes
  PROVE  /\ All(c) \in Seq(OutTok)
         /\ All(Append(c, t)) = All(c) \o <<Written(t)>>
<1> DEFINE n == Len(c)
           a == All(c)
           b == All(Append(c, t))
<1>1. n \in Nat /\ \A k \in 1 .. n : c[k] \in Lexemes
  OBVIOUS
<1>2. /\ Len(Append(c, t)) = n + 1 /\ Append(c, t)[n + 1] = t
      /\ \A k \in 1 .. n : Append(c, t)[k] = c[k]
  OBVIOUS
<1>3. a \in Seq(OutTok) /\ Len(a) = n /\ \A k \in 1 .. n : a[k] = Written(c[k])
  BY <1>1, WrittenTyped DEF All
<1>4. b \in Seq(OutTok) /\ Len(b) = n + 1
  <2>1. \A k \in 1 .. n + 1 : Append(c, t)[k] \in Lexemes
    BY <1>1, <1>2
  <2> QED
    BY <1>1, <1>2, <2>1, WrittenTyped DEF All
<1>5. /\ \A k \in 1 .. n : b[k] = Written(c[k])
      /\ b[n + 1] = Written(t)
  BY <1>1, <1>2 DEF All
<1> HIDE DEF a, b, n
<1>6. <<Written(t)>> \in Seq(OutTok) /\ Len(<<Written(t)>>) = 1 /\ <<Written(t)>>[1] = Written(t)
  BY WrittenTyped
<1>7. ASSUME NEW w \in Seq(OutTok), Len(w) = 1, w[1] = Written(t)
      PROVE  b = a \o w
  <2>1. /\ a \o w \in Seq(OutTok) /\ Len(a \o w) = n + 1
        /\ (a \o w)[n + 1] = w[1]
        /\ \A k \in 1 .. n : (a \o w)[k] = a[k]
    BY <1>3, <1>7, OneMore
  <2>2. ASSUME NEW k \in 1 .. n + 1
        PROVE  b[k] = (a \o w)[k]
    <3>1. CASE k \in 1 .. n
      BY <1>3, <1>5, <2>1, <3>1
    <3>2. CASE k \notin 1 .. n
      <4>1. k = n + 1
        BY <1>1, <3>2
      <4> QED
        BY <1>5, <1>7, <2>1, <4>1
    <3> QED
      BY <3>1, <3>2
  <2>3. Len(b) = Len(a \o w) /\ \A k \in 1 .. Len(b) : b[k] = (a \o w)[k]
    BY <1>4, <2>1, <2>2
  <2>4. ASSUME NEW d \in Seq(OutTok), Len(b) = Len(d), \A k \in 1 .. Len(b) : b[k] = d[k]
        PROVE  b = d
    BY <1>4, <2>4, SeqEqual
  <2> QED
    BY <2>1, <2>3, <2>4
<1>8. b = a \o <<Written(t)>>
  BY <1>6, <1>7
<1> QED
  BY <1>3, <1>8 DEF a, b

-----------------------------------------------------------------------------
(* The inductive invariant                                                 *)

(* While no error is found, the levels agree and what was read is what is  *)
(* written, up to a separator.                                             *)
Synced ==
  ~Broken => Levels(stateStack, g) /\ All(consumed) = g.out \o PendingOf(Current)

(* R_reformat calls yajl_parse once, and yajl_complete_parse if it was     *)
(* successful.  An error ends the calls.                                   *)
Calls ==
  /\ call = "none" => status # "running"
  /\ Broken => status \notin {"running", "ok"} /\ call # "none"
  /\ call = "complete" /\ status = "ok" => Current = "parse_complete"

Cancelled == parseError = "client cancelled"

TooDeep ==
  /\ refusal = "max_depth_exceeded"
  /\ Len(stateStack) = MaxDepth
  /\ consumed[Len(consumed)].tok \in {"left_bracket", "left_brace"}

CancelledTooDeep == Cancelled => Broken /\ TooDeep

Returned == output.kind = "json" => call = "complete" /\ status = "ok" /\ output.text = g.out

ReformatInv ==
  Inv /\ GenTyped(g) /\ Synced /\ Calls /\ CancelledTooDeep /\ Returned

(* The parser runs and has found no error.                                 *)
LEMMA RunningIsSynced ==
  ASSUME ReformatInv, status = "running"
  PROVE  /\ ~Broken /\ Levels(stateStack, g) /\ All(consumed) = g.out \o PendingOf(Current)
         /\ stateStack \in Seq(States) /\ Len(stateStack) > 0 /\ GenTyped(g) /\ StackShape
         /\ consumed \in Seq(Lexemes) /\ ~Cancelled /\ output.kind # "json" /\ call # "none"
         /\ flags = {}
<1>1. ~Broken
  BY DEF ReformatInv, Calls
<1>2. flags = {}
  BY ReformatOptionsAssumption DEF ReformatInv, Inv, TypeOK
<1>3. stateStack \in Seq(States) /\ Len(stateStack) > 0 /\ consumed \in Seq(Lexemes) /\ StackShape
  BY DEF ReformatInv, Inv, TypeOK, StackShape, WellFormed
<1>4. output.kind # "json" /\ call # "none"
  BY DEF ReformatInv, Returned, Calls
<1> QED
  BY <1>1, <1>2, <1>3, <1>4 DEF ReformatInv, Synced, CancelledTooDeep

LEMMA TopIs ==
  ASSUME stateStack \in Seq(States), Len(stateStack) > 0, NEW s \in States
  PROVE  /\ stateStack' = SetCurrent(s) => Current' = s /\ Len(stateStack') = Len(stateStack)
         /\ \A below \in Seq(States) : stateStack' = Push(below, s) => Current' = s
  BY DEF SetCurrent, Current, Push

(* _CC_CHK                                                                 *)
LEMMA CallbackReturns ==
  ASSUME NEW go \in BOOLEAN, NEW stack, Callback(go, stack)
  PROVE  IF go THEN GoTo(stack)
               ELSE stateStack' = SetCurrent("parse_error") /\ Cancelled' /\ status' = "client_canceled"
  BY Zenon DEF Callback, Cancelled

-----------------------------------------------------------------------------
(* A step that writes.  It goes on in step, or it was refused.             *)

StaysInStep ==
  /\ UNCHANGED <<parseError, status>>
  /\ Levels(stateStack', g') /\ GenTyped(g')
  /\ All(consumed') = g'.out \o PendingOf(Current')

IsRefused(t) ==
  /\ Current' \in ErrorStates /\ Cancelled' /\ status' = "client_canceled"
  /\ GenTyped(g') /\ refusal' = "max_depth_exceeded" /\ Len(stateStack') = MaxDepth
  /\ t.tok \in {"left_bracket", "left_brace"}

(* A string, a scalar or a key: the level takes the state s.               *)
LEMMA WritesInLevel ==
  ASSUME ReformatInv, status = "running", NEW t \in Lexemes, consumed' = Append(consumed, t),
         NEW s \in States, Alive(StateOf(g)), SepOf(StateOf(g)) = PendingOf(Current),
         SameLevel(s, NextOf(StateOf(g))), StateOf(g) \in GenStates, PendingOf(s) = <<>>,
         LET r == yajl_gen_string(g, Written(t))
         IN  Callback(r.status = "ok", SetCurrent(s)) /\ g' = r.g
  PROVE  StaysInStep
<1> DEFINE r == yajl_gen_string(g, Written(t))
           o == With(g, Written(t))
<1>1. /\ stateStack \in Seq(States) /\ Len(stateStack) > 0 /\ GenTyped(g)
      /\ Levels(stateStack, g) /\ consumed \in Seq(Lexemes)
      /\ All(consumed) = g.out \o PendingOf(Current)
  BY RunningIsSynced
<1>2. Written(t) \in OutTok
  BY WrittenTyped
<1>3. r.status = "ok" /\ Moved(g, r.g, NextOf(StateOf(g)), o)
  BY <1>1, <1>2, StringWritten
<1>4. o \in Seq(OutTok)
  BY <1>1, <1>2, WithTyped
<1>5. GoTo(SetCurrent(s)) /\ g' = r.g
  BY <1>3, CallbackReturns
<1> HIDE DEF r
<1>6. All(consumed') = o
  BY <1>1, AllAppends DEF With
<1> HIDE DEF o
<1>7. NextOf(StateOf(g)) \in GenStates
  BY NextTyped
<1>8. Levels(SetCurrent(s), g') /\ GenTyped(g')
  BY <1>1, <1>3, <1>4, <1>5, <1>7, LevelMoves
<1>9. Current' = s
  BY <1>1, <1>5, TopIs DEF GoTo
<1>10. o \o <<>> = o /\ g'.out = o
  BY <1>3, <1>4, <1>5, ConcatEmptySeq DEF Moved
<1> QED
  BY <1>5, <1>6, <1>8, <1>9, <1>10 DEF StaysInStep, GoTo

(* A container opens, or is nested too deep.                               *)
LEMMA WritesOpen ==
  ASSUME ReformatInv, status = "running", NEW t \in Lexemes, consumed' = Append(consumed, t),
         t.tok \in {"left_bracket", "left_brace"}, Current \in ValueStates,
         NEW s \in {"map_start", "array_start"},
         LET r == yajl_gen_open(g, Written(t), s)
         IN  /\ Callback(r.status = "ok", Push(SetCurrent(AfterValue(Current)), s))
             /\ g' = r.g /\ refusal' = r.status
  PROVE  StaysInStep \/ IsRefused(t)
<1> DEFINE r == yajl_gen_open(g, Written(t), s)
           o == With(g, Written(t))
           below == SetCurrent(AfterValue(Current))
<1>1. /\ stateStack \in Seq(States) /\ Len(stateStack) > 0 /\ GenTyped(g)
      /\ Levels(stateStack, g) /\ consumed \in Seq(Lexemes)
      /\ All(consumed) = g.out \o PendingOf(Current)
  BY RunningIsSynced
<1>2. Written(t) \in OutTok
  BY WrittenTyped
<1>3. /\ s \in States /\ s \in GenStates /\ SameLevel(s, s) /\ PendingOf(s) = <<>>
  BY DEF States, KeyStates, ValueStates, GenStates, SameLevel, PendingOf
<1>4. /\ Alive(StateOf(g)) /\ NoKey(StateOf(g)) /\ SepOf(StateOf(g)) = PendingOf(Current)
  BY <1>1, Heights, ValueLevel
<1>5. IF g.depth = MaxDepth - 1
        THEN r.status = "max_depth_exceeded" /\ GenTyped(r.g) /\ r.g.depth = g.depth
        ELSE r.status = "ok" /\ Deeper(g, r.g, s, o)
  BY <1>1, <1>2, <1>4, Opened
<1>6. o \in Seq(OutTok)
  BY <1>1, <1>2, WithTyped
<1>7. All(consumed') = o
  BY <1>1, <1>4, AllAppends DEF With
<1>8. g' = r.g /\ refusal' = r.status /\ Callback(r.status = "ok", Push(below, s))
  OBVIOUS
<1>9. below \in Seq(States)
  <2>1. AfterValue(Current) \in States
    BY DEF AfterValue, States
  <2> QED
    BY <1>1, <2>1 DEF SetCurrent
<1> HIDE DEF r, o, below
<1>10. CASE g.depth = MaxDepth - 1
  <2>1. r.status = "max_depth_exceeded" /\ GenTyped(r.g) /\ r.status # "ok"
    BY <1>5, <1>10
  <2>2. stateStack' = SetCurrent("parse_error") /\ Cancelled' /\ status' = "client_canceled"
    BY <1>8, <2>1, CallbackReturns
  <2>3. "parse_error" \in States /\ "parse_error" \in ErrorStates
    BY DEF States, ErrorStates
  <2>4. Current' = "parse_error" /\ Len(stateStack') = Len(stateStack)
    BY <1>1, <2>2, <2>3, TopIs
  <2>5. Len(stateStack) = MaxDepth
    BY <1>1, <1>10, Heights
  <2> QED
    BY <1>8, <2>1, <2>2, <2>3, <2>4, <2>5 DEF IsRefused
<1>11. CASE g.depth # MaxDepth - 1
  <2>1. r.status = "ok" /\ Deeper(g, r.g, s, o)
    BY <1>5, <1>11
  <2>2. GoTo(Push(below, s))
    BY <1>8, <2>1, CallbackReturns
  <2>3. Levels(Push(below, s), g') /\ GenTyped(g')
    BY <1>1, <1>3, <1>6, <1>8, <1>11, <2>1, LevelOpens DEF below
  <2>4. Current' = s
    BY <1>1, <1>3, <1>9, <2>2, TopIs DEF GoTo
  <2>5. g'.out = o /\ o \o <<>> = o
    BY <1>6, <1>8, <2>1, ConcatEmptySeq DEF Deeper
  <2> QED
    BY <1>3, <1>7, <2>2, <2>3, <2>4, <2>5 DEF StaysInStep, GoTo
<1> QED
  BY <1>10, <1>11

(* A container closes.                                                     *)
LEMMA WritesClose ==
  ASSUME ReformatInv, status = "running", NEW t \in Lexemes, consumed' = Append(consumed, t),
         Current \in {"array_start", "array_got_val", "map_start", "map_got_val"},
         LET r == yajl_gen_close(g, Written(t))
         IN  Callback(r.status = "ok", Pop(stateStack)) /\ g' = r.g
  PROVE  StaysInStep
<1> DEFINE r == yajl_gen_close(g, Written(t))
           o == g.out \o <<Written(t)>>
<1>1. /\ stateStack \in Seq(States) /\ Len(stateStack) > 0 /\ GenTyped(g) /\ StackShape
      /\ Levels(stateStack, g) /\ consumed \in Seq(Lexemes)
      /\ All(consumed) = g.out \o PendingOf(Current)
  BY RunningIsSynced
<1>2. Written(t) \in OutTok
  BY WrittenTyped
<1>3. Alive(StateOf(g))
  BY <1>1, Heights, ClosingLevel
<1>4. g.depth # 0
  <2>1. Current \in InnerStates
    BY StateKinds
  <2>2. Len(stateStack) > 1 /\ Len(stateStack) = g.depth + 1
    BY <1>1, <2>1, CloseShape, Heights
  <2> QED
    BY <2>2
<1>5. r.status = "ok" /\ Shallower(g, r.g, o)
  BY <1>1, <1>2, <1>3, <1>4, Closed
<1>6. g.out \in Seq(OutTok) /\ o \in Seq(OutTok)
  <2>1. g.out \in Seq(OutTok)
    BY <1>1 DEF GenTyped
  <2>2. <<Written(t)>> \in Seq(OutTok)
    BY <1>2
  <2> QED
    BY <2>1, <2>2, ConcatProperties
<1>7. All(consumed') = o
  <2>1. PendingOf(Current) = <<>>
    BY DEF PendingOf
  <2>2. All(consumed) = g.out
    BY <1>1, <1>6, <2>1, ConcatEmptySeq
  <2> QED
    BY <1>1, <2>2, AllAppends
<1>8. GoTo(Pop(stateStack)) /\ g' = r.g
  BY <1>5, CallbackReturns
<1> HIDE DEF r, o
<1>9. /\ Levels(Pop(stateStack), g') /\ GenTyped(g')
      /\ PendingOf(Pop(stateStack)[Len(Pop(stateStack))]) = <<>>
  BY <1>1, <1>4, <1>5, <1>6, <1>8, LevelCloses
<1>10. stateStack' = Pop(stateStack) /\ PendingOf(Current') = <<>>
  BY <1>8, <1>9 DEF GoTo, Current
<1>11. g'.out = o /\ o \o <<>> = o
  BY <1>5, <1>6, <1>8, ConcatEmptySeq DEF Shallower
<1> QED
  BY <1>7, <1>8, <1>9, <1>10, <1>11 DEF StaysInStep, GoTo

LEMMA GenerateStepEffect ==
  ASSUME ReformatInv, NEW t \in Lexemes, GenerateStep(t)
  PROVE  /\ status = "running" /\ consumed' = Append(consumed, t)
         /\ UNCHANGED <<call, output>>
         /\ StaysInStep \/ IsRefused(t)
<1>1. status = "running" /\ consumed' = Append(consumed, t) /\ UNCHANGED <<call, output>>
  BY DEF GenerateStep, GenerateScalar, GenerateKey, GenerateMapOpen, GenerateArrayOpen,
         GenerateMapClose, GenerateArrayClose, Generated, Scalar, MapKey, OpenMap, OpenArray,
         CloseEmptyMap, CloseMap, CloseEmptyArray, CloseArray, Lex
<1>2. /\ GenTyped(g) /\ Levels(stateStack, g) /\ stateStack \in Seq(States)
  BY <1>1, RunningIsSynced
<1>3. SameLevel(Current, StateOf(g))
  BY <1>2, Heights
<1>4. CASE GenerateScalar(t)
  <2> DEFINE s == AfterValue(Current)
             r == yajl_gen_string(g, Written(t))
  <2>1. Current \in ValueStates
    BY <1>4 DEF GenerateScalar, Scalar
  <2>2. /\ StateOf(g) \in GenStates /\ Alive(StateOf(g)) /\ NoKey(StateOf(g))
        /\ SepOf(StateOf(g)) = PendingOf(Current)
        /\ SameLevel(s, NextOf(StateOf(g))) /\ OuterLevel(s, StateOf(g))
    BY <1>3, <2>1, ValueLevel
  <2>3. PendingOf(s) = <<>> /\ s \in States
    BY <2>2, OuterNext DEF AfterValue, States
  <2>4. yajl_gen_scalar(g, Written(t)) = r
    BY <1>2, <2>2, ScalarWritten, WrittenTyped
  <2>5. Callback(r.status = "ok", SetCurrent(s)) /\ g' = r.g
    BY <1>4, <2>4 DEF GenerateScalar, Scalar, Generated
  <2> HIDE DEF s, r
  <2> QED
    BY <1>1, <2>2, <2>3, <2>5, WritesInLevel DEF r
<1>5. CASE GenerateKey(t)
  <2>1. Current \in KeyStates
    BY <1>5 DEF GenerateKey, MapKey
  <2>2. /\ StateOf(g) \in GenStates /\ Alive(StateOf(g))
        /\ SepOf(StateOf(g)) = PendingOf(Current)
        /\ SameLevel("map_sep", NextOf(StateOf(g)))
    BY <1>3, <2>1, KeyLevel
  <2>3. PendingOf("map_sep") = <<>> /\ "map_sep" \in States
    BY DEF PendingOf, States
  <2>4. LET r == yajl_gen_string(g, Written(t))
        IN  Callback(r.status = "ok", SetCurrent("map_sep")) /\ g' = r.g
    BY <1>5 DEF GenerateKey, MapKey, Generated
  <2> QED
    BY <1>1, <2>2, <2>3, <2>4, WritesInLevel
<1>6. CASE GenerateMapOpen(t)
  <2>1. /\ Current \in ValueStates /\ t.tok \in {"left_bracket", "left_brace"}
        /\ LET r == yajl_gen_open(g, Written(t), "map_start")
           IN  /\ Callback(r.status = "ok", Push(SetCurrent(AfterValue(Current)), "map_start"))
               /\ g' = r.g /\ refusal' = r.status
    BY <1>6 DEF GenerateMapOpen, OpenMap, Generated
  <2> QED
    BY <1>1, <2>1, WritesOpen
<1>7. CASE GenerateArrayOpen(t)
  <2>1. /\ Current \in ValueStates /\ t.tok \in {"left_bracket", "left_brace"}
        /\ LET r == yajl_gen_open(g, Written(t), "array_start")
           IN  /\ Callback(r.status = "ok", Push(SetCurrent(AfterValue(Current)), "array_start"))
               /\ g' = r.g /\ refusal' = r.status
    BY <1>7 DEF GenerateArrayOpen, OpenArray, Generated
  <2> QED
    BY <1>1, <2>1, WritesOpen
<1>8. CASE GenerateMapClose(t) \/ GenerateArrayClose(t)
  <2>1. /\ Current \in {"array_start", "array_got_val", "map_start", "map_got_val"}
        /\ LET r == yajl_gen_close(g, Written(t))
           IN  Callback(r.status = "ok", Pop(stateStack)) /\ g' = r.g
    BY <1>8 DEF GenerateMapClose, GenerateArrayClose, CloseEmptyMap, CloseMap,
                CloseEmptyArray, CloseArray, Generated
  <2> QED
    BY <1>1, <2>1, WritesClose
<1> QED
  BY <1>1, <1>4, <1>5, <1>6, <1>7, <1>8 DEF GenerateStep

-----------------------------------------------------------------------------
(* A step that calls nobody reads a separator or finds an error.           *)

ReadsSeparator ==
  /\ UNCHANGED <<parseError, status>>
  /\ Levels(stateStack', g)
  /\ All(consumed') = g.out \o PendingOf(Current')

FindsError == Current' \in ErrorStates /\ status' = "error" /\ ~Cancelled'

(* Fail                                                                    *)
LEMMA FailFinds ==
  ASSUME stateStack \in Seq(States), Len(stateStack) > 0,
         NEW message, message # "client cancelled", Fail(message)
  PROVE  FindsError
<1>1. stateStack' = SetCurrent("parse_error") /\ status' = "error"
  BY Zenon DEF Fail
<1>2. ~Cancelled'
  BY Zenon DEF Fail, Cancelled
<1>3. "parse_error" \in States /\ "parse_error" \in ErrorStates
  BY DEF States, ErrorStates
<1> QED
  BY <1>1, <1>2, <1>3, TopIs DEF FindsError

LEMMA ReadSeparator ==
  ASSUME ReformatInv, status = "running", NEW t \in Lexemes, consumed' = Append(consumed, t),
         NEW s \in States, GoTo(SetCurrent(s)),
         PendingOf(Current) = <<>>, PendingOf(s) = <<Written(t)>>,
         SameLevel(s, StateOf(g)), StateOf(g) \in GenStates
  PROVE  ReadsSeparator
<1>1. /\ stateStack \in Seq(States) /\ Len(stateStack) > 0 /\ GenTyped(g)
      /\ Levels(stateStack, g) /\ consumed \in Seq(Lexemes)
      /\ All(consumed) = g.out \o PendingOf(Current)
  BY RunningIsSynced
<1>2. g.out \in Seq(OutTok) /\ Moved(g, g, StateOf(g), g.out)
  BY <1>1 DEF GenTyped, Moved, StateOf
<1>3. Levels(SetCurrent(s), g)
  BY <1>1, <1>2, LevelMoves
<1>4. Current' = s
  BY <1>1, TopIs DEF GoTo
<1>5. All(consumed) = g.out
  BY <1>1, <1>2, ConcatEmptySeq
<1>6. All(consumed') = g.out \o <<Written(t)>>
  BY <1>1, <1>5, AllAppends
<1> QED
  BY <1>3, <1>4, <1>6 DEF ReadsSeparator, GoTo

LEMMA SilentEffect ==
  ASSUME ReformatInv, NEW t \in Lexemes, SilentStep(t)
  PROVE  /\ status = "running" /\ consumed' = Append(consumed, t) /\ UNCHANGED call
         /\ ReadsSeparator \/ FindsError
<1>1. status = "running" /\ consumed' = Append(consumed, t) /\ UNCHANGED call
  BY DEF SilentStep, Overflow, UnallowedToken, BadKey, MapColon, NoColon, MapComma,
         BadAfterPair, ArrayComma, BadAfterElement, TrailingGarbage, LexicalError, Lex
<1>2. /\ stateStack \in Seq(States) /\ Len(stateStack) > 0 /\ GenTyped(g)
      /\ Levels(stateStack, g) /\ ~Cancelled
  BY <1>1, RunningIsSynced
<1>3. SameLevel(Current, StateOf(g))
  BY <1>2, Heights
<1>4. CASE \/ Overflow(t) \/ UnallowedToken(t) \/ BadKey(t) \/ NoColon(t)
           \/ BadAfterPair(t) \/ BadAfterElement(t) \/ TrailingGarbage(t)
  <2>1. \E message : message # "client cancelled" /\ Fail(message)
    BY <1>4, Zenon DEF Overflow, UnallowedToken, BadKey, NoColon, BadAfterPair, BadAfterElement,
                       TrailingGarbage
  <2> QED
    BY <1>1, <1>2, <2>1, FailFinds
<1>5. CASE LexicalError(t)
  <2>1. stateStack' = SetCurrent("lexical_error") /\ status' = "error" /\ UNCHANGED parseError
    BY <1>5 DEF LexicalError
  <2>2. "lexical_error" \in States /\ "lexical_error" \in ErrorStates
    BY DEF States, ErrorStates
  <2>3. ~Cancelled'
    BY <1>2, <2>1, Zenon DEF Cancelled
  <2> QED
    BY <1>1, <1>2, <2>1, <2>2, <2>3, TopIs DEF FindsError
<1>6. CASE MapColon(t)
  <2>1. Current = "map_sep" /\ t.tok = "colon" /\ GoTo(SetCurrent("map_need_val"))
    BY <1>6 DEF MapColon
  <2>2. StateOf(g) = "map_val"
    BY <1>3, <2>1 DEF SameLevel
  <2>3. Written(t) = Mark("colon")
    BY <2>1 DEF Written, ScalarToks, StringToks, NumberToks
  <2>4. PendingOf(Current) = <<>> /\ PendingOf("map_need_val") = <<Written(t)>>
    BY <2>1, <2>3 DEF PendingOf
  <2>5. /\ "map_need_val" \in States /\ StateOf(g) \in GenStates
        /\ SameLevel("map_need_val", StateOf(g))
    BY <2>2 DEF States, ValueStates, GenStates, SameLevel
  <2> QED
    BY <1>1, <2>1, <2>4, <2>5, ReadSeparator
<1>7. CASE MapComma(t)
  <2>1. Current = "map_got_val" /\ t.tok = "comma" /\ GoTo(SetCurrent("map_need_key"))
    BY <1>7 DEF MapComma
  <2>2. StateOf(g) = "map_key"
    BY <1>3, <2>1 DEF SameLevel
  <2>3. Written(t) = Mark("comma")
    BY <2>1 DEF Written, ScalarToks, StringToks, NumberToks
  <2>4. PendingOf(Current) = <<>> /\ PendingOf("map_need_key") = <<Written(t)>>
    BY <2>1, <2>3 DEF PendingOf
  <2>5. /\ "map_need_key" \in States /\ StateOf(g) \in GenStates
        /\ SameLevel("map_need_key", StateOf(g))
    BY <2>2 DEF States, KeyStates, GenStates, SameLevel
  <2> QED
    BY <1>1, <2>1, <2>4, <2>5, ReadSeparator
<1>8. CASE ArrayComma(t)
  <2>1. Current = "array_got_val" /\ t.tok = "comma" /\ GoTo(SetCurrent("array_need_val"))
    BY <1>8 DEF ArrayComma
  <2>2. StateOf(g) = "in_array"
    BY <1>3, <2>1 DEF SameLevel
  <2>3. Written(t) = Mark("comma")
    BY <2>1 DEF Written, ScalarToks, StringToks, NumberToks
  <2>4. PendingOf(Current) = <<>> /\ PendingOf("array_need_val") = <<Written(t)>>
    BY <2>1, <2>3 DEF PendingOf
  <2>5. /\ "array_need_val" \in States /\ StateOf(g) \in GenStates
        /\ SameLevel("array_need_val", StateOf(g))
    BY <2>2 DEF States, ValueStates, GenStates, SameLevel
  <2> QED
    BY <1>1, <2>1, <2>4, <2>5, ReadSeparator
<1> QED
  BY <1>1, <1>4, <1>5, <1>6, <1>7, <1>8 DEF SilentStep

-----------------------------------------------------------------------------
(* prettify and minify are clients of the parser                           *)

LEMMA ReformatSteps == [ReformatNext]_reformatVars => [Next]_vars
<1> SUFFICES ASSUME [ReformatNext]_reformatVars PROVE [Next]_vars
  OBVIOUS
<1>1. CASE Return
  BY <1>1 DEF Return
<1>2. CASE ParseText \/ EndChunk \/ CompleteText \/ Finish
  BY <1>2 DEF ParseText, CompleteText, Next, ApiStep
<1>3. ASSUME NEW t \in Lexemes, SilentStep(t) PROVE Next
  BY <1>3 DEF Next
<1>4. ASSUME NEW t \in Lexemes, GenerateStep(t) PROVE Next
  <2>1. \E go \in BOOLEAN : ClientStep(t, go)
    BY <1>4 DEF GenerateStep, GenerateScalar, GenerateKey, GenerateMapOpen, GenerateArrayOpen,
                GenerateMapClose, GenerateArrayClose, ClientStep
  <2> QED
    BY <2>1 DEF Next
<1>5. CASE UNCHANGED reformatVars
  BY <1>5 DEF reformatVars, vars
<1> QED
  BY <1>1, <1>2, <1>3, <1>4, <1>5 DEF ReformatNext

(* What is proved of the parser with an arbitrary client holds of prettify *)
(* and minify.                                                             *)
THEOREM ReformatIsAParser == ReformatSpec => Spec
<1>1. ReformatInit => Init
  BY DEF ReformatInit
<1> QED
  BY <1>1, ReformatSteps, PTL DEF ReformatSpec, Spec

-----------------------------------------------------------------------------
(* The invariant is inductive                                              *)

LEMMA LevelIsNoError ==
  ASSUME NEW stack, NEW gg, GenTyped(gg), Levels(stack, gg)
  PROVE  stack[Len(stack)] \notin ErrorStates
<1>1. Len(stack) \in 1 .. Len(stack)
  BY MaxDepthAssumption DEF Levels, GenTyped
<1>2. \E gs : SameLevel(stack[Len(stack)], gs)
  BY <1>1 DEF Levels
<1> QED
  BY <1>2 DEF SameLevel, ErrorStates

LEMMA ReformatInvInit == ReformatInit => ReformatInv
<1> SUFFICES ASSUME ReformatInit PROVE ReformatInv
  OBVIOUS
<1>1. Inv
  BY InvInit DEF ReformatInit
<1>2. /\ g.depth = 0 /\ g.state = [level \in 0 .. MaxDepth - 1 |-> "start"] /\ g.out = <<>>
      /\ stateStack = <<"start">> /\ consumed = <<>> /\ Current = "start"
      /\ call = "none" /\ status = "ok" /\ parseError = "none" /\ output.kind = "none"
  BY Fields DEF ReformatInit, Init, NewGenerator, Push, Current, Nothing
<1>3. 0 \in 0 .. MaxDepth - 1
  BY MaxDepthAssumption
<1>4. GenTyped(g)
  BY <1>2, <1>3 DEF GenTyped, GenStates
<1>5. Levels(stateStack, g)
  <2>1. SameLevel("start", "start")
    BY DEF SameLevel
  <2> QED
    BY <1>2, <1>3, <2>1 DEF Levels
<1>6. All(consumed) = g.out \o PendingOf(Current)
  <2>1. PendingOf(Current) = <<>>
    BY <1>2 DEF PendingOf
  <2>2. All(consumed) = <<>>
    BY <1>2 DEF All
  <2>3. <<>> \o <<>> = <<>>
    OBVIOUS
  <2> QED
    BY <1>2, <2>1, <2>2, <2>3
<1>7. ~Broken
  BY <1>2 DEF Broken, ErrorStates
<1>8. ~Cancelled
  BY <1>2, Zenon DEF Cancelled
<1> QED
  BY <1>1, <1>2, <1>4, <1>5, <1>6, <1>7, <1>8
     DEF ReformatInv, Synced, Calls, CancelledTooDeep, Returned

(* A step that goes on without an error.                                   *)
LEMMA StaysSynced ==
  ASSUME ReformatInv, status = "running", Inv',
         GenTyped(g'), Levels(stateStack', g'), All(consumed') = g'.out \o PendingOf(Current'),
         UNCHANGED <<parseError, status, call, output>>
  PROVE  ReformatInv'
<1>1. ~Broken'
  BY LevelIsNoError DEF Broken, Current
<1>2. output.kind # "json" /\ ~Cancelled /\ call # "none"
  BY RunningIsSynced
<1>3. ~Cancelled'
  BY <1>2 DEF Cancelled
<1> QED
  BY <1>1, <1>2, <1>3 DEF ReformatInv, Synced, Calls, CancelledTooDeep, Returned

(* A step of the parser that finds an error.                               *)
LEMMA StopsWithError ==
  ASSUME ReformatInv, status = "running", Inv', FindsError, UNCHANGED <<g, call, output>>
  PROVE  ReformatInv'
<1>1. output.kind # "json" /\ call # "none" /\ GenTyped(g)
  BY RunningIsSynced
<1>2. Broken' /\ status' = "error" /\ ~Cancelled'
  BY DEF FindsError, Broken
<1> QED
  BY <1>1, <1>2 DEF ReformatInv, Synced, Calls, CancelledTooDeep, Returned

(* A call begins or returns: only call and status change.                  *)
LEMMA CallKeeps ==
  ASSUME ReformatInv, Inv', Calls', ~Broken, output.kind # "json",
         UNCHANGED <<flags, stateStack, parseError, consumed, g, refusal, output>>
  PROVE  ReformatInv'
<1>1. ~Broken' /\ Current' = Current /\ (Cancelled' <=> Cancelled)
  BY DEF Broken, Current, Cancelled
<1> QED
  BY <1>1 DEF ReformatInv, Synced, CancelledTooDeep, Returned

LEMMA ReformatInvNext == ReformatInv /\ [ReformatNext]_reformatVars => ReformatInv'
<1> SUFFICES ASSUME ReformatInv, [ReformatNext]_reformatVars
             PROVE  ReformatInv'
  OBVIOUS
<1>0. Inv'
  BY ReformatSteps, InvNext DEF ReformatInv
<1>1. CASE Return
  <2>1. UNCHANGED <<flags, stateStack, parseError, call, status, consumed, g, refusal>>
    BY <1>1 DEF Return, vars
  <2>2. Current' = Current /\ (Broken' <=> Broken) /\ (Cancelled' <=> Cancelled)
    BY <2>1 DEF Broken, Current, Cancelled
  <2>3. output'.kind = "json" => call = "complete" /\ status = "ok" /\ output'.text = g.out
    BY <1>1 DEF Return, Json, Message
  <2> QED
    BY <1>0, <2>1, <2>2, <2>3
       DEF ReformatInv, Synced, Calls, CancelledTooDeep, TooDeep, Returned
<1>2. CASE (ParseText \/ EndChunk \/ CompleteText \/ Finish) /\ UNCHANGED <<g, refusal, output>>
  <2>1. CASE ParseText
    <3>1. /\ call = "none" /\ call' = "parse" /\ status' = "running"
          /\ UNCHANGED <<flags, stateStack, parseError, consumed>>
      BY <2>1 DEF ParseText, Parse, Enter
    <3>2. ~Broken /\ output.kind # "json"
      BY <3>1 DEF ReformatInv, Calls, Returned
    <3>3. Calls'
      BY <3>1, <3>2 DEF Calls, Broken, Current
    <3> QED
      BY <1>0, <1>2, <3>1, <3>2, <3>3, CallKeeps
  <2>2. CASE CompleteText
    <3>1. /\ call = "parse" /\ status = "ok" /\ call' = "complete" /\ status' = "running"
          /\ UNCHANGED <<flags, stateStack, parseError, consumed>>
      BY <2>2 DEF CompleteText, CompleteParse, Enter
    <3>2. ~Broken /\ output.kind # "json"
      BY <3>1 DEF ReformatInv, Calls, Returned
    <3>3. Calls'
      BY <3>1, <3>2 DEF Calls, Broken, Current
    <3> QED
      BY <1>0, <1>2, <3>1, <3>2, <3>3, CallKeeps
  <2>3. CASE EndChunk
    <3>1. /\ status = "running" /\ call = "parse" /\ call' = call /\ status' = "ok"
          /\ UNCHANGED <<flags, stateStack, parseError, consumed>>
      BY <2>3 DEF EndChunk, AtChunkEnd
    <3>2. ~Broken /\ output.kind # "json"
      BY <3>1, RunningIsSynced
    <3>3. Calls'
      BY <3>1, <3>2 DEF Calls, Broken, Current
    <3> QED
      BY <1>0, <1>2, <3>1, <3>2, <3>3, CallKeeps
  <2>4. CASE Finish
    <3>1. status = "running" /\ call = "complete" /\ UNCHANGED <<flags, call, consumed>>
      BY <2>4 DEF Finish, AtChunkEnd
    <3>2. /\ ~Broken /\ output.kind # "json" /\ flags = {} /\ GenTyped(g)
          /\ Levels(stateStack, g) /\ stateStack \in Seq(States) /\ Len(stateStack) > 0
      BY <3>1, RunningIsSynced
    <3>3. CASE MayEndIn(Current)
      <4>1. status' = "ok" /\ UNCHANGED <<stateStack, parseError>>
        BY <2>4, <3>3 DEF Finish
      <4>2. SameLevel(Current, StateOf(g))
        BY <3>2, Heights
      <4>3. Current = "parse_complete"
        BY <3>2, <3>3, <4>2 DEF MayEndIn, SameLevel
      <4>4. Calls'
        BY <3>1, <3>2, <4>1, <4>3 DEF Calls, Broken, Current
      <4> QED
        BY <1>0, <1>2, <3>1, <3>2, <4>1, <4>4, CallKeeps
    <3>4. CASE ~MayEndIn(Current)
      <4>1. \E message : message # "client cancelled" /\ Fail(message)
        BY <2>4, <3>4, Zenon DEF Finish
      <4>2. FindsError
        BY <3>2, <4>1, FailFinds
      <4> QED
        BY <1>0, <1>2, <3>1, <4>2, StopsWithError
    <3> QED
      BY <3>3, <3>4
  <2> QED
    BY <1>2, <2>1, <2>2, <2>3, <2>4
<1>3. ASSUME NEW t \in Lexemes, SilentStep(t), UNCHANGED <<g, refusal, output>>
      PROVE  ReformatInv'
  <2>1. status = "running" /\ UNCHANGED call /\ (ReadsSeparator \/ FindsError)
    BY <1>3, SilentEffect
  <2>2. CASE ReadsSeparator
    <3>1. GenTyped(g')
      BY <1>3, <2>1, RunningIsSynced
    <3> QED
      BY <1>0, <1>3, <2>1, <2>2, <3>1, StaysSynced DEF ReadsSeparator
  <2>3. CASE FindsError
    BY <1>0, <1>3, <2>1, <2>3, StopsWithError
  <2> QED
    BY <2>1, <2>2, <2>3
<1>4. ASSUME NEW t \in Lexemes, GenerateStep(t)
      PROVE  ReformatInv'
  <2>1. /\ status = "running" /\ consumed' = Append(consumed, t) /\ UNCHANGED <<call, output>>
        /\ StaysInStep \/ IsRefused(t)
    BY <1>4, GenerateStepEffect
  <2>2. CASE StaysInStep
    BY <1>0, <2>1, <2>2, StaysSynced DEF StaysInStep
  <2>3. CASE IsRefused(t)
    <3>1. consumed \in Seq(Lexemes) /\ output.kind # "json" /\ call # "none"
      BY <2>1, RunningIsSynced
    <3>2. consumed'[Len(consumed')] = t
      BY <2>1, <3>1
    <3>3. Broken' /\ status' = "client_canceled" /\ GenTyped(g') /\ TooDeep'
      BY <2>3, <3>2 DEF IsRefused, Broken, TooDeep
    <3> QED
      BY <1>0, <2>1, <3>1, <3>3 DEF ReformatInv, Synced, Calls, CancelledTooDeep, Returned
  <2> QED
    BY <2>1, <2>2, <2>3
<1>5. CASE UNCHANGED reformatVars
  BY <1>0, <1>5 DEF reformatVars, ReformatInv, Synced, Calls, CancelledTooDeep, Cancelled, TooDeep,
                    Returned, Broken, Current
<1> QED
  BY <1>1, <1>2, <1>3, <1>4, <1>5 DEF ReformatNext

LEMMA ReformatInvHolds == ReformatSpec => []ReformatInv
  BY ReformatInvInit, ReformatInvNext, PTL DEF ReformatSpec

(* Whatever the text and YAJL_MAX_DEPTH, the generator of prettify and     *)
(* minify is in the state that the parser is in, level by level, and stays *)
(* within its array.                                                       *)
THEOREM GeneratorInStepHolds == ReformatSpec => []GeneratorInStep
<1>1. ReformatInv => GeneratorInStep
  BY DEF ReformatInv, Synced, Levels, GenTyped, GeneratorInStep
<1> QED
  BY <1>1, ReformatInvHolds, PTL

(* The generator refuses nothing but what is nested too deep.              *)
THEOREM OnlyDepthIsRefusedHolds == ReformatSpec => []OnlyDepthIsRefused
<1>1. ReformatInv => OnlyDepthIsRefused
  BY Zenon DEF ReformatInv, CancelledTooDeep, Cancelled, TooDeep, OnlyDepthIsRefused
<1> QED
  BY <1>1, ReformatInvHolds, PTL

(* What prettify and minify return is what they have read, token by token, *)
(* for texts of every length.                                              *)
THEOREM OutputIsInputHolds == ReformatSpec => []OutputIsInput
<1>1. ASSUME ReformatInv, output.kind = "json"
      PROVE  output.text = All(consumed)
  <2>1. output.text = g.out /\ Current = "parse_complete" /\ ~Broken /\ GenTyped(g)
    BY <1>1 DEF ReformatInv, Returned, Calls
  <2>2. All(consumed) = g.out \o PendingOf(Current)
    BY <1>1, <2>1 DEF ReformatInv, Synced
  <2>3. PendingOf(Current) = <<>>
    BY <2>1 DEF PendingOf
  <2>4. g.out \in Seq(OutTok)
    BY <2>1 DEF GenTyped
  <2> QED
    BY <2>1, <2>2, <2>3, <2>4, ConcatEmptySeq
<1>2. ReformatInv => OutputIsInput
  BY <1>1 DEF OutputIsInput, All
<1> QED
  BY <1>2, ReformatInvHolds, PTL
=============================================================================
