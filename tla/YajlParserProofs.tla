--------------------------- MODULE YajlParserProofs ---------------------------
(***************************************************************************)
(* Theorems about YajlParser: type correctness, the shape of the state     *)
(* stack, the finality of errors, and that the parser accepts the JSON     *)
(* texts and no others; for every set of options, every set of tokens and  *)
(* texts of every length.                                                  *)
(***************************************************************************)
EXTENDS ParserTexts, Induction, SequenceTheorems

-----------------------------------------------------------------------------
(* The states of a level below the top, by name.                           *)
LEMMA StateKinds ==
  /\ InnerStates = {"map_start", "map_sep", "map_need_val", "map_got_val",
                    "map_need_key", "array_start", "array_got_val", "array_need_val"}
  /\ InnerStates \subseteq States
  /\ TopStates \subseteq States
  /\ ErrorStates \subseteq States
  /\ TopStates \subseteq RootStates
  /\ {"start", "parse_complete"} \subseteq TopStates
  /\ InnerStates \cap (TopStates \cup ErrorStates) = {}
  BY DEF InnerStates, RootStates, TopStates, ErrorStates, States, ValueStates, KeyStates

(* The three ways the stack changes.  In each lemma stack is the stack     *)
(* before the change.                                                      *)

(* yajl_bs_set: the top is replaced by a state that fits its level.        *)
LEMMA SetCurrentShape ==
  ASSUME stateStack \in Seq(States), StackShape,
         NEW s \in States,
         Len(stateStack) = 1 => s \in TopStates \cup ErrorStates,
         Len(stateStack) # 1 => s \in InnerStates \cup ErrorStates
  PROVE  SetCurrent(s) \in Seq(States) /\ WellFormed(SetCurrent(s))
  BY DEF StackShape, WellFormed, SetCurrent

(* yajl_bs_set followed by yajl_bs_push: a container opens.                *)
LEMMA OpenShape ==
  ASSUME stateStack \in Seq(States), StackShape, Current \in ValueStates,
         NEW s \in InnerStates
  PROVE  LET opened == Push(SetCurrent(AfterValue(Current)), s)
         IN  opened \in Seq(States) /\ WellFormed(opened)
<1> DEFINE below == SetCurrent(AfterValue(Current))
<1>1. Len(stateStack) = 1 => AfterValue(Current) = "parse_complete"
  BY DEF StackShape, WellFormed, AfterValue, Current, TopStates, RootStates, ErrorStates, ValueStates
<1>2. Len(stateStack) # 1 => AfterValue(Current) \in {"map_got_val", "array_got_val"}
  BY DEF StackShape, WellFormed, AfterValue, Current, InnerStates, TopStates, RootStates, ErrorStates, ValueStates
<1>3. AfterValue(Current) \in States
  BY <1>1, <1>2 DEF States
<1>4. /\ below \in Seq(States)
      /\ Len(below) = Len(stateStack)
      /\ Len(below) \in Nat \ {0}
      /\ below[Len(below)] = AfterValue(Current)
      /\ \A i \in 1 .. Len(below) - 1 : below[i] = stateStack[i]
  BY <1>3 DEF StackShape, WellFormed, SetCurrent
<1>5. s \in States
  BY DEF InnerStates
<1>6. /\ Push(below, s) \in Seq(States)
      /\ Len(Push(below, s)) = Len(below) + 1
      /\ Push(below, s)[Len(below) + 1] = s
      /\ \A i \in 1 .. Len(below) : Push(below, s)[i] = below[i]
  BY <1>4, <1>5 DEF Push
<1>7. ASSUME NEW i \in 1 .. Len(below)
      PROVE  IF i = 1 THEN below[i] = "parse_complete"
                      ELSE below[i] \in {"map_got_val", "array_got_val"}
  BY <1>1, <1>2, <1>4, <1>7 DEF StackShape, WellFormed
<1>8. WellFormed(Push(below, s))
  BY <1>4, <1>6, <1>7 DEF WellFormed
<1> QED
  BY <1>6, <1>8

(* yajl_bs_pop: a container closes, and its parent already expects what    *)
(* follows the child.                                                      *)
LEMMA CloseShape ==
  ASSUME stateStack \in Seq(States), StackShape, Current \in InnerStates
  PROVE  /\ Len(stateStack) > 1
         /\ Pop(stateStack) \in Seq(States)
         /\ WellFormed(Pop(stateStack))
<1>1. Len(stateStack) \in Nat /\ Len(stateStack) > 1
  <2>1. Len(stateStack) \in Nat /\ Len(stateStack) > 0
    BY DEF StackShape, WellFormed
  <2>2. Len(stateStack) # 1
    BY StateKinds DEF StackShape, WellFormed, Current
  <2>3. \A n \in Nat : n > 0 /\ n # 1 => n > 1
    OBVIOUS
  <2> QED
    BY <2>1, <2>2, <2>3
<1> DEFINE n == Len(stateStack) - 1
<1>2. n \in Nat /\ n > 0
  BY <1>1
<1>3. /\ Pop(stateStack) \in Seq(States)
      /\ Len(Pop(stateStack)) = n
      /\ \A i \in 1 .. n : Pop(stateStack)[i] = stateStack[i]
  BY <1>1 DEF Pop
<1>4. Len(Pop(stateStack)) > 0
  BY <1>2, <1>3
<1>5. WellFormed(Pop(stateStack))
  BY <1>2, <1>3, <1>4, StateKinds DEF StackShape, WellFormed
<1> QED
  BY <1>1, <1>3, <1>5
-----------------------------------------------------------------------------
(* Every step leaves the stack alone or changes it in one of these ways.   *)

SameStack == UNCHANGED stateStack

Sets == \E s \in States :
  /\ Len(stateStack) = 1 => s \in TopStates \cup ErrorStates
  /\ Len(stateStack) # 1 => s \in InnerStates \cup ErrorStates
  /\ stateStack' = SetCurrent(s)

Opens == \E s \in InnerStates :
  /\ Current \in ValueStates
  /\ stateStack' = Push(SetCurrent(AfterValue(Current)), s)

Closes == Current \in InnerStates /\ stateStack' = Pop(stateStack)

LEMMA EffectsKeepShape ==
  ASSUME stateStack \in Seq(States), StackShape,
         flags' = flags,
         SameStack \/ Sets \/ Opens \/ Closes
  PROVE  stateStack' \in Seq(States) /\ StackShape'
<1>0. StackShape' <=> WellFormed(stateStack')
  BY DEF StackShape, WellFormed, TopStates
<1>1. CASE SameStack
  BY <1>0, <1>1 DEF SameStack, StackShape
<1>2. CASE Sets
  BY <1>0, <1>2, SetCurrentShape DEF Sets
<1>3. CASE Opens
  BY <1>0, <1>3, OpenShape DEF Opens
<1>4. CASE Closes
  BY <1>0, <1>4, CloseShape DEF Closes
<1> QED
  BY <1>1, <1>2, <1>3, <1>4

(* Setting a state of the kind the level has, or an error state.           *)
LEMMA SetsLevel ==
  ASSUME stateStack \in Seq(States), StackShape, NEW s \in States,
         stateStack' = SetCurrent(s),
         \/ s \in ErrorStates
         \/ s \in InnerStates /\ Current \in InnerStates
         \/ s \in TopStates /\ Current \in TopStates
  PROVE  Sets
<1>1. Current \in InnerStates => Len(stateStack) # 1
  BY StateKinds DEF StackShape, WellFormed, Current
<1>2. Current \in TopStates => Len(stateStack) = 1
  BY DEF StackShape, WellFormed, Current, InnerStates, TopStates, RootStates, ErrorStates
<1> QED
  BY <1>1, <1>2 DEF Sets

StackEffect == SameStack \/ Sets \/ Opens \/ Closes

(* An error state may replace the top of any level.                        *)
LEMMA ErrorEffect ==
  ASSUME stateStack \in Seq(States), StackShape, NEW s \in ErrorStates,
         stateStack' = SetCurrent(s)
  PROVE  StackEffect
<1>1. s \in States
  BY DEF States
<1> QED
  BY <1>1, SetsLevel DEF StackEffect

(* A callback either lets the stack change as intended or cancels.         *)
LEMMA CallbackEffect ==
  ASSUME stateStack \in Seq(States), StackShape, NEW go, NEW stack,
         Callback(go, stack),
         stateStack' = stack => StackEffect
  PROVE  StackEffect
<1>1. CASE stateStack' = stack
  BY <1>1
<1>2. CASE stateStack' = SetCurrent("parse_error")
  BY <1>2, ErrorEffect DEF ErrorStates
<1> QED
  BY <1>1, <1>2 DEF Callback, GoTo

LEMMA ClientStepEffect ==
  ASSUME stateStack \in Seq(States), StackShape, NEW t, NEW go,
         ClientStep(t, go)
  PROVE  StackEffect
<1>1. CASE Scalar(t, go)
  <2>1. CASE Current \in {"start", "got_value"}
    <3>1. AfterValue(Current) = "parse_complete"
      BY <2>1 DEF AfterValue
    <3>2. Current \in TopStates
      BY <2>1, StateKinds DEF StackShape, WellFormed, Current, ErrorStates
    <3>3. "parse_complete" \in TopStates /\ "parse_complete" \in States
      BY StateKinds
    <3> QED
      BY <1>1, <3>1, <3>2, <3>3, SetsLevel, CallbackEffect DEF Scalar, StackEffect
  <2>2. CASE Current \notin {"start", "got_value"}
    <3>1. Current \in InnerStates
      BY <1>1, <2>2, StateKinds DEF Scalar, ValueStates
    <3>2. AfterValue(Current) \in {"map_got_val", "array_got_val"}
      BY <2>2 DEF AfterValue
    <3>3. AfterValue(Current) \in InnerStates /\ AfterValue(Current) \in States
      BY <3>2, StateKinds
    <3> QED
      BY <1>1, <3>1, <3>3, SetsLevel, CallbackEffect DEF Scalar, StackEffect
  <2> QED
    BY <2>1, <2>2
<1>2. CASE OpenMap(t, go)
  <2>1. "map_start" \in InnerStates
    BY StateKinds
  <2> QED
    BY <1>2, <2>1, CallbackEffect DEF OpenMap, StackEffect, Opens
<1>3. CASE OpenArray(t, go)
  <2>1. "array_start" \in InnerStates
    BY StateKinds
  <2> QED
    BY <1>3, <2>1, CallbackEffect DEF OpenArray, StackEffect, Opens
<1>4. CASE MapKey(t, go)
  <2>1. Current \in InnerStates /\ "map_sep" \in InnerStates /\ "map_sep" \in States
    BY <1>4, StateKinds DEF MapKey, KeyStates
  <2> QED
    BY <1>4, <2>1, SetsLevel, CallbackEffect DEF MapKey, StackEffect
<1>5. CASE CloseEmptyArray(t, go) \/ CloseEmptyMap(t, go) \/ CloseMap(t, go) \/ CloseArray(t, go)
  <2>1. Current \in InnerStates /\ Callback(go, Pop(stateStack))
    BY <1>5, StateKinds DEF CloseEmptyArray, CloseEmptyMap, CloseMap, CloseArray
  <2> QED
    BY <2>1, CallbackEffect DEF StackEffect, Closes
<1> QED
  BY <1>1, <1>2, <1>3, <1>4, <1>5 DEF ClientStep

LEMMA SilentStepEffect ==
  ASSUME stateStack \in Seq(States), StackShape, NEW t, SilentStep(t)
  PROVE  StackEffect
<1>1. CASE \/ Overflow(t) \/ UnallowedToken(t) \/ BadKey(t) \/ NoColon(t)
           \/ BadAfterPair(t) \/ BadAfterElement(t) \/ TrailingGarbage(t)
           \/ LexicalError(t)
  <2>1. \E s \in ErrorStates : stateStack' = SetCurrent(s)
    BY <1>1 DEF Overflow, UnallowedToken, BadKey, NoColon, BadAfterPair,
                BadAfterElement, TrailingGarbage, LexicalError, Fail, ErrorStates
  <2> QED
    BY <2>1, ErrorEffect
<1>2. CASE MapColon(t) \/ MapComma(t) \/ ArrayComma(t)
  <2>1. Current \in InnerStates
    BY <1>2, StateKinds DEF MapColon, MapComma, ArrayComma
  <2>2. PICK s \in {"map_need_val", "map_need_key", "array_need_val"} :
               stateStack' = SetCurrent(s)
    BY <1>2 DEF MapColon, MapComma, ArrayComma, GoTo
  <2>3. s \in InnerStates /\ s \in States
    BY StateKinds
  <2> QED
    BY <2>1, <2>2, <2>3, SetsLevel DEF StackEffect
<1> QED
  BY <1>1, <1>2 DEF SilentStep

LEMMA ApiStepEffect ==
  ASSUME stateStack \in Seq(States), StackShape, ApiStep
  PROVE  StackEffect
<1>1. CASE Parse \/ CompleteParse \/ Refuse \/ EndChunk
  BY <1>1 DEF Parse, CompleteParse, Enter, Refuse, EndChunk, StackEffect, SameStack
<1>2. CASE NextValue
  <2>1. Current \in TopStates /\ "got_value" \in TopStates /\ "got_value" \in States
    BY <1>2, StateKinds DEF NextValue, TopStates, RootStates
  <2> QED
    BY <1>2, <2>1, SetsLevel DEF NextValue, GoTo, StackEffect
<1>3. CASE Finish
  <2>1. SameStack \/ stateStack' = SetCurrent("parse_error")
    BY <1>3 DEF Finish, Fail, SameStack
  <2> QED
    BY <2>1, ErrorEffect DEF StackEffect, ErrorStates
<1> QED
  BY <1>1, <1>2, <1>3 DEF ApiStep

-----------------------------------------------------------------------------
(* The other variables keep their types.                                   *)

OthersTyped ==
  /\ flags \in Configurations
  /\ parseError \in Messages
  /\ call \in {"none", "parse", "complete"}
  /\ status \in Statuses
  /\ unfinished \in BOOLEAN
  /\ consumed \in Seq(Lexemes)

LEMMA LexTyped ==
  ASSUME OthersTyped, NEW t \in Lexemes, Lex(t)
  PROVE  flags' = flags /\ call' = call /\ unfinished' \in BOOLEAN /\ consumed' \in Seq(Lexemes)
<1>1. flags' = flags /\ call' = call /\ unfinished' \in BOOLEAN /\ consumed' = Append(consumed, t)
  BY DEF Lex
<1>2. Append(consumed, t) \in Seq(Lexemes)
  BY DEF OthersTyped
<1> QED
  BY <1>1, <1>2

(* The options are set once, by yajl_config.                               *)
LEMMA FlagsFixed == [Next]_vars => flags' = flags
<1>1. \A t, go : ClientStep(t, go) => Lex(t)
  BY DEF ClientStep, Scalar, OpenMap, OpenArray, CloseEmptyArray, MapKey,
         CloseEmptyMap, CloseMap, CloseArray
<1>2. \A t : SilentStep(t) => Lex(t)
  BY DEF SilentStep, Overflow, UnallowedToken, BadKey, MapColon, NoColon, MapComma,
         BadAfterPair, ArrayComma, BadAfterElement, TrailingGarbage, LexicalError
<1>3. ApiStep => flags' = flags
  BY DEF ApiStep, Parse, CompleteParse, Enter, NextValue, Refuse, EndChunk, Finish,
         AtChunkEnd
<1> QED
  BY <1>1, <1>2, <1>3 DEF Next, Lex, vars

LEMMA ClientStepTyped ==
  ASSUME OthersTyped, NEW t \in Lexemes, NEW go, ClientStep(t, go)
  PROVE  OthersTyped'
<1>1. Lex(t) /\ \E stack : Callback(go, stack)
  BY DEF ClientStep, Scalar, OpenMap, OpenArray, CloseEmptyArray, MapKey,
         CloseEmptyMap, CloseMap, CloseArray
<1>2. parseError' \in Messages /\ status' \in Statuses
  BY <1>1 DEF Callback, GoTo, OthersTyped, Messages, Statuses
<1> QED
  BY <1>1, <1>2, LexTyped DEF OthersTyped

LEMMA SilentStepTyped ==
  ASSUME OthersTyped, NEW t \in Lexemes, SilentStep(t)
  PROVE  OthersTyped'
<1>1. Lex(t)
  BY DEF SilentStep, Overflow, UnallowedToken, BadKey, MapColon, NoColon, MapComma,
         BadAfterPair, ArrayComma, BadAfterElement, TrailingGarbage, LexicalError
<1>2. \/ \E message \in Messages : Fail(message)
      \/ \E stack : GoTo(stack)
      \/ status' = "error" /\ UNCHANGED parseError
  BY DEF SilentStep, Overflow, UnallowedToken, BadKey, MapColon, NoColon, MapComma,
         BadAfterPair, ArrayComma, BadAfterElement, TrailingGarbage, LexicalError,
         Messages
<1>3. parseError' \in Messages /\ status' \in Statuses
  BY <1>2 DEF Fail, GoTo, OthersTyped, Statuses
<1> QED
  BY <1>1, <1>3, LexTyped DEF OthersTyped

LEMMA ApiStepTyped ==
  ASSUME OthersTyped, ApiStep
  PROVE  OthersTyped'
<1>1. CASE Parse \/ CompleteParse
  BY <1>1 DEF Parse, CompleteParse, Enter, OthersTyped, Statuses
<1>2. CASE NextValue \/ Refuse
  BY <1>2 DEF NextValue, Refuse, GoTo, OthersTyped, Statuses
<1>3. CASE EndChunk
  BY <1>3 DEF EndChunk, AtChunkEnd, OthersTyped, Statuses
<1>4. CASE Finish
  BY <1>4 DEF Finish, AtChunkEnd, Fail, OthersTyped, Statuses, Messages
<1> QED
  BY <1>1, <1>2, <1>3, <1>4 DEF ApiStep

-----------------------------------------------------------------------------
(* The inductive invariant: the types, without which a stack of states     *)
(* cannot be taken apart, and the shape.                                   *)

Inv == TypeOK /\ StackShape

LEMMA InvInit == Init => Inv
<1> SUFFICES ASSUME Init
             PROVE  Inv
  OBVIOUS
<1>1. /\ stateStack \in Seq(States)
      /\ Len(stateStack) = 1
      /\ stateStack[1] = "start"
  BY DEF Init, Push, States, ValueStates
<1>2. StackShape
  BY <1>1, StateKinds DEF StackShape, WellFormed
<1>3. consumed \in Seq(Lexemes)
  <2>1. <<>> \in Seq(Lexemes)
    OBVIOUS
  <2> QED
    BY <2>1 DEF Init
<1>4. unfinished \in BOOLEAN
  BY DEF Init
<1>5. TypeOK
  BY <1>1, <1>3, <1>4 DEF Init, TypeOK, Messages, Statuses
<1> QED
  BY <1>2, <1>5 DEF Inv

LEMMA InvNext == Inv /\ [Next]_vars => Inv'
<1> SUFFICES ASSUME Inv, [Next]_vars
             PROVE  Inv'
  OBVIOUS
<1>1. stateStack \in Seq(States) /\ StackShape /\ OthersTyped /\ flags' = flags
  BY FlagsFixed DEF Inv, TypeOK, OthersTyped
<1>2. CASE ApiStep
  BY <1>1, <1>2, ApiStepEffect, ApiStepTyped, EffectsKeepShape
     DEF StackEffect, Inv, TypeOK, OthersTyped
<1>3. ASSUME NEW t \in Lexemes, SilentStep(t)
      PROVE  Inv'
  BY <1>1, <1>3, SilentStepEffect, SilentStepTyped, EffectsKeepShape
     DEF StackEffect, Inv, TypeOK, OthersTyped
<1>4. ASSUME NEW t \in Lexemes, NEW go \in BOOLEAN, ClientStep(t, go)
      PROVE  Inv'
  BY <1>1, <1>4, ClientStepEffect, ClientStepTyped, EffectsKeepShape
     DEF StackEffect, Inv, TypeOK, OthersTyped
<1>5. CASE UNCHANGED vars
  BY <1>5 DEF vars, Inv, TypeOK, StackShape, WellFormed, TopStates
<1> QED
  BY <1>2, <1>3, <1>4, <1>5 DEF Next

(* Whatever the text, the options and the answers of the client, the       *)
(* variables of the parser have their types.                               *)
THEOREM TypeCorrect == Spec => []TypeOK
<1>1. Inv => TypeOK
  BY DEF Inv
<1> QED
  BY <1>1, InvInit, InvNext, PTL DEF Spec

(* Whatever the text, the options and the answers of the client, the state *)
(* stack mirrors the nesting of the text and is never popped empty.        *)
THEOREM StackMirrorsNesting == Spec => []StackShape
<1>1. Inv => StackShape
  BY DEF Inv
<1> QED
  BY <1>1, InvInit, InvNext, PTL DEF Spec

(* A handle that has failed never reports success again.                   *)
THEOREM ErrorsAreFinal == Spec => ErrorIsFinal
<1>1. ASSUME Current \in ErrorStates, Next
      PROVE  stateStack' = stateStack /\ status' # "ok"
  <2>1. Current \notin ValueStates \cup KeyStates
          \cup {"map_sep", "map_got_val", "array_got_val", "parse_complete"}
    BY <1>1 DEF ErrorStates, ValueStates, KeyStates
  <2>2. Current # "array_start" /\ Current # "map_start"
    BY <2>1 DEF ValueStates, KeyStates
  <2>3. \A t, go : ~ClientStep(t, go)
    BY <2>1, <2>2 DEF ClientStep, Scalar, OpenMap, OpenArray, CloseEmptyArray,
                      MapKey, CloseEmptyMap, CloseMap, CloseArray
  <2>4. \A t : ~SilentStep(t)
    BY <1>1, <2>1 DEF SilentStep, Overflow, UnallowedToken, BadKey, MapColon,
                      NoColon, MapComma, BadAfterPair, ArrayComma, BadAfterElement,
                      TrailingGarbage, LexicalError
  <2>5. ~EndChunk /\ ~Finish /\ ~NextValue
    BY <1>1, <2>1 DEF EndChunk, Finish, AtChunkEnd, NextValue
  <2>6. Parse \/ CompleteParse \/ Refuse
    BY <1>1, <2>3, <2>4, <2>5 DEF Next, ApiStep
  <2> QED
    BY <2>6 DEF Parse, CompleteParse, Enter, Refuse
<1>2. [Next]_vars => [(Current \in ErrorStates) =>
                        (stateStack' = stateStack /\ status' # "ok")]_vars
  BY <1>1
<1> QED
  BY <1>2, PTL DEF Spec, ErrorIsFinal


-----------------------------------------------------------------------------
(* The table of the grammar                                                *)

AddRow(n, rows) == Append(rows, Row(n, rows))

Fills(f, m) ==
  /\ f[0] = <<>>
  /\ \A n \in 1 .. m : f[n] = AddRow(n, f[n - 1])

LEMMA TablesExist ==
  \A m \in Nat : \E f : Fills(f, m)
<1> DEFINE S == {m \in Nat : \E f : Fills(f, m)}
<1>1. 0 \in S
  <2>1. Fills([k \in {0} |-> <<>>], 0)
    BY DEF Fills
  <2> QED
    BY <2>1
<1>2. ASSUME NEW m \in Nat, m \in S
      PROVE  m + 1 \in S
  <2>1. PICK f : Fills(f, m)
    BY <1>2
  <2> DEFINE row == AddRow(m + 1, f[m])
             g == [k \in 0 .. m + 1 |-> IF k = m + 1 THEN row ELSE f[k]]
  <2> HIDE DEF row
  <2>2. g[0] = <<>>
    BY <2>1 DEF Fills
  <2>3. ASSUME NEW n \in 1 .. m + 1
        PROVE  g[n] = AddRow(n, g[n - 1])
    <3>1. n \in 0 .. m + 1 /\ n - 1 \in 0 .. m + 1 /\ n - 1 # m + 1
      OBVIOUS
    <3>2. g[n - 1] = f[n - 1]
      BY <3>1
    <3>3. CASE n = m + 1
      <4>1. n - 1 = m /\ g[n] = row
        BY <3>1, <3>3
      <4> HIDE DEF g
      <4> QED
        BY <3>2, <3>3, <4>1 DEF row
    <3>4. CASE n # m + 1
      <4>1. n \in 1 .. m /\ g[n] = f[n]
        BY <3>1, <3>4
      <4>2. f[n] = AddRow(n, f[n - 1])
        BY <2>1, <4>1 DEF Fills
      <4> HIDE DEF g
      <4> QED
        BY <3>2, <4>1, <4>2
    <3> QED
      BY <3>3, <3>4
  <2>4. Fills(g, m + 1)
    <3> HIDE DEF g
    <3> QED
      BY <2>2, <2>3 DEF Fills
  <2>5. m + 1 \in Nat
    OBVIOUS
  <2> QED
    BY <2>4, <2>5
<1>3. \A m \in Nat : m \in S
  <2> HIDE DEF S
  <2> QED
    BY <1>1, <1>2, InductionOnNat
<1> QED
  BY <1>3

LEMMA TablesAgree ==
  ASSUME NEW m \in Nat, NEW k \in Nat, NEW f, NEW g, Fills(f, m), Fills(g, k), m <= k
  PROVE  \A n \in 0 .. m : f[n] = g[n]
<1> DEFINE S == {n \in 0 .. m : f[n] = g[n]}
<1>1. 0 \in S
  BY DEF Fills
<1>2. ASSUME NEW n \in 0 .. m - 1, n \in S
      PROVE  n + 1 \in S
  <2>1. n + 1 \in 1 .. m /\ n + 1 \in 1 .. k /\ (n + 1) - 1 = n /\ n + 1 \in 0 .. m
    OBVIOUS
  <2>2. f[n + 1] = AddRow(n + 1, f[n]) /\ g[n + 1] = AddRow(n + 1, g[n]) /\ f[n] = g[n]
    BY <1>2, <2>1 DEF Fills
  <2>3. f[n + 1] = g[n + 1]
    BY <2>2, Zenon
  <2> QED
    BY <2>1, <2>3
<1>3. \A n \in 0 .. m : n \in S
  <2> HIDE DEF S
  <2> QED
    BY <1>1, <1>2, InductionUpTo
<1> QED
  BY <1>3

LEMMA RowsEquation ==
  /\ Rows[0] = <<>>
  /\ \A n \in Nat \ {0} : Rows[n] = AddRow(n, Rows[n - 1])
<1> DEFINE Equation(f) == f = [n \in Nat |-> IF n = 0 THEN <<>> ELSE AddRow(n, f[n - 1])]
           Table(m) == CHOOSE f : Fills(f, m)
           h == [n \in Nat |-> Table(n)[n]]
<1>1. \A m \in Nat : Fills(Table(m), m)
  BY TablesExist, Zenon
<1> HIDE DEF Table
<1>2. h[0] = <<>>
  BY <1>1 DEF Fills
<1>3. ASSUME NEW n \in Nat \ {0}
      PROVE  h[n] = AddRow(n, h[n - 1])
  <2>1. n - 1 \in Nat /\ n \in Nat /\ n \in 1 .. n /\ n - 1 \in 0 .. n - 1 /\ n - 1 <= n
    OBVIOUS
  <2>2. Table(n)[n] = AddRow(n, Table(n)[n - 1])
    BY <1>1, <2>1 DEF Fills
  <2>3. Table(n - 1)[n - 1] = Table(n)[n - 1]
    BY <1>1, <2>1, TablesAgree
  <2>4. h[n] = Table(n)[n] /\ h[n - 1] = Table(n - 1)[n - 1]
    BY <2>1
  <2> HIDE DEF h
  <2> QED
    BY <2>2, <2>3, <2>4
<1>4. h = [n \in Nat |-> IF n = 0 THEN <<>> ELSE AddRow(n, h[n - 1])]
  <2> DEFINE k == [n \in Nat |-> IF n = 0 THEN <<>> ELSE AddRow(n, h[n - 1])]
  <2>1. \A n \in Nat : h[n] = k[n]
    <3> HIDE DEF h
    <3> QED
      BY <1>2, <1>3
  <2>2. h = [n \in Nat |-> h[n]]
    BY Zenon
  <2> HIDE DEF h
  <2> QED
    BY <2>1, <2>2
<1>5. Equation(CHOOSE f : Equation(f))
  <2>1. Equation(h)
    BY <1>4, Zenon
  <2> HIDE DEF Equation
  <2> QED
    BY <2>1
<1>6. Rows = CHOOSE f : Equation(f)
  BY DEF Rows, AddRow
<1>7. Rows = [n \in Nat |-> IF n = 0 THEN <<>> ELSE AddRow(n, Rows[n - 1])]
  <2> HIDE DEF h
  <2> QED
    BY <1>5, <1>6, Zenon
<1> QED
  BY <1>7

(* The phrases with n tokens.                                              *)
RowOf(n) == Row(n, Rows[n - 1])
AllRows == {RowOf(n) : n \in Nat \ {0}}

LEMMA RowsAre ==
  \A n \in Nat : Rows[n] \in Seq(AllRows) /\ Len(Rows[n]) = n /\ \A k \in 1 .. n : Rows[n][k] = RowOf(k)
<1> DEFINE S == {n \in Nat : /\ Rows[n] \in Seq(AllRows) /\ Len(Rows[n]) = n
                             /\ \A k \in 1 .. n : Rows[n][k] = RowOf(k)}
<1>1. 0 \in S
  <2>1. Rows[0] = <<>>
    BY RowsEquation
  <2>2. <<>> \in Seq(AllRows) /\ Len(<<>>) = 0 /\ 1 .. 0 = {}
    OBVIOUS
  <2> QED
    BY <2>1, <2>2
<1>2. ASSUME NEW n \in Nat, n \in S
      PROVE  n + 1 \in S
  <2> DEFINE rows == Rows[n]
             row  == RowOf(n + 1)
  <2>1. rows \in Seq(AllRows) /\ Len(rows) = n /\ \A k \in 1 .. n : rows[k] = RowOf(k)
    BY <1>2
  <2>2. n + 1 \in Nat \ {0} /\ (n + 1) - 1 = n
    OBVIOUS
  <2>3. row \in AllRows
    BY <2>2 DEF AllRows
  <2>4. Rows[n + 1] = Append(rows, row)
    BY <2>2, RowsEquation DEF AddRow, RowOf
  <2>5. ASSUME NEW T, NEW q \in Seq(T), Len(q) = n, NEW e \in T
        PROVE  /\ Append(q, e) \in Seq(T) /\ Len(Append(q, e)) = n + 1
               /\ \A k \in 1 .. n : Append(q, e)[k] = q[k]
               /\ Append(q, e)[n + 1] = e
    BY <2>5
  <2>6. /\ Append(rows, row) \in Seq(AllRows) /\ Len(Append(rows, row)) = n + 1
        /\ \A k \in 1 .. n : Append(rows, row)[k] = rows[k]
        /\ Append(rows, row)[n + 1] = row
    <3> HIDE DEF rows, row
    <3> QED
      BY <2>1, <2>3, <2>5
  <2>7. \A k \in 1 .. n + 1 : k \in 1 .. n \/ k = n + 1
    OBVIOUS
  <2>8. \A k \in 1 .. n + 1 : Append(rows, row)[k] = RowOf(k)
    <3> HIDE DEF rows
    <3> QED
      BY <2>1, <2>6, <2>7
  <2> HIDE DEF rows, row
  <2> QED
    BY <2>2, <2>4, <2>6, <2>8
<1>3. \A n \in Nat : n \in S
  <2> HIDE DEF S
  <2> QED
    BY <1>1, <1>2, InductionOnNat
<1> QED
  BY <1>3

-----------------------------------------------------------------------------
(* The grammar on texts                                                    *)

TextsIn(phrases) == {p.text : p \in phrases}
TextsWith(rule, n) == TextsIn(RowOf(n)[rule])
TextsOf(rule) == UNION {TextsWith(rule, n) : n \in Nat \ {0}}

\* A text of A, and after it one of B.
Cat(A, B) == {a \o b : a \in A, b \in B}
Tok(tok) == {<<t>> : t \in {l \in Lexemes : l.tok = tok}}
KeyTexts == {<<t>> : t \in {l \in Lexemes : SpellsKey(l)}}
LiteralTexts == {<<t>> : t \in {l \in Lexemes : SpellsLiteral(l)}}
NoText == {<<>>}

LEMMA PartsOfPhrase ==
  \A a, b, c : Phrase(a, b, c).text = a /\ Phrase(a, b, c).keys = b /\ Phrase(a, b, c).values = c
  BY DEF Phrase

LEMMA InCat ==
  ASSUME NEW A, NEW B, NEW s
  PROVE  s \in Cat(A, B) <=> \E a \in A, b \in B : s = a \o b
  BY DEF Cat

LEMMA InCatTwice ==
  ASSUME NEW A, NEW B, NEW C, NEW s
  PROVE  s \in Cat(A, Cat(B, C)) <=> \E a \in A, b \in B, c \in C : s = a \o (b \o c)
<1>1. ASSUME s \in Cat(A, Cat(B, C))
      PROVE  \E a \in A, b \in B, c \in C : s = a \o (b \o c)
  <2>1. PICK a \in A, y \in Cat(B, C) : s = a \o y
    BY <1>1, InCat
  <2>2. \E b \in B, c \in C : y = b \o c
    BY InCat
  <2> QED
    BY <2>1, <2>2
<1>2. ASSUME NEW a \in A, NEW b \in B, NEW c \in C, s = a \o (b \o c)
      PROVE  s \in Cat(A, Cat(B, C))
  <2>1. b \o c \in Cat(B, C)
    BY InCat
  <2> QED
    BY <1>2, <2>1, InCat
<1> QED
  BY <1>1, <1>2

LEMMA CatTwiceGrows ==
  ASSUME NEW A, NEW B, NEW C, NEW D, C \subseteq D
  PROVE  Cat(A, Cat(B, C)) \subseteq Cat(A, Cat(B, D))
<1>1. ASSUME NEW s \in Cat(A, Cat(B, C))
      PROVE  s \in Cat(A, Cat(B, D))
  <2>1. PICK a \in A, b \in B, c \in C : s = a \o (b \o c)
    BY InCatTwice
  <2>2. c \in D
    OBVIOUS
  <2> QED
    BY <2>1, <2>2, InCatTwice
<1> QED
  BY <1>1

LEMMA InThen ==
  ASSUME NEW A, NEW B, NEW p
  PROVE  p \in Then(A, B) <=> \E a \in A, b \in B : p = Joined(a, b)
  BY DEF Then

LEMMA InTexts ==
  ASSUME NEW P, NEW s
  PROVE  s \in TextsIn(P) <=> \E p \in P : s = p.text
  BY DEF TextsIn

LEMMA InMarks ==
  ASSUME NEW tok, NEW p
  PROVE  /\ p \in Symbol(tok) <=> \E t \in Lexemes : t.tok = tok /\ p = Phrase(<<t>>, <<>>, <<>>)
         /\ p \in Tok(tok) <=> \E t \in Lexemes : t.tok = tok /\ p = <<t>>
  BY DEF Symbol, Tok

LEMMA InKeys ==
  ASSUME NEW p
  PROVE  /\ p \in Keys <=> \E t \in Lexemes : SpellsKey(t) /\ p = Phrase(<<t>>, <<t.text>>, <<>>)
         /\ p \in KeyTexts <=> \E t \in Lexemes : SpellsKey(t) /\ p = <<t>>
  BY DEF Keys, KeyTexts

Spelt(t) == JsonValue(TypeSpelled(t), t.text, <<>>, <<>>)

LEMMA InLiterals ==
  ASSUME NEW p
  PROVE  /\ p \in Literals <=>
              \E t \in Lexemes : SpellsLiteral(t) /\ p = Phrase(<<t>>, <<>>, <<Spelt(t)>>)
         /\ p \in LiteralTexts <=> \E t \in Lexemes : SpellsLiteral(t) /\ p = <<t>>
  BY DEF Literals, LiteralTexts, Spelt

LEMMA TextsOfThen ==
  ASSUME NEW A, NEW B
  PROVE  TextsIn(Then(A, B)) = Cat(TextsIn(A), TextsIn(B))
<1>1. \A p, q : Joined(p, q).text = p.text \o q.text
  BY PartsOfPhrase DEF Joined
<1>2. ASSUME NEW s \in TextsIn(Then(A, B))
      PROVE  s \in Cat(TextsIn(A), TextsIn(B))
  <2>1. PICK p \in A, q \in B : s = Joined(p, q).text
    BY <1>2, InTexts, InThen
  <2>2. s = p.text \o q.text /\ p.text \in TextsIn(A) /\ q.text \in TextsIn(B)
    BY <1>1, <2>1, InTexts, InThen, Zenon
  <2> QED
    BY <2>2, InCat
<1>3. ASSUME NEW s \in Cat(TextsIn(A), TextsIn(B))
      PROVE  s \in TextsIn(Then(A, B))
  <2>1. PICK x \in TextsIn(A), y \in TextsIn(B) : s = x \o y
    BY <1>3, InCat
  <2>3. PICK p \in A : x = p.text
    BY InTexts
  <2>4. PICK q \in B : y = q.text
    BY InTexts
  <2>2. s = Joined(p, q).text /\ Joined(p, q) \in Then(A, B)
    BY <1>1, <2>1, <2>3, <2>4, InThen
  <2> QED
    BY <2>2, InTexts
<1> QED
  BY <1>2, <1>3

LEMMA TextsOfUnion ==
  ASSUME NEW A, NEW B
  PROVE  TextsIn(A \cup B) = TextsIn(A) \cup TextsIn(B)
  BY DEF TextsIn

LEMMA TextsOfMarks ==
  /\ \A tok : TextsIn(Symbol(tok)) = Tok(tok)
  /\ TextsIn(Keys) = KeyTexts
  /\ TextsIn(Literals) = LiteralTexts
<1>1. ASSUME NEW tok, NEW s
      PROVE  s \in TextsIn(Symbol(tok)) <=> s \in Tok(tok)
  <2>1. ASSUME s \in TextsIn(Symbol(tok)) PROVE s \in Tok(tok)
    <3>1. PICK p \in Symbol(tok) : s = p.text
      BY <2>1, InTexts
    <3>2. PICK t \in Lexemes : t.tok = tok /\ p = Phrase(<<t>>, <<>>, <<>>)
      BY <3>1, InMarks
    <3>3. s = <<t>>
      BY <3>1, <3>2, PartsOfPhrase, Zenon
    <3> QED
      BY <3>2, <3>3, InMarks
  <2>2. ASSUME s \in Tok(tok) PROVE s \in TextsIn(Symbol(tok))
    <3>1. PICK t \in Lexemes : t.tok = tok /\ s = <<t>>
      BY <2>2, InMarks
    <3>2. PICK p : p = Phrase(<<t>>, <<>>, <<>>)
      OBVIOUS
    <3>3. p \in Symbol(tok) /\ s = p.text
      <4>1. p \in Symbol(tok)
        BY <3>1, <3>2, InMarks
      <4>2. p.text = <<t>>
        BY <3>2, PartsOfPhrase, Zenon
      <4> QED
        BY <3>1, <4>1, <4>2
    <3> QED
      BY <3>3, InTexts
  <2> QED
    BY <2>1, <2>2
<1>2. ASSUME NEW s
      PROVE  s \in TextsIn(Keys) <=> s \in KeyTexts
  <2>1. ASSUME s \in TextsIn(Keys) PROVE s \in KeyTexts
    <3>1. PICK p \in Keys : s = p.text
      BY <2>1, InTexts
    <3>2. PICK t \in Lexemes : SpellsKey(t) /\ p = Phrase(<<t>>, <<t.text>>, <<>>)
      BY <3>1, InKeys
    <3>3. s = <<t>>
      BY <3>1, <3>2, PartsOfPhrase, Zenon
    <3> QED
      BY <3>2, <3>3, InKeys
  <2>2. ASSUME s \in KeyTexts PROVE s \in TextsIn(Keys)
    <3>1. PICK t \in Lexemes : SpellsKey(t) /\ s = <<t>>
      BY <2>2, InKeys
    <3>2. PICK p : p = Phrase(<<t>>, <<t.text>>, <<>>)
      OBVIOUS
    <3>3. p \in Keys /\ s = p.text
      <4>1. p \in Keys
        BY <3>1, <3>2, InKeys
      <4>2. p.text = <<t>>
        BY <3>2, PartsOfPhrase, Zenon
      <4> QED
        BY <3>1, <4>1, <4>2
    <3> QED
      BY <3>3, InTexts
  <2> QED
    BY <2>1, <2>2
<1>3. ASSUME NEW s
      PROVE  s \in TextsIn(Literals) <=> s \in LiteralTexts
  <2>1. ASSUME s \in TextsIn(Literals) PROVE s \in LiteralTexts
    <3>1. PICK p \in Literals : s = p.text
      BY <2>1, InTexts
    <3>2. PICK t \in Lexemes : SpellsLiteral(t) /\ p = Phrase(<<t>>, <<>>, <<Spelt(t)>>)
      BY <3>1, InLiterals
    <3>3. s = <<t>>
      BY <3>1, <3>2, PartsOfPhrase, Zenon
    <3> QED
      BY <3>2, <3>3, InLiterals
  <2>2. ASSUME s \in LiteralTexts PROVE s \in TextsIn(Literals)
    <3>1. PICK t \in Lexemes : SpellsLiteral(t) /\ s = <<t>>
      BY <2>2, InLiterals
    <3>2. PICK p : p = Phrase(<<t>>, <<>>, <<Spelt(t)>>)
      OBVIOUS
    <3>3. p \in Literals /\ s = p.text
      <4>1. p \in Literals
        BY <3>1, <3>2, InLiterals
      <4>2. p.text = <<t>>
        BY <3>2, PartsOfPhrase, Zenon
      <4> QED
        BY <3>1, <4>1, <4>2
    <3> QED
      BY <3>3, InTexts
  <2> QED
    BY <2>1, <2>2
<1> QED
  BY <1>1, <1>2, <1>3

LEMMA TextsOfValues ==
  ASSUME NEW A
  PROVE  /\ TextsIn({AsArray(p) : p \in A}) = TextsIn(A)
         /\ TextsIn({AsObject(p) : p \in A}) = TextsIn(A)
<1>1. \A p : AsArray(p).text = p.text /\ AsObject(p).text = p.text
  BY DEF AsArray, AsObject, Phrase
<1>2. TextsIn({AsArray(p) : p \in A}) = TextsIn(A)
  BY <1>1 DEF TextsIn
<1>3. TextsIn({AsObject(p) : p \in A}) = TextsIn(A)
  BY <1>1 DEF TextsIn
<1> QED
  BY <1>2, <1>3

LEMMA TextsOfNothing ==
  /\ TextsIn({}) = {}
  /\ TextsIn({EmptyPhrase}) = NoText
<1>1. TextsIn({}) = {}
  BY DEF TextsIn
<1>2. EmptyPhrase.text = <<>>
  BY PartsOfPhrase, Zenon DEF EmptyPhrase
<1>3. TextsIn({EmptyPhrase}) = NoText
  BY <1>2 DEF TextsIn, NoText
<1> QED
  BY <1>1, <1>3

Shorter(rule, k) == IF k > 0 THEN TextsWith(rule, k) ELSE {}
Inside(rule, k)  == Shorter(rule, k) \cup (IF k = 0 THEN NoText ELSE {})

LEMMA ShorterTexts ==
  ASSUME NEW n \in Nat \ {0}, NEW k \in Int, k < n, NEW rule
  PROVE  /\ TextsIn(Listed(Rows[n - 1], k, rule)) = Shorter(rule, k)
         /\ TextsIn(Within(Rows[n - 1], k, rule)) = Inside(rule, k)
<1>1. k > 0 => Rows[n - 1][k] = RowOf(k)
  <2>1. n - 1 \in Nat /\ (k > 0 => k \in 1 .. n - 1)
    OBVIOUS
  <2> QED
    BY <2>1, RowsAre
<1>2. TextsIn(Listed(Rows[n - 1], k, rule)) = Shorter(rule, k)
  BY <1>1, TextsOfNothing DEF Listed, Shorter, TextsWith
<1>3. TextsIn(IF k = 0 THEN {EmptyPhrase} ELSE {}) = IF k = 0 THEN NoText ELSE {}
  BY TextsOfNothing
<1>4. TextsIn(Within(Rows[n - 1], k, rule)) = Inside(rule, k)
  BY <1>2, <1>3, TextsOfUnion DEF Within, Inside
<1> QED
  BY <1>2, <1>4

Arrays(A)  == Cat(Tok("left_brace"), Cat(A, Tok("right_brace")))
Objects(A) == Cat(Tok("left_bracket"), Cat(A, Tok("right_bracket")))

LEMMA ValueRow ==
  ASSUME NEW n \in Nat \ {0}
  PROVE  TextsWith("values", n) = (IF n = 1 THEN LiteralTexts ELSE {})
           \cup Arrays(Inside("elements", n - 2)) \cup Objects(Inside("members", n - 2))
<1> DEFINE rows == Rows[n - 1]
           literals == IF n = 1 THEN Literals ELSE {}
           arrays  == Then(Symbol("left_brace"),
                           Then(Within(rows, n - 2, "elements"), Symbol("right_brace")))
           objects == Then(Symbol("left_bracket"),
                           Then(Within(rows, n - 2, "members"), Symbol("right_bracket")))
           A == {AsArray(p) : p \in arrays}
           O == {AsObject(p) : p \in objects}
<1>1. RowOf(n)["values"] = literals \cup A \cup O
  BY DEF RowOf, Row
<1>2. n - 2 \in Int /\ n - 2 < n
  OBVIOUS
<1>3. TextsIn(literals) = IF n = 1 THEN LiteralTexts ELSE {}
  BY TextsOfMarks, TextsOfNothing
<1>4. TextsIn(arrays) = Arrays(Inside("elements", n - 2))
  BY <1>2, ShorterTexts, TextsOfThen, TextsOfMarks DEF Arrays
<1>5. TextsIn(objects) = Objects(Inside("members", n - 2))
  BY <1>2, ShorterTexts, TextsOfThen, TextsOfMarks DEF Objects
<1>6. TextsIn(A) = TextsIn(arrays) /\ TextsIn(O) = TextsIn(objects)
  <2> HIDE DEF arrays, objects
  <2> QED
    BY TextsOfValues
<1> HIDE DEF A, O, arrays, objects, literals
<1>7. TextsIn(literals \cup A \cup O) = TextsIn(literals) \cup TextsIn(A) \cup TextsIn(O)
  <2>1. TextsIn((literals \cup A) \cup O) = TextsIn(literals \cup A) \cup TextsIn(O)
    BY TextsOfUnion, Zenon
  <2>2. TextsIn(literals \cup A) = TextsIn(literals) \cup TextsIn(A)
    BY TextsOfUnion, Zenon
  <2> QED
    BY <2>1, <2>2
<1> QED
  BY <1>1, <1>3, <1>4, <1>5, <1>6, <1>7 DEF TextsWith

LEMMA PairRow ==
  ASSUME NEW n \in Nat \ {0}
  PROVE  TextsWith("pairs", n) = Cat(KeyTexts, Cat(Tok("colon"), Shorter("values", n - 2)))
<1>1. RowOf(n)["pairs"] = Then(Keys, Then(Symbol("colon"), Listed(Rows[n - 1], n - 2, "values")))
  BY DEF RowOf, Row
<1>2. n - 2 \in Int /\ n - 2 < n
  OBVIOUS
<1> QED
  BY <1>1, <1>2, ShorterTexts, TextsOfThen, TextsOfMarks DEF TextsWith

(* Lists of items with commas, and values in a row.                        *)
LEMMA ListRow ==
  ASSUME NEW n \in Nat \ {0}, NEW items, NEW item, NEW rule, NEW s
  PROVE  s \in TextsIn(ListOf(Rows[n - 1], n, items, item, rule)) <=>
           \/ s \in TextsIn(items)
           \/ \E k \in 1 .. n - 2 :
                s \in Cat(TextsWith(item, k), Cat(Tok("comma"), TextsWith(rule, n - 1 - k)))
<1> DEFINE rows == Rows[n - 1]
           Longer(k) == Then(rows[k][item], Then(Symbol("comma"), rows[n - 1 - k][rule]))
           longer == UNION {Longer(k) : k \in 1 .. n - 2}
<1>1. ASSUME NEW k \in 1 .. n - 2
      PROVE  TextsIn(Longer(k)) = Cat(TextsWith(item, k), Cat(Tok("comma"), TextsWith(rule, n - 1 - k)))
  <2>1. n - 1 \in Nat /\ k \in 1 .. n - 1 /\ n - 1 - k \in 1 .. n - 1
    OBVIOUS
  <2>2. rows[k] = RowOf(k) /\ rows[n - 1 - k] = RowOf(n - 1 - k)
    BY <2>1, RowsAre
  <2> QED
    BY <2>2, TextsOfThen, TextsOfMarks DEF TextsWith
<1>2. ListOf(rows, n, items, item, rule) = items \cup longer
  BY DEF ListOf
<1> HIDE DEF Longer
<1>3. s \in TextsIn(longer) <=> \E k \in 1 .. n - 2 : s \in TextsIn(Longer(k))
  <2>1. s \in TextsIn(longer) <=> \E p \in longer : s = p.text
    BY InTexts
  <2>2. \A k : s \in TextsIn(Longer(k)) <=> \E p \in Longer(k) : s = p.text
    BY InTexts
  <2> QED
    BY <2>1, <2>2
<1> HIDE DEF longer
<1>4. s \in TextsIn(items \cup longer) <=> s \in TextsIn(items) \/ s \in TextsIn(longer)
  BY TextsOfUnion
<1> QED
  BY <1>1, <1>2, <1>3, <1>4

LEMMA StreamRow ==
  ASSUME NEW n \in Nat \ {0}, NEW s
  PROVE  s \in TextsWith("streams", n) <=>
           \/ s \in TextsWith("values", n)
           \/ /\ SeveralValues
              /\ \E k \in 1 .. n - 1 : s \in Cat(TextsWith("values", k), TextsWith("streams", n - k))
<1> DEFINE rows == Rows[n - 1]
           Longer(k) == Then(rows[k].values, rows[n - k].streams)
           longer == UNION {Longer(k) : k \in 1 .. n - 1}
<1>1. ASSUME NEW k \in 1 .. n - 1
      PROVE  TextsIn(Longer(k)) = Cat(TextsWith("values", k), TextsWith("streams", n - k))
  <2>1. n - 1 \in Nat /\ k \in 1 .. n - 1 /\ n - k \in 1 .. n - 1
    OBVIOUS
  <2>2. rows[k] = RowOf(k) /\ rows[n - k] = RowOf(n - k)
    BY <2>1, RowsAre
  <2> QED
    BY <2>2, TextsOfThen DEF TextsWith
<1>2. RowOf(n)["streams"] = RowOf(n)["values"] \cup (IF SeveralValues THEN longer ELSE {})
  BY DEF RowOf, Row
<1> HIDE DEF Longer
<1>3. s \in TextsIn(longer) <=> \E k \in 1 .. n - 1 : s \in TextsIn(Longer(k))
  <2>1. s \in TextsIn(longer) <=> \E p \in longer : s = p.text
    BY InTexts
  <2>2. \A k : s \in TextsIn(Longer(k)) <=> \E p \in Longer(k) : s = p.text
    BY InTexts
  <2> QED
    BY <2>1, <2>2
<1> HIDE DEF longer
<1>4. s \in TextsWith("streams", n) <=>
        s \in TextsWith("values", n) \/ (SeveralValues /\ s \in TextsIn(longer))
  <2>1. TextsIn(IF SeveralValues THEN longer ELSE {}) = IF SeveralValues THEN TextsIn(longer) ELSE {}
    BY TextsOfNothing
  <2>2. TextsWith("streams", n) =
          TextsWith("values", n) \cup TextsIn(IF SeveralValues THEN longer ELSE {})
    BY <1>2, TextsOfUnion DEF TextsWith
  <2> QED
    BY <2>1, <2>2
<1> QED
  BY <1>1, <1>3, <1>4

LEMMA ElementRow ==
  ASSUME NEW n \in Nat \ {0}, NEW s
  PROVE  s \in TextsWith("elements", n) <=>
           \/ s \in TextsWith("values", n)
           \/ \E k \in 1 .. n - 2 :
                s \in Cat(TextsWith("values", k), Cat(Tok("comma"), TextsWith("elements", n - 1 - k)))
<1>1. RowOf(n)["elements"] = ListOf(Rows[n - 1], n, RowOf(n)["values"], "values", "elements")
  BY DEF RowOf, Row
<1> QED
  BY <1>1, ListRow DEF TextsWith

LEMMA MemberRow ==
  ASSUME NEW n \in Nat \ {0}, NEW s
  PROVE  s \in TextsWith("members", n) <=>
           \/ s \in TextsWith("pairs", n)
           \/ \E k \in 1 .. n - 2 :
                s \in Cat(TextsWith("pairs", k), Cat(Tok("comma"), TextsWith("members", n - 1 - k)))
<1>1. RowOf(n)["members"] = ListOf(Rows[n - 1], n, RowOf(n)["pairs"], "pairs", "members")
  BY DEF RowOf, Row
<1> QED
  BY <1>1, ListRow DEF TextsWith

(* The rules, whatever the number of tokens.                               *)
LEMMA InTextsOf ==
  ASSUME NEW rule, NEW s
  PROVE  s \in TextsOf(rule) <=> \E n \in Nat \ {0} : s \in TextsWith(rule, n)
  BY DEF TextsOf

LEMMA InsideTexts ==
  ASSUME NEW rule, NEW s
  PROVE  s \in (TextsOf(rule) \cup NoText) <=> \E n \in Nat \ {0} : s \in Inside(rule, n - 2)
<1>1. ASSUME s \in TextsOf(rule)
      PROVE  \E n \in Nat \ {0} : s \in Inside(rule, n - 2)
  <2>1. PICK k \in Nat \ {0} : s \in TextsWith(rule, k)
    BY <1>1, InTextsOf
  <2>2. k + 2 \in Nat \ {0} /\ (k + 2) - 2 = k /\ k > 0
    OBVIOUS
  <2>3. s \in Inside(rule, (k + 2) - 2)
    BY <2>1, <2>2 DEF Inside, Shorter
  <2> QED
    BY <2>2, <2>3
<1>2. ASSUME s \in NoText
      PROVE  \E n \in Nat \ {0} : s \in Inside(rule, n - 2)
  <2>1. 2 \in Nat \ {0} /\ 2 - 2 = 0
    OBVIOUS
  <2>2. s \in Inside(rule, 2 - 2)
    BY <1>2, <2>1 DEF Inside
  <2> QED
    BY <2>1, <2>2
<1>3. ASSUME NEW n \in Nat \ {0}, s \in Inside(rule, n - 2)
      PROVE  s \in TextsOf(rule) \cup NoText
  <2>1. n - 2 \in Int /\ (n - 2 > 0 => n - 2 \in Nat \ {0})
    OBVIOUS
  <2> QED
    BY <1>3, <2>1, InTextsOf DEF Inside, Shorter
<1> QED
  BY <1>1, <1>2, <1>3

LEMMA InBrackets ==
  ASSUME NEW A, NEW s
  PROVE  /\ s \in Arrays(A) <=> \E x \in A : s \in Arrays({x})
         /\ s \in Objects(A) <=> \E x \in A : s \in Objects({x})
<1>1. ASSUME NEW a, NEW b
      PROVE  s \in Cat(Tok(a), Cat(A, Tok(b))) <=> \E x \in A : s \in Cat(Tok(a), Cat({x}, Tok(b)))
  <2>1. s \in Cat(Tok(a), Cat(A, Tok(b))) <=>
          \E y \in Tok(a), x \in A, z \in Tok(b) : s = y \o (x \o z)
    BY InCatTwice
  <2>2. ASSUME NEW x
        PROVE  s \in Cat(Tok(a), Cat({x}, Tok(b))) <=>
                 \E y \in Tok(a), z \in Tok(b) : s = y \o (x \o z)
    <3>1. PICK one : one = {x}
      OBVIOUS
    <3>2. s \in Cat(Tok(a), Cat(one, Tok(b))) <=>
            \E y \in Tok(a), w \in one, z \in Tok(b) : s = y \o (w \o z)
      BY InCatTwice
    <3> QED
      BY <3>1, <3>2
  <2> QED
    BY <2>1, <2>2
<1> QED
  BY <1>1 DEF Arrays, Objects

LEMMA ValueTexts ==
  TextsOf("values") = LiteralTexts \cup Arrays(TextsOf("elements") \cup NoText)
                        \cup Objects(TextsOf("members") \cup NoText)
<1>1. ASSUME NEW s \in TextsOf("values")
      PROVE  s \in LiteralTexts \/ s \in Arrays(TextsOf("elements") \cup NoText)
               \/ s \in Objects(TextsOf("members") \cup NoText)
  <2>1. PICK n \in Nat \ {0} : s \in TextsWith("values", n)
    BY InTextsOf
  <2>2. \/ s \in LiteralTexts
        \/ s \in Arrays(Inside("elements", n - 2))
        \/ s \in Objects(Inside("members", n - 2))
    BY <2>1, ValueRow
  <2>3. ASSUME s \in Arrays(Inside("elements", n - 2))
        PROVE  s \in Arrays(TextsOf("elements") \cup NoText)
    <3>1. PICK x \in Inside("elements", n - 2) : s \in Arrays({x})
      BY <2>3, InBrackets
    <3>2. x \in TextsOf("elements") \cup NoText
      BY InsideTexts
    <3> QED
      BY <3>1, <3>2, InBrackets
  <2>4. ASSUME s \in Objects(Inside("members", n - 2))
        PROVE  s \in Objects(TextsOf("members") \cup NoText)
    <3>1. PICK x \in Inside("members", n - 2) : s \in Objects({x})
      BY <2>4, InBrackets
    <3>2. x \in TextsOf("members") \cup NoText
      BY InsideTexts
    <3> QED
      BY <3>1, <3>2, InBrackets
  <2> QED
    BY <2>2, <2>3, <2>4
<1>2. ASSUME NEW s \in LiteralTexts
      PROVE  s \in TextsOf("values")
  <2>1. s \in TextsWith("values", 1)
    BY ValueRow
  <2> QED
    BY <2>1, InTextsOf
<1>3. ASSUME NEW s \in Arrays(TextsOf("elements") \cup NoText)
      PROVE  s \in TextsOf("values")
  <2>1. PICK x \in TextsOf("elements") \cup NoText : s \in Arrays({x})
    BY <1>3, InBrackets
  <2>2. PICK n \in Nat \ {0} : x \in Inside("elements", n - 2)
    BY InsideTexts
  <2>3. s \in Arrays(Inside("elements", n - 2))
    BY <2>1, <2>2, InBrackets
  <2>4. s \in TextsWith("values", n)
    BY <2>3, ValueRow
  <2> QED
    BY <2>4, InTextsOf
<1>4. ASSUME NEW s \in Objects(TextsOf("members") \cup NoText)
      PROVE  s \in TextsOf("values")
  <2>1. PICK x \in TextsOf("members") \cup NoText : s \in Objects({x})
    BY <1>4, InBrackets
  <2>2. PICK n \in Nat \ {0} : x \in Inside("members", n - 2)
    BY InsideTexts
  <2>3. s \in Objects(Inside("members", n - 2))
    BY <2>1, <2>2, InBrackets
  <2>4. s \in TextsWith("values", n)
    BY <2>3, ValueRow
  <2> QED
    BY <2>4, InTextsOf
<1> QED
  BY <1>1, <1>2, <1>3, <1>4

LEMMA PairTexts ==
  TextsOf("pairs") = Cat(KeyTexts, Cat(Tok("colon"), TextsOf("values")))
<1>1. ASSUME NEW s \in TextsOf("pairs")
      PROVE  s \in Cat(KeyTexts, Cat(Tok("colon"), TextsOf("values")))
  <2>1. PICK n \in Nat \ {0} : s \in TextsWith("pairs", n)
    BY InTextsOf
  <2>2. PICK fewer : fewer = Shorter("values", n - 2)
    OBVIOUS
  <2>3. s \in Cat(KeyTexts, Cat(Tok("colon"), fewer))
    BY <2>1, <2>2, PairRow
  <2>4. fewer \subseteq TextsOf("values")
    <3>1. n - 2 > 0 => n - 2 \in Nat \ {0}
      OBVIOUS
    <3> QED
      BY <2>2, <3>1, InTextsOf DEF Shorter
  <2> QED
    BY <2>3, <2>4, CatTwiceGrows
<1>2. ASSUME NEW s \in Cat(KeyTexts, Cat(Tok("colon"), TextsOf("values")))
      PROVE  s \in TextsOf("pairs")
  <2>1. PICK k \in KeyTexts, c \in Tok("colon"), v \in TextsOf("values") : s = k \o (c \o v)
    BY <1>2, InCatTwice
  <2>2. PICK m \in Nat \ {0} : v \in TextsWith("values", m)
    BY InTextsOf
  <2>3. m + 2 \in Nat \ {0} /\ (m + 2) - 2 = m /\ m > 0
    OBVIOUS
  <2>4. v \in Shorter("values", (m + 2) - 2)
    BY <2>2, <2>3 DEF Shorter
  <2>5. s \in Cat(KeyTexts, Cat(Tok("colon"), Shorter("values", (m + 2) - 2)))
    BY <2>1, <2>4, InCatTwice
  <2>6. s \in TextsWith("pairs", m + 2)
    BY <2>3, <2>5, PairRow
  <2> QED
    BY <2>3, <2>6, InTextsOf
<1> QED
  BY <1>1, <1>2

(* A list is an item, or an item, a comma and a list.                      *)
LEMMA ListTexts ==
  ASSUME NEW item, NEW rule,
         \A n \in Nat \ {0} : \A s : s \in TextsWith(rule, n) <=>
           \/ s \in TextsWith(item, n)
           \/ \E k \in 1 .. n - 2 :
                s \in Cat(TextsWith(item, k), Cat(Tok("comma"), TextsWith(rule, n - 1 - k)))
  PROVE  TextsOf(rule) = TextsOf(item) \cup Cat(TextsOf(item), Cat(Tok("comma"), TextsOf(rule)))
<1>1. ASSUME NEW s \in TextsOf(rule)
      PROVE  s \in TextsOf(item) \/ s \in Cat(TextsOf(item), Cat(Tok("comma"), TextsOf(rule)))
  <2>1. PICK n \in Nat \ {0} : s \in TextsWith(rule, n)
    BY InTextsOf
  <2>2. CASE s \in TextsWith(item, n)
    BY <2>2, InTextsOf
  <2>3. ASSUME NEW k \in 1 .. n - 2,
               s \in Cat(TextsWith(item, k), Cat(Tok("comma"), TextsWith(rule, n - 1 - k)))
        PROVE  s \in Cat(TextsOf(item), Cat(Tok("comma"), TextsOf(rule)))
    <3>1. k \in Nat \ {0} /\ n - 1 - k \in Nat \ {0}
      OBVIOUS
    <3>2. PICK x \in TextsWith(item, k), y \in Cat(Tok("comma"), TextsWith(rule, n - 1 - k)) : s = x \o y
      BY <2>3, InCat
    <3>3. PICK c \in Tok("comma"), z \in TextsWith(rule, n - 1 - k) : y = c \o z
      BY InCat
    <3>4. x \in TextsOf(item) /\ z \in TextsOf(rule)
      BY <3>1, InTextsOf
    <3>5. y \in Cat(Tok("comma"), TextsOf(rule))
      BY <3>3, <3>4, InCat
    <3> QED
      BY <3>2, <3>4, <3>5, InCat
  <2> QED
    BY <2>1, <2>2, <2>3
<1>2. ASSUME NEW s \in TextsOf(item)
      PROVE  s \in TextsOf(rule)
  BY InTextsOf
<1>3. ASSUME NEW s \in Cat(TextsOf(item), Cat(Tok("comma"), TextsOf(rule)))
      PROVE  s \in TextsOf(rule)
  <2>1. PICK x \in TextsOf(item), y \in Cat(Tok("comma"), TextsOf(rule)) : s = x \o y
    BY <1>3, InCat
  <2>2. PICK c \in Tok("comma"), z \in TextsOf(rule) : y = c \o z
    BY InCat
  <2>3. PICK k \in Nat \ {0} : x \in TextsWith(item, k)
    BY InTextsOf
  <2>4. PICK m \in Nat \ {0} : z \in TextsWith(rule, m)
    BY InTextsOf
  <2>5. PICK n \in Nat \ {0} : n = k + 1 + m
    OBVIOUS
  <2>6. k \in 1 .. n - 2 /\ n - 1 - k = m
    BY <2>5
  <2>7. y \in Cat(Tok("comma"), TextsWith(rule, n - 1 - k))
    BY <2>2, <2>4, <2>6, InCat
  <2>8. s \in Cat(TextsWith(item, k), Cat(Tok("comma"), TextsWith(rule, n - 1 - k)))
    BY <2>1, <2>3, <2>7, InCat
  <2>9. s \in TextsWith(rule, n)
    BY <2>6, <2>8
  <2> QED
    BY <2>9, InTextsOf
<1> QED
  BY <1>1, <1>2, <1>3

LEMMA ElementTexts ==
  TextsOf("elements") =
    TextsOf("values") \cup Cat(TextsOf("values"), Cat(Tok("comma"), TextsOf("elements")))
  BY ElementRow, ListTexts

LEMMA MemberTexts ==
  TextsOf("members") =
    TextsOf("pairs") \cup Cat(TextsOf("pairs"), Cat(Tok("comma"), TextsOf("members")))
  BY MemberRow, ListTexts

LEMMA StreamTexts ==
  ASSUME SeveralValues
  PROVE  TextsOf("streams") = TextsOf("values") \cup Cat(TextsOf("values"), TextsOf("streams"))
<1>1. ASSUME NEW s \in TextsOf("streams")
      PROVE  s \in TextsOf("values") \/ s \in Cat(TextsOf("values"), TextsOf("streams"))
  <2>1. PICK n \in Nat \ {0} : s \in TextsWith("streams", n)
    BY InTextsOf
  <2>2. CASE s \in TextsWith("values", n)
    BY <2>2, InTextsOf
  <2>3. ASSUME NEW k \in 1 .. n - 1, s \in Cat(TextsWith("values", k), TextsWith("streams", n - k))
        PROVE  s \in Cat(TextsOf("values"), TextsOf("streams"))
    <3>1. k \in Nat \ {0} /\ n - k \in Nat \ {0}
      OBVIOUS
    <3>2. PICK x \in TextsWith("values", k), y \in TextsWith("streams", n - k) : s = x \o y
      BY <2>3, InCat
    <3>3. x \in TextsOf("values") /\ y \in TextsOf("streams")
      BY <3>1, InTextsOf
    <3> QED
      BY <3>2, <3>3, InCat
  <2> QED
    BY <2>1, <2>2, <2>3, StreamRow
<1>2. ASSUME NEW s \in TextsOf("values")
      PROVE  s \in TextsOf("streams")
  BY InTextsOf, StreamRow
<1>3. ASSUME NEW s \in Cat(TextsOf("values"), TextsOf("streams"))
      PROVE  s \in TextsOf("streams")
  <2>1. PICK x \in TextsOf("values"), y \in TextsOf("streams") : s = x \o y
    BY <1>3, InCat
  <2>2. PICK k \in Nat \ {0} : x \in TextsWith("values", k)
    BY InTextsOf
  <2>3. PICK m \in Nat \ {0} : y \in TextsWith("streams", m)
    BY InTextsOf
  <2>4. PICK n \in Nat \ {0} : n = k + m
    OBVIOUS
  <2>5. k \in 1 .. n - 1 /\ n - k = m
    BY <2>4
  <2>6. s \in Cat(TextsWith("values", k), TextsWith("streams", n - k))
    BY <2>1, <2>2, <2>3, <2>5, InCat
  <2>7. s \in TextsWith("streams", n)
    BY <2>5, <2>6, StreamRow
  <2> QED
    BY <2>7, InTextsOf
<1> QED
  BY <1>1, <1>2, <1>3

-----------------------------------------------------------------------------
(* Sets of texts: an algebra with Cat and union                            *)

Words == Seq(Lexemes)

LEMMA WordsJoin ==
  /\ <<>> \in Words
  /\ \A a, b \in Words : a \o b \in Words /\ Len(a \o b) = Len(a) + Len(b)
  /\ \A a, b, c \in Words : (a \o b) \o c = a \o (b \o c)
  /\ \A a \in Words : <<>> \o a = a /\ a \o <<>> = a
<1>1. <<>> \in Words
  BY DEF Words
<1>2. ASSUME NEW a \in Words, NEW b \in Words
      PROVE  a \o b \in Words /\ Len(a \o b) = Len(a) + Len(b)
  BY ConcatProperties DEF Words
<1>3. ASSUME NEW a \in Words, NEW b \in Words, NEW c \in Words
      PROVE  (a \o b) \o c = a \o (b \o c)
  BY ConcatAssociative DEF Words
<1>4. ASSUME NEW a \in Words
      PROVE  <<>> \o a = a /\ a \o <<>> = a
  BY ConcatEmptySeq DEF Words
<1> QED
  BY <1>1, <1>2, <1>3, <1>4

LEMMA CatIsText ==
  ASSUME NEW A, NEW B, A \subseteq Words, B \subseteq Words
  PROVE  Cat(A, B) \subseteq Words
<1>1. ASSUME NEW s \in Cat(A, B)
      PROVE  s \in Words
  <2>1. PICK a \in A, b \in B : s = a \o b
    BY InCat
  <2>2. a \in Words /\ b \in Words
    OBVIOUS
  <2> QED
    BY <2>1, <2>2, WordsJoin
<1> QED
  BY <1>1

LEMMA CatAssociates ==
  ASSUME NEW A, NEW B, NEW C, A \subseteq Words, B \subseteq Words, C \subseteq Words
  PROVE  Cat(Cat(A, B), C) = Cat(A, Cat(B, C))
<1>1. ASSUME NEW s \in Cat(Cat(A, B), C)
      PROVE  s \in Cat(A, Cat(B, C))
  <2>1. PICK x \in Cat(A, B), c \in C : s = x \o c
    BY InCat
  <2>2. PICK a \in A, b \in B : x = a \o b
    BY InCat
  <2>3. a \in Words /\ b \in Words /\ c \in Words
    OBVIOUS
  <2>4. s = a \o (b \o c)
    BY <2>1, <2>2, <2>3, WordsJoin
  <2> QED
    BY <2>4, InCatTwice
<1>2. ASSUME NEW s \in Cat(A, Cat(B, C))
      PROVE  s \in Cat(Cat(A, B), C)
  <2>1. PICK a \in A, b \in B, c \in C : s = a \o (b \o c)
    BY InCatTwice
  <2>2. a \in Words /\ b \in Words /\ c \in Words
    OBVIOUS
  <2>3. s = (a \o b) \o c
    BY <2>1, <2>2, WordsJoin
  <2>4. a \o b \in Cat(A, B)
    BY InCat
  <2> QED
    BY <2>3, <2>4, InCat
<1> QED
  BY <1>1, <1>2

LEMMA CatOfUnion ==
  ASSUME NEW A, NEW B, NEW C
  PROVE  Cat(A \cup B, C) = Cat(A, C) \cup Cat(B, C)
<1>1. ASSUME NEW s
      PROVE  s \in Cat(A \cup B, C) <=> s \in Cat(A, C) \/ s \in Cat(B, C)
  BY DEF Cat
<1> QED
  BY <1>1

LEMMA CatWithUnion ==
  ASSUME NEW A, NEW B, NEW C
  PROVE  Cat(C, A \cup B) = Cat(C, A) \cup Cat(C, B)
<1>1. ASSUME NEW s
      PROVE  s \in Cat(C, A \cup B) <=> s \in Cat(C, A) \/ s \in Cat(C, B)
  BY DEF Cat
<1> QED
  BY <1>1

LEMMA CatNone ==
  ASSUME NEW A
  PROVE  Cat({}, A) = {} /\ Cat(A, {}) = {}
  BY DEF Cat

LEMMA CatNothing ==
  ASSUME NEW A, A \subseteq Words
  PROVE  Cat(NoText, A) = A /\ Cat(A, NoText) = A
<1>1. \A a \in A : <<>> \o a = a /\ a \o <<>> = a
  BY WordsJoin
<1>2. <<>> \in NoText /\ \A x \in NoText : x = <<>>
  BY DEF NoText
<1>3. ASSUME NEW s \in Cat(NoText, A)
      PROVE  s \in A
  <2>1. PICK x \in NoText, a \in A : s = x \o a
    BY InCat
  <2> QED
    BY <1>1, <1>2, <2>1
<1>4. ASSUME NEW s \in Cat(A, NoText)
      PROVE  s \in A
  <2>1. PICK a \in A, x \in NoText : s = a \o x
    BY InCat
  <2> QED
    BY <1>1, <1>2, <2>1
<1>5. ASSUME NEW s \in A
      PROVE  s \in Cat(NoText, A) /\ s \in Cat(A, NoText)
  <2>1. s = <<>> \o s /\ s = s \o <<>>
    BY <1>1
  <2>2. s \in Cat(NoText, A)
    BY <1>2, <2>1, InCat
  <2>3. s \in Cat(A, NoText)
    BY <1>2, <2>1, InCat
  <2> QED
    BY <2>2, <2>3
<1> QED
  BY <1>3, <1>4, <1>5

LEMMA TokensAreTexts ==
  /\ \A tok : Tok(tok) \subseteq Words
  /\ KeyTexts \subseteq Words
  /\ LiteralTexts \subseteq Words
  /\ NoText \subseteq Words
<1>1. \A t \in Lexemes : <<t>> \in Seq(Lexemes)
  OBVIOUS
<1>2. <<>> \in Seq(Lexemes)
  OBVIOUS
<1> QED
  BY <1>1, <1>2 DEF Tok, KeyTexts, LiteralTexts, NoText, Words

-----------------------------------------------------------------------------
(* The table counts tokens: TextsWith(rule, n) are the texts of length n.  *)

Rules == {"values", "elements", "pairs", "members", "streams"}
Sized(n) == {s \in Words : Len(s) = n}

LEMMA CatSized ==
  ASSUME NEW i \in Int, NEW j \in Int, NEW A, NEW B, A \subseteq Sized(i), B \subseteq Sized(j)
  PROVE  Cat(A, B) \subseteq Sized(i + j)
<1>1. ASSUME NEW s \in Cat(A, B)
      PROVE  s \in Sized(i + j)
  <2>1. PICK a \in A, b \in B : s = a \o b
    BY InCat
  <2>2. a \in Words /\ b \in Words /\ Len(a) = i /\ Len(b) = j
    BY DEF Sized
  <2>3. s \in Words /\ Len(s) = Len(a) + Len(b)
    BY <2>1, <2>2, WordsJoin
  <2> QED
    BY <2>2, <2>3 DEF Sized
<1> QED
  BY <1>1

LEMMA TokensSized ==
  /\ \A tok : Tok(tok) \subseteq Sized(1)
  /\ KeyTexts \subseteq Sized(1)
  /\ LiteralTexts \subseteq Sized(1)
  /\ NoText \subseteq Sized(0)
<1>1. \A t \in Lexemes : <<t>> \in Seq(Lexemes) /\ Len(<<t>>) = 1
  OBVIOUS
<1>2. <<>> \in Seq(Lexemes) /\ Len(<<>>) = 0
  OBVIOUS
<1> QED
  BY <1>1, <1>2 DEF Tok, KeyTexts, LiteralTexts, NoText, Words, Sized

LEMMA TextsSized ==
  \A n \in Nat \ {0} : \A rule \in Rules : TextsWith(rule, n) \subseteq Sized(n)
<1> DEFINE S == {n \in Nat : n # 0 => \A rule \in Rules : TextsWith(rule, n) \subseteq Sized(n)}
<1>1. ASSUME NEW n \in Nat, \A m \in 0 .. n - 1 : m \in S, n # 0
      PROVE  \A rule \in Rules : TextsWith(rule, n) \subseteq Sized(n)
  <2>1. n \in Nat \ {0} /\ n - 2 \in Int
    BY <1>1
  <2>2. ASSUME NEW k \in 1 .. n - 1, NEW rule \in Rules
        PROVE  TextsWith(rule, k) \subseteq Sized(k)
    <3>1. k \in 0 .. n - 1 /\ k # 0
      OBVIOUS
    <3> QED
      BY <1>1, <3>1
  <2>3. ASSUME NEW rule \in Rules
        PROVE  Shorter(rule, n - 2) \subseteq Sized(n - 2) /\ Inside(rule, n - 2) \subseteq Sized(n - 2)
    <3>1. n - 2 > 0 => n - 2 \in 1 .. n - 1
      BY <2>1
    <3> QED
      BY <2>2, <3>1, TokensSized DEF Shorter, Inside
  <2>4. ASSUME NEW A, A \subseteq Sized(n - 2), NEW tok, NEW end
        PROVE  Cat(Tok(tok), Cat(A, Tok(end))) \subseteq Sized(n)
    <3>1. Cat(A, Tok(end)) \subseteq Sized((n - 2) + 1)
      BY <2>1, <2>4, TokensSized, CatSized
    <3>2. (n - 2) + 1 \in Int /\ 1 + ((n - 2) + 1) = n
      BY <2>1
    <3>3. Cat(Tok(tok), Cat(A, Tok(end))) \subseteq Sized(1 + ((n - 2) + 1))
      BY <3>1, <3>2, TokensSized, CatSized
    <3> QED
      BY <3>2, <3>3
  <2>5. TextsWith("values", n) \subseteq Sized(n)
    <3>1. "elements" \in Rules /\ "members" \in Rules
      BY DEF Rules
    <3>2. Arrays(Inside("elements", n - 2)) \subseteq Sized(n)
      BY <2>3, <2>4, <3>1 DEF Arrays
    <3>3. Objects(Inside("members", n - 2)) \subseteq Sized(n)
      BY <2>3, <2>4, <3>1 DEF Objects
    <3>4. n = 1 => LiteralTexts \subseteq Sized(n)
      BY TokensSized
    <3> QED
      BY <2>1, <3>2, <3>3, <3>4, ValueRow
  <2>6. TextsWith("pairs", n) \subseteq Sized(n)
    <3>1. Shorter("values", n - 2) \subseteq Sized(n - 2)
      BY <2>3 DEF Rules
    <3>2. Cat(Tok("colon"), Shorter("values", n - 2)) \subseteq Sized(1 + (n - 2))
      BY <2>1, <3>1, TokensSized, CatSized
    <3>3. 1 + (n - 2) \in Int /\ 1 + (1 + (n - 2)) = n
      BY <2>1
    <3>4. Cat(KeyTexts, Cat(Tok("colon"), Shorter("values", n - 2))) \subseteq Sized(1 + (1 + (n - 2)))
      BY <3>2, <3>3, TokensSized, CatSized
    <3> QED
      BY <2>1, <3>3, <3>4, PairRow
  <2>7. ASSUME NEW item \in Rules, NEW rule \in Rules, NEW k \in 1 .. n - 2
        PROVE  Cat(TextsWith(item, k), Cat(Tok("comma"), TextsWith(rule, n - 1 - k))) \subseteq Sized(n)
    <3>1. k \in 1 .. n - 1 /\ n - 1 - k \in 1 .. n - 1
      BY <2>1
    <3>2. TextsWith(item, k) \subseteq Sized(k) /\ TextsWith(rule, n - 1 - k) \subseteq Sized(n - 1 - k)
      BY <2>2, <3>1
    <3>3. k \in Int /\ n - 1 - k \in Int /\ 1 + (n - 1 - k) \in Int /\ k + (1 + (n - 1 - k)) = n
      BY <2>1
    <3>4. Cat(Tok("comma"), TextsWith(rule, n - 1 - k)) \subseteq Sized(1 + (n - 1 - k))
      BY <3>2, <3>3, TokensSized, CatSized
    <3>5. Cat(TextsWith(item, k), Cat(Tok("comma"), TextsWith(rule, n - 1 - k)))
            \subseteq Sized(k + (1 + (n - 1 - k)))
      BY <3>2, <3>3, <3>4, CatSized
    <3> QED
      BY <3>3, <3>5
  <2>8. TextsWith("elements", n) \subseteq Sized(n)
    BY <2>1, <2>5, <2>7, ElementRow DEF Rules
  <2>9. TextsWith("members", n) \subseteq Sized(n)
    BY <2>1, <2>6, <2>7, MemberRow DEF Rules
  <2>10. ASSUME NEW k \in 1 .. n - 1
         PROVE  Cat(TextsWith("values", k), TextsWith("streams", n - k)) \subseteq Sized(n)
    <3>1. k \in Int /\ n - k \in Int /\ n - k \in 1 .. n - 1 /\ k + (n - k) = n
      BY <2>1
    <3>2. TextsWith("values", k) \subseteq Sized(k) /\ TextsWith("streams", n - k) \subseteq Sized(n - k)
      BY <2>2, <3>1 DEF Rules
    <3>3. Cat(TextsWith("values", k), TextsWith("streams", n - k)) \subseteq Sized(k + (n - k))
      BY <3>1, <3>2, CatSized
    <3> QED
      BY <3>1, <3>3
  <2>11. TextsWith("streams", n) \subseteq Sized(n)
    BY <2>1, <2>5, <2>10, StreamRow
  <2> QED
    BY <2>5, <2>6, <2>8, <2>9, <2>11 DEF Rules
<1>2. \A n \in Nat : (\A m \in 0 .. n - 1 : m \in S) => n \in S
  BY <1>1
<1>3. \A n \in Nat : n \in S
  <2> HIDE DEF S
  <2> QED
    BY <1>2, StrongInduction
<1> QED
  BY <1>3

LEMMA TextsAreWords ==
  \A rule \in Rules : TextsOf(rule) \subseteq Words /\ <<>> \notin TextsOf(rule)
<1>1. ASSUME NEW rule \in Rules, NEW s \in TextsOf(rule)
      PROVE  s \in Words /\ s # <<>>
  <2>1. PICK n \in Nat \ {0} : s \in TextsWith(rule, n)
    BY InTextsOf
  <2>2. s \in Words /\ Len(s) = n
    BY <2>1, TextsSized DEF Sized
  <2> QED
    BY <2>2
<1> QED
  BY <1>1

(* The bound of the runs on the number of tokens only cuts the table off.  *)
LEMMA SpelledAre ==
  ASSUME NEW rule \in Rules, NEW s \in Words
  PROVE  s \in Spelled(rule) <=> s \in TextsOf(rule) /\ Len(s) <= MaxTokens
<1>1. \A n \in 1 .. MaxTokens : {p.text : p \in Phrases[n][rule]} = TextsWith(rule, n)
  <2>1. \A n \in 1 .. MaxTokens : Phrases[n] = RowOf(n)
    BY RowsAre, MaxTokensAssumption DEF Phrases
  <2> QED
    BY <2>1 DEF TextsWith, TextsIn
<1>2. s \in Spelled(rule) <=> \E n \in 1 .. MaxTokens : s \in TextsWith(rule, n)
  BY <1>1 DEF Spelled
<1>3. \A n \in Nat \ {0} : s \in TextsWith(rule, n) => Len(s) = n
  BY TextsSized DEF Sized
<1>4. \A n \in 1 .. MaxTokens : n \in Nat \ {0} /\ n <= MaxTokens
  BY MaxTokensAssumption
<1>5. \A n \in Nat \ {0} : n <= MaxTokens => n \in 1 .. MaxTokens
  BY MaxTokensAssumption
<1> QED
  BY <1>2, <1>3, <1>4, <1>5, InTextsOf

-----------------------------------------------------------------------------
(* What may follow in each state of the parser                             *)

Value  == TextsOf("values")
Stream == TextsOf("streams")

\* Whether several values in a row are allowed, where they may be.
Modes == {b \in BOOLEAN : b => SeveralValues}

NeedElement  == Cat(TextsOf("elements"), Tok("right_brace"))
AfterElement == Tok("right_brace") \cup Cat(Tok("comma"), NeedElement)
NeedPair     == Cat(TextsOf("members"), Tok("right_bracket"))
AfterPair    == Tok("right_bracket") \cup Cat(Tok("comma"), NeedPair)
NeedPairVal  == Cat(Value, AfterPair)
NeedColon    == Cat(Tok("colon"), NeedPairVal)

\* The texts that complete the level of the stack that is in the state s;
\* several values in a row may be allowed at the root.
Rest(s, inARow) ==
  CASE s = "start"          -> IF inARow THEN Stream ELSE Value
    [] s \in {"got_value", "parse_complete"}
                            -> IF inARow THEN NoText \cup Stream ELSE NoText
    [] s = "array_start"    -> Tok("right_brace") \cup NeedElement
    [] s = "array_need_val" -> NeedElement
    [] s = "array_got_val"  -> AfterElement
    [] s = "map_start"      -> Tok("right_bracket") \cup NeedPair
    [] s = "map_need_key"   -> NeedPair
    [] s = "map_sep"        -> NeedColon
    [] s = "map_need_val"   -> NeedPairVal
    [] s = "map_got_val"    -> AfterPair
    [] OTHER                -> {}

LEMMA RulesAreWords ==
  /\ Value \subseteq Words /\ Stream \subseteq Words
  /\ TextsOf("elements") \subseteq Words /\ TextsOf("members") \subseteq Words
  /\ TextsOf("pairs") \subseteq Words
  /\ NeedElement \subseteq Words /\ AfterElement \subseteq Words
  /\ NeedPair \subseteq Words /\ AfterPair \subseteq Words
  /\ NeedPairVal \subseteq Words /\ NeedColon \subseteq Words
<1>1. /\ Value \subseteq Words /\ Stream \subseteq Words
      /\ TextsOf("elements") \subseteq Words /\ TextsOf("members") \subseteq Words
      /\ TextsOf("pairs") \subseteq Words
  BY TextsAreWords DEF Value, Stream, Rules
<1>2. NeedElement \subseteq Words
  BY <1>1, TokensAreTexts, CatIsText DEF NeedElement
<1>3. AfterElement \subseteq Words
  BY <1>2, TokensAreTexts, CatIsText DEF AfterElement
<1>4. NeedPair \subseteq Words
  BY <1>1, TokensAreTexts, CatIsText DEF NeedPair
<1>5. AfterPair \subseteq Words
  BY <1>4, TokensAreTexts, CatIsText DEF AfterPair
<1>6. NeedPairVal \subseteq Words
  BY <1>1, <1>5, CatIsText DEF NeedPairVal
<1>7. NeedColon \subseteq Words
  BY <1>6, TokensAreTexts, CatIsText DEF NeedColon
<1> QED
  BY <1>1, <1>2, <1>3, <1>4, <1>5, <1>6, <1>7

LEMMA RestIsWords ==
  ASSUME NEW s, NEW inARow \in Modes
  PROVE  Rest(s, inARow) \subseteq Words
  BY RulesAreWords, TokensAreTexts DEF Rest

(* A list that ends with end, from its first item.                         *)
LEMMA ListUnfolds ==
  ASSUME NEW V, NEW L, NEW C, NEW End,
         V \subseteq Words, L \subseteq Words, C \subseteq Words, End \subseteq Words,
         L = V \cup Cat(V, Cat(C, L))
  PROVE  Cat(L, End) = Cat(V, End \cup Cat(C, Cat(L, End)))
<1>1. Cat(C, L) \subseteq Words /\ Cat(V, Cat(C, L)) \subseteq Words
  BY CatIsText
<1>2. Cat(L, End) = Cat(V, End) \cup Cat(Cat(V, Cat(C, L)), End)
  <2>1. Cat(V \cup Cat(V, Cat(C, L)), End) = Cat(V, End) \cup Cat(Cat(V, Cat(C, L)), End)
    BY CatOfUnion
  <2> QED
    BY <2>1
<1>3. Cat(Cat(V, Cat(C, L)), End) = Cat(V, Cat(Cat(C, L), End))
  BY <1>1, CatAssociates
<1>4. Cat(Cat(C, L), End) = Cat(C, Cat(L, End))
  BY CatAssociates
<1>5. Cat(V, End \cup Cat(C, Cat(L, End))) = Cat(V, End) \cup Cat(V, Cat(C, Cat(L, End)))
  BY CatWithUnion
<1> QED
  BY <1>2, <1>3, <1>4, <1>5

LEMMA NeedElementUnfolds == NeedElement = Cat(Value, AfterElement)
  BY ElementTexts, RulesAreWords, TokensAreTexts, ListUnfolds DEF NeedElement, AfterElement, Value

LEMMA NeedPairUnfolds == NeedPair = Cat(KeyTexts, NeedColon)
<1> DEFINE pairs == TextsOf("pairs")
<1>1. NeedPair = Cat(pairs, AfterPair)
  BY MemberTexts, RulesAreWords, TokensAreTexts, ListUnfolds DEF NeedPair, AfterPair
<1>2. pairs = Cat(KeyTexts, Cat(Tok("colon"), Value))
  BY PairTexts DEF Value
<1>3. Cat(Tok("colon"), Value) \subseteq Words
  BY RulesAreWords, TokensAreTexts, CatIsText
<1>4. Cat(pairs, AfterPair) = Cat(KeyTexts, Cat(Cat(Tok("colon"), Value), AfterPair))
  BY <1>2, <1>3, RulesAreWords, TokensAreTexts, CatAssociates
<1>5. Cat(Cat(Tok("colon"), Value), AfterPair) = NeedColon
  BY RulesAreWords, TokensAreTexts, CatAssociates DEF NeedColon, NeedPairVal
<1> QED
  BY <1>1, <1>4, <1>5

LEMMA StreamUnfolds ==
  ASSUME SeveralValues
  PROVE  Stream = Cat(Value, NoText \cup Stream)
<1>1. Cat(Value, NoText \cup Stream) = Cat(Value, NoText) \cup Cat(Value, Stream)
  BY CatWithUnion
<1>2. Cat(Value, NoText) = Value
  BY RulesAreWords, CatNothing
<1> QED
  BY <1>1, <1>2, StreamTexts DEF Value, Stream

(* What follows in a state that expects a value: the value, and what       *)
(* follows after it; or what else may stand in its place.                  *)
InPlaceOfValue(s, inARow) ==
  CASE s = "array_start"          -> Tok("right_brace")
    [] s = "got_value" /\ inARow  -> NoText
    [] OTHER                      -> {}

LEMMA ValueIsNext ==
  ASSUME NEW s \in ValueStates, NEW inARow \in Modes, s = "got_value" => inARow
  PROVE  Rest(s, inARow) =
           InPlaceOfValue(s, inARow) \cup Cat(Value, Rest(AfterValue(s), inARow))
<1>1. CASE s = "start"
  <2>1. Rest(AfterValue(s), inARow) = IF inARow THEN NoText \cup Stream ELSE NoText
    BY <1>1 DEF AfterValue, Rest
  <2>2. Rest(s, inARow) = IF inARow THEN Stream ELSE Value
    BY <1>1 DEF Rest
  <2>3. Cat(Value, NoText) = Value
    BY RulesAreWords, CatNothing
  <2>4. InPlaceOfValue(s, inARow) = {}
    BY <1>1 DEF InPlaceOfValue
  <2> QED
    BY <2>1, <2>2, <2>3, <2>4, StreamUnfolds DEF Modes
<1>2. CASE s = "got_value"
  <2>1. Rest(AfterValue(s), inARow) = NoText \cup Stream
    BY <1>2 DEF AfterValue, Rest
  <2>2. Rest(s, inARow) = NoText \cup Stream
    BY <1>2 DEF Rest
  <2>3. InPlaceOfValue(s, inARow) = NoText
    BY <1>2 DEF InPlaceOfValue
  <2> QED
    BY <1>2, <2>1, <2>2, <2>3, StreamUnfolds DEF Modes
<1>3. CASE s = "map_need_val"
  BY <1>3 DEF AfterValue, Rest, InPlaceOfValue, NeedPairVal
<1>4. CASE s = "array_need_val"
  BY <1>4, NeedElementUnfolds DEF AfterValue, Rest, InPlaceOfValue
<1>5. CASE s = "array_start"
  BY <1>5, NeedElementUnfolds DEF AfterValue, Rest, InPlaceOfValue
<1> QED
  BY <1>1, <1>2, <1>3, <1>4, <1>5 DEF ValueStates

-----------------------------------------------------------------------------
(* Reading a token                                                         *)

\* What completes a text of A after the token t.
After(t, A) == {r \in Words : <<t>> \o r \in A}

One(S) == {<<u>> : u \in S}

LEMMA TokensByKind ==
  /\ \A tok : Tok(tok) = One({l \in Lexemes : l.tok = tok})
  /\ KeyTexts = One({l \in Lexemes : SpellsKey(l)})
  /\ LiteralTexts = One({l \in Lexemes : SpellsLiteral(l)})
  BY DEF Tok, KeyTexts, LiteralTexts, One

LEMMA FirstToken ==
  ASSUME NEW t \in Lexemes, NEW u \in Lexemes, NEW r \in Words, NEW b \in Words
  PROVE  /\ <<t>> \in Words
         /\ <<t>> \o r = <<u>> \o b <=> t = u /\ r = b
         /\ <<t>> \o r # <<>>
<1>1. /\ <<t>> \in Seq(Lexemes) /\ <<u>> \in Seq(Lexemes)
      /\ Len(<<t>>) = 1 /\ Len(<<u>>) = 1 /\ <<t>>[1] = t /\ <<u>>[1] = u
  OBVIOUS
<1>2. (<<t>> \o r)[1] = t /\ Len(<<t>> \o r) = 1 + Len(r)
  BY <1>1, ConcatProperties DEF Words
<1>3. (<<u>> \o b)[1] = u
  BY <1>1, ConcatProperties DEF Words
<1>4. ASSUME <<t>> \o r = <<u>> \o b
      PROVE  t = u /\ r = b
  <2>1. t = u
    BY <1>2, <1>3, <1>4
  <2>2. <<t>> \o r = <<t>> \o b
    BY <1>4, <2>1
  <2>3. \A x, y, z \in Words : x \o y = x \o z => y = z
    BY ConcatSimplifications DEF Words
  <2>4. r = b
    BY <1>1, <2>2, <2>3 DEF Words
  <2> QED
    BY <2>1, <2>4
<1>5. Len(r) \in Nat /\ Len(<<>>) = 0
  BY DEF Words
<1>6. <<t>> \o r # <<>>
  BY <1>2, <1>5
<1> QED
  BY <1>1, <1>4, <1>6 DEF Words

LEMMA AfterUnion ==
  ASSUME NEW t, NEW A, NEW B
  PROVE  After(t, A \cup B) = After(t, A) \cup After(t, B)
  BY DEF After

LEMMA AfterNone ==
  ASSUME NEW t \in Lexemes
  PROVE  After(t, {}) = {} /\ After(t, NoText) = {}
<1>1. \A r \in Words : <<t>> \o r # <<>>
  BY FirstToken
<1> QED
  BY <1>1 DEF After, NoText

LEMMA AfterOne ==
  ASSUME NEW t \in Lexemes, NEW S, S \subseteq Lexemes, NEW B, B \subseteq Words
  PROVE  After(t, Cat(One(S), B)) = IF t \in S THEN B ELSE {}
<1>1. ASSUME NEW r \in After(t, Cat(One(S), B))
      PROVE  t \in S /\ r \in B
  <2>1. r \in Words /\ <<t>> \o r \in Cat(One(S), B)
    BY DEF After
  <2> DEFINE w == <<t>> \o r
  <2>2. PICK x \in One(S), b \in B : w = x \o b
    <3>1. w \in Cat(One(S), B)
      BY <2>1
    <3> HIDE DEF w
    <3> QED
      BY <3>1, InCat
  <2>3. PICK u \in S : x = <<u>>
    BY DEF One
  <2>4. b \in Words /\ u \in Lexemes /\ <<t>> \o r = <<u>> \o b
    BY <2>2, <2>3
  <2>5. t = u /\ r = b
    BY <2>1, <2>4, FirstToken
  <2> QED
    BY <2>5
<1>2. ASSUME t \in S, NEW r \in B
      PROVE  r \in After(t, Cat(One(S), B))
  <2>1. <<t>> \in One(S)
    BY <1>2 DEF One
  <2>2. <<t>> \o r \in Cat(One(S), B)
    BY <2>1, InCat
  <2> QED
    BY <2>2 DEF After
<1> QED
  BY <1>1, <1>2

LEMMA AfterTok ==
  ASSUME NEW t \in Lexemes, NEW B, B \subseteq Words, NEW tok
  PROVE  After(t, Cat(Tok(tok), B)) = IF t.tok = tok THEN B ELSE {}
<1> DEFINE S == {l \in Lexemes : l.tok = tok}
<1>1. Tok(tok) = One(S) /\ S \subseteq Lexemes /\ (t \in S <=> t.tok = tok)
  BY TokensByKind
<1> HIDE DEF S
<1> QED
  BY <1>1, AfterOne

LEMMA AfterKey ==
  ASSUME NEW t \in Lexemes, NEW B, B \subseteq Words
  PROVE  After(t, Cat(KeyTexts, B)) = IF SpellsKey(t) THEN B ELSE {}
<1> DEFINE S == {l \in Lexemes : SpellsKey(l)}
<1>1. KeyTexts = One(S) /\ S \subseteq Lexemes /\ (t \in S <=> SpellsKey(t))
  BY TokensByKind
<1> HIDE DEF S
<1> QED
  BY <1>1, AfterOne

LEMMA AfterLiteral ==
  ASSUME NEW t \in Lexemes, NEW B, B \subseteq Words
  PROVE  After(t, Cat(LiteralTexts, B)) = IF SpellsLiteral(t) THEN B ELSE {}
<1> DEFINE S == {l \in Lexemes : SpellsLiteral(l)}
<1>1. LiteralTexts = One(S) /\ S \subseteq Lexemes /\ (t \in S <=> SpellsLiteral(t))
  BY TokensByKind
<1> HIDE DEF S
<1> QED
  BY <1>1, AfterOne

\* An array and an object from their first token.
ArrayStart == Tok("right_brace") \cup NeedElement
MapStart   == Tok("right_bracket") \cup NeedPair

LEMMA ValueUnfolds ==
  Value = LiteralTexts \cup Cat(Tok("left_brace"), ArrayStart) \cup Cat(Tok("left_bracket"), MapStart)
<1> DEFINE E == TextsOf("elements")
           M == TextsOf("members")
<1>1. Cat(E \cup NoText, Tok("right_brace")) = NeedElement \cup Cat(NoText, Tok("right_brace"))
  BY CatOfUnion DEF NeedElement
<1>2. Cat(NoText, Tok("right_brace")) = Tok("right_brace")
  BY TokensAreTexts, CatNothing
<1>3. Arrays(E \cup NoText) = Cat(Tok("left_brace"), ArrayStart)
  BY <1>1, <1>2 DEF Arrays, ArrayStart
<1>4. Cat(M \cup NoText, Tok("right_bracket")) = NeedPair \cup Cat(NoText, Tok("right_bracket"))
  BY CatOfUnion DEF NeedPair
<1>5. Cat(NoText, Tok("right_bracket")) = Tok("right_bracket")
  BY TokensAreTexts, CatNothing
<1>6. Objects(M \cup NoText) = Cat(Tok("left_bracket"), MapStart)
  BY <1>4, <1>5 DEF Objects, MapStart
<1> QED
  BY <1>3, <1>6, ValueTexts DEF Value

LEMMA AfterValueStarts ==
  ASSUME NEW t \in Lexemes, NEW K, K \subseteq Words
  PROVE  After(t, Cat(Value, K)) =
           (IF SpellsLiteral(t) THEN K ELSE {})
             \cup (IF t.tok = "left_brace" THEN Cat(ArrayStart, K) ELSE {})
             \cup (IF t.tok = "left_bracket" THEN Cat(MapStart, K) ELSE {})
<1> DEFINE A == Cat(Tok("left_brace"), ArrayStart)
           O == Cat(Tok("left_bracket"), MapStart)
<1>1. ArrayStart \subseteq Words /\ MapStart \subseteq Words
  BY RulesAreWords, TokensAreTexts DEF ArrayStart, MapStart
<1>2. Cat(A, K) = Cat(Tok("left_brace"), Cat(ArrayStart, K))
  BY <1>1, TokensAreTexts, CatAssociates
<1>3. Cat(O, K) = Cat(Tok("left_bracket"), Cat(MapStart, K))
  BY <1>1, TokensAreTexts, CatAssociates
<1>4. Cat(ArrayStart, K) \subseteq Words /\ Cat(MapStart, K) \subseteq Words
  BY <1>1, CatIsText
<1>5. After(t, Cat(A, K)) = IF t.tok = "left_brace" THEN Cat(ArrayStart, K) ELSE {}
  BY <1>2, <1>4, AfterTok
<1>6. After(t, Cat(O, K)) = IF t.tok = "left_bracket" THEN Cat(MapStart, K) ELSE {}
  BY <1>3, <1>4, AfterTok
<1>7. After(t, Cat(LiteralTexts, K)) = IF SpellsLiteral(t) THEN K ELSE {}
  BY AfterLiteral
<1>8. Value = (LiteralTexts \cup A) \cup O
  BY ValueUnfolds
<1> HIDE DEF A, O
<1>9. Cat(Value, K) = Cat(LiteralTexts \cup A, K) \cup Cat(O, K)
  BY <1>8, CatOfUnion
<1>10. Cat(LiteralTexts \cup A, K) = Cat(LiteralTexts, K) \cup Cat(A, K)
  BY CatOfUnion
<1>11. After(t, Cat(Value, K)) =
         After(t, Cat(LiteralTexts, K)) \cup After(t, Cat(A, K)) \cup After(t, Cat(O, K))
  <2>1. After(t, Cat(LiteralTexts \cup A, K) \cup Cat(O, K)) =
          After(t, Cat(LiteralTexts \cup A, K)) \cup After(t, Cat(O, K))
    BY AfterUnion
  <2>2. After(t, Cat(LiteralTexts, K) \cup Cat(A, K)) =
          After(t, Cat(LiteralTexts, K)) \cup After(t, Cat(A, K))
    BY AfterUnion
  <2> QED
    BY <1>9, <1>10, <2>1, <2>2
<1> QED
  BY <1>5, <1>6, <1>7, <1>11

-----------------------------------------------------------------------------
(* A token in each state.  K completes the levels below, of which there    *)
(* are none under the states of the root.                                  *)

Below(s) == IF s \in RootStates THEN {NoText} ELSE SUBSET Words
If(condition, A) == IF condition THEN A ELSE {}

LEMMA BelowIsWords ==
  \A s : \A K \in Below(s) : K \subseteq Words
  BY TokensAreTexts DEF Below

LEMMA RestWithBelow ==
  ASSUME NEW s, NEW inARow \in Modes, NEW K, K \subseteq Words
  PROVE  Cat(Rest(s, inARow), K) \subseteq Words
  BY RestIsWords, CatIsText

LEMMA AfterInValueState ==
  ASSUME NEW t \in Lexemes, NEW inARow \in Modes, NEW s \in ValueStates,
         s = "got_value" => inARow, NEW K \in Below(s)
  PROVE  LET N == Cat(Rest(AfterValue(s), inARow), K)
         IN  After(t, Cat(Rest(s, inARow), K)) =
               If(s = "array_start" /\ t.tok = "right_brace", K)
                 \cup (If(SpellsLiteral(t), N)
                        \cup If(t.tok = "left_brace", Cat(ArrayStart, N))
                        \cup If(t.tok = "left_bracket", Cat(MapStart, N)))
<1> DEFINE R == Rest(AfterValue(s), inARow)
           N == Cat(R, K)
           I == InPlaceOfValue(s, inARow)
<1>1. K \subseteq Words
  BY BelowIsWords
<1>2. R \subseteq Words /\ N \subseteq Words
  BY <1>1, RestIsWords, RestWithBelow
<1> HIDE DEF R
<1>3. Cat(Cat(Value, R), K) = Cat(Value, N)
  BY <1>1, <1>2, RulesAreWords, CatAssociates
<1>4. Rest(s, inARow) = I \cup Cat(Value, R)
  BY ValueIsNext DEF R
<1> HIDE DEF N, I
<1>5. Cat(Rest(s, inARow), K) = Cat(I, K) \cup Cat(Value, N)
  <2>1. Cat(I \cup Cat(Value, R), K) = Cat(I, K) \cup Cat(Cat(Value, R), K)
    BY CatOfUnion
  <2> QED
    BY <1>3, <1>4, <2>1
<1>6. After(t, Cat(Rest(s, inARow), K)) = After(t, Cat(I, K)) \cup After(t, Cat(Value, N))
  BY <1>5, AfterUnion
<1>7. After(t, Cat(Value, N)) =
        If(SpellsLiteral(t), N)
          \cup If(t.tok = "left_brace", Cat(ArrayStart, N))
          \cup If(t.tok = "left_bracket", Cat(MapStart, N))
  BY <1>2, AfterValueStarts DEF If
<1>8. After(t, Cat(I, K)) = If(s = "array_start" /\ t.tok = "right_brace", K)
  <2>1. CASE s = "array_start"
    <3>1. I = Tok("right_brace")
      BY <2>1 DEF I, InPlaceOfValue
    <3>2. After(t, Cat(Tok("right_brace"), K)) = IF t.tok = "right_brace" THEN K ELSE {}
      BY <1>1, AfterTok
    <3> QED
      BY <2>1, <3>1, <3>2 DEF If
  <2>2. CASE s = "got_value"
    <3>1. I = NoText /\ K = NoText
      BY <2>2 DEF I, InPlaceOfValue, Below, RootStates
    <3>2. Cat(I, K) = NoText
      BY <3>1, TokensAreTexts, CatNothing
    <3> QED
      BY <2>2, <3>2, AfterNone DEF If
  <2>3. CASE s # "array_start" /\ s # "got_value"
    <3>1. I = {}
      BY <2>3 DEF I, InPlaceOfValue
    <3> QED
      BY <2>3, <3>1, AfterNone, CatNone DEF If
  <2> QED
    BY <2>1, <2>2, <2>3
<1> QED
  BY <1>6, <1>7, <1>8 DEF N, R

LEMMA AfterInKeyState ==
  ASSUME NEW t \in Lexemes, NEW inARow \in Modes, NEW s \in KeyStates, NEW K \in SUBSET Words
  PROVE  After(t, Cat(Rest(s, inARow), K)) =
           If(s = "map_start" /\ t.tok = "right_bracket", K)
             \cup If(SpellsKey(t), Cat(Rest("map_sep", inARow), K))
<1>1. Cat(NeedPair, K) = Cat(KeyTexts, Cat(NeedColon, K))
  BY NeedPairUnfolds, RulesAreWords, TokensAreTexts, CatAssociates
<1>2. Cat(NeedColon, K) \subseteq Words
  BY RulesAreWords, CatIsText
<1>3. After(t, Cat(NeedPair, K)) = If(SpellsKey(t), Cat(NeedColon, K))
  BY <1>1, <1>2, AfterKey DEF If
<1>4. Rest("map_sep", inARow) = NeedColon
  BY DEF Rest
<1>5. CASE s = "map_start"
  <2>1. Rest(s, inARow) = Tok("right_bracket") \cup NeedPair
    BY <1>5 DEF Rest
  <2>2. Cat(Rest(s, inARow), K) = Cat(Tok("right_bracket"), K) \cup Cat(NeedPair, K)
    BY <2>1, CatOfUnion
  <2>3. After(t, Cat(Rest(s, inARow), K)) =
          After(t, Cat(Tok("right_bracket"), K)) \cup After(t, Cat(NeedPair, K))
    BY <2>2, AfterUnion
  <2>4. After(t, Cat(Tok("right_bracket"), K)) = If(t.tok = "right_bracket", K)
    BY AfterTok DEF If
  <2> QED
    BY <1>3, <1>4, <1>5, <2>3, <2>4 DEF If
<1>6. CASE s = "map_need_key"
  <2>1. Rest(s, inARow) = NeedPair
    BY <1>6 DEF Rest
  <2> QED
    BY <1>3, <1>4, <1>6, <2>1 DEF If
<1> QED
  BY <1>5, <1>6 DEF KeyStates

LEMMA AfterInSeparatorState ==
  ASSUME NEW t \in Lexemes, NEW inARow \in Modes, NEW K \in SUBSET Words
  PROVE  /\ After(t, Cat(Rest("map_sep", inARow), K)) =
              If(t.tok = "colon", Cat(Rest("map_need_val", inARow), K))
         /\ After(t, Cat(Rest("map_got_val", inARow), K)) =
              If(t.tok = "right_bracket", K)
                \cup If(t.tok = "comma", Cat(Rest("map_need_key", inARow), K))
         /\ After(t, Cat(Rest("array_got_val", inARow), K)) =
              If(t.tok = "right_brace", K)
                \cup If(t.tok = "comma", Cat(Rest("array_need_val", inARow), K))
<1>1. /\ Rest("map_sep", inARow) = Cat(Tok("colon"), NeedPairVal)
      /\ Rest("map_need_val", inARow) = NeedPairVal
      /\ Rest("map_need_key", inARow) = NeedPair
      /\ Rest("array_need_val", inARow) = NeedElement
      /\ Rest("map_got_val", inARow) = Tok("right_bracket") \cup Cat(Tok("comma"), NeedPair)
      /\ Rest("array_got_val", inARow) = Tok("right_brace") \cup Cat(Tok("comma"), NeedElement)
  BY DEF Rest, NeedColon, AfterPair, AfterElement
<1>2. ASSUME NEW tok, NEW A, A \subseteq Words
      PROVE  After(t, Cat(Cat(Tok(tok), A), K)) = If(t.tok = tok, Cat(A, K))
  <2>1. Cat(Cat(Tok(tok), A), K) = Cat(Tok(tok), Cat(A, K))
    BY <1>2, TokensAreTexts, CatAssociates
  <2>2. Cat(A, K) \subseteq Words
    BY <1>2, CatIsText
  <2> QED
    BY <2>1, <2>2, AfterTok DEF If
<1>3. ASSUME NEW end, NEW A, A \subseteq Words
      PROVE  After(t, Cat(Tok(end) \cup Cat(Tok("comma"), A), K)) =
               If(t.tok = end, K) \cup If(t.tok = "comma", Cat(A, K))
  <2> DEFINE longer == Cat(Tok("comma"), A)
  <2>1. After(t, Cat(longer, K)) = If(t.tok = "comma", Cat(A, K))
    BY <1>2, <1>3
  <2>2. After(t, Cat(Tok(end), K)) = If(t.tok = end, K)
    BY AfterTok DEF If
  <2> HIDE DEF longer
  <2>3. Cat(Tok(end) \cup longer, K) = Cat(Tok(end), K) \cup Cat(longer, K)
    BY CatOfUnion
  <2>4. After(t, Cat(Tok(end) \cup longer, K)) = After(t, Cat(Tok(end), K)) \cup After(t, Cat(longer, K))
    <3>1. After(t, Cat(Tok(end), K) \cup Cat(longer, K)) =
            After(t, Cat(Tok(end), K)) \cup After(t, Cat(longer, K))
      BY AfterUnion
    <3> QED
      BY <2>3, <3>1
  <2>5. longer = Cat(Tok("comma"), A)
    BY DEF longer
  <2> QED
    BY <2>1, <2>2, <2>4, <2>5
<1> QED
  BY <1>1, <1>2, <1>3, RulesAreWords

-----------------------------------------------------------------------------
(* The texts that complete a stack of states                               *)

Completions(c, stack, inARow) ==
  /\ c[0] = NoText
  /\ \A i \in 0 .. Len(stack) : c[i] \in SUBSET Words
  /\ \A i \in 1 .. Len(stack) : c[i] = Cat(Rest(stack[i], inARow), c[i - 1])

\* The text s is followed by those of A, and by nothing else.
Completing(s, inARow, A) ==
  \A r \in Words : s \o r \in (IF inARow THEN Stream ELSE Value) <=> r \in A

Expects(stack, inARow, s) ==
  \E c : Completions(c, stack, inARow) /\ Completing(s, inARow, c[Len(stack)])

LEMMA TokenRead ==
  ASSUME NEW s \in Words, NEW t \in Lexemes, NEW inARow, NEW A, Completing(s, inARow, A)
  PROVE  Completing(Append(s, t), inARow, After(t, A))
<1>1. ASSUME NEW r \in Words
      PROVE  /\ Append(s, t) \o r = s \o (<<t>> \o r)
             /\ <<t>> \o r \in Words
  <2>1. <<t>> \in Words /\ Append(s, t) = s \o <<t>>
    BY AppendIsConcat, FirstToken DEF Words
  <2> QED
    BY <2>1, WordsJoin
<1> QED
  BY <1>1 DEF Completing, After

\* The state on top changes, and with it what may follow.
LEMMA CompletionsSet ==
  ASSUME NEW stack \in Seq(States), Len(stack) > 0, NEW s \in States, NEW inARow \in Modes,
         NEW c, Completions(c, stack, inARow)
  PROVE  LET top == Len(stack)
         IN  \E d : /\ Completions(d, [stack EXCEPT ![top] = s], inARow)
                    /\ d[top] = Cat(Rest(s, inARow), c[top - 1])
<1> DEFINE top == Len(stack)
           q == [stack EXCEPT ![top] = s]
           A == Cat(Rest(s, inARow), c[top - 1])
           d == [i \in 0 .. top |-> IF i = top THEN A ELSE c[i]]
<1>1. /\ q \in Seq(States) /\ Len(q) = top /\ top \in Nat \ {0} /\ q[top] = s
      /\ \A i \in 1 .. top - 1 : q[i] = stack[i]
  OBVIOUS
<1>2. A \in SUBSET Words
  <2>1. top - 1 \in 0 .. Len(stack)
    BY <1>1
  <2>2. c[top - 1] \subseteq Words
    BY <2>1 DEF Completions
  <2> QED
    BY <2>2, RestWithBelow
<1>3. /\ d[top] = A
      /\ \A i \in 0 .. top - 1 : d[i] = c[i]
  BY <1>1
<1> HIDE DEF d, q
<1>4. d[0] = NoText /\ \A i \in 0 .. top : d[i] \in SUBSET Words
  <2>1. 0 \in 0 .. top - 1 /\ \A i \in 0 .. top : i = top \/ i \in 0 .. top - 1
    BY <1>1
  <2>2. c[0] = NoText /\ \A i \in 0 .. top - 1 : c[i] \in SUBSET Words
    BY <1>1 DEF Completions
  <2> QED
    BY <1>2, <1>3, <2>1, <2>2
<1>5. ASSUME NEW i \in 1 .. top
      PROVE  d[i] = Cat(Rest(q[i], inARow), d[i - 1])
  <2>1. i - 1 \in 0 .. top - 1 /\ i \in 1 .. Len(stack)
    BY <1>1
  <2>2. d[i - 1] = c[i - 1]
    BY <1>3, <2>1
  <2>3. CASE i = top
    BY <1>1, <1>3, <2>2, <2>3
  <2>4. CASE i # top
    <3>1. i \in 0 .. top - 1 /\ i \in 1 .. top - 1
      BY <1>1, <2>4
    <3> QED
      BY <1>1, <1>3, <2>1, <2>2, <3>1 DEF Completions
  <2> QED
    BY <2>3, <2>4
<1>6. Completions(d, q, inARow)
  BY <1>1, <1>4, <1>5 DEF Completions
<1> QED
  BY <1>3, <1>6 DEF q

LEMMA CompletionsPush ==
  ASSUME NEW stack \in Seq(States), NEW s \in States, NEW inARow \in Modes,
         NEW c, Completions(c, stack, inARow)
  PROVE  LET top == Len(stack)
         IN  \E d : /\ Completions(d, Append(stack, s), inARow)
                    /\ d[top + 1] = Cat(Rest(s, inARow), c[top])
<1> DEFINE top == Len(stack)
           q == Append(stack, s)
           A == Cat(Rest(s, inARow), c[top])
           d == [i \in 0 .. top + 1 |-> IF i = top + 1 THEN A ELSE c[i]]
<1>1. /\ q \in Seq(States) /\ Len(q) = top + 1 /\ top \in Nat /\ q[top + 1] = s
      /\ \A i \in 1 .. top : q[i] = stack[i]
  OBVIOUS
<1>2. A \in SUBSET Words
  <2>1. top \in 0 .. Len(stack)
    BY <1>1
  <2>2. c[top] \subseteq Words
    BY <2>1 DEF Completions
  <2> QED
    BY <2>2, RestWithBelow
<1>3. /\ d[top + 1] = A
      /\ \A i \in 0 .. top : d[i] = c[i]
  BY <1>1
<1> HIDE DEF d, q
<1>4. d[0] = NoText /\ \A i \in 0 .. top + 1 : d[i] \in SUBSET Words
  BY <1>1, <1>2, <1>3 DEF Completions
<1>5. ASSUME NEW i \in 1 .. top + 1
      PROVE  d[i] = Cat(Rest(q[i], inARow), d[i - 1])
  <2>1. i - 1 \in 0 .. top
    BY <1>1
  <2>2. d[i - 1] = c[i - 1]
    BY <1>3, <2>1
  <2>3. CASE i = top + 1
    BY <1>1, <1>3, <2>2, <2>3
  <2>4. CASE i # top + 1
    <3>1. i \in 0 .. top /\ i \in 1 .. top
      BY <1>1, <2>4
    <3> QED
      BY <1>1, <1>3, <2>2, <3>1 DEF Completions
  <2> QED
    BY <2>3, <2>4
<1>6. Completions(d, q, inARow)
  BY <1>1, <1>4, <1>5 DEF Completions
<1> QED
  BY <1>3, <1>6 DEF q

LEMMA CompletionsPop ==
  ASSUME NEW stack \in Seq(States), Len(stack) > 1, NEW inARow \in Modes,
         NEW c, Completions(c, stack, inARow)
  PROVE  Completions(c, Pop(stack), inARow) /\ Len(Pop(stack)) = Len(stack) - 1
<1>1. /\ Len(stack) - 1 \in Nat /\ Len(Pop(stack)) = Len(stack) - 1
      /\ \A i \in 1 .. Len(stack) - 1 : Pop(stack)[i] = stack[i]
  BY DEF Pop
<1> QED
  BY <1>1 DEF Completions

(* What a token does to the stack, in step with what may follow it.        *)

Shaped(stack, inARow) ==
  /\ stack \in Seq(States)
  /\ Len(stack) > 0
  /\ LET s == stack[Len(stack)]
     IN  /\ s \in RootStates <=> Len(stack) = 1
         /\ s = "got_value" => inARow

SetsTo(t, s, next, inARow) ==
  \A K \in Below(s) : After(t, Cat(Rest(s, inARow), K)) = Cat(Rest(next, inARow), K)

OpensTo(t, s, next, inner, inARow) ==
  \A K \in Below(s) : After(t, Cat(Rest(s, inARow), K)) =
                        Cat(Rest(inner, inARow), Cat(Rest(next, inARow), K))

ClosesBy(t, s, inARow) ==
  \A K \in Below(s) : After(t, Cat(Rest(s, inARow), K)) = K

IsWrong(t, s, inARow) ==
  \A K \in Below(s) : After(t, Cat(Rest(s, inARow), K)) = {}

LEMMA TopOfStack ==
  ASSUME NEW stack, NEW inARow \in Modes, Shaped(stack, inARow),
         NEW c, Completions(c, stack, inARow)
  PROVE  LET top == Len(stack)
         IN  /\ c[top] = Cat(Rest(stack[top], inARow), c[top - 1])
             /\ c[top - 1] \in Below(stack[top])
<1> DEFINE top == Len(stack)
<1>1. top \in Nat /\ top \in 1 .. top /\ top - 1 \in 0 .. top
  BY DEF Shaped
<1>2. top = 1 => c[top - 1] = NoText
  BY DEF Completions
<1>3. c[top - 1] \in SUBSET Words
  BY <1>1 DEF Completions
<1>4. c[top] = Cat(Rest(stack[top], inARow), c[top - 1])
  BY <1>1 DEF Completions
<1>5. stack[top] \in RootStates => top = 1
  BY DEF Shaped
<1> QED
  BY <1>2, <1>3, <1>4, <1>5 DEF Below

LEMMA ExpectsAfterSet ==
  ASSUME NEW stack, NEW inARow \in Modes, Shaped(stack, inARow), NEW s \in Words,
         Expects(stack, inARow, s), NEW t \in Lexemes, NEW next \in States,
         SetsTo(t, stack[Len(stack)], next, inARow)
  PROVE  Expects([stack EXCEPT ![Len(stack)] = next], inARow, Append(s, t))
<1> DEFINE top == Len(stack)
           q == [stack EXCEPT ![top] = next]
<1>1. PICK c : Completions(c, stack, inARow) /\ Completing(s, inARow, c[top])
  BY DEF Expects
<1>2. c[top] = Cat(Rest(stack[top], inARow), c[top - 1]) /\ c[top - 1] \in Below(stack[top])
  BY <1>1, TopOfStack
<1>3. After(t, c[top]) = Cat(Rest(next, inARow), c[top - 1])
  BY <1>2 DEF SetsTo
<1>4. PICK d : Completions(d, q, inARow) /\ d[top] = Cat(Rest(next, inARow), c[top - 1])
  BY <1>1, CompletionsSet DEF Shaped
<1>5. Completing(Append(s, t), inARow, d[top])
  BY <1>1, <1>3, <1>4, TokenRead
<1>6. Len(q) = top
  BY DEF Shaped
<1> QED
  BY <1>4, <1>5, <1>6 DEF Expects

LEMMA ExpectsAfterOpen ==
  ASSUME NEW stack, NEW inARow \in Modes, Shaped(stack, inARow), NEW s \in Words,
         Expects(stack, inARow, s), NEW t \in Lexemes, NEW next \in States, NEW inner \in States,
         OpensTo(t, stack[Len(stack)], next, inner, inARow)
  PROVE  Expects(Append([stack EXCEPT ![Len(stack)] = next], inner), inARow, Append(s, t))
<1> DEFINE top == Len(stack)
           q == [stack EXCEPT ![top] = next]
<1>1. PICK c : Completions(c, stack, inARow) /\ Completing(s, inARow, c[top])
  BY DEF Expects
<1>2. c[top] = Cat(Rest(stack[top], inARow), c[top - 1]) /\ c[top - 1] \in Below(stack[top])
  BY <1>1, TopOfStack
<1>3. After(t, c[top]) = Cat(Rest(inner, inARow), Cat(Rest(next, inARow), c[top - 1]))
  BY <1>2 DEF OpensTo
<1>4. PICK d : Completions(d, q, inARow) /\ d[top] = Cat(Rest(next, inARow), c[top - 1])
  BY <1>1, CompletionsSet DEF Shaped
<1>5. q \in Seq(States) /\ Len(q) = top /\ top \in Nat
  BY DEF Shaped
<1> HIDE DEF q
<1>6. PICK e : Completions(e, Append(q, inner), inARow) /\ e[top + 1] = Cat(Rest(inner, inARow), d[top])
  BY <1>4, <1>5, CompletionsPush
<1>7. Completing(Append(s, t), inARow, e[top + 1])
  BY <1>1, <1>3, <1>4, <1>6, TokenRead
<1>8. Len(Append(q, inner)) = top + 1
  BY <1>5
<1> QED
  BY <1>6, <1>7, <1>8 DEF Expects, q

LEMMA ExpectsAfterClose ==
  ASSUME NEW stack, NEW inARow \in Modes, Shaped(stack, inARow), NEW s \in Words,
         Expects(stack, inARow, s), NEW t \in Lexemes, stack[Len(stack)] \notin RootStates,
         ClosesBy(t, stack[Len(stack)], inARow)
  PROVE  Expects(Pop(stack), inARow, Append(s, t))
<1> DEFINE top == Len(stack)
<1>1. PICK c : Completions(c, stack, inARow) /\ Completing(s, inARow, c[top])
  BY DEF Expects
<1>2. c[top] = Cat(Rest(stack[top], inARow), c[top - 1]) /\ c[top - 1] \in Below(stack[top])
  BY <1>1, TopOfStack
<1>3. After(t, c[top]) = c[top - 1]
  BY <1>2 DEF ClosesBy
<1>4. top > 1
  <2>1. top \in Nat /\ top > 0 /\ top # 1
    BY DEF Shaped
  <2>2. \A n \in Nat : n > 0 /\ n # 1 => n > 1
    OBVIOUS
  <2> QED
    BY <2>1, <2>2
<1>5. Completions(c, Pop(stack), inARow) /\ Len(Pop(stack)) = top - 1
  BY <1>1, <1>4, CompletionsPop DEF Shaped
<1>6. Completing(Append(s, t), inARow, c[top - 1])
  BY <1>1, <1>3, TokenRead
<1> QED
  BY <1>5, <1>6 DEF Expects

LEMMA NothingAfterWrong ==
  ASSUME NEW stack, NEW inARow \in Modes, Shaped(stack, inARow), NEW s \in Words,
         Expects(stack, inARow, s), NEW t \in Lexemes,
         IsWrong(t, stack[Len(stack)], inARow)
  PROVE  Completing(Append(s, t), inARow, {})
<1> DEFINE top == Len(stack)
<1>1. PICK c : Completions(c, stack, inARow) /\ Completing(s, inARow, c[top])
  BY DEF Expects
<1>2. c[top] = Cat(Rest(stack[top], inARow), c[top - 1]) /\ c[top - 1] \in Below(stack[top])
  BY <1>1, TopOfStack
<1>3. After(t, c[top]) = {}
  BY <1>2 DEF IsWrong
<1> QED
  BY <1>1, <1>3, TokenRead

(* The end of the text.                                                    *)
LEMMA EmptyCat ==
  ASSUME NEW A, NEW B, A \subseteq Words, B \subseteq Words, <<>> \in Cat(A, B)
  PROVE  <<>> \in A /\ <<>> \in B
<1>1. PICK w : w = <<>>
  OBVIOUS
<1>2. PICK a \in A, b \in B : w = a \o b
  BY <1>1, InCat
<1>3. a \in Seq(Lexemes) /\ b \in Seq(Lexemes)
  BY DEF Words
<1>4. a = <<>> /\ b = <<>>
  BY <1>1, <1>2, <1>3, ConcatSimplifications
<1> QED
  BY <1>4

LEMMA RestIsNotEmpty ==
  ASSUME NEW s, s \notin {"got_value", "parse_complete"}, NEW inARow \in Modes
  PROVE  <<>> \notin Rest(s, inARow)
<1>1. \A tok : <<>> \notin Tok(tok)
  BY TokensSized DEF Sized
<1>2. <<>> \notin Value /\ <<>> \notin Stream /\ <<>> \notin TextsOf("elements") /\ <<>> \notin TextsOf("members")
  BY TextsAreWords DEF Value, Stream, Rules
<1>3. <<>> \notin NeedElement
  BY <1>2, RulesAreWords, TokensAreTexts, EmptyCat DEF NeedElement
<1>4. <<>> \notin NeedPair
  BY <1>2, RulesAreWords, TokensAreTexts, EmptyCat DEF NeedPair
<1>5. <<>> \notin AfterElement
  BY <1>1, RulesAreWords, TokensAreTexts, EmptyCat DEF AfterElement
<1>6. <<>> \notin AfterPair
  BY <1>1, RulesAreWords, TokensAreTexts, EmptyCat DEF AfterPair
<1>7. <<>> \notin NeedPairVal
  BY <1>2, RulesAreWords, EmptyCat DEF NeedPairVal
<1>8. <<>> \notin NeedColon
  BY <1>1, RulesAreWords, TokensAreTexts, EmptyCat DEF NeedColon
<1> QED
  BY <1>1, <1>2, <1>3, <1>4, <1>5, <1>6, <1>7, <1>8 DEF Rest

LEMMA EndsOrNot ==
  ASSUME NEW stack, NEW inARow \in Modes, Shaped(stack, inARow), NEW s \in Words,
         Expects(stack, inARow, s), stack[Len(stack)] \notin ErrorStates
  PROVE  s \in (IF inARow THEN Stream ELSE Value) <=>
           stack[Len(stack)] \in {"got_value", "parse_complete"}
<1> DEFINE top == Len(stack)
           state == stack[top]
<1>1. PICK c : Completions(c, stack, inARow) /\ Completing(s, inARow, c[top])
  BY DEF Expects
<1>2. c[top] = Cat(Rest(state, inARow), c[top - 1]) /\ c[top - 1] \in Below(state)
  BY <1>1, TopOfStack
<1>3. s \in (IF inARow THEN Stream ELSE Value) <=> <<>> \in c[top]
  BY <1>1, WordsJoin DEF Completing
<1>4. state \in {"got_value", "parse_complete"} => <<>> \in c[top]
  <2> SUFFICES ASSUME state \in {"got_value", "parse_complete"}
               PROVE  <<>> \in c[top]
    OBVIOUS
  <2>1. c[top - 1] = NoText
    BY <1>2 DEF Below, RootStates
  <2>2. c[top] = Rest(state, inARow)
    BY <1>2, <2>1, RestIsWords, CatNothing
  <2>3. <<>> \in NoText
    BY DEF NoText
  <2> QED
    BY <2>2, <2>3 DEF Rest
<1>5. state \notin {"got_value", "parse_complete"} => <<>> \notin c[top]
  <2> SUFFICES ASSUME state \notin {"got_value", "parse_complete"}
               PROVE  <<>> \notin c[top]
    OBVIOUS
  <2>1. <<>> \notin Rest(state, inARow)
    BY RestIsNotEmpty
  <2>2. c[top - 1] \subseteq Words
    BY <1>2, BelowIsWords
  <2> QED
    BY <1>2, <2>1, <2>2, RestIsWords, EmptyCat
<1> QED
  BY <1>3, <1>4, <1>5

-----------------------------------------------------------------------------
(* The tokens that the parser takes in each state are those that may       *)
(* follow, and it moves on to a state that knows what may follow next.     *)

LEMMA TokenKinds ==
  ASSUME NEW t \in Lexemes
  PROVE  /\ t.tok \in Toks
         /\ SpellsLiteral(t) <=> t.tok \in ScalarToks
         /\ SpellsKey(t) <=> t.tok \in StringToks
<1>1. t.tok \in Toks
  BY LexemesAssumption
<1> QED
  BY <1>1 DEF SpellsLiteral, SpellsKey, Punctuation, Toks, ScalarToks, StringToks, NumberToks

LEMMA ValueStateMoves ==
  ASSUME NEW t \in Lexemes, NEW inARow \in Modes, NEW s \in ValueStates,
         s = "got_value" => inARow
  PROVE  /\ t.tok \in ScalarToks => SetsTo(t, s, AfterValue(s), inARow)
         /\ t.tok = "left_bracket" => OpensTo(t, s, AfterValue(s), "map_start", inARow)
         /\ t.tok = "left_brace" => OpensTo(t, s, AfterValue(s), "array_start", inARow)
         /\ s = "array_start" /\ t.tok = "right_brace" => ClosesBy(t, s, inARow)
         /\ \/ t.tok \in {"colon", "comma", "right_bracket", "error"}
            \/ t.tok = "right_brace" /\ s # "array_start"
            => IsWrong(t, s, inARow)
<1>1. /\ t.tok \in ScalarToks => t.tok \notin {"right_brace", "left_brace", "left_bracket"}
      /\ ~("left_bracket" \in ScalarToks) /\ ~("left_brace" \in ScalarToks)
      /\ t.tok \in {"colon", "comma", "right_bracket", "error", "right_brace"} => t.tok \notin ScalarToks
  BY DEF ScalarToks, StringToks, NumberToks
<1>2. Rest("array_start", inARow) = ArrayStart /\ Rest("map_start", inARow) = MapStart
  BY DEF Rest, ArrayStart, MapStart
<1>3. ASSUME NEW K \in Below(s)
      PROVE  LET N == Cat(Rest(AfterValue(s), inARow), K)
             IN  After(t, Cat(Rest(s, inARow), K)) =
                   If(s = "array_start" /\ t.tok = "right_brace", K)
                     \cup (If(t.tok \in ScalarToks, N)
                            \cup If(t.tok = "left_brace", Cat(ArrayStart, N))
                            \cup If(t.tok = "left_bracket", Cat(MapStart, N)))
  BY AfterInValueState, TokenKinds DEF If
<1>4. t.tok \in ScalarToks => SetsTo(t, s, AfterValue(s), inARow)
  BY <1>1, <1>3 DEF SetsTo, If
<1>5. t.tok = "left_bracket" => OpensTo(t, s, AfterValue(s), "map_start", inARow)
  BY <1>1, <1>2, <1>3 DEF OpensTo, If
<1>6. t.tok = "left_brace" => OpensTo(t, s, AfterValue(s), "array_start", inARow)
  BY <1>1, <1>2, <1>3 DEF OpensTo, If
<1>7. s = "array_start" /\ t.tok = "right_brace" => ClosesBy(t, s, inARow)
  BY <1>1, <1>3 DEF ClosesBy, If
<1>8. \/ t.tok \in {"colon", "comma", "right_bracket", "error"}
      \/ t.tok = "right_brace" /\ s # "array_start"
      => IsWrong(t, s, inARow)
  BY <1>1, <1>3 DEF IsWrong, If
<1> QED
  BY <1>4, <1>5, <1>6, <1>7, <1>8

LEMMA KeyStateMoves ==
  ASSUME NEW t \in Lexemes, NEW inARow \in Modes, NEW s \in KeyStates
  PROVE  /\ t.tok \in StringToks => SetsTo(t, s, "map_sep", inARow)
         /\ s = "map_start" /\ t.tok = "right_bracket" => ClosesBy(t, s, inARow)
         /\ t.tok \notin StringToks /\ (t.tok = "right_bracket" => s = "map_need_key")
            => IsWrong(t, s, inARow)
<1>1. "right_bracket" \notin StringToks /\ ~(s = "map_start" /\ s = "map_need_key")
  BY DEF StringToks
<1>2. Below(s) = SUBSET Words
  BY DEF Below, KeyStates, RootStates
<1>3. ASSUME NEW K \in Below(s)
      PROVE  After(t, Cat(Rest(s, inARow), K)) =
               If(s = "map_start" /\ t.tok = "right_bracket", K)
                 \cup If(t.tok \in StringToks, Cat(Rest("map_sep", inARow), K))
  BY <1>2, AfterInKeyState, TokenKinds DEF If
<1>4. t.tok \in StringToks => SetsTo(t, s, "map_sep", inARow)
  BY <1>1, <1>3 DEF SetsTo, If
<1>5. s = "map_start" /\ t.tok = "right_bracket" => ClosesBy(t, s, inARow)
  BY <1>1, <1>3 DEF ClosesBy, If
<1>6. t.tok \notin StringToks /\ (t.tok = "right_bracket" => s = "map_need_key") => IsWrong(t, s, inARow)
  BY <1>1, <1>3 DEF IsWrong, If
<1> QED
  BY <1>4, <1>5, <1>6

LEMMA SeparatorMoves ==
  ASSUME NEW t \in Lexemes, NEW inARow \in Modes
  PROVE  /\ t.tok = "colon" => SetsTo(t, "map_sep", "map_need_val", inARow)
         /\ t.tok # "colon" => IsWrong(t, "map_sep", inARow)
         /\ t.tok = "right_bracket" => ClosesBy(t, "map_got_val", inARow)
         /\ t.tok = "comma" => SetsTo(t, "map_got_val", "map_need_key", inARow)
         /\ t.tok \notin {"right_bracket", "comma"} => IsWrong(t, "map_got_val", inARow)
         /\ t.tok = "right_brace" => ClosesBy(t, "array_got_val", inARow)
         /\ t.tok = "comma" => SetsTo(t, "array_got_val", "array_need_val", inARow)
         /\ t.tok \notin {"right_brace", "comma"} => IsWrong(t, "array_got_val", inARow)
<1>1. \A s \in {"map_sep", "map_got_val", "array_got_val"} : Below(s) = SUBSET Words
  BY DEF Below, RootStates
<1>2. ASSUME NEW K \in SUBSET Words
      PROVE  /\ After(t, Cat(Rest("map_sep", inARow), K)) =
                  If(t.tok = "colon", Cat(Rest("map_need_val", inARow), K))
             /\ After(t, Cat(Rest("map_got_val", inARow), K)) =
                  If(t.tok = "right_bracket", K)
                    \cup If(t.tok = "comma", Cat(Rest("map_need_key", inARow), K))
             /\ After(t, Cat(Rest("array_got_val", inARow), K)) =
                  If(t.tok = "right_brace", K)
                    \cup If(t.tok = "comma", Cat(Rest("array_need_val", inARow), K))
  BY AfterInSeparatorState
<1>3. /\ t.tok = "colon" => SetsTo(t, "map_sep", "map_need_val", inARow)
      /\ t.tok # "colon" => IsWrong(t, "map_sep", inARow)
  BY <1>1, <1>2 DEF SetsTo, IsWrong, If
<1>4. /\ t.tok = "right_bracket" => ClosesBy(t, "map_got_val", inARow)
      /\ t.tok = "comma" => SetsTo(t, "map_got_val", "map_need_key", inARow)
      /\ t.tok \notin {"right_bracket", "comma"} => IsWrong(t, "map_got_val", inARow)
  <2>1. t.tok = "right_bracket" => ClosesBy(t, "map_got_val", inARow)
    BY <1>1, <1>2 DEF ClosesBy, If
  <2>2. t.tok = "comma" => SetsTo(t, "map_got_val", "map_need_key", inARow)
    BY <1>1, <1>2 DEF SetsTo, If
  <2>3. t.tok \notin {"right_bracket", "comma"} => IsWrong(t, "map_got_val", inARow)
    BY <1>1, <1>2 DEF IsWrong, If
  <2> QED
    BY <2>1, <2>2, <2>3
<1>5. /\ t.tok = "right_brace" => ClosesBy(t, "array_got_val", inARow)
      /\ t.tok = "comma" => SetsTo(t, "array_got_val", "array_need_val", inARow)
      /\ t.tok \notin {"right_brace", "comma"} => IsWrong(t, "array_got_val", inARow)
  <2>1. t.tok = "right_brace" => ClosesBy(t, "array_got_val", inARow)
    BY <1>1, <1>2 DEF ClosesBy, If
  <2>2. t.tok = "comma" => SetsTo(t, "array_got_val", "array_need_val", inARow)
    BY <1>1, <1>2 DEF SetsTo, If
  <2>3. t.tok \notin {"right_brace", "comma"} => IsWrong(t, "array_got_val", inARow)
    BY <1>1, <1>2 DEF IsWrong, If
  <2> QED
    BY <2>1, <2>2, <2>3
<1> QED
  BY <1>3, <1>4, <1>5

LEMMA NothingAfterRoot ==
  ASSUME NEW t \in Lexemes
  PROVE  IsWrong(t, "parse_complete", FALSE)
<1>1. Below("parse_complete") = {NoText} /\ Rest("parse_complete", FALSE) = NoText
  BY DEF Below, RootStates, Rest
<1>2. Cat(NoText, NoText) = NoText
  BY TokensAreTexts, CatNothing
<1> QED
  BY <1>1, <1>2, AfterNone DEF IsWrong

-----------------------------------------------------------------------------
(* The inductive invariant: the stack tells exactly which texts complete   *)
(* the one that was read, and after an error there are none.               *)

Whole == IF InARow THEN Stream ELSE Value

Excused == {"client cancelled", "overflow"}

GoesOn == parseError = "none" /\ Expects(stateStack, InARow, consumed)

HasFailed ==
  parseError \notin Excused =>
    IF parseError = "premature EOF" THEN consumed \notin Whole
                                    ELSE Completing(consumed, InARow, {})

TextInv ==
  /\ Len(consumed) <= MaxTokens
  /\ IF Current \in ErrorStates THEN HasFailed ELSE GoesOn
  /\ Accepted /\ "allow_partial_values" \notin flags => Current \in {"got_value", "parse_complete"}

LEMMA StackIsShaped ==
  ASSUME Inv, Current \notin ErrorStates
  PROVE  Shaped(stateStack, InARow)
<1>1. /\ stateStack \in Seq(States) /\ Len(stateStack) > 0
      /\ IF Len(stateStack) = 1 THEN Current \in TopStates ELSE Current \in InnerStates
  BY DEF Inv, TypeOK, StackShape, WellFormed, Current
<1>2. Current \in TopStates => Current \in RootStates
  BY DEF TopStates
<1>3. Current \in InnerStates => Current \notin RootStates /\ Current # "got_value"
  BY DEF InnerStates, RootStates
<1>4. Current \in TopStates /\ Current = "got_value" => InARow
  BY DEF TopStates, InARow
<1> QED
  BY <1>1, <1>2, <1>3, <1>4 DEF Shaped, Current

LEMMA InARowIsAMode ==
  ASSUME Inv
  PROVE  InARow \in Modes
<1>1. flags \in Configurations
  BY DEF Inv, TypeOK
<1>2. InARow => SeveralValues
  BY <1>1 DEF InARow, SeveralValues
<1>3. InARow \in BOOLEAN
  BY DEF InARow
<1> QED
  BY <1>2, <1>3 DEF Modes

LEMMA LexReads ==
  ASSUME Inv, TextInv, NEW t \in Lexemes, Lex(t)
  PROVE  /\ consumed \in Words /\ consumed' = Append(consumed, t)
         /\ Len(consumed') <= MaxTokens
         /\ InARow' = InARow /\ flags' = flags /\ call' = call /\ status = "running"
<1>1. /\ consumed' = Append(consumed, t) /\ flags' = flags /\ call' = call
      /\ Len(consumed) < MaxTokens /\ status = "running"
  BY DEF Lex
<1>2. consumed \in Seq(Lexemes)
  BY DEF Inv, TypeOK
<1>3. Len(Append(consumed, t)) = Len(consumed) + 1 /\ Len(consumed) \in Nat
  BY <1>2
<1> QED
  BY <1>1, <1>2, <1>3, MaxTokensAssumption DEF Words, InARow

LEMMA NewTop ==
  ASSUME Inv, NEW s \in States
  PROVE  SetCurrent(s)[Len(SetCurrent(s))] = s
  BY DEF Inv, TypeOK, StackShape, WellFormed, SetCurrent

(* The client cancels, or a number does not fit.                           *)
LEMMA ExcusedStep ==
  ASSUME Inv, TextInv, NEW t \in Lexemes, Lex(t), stateStack' = SetCurrent("parse_error"),
         parseError' \in Excused, status' # "ok"
  PROVE  TextInv'
<1>1. Current' \in ErrorStates
  BY NewTop DEF Current, ErrorStates, States
<1>2. HasFailed'
  BY DEF HasFailed
<1>3. ~Accepted'
  BY DEF Accepted
<1>4. (Len(consumed) <= MaxTokens)'
  BY LexReads
<1> QED
  BY <1>1, <1>2, <1>3, <1>4 DEF TextInv

(* A token that may not follow.                                            *)
LEMMA WrongStep ==
  ASSUME Inv, TextInv, NEW t \in Lexemes, Lex(t), Current \notin ErrorStates,
         IsWrong(t, Current, InARow), NEW e \in ErrorStates, stateStack' = SetCurrent(e),
         parseError' # "premature EOF", status' # "ok"
  PROVE  TextInv'
<1>1. Current' \in ErrorStates
  <2>1. e \in States
    BY DEF States
  <2> QED
    BY <2>1, NewTop DEF Current
<1>2. Completing(consumed', InARow', {})
  <2>1. GoesOn
    BY DEF TextInv
  <2>2. Completing(Append(consumed, t), InARow, {})
    BY <2>1, LexReads, StackIsShaped, InARowIsAMode, NothingAfterWrong DEF GoesOn, Current
  <2> QED
    BY <2>2, LexReads
<1>3. HasFailed'
  BY <1>2 DEF HasFailed
<1>4. ~Accepted'
  BY DEF Accepted
<1>5. (Len(consumed) <= MaxTokens)'
  BY LexReads
<1> QED
  BY <1>1, <1>3, <1>4, <1>5 DEF TextInv

(* A token that may follow.                                                *)
LEMMA RightStep ==
  ASSUME Inv, TextInv, NEW t \in Lexemes, Lex(t), Current \notin ErrorStates,
         Expects(stateStack', InARow, Append(consumed, t)),
         Current' \notin ErrorStates, UNCHANGED <<parseError, status>>
  PROVE  TextInv'
<1>1. parseError' = "none"
  BY DEF TextInv, GoesOn
<1>2. GoesOn'
  BY <1>1, LexReads DEF GoesOn
<1>3. ~Accepted'
  BY LexReads DEF Accepted
<1>4. (Len(consumed) <= MaxTokens)'
  BY LexReads
<1> QED
  BY <1>2, <1>3, <1>4 DEF TextInv

LEMMA SetStep ==
  ASSUME Inv, TextInv, NEW t \in Lexemes, Lex(t), Current \notin ErrorStates,
         NEW s \in States, s \notin ErrorStates, SetsTo(t, Current, s, InARow),
         GoTo(SetCurrent(s))
  PROVE  TextInv'
<1>1. Expects(SetCurrent(s), InARow, Append(consumed, t))
  <2>1. GoesOn
    BY DEF TextInv
  <2> QED
    BY <2>1, LexReads, StackIsShaped, InARowIsAMode, ExpectsAfterSet DEF GoesOn, Current, SetCurrent
<1>2. Current' = s
  BY NewTop DEF Current, GoTo
<1> QED
  BY <1>1, <1>2, RightStep DEF GoTo

LEMMA OpenStep ==
  ASSUME Inv, TextInv, NEW t \in Lexemes, Lex(t), Current \notin ErrorStates,
         NEW s \in States, NEW inner \in States, inner \notin ErrorStates,
         OpensTo(t, Current, s, inner, InARow), GoTo(Push(SetCurrent(s), inner))
  PROVE  TextInv'
<1>1. Expects(Push(SetCurrent(s), inner), InARow, Append(consumed, t))
  <2>1. GoesOn
    BY DEF TextInv
  <2> QED
    BY <2>1, LexReads, StackIsShaped, InARowIsAMode, ExpectsAfterOpen
       DEF GoesOn, Current, SetCurrent, Push
<1>2. Current' = inner
  <2>1. SetCurrent(s) \in Seq(States)
    <3>1. \A q \in Seq(States) : Len(q) > 0 => [q EXCEPT ![Len(q)] = s] \in Seq(States)
      OBVIOUS
    <3> QED
      BY <3>1 DEF Inv, TypeOK, StackShape, WellFormed, SetCurrent
  <2>2. \A q \in Seq(States) : Append(q, inner)[Len(Append(q, inner))] = inner
    OBVIOUS
  <2> QED
    BY <2>1, <2>2 DEF Current, GoTo, Push
<1> QED
  BY <1>1, <1>2, RightStep DEF GoTo

LEMMA CloseStep ==
  ASSUME Inv, TextInv, NEW t \in Lexemes, Lex(t), Current \in InnerStates,
         ClosesBy(t, Current, InARow), GoTo(Pop(stateStack))
  PROVE  TextInv'
<1>1. Current \notin ErrorStates /\ Current \notin RootStates
  BY DEF InnerStates
<1>2. Expects(Pop(stateStack), InARow, Append(consumed, t))
  <2>1. GoesOn
    BY <1>1 DEF TextInv
  <2> QED
    BY <1>1, <2>1, LexReads, StackIsShaped, InARowIsAMode, ExpectsAfterClose DEF GoesOn, Current
<1>3. Current' \notin ErrorStates
  <2>1. stateStack \in Seq(States) /\ StackShape
    BY DEF Inv, TypeOK
  <2>2. Len(stateStack) > 1 /\ Len(Pop(stateStack)) = Len(stateStack) - 1
        /\ Pop(stateStack)[Len(stateStack) - 1] = stateStack[Len(stateStack) - 1]
    <3>1. Len(stateStack) > 1
      BY <2>1, CloseShape
    <3> QED
      BY <2>1, <3>1 DEF Pop
  <2>3. Len(stateStack) - 1 \in 1 .. Len(stateStack) - 1
    BY <2>1, <2>2
  <2>4. stateStack[Len(stateStack) - 1] \in {"parse_complete", "map_got_val", "array_got_val"}
    BY <2>1, <2>3 DEF StackShape, WellFormed
  <2>5. Current' = stateStack[Len(stateStack) - 1]
    BY <2>2 DEF Current, GoTo
  <2> QED
    BY <2>4, <2>5 DEF ErrorStates
<1> QED
  BY <1>1, <1>2, <1>3, RightStep DEF GoTo

-----------------------------------------------------------------------------
(* Every step keeps the invariant.                                         *)

LEMMA TextInvInit == Init => Inv /\ TextInv
<1> SUFFICES ASSUME Init
             PROVE  TextInv
  BY InvInit
<1>1. /\ stateStack = <<"start">> /\ consumed = <<>> /\ parseError = "none"
      /\ call = "none" /\ Current = "start"
  BY DEF Init, Push, Current
<1> DEFINE c == [i \in 0 .. 1 |-> IF i = 0 THEN NoText ELSE Cat(Rest("start", InARow), NoText)]
<1>2. Cat(Rest("start", InARow), NoText) = Whole
  <2>1. Rest("start", InARow) = Whole
    BY DEF Rest, Whole
  <2> QED
    BY <2>1, InvInit, InARowIsAMode, RestIsWords, CatNothing
<1>3. c[0] = NoText /\ c[1] = Whole
  BY <1>2
<1>4. NoText \in SUBSET Words /\ Whole \in SUBSET Words
  BY RulesAreWords, TokensAreTexts DEF Whole
<1> HIDE DEF c
<1>5. Completions(c, stateStack, InARow)
  <2>1. Len(stateStack) = 1 /\ stateStack[1] = "start"
    BY <1>1
  <2>2. \A i \in 0 .. 1 : i = 0 \/ i = 1
    OBVIOUS
  <2>3. \A i \in 1 .. 1 : i = 1 /\ i - 1 = 0
    OBVIOUS
  <2> QED
    BY <1>2, <1>3, <1>4, <2>1, <2>2, <2>3 DEF Completions
<1>6. Completing(consumed, InARow, c[1])
  BY <1>1, <1>3, WordsJoin DEF Completing, Whole
<1>7. Expects(stateStack, InARow, consumed)
  <2>1. Len(stateStack) = 1
    BY <1>1
  <2> QED
    BY <1>5, <1>6, <2>1 DEF Expects
<1>8. Current \notin ErrorStates
  BY <1>1 DEF ErrorStates
<1>9. Len(consumed) <= MaxTokens
  BY <1>1, MaxTokensAssumption
<1> QED
  BY <1>1, <1>7, <1>8, <1>9 DEF TextInv, GoesOn, Accepted

LEMMA StatesByKind ==
  /\ ErrorStates \cap (ValueStates \cup KeyStates
       \cup {"map_sep", "map_got_val", "array_got_val", "parse_complete"}) = {}
  /\ ValueStates \cup KeyStates \cup {"map_sep", "map_got_val", "array_got_val", "parse_complete"}
       \subseteq States
  /\ \A s : AfterValue(s) \in States \ ErrorStates
  /\ {"map_start", "array_start", "map_need_key", "map_need_val", "array_need_val"}
       \subseteq States \ ErrorStates
  BY DEF ErrorStates, ValueStates, KeyStates, States, AfterValue

LEMMA ValueStateKnown ==
  ASSUME Inv, Current \in ValueStates
  PROVE  Current \notin ErrorStates /\ (Current = "got_value" => InARow)
<1>1. Current \notin ErrorStates
  BY StatesByKind
<1> QED
  BY <1>1, StackIsShaped DEF Shaped, Current

LEMMA ClientStepKeeps ==
  ASSUME Inv, TextInv, NEW t \in Lexemes, NEW go \in BOOLEAN, ClientStep(t, go)
  PROVE  TextInv'
<1>1. ASSUME NEW stack, Lex(t), Callback(go, stack), GoTo(stack) => TextInv'
      PROVE  TextInv'
  BY <1>1, ExcusedStep DEF Callback, Excused
<1>2. CASE Scalar(t, go)
  <2>1. SetsTo(t, Current, AfterValue(Current), InARow) /\ Current \notin ErrorStates
    BY <1>2, ValueStateKnown, ValueStateMoves, InARowIsAMode DEF Scalar
  <2> QED
    BY <1>1, <1>2, <2>1, SetStep, StatesByKind DEF Scalar
<1>3. CASE OpenMap(t, go)
  <2>1. OpensTo(t, Current, AfterValue(Current), "map_start", InARow) /\ Current \notin ErrorStates
    BY <1>3, ValueStateKnown, ValueStateMoves, InARowIsAMode DEF OpenMap
  <2> QED
    BY <1>1, <1>3, <2>1, OpenStep, StatesByKind DEF OpenMap
<1>4. CASE OpenArray(t, go)
  <2>1. OpensTo(t, Current, AfterValue(Current), "array_start", InARow) /\ Current \notin ErrorStates
    BY <1>4, ValueStateKnown, ValueStateMoves, InARowIsAMode DEF OpenArray
  <2> QED
    BY <1>1, <1>4, <2>1, OpenStep, StatesByKind DEF OpenArray
<1>5. CASE MapKey(t, go)
  <2>1. SetsTo(t, Current, "map_sep", InARow) /\ Current \notin ErrorStates
    BY <1>5, KeyStateMoves, InARowIsAMode, StatesByKind DEF MapKey
  <2>2. "map_sep" \in States /\ "map_sep" \notin ErrorStates
    BY StatesByKind
  <2> QED
    BY <1>1, <1>5, <2>1, <2>2, SetStep DEF MapKey
<1>6. CASE CloseEmptyArray(t, go) \/ CloseEmptyMap(t, go) \/ CloseMap(t, go) \/ CloseArray(t, go)
  <2>1. Current \in InnerStates /\ Lex(t) /\ Callback(go, Pop(stateStack))
    BY <1>6, StateKinds DEF CloseEmptyArray, CloseEmptyMap, CloseMap, CloseArray
  <2>2. ClosesBy(t, Current, InARow)
    <3>1. CASE CloseEmptyArray(t, go)
      <4>1. "array_start" \in ValueStates
        BY DEF ValueStates
      <4> QED
        BY <3>1, <4>1, ValueStateMoves, InARowIsAMode DEF CloseEmptyArray
    <3>2. CASE CloseEmptyMap(t, go)
      <4>1. "map_start" \in KeyStates
        BY DEF KeyStates
      <4> QED
        BY <3>2, <4>1, KeyStateMoves, InARowIsAMode DEF CloseEmptyMap
    <3>3. CASE CloseMap(t, go)
      BY <3>3, SeparatorMoves, InARowIsAMode DEF CloseMap
    <3>4. CASE CloseArray(t, go)
      BY <3>4, SeparatorMoves, InARowIsAMode DEF CloseArray
    <3> QED
      BY <1>6, <3>1, <3>2, <3>3, <3>4
  <2> QED
    BY <1>1, <2>1, <2>2, CloseStep
<1> QED
  BY <1>2, <1>3, <1>4, <1>5, <1>6 DEF ClientStep

LEMMA SilentStepKeeps ==
  ASSUME Inv, TextInv, NEW t \in Lexemes, SilentStep(t)
  PROVE  TextInv'
<1>1. ASSUME Lex(t), Current \notin ErrorStates, IsWrong(t, Current, InARow),
             NEW message, message # "premature EOF", Fail(message)
      PROVE  TextInv'
  <2>1. "parse_error" \in ErrorStates
    BY DEF ErrorStates
  <2> QED
    BY <1>1, <2>1, WrongStep DEF Fail
<1>2. CASE Overflow(t)
  BY <1>2, ExcusedStep DEF Overflow, Fail, Excused
<1>3. CASE UnallowedToken(t)
  <2>1. IsWrong(t, Current, InARow) /\ Current \notin ErrorStates
    BY <1>3, ValueStateKnown, ValueStateMoves, InARowIsAMode DEF UnallowedToken
  <2> QED
    BY <1>1, <1>3, <2>1 DEF UnallowedToken
<1>4. CASE BadKey(t)
  <2>1. IsWrong(t, Current, InARow) /\ Current \notin ErrorStates
    BY <1>4, KeyStateMoves, InARowIsAMode, StatesByKind DEF BadKey
  <2> QED
    BY <1>1, <1>4, <2>1 DEF BadKey
<1>5. CASE MapColon(t)
  <2>1. SetsTo(t, Current, "map_need_val", InARow) /\ Current \notin ErrorStates
    BY <1>5, SeparatorMoves, InARowIsAMode, StatesByKind DEF MapColon
  <2> QED
    BY <1>5, <2>1, SetStep, StatesByKind DEF MapColon
<1>6. CASE NoColon(t)
  <2>1. IsWrong(t, Current, InARow) /\ Current \notin ErrorStates
    BY <1>6, SeparatorMoves, InARowIsAMode, StatesByKind DEF NoColon
  <2> QED
    BY <1>1, <1>6, <2>1 DEF NoColon
<1>7. CASE MapComma(t)
  <2>1. SetsTo(t, Current, "map_need_key", InARow) /\ Current \notin ErrorStates
    BY <1>7, SeparatorMoves, InARowIsAMode, StatesByKind DEF MapComma
  <2> QED
    BY <1>7, <2>1, SetStep, StatesByKind DEF MapComma
<1>8. CASE BadAfterPair(t)
  <2>1. IsWrong(t, Current, InARow) /\ Current \notin ErrorStates
    BY <1>8, SeparatorMoves, InARowIsAMode, StatesByKind DEF BadAfterPair
  <2> QED
    BY <1>1, <1>8, <2>1 DEF BadAfterPair
<1>9. CASE ArrayComma(t)
  <2>1. SetsTo(t, Current, "array_need_val", InARow) /\ Current \notin ErrorStates
    BY <1>9, SeparatorMoves, InARowIsAMode, StatesByKind DEF ArrayComma
  <2> QED
    BY <1>9, <2>1, SetStep, StatesByKind DEF ArrayComma
<1>10. CASE BadAfterElement(t)
  <2>1. IsWrong(t, Current, InARow) /\ Current \notin ErrorStates
    BY <1>10, SeparatorMoves, InARowIsAMode, StatesByKind DEF BadAfterElement
  <2> QED
    BY <1>1, <1>10, <2>1 DEF BadAfterElement
<1>11. CASE TrailingGarbage(t)
  <2>1. Current \notin ErrorStates /\ Current = "parse_complete"
    BY <1>11, StatesByKind DEF TrailingGarbage
  <2>2. IsWrong(t, Current, InARow)
    <3>1. ~InARow
      BY <1>11 DEF TrailingGarbage, InARow
    <3>2. InARow = FALSE
      BY <3>1, InARowIsAMode
    <3> QED
      BY <2>1, <3>2, NothingAfterRoot
  <2> QED
    BY <1>1, <1>11, <2>1, <2>2 DEF TrailingGarbage
<1>12. CASE LexicalError(t)
  <2>1. Current \notin ErrorStates /\ t.tok = "error" /\ Lex(t)
        /\ stateStack' = SetCurrent("lexical_error") /\ status' = "error" /\ parseError' = parseError
    BY <1>12 DEF LexicalError
  <2>2. Current \in ValueStates \cup KeyStates \cup {"map_sep", "map_got_val", "array_got_val"}
    <3>1. Current \in States
      BY DEF Inv, TypeOK, StackShape, WellFormed, Current
    <3> QED
      BY <1>12, <3>1 DEF LexicalError, States
  <2>3. IsWrong(t, Current, InARow)
    <3>1. CASE Current \in ValueStates
      BY <2>1, <3>1, ValueStateKnown, ValueStateMoves, InARowIsAMode
    <3>2. CASE Current \in KeyStates
      BY <2>1, <3>2, KeyStateMoves, InARowIsAMode DEF StringToks
    <3>3. CASE Current \in {"map_sep", "map_got_val", "array_got_val"}
      BY <2>1, <3>3, SeparatorMoves, InARowIsAMode
    <3> QED
      BY <2>2, <3>1, <3>2, <3>3
  <2>4. parseError' = "none"
    BY <2>1 DEF TextInv, GoesOn
  <2>5. "lexical_error" \in ErrorStates
    BY DEF ErrorStates
  <2> QED
    BY <2>1, <2>3, <2>4, <2>5, WrongStep
<1> QED
  BY <1>2, <1>3, <1>4, <1>5, <1>6, <1>7, <1>8, <1>9, <1>10, <1>11, <1>12 DEF SilentStep

(* After a value another may follow, and no token is read.                 *)
LEMMA NextValueKeeps ==
  ASSUME Inv, TextInv, NextValue
  PROVE  TextInv'
<1> DEFINE q == SetCurrent("got_value")
           top == Len(stateStack)
<1>1. /\ Current = "parse_complete" /\ InARow /\ stateStack' = q /\ status = "running"
      /\ UNCHANGED <<flags, call, consumed, parseError, status>>
  BY DEF NextValue, GoTo, InARow
<1>2. InARow = TRUE /\ InARow' = InARow
  BY <1>1, InARowIsAMode DEF InARow
<1>3. Current \notin ErrorStates
  BY <1>1 DEF ErrorStates
<1>4. PICK c : Completions(c, stateStack, InARow) /\ Completing(consumed, InARow, c[top])
  BY <1>3 DEF TextInv, GoesOn, Expects
<1>5. Rest("got_value", InARow) = Rest("parse_complete", InARow)
  BY DEF Rest
<1>6. /\ Len(q) = top /\ \A i \in 1 .. top : q[i] = IF i = top THEN "got_value" ELSE stateStack[i]
      /\ stateStack[top] = "parse_complete"
  BY <1>1 DEF Inv, TypeOK, StackShape, WellFormed, SetCurrent, Current
<1>7. Completions(c, q, InARow)
  <2> HIDE DEF q
  <2> QED
    BY <1>4, <1>5, <1>6 DEF Completions
<1>8. Expects(q, InARow, consumed)
  <2> HIDE DEF q
  <2> QED
    BY <1>4, <1>6, <1>7 DEF Expects
<1>9. Current' = "got_value"
  BY <1>1, NewTop DEF Current, States, ValueStates
<1>10. Current' \notin ErrorStates
  BY <1>9 DEF ErrorStates
<1>11. parseError' = "none"
  BY <1>1, <1>3 DEF TextInv, GoesOn
<1>12. GoesOn'
  BY <1>1, <1>2, <1>8, <1>11 DEF GoesOn
<1>13. ~Accepted'
  BY <1>1 DEF Accepted
<1>14. (Len(consumed) <= MaxTokens)'
  BY <1>1 DEF TextInv
<1> QED
  BY <1>10, <1>12, <1>13, <1>14 DEF TextInv

(* The stack and the text stay as they are.                                *)
LEMMA QuietStepKeeps ==
  ASSUME TextInv, UNCHANGED <<flags, stateStack, parseError, consumed>>,
         Accepted' /\ "allow_partial_values" \notin flags => Current \in {"got_value", "parse_complete"}
  PROVE  TextInv'
<1>1. Current' = Current /\ InARow' = InARow
  BY DEF Current, InARow
<1>2. GoesOn => GoesOn'
  BY <1>1 DEF GoesOn
<1>3. HasFailed => HasFailed'
  BY <1>1 DEF HasFailed, Whole
<1> QED
  BY <1>1, <1>2, <1>3 DEF TextInv

LEMMA FinishKeeps ==
  ASSUME Inv, TextInv, Finish
  PROVE  TextInv'
<1>1. /\ Current \notin ErrorStates /\ UNCHANGED <<flags, call, consumed>>
      /\ IF MayEndIn(Current) THEN status' = "ok" /\ UNCHANGED <<stateStack, parseError>>
                              ELSE Fail("premature EOF")
  BY DEF Finish, AtChunkEnd
<1>2. CASE MayEndIn(Current)
  <2>1. "allow_partial_values" \notin flags => Current \in {"got_value", "parse_complete"}
    BY <1>2 DEF MayEndIn
  <2> QED
    BY <1>1, <1>2, <2>1, QuietStepKeeps
<1>3. CASE ~MayEndIn(Current)
  <2>1. stateStack' = SetCurrent("parse_error") /\ parseError' = "premature EOF" /\ status' = "error"
    BY <1>1, <1>3 DEF Fail
  <2>2. Current \notin {"got_value", "parse_complete"}
    BY <1>3 DEF MayEndIn
  <2>3. consumed \notin Whole
    <3>1. consumed \in Words /\ Expects(stateStack, InARow, consumed)
      BY <1>1 DEF Inv, TypeOK, Words, TextInv, GoesOn
    <3> QED
      BY <1>1, <2>2, <3>1, StackIsShaped, InARowIsAMode, EndsOrNot DEF Whole, Current
  <2>4. InARow' = InARow /\ Whole' = Whole
    BY <1>1 DEF InARow, Whole
  <2>5. HasFailed'
    BY <1>1, <2>1, <2>3, <2>4 DEF HasFailed
  <2>6. Current' \in ErrorStates
    BY <2>1, NewTop DEF Current, ErrorStates, States
  <2>7. ~Accepted'
    BY <2>1 DEF Accepted
  <2>8. (Len(consumed) <= MaxTokens)'
    BY <1>1 DEF TextInv
  <2> QED
    BY <2>5, <2>6, <2>7, <2>8 DEF TextInv
<1> QED
  BY <1>2, <1>3

LEMMA TextInvNext == Inv /\ TextInv /\ [Next]_vars => Inv' /\ TextInv'
<1> SUFFICES ASSUME Inv, TextInv, [Next]_vars
             PROVE  TextInv'
  BY InvNext
<1>1. CASE Parse \/ CompleteParse
  <2>1. UNCHANGED <<flags, stateStack, parseError, consumed>> /\ status' = "running"
    BY <1>1 DEF Parse, CompleteParse, Enter
  <2> QED
    BY <2>1, QuietStepKeeps DEF Accepted
<1>2. CASE NextValue
  BY <1>2, NextValueKeeps
<1>3. CASE Refuse
  <2>1. UNCHANGED <<flags, stateStack, parseError, consumed>> /\ status' = "error"
    BY <1>3 DEF Refuse
  <2> QED
    BY <2>1, QuietStepKeeps DEF Accepted
<1>4. CASE EndChunk
  <2>1. UNCHANGED <<flags, stateStack, parseError, consumed>> /\ call' = "parse"
    BY <1>4 DEF EndChunk, AtChunkEnd
  <2> QED
    BY <2>1, QuietStepKeeps DEF Accepted
<1>5. CASE Finish
  BY <1>5, FinishKeeps
<1>6. ASSUME NEW t \in Lexemes, SilentStep(t)
      PROVE  TextInv'
  BY <1>6, SilentStepKeeps
<1>7. ASSUME NEW t \in Lexemes, NEW go \in BOOLEAN, ClientStep(t, go)
      PROVE  TextInv'
  BY <1>7, ClientStepKeeps
<1>8. CASE UNCHANGED vars
  <2>1. UNCHANGED <<flags, stateStack, parseError, consumed, call, status>>
    BY <1>8 DEF vars
  <2> QED
    BY <2>1, QuietStepKeeps DEF Accepted, TextInv
<1> QED
  BY <1>1, <1>2, <1>3, <1>4, <1>5, <1>6, <1>7, <1>8 DEF Next, ApiStep

-----------------------------------------------------------------------------
(* The theorems                                                            *)

LEMMA SpelledAreWords ==
  ASSUME NEW rule \in Rules
  PROVE  Spelled(rule) \subseteq Words
<1>1. ASSUME NEW s \in Spelled(rule)
      PROVE  s \in Words
  <2>1. PICK n \in 1 .. MaxTokens : s \in {p.text : p \in Phrases[n][rule]}
    BY DEF Spelled
  <2>2. Phrases[n] = RowOf(n)
    BY RowsAre, MaxTokensAssumption DEF Phrases
  <2>3. n \in Nat \ {0}
    BY MaxTokensAssumption
  <2>4. s \in TextsWith(rule, n)
    BY <2>1, <2>2 DEF TextsWith, TextsIn
  <2> QED
    BY <2>3, <2>4, TextsSized DEF Sized
<1> QED
  BY <1>1

LEMMA WholeIsSpelled ==
  ASSUME NEW s \in Words
  PROVE  s \in (IF InARow THEN TextsInARow ELSE OneText) <=> s \in Whole /\ Len(s) <= MaxTokens
  BY SpelledAre DEF OneText, TextsInARow, Whole, Value, Stream, Rules

(* A text that no text completes is the beginning of none.                 *)
LEMMA BeginsNothing ==
  ASSUME NEW s \in Words, Completing(s, InARow, {})
  PROVE  s \notin (IF InARow THEN BeginningsInARow ELSE BeginningsOfOne)
<1> DEFINE texts == IF InARow THEN TextsInARow ELSE OneText
<1>1. SUFFICES ASSUME s \in Beginnings(texts)
               PROVE  FALSE
  BY DEF BeginningsInARow, BeginningsOfOne
<1>2. texts \subseteq Words
  BY SpelledAreWords DEF OneText, TextsInARow, Rules
<1>0. PICK w \in texts : \E n \in 0 .. Len(w) : s = SubSeq(w, 1, n)
  <2> HIDE DEF texts
  <2> QED
    BY <1>1 DEF Beginnings
<1>3. PICK n \in 0 .. Len(w) : s = SubSeq(w, 1, n)
  BY <1>0
<1>4. w \in Seq(Lexemes)
  BY <1>2 DEF Words
<1>5. SubSeq(w, 1, n) \o SubSeq(w, n + 1, Len(w)) = w /\ SubSeq(w, n + 1, Len(w)) \in Seq(Lexemes)
  <2>1. 1 \in 1 .. Len(w) + 1 /\ n \in 1 - 1 .. Len(w) /\ Len(w) \in n .. Len(w)
    BY <1>4
  <2>2. SubSeq(w, 1, n) \o SubSeq(w, n + 1, Len(w)) = SubSeq(w, 1, Len(w))
    BY <1>4, <2>1, ConcatAdjacentSubSeq
  <2>3. SubSeq(w, 1, Len(w)) = w /\ SubSeq(w, n + 1, Len(w)) \in Seq(Lexemes)
    BY <1>4, <2>1
  <2> QED
    BY <2>2, <2>3
<1>6. s \o SubSeq(w, n + 1, Len(w)) \notin (IF InARow THEN Stream ELSE Value)
  BY <1>5 DEF Completing, Words
<1>7. w \notin Whole
  BY <1>3, <1>5, <1>6 DEF Whole
<1> QED
  BY <1>2, <1>3, <1>7, WholeIsSpelled

(* Whatever the options, the chunks and the answers of the client: when    *)
(* yajl_complete_parse reports success without allow_partial_values, the   *)
(* tokens that were read are one JSON text, or several in a row when       *)
(* allow_multiple_values is set.                                           *)
THEOREM OnlyJsonIsAccepted == Spec => []AcceptsOnlyJson
<1>1. ASSUME Inv, TextInv
      PROVE  AcceptsOnlyJson
  <2> SUFFICES ASSUME Accepted, "allow_partial_values" \notin flags
               PROVE  consumed \in (IF InARow THEN TextsInARow ELSE OneText)
    BY DEF AcceptsOnlyJson
  <2>1. Current \in {"got_value", "parse_complete"}
    BY <1>1 DEF TextInv
  <2>2. Current \notin ErrorStates
    BY <2>1 DEF ErrorStates
  <2>3. consumed \in Words /\ Expects(stateStack, InARow, consumed) /\ Len(consumed) <= MaxTokens
    BY <1>1, <2>2 DEF Inv, TypeOK, Words, TextInv, GoesOn
  <2>4. consumed \in Whole
    BY <1>1, <2>1, <2>2, <2>3, StackIsShaped, InARowIsAMode, EndsOrNot DEF Whole, Current
  <2> QED
    BY <2>3, <2>4, WholeIsSpelled
<1> QED
  BY <1>1, TextInvInit, TextInvNext, PTL DEF Spec

(* Whatever the options and the chunks: unless the client objects, a text  *)
(* that the parser rejects at a token is no beginning of a JSON text, and  *)
(* one that it rejects at its end is no JSON text.                         *)
THEOREM EveryJsonIsAccepted == Spec => []AcceptsEveryJson
<1>1. ASSUME Inv, TextInv
      PROVE  AcceptsEveryJson
  <2> SUFFICES ASSUME Current \in ErrorStates, parseError \notin Excused
               PROVE  IF parseError = "premature EOF"
                        THEN consumed \notin (IF InARow THEN TextsInARow ELSE OneText)
                        ELSE consumed \notin (IF InARow THEN BeginningsInARow ELSE BeginningsOfOne)
    BY DEF AcceptsEveryJson, Excused
  <2>1. HasFailed /\ consumed \in Words
    BY <1>1 DEF TextInv, Inv, TypeOK, Words
  <2>2. CASE parseError = "premature EOF"
    <3>1. consumed \notin Whole
      BY <2>1, <2>2 DEF HasFailed
    <3> QED
      BY <2>1, <2>2, <3>1, WholeIsSpelled
  <2>3. CASE parseError # "premature EOF"
    <3>1. Completing(consumed, InARow, {})
      BY <2>1, <2>3 DEF HasFailed
    <3> QED
      BY <2>1, <2>3, <3>1, BeginsNothing
  <2> QED
    BY <2>2, <2>3
<1> QED
  BY <1>1, TextInvInit, TextInvNext, PTL DEF Spec
=============================================================================
