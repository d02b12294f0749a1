------------------------------ MODULE YajlParser ------------------------------
(***************************************************************************)
(* The yajl push parser, src/src/yajl/yajl_parser.c: a stack of states, fed *)
(* with chunks of text by yajl_parse and closed by yajl_complete_parse.    *)
(* One step is one turn of the around_again loop of yajl_do_parse, which   *)
(* reads one token.  The lexer is abstracted to the tokens it may deliver  *)
(* (module YajlLexer is its model); the callbacks of the client are        *)
(* abstracted to the value they return, "go on" or "cancel".               *)
(* Token names are the enumerators of yajl_tok, in which a left_bracket is *)
(* "{" and a left_brace is "[".                                            *)
(***************************************************************************)
EXTENDS Integers, Sequences

CONSTANTS
  Configurations,   \* the sets of options that a client may configure
  ConvertsNumbers,  \* the client has no yajl_number callback, but integer/double
  Texts,            \* what tells one scalar or key from another
  Lexemes,          \* the tokens that may occur in the text
  MaxTokens         \* bound: the number of tokens in the text

OptionNames == {"allow_multiple_values", "allow_trailing_garbage",
                "allow_partial_values"}

StringToks == {"string", "string_with_escapes"}
NumberToks == {"integer", "double"}
ScalarToks == StringToks \cup NumberToks \cup {"bool", "null"}
Toks == ScalarToks \cup {"left_bracket", "right_bracket", "left_brace",
                         "right_brace", "comma", "colon", "error"}

ASSUME ConfigurationsAssumption == Configurations \subseteq SUBSET OptionNames
ASSUME ConvertsAssumption == ConvertsNumbers \in BOOLEAN
ASSUME LexemesAssumption == Lexemes \subseteq [tok : Toks, text : Texts]
ASSUME MaxTokensAssumption == MaxTokens \in Nat

\* The tokens that a space can end: yajl_complete_parse feeds one space.
SpaceEnded == NumberToks \cup {"bool", "null", "error"}

ErrorStates == {"parse_error", "lexical_error"}
ValueStates == {"start", "got_value", "map_need_val", "array_need_val",
                "array_start"}
KeyStates   == {"map_start", "map_need_key"}
States == ErrorStates \cup ValueStates \cup KeyStates
            \cup {"parse_complete", "map_sep", "map_got_val", "array_got_val"}

Statuses == {"running", "ok", "error", "client_canceled"}

Messages == {"none", "client cancelled", "trailing garbage", "overflow",
             "unallowed token", "invalid object key", "no colon",
             "expected , or }", "expected , or ]", "premature EOF"}

VARIABLES
  flags,       \* hand->flags: the options that are set
  stateStack,  \* hand->stateStack, the current state last
  parseError,  \* hand->parseError
  call,        \* the API function running, or the last one that ran
  status,      \* what that call returned, or "running"
  unfinished,  \* the lexer holds the beginning of a token (bufInUse)
  consumed     \* history: every token the lexer delivered

vars == <<flags, stateStack, parseError, call, status, unfinished, consumed>>

TypeOK ==
  /\ flags \in Configurations
  /\ stateStack \in Seq(States)
  /\ parseError \in Messages
  /\ call \in {"none", "parse", "complete"}
  /\ status \in Statuses
  /\ unfinished \in BOOLEAN
  /\ consumed \in Seq(Lexemes)

-----------------------------------------------------------------------------
(* yajl_bytestack.h *)

Current == stateStack[Len(stateStack)]
SetCurrent(s) == [stateStack EXCEPT ![Len(stateStack)] = s]
Push(stack, s) == Append(stack, s)
Pop(stack) == SubSeq(stack, 1, Len(stack) - 1)

-----------------------------------------------------------------------------
(* yajl_alloc and yajl_config *)
Init ==
  /\ flags \in Configurations
  /\ stateStack = Push(<<>>, "start")
  /\ parseError = "none"
  /\ call = "none"
  /\ status = "ok"
  /\ unfinished = FALSE
  /\ consumed = <<>>

(* yajl_parse and yajl_complete_parse enter yajl_do_parse, with the next   *)
(* chunk or with one space.                                                *)
Enter(function) ==
  /\ status # "running"
  /\ call' = function
  /\ status' = "running"
  /\ UNCHANGED <<flags, stateStack, parseError, unfinished, consumed>>

Parse == Enter("parse")
CompleteParse == Enter("complete")

(* yajl_lex_lex delivers the token t.  The chunk of yajl_complete_parse is *)
(* a space, which delivers at most the token the lexer holds unfinished.   *)
Lex(t) ==
  /\ status = "running"
  /\ Len(consumed) < MaxTokens
  /\ call = "complete" => unfinished /\ t.tok \in SpaceEnded
  /\ consumed' = Append(consumed, t)
  /\ unfinished' = FALSE
  /\ UNCHANGED <<flags, call>>

GoTo(stack) ==
  /\ stateStack' = stack
  /\ UNCHANGED <<parseError, status>>

\* Slip: the message and the status change places.
FailSwapped(message) ==
  /\ stateStack' = SetCurrent("parse_error")
  /\ parseError' = "error"
  /\ status' = message

(* Set an error state and its message; the next turn returns an error.     *)
Fail(message) ==
  /\ stateStack' = SetCurrent("parse_error")
  /\ parseError' = message
  /\ status' = "error"

(* The macro _CC_CHK: a callback that returns 0 cancels the parse.         *)
Callback(go, stack) ==
  \/ go  /\ GoTo(stack)
  \/ ~go /\ stateStack' = SetCurrent("parse_error")
         /\ parseError' = "client cancelled"
         /\ status' = "client_canceled"

-----------------------------------------------------------------------------
(* States that expect a value *)

\* Slips: the level is not advanced before its child opens; after the whole
\* value the parser waits for another one.
AfterValueUnmoved(s) == s
AfterValueAgain(s) ==
  CASE s \in {"start", "got_value"} -> "got_value"
    [] s = "map_need_val"           -> "map_got_val"
    [] OTHER                        -> "array_got_val"

AfterValue(s) ==
  CASE s \in {"start", "got_value"} -> "parse_complete"
    [] s = "map_need_val"           -> "map_got_val"
    [] OTHER                        -> "array_got_val"

Overflow(t) ==
  /\ Current \in ValueStates
  /\ ConvertsNumbers
  /\ t.tok \in NumberToks
  /\ Lex(t)
  /\ Fail("overflow")

Scalar(t, go) ==
  /\ Current \in ValueStates
  /\ t.tok \in ScalarToks
  /\ Lex(t)
  /\ Callback(go, SetCurrent(AfterValue(Current)))

OpenMap(t, go) ==
  /\ Current \in ValueStates
  /\ t.tok = "left_bracket"
  /\ Lex(t)
  /\ Callback(go, Push(SetCurrent(AfterValue(Current)), "map_start"))

OpenArray(t, go) ==
  /\ Current \in ValueStates
  /\ t.tok = "left_brace"
  /\ Lex(t)
  /\ Callback(go, Push(SetCurrent(AfterValue(Current)), "array_start"))

CloseEmptyArray(t, go) ==
  /\ Current = "array_start"
  /\ t.tok = "right_brace"
  /\ Lex(t)
  /\ Callback(go, Pop(stateStack))

\* Slip: an array has at least one element.
UnallowedTokenNoEmpty(t) ==
  /\ Current \in ValueStates
  /\ t.tok \in {"colon", "comma", "right_bracket", "right_brace"}
  /\ Lex(t)
  /\ Fail("unallowed token")

UnallowedToken(t) ==
  /\ Current \in ValueStates
  /\ \/ t.tok \in {"colon", "comma", "right_bracket"}
     \/ t.tok = "right_brace" /\ Current # "array_start"
  /\ Lex(t)
  /\ Fail("unallowed token")

-----------------------------------------------------------------------------
(* States inside an object *)

MapKey(t, go) ==
  /\ Current \in KeyStates
  /\ t.tok \in StringToks
  /\ Lex(t)
  /\ Callback(go, SetCurrent("map_sep"))

CloseEmptyMap(t, go) ==
  /\ Current = "map_start"
  /\ t.tok = "right_bracket"
  /\ Lex(t)
  /\ Callback(go, Pop(stateStack))

BadKey(t) ==
  /\ Current \in KeyStates
  /\ t.tok \notin StringToks \cup {"error"}
  /\ t.tok = "right_bracket" => Current = "map_need_key"
  /\ Lex(t)
  /\ Fail("invalid object key")

MapColon(t) ==
  /\ Current = "map_sep"
  /\ t.tok = "colon"
  /\ Lex(t)
  /\ GoTo(SetCurrent("map_need_val"))

NoColon(t) ==
  /\ Current = "map_sep"
  /\ t.tok \notin {"colon", "error"}
  /\ Lex(t)
  /\ Fail("no colon")

CloseMap(t, go) ==
  /\ Current = "map_got_val"
  /\ t.tok = "right_bracket"
  /\ Lex(t)
  /\ Callback(go, Pop(stateStack))

\* Slip: after a comma, as at the start of the object.
MapCommaAtStart(t) ==
  /\ Current = "map_got_val"
  /\ t.tok = "comma"
  /\ Lex(t)
  /\ GoTo(SetCurrent("map_start"))

MapComma(t) ==
  /\ Current = "map_got_val"
  /\ t.tok = "comma"
  /\ Lex(t)
  /\ GoTo(SetCurrent("map_need_key"))

BadAfterPair(t) ==
  /\ Current = "map_got_val"
  /\ t.tok \notin {"right_bracket", "comma", "error"}
  /\ Lex(t)
  /\ Fail("expected , or }")

-----------------------------------------------------------------------------
(* After an element of an array *)

CloseArray(t, go) ==
  /\ Current = "array_got_val"
  /\ t.tok = "right_brace"
  /\ Lex(t)
  /\ Callback(go, Pop(stateStack))

ArrayComma(t) ==
  /\ Current = "array_got_val"
  /\ t.tok = "comma"
  /\ Lex(t)
  /\ GoTo(SetCurrent("array_need_val"))

\* Slip: no case for the comma.
BadAfterElementNoComma(t) ==
  /\ Current = "array_got_val"
  /\ t.tok \notin {"right_brace", "error"}
  /\ Lex(t)
  /\ Fail("expected , or ]")

BadAfterElement(t) ==
  /\ Current = "array_got_val"
  /\ t.tok \notin {"right_brace", "comma", "error"}
  /\ Lex(t)
  /\ Fail("expected , or ]")

-----------------------------------------------------------------------------
(* After the whole value, and errors of the lexer *)

NextValue ==
  /\ status = "running"
  /\ Current = "parse_complete"
  /\ "allow_multiple_values" \in flags
  /\ GoTo(SetCurrent("got_value"))
  /\ UNCHANGED <<flags, call, unfinished, consumed>>

TrailingGarbage(t) ==
  /\ Current = "parse_complete"
  /\ flags \cap {"allow_multiple_values", "allow_trailing_garbage"} = {}
  /\ Lex(t)
  /\ Fail("trailing garbage")

LexicalError(t) ==
  /\ Current \notin ErrorStates \cup {"parse_complete"}
  /\ t.tok = "error"
  /\ Lex(t)
  /\ stateStack' = SetCurrent("lexical_error")
  /\ status' = "error"
  /\ UNCHANGED parseError

-----------------------------------------------------------------------------
(* The calls return *)

(* A call on a handle that has failed before.                              *)
Refuse ==
  /\ status = "running"
  /\ Current \in ErrorStates
  /\ status' = "error"
  /\ UNCHANGED <<flags, stateStack, parseError, call, unfinished, consumed>>

\* Slip: no look at the state of the handle.
AtChunkEndAnyState ==
  /\ status = "running"
  /\ unfinished' = unfinished
  /\ UNCHANGED <<flags, call, consumed>>

(* yajl_do_parse returns yajl_status_ok: the lexer has read the chunk to   *)
(* its end (tok_eof), possibly holding back the beginning of a token, or   *)
(* the value is complete and garbage may follow.                           *)
AtChunkEnd ==
  /\ status = "running"
  /\ Current \notin ErrorStates
  /\ Current = "parse_complete" => "allow_multiple_values" \notin flags
  /\ \/ unfinished' = unfinished
     \/ /\ call = "parse"
        /\ Current = "parse_complete" => "allow_trailing_garbage" \notin flags
        /\ unfinished' = TRUE
  /\ UNCHANGED <<flags, call, consumed>>

EndChunk ==
  /\ call = "parse"
  /\ AtChunkEnd
  /\ status' = "ok"
  /\ UNCHANGED <<stateStack, parseError>>

\* Slip: an array may end with the text.
MayEndInArray(s) ==
  \/ s \in {"got_value", "parse_complete", "array_got_val"}
  \/ "allow_partial_values" \in flags

(* yajl_do_finish, after yajl_do_parse has read the space.                 *)
MayEndIn(s) ==
  \/ s \in {"got_value", "parse_complete"}
  \/ "allow_partial_values" \in flags

Finish ==
  /\ call = "complete"
  /\ AtChunkEnd
  /\ IF MayEndIn(Current)
       THEN status' = "ok" /\ UNCHANGED <<stateStack, parseError>>
       ELSE Fail("premature EOF")

-----------------------------------------------------------------------------

(* The steps that call back the client, which answers go.                  *)
ClientStep(t, go) ==
  \/ Scalar(t, go)
  \/ OpenMap(t, go)
  \/ OpenArray(t, go)
  \/ CloseEmptyArray(t, go)
  \/ MapKey(t, go)
  \/ CloseEmptyMap(t, go)
  \/ CloseMap(t, go)
  \/ CloseArray(t, go)

(* The steps that read a token and call nobody.                            *)
SilentStep(t) ==
  \/ Overflow(t)
  \/ UnallowedToken(t)
  \/ BadKey(t)
  \/ MapColon(t)
  \/ NoColon(t)
  \/ MapComma(t)
  \/ BadAfterPair(t)
  \/ ArrayComma(t)
  \/ BadAfterElement(t)
  \/ TrailingGarbage(t)
  \/ LexicalError(t)

ApiStep == Parse \/ CompleteParse \/ NextValue \/ Refuse \/ EndChunk \/ Finish

Next ==
  \/ ApiStep
  \/ \E t \in Lexemes : SilentStep(t) \/ \E go \in BOOLEAN : ClientStep(t, go)

Spec == Init /\ [][Next]_vars

-----------------------------------------------------------------------------
(* Safety *)

RootStates  == {"start", "got_value", "parse_complete"}
TopStates   == IF "allow_multiple_values" \in flags
                 THEN RootStates ELSE RootStates \ {"got_value"}
InnerStates == States \ (RootStates \cup ErrorStates)

WellFormed(stack) ==
  /\ Len(stack) > 0
  /\ \A i \in 1 .. Len(stack) - 1 :
       IF i = 1 THEN stack[i] = "parse_complete"
                ELSE stack[i] \in {"map_got_val", "array_got_val"}
  /\ IF Len(stack) = 1 THEN stack[1] \in TopStates \cup ErrorStates
                       ELSE stack[Len(stack)] \in InnerStates \cup ErrorStates

(* The state stack mirrors the nesting of the text: every level that has   *)
(* an open child has already been advanced past that child (the comment at *)
(* yajl_parser.c:230), so a pop uncovers a state that expects a separator, *)
(* and a pop never removes the bottom of the stack, which the unchecked    *)
(* decrement of yajl_bs_pop relies on.                                     *)
StackShape == WellFormed(stateStack)

(* A handle that has failed stays failed: whatever is fed to it later, no  *)
(* call reports success and the stack is never touched again.              *)
ErrorIsFinal ==
  [][(Current \in ErrorStates) => (stateStack' = stateStack /\ status' # "ok")]_vars
=============================================================================
