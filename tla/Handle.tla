-------------------------------- MODULE Handle --------------------------------
(***************************************************************************)
(* A yajl handle, src/src/yajl/yajl.c, as validate() uses it: the lexer    *)
(* and the parser put together.  The parser asks the lexer for a token,    *)
(* the lexer scans the chunk, and the parser acts on the token delivered,  *)
(* or returns at the end of the chunk.  The client has no callbacks, so    *)
(* nothing is cancelled, and sets no option.                               *)
(*                                                                         *)
(* The parser is the one of module YajlParser, with what that module says  *)
(* of the lexer replaced by the lexer itself: a token is held unfinished   *)
(* when buf holds the beginning of one.                                    *)
(***************************************************************************)
EXTENDS Integers, Sequences

CONSTANTS
  Inputs,     \* the texts, without comments
  MaxTokens   \* bound: the number of tokens in a text

VARIABLES
  buf, bufOff, bufInUse, error, text, offset, startOffset, scan, last,
  allowComments, input, fed, lexed,             \* the lexer
  flags, stateStack, parseError, call, status   \* the parser

lexerVars  == <<buf, bufOff, bufInUse, error, text, offset, startOffset, scan,
                last, allowComments, input, fed, lexed>>
parserVars == <<flags, stateStack, parseError, call, status>>
handleVars == <<lexerVars, parserVars>>

Token(tok) == [tok |-> tok, text |-> ""]
TokenNames == {"string", "string_with_escapes", "integer", "double", "bool", "null",
               "left_bracket", "right_bracket", "left_brace", "right_brace",
               "comma", "colon", "error"}
Tokens == {Token(tok) : tok \in TokenNames}

L == INSTANCE YajlLexer
P == INSTANCE YajlParser WITH
       Configurations <- {{}}, ConvertsNumbers <- FALSE,
       Texts <- {""}, Lexemes <- Tokens,
       unfinished <- bufInUse /\ buf # <<>>,
       consumed   <- [i \in 1 .. Len(lexed) |-> Token(lexed[i].tok)]

ASSUME InputsAssumption == Inputs \subseteq [text : Seq(L!Chars), comments : {FALSE}]
ASSUME MaxTokensAssumption == MaxTokens \in Nat

Init == L!Init /\ P!Init

(* yajl_parse and yajl_complete_parse.  A client that was told of an error *)
(* makes no more calls.                                                    *)
yajl_parse(n) ==
  /\ status = "ok" /\ call # "complete"
  /\ L!Feed(n)
  /\ P!Parse

yajl_complete_parse ==
  /\ status = "ok" /\ call # "complete"
  /\ L!CompleteParse
  /\ P!CompleteParse

(* yajl_do_parse asks for a token.                                         *)
Ask == status = "running" /\ L!Lex /\ UNCHANGED parserVars

Scan == L!LexerStep /\ last' = "none" /\ UNCHANGED parserVars

Deliver ==
  /\ L!LexerStep
  /\ \E t \in Tokens : last' = t.tok /\ (P!SilentStep(t) \/ P!ClientStep(t, TRUE))

EndOfChunk == L!LexerStep /\ last' = "eof" /\ (P!EndChunk \/ P!Finish)

Running == Ask \/ Scan \/ Deliver \/ EndOfChunk

Left == Len(input) - 1 - fed

Next == (\E n \in 0 .. Left : yajl_parse(n)) \/ yajl_complete_parse \/ Running

Spec == Init /\ [][Next]_handleVars

(* R_validate gives the whole text to one call of yajl_parse.              *)
R_validate == (call = "none" /\ yajl_parse(Left)) \/ yajl_complete_parse \/ Running

ValidateSpec == Init /\ [][R_validate]_handleVars

-----------------------------------------------------------------------------

\* bufLen: the length of the last token, a string without its quotes.
bufLen ==
  LET word == lexed[Len(lexed)]
  IN  Len(word.text) - (IF word.tok \in P!StringToks THEN 2 ELSE 0)

(* hand->bytesConsumed is the offset of the lexer in the chunk.  The       *)
(* parser goes back by the length of a token that may not follow a pair in *)
(* an object, or to the start of the chunk if the token began before it.   *)
bytesConsumed ==
  IF parseError # "expected , or }" THEN offset
  ELSE IF offset >= bufLen THEN offset - bufLen ELSE 0

Accepted == call = "complete" /\ status = "ok"
Rejected == status = "error"

(* The lexer is one of those that module YajlParser allows for: what is    *)
(* checked and proved of the parser holds of the parser with this lexer.   *)
(* Every step is a step of that parser or unseen by it, and the parser is  *)
(* never at a loss for what the lexer delivers: at the end of the text,    *)
(* nothing but the token that was unfinished.                              *)
ParserSpec == P!Spec
NeverStuck == status = "running" => ENABLED Running
=============================================================================
