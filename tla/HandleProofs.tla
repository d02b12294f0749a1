---------------------------- MODULE HandleProofs ----------------------------
(***************************************************************************)
(* Theorems about Handle: the lexer and the parser put together implement  *)
(* each of them alone, so what is proved of the lexer for any caller, and  *)
(* of the parser for any lexer, holds of validate().                       *)
(***************************************************************************)
EXTENDS Handle, TLAPS

LT == INSTANCE YajlLexerProofs
PT == INSTANCE YajlParserProofs WITH
        Configurations <- {{}}, ConvertsNumbers <- FALSE,
        Texts <- {""}, Lexemes <- Tokens,
        unfinished <- bufInUse /\ buf # <<>>,
        consumed   <- [i \in 1 .. Len(lexed) |-> Token(lexed[i].tok)]

(* Comments are not allowed, and what the lexer is about to return inside  *)
(* a word or a string is the name of its token.                            *)
ScanInv ==
  /\ ~allowComments
  /\ scan.at \notin {"slash", "line", "block", "star"}
  /\ scan.at \in {"word", "string", "escape", "hex", "utf8"}
       => "tok" \in DOMAIN scan /\ scan.tok # "none"

-----------------------------------------------------------------------------
(* The lexer *)

\* The lexer goes on: nothing is delivered.
GoesOnTo(s) == scan' = s /\ UNCHANGED <<buf, bufInUse, lexed, allowComments>>

\* The lexer returns tok.
ReturnsWith(tok) == scan' = L!Go("idle") /\ last' = tok /\ UNCHANGED allowComments

LEMMA Going ==
  ASSUME NEW p, NEW s, L!Continue(p, s)
  PROVE  GoesOnTo(s)
  BY DEF L!Continue, L!fixed, GoesOnTo

LEMMA Returning ==
  /\ \A tok, p : L!Token(tok, p) => ReturnsWith(tok)
  /\ \A p, err : L!Bad(p, err) => ReturnsWith("error")
  BY DEF L!Token, L!Bad, L!Lexed, L!fixed, ReturnsWith

\* A place of a scan at which ScanInv is kept.
Harmless(s) ==
  /\ s.at \notin {"slash", "line", "block", "star"}
  /\ s.at \in {"word", "string", "escape", "hex", "utf8"}
       => "tok" \in DOMAIN s /\ s.tok # "none"

Outcome ==
  \/ \E s : Harmless(s) /\ GoesOnTo(s)
  \/ \E tok : tok # "none" /\ ReturnsWith(tok)

LEMMA Places ==
  /\ \A place : L!Go(place).at = place
  /\ \A place, want, left, tok :
       LET s == L!At(place, want, left, tok)
       IN  s.at = place /\ s.tok = tok /\ "tok" \in DOMAIN s
  BY DEF L!Go, L!At

LEMMA GoingOn ==
  ASSUME NEW p, NEW s, Harmless(s), L!Continue(p, s)
  PROVE  Outcome
  BY Going DEF Outcome

LEMMA BeginOutcome ==
  ASSUME ScanInv, L!BeginStep
  PROVE  Outcome
<1>1. CASE L!Mark
  <2>1. L!MarkTok(L!Char) # "none"
    BY <1>1 DEF L!Mark, L!Reads, L!Marks, L!MarkTok
  <2> QED
    BY <1>1, <2>1, Returning DEF L!Mark, Outcome
<1>2. CASE L!SkipSpace
  BY <1>2 DEF L!SkipSpace, L!fixed, GoesOnTo, Outcome, ScanInv, Harmless
<1>3. CASE L!BeginWord
  <2>1. PICK w, t : t # "none" /\ L!Continue(L!readChar, L!At("word", w, 0, t))
    BY <1>3 DEF L!BeginWord
  <2>2. Harmless(L!At("word", w, 0, t))
    BY <2>1, Places DEF Harmless
  <2> QED
    BY <2>1, <2>2, GoingOn
<1>4. CASE L!BeginString
  <2>1. L!Continue(L!readChar, L!At("string", <<>>, 0, "string"))
    BY <1>4, Zenon DEF L!BeginString
  <2>2. Harmless(L!At("string", <<>>, 0, "string"))
    BY Places DEF Harmless
  <2> QED
    BY <2>1, <2>2, GoingOn
<1>5. CASE L!BeginNumber
  BY <1>5, Going, Places DEF L!BeginNumber, Outcome, Harmless
<1>6. CASE L!NoComment \/ L!NoToken
  BY <1>6, Returning DEF L!NoComment, L!NoToken, Outcome
<1>7. ~L!BeginComment
  BY DEF L!BeginComment, ScanInv
<1> QED
  BY <1>1, <1>2, <1>3, <1>4, <1>5, <1>6, <1>7 DEF L!BeginStep

LEMMA WordOutcome ==
  ASSUME ScanInv, L!WordStep
  PROVE  Outcome
<1>1. scan.at = "word" /\ scan.tok # "none" /\ "tok" \in DOMAIN scan
  BY DEF L!WordStep, L!WordChar, L!WordError, L!Reads, ScanInv
<1>2. CASE L!WordChar
  <2>1. CASE Tail(scan.want) = <<>>
    BY <1>1, <1>2, <2>1, Returning DEF L!WordChar, Outcome
  <2>2. CASE Tail(scan.want) # <<>>
    <3>1. PICK s : s = [scan EXCEPT !.want = Tail(scan.want)]
      OBVIOUS
    <3>2. Harmless(s)
      BY <1>1, <3>1 DEF Harmless
    <3>3. GoesOnTo(s)
      BY <1>2, <2>2, <3>1, Going DEF L!WordChar
    <3> QED
      BY <3>2, <3>3 DEF Outcome
  <2> QED
    BY <2>1, <2>2
<1>3. CASE L!WordError
  BY <1>3, Returning DEF L!WordError, Outcome
<1> QED
  BY <1>2, <1>3 DEF L!WordStep

LEMMA StringOutcome ==
  ASSUME ScanInv, L!StringStep
  PROVE  Outcome
<1>1. /\ scan.at \in {"string", "escape", "hex", "utf8"}
      /\ scan.tok # "none" /\ "tok" \in DOMAIN scan
  BY DEF L!StringStep, L!StringEnd, L!StringChar, L!StringControl, L!Backslash, L!Escape,
         L!EscapeU, L!EscapeError, L!Hex, L!HexError, L!Utf8Lead, L!Utf8Next, L!Utf8Error,
         L!Reads, ScanInv
<1>2. ASSUME NEW s, NEW p, Harmless(s), L!Continue(p, s)
      PROVE  Outcome
  BY <1>2, Going DEF Outcome
<1>3. Harmless(scan) /\ Harmless(L!InString) /\ Harmless(L!OneLess)
  BY <1>1 DEF Harmless, L!InString, L!OneLess
<1>4. CASE L!StringEnd
  BY <1>1, <1>4, Returning DEF L!StringEnd, Outcome
<1>5. CASE L!StringControl \/ L!EscapeError \/ L!HexError \/ L!Utf8Error
  BY <1>5, Returning DEF L!StringControl, L!EscapeError, L!HexError, L!Utf8Error, Outcome
<1>6. CASE L!StringChar \/ L!Escape \/ L!Hex \/ L!Utf8Next
  BY <1>2, <1>3, <1>6 DEF L!StringChar, L!Escape, L!Hex, L!Utf8Next
<1>7. CASE L!Backslash
  <2>1. PICK s : s = [scan EXCEPT !.at = "escape", !.tok = "string_with_escapes"]
    OBVIOUS
  <2>2. Harmless(s)
    BY <1>1, <2>1 DEF Harmless
  <2> QED
    BY <1>2, <1>7, <2>1, <2>2 DEF L!Backslash
<1>8. CASE L!EscapeU
  <2>1. PICK s : s = [scan EXCEPT !.at = "hex", !.left = 4]
    OBVIOUS
  <2>2. Harmless(s)
    BY <1>1, <2>1 DEF Harmless
  <2> QED
    BY <1>2, <1>8, <2>1, <2>2 DEF L!EscapeU
<1>9. CASE L!Utf8Lead
  <2>1. PICK n, s : s = [scan EXCEPT !.at = "utf8", !.left = n] /\ L!Continue(L!readChar, s)
    BY <1>9 DEF L!Utf8Lead
  <2>2. Harmless(s)
    BY <1>1, <2>1 DEF Harmless
  <2> QED
    BY <1>2, <2>1, <2>2
<1> QED
  BY <1>4, <1>5, <1>6, <1>7, <1>8, <1>9 DEF L!StringStep

LEMMA NumberOutcome ==
  ASSUME ScanInv, L!NumberStep
  PROVE  Outcome
<1>1. CASE L!NumberChar
  <2>1. PICK to : to = L!NumberGoes(scan.at, L!Char)
    OBVIOUS
  <2>2. to \in {"minus", "zero", "int", "point", "frac", "exp", "expsign", "expdigits"}
    BY <1>1, <2>1 DEF L!NumberChar, L!NumberGoes
  <2>3. GoesOnTo(L!Go(to))
    BY <1>1, <2>1, Going DEF L!NumberChar
  <2>4. Harmless(L!Go(to))
    BY <2>2, Places DEF Harmless
  <2> QED
    BY <2>3, <2>4 DEF Outcome
<1>2. CASE L!Integer \/ L!Double \/ L!NumberError
  BY <1>2, Returning DEF L!Integer, L!Double, L!NumberError, Outcome
<1> QED
  BY <1>1, <1>2 DEF L!NumberStep

LEMMA StepOutcome ==
  ASSUME ScanInv, L!LexerStep
  PROVE  Outcome
<1>1. CASE L!EndOfChunk
  BY <1>1, Returning DEF L!EndOfChunk, Outcome
<1>2. ~L!CommentStep
  BY DEF L!CommentStep, L!LineComment, L!BlockComment, L!SlashError, L!InComment, L!Star,
         L!NotYet, L!EndComment, L!Reads, ScanInv
<1> QED
  BY <1>1, <1>2, BeginOutcome, WordOutcome, StringOutcome, NumberOutcome DEF L!LexerStep

LEMMA LexerStepKeeps ==
  ASSUME ScanInv, L!LexerStep
  PROVE  ScanInv' /\ (last' = "none" => UNCHANGED <<buf, bufInUse, lexed>>)
<1>1. CASE \E s : Harmless(s) /\ GoesOnTo(s)
  BY <1>1 DEF Harmless, GoesOnTo, ScanInv
<1>2. CASE \E tok : tok # "none" /\ ReturnsWith(tok)
  BY <1>2, Places DEF ReturnsWith, ScanInv
<1> QED
  BY <1>1, <1>2, StepOutcome DEF Outcome

-----------------------------------------------------------------------------
(* The steps of the handle *)

LEMMA ScanInvInit == Init => ScanInv
<1> SUFFICES ASSUME Init
             PROVE  ScanInv
  OBVIOUS
<1>1. PICK i \in Inputs : allowComments = i.comments
  BY DEF Init, L!Init
<1>2. scan.at = "idle"
  BY Places DEF Init, L!Init
<1> QED
  BY <1>1, <1>2, InputsAssumption DEF ScanInv

LEMMA CallKeeps ==
  ASSUME ScanInv, NEW n, L!Feed(n) \/ L!Lex
  PROVE  ScanInv' /\ UNCHANGED <<buf, bufInUse, lexed>>
<1>1. CASE L!Feed(n)
  BY <1>1 DEF L!Feed, L!lexer, L!fixed, ScanInv
<1>2. CASE L!Lex
  BY <1>2, Places DEF L!Lex, L!lexer, L!fixed, ScanInv
<1> QED
  BY <1>1, <1>2

LEMMA ScanInvNext == ScanInv /\ [Next]_handleVars => ScanInv'
<1> SUFFICES ASSUME ScanInv, [Next]_handleVars
             PROVE  ScanInv'
  OBVIOUS
<1>1. CASE (\E n \in 0 .. Left : yajl_parse(n)) \/ yajl_complete_parse \/ Ask
  BY <1>1, CallKeeps DEF yajl_parse, yajl_complete_parse, L!CompleteParse, Ask
<1>2. CASE Scan \/ Deliver \/ EndOfChunk
  BY <1>2, LexerStepKeeps DEF Scan, Deliver, EndOfChunk
<1>3. CASE UNCHANGED handleVars
  BY <1>3 DEF handleVars, lexerVars, ScanInv
<1> QED
  BY <1>1, <1>2, <1>3 DEF Next, Running

LEMMA HandleStepIsLexerStep == [Next]_handleVars => [L!Next]_L!vars
<1> SUFFICES ASSUME [Next]_handleVars
             PROVE  [L!Next]_L!vars
  OBVIOUS
<1>1. ASSUME NEW n \in 0 .. Left, yajl_parse(n)
      PROVE  L!Next
  BY <1>1 DEF yajl_parse, Left, L!Next, L!Parse
<1>2. CASE yajl_complete_parse \/ Running
  BY <1>2 DEF yajl_complete_parse, Running, Ask, Scan, Deliver, EndOfChunk, L!Next
<1>3. CASE UNCHANGED handleVars
  BY <1>3 DEF handleVars, lexerVars, L!vars, L!lexer, L!call, L!fixed
<1> QED
  BY <1>1, <1>2, <1>3 DEF Next

LEMMA HandleStepIsParserStep == ScanInv /\ [Next]_handleVars => [P!Next]_P!vars
<1> SUFFICES ASSUME ScanInv, [Next]_handleVars
             PROVE  [P!Next]_P!vars
  OBVIOUS
<1>1. CASE (\E n \in 0 .. Left : yajl_parse(n)) \/ yajl_complete_parse
  BY <1>1 DEF yajl_parse, yajl_complete_parse, P!Next, P!ApiStep
<1>2. ASSUME UNCHANGED <<buf, bufInUse, lexed>>, UNCHANGED parserVars
      PROVE  UNCHANGED P!vars
  BY <1>2 DEF parserVars, P!vars
<1>3. CASE Ask
  <2>1. UNCHANGED <<buf, bufInUse, lexed>>
    BY <1>3, CallKeeps DEF Ask
  <2> QED
    BY <1>2, <1>3, <2>1 DEF Ask
<1>4. CASE Scan
  <2>1. UNCHANGED <<buf, bufInUse, lexed>>
    BY <1>4, LexerStepKeeps DEF Scan
  <2> QED
    BY <1>2, <1>4, <2>1 DEF Scan
<1>5. CASE Deliver
  <2>1. PICK t \in Tokens : P!SilentStep(t) \/ P!ClientStep(t, TRUE)
    BY <1>5 DEF Deliver
  <2>2. TRUE \in BOOLEAN
    OBVIOUS
  <2> QED
    BY <2>1, <2>2, Zenon DEF P!Next
<1>6. CASE EndOfChunk
  BY <1>6 DEF EndOfChunk, P!Next, P!ApiStep
<1>7. CASE UNCHANGED handleVars
  BY <1>2, <1>7 DEF handleVars, lexerVars
<1> QED
  BY <1>1, <1>3, <1>4, <1>5, <1>6, <1>7 DEF Next, Running

-----------------------------------------------------------------------------
(* A handle implements YajlLexer: whatever is proved of the lexer alone    *)
(* holds when the parser of yajl_parser.c asks it for tokens.              *)
THEOREM HandleIsALexer == Spec => L!Spec
<1>1. Init => L!Init
  BY DEF Init
<1> QED
  BY <1>1, HandleStepIsLexerStep, PTL DEF Spec, L!Spec

(* A handle implements YajlParser: the lexer of yajl_lex.c is one of those *)
(* that YajlParser allows for.                                             *)
THEOREM HandleIsAParser == Spec => ParserSpec
<1>1. Init => P!Init
  BY DEF Init
<1> QED
  BY <1>1, ScanInvInit, ScanInvNext, HandleStepIsParserStep, PTL DEF Spec, ParserSpec, P!Spec

-----------------------------------------------------------------------------
(* What is proved of the lexer and of the parser holds of the handle: the  *)
(* modules of their theorems are instances of the same modules.            *)

LEMMA SameLexer ==
  /\ L!Init <=> LT!Init
  /\ [L!Next]_L!vars <=> [LT!Next]_LT!vars
  BY DEF L!Space, LT!Space, L!Digits1, LT!Digits1, L!Digits, LT!Digits, L!HexChars,
     LT!HexChars, L!EscChars, LT!EscChars, L!BadChars, LT!BadChars, L!Leads, LT!Leads,
     L!HighChars, LT!HighChars, L!Marks, LT!Marks, L!Chars, LT!Chars, L!lexer, LT!lexer,
     L!call, LT!call, L!fixed, LT!fixed, L!vars, LT!vars, L!At, LT!At, L!Go, LT!Go,
     L!NumberPlaces, LT!NumberPlaces, L!InBuf, LT!InBuf, L!Char, LT!Char, L!Pos, LT!Pos,
     L!Here, LT!Here, L!readChar, LT!readChar, L!unreadChar, LT!unreadChar, L!Reads,
     LT!Reads, L!Continue, LT!Continue, L!Piece, LT!Piece, L!Lexed, LT!Lexed, L!Token,
     LT!Token, L!Bad, LT!Bad, L!Init, LT!Init, L!Feed, LT!Feed, L!Parse, LT!Parse,
     L!CompleteParse, LT!CompleteParse, L!Lex, LT!Lex, L!EndOfChunk, LT!EndOfChunk,
     L!MarkTok, LT!MarkTok, L!Mark, LT!Mark, L!SkipSpace, LT!SkipSpace, L!Wanted,
     LT!Wanted, L!BeginWord, LT!BeginWord, L!BeginString, LT!BeginString, L!BeginNumber,
     LT!BeginNumber, L!BeginComment, LT!BeginComment, L!NoComment, LT!NoComment,
     L!NoToken, LT!NoToken, L!WordChar, LT!WordChar, L!WordError, LT!WordError,
     L!InString, LT!InString, L!StringEnd, LT!StringEnd, L!StringChar, LT!StringChar,
     L!StringControl, LT!StringControl, L!Backslash, LT!Backslash, L!Escape, LT!Escape,
     L!EscapeU, LT!EscapeU, L!EscapeError, LT!EscapeError, L!OneLess, LT!OneLess, L!Hex,
     LT!Hex, L!HexError, LT!HexError, L!Utf8Lead, LT!Utf8Lead, L!Utf8Next, LT!Utf8Next,
     L!Utf8Error, LT!Utf8Error, L!NumberGoes, LT!NumberGoes, L!NumberChar,
     LT!NumberChar, L!NumberStops, LT!NumberStops, L!Integer, LT!Integer, L!Double,
     LT!Double, L!MissingInteger, LT!MissingInteger, L!NumberError, LT!NumberError,
     L!LineComment, LT!LineComment, L!BlockComment, LT!BlockComment, L!SlashError,
     LT!SlashError, L!InComment, LT!InComment, L!Star, LT!Star, L!NotYet, LT!NotYet,
     L!EndComment, LT!EndComment, L!BeginStep, LT!BeginStep, L!WordStep, LT!WordStep,
     L!StringStep, LT!StringStep, L!NumberStep, LT!NumberStep, L!CommentStep,
     LT!CommentStep, L!LexerStep, LT!LexerStep, L!Next, LT!Next

LEMMA LexerAssumption == LT!InputsAssumption
  BY InputsAssumption DEF LT!InputsAssumption, L!Chars, LT!Chars, L!Space, LT!Space, L!Digits1,
     LT!Digits1, L!Digits, LT!Digits, L!HexChars, LT!HexChars, L!EscChars, LT!EscChars,
     L!BadChars, LT!BadChars, L!Leads, LT!Leads, L!HighChars, LT!HighChars, L!Marks, LT!Marks

(* Whenever the lexer steps back in a handle, it finds its last position.  *)
THEOREM HandleUnreadIsExact == Spec => []L!UnreadUndoesRead
<1>1. L!Spec => LT!Spec
  BY SameLexer, PTL DEF L!Spec, LT!Spec
<1>2. LT!UnreadUndoesRead <=> L!UnreadUndoesRead
  BY DEF L!UnreadUndoesRead, LT!UnreadUndoesRead, L!readChar, LT!readChar, L!unreadChar,
     LT!unreadChar, L!Here, LT!Here, L!Pos, LT!Pos, L!InBuf, LT!InBuf
<1> QED
  BY <1>1, <1>2, LexerAssumption, HandleIsALexer, LT!UnreadIsExact, PTL

(* The tokens that the parser of a handle gets are the words of the text,  *)
(* however it was cut into chunks, and none is lost between two chunks.    *)
THEOREM HandleTokensAreTheText == Spec => []LT!TokensAreTheText
<1>1. L!Spec => LT!Spec
  BY SameLexer, PTL DEF L!Spec, LT!Spec
<1> QED
  BY <1>1, LexerAssumption, HandleIsALexer, LT!TokensFollowTheText, PTL

(* What the lexer of a handle holds back at the end of a chunk is the      *)
(* beginning of a word.                                                    *)
THEOREM HandleHoldsABeginningBack == Spec => []LT!HeldBackIsABeginning
<1>1. L!Spec => LT!Spec
  BY SameLexer, PTL DEF L!Spec, LT!Spec
<1> QED
  BY <1>1, LexerAssumption, HandleIsALexer, LT!BeginningsAreHeldBack, PTL

LEMMA SameParser ==
  /\ P!Init <=> PT!Init
  /\ [P!Next]_P!vars <=> [PT!Next]_PT!vars
  BY DEF P!OptionNames, PT!OptionNames, P!StringToks, PT!StringToks, P!NumberToks,
     PT!NumberToks, P!ScalarToks, PT!ScalarToks, P!Toks, PT!Toks, P!SpaceEnded,
     PT!SpaceEnded, P!ErrorStates, PT!ErrorStates, P!ValueStates, PT!ValueStates,
     P!KeyStates, PT!KeyStates, P!States, PT!States, P!Statuses, PT!Statuses,
     P!Messages, PT!Messages, P!vars, PT!vars, P!Current, PT!Current, P!SetCurrent,
     PT!SetCurrent, P!Push, PT!Push, P!Pop, PT!Pop, P!Init, PT!Init, P!Enter, PT!Enter,
     P!Parse, PT!Parse, P!CompleteParse, PT!CompleteParse, P!Lex, PT!Lex, P!GoTo,
     PT!GoTo, P!FailSwapped, PT!FailSwapped, P!Fail, PT!Fail, P!Callback, PT!Callback,
     P!AfterValueUnmoved, PT!AfterValueUnmoved, P!AfterValueAgain, PT!AfterValueAgain,
     P!AfterValue, PT!AfterValue, P!Overflow, PT!Overflow, P!Scalar, PT!Scalar,
     P!OpenMap, PT!OpenMap, P!OpenArray, PT!OpenArray, P!CloseEmptyArray,
     PT!CloseEmptyArray, P!UnallowedTokenNoEmpty, PT!UnallowedTokenNoEmpty,
     P!UnallowedToken, PT!UnallowedToken, P!MapKey, PT!MapKey, P!CloseEmptyMap,
     PT!CloseEmptyMap, P!BadKey, PT!BadKey, P!MapColon, PT!MapColon, P!NoColon,
     PT!NoColon, P!CloseMap, PT!CloseMap, P!MapCommaAtStart, PT!MapCommaAtStart,
     P!MapComma, PT!MapComma, P!BadAfterPair, PT!BadAfterPair, P!CloseArray,
     PT!CloseArray, P!ArrayComma, PT!ArrayComma, P!BadAfterElementNoComma,
     PT!BadAfterElementNoComma, P!BadAfterElement, PT!BadAfterElement, P!NextValue,
     PT!NextValue, P!TrailingGarbage, PT!TrailingGarbage, P!LexicalError,
     PT!LexicalError, P!Refuse, PT!Refuse, P!AtChunkEndAnyState, PT!AtChunkEndAnyState,
     P!AtChunkEnd, PT!AtChunkEnd, P!EndChunk, PT!EndChunk, P!MayEndInArray,
     PT!MayEndInArray, P!MayEndIn, PT!MayEndIn, P!Finish, PT!Finish, P!ClientStep,
     PT!ClientStep, P!SilentStep, PT!SilentStep, P!ApiStep, PT!ApiStep, P!Next, PT!Next

LEMMA ParserAssumptions ==
  /\ PT!ConfigurationsAssumption /\ PT!ConvertsAssumption
  /\ PT!LexemesAssumption /\ PT!MaxTokensAssumption
<1>1. Tokens \subseteq [tok : TokenNames, text : {""}]
  <2> SUFFICES ASSUME NEW tok \in TokenNames
               PROVE  Token(tok) \in [tok : TokenNames, text : {""}]
    BY Zenon DEF Tokens
  <2>1. PICK nothing : nothing = ""
    OBVIOUS
  <2>2. [tok |-> tok, text |-> nothing] \in [tok : TokenNames, text : {nothing}]
    OBVIOUS
  <2> QED
    BY <2>1, <2>2, Zenon DEF Token
<1>2. TokenNames \subseteq PT!Toks
  BY DEF TokenNames, PT!Toks, PT!ScalarToks, PT!StringToks, PT!NumberToks
<1>3. PT!LexemesAssumption
  BY <1>1, <1>2 DEF PT!LexemesAssumption
<1> QED
  BY <1>3, MaxTokensAssumption DEF PT!ConfigurationsAssumption, PT!ConvertsAssumption,
     PT!MaxTokensAssumption

LEMMA HandleIsTheParser == Spec => PT!Spec
<1>1. P!Spec => PT!Spec
  BY SameParser, PTL DEF P!Spec, PT!Spec
<1> QED
  BY <1>1, HandleIsAParser DEF ParserSpec

(* validate() accepts only what its lexer read as the tokens of one JSON   *)
(* text, however the text was cut into chunks.                             *)
THEOREM HandleAcceptsOnlyJson == Spec => []PT!AcceptsOnlyJson
  BY HandleIsTheParser, ParserAssumptions, PT!OnlyJsonIsAccepted, PTL

(* It rejects none at a token that a JSON text can go on with, and at the  *)
(* end none that is a JSON text.                                           *)
THEOREM HandleAcceptsEveryJson == Spec => []PT!AcceptsEveryJson
  BY HandleIsTheParser, ParserAssumptions, PT!EveryJsonIsAccepted, PTL
=============================================================================
