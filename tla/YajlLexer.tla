------------------------------ MODULE YajlLexer ------------------------------
(***************************************************************************)
(* The lexer, src/src/yajl/yajl_lex.c: it cuts tokens from chunks of text. *)
(* When a chunk ends inside a token, the beginning is copied to buf, and   *)
(* the next call reads buf again from its start before it reads the new    *)
(* chunk.  One step reads one character, at the point of the C code that   *)
(* scan.at names.  The text ends with the space that yajl_complete_parse   *)
(* feeds as a chunk of its own.  Nobody in this repository turns the       *)
(* validation of UTF-8 off, so it is always on here.                       *)
(***************************************************************************)
EXTENDS Integers, Sequences

CONSTANT Inputs  \* the texts that may be fed, each with a lexer->allowComments

\* A character is named by itself, or by a word; a byte above 0x7f by its place
\* in UTF-8.  "tab" stands for \t and \r, "vtab" for \v and \f, which the code
\* skips like them, and "ctrl" for the control characters that it does not skip.
Space    == {" ", "newline", "tab", "vtab"}
Digits1  == {"1"}                                   \* 1 to 9
Digits   == Digits1 \cup {"0"}
HexChars == Digits \cup {"a", "e", "f"}             \* VHC of charLookupTable
EscChars == {"quote", "backslash", "/", "f", "n", "r", "t"}   \* VEC, but for u
BadChars == {"newline", "tab", "vtab", "ctrl"}      \* IJC
Leads    == {"lead2", "lead3", "lead4"}
HighChars == Leads \cup {"cont"}
Marks    == {"{", "}", "[", "]", ",", ":"}
Chars == Space \cup HexChars \cup EscChars \cup BadChars \cup HighChars \cup Marks
           \cup {"u", "l", "s", "x", "-", "+", ".", "*"}

ASSUME InputsAssumption == Inputs \subseteq [text : Seq(Chars), comments : BOOLEAN]

VARIABLES
  buf, bufOff, bufInUse, error,  \* struct yajl_lexer_t
  text, offset,                  \* the chunk and the position in it
  startOffset,                   \* local of yajl_lex_lex: where the token starts
  scan,                          \* where the code stands, and its other locals
  last,                          \* the token returned last
  allowComments,
  input, fed,                    \* history: the text, and how much was fed
  lexed                          \* history: the tokens and where each one ends

lexer == <<buf, bufOff, bufInUse, error>>
call  == <<text, offset, startOffset>>
fixed == <<allowComments, input>>
vars  == <<lexer, call, scan, last, fixed, fed, lexed>>

\* want: the rest of a literal; left: characters still to come; tok: so far.
At(place, want, left, tok) == [at |-> place, want |-> want, left |-> left, tok |-> tok]
Go(place) == At(place, <<>>, 0, "none")

NumberPlaces == {"number", "minus", "zero", "int", "point", "frac", "exp",
                 "expsign", "expdigits"}
Places == {"idle", "top", "word", "string", "escape", "hex", "utf8", "slash",
           "line", "block", "star"} \cup NumberPlaces

-----------------------------------------------------------------------------
(* readChar and unreadChar *)

InBuf == bufInUse /\ bufOff < Len(buf)
Char  == IF InBuf THEN buf[bufOff + 1] ELSE text[offset + 1]

Pos(b, o) == [bufOff |-> b, offset |-> o]
Here  == Pos(bufOff, offset)
readChar == IF InBuf THEN Pos(bufOff + 1, offset) ELSE Pos(bufOff, offset + 1)
\* Slip: the last character is taken to be the chunk's.
unreadCharOfChunk(p) == Pos(p.bufOff, p.offset - 1)
unreadChar(p) ==
  IF p.offset > 0 THEN Pos(p.bufOff, p.offset - 1) ELSE Pos(p.bufOff - 1, p.offset)

(* The check for the end of the chunk that precedes every readChar.        *)
Reads(place, chars) ==
  /\ scan.at = place
  /\ offset < Len(text)
  /\ Char \in chars

-----------------------------------------------------------------------------
(* Going on inside yajl_lex_lex, and leaving it *)

Continue(p, s) ==
  /\ offset' = p.offset
  /\ bufOff' = p.bufOff
  /\ scan' = s
  /\ UNCHANGED <<buf, bufInUse, error, text, startOffset, last, fixed, fed, lexed>>

\* The part of the token that lies in this chunk.
Piece(p) == SubSeq(text, startOffset + 1, p.offset)

\* Slips at the label lexed: a token leaves buf in use; the beginning that buf
\* holds is cleared.
LexedInUse(tok, p, err) ==
  LET whole == IF bufInUse THEN buf \o Piece(p) ELSE Piece(p)
  IN  /\ buf' = whole
      /\ bufInUse' = (tok = "eof" \/ bufInUse)
      /\ bufOff' = 0
      /\ offset' = p.offset
      /\ error' = err
      /\ scan' = Go("idle")
      /\ last' = tok
      /\ lexed' = IF tok = "eof" THEN lexed
                  ELSE Append(lexed, [tok |-> tok, text |-> whole,
                                      end |-> fed - Len(text) + p.offset])
      /\ UNCHANGED <<text, startOffset, fixed, fed>>
LexedCleared(tok, p, err) ==
  /\ buf' = Piece(p)
  /\ bufInUse' = (tok = "eof")
  /\ bufOff' = 0
  /\ offset' = p.offset
  /\ error' = err
  /\ scan' = Go("idle")
  /\ last' = tok
  /\ lexed' = IF tok = "eof" THEN lexed
              ELSE Append(lexed, [tok |-> tok, text |-> Piece(p),
                                  end |-> fed - Len(text) + p.offset])
  /\ UNCHANGED <<text, startOffset, fixed, fed>>

(* The label lexed: the end of a chunk saves the beginning of the token, a *)
(* token that was begun in an earlier chunk is completed in buf.           *)
Lexed(tok, p, err) ==
  LET whole == IF bufInUse THEN buf \o Piece(p) ELSE Piece(p)
      kept  == tok = "eof" \/ bufInUse
  IN  /\ buf' = IF kept THEN whole ELSE buf
      /\ bufInUse' = (tok = "eof")
      /\ bufOff' = IF kept THEN 0 ELSE p.bufOff
      /\ offset' = p.offset
      /\ error' = err
      /\ scan' = Go("idle")
      /\ last' = tok
      /\ lexed' = IF tok = "eof" THEN lexed
                  ELSE Append(lexed, [tok |-> tok, text |-> whole,
                                      end |-> fed - Len(text) + p.offset])
      /\ UNCHANGED <<text, startOffset, fixed, fed>>

Token(tok, p) == Lexed(tok, p, error)
Bad(p, err)   == Lexed("error", p, err)

-----------------------------------------------------------------------------

Init ==
  /\ buf = <<>> /\ bufOff = 0 /\ bufInUse = FALSE /\ error = "none"
  /\ text = <<>> /\ offset = 0 /\ startOffset = 0
  /\ scan = Go("idle")
  /\ last = "none"
  /\ \E i \in Inputs : input = i.text /\ allowComments = i.comments
  /\ fed = 0
  /\ lexed = <<>>

(* yajl_do_parse starts on the next n characters.  It returned from the    *)
(* chunk before because that one was at its end.                           *)
Feed(n) ==
  /\ scan.at = "idle"
  /\ last # "error"
  /\ offset = Len(text)
  /\ text' = SubSeq(input, fed + 1, fed + n)
  /\ offset' = 0
  /\ fed' = fed + n
  /\ last' = "none"
  /\ UNCHANGED <<lexer, startOffset, scan, fixed, lexed>>

Parse == \E n \in 0 .. Len(input) - 1 - fed : Feed(n)
CompleteParse == fed = Len(input) - 1 /\ Feed(1)

\* Slip: buf is cleared at every call.
LexAnew ==
  /\ scan.at = "idle"
  /\ last \notin {"eof", "error"}
  /\ startOffset' = offset
  /\ scan' = Go("top")
  /\ last' = "none"
  /\ buf' = <<>> /\ bufInUse' = FALSE
  /\ UNCHANGED <<bufOff, error, text, offset, fixed, fed, lexed>>

(* The parser asks for a token.                                            *)
Lex ==
  /\ scan.at = "idle"
  /\ last \notin {"eof", "error"}
  /\ startOffset' = offset
  /\ scan' = Go("top")
  /\ last' = "none"
  /\ UNCHANGED <<lexer, text, offset, fixed, fed, lexed>>

EndOfChunk ==
  /\ scan.at # "idle"
  /\ offset >= Len(text)
  /\ Token("eof", Here)

-----------------------------------------------------------------------------
(* The first character of a token *)

MarkTok(c) ==
  CASE c = "{" -> "left_bracket" [] c = "}" -> "right_bracket"
    [] c = "[" -> "left_brace"   [] c = "]" -> "right_brace"
    [] c = "," -> "comma"        [] c = ":" -> "colon"

Mark == Reads("top", Marks) /\ Token(MarkTok(Char), readChar)

\* Slip: the space becomes part of the token.
SkipSpaceKept == Reads("top", Space) /\ Continue(readChar, scan)

SkipSpace ==
  /\ Reads("top", Space)
  /\ startOffset' = startOffset + 1
  /\ offset' = readChar.offset
  /\ bufOff' = readChar.bufOff
  /\ UNCHANGED <<buf, bufInUse, error, text, scan, last, fixed, fed, lexed>>

Wanted(c) ==
  CASE c = "t" -> <<"r", "u", "e">>
    [] c = "f" -> <<"a", "l", "s", "e">>
    [] c = "n" -> <<"u", "l", "l">>

BeginWord ==
  /\ Reads("top", {"t", "f", "n"})
  /\ Continue(readChar, At("word", Wanted(Char), 0, IF Char = "n" THEN "null" ELSE "bool"))

BeginString == Reads("top", {"quote"}) /\ Continue(readChar, At("string", <<>>, 0, "string"))

\* Integer parsing wants to start from the beginning.
BeginNumber ==
  Reads("top", Digits \cup {"-"}) /\ Continue(unreadChar(readChar), Go("number"))

BeginComment == allowComments /\ Reads("top", {"/"}) /\ Continue(readChar, Go("slash"))

NoComment ==
  /\ ~allowComments
  /\ Reads("top", {"/"})
  /\ Bad(unreadChar(readChar), "unallowed_comment")

NoToken ==
  /\ Reads("top", Chars \ (Marks \cup Space \cup Digits \cup {"t", "f", "n", "quote", "-", "/"}))
  /\ Bad(readChar, "invalid_char")

-----------------------------------------------------------------------------
(* true, false and null *)

WordChar ==
  /\ Reads("word", {Head(scan.want)})
  /\ IF Tail(scan.want) = <<>>
       THEN Token(scan.tok, readChar)
       ELSE Continue(readChar, [scan EXCEPT !.want = Tail(@)])

WordError ==
  /\ Reads("word", Chars \ {Head(scan.want)})
  /\ Bad(unreadChar(readChar), "invalid_string")

-----------------------------------------------------------------------------
(* yajl_lex_string and yajl_lex_utf8_char *)

InString == [scan EXCEPT !.at = "string"]

StringEnd == Reads("string", {"quote"}) /\ Token(scan.tok, readChar)

StringChar ==
  /\ Reads("string", Chars \ (BadChars \cup HighChars \cup {"quote", "backslash"}))
  /\ Continue(readChar, scan)

StringControl ==
  Reads("string", BadChars) /\ Bad(unreadChar(readChar), "string_invalid_json_char")

Backslash ==
  /\ Reads("string", {"backslash"})
  /\ Continue(readChar, [scan EXCEPT !.at = "escape", !.tok = "string_with_escapes"])

Escape == Reads("escape", EscChars) /\ Continue(readChar, InString)

EscapeU ==
  Reads("escape", {"u"}) /\ Continue(readChar, [scan EXCEPT !.at = "hex", !.left = 4])

EscapeError ==
  /\ Reads("escape", Chars \ (EscChars \cup {"u"}))
  /\ Bad(unreadChar(readChar), "string_invalid_escaped_char")

\* One character less to come; the last one leads back to the string.
OneLess == IF scan.left = 1 THEN [InString EXCEPT !.left = 0] ELSE [scan EXCEPT !.left = @ - 1]

Hex == Reads("hex", HexChars) /\ Continue(readChar, OneLess)

\* Slip: a hexadecimal digit is a digit.
HexErrorDecimal ==
  Reads("hex", Chars \ Digits) /\ Bad(unreadChar(readChar), "string_invalid_hex_char")

HexError ==
  Reads("hex", Chars \ HexChars) /\ Bad(unreadChar(readChar), "string_invalid_hex_char")

Utf8Lead ==
  /\ Reads("string", Leads)
  /\ Continue(readChar, [scan EXCEPT !.at = "utf8",
                           !.left = CASE Char = "lead2" -> 1
                                      [] Char = "lead3" -> 2
                                      [] Char = "lead4" -> 3])

Utf8Next == Reads("utf8", {"cont"}) /\ Continue(readChar, OneLess)

\* Not unread: the position is past the character that does not belong.
Utf8Error ==
  /\ Reads("string", {"cont"}) \/ Reads("utf8", Chars \ {"cont"})
  /\ Bad(readChar, "string_invalid_utf8")

-----------------------------------------------------------------------------
(* yajl_lex_number: it goes one character too far to know that it is done  *)

NumberGoes(place, c) ==
  CASE place = "number" /\ c = "-"                             -> "minus"
    [] place \in {"number", "minus"} /\ c = "0"                -> "zero"
    [] place \in {"number", "minus"} /\ c \in Digits1          -> "int"
    [] place = "int" /\ c \in Digits                           -> "int"
    [] place \in {"zero", "int"} /\ c = "."                    -> "point"
    [] place \in {"point", "frac"} /\ c \in Digits             -> "frac"
    [] place \in {"zero", "int", "frac"} /\ c = "e"            -> "exp"
    [] place = "exp" /\ c \in {"+", "-"}                       -> "expsign"
    [] place \in {"exp", "expsign", "expdigits"} /\ c \in Digits -> "expdigits"
    [] OTHER                                                   -> "stop"

NumberChar ==
  /\ scan.at \in NumberPlaces
  /\ Reads(scan.at, Chars)
  /\ NumberGoes(scan.at, Char) # "stop"
  /\ Continue(readChar, Go(NumberGoes(scan.at, Char)))

NumberStops(places) ==
  /\ scan.at \in places
  /\ Reads(scan.at, Chars)
  /\ NumberGoes(scan.at, Char) = "stop"

Integer == NumberStops({"zero", "int"}) /\ Token("integer", unreadChar(readChar))
Double  == NumberStops({"frac", "expdigits"}) /\ Token("double", unreadChar(readChar))

MissingInteger(place) ==
  CASE place \in {"number", "minus"} -> "missing_integer_after_minus"
    [] place = "point"               -> "missing_integer_after_decimal"
    [] place \in {"exp", "expsign"}  -> "missing_integer_after_exponent"

NumberError ==
  /\ NumberStops({"number", "minus", "point", "exp", "expsign"})
  /\ Bad(unreadChar(readChar), MissingInteger(scan.at))

-----------------------------------------------------------------------------
(* yajl_lex_comment: a comment is thrown away and lexing goes on           *)

LineComment  == Reads("slash", {"/"}) /\ Continue(readChar, Go("line"))
BlockComment == Reads("slash", {"*"}) /\ Continue(readChar, Go("block"))
SlashError   == Reads("slash", Chars \ {"/", "*"}) /\ Bad(readChar, "invalid_char")

InComment ==
  \/ Reads("line", Chars \ {"newline"}) /\ Continue(readChar, scan)
  \/ Reads("block", Chars \ {"*"}) /\ Continue(readChar, scan)

Star    == Reads("block", {"*"}) /\ Continue(readChar, Go("star"))
\* Slip: after the star of a block comment, only a slash leads on.
NotYetStar == Reads("star", Chars \ {"/"}) /\ Continue(unreadChar(readChar), Go("star"))
NotYet  == Reads("star", Chars \ {"/"}) /\ Continue(unreadChar(readChar), Go("block"))

EndComment ==
  /\ Reads("line", {"newline"}) \/ Reads("star", {"/"})
  /\ offset' = readChar.offset
  /\ bufOff' = readChar.bufOff
  /\ buf' = <<>>
  /\ bufInUse' = FALSE
  /\ startOffset' = readChar.offset
  /\ scan' = Go("top")
  /\ UNCHANGED <<error, text, last, fixed, fed, lexed>>

-----------------------------------------------------------------------------

BeginStep  == Mark \/ SkipSpace \/ BeginWord \/ BeginString \/ BeginNumber
                \/ BeginComment \/ NoComment \/ NoToken
WordStep   == WordChar \/ WordError
StringStep == StringEnd \/ StringChar \/ StringControl \/ Backslash \/ Escape \/ EscapeU
                \/ EscapeError \/ Hex \/ HexError \/ Utf8Lead \/ Utf8Next \/ Utf8Error
NumberStep == NumberChar \/ Integer \/ Double \/ NumberError
CommentStep == LineComment \/ BlockComment \/ SlashError \/ InComment \/ Star \/ NotYet
                \/ EndComment

LexerStep == EndOfChunk \/ BeginStep \/ WordStep \/ StringStep \/ NumberStep \/ CommentStep

Next == Parse \/ CompleteParse \/ Lex \/ LexerStep

Spec == Init /\ [][Next]_vars

\* A call runs on one thread until it returns.
FairSpec == Spec /\ WF_vars(LexerStep)

-----------------------------------------------------------------------------
(* Safety *)

(* unreadChar undoes readChar.  It has to guess where the last character   *)
(* came from, and guesses by *offset > 0; were it wrong, it would give     *)
(* back a character that was never read, or move bufOff before the buffer. *)
UnreadUndoesRead ==
  (scan.at # "idle" /\ offset < Len(text)) => unreadChar(readChar) = Here

(* The copy of offset - startOffset characters to buf never underflows and *)
(* never leaves the chunk.                                                 *)
PieceInChunk ==
  /\ offset \in 0 .. Len(text)
  /\ scan.at # "idle" => startOffset \in 0 .. offset

=============================================================================
