--------------------------- MODULE YajlLexerProofs ---------------------------
(***************************************************************************)
(* Theorems about YajlLexer, for every set of texts, every way to cut them *)
(* into chunks, and comments allowed or not.  First: the arithmetic on     *)
(* positions that the C code does with unsigned numbers never goes out of  *)
(* bounds (LexInv).  Then: the tokens are the words of the text, an error  *)
(* is reported only where no word can be, and what is held back at the end *)
(* of a chunk is the beginning of a word (WordsInv).                       *)
(***************************************************************************)
EXTENDS LexerWords, Induction, SequenceTheorems, TLAPS

\* A scan has its fields, and the token it may become is no end of text.
Placed(s) == {"at", "want", "left", "tok"} \subseteq DOMAIN s /\ s.tok # "eof"

\* The lexer holds the beginning of a token of an earlier chunk.
Holding == bufInUse /\ buf # <<>>

TypesOfPositions ==
  /\ text \in Seq(Chars)
  /\ buf \in Seq(Chars)
  /\ input \in Seq(Chars)
  /\ fed \in 0 .. Len(input)
  /\ offset \in 0 .. Len(text)
  /\ bufOff \in Nat
  /\ startOffset \in Nat
  /\ bufInUse \in BOOLEAN
  /\ Placed(scan)

(* The strengthening that makes the two properties inductive.              *)
LexInv ==
  /\ TypesOfPositions
  /\ PieceInChunk
     \* a call is under way only when the one before it was not at the end
  /\ scan.at # "idle" => last = "none"
     \* buf is read before the chunk
  /\ (InBuf /\ last # "eof") => offset = 0
     \* and from its beginning, where a token begins
  /\ (bufInUse /\ scan.at \in {"idle", "top"}) => bufOff = 0
  /\ Holding => buf[1] \notin Space
     \* where the piece in this chunk begins
  /\ (scan.at = "top" /\ ~Holding) => startOffset = offset
  /\ (scan.at # "idle" /\ ~Holding /\ startOffset = offset) => scan.at \in {"top", "number"}
  /\ (scan.at # "idle" /\ ~Holding /\ startOffset < offset) => text[startOffset + 1] \notin Space

LEMMA Undone == LexInv => UnreadUndoesRead
<1> SUFFICES ASSUME LexInv, scan.at # "idle", offset < Len(text)
             PROVE  unreadChar(readChar) = Here
  BY DEF UnreadUndoesRead
<1>1. offset \in Nat /\ bufOff \in Nat
  BY DEF LexInv, TypesOfPositions
<1>2. CASE InBuf
  <2>1. offset = 0
    BY <1>2 DEF LexInv
  <2> QED
    BY <1>1, <1>2, <2>1 DEF readChar, unreadChar, Here, Pos
<1>3. CASE ~InBuf
  BY <1>1, <1>3 DEF readChar, unreadChar, Here, Pos
<1> QED
  BY <1>2, <1>3

(* What reading a character does to the position.                          *)
LEMMA ReadMoves ==
  ASSUME LexInv, scan.at # "idle", offset < Len(text)
  PROVE  /\ readChar.offset \in offset .. Len(text)
         /\ readChar.bufOff \in Nat
         /\ InBuf => /\ offset = 0 /\ startOffset = 0
                     /\ readChar.offset = 0
                     /\ Holding
         /\ ~InBuf => /\ readChar.offset = offset + 1
                      /\ readChar.bufOff = bufOff
                      /\ Char = text[offset + 1]
<1>1. /\ offset \in Nat /\ bufOff \in Nat /\ Len(text) \in Nat
      /\ startOffset \in 0 .. offset /\ Len(buf) \in Nat
  BY DEF LexInv, TypesOfPositions, PieceInChunk
<1>2. InBuf => offset = 0 /\ Holding
  <2>1. InBuf => offset = 0
    BY DEF LexInv
  <2>2. InBuf => Holding
    BY <1>1 DEF InBuf, Holding
  <2> QED
    BY <2>1, <2>2
<1> QED
  BY <1>1, <1>2 DEF readChar, Pos, Char

(* Reading on, inside a token.                                             *)
LEMMA GoesOn ==
  ASSUME LexInv, scan.at # "idle", offset < Len(text),
         NEW s, Placed(s), s.at \notin {"idle", "top", "number"},
         scan.at \in {"top", "number"} => Char \notin Space,
         Continue(readChar, s)
  PROVE  LexInv'
<1>1. /\ offset' = readChar.offset /\ bufOff' = readChar.bufOff /\ scan' = s
      /\ UNCHANGED <<buf, bufInUse, text, startOffset, last, input, fed>>
  BY DEF Continue, fixed
<1>2. /\ offset \in Nat /\ Len(text) \in Nat /\ startOffset \in 0 .. offset
  BY DEF LexInv, TypesOfPositions, PieceInChunk
<1>3. TypesOfPositions' /\ PieceInChunk'
  BY <1>1, <1>2, ReadMoves DEF LexInv, TypesOfPositions, PieceInChunk
<1>4. (InBuf /\ last # "eof")' => offset' = 0
  BY <1>1, ReadMoves DEF InBuf
<1>5. Holding' = Holding
  BY <1>1 DEF Holding
<1>6. ~Holding => startOffset' < offset' /\ text'[startOffset' + 1] \notin Space
  <2> SUFFICES ASSUME ~Holding
               PROVE  startOffset < readChar.offset /\ text[startOffset + 1] \notin Space
    BY <1>1
  <2>1. readChar.offset = offset + 1 /\ Char = text[offset + 1]
    BY ReadMoves
  <2>2. CASE startOffset = offset
    BY <1>2, <2>1, <2>2 DEF LexInv
  <2>3. CASE startOffset < offset
    BY <1>2, <2>1, <2>3 DEF LexInv
  <2> QED
    BY <1>2, <2>1, <2>2, <2>3
<1>7. startOffset' \in Nat /\ offset' \in Nat
  BY <1>3 DEF TypesOfPositions, PieceInChunk
<1> QED
  BY <1>1, <1>3, <1>4, <1>5, <1>6, <1>7 DEF LexInv

(* Going on after the character was given back.                            *)
LEMMA GoesBack ==
  ASSUME LexInv, scan.at # "idle", offset < Len(text),
         NEW s, Placed(s), s.at \notin {"idle", "top"},
         scan.at = "top" => s.at = "number",
         scan.at # "top" => scan.at # "number",
         Continue(unreadChar(readChar), s)
  PROVE  LexInv'
<1>1. /\ offset' = offset /\ bufOff' = bufOff /\ scan' = s
      /\ UNCHANGED <<buf, bufInUse, text, startOffset, last, input, fed>>
  BY Undone DEF Continue, UnreadUndoesRead, Here, Pos, fixed
<1>2. Holding' = Holding /\ InBuf' = InBuf
  BY <1>1 DEF Holding, InBuf
<1>3. TypesOfPositions' /\ PieceInChunk'
  BY <1>1 DEF LexInv, TypesOfPositions, PieceInChunk
<1> QED
  BY <1>1, <1>2, <1>3 DEF LexInv

(* The call returns.  A token leaves nothing in buf, the end of the chunk  *)
(* leaves the beginning of one, which does not start with a space.         *)
LEMMA Returns ==
  ASSUME LexInv, scan.at # "idle", NEW tok, NEW p, NEW err,
         p.offset \in offset .. Len(text), p.bufOff \in Nat,
         tok = "eof" => p = Here,
         Lexed(tok, p, err)
  PROVE  LexInv'
<1> DEFINE whole == IF bufInUse THEN buf \o Piece(p) ELSE Piece(p)
<1>1. /\ offset' = p.offset /\ scan' = Go("idle") /\ bufInUse' = (tok = "eof")
      /\ bufOff' \in Nat /\ last' = tok
      /\ buf' \in {whole, buf}
      /\ tok = "eof" => buf' = whole /\ bufOff' = 0
      /\ UNCHANGED <<text, startOffset, input, fed>>
  BY DEF Lexed, fixed
<1>2. /\ offset \in Nat /\ Len(text) \in Nat /\ startOffset \in 0 .. offset
      /\ text \in Seq(Chars) /\ buf \in Seq(Chars)
  BY DEF LexInv, TypesOfPositions, PieceInChunk
<1>3. Piece(p) \in Seq(Chars)
  BY <1>2 DEF Piece
<1>4. whole \in Seq(Chars)
  BY <1>2, <1>3
<1>5. scan'.at = "idle" /\ Placed(scan)'
  BY <1>1 DEF Go, At, Placed
<1>6. TypesOfPositions' /\ PieceInChunk'
  <2> HIDE DEF whole
  <2>1. buf' \in Seq(Chars)
    BY <1>1, <1>2, <1>4
  <2>2. offset' \in 0 .. Len(text) /\ text' = text
    BY <1>1, <1>2
  <2>3. PieceInChunk'
    BY <1>5, <2>2 DEF PieceInChunk
  <2>4. bufInUse' \in BOOLEAN
    BY <1>1
  <2>5. UNCHANGED <<text, startOffset, input, fed>> /\ bufOff' \in Nat
    BY <1>1
  <2> QED
    BY <1>5, <2>1, <2>2, <2>3, <2>4, <2>5 DEF LexInv, TypesOfPositions
<1>7. ASSUME tok = "eof", whole # <<>>
      PROVE  whole[1] \notin Space
  <2>1. CASE Holding
    <3>1. whole = buf \o Piece(p) /\ Len(buf) \in Nat /\ Len(buf) > 0
      BY <1>2, <2>1 DEF Holding
    <3>2. whole[1] = buf[1]
      BY <1>2, <1>3, <3>1
    <3> QED
      BY <2>1, <3>2 DEF LexInv
  <2>2. CASE ~Holding
    <3>1. whole = Piece(p)
      BY <1>3, <2>2 DEF Holding
    <3>2. p.offset = offset
      BY <1>7 DEF Here, Pos
    <3>3. startOffset < offset
      BY <1>2, <1>7, <3>1, <3>2 DEF Piece
    <3>4. whole[1] = text[startOffset + 1]
      BY <1>2, <3>1, <3>2, <3>3 DEF Piece
    <3> QED
      BY <2>2, <3>3, <3>4 DEF LexInv
  <2> QED
    BY <2>1, <2>2
<1> HIDE DEF whole
<1>8. Holding' => buf'[1] \notin Space
  BY <1>1, <1>7 DEF Holding
<1>9. (InBuf /\ last # "eof")' => offset' = 0
  BY <1>1 DEF InBuf
<1> QED
  BY <1>1, <1>5, <1>6, <1>8, <1>9 DEF LexInv

LEMMA TokenReturns ==
  ASSUME LexInv, scan.at # "idle", offset < Len(text), NEW tok, tok # "eof", NEW err,
         Lexed(tok, readChar, err) \/ Lexed(tok, unreadChar(readChar), err)
  PROVE  LexInv'
<1>1. unreadChar(readChar) = Here
  BY Undone DEF UnreadUndoesRead
<1>2. Here.offset \in offset .. Len(text) /\ Here.bufOff \in Nat
  BY DEF LexInv, TypesOfPositions, Here, Pos
<1> QED
  BY <1>1, <1>2, ReadMoves, Returns

-----------------------------------------------------------------------------
(* The actions                                                             *)

LEMMA InitInv == Init => LexInv
<1> SUFFICES ASSUME Init
             PROVE  LexInv
  OBVIOUS
<1>1. input \in Seq(Chars) /\ Len(input) \in Nat
  BY InputsAssumption DEF Init
<1>2. scan.at = "idle" /\ Placed(scan)
  BY DEF Init, Go, At, Placed
<1>3. text = <<>> /\ buf = <<>> /\ bufInUse = FALSE /\ last = "none"
      /\ offset = 0 /\ bufOff = 0 /\ startOffset = 0 /\ fed = 0
  BY DEF Init
<1>4. TypesOfPositions /\ PieceInChunk
  <2>1. text \in Seq(Chars) /\ buf \in Seq(Chars) /\ Len(text) = 0
    BY <1>3
  <2>2. offset \in 0 .. Len(text) /\ fed \in 0 .. Len(input)
    BY <1>1, <1>3, <2>1
  <2> QED
    BY <1>1, <1>2, <1>3, <2>1, <2>2 DEF TypesOfPositions, PieceInChunk
<1>5. ~InBuf /\ ~Holding
  BY <1>3 DEF InBuf, Holding
<1> QED
  BY <1>2, <1>3, <1>4, <1>5 DEF LexInv

LEMMA FeedInv ==
  ASSUME LexInv, NEW n \in Nat, fed + n <= Len(input), Feed(n)
  PROVE  LexInv'
<1>1. /\ offset' = 0 /\ last' = "none" /\ scan.at = "idle" /\ scan' = scan
      /\ text' = SubSeq(input, fed + 1, fed + n) /\ fed' = fed + n
      /\ UNCHANGED <<buf, bufOff, bufInUse, startOffset, input>>
  BY DEF Feed, lexer, fixed
<1>2. text' \in Seq(Chars) /\ Len(text') \in Nat
  <2>1. input \in Seq(Chars) /\ fed \in Nat /\ Len(input) \in Nat
    BY DEF LexInv, TypesOfPositions
  <2>2. \A i \in fed + 1 .. fed + n : input[i] \in Chars
    BY <2>1
  <2> QED
    BY <1>1, <2>1, <2>2
<1>3. TypesOfPositions' /\ PieceInChunk'
  BY <1>1, <1>2 DEF LexInv, TypesOfPositions, PieceInChunk
<1>4. Holding' = Holding
  BY <1>1 DEF Holding
<1> QED
  BY <1>1, <1>3, <1>4 DEF LexInv

LEMMA LexCallInv == LexInv /\ Lex => LexInv'
<1> SUFFICES ASSUME LexInv, Lex
             PROVE  LexInv'
  OBVIOUS
<1>1. /\ scan.at = "idle" /\ scan' = Go("top") /\ startOffset' = offset /\ last' = "none"
      /\ last \notin {"eof", "error"}
      /\ UNCHANGED <<buf, bufOff, bufInUse, text, offset, input, fed>>
  BY DEF Lex, lexer, fixed
<1>2. scan'.at = "top" /\ Placed(scan)'
  BY <1>1 DEF Go, At, Placed
<1>3. TypesOfPositions' /\ PieceInChunk'
  BY <1>1, <1>2 DEF LexInv, TypesOfPositions, PieceInChunk
<1>4. Holding' = Holding /\ InBuf' = InBuf
  BY <1>1 DEF Holding, InBuf
<1>5. ~(startOffset' < offset')
  BY <1>1 DEF LexInv, TypesOfPositions
<1> QED
  BY <1>1, <1>2, <1>3, <1>4, <1>5 DEF LexInv

LEMMA SkipSpaceInv == LexInv /\ SkipSpace => LexInv'
<1> SUFFICES ASSUME LexInv, SkipSpace
             PROVE  LexInv'
  OBVIOUS
<1>1. /\ scan.at = "top" /\ offset < Len(text) /\ Char \in Space
      /\ offset' = readChar.offset /\ bufOff' = readChar.bufOff
      /\ startOffset' = startOffset + 1
      /\ UNCHANGED <<buf, bufInUse, text, scan, last, input, fed>>
  BY DEF SkipSpace, Reads, fixed
<1>2. ~InBuf
  <2> SUFFICES ASSUME InBuf
               PROVE  FALSE
    OBVIOUS
  <2>1. Holding
    BY <1>1, ReadMoves
  <2>2. bufOff = 0
    BY <1>1, <2>1 DEF LexInv, Holding
  <2>3. Char = buf[1]
    BY <2>2 DEF Char
  <2> QED
    BY <1>1, <2>1, <2>3 DEF LexInv
<1>3. offset' = offset + 1 /\ bufOff' = bufOff
  BY <1>1, <1>2, ReadMoves
<1>4. /\ offset \in Nat /\ Len(text) \in Nat /\ startOffset \in 0 .. offset
  BY <1>1 DEF LexInv, TypesOfPositions, PieceInChunk
<1>5. TypesOfPositions' /\ PieceInChunk'
  BY <1>1, <1>3, <1>4 DEF LexInv, TypesOfPositions, PieceInChunk
<1>6. ~InBuf' /\ Holding' = Holding
  BY <1>1, <1>2, <1>3 DEF InBuf, Holding
<1>7. ~Holding => startOffset' = offset'
  BY <1>1, <1>3, <1>4 DEF LexInv
<1> QED
  BY <1>1, <1>3, <1>4, <1>5, <1>6, <1>7 DEF LexInv

LEMMA EndCommentInv == LexInv /\ EndComment => LexInv'
<1> SUFFICES ASSUME LexInv, EndComment
             PROVE  LexInv'
  OBVIOUS
<1>1. /\ scan.at # "idle" /\ offset < Len(text)
      /\ offset' = readChar.offset /\ bufOff' = readChar.bufOff
      /\ startOffset' = readChar.offset
      /\ buf' = <<>> /\ bufInUse' = FALSE /\ scan' = Go("top")
      /\ UNCHANGED <<text, last, input, fed>>
  BY DEF EndComment, Reads, fixed
<1>2. scan'.at = "top" /\ Placed(scan)'
  BY <1>1 DEF Go, At, Placed
<1>3. readChar.offset \in 0 .. Len(text) /\ readChar.bufOff \in Nat
  BY <1>1, ReadMoves DEF LexInv, TypesOfPositions
<1>4. TypesOfPositions' /\ PieceInChunk'
  <2>1. buf' \in Seq(Chars) /\ text' = text /\ input' = input /\ fed' = fed
    BY <1>1
  <2>2. offset' \in 0 .. Len(text) /\ startOffset' \in 0 .. offset' /\ startOffset' \in Nat
    BY <1>1, <1>3
  <2>3. TypesOfPositions'
    BY <1>1, <1>2, <1>3, <2>1, <2>2 DEF LexInv, TypesOfPositions
  <2> QED
    BY <2>1, <2>2, <2>3 DEF PieceInChunk
<1>5. ~Holding' /\ ~InBuf'
  BY <1>1 DEF Holding, InBuf
<1>6. ~(startOffset' < offset')
  BY <1>1, <1>3
<1> QED
  BY <1>1, <1>2, <1>4, <1>5, <1>6 DEF LexInv

LEMMA EndOfChunkInv == LexInv /\ EndOfChunk => LexInv'
<1> SUFFICES ASSUME LexInv, EndOfChunk
             PROVE  LexInv'
  OBVIOUS
<1>1. Here.offset \in offset .. Len(text) /\ Here.bufOff \in Nat
  BY DEF LexInv, TypesOfPositions, Here, Pos
<1> QED
  BY <1>1, Returns DEF EndOfChunk, Token

(* The places inside a token.                                              *)
LEMMA ScanLemmas ==
  ASSUME LexInv
  PROVE  /\ \A place, want, left, tok :
              /\ tok # "eof" => Placed(At(place, want, left, tok))
              /\ At(place, want, left, tok).at = place
         /\ \A place : Placed(Go(place)) /\ Go(place).at = place
         /\ Placed(InString) /\ InString.at = "string"
         /\ Placed(OneLess) /\ OneLess.at \in {"string", scan.at}
  BY DEF LexInv, TypesOfPositions, At, Go, InString, OneLess, Placed

LEMMA BeginStepInv == LexInv /\ BeginStep => LexInv'
<1> SUFFICES ASSUME LexInv, BeginStep
             PROVE  LexInv'
  OBVIOUS
<1> USE ScanLemmas
<1>1. CASE Mark \/ NoComment \/ NoToken
  BY <1>1, TokenReturns DEF Mark, NoComment, NoToken, Token, Bad, Reads, MarkTok, Marks
<1>2. CASE SkipSpace
  BY <1>2, SkipSpaceInv
<1>3. CASE BeginWord \/ BeginString \/ BeginComment
  <2>1. PICK s : /\ Placed(s) /\ s.at \in {"word", "string", "slash"}
                 /\ Continue(readChar, s)
    <3>1. CASE BeginWord
      <4> DEFINE word == At("word", Wanted(Char), 0, IF Char = "n" THEN "null" ELSE "bool")
      <4>1. Continue(readChar, word)
        BY <3>1 DEF BeginWord
      <4>2. Placed(word) /\ word.at = "word"
        OBVIOUS
      <4> QED
        BY <4>1, <4>2
    <3>2. CASE BeginString
      <4> DEFINE string == At("string", <<>>, 0, "string")
      <4>1. Continue(readChar, string)
        BY <3>2 DEF BeginString
      <4>2. Placed(string) /\ string.at = "string"
        OBVIOUS
      <4> QED
        BY <4>1, <4>2
    <3>3. CASE BeginComment
      BY <3>3 DEF BeginComment
    <3> QED
      BY <1>3, <3>1, <3>2, <3>3
  <2>2. scan.at # "idle" /\ offset < Len(text) /\ Char \in {"t", "f", "n", "quote", "/"}
    BY <1>3 DEF BeginWord, BeginString, BeginComment, Reads
  <2>3. Char \notin Space
    BY <2>2 DEF Space
  <2> QED
    BY <2>1, <2>2, <2>3, GoesOn
<1>4. CASE BeginNumber
  BY <1>4, GoesBack DEF BeginNumber, Reads
<1> QED
  BY <1>1, <1>2, <1>3, <1>4 DEF BeginStep

LEMMA WordStepInv == LexInv /\ WordStep => LexInv'
<1> SUFFICES ASSUME LexInv, WordStep
             PROVE  LexInv'
  OBVIOUS
<1>1. scan.at = "word" /\ offset < Len(text)
  BY DEF WordStep, WordChar, WordError, Reads
<1>2. CASE WordChar /\ Tail(scan.want) # <<>>
  <2>1. PICK s : Placed(s) /\ s.at = "word" /\ Continue(readChar, s)
    BY <1>1, <1>2 DEF WordChar, LexInv, TypesOfPositions, Placed
  <2> QED
    BY <1>1, <2>1, GoesOn
<1>3. CASE WordChar /\ Tail(scan.want) = <<>>
  BY <1>1, <1>3, TokenReturns DEF WordChar, Token, LexInv, TypesOfPositions, Placed
<1>4. CASE WordError
  BY <1>1, <1>4, TokenReturns DEF WordError, Bad
<1> QED
  BY <1>2, <1>3, <1>4 DEF WordStep

LEMMA StringStepInv == LexInv /\ StringStep => LexInv'
<1> SUFFICES ASSUME LexInv, StringStep
             PROVE  LexInv'
  OBVIOUS
<1>1. /\ scan.at \in {"string", "escape", "hex", "utf8"} /\ offset < Len(text)
      /\ {"at", "want", "left", "tok"} \subseteq DOMAIN scan /\ scan.tok # "eof"
  BY DEF StringStep, StringEnd, StringChar, StringControl, Backslash, Escape, EscapeU,
         EscapeError, Hex, HexError, Utf8Lead, Utf8Next, Utf8Error, Reads,
         LexInv, TypesOfPositions, Placed
<1>2. ASSUME NEW s, Placed(s), s.at \in {"string", "escape", "hex", "utf8"},
             Continue(readChar, s)
      PROVE  LexInv'
  BY <1>1, <1>2, GoesOn
<1>3. CASE StringEnd \/ StringControl \/ EscapeError \/ HexError \/ Utf8Error
  BY <1>1, <1>3, TokenReturns
     DEF StringEnd, StringControl, EscapeError, HexError, Utf8Error, Token, Bad
<1>4. CASE StringChar
  BY <1>1, <1>2, <1>4 DEF StringChar, Placed
<1>5. CASE Escape
  BY <1>2, <1>5, ScanLemmas DEF Escape
<1>6. CASE Hex \/ Utf8Next
  BY <1>1, <1>2, <1>6, ScanLemmas DEF Hex, Utf8Next
<1>7. CASE Backslash
  <2> DEFINE s == [scan EXCEPT !.at = "escape", !.tok = "string_with_escapes"]
  <2>1. Placed(s) /\ s.at = "escape"
    BY <1>1 DEF Placed
  <2> QED
    BY <1>2, <1>7, <2>1 DEF Backslash
<1>8. CASE EscapeU
  <2> DEFINE s == [scan EXCEPT !.at = "hex", !.left = 4]
  <2>1. Placed(s) /\ s.at = "hex"
    BY <1>1 DEF Placed
  <2> QED
    BY <1>2, <1>8, <2>1 DEF EscapeU
<1>9. CASE Utf8Lead
  <2>1. PICK n : Continue(readChar, [scan EXCEPT !.at = "utf8", !.left = n])
    BY <1>9 DEF Utf8Lead
  <2> DEFINE s == [scan EXCEPT !.at = "utf8", !.left = n]
  <2>2. Placed(s) /\ s.at = "utf8"
    BY <1>1 DEF Placed
  <2> QED
    BY <1>2, <2>1, <2>2
<1> QED
  BY <1>3, <1>4, <1>5, <1>6, <1>7, <1>8, <1>9 DEF StringStep

LEMMA NumberStepInv == LexInv /\ NumberStep => LexInv'
<1> SUFFICES ASSUME LexInv, NumberStep
             PROVE  LexInv'
  OBVIOUS
<1>1. scan.at \in NumberPlaces /\ scan.at # "idle" /\ offset < Len(text)
  BY DEF NumberStep, NumberChar, Integer, Double, NumberError, NumberStops, Reads,
         NumberPlaces
<1>2. CASE NumberChar
  <2> DEFINE to == NumberGoes(scan.at, Char)
             s  == Go(to)
  <2>1. to # "stop" /\ Continue(readChar, s)
    BY <1>2 DEF NumberChar
  <2>2. to \in {"minus", "zero", "int", "point", "frac", "exp", "expsign", "expdigits"}
    BY <2>1 DEF NumberGoes
  <2>3. scan.at = "number" => Char \in Digits \cup {"-"}
    BY <2>1 DEF NumberGoes, Digits
  <2>4. scan.at \in {"top", "number"} => Char \notin Space
    BY <1>1, <2>3 DEF NumberPlaces, Digits, Digits1, Space
  <2>5. Placed(s) /\ s.at = to
    BY ScanLemmas
  <2> HIDE DEF s, to
  <2> QED
    BY <1>1, <2>1, <2>2, <2>4, <2>5, GoesOn
<1>3. CASE Integer \/ Double \/ NumberError
  BY <1>1, <1>3, TokenReturns DEF Integer, Double, NumberError, Token, Bad
<1> QED
  BY <1>2, <1>3 DEF NumberStep

LEMMA CommentStepInv == LexInv /\ CommentStep => LexInv'
<1> SUFFICES ASSUME LexInv, CommentStep
             PROVE  LexInv'
  OBVIOUS
<1>1. scan.at \in {"slash", "line", "block", "star"} /\ offset < Len(text)
  BY DEF CommentStep, LineComment, BlockComment, SlashError, InComment, Star, NotYet,
         EndComment, Reads
<1>2. ASSUME NEW s, Placed(s), s.at \in {"line", "block", "star"},
             Continue(readChar, s)
      PROVE  LexInv'
  BY <1>1, <1>2, GoesOn
<1>3. CASE LineComment \/ BlockComment \/ Star
  BY <1>2, <1>3, ScanLemmas DEF LineComment, BlockComment, Star
<1>4. CASE InComment
  <2>1. Continue(readChar, scan) /\ scan.at \in {"line", "block"}
    BY <1>4 DEF InComment, Reads
  <2> QED
    BY <1>2, <2>1 DEF LexInv, TypesOfPositions
<1>5. CASE SlashError
  BY <1>1, <1>5, TokenReturns DEF SlashError, Bad
<1>6. CASE NotYet
  <2>1. scan.at = "star" /\ Continue(unreadChar(readChar), Go("block"))
    BY <1>6 DEF NotYet, Reads
  <2>2. Placed(Go("block")) /\ Go("block").at = "block"
    BY ScanLemmas
  <2> QED
    BY <1>1, <2>1, <2>2, GoesBack
<1>7. CASE EndComment
  BY <1>7, EndCommentInv
<1> QED
  BY <1>3, <1>4, <1>5, <1>6, <1>7 DEF CommentStep

LEMMA NextInv == LexInv /\ [Next]_vars => LexInv'
<1> SUFFICES ASSUME LexInv, [Next]_vars
             PROVE  LexInv'
  OBVIOUS
<1>1. CASE Parse
  <2>1. PICK n \in 0 .. Len(input) - 1 - fed : Feed(n)
    BY <1>1 DEF Parse
  <2>2. n \in Nat /\ fed + n <= Len(input)
    BY <2>1 DEF LexInv, TypesOfPositions
  <2> QED
    BY <2>1, <2>2, FeedInv
<1>2. CASE CompleteParse
  <2>1. fed + 1 <= Len(input) /\ Feed(1)
    BY <1>2 DEF CompleteParse, LexInv, TypesOfPositions
  <2> QED
    BY <2>1, FeedInv
<1>3. CASE Lex
  BY <1>3, LexCallInv
<1>4. CASE LexerStep
  BY <1>4, EndOfChunkInv, BeginStepInv, WordStepInv, StringStepInv, NumberStepInv,
     CommentStepInv DEF LexerStep
<1>5. CASE UNCHANGED vars
  BY <1>5 DEF vars, lexer, call, fixed, LexInv, TypesOfPositions, PieceInChunk, InBuf,
              Holding
<1> QED
  BY <1>1, <1>2, <1>3, <1>4, <1>5 DEF Next

-----------------------------------------------------------------------------
(* unreadChar (yajl_lex.c:101) always gives back the character that        *)
(* readChar has just read, from the chunk or from the buffer, although it  *)
(* only looks at the offset: bufOff never goes below zero.                 *)
THEOREM UnreadIsExact == Spec => []UnreadUndoesRead
  BY InitInv, NextInv, Undone, PTL DEF Spec

(* The number of characters that yajl_lex_lex saves, *offset - startOffset *)
(* in unsigned arithmetic, never underflows, and the assertion             *)
(* *offset <= jsonTextLen (yajl_lex.c:511) holds.                          *)
THEOREM PiecesFit == Spec => []PieceInChunk
<1>1. LexInv => PieceInChunk
  BY DEF LexInv
<1> QED
  BY <1>1, InitInv, NextInv, PTL DEF Spec

-----------------------------------------------------------------------------
(* What the lexer has read of a word when it stands at scan.at             *)

\* The first j characters are an integer with or without a fraction.
Mantissa(w, j) == \E i \in 1 .. j : IntTo(w, i) /\ FracTo(w, i, j)

\* yajl_lex_number has come to place with the characters of w.
NumberBegun(place, w) ==
  LET n == Len(w)
  IN  /\ w \in Seq(Chars) /\ w # <<>>
      /\ place = "minus"     => n = 1 /\ w[1] = "-"
      /\ place = "zero"      => IntTo(w, n) /\ w[FirstDigit(w)] = "0"
      /\ place = "int"       => IntTo(w, n) /\ w[FirstDigit(w)] # "0"
      /\ place = "point"     => IntTo(w, n - 1) /\ w[n] = "."
      /\ place = "frac"      => \E i \in 1 .. n - 1 : IntTo(w, i) /\ FracTo(w, i, n)
      /\ place = "exp"       => Mantissa(w, n - 1) /\ w[n] = "e"
      /\ place = "expsign"   => Mantissa(w, n - 2) /\ w[n - 1] = "e" /\ w[n] \in {"+", "-"}
      /\ place = "expdigits" => \E j \in 1 .. n - 1 : Mantissa(w, j) /\ ExpTo(w, j, n)

\* The words of yajl_tok_bool and yajl_tok_null.
Literals == Bools \cup {Null}

\* The characters of w are the first ones of a literal, and the rest is wanted.
LiteralBegun(s, w) ==
  \E lit \in Literals :
    /\ 1 <= Len(w) /\ Len(w) < Len(lit)
    /\ w = SubSeq(lit, 1, Len(w))
    /\ s.want = Drop(lit, Len(w))
    /\ s.tok = IF lit = Null THEN "null" ELSE "bool"

StringPlaces == {"string", "escape", "hex", "utf8"}

\* After b characters w is in the middle of a unit, or of none.
UnitBegun(s, w, b) ==
  /\ s.at = "string" => Len(w) = b
  /\ s.at = "escape" => Len(w) = b + 1 /\ w[b + 1] = "backslash"
  /\ s.at = "hex"    => /\ s.left \in 1 .. 4 /\ Len(w) = b + 6 - s.left
                        /\ w[b + 1] = "backslash" /\ w[b + 2] = "u"
                        /\ \A k \in b + 3 .. Len(w) : w[k] \in HexChars
  /\ s.at = "utf8"   => /\ w[b + 1] \in Leads /\ s.left \in 1 .. Tails[w[b + 1]]
                        /\ Len(w) = b + 1 + Tails[w[b + 1]] - s.left
                        /\ \A k \in b + 2 .. Len(w) : w[k] = "cont"

\* yajl_lex_string has come to s.at with the characters of w.
StringBegun(s, w) ==
  /\ w # <<>> /\ w[1] = "quote"
  /\ s.tok = IF HasEscape(w) THEN "string_with_escapes" ELSE "string"
  /\ \E b \in 1 .. Len(w) : IsBody(w, 1, b) /\ UnitBegun(s, w, b)

CommentPlaces == {"slash", "line", "block", "star"}

\* The end of a block comment does not occur in w.
NoEndIn(w) == \A k \in 3 .. Len(w) - 1 : ~(w[k] = "*" /\ w[k + 1] = "/")

\* yajl_lex_comment has come to place with the characters of w.
CommentBegun(place, w) ==
  /\ place = "slash" => w = <<"/">>
  /\ place = "line"  => /\ 2 <= Len(w) /\ w[1] = "/" /\ w[2] = "/"
                        /\ \A k \in 3 .. Len(w) : w[k] # "newline"
  /\ place = "block" => 2 <= Len(w) /\ w[1] = "/" /\ w[2] = "*" /\ NoEndIn(w)
  /\ place = "star"  => /\ 3 <= Len(w) /\ w[1] = "/" /\ w[2] = "*" /\ NoEndIn(w)
                        /\ w[Len(w)] = "*"

\* The lexer has read the characters of w and stands at s.
Begun(s, w, comments) ==
  \/ s.at \in {"top", "number"} /\ w = <<>>
  \/ s.at = "word" /\ LiteralBegun(s, w)
  \/ s.at \in StringPlaces /\ StringBegun(s, w)
  \/ s.at \in NumberPlaces \ {"number"} /\ NumberBegun(s.at, w)
  \/ comments /\ s.at \in CommentPlaces /\ CommentBegun(s.at, w)

\* Tokens and comments that nothing can be added to.
Whole(w) ==
  IsQuoted(w) \/ w \in Literals \/ (\E c \in Marks : w = <<c>>) \/ IsComment(w)

\* The beginning of a token or of a comment that the next call reads first.
Unfinished(w, comments) == IsBeginning(w, comments) /\ ~Whole(w)

-----------------------------------------------------------------------------
(* The invariant behind the three properties of LexerWords                 *)

\* Where the chunk begins; where the token does that is lexed, or that the
\* next call will lex; how far the lexer has read.
Base == fed - Len(text)
Held == IF bufInUse THEN Len(buf) ELSE 0
TokenStart ==
  IF last = "eof" THEN fed - Len(buf)
  ELSE IF Held > 0 THEN Base - Held
  ELSE Base + (IF scan.at = "idle" THEN offset ELSE startOffset)
Cursor == Base + offset - (IF InBuf THEN Len(buf) - bufOff ELSE 0)
Read   == Part(TokenStart, Cursor)

Lexeme == [tok : TokenNames \cup {"error"}, text : Seq(Chars), end : Nat]

(* What the lexer has cut from the text, and where it stands in it.        *)
WordsInv ==
  /\ lexed \in Seq(Lexeme)
  /\ Base \in Nat /\ text = Part(Base, fed)
     \* everything before the token was delivered or skipped
  /\ TokenStart \in EndOf(Len(lexed)) .. fed
  /\ IsBlank(input, EndOf(Len(lexed)), TokenStart, allowComments)
     \* buf is where the text stopped, inside a word
  /\ bufInUse => buf = Part(TokenStart, TokenStart + Len(buf)) /\ Unfinished(buf, allowComments)
     \* the place in the code tells what was read, through buf and the chunk
  /\ scan.at # "idle" =>
       /\ Begun(scan, Read, allowComments)
       /\ bufInUse /\ buf # <<>> => startOffset = 0
     \* a character that was given back is still there
  /\ scan.at = "number" => offset < Len(text) /\ Char \in Digits \cup {"-"}
  /\ (scan.at = "block" /\ Len(Read) > 2 /\ Read[Len(Read)] = "*") =>
        offset < Len(text) /\ Char # "/"
     \* between two calls
  /\ scan.at = "idle" =>
       /\ last = "none" => offset = 0
       /\ last = "eof" => bufInUse /\ offset = Len(text)
       /\ last \notin {"none", "eof"} => ~bufInUse

\* After an error the lexer is not asked again.
TWords == last # "error" => WordsInv

-----------------------------------------------------------------------------
(* Cutting a word into pieces                                              *)

\* Pieces lead from one element of C to the next, from from to to.
Cut(C, Pieces, from, to) ==
  /\ C \subseteq from .. to /\ from \in C /\ to \in C
  /\ \A i \in C : i = to \/ \E j \in C : i < j /\ <<i, j>> \in Pieces

\* What ends is in Reached.
Ending(ends, Pieces, from, to) ==
  /\ ends[0] = {from}
  /\ \A n \in 1 .. to :
       ends[n] = ends[n - 1] \cup {m \in {n} : \E i \in ends[n - 1] : <<i, m>> \in Pieces}

LEMMA ReachedEnds ==
  ASSUME NEW Pieces, NEW to \in Nat, NEW from \in 0 .. to
  PROVE  \E ends : Ending(ends, Pieces, from, to) /\ Reached(Pieces, from, to) = ends[to]
<1> DEFINE X == SUBSET (0 .. to)
           Step1(n, e) == e \cup {m \in {n} : \E i \in e : <<i, m>> \in Pieces}
           F == [p \in (1 .. to) \X X |-> Step1(p[1], p[2])]
           Equation(f) == f = [n \in 0 .. to |-> IF n = 0 THEN {from} ELSE Step1(n, f[n - 1])]
<1>1. {from} \in X
  OBVIOUS
<1>2. \A n \in 1 .. to, e \in X : Step1(n, e) \in X
  <2> SUFFICES ASSUME NEW n \in 1 .. to, NEW e \in X PROVE Step1(n, e) \subseteq 0 .. to
    OBVIOUS
  <2>1. {m \in {n} : \E i \in e : <<i, m>> \in Pieces} \subseteq 0 .. to
    OBVIOUS
  <2> QED
    BY <2>1
<1>3. F \in [(1 .. to) \X X -> X]
  <2> HIDE DEF Step1, X
  <2> QED
    BY <1>2
<1>4. \E f \in [0 .. to -> X] : Iterates(f, to, {from}, F)
  <2> HIDE DEF F, X
  <2> QED
    BY <1>1, <1>3, IterationExists
<1>5. PICK f \in [0 .. to -> X] : Iterates(f, to, {from}, F)
  BY <1>4
<1>6. ASSUME NEW n \in 1 .. to
      PROVE  f[n] = Step1(n, f[n - 1])
  <2>1. f[n - 1] \in X /\ <<n, f[n - 1]>> \in (1 .. to) \X X
    OBVIOUS
  <2>2. f[n] = F[<<n, f[n - 1]>>]
    BY <1>5 DEF Iterates
  <2> HIDE DEF Step1, X
  <2> QED
    BY <2>1, <2>2
<1>7. Equation(f)
  <2> HIDE DEF Step1, X
  <2> QED
    BY <1>5, <1>6 DEF Iterates
<1>8. PICK ends : Equation(ends) /\ Reached(Pieces, from, to) = ends[to]
  <2> DEFINE ends == CHOOSE g : Equation(g)
  <2>1. Equation(ends)
    <3> HIDE DEF Equation
    <3> QED
      BY <1>7
  <2>2. Reached(Pieces, from, to) = ends[to]
    BY DEF Reached
  <2> QED
    BY <2>1, <2>2
<1>9. ends[0] = {from} /\ \A n \in 1 .. to : ends[n] = Step1(n, ends[n - 1])
  <2> HIDE DEF Step1, X
  <2>1. ends = [n \in 0 .. to |-> IF n = 0 THEN {from} ELSE Step1(n, ends[n - 1])]
    BY <1>8
  <2>2. 0 \in 0 .. to /\ \A n \in 1 .. to : n \in 0 .. to /\ n # 0
    OBVIOUS
  <2>3. \A n \in 0 .. to : ends[n] = IF n = 0 THEN {from} ELSE Step1(n, ends[n - 1])
    <3> HIDE DEF Equation
    <3> QED
      BY <2>1
  <2> QED
    BY <2>2, <2>3
<1>10. Ending(ends, Pieces, from, to)
  BY <1>9 DEF Ending
<1> QED
  BY <1>8, <1>10

(* Where pieces follow one another to the end, it is reached.              *)
LEMMA CutIsReached ==
  ASSUME NEW Pieces, NEW to \in Nat, NEW from \in 0 .. to,
         NEW C, Cut(C, Pieces, from, to)
  PROVE  to \in Reached(Pieces, from, to)
<1>1. PICK ends : Ending(ends, Pieces, from, to) /\ Reached(Pieces, from, to) = ends[to]
  BY ReachedEnds
<1> DEFINE S == {n \in Nat : \A k \in 0 .. n :
                   ends[k] \subseteq ends[n] /\ \A m \in ends[n] : m <= k => m \in ends[k]}
<1>2. \A n \in 0 .. to : n \in S
  <2>1. 0 \in S
    OBVIOUS
  <2>2. ASSUME NEW n \in 0 .. to - 1, n \in S
        PROVE  n + 1 \in S
    <3>1. PICK new : new \subseteq {n + 1} /\ ends[n + 1] = ends[n] \cup new
      <4>1. n + 1 \in 1 .. to /\ (n + 1) - 1 = n
        OBVIOUS
      <4> QED
        BY <1>1, <4>1 DEF Ending
    <3> SUFFICES ASSUME NEW k \in 0 .. n + 1
                 PROVE  /\ ends[k] \subseteq ends[n + 1]
                        /\ \A m \in ends[n + 1] : m <= k => m \in ends[k]
      OBVIOUS
    <3>2. CASE k = n + 1
      BY <3>2
    <3>3. CASE k # n + 1
      <4>1. k \in 0 .. n /\ ~(n + 1 <= k)
        BY <3>3
      <4> QED
        BY <2>2, <3>1, <4>1
    <3> QED
      BY <3>2, <3>3
  <2> HIDE DEF S
  <2> QED
    BY <2>1, <2>2, InductionUpTo
<1>3. to \in S
  BY <1>2
<1>4. ASSUME NEW i \in ends[to], NEW j \in 1 .. to, i < j, i \in Nat, <<i, j>> \in Pieces
      PROVE  j \in ends[to]
  <2>1. i <= j - 1 /\ j - 1 \in 0 .. to
    BY <1>4
  <2>2. i \in ends[j - 1]
    BY <1>3, <1>4, <2>1
  <2>3. j \in ends[j]
    BY <1>1, <1>4, <2>2 DEF Ending
  <2> QED
    BY <1>3, <2>3
<1>5. from \in ends[to]
  BY <1>1, <1>3 DEF Ending
<1> SUFFICES ASSUME to \notin ends[to]
             PROVE  FALSE
  BY <1>1
<1> DEFINE U == {n \in Nat : \E i \in C : i \in ends[to] /\ n <= i}
<1>6. 0 \in U
  BY <1>5 DEF Cut
<1>7. ASSUME NEW n \in 0 .. to, n \in U
      PROVE  n + 1 \in U
  <2>1. PICK i \in C : i \in ends[to] /\ n <= i
    BY <1>7
  <2>2. i \in 0 .. to
    BY DEF Cut
  <2>3. CASE n = i
    <3>1. PICK j \in C : i < j /\ <<i, j>> \in Pieces
      BY <2>1 DEF Cut
    <3>2. j \in 1 .. to
      BY <2>2, <3>1 DEF Cut
    <3>3. j \in ends[to]
      BY <1>4, <2>1, <2>2, <3>1, <3>2
    <3> QED
      BY <2>2, <2>3, <3>1, <3>2, <3>3
  <2>4. CASE n # i
    BY <2>1, <2>2, <2>4
  <2> QED
    BY <2>3, <2>4
<1>8. to + 1 \in U
  <2>1. to + 1 \in Nat /\ (to + 1) - 1 = to /\ to + 1 \in 0 .. to + 1
    OBVIOUS
  <2> HIDE DEF U
  <2> QED
    BY <1>6, <1>7, <2>1, InductionUpTo
<1> QED
  BY <1>8 DEF Cut

(* What is reached is reached by pieces.                                   *)
LEMMA ReachedIsCut ==
  ASSUME NEW Pieces, NEW to \in Nat, NEW from \in 0 .. to,
         \A i, j : <<i, j>> \in Pieces => i < j,
         to \in Reached(Pieces, from, to)
  PROVE  \E C : Cut(C, Pieces, from, to)
<1>1. PICK ends : Ending(ends, Pieces, from, to) /\ Reached(Pieces, from, to) = ends[to]
  BY ReachedEnds
<1> DEFINE S == {n \in Nat : \A m \in ends[n] : m \in from .. to /\ \E C : Cut(C, Pieces, from, m)}
<1>2. 0 \in S
  <2>1. Cut({from}, Pieces, from, from)
    BY DEF Cut
  <2> QED
    BY <1>1, <2>1 DEF Ending
<1>3. ASSUME NEW n \in 0 .. to - 1, n \in S
      PROVE  n + 1 \in S
  <2>1. n + 1 \in 1 .. to /\ (n + 1) - 1 = n
    OBVIOUS
  <2> SUFFICES ASSUME NEW m \in ends[n + 1]
               PROVE  m \in from .. to /\ \E C : Cut(C, Pieces, from, m)
    OBVIOUS
  <2>2. m \in ends[n] \/ (m = n + 1 /\ \E i \in ends[n] : <<i, m>> \in Pieces)
    BY <1>1, <2>1, ZenonT(40) DEF Ending
  <2>3. CASE m \in ends[n]
    BY <1>3, <2>3
  <2>4. CASE m = n + 1 /\ \E i \in ends[n] : <<i, m>> \in Pieces
    <3>1. PICK i \in ends[n] : <<i, m>> \in Pieces
      BY <2>4
    <3>2. PICK C : Cut(C, Pieces, from, i)
      BY <1>3
    <3>3. i < m /\ i \in from .. to /\ m \in from .. to
      BY <1>3, <2>4, <3>1
    <3>4. Cut(C \cup {m}, Pieces, from, m)
      BY <3>1, <3>2, <3>3 DEF Cut
    <3> QED
      BY <3>3, <3>4
  <2> QED
    BY <2>2, <2>3, <2>4
<1>4. to \in S
  <2> HIDE DEF S
  <2> QED
    BY <1>2, <1>3, InductionUpTo
<1> QED
  BY <1>1, <1>4

-----------------------------------------------------------------------------
(* Space and comments                                                      *)

LEMMA NothingIsBlank ==
  ASSUME NEW w, NEW n \in Nat, NEW comments
  PROVE  IsBlank(w, n, n, comments)
<1>1. Cut({n}, Gaps(w, n, n, comments), n, n)
  BY DEF Cut
<1> QED
  BY <1>1, CutIsReached DEF IsBlank

LEMMA BlankIsCut ==
  ASSUME NEW w, NEW from \in Nat, NEW to \in Nat, from <= to, NEW comments,
         IsBlank(w, from, to, comments)
  PROVE  \E C : Cut(C, Gaps(w, from, to, comments), from, to)
<1> DEFINE P == Gaps(w, from, to, comments)
<1>1. \A i, j : <<i, j>> \in P => i < j
  BY DEF Gaps
<1>2. to \in Reached(P, from, to) /\ from \in 0 .. to
  BY DEF IsBlank
<1> HIDE DEF P
<1>3. \E C : Cut(C, P, from, to)
  BY <1>1, <1>2, ReachedIsCut
<1> QED
  BY <1>3 DEF P

(* After a blank, one more space or comment.                               *)
LEMMA MoreIsBlank ==
  ASSUME NEW w, NEW from \in Nat, NEW to \in Nat, NEW n \in Nat, from <= to, to < n,
         NEW comments, IsBlank(w, from, to, comments), IsGap(w, to, n, comments)
  PROVE  IsBlank(w, from, n, comments)
<1> DEFINE P == Gaps(w, from, to, comments)
           Q == Gaps(w, from, n, comments)
<1>1. PICK C : Cut(C, P, from, to)
  BY BlankIsCut
<1>2. P \subseteq Q
  BY DEF Gaps
<1>3. <<to, n>> \in Q
  BY DEF Gaps
<1> HIDE DEF P, Q
<1>4. Cut(C \cup {n}, Q, from, n)
  BY <1>1, <1>2, <1>3 DEF Cut
<1>5. n \in Reached(Q, from, n)
  BY <1>4, CutIsReached
<1> QED
  BY <1>5 DEF Q, IsBlank

-----------------------------------------------------------------------------
(* The body of a string                                                    *)

\* C holds the ends of the units between from and to.
Cuts(C, w, from, to) ==
  /\ C \subseteq from .. to /\ from \in C /\ to \in C
  /\ \A i \in C : i = to \/ \E j \in C : i < j /\ IsUnit(w, i, j)

LEMMA BodyIsCut ==
  ASSUME NEW w, NEW from \in Nat, NEW to \in Nat, from <= to, IsBody(w, from, to)
  PROVE  \E C : Cuts(C, w, from, to)
<1> DEFINE P == Units(w, from, to)
<1>1. \A i, j : <<i, j>> \in P => i < j /\ IsUnit(w, i, j)
  BY DEF Units
<1>2. to \in Reached(P, from, to) /\ from \in 0 .. to
  BY DEF IsBody
<1> HIDE DEF P
<1>3. PICK C : Cut(C, P, from, to)
  BY <1>1, <1>2, ReachedIsCut
<1>4. Cuts(C, w, from, to)
  BY <1>1, <1>3 DEF Cut, Cuts
<1> QED
  BY <1>4

LEMMA CutIsBody ==
  ASSUME NEW w, NEW from \in Nat, NEW to \in Nat, from <= to, NEW C, Cuts(C, w, from, to)
  PROVE  IsBody(w, from, to)
<1> DEFINE P == Units(w, from, to)
<1>1. \A i, j \in C : i < j /\ IsUnit(w, i, j) => <<i, j>> \in P
  BY DEF Units, Cuts
<1> HIDE DEF P
<1>2. Cut(C, P, from, to)
  BY <1>1 DEF Cut, Cuts
<1>3. to \in Reached(P, from, to)
  BY <1>2, CutIsReached
<1> QED
  BY <1>3 DEF P, IsBody

-----------------------------------------------------------------------------
(* Longer words                                                            *)

\* v begins with w.
Extends(v, w) ==
  /\ Len(w) \in Nat /\ Len(v) \in Nat
  /\ Len(w) <= Len(v)
  /\ \A k \in 1 .. Len(w) : v[k] = w[k]

\* The same unit in words that agree so far.
LEMMA SameUnit ==
  ASSUME NEW w, NEW v, NEW n \in Nat, \A k \in 1 .. n : v[k] = w[k],
         NEW i \in 0 .. n, NEW j \in 0 .. n, i < j, IsUnit(w, i, j)
  PROVE  IsUnit(v, i, j)
<1>1. \A k \in i + 1 .. j : k \in 1 .. n /\ v[k] = w[k]
  OBVIOUS
<1>2. CASE j = i + 1 /\ w[j] \in Plain
  BY <1>1, <1>2 DEF IsUnit
<1>3. CASE j = i + 2 /\ w[i + 1] = "backslash" /\ w[j] \in Escaped
  BY <1>1, <1>3 DEF IsUnit
<1>4. CASE /\ j = i + 6 /\ w[i + 1] = "backslash" /\ w[i + 2] = "u"
           /\ \A k \in i + 3 .. j : w[k] \in {"0", "1", "a", "e", "f"}
  BY <1>1, <1>4 DEF IsUnit
<1>5. CASE /\ w[i + 1] \in DOMAIN Tails /\ j = i + 1 + Tails[w[i + 1]]
           /\ \A k \in i + 2 .. j : w[k] = "cont"
  <2>1. i + 1 \in i + 1 .. j
    OBVIOUS
  <2>2. v[i + 1] = w[i + 1]
    BY <1>1, <2>1
  <2> QED
    BY <1>1, <1>5, <2>2 DEF IsUnit
<1> QED
  BY <1>2, <1>3, <1>4, <1>5 DEF IsUnit

LEMMA SameCuts ==
  ASSUME NEW w, NEW v, NEW to \in Nat, \A k \in 1 .. to : v[k] = w[k],
         NEW from \in 0 .. to, NEW C, Cuts(C, w, from, to)
  PROVE  Cuts(C, v, from, to)
<1>1. ASSUME NEW i \in C, NEW j \in C, i < j, IsUnit(w, i, j)
      PROVE  IsUnit(v, i, j)
  BY <1>1, SameUnit DEF Cuts
<1> QED
  BY <1>1 DEF Cuts

(* Where a unit begins, it is clear where it ends.                         *)
LEMMA UnitEnds ==
  ASSUME NEW w, NEW i \in Nat, NEW j, IsUnit(w, i, j)
  PROVE  j = i + (IF w[i + 1] \in DOMAIN Tails THEN 1 + Tails[w[i + 1]]
                  ELSE IF w[i + 1] # "backslash" THEN 1
                  ELSE IF w[i + 2] = "u" THEN 6 ELSE 2)
<1>1. DOMAIN Tails = {"lead2", "lead3", "lead4"} /\ \A c \in DOMAIN Tails : Tails[c] \in Nat
  BY DEF Tails
<1>2. PICK c : c = w[i + 1]
  OBVIOUS
<1>3. CASE j = i + 1 /\ w[j] \in Plain
  <2>1. c \notin DOMAIN Tails /\ c # "backslash"
    BY <1>1, <1>2, <1>3 DEF Plain
  <2> QED
    BY <1>2, <1>3, <2>1
<1>4. CASE j = i + 2 /\ w[i + 1] = "backslash" /\ w[j] \in Escaped
  <2>1. c \notin DOMAIN Tails /\ w[i + 2] # "u"
    BY <1>1, <1>2, <1>4 DEF Escaped
  <2> QED
    BY <1>2, <1>4, <2>1
<1>5. CASE j = i + 6 /\ w[i + 1] = "backslash" /\ w[i + 2] = "u"
  <2>1. c \notin DOMAIN Tails
    BY <1>1, <1>2, <1>5
  <2> QED
    BY <1>2, <1>5, <2>1
<1>6. CASE w[i + 1] \in DOMAIN Tails /\ j = i + 1 + Tails[w[i + 1]]
  BY <1>1, <1>2, <1>6
<1> QED
  BY <1>3, <1>4, <1>5, <1>6 DEF IsUnit

LEMMA OneUnit ==
  ASSUME NEW w, NEW i \in Nat, NEW j, NEW k, IsUnit(w, i, j), IsUnit(w, i, k)
  PROVE  j = k
  BY UnitEnds, Zenon

(* A body that begins where another one does passes the end of the shorter *)
(* one.                                                                    *)
LEMMA BodiesMeet ==
  ASSUME NEW w, NEW from \in Nat, NEW n \in Nat, NEW m \in Nat, from <= n, n <= m,
         NEW C, NEW D, Cuts(C, w, from, n), Cuts(D, w, from, m)
  PROVE  n \in D
<1> SUFFICES ASSUME n \notin D PROVE FALSE
  OBVIOUS
<1> DEFINE S == {k \in Nat : \E i \in C \cap D : k <= i}
<1>1. 0 \in S
  BY DEF Cuts
<1>2. ASSUME NEW k \in 0 .. n, k \in S
      PROVE  k + 1 \in S
  <2>1. PICK i \in C \cap D : k <= i
    BY <1>2
  <2>2. i \in from .. n /\ i # n
    BY DEF Cuts
  <2>3. PICK j \in C : i < j /\ IsUnit(w, i, j)
    BY <2>1, <2>2 DEF Cuts
  <2>4. PICK l \in D : i < l /\ IsUnit(w, i, l)
    BY <2>1, <2>2 DEF Cuts
  <2>5. j = l
    BY <2>2, <2>3, <2>4, OneUnit
  <2>6. j \in C \cap D /\ k + 1 <= j /\ k + 1 \in Nat
    BY <2>1, <2>2, <2>3, <2>4, <2>5 DEF Cuts
  <2> QED
    BY <2>6
<1>3. n + 1 \in S
  <2>1. n + 1 \in Nat /\ (n + 1) - 1 = n /\ n + 1 \in 0 .. n + 1
    OBVIOUS
  <2> HIDE DEF S
  <2> QED
    BY <1>1, <1>2, <2>1, InductionUpTo
<1> QED
  BY <1>3 DEF Cuts

-----------------------------------------------------------------------------
(* Numbers                                                                 *)

LEMMA NumeralsAreDigits == Numerals = Digits /\ Digits1 = {"1"} /\ Digits = {"0", "1"}
  BY DEF Numerals, Digits, Digits1

(* The parts of a number do not change when more characters follow.        *)
LEMMA SameFirst ==
  ASSUME NEW w \in Seq(Chars), NEW v \in Seq(Chars), Extends(v, w), w # <<>>
  PROVE  FirstDigit(v) = FirstDigit(w) /\ FirstDigit(w) \in {1, 2} /\ Len(w) >= 1
<1>1. Len(w) >= 1 /\ v # <<>>
  BY DEF Extends
<1>2. v[1] = w[1]
  BY <1>1 DEF Extends
<1> QED
  BY <1>1, <1>2 DEF FirstDigit

LEMMA SameInt ==
  ASSUME NEW w \in Seq(Chars), NEW v \in Seq(Chars), Extends(v, w), w # <<>>,
         NEW i \in 0 .. Len(w)
  PROVE  IntTo(v, i) <=> IntTo(w, i)
<1>1. PICK f \in {1, 2} : f = FirstDigit(v) /\ f = FirstDigit(w)
  BY SameFirst
<1>2. f <= i => v[f] = w[f] /\ \A k \in f .. i : v[k] = w[k]
  BY DEF Extends
<1> QED
  BY <1>1, <1>2 DEF IntTo, AreDigits

LEMMA SameFrac ==
  ASSUME NEW w, NEW v, Extends(v, w), NEW i \in 0 .. Len(w), NEW j \in i .. Len(w)
  PROVE  FracTo(v, i, j) <=> FracTo(w, i, j)
<1>1. \A k \in i + 1 .. j : v[k] = w[k]
  BY DEF Extends
<1> QED
  BY <1>1 DEF FracTo, AreDigits, Extends

LEMMA SameExp ==
  ASSUME NEW w, NEW v, Extends(v, w), NEW j \in 0 .. Len(w), NEW n \in j .. Len(w)
  PROVE  ExpTo(v, j, n) <=> ExpTo(w, j, n)
<1>1. \A k \in j + 1 .. n : v[k] = w[k]
  BY DEF Extends
<1> QED
  BY <1>1, SMTT(20) DEF ExpTo, AreDigits, Extends

LEMMA SameMantissa ==
  ASSUME NEW w \in Seq(Chars), NEW v \in Seq(Chars), Extends(v, w), w # <<>>,
         NEW j \in 0 .. Len(w), Mantissa(w, j)
  PROVE  Mantissa(v, j) /\ j >= 1
<1>1. PICK i \in 1 .. j : IntTo(w, i) /\ FracTo(w, i, j)
  BY DEF Mantissa
<1>2. IntTo(v, i) /\ FracTo(v, i, j)
  BY <1>1, SameInt, SameFrac DEF Extends
<1> QED
  BY <1>1, <1>2 DEF Mantissa

(* One more character.                                                     *)
LEMMA Appended ==
  ASSUME NEW w \in Seq(Chars), NEW c \in Chars
  PROVE  LET v == Append(w, c)
         IN  /\ v \in Seq(Chars) /\ v # <<>> /\ Len(v) = Len(w) + 1 /\ v[Len(w) + 1] = c
             /\ Extends(v, w)
  BY DEF Extends

LEMMA NumberGoesOn ==
  ASSUME NEW w, NEW c \in Chars, NEW place, NumberBegun(place, w),
         place \in {"minus", "zero", "int", "point", "frac", "exp", "expsign", "expdigits"},
         NumberGoes(place, c) # "stop"
  PROVE  NumberBegun(NumberGoes(place, c), Append(w, c))
<1>1. w \in Seq(Chars) /\ w # <<>>
  BY DEF NumberBegun
<1>2. PICK v : v = Append(w, c)
  OBVIOUS
<1>3. PICK n \in Nat : n = Len(w) /\ n >= 1
  BY <1>1
<1>4. v \in Seq(Chars) /\ v # <<>> /\ Len(v) = n + 1 /\ v[n + 1] = c /\ Extends(v, w)
  BY <1>1, <1>2, <1>3, Appended
<1>5. /\ FirstDigit(v) = FirstDigit(w) /\ FirstDigit(w) \in {1, 2}
      /\ FirstDigit(w) <= n => v[FirstDigit(w)] = w[FirstDigit(w)]
  BY <1>1, <1>3, <1>4, SameFirst DEF Extends
<1>6. \A i \in 0 .. n : IntTo(v, i) <=> IntTo(w, i)
  BY <1>1, <1>3, <1>4, SameInt
<1>7. \A j \in 0 .. n : Mantissa(w, j) => Mantissa(v, j) /\ j >= 1
  BY <1>1, <1>3, <1>4, SameMantissa
<1>8. \A i \in 0 .. n : IntTo(w, i) => FirstDigit(w) <= i
  BY <1>5 DEF IntTo, AreDigits
<1>9. \A i \in 1 .. n : IntTo(v, i) => Mantissa(v, i)
  BY DEF Mantissa, FracTo
<1>10. PICK to : to = NumberGoes(place, c)
  OBVIOUS
<1>11. CASE place = "minus"
  <2>1. FirstDigit(v) = 2 /\ n = 1
    BY <1>3, <1>4, <1>5, <1>11 DEF NumberBegun, FirstDigit
  <2>2. to \in {"zero", "int"} /\ c \in Numerals /\ (to = "zero" <=> c = "0")
    BY <1>10, <1>11, NumeralsAreDigits DEF NumberGoes
  <2>3. IntTo(v, n + 1)
    BY <1>4, <2>1, <2>2 DEF IntTo, AreDigits
  <2> QED
    BY <1>2, <1>4, <1>10, <2>1, <2>2, <2>3 DEF NumberBegun
<1>12. CASE place \in {"zero", "int"}
  <2>1. IntTo(w, n) /\ IntTo(v, n)
    BY <1>3, <1>6, <1>12 DEF NumberBegun
  <2>2. to \in {"point", "exp", "int"}
    BY <1>10, <1>12 DEF NumberGoes
  <2>3. CASE to = "point"
    <3>1. c = "."
      BY <1>10, <1>12, <2>3 DEF NumberGoes
    <3> QED
      BY <1>2, <1>3, <1>4, <1>10, <2>1, <2>3, <3>1 DEF NumberBegun
  <2>4. CASE to = "exp"
    <3>1. c = "e"
      BY <1>10, <1>12, <2>4 DEF NumberGoes
    <3>2. Mantissa(v, n)
      BY <1>3, <1>9, <2>1
    <3> QED
      BY <1>2, <1>3, <1>4, <1>10, <2>4, <3>1, <3>2 DEF NumberBegun
  <2>5. CASE to = "int"
    <3>1. place = "int" /\ c \in Numerals
      BY <1>10, <1>12, <2>5, NumeralsAreDigits DEF NumberGoes
    <3>2. w[FirstDigit(w)] # "0" /\ FirstDigit(w) <= n
      BY <1>3, <1>8, <2>1, <3>1 DEF NumberBegun
    <3>3. IntTo(v, n + 1)
      BY <1>3, <1>4, <1>5, <2>1, <3>1, <3>2 DEF IntTo, AreDigits
    <3> QED
      BY <1>2, <1>3, <1>4, <1>5, <1>10, <2>5, <3>2, <3>3 DEF NumberBegun
  <2> QED
    BY <2>2, <2>3, <2>4, <2>5
<1>13. CASE place = "point"
  <2>1. to = "frac" /\ c \in Numerals
    BY <1>10, <1>13, NumeralsAreDigits DEF NumberGoes
  <2>2. IntTo(v, n - 1) /\ n - 1 \in 1 .. n
    BY <1>3, <1>5, <1>6, <1>8, <1>13 DEF NumberBegun
  <2>3. v[n] = "."
    BY <1>3, <1>4, <1>13 DEF NumberBegun, Extends
  <2>4. FracTo(v, n - 1, n + 1)
    BY <1>3, <1>4, <2>1, <2>3 DEF FracTo, AreDigits
  <2> QED
    BY <1>2, <1>3, <1>4, <1>10, <2>1, <2>2, <2>4 DEF NumberBegun
<1>14. CASE place = "frac"
  <2>1. PICK i \in 1 .. n - 1 : IntTo(w, i) /\ FracTo(w, i, n)
    BY <1>3, <1>14 DEF NumberBegun
  <2>2. IntTo(v, i) /\ FracTo(v, i, n)
    BY <1>3, <1>4, <1>6, <2>1, SameFrac
  <2>3. to \in {"frac", "exp"}
    BY <1>10, <1>14 DEF NumberGoes
  <2>4. CASE to = "frac"
    <3>1. c \in Numerals
      BY <1>10, <1>14, <2>4, NumeralsAreDigits DEF NumberGoes
    <3>2. FracTo(v, i, n + 1)
      BY <1>3, <1>4, <2>2, <3>1 DEF FracTo, AreDigits
    <3> QED
      BY <1>2, <1>3, <1>4, <1>10, <2>2, <2>4, <3>2 DEF NumberBegun
  <2>5. CASE to = "exp"
    <3>1. c = "e"
      BY <1>10, <1>14, <2>5 DEF NumberGoes
    <3>2. Mantissa(v, n)
      BY <1>3, <2>2 DEF Mantissa
    <3> QED
      BY <1>2, <1>3, <1>4, <1>10, <2>5, <3>1, <3>2 DEF NumberBegun
  <2> QED
    BY <2>3, <2>4, <2>5
<1>15. CASE place = "exp"
  <2>1. Mantissa(v, n - 1) /\ n - 1 \in 1 .. n
    BY <1>3, <1>7, <1>15 DEF NumberBegun
  <2>2. v[n] = "e"
    BY <1>3, <1>4, <1>15 DEF NumberBegun, Extends
  <2>3. CASE to = "expsign"
    <3>1. c \in {"+", "-"}
      BY <1>10, <1>15, <2>3 DEF NumberGoes
    <3> QED
      BY <1>2, <1>3, <1>4, <1>10, <2>1, <2>2, <2>3, <3>1 DEF NumberBegun
  <2>4. CASE to # "expsign"
    <3>1. to = "expdigits" /\ c \in Numerals
      BY <1>10, <1>15, <2>4, NumeralsAreDigits DEF NumberGoes
    <3>2. ExpTo(v, n - 1, n + 1)
      BY <1>3, <1>4, <2>2, <3>1 DEF ExpTo, AreDigits
    <3> QED
      BY <1>2, <1>3, <1>4, <1>10, <2>1, <3>1, <3>2 DEF NumberBegun
  <2> QED
    BY <2>3, <2>4
<1>16. CASE place = "expsign"
  <2>1. to = "expdigits" /\ c \in Numerals
    BY <1>10, <1>16, NumeralsAreDigits DEF NumberGoes
  <2>2. Mantissa(v, n - 2) /\ n - 2 \in 1 .. n
    <3>1. Mantissa(w, n - 2)
      BY <1>3, <1>16 DEF NumberBegun
    <3>2. n - 2 \in 1 .. n
      BY <1>3, <3>1 DEF Mantissa
    <3> QED
      BY <1>7, <3>1, <3>2
  <2>3. v[n - 1] = "e" /\ v[n] \in {"+", "-"}
    <3>1. w[n - 1] = "e" /\ w[n] \in {"+", "-"} /\ n - 1 \in 1 .. n
      BY <1>3, <1>16, <2>2 DEF NumberBegun
    <3> QED
      BY <1>3, <1>4, <3>1 DEF Extends
  <2>4. ExpTo(v, n - 2, n + 1)
    BY <1>3, <1>4, <2>1, <2>2, <2>3 DEF ExpTo, AreDigits
  <2> QED
    BY <1>2, <1>3, <1>4, <1>10, <2>1, <2>2, <2>4 DEF NumberBegun
<1>17. CASE place = "expdigits"
  <2>1. to = "expdigits" /\ c \in Numerals
    BY <1>10, <1>17, NumeralsAreDigits DEF NumberGoes
  <2>2. PICK j \in 1 .. n - 1 : Mantissa(w, j) /\ ExpTo(w, j, n)
    BY <1>3, <1>17 DEF NumberBegun
  <2>3. Mantissa(v, j) /\ ExpTo(v, j, n)
    BY <1>3, <1>4, <1>7, <2>2, SameExp
  <2>4. ExpTo(v, j, n + 1)
    BY <1>3, <1>4, <2>1, <2>3 DEF ExpTo, AreDigits
  <2> QED
    BY <1>2, <1>3, <1>4, <1>10, <2>1, <2>3, <2>4 DEF NumberBegun
<1> QED
  BY <1>11, <1>12, <1>13, <1>14, <1>15, <1>16, <1>17

LEMMA NumberBegins ==
  ASSUME NEW c \in Digits \cup {"-"}
  PROVE  NumberGoes("number", c) # "stop" /\ NumberBegun(NumberGoes("number", c), <<c>>)
<1>1. c \in Chars /\ "-" \notin Digits
  BY DEF Chars, HexChars, Digits, Digits1
<1>2. PICK v : v = <<c>>
  OBVIOUS
<1>3. v \in Seq(Chars) /\ v # <<>> /\ Len(v) = 1 /\ v[1] = c
  BY <1>1, <1>2
<1>4. PICK to : to = NumberGoes("number", c)
  OBVIOUS
<1>5. CASE c = "-"
  <2>1. to = "minus"
    BY <1>4, <1>5, NumeralsAreDigits DEF NumberGoes
  <2> QED
    BY <1>2, <1>3, <1>4, <1>5, <2>1 DEF NumberBegun
<1>6. CASE c # "-"
  <2>1. to \in {"zero", "int"} /\ c \in Numerals /\ (to = "zero" <=> c = "0")
    BY <1>1, <1>4, <1>6, NumeralsAreDigits DEF NumberGoes
  <2>2. FirstDigit(v) = 1
    BY <1>3, <1>6 DEF FirstDigit
  <2>3. IntTo(v, 1)
    BY <1>3, <2>1, <2>2 DEF IntTo, AreDigits
  <2> QED
    BY <1>2, <1>3, <1>4, <2>1, <2>2, <2>3 DEF NumberBegun
<1> QED
  BY <1>5, <1>6

(* Where yajl_lex_number stops, the word is whole, or misses a digit.      *)
LEMMA IntegerIsWhole ==
  ASSUME NEW w, NEW place \in {"zero", "int"}, NumberBegun(place, w)
  PROVE  IsInt(w)
  BY DEF NumberBegun, IsInt

LEMMA IntIsReal ==
  ASSUME NEW w \in Seq(Chars), IsInt(w)
  PROVE  IsReal(w) /\ w # <<>>
<1>1. PICK n \in Nat : n = Len(w)
  OBVIOUS
<1>2. FirstDigit(w) \in {1, 2}
  BY DEF FirstDigit
<1>3. IntTo(w, n) /\ n \in 1 .. n
  BY <1>1, <1>2 DEF IsInt, IntTo, AreDigits
<1>4. FracTo(w, n, n) /\ ExpTo(w, n, n)
  BY DEF FracTo, ExpTo
<1> QED
  BY <1>1, <1>3, <1>4 DEF IsReal

LEMMA DoubleIsWhole ==
  ASSUME NEW w, NEW place \in {"frac", "expdigits"}, NumberBegun(place, w)
  PROVE  IsReal(w) /\ ~IsInt(w)
<1>1. PICK n \in Nat : n = Len(w) /\ n >= 1
  BY DEF NumberBegun
<1>2. FirstDigit(w) \in {1, 2}
  BY DEF FirstDigit
<1>3. PICK i \in 1 .. n, j \in 1 .. n :
        /\ i <= j /\ IntTo(w, i) /\ FracTo(w, i, j) /\ ExpTo(w, j, n)
        /\ i < n
  <2>1. CASE place = "frac"
    <3>1. PICK i \in 1 .. n - 1 : IntTo(w, i) /\ FracTo(w, i, n)
      BY <1>1, <2>1 DEF NumberBegun
    <3>2. ExpTo(w, n, n)
      BY DEF ExpTo
    <3> QED
      BY <1>1, <3>1, <3>2
  <2>2. CASE place = "expdigits"
    <3>1. PICK j \in 1 .. n - 1 : Mantissa(w, j) /\ ExpTo(w, j, n)
      BY <1>1, <2>2 DEF NumberBegun
    <3>2. PICK i \in 1 .. j : IntTo(w, i) /\ FracTo(w, i, j)
      BY <3>1 DEF Mantissa
    <3> QED
      BY <1>1, <3>1, <3>2
  <2> QED
    BY <2>1, <2>2
<1>4. IsReal(w)
  BY <1>1, <1>3 DEF IsReal
<1>5. w[i + 1] \in {".", "e"}
  BY <1>1, <1>3 DEF FracTo, ExpTo
<1>6. FirstDigit(w) <= i
  BY <1>2, <1>3 DEF IntTo, AreDigits
<1>7. w[i + 1] \notin Numerals
  BY <1>5 DEF Numerals
<1>8. ~IntTo(w, n)
  BY <1>1, <1>2, <1>3, <1>6, <1>7 DEF IntTo, AreDigits
<1> QED
  BY <1>1, <1>4, <1>8 DEF IsInt

(* The integer of a number ends where its digits end.                      *)
LEMMA IntEnds ==
  ASSUME NEW v, NEW n \in Nat, NEW a \in 1 .. n, FirstDigit(v) \in {1, 2}, IntTo(v, a),
         a < n => v[a + 1] \notin Numerals \/ v[FirstDigit(v)] = "0",
         NEW i \in 1 .. n, NEW j \in i .. n, IntTo(v, i), FracTo(v, i, j), ExpTo(v, j, n)
  PROVE  i = a
<1>1. FirstDigit(v) <= i /\ FirstDigit(v) <= a
  BY DEF IntTo, AreDigits
<1>2. CASE i < a
  <2>1. v[i + 1] \in Numerals
    BY <1>1, <1>2 DEF IntTo, AreDigits
  <2>2. v[i + 1] \in {".", "e"}
    BY <1>2 DEF FracTo, ExpTo
  <2> QED
    BY <2>1, <2>2 DEF Numerals
<1>3. CASE a < i
  <2>1. v[a + 1] \in Numerals
    BY <1>1, <1>3 DEF IntTo, AreDigits
  <2>2. v[FirstDigit(v)] = "0"
    BY <1>3, <2>1
  <2> QED
    BY <1>3, <2>2 DEF IntTo
<1> QED
  BY <1>2, <1>3

(* The fraction too.                                                       *)
LEMMA FracEnds ==
  ASSUME NEW v, NEW n \in Nat, NEW a \in 1 .. n, NEW b \in a .. n, FracTo(v, a, b), a < b,
         b < n => v[b + 1] \notin Numerals,
         NEW j \in a .. n, FracTo(v, a, j), ExpTo(v, j, n)
  PROVE  j = b
<1>1. v[a + 1] = "." /\ a + 2 <= b
  BY DEF FracTo, AreDigits
<1>2. a < j
  BY <1>1 DEF ExpTo
<1>3. a + 2 <= j
  BY <1>2 DEF FracTo, AreDigits
<1>4. CASE j < b
  <2>1. v[j + 1] \in Numerals
    BY <1>3, <1>4 DEF FracTo, AreDigits
  <2>2. v[j + 1] = "e"
    BY <1>4 DEF ExpTo
  <2> QED
    BY <2>1, <2>2 DEF Numerals
<1>5. CASE b < j
  <2>1. v[b + 1] \in Numerals
    BY <1>1, <1>5 DEF FracTo, AreDigits
  <2> QED
    BY <1>5, <2>1
<1> QED
  BY <1>4, <1>5

LEMMA Stops ==
  ASSUME NEW c, NEW place, NumberGoes(place, c) = "stop"
  PROVE  /\ place \in {"minus", "int", "point", "frac", "exp", "expsign", "expdigits"}
              => c \notin Numerals
         /\ place \in {"zero", "int"} => c # "."
         /\ place \in {"zero", "int", "frac"} => c # "e"
         /\ place = "exp" => c \notin {"+", "-"}
<1>1. Numerals = Digits /\ Digits = Digits1 \cup {"0"}
  BY DEF Numerals, Digits, Digits1
<1> QED
  BY <1>1 DEF NumberGoes

NumberEnds == {"zero", "int", "frac", "expdigits"}

\* A whole number v begins with w, and goes on, if it does, with a character
\* at which yajl_lex_number stops.
LEMMA NumberIsStuck ==
  ASSUME NEW w, NEW v \in Seq(Chars), NEW place, NumberBegun(place, w), Extends(v, w),
         place \in NumberEnds \cup {"minus", "point", "exp", "expsign"},
         Len(w) < Len(v) => NumberGoes(place, v[Len(w) + 1]) = "stop",
         IsReal(v)
  PROVE  Len(v) = Len(w) /\ place \in NumberEnds
<1>1. w \in Seq(Chars) /\ w # <<>>
  BY DEF NumberBegun
<1>2. PICK m \in Nat : m = Len(w) /\ m >= 1
  BY <1>1
<1>3. PICK n \in Nat : n = Len(v) /\ m <= n
  BY <1>2 DEF Extends
<1>4. FirstDigit(v) = FirstDigit(w) /\ FirstDigit(v) \in {1, 2}
  BY <1>1, SameFirst
<1>5. PICK i \in 1 .. n, j \in 1 .. n :
        i <= j /\ IntTo(v, i) /\ FracTo(v, i, j) /\ ExpTo(v, j, n)
  BY <1>3 DEF IsReal
<1>6. \A k \in 1 .. m : v[k] = w[k]
  BY <1>2 DEF Extends
<1>7. PICK c : c = v[m + 1]
  OBVIOUS
<1>8. m < n => NumberGoes(place, c) = "stop"
  BY <1>2, <1>3, <1>7
<1>9. \A k \in 0 .. m : IntTo(v, k) <=> IntTo(w, k)
  BY <1>1, <1>2, SameInt
<1>10. \A k \in 0 .. m : \A l \in k .. m : FracTo(v, k, l) <=> FracTo(w, k, l)
  BY <1>2, SameFrac
<1>11. \A k \in 0 .. m : IntTo(w, k) => k \in 1 .. m
  BY <1>4 DEF IntTo, AreDigits
<1>12. CASE place = "minus"
  <2>1. m = 1 /\ w[1] = "-"
    BY <1>2, <1>12 DEF NumberBegun
  <2>2. FirstDigit(v) = 2
    BY <1>1, <1>4, <2>1 DEF FirstDigit
  <2>3. v[2] \in Numerals /\ 2 <= n
    BY <1>5, <2>2 DEF IntTo, AreDigits
  <2> QED
    BY <1>7, <1>8, <1>12, <2>1, <2>3, Stops
<1>13. CASE place \in {"zero", "int"}
  <2>1. IntTo(v, m)
    BY <1>2, <1>9, <1>13 DEF NumberBegun
  <2>2. m < n => c \notin Numerals \/ v[FirstDigit(v)] = "0"
    <3>1. CASE place = "zero"
      <4>1. w[FirstDigit(w)] = "0" /\ IntTo(w, m)
        BY <1>2, <3>1 DEF NumberBegun
      <4>2. FirstDigit(w) \in 1 .. m
        BY <1>4, <4>1 DEF IntTo, AreDigits
      <4> QED
        BY <1>4, <1>6, <4>1, <4>2
    <3>2. CASE place = "int"
      BY <1>8, <3>2, Stops
    <3> QED
      BY <1>13, <3>1, <3>2
  <2>3. i = m
    <3>1. m < n => v[m + 1] \notin Numerals \/ v[FirstDigit(v)] = "0"
      BY <1>7, <2>2
    <3>2. m \in 1 .. n /\ j \in i .. n
      BY <1>2, <1>3, <1>5
    <3> QED
      BY <1>3, <1>4, <1>5, <2>1, <3>1, <3>2, IntEnds, Zenon
  <2>4. m = n
    <3> SUFFICES ASSUME m < n PROVE FALSE
      BY <1>3
    <3>1. c # "." /\ c # "e"
      BY <1>8, <1>13, Stops
    <3> QED
      BY <1>5, <1>7, <2>3, <3>1 DEF FracTo, ExpTo
  <2> QED
    BY <1>2, <1>3, <1>13, <2>4 DEF NumberEnds
<1>14. CASE place = "point"
  <2>1. IntTo(w, m - 1) /\ w[m] = "."
    BY <1>2, <1>14 DEF NumberBegun
  <2>2. m - 1 \in 1 .. m /\ IntTo(v, m - 1) /\ v[m] = "."
    BY <1>2, <1>6, <1>9, <1>11, <2>1
  <2>3. i = m - 1
    <3>1. v[(m - 1) + 1] \notin Numerals
      BY <2>2 DEF Numerals
    <3> QED
      BY <1>3, <1>4, <1>5, <2>2, <3>1, IntEnds
  <2>4. i < j
    BY <1>2, <1>3, <1>5, <2>2, <2>3 DEF ExpTo
  <2>5. c \in Numerals /\ m < n
    BY <1>5, <1>7, <2>3, <2>4 DEF FracTo, AreDigits
  <2> QED
    BY <1>8, <1>14, <2>5, Stops
<1>15. CASE place = "frac"
  <2>1. PICK a \in 1 .. m - 1 : IntTo(w, a) /\ FracTo(w, a, m)
    BY <1>2, <1>15 DEF NumberBegun
  <2>2. IntTo(v, a) /\ FracTo(v, a, m) /\ v[a + 1] = "."
    BY <1>9, <1>10, <2>1 DEF FracTo
  <2>3. i = a
    <3>1. v[a + 1] \notin Numerals
      BY <2>2 DEF Numerals
    <3> QED
      BY <1>3, <1>4, <1>5, <2>2, <3>1, IntEnds
  <2>4. j = m
    BY <1>3, <1>5, <1>7, <1>8, <1>15, <2>2, <2>3, FracEnds, Stops
  <2>5. m = n
    BY <1>3, <1>5, <1>7, <1>8, <1>15, <2>4, Stops DEF ExpTo
  <2> QED
    BY <1>2, <1>3, <1>15, <2>5 DEF NumberEnds
<1>16. ASSUME NEW b \in 1 .. m - 1, Mantissa(w, b), w[b + 1] = "e"
       PROVE  j = b /\ v[b + 1] = "e"
  <2>1. PICK a \in 1 .. b : IntTo(w, a) /\ FracTo(w, a, b)
    BY <1>16 DEF Mantissa
  <2>2. IntTo(v, a) /\ FracTo(v, a, b) /\ v[b + 1] = "e"
    BY <1>6, <1>9, <1>10, <1>16, <2>1
  <2>3. v[a + 1] \in {".", "e"}
    BY <2>2 DEF FracTo
  <2>4. i = a
    <3>1. v[a + 1] \notin Numerals
      BY <2>3 DEF Numerals
    <3> QED
      BY <1>3, <1>4, <1>5, <2>2, <3>1, IntEnds
  <2>5. CASE a = b
    BY <1>5, <2>2, <2>4, <2>5 DEF FracTo
  <2>6. CASE a < b
    <3>1. v[b + 1] \notin Numerals
      BY <2>2 DEF Numerals
    <3> QED
      BY <1>3, <1>5, <2>2, <2>4, <2>6, <3>1, FracEnds
  <2> QED
    BY <2>2, <2>5, <2>6
<1>17. CASE place = "exp"
  <2>1. Mantissa(w, m - 1) /\ w[m] = "e"
    BY <1>2, <1>17 DEF NumberBegun
  <2>2. m - 1 \in 1 .. m - 1
    BY <1>2, <2>1 DEF Mantissa
  <2>3. j = m - 1
    BY <1>16, <2>1, <2>2
  <2>4. m < n /\ c \in Numerals \cup {"+", "-"}
    BY <1>2, <1>3, <1>5, <1>7, <2>3 DEF ExpTo, AreDigits
  <2> QED
    BY <1>8, <1>17, <2>4, Stops
<1>18. CASE place = "expsign"
  <2>1. Mantissa(w, m - 2) /\ w[m - 1] = "e" /\ w[m] \in {"+", "-"}
    BY <1>2, <1>18 DEF NumberBegun
  <2>2. m - 2 \in 1 .. m - 1
    BY <1>2, <2>1 DEF Mantissa
  <2>3. j = m - 2
    BY <1>16, <2>1, <2>2
  <2>4. v[m] \notin Numerals
    BY <1>2, <1>6, <2>1 DEF Numerals
  <2>5. m < n /\ c \in Numerals
    BY <1>2, <1>3, <1>5, <1>7, <2>3, <2>4 DEF ExpTo, AreDigits
  <2> QED
    BY <1>8, <1>18, <2>5, Stops
<1>19. CASE place = "expdigits"
  <2>1. PICK b \in 1 .. m - 1 : Mantissa(w, b) /\ ExpTo(w, b, m)
    BY <1>2, <1>19 DEF NumberBegun
  <2>2. w[b + 1] = "e"
    BY <2>1 DEF ExpTo
  <2>3. j = b
    BY <1>16, <2>1, <2>2
  <2>4. ExpTo(v, b, m)
    BY <1>2, <2>1, SameExp
  <2>5. m = n
    <3> SUFFICES ASSUME m < n PROVE FALSE
      BY <1>3
    <3>1. v[m + 1] \notin Numerals
      BY <1>7, <1>8, <1>19, Stops
    <3>2. v[b + 2] \in Numerals => ~(v[b + 2] \in {"+", "-"})
      BY DEF Numerals
    <3> QED
      BY <1>5, <2>3, <2>4, <3>1, <3>2 DEF ExpTo, AreDigits
  <2> QED
    BY <1>2, <1>3, <1>19, <2>5 DEF NumberEnds
<1> QED
  BY <1>12, <1>13, <1>14, <1>15, <1>17, <1>18, <1>19 DEF NumberEnds

-----------------------------------------------------------------------------
(* Strings                                                                 *)

LEMMA LeadsAreTails ==
  /\ DOMAIN Tails = Leads
  /\ Tails["lead2"] = 1 /\ Tails["lead3"] = 2 /\ Tails["lead4"] = 3
  /\ \A c \in Leads : Tails[c] \in 1 .. 3
  BY DEF Tails, Leads

LEMMA UnitBegins ==
  ASSUME NEW w, NEW i \in Nat, NEW j, IsUnit(w, i, j)
  PROVE  w[i + 1] \notin BadChars \cup {"quote", "cont"}
<1>1. \/ w[i + 1] \in Plain \cup {"backslash"}
      \/ w[i + 1] \in DOMAIN Tails
  BY DEF IsUnit
<1> QED
  BY <1>1, LeadsAreTails DEF Plain, Leads, BadChars

LEMMA EscapeUnit ==
  ASSUME NEW w, NEW i \in Nat, NEW j, IsUnit(w, i, j), w[i + 1] = "backslash"
  PROVE  \/ j = i + 2 /\ w[i + 2] \in Escaped
         \/ /\ j = i + 6 /\ w[i + 2] = "u"
            /\ \A k \in i + 3 .. j : w[k] \in HexChars
<1>1. w[i + 1] \notin Plain /\ w[i + 1] \notin DOMAIN Tails
  BY LeadsAreTails DEF Plain, Leads
<1>2. {"0", "1", "a", "e", "f"} = HexChars
  BY DEF HexChars, Digits, Digits1
<1>3. CASE j = i + 1 /\ w[j] \in Plain
  BY <1>1, <1>3
<1>4. CASE j = i + 2 /\ w[j] \in Escaped
  BY <1>4
<1>5. CASE /\ j = i + 6 /\ w[i + 2] = "u"
           /\ \A k \in i + 3 .. j : w[k] \in {"0", "1", "a", "e", "f"}
  BY <1>2, <1>5
<1> QED
  BY <1>1, <1>3, <1>4, <1>5 DEF IsUnit

LEMMA LeadUnit ==
  ASSUME NEW w, NEW i \in Nat, NEW j, IsUnit(w, i, j), w[i + 1] \in Leads
  PROVE  j = i + 1 + Tails[w[i + 1]] /\ \A k \in i + 2 .. j : w[k] = "cont"
<1>1. w[i + 1] \notin Plain /\ w[i + 1] # "backslash"
  BY DEF Plain, Leads
<1>2. CASE j = i + 1 /\ w[j] \in Plain
  BY <1>1, <1>2
<1>3. CASE j = i + 1 + Tails[w[i + 1]] /\ \A k \in i + 2 .. j : w[k] = "cont"
  BY <1>3
<1> QED
  BY <1>1, <1>2, <1>3 DEF IsUnit

LEMMA SameBody ==
  ASSUME NEW w, NEW v, Extends(v, w), NEW b \in 1 .. Len(w), IsBody(w, 1, b)
  PROVE  IsBody(v, 1, b)
<1>1. Len(w) \in Nat /\ \A k \in 1 .. b : v[k] = w[k]
  BY DEF Extends
<1>2. b \in Nat /\ 1 <= b
  BY <1>1
<1>3. PICK C : Cuts(C, w, 1, b)
  BY <1>2, BodyIsCut
<1>4. Cuts(C, v, 1, b)
  BY <1>1, <1>2, <1>3, SameCuts
<1> QED
  BY <1>2, <1>4, CutIsBody

\* A unit more.
LEMMA BodyGrows ==
  ASSUME NEW w, NEW b \in Nat, NEW n \in Nat, 1 <= b, b < n, IsBody(w, 1, b), IsUnit(w, b, n)
  PROVE  IsBody(w, 1, n)
<1>1. PICK C : Cuts(C, w, 1, b)
  BY BodyIsCut
<1>2. PICK D : D = C \cup {n}
  OBVIOUS
<1>3. D \subseteq 1 .. n /\ 1 \in D /\ n \in D
  BY <1>1, <1>2 DEF Cuts
<1>4. ASSUME NEW i \in D
      PROVE  i = n \/ \E j \in D : i < j /\ IsUnit(w, i, j)
  <2>1. CASE i = b
    BY <1>2, <2>1
  <2>2. CASE i # b /\ i # n
    <3>1. PICK j \in C : i < j /\ IsUnit(w, i, j)
      BY <1>1, <1>2, <2>2 DEF Cuts
    <3> QED
      BY <1>2, <3>1
  <2> QED
    BY <2>1, <2>2
<1>5. Cuts(D, w, 1, n)
  BY <1>3, <1>4 DEF Cuts
<1> QED
  BY <1>5, CutIsBody

(* Behind the first units of a string, it ends or the next unit begins.    *)
LEMMA StringGoesOn ==
  ASSUME NEW v \in Seq(Chars), IsQuoted(v), NEW b \in 1 .. Len(v), IsBody(v, 1, b)
  PROVE  /\ b < Len(v)
         /\ \/ Len(v) = b + 1 /\ v[b + 1] = "quote"
            \/ \E j \in Nat : b < j /\ j < Len(v) /\ IsUnit(v, b, j)
<1>1. PICK n \in Nat : Len(v) = n + 1 /\ 1 <= n
  <2>1. Len(v) \in Nat /\ Len(v) > 1
    BY DEF IsQuoted
  <2>2. Len(v) - 1 \in Nat /\ 1 <= Len(v) - 1 /\ Len(v) = (Len(v) - 1) + 1
    BY <2>1
  <2> QED
    BY <2>2
<1>2. v[n + 1] = "quote" /\ IsBody(v, 1, n)
  <2>1. Len(v) - 1 = n
    BY <1>1
  <2> QED
    BY <1>1, <2>1 DEF IsQuoted
<1>3. b \in Nat /\ 1 <= b /\ b <= n + 1
  BY <1>1
<1>4. PICK C : Cuts(C, v, 1, b)
  BY <1>3, BodyIsCut
<1>5. PICK D : Cuts(D, v, 1, n)
  BY <1>1, <1>2, BodyIsCut
<1>6. b # n + 1
  <2> SUFFICES ASSUME b = n + 1
               PROVE  FALSE
    OBVIOUS
  <2>1. n <= b /\ n # b
    BY <1>1, <1>3
  <2>2. n \in C
    BY <1>1, <1>3, <1>4, <1>5, <2>1, BodiesMeet
  <2>3. PICK j \in C : n < j /\ IsUnit(v, n, j)
    BY <1>4, <2>1, <2>2 DEF Cuts
  <2> QED
    BY <1>1, <1>2, <2>3, UnitBegins
<1>7. b <= n
  BY <1>1, <1>3, <1>6
<1>8. b \in D
  BY <1>1, <1>3, <1>4, <1>5, <1>7, BodiesMeet
<1>9. CASE b = n
  BY <1>1, <1>2, <1>9
<1>10. CASE b # n
  <2>1. PICK j \in D : b < j /\ IsUnit(v, b, j)
    BY <1>5, <1>8, <1>10 DEF Cuts
  <2>2. j \in 1 .. n
    BY <1>5, <2>1 DEF Cuts
  <2> QED
    BY <1>1, <1>7, <1>10, <2>1, <2>2
<1> QED
  BY <1>9, <1>10

LEMMA QuotedIsWhole ==
  ASSUME NEW w \in Seq(Chars), NEW v \in Seq(Chars), Extends(v, w), IsQuoted(w), IsQuoted(v)
  PROVE  Len(v) = Len(w)
<1>1. PICK b \in Nat : Len(w) = b + 1 /\ 1 <= b /\ w[b + 1] = "quote" /\ IsBody(w, 1, b)
  <2>1. Len(w) \in Nat /\ Len(w) > 1
    BY DEF IsQuoted
  <2>2. PICK b \in Nat : b = Len(w) - 1 /\ 1 <= b
    BY <2>1
  <2>3. Len(w) = b + 1
    BY <2>1, <2>2
  <2> QED
    BY <2>2, <2>3 DEF IsQuoted
<1>2. Len(v) \in Nat /\ b + 1 <= Len(v) /\ v[b + 1] = "quote"
  BY <1>1 DEF Extends
<1>3. IsBody(v, 1, b)
  BY <1>1, SameBody
<1>4. ~ \E j \in Nat : b < j /\ j < Len(v) /\ IsUnit(v, b, j)
  BY <1>1, <1>2, UnitBegins
<1>5. b \in 1 .. Len(v)
  BY <1>1, <1>2
<1>6. Len(v) = b + 1
  BY <1>3, <1>4, <1>5, StringGoesOn
<1> QED
  BY <1>1, <1>6

\* What leads on from a place in a string, the end of the string included.
Accepted(s) ==
  CASE s.at = "string" -> Chars \ (BadChars \cup {"cont"})
    [] s.at = "escape" -> EscChars \cup {"u"}
    [] s.at = "hex"    -> HexChars
    [] s.at = "utf8"   -> {"cont"}

LEMMA StringIsStuck ==
  ASSUME NEW w \in Seq(Chars), NEW v \in Seq(Chars), Extends(v, w), IsQuoted(v),
         NEW s, s.at \in StringPlaces, StringBegun(s, w)
  PROVE  Len(w) < Len(v) /\ v[Len(w) + 1] \in Accepted(s)
<1>1. PICK n \in Nat : n = Len(w)
  OBVIOUS
<1>2. PICK m \in Nat : m = Len(v)
  OBVIOUS
<1>3. n <= m /\ \A k \in 1 .. n : v[k] = w[k]
  BY <1>1, <1>2 DEF Extends
<1>4. PICK b \in 1 .. n : IsBody(w, 1, b) /\ UnitBegun(s, w, b)
  BY <1>1 DEF StringBegun
<1>5. IsBody(v, 1, b)
  BY <1>1, <1>4, SameBody
<1>6. b \in 1 .. m /\ b \in Nat
  BY <1>3, <1>4
<1>7. /\ b < m
      /\ (m = b + 1 /\ v[b + 1] = "quote") \/ \E j \in Nat : b < j /\ j < m /\ IsUnit(v, b, j)
  BY <1>2, <1>5, <1>6, StringGoesOn
<1>8. \A k \in 1 .. m : v[k] \in Chars
  BY <1>2
<1>9. CASE s.at = "string"
  <2>1. n = b
    BY <1>1, <1>4, <1>9 DEF UnitBegun
  <2>2. v[b + 1] \notin BadChars \cup {"cont"}
    BY <1>6, <1>7, UnitBegins DEF BadChars
  <2>3. v[b + 1] \in Chars
    BY <1>6, <1>7, <1>8
  <2> QED
    BY <1>1, <1>2, <1>7, <1>9, <2>1, <2>2, <2>3 DEF Accepted
<1>10. CASE s.at = "escape"
  <2>1. n = b + 1 /\ v[b + 1] = "backslash"
    BY <1>1, <1>3, <1>4, <1>10 DEF UnitBegun
  <2>2. PICK j \in Nat : b < j /\ j < m /\ IsUnit(v, b, j)
    BY <1>7, <2>1
  <2>3. j >= b + 2 /\ v[b + 2] \in Escaped \cup {"u"}
    BY <1>6, <2>1, <2>2, EscapeUnit
  <2>4. v[n + 1] \in EscChars \cup {"u"} /\ n < m
    BY <1>6, <2>1, <2>2, <2>3 DEF Escaped, EscChars
  <2> QED
    BY <1>1, <1>2, <1>10, <2>4 DEF Accepted
<1>11. CASE s.at = "hex"
  <2>1. /\ s.left \in 1 .. 4 /\ n = b + 6 - s.left
        /\ w[b + 1] = "backslash" /\ w[b + 2] = "u"
    BY <1>1, <1>4, <1>11 DEF UnitBegun
  <2>2. v[b + 1] = "backslash" /\ v[b + 2] = "u"
    <3>1. b + 1 \in 1 .. n /\ b + 2 \in 1 .. n
      BY <1>6, <2>1
    <3> QED
      BY <1>3, <2>1, <3>1
  <2>3. PICK j \in Nat : b < j /\ j < m /\ IsUnit(v, b, j)
    BY <1>7, <2>2
  <2>4. j = b + 6 /\ \A k \in b + 3 .. j : v[k] \in HexChars
    BY <1>6, <2>2, <2>3, EscapeUnit DEF Escaped
  <2>5. n + 1 \in b + 3 .. j /\ n < m
    <3>1. PICK left \in 1 .. 4 : left = s.left
      BY <2>1
    <3>2. n = b + 6 - left
      BY <2>1, <3>1
    <3>3. j = b + 6 /\ j < m
      BY <2>3, <2>4
    <3>4. b \in Nat
      BY <1>6
    <3> QED
      BY <3>2, <3>3, <3>4
  <2>6. v[n + 1] \in HexChars
    BY <2>4, <2>5
  <2> QED
    BY <1>1, <1>2, <1>11, <2>5, <2>6 DEF Accepted
<1>12. CASE s.at = "utf8"
  <2>1. PICK t \in 1 .. 3 : t = Tails[w[b + 1]]
    BY <1>4, <1>12, LeadsAreTails DEF UnitBegun
  <2>2. w[b + 1] \in Leads /\ s.left \in 1 .. t /\ n = b + 1 + t - s.left
    BY <1>1, <1>4, <1>12, <2>1 DEF UnitBegun
  <2>3. v[b + 1] = w[b + 1]
    BY <1>3, <1>6, <2>2
  <2>4. PICK j \in Nat : b < j /\ j < m /\ IsUnit(v, b, j)
    BY <1>7, <2>2, <2>3 DEF Leads
  <2>6. j = b + 1 + t /\ \A k \in b + 2 .. j : v[k] = "cont"
    BY <1>6, <2>1, <2>2, <2>3, <2>4, LeadUnit
  <2>7. n + 1 \in b + 2 .. j /\ n < m
    <3>1. PICK left \in 1 .. t : left = s.left
      BY <2>2
    <3>2. n = b + 1 + t - left
      BY <2>2, <3>1
    <3>3. j = b + 1 + t /\ j < m
      BY <2>4, <2>6
    <3>4. b \in Nat
      BY <1>6
    <3> QED
      BY <3>2, <3>3, <3>4
  <2> QED
    BY <1>1, <1>2, <1>12, <2>6, <2>7 DEF Accepted
<1> QED
  BY <1>9, <1>10, <1>11, <1>12 DEF StringPlaces

\* The words of each token.
LEMMA WordsOfTokens ==
  ASSUME NEW w
  PROVE  /\ IsWord("integer", w) <=> IsInt(w)
         /\ IsWord("double", w) <=> IsReal(w) /\ ~IsInt(w)
         /\ IsWord("string", w) <=> IsQuoted(w) /\ ~HasEscape(w)
         /\ IsWord("string_with_escapes", w) <=> IsQuoted(w) /\ HasEscape(w)
         /\ IsWord("bool", w) <=> w \in Bools
         /\ IsWord("null", w) <=> w = Null
         /\ \A tok \in DOMAIN MarkNames : IsWord(tok, w) <=> w = <<MarkNames[tok]>>
<1>1. DOMAIN MarkNames = {"left_bracket", "right_bracket", "left_brace", "right_brace",
                          "comma", "colon"}
  BY DEF MarkNames
<1>2. /\ IsWord("integer", w) <=> IsInt(w)
      /\ IsWord("double", w) <=> IsReal(w) /\ ~IsInt(w)
      /\ IsWord("string", w) <=> IsQuoted(w) /\ ~HasEscape(w)
  BY <1>1 DEF IsWord
<1>3. /\ IsWord("string_with_escapes", w) <=> IsQuoted(w) /\ HasEscape(w)
      /\ IsWord("bool", w) <=> w \in Bools
      /\ IsWord("null", w) <=> w = Null
  BY <1>1 DEF IsWord
<1>4. ASSUME NEW tok \in DOMAIN MarkNames
      PROVE  IsWord(tok, w) <=> w = <<MarkNames[tok]>>
  BY <1>1, <1>4 DEF IsWord
<1> QED
  BY <1>2, <1>3, <1>4

LEMMA EscapeAppended ==
  ASSUME NEW w \in Seq(Chars), NEW c \in Chars
  PROVE  HasEscape(Append(w, c)) <=> HasEscape(w) \/ c = "backslash"
<1>1. PICK n \in Nat : n = Len(w)
  OBVIOUS
<1>2. PICK v : v = Append(w, c)
  OBVIOUS
<1>3. Len(v) = n + 1 /\ v[n + 1] = c /\ \A k \in 1 .. n : v[k] = w[k]
  BY <1>1, <1>2
<1>4. HasEscape(v) <=> \E k \in 1 .. n + 1 : v[k] = "backslash"
  BY <1>3 DEF HasEscape
<1>5. HasEscape(w) <=> \E k \in 1 .. n : w[k] = "backslash"
  BY <1>1 DEF HasEscape
<1>6. ASSUME NEW k \in 1 .. n + 1, v[k] = "backslash"
      PROVE  HasEscape(w) \/ c = "backslash"
  <2>1. CASE k = n + 1
    BY <1>3, <1>6, <2>1
  <2>2. CASE k # n + 1
    <3>1. k \in 1 .. n
      BY <2>2
    <3> QED
      BY <1>3, <1>5, <1>6, <3>1
  <2> QED
    BY <2>1, <2>2
<1>7. ASSUME HasEscape(w)
      PROVE  HasEscape(v)
  <2>1. PICK k \in 1 .. n : w[k] = "backslash"
    BY <1>5, <1>7
  <2>2. k \in 1 .. n + 1 /\ v[k] = "backslash"
    BY <1>3, <2>1
  <2> QED
    BY <1>4, <2>2
<1>8. c = "backslash" => HasEscape(v)
  <2>1. n + 1 \in 1 .. n + 1
    OBVIOUS
  <2> QED
    BY <1>3, <1>4, <2>1
<1>9. HasEscape(v) => HasEscape(w) \/ c = "backslash"
  BY <1>4, <1>6
<1> QED
  BY <1>2, <1>7, <1>8, <1>9

\* What yajl_lex_string does with a character that is not the last one.
StringTurns(s, c, t) ==
  LET less == IF s.left = 1 THEN t.at = "string"
              ELSE t.at = s.at /\ t.left = s.left - 1
  IN  /\ t.tok = IF s.at = "string" /\ c = "backslash" THEN "string_with_escapes" ELSE s.tok
      /\ \/ /\ s.at = "string" /\ t.at = "string"
            /\ c \in Chars \ (BadChars \cup HighChars \cup {"quote", "backslash"})
         \/ s.at = "string" /\ c = "backslash" /\ t.at = "escape"
         \/ s.at = "escape" /\ c \in EscChars /\ t.at = "string"
         \/ s.at = "escape" /\ c = "u" /\ t.at = "hex" /\ t.left = 4
         \/ s.at = "hex" /\ c \in HexChars /\ less
         \/ s.at = "string" /\ c \in Leads /\ t.at = "utf8" /\ t.left = Tails[c]
         \/ s.at = "utf8" /\ c = "cont" /\ less

LEMMA UnitGrows ==
  ASSUME NEW w \in Seq(Chars), NEW c \in Chars, NEW s, NEW t, StringTurns(s, c, t),
         NEW b \in 1 .. Len(w), IsBody(w, 1, b), UnitBegun(s, w, b)
  PROVE  \E d \in 1 .. Len(w) + 1 :
           IsBody(Append(w, c), 1, d) /\ UnitBegun(t, Append(w, c), d)
<1>1. PICK n \in Nat : n = Len(w)
  OBVIOUS
<1>2. PICK v : v = Append(w, c)
  OBVIOUS
<1>3. Len(v) = n + 1 /\ v[n + 1] = c /\ \A k \in 1 .. n : v[k] = w[k]
  BY <1>1, <1>2
<1>4. b \in Nat /\ 1 <= b /\ b <= n /\ b \in 1 .. n + 1 /\ n + 1 \in 1 .. n + 1
  BY <1>1
<1>5. IsBody(v, 1, b)
  BY <1>2, Appended, SameBody
<1>6. SUFFICES \E d \in 1 .. n + 1 : IsBody(v, 1, d) /\ UnitBegun(t, v, d)
  BY <1>1, <1>2
<1>7. ASSUME IsUnit(v, b, n + 1), t.at = "string"
      PROVE  \E d \in 1 .. n + 1 : IsBody(v, 1, d) /\ UnitBegun(t, v, d)
  <2>1. IsBody(v, 1, n + 1)
    BY <1>4, <1>5, <1>7, BodyGrows
  <2>2. UnitBegun(t, v, n + 1)
    BY <1>3, <1>7 DEF UnitBegun
  <2> QED
    BY <1>4, <2>1, <2>2
<1>8. ASSUME UnitBegun(t, v, b)
      PROVE  \E d \in 1 .. n + 1 : IsBody(v, 1, d) /\ UnitBegun(t, v, d)
  BY <1>4, <1>5, <1>8
<1>9. CASE s.at = "string" /\ t.at = "string"
  <2>1. n = b /\ c \in Plain
    <3>1. c \in Chars \ (BadChars \cup HighChars \cup {"quote", "backslash"})
      BY <1>9 DEF StringTurns, HighChars
    <3>2. c \in Plain
      BY <3>1 DEF Chars, Space, HexChars, Digits, Digits1, EscChars, BadChars, HighChars,
                  Leads, Marks, Plain
    <3> QED
      BY <1>1, <1>9, <3>2 DEF UnitBegun
  <2>2. IsUnit(v, b, n + 1)
    BY <1>3, <2>1 DEF IsUnit
  <2> QED
    BY <1>7, <1>9, <2>2
<1>10. CASE s.at = "string" /\ t.at = "escape"
  <2>1. n = b /\ c = "backslash"
    BY <1>1, <1>10 DEF UnitBegun, StringTurns
  <2>2. UnitBegun(t, v, b)
    BY <1>3, <1>10, <2>1 DEF UnitBegun
  <2> QED
    BY <1>8, <2>2
<1>11. CASE s.at = "escape" /\ t.at = "string"
  <2>1. n = b + 1 /\ w[b + 1] = "backslash" /\ c \in EscChars
    BY <1>1, <1>11 DEF UnitBegun, StringTurns
  <2>2. v[b + 1] = "backslash" /\ v[b + 2] \in Escaped
    BY <1>3, <1>4, <2>1 DEF EscChars, Escaped
  <2>3. n + 1 = b + 2
    BY <1>4, <2>1
  <2>4. IsUnit(v, b, n + 1)
    BY <2>2, <2>3 DEF IsUnit
  <2> QED
    BY <1>7, <1>11, <2>4
<1>12. CASE s.at = "escape" /\ t.at = "hex"
  <2>1. n = b + 1 /\ w[b + 1] = "backslash" /\ c = "u" /\ t.left = 4
    BY <1>1, <1>12 DEF UnitBegun, StringTurns
  <2>2. v[b + 1] = "backslash" /\ v[b + 2] = "u" /\ Len(v) = b + 6 - t.left
    BY <1>3, <1>4, <2>1
  <2>3. ~ \E k : k \in b + 3 .. Len(v)
    BY <1>3, <1>4, <2>1
  <2>4. UnitBegun(t, v, b)
    BY <1>12, <2>1, <2>2, <2>3 DEF UnitBegun
  <2> QED
    BY <1>8, <2>4
<1>13. CASE s.at = "hex"
  <2>1. PICK left \in 1 .. 4 : left = s.left
    BY <1>13 DEF UnitBegun
  <2>2. /\ n = b + 6 - left /\ w[b + 1] = "backslash" /\ w[b + 2] = "u"
        /\ \A k \in b + 3 .. n : w[k] \in HexChars
    BY <1>1, <1>13, <2>1 DEF UnitBegun
  <2>3. c \in HexChars /\ IF left = 1 THEN t.at = "string" ELSE t.at = "hex" /\ t.left = left - 1
    BY <1>13, <2>1 DEF StringTurns
  <2>4. b + 1 \in 1 .. n /\ b + 2 \in 1 .. n
    BY <1>4, <2>2
  <2>5. v[b + 1] = "backslash" /\ v[b + 2] = "u"
    BY <1>3, <2>2, <2>4
  <2>6. \A k \in b + 3 .. n + 1 : v[k] \in HexChars
    <3>1. ASSUME NEW k \in b + 3 .. n + 1
          PROVE  v[k] \in HexChars
      <4>1. CASE k = n + 1
        BY <1>3, <2>3, <4>1
      <4>2. CASE k # n + 1
        <5>1. k \in 1 .. n /\ k \in b + 3 .. n
          BY <1>4, <4>2
        <5> QED
          BY <1>3, <2>2, <5>1
      <4> QED
        BY <4>1, <4>2
    <3> QED
      BY <3>1
  <2>7. CASE left = 1
    <3>1. n + 1 = b + 6
      BY <1>4, <2>2, <2>7
    <3>2. \A k \in b + 3 .. n + 1 : v[k] \in {"0", "1", "a", "e", "f"}
      BY <2>6 DEF HexChars, Digits, Digits1
    <3>3. IsUnit(v, b, n + 1)
      BY <2>5, <3>1, <3>2 DEF IsUnit
    <3> QED
      BY <1>7, <2>3, <2>7, <3>3
  <2>8. CASE left # 1
    <3>1. t.at = "hex" /\ t.left = left - 1 /\ t.left \in 1 .. 4
      BY <2>3, <2>8
    <3>2. Len(v) = b + 6 - t.left
      BY <1>3, <1>4, <2>2, <3>1
    <3>3. UnitBegun(t, v, b)
      BY <1>3, <2>5, <2>6, <3>1, <3>2 DEF UnitBegun
    <3> QED
      BY <1>8, <3>3
  <2> QED
    BY <2>7, <2>8
<1>14. CASE s.at = "string" /\ t.at = "utf8"
  <2>1. n = b /\ c \in Leads /\ t.left = Tails[c]
    BY <1>1, <1>14 DEF UnitBegun, StringTurns
  <2>2. v[b + 1] = c /\ Len(v) = b + 1
    BY <1>3, <2>1
  <2>3. PICK m \in 1 .. 3 : m = Tails[c]
    BY <2>1, LeadsAreTails
  <2>4. t.left \in 1 .. m /\ Len(v) = b + 1 + m - t.left
    BY <1>4, <2>1, <2>2, <2>3
  <2>5. ~ \E k : k \in b + 2 .. Len(v)
    BY <1>4, <2>2
  <2>6. UnitBegun(t, v, b)
    BY <1>14, <2>1, <2>2, <2>3, <2>4, <2>5 DEF UnitBegun
  <2> QED
    BY <1>8, <2>6
<1>15. CASE s.at = "utf8"
  <2>1. w[b + 1] \in Leads
    BY <1>15 DEF UnitBegun
  <2>2. PICK m \in 1 .. 3 : m = Tails[w[b + 1]]
    BY <2>1, LeadsAreTails
  <2>3. PICK left \in 1 .. m : left = s.left
    BY <1>15, <2>2 DEF UnitBegun
  <2>4. n = b + 1 + m - left /\ \A k \in b + 2 .. n : w[k] = "cont"
    BY <1>1, <1>15, <2>2, <2>3 DEF UnitBegun
  <2>5. c = "cont" /\ IF left = 1 THEN t.at = "string" ELSE t.at = "utf8" /\ t.left = left - 1
    BY <1>15, <2>3 DEF StringTurns
  <2>6. b + 1 \in 1 .. n
    BY <1>4, <2>4
  <2>7. v[b + 1] = w[b + 1]
    BY <1>3, <2>6
  <2>8. \A k \in b + 2 .. n + 1 : v[k] = "cont"
    <3>1. ASSUME NEW k \in b + 2 .. n + 1
          PROVE  v[k] = "cont"
      <4>1. CASE k = n + 1
        BY <1>3, <2>5, <4>1
      <4>2. CASE k # n + 1
        <5>1. k \in 1 .. n /\ k \in b + 2 .. n
          BY <1>4, <4>2
        <5> QED
          BY <1>3, <2>4, <5>1
      <4> QED
        BY <4>1, <4>2
    <3> QED
      BY <3>1
  <2>9. CASE left = 1
    <3>1. n + 1 = b + 1 + m
      BY <1>4, <2>4, <2>9
    <3>2. v[b + 1] \in DOMAIN Tails /\ Tails[v[b + 1]] = m
      BY <2>1, <2>2, <2>7, LeadsAreTails
    <3>3. IsUnit(v, b, n + 1)
      BY <2>8, <3>1, <3>2 DEF IsUnit
    <3> QED
      BY <1>7, <2>5, <2>9, <3>3
  <2>10. CASE left # 1
    <3>1. t.at = "utf8" /\ t.left = left - 1 /\ t.left \in 1 .. m
      BY <2>5, <2>10
    <3>2. Len(v) = b + 1 + m - t.left
      BY <1>3, <1>4, <2>4, <3>1
    <3>3. UnitBegun(t, v, b)
      BY <1>3, <2>1, <2>2, <2>7, <2>8, <3>1, <3>2 DEF UnitBegun
    <3> QED
      BY <1>8, <3>3
  <2> QED
    BY <2>9, <2>10
<1> QED
  BY <1>9, <1>10, <1>11, <1>12, <1>13, <1>14, <1>15 DEF StringTurns

LEMMA StringGrows ==
  ASSUME NEW w \in Seq(Chars), NEW c \in Chars, NEW s, NEW t, StringTurns(s, c, t),
         StringBegun(s, w)
  PROVE  StringBegun(t, Append(w, c))
<1>1. PICK b \in 1 .. Len(w) : IsBody(w, 1, b) /\ UnitBegun(s, w, b)
  BY DEF StringBegun
<1>2. PICK v : v = Append(w, c)
  OBVIOUS
<1>3. PICK d \in 1 .. Len(w) + 1 : IsBody(v, 1, d) /\ UnitBegun(t, v, d)
  BY <1>1, <1>2, UnitGrows
<1>4. Len(v) = Len(w) + 1 /\ v # <<>> /\ v[1] = "quote"
  <2>1. w # <<>> /\ w[1] = "quote" /\ Len(w) \in Nat /\ Len(w) >= 1
    BY DEF StringBegun
  <2> QED
    BY <1>2, <2>1
<1>5. t.tok = IF HasEscape(v) THEN "string_with_escapes" ELSE "string"
  <2>1. HasEscape(v) <=> HasEscape(w) \/ c = "backslash"
    BY <1>2, EscapeAppended
  <2>2. CASE s.at = "string" /\ c = "backslash"
    BY <2>1, <2>2 DEF StringTurns
  <2>3. CASE c = "backslash" /\ s.at # "string"
    <3>1. s.at = "escape"
      BY <2>3 DEF StringTurns, HexChars, Digits, Digits1
    <3>2. b + 1 \in 1 .. Len(w) /\ w[b + 1] = "backslash"
      BY <1>1, <3>1 DEF UnitBegun
    <3>3. HasEscape(w)
      BY <3>2 DEF HasEscape
    <3> QED
      BY <2>1, <2>3, <3>3 DEF StringTurns, StringBegun
  <2>4. CASE c # "backslash"
    BY <2>1, <2>4 DEF StringTurns, StringBegun
  <2> QED
    BY <2>2, <2>3, <2>4
<1>6. StringBegun(t, v)
  BY <1>3, <1>4, <1>5 DEF StringBegun
<1> QED
  BY <1>2, <1>6

LEMMA StringIsOver ==
  ASSUME NEW w \in Seq(Chars), NEW s, s.at = "string", StringBegun(s, w)
  PROVE  LET v == Append(w, "quote") IN IsQuoted(v) /\ IsWord(s.tok, v)
<1>1. "quote" \in Chars
  BY DEF Chars, EscChars
<1>2. PICK v : v = Append(w, "quote")
  OBVIOUS
<1>3. PICK n \in Nat : n = Len(w)
  OBVIOUS
<1>4. n >= 1 /\ w[1] = "quote"
  BY <1>3 DEF StringBegun
<1>5. IsBody(w, 1, n)
  BY <1>3 DEF StringBegun, UnitBegun
<1>6. IsBody(v, 1, n)
  <2>1. n \in 1 .. n
    BY <1>4
  <2> QED
    BY <1>1, <1>2, <1>3, <1>5, <2>1, Appended, SameBody
<1>7. Len(v) = n + 1 /\ v[n + 1] = "quote" /\ v[1] = "quote"
  BY <1>2, <1>3, <1>4
<1>8. IsQuoted(v)
  <2>1. Len(v) - 1 = n /\ Len(v) > 1
    BY <1>4, <1>7
  <2> QED
    BY <1>6, <1>7, <2>1 DEF IsQuoted
<1>9. HasEscape(v) <=> HasEscape(w)
  BY <1>1, <1>2, EscapeAppended
<1>10. IsWord(s.tok, v)
  <2>1. s.tok = IF HasEscape(v) THEN "string_with_escapes" ELSE "string"
    BY <1>9 DEF StringBegun
  <2> QED
    BY <1>8, <2>1, WordsOfTokens
<1> QED
  BY <1>2, <1>8, <1>10

-----------------------------------------------------------------------------
(* The kinds of words, which their first characters tell apart             *)

LEMMA LiteralsAre ==
  /\ Literals = {<<"t", "r", "u", "e">>, <<"f", "a", "l", "s", "e">>, <<"n", "u", "l", "l">>}
  /\ Literals \subseteq Seq(Chars)
<1>1. Literals = {<<"t", "r", "u", "e">>, <<"f", "a", "l", "s", "e">>, <<"n", "u", "l", "l">>}
  BY DEF Literals, Bools, Null
<1>2. {"t", "r", "u", "e", "f", "a", "l", "s", "n"} \subseteq Chars
  BY DEF Chars, HexChars, EscChars
<1>3. /\ <<"t", "r", "u", "e">> \in Seq(Chars) /\ <<"f", "a", "l", "s", "e">> \in Seq(Chars)
      /\ <<"n", "u", "l", "l">> \in Seq(Chars)
  BY <1>2
<1> QED
  BY <1>1, <1>3

LEMMA MarksAre ==
  /\ DOMAIN MarkNames = {"left_bracket", "right_bracket", "left_brace", "right_brace",
                         "comma", "colon"}
  /\ MarkNames["left_bracket"] = "{" /\ MarkNames["right_bracket"] = "}"
  /\ MarkNames["left_brace"] = "[" /\ MarkNames["right_brace"] = "]"
  /\ MarkNames["comma"] = "," /\ MarkNames["colon"] = ":"
  BY DEF MarkNames

LEMMA TokenKinds ==
  ASSUME NEW v \in Seq(Chars), IsToken(v)
  PROVE  IsReal(v) \/ IsQuoted(v) \/ v \in Literals \/ \E c \in Marks : v = <<c>>
<1>1. PICK tok \in TokenNames : IsWord(tok, v)
  BY DEF IsToken
<1>2. CASE tok \in {"integer", "double"}
  BY <1>1, <1>2, WordsOfTokens, IntIsReal
<1>3. CASE tok \in {"string", "string_with_escapes"}
  BY <1>1, <1>3, WordsOfTokens
<1>4. CASE tok \in {"bool", "null"}
  BY <1>1, <1>4, WordsOfTokens DEF Literals
<1>5. CASE tok \in DOMAIN MarkNames
  <2>1. v = <<MarkNames[tok]>>
    BY <1>1, <1>5, WordsOfTokens
  <2>2. MarkNames[tok] \in Marks
    BY <1>5, MarksAre DEF Marks
  <2> QED
    BY <2>1, <2>2
<1> QED
  BY <1>2, <1>3, <1>4, <1>5 DEF TokenNames

LEMMA RealBegins ==
  ASSUME NEW v \in Seq(Chars), IsReal(v)
  PROVE  v # <<>> /\ v[1] \in Numerals \cup {"-"}
<1>1. PICK i \in 1 .. Len(v) : IntTo(v, i)
  BY DEF IsReal
<1>2. v # <<>> /\ Len(v) \in Nat
  BY <1>1
<1>3. CASE v[1] # "-"
  <2>1. FirstDigit(v) = 1
    BY <1>3 DEF FirstDigit
  <2> QED
    BY <1>1, <1>2, <2>1 DEF IntTo, AreDigits
<1> QED
  BY <1>2, <1>3

LEMMA CommentBegins ==
  ASSUME NEW v \in Seq(Chars), IsComment(v)
  PROVE  v # <<>> /\ v[1] = "/" /\ v[2] \in {"/", "*"} /\ Len(v) > 2
<1>1. Len(v) \in Nat
  OBVIOUS
<1>2. IsLineComment(v, 0, Len(v)) \/ IsBlockComment(v, 0, Len(v))
  BY DEF IsComment, IsCommentIn
<1>3. Len(v) > 2 /\ v[1] = "/" /\ v[2] \in {"/", "*"}
  <2>1. CASE IsLineComment(v, 0, Len(v))
    <3>1. 0 + 2 < Len(v) /\ v[0 + 1] = "/" /\ v[0 + 2] = "/"
      BY <2>1 DEF IsLineComment
    <3> QED
      BY <1>1, <3>1
  <2>2. CASE IsBlockComment(v, 0, Len(v))
    <3>1. 0 + 3 < Len(v) /\ v[0 + 1] = "/" /\ v[0 + 2] = "*"
      BY <2>2 DEF IsBlockComment
    <3> QED
      BY <1>1, <3>1
  <2> QED
    BY <1>2, <2>1, <2>2
<1> QED
  BY <1>3

LiteralStarts == {"t", "f", "n"}

(* What the first character of a token or a comment says about it.         *)
LEMMA KindByStart ==
  ASSUME NEW v \in Seq(Chars), IsToken(v) \/ IsComment(v)
  PROVE  /\ v # <<>> /\ Len(v) >= 1
         /\ v[1] \in Numerals \cup {"-", "quote", "/"} \cup LiteralStarts \cup Marks
         /\ v[1] \in Numerals \cup {"-"} => IsReal(v)
         /\ v[1] = "quote" => IsQuoted(v)
         /\ v[1] \in LiteralStarts => v \in Literals
         /\ v[1] \in Marks => v = <<v[1]>>
         /\ v[1] = "/" => IsComment(v) /\ ~IsToken(v)
<1> DEFINE Says(c) ==
             /\ v # <<>> /\ Len(v) >= 1
             /\ c \in Numerals \cup {"-", "quote", "/"} \cup LiteralStarts \cup Marks
             /\ c \in Numerals \cup {"-"} => IsReal(v)
             /\ c = "quote" => IsQuoted(v)
             /\ c \in LiteralStarts => v \in Literals
             /\ c \in Marks => v = <<c>>
             /\ c # "/"
<1>0. Len(v) \in Nat /\ (v # <<>> => Len(v) >= 1)
  OBVIOUS
<1>1. CASE IsReal(v)
  <2>1. v # <<>> /\ v[1] \in Numerals \cup {"-"}
    BY <1>1, RealBegins
  <2>2. Says(v[1])
    BY <1>0, <1>1, <2>1 DEF Numerals, LiteralStarts, Marks
  <2> QED
    BY <2>2
<1>2. CASE IsQuoted(v)
  <2>1. v # <<>> /\ v[1] = "quote"
    BY <1>0, <1>2 DEF IsQuoted
  <2>2. Says(v[1])
    BY <1>0, <1>2, <2>1 DEF Numerals, LiteralStarts, Marks
  <2> QED
    BY <2>2
<1>3. CASE v \in Literals
  <2>1. v # <<>> /\ v[1] \in LiteralStarts
    BY <1>3, LiteralsAre DEF LiteralStarts
  <2>2. Says(v[1])
    BY <1>0, <1>3, <2>1 DEF Numerals, LiteralStarts, Marks
  <2> QED
    BY <2>2
<1>4. CASE \E c \in Marks : v = <<c>>
  <2>1. v # <<>> /\ v[1] \in Marks /\ v = <<v[1]>>
    BY <1>4
  <2>2. Says(v[1])
    BY <1>0, <2>1 DEF Numerals, LiteralStarts, Marks
  <2> QED
    BY <2>2
<1>5. CASE IsComment(v)
  <2>1. v # <<>> /\ v[1] = "/"
    BY <1>5, CommentBegins
  <2>2. ~IsToken(v)
    BY <1>1, <1>2, <1>3, <1>4, <2>1, TokenKinds
  <2> QED
    BY <1>0, <1>5, <2>1, <2>2 DEF Numerals, LiteralStarts, Marks
<1> QED
  BY <1>1, <1>2, <1>3, <1>4, <1>5, TokenKinds

-----------------------------------------------------------------------------
(* Literals                                                                *)

LEMMA LiteralByStart ==
  ASSUME NEW v \in Literals, NEW w \in Literals, v[1] = w[1]
  PROVE  v = w
  BY LiteralsAre

LEMMA LiteralLengths ==
  ASSUME NEW lit \in Literals
  PROVE  lit \in Seq(Chars) /\ Len(lit) \in 4 .. 5
<1>1. CASE lit = <<"t", "r", "u", "e">>
  BY <1>1, LiteralsAre
<1>2. CASE lit = <<"f", "a", "l", "s", "e">>
  BY <1>2, LiteralsAre
<1>3. CASE lit = <<"n", "u", "l", "l">>
  BY <1>3, LiteralsAre
<1> QED
  BY <1>1, <1>2, <1>3, LiteralsAre

LEMMA LiteralIsStuck ==
  ASSUME NEW w \in Seq(Chars), NEW v \in Literals, Extends(v, w), NEW s, LiteralBegun(s, w)
  PROVE  Len(w) < Len(v) /\ v[Len(w) + 1] = Head(s.want)
<1>1. PICK n \in Nat : n = Len(w)
  OBVIOUS
<1>2. PICK lit \in Literals : /\ 1 <= n /\ n < Len(lit) /\ w = SubSeq(lit, 1, n)
                              /\ s.want = Drop(lit, n)
  BY <1>1 DEF LiteralBegun
<1>3. lit \in Seq(Chars) /\ Len(lit) \in Nat
  BY LiteralLengths
<1>4. v[1] = w[1] /\ w[1] = lit[1]
  <2>1. w[1] = lit[1]
    BY <1>2, <1>3
  <2> QED
    BY <1>1, <1>2, <2>1 DEF Extends
<1>5. v = lit
  BY <1>4, LiteralByStart
<1>6. Head(s.want) = lit[n + 1]
  BY <1>1, <1>2, <1>3 DEF Drop
<1> QED
  BY <1>1, <1>2, <1>5, <1>6

LEMMA LiteralGrows ==
  ASSUME NEW w \in Seq(Chars), NEW s, LiteralBegun(s, w), NEW v, v = Append(w, Head(s.want))
  PROVE  /\ Head(s.want) \in Chars
         /\ Tail(s.want) = <<>> => v \in Literals /\ IsWord(s.tok, v)
         /\ Tail(s.want) # <<>> =>
              \A t : t.want = Tail(s.want) /\ t.tok = s.tok => LiteralBegun(t, v)
<1>1. PICK n \in Nat : n = Len(w)
  OBVIOUS
<1>2. PICK lit \in Literals : /\ 1 <= n /\ n < Len(lit) /\ w = SubSeq(lit, 1, n)
                              /\ s.want = Drop(lit, n)
                              /\ s.tok = IF lit = Null THEN "null" ELSE "bool"
  BY <1>1 DEF LiteralBegun
<1>3. lit \in Seq(Chars) /\ Len(lit) \in Nat
  BY LiteralLengths
<1>4. PICK c : c = Head(s.want)
  OBVIOUS
<1>5. c = lit[n + 1] /\ c \in Chars
  BY <1>1, <1>2, <1>3, <1>4 DEF Drop
<1>6. v = SubSeq(lit, 1, n + 1) /\ Len(v) = n + 1
  <2>1. PICK x : x = SubSeq(lit, 1, n + 1)
    OBVIOUS
  <2>2. x \in Seq(Chars) /\ Len(x) = n + 1 /\ \A k \in 1 .. n + 1 : x[k] = lit[k]
    BY <1>2, <1>3, <2>1
  <2>3. v \in Seq(Chars) /\ Len(v) = n + 1 /\ v[n + 1] = c /\ \A k \in 1 .. n : v[k] = w[k]
    BY <1>1, <1>4, <1>5
  <2>4. \A k \in 1 .. n : w[k] = lit[k]
    BY <1>2, <1>3
  <2>5. \A k \in 1 .. n + 1 : v[k] = x[k]
    BY <1>5, <2>2, <2>3, <2>4
  <2> QED
    BY <2>1, <2>2, <2>3, <2>5, SeqEqual
<1>7. Tail(s.want) = Drop(lit, n + 1)
  <2>1. PICK d : d = s.want
    OBVIOUS
  <2>2. d = SubSeq(lit, n + 1, Len(lit))
    BY <1>2, <2>1 DEF Drop
  <2>3. PICK m \in Nat : m = Len(lit)
    BY <1>3
  <2>4. d \in Seq(Chars) /\ Len(d) = m - n /\ \A k \in 1 .. m - n : d[k] = lit[n + k]
    BY <1>2, <1>3, <2>2, <2>3
  <2>5. PICK e : e = SubSeq(lit, n + 2, m)
    OBVIOUS
  <2>6. e \in Seq(Chars) /\ Len(e) = m - n - 1 /\ \A k \in 1 .. m - n - 1 : e[k] = lit[n + 1 + k]
    BY <1>2, <1>3, <2>3, <2>5
  <2>7. Tail(d) \in Seq(Chars) /\ Len(Tail(d)) = m - n - 1
        /\ \A k \in 1 .. m - n - 1 : Tail(d)[k] = d[k + 1]
    <3>1. d # <<>> /\ Len(d) = m - n /\ d \in Seq(Chars) /\ m - n \in Nat
      BY <1>2, <2>3, <2>4
    <3>2. /\ Tail(d) \in Seq(Chars) /\ Len(Tail(d)) = Len(d) - 1
          /\ \A k \in 1 .. Len(Tail(d)) : Tail(d)[k] = d[k + 1]
      BY <3>1, HeadTailProperties
    <3> QED
      BY <3>1, <3>2
  <2>8. \A k \in 1 .. m - n - 1 : Tail(d)[k] = e[k]
    <3>1. ASSUME NEW k \in 1 .. m - n - 1
          PROVE  Tail(d)[k] = e[k]
      <4>1. k + 1 \in 1 .. m - n /\ n + (k + 1) = n + 1 + k
        BY <1>2, <2>3
      <4> QED
        BY <2>4, <2>6, <2>7, <4>1
    <3> QED
      BY <3>1
  <2>9. Tail(d) = e
    BY <2>6, <2>7, <2>8, SeqEqual
  <2> QED
    BY <2>1, <2>3, <2>5, <2>9 DEF Drop
<1>8. CASE n + 1 = Len(lit)
  <2>1. v = lit
    <3>1. \A k \in 1 .. n + 1 : v[k] = lit[k]
      BY <1>3, <1>6, <1>8
    <3>2. v \in Seq(Chars)
      BY <1>4, <1>5
    <3> QED
      BY <1>3, <1>6, <1>8, <3>1, <3>2, SeqEqual
  <2>2. Tail(s.want) = <<>>
    BY <1>3, <1>7, <1>8 DEF Drop
  <2>3. IsWord(s.tok, v)
    <3>1. CASE lit = Null
      <4>1. s.tok = "null" /\ v = Null
        BY <1>2, <2>1, <3>1
      <4>2. IsWord("null", v)
        BY <4>1, WordsOfTokens
      <4> QED
        BY <4>1, <4>2
    <3>2. CASE lit # Null
      <4>1. s.tok = "bool" /\ v \in Bools
        BY <1>2, <2>1, <3>2 DEF Literals
      <4>2. IsWord("bool", v)
        BY <4>1, WordsOfTokens
      <4> QED
        BY <4>1, <4>2
    <3> QED
      BY <3>1, <3>2
  <2> QED
    BY <1>4, <1>5, <2>1, <2>2, <2>3
<1>9. CASE n + 1 # Len(lit)
  <2>1. n + 1 < Len(lit)
    BY <1>2, <1>3, <1>9
  <2>2. Tail(s.want) # <<>>
    <3>1. PICK m \in Nat : m = Len(lit)
      BY <1>3
    <3>2. PICK e : e = SubSeq(lit, n + 2, m)
      OBVIOUS
    <3>3. Tail(s.want) = e
      BY <1>7, <3>1, <3>2 DEF Drop
    <3>4. Len(e) = m - n - 1 /\ m - n - 1 > 0
      BY <1>3, <2>1, <3>1, <3>2
    <3>5. e # <<>>
      BY <3>4
    <3> QED
      BY <3>3, <3>5
  <2>3. \A t : t.want = Tail(s.want) /\ t.tok = s.tok => LiteralBegun(t, v)
    <3>1. ASSUME NEW t, t.want = Tail(s.want), t.tok = s.tok
          PROVE  LiteralBegun(t, v)
      <4>1. 1 <= Len(v) /\ Len(v) < Len(lit) /\ v = SubSeq(lit, 1, Len(v))
        BY <1>1, <1>6, <2>1
      <4>2. t.want = Drop(lit, Len(v)) /\ t.tok = IF lit = Null THEN "null" ELSE "bool"
        BY <1>2, <1>6, <1>7, <3>1
      <4> QED
        BY <4>1, <4>2 DEF LiteralBegun
    <3> QED
      BY <3>1
  <2> QED
    BY <1>4, <1>5, <2>2, <2>3
<1> QED
  BY <1>8, <1>9

-----------------------------------------------------------------------------
(* Comments                                                                *)

LineForm(v) ==
  /\ 2 < Len(v) /\ v[1] = "/" /\ v[2] = "/" /\ v[Len(v)] = "newline"
  /\ \A k \in 3 .. Len(v) - 1 : v[k] # "newline"
BlockForm(v) ==
  /\ 3 < Len(v) /\ v[1] = "/" /\ v[2] = "*" /\ v[Len(v) - 1] = "*" /\ v[Len(v)] = "/"
  /\ \A k \in 3 .. Len(v) - 2 : ~(v[k] = "*" /\ v[k + 1] = "/")

LEMMA CommentForms ==
  ASSUME NEW v \in Seq(Chars)
  PROVE  IsComment(v) <=> LineForm(v) \/ BlockForm(v)
<1>1. /\ 0 + 1 = 1 /\ 0 + 2 = 2 /\ 0 + 3 = 3
  OBVIOUS
<1>2. IsLineComment(v, 0, Len(v)) <=> LineForm(v)
  BY <1>1, Zenon DEF IsLineComment, LineForm
<1>3. IsBlockComment(v, 0, Len(v)) <=> BlockForm(v)
  BY <1>1, Zenon DEF IsBlockComment, BlockForm
<1> QED
  BY <1>2, <1>3 DEF IsComment, IsCommentIn

LEMMA CommentIsWhole ==
  ASSUME NEW w \in Seq(Chars), NEW v \in Seq(Chars), Extends(v, w), IsComment(w), IsComment(v)
  PROVE  Len(v) = Len(w)
<1>1. PICK n \in Nat : n = Len(w)
  OBVIOUS
<1>2. PICK m \in Nat : m = Len(v)
  OBVIOUS
<1>3. n <= m /\ \A k \in 1 .. n : v[k] = w[k]
  BY <1>1, <1>2 DEF Extends
<1>4. CASE LineForm(w)
  <2>1. 2 < n /\ w[2] = "/" /\ w[n] = "newline"
    BY <1>1, <1>4 DEF LineForm
  <2>2. v[2] = "/" /\ v[n] = "newline"
    BY <1>3, <2>1
  <2>3. LineForm(v)
    BY <2>2, CommentForms DEF BlockForm
  <2>4. ~(n < m)
    BY <1>1, <1>2, <2>1, <2>2, <2>3 DEF LineForm
  <2> QED
    BY <1>1, <1>2, <1>3, <2>4
<1>5. CASE BlockForm(w)
  <2>1. 3 < n /\ w[2] = "*" /\ w[n - 1] = "*" /\ w[n] = "/"
    BY <1>1, <1>5 DEF BlockForm
  <2>2. v[2] = "*" /\ v[n - 1] = "*" /\ v[n] = "/"
    BY <1>3, <2>1
  <2>3. BlockForm(v)
    BY <2>2, CommentForms DEF LineForm
  <2>4. ~(n < m)
    <3> SUFFICES ASSUME n < m
                 PROVE  FALSE
      OBVIOUS
    <3>1. n - 1 \in 3 .. m - 2 /\ (n - 1) + 1 = n
      BY <1>1, <1>2, <2>1
    <3>2. \A k \in 3 .. m - 2 : ~(v[k] = "*" /\ v[k + 1] = "/")
      BY <1>2, <2>3 DEF BlockForm
    <3> QED
      BY <2>2, <3>1, <3>2
  <2> QED
    BY <1>1, <1>2, <1>3, <2>4
<1> QED
  BY <1>4, <1>5, CommentForms

\* A comment that yajl_lex_comment is still in is none.
LEMMA CommentIsNotOver ==
  ASSUME NEW w \in Seq(Chars), NEW place \in CommentPlaces, CommentBegun(place, w)
  PROVE  ~IsComment(w)
<1>1. PICK n \in Nat : n = Len(w)
  OBVIOUS
<1>2. ASSUME LineForm(w)
      PROVE  FALSE
  <2>1. 2 < n /\ w[2] = "/" /\ w[n] = "newline"
    BY <1>1, <1>2 DEF LineForm
  <2>2. CASE place = "line"
    BY <1>1, <2>1, <2>2 DEF CommentBegun
  <2>3. CASE place # "line"
    BY <1>1, <2>1, <2>3 DEF CommentBegun, CommentPlaces
  <2> QED
    BY <2>2, <2>3
<1>3. ASSUME BlockForm(w)
      PROVE  FALSE
  <2>1. 3 < n /\ w[2] = "*" /\ w[n - 1] = "*" /\ w[n] = "/"
    BY <1>1, <1>3 DEF BlockForm
  <2>2. n - 1 \in 3 .. n - 1 /\ (n - 1) + 1 = n
    BY <1>1, <2>1
  <2>3. ~NoEndIn(w)
    BY <1>1, <2>1, <2>2 DEF NoEndIn
  <2>4. CASE place = "slash" \/ place = "line"
    BY <1>1, <2>1, <2>4 DEF CommentBegun
  <2>5. CASE place = "block" \/ place = "star"
    BY <2>3, <2>5 DEF CommentBegun
  <2> QED
    BY <2>4, <2>5 DEF CommentPlaces
<1> QED
  BY <1>2, <1>3, CommentForms

LEMMA SlashIsStuck ==
  ASSUME NEW v \in Seq(Chars), NEW c, v # <<>>, v[1] = "/", v[2] = c, c \notin {"/", "*"}
  PROVE  ~IsComment(v)
  BY CommentBegins

\* What yajl_lex_comment does with a character of the comment.  The character
\* after a star was looked at before it is read.
CommentTurns(place, c, to) ==
  \/ place = "slash" /\ c = "/" /\ to = "line"
  \/ place = "slash" /\ c = "*" /\ to = "block"
  \/ place = "line" /\ c # "newline" /\ to = "line"
  \/ place = "block" /\ c # "*" /\ to = "block"
  \/ place = "block" /\ c = "*" /\ to = "star"

LEMMA CommentGrows ==
  ASSUME NEW w \in Seq(Chars), NEW c \in Chars, NEW place, NEW to, CommentTurns(place, c, to),
         CommentBegun(place, w),
         place = "block" /\ Len(w) > 2 /\ w[Len(w)] = "*" => c # "/"
  PROVE  CommentBegun(to, Append(w, c))
<1>1. PICK n \in Nat : n = Len(w)
  OBVIOUS
<1>2. PICK v : v = Append(w, c)
  OBVIOUS
<1>3. Len(v) = n + 1 /\ v[n + 1] = c /\ \A k \in 1 .. n : v[k] = w[k]
  BY <1>1, <1>2
<1>4. CASE place = "slash"
  <2>1. n = 1 /\ w[1] = "/"
    BY <1>1, <1>4 DEF CommentBegun
  <2>2. v[1] = "/" /\ v[2] = c /\ Len(v) = 2
    BY <1>3, <2>1
  <2>3. (c = "/" /\ to = "line") \/ (c = "*" /\ to = "block")
    BY <1>4 DEF CommentTurns
  <2>4. CommentBegun(to, v)
    BY <2>2, <2>3 DEF CommentBegun, NoEndIn
  <2> QED
    BY <1>2, <2>4
<1>5. CASE place = "line"
  <2>1. 2 <= n /\ w[1] = "/" /\ w[2] = "/" /\ \A k \in 3 .. n : w[k] # "newline"
    BY <1>1, <1>5 DEF CommentBegun
  <2>2. 2 <= n + 1 /\ v[1] = "/" /\ v[2] = "/" /\ c # "newline" /\ to = "line"
    BY <1>3, <1>5, <2>1 DEF CommentTurns
  <2>3. \A k \in 3 .. n + 1 : v[k] # "newline"
    <3>1. ASSUME NEW k \in 3 .. n + 1
          PROVE  v[k] # "newline"
      <4>1. CASE k = n + 1
        BY <1>3, <2>2, <4>1
      <4>2. CASE k # n + 1
        <5>1. k \in 1 .. n /\ k \in 3 .. n
          BY <4>2
        <5> QED
          BY <1>3, <2>1, <5>1
      <4> QED
        BY <4>1, <4>2
    <3> QED
      BY <3>1
  <2>4. CommentBegun(to, v)
    BY <1>3, <2>2, <2>3 DEF CommentBegun
  <2> QED
    BY <1>2, <2>4
<1>6. CASE place = "block"
  <2>1. 2 <= n /\ w[1] = "/" /\ w[2] = "*"
        /\ \A k \in 3 .. n - 1 : ~(w[k] = "*" /\ w[k + 1] = "/")
    BY <1>1, <1>6 DEF CommentBegun, NoEndIn
  <2>2. v[1] = "/" /\ v[2] = "*"
    BY <1>3, <2>1
  <2>3. \A k \in 3 .. n : ~(v[k] = "*" /\ v[k + 1] = "/")
    <3>1. ASSUME NEW k \in 3 .. n
          PROVE  ~(v[k] = "*" /\ v[k + 1] = "/")
      <4>1. CASE k = n
        <5>1. v[k] = w[n] /\ v[k + 1] = c /\ n > 2
          BY <1>3, <4>1
        <5> QED
          BY <1>1, <1>6, <5>1
      <4>2. CASE k # n
        <5>1. k \in 1 .. n /\ k + 1 \in 1 .. n /\ k \in 3 .. n - 1
          BY <4>2
        <5> QED
          BY <1>3, <2>1, <5>1
      <4> QED
        BY <4>1, <4>2
    <3> QED
      BY <3>1
  <2>4. NoEndIn(v)
    <3>1. Len(v) - 1 = n
      BY <1>3
    <3> QED
      BY <2>3, <3>1 DEF NoEndIn
  <2>5. (c # "*" /\ to = "block") \/ (c = "*" /\ to = "star")
    BY <1>6 DEF CommentTurns
  <2>6. 3 <= Len(v) /\ v[Len(v)] = c
    BY <1>3, <2>1
  <2>7. CommentBegun(to, v)
    BY <2>2, <2>4, <2>5, <2>6 DEF CommentBegun
  <2> QED
    BY <1>2, <2>7
<1> QED
  BY <1>4, <1>5, <1>6 DEF CommentTurns

LEMMA CommentIsOver ==
  ASSUME NEW w \in Seq(Chars), NEW place, NEW c, CommentBegun(place, w),
         (place = "line" /\ c = "newline") \/ (place = "star" /\ c = "/")
  PROVE  c \in Chars /\ IsComment(Append(w, c))
<1>0. c \in Chars
  BY DEF Chars, Space, EscChars
<1>1. PICK n \in Nat : n = Len(w)
  OBVIOUS
<1>2. PICK v : v = Append(w, c)
  OBVIOUS
<1>3. v \in Seq(Chars) /\ Len(v) = n + 1 /\ v[n + 1] = c /\ \A k \in 1 .. n : v[k] = w[k]
  BY <1>0, <1>1, <1>2
<1>4. CASE place = "line" /\ c = "newline"
  <2>1. 2 <= n /\ w[1] = "/" /\ w[2] = "/" /\ \A k \in 3 .. n : w[k] # "newline"
    BY <1>1, <1>4 DEF CommentBegun
  <2>2. v[1] = "/" /\ v[2] = "/" /\ \A k \in 3 .. n : v[k] # "newline"
    BY <1>3, <2>1
  <2>3. LineForm(v)
    <3>1. Len(v) - 1 = n /\ 2 < Len(v)
      BY <1>3, <2>1
    <3> QED
      BY <1>3, <1>4, <2>2, <3>1 DEF LineForm
  <2> QED
    BY <1>0, <1>2, <1>3, <2>3, CommentForms
<1>5. CASE place = "star" /\ c = "/"
  <2>1. 3 <= n /\ w[1] = "/" /\ w[2] = "*" /\ w[n] = "*"
        /\ \A k \in 3 .. n - 1 : ~(w[k] = "*" /\ w[k + 1] = "/")
    BY <1>1, <1>5 DEF CommentBegun, NoEndIn
  <2>2. v[1] = "/" /\ v[2] = "*" /\ v[n] = "*"
    BY <1>3, <2>1
  <2>3. \A k \in 3 .. n - 1 : ~(v[k] = "*" /\ v[k + 1] = "/")
    BY <1>3, <2>1
  <2>4. BlockForm(v)
    <3>1. Len(v) - 1 = n /\ 3 < Len(v) /\ Len(v) - 2 = n - 1
      BY <1>3, <2>1
    <3> QED
      BY <1>3, <1>5, <2>2, <2>3, <3>1 DEF BlockForm
  <2> QED
    BY <1>0, <1>2, <1>3, <2>4, CommentForms
<1> QED
  BY <1>4, <1>5

-----------------------------------------------------------------------------
(* Beginnings                                                              *)

\* w can become a token or, where they are allowed, a comment.
Begins(w, comments) ==
  \E v \in Seq(Chars) : Extends(v, w) /\ (IsToken(v) \/ (comments /\ IsComment(v)))

LEMMA Itself ==
  ASSUME NEW w \in Seq(Chars)
  PROVE  Extends(w, w)
  BY DEF Extends

LEMMA ExtendsOn ==
  ASSUME NEW u, NEW v, NEW w, Extends(u, v), Extends(v, w)
  PROVE  Extends(u, w)
<1>1. PICK n \in Nat : n = Len(w)
  BY DEF Extends
<1>2. PICK m \in Nat : m = Len(v)
  BY DEF Extends
<1>3. Len(u) \in Nat /\ m <= Len(u) /\ \A k \in 1 .. m : u[k] = v[k]
  BY <1>2 DEF Extends
<1>4. n <= m /\ \A k \in 1 .. n : v[k] = w[k]
  BY <1>1, <1>2 DEF Extends
<1>5. \A k \in 1 .. n : k \in 1 .. m
  BY <1>4
<1>6. \A k \in 1 .. n : u[k] = w[k]
  BY <1>3, <1>4, <1>5
<1>7. n <= Len(u)
  BY <1>3, <1>4
<1> QED
  BY <1>1, <1>3, <1>6, <1>7 DEF Extends

LEMMA SameLength ==
  ASSUME NEW v \in Seq(Chars), NEW w \in Seq(Chars), Extends(v, w), Len(v) <= Len(w)
  PROVE  v = w
<1>1. Len(v) = Len(w) /\ \A k \in 1 .. Len(w) : v[k] = w[k]
  BY DEF Extends
<1> QED
  BY <1>1, SeqEqual

LEMMA JoinedExtends ==
  ASSUME NEW w \in Seq(Chars), NEW c \in Seq(Chars)
  PROVE  w \o c \in Seq(Chars) /\ Extends(w \o c, w)
<1>1. PICK v : v = w \o c
  OBVIOUS
<1>2. v \in Seq(Chars) /\ Len(v) = Len(w) + Len(c) /\ \A k \in 1 .. Len(w) : v[k] = w[k]
  BY <1>1
<1>3. Len(w) <= Len(v) /\ Len(w) \in Nat /\ Len(v) \in Nat
  BY <1>2
<1> QED
  BY <1>1, <1>2, <1>3 DEF Extends

LEMMA PrefixBegins ==
  ASSUME NEW w, NEW v, NEW comments, Extends(v, w), Begins(v, comments)
  PROVE  Begins(w, comments)
<1>1. PICK u \in Seq(Chars) : Extends(u, v) /\ (IsToken(u) \/ (comments /\ IsComment(u)))
  BY DEF Begins
<1>2. Extends(u, w)
  BY <1>1, ExtendsOn
<1> QED
  BY <1>1, <1>2 DEF Begins

LEMMA Completing ==
  /\ Completions \subseteq Seq(Chars)
  /\ CommentEnds \subseteq Seq(Chars)
<1>1. {"0", "n", "quote", "cont", "/", "newline", "*"} \subseteq Chars
  BY DEF Chars, HexChars, Digits, EscChars, Space, HighChars
<1>2. ASSUME NEW n \in Nat
      PROVE  /\ Filled(n, "0") \in Seq(Chars)
             /\ Filled(n, "cont") \in Seq(Chars)
  BY <1>1 DEF Filled
<1>3. ASSUME NEW n \in Nat
      PROVE  /\ Filled(n, "0") \o <<"quote">> \in Seq(Chars)
             /\ Filled(n, "cont") \o <<"quote">> \in Seq(Chars)
  <2>1. <<"quote">> \in Seq(Chars)
    BY <1>1
  <2> QED
    BY <1>2, <2>1
<1>4. ASSUME NEW lit \in Literals, NEW n \in 1 .. 4
      PROVE  Drop(lit, n) \in Seq(Chars)
  <2>1. lit \in Seq(Chars) /\ Len(lit) \in Nat /\ n + 1 \in Nat
    BY LiteralLengths
  <2>2. \A k \in n + 1 .. Len(lit) : lit[k] \in Chars
    BY <2>1
  <2> QED
    BY <2>1, <2>2 DEF Drop
<1>5. ASSUME NEW c \in Completions
      PROVE  c \in Seq(Chars)
  <2>1. CASE c \in {<<>>, <<"0">>, <<"n", "quote">>}
    <3>1. <<"0">> \in Seq(Chars)
      BY <1>1
    <3>2. <<"n", "quote">> \in Seq(Chars)
      BY <1>1
    <3>3. <<>> \in Seq(Chars)
      OBVIOUS
    <3> QED
      BY <2>1, <3>1, <3>2, <3>3
  <2>2. CASE c \in HexEnds
    <3>1. PICK n \in 0 .. 4 : c = Filled(n, "0") \o <<"quote">>
      BY <2>2, Zenon DEF HexEnds
    <3>2. n \in Nat
      OBVIOUS
    <3> QED
      BY <1>3, <3>1, <3>2
  <2>3. CASE c \in Utf8Ends
    <3>1. PICK n \in 1 .. 3 : c = Filled(n, "cont") \o <<"quote">>
      BY <2>3, Zenon DEF Utf8Ends
    <3>2. n \in Nat
      OBVIOUS
    <3> QED
      BY <1>3, <3>1, <3>2
  <2>4. CASE c \in LiteralEnds
    <3>1. PICK lit \in Literals, n \in 1 .. 4 : c = Drop(lit, n)
      BY <2>4 DEF LiteralEnds, Literals
    <3> QED
      BY <1>4, <3>1
  <2> QED
    BY <2>1, <2>2, <2>3, <2>4 DEF Completions
<1>6. CommentEnds \subseteq Seq(Chars)
  BY <1>1 DEF CommentEnds
<1> QED
  BY <1>5, <1>6

LEMMA BeginningBegins ==
  ASSUME NEW w \in Seq(Chars), NEW comments, IsBeginning(w, comments)
  PROVE  Begins(w, comments)
<1>1. CASE w = <<>>
  <2>1. PICK c \in Chars : c = "{"
    BY DEF Chars, Marks
  <2>2. PICK v : v = <<c>>
    OBVIOUS
  <2>3. v \in Seq(Chars) /\ Extends(v, w)
    <3>1. v \in Seq(Chars) /\ Len(v) = 1 /\ Len(w) = 0
      BY <1>1, <2>2
    <3> QED
      BY <3>1 DEF Extends
  <2>4. "left_bracket" \in DOMAIN MarkNames /\ MarkNames["left_bracket"] = "{"
    BY MarksAre
  <2>5. IsWord("left_bracket", v)
    BY <2>1, <2>2, <2>4, WordsOfTokens
  <2>6. IsToken(v)
    BY <2>4, <2>5 DEF IsToken, TokenNames
  <2> QED
    BY <2>3, <2>6 DEF Begins
<1>2. CASE \E c \in Completions : IsToken(w \o c)
  <2>1. PICK c \in Completions : IsToken(w \o c)
    BY <1>2
  <2>2. w \o c \in Seq(Chars) /\ Extends(w \o c, w)
    BY Completing, JoinedExtends
  <2> QED
    BY <2>1, <2>2 DEF Begins
<1>3. CASE comments /\ \E c \in CommentEnds : IsComment(w \o c)
  <2>1. PICK c \in CommentEnds : IsComment(w \o c)
    BY <1>3
  <2>2. w \o c \in Seq(Chars) /\ Extends(w \o c, w)
    BY Completing, JoinedExtends
  <2> QED
    BY <1>3, <2>1, <2>2 DEF Begins
<1> QED
  BY <1>1, <1>2, <1>3 DEF IsBeginning

LEMMA WholeIsWhole ==
  ASSUME NEW w \in Seq(Chars), NEW v \in Seq(Chars), Extends(v, w), Whole(w),
         NEW comments, Begins(v, comments)
  PROVE  v = w
<1>1. PICK u \in Seq(Chars) : Extends(u, v) /\ (IsToken(u) \/ IsComment(u))
  BY DEF Begins
<1>2. Extends(u, w)
  BY <1>1, ExtendsOn
<1>3. Len(u) <= Len(w)
  <2>1. ASSUME w # <<>>
        PROVE  u[1] = w[1] /\ Len(u) \in Nat /\ Len(w) \in Nat
    BY <1>2, <2>1 DEF Extends
  <2>2. CASE IsQuoted(w)
    <3>1. w # <<>> /\ w[1] = "quote"
      BY <2>2 DEF IsQuoted
    <3>2. IsQuoted(u)
      BY <1>1, <2>1, <3>1, KindByStart
    <3> QED
      BY <1>2, <2>1, <2>2, <3>1, <3>2, QuotedIsWhole
  <2>3. CASE w \in Literals
    <3>1. w # <<>> /\ w[1] \in LiteralStarts
      BY <2>3, LiteralsAre DEF LiteralStarts
    <3>2. u \in Literals /\ u[1] = w[1]
      BY <1>1, <2>1, <3>1, KindByStart
    <3>3. u = w
      BY <2>3, <3>2, LiteralByStart
    <3> QED
      BY <2>1, <3>1, <3>3
  <2>4. CASE \E c \in Marks : w = <<c>>
    <3>1. w # <<>> /\ w[1] \in Marks /\ Len(w) = 1
      BY <2>4
    <3>2. u = <<u[1]>>
      BY <1>1, <2>1, <3>1, KindByStart
    <3>3. Len(u) = 1
      BY <3>2
    <3> QED
      BY <3>1, <3>3
  <2>5. CASE IsComment(w)
    <3>1. w # <<>> /\ w[1] = "/"
      BY <2>5, CommentBegins
    <3>2. IsComment(u)
      BY <1>1, <2>1, <3>1, KindByStart
    <3> QED
      BY <1>2, <2>1, <2>5, <3>1, <3>2, CommentIsWhole
  <2> QED
    BY <2>2, <2>3, <2>4, <2>5 DEF Whole
<1>4. Len(v) <= Len(w)
  <2>1. Len(v) <= Len(u) /\ Len(u) \in Nat /\ Len(v) \in Nat
    BY <1>1 DEF Extends
  <2>2. Len(w) \in Nat
    OBVIOUS
  <2> QED
    BY <1>3, <2>1, <2>2
<1> QED
  BY <1>4, SameLength

-----------------------------------------------------------------------------
(* Characters at which nothing goes on                                     *)

\* A longer word that begins with w and c.
LEMMA LongerWord ==
  ASSUME NEW w \in Seq(Chars), NEW c \in Chars, NEW comments, Begins(Append(w, c), comments)
  PROVE  \E u \in Seq(Chars) :
           /\ Extends(u, w) /\ Len(w) < Len(u) /\ u[Len(w) + 1] = c
           /\ w # <<>> => u[1] = w[1]
           /\ IsToken(u) \/ (comments /\ IsComment(u))
<1>1. PICK v : v = Append(w, c)
  OBVIOUS
<1>2. PICK u \in Seq(Chars) : Extends(u, v) /\ (IsToken(u) \/ (comments /\ IsComment(u)))
  BY <1>1 DEF Begins
<1>3. Extends(v, w) /\ Len(v) = Len(w) + 1 /\ v[Len(w) + 1] = c /\ Len(w) \in Nat
  BY <1>1, Appended
<1>4. Extends(u, w)
  BY <1>2, <1>3, ExtendsOn
<1>5. Len(w) < Len(u) /\ u[Len(w) + 1] = c
  BY <1>2, <1>3 DEF Extends
<1>6. w # <<>> => u[1] = w[1]
  BY <1>4 DEF Extends
<1> QED
  BY <1>2, <1>4, <1>5, <1>6

LEMMA NoStart ==
  ASSUME NEW c \in Chars, NEW comments,
         c \notin Marks \cup Numerals \cup LiteralStarts \cup {"quote", "-"},
         c = "/" => ~comments
  PROVE  ~Begins(Append(<<>>, c), comments)
<1> SUFFICES ASSUME Begins(Append(<<>>, c), comments)
             PROVE  FALSE
  OBVIOUS
<1>1. PICK w : w = <<>>
  OBVIOUS
<1>2. w \in Seq(Chars) /\ Len(w) = 0 /\ Begins(Append(w, c), comments)
  BY <1>1
<1>3. PICK u \in Seq(Chars) :
        /\ Extends(u, w) /\ Len(w) < Len(u) /\ u[Len(w) + 1] = c
        /\ w # <<>> => u[1] = w[1]
        /\ IsToken(u) \/ (comments /\ IsComment(u))
  <2>1. w \in Seq(Chars) /\ Begins(Append(w, c), comments)
    BY <1>2
  <2> HIDE <1>2
  <2> QED
    BY <2>1, LongerWord
<1>4. u[1] = c
  BY <1>2, <1>3
<1> QED
  BY <1>3, <1>4, KindByStart

LEMMA NothingIsNoToken == ~IsToken(<<>>)
<1>1. <<>> \in Seq(Chars)
  OBVIOUS
<1> QED
  BY <1>1, KindByStart

LEMMA NoLiteral ==
  ASSUME NEW w \in Seq(Chars), NEW s, LiteralBegun(s, w), NEW comments
  PROVE  /\ w \notin Literals /\ ~IsToken(w)
         /\ w # <<>> /\ w[1] \in LiteralStarts
         /\ \A c \in Chars \ {Head(s.want)} : ~Begins(Append(w, c), comments)
<1>1. w # <<>> /\ w[1] \in LiteralStarts
  <2>1. PICK lit \in Literals : /\ 1 <= Len(w) /\ Len(w) < Len(lit)
                                /\ w = SubSeq(lit, 1, Len(w))
    BY DEF LiteralBegun
  <2>2. w[1] = lit[1]
    <3>1. PICK n \in Nat : n = Len(w)
      OBVIOUS
    <3>2. lit \in Seq(Chars) /\ Len(lit) \in Nat
      BY LiteralLengths
    <3>3. SubSeq(lit, 1, n)[1] = lit[1]
      BY <2>1, <3>1, <3>2
    <3> QED
      BY <2>1, <3>1, <3>3
  <2>3. w # <<>>
    BY <2>1
  <2> QED
    BY <2>2, <2>3, LiteralsAre DEF LiteralStarts
<1>2. w \notin Literals
  BY Itself, LiteralIsStuck
<1>3. ~IsToken(w)
  BY <1>1, <1>2, KindByStart
<1>4. ASSUME NEW c \in Chars \ {Head(s.want)}, Begins(Append(w, c), comments)
      PROVE  FALSE
  <2>1. PICK u \in Seq(Chars) : /\ Extends(u, w) /\ u[Len(w) + 1] = c /\ u[1] = w[1]
                                /\ IsToken(u) \/ IsComment(u)
    BY <1>1, <1>4, LongerWord
  <2>2. u \in Literals
    BY <1>1, <2>1, KindByStart
  <2> QED
    BY <1>4, <2>1, <2>2, LiteralIsStuck
<1> QED
  BY <1>1, <1>2, <1>3, <1>4

LEMMA NoString ==
  ASSUME NEW w \in Seq(Chars), NEW s, s.at \in StringPlaces, StringBegun(s, w), NEW comments
  PROVE  /\ ~IsQuoted(w) /\ ~IsToken(w)
         /\ w # <<>> /\ w[1] = "quote"
         /\ \A c \in Chars \ Accepted(s) : ~Begins(Append(w, c), comments)
<1>1. w # <<>> /\ w[1] = "quote"
  BY DEF StringBegun
<1>2. ~IsQuoted(w)
  BY Itself, StringIsStuck
<1>3. ~IsToken(w)
  BY <1>1, <1>2, KindByStart
<1>4. ASSUME NEW c \in Chars \ Accepted(s), Begins(Append(w, c), comments)
      PROVE  FALSE
  <2>1. PICK u \in Seq(Chars) : /\ Extends(u, w) /\ u[Len(w) + 1] = c /\ u[1] = w[1]
                                /\ IsToken(u) \/ IsComment(u)
    BY <1>1, <1>4, LongerWord
  <2>2. IsQuoted(u)
    BY <1>1, <2>1, KindByStart
  <2> QED
    BY <1>4, <2>1, <2>2, StringIsStuck
<1> QED
  BY <1>1, <1>2, <1>3, <1>4

NumberMiddles == {"minus", "point", "exp", "expsign"}

LEMMA NumberStarts ==
  ASSUME NEW w, NEW place \in NumberEnds \cup NumberMiddles, NumberBegun(place, w)
  PROVE  w \in Seq(Chars) /\ w # <<>> /\ w[1] \in Numerals \cup {"-"}
<1>1. w \in Seq(Chars) /\ w # <<>>
  BY DEF NumberBegun
<1>2. w[1] # "-" => FirstDigit(w) = 1
  BY <1>1 DEF FirstDigit
<1>3. ASSUME NEW i, IntTo(w, i), w[1] # "-"
      PROVE  w[1] \in Numerals
  BY <1>2, <1>3 DEF IntTo, AreDigits
<1>4. place # "minus" => \E i : IntTo(w, i)
  BY DEF NumberBegun, Mantissa, NumberEnds, NumberMiddles
<1>5. place = "minus" => w[1] = "-"
  BY DEF NumberBegun
<1> QED
  BY <1>1, <1>3, <1>4, <1>5

LEMMA NoNumber ==
  ASSUME NEW w, NEW place \in NumberEnds \cup NumberMiddles, NumberBegun(place, w),
         NEW comments
  PROVE  /\ place \in NumberMiddles => ~IsToken(w)
         /\ \A c \in Chars : NumberGoes(place, c) = "stop" => ~Begins(Append(w, c), comments)
<1>1. w \in Seq(Chars) /\ w # <<>> /\ w[1] \in Numerals \cup {"-"}
  BY NumberStarts
<1>2. place \in NumberEnds \cup {"minus", "point", "exp", "expsign"}
  BY DEF NumberMiddles
<1>3. ASSUME place \in NumberMiddles, IsToken(w)
      PROVE  FALSE
  <2>1. IsReal(w)
    BY <1>1, <1>3, KindByStart
  <2>2. Extends(w, w)
    BY <1>1, Itself
  <2>3. place \in NumberEnds
    BY <1>1, <1>2, <2>1, <2>2, NumberIsStuck
  <2> QED
    BY <1>3, <2>3 DEF NumberEnds, NumberMiddles
<1>4. ASSUME NEW c \in Chars, NumberGoes(place, c) = "stop", Begins(Append(w, c), comments)
      PROVE  FALSE
  <2>1. PICK u \in Seq(Chars) : /\ Extends(u, w) /\ Len(w) < Len(u) /\ u[Len(w) + 1] = c
                                /\ u[1] = w[1] /\ (IsToken(u) \/ IsComment(u))
    BY <1>1, <1>4, LongerWord
  <2>2. IsReal(u)
    BY <1>1, <2>1, KindByStart
  <2>3. Len(u) = Len(w)
    BY <1>2, <1>4, <2>1, <2>2, NumberIsStuck
  <2>4. Len(w) \in Nat
    BY <1>1
  <2> QED
    BY <2>1, <2>3, <2>4
<1> QED
  BY <1>3, <1>4

LEMMA NoComments ==
  ASSUME NEW w \in Seq(Chars), NEW place \in CommentPlaces, CommentBegun(place, w), NEW comments
  PROVE  /\ ~IsToken(w)
         /\ w # <<>> /\ w[1] = "/"
         /\ place = "slash" => \A c \in Chars \ {"/", "*"} : ~Begins(Append(w, c), comments)
<1>1. w # <<>> /\ w[1] = "/"
  <2>1. CASE place = "slash"
    BY <2>1 DEF CommentBegun
  <2>2. CASE place = "line"
    BY <2>2 DEF CommentBegun
  <2>3. CASE place = "block"
    BY <2>3 DEF CommentBegun
  <2>4. CASE place = "star"
    BY <2>4 DEF CommentBegun
  <2> QED
    BY <2>1, <2>2, <2>3, <2>4 DEF CommentPlaces
<1>2. ~IsToken(w)
  BY <1>1, KindByStart
<1>3. ASSUME place = "slash", NEW c \in Chars \ {"/", "*"}, Begins(Append(w, c), comments)
      PROVE  FALSE
  <2>1. PICK u \in Seq(Chars) : /\ u[Len(w) + 1] = c /\ u[1] = w[1]
                                /\ IsToken(u) \/ IsComment(u)
    BY <1>1, <1>3, LongerWord
  <2>2. Len(w) = 1
    BY <1>3 DEF CommentBegun
  <2>3. u[2] = c /\ u[1] = "/"
    BY <1>1, <2>1, <2>2
  <2>4. IsComment(u)
    BY <2>1, <2>3, KindByStart
  <2> QED
    BY <1>3, <2>3, <2>4, CommentBegins
<1> QED
  BY <1>1, <1>2, <1>3

-----------------------------------------------------------------------------
(* What the lexer holds is a beginning                                     *)

LEMMA OneByOne ==
  ASSUME NEW x \in Seq(Chars), NEW c \in Chars, NEW y \in Seq(Chars)
  PROVE  Append(x, c) \o y = x \o (<<c>> \o y)
<1>1. <<c>> \in Seq(Chars)
  OBVIOUS
<1>2. Append(x, c) = x \o <<c>>
  BY AppendIsConcat
<1>3. (x \o <<c>>) \o y = x \o (<<c>> \o y)
  BY <1>1, ConcatAssociative
<1> QED
  BY <1>2, <1>3

LEMMA FilledOneMore ==
  ASSUME NEW n \in Nat, NEW c \in Chars, NEW y \in Seq(Chars)
  PROVE  /\ Filled(n, c) \in Seq(Chars) /\ Filled(n, c) \o y \in Seq(Chars)
         /\ <<c>> \o (Filled(n, c) \o y) = Filled(n + 1, c) \o y
<1>1. Filled(n, c) \in Seq(Chars) /\ Len(Filled(n, c)) = n
  BY DEF Filled
<1>2. Filled(n + 1, c) \in Seq(Chars) /\ Len(Filled(n + 1, c)) = n + 1
  BY DEF Filled
<1>3. <<c>> \in Seq(Chars) /\ Len(<<c>>) = 1
  OBVIOUS
<1>4. Filled(n, c) \o y \in Seq(Chars)
  BY <1>1
<1>5. PICK f \in Seq(Chars) : f = Filled(n, c)
  BY <1>1
<1>6. PICK g \in Seq(Chars) : g = Filled(n + 1, c)
  BY <1>2
<1>7. <<c>> \o f = g
  <2>1. PICK h : h = <<c>> \o f
    OBVIOUS
  <2>2. h \in Seq(Chars) /\ Len(h) = 1 + n
        /\ \A i \in 1 .. 1 + n : h[i] = IF i <= 1 THEN <<c>>[i] ELSE f[i - 1]
    BY <1>1, <1>3, <1>5, <2>1, ConcatProperties
  <2>3. \A i \in 1 .. n : f[i] = c
    BY <1>5 DEF Filled
  <2>4. \A i \in 1 .. n + 1 : g[i] = c
    BY <1>6 DEF Filled
  <2>5. \A i \in 1 .. n + 1 : h[i] = c
    <3>1. ASSUME NEW i \in 1 .. n + 1
          PROVE  h[i] = c
      <4>1. CASE i = 1
        BY <2>2, <4>1
      <4>2. CASE i # 1
        <5>1. i - 1 \in 1 .. n /\ ~(i <= 1) /\ i \in 1 .. 1 + n
          BY <4>2
        <5> QED
          BY <2>2, <2>3, <5>1
      <4> QED
        BY <4>1, <4>2
    <3> QED
      BY <3>1
  <2> QED
    BY <1>2, <1>6, <2>1, <2>2, <2>4, <2>5, SeqEqual
<1>8. <<c>> \o (f \o y) = (<<c>> \o f) \o y
  BY <1>3, ConcatAssociative, SMTT(20)
<1> QED
  BY <1>1, <1>4, <1>5, <1>6, <1>7, <1>8

\* n times c fill what is missing at place.
Fills(n, c, place) ==
  \A x \in Seq(Chars) : \A s :
    (StringBegun(s, x) /\ IF n = 0 THEN s.at = "string" ELSE s.at = place /\ s.left = n)
      => IsQuoted(x \o (Filled(n, c) \o <<"quote">>))

LEMMA FillsOneMore ==
  ASSUME NEW n \in Nat, NEW place, NEW c \in Chars, Fills(n, c, place),
         (place = "hex" /\ c = "0") \/ (place = "utf8" /\ c = "cont")
  PROVE  Fills(n + 1, c, place)
<1> SUFFICES ASSUME NEW x \in Seq(Chars), NEW s, StringBegun(s, x), s.at = place, s.left = n + 1
             PROVE  IsQuoted(x \o (Filled(n + 1, c) \o <<"quote">>))
  BY DEF Fills
<1>1. PICK t : t = At(IF n = 0 THEN "string" ELSE place, <<>>, n, s.tok)
  OBVIOUS
<1>2. t.tok = s.tok /\ t.left = n /\ t.at = IF n = 0 THEN "string" ELSE place
  BY <1>1 DEF At
<1>3. StringTurns(s, c, t)
  <2>1. s.left = 1 <=> n = 0
    OBVIOUS
  <2>2. IF s.left = 1 THEN t.at = "string" ELSE t.at = s.at /\ t.left = s.left - 1
    BY <1>2, <2>1
  <2>3. "0" \in HexChars /\ s.at # "string"
    BY DEF HexChars, Digits
  <2> QED
    BY <1>2, <2>2, <2>3 DEF StringTurns
<1>4. StringBegun(t, Append(x, c))
  BY <1>3, StringGrows
<1>5. PICK y : y = <<"quote">>
  OBVIOUS
<1>6. y \in Seq(Chars)
  <2>1. "quote" \in Chars
    BY DEF Chars, EscChars
  <2> QED
    BY <1>5, <2>1
<1>7. IsQuoted(Append(x, c) \o (Filled(n, c) \o y))
  <2>1. Append(x, c) \in Seq(Chars)
    OBVIOUS
  <2>2. IF n = 0 THEN t.at = "string" ELSE t.at = place /\ t.left = n
    BY <1>2
  <2> QED
    BY <1>4, <1>5, <2>1, <2>2 DEF Fills
<1>8. Append(x, c) \o (Filled(n, c) \o y) = x \o (Filled(n + 1, c) \o y)
  <2>1. PICK z \in Seq(Chars) : z = Filled(n, c) \o y
    BY <1>6, FilledOneMore
  <2>2. Append(x, c) \o z = x \o (<<c>> \o z)
    BY OneByOne
  <2>3. <<c>> \o z = Filled(n + 1, c) \o y
    BY <1>6, <2>1, FilledOneMore
  <2> QED
    BY <2>1, <2>2, <2>3
<1> QED
  BY <1>5, <1>7, <1>8

LEMMA FillsIt ==
  ASSUME NEW place, NEW c \in Chars, (place = "hex" /\ c = "0") \/ (place = "utf8" /\ c = "cont")
  PROVE  \A n \in Nat : Fills(n, c, place)
<1> DEFINE S == {n \in Nat : Fills(n, c, place)}
<1>1. Fills(0, c, place)
  <2> SUFFICES ASSUME NEW x \in Seq(Chars), NEW s, StringBegun(s, x), s.at = "string"
               PROVE  IsQuoted(x \o (Filled(0, c) \o <<"quote">>))
    BY DEF Fills
  <2>1. IsQuoted(Append(x, "quote"))
    BY StringIsOver
  <2>2. Filled(0, c) = <<>>
    BY DEF Filled
  <2>3. PICK q \in Chars : q = "quote"
    BY DEF Chars, EscChars
  <2>4. <<q>> \in Seq(Chars)
    OBVIOUS
  <2>5. <<>> \o <<q>> = <<q>>
    BY <2>4, ConcatEmptySeq
  <2>6. Append(x, q) = x \o <<q>>
    BY AppendIsConcat
  <2> QED
    BY <2>1, <2>2, <2>3, <2>5, <2>6
<1>2. \A n \in Nat : n \in S => n + 1 \in S
  BY FillsOneMore
<1>3. 0 \in S
  BY <1>1
<1> HIDE DEF S
<1>4. \A n \in Nat : n \in S
  BY <1>2, <1>3, InductionOnNat
<1> QED
  BY <1>4 DEF S

LEMMA QuotedIsToken ==
  ASSUME NEW v, IsQuoted(v)
  PROVE  IsToken(v)
<1>1. IsWord("string", v) \/ IsWord("string_with_escapes", v)
  BY WordsOfTokens
<1> QED
  BY <1>1 DEF IsToken, TokenNames

LEMMA StringBeginning ==
  ASSUME NEW w \in Seq(Chars), NEW s, s.at \in StringPlaces, StringBegun(s, w)
  PROVE  \E c \in Completions : IsToken(w \o c)
<1>1. "0" \in Chars /\ "cont" \in Chars /\ "n" \in Chars /\ "quote" \in Chars
  BY DEF Chars, HexChars, Digits, HighChars, EscChars
<1>2. ASSUME NEW n \in 0 .. 4
      PROVE  Filled(n, "0") \o <<"quote">> \in Completions
  <2>1. Filled(n, "0") \o <<"quote">> \in HexEnds
    BY <1>2, Zenon DEF HexEnds
  <2> QED
    BY <2>1 DEF Completions
<1>3. ASSUME NEW n \in 1 .. 3
      PROVE  Filled(n, "cont") \o <<"quote">> \in Completions
  <2>1. Filled(n, "cont") \o <<"quote">> \in Utf8Ends
    BY <1>3, Zenon DEF Utf8Ends
  <2> QED
    BY <2>1 DEF Completions
<1>4. CASE s.at = "string"
  <2>1. Fills(0, "0", "hex")
    BY <1>1, FillsIt
  <2>2. IsQuoted(w \o (Filled(0, "0") \o <<"quote">>))
    BY <1>4, <2>1 DEF Fills
  <2> QED
    BY <1>2, <2>2, QuotedIsToken
<1>5. CASE s.at = "hex"
  <2>1. PICK n \in 1 .. 4 : n = s.left
    BY <1>5 DEF StringBegun, UnitBegun
  <2>2. n \in Nat /\ n # 0 /\ n \in 0 .. 4
    BY <2>1
  <2>3. Fills(n, "0", "hex")
    BY <1>1, <2>2, FillsIt
  <2>4. IsQuoted(w \o (Filled(n, "0") \o <<"quote">>))
    BY <1>5, <2>1, <2>2, <2>3 DEF Fills
  <2> QED
    BY <1>2, <2>2, <2>4, QuotedIsToken
<1>6. CASE s.at = "utf8"
  <2>1. PICK b \in 1 .. Len(w) : w[b + 1] \in Leads /\ s.left \in 1 .. Tails[w[b + 1]]
    BY <1>6 DEF StringBegun, UnitBegun
  <2>2. PICK m \in 1 .. 3 : m = Tails[w[b + 1]]
    BY <2>1, LeadsAreTails
  <2>3. PICK n \in 1 .. m : n = s.left
    BY <2>1, <2>2
  <2>4. n \in Nat /\ n # 0 /\ n \in 1 .. 3
    BY <2>2, <2>3
  <2>5. Fills(n, "cont", "utf8")
    BY <1>1, <2>4, FillsIt
  <2>6. IsQuoted(w \o (Filled(n, "cont") \o <<"quote">>))
    BY <1>6, <2>3, <2>4, <2>5 DEF Fills
  <2> QED
    BY <1>3, <2>4, <2>6, QuotedIsToken
<1>7. CASE s.at = "escape"
  <2>1. PICK t : t = At("string", <<>>, 0, s.tok)
    OBVIOUS
  <2>2. t.at = "string" /\ t.tok = s.tok
    BY <2>1 DEF At
  <2>3. StringTurns(s, "n", t)
    BY <1>7, <2>2 DEF StringTurns, EscChars
  <2>4. StringBegun(t, Append(w, "n"))
    BY <1>1, <2>3, StringGrows
  <2>5. PICK v : v = Append(w, "n")
    OBVIOUS
  <2>6. v \in Seq(Chars)
    BY <1>1, <2>5
  <2>7. IsQuoted(Append(v, "quote"))
    BY <2>2, <2>4, <2>5, <2>6, StringIsOver
  <2>8. PICK q \in Chars : q = "quote"
    BY <1>1
  <2>9. Append(v, q) = v \o <<q>> /\ <<q>> \in Seq(Chars)
    BY <2>6, AppendIsConcat
  <2>10. v \o <<q>> = w \o (<<"n">> \o <<q>>)
    BY <1>1, <2>5, <2>9, OneByOne
  <2>11. <<"n">> \o <<q>> = <<"n", q>>
    <3>1. PICK p : p = "n"
      OBVIOUS
    <3>2. <<p>> \o <<q>> = <<p, q>>
      <4>1. p \in Chars
        BY <1>1, <3>1
      <4>2. <<p>> \in Seq(Chars) /\ <<q>> \in Seq(Chars) /\ <<p, q>> \in Seq(Chars)
        BY <4>1
      <4>3. PICK h : h = <<p>> \o <<q>>
        OBVIOUS
      <4>4. h \in Seq(Chars) /\ Len(h) = 2 /\ h[1] = p /\ h[2] = q
        BY <4>2, <4>3
      <4>5. \A i \in 1 .. 2 : h[i] = <<p, q>>[i]
        BY <4>4
      <4> QED
        BY <4>2, <4>3, <4>4, <4>5, SeqEqual
    <3> QED
      BY <3>1, <3>2
  <2>12. IsQuoted(w \o <<"n", "quote">>)
    BY <2>7, <2>8, <2>9, <2>10, <2>11
  <2>13. <<"n", "quote">> \in Completions
    BY DEF Completions
  <2> QED
    BY <2>12, <2>13, QuotedIsToken
<1> QED
  BY <1>4, <1>5, <1>6, <1>7 DEF StringPlaces

LEMMA LiteralBeginning ==
  ASSUME NEW w \in Seq(Chars), NEW s, LiteralBegun(s, w)
  PROVE  \E c \in Completions : IsToken(w \o c)
<1>1. PICK n \in Nat : n = Len(w)
  OBVIOUS
<1>2. PICK lit \in Literals : 1 <= n /\ n < Len(lit) /\ w = SubSeq(lit, 1, n)
  BY <1>1 DEF LiteralBegun
<1>3. lit \in Seq(Chars) /\ Len(lit) \in 4 .. 5
  BY LiteralLengths
<1>4. n \in 1 .. 4
  BY <1>2, <1>3
<1>5. PICK c : c = Drop(lit, n)
  OBVIOUS
<1>6. c \in Completions
  <2>1. c \in LiteralEnds
    BY <1>4, <1>5 DEF LiteralEnds, Literals
  <2> QED
    BY <2>1 DEF Completions
<1>7. w \o c = lit
  <2>1. PICK m \in Nat : m = Len(lit)
    BY <1>3
  <2>2. c \in Seq(Chars) /\ Len(c) = m - n /\ \A k \in 1 .. m - n : c[k] = lit[n + k]
    BY <1>2, <1>3, <1>5, <2>1, SMTT(20) DEF Drop
  <2>3. \A k \in 1 .. n : w[k] = lit[k]
    BY <1>2, <1>3
  <2>4. PICK h : h = w \o c
    OBVIOUS
  <2>5. h \in Seq(Chars) /\ Len(h) = n + (m - n)
        /\ \A i \in 1 .. n + (m - n) : h[i] = IF i <= n THEN w[i] ELSE c[i - n]
    BY <1>1, <2>2, <2>4, ConcatProperties
  <2>6. \A i \in 1 .. m : h[i] = lit[i]
    <3>1. ASSUME NEW i \in 1 .. m
          PROVE  h[i] = lit[i]
      <4>1. h[i] = IF i <= n THEN w[i] ELSE c[i - n]
        <5>1. i \in 1 .. n + (m - n)
          OBVIOUS
        <5> QED
          BY <2>5, <5>1
      <4>2. CASE i <= n
        BY <2>3, <4>1, <4>2
      <4>3. CASE ~(i <= n)
        <5>1. i - n \in 1 .. m - n /\ n + (i - n) = i
          BY <1>4, <4>3
        <5> QED
          BY <2>2, <4>1, <4>3, <5>1
      <4> QED
        BY <4>2, <4>3
    <3> QED
      BY <3>1
  <2>7. n + (m - n) = m
    OBVIOUS
  <2> QED
    BY <1>3, <2>1, <2>4, <2>5, <2>6, <2>7, SeqEqual
<1>8. IsToken(lit)
  <2>1. IsWord("bool", lit) \/ IsWord("null", lit)
    BY WordsOfTokens DEF Literals
  <2> QED
    BY <2>1 DEF IsToken, TokenNames
<1> QED
  BY <1>5, <1>6, <1>7, <1>8

LEMMA RealIsToken ==
  ASSUME NEW v, IsReal(v)
  PROVE  IsToken(v)
<1>1. IsWord("integer", v) \/ IsWord("double", v)
  BY WordsOfTokens
<1> QED
  BY <1>1 DEF IsToken, TokenNames

LEMMA NumberBeginning ==
  ASSUME NEW w, NEW place \in NumberEnds \cup NumberMiddles, NumberBegun(place, w)
  PROVE  \E c \in Completions : IsToken(w \o c)
<1>1. w \in Seq(Chars)
  BY DEF NumberBegun
<1>2. CASE place \in NumberEnds
  <2>1. IsReal(w)
    <3>1. CASE place \in {"zero", "int"}
      BY <1>1, <3>1, IntegerIsWhole, IntIsReal
    <3>2. CASE place \in {"frac", "expdigits"}
      BY <3>2, DoubleIsWhole
    <3> QED
      BY <1>2, <3>1, <3>2 DEF NumberEnds
  <2>2. w \o <<>> = w
    BY <1>1, ConcatEmptySeq
  <2>3. IsToken(w \o <<>>)
    BY <2>1, <2>2, RealIsToken
  <2>4. <<>> \in Completions
    BY DEF Completions
  <2> QED
    BY <2>3, <2>4
<1>3. CASE place \in NumberMiddles
  <2>1. PICK c \in Chars : c = "0"
    BY DEF Chars, HexChars, Digits
  <2>2. PICK to : to = NumberGoes(place, c)
    OBVIOUS
  <2>3. to \in NumberEnds
    <3>1. c \in Digits /\ c \notin Digits1 /\ c \notin {"-", ".", "e", "+"}
      BY <2>1 DEF Digits, Digits1
    <3>2. CASE place = "minus"
      BY <2>1, <2>2, <3>1, <3>2 DEF NumberGoes, NumberEnds
    <3>3. CASE place = "point"
      BY <2>1, <2>2, <3>1, <3>3 DEF NumberGoes, NumberEnds
    <3>4. CASE place \in {"exp", "expsign"}
      BY <2>1, <2>2, <3>1, <3>4 DEF NumberGoes, NumberEnds
    <3> QED
      BY <1>3, <3>2, <3>3, <3>4 DEF NumberMiddles
  <2>4. to # "stop"
    BY <2>3 DEF NumberEnds
  <2>5. place \in {"minus", "zero", "int", "point", "frac", "exp", "expsign", "expdigits"}
    BY <1>3 DEF NumberMiddles
  <2>6. NumberBegun(to, Append(w, c))
    BY <2>2, <2>4, <2>5, NumberGoesOn
  <2>7. PICK v \in Seq(Chars) : v = Append(w, c)
    BY <1>1, <2>1, Appended
  <2>8. IsReal(v)
    <3>1. CASE to \in {"zero", "int"}
      BY <2>6, <2>7, <3>1, IntegerIsWhole, IntIsReal
    <3>2. CASE to \in {"frac", "expdigits"}
      BY <2>6, <2>7, <3>2, DoubleIsWhole
    <3> QED
      BY <2>3, <3>1, <3>2 DEF NumberEnds
  <2>9. v = w \o <<c>>
    BY <1>1, <2>7, AppendIsConcat
  <2>10. IsToken(w \o <<c>>)
    BY <2>8, <2>9, RealIsToken
  <2>11. <<"0">> \in Completions
    BY DEF Completions
  <2> QED
    BY <2>1, <2>10, <2>11
<1> QED
  BY <1>2, <1>3

LEMMA CommentBeginning ==
  ASSUME NEW w \in Seq(Chars), NEW place \in CommentPlaces, CommentBegun(place, w)
  PROVE  \E c \in CommentEnds : IsComment(w \o c)
<1>1. PICK slash \in Chars : slash = "/"
  BY DEF Chars, EscChars
<1>2. PICK star \in Chars : star = "*"
  BY DEF Chars
<1>3. PICK newline \in Chars : newline = "newline"
  BY DEF Chars, Space
<1>4. ASSUME NEW c \in Chars, IsComment(Append(w, c)), <<c>> \in CommentEnds
      PROVE  \E e \in CommentEnds : IsComment(w \o e)
  <2>1. Append(w, c) = w \o <<c>>
    BY AppendIsConcat
  <2> QED
    BY <1>4, <2>1
<1>5. ASSUME NEW c \in Chars, NEW d \in Chars, IsComment(Append(Append(w, c), d)),
             <<c, d>> \in CommentEnds
      PROVE  \E e \in CommentEnds : IsComment(w \o e)
  <2>1. Append(w, c) \in Seq(Chars) /\ <<d>> \in Seq(Chars)
    OBVIOUS
  <2>2. Append(Append(w, c), d) = Append(w, c) \o <<d>>
    BY <2>1, AppendIsConcat
  <2>3. Append(w, c) \o <<d>> = w \o (<<c>> \o <<d>>)
    BY <2>1, OneByOne
  <2>4. <<c>> \o <<d>> = <<c, d>>
    <3>1. <<c>> \in Seq(Chars) /\ <<d>> \in Seq(Chars) /\ <<c, d>> \in Seq(Chars)
      OBVIOUS
    <3>2. PICK h : h = <<c>> \o <<d>>
      OBVIOUS
    <3>3. h \in Seq(Chars) /\ Len(h) = 2 /\ h[1] = c /\ h[2] = d
      BY <3>1, <3>2
    <3>4. \A i \in 1 .. 2 : h[i] = <<c, d>>[i]
      BY <3>3
    <3> QED
      BY <3>1, <3>2, <3>3, <3>4, SeqEqual
  <2> QED
    BY <1>5, <2>2, <2>3, <2>4
<1>6. CASE place = "slash"
  <2>1. CommentBegun("line", Append(w, slash))
    BY <1>1, <1>6, CommentGrows DEF CommentTurns
  <2>2. IsComment(Append(Append(w, slash), newline))
    <3>1. Append(w, slash) \in Seq(Chars)
      OBVIOUS
    <3> QED
      BY <3>1, <1>3, <2>1, CommentIsOver
  <2>3. <<slash, newline>> \in CommentEnds
    BY <1>1, <1>3 DEF CommentEnds
  <2> QED
    BY <1>5, <2>2, <2>3
<1>7. CASE place = "line"
  <2>1. IsComment(Append(w, newline))
    BY <1>3, <1>7, CommentIsOver
  <2>2. <<newline>> \in CommentEnds
    BY <1>3 DEF CommentEnds
  <2> QED
    BY <1>4, <2>1, <2>2
<1>8. CASE place = "block"
  <2>1. star # "/"
    BY <1>2
  <2>2. CommentBegun("star", Append(w, star))
    BY <1>2, <1>8, <2>1, CommentGrows DEF CommentTurns
  <2>3. IsComment(Append(Append(w, star), slash))
    <3>1. Append(w, star) \in Seq(Chars)
      OBVIOUS
    <3> QED
      BY <3>1, <1>1, <2>2, CommentIsOver
  <2>4. <<star, slash>> \in CommentEnds
    BY <1>1, <1>2 DEF CommentEnds
  <2> QED
    BY <1>5, <2>3, <2>4
<1>9. CASE place = "star"
  <2>1. IsComment(Append(w, slash))
    BY <1>1, <1>9, CommentIsOver
  <2>2. <<slash>> \in CommentEnds
    BY <1>1 DEF CommentEnds
  <2> QED
    BY <1>4, <2>1, <2>2
<1> QED
  BY <1>6, <1>7, <1>8, <1>9 DEF CommentPlaces

(* Wherever the lexer stands, what it has read of a token is a beginning,  *)
(* and no word that is over.                                               *)
LEMMA BegunIsUnfinished ==
  ASSUME NEW w \in Seq(Chars), NEW s, NEW comments, Begun(s, w, comments)
  PROVE  Unfinished(w, comments)
<1>1. ASSUME NEW c, w # <<>>, w[1] = c,
             c = "quote" => ~IsQuoted(w), c \in LiteralStarts => w \notin Literals,
             c \notin Marks, c = "/" => ~IsComment(w)
      PROVE  ~Whole(w)
  <2>1. IsQuoted(w) => c = "quote"
    BY <1>1 DEF IsQuoted
  <2>2. w \in Literals => c \in LiteralStarts
    BY <1>1, LiteralsAre DEF LiteralStarts
  <2>3. (\E m \in Marks : w = <<m>>) => c \in Marks
    BY <1>1
  <2>4. IsComment(w) => c = "/"
    BY <1>1, CommentBegins
  <2> QED
    BY <1>1, <2>1, <2>2, <2>3, <2>4 DEF Whole
<1>2. CASE w = <<>>
  <2>1. ~IsQuoted(w) /\ w \notin Literals /\ ~ \E m \in Marks : w = <<m>>
    BY <1>2, LiteralsAre DEF IsQuoted
  <2>2. ~IsComment(w)
    BY <1>2, CommentBegins
  <2> QED
    BY <1>2, <2>1, <2>2 DEF Unfinished, Whole, IsBeginning
<1>3. CASE s.at = "word" /\ LiteralBegun(s, w)
  <2>1. w # <<>> /\ w[1] \in LiteralStarts /\ w \notin Literals
    BY <1>3, NoLiteral
  <2>2. w[1] \notin Marks \cup {"quote", "/"}
    BY <2>1 DEF LiteralStarts, Marks
  <2>3. ~Whole(w)
    BY <1>1, <2>1, <2>2
  <2> QED
    BY <1>3, <2>3, LiteralBeginning DEF Unfinished, IsBeginning
<1>4. CASE s.at \in StringPlaces /\ StringBegun(s, w)
  <2>1. w # <<>> /\ w[1] = "quote" /\ ~IsQuoted(w)
    BY <1>4, NoString
  <2>2. w[1] \notin Marks \cup LiteralStarts \cup {"/"}
    BY <2>1 DEF LiteralStarts, Marks
  <2>3. ~Whole(w)
    BY <1>1, <2>1, <2>2
  <2> QED
    BY <1>4, <2>3, StringBeginning DEF Unfinished, IsBeginning
<1>5. CASE s.at \in NumberPlaces \ {"number"} /\ NumberBegun(s.at, w)
  <2>1. s.at \in NumberEnds \cup NumberMiddles
    BY <1>5 DEF NumberPlaces, NumberEnds, NumberMiddles
  <2>2. w # <<>> /\ w[1] \in Numerals \cup {"-"}
    BY <1>5, <2>1, NumberStarts
  <2>3. w[1] \notin Marks \cup LiteralStarts \cup {"/", "quote"}
    BY <2>2 DEF LiteralStarts, Marks, Numerals
  <2>4. ~Whole(w)
    BY <1>1, <2>2, <2>3
  <2>5. \E c \in Completions : IsToken(w \o c)
    BY <1>5, <2>1, NumberBeginning
  <2> QED
    BY <2>4, <2>5 DEF Unfinished, IsBeginning
<1>6. CASE comments /\ s.at \in CommentPlaces /\ CommentBegun(s.at, w)
  <2>1. w # <<>> /\ w[1] = "/" /\ ~IsComment(w)
    BY <1>6, NoComments, CommentIsNotOver
  <2>2. w[1] \notin Marks \cup LiteralStarts \cup {"quote"}
    BY <2>1 DEF LiteralStarts, Marks
  <2>3. ~Whole(w)
    BY <1>1, <2>1, <2>2
  <2> QED
    BY <1>6, <2>3, CommentBeginning DEF Unfinished, IsBeginning
<1> QED
  BY <1>2, <1>3, <1>4, <1>5, <1>6 DEF Begun

-----------------------------------------------------------------------------
(* Parts of the text                                                       *)

LEMMA PartTyped ==
  ASSUME input \in Seq(Chars), NEW b \in 0 .. Len(input), NEW a \in 0 .. b
  PROVE  /\ Part(a, b) \in Seq(Chars) /\ Len(Part(a, b)) = b - a
         /\ \A k \in 1 .. b - a : Part(a, b)[k] = input[a + k]
<1>1. PICK m \in Nat : m = Len(input)
  OBVIOUS
<1>2. \A k \in a + 1 .. b : input[k] \in Chars
  BY <1>1
<1>3. b - a \in Nat /\ a + 1 \in Int /\ a \in Nat /\ b \in Nat
  BY <1>1
<1>4. Part(a, b) \in Seq(Chars)
  BY <1>2, <1>3 DEF Part
<1>5. Len(Part(a, b)) = b - a
  BY <1>1, <1>3 DEF Part
<1>6. \A k \in 1 .. b - a : Part(a, b)[k] = input[a + k]
  BY <1>1, <1>3 DEF Part
<1> QED
  BY <1>4, <1>5, <1>6

LEMMA PartAppend ==
  ASSUME input \in Seq(Chars), NEW b \in 0 .. Len(input) - 1, NEW a \in 0 .. b
  PROVE  /\ input[b + 1] \in Chars
         /\ Part(a, b + 1) = Append(Part(a, b), input[b + 1])
<1>1. PICK m \in Nat : m = Len(input)
  OBVIOUS
<1>2. b \in 0 .. m /\ b + 1 \in 0 .. m /\ a \in 0 .. b + 1 /\ b + 1 \in 1 .. m
  BY <1>1
<1>3. PICK c \in Chars : c = input[b + 1]
  BY <1>1, <1>2
<1>4. PICK w \in Seq(Chars) : /\ w = Part(a, b) /\ Len(w) = b - a
                              /\ \A k \in 1 .. b - a : w[k] = input[a + k]
  BY <1>1, <1>2, PartTyped
<1>5. PICK v \in Seq(Chars) : /\ v = Part(a, b + 1) /\ Len(v) = b + 1 - a
                              /\ \A k \in 1 .. b + 1 - a : v[k] = input[a + k]
  <2>1. PICK d \in 0 .. Len(input) : d = b + 1
    BY <1>1, <1>2
  <2>2. a \in 0 .. d
    BY <1>2, <2>1
  <2>3. /\ Part(a, d) \in Seq(Chars) /\ Len(Part(a, d)) = d - a
        /\ \A k \in 1 .. d - a : Part(a, d)[k] = input[a + k]
    BY <2>2, PartTyped
  <2> QED
    BY <2>1, <2>3
<1>6. PICK u : u = Append(w, c)
  OBVIOUS
<1>7. u \in Seq(Chars) /\ Len(u) = b + 1 - a /\ u[b + 1 - a] = c
      /\ \A k \in 1 .. b - a : u[k] = w[k]
  BY <1>1, <1>2, <1>4, <1>6
<1>8. \A k \in 1 .. b + 1 - a : u[k] = v[k]
  <2>1. ASSUME NEW k \in 1 .. b + 1 - a
        PROVE  u[k] = v[k]
    <3>1. CASE k = b + 1 - a
      <4>1. a + k = b + 1
        BY <1>2, <3>1
      <4> QED
        BY <1>3, <1>5, <1>7, <3>1, <4>1
    <3>2. CASE k # b + 1 - a
      <4>1. k \in 1 .. b - a
        BY <1>2, <3>2
      <4> QED
        BY <1>4, <1>5, <1>7, <4>1
    <3> QED
      BY <3>1, <3>2
  <2> QED
    BY <2>1
<1>9. u = v
  BY <1>5, <1>7, <1>8, SeqEqual
<1> QED
  BY <1>3, <1>4, <1>5, <1>6, <1>9

LEMMA PartJoined ==
  ASSUME input \in Seq(Chars), NEW c \in 0 .. Len(input), NEW b \in 0 .. c, NEW a \in 0 .. b
  PROVE  Part(a, b) \o Part(b, c) = Part(a, c)
<1>1. PICK m \in Nat : m = Len(input)
  OBVIOUS
<1>2. b \in 0 .. m /\ a \in 0 .. c /\ a \in Nat /\ b \in Nat /\ c \in Nat
  BY <1>1
<1>3. PICK w \in Seq(Chars) : /\ w = Part(a, b) /\ Len(w) = b - a
                              /\ \A k \in 1 .. b - a : w[k] = input[a + k]
  BY <1>1, <1>2, PartTyped
<1>4. PICK v \in Seq(Chars) : /\ v = Part(b, c) /\ Len(v) = c - b
                              /\ \A k \in 1 .. c - b : v[k] = input[b + k]
  BY <1>1, <1>2, PartTyped
<1>5. PICK u \in Seq(Chars) : /\ u = Part(a, c) /\ Len(u) = c - a
                              /\ \A k \in 1 .. c - a : u[k] = input[a + k]
  BY <1>1, <1>2, PartTyped
<1>6. PICK x : x = w \o v
  OBVIOUS
<1>7. /\ x \in Seq(Chars) /\ Len(x) = (b - a) + (c - b)
      /\ \A k \in 1 .. (b - a) + (c - b) : x[k] = IF k <= b - a THEN w[k] ELSE v[k - (b - a)]
  <2>1. PICK p : p = Len(w)
    OBVIOUS
  <2>2. PICK q : q = Len(v)
    OBVIOUS
  <2>3. x \in Seq(Chars) /\ Len(x) = p + q
        /\ \A k \in 1 .. p + q : x[k] = IF k <= p THEN w[k] ELSE v[k - p]
    BY <1>6, <2>1, <2>2, ConcatProperties
  <2> QED
    BY <1>3, <1>4, <2>1, <2>2, <2>3
<1>8. \A k \in 1 .. c - a : x[k] = u[k]
  <2>1. ASSUME NEW k \in 1 .. c - a
        PROVE  x[k] = u[k]
    <3>1. x[k] = IF k <= b - a THEN w[k] ELSE v[k - (b - a)]
      <4>1. k \in 1 .. (b - a) + (c - b)
        BY <1>2
      <4> QED
        BY <1>7, <4>1
    <3>2. CASE k <= b - a
      BY <1>2, <1>3, <1>5, <3>1, <3>2
    <3>3. CASE ~(k <= b - a)
      <4>1. k - (b - a) \in 1 .. c - b /\ b + (k - (b - a)) = a + k
        BY <1>2, <3>3
      <4> QED
        BY <1>4, <1>5, <3>1, <3>3, <4>1
    <3> QED
      BY <3>2, <3>3
  <2> QED
    BY <2>1
<1>9. Len(x) = c - a
  BY <1>2, <1>7
<1>10. x = u
  BY <1>5, <1>7, <1>8, <1>9, SeqEqual
<1> QED
  BY <1>3, <1>4, <1>5, <1>6, <1>10

LEMMA PartExtends ==
  ASSUME input \in Seq(Chars), NEW c \in 0 .. Len(input), NEW b \in 0 .. c, NEW a \in 0 .. b
  PROVE  Extends(Part(a, c), Part(a, b))
<1>1. PICK m \in Nat : m = Len(input)
  OBVIOUS
<1>2. b \in 0 .. m /\ a \in 0 .. c /\ a \in Nat /\ b \in Nat /\ c \in Nat
  BY <1>1
<1>3. PICK w \in Seq(Chars) : /\ w = Part(a, b) /\ Len(w) = b - a
                              /\ \A k \in 1 .. b - a : w[k] = input[a + k]
  BY <1>1, <1>2, PartTyped
<1>4. PICK u \in Seq(Chars) : /\ u = Part(a, c) /\ Len(u) = c - a
                              /\ \A k \in 1 .. c - a : u[k] = input[a + k]
  BY <1>1, <1>2, PartTyped
<1>5. \A k \in 1 .. b - a : u[k] = w[k]
  <2>1. \A k \in 1 .. b - a : k \in 1 .. c - a
    BY <1>2
  <2> QED
    BY <1>3, <1>4, <2>1
<1> QED
  BY <1>2, <1>3, <1>4, <1>5 DEF Extends

LEMMA PartOfPart ==
  ASSUME input \in Seq(Chars), NEW c \in 0 .. Len(input), NEW b \in 0 .. c, NEW a \in 0 .. b,
         NEW n, n = b - a
  PROVE  SubSeq(Part(a, c), 1, n) = Part(a, b)
<1>1. PICK m \in Nat : m = Len(input)
  OBVIOUS
<1>2. b \in 0 .. m /\ a \in 0 .. c /\ a \in Nat /\ b \in Nat /\ c \in Nat /\ n \in Nat /\ n <= c - a
  BY <1>1
<1>3. PICK w \in Seq(Chars) : /\ w = Part(a, b) /\ Len(w) = n
                              /\ \A k \in 1 .. n : w[k] = input[a + k]
  BY <1>1, <1>2, PartTyped
<1>4. PICK u \in Seq(Chars) : /\ u = Part(a, c) /\ Len(u) = c - a
                              /\ \A k \in 1 .. c - a : u[k] = input[a + k]
  BY <1>1, <1>2, PartTyped
<1>5. PICK x : x = SubSeq(u, 1, n)
  OBVIOUS
<1>6. x \in Seq(Chars) /\ Len(x) = n /\ \A k \in 1 .. n : x[k] = u[k]
  BY <1>2, <1>4, <1>5
<1>7. \A k \in 1 .. n : x[k] = w[k]
  <2>1. \A k \in 1 .. n : k \in 1 .. c - a
    BY <1>2
  <2> QED
    BY <1>3, <1>4, <1>6, <2>1
<1>8. x = w
  BY <1>3, <1>6, <1>7, SeqEqual
<1> QED
  BY <1>3, <1>4, <1>5, <1>8

-----------------------------------------------------------------------------
(* Where the lexer stands                                                  *)

Lexing  == LexInv /\ WordsInv /\ scan.at # "idle"
Reading == Lexing /\ offset < Len(text)

LEMMA Where ==
  ASSUME Lexing
  PROVE  /\ input \in Seq(Chars) /\ Len(input) \in Nat /\ fed \in 0 .. Len(input)
         /\ Base \in Nat /\ Base + Len(text) = fed /\ Len(text) \in Nat
         /\ offset \in 0 .. Len(text) /\ startOffset \in 0 .. offset /\ bufOff \in Nat
         /\ Len(buf) \in Nat /\ last = "none"
         /\ TokenStart \in 0 .. fed
         /\ Holding => TokenStart = Base - Len(buf) /\ startOffset = 0 /\ Len(buf) > 0
         /\ ~Holding => TokenStart = Base + startOffset
         /\ InBuf => /\ Holding /\ offset = 0 /\ bufOff < Len(buf)
                     /\ Cursor = TokenStart + bufOff
         /\ ~InBuf => Cursor = Base + offset
         /\ Cursor \in TokenStart .. fed
<1>1. /\ input \in Seq(Chars) /\ Len(input) \in Nat /\ fed \in 0 .. Len(input)
      /\ Len(text) \in Nat /\ offset \in 0 .. Len(text) /\ startOffset \in 0 .. offset
      /\ bufOff \in Nat /\ Len(buf) \in Nat /\ last = "none" /\ bufInUse \in BOOLEAN
      /\ buf # <<>> <=> Len(buf) > 0
  BY DEF Lexing, LexInv, TypesOfPositions, PieceInChunk
<1>2. Base \in Nat /\ Base + Len(text) = fed
  BY <1>1 DEF Lexing, WordsInv, Base
<1>3. Holding => TokenStart = Base - Len(buf) /\ startOffset = 0 /\ Len(buf) > 0
  BY <1>1 DEF Lexing, WordsInv, Holding, TokenStart, Held
<1>4. ~Holding => TokenStart = Base + startOffset
  BY <1>1 DEF Lexing, Holding, TokenStart, Held
<1>5. TokenStart \in 0 .. fed
  <2>1. TokenStart \in EndOf(Len(lexed)) .. fed
    BY DEF Lexing, WordsInv
  <2>2. EndOf(Len(lexed)) \in Nat
    <3>1. CASE Len(lexed) = 0
      BY <3>1 DEF EndOf
    <3>2. CASE Len(lexed) # 0
      <4>1. lexed \in Seq(Lexeme) /\ Len(lexed) \in Nat
        BY DEF Lexing, WordsInv
      <4>2. lexed[Len(lexed)] \in Lexeme
        BY <3>2, <4>1
      <4> QED
        BY <3>2, <4>2 DEF EndOf, Lexeme
    <3> QED
      BY <3>1, <3>2
  <2> QED
    BY <1>1, <2>1, <2>2
<1>6. InBuf => /\ Holding /\ offset = 0 /\ bufOff < Len(buf)
               /\ Cursor = TokenStart + bufOff
  <2> SUFFICES ASSUME InBuf
               PROVE  /\ Holding /\ offset = 0 /\ bufOff < Len(buf)
                      /\ Cursor = TokenStart + bufOff
    OBVIOUS
  <2>1. Holding /\ bufOff < Len(buf)
    BY <1>1 DEF InBuf, Holding
  <2>2. offset = 0
    BY <1>1 DEF Lexing, LexInv
  <2>3. Cursor = Base + offset - (Len(buf) - bufOff)
    BY DEF Cursor
  <2> QED
    BY <1>1, <1>2, <1>3, <2>1, <2>2, <2>3
<1>7. ~InBuf => Cursor = Base + offset
  BY <1>1, <1>2 DEF Cursor
<1>8. Cursor \in TokenStart .. fed
  <2>1. CASE InBuf
    BY <1>1, <1>2, <1>3, <1>6, <2>1
  <2>2. CASE ~InBuf
    BY <1>1, <1>2, <1>3, <1>4, <1>7, <2>2
  <2> QED
    BY <2>1, <2>2
<1> QED
  BY <1>1, <1>2, <1>3, <1>4, <1>5, <1>6, <1>7, <1>8

(* The next character is the one behind what was read.                     *)
LEMMA NextChar ==
  ASSUME Reading
  PROVE  /\ Read \in Seq(Chars) /\ Char \in Chars
         /\ Char = input[Cursor + 1] /\ Cursor + 1 \in TokenStart .. fed
         /\ Part(TokenStart, Cursor + 1) = Append(Read, Char)
<1>1. Lexing /\ offset < Len(text)
  BY DEF Reading
<1> HIDE DEF Lexing
<1> USE <1>1, Where
<1>2. Cursor + 1 <= fed
  <2>1. CASE InBuf
    BY <2>1
  <2>2. CASE ~InBuf
    BY <2>2
  <2> QED
    BY <2>1, <2>2
<1>3. Char = input[Cursor + 1]
  <2>1. CASE InBuf
    <3>1. Char = buf[bufOff + 1]
      BY <2>1 DEF Char
    <3>2. buf = Part(TokenStart, TokenStart + Len(buf))
      BY <2>1 DEF Lexing, WordsInv, InBuf
    <3>3. TokenStart + Len(buf) \in 0 .. Len(input)
      BY <2>1
    <3>4. PICK d \in 0 .. Len(input) : d = TokenStart + Len(buf)
      BY <3>3
    <3>5. PICK n \in Nat : n = Len(buf)
      OBVIOUS
    <3>6. PICK a \in Nat : a = TokenStart
      OBVIOUS
    <3>7. PICK i \in Nat : i = bufOff /\ i < n /\ Cursor = a + i
      BY <2>1, <3>5, <3>6
    <3> HIDE Where
    <3>8. a \in 0 .. d /\ d - a = n /\ i + 1 \in 1 .. n /\ a + (i + 1) = Cursor + 1
      BY <3>4, <3>5, <3>6, <3>7
    <3>9. \A k \in 1 .. d - a : Part(a, d)[k] = input[a + k]
      BY <3>8, Where, PartTyped
    <3>10. Char = Part(a, d)[i + 1]
      BY <3>1, <3>2, <3>4, <3>6, <3>7
    <3> QED
      BY <3>8, <3>9, <3>10
  <2>2. CASE ~InBuf
    <3>1. Char = text[offset + 1]
      BY <2>2 DEF Char
    <3>2. text = Part(Base, fed)
      BY DEF Lexing, WordsInv
    <3>3. Base \in 0 .. fed /\ fed - Base = Len(text)
      OBVIOUS
    <3>4. \A k \in 1 .. fed - Base : Part(Base, fed)[k] = input[Base + k]
      BY <3>3, PartTyped
    <3>5. offset + 1 \in 1 .. fed - Base /\ Base + (offset + 1) = Cursor + 1
      BY <2>2, <3>3, SMTT(20)
    <3> QED
      BY <3>1, <3>2, <3>4, <3>5
  <2> QED
    BY <2>1, <2>2
<1>4. PICK b \in 0 .. Len(input) - 1 : b = Cursor
  BY <1>2
<1>5. TokenStart \in 0 .. b /\ b \in 0 .. Len(input)
  BY <1>4
<1>6. input[b + 1] \in Chars /\ Part(TokenStart, b + 1) = Append(Part(TokenStart, b), input[b + 1])
  BY <1>5, PartAppend
<1>7. Part(TokenStart, b) \in Seq(Chars)
  BY <1>5, PartTyped
<1>8. Read = Part(TokenStart, b)
  BY <1>4, Zenon DEF Read
<1>9. Cursor + 1 \in TokenStart .. fed
  BY <1>2, <1>4, <1>5
<1> HIDE <1>1, Where
<1>10. Char = input[b + 1]
  BY <1>3, <1>4, Zenon
<1>11. Part(TokenStart, Cursor + 1) = Append(Read, Char)
  BY <1>4, <1>6, <1>8, <1>10, Zenon
<1> QED
  BY <1>3, <1>6, <1>7, <1>8, <1>9, <1>10, <1>11, Zenon

(* What a call returns, or saves, is a part of the text.                   *)
LEMMA WholePiece ==
  ASSUME Lexing, NEW p, p.offset \in offset .. Len(text)
  PROVE  (IF bufInUse THEN buf \o Piece(p) ELSE Piece(p)) = Part(TokenStart, Base + p.offset)
<1> USE Where
<1>1. PICK o \in offset .. Len(text) : o = p.offset
  OBVIOUS
<1>2. Piece(p) = Part(Base + startOffset, Base + o)
  <2>1. text \in Seq(Chars) /\ text = Part(Base, fed)
    BY DEF Lexing, LexInv, TypesOfPositions, WordsInv
  <2>2. PICK x : x = Piece(p)
    OBVIOUS
  <2>3. x = SubSeq(text, startOffset + 1, o)
    BY <1>1, <2>2 DEF Piece
  <2>4. PICK s \in 0 .. o : s = startOffset
    BY <1>1
  <2>5. PICK b \in 0 .. Len(input) : b = Base + o
    BY <1>1, SMTT(20)
  <2>6. PICK a \in 0 .. b : a = Base + s
    BY <1>1, <2>4, <2>5, SMTT(20)
  <2>7. /\ x \in Seq(Chars) /\ Len(x) = b - a
        /\ \A k \in 1 .. b - a : x[k] = text[s + k]
    <3>1. PICK n \in Nat : n = Len(text) /\ o <= n
      BY <1>1
    <3>2. x = SubSeq(text, s + 1, o)
      BY <2>3, <2>4
    <3>3. o \in Nat /\ s \in Nat /\ s <= o
      BY <1>1, <2>4
    <3>4. b - a = o - s
      <4>1. PICK z \in Nat : z = Base
        OBVIOUS
      <4> HIDE Where
      <4> QED
        BY <2>5, <2>6, <3>3, <4>1
    <3> HIDE Where
    <3>5. /\ x \in Seq(Chars) /\ Len(x) = o - s
          /\ \A k \in 1 .. o - s : x[k] = text[s + k]
      BY <2>1, <3>1, <3>2, <3>3, SMTT(20)
    <3> QED
      BY <3>4, <3>5
  <2>8. /\ Part(a, b) \in Seq(Chars) /\ Len(Part(a, b)) = b - a
        /\ \A k \in 1 .. b - a : Part(a, b)[k] = input[a + k]
    BY <2>6, PartTyped
  <2>9. \A k \in 1 .. Len(text) : text[k] = input[Base + k]
    <3>1. Base \in 0 .. fed /\ fed - Base = Len(text)
      BY SMTT(20)
    <3>2. \A k \in 1 .. fed - Base : Part(Base, fed)[k] = input[Base + k]
      BY <3>1, PartTyped
    <3> QED
      BY <2>1, <3>1, <3>2
  <2>10. \A k \in 1 .. b - a : x[k] = Part(a, b)[k]
    <3>1. ASSUME NEW k \in 1 .. b - a
          PROVE  x[k] = Part(a, b)[k]
      <4>1. s + k \in 1 .. Len(text) /\ Base + (s + k) = a + k
        <5>1. PICK z \in Nat : z = Base
          OBVIOUS
        <5>2. PICK n \in Nat : n = Len(text) /\ o <= n /\ o \in Nat
          BY <1>1, SMTT(20)
        <5> HIDE Where
        <5> QED
          BY <2>4, <2>5, <2>6, <5>1, <5>2
      <4>2. x[k] = text[s + k]
        BY <2>7
      <4> QED
        BY <2>8, <2>9, <4>1, <4>2
    <3> QED
      BY <3>1
  <2>11. x = Part(a, b)
    BY <2>7, <2>8, <2>10, SeqEqual
  <2> QED
    BY <2>2, <2>4, <2>5, <2>6, <2>11
<1>3. CASE Holding
  <2>1. buf = Part(TokenStart, Base) /\ startOffset = 0
    <3>1. buf = Part(TokenStart, TokenStart + Len(buf))
      BY <1>3 DEF Lexing, WordsInv, Holding
    <3>2. TokenStart + Len(buf) = Base
      BY <1>3
    <3> QED
      BY <1>3, <3>1, <3>2
  <2>2. PICK b \in 0 .. Len(input) : b = Base + o
    BY <1>1
  <2>3. Base \in 0 .. b /\ TokenStart \in 0 .. Base
    BY <1>1, <1>3, <2>2, SMTT(20)
  <2>4. Part(TokenStart, Base) \o Part(Base, b) = Part(TokenStart, b)
    BY <2>3, PartJoined
  <2>5. Base + startOffset = Base /\ bufInUse
    BY <1>3, <2>1 DEF Holding
  <2> HIDE Where
  <2> QED
    BY <1>1, <1>2, <2>1, <2>2, <2>4, <2>5
<1>4. CASE ~Holding
  <2>1. TokenStart = Base + startOffset
    BY <1>4
  <2>2. Piece(p) \in Seq(Chars)
    <3>1. PICK b \in 0 .. Len(input) : b = Base + o
      BY <1>1
    <3>2. TokenStart \in 0 .. b
      BY <1>1, <2>1, <3>1, SMTT(20)
    <3>3. Part(TokenStart, b) \in Seq(Chars)
      BY <3>2, PartTyped
    <3> QED
      BY <1>2, <2>1, <3>1, <3>3
  <2>3. bufInUse => buf = <<>>
    BY <1>4 DEF Holding
  <2>4. <<>> \o Piece(p) = Piece(p)
    BY <2>2, ConcatEmptySeq
  <2> QED
    BY <1>1, <1>2, <2>1, <2>3, <2>4
<1> QED
  BY <1>3, <1>4

-----------------------------------------------------------------------------
(* What a step does to the positions                                       *)

\* The text, the chunk, what is in buf and what was delivered stay.
Kept == UNCHANGED <<buf, bufInUse, text, last, input, fed, lexed, allowComments>>

LEMMA Advances ==
  ASSUME Reading, Kept, offset' = readChar.offset, bufOff' = readChar.bufOff
  PROVE  Cursor' = Cursor + 1
<1>1. Lexing /\ offset < Len(text)
  BY DEF Reading
<1> HIDE DEF Lexing
<1>2. UNCHANGED <<buf, bufInUse, text, fed>>
  BY DEF Kept
<1>3. PICK b \in Nat : b = Base
  BY <1>1, Where
<1>4. PICK n \in Nat : n = Len(buf)
  BY <1>1, Where
<1>5. offset \in Nat /\ bufOff \in Nat
  BY <1>1, Where
<1>6. Base' = b /\ Len(buf)' = n
  BY <1>2, <1>3, <1>4 DEF Base
<1>7. CASE InBuf
  <2>1. offset = 0 /\ bufInUse /\ bufOff < n
    BY <1>1, <1>4, <1>7, Where DEF InBuf
  <2>2. Cursor = b - (n - bufOff)
    BY <1>3, <1>4, <1>5, <1>7, <2>1 DEF Cursor
  <2>3. offset' = 0 /\ bufOff' = bufOff + 1
    BY <1>7, <2>1 DEF readChar, Pos
  <2>4. InBuf' <=> bufOff + 1 < n
    BY <1>2, <1>6, <2>1, <2>3 DEF InBuf
  <2>5. Cursor' = IF InBuf' THEN b - (n - (bufOff + 1)) ELSE b
    BY <1>2, <1>3, <1>4, <1>5, <1>6, <2>3 DEF Cursor
  <2> QED
    BY <1>5, <2>1, <2>2, <2>4, <2>5
<1>8. CASE ~InBuf
  <2>1. offset' = offset + 1 /\ bufOff' = bufOff
    BY <1>8 DEF readChar, Pos
  <2>2. ~InBuf'
    BY <1>2, <1>8, <2>1 DEF InBuf
  <2>3. Cursor = b + offset
    BY <1>3, <1>5, <1>8 DEF Cursor
  <2>4. Cursor' = b + (offset + 1)
    BY <1>5, <1>6, <2>1, <2>2 DEF Cursor
  <2> QED
    BY <1>5, <2>3, <2>4
<1> QED
  BY <1>7, <1>8

(* What a step within a call leaves as it was.                             *)
LEMMA Carried ==
  ASSUME Lexing, Kept, TokenStart' = TokenStart, scan'.at # "idle",
         startOffset' = startOffset,
         Begun(scan', Read', allowComments),
         scan'.at = "number" => offset' < Len(text) /\ Char' \in Digits \cup {"-"},
         (scan'.at = "block" /\ Len(Read') > 2 /\ Read'[Len(Read')] = "*") =>
           offset' < Len(text) /\ Char' # "/"
  PROVE  WordsInv'
<1>1. Base' = Base
  BY DEF Kept, Base
<1>2. \A a, b : Part(a, b)' = Part(a, b)
  BY DEF Kept, Part
<1>3. \A i : EndOf(i)' = EndOf(i)
  BY DEF Kept, EndOf
<1>4. UNCHANGED <<buf, bufInUse, text, input, fed, lexed, allowComments, startOffset>>
  BY DEF Kept
<1>5. lexed' \in Seq(Lexeme) /\ Base' \in Nat /\ text' = Part(Base, fed)'
  <2>1. Part(Base, fed)' = Part(Base, fed)
    BY <1>1, <1>4 DEF Part
  <2> QED
    BY <1>1, <1>4, <2>1 DEF Lexing, WordsInv
<1>6. /\ TokenStart' \in EndOf(Len(lexed))' .. fed'
      /\ IsBlank(input, EndOf(Len(lexed)), TokenStart, allowComments)'
  <2>1. EndOf(Len(lexed))' = EndOf(Len(lexed))
    BY <1>4 DEF EndOf
  <2> QED
    BY <1>4, <2>1 DEF Lexing, WordsInv
<1>7. bufInUse' =>
        /\ buf' = Part(TokenStart, TokenStart + Len(buf))'
        /\ Unfinished(buf, allowComments)'
  <2>1. Part(TokenStart, TokenStart + Len(buf))' = Part(TokenStart, TokenStart + Len(buf))
    BY <1>4 DEF Part
  <2> QED
    BY <1>4, <2>1 DEF Lexing, WordsInv
<1>8. Begun(scan, Read, allowComments)'
  BY <1>4
<1>9. bufInUse' /\ buf' # <<>> => startOffset' = 0
  BY <1>4 DEF Lexing, WordsInv
<1> QED
  BY <1>4, <1>5, <1>6, <1>7, <1>8, <1>9 DEF WordsInv

LEMMA SameStart ==
  ASSUME Lexing, Kept, scan'.at # "idle", startOffset' = startOffset
  PROVE  TokenStart' = TokenStart
BY DEF Lexing, Kept, TokenStart, Held, Base

(* Reading on, inside a token or a comment.                                *)
LEMMA ReadsOn ==
  ASSUME Reading, NEW s, Continue(readChar, s), s.at \notin {"idle", "number"},
         Begun(s, Append(Read, Char), allowComments),
         s.at = "block" => ~(Len(Read) > 1 /\ Char = "*")
  PROVE  WordsInv'
<1>1. /\ offset' = readChar.offset /\ bufOff' = readChar.bufOff /\ scan' = s /\ Kept
      /\ startOffset' = startOffset /\ input' = input /\ allowComments' = allowComments
  BY DEF Continue, Kept, fixed
<1>2. Lexing
  BY DEF Reading
<1>3. Cursor' = Cursor + 1 /\ TokenStart' = TokenStart
  BY <1>1, <1>2, Advances, SameStart
<1>4. Read' = Part(TokenStart, Cursor + 1)
  BY <1>1, <1>3 DEF Read, Part
<1>5. Read' = Append(Read, Char) /\ Read \in Seq(Chars) /\ Char \in Chars
  BY <1>4, NextChar
<1>6. Read'[Len(Read')] = Char /\ (Len(Read') > 2 => Len(Read) > 1)
  BY <1>5
<1> HIDE DEF Reading, Lexing
<1> QED
  BY <1>1, <1>2, <1>3, <1>5, <1>6, Carried

(* Going on after the character was given back.                            *)
LEMMA StaysHere ==
  ASSUME Reading, NEW s, Continue(unreadChar(readChar), s), s.at # "idle",
         Begun(s, Read, allowComments),
         s.at = "number" => Char \in Digits \cup {"-"},
         s.at = "block" => Char # "/"
  PROVE  WordsInv'
<1>1. Lexing /\ offset < Len(text)
  BY DEF Reading
<1>2. unreadChar(readChar) = Here
  BY <1>1, Undone DEF Lexing, UnreadUndoesRead
<1>3. /\ offset' = offset /\ bufOff' = bufOff /\ scan' = s /\ Kept
      /\ startOffset' = startOffset /\ input' = input /\ allowComments' = allowComments
  BY <1>2 DEF Continue, Kept, fixed, Here, Pos
<1>4. Cursor' = Cursor /\ TokenStart' = TokenStart
  <2>1. Cursor' = Cursor
    BY <1>3 DEF Cursor, Kept, Base, InBuf
  <2> QED
    BY <1>1, <1>3, <2>1, SameStart
<1>5. Read' = Read
  BY <1>3, <1>4 DEF Read, Part
<1>6. Char' = Char /\ text' = text
  BY <1>3 DEF Char, Kept, InBuf
<1> HIDE DEF Lexing
<1> QED
  BY <1>1, <1>3, <1>4, <1>5, <1>6, Carried

-----------------------------------------------------------------------------
(* What a call returns                                                     *)

\* What is known about the words, and what is claimed of them.
WordsHold ==
  TWords /\ TokensAreTheText /\ ErrorsAreJustified /\ HeldBackIsABeginning

LEMMA Silent ==
  ASSUME WordsInv', last' = "none"
  PROVE  WordsHold'
BY DEF WordsHold, TWords, TokensAreTheText, ErrorsAreJustified, HeldBackIsABeginning

\* The record of what was returned, its place included.
LEMMA Leaves ==
  ASSUME Lexing, NEW tok, tok # "eof", NEW p, NEW err, p.offset \in offset .. Len(text),
         Lexed(tok, p, err),
         NEW e, e = Base + p.offset
  PROVE  /\ e \in TokenStart .. fed /\ Base' + offset' = e /\ Base' = Base
         /\ Part(TokenStart, e) \in Seq(Chars) /\ Len(Part(TokenStart, e)) = e - TokenStart
         /\ lexed' = Append(lexed, [tok |-> tok, text |-> Part(TokenStart, e), end |-> e])
         /\ last' = tok /\ scan'.at = "idle" /\ bufInUse' = FALSE
         /\ UNCHANGED <<text, input, fed, allowComments>>
<1>1. /\ lexed' = Append(lexed, [tok  |-> tok,
                                 text |-> IF bufInUse THEN buf \o Piece(p) ELSE Piece(p),
                                 end  |-> fed - Len(text) + p.offset])
      /\ last' = tok /\ scan' = Go("idle") /\ bufInUse' = FALSE /\ offset' = p.offset
      /\ UNCHANGED <<text, startOffset, input, fed, allowComments>>
  BY DEF Lexed, fixed
<1>2. (IF bufInUse THEN buf \o Piece(p) ELSE Piece(p)) = Part(TokenStart, e)
  BY WholePiece
<1>3. fed - Len(text) + p.offset = e
  BY DEF Base
<1>4. lexed' = Append(lexed, [tok |-> tok, text |-> Part(TokenStart, e), end |-> e])
  BY <1>1, <1>2, <1>3
<1>5. scan'.at = "idle"
  BY <1>1 DEF Go, At
<1>6. Base' = Base /\ Base' + offset' = e
  BY <1>1 DEF Base
<1>7. e \in TokenStart .. fed /\ e \in 0 .. Len(input) /\ TokenStart \in 0 .. e
  <2>1. PICK o \in offset .. Len(text) : o = p.offset
    OBVIOUS
  <2>2. PICK b \in Nat, t \in 0 .. fed, n \in Nat, s \in 0 .. offset :
          /\ b = Base /\ t = TokenStart /\ n = Len(buf) /\ s = startOffset
          /\ t = IF Holding THEN b - n ELSE b + s
    <3>1. /\ Base \in Nat /\ TokenStart \in 0 .. fed /\ Len(buf) \in Nat
          /\ startOffset \in 0 .. offset
          /\ TokenStart = IF Holding THEN Base - Len(buf) ELSE Base + startOffset
      BY Where
    <3> QED
      BY <3>1
  <2>3. PICK m \in Nat : m = Len(text) /\ b + m = fed /\ fed \in 0 .. Len(input)
    BY <2>2, Where
  <2>4. offset \in 0 .. m /\ Len(input) \in Nat
    BY <2>3, Where
  <2>5. e = b + o /\ o \in offset .. m
    BY <2>1, <2>2, <2>3
  <2>6. e \in t .. fed /\ e \in Nat
    <3>1. offset \in Nat /\ o \in Nat /\ b \in Nat /\ n \in Nat /\ s \in Nat /\ s <= o /\ o <= m
      BY <2>2, <2>4, <2>5
    <3>2. t <= b + o
      BY <2>2, <3>1
    <3> QED
      BY <2>2, <2>3, <2>5, <3>1, <3>2, SMTT(20)
  <2> QED
    BY <2>2, <2>3, <2>4, <2>6, SMTT(20)
<1>8. input \in Seq(Chars)
  BY Where
<1>9. Part(TokenStart, e) \in Seq(Chars) /\ Len(Part(TokenStart, e)) = e - TokenStart
  BY <1>7, <1>8, PartTyped
<1> QED
  BY <1>1, <1>4, <1>5, <1>6, <1>7, <1>9

LEMMA Delivered ==
  ASSUME Lexing, NEW tok \in TokenNames, NEW p, NEW err, p.offset \in offset .. Len(text),
         Lexed(tok, p, err),
         NEW e, e = Base + p.offset,
         IsWord(tok, Part(TokenStart, e)),
         e < Len(input) => ~Begins(Part(TokenStart, e + 1), allowComments)
  PROVE  WordsHold'
<1>1. tok \notin {"eof", "error", "none"}
  BY MarksAre DEF TokenNames
<1> DEFINE word == Part(TokenStart, e)
           new  == [tok |-> tok, text |-> word, end |-> e]
<1>2. /\ e \in TokenStart .. fed /\ Base' + offset' = e /\ Base' = Base
      /\ word \in Seq(Chars) /\ Len(word) = e - TokenStart
      /\ lexed' = Append(lexed, new)
      /\ last' = tok /\ scan'.at = "idle" /\ bufInUse' = FALSE
      /\ UNCHANGED <<text, input, fed, allowComments>>
  BY <1>1, Leaves
<1>3. /\ input \in Seq(Chars) /\ Len(input) \in Nat /\ fed \in 0 .. Len(input)
      /\ Base \in Nat /\ TokenStart \in Nat
  BY Where
<1>4. lexed \in Seq(Lexeme) /\ Len(lexed) \in Nat
  BY DEF Lexing, WordsInv
<1>5. new \in Lexeme /\ new.end = e /\ new.text = word /\ new.tok = tok
  <2>1. e \in Nat
    BY <1>2, <1>3
  <2> HIDE DEF word
  <2> QED
    BY <1>2, <2>1 DEF Lexeme
<1> HIDE DEF new, word
<1>6. PICK n \in Nat : n = Len(lexed)
  BY <1>4
<1>7. /\ lexed' \in Seq(Lexeme) /\ Len(lexed)' = n + 1 /\ lexed'[n + 1] = new
      /\ \A i \in 1 .. n : lexed'[i] = lexed[i]
  BY <1>2, <1>4, <1>5, <1>6
<1>8. EndOf(n + 1)' = e /\ EndOf(n)' = EndOf(n) /\ EndOf(Len(lexed))' = e
  <2>1. EndOf(n + 1)' = lexed'[n + 1].end
    BY <1>6 DEF EndOf
  <2>2. EndOf(n)' = EndOf(n)
    BY <1>6, <1>7 DEF EndOf
  <2>3. EndOf(Len(lexed))' = lexed'[n + 1].end
    BY <1>6, <1>7 DEF EndOf
  <2> QED
    BY <1>5, <1>7, <2>1, <2>2, <2>3
<1>9. TokenStart' = e
  BY <1>1, <1>2 DEF TokenStart, Held
<1>10. WordsInv'
  <2>1. text' = Part(Base, fed)' /\ Base' \in Nat
    <3>1. Part(Base, fed)' = Part(Base, fed)
      BY <1>2 DEF Part
    <3> QED
      BY <1>2, <1>3, <3>1 DEF Lexing, WordsInv
  <2>2. TokenStart' \in EndOf(Len(lexed))' .. fed'
    BY <1>2, <1>3, <1>8, <1>9
  <2>3. IsBlank(input, EndOf(Len(lexed)), TokenStart, allowComments)'
    <3>1. e \in Nat
      BY <1>2, <1>3
    <3> QED
      BY <1>8, <1>9, <3>1, NothingIsBlank
  <2>4. last' \notin {"none", "eof"}
    BY <1>1, <1>2
  <2> QED
    BY <1>2, <1>7, <2>1, <2>2, <2>3, <2>4 DEF WordsInv
<1>11. TokensAreTheText'
  <2>1. Start(n + 1)' = TokenStart
    <3>1. Start(n + 1)' = lexed'[n + 1].end - Len(lexed'[n + 1].text)
      BY <1>6 DEF Start
    <3> QED
      BY <1>2, <1>3, <1>5, <1>7, <3>1, SMTT(20)
  <2>2. \A a, b : Part(a, b)' = Part(a, b)
    BY <1>2 DEF Part
  <2>3. IsBlank(input, EndOf(n), TokenStart, allowComments)
    BY <1>6 DEF Lexing, WordsInv
  <2>4. e < Len(input) => ~IsBeginning(Part(TokenStart, e + 1), allowComments)
    <3>1. ASSUME e < Len(input)
          PROVE  Part(TokenStart, e + 1) \in Seq(Chars)
      <4>1. PICK d \in 0 .. Len(input) : d = e + 1
        BY <1>2, <1>3, <3>1, SMTT(20)
      <4>2. TokenStart \in 0 .. d
        BY <1>2, <1>3, <4>1
      <4> QED
        BY <1>3, <4>1, <4>2, PartTyped
    <3> QED
      BY <3>1, BeginningBegins
  <2>5. /\ lexed'[n + 1].text = Part(TokenStart, e) /\ lexed'[n + 1].end = e
        /\ lexed'[n + 1].tok = tok
    BY <1>5, <1>7 DEF word
  <2>6. n + 1 - 1 = n /\ Len(lexed') = n + 1
    BY <1>6, <1>7
  <2>7. EndOf(Len(lexed) - 1)' = EndOf(n)
    <3>1. EndOf(Len(lexed) - 1)' = EndOf(n)'
      BY <2>6 DEF EndOf
    <3> QED
      BY <1>8, <3>1
  <2>8. Start(Len(lexed))' = TokenStart
    <3>1. Start(Len(lexed))' = Start(n + 1)'
      BY <2>6 DEF Start
    <3> QED
      BY <2>1, <3>1
  <2>9. Part(Start(Len(lexed)), lexed[Len(lexed)].end)' = Part(TokenStart, e)
    BY <1>2, <2>5, <2>6, <2>8 DEF Part
  <2>10. Part(Start(Len(lexed)), lexed[Len(lexed)].end + 1)' = Part(TokenStart, e + 1)
    BY <1>2, <2>5, <2>6, <2>8 DEF Part
  <2> QED
    BY <1>2, <2>3, <2>4, <2>5, <2>6, <2>7, <2>8, <2>9, <2>10 DEF TokensAreTheText
<1> QED
  BY <1>1, <1>2, <1>10, <1>11 DEF WordsHold, TWords, ErrorsAreJustified, HeldBackIsABeginning

(* A token that is whole ends in the chunk: what is in buf is not whole,   *)
(* but may become a word.                                                  *)
LEMMA BeyondBuf ==
  ASSUME Reading, Whole(Append(Read, Char)) \/ ~Begins(Append(Read, Char), allowComments)
  PROVE  ~InBuf /\ Cursor = Base + offset
<1> SUFFICES ASSUME InBuf
             PROVE  FALSE
  BY Where DEF Reading
<1>1. Lexing
  BY DEF Reading
<1> HIDE DEF Lexing
<1>2. buf = Part(TokenStart, TokenStart + Len(buf)) /\ Unfinished(buf, allowComments)
  BY <1>1 DEF Lexing, WordsInv, InBuf
<1>3. input \in Seq(Chars) /\ Cursor = TokenStart + bufOff /\ bufOff < Len(buf)
  BY <1>1, Where
<1>4. PICK t \in Nat, n \in Nat, k \in Nat, d \in 0 .. Len(input) :
        t = TokenStart /\ n = Len(buf) /\ k = bufOff /\ d = t + n /\ k < n
  <2>1. PICK t \in Nat, n \in Nat, k \in Nat :
          t = TokenStart /\ n = Len(buf) /\ k = bufOff /\ Base - n = t
    BY <1>1, Where
  <2>2. PICK b \in Nat : b = Base /\ b <= Len(input) /\ Len(input) \in Nat
    BY <1>1, Where
  <2>3. t + n \in 0 .. Len(input) /\ k < n
    BY <1>3, <2>1, <2>2
  <2> QED
    BY <2>1, <2>3
<1>5. PICK c \in 0 .. d : c = Cursor + 1
  BY <1>3, <1>4
<1>6. t \in 0 .. c
  BY <1>3, <1>4, <1>5
<1>7. Extends(Part(t, d), Part(t, c))
  BY <1>3, <1>6, PartExtends
<1>8. Part(TokenStart, Cursor + 1) = Append(Read, Char) /\ Read \in Seq(Chars) /\ Char \in Chars
  BY NextChar
<1>9. buf = Part(t, d) /\ Part(t, c) = Append(Read, Char)
  BY <1>2, <1>4, <1>5, <1>8
<1>10. buf \in Seq(Chars) /\ Part(t, c) \in Seq(Chars)
  <2>1. t \in 0 .. d
    BY <1>5, <1>6
  <2>2. c \in 0 .. Len(input)
    BY <1>5, <1>4
  <2> QED
    BY <1>3, <1>6, <1>9, <2>1, <2>2, PartTyped
<1>11. Begins(buf, allowComments)
  BY <1>2, <1>10, BeginningBegins DEF Unfinished
<1>12. Begins(Append(Read, Char), allowComments)
  BY <1>7, <1>9, <1>11, PrefixBegins
<1>13. buf = Append(Read, Char)
  BY <1>7, <1>9, <1>10, <1>11, <1>12, WholeIsWhole
<1> QED
  BY <1>2, <1>12, <1>13 DEF Unfinished

(* The last character of a token is read.                                  *)
LEMMA DeliversWhole ==
  ASSUME Reading, NEW tok \in TokenNames, NEW err, Lexed(tok, readChar, err),
         Whole(Append(Read, Char)), IsWord(tok, Append(Read, Char))
  PROVE  WordsHold'
<1>1. Lexing /\ offset < Len(text)
  BY DEF Reading
<1>2. ~InBuf /\ Cursor = Base + offset
  BY BeyondBuf
<1> HIDE DEF Lexing, Reading
<1>3. readChar.offset = offset + 1 /\ readChar.offset \in offset .. Len(text)
  BY <1>1, <1>2, Where, SMTT(20) DEF readChar, Pos
<1>4. PICK e \in Nat : e = Base + readChar.offset /\ e = Cursor + 1
  <2>1. PICK b \in Nat, o \in Nat : b = Base /\ o = offset
    BY <1>1, Where
  <2>2. b + (o + 1) \in Nat
    OBVIOUS
  <2> QED
    BY <1>2, <1>3, <2>1, <2>2
<1>5. Part(TokenStart, e) = Append(Read, Char) /\ Read \in Seq(Chars) /\ Char \in Chars
  BY <1>4, NextChar
<1>6. ASSUME e < Len(input), Begins(Part(TokenStart, e + 1), allowComments)
      PROVE  FALSE
  <2>1. PICK t \in Nat, c \in 0 .. Len(input), d \in 0 .. Len(input) :
          t = TokenStart /\ c = e /\ d = e + 1
    <3>1. TokenStart \in Nat /\ Len(input) \in Nat
      BY <1>1, Where
    <3> QED
      BY <1>4, <1>6, <3>1
  <2>2. t \in 0 .. c /\ t \in 0 .. d /\ c \in 0 .. d
    <3>1. Cursor + 1 \in t .. fed
      BY <2>1, NextChar
    <3>2. fed \in Nat
      BY <1>1, Where
    <3> QED
      BY <1>4, <2>1, <3>1, <3>2
  <2>3. input \in Seq(Chars)
    BY <1>1, Where
  <2>4. /\ Extends(Part(t, d), Part(t, c)) /\ Part(t, d) \in Seq(Chars) /\ Part(t, c) \in Seq(Chars)
        /\ Len(Part(t, d)) = d - t /\ Len(Part(t, c)) = c - t
    BY <2>1, <2>2, <2>3, PartExtends, PartTyped
  <2>5. Part(t, d) = Part(t, c)
    BY <1>5, <1>6, <2>1, <2>4, WholeIsWhole
  <2>6. d = c
    BY <2>1, <2>2, <2>4, <2>5
  <2> QED
    BY <2>1, <2>6
<1> QED
  BY <1>1, <1>3, <1>4, <1>5, <1>6, Delivered

(* The character behind a number is given back.                            *)
LEMMA DeliversNumber ==
  ASSUME Reading, NEW tok \in TokenNames, NEW err, Lexed(tok, unreadChar(readChar), err),
         IsWord(tok, Read), ~Begins(Append(Read, Char), allowComments)
  PROVE  WordsHold'
<1>1. Lexing /\ offset < Len(text)
  BY DEF Reading
<1>2. ~InBuf /\ Cursor = Base + offset
  BY BeyondBuf
<1>3. unreadChar(readChar) = Here
  BY <1>1, Undone DEF Lexing, UnreadUndoesRead
<1> HIDE DEF Lexing, Reading
<1>4. Here.offset = offset /\ Here.offset \in offset .. Len(text)
  BY <1>1, Where DEF Here, Pos
<1>5. PICK e \in Nat : e = Base + Here.offset /\ e = Cursor
  BY <1>1, <1>2, <1>4, Where
<1>6. Part(TokenStart, e) = Read
  BY <1>5 DEF Read
<1>7. Part(TokenStart, e + 1) = Append(Read, Char)
  BY <1>5, NextChar
<1> QED
  BY <1>1, <1>3, <1>4, <1>5, <1>6, <1>7, Delivered

(* The character that is read cannot go on with what was read before.      *)
LEMMA Errored ==
  ASSUME Reading, NEW p, NEW err, Lexed("error", p, err), p \in {readChar, unreadChar(readChar)},
         ~Begins(Append(Read, Char), allowComments), ~IsToken(Read)
  PROVE  WordsHold'
<1>1. Lexing /\ offset < Len(text)
  BY DEF Reading
<1>2. p.offset \in offset .. Len(text)
  <2>1. readChar.offset \in offset .. Len(text)
    BY <1>1, ReadMoves DEF Lexing
  <2>2. unreadChar(readChar) = Here
    BY <1>1, Undone DEF Lexing, UnreadUndoesRead
  <2>3. Here.offset \in offset .. Len(text)
    BY <1>1, Where DEF Here, Pos
  <2> QED
    BY <2>1, <2>2, <2>3
<1>3. IsBeginning(Read, allowComments) /\ Read \in Seq(Chars)
  <2>1. Begun(scan, Read, allowComments) /\ Read \in Seq(Chars)
    BY <1>1, NextChar DEF Lexing, WordsInv
  <2> QED
    BY <2>1, BegunIsUnfinished DEF Unfinished
<1> HIDE DEF Lexing
<1>4. PICK e : e = Base + p.offset
  OBVIOUS
<1> DEFINE new == [tok |-> "error", text |-> Part(TokenStart, e), end |-> e]
<1>5. /\ lexed' = Append(lexed, new) /\ last' = "error"
      /\ UNCHANGED <<text, input, fed, allowComments>>
  BY <1>1, <1>2, <1>4, Leaves
<1> HIDE DEF new
<1>6. lexed \in Seq(Lexeme)
  BY <1>1 DEF Lexing, WordsInv
<1>7. PICK n \in Nat : n = Len(lexed)
  BY <1>6
<1>8. Len(lexed)' = n + 1 /\ \A i \in 1 .. n : lexed'[i] = lexed[i]
  BY <1>5, <1>6, <1>7
<1>9. EndOf(Len(lexed) - 1)' = EndOf(Len(lexed))
  BY <1>7, <1>8 DEF EndOf
<1>10. PICK t \in Nat, f \in 0 .. Len(input), c \in Nat, d \in Nat :
         /\ t = TokenStart /\ f = fed /\ c = Cursor /\ d = c + 1
         /\ c \in t .. f /\ d \in t .. f
  <2>1. TokenStart \in Nat /\ fed \in 0 .. Len(input) /\ Cursor \in TokenStart .. fed
    BY <1>1, Where
  <2>2. Cursor + 1 \in TokenStart .. fed
    BY NextChar
  <2> QED
    BY <2>1, <2>2
<1>11. input \in Seq(Chars) /\ Len(input) \in Nat
  BY <1>1, Where
<1> DEFINE rest == Part(t, f)
<1>12. Part(t, f)' = rest
  BY <1>5 DEF Part
<1>13. rest \in Rests(Len(lexed) - 1)'
  <2>1. TokenStart \in EndOf(Len(lexed)) .. fed
        /\ IsBlank(input, EndOf(Len(lexed)), TokenStart, allowComments)
    BY <1>1 DEF Lexing, WordsInv
  <2>2. Part(t, fed)' = rest
    BY <1>5, <1>10 DEF Part
  <2> HIDE DEF rest
  <2> QED
    BY <1>5, <1>9, <1>10, <2>1, <2>2 DEF Rests
<1>14. d - t \in 1 .. Len(rest) /\ d - t - 1 = c - t
  <2>1. Len(rest) = f - t
    <3>1. t \in 0 .. f
      BY <1>10
    <3> QED
      BY <1>10, <1>11, <3>1, PartTyped
  <2> HIDE DEF rest
  <2> QED
    BY <1>10, <1>11, <2>1
<1>15. SubSeq(rest, 1, d - t) = Append(Read, Char)
  <2>1. d \in 0 .. f /\ t \in 0 .. d
    BY <1>10, <1>11
  <2>2. SubSeq(rest, 1, d - t) = Part(t, d)
    BY <1>10, <1>11, <2>1, PartOfPart
  <2>3. Part(t, d) = Append(Read, Char)
    BY <1>10, NextChar
  <2> QED
    BY <2>2, <2>3
<1>16. SubSeq(rest, 1, c - t) = Read
  <2>1. c \in 0 .. f /\ t \in 0 .. c
    BY <1>10, <1>11
  <2>2. SubSeq(rest, 1, c - t) = Part(t, c)
    BY <1>10, <1>11, <2>1, PartOfPart
  <2>3. Part(t, c) = Read
    BY <1>10 DEF Read
  <2> QED
    BY <2>2, <2>3
<1>17. ~IsBeginning(Append(Read, Char), allowComments)
  <2>1. Append(Read, Char) \in Seq(Chars)
    BY NextChar
  <2> QED
    BY <2>1, BeginningBegins
<1>18. ErrorsAreJustified'
  <2> HIDE DEF rest
  <2>1. \E r \in Rests(Len(lexed) - 1)' : \E k \in 1 .. Len(r) :
          /\ ~IsBeginning(SubSeq(r, 1, k), allowComments)
          /\ IsBeginning(SubSeq(r, 1, k - 1), allowComments)
          /\ ~IsToken(SubSeq(r, 1, k - 1))
    BY <1>3, <1>13, <1>14, <1>15, <1>16, <1>17
  <2> QED
    BY <1>5, <2>1 DEF ErrorsAreJustified
<1> QED
  BY <1>5, <1>18 DEF WordsHold, TWords, TokensAreTheText, HeldBackIsABeginning

-----------------------------------------------------------------------------
(* The steps between two tokens                                            *)

LEMMA EndIsNat ==
  ASSUME lexed \in Seq(Lexeme)
  PROVE  EndOf(Len(lexed)) \in Nat
<1>1. CASE Len(lexed) = 0
  BY <1>1 DEF EndOf
<1>2. CASE Len(lexed) # 0
  <2>1. lexed[Len(lexed)] \in Lexeme
    BY <1>2
  <2> QED
    BY <1>2, <2>1 DEF EndOf, Lexeme
<1> QED
  BY <1>1, <1>2

LEMMA EmptyPart ==
  ASSUME input \in Seq(Chars), NEW a \in 0 .. Len(input)
  PROVE  Part(a, a) = <<>>
<1>1. a \in Nat /\ a \in 0 .. a /\ a - a = 0
  OBVIOUS
<1>2. Part(a, a) \in Seq(Chars) /\ Len(Part(a, a)) = 0
  BY <1>1, PartTyped
<1> QED
  BY <1>2

LEMMA NothingIsUnfinished ==
  ASSUME NEW comments
  PROVE  Unfinished(<<>>, comments)
<1>1. <<>> \in Seq(Chars)
  OBVIOUS
<1>2. Go("top").at = "top"
  BY DEF Go, At
<1>3. Begun(Go("top"), <<>>, comments)
  BY <1>2 DEF Begun
<1> QED
  BY <1>1, <1>3, BegunIsUnfinished

(* What is skipped is space or a comment; the next token begins behind it. *)
LEMMA Skips ==
  ASSUME Reading, IsGap(input, TokenStart, Cursor + 1, allowComments),
         UNCHANGED <<text, last, input, fed, lexed, allowComments>>,
         scan'.at = "top", TokenStart' = Cursor + 1, Cursor' = Cursor + 1,
         bufInUse' => buf' = <<>>
  PROVE  WordsInv'
<1>1. Lexing
  BY DEF Reading
<1> HIDE DEF Lexing
<1>2. PICK t \in 0 .. Len(input), c \in 0 .. Len(input) :
        t = TokenStart /\ c = Cursor + 1 /\ t < c /\ c <= fed /\ fed \in 0 .. Len(input)
  <2>1. TokenStart \in Nat /\ fed \in 0 .. Len(input) /\ Len(input) \in Nat
        /\ Cursor \in TokenStart .. fed
    BY <1>1, Where
  <2>2. Cursor + 1 \in TokenStart .. fed
    BY NextChar
  <2> QED
    BY <2>1, <2>2
<1>3. PICK n \in Nat : n = EndOf(Len(lexed)) /\ n <= t /\ IsBlank(input, n, t, allowComments)
  <2>1. lexed \in Seq(Lexeme) /\ TokenStart \in EndOf(Len(lexed)) .. fed
        /\ IsBlank(input, EndOf(Len(lexed)), TokenStart, allowComments)
    BY <1>1 DEF Lexing, WordsInv
  <2> QED
    BY <1>2, <2>1, EndIsNat
<1>4. IsBlank(input, n, c, allowComments)
  <2>1. IsGap(input, t, c, allowComments)
    BY <1>2
  <2> QED
    BY <1>2, <1>3, <2>1, MoreIsBlank
<1>5. EndOf(Len(lexed))' = n
  BY <1>3 DEF EndOf
<1>6. /\ TokenStart' \in EndOf(Len(lexed))' .. fed'
      /\ IsBlank(input, EndOf(Len(lexed)), TokenStart, allowComments)'
  <2>1. TokenStart' = c /\ fed' = fed
    BY <1>2
  <2> QED
    BY <1>2, <1>3, <1>4, <1>5, <2>1
<1>7. Base' = Base
  BY DEF Base
<1>8. lexed' \in Seq(Lexeme) /\ Base' \in Nat /\ text' = Part(Base, fed)'
  <2>1. Part(Base, fed)' = Part(Base, fed)
    BY <1>7 DEF Part
  <2> QED
    BY <1>1, <1>7, <2>1 DEF Lexing, WordsInv
<1>9. input \in Seq(Chars)
  BY <1>1, Where
<1>10. Read' = <<>>
  <2>1. Read' = Part(c, c)
    BY <1>2 DEF Read, Part
  <2> QED
    BY <1>2, <1>9, <2>1, EmptyPart
<1>11. bufInUse' =>
         /\ buf' = Part(TokenStart, TokenStart + Len(buf))'
         /\ Unfinished(buf, allowComments)'
  <2> SUFFICES ASSUME bufInUse'
               PROVE  /\ buf' = Part(TokenStart, TokenStart + Len(buf))'
                      /\ Unfinished(buf, allowComments)'
    OBVIOUS
  <2>1. buf' = <<>> /\ Len(buf') = 0
    OBVIOUS
  <2>2. c + 0 = c
    BY <1>2
  <2>3. Part(TokenStart, TokenStart + Len(buf))' = Part(c, c)
    BY <1>2, <2>1, <2>2 DEF Part
  <2> QED
    BY <1>2, <1>9, <2>1, <2>3, EmptyPart, NothingIsUnfinished
<1>12. Begun(scan, Read, allowComments)'
  BY <1>10 DEF Begun
<1> QED
  BY <1>6, <1>8, <1>11, <1>12 DEF WordsInv

LEMMA SkipSpaceWords ==
  ASSUME LexInv, WordsInv, SkipSpace
  PROVE  WordsHold'
<1>1. /\ scan.at = "top" /\ offset < Len(text) /\ Char \in Space
      /\ offset' = readChar.offset /\ bufOff' = readChar.bufOff
      /\ startOffset' = startOffset + 1
      /\ UNCHANGED <<buf, bufInUse, text, scan, last, input, fed, lexed, allowComments>>
  BY DEF SkipSpace, Reads, fixed
<1>2. Reading /\ Lexing
  BY <1>1 DEF Reading, Lexing
<1> HIDE DEF Reading, Lexing
<1>3. ~InBuf
  <2> SUFFICES ASSUME InBuf
               PROVE  FALSE
    OBVIOUS
  <2>1. Holding
    BY <1>1, ReadMoves
  <2>2. bufOff = 0
    BY <1>1, <2>1 DEF LexInv, Holding
  <2>3. Char = buf[1]
    BY <2>2 DEF Char
  <2> QED
    BY <1>1, <2>1, <2>3 DEF LexInv
<1>4. ~Holding
  <2>1. bufInUse => bufOff = 0
    BY <1>1 DEF LexInv
  <2>2. Holding => Len(buf) > 0
    BY <1>2, Where
  <2> QED
    BY <1>3, <2>1, <2>2 DEF InBuf, Holding
<1>5. startOffset = offset /\ offset' = offset + 1
  BY <1>1, <1>3, <1>4 DEF LexInv, readChar, Pos
<1>6. PICK b \in Nat, o \in Nat : /\ b = Base /\ o = offset /\ Cursor = b + o /\ TokenStart = b + o
  BY <1>2, <1>3, <1>4, <1>5, Where
<1>7. Cursor' = Cursor + 1
  BY <1>1, <1>2, Advances DEF Kept
<1>8. TokenStart' = Cursor + 1
  <2>1. last' = "none" /\ scan'.at = "top" /\ Base' = b
    BY <1>1, <1>2, <1>6, Where DEF Base
  <2>2. Held' = 0
    <3>1. bufInUse => buf = <<>>
      BY <1>4 DEF Holding
    <3> QED
      BY <1>1, <3>1 DEF Held
  <2>3. TokenStart' = b + (o + 1)
    BY <1>1, <1>5, <1>6, <2>1, <2>2 DEF TokenStart
  <2> QED
    BY <1>6, <2>3
<1>9. IsGap(input, TokenStart, Cursor + 1, allowComments)
  <2>1. input[Cursor + 1] \in Space
    BY <1>1, <1>2, NextChar
  <2> QED
    BY <1>6, <2>1 DEF IsGap, Space, JsonSpace, OtherSpace
<1>10. bufInUse' => buf' = <<>>
  BY <1>1, <1>4 DEF Holding
<1>11. WordsInv'
  BY <1>1, <1>2, <1>7, <1>8, <1>9, <1>10, Skips
<1>12. last' = "none"
  BY <1>1, <1>2, Where
<1> QED
  BY <1>11, <1>12, Silent

LEMMA CommentInText ==
  ASSUME input \in Seq(Chars), NEW b \in 0 .. Len(input), NEW a \in 0 .. b,
         IsComment(Part(a, b))
  PROVE  IsCommentIn(input, a, b)
<1>1. PICK w \in Seq(Chars) : /\ w = Part(a, b) /\ Len(w) = b - a
                              /\ \A k \in 1 .. b - a : w[k] = input[a + k]
  BY PartTyped
<1>2. a \in Nat /\ b \in Nat
  OBVIOUS
<1>3. CASE LineForm(w)
  <2>1. 2 < b - a /\ w[1] = "/" /\ w[2] = "/" /\ w[b - a] = "newline"
        /\ \A k \in 3 .. b - a - 1 : w[k] # "newline"
    BY <1>1, <1>3 DEF LineForm
  <2>2. input[a + 1] = "/" /\ input[a + 2] = "/" /\ input[a + (b - a)] = "newline"
    BY <1>1, <1>2, <2>1
  <2>3. \A k \in a + 3 .. b - 1 : input[k] # "newline"
    <3>1. ASSUME NEW k \in a + 3 .. b - 1
          PROVE  input[k] # "newline"
      <4>1. PICK i \in 3 .. b - a - 1 : a + i = k
        <5>1. k - a \in 3 .. b - a - 1 /\ a + (k - a) = k
          BY <1>2
        <5> QED
          BY <5>1
      <4>2. i \in 1 .. b - a
        BY <1>2, <4>1
      <4>3. w[i] = input[k] /\ w[i] # "newline"
        BY <1>1, <2>1, <4>1, <4>2
      <4> QED
        BY <4>3
    <3> QED
      BY <3>1
  <2>4. a + 2 < b /\ a + (b - a) = b
    BY <1>2, <2>1
  <2> QED
    BY <2>2, <2>3, <2>4 DEF IsCommentIn, IsLineComment
<1>4. CASE BlockForm(w)
  <2>1. 3 < b - a /\ w[1] = "/" /\ w[2] = "*" /\ w[b - a - 1] = "*" /\ w[b - a] = "/"
        /\ \A k \in 3 .. b - a - 2 : ~(w[k] = "*" /\ w[k + 1] = "/")
    BY <1>1, <1>4 DEF BlockForm
  <2>2. input[a + 1] = "/" /\ input[a + 2] = "*" /\ input[a + (b - a)] = "/"
        /\ input[a + (b - a - 1)] = "*"
    <3>1. b - a \in 1 .. b - a /\ b - a - 1 \in 1 .. b - a /\ 1 \in 1 .. b - a /\ 2 \in 1 .. b - a
      BY <1>2, <2>1
    <3> QED
      BY <1>1, <2>1, <3>1
  <2>3. \A k \in a + 3 .. b - 2 : ~(input[k] = "*" /\ input[k + 1] = "/")
    <3>1. ASSUME NEW k \in a + 3 .. b - 2
          PROVE  ~(input[k] = "*" /\ input[k + 1] = "/")
      <4>1. PICK i \in 3 .. b - a - 2 : a + i = k
        <5>1. k - a \in 3 .. b - a - 2 /\ a + (k - a) = k
          BY <1>2
        <5> QED
          BY <5>1
      <4>2. i \in 1 .. b - a /\ i + 1 \in 1 .. b - a /\ a + (i + 1) = k + 1
        BY <1>2, <4>1
      <4>3. w[i] = input[k] /\ w[i + 1] = input[k + 1]
        BY <1>1, <4>1, <4>2
      <4> QED
        BY <2>1, <4>3
    <3> QED
      BY <3>1
  <2>4. a + 3 < b /\ a + (b - a) = b /\ a + (b - a - 1) = b - 1
    BY <1>2, <2>1
  <2> QED
    BY <2>2, <2>3, <2>4 DEF IsCommentIn, IsBlockComment
<1> QED
  BY <1>1, <1>3, <1>4, CommentForms

LEMMA EndCommentWords ==
  ASSUME LexInv, WordsInv, EndComment
  PROVE  WordsHold'
<1>1. /\ (scan.at = "line" /\ Char = "newline") \/ (scan.at = "star" /\ Char = "/")
      /\ offset < Len(text)
      /\ offset' = readChar.offset /\ startOffset' = readChar.offset
      /\ buf' = <<>> /\ bufInUse' = FALSE /\ scan' = Go("top")
      /\ UNCHANGED <<text, last, input, fed, lexed, allowComments>>
  BY DEF EndComment, Reads, fixed
<1>2. Reading /\ Lexing
  BY <1>1 DEF Reading, Lexing
<1>3. allowComments /\ CommentBegun(scan.at, Read)
  <2>1. scan.at \notin {"top", "number", "word"} \cup StringPlaces \cup NumberPlaces
    BY <1>1 DEF StringPlaces, NumberPlaces
  <2> QED
    BY <1>2, <2>1 DEF Lexing, WordsInv, Begun
<1> HIDE DEF Reading, Lexing
<1>4. Read \in Seq(Chars) /\ Part(TokenStart, Cursor + 1) = Append(Read, Char)
  BY <1>2, NextChar
<1>5. IsComment(Append(Read, Char))
  BY <1>1, <1>3, <1>4, CommentIsOver
<1>6. ~InBuf /\ Cursor = Base + offset
  BY <1>2, <1>5, BeyondBuf DEF Whole
<1>7. offset' = offset + 1
  BY <1>1, <1>6 DEF readChar, Pos
<1>8. PICK b \in Nat, o \in Nat : b = Base /\ o = offset /\ Cursor = b + o
  BY <1>2, <1>6, Where
<1>9. last' = "none" /\ scan'.at = "top" /\ Base' = b
  BY <1>1, <1>2, <1>8, Where DEF Base, Go, At
<1>10. TokenStart' = b + (o + 1)
  <2>1. Held' = 0
    BY <1>1 DEF Held
  <2> QED
    BY <1>1, <1>7, <1>8, <1>9, <2>1 DEF TokenStart
<1>11. Cursor' = b + (o + 1)
  <2>1. ~InBuf'
    BY <1>1 DEF InBuf
  <2> QED
    BY <1>7, <1>8, <1>9, <2>1 DEF Cursor
<1>12. b + (o + 1) = Cursor + 1
  BY <1>8
<1>13. IsGap(input, TokenStart, Cursor + 1, allowComments)
  <2>1. PICK t \in Nat, c \in 0 .. Len(input) : t = TokenStart /\ c = Cursor + 1 /\ t <= c
    <3>1. TokenStart \in Nat /\ fed \in 0 .. Len(input) /\ Len(input) \in Nat
      BY <1>2, Where
    <3>2. Cursor + 1 \in TokenStart .. fed
      BY <1>2, NextChar
    <3> QED
      BY <3>1, <3>2
  <2>2. IsComment(Part(t, c)) /\ t \in 0 .. c
    <3>1. Part(t, c) = Append(Read, Char)
      BY <1>4, <2>1
    <3>2. t \in 0 .. c
      BY <2>1
    <3> QED
      BY <1>5, <3>1, <3>2
  <2>3. input \in Seq(Chars)
    BY <1>2, Where
  <2>4. IsCommentIn(input, t, c)
    BY <2>1, <2>2, <2>3, CommentInText
  <2> QED
    BY <1>3, <2>1, <2>4 DEF IsGap
<1>14. WordsInv'
  BY <1>1, <1>2, <1>9, <1>10, <1>11, <1>12, <1>13, Skips
<1> QED
  BY <1>9, <1>14, Silent

-----------------------------------------------------------------------------
(* Chunks and calls                                                        *)

LEMMA InitWords == Init => WordsHold
<1> SUFFICES ASSUME Init
             PROVE  WordsHold
  OBVIOUS
<1>1. /\ text = <<>> /\ buf = <<>> /\ bufInUse = FALSE /\ last = "none" /\ lexed = <<>>
      /\ offset = 0 /\ fed = 0 /\ scan.at = "idle" /\ input \in Seq(Chars)
  BY InputsAssumption DEF Init, Go, At
<1>2. Len(text) = 0 /\ Len(lexed) = 0 /\ lexed \in Seq(Lexeme) /\ Base = 0 /\ EndOf(0) = 0
  <2>1. Len(text) = 0 /\ Len(lexed) = 0 /\ lexed \in Seq(Lexeme)
    BY <1>1
  <2>2. Base = 0
    <3>1. fed = 0 /\ Len(text) = 0
      BY <1>1, <2>1
    <3> HIDE <1>1, <2>1
    <3> QED
      BY ONLY <3>1 DEF Base
  <2>3. EndOf(0) = 0
    BY DEF EndOf
  <2> QED
    BY <2>1, <2>2, <2>3
<1>3. TokenStart = 0
  BY <1>1, <1>2 DEF TokenStart, Held
<1>4. text = Part(Base, fed)
  <2>1. 0 \in 0 .. Len(input)
    BY <1>1
  <2> QED
    BY <1>1, <1>2, <2>1, EmptyPart
<1>5. IsBlank(input, EndOf(Len(lexed)), TokenStart, allowComments)
  BY <1>2, <1>3, NothingIsBlank
<1>6. WordsInv
  BY <1>1, <1>2, <1>3, <1>4, <1>5 DEF WordsInv
<1> QED
  BY <1>1, <1>6 DEF WordsHold, TWords, TokensAreTheText, ErrorsAreJustified, HeldBackIsABeginning

LEMMA FeedWords ==
  ASSUME LexInv, WordsHold, NEW n \in Nat, fed + n <= Len(input), Feed(n)
  PROVE  WordsHold'
<1>1. /\ scan.at = "idle" /\ last # "error" /\ offset = Len(text)
      /\ text' = SubSeq(input, fed + 1, fed + n) /\ offset' = 0 /\ fed' = fed + n
      /\ last' = "none" /\ scan' = scan
      /\ UNCHANGED <<buf, bufInUse, input, lexed, allowComments>>
  BY DEF Feed, lexer, fixed
<1>2. WordsInv
  BY <1>1 DEF WordsHold, TWords
<1>3. /\ input \in Seq(Chars) /\ Len(input) \in Nat /\ fed \in 0 .. Len(input)
      /\ Len(text) \in Nat /\ Len(buf) \in Nat
  BY DEF LexInv, TypesOfPositions
<1>4. PICK f \in 0 .. Len(input), g \in 0 .. Len(input) :
        f = fed /\ g = fed + n /\ f <= g /\ f + n = g
  BY <1>3
<1>5. text' = Part(f, g) /\ Len(text') = n
  <2>1. text' = Part(f, g)
    BY <1>1, <1>4 DEF Part
  <2>2. f \in 0 .. g /\ g - f = n
    BY <1>3, <1>4
  <2> QED
    BY <1>3, <2>1, <2>2, PartTyped
<1>6. Base' = f
  <2>1. Base' = g - n
    BY <1>1, <1>4, <1>5 DEF Base
  <2> QED
    BY <1>3, <1>4, <2>1
<1>7. TokenStart' = TokenStart
  <2>1. PICK h \in Nat, k \in Nat : h = Held /\ k = Len(buf) /\ h = IF bufInUse THEN k ELSE 0
    BY <1>3 DEF Held
  <2>2. TokenStart' = IF h > 0 THEN f - h ELSE f
    <3>1. Held' = h /\ last' # "eof" /\ scan'.at = "idle"
      BY <1>1, <2>1 DEF Held
    <3> QED
      BY <1>1, <1>4, <1>6, <3>1 DEF TokenStart
  <2>3. CASE last = "eof"
    <3>1. TokenStart = f - k /\ bufInUse
      BY <1>1, <1>2, <1>4, <2>1, <2>3 DEF WordsInv, TokenStart
    <3> QED
      BY <1>3, <1>4, <2>1, <2>2, <3>1
  <2>4. CASE last # "eof"
    <3>1. TokenStart = IF h > 0 THEN Base - h ELSE Base + offset
      BY <1>1, <2>1, <2>4 DEF TokenStart
    <3>2. PICK m \in Nat : m = Len(text) /\ Base = f - m /\ offset = m
      BY <1>1, <1>3, <1>4 DEF Base
    <3>3. h > 0 => m = 0
      BY <1>1, <1>2, <2>1, <2>4, <3>2 DEF WordsInv
    <3>4. f \in Nat
      BY <1>3, <1>4
    <3>5. CASE h > 0
      <4>1. TokenStart = Base - h /\ TokenStart' = f - h /\ Base = f - 0
        BY <2>2, <3>1, <3>2, <3>3, <3>5
      <4> QED
        BY <3>4, <4>1
    <3>6. CASE ~(h > 0)
      <4>1. TokenStart = (f - m) + m /\ TokenStart' = f
        BY <2>2, <3>1, <3>2, <3>6
      <4> QED
        BY <3>2, <3>4, <4>1
    <3> QED
      BY <3>5, <3>6
  <2> QED
    BY <2>3, <2>4
<1>8. EndOf(Len(lexed))' = EndOf(Len(lexed))
  BY <1>1 DEF EndOf
<1>9. /\ TokenStart' \in EndOf(Len(lexed))' .. fed'
      /\ IsBlank(input, EndOf(Len(lexed)), TokenStart, allowComments)'
  <2>1. EndOf(Len(lexed)) \in Nat /\ TokenStart \in EndOf(Len(lexed)) .. fed
        /\ IsBlank(input, EndOf(Len(lexed)), TokenStart, allowComments)
    BY <1>2, EndIsNat DEF WordsInv
  <2> QED
    BY <1>1, <1>3, <1>4, <1>7, <1>8, <2>1
<1>10. text' = Part(Base, fed)'
  BY <1>1, <1>4, <1>5, <1>6 DEF Part
<1>11. bufInUse' =>
         /\ buf' = Part(TokenStart, TokenStart + Len(buf))'
         /\ Unfinished(buf, allowComments)'
  <2>1. Part(TokenStart, TokenStart + Len(buf))' = Part(TokenStart, TokenStart + Len(buf))
    BY <1>1, <1>7 DEF Part
  <2> QED
    BY <1>1, <1>2, <2>1 DEF WordsInv
<1>12. lexed' \in Seq(Lexeme) /\ Base' \in Nat
  BY <1>1, <1>2, <1>4, <1>6 DEF WordsInv
<1>13. WordsInv'
  BY <1>1, <1>9, <1>10, <1>11, <1>12 DEF WordsInv
<1> QED
  BY <1>1, <1>13, Silent

LEMMA LexWords ==
  ASSUME LexInv, WordsHold, Lex
  PROVE  WordsHold'
<1>1. /\ scan.at = "idle" /\ last \notin {"eof", "error"}
      /\ startOffset' = offset /\ scan' = Go("top") /\ last' = "none"
      /\ UNCHANGED <<buf, bufOff, bufInUse, text, offset, input, fed, lexed, allowComments>>
  BY DEF Lex, lexer, fixed
<1>2. WordsInv
  BY <1>1 DEF WordsHold, TWords
<1>3. /\ input \in Seq(Chars) /\ Len(input) \in Nat /\ fed \in 0 .. Len(input)
      /\ offset \in Nat /\ bufOff \in Nat /\ Len(buf) \in Nat
      /\ InBuf => offset = 0 /\ bufOff = 0
      /\ bufInUse => bufOff = 0
      /\ buf # <<>> <=> Len(buf) > 0
  BY <1>1 DEF LexInv, TypesOfPositions, InBuf
<1>4. scan'.at = "top"
  BY <1>1 DEF Go, At
<1>5. PICK b \in Nat, k \in Nat : b = Base /\ Base' = b /\ k = Len(buf)
  BY <1>1, <1>2, <1>3 DEF WordsInv, Base
<1>6. InBuf <=> bufInUse /\ k > 0
  BY <1>3, <1>5 DEF InBuf
<1>7. TokenStart = IF InBuf THEN b - k ELSE b + offset
  BY <1>1, <1>3, <1>5, <1>6 DEF TokenStart, Held
<1>8. TokenStart' = IF InBuf THEN b - k ELSE b + offset
  BY <1>1, <1>3, <1>4, <1>5, <1>6 DEF TokenStart, Held
<1>9. Cursor' = IF InBuf THEN b - k ELSE b + offset
  <2>1. InBuf' <=> InBuf
    BY <1>1 DEF InBuf
  <2>2. Cursor' = b + offset - (IF InBuf THEN k - bufOff ELSE 0)
    BY <1>1, <1>5, <2>1 DEF Cursor
  <2> QED
    BY <1>3, <1>5, <2>2
<1>10. EndOf(Len(lexed))' = EndOf(Len(lexed))
  BY <1>1 DEF EndOf
<1>11. EndOf(Len(lexed)) \in Nat /\ TokenStart \in EndOf(Len(lexed)) .. fed
        /\ IsBlank(input, EndOf(Len(lexed)), TokenStart, allowComments)
  BY <1>2, EndIsNat DEF WordsInv
<1>12. /\ TokenStart' \in EndOf(Len(lexed))' .. fed'
       /\ IsBlank(input, EndOf(Len(lexed)), TokenStart, allowComments)'
  BY <1>1, <1>7, <1>8, <1>10, <1>11
<1>13. Read' = <<>>
  <2>1. PICK a \in 0 .. Len(input) : a = TokenStart
    BY <1>3, <1>11
  <2>2. Read' = Part(a, a)
    BY <1>1, <1>7, <1>8, <1>9, <2>1 DEF Read, Part
  <2> QED
    BY <1>3, <2>2, EmptyPart
<1>14. Begun(scan, Read, allowComments)'
  BY <1>4, <1>13 DEF Begun
<1>15. bufInUse' =>
         /\ buf' = Part(TokenStart, TokenStart + Len(buf))'
         /\ Unfinished(buf, allowComments)'
  <2>1. Part(TokenStart, TokenStart + Len(buf))' = Part(TokenStart, TokenStart + Len(buf))
    BY <1>1, <1>7, <1>8 DEF Part
  <2> QED
    BY <1>1, <1>2, <2>1 DEF WordsInv
<1>16. lexed' \in Seq(Lexeme) /\ Base' \in Nat /\ text' = Part(Base, fed)'
  <2>1. Part(Base, fed)' = Part(Base, fed)
    BY <1>1, <1>5 DEF Part
  <2> QED
    BY <1>1, <1>2, <1>5, <2>1 DEF WordsInv
<1>17. bufInUse' /\ buf' # <<>> => startOffset' = 0
  BY <1>1, <1>3, <1>5, <1>6
<1>18. WordsInv'
  BY <1>4, <1>12, <1>14, <1>15, <1>16, <1>17 DEF WordsInv
<1> QED
  BY <1>1, <1>18, Silent

(* The beginning of a token is held back.                                  *)
LEMMA EndOfChunkWords ==
  ASSUME LexInv, WordsInv, EndOfChunk
  PROVE  WordsHold'
<1>1. scan.at # "idle" /\ offset >= Len(text) /\ Lexed("eof", Here, error)
  BY DEF EndOfChunk, Token
<1>2. Lexing
  BY <1>1 DEF Lexing
<1>3. /\ buf' = IF bufInUse THEN buf \o Piece(Here) ELSE Piece(Here)
      /\ bufInUse' = TRUE /\ offset' = offset /\ scan'.at = "idle" /\ last' = "eof"
      /\ UNCHANGED <<text, input, fed, lexed, allowComments>>
  BY <1>1 DEF Lexed, fixed, Go, At, Here, Pos
<1> HIDE DEF Lexing
<1>4. PICK b \in Nat, m \in Nat, t \in Nat, f \in 0 .. Len(input) :
        /\ b = Base /\ m = Len(text) /\ t = TokenStart /\ f = fed
        /\ b + m = f /\ t <= f /\ offset = m /\ Here.offset = m
        /\ Here.offset \in offset .. Len(text)
  <2>1. /\ Base \in Nat /\ Len(text) \in Nat /\ TokenStart \in 0 .. fed /\ fed \in 0 .. Len(input)
        /\ Base + Len(text) = fed /\ offset \in 0 .. Len(text) /\ Len(input) \in Nat
    BY <1>2, Where
  <2>2. offset = Len(text) /\ Here.offset = offset
    BY <1>1, <2>1 DEF Here, Pos
  <2> QED
    BY <2>1, <2>2
<1>5. input \in Seq(Chars) /\ Len(input) \in Nat
  BY <1>2, Where
<1>6. buf' = Part(t, f)
  <2>1. (IF bufInUse THEN buf \o Piece(Here) ELSE Piece(Here))
          = Part(TokenStart, Base + Here.offset)
    BY <1>2, <1>4, WholePiece
  <2> QED
    BY <1>3, <1>4, <2>1
<1>7. buf' \in Seq(Chars) /\ Len(buf') = f - t
  <2>1. t \in 0 .. f
    BY <1>4
  <2> QED
    BY <1>5, <1>6, <2>1, PartTyped
<1>8. Unfinished(buf', allowComments)
  <2>1. CASE InBuf
    <3>1. Holding /\ offset = 0 /\ TokenStart = Base - Len(buf) /\ Len(buf) \in Nat
      BY <1>2, <2>1, Where
    <3>2. /\ bufInUse
          /\ buf = Part(TokenStart, TokenStart + Len(buf))
          /\ Unfinished(buf, allowComments)
      BY <1>2, <3>1 DEF Lexing, WordsInv, Holding
    <3>3. TokenStart + Len(buf) = f
      BY <1>4, <3>1
    <3> QED
      BY <1>4, <1>6, <3>2, <3>3
  <2>2. CASE ~InBuf
    <3>1. Cursor = b + m
      BY <1>2, <1>4, <2>2, Where
    <3>2. Read = buf'
      BY <1>4, <1>6, <3>1 DEF Read
    <3>3. Begun(scan, Read, allowComments)
      BY <1>1, <1>2 DEF Lexing, WordsInv
    <3> QED
      BY <1>7, <3>2, <3>3, BegunIsUnfinished
  <2> QED
    BY <2>1, <2>2
<1>9. TokenStart' = t
  <2>1. TokenStart' = f - (f - t)
    BY <1>3, <1>4, <1>7 DEF TokenStart
  <2> QED
    BY <1>4, <1>5, <2>1
<1>10. EndOf(Len(lexed))' = EndOf(Len(lexed)) /\ Base' = b
  BY <1>3, <1>4 DEF EndOf, Base
<1>11. EndOf(Len(lexed)) \in Nat /\ t \in EndOf(Len(lexed)) .. fed
        /\ IsBlank(input, EndOf(Len(lexed)), t, allowComments)
  BY <1>2, <1>4, EndIsNat DEF Lexing, WordsInv
<1>12. /\ TokenStart' \in EndOf(Len(lexed))' .. fed'
       /\ IsBlank(input, EndOf(Len(lexed)), TokenStart, allowComments)'
  BY <1>3, <1>9, <1>10, <1>11
<1>13. lexed' \in Seq(Lexeme) /\ Base' \in Nat /\ text' = Part(Base, fed)'
  <2>1. Part(Base, fed)' = Part(Base, fed)
    BY <1>3, <1>4, <1>10 DEF Part
  <2> QED
    BY <1>2, <1>3, <1>4, <1>10, <2>1 DEF Lexing, WordsInv
<1>14. buf' = Part(TokenStart, TokenStart + Len(buf))'
  <2>1. t + (f - t) = f
    BY <1>4, <1>5
  <2> QED
    BY <1>3, <1>6, <1>7, <1>9, <2>1 DEF Part
<1>15. Unfinished(buf, allowComments)'
  BY <1>3, <1>8
<1>16. WordsInv'
  <2>1. offset' = Len(text)'
    BY <1>3, <1>4
  <2> QED
    BY <1>3, <1>12, <1>13, <1>14, <1>15, <2>1 DEF WordsInv
<1>17. HeldBackIsABeginning'
  <2>1. Part(t, fed)' = Part(t, f)
    BY <1>3, <1>4 DEF Part
  <2>2. buf' \in Rests(Len(lexed))'
    BY <1>3, <1>6, <1>10, <1>11, <2>1 DEF Rests
  <2> QED
    BY <1>3, <1>8, <2>2 DEF HeldBackIsABeginning, Unfinished
<1> QED
  BY <1>3, <1>16, <1>17 DEF WordsHold, TWords, TokensAreTheText, ErrorsAreJustified

-----------------------------------------------------------------------------
(* The steps inside a token                                                *)

LEMMA Standing ==
  ASSUME Reading
  PROVE  /\ Begun(scan, Read, allowComments) /\ last = "none"
         /\ Read \in Seq(Chars) /\ Char \in Chars /\ Append(Read, Char) \in Seq(Chars)
         /\ {"at", "want", "left", "tok"} \subseteq DOMAIN scan
<1>1. Begun(scan, Read, allowComments) /\ {"at", "want", "left", "tok"} \subseteq DOMAIN scan
  BY DEF Reading, Lexing, WordsInv, LexInv, TypesOfPositions, Placed
<1>2. last = "none"
  BY DEF Reading, Lexing, LexInv
<1>3. Read \in Seq(Chars) /\ Char \in Chars
  BY NextChar
<1> QED
  BY <1>1, <1>2, <1>3

LEMMA Continues ==
  ASSUME Reading, NEW s, Continue(readChar, s), s.at \notin {"idle", "number"},
         Begun(s, Append(Read, Char), allowComments),
         s.at = "block" => ~(Len(Read) > 1 /\ Char = "*")
  PROVE  WordsHold'
<1>1. WordsInv'
  BY ReadsOn
<1>2. last' = "none"
  BY Standing DEF Continue
<1> QED
  BY <1>1, <1>2, Silent

LEMMA AtTop ==
  ASSUME Reading, scan.at \in {"top", "number"}
  PROVE  Read = <<>> /\ Append(Read, Char) = <<Char>>
<1>1. Read = <<>>
  BY Standing DEF Begun, StringPlaces, NumberPlaces, CommentPlaces
<1> QED
  BY <1>1, Standing

LEMMA BehindFirst ==
  ASSUME NEW w \in Seq(Chars), NEW v \in Seq(Chars), Len(w) = Len(v) + 1,
         \A k \in 1 .. Len(v) : w[k + 1] = v[k]
  PROVE  Drop(w, 1) = v
<1>1. PICK n \in Nat : n = Len(v) /\ Len(w) = n + 1
  OBVIOUS
<1>2. PICK u : u = SubSeq(w, 2, n + 1)
  OBVIOUS
<1>3. u \in Seq(Chars) /\ Len(u) = n /\ \A k \in 1 .. n : u[k] = w[k + 1]
  BY <1>1, <1>2
<1>4. u = v
  BY <1>1, <1>3, SeqEqual
<1> QED
  BY <1>1, <1>2, <1>4 DEF Drop

LEMMA StartOfLiteral ==
  ASSUME NEW c \in LiteralStarts, NEW s, s.at = "word", s.want = Wanted(c),
         s.tok = IF c = "n" THEN "null" ELSE "bool"
  PROVE  LiteralBegun(s, <<c>>)
<1> DEFINE lit == CASE c = "t" -> <<"t", "r", "u", "e">>
                    [] c = "f" -> <<"f", "a", "l", "s", "e">>
                    [] c = "n" -> <<"n", "u", "l", "l">>
<1>1. lit \in Literals /\ Len(lit) > 1 /\ lit[1] = c /\ (lit = Null <=> c = "n")
  BY LiteralsAre DEF LiteralStarts, Null
<1>2. s.want = Drop(lit, 1)
  <2>1. CASE c = "t"
    <3>1. lit = <<"t", "r", "u", "e">> /\ s.want = <<"r", "u", "e">>
      BY <2>1 DEF Wanted
    <3>2. PICK w \in Seq(Chars) : w = <<"t", "r", "u", "e">>
      BY LiteralsAre
    <3>3. PICK v \in Seq(Chars) : v = <<"r", "u", "e">>
      <4>1. {"e", "r", "u"} \subseteq Chars
        BY DEF Chars, HexChars, EscChars
      <4>2. <<"r", "u", "e">> \in Seq(Chars)
        BY <4>1
      <4> QED
        BY <4>2
    <3>4. Len(w) = Len(v) + 1 /\ \A k \in 1 .. Len(v) : w[k + 1] = v[k]
      BY <3>2, <3>3
    <3> HIDE DEF lit
    <3> QED
      BY <3>1, <3>2, <3>3, <3>4, BehindFirst
  <2>2. CASE c = "f"
    <3>1. lit = <<"f", "a", "l", "s", "e">> /\ s.want = <<"a", "l", "s", "e">>
      BY <2>2 DEF Wanted
    <3>2. PICK w \in Seq(Chars) : w = <<"f", "a", "l", "s", "e">>
      BY LiteralsAre
    <3>3. PICK v \in Seq(Chars) : v = <<"a", "l", "s", "e">>
      <4>1. {"a", "e", "l", "s"} \subseteq Chars
        BY DEF Chars, HexChars, EscChars
      <4>2. <<"a", "l", "s", "e">> \in Seq(Chars)
        BY <4>1
      <4> QED
        BY <4>2
    <3>4. Len(w) = Len(v) + 1 /\ \A k \in 1 .. Len(v) : w[k + 1] = v[k]
      BY <3>2, <3>3
    <3> HIDE DEF lit
    <3> QED
      BY <3>1, <3>2, <3>3, <3>4, BehindFirst
  <2>3. CASE c = "n"
    <3>1. lit = <<"n", "u", "l", "l">> /\ s.want = <<"u", "l", "l">>
      BY <2>3 DEF Wanted
    <3>2. PICK w \in Seq(Chars) : w = <<"n", "u", "l", "l">>
      BY LiteralsAre
    <3>3. PICK v \in Seq(Chars) : v = <<"u", "l", "l">>
      <4>1. {"l", "u"} \subseteq Chars
        BY DEF Chars, HexChars, EscChars
      <4>2. <<"u", "l", "l">> \in Seq(Chars)
        BY <4>1
      <4> QED
        BY <4>2
    <3>4. Len(w) = Len(v) + 1 /\ \A k \in 1 .. Len(v) : w[k + 1] = v[k]
      BY <3>2, <3>3
    <3> HIDE DEF lit
    <3> QED
      BY <3>1, <3>2, <3>3, <3>4, BehindFirst
  <2> QED
    BY <2>1, <2>2, <2>3 DEF LiteralStarts
<1>3. <<c>> = SubSeq(lit, 1, 1)
  BY DEF LiteralStarts
<1> HIDE DEF lit
<1>4. Len(<<c>>) = 1
  OBVIOUS
<1>5. s.tok = IF lit = Null THEN "null" ELSE "bool"
  BY <1>1
<1> QED
  BY <1>1, <1>2, <1>3, <1>4, <1>5 DEF LiteralBegun

LEMMA StartOfString ==
  ASSUME NEW s, s.at = "string", s.tok = "string"
  PROVE  StringBegun(s, <<"quote">>)
<1>1. PICK w : w = <<"quote">>
  OBVIOUS
<1>2. w # <<>> /\ w[1] = "quote" /\ Len(w) = 1
  BY <1>1
<1>3. ~HasEscape(w)
  BY <1>2 DEF HasEscape
<1>4. IsBody(w, 1, 1)
  <2>1. Cuts({1}, w, 1, 1)
    BY DEF Cuts
  <2> QED
    BY <2>1, CutIsBody
<1>5. UnitBegun(s, w, 1)
  BY <1>2 DEF UnitBegun
<1>6. 1 \in 1 .. Len(w)
  BY <1>2
<1> QED
  BY <1>1, <1>2, <1>3, <1>4, <1>5, <1>6 DEF StringBegun

LEMMA MarkIsWord ==
  ASSUME NEW c \in Marks
  PROVE  MarkTok(c) \in TokenNames /\ IsWord(MarkTok(c), <<c>>)
<1>1. MarkTok(c) \in DOMAIN MarkNames /\ MarkNames[MarkTok(c)] = c
  BY MarksAre DEF MarkTok, Marks
<1> QED
  BY <1>1, WordsOfTokens DEF TokenNames

LEMMA BeginStepWords ==
  ASSUME LexInv, WordsInv, BeginStep
  PROVE  WordsHold'
<1>1. scan.at = "top" /\ offset < Len(text) /\ Reading
  BY DEF BeginStep, Mark, SkipSpace, BeginWord, BeginString, BeginNumber, BeginComment,
         NoComment, NoToken, Reads, Reading, Lexing
<1>2. Read = <<>> /\ Append(Read, Char) = <<Char>> /\ Char \in Chars
  BY <1>1, AtTop, Standing
<1>3. CASE Mark
  <2>1. Char \in Marks /\ Lexed(MarkTok(Char), readChar, error)
    BY <1>3 DEF Mark, Reads, Token
  <2>2. MarkTok(Char) \in TokenNames /\ IsWord(MarkTok(Char), Append(Read, Char))
    BY <1>2, <2>1, MarkIsWord
  <2>3. Whole(Append(Read, Char))
    BY <1>2, <2>1 DEF Whole
  <2> QED
    BY <1>1, <2>1, <2>2, <2>3, DeliversWhole
<1>4. CASE SkipSpace
  BY <1>4, SkipSpaceWords
<1>5. CASE BeginWord
  <2> DEFINE s == At("word", Wanted(Char), 0, IF Char = "n" THEN "null" ELSE "bool")
  <2>1. Char \in LiteralStarts /\ Continue(readChar, s)
    BY <1>5 DEF BeginWord, Reads, LiteralStarts
  <2>2. s.at = "word" /\ s.want = Wanted(Char) /\ s.tok = IF Char = "n" THEN "null" ELSE "bool"
    BY DEF At
  <2> HIDE DEF s
  <2>3. LiteralBegun(s, Append(Read, Char))
    BY <1>2, <2>1, <2>2, StartOfLiteral
  <2>4. Begun(s, Append(Read, Char), allowComments)
    BY <2>2, <2>3 DEF Begun
  <2> QED
    BY <1>1, <2>1, <2>2, <2>4, Continues
<1>6. CASE BeginString
  <2> DEFINE s == At("string", <<>>, 0, "string")
  <2>1. Char = "quote" /\ Continue(readChar, s)
    BY <1>6 DEF BeginString, Reads
  <2>2. s.at = "string" /\ s.tok = "string"
    BY DEF At
  <2> HIDE DEF s
  <2>3. StringBegun(s, Append(Read, Char))
    BY <1>2, <2>1, <2>2, StartOfString
  <2>4. Begun(s, Append(Read, Char), allowComments)
    BY <2>2, <2>3 DEF Begun, StringPlaces
  <2> QED
    BY <1>1, <2>1, <2>2, <2>4, Continues
<1>7. CASE BeginNumber
  <2> DEFINE s == Go("number")
  <2>1. Char \in Digits \cup {"-"} /\ Continue(unreadChar(readChar), s)
    BY <1>7 DEF BeginNumber, Reads
  <2>2. s.at = "number"
    BY DEF Go, At
  <2> HIDE DEF s
  <2>3. Begun(s, Read, allowComments)
    BY <1>2, <2>2 DEF Begun
  <2>4. WordsInv'
    BY <1>1, <2>1, <2>2, <2>3, StaysHere
  <2>5. last' = "none"
    BY <1>1, <2>1, Standing DEF Continue
  <2> QED
    BY <2>4, <2>5, Silent
<1>8. CASE BeginComment
  <2> DEFINE s == Go("slash")
  <2>1. Char = "/" /\ allowComments /\ Continue(readChar, s)
    BY <1>8 DEF BeginComment, Reads
  <2>2. s.at = "slash"
    BY DEF Go, At
  <2> HIDE DEF s
  <2>3. CommentBegun(s.at, Append(Read, Char))
    BY <1>2, <2>1, <2>2 DEF CommentBegun
  <2>4. Begun(s, Append(Read, Char), allowComments)
    BY <2>1, <2>2, <2>3 DEF Begun, CommentPlaces
  <2> QED
    BY <1>1, <2>1, <2>2, <2>4, Continues
<1>9. CASE NoComment \/ NoToken
  <2>1. /\ Char \notin Marks \cup Numerals \cup LiteralStarts \cup {"quote", "-"}
        /\ Char = "/" => ~allowComments
    BY <1>9, NumeralsAreDigits DEF NoComment, NoToken, Reads, LiteralStarts, Marks
  <2>2. ~Begins(Append(Read, Char), allowComments)
    BY <1>2, <2>1, NoStart
  <2>3. ~IsToken(Read)
    BY <1>2, NothingIsNoToken
  <2>4. PICK p \in {readChar, unreadChar(readChar)} : \E err : Lexed("error", p, err)
    BY <1>9 DEF NoComment, NoToken, Bad
  <2> QED
    BY <1>1, <2>2, <2>3, <2>4, Errored
<1> QED
  BY <1>3, <1>4, <1>5, <1>6, <1>7, <1>8, <1>9 DEF BeginStep

LEMMA WordStepWords ==
  ASSUME LexInv, WordsInv, WordStep
  PROVE  WordsHold'
<1>1. scan.at = "word" /\ offset < Len(text) /\ Reading
  BY DEF WordStep, WordChar, WordError, Reads, Reading, Lexing
<1>2. LiteralBegun(scan, Read) /\ Read \in Seq(Chars) /\ Char \in Chars
      /\ {"at", "want", "left", "tok"} \subseteq DOMAIN scan
  BY <1>1, Standing DEF Begun, StringPlaces, NumberPlaces, CommentPlaces
<1>3. CASE WordChar
  <2>1. /\ Char = Head(scan.want)
        /\ IF Tail(scan.want) = <<>>
             THEN Lexed(scan.tok, readChar, error)
             ELSE Continue(readChar, [scan EXCEPT !.want = Tail(@)])
    BY <1>3 DEF WordChar, Reads, Token
  <2>2. PICK v : v = Append(Read, Char) /\ v = Append(Read, Head(scan.want))
    BY <2>1
  <2>3. /\ Tail(scan.want) = <<>> => v \in Literals /\ IsWord(scan.tok, v)
        /\ Tail(scan.want) # <<>> =>
             \A t : t.want = Tail(scan.want) /\ t.tok = scan.tok => LiteralBegun(t, v)
    BY <1>2, <2>2, LiteralGrows
  <2>4. CASE Tail(scan.want) = <<>>
    <3>1. scan.tok \in TokenNames
      BY <1>2 DEF LiteralBegun, TokenNames
    <3>2. Whole(Append(Read, Char))
      BY <2>2, <2>3, <2>4 DEF Whole
    <3> QED
      BY <1>1, <2>1, <2>2, <2>3, <2>4, <3>1, <3>2, DeliversWhole
  <2>5. CASE Tail(scan.want) # <<>>
    <3> DEFINE t == [scan EXCEPT !.want = Tail(@)]
    <3>1. t.want = Tail(scan.want) /\ t.tok = scan.tok /\ t.at = "word"
      BY <1>1, <1>2
    <3>2. Continue(readChar, t)
      BY <2>1, <2>5
    <3> HIDE DEF t
    <3>3. Begun(t, Append(Read, Char), allowComments)
      BY <2>2, <2>3, <2>5, <3>1 DEF Begun
    <3> QED
      BY <1>1, <3>1, <3>2, <3>3, Continues
  <2> QED
    BY <2>4, <2>5
<1>4. CASE WordError
  <2>1. Char \in Chars \ {Head(scan.want)} /\ Lexed("error", unreadChar(readChar), "invalid_string")
    BY <1>4 DEF WordError, Reads, Bad
  <2>2. ~Begins(Append(Read, Char), allowComments) /\ ~IsToken(Read)
    BY <1>2, <2>1, NoLiteral
  <2> QED
    BY <1>1, <2>1, <2>2, Errored
<1> QED
  BY <1>3, <1>4 DEF WordStep

LEMMA StringStepWords ==
  ASSUME LexInv, WordsInv, StringStep
  PROVE  WordsHold'
<1>1. scan.at \in StringPlaces /\ offset < Len(text) /\ Reading
  BY DEF StringStep, StringEnd, StringChar, StringControl, Backslash, Escape, EscapeU,
         EscapeError, Hex, HexError, Utf8Lead, Utf8Next, Utf8Error, Reads, StringPlaces,
         Reading, Lexing
<1>2. StringBegun(scan, Read) /\ Read \in Seq(Chars) /\ Char \in Chars
      /\ {"at", "want", "left", "tok"} \subseteq DOMAIN scan
  BY <1>1, Standing DEF Begun, StringPlaces, NumberPlaces, CommentPlaces
<1>3. ASSUME NEW t, t.at \in StringPlaces, StringTurns(scan, Char, t), Continue(readChar, t)
      PROVE  WordsHold'
  <2>1. Begun(t, Append(Read, Char), allowComments)
    BY <1>2, <1>3, StringGrows DEF Begun
  <2> QED
    BY <1>1, <1>3, <2>1, Continues DEF StringPlaces
<1>4. ASSUME NEW p \in {readChar, unreadChar(readChar)}, NEW err, Lexed("error", p, err),
             Char \notin Accepted(scan)
      PROVE  WordsHold'
  <2>1. ~Begins(Append(Read, Char), allowComments) /\ ~IsToken(Read)
    BY <1>1, <1>2, <1>4, NoString
  <2> QED
    BY <1>1, <1>4, <2>1, Errored
<1>5. CASE StringEnd
  <2>1. scan.at = "string" /\ Char = "quote" /\ Lexed(scan.tok, readChar, error)
    BY <1>5 DEF StringEnd, Reads, Token
  <2>2. IsQuoted(Append(Read, Char)) /\ IsWord(scan.tok, Append(Read, Char))
    BY <1>2, <2>1, StringIsOver
  <2>3. scan.tok \in TokenNames
    BY <1>2 DEF StringBegun, TokenNames
  <2> QED
    BY <1>1, <2>1, <2>2, <2>3, DeliversWhole DEF Whole
<1>6. CASE StringChar
  <2>1. scan.at = "string" /\ Continue(readChar, scan)
        /\ Char \in Chars \ (BadChars \cup HighChars \cup {"quote", "backslash"})
    BY <1>6 DEF StringChar, Reads
  <2>2. StringTurns(scan, Char, scan)
    BY <2>1 DEF StringTurns
  <2> QED
    BY <1>1, <1>3, <2>1, <2>2
<1>7. CASE Backslash
  <2> DEFINE t == [scan EXCEPT !.at = "escape", !.tok = "string_with_escapes"]
  <2>1. scan.at = "string" /\ Char = "backslash" /\ Continue(readChar, t)
    BY <1>7 DEF Backslash, Reads
  <2>2. t.at = "escape" /\ t.tok = "string_with_escapes"
    BY <1>2
  <2> HIDE DEF t
  <2>3. StringTurns(scan, Char, t)
    BY <2>1, <2>2 DEF StringTurns
  <2> QED
    BY <1>3, <2>1, <2>2, <2>3 DEF StringPlaces
<1>8. CASE Escape
  <2>1. scan.at = "escape" /\ Char \in EscChars /\ Continue(readChar, InString)
    BY <1>8 DEF Escape, Reads
  <2>2. InString.at = "string" /\ InString.tok = scan.tok
    BY <1>2 DEF InString
  <2>3. StringTurns(scan, Char, InString)
    BY <2>1, <2>2 DEF StringTurns
  <2> QED
    BY <1>3, <2>1, <2>2, <2>3 DEF StringPlaces
<1>9. CASE EscapeU
  <2> DEFINE t == [scan EXCEPT !.at = "hex", !.left = 4]
  <2>1. scan.at = "escape" /\ Char = "u" /\ Continue(readChar, t)
    BY <1>9 DEF EscapeU, Reads
  <2>2. t.at = "hex" /\ t.tok = scan.tok /\ t.left = 4
    BY <1>2
  <2> HIDE DEF t
  <2>3. StringTurns(scan, Char, t)
    BY <2>1, <2>2 DEF StringTurns
  <2> QED
    BY <1>3, <2>1, <2>2, <2>3 DEF StringPlaces
<1>10. /\ OneLess.tok = scan.tok
       /\ IF scan.left = 1 THEN OneLess.at = "string"
          ELSE OneLess.at = scan.at /\ OneLess.left = scan.left - 1
  BY <1>2 DEF OneLess, InString
<1>11. CASE Hex \/ Utf8Next
  <2>1. /\ (scan.at = "hex" /\ Char \in HexChars) \/ (scan.at = "utf8" /\ Char = "cont")
        /\ Continue(readChar, OneLess)
    BY <1>11 DEF Hex, Utf8Next, Reads
  <2>2. StringTurns(scan, Char, OneLess)
    BY <1>10, <2>1 DEF StringTurns
  <2>3. OneLess.at \in StringPlaces
    BY <1>1, <1>10 DEF StringPlaces
  <2> QED
    BY <1>3, <2>1, <2>2, <2>3
<1>12. CASE Utf8Lead
  <2>1. PICK n : n = CASE Char = "lead2" -> 1 [] Char = "lead3" -> 2 [] Char = "lead4" -> 3
    OBVIOUS
  <2> DEFINE t == [scan EXCEPT !.at = "utf8", !.left = n]
  <2>2. scan.at = "string" /\ Char \in Leads /\ Continue(readChar, t)
    BY <1>12, <2>1 DEF Utf8Lead, Reads
  <2>3. n = Tails[Char]
    BY <2>1, <2>2, LeadsAreTails DEF Leads
  <2>4. t.at = "utf8" /\ t.tok = scan.tok /\ t.left = n
    BY <1>2
  <2> HIDE DEF t
  <2>5. Char # "backslash"
    BY <2>2 DEF Leads
  <2>6. StringTurns(scan, Char, t)
    BY <2>2, <2>3, <2>4, <2>5 DEF StringTurns
  <2> QED
    BY <1>3, <2>2, <2>4, <2>6 DEF StringPlaces
<1>13. CASE StringControl \/ EscapeError \/ HexError \/ Utf8Error
  <2>1. Char \notin Accepted(scan)
    BY <1>13 DEF StringControl, EscapeError, HexError, Utf8Error, Reads, Accepted
  <2>2. PICK p \in {readChar, unreadChar(readChar)} : \E err : Lexed("error", p, err)
    BY <1>13 DEF StringControl, EscapeError, HexError, Utf8Error, Bad
  <2> QED
    BY <1>4, <2>1, <2>2
<1> QED
  BY <1>5, <1>6, <1>7, <1>8, <1>9, <1>11, <1>12, <1>13 DEF StringStep

LEMMA NumberStepWords ==
  ASSUME LexInv, WordsInv, NumberStep
  PROVE  WordsHold'
<1>1. scan.at \in NumberPlaces /\ offset < Len(text) /\ Reading
  BY DEF NumberStep, NumberChar, Integer, Double, NumberError, NumberStops, Reads,
         NumberPlaces, Reading, Lexing
<1>2. Read \in Seq(Chars) /\ Char \in Chars
  BY <1>1, Standing
<1>3. scan.at # "number" => /\ NumberBegun(scan.at, Read)
                            /\ scan.at \in NumberEnds \cup NumberMiddles
  BY <1>1, Standing DEF Begun, StringPlaces, NumberPlaces, CommentPlaces, NumberEnds,
                        NumberMiddles
<1>4. scan.at = "number" =>
        /\ Read = <<>>
        /\ Append(Read, Char) = <<Char>>
        /\ Char \in Digits \cup {"-"}
  BY <1>1, AtTop DEF WordsInv
<1>5. CASE NumberChar
  <2> DEFINE to == NumberGoes(scan.at, Char)
  <2>1. to # "stop" /\ Continue(readChar, Go(to))
    BY <1>5 DEF NumberChar
  <2>2. to \in {"minus", "zero", "int", "point", "frac", "exp", "expsign", "expdigits"}
    BY <2>1 DEF NumberGoes
  <2>3. NumberBegun(to, Append(Read, Char))
    <3>1. CASE scan.at = "number"
      BY <1>4, <3>1, NumberBegins
    <3>2. CASE scan.at # "number"
      <4>1. scan.at \in {"minus", "zero", "int", "point", "frac", "exp", "expsign", "expdigits"}
        BY <1>3, <3>2 DEF NumberEnds, NumberMiddles
      <4> QED
        BY <1>2, <1>3, <2>1, <3>2, <4>1, NumberGoesOn
    <3> QED
      BY <3>1, <3>2
  <2>4. Go(to).at = to
    BY DEF Go, At
  <2> HIDE DEF to
  <2>5. Begun(Go(to), Append(Read, Char), allowComments)
    BY <2>2, <2>3, <2>4 DEF Begun, NumberPlaces
  <2> QED
    BY <1>1, <2>1, <2>2, <2>4, <2>5, Continues
<1>6. ASSUME scan.at # "number", NumberGoes(scan.at, Char) = "stop"
      PROVE  ~Begins(Append(Read, Char), allowComments)
  BY <1>2, <1>3, <1>6, NoNumber
<1>7. CASE Integer
  <2>1. scan.at \in {"zero", "int"} /\ NumberGoes(scan.at, Char) = "stop"
        /\ Lexed("integer", unreadChar(readChar), error)
    BY <1>7 DEF Integer, NumberStops, Token
  <2>2. IsWord("integer", Read)
    BY <1>3, <2>1, IntegerIsWhole, WordsOfTokens
  <2>3. "integer" \in TokenNames
    BY DEF TokenNames
  <2> QED
    BY <1>1, <1>6, <2>1, <2>2, <2>3, DeliversNumber
<1>8. CASE Double
  <2>1. scan.at \in {"frac", "expdigits"} /\ NumberGoes(scan.at, Char) = "stop"
        /\ Lexed("double", unreadChar(readChar), error)
    BY <1>8 DEF Double, NumberStops, Token
  <2>2. IsWord("double", Read)
    BY <1>3, <2>1, DoubleIsWhole, WordsOfTokens
  <2>3. "double" \in TokenNames
    BY DEF TokenNames
  <2> QED
    BY <1>1, <1>6, <2>1, <2>2, <2>3, DeliversNumber
<1>9. CASE NumberError
  <2>1. scan.at \in {"number"} \cup NumberMiddles /\ NumberGoes(scan.at, Char) = "stop"
        /\ \E err : Lexed("error", unreadChar(readChar), err)
    BY <1>9 DEF NumberError, NumberStops, Bad, NumberMiddles
  <2>2. scan.at # "number"
    BY <1>4, <2>1, NumberBegins
  <2>3. ~IsToken(Read)
    BY <1>3, <2>1, <2>2, NoNumber
  <2> QED
    BY <1>1, <1>6, <2>1, <2>2, <2>3, Errored
<1> QED
  BY <1>5, <1>7, <1>8, <1>9 DEF NumberStep

LEMMA CommentStepWords ==
  ASSUME LexInv, WordsInv, CommentStep
  PROVE  WordsHold'
<1>1. scan.at \in CommentPlaces /\ offset < Len(text) /\ Reading
  BY DEF CommentStep, LineComment, BlockComment, SlashError, InComment, Star, NotYet,
         EndComment, Reads, CommentPlaces, Reading, Lexing
<1>2. allowComments /\ CommentBegun(scan.at, Read) /\ Read \in Seq(Chars) /\ Char \in Chars
  BY <1>1, Standing DEF Begun, StringPlaces, NumberPlaces, CommentPlaces
<1>3. ASSUME NEW s, s.at \in CommentPlaces, CommentTurns(scan.at, Char, s.at),
             Continue(readChar, s)
      PROVE  WordsHold'
  <2>1. scan.at = "block" /\ Len(Read) > 2 /\ Read[Len(Read)] = "*" => Char # "/"
    BY DEF WordsInv
  <2>2. CommentBegun(s.at, Append(Read, Char))
    BY <1>2, <1>3, <2>1, CommentGrows
  <2>3. Begun(s, Append(Read, Char), allowComments)
    BY <1>2, <1>3, <2>2 DEF Begun
  <2>4. s.at = "block" => ~(Len(Read) > 1 /\ Char = "*")
    <3> SUFFICES ASSUME s.at = "block", Char = "*"
                 PROVE  ~(Len(Read) > 1)
      OBVIOUS
    <3>1. scan.at = "slash"
      BY <1>3 DEF CommentTurns
    <3>2. Read = <<"/">>
      BY <1>2, <3>1 DEF CommentBegun
    <3> QED
      BY <3>2
  <2> QED
    BY <1>1, <1>3, <2>3, <2>4, Continues DEF CommentPlaces
<1>4. \A place : Go(place).at = place
  BY DEF Go, At
<1>5. CASE LineComment \/ BlockComment \/ Star
  <2>1. PICK to \in {"line", "block", "star"} :
          CommentTurns(scan.at, Char, to) /\ Continue(readChar, Go(to))
    BY <1>5 DEF LineComment, BlockComment, Star, Reads, CommentTurns
  <2> QED
    BY <1>3, <1>4, <2>1 DEF CommentPlaces
<1>6. CASE InComment
  <2>1. CommentTurns(scan.at, Char, scan.at) /\ Continue(readChar, scan)
    BY <1>6 DEF InComment, Reads, CommentTurns
  <2> QED
    BY <1>1, <1>3, <2>1
<1>7. CASE SlashError
  <2>1. scan.at = "slash" /\ Char \in Chars \ {"/", "*"} /\ Lexed("error", readChar, "invalid_char")
    BY <1>7 DEF SlashError, Reads, Bad
  <2>2. ~Begins(Append(Read, Char), allowComments) /\ ~IsToken(Read)
    BY <1>1, <1>2, <2>1, NoComments
  <2> QED
    BY <1>1, <2>1, <2>2, Errored
<1>8. CASE NotYet
  <2> DEFINE s == Go("block")
  <2>1. scan.at = "star" /\ Char # "/" /\ Continue(unreadChar(readChar), s)
    BY <1>8 DEF NotYet, Reads
  <2>2. s.at = "block"
    BY <1>4
  <2> HIDE DEF s
  <2>3. CommentBegun(s.at, Read)
    BY <1>2, <2>1, <2>2 DEF CommentBegun
  <2>4. Begun(s, Read, allowComments)
    BY <1>2, <2>2, <2>3 DEF Begun, CommentPlaces
  <2>5. WordsInv'
    BY <1>1, <2>1, <2>2, <2>4, StaysHere
  <2>6. last' = "none"
    BY <1>1, <2>1, Standing DEF Continue
  <2> QED
    BY <2>5, <2>6, Silent
<1>9. CASE EndComment
  BY <1>9, EndCommentWords
<1> QED
  BY <1>5, <1>6, <1>7, <1>8, <1>9 DEF CommentStep

LEMMA StepWords == LexInv /\ WordsHold /\ [Next]_vars => WordsHold'
<1> SUFFICES ASSUME LexInv, WordsHold, [Next]_vars
             PROVE  WordsHold'
  OBVIOUS
<1>1. CASE Parse
  <2>1. PICK n \in 0 .. Len(input) - 1 - fed : Feed(n)
    BY <1>1 DEF Parse
  <2>2. n \in Nat /\ fed + n <= Len(input)
    BY <2>1 DEF LexInv, TypesOfPositions
  <2> QED
    BY <2>1, <2>2, FeedWords
<1>2. CASE CompleteParse
  <2>1. fed + 1 <= Len(input) /\ Feed(1)
    BY <1>2 DEF CompleteParse, LexInv, TypesOfPositions
  <2> QED
    BY <2>1, FeedWords
<1>3. CASE Lex
  BY <1>3, LexWords
<1>4. CASE LexerStep
  <2>1. scan.at # "idle"
    BY <1>4 DEF LexerStep, EndOfChunk, BeginStep, WordStep, StringStep, NumberStep, CommentStep,
                Mark, SkipSpace, BeginWord, BeginString, BeginNumber, BeginComment, NoComment,
                NoToken, WordChar, WordError, StringEnd, StringChar, StringControl, Backslash,
                Escape, EscapeU, EscapeError, Hex, HexError, Utf8Lead, Utf8Next, Utf8Error,
                NumberChar, Integer, Double, NumberError, NumberStops, NumberPlaces,
                LineComment, BlockComment, SlashError, InComment, Star, NotYet, EndComment, Reads
  <2>2. WordsInv
    BY <2>1 DEF WordsHold, TWords, LexInv
  <2> QED
    BY <1>4, <2>2, EndOfChunkWords, BeginStepWords, WordStepWords, StringStepWords,
       NumberStepWords, CommentStepWords DEF LexerStep
<1>5. CASE UNCHANGED vars
  <2>1. UNCHANGED <<buf, bufOff, bufInUse, text, offset, startOffset, scan, last,
                    allowComments, input, fed, lexed>>
    BY <1>5 DEF vars, lexer, call, fixed
  <2>2. TWords' <=> TWords
    <3>1. Base' = Base /\ Held' = Held /\ InBuf' = InBuf /\ Char' = Char
      BY <2>1 DEF Base, Held, InBuf, Char
    <3>2. TokenStart' = TokenStart /\ Cursor' = Cursor
      BY <2>1, <3>1 DEF TokenStart, Cursor
    <3>3. /\ Read' = Read /\ Part(Base, fed)' = Part(Base, fed)
          /\ Part(TokenStart, TokenStart + Len(buf))' = Part(TokenStart, TokenStart + Len(buf))
      BY <2>1, <3>1, <3>2 DEF Read, Part
    <3>4. EndOf(Len(lexed))' = EndOf(Len(lexed))
      BY <2>1 DEF EndOf
    <3> QED
      BY <2>1, <3>1, <3>2, <3>3, <3>4 DEF TWords, WordsInv
  <2>3. TokensAreTheText' <=> TokensAreTheText
    BY <2>1 DEF TokensAreTheText, Start, EndOf, Part
  <2>4. ErrorsAreJustified' <=> ErrorsAreJustified
    BY <2>1 DEF ErrorsAreJustified, Rests, EndOf, Part
  <2>5. HeldBackIsABeginning' <=> HeldBackIsABeginning
    BY <2>1 DEF HeldBackIsABeginning, Rests, EndOf, Part
  <2> QED
    BY <2>2, <2>3, <2>4, <2>5 DEF WordsHold
<1> QED
  BY <1>1, <1>2, <1>3, <1>4, <1>5 DEF Next

-----------------------------------------------------------------------------
(* However a text is cut into chunks, yajl_lex_lex returns its words, in   *)
(* order, the longest at each place, with nothing but space and comments   *)
(* between them; what buf carries from chunk to chunk loses nothing.       *)
THEOREM TokensFollowTheText == Spec => []TokensAreTheText
<1>1. WordsHold => TokensAreTheText
  BY DEF WordsHold
<1> QED
  BY <1>1, InitInv, NextInv, InitWords, StepWords, PTL DEF Spec

(* yajl_tok_error is returned only where the text, up to a character that  *)
(* the lexer has read, is no longer the beginning of a word.               *)
THEOREM ErrorsAreTrue == Spec => []ErrorsAreJustified
<1>1. WordsHold => ErrorsAreJustified
  BY DEF WordsHold
<1> QED
  BY <1>1, InitInv, NextInv, InitWords, StepWords, PTL DEF Spec

(* At the end of a chunk (yajl_tok_eof) buf holds the text behind the last *)
(* token, without space and comments, and it is the beginning of a word.   *)
THEOREM BeginningsAreHeldBack == Spec => []HeldBackIsABeginning
<1>1. WordsHold => HeldBackIsABeginning
  BY DEF WordsHold
<1> QED
  BY <1>1, InitInv, NextInv, InitWords, StepWords, PTL DEF Spec

=============================================================================
