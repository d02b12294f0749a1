------------------------------ MODULE YajlEncode ------------------------------
(***************************************************************************)
(* src/src/yajl/yajl_encode.c: yajl_string_encode writes the string of a   *)
(* generator, yajl_string_decode reads the text of a string token, which   *)
(* the lexer has found well formed.  Both copy what lies between two       *)
(* escapes in one piece: acc is beg, the first character not yet copied.   *)
(* The buffer they append to grows by itself (module YajlBuf).             *)
(***************************************************************************)
EXTENDS Conversion

Encoder == "yajl_string_encode"
Decoder == "yajl_string_decode"

Uncopied == SubSeq(input, acc, cur - 1)

\* Go on after n more characters; text replaces those since cur.
Replace(text, n) ==
  /\ out' = out \o Uncopied \o text
  /\ cur' = cur + n
  /\ acc' = cur + n
  /\ UNCHANGED <<fn, at, input, arg, counts, size>>

PassOver ==
  /\ cur' = cur + 1
  /\ UNCHANGED <<fn, at, input, arg, counts, size, out, acc>>

CopyRest(f) == AfterLoop(f, "loop") /\ Finished(out \o Uncopied)

CallEncode(x, escape_solidus) ==
  /\ fn' = Encoder /\ at' = "loop" /\ input' = x /\ arg' = escape_solidus
  /\ cur' = 1 /\ counts' = <<0>> /\ size' = 0 /\ out' = <<>> /\ acc' = 1
CallDecode(x) ==
  /\ fn' = Decoder /\ at' = "loop" /\ input' = x /\ arg' = FALSE
  /\ cur' = 1 /\ counts' = <<0>> /\ size' = 0 /\ out' = <<>> /\ acc' = 1

-----------------------------------------------------------------------------
(* yajl_string_encode *)

EscapesSolidus(k) == input[k] = Slash /\ arg /\ k > 1 /\ input[k - 1] = Less

\* CharToHex
Hex(b) == <<Backslash, LetterU, Zero, Zero, HexUpper(b \div 16), HexUpper(b % 16)>>

EncodeEscaped ==
  /\ InLoop(Encoder, "loop")
  /\ \/ input[cur] \in DOMAIN Letter /\ Replace(<<Backslash, Letter[input[cur]]>>, 1)
     \/ EscapesSolidus(cur) /\ Replace(<<Backslash, Slash>>, 1)
     \/ input[cur] \in Control \ DOMAIN Letter /\ Replace(Hex(input[cur]), 1)

EncodePlain ==
  /\ InLoop(Encoder, "loop")
  /\ input[cur] \notin Control \cup {Quote, Backslash}
  /\ ~EscapesSolidus(cur)
  /\ PassOver

-----------------------------------------------------------------------------
(* yajl_string_decode *)

HexDigit == [c \in (48 .. 57) \cup (65 .. 70) \cup (97 .. 102) |->
               IF c < 65 THEN c - 48 ELSE IF c < 97 THEN c - 55 ELSE c - 87]

\* Slip: the digits of a capital letter are those of a small one.
hexToDigitCapitals(k) ==
  LET d(j) == (HexDigit[input[k + j]] + (IF input[k + j] \in 65 .. 70 THEN 32 ELSE 0)) % 16
  IN  4096 * d(0) + 256 * d(1) + 16 * d(2) + d(3)

\* The four digits that begin at k.
hexToDigit(k) ==
  4096 * HexDigit[input[k]] + 256 * HexDigit[input[k + 1]]
    + 16 * HexDigit[input[k + 2]] + HexDigit[input[k + 3]]

HighSurrogate(u) == u \div 1024 = 54   \* 0xD800 .. 0xDBFF
LowSurrogate(u)  == u \div 1024 = 55   \* 0xDC00 .. 0xDFFF

\* Slip: the plane is not counted from 1.
JoinedPlaneZero(high, low) ==
  (high % 64) * 1024 + ((high \div 64) % 16) * 65536 + (low % 1024)

Joined(high, low) ==
  (high % 64) * 1024 + (((high \div 64) % 16) + 1) * 65536 + (low % 1024)

Continuation(u) == 128 + (u % 64)

Utf32toUtf8(u) ==
  IF u < 128 THEN <<u>>
  ELSE IF u < 2048 THEN <<192 + u \div 64, Continuation(u)>>
  ELSE IF u < 65536 THEN <<224 + u \div 4096, Continuation(u \div 64), Continuation(u)>>
  ELSE IF u < 2097152
    THEN <<240 + u \div 262144, Continuation(u \div 4096), Continuation(u \div 64), Continuation(u)>>
  ELSE <<Question>>

\* What an escape of one letter stands for; the lexer lets no other pass.
Meaning == [c \in {98, 116, 110, 102, 114, Quote, Backslash, Slash} |->
              IF c = Slash THEN Slash ELSE CHOOSE b \in DOMAIN Letter : Letter[b] = c]

AtEscape == InLoop(Decoder, "loop") /\ input[cur] = Backslash
AtUnicode == AtEscape /\ input[cur + 1] = LetterU
Unit == hexToDigit(cur + 2)

\* Another \u follows, and all of its digits.
UnitFollows ==
  /\ cur + 11 <= Len(input)
  /\ input[cur + 6] = Backslash
  /\ input[cur + 7] = LetterU
NextUnit == hexToDigit(cur + 8)

DecodeLetter ==
  /\ AtEscape
  /\ input[cur + 1] \in DOMAIN Meaning
  /\ Replace(<<Meaning[input[cur + 1]]>>, 2)

DecodeUnit ==
  /\ AtUnicode
  /\ ~HighSurrogate(Unit)
  /\ Replace(Utf32toUtf8(Unit), 6)

DecodePair ==
  /\ AtUnicode
  /\ HighSurrogate(Unit)
  /\ UnitFollows /\ LowSurrogate(NextUnit)
  /\ Replace(Utf32toUtf8(Joined(Unit, NextUnit)), 12)

\* Slip: the unit after a lone high surrogate is swallowed with it.
DecodeLoneBoth ==
  /\ AtUnicode
  /\ HighSurrogate(Unit)
  /\ ~(UnitFollows /\ LowSurrogate(NextUnit))
  /\ Replace(<<Question>>, IF UnitFollows THEN 12 ELSE 6)

DecodeLone ==
  /\ AtUnicode
  /\ HighSurrogate(Unit)
  /\ ~(UnitFollows /\ LowSurrogate(NextUnit))
  /\ Replace(<<Question>>, 6)

DecodePlain == InLoop(Decoder, "loop") /\ input[cur] # Backslash /\ PassOver

CodingNext ==
  \/ EncodeEscaped \/ EncodePlain \/ CopyRest(Encoder)
  \/ DecodeLetter \/ DecodeUnit \/ DecodePair \/ DecodeLone \/ DecodePlain \/ CopyRest(Decoder)
=============================================================================
