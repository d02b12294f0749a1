-------------------------------- MODULE Base64 --------------------------------
(***************************************************************************)
(* src/src/base64.c and src/src/r-base64.c.  base64_encode reserves memory *)
(* by a formula and breaks the text into lines; base64_decode counts the   *)
(* characters of the alphabet, skips all others, and looks at the end of   *)
(* the last block for padding.                                             *)
(***************************************************************************)
EXTENDS Conversion

CONSTANT LineLength   \* 72

ASSUME LineLengthAssumption == LineLength \in Nat \ {0}

Base64Encoder == "base64_encode"
Base64Decoder == "base64_decode"

base64_table == [v \in 0 .. 63 |->
  IF v < 26 THEN 65 + v ELSE IF v < 52 THEN 71 + v ELSE IF v < 62 THEN v - 4
  ELSE IF v = 62 THEN 43 ELSE Slash]

-----------------------------------------------------------------------------
(* base64_encode: acc is line_len.                                         *)

\* Slip: 3-byte blocks to 4-byte, and nothing for the last one.
BlocksSizeTight(n) == (n * 4) \div 3
BlocksSize(n) == ((n * 4) \div 3) + 4

CallBase64Encode(bytes) ==
  LET olen == BlocksSize(Len(bytes))
  IN  /\ fn' = Base64Encoder /\ at' = "write" /\ input' = bytes /\ arg' = 0
      /\ cur' = 1 /\ counts' = <<0>> /\ out' = <<>> /\ acc' = 0
      /\ size' = olen + (olen \div LineLength) + 1

Byte(k) == IF k <= Len(input) THEN input[k] ELSE 0
First  == base64_table[Byte(cur) \div 4]
Second == base64_table[(Byte(cur) % 4) * 16 + (Byte(cur + 1) \div 16)]
Third  == base64_table[(Byte(cur + 1) % 16) * 4 + (Byte(cur + 2) \div 64)]
Fourth == base64_table[Byte(cur + 2) % 64]

Remaining == Len(input) - (cur - 1)

EncodeBlock ==
  /\ fn = Base64Encoder /\ at = "write"
  /\ Remaining >= 3
  /\ LET full == acc + 4 >= LineLength
     IN  /\ out' = out \o <<First, Second, Third, Fourth>>
                       \o (IF full THEN <<Newline>> ELSE <<>>)
         /\ acc' = IF full THEN 0 ELSE acc + 4
  /\ cur' = cur + 3
  /\ UNCHANGED <<fn, at, input, arg, counts, size>>

EncodeEnd ==
  /\ fn = Base64Encoder /\ at = "write"
  /\ Remaining < 3
  /\ Finished(out \o CASE Remaining = 0 -> <<>>
                       [] Remaining = 1 -> <<First, Second, Equals, Equals>>
                       [] Remaining = 2 -> <<First, Second, Third, Equals>>)

-----------------------------------------------------------------------------
(* base64_decode: arg is the values of the open block, and the last two    *)
(* characters of the block before it.                                      *)

Alphabet == {base64_table[v] : v \in 0 .. 63} \cup {Equals}
dtable(c) == IF c = Equals THEN 0 ELSE CHOOSE v \in 0 .. 63 : base64_table[v] = c

NoBlock == [block |-> <<>>, third |-> 0, fourth |-> 0]

CallBase64Decode(text) == Call(Base64Decoder, "count", text, NoBlock)

CountCharacter ==
  /\ InLoop(Base64Decoder, "count")
  /\ CountOne(IF input[cur] \in Alphabet THEN 1 ELSE 0)

\* The count is no multiple of four, or malloc(0) returns NULL.
DecodeFails ==
  /\ AfterLoop(Base64Decoder, "count")
  /\ Last(counts) % 4 # 0 \/ Last(counts) = 0
  /\ at' = "failed"
  /\ UNCHANGED <<fn, input, arg, cur, counts, size, out, acc>>

ReserveDecoded ==
  /\ AfterLoop(Base64Decoder, "count")
  /\ Last(counts) % 4 = 0
  /\ Reserve(Last(counts), <<>>)

SkipCharacter ==
  /\ InLoop(Base64Decoder, "write")
  /\ input[cur] \notin Alphabet
  /\ WriteOne(<<>>)

Bytes(b) == <<(b[1] * 4 + (b[2] \div 16)) % 256,
              (b[2] * 16 + (b[3] \div 4)) % 256,
              (b[3] * 64 + b[4]) % 256>>

DecodeCharacter ==
  /\ InLoop(Base64Decoder, "write")
  /\ input[cur] \in Alphabet
  /\ LET b == Append(arg.block, dtable(input[cur]))
     IN  /\ out' = IF Len(b) = 4 THEN out \o Bytes(b) ELSE out
         /\ arg' = [block  |-> IF Len(b) = 4 THEN <<>> ELSE b,
                    third  |-> IF Len(b) = 3 THEN input[cur] ELSE arg.third,
                    fourth |-> IF Len(b) = 4 THEN input[cur] ELSE arg.fourth]
  /\ cur' = cur + 1
  /\ UNCHANGED <<fn, at, input, counts, size, acc>>

\* Slip: one byte of padding is all that is looked for.
PaddingOne ==
  IF out # <<>> /\ arg.fourth = Equals THEN 1 ELSE 0

Padding ==
  CASE out # <<>> /\ arg.third = Equals  -> 2
    [] out # <<>> /\ arg.third # Equals /\ arg.fourth = Equals -> 1
    [] OTHER -> 0

DecodeEnd ==
  /\ AfterLoop(Base64Decoder, "write")
  /\ Finished(SubSeq(out, 1, Len(out) - Padding))

-----------------------------------------------------------------------------
(* R/base64.R: the variant of base64 without "+", "/" and padding, which   *)
(* base64url_dec turns into base64 again.                                  *)

Chartr(old, new, text) ==
  [k \in 1 .. Len(text) |->
     IF \E j \in DOMAIN old : old[j] = text[k]
       THEN new[CHOOSE j \in DOMAIN old : old[j] = text[k]] ELSE text[k]]

\* sub("=+$", "", text); the padding is one or two characters
WithoutPadding(text) ==
  LET filled(k) == k > 0 /\ text[k] = Equals
      n == Len(text)
  IN  SubSeq(text, 1, IF filled(n) THEN IF filled(n - 1) THEN n - 2 ELSE n - 1 ELSE n)

base64url_enc(text) == WithoutPadding(Chartr(<<43, Slash>>, <<Minus, 95>>, text))

\* gsub("[\r\n]", "", text)
WithoutLines(text) ==
  LET kept[n \in 0 .. Len(text)] ==
        IF n = 0 THEN <<>>
        ELSE IF text[n] \in {Newline, CarriageReturn} THEN kept[n - 1]
        ELSE Append(kept[n - 1], text[n])
  IN  kept[Len(text)]

\* Slip: the line feeds are counted.
fix_paddingLines(text) ==
  WithoutLines(text) \o [k \in 1 .. (4 - (Len(text) % 4)) % 4 |-> Equals]

fix_padding(text) ==
  LET t == WithoutLines(text)
  IN  t \o [k \in 1 .. (4 - (Len(t) % 4)) % 4 |-> Equals]

base64url_dec(text) == fix_padding(Chartr(<<Minus, 95>>, <<43, Slash>>, text))

Base64Next ==
  \/ EncodeBlock \/ EncodeEnd
  \/ CountCharacter \/ DecodeFails \/ ReserveDecoded
  \/ SkipCharacter \/ DecodeCharacter \/ DecodeEnd

-----------------------------------------------------------------------------

(* The memory reserved by a formula holds the blocks, the line feeds that  *)
(* are known only later, and the NUL; the decoder writes no more than it   *)
(* has counted.                                                            *)
Base64Fits ==
  /\ fn = Base64Encoder => Len(out) < size
  /\ fn = Base64Decoder /\ at \in {"write", "return"} => Len(out) <= size
=============================================================================
