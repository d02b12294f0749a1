--------------------------- MODULE ConversionsProofs ---------------------------
(***************************************************************************)
(* Theorems about Conversions, for texts of every length, every size of    *)
(* the buffers, and whatever order the functions are called in: no         *)
(* function writes outside the memory it has reserved; yajl_parse_integer  *)
(* computes no number outside long long, and the number it computes gets a *)
(* type that holds it; what the package has written it reads as the value  *)
(* that it came from.  Each function has an invariant of its own; those    *)
(* about memory are inductive together, and so are those about values.     *)
(***************************************************************************)
EXTENDS Meanings, Induction, SequenceTheorems, TLAPS

-----------------------------------------------------------------------------
(* The function that runs is the one that steps, and it goes on running.   *)

LEMMA JoinersDiffer ==
  \A f \in Joiners : f \notin {"idle", Escaper, Encoder, Decoder, Appender, Base64Encoder,
    Base64Decoder, IntegerWriter, DoubleWriter, IntegerParser, ValueParser, Renderer}
  BY DEF Joiners, ObjectJoiners, ArrayJoiners, Escaper, Encoder, Decoder, Appender, Base64Encoder,
         Base64Decoder, IntegerWriter, DoubleWriter, IntegerParser, ValueParser, Renderer

LEMMA Owners ==
  /\ EscapeNext => fn = Escaper /\ fn' = fn
  /\ CodingNext => fn \in {Encoder, Decoder} /\ fn' = fn
  /\ BufNext => fn = Appender /\ fn' = fn
  /\ Base64Next => fn \in {Base64Encoder, Base64Decoder} /\ fn' = fn
  /\ CollapseNext => fn \in Joiners /\ fn' = fn
  /\ NumberNext => fn \in {IntegerWriter, DoubleWriter, IntegerParser} /\ fn' = fn
  /\ RenderNext => fn = Renderer /\ fn' = fn
<1>1. EscapeNext => fn = Escaper /\ fn' = fn
  BY DEF EscapeNext, CountMatches, ReserveEscaped, WriteEscaped, CloseQuote, InLoop, AfterLoop,
         CountOne, WriteOne, Reserve, Finished
<1>2. CodingNext => fn \in {Encoder, Decoder} /\ fn' = fn
  BY DEF CodingNext, EncodeEscaped, EncodePlain, CopyRest, DecodeLetter, DecodeUnit, DecodePair,
         DecodeLone, DecodePlain, AtUnicode, AtEscape, Replace, PassOver, InLoop, AfterLoop, Finished
<1>3. BufNext => fn = Appender /\ fn' = fn
  BY DEF BufNext, Ensure, Grow, Abort, AppendPiece, Appended, InLoop, AfterLoop, Finished
<1>4. Base64Next => fn \in {Base64Encoder, Base64Decoder} /\ fn' = fn
  BY DEF Base64Next, EncodeBlock, EncodeEnd, CountCharacter, DecodeFails, ReserveDecoded,
         SkipCharacter, DecodeCharacter, DecodeEnd, InLoop, AfterLoop, CountOne, WriteOne,
         Reserve, Finished
<1>5. CollapseNext => fn \in Joiners /\ fn' = fn
  BY DEF CollapseNext, CountElement, ReserveJoined, WriteElement, CloseJoined, InLoop, AfterLoop,
         CountOne, WriteOne, Reserve, Finished
<1>6. NumberNext => fn \in {IntegerWriter, DoubleWriter, IntegerParser} /\ fn' = fn
  <2>1. WriteDigit \/ WriteSign \/ ZerosDropped \/ WriteFraction \/ WritePoint \/ WriteDoubleSign
          => fn \in {IntegerWriter, DoubleWriter} /\ fn' = fn
    BY DEF WriteDigit, WriteSign, ZerosDropped, WriteFraction, WritePoint, WriteDoubleSign, Finished
  <2>2. DropZero => fn = DoubleWriter /\ fn' = fn
    BY DEF DropZero
  <2>3. OutOfRange \/ ParseDigit \/ Parsed => fn = IntegerParser /\ fn' = fn
    BY DEF OutOfRange, ParseDigit, Parsed, InLoop, AfterLoop, Finished
  <2> QED
    BY <2>1, <2>2, <2>3 DEF NumberNext
<1>7. RenderNext => fn = Renderer /\ fn' = fn
  BY DEF RenderNext, CopyShown, EndShown, WriteOne, Finished
<1> QED
  BY <1>1, <1>2, <1>3, <1>4, <1>5, <1>6, <1>7

LEMMA Runs ==
  ASSUME Running
  PROVE  /\ fn' = fn
         /\ fn = Escaper => EscapeNext
         /\ fn = Appender => BufNext
         /\ fn \in {Base64Encoder, Base64Decoder} => Base64Next
         /\ fn \in Joiners => CollapseNext
         /\ fn = Renderer => RenderNext
<1>1. fn' = fn
  BY Owners DEF Running
<1>2. fn \in Joiners => CollapseNext
  BY Owners, JoinersDiffer DEF Running
<1>3. CollapseNext => fn \notin {Escaper, Appender, Base64Encoder, Base64Decoder, Renderer}
  BY Owners, JoinersDiffer
<1>4. /\ fn = Escaper => EscapeNext
      /\ fn = Appender => BufNext
      /\ fn \in {Base64Encoder, Base64Decoder} => Base64Next
      /\ fn = Renderer => RenderNext
  BY <1>3, Owners DEF Running, Escaper, Encoder, Decoder, Appender, Base64Encoder,
     Base64Decoder, IntegerWriter, DoubleWriter, IntegerParser, Renderer
<1> QED
  BY <1>1, <1>2, <1>4

LEMMA Lengths ==
  ASSUME NEW s, NEW t
  PROVE  Len(s \o t) = Len(s) + Len(t) /\ Len(s) \in Nat /\ Len(t) \in Nat
  OBVIOUS

-----------------------------------------------------------------------------
(* A loop that counts leaves the count before each element.                *)

Counts ==
  /\ counts \in Seq(Nat) /\ Len(counts) > 0 /\ counts[1] = 0
  /\ \A k \in 1 .. Len(counts) : counts[k] <= Last(counts)

LEMMA NewCounts == counts' = <<0>> => Counts' /\ Len(counts') = 1
<1> HAVE counts' = <<0>>
<1>1. counts' \in Seq(Nat) /\ Len(counts') = 1 /\ counts'[1] = 0
  OBVIOUS
<1> QED
  BY <1>1 DEF Counts, Last

LEMMA CountFacts ==
  ASSUME Counts
  PROVE  /\ Len(counts) \in Nat /\ Len(counts) > 0 /\ counts[1] = 0
         /\ \A k \in 1 .. Len(counts) : counts[k] \in Nat /\ counts[k] <= Last(counts)
         /\ Last(counts) = counts[Len(counts)] /\ Last(counts) \in Nat
<1>1. counts \in Seq(Nat) /\ Len(counts) \in Nat /\ Len(counts) > 0 /\ counts[1] = 0
  BY DEF Counts
<1>2. \A k \in 1 .. Len(counts) : counts[k] \in Nat
  BY <1>1
<1>3. \A k \in 1 .. Len(counts) : counts[k] <= Last(counts)
  BY DEF Counts
<1>4. Last(counts) = counts[Len(counts)] /\ Last(counts) \in Nat
  BY <1>1, <1>2 DEF Last
<1> QED
  BY <1>1, <1>2, <1>3, <1>4

LEMMA CountsGrow ==
  ASSUME Counts, NEW n \in Nat, counts' = Append(counts, Last(counts) + n)
  PROVE  /\ Counts'
         /\ Len(counts') = Len(counts) + 1
         /\ counts'[Len(counts) + 1] = counts[Len(counts)] + n
         /\ \A k \in 1 .. Len(counts) : counts'[k] = counts[k]
<1> DEFINE m == Last(counts) + n
<1>1. /\ counts \in Seq(Nat) /\ Len(counts) \in Nat /\ Len(counts) > 0 /\ counts[1] = 0
      /\ \A k \in 1 .. Len(counts) : counts[k] <= Last(counts)
      /\ Last(counts) \in Nat /\ m \in Nat /\ m = counts[Len(counts)] + n
  BY DEF Counts, Last
<1>2. counts' = Append(counts, m)
  OBVIOUS
<1> HIDE DEF m
<1>3. /\ counts' \in Seq(Nat) /\ Len(counts') = Len(counts) + 1 /\ counts'[Len(counts) + 1] = m
      /\ \A k \in 1 .. Len(counts) : counts'[k] = counts[k]
  <2>1. counts \in Seq(Nat) /\ m \in Nat
    BY <1>1
  <2> QED
    BY <1>2, <2>1, AppendProperties
<1>4. ASSUME NEW k \in 1 .. Len(counts')
      PROVE  counts'[k] <= m
  <2>1. CASE k \in 1 .. Len(counts)
    BY <1>1, <1>3, <2>1 DEF m
  <2>2. CASE k \notin 1 .. Len(counts)
    <3>1. k = Len(counts) + 1
      BY <1>1, <1>3, <2>2
    <3> QED
      BY <1>1, <1>3, <3>1
  <2> QED
    BY <2>1, <2>2
<1>5. Last(counts)' = m
  BY <1>3 DEF Last
<1>6. counts'[1] = 0
  BY <1>1, <1>3
<1>7. Counts'
  BY <1>1, <1>3, <1>4, <1>5, <1>6 DEF Counts
<1> QED
  BY <1>1, <1>3, <1>7 DEF m

-----------------------------------------------------------------------------
(* C_escape_chars_one                                                      *)

LEMMA MatchesCounts ==
  ASSUME NEW k
  PROVE  /\ Matches(k) \in Nat
         /\ Len(Escaped(k)) = 1 + Matches(k)
         /\ input[k] \in Control \ DOMAIN Letter => Matches(k) = 5
<1>1. CASE input[k] \in DOMAIN Letter
  <2>1. input[k] # Slash
    BY <1>1 DEF Letter, Slash, Quote, Backslash
  <2>2. Matches(k) = 1 /\ Escaped(k) = <<Backslash, Letter[input[k]]>>
    BY <1>1, <2>1 DEF Matches, Escaped
  <2> QED
    BY <1>1, <2>2
<1>2. CASE input[k] \notin DOMAIN Letter /\ input[k] = Slash
  <2>1. input[k] \notin Control
    BY <1>2 DEF Slash, Control
  <2>2. CASE AfterLess(k)
    <3>1. Matches(k) = 1 /\ Escaped(k) = <<Backslash, Slash>>
      BY <1>2, <2>1, <2>2 DEF Matches, Escaped
    <3> QED
      BY <2>1, <3>1
  <2>3. CASE ~AfterLess(k)
    <3>1. Matches(k) = 0 /\ Escaped(k) = <<Slash>>
      BY <1>2, <2>1, <2>3 DEF Matches, Escaped
    <3> QED
      BY <2>1, <3>1
  <2> QED
    BY <2>2, <2>3
<1>3. CASE input[k] \in Control \ DOMAIN Letter
  <2>1. input[k] # Slash
    BY <1>3 DEF Slash, Control
  <2>2. Matches(k) = 5 /\ Escaped(k) = Hexadecimal(input[k])
    BY <1>3, <2>1 DEF Matches, Escaped
  <2> QED
    BY <1>3, <2>2 DEF Hexadecimal
<1>4. CASE input[k] \notin DOMAIN Letter \cup {Slash} \cup Control
  <2>1. Matches(k) = 0 /\ Escaped(k) = <<input[k]>>
    BY <1>4 DEF Matches, Escaped
  <2> QED
    BY <1>4, <2>1
<1> QED
  BY <1>1, <1>2, <1>3, <1>4

EscapeInv ==
  fn = Escaper =>
    /\ Counts
    /\ cur \in 1 .. Len(input) + 1
    /\ \A k \in 1 .. Len(counts) - 1 : counts[k + 1] = counts[k] + Matches(k)
    /\ at \in {"count", "write", "return"}
    /\ at = "count" => Len(counts) = cur
    /\ at # "count" => Len(counts) = Len(input) + 1 /\ size = Len(input) + Last(counts) + 2
    /\ at = "write" => Len(out) = cur + counts[cur]
    /\ at = "return" => Len(out) = size

LEMMA EscapeBegins ==
  ASSUME NEW x, CallEscape(x)
  PROVE  EscapeInv'
<1>1. at' = "count" /\ cur' = 1 /\ counts' = <<0>> /\ cur' \in 1 .. Len(input') + 1
  BY DEF CallEscape, Call
<1>2. Counts' /\ Len(counts') = 1
  BY <1>1, NewCounts
<1> QED
  BY <1>1, <1>2 DEF EscapeInv

LEMMA EscapeSteps ==
  ASSUME EscapeInv, EscapeNext
  PROVE  EscapeInv'
<1> DEFINE n == Len(input)
<1>1. fn = Escaper /\ fn' = fn /\ input' = input
  BY DEF EscapeNext, CountMatches, ReserveEscaped, WriteEscaped, CloseQuote, InLoop, AfterLoop,
         CountOne, WriteOne, Reserve, Finished
<1>2. /\ Counts /\ cur \in 1 .. n + 1 /\ n \in Nat
      /\ \A k \in 1 .. Len(counts) - 1 : counts[k + 1] = counts[k] + Matches(k)
      /\ at = "count" => Len(counts) = cur
      /\ at # "count" => Len(counts) = n + 1 /\ size = n + Last(counts) + 2
      /\ at = "write" => Len(out) = cur + counts[cur]
  BY <1>1 DEF EscapeInv
<1>3. /\ Len(counts) \in Nat /\ Len(counts) > 0 /\ counts[1] = 0
      /\ \A k \in 1 .. Len(counts) : counts[k] \in Nat /\ counts[k] <= Last(counts)
      /\ Last(counts) = counts[Len(counts)] /\ Last(counts) \in Nat
  BY <1>2, CountFacts
<1>4. \A k : Matches(k)' = Matches(k)
  BY <1>1 DEF Matches, AfterLess
<1>5. CASE CountMatches
  <2>1. /\ at = "count" /\ at' = at /\ cur <= n /\ cur' = cur + 1 /\ UNCHANGED <<size, out>>
        /\ counts' = Append(counts, Last(counts) + Matches(cur))
    BY <1>5 DEF CountMatches, InLoop, CountOne
  <2>2. /\ Counts' /\ Len(counts') = Len(counts) + 1
        /\ counts'[Len(counts) + 1] = counts[Len(counts)] + Matches(cur)
        /\ \A k \in 1 .. Len(counts) : counts'[k] = counts[k]
    BY <1>2, <2>1, MatchesCounts, CountsGrow
  <2>3. ASSUME NEW k \in 1 .. Len(counts') - 1
        PROVE  counts'[k + 1] = counts'[k] + Matches(k)
    <3>1. CASE k = Len(counts)
      BY <1>2, <1>3, <2>1, <2>2, <3>1
    <3>2. CASE k # Len(counts)
      <4>1. k \in 1 .. Len(counts) - 1 /\ k \in 1 .. Len(counts) /\ k + 1 \in 1 .. Len(counts)
        BY <1>3, <2>2, <3>2
      <4> QED
        BY <1>2, <2>2, <4>1
    <3> QED
      BY <3>1, <3>2
  <2>4. cur' \in 1 .. n + 1 /\ Len(counts') = cur'
    BY <1>2, <2>1, <2>2
  <2> QED
    BY <1>1, <1>4, <2>1, <2>2, <2>3, <2>4 DEF EscapeInv
<1>6. CASE ReserveEscaped
  <2>1. /\ at = "count" /\ at' = "write" /\ cur = n + 1 /\ cur' = 1 /\ counts' = counts
        /\ size' = n + Last(counts) + 2 /\ Len(out') = 1
    BY <1>6 DEF ReserveEscaped, AfterLoop, Reserve
  <2> QED
    BY <1>1, <1>2, <1>3, <1>4, <2>1 DEF EscapeInv, Counts, Last
<1>7. CASE WriteEscaped
  <2>1. /\ at = "write" /\ at' = at /\ cur <= n /\ cur' = cur + 1 /\ UNCHANGED <<size, counts>>
        /\ out' = out \o Escaped(cur)
    BY <1>7 DEF WriteEscaped, InLoop, WriteOne
  <2>2. cur \in 1 .. Len(counts) - 1
    BY <1>2, <2>1
  <2>3. counts[cur + 1] = counts[cur] + Matches(cur) /\ counts[cur] \in Nat /\ Matches(cur) \in Nat
    BY <1>2, <1>3, <2>2, MatchesCounts
  <2>4. Len(out') = Len(out) + 1 + Matches(cur)
    <3>1. Len(Escaped(cur)) = 1 + Matches(cur) /\ Matches(cur) \in Nat
      BY MatchesCounts
    <3>2. Len(out') = Len(out) + Len(Escaped(cur))
      BY <2>1
    <3> QED
      BY <3>1, <3>2
  <2>5. Len(out') = cur' + counts[cur'] /\ cur' \in 1 .. n + 1
    <3>1. cur \in Nat /\ cur \in 1 .. n + 1 /\ n \in Nat /\ Len(out) = cur + counts[cur]
      BY <1>2, <2>1
    <3>2. PICK a, m \in Nat : a = counts[cur] /\ m = Matches(cur) /\ a + m = counts[cur']
      BY <2>1, <2>3
    <3>3. cur' = cur + 1 /\ cur <= n
      BY <2>1
    <3>4. Len(out) = cur + a /\ Len(out') = Len(out) + 1 + m
      BY <2>4, <3>1, <3>2
    <3>5. Len(out') = cur' + (a + m)
      BY <3>1, <3>3, <3>4
    <3> QED
      BY <3>1, <3>2, <3>3, <3>5
  <2> QED
    BY <1>1, <1>2, <1>4, <2>1, <2>5 DEF EscapeInv, Counts, Last
<1>8. CASE CloseQuote
  <2>1. /\ at = "write" /\ at' = "return" /\ cur = n + 1 /\ UNCHANGED <<cur, size, counts>>
        /\ Len(out') = Len(out) + 1
    BY <1>8 DEF CloseQuote, AfterLoop, Finished
  <2>2. Len(out') = size
    BY <1>2, <1>3, <2>1
  <2> QED
    BY <1>1, <1>2, <1>4, <2>1, <2>2 DEF EscapeInv, Counts, Last
<1> QED
  BY <1>5, <1>6, <1>7, <1>8 DEF EscapeNext

LEMMA EscapeInvFits == EscapeInv => EscapeFits
<1> SUFFICES ASSUME EscapeInv, fn = Escaper
             PROVE  /\ at = "write" => Len(out) < size
                    /\ at = "write" /\ cur <= Len(input) /\ input[cur] \in Control \ DOMAIN Letter
                         => Len(out) + 7 <= size
                    /\ at = "return" => Len(out) = size
  BY DEF EscapeFits
<1> DEFINE n == Len(input)
<1>0. /\ n \in Nat /\ cur \in 1 .. n + 1
      /\ \A k \in 1 .. Len(counts) - 1 : counts[k + 1] = counts[k] + Matches(k)
      /\ at = "write" => Len(counts) = n + 1 /\ size = n + Last(counts) + 2
      /\ at = "write" => Len(out) = cur + counts[cur]
      /\ at = "return" => Len(out) = size
  BY DEF EscapeInv
<1>1. /\ \A k \in 1 .. Len(counts) : counts[k] \in Nat /\ counts[k] <= Last(counts)
      /\ Last(counts) \in Nat
  BY CountFacts DEF EscapeInv
<1>2. ASSUME at = "write" PROVE Len(out) < size
  <2>1. PICK a, last \in Nat : a = counts[cur] /\ last = Last(counts) /\ a <= last
    <3>1. cur \in 1 .. Len(counts)
      BY <1>0, <1>2
    <3> QED
      BY <1>1, <3>1
  <2>2. Len(out) = cur + a /\ size = n + last + 2 /\ cur \in 1 .. n + 1 /\ n \in Nat
    BY <1>0, <1>2, <2>1
  <2>3. ASSUME NEW c \in Nat, NEW m \in Nat, c <= m + 1
        PROVE  c + a < m + last + 2
    BY <2>1, <2>3
  <2>4. cur \in Nat /\ cur <= n + 1
    BY <2>2
  <2>5. cur + a < n + last + 2
    BY <2>2, <2>3, <2>4, Zenon
  <2> QED
    BY <2>2, <2>5, Zenon
<1>3. ASSUME at = "write", cur <= Len(input), input[cur] \in Control \ DOMAIN Letter
      PROVE  Len(out) + 7 <= size
  <2>1. Matches(cur) = 5
    BY <1>3, MatchesCounts
  <2>2. cur \in 1 .. Len(counts) - 1 /\ cur \in 1 .. Len(counts) /\ cur + 1 \in 1 .. Len(counts)
    BY <1>0, <1>3
  <2>3. counts[cur + 1] = counts[cur] + 5 /\ counts[cur] \in Nat /\ counts[cur + 1] <= Last(counts)
    BY <1>0, <1>1, <2>1, <2>2
  <2>4. PICK a, last \in Nat : a = counts[cur] /\ last = Last(counts) /\ a + 5 <= last
    BY <1>1, <2>3
  <2>5. Len(out) = cur + a /\ size = n + last + 2 /\ cur <= n /\ n \in Nat /\ cur \in Nat
    BY <1>0, <1>3, <2>4
  <2>6. ASSUME NEW c \in Nat, NEW m \in Nat, c <= m
        PROVE  c + a + 7 <= m + last + 2
    BY <2>4, <2>6
  <2>7. cur + a + 7 <= n + last + 2
    BY <2>5, <2>6
  <2> QED
    BY <2>5, <2>7
<1> QED
  BY <1>0, <1>2, <1>3

-----------------------------------------------------------------------------
(* yajl_buf_append                                                         *)

BufInv ==
  fn = Appender =>
    /\ input \in Seq(0 .. SizeLimit - 1)
    /\ cur \in 1 .. Len(input) + 1
    /\ acc \in Nat /\ size \in 0 .. SizeLimit - 1
    /\ at \in {"ensure", "grow", "return", "abort"}
    /\ at \in {"ensure", "return"} => IF cur = 1 THEN acc = 0 /\ size = 0 ELSE acc < size
    /\ at = "grow" => cur <= Len(input) /\ acc < size
    /\ at = "abort" => acc + Want >= HalfSize - 1

LEMMA SizesOfBuffers ==
  InitialSize \in 1 .. SizeLimit - 1 /\ HalfSize \in Nat /\ SizeLimit \in Nat /\ SizeLimit = 2 * HalfSize
    /\ HalfSize > 1
  BY BufferSizesAssumption DEF SizeLimit

\* The subtraction in size_t is exact while the text is shorter than the buffer.
LEMMA FreeOfBuffer ==
  ASSUME acc \in Nat, size \in 0 .. SizeLimit - 1, acc < size
  PROVE  Free = size - acc
<1>1. PICK m \in Nat : m = SizeLimit
  BY SizesOfBuffers
<1>2. PICK n \in Nat : n = size - acc
  OBVIOUS
<1>3. n < m
  BY <1>1, <1>2
<1>4. n % m = n
  BY <1>3
<1> QED
  BY <1>1, <1>2, <1>4 DEF Free

LEMMA AppendBegins ==
  ASSUME NEW pieces \in PieceLists, CallAppend(pieces)
  PROVE  BufInv'
<1>1. at' = "ensure" /\ cur' = 1 /\ acc' = 0 /\ size' = 0 /\ input' = pieces
  BY DEF CallAppend, Call
<1>2. pieces \in Seq(0 .. SizeLimit - 1)
  BY PiecesAssumption
<1>3. Len(pieces) \in Nat
  BY <1>2
<1>4. cur' \in 1 .. Len(input') + 1 /\ size' \in 0 .. SizeLimit - 1 /\ acc' \in Nat
  BY <1>1, <1>3, SizesOfBuffers
<1> QED
  BY <1>1, <1>2, <1>4 DEF BufInv

LEMMA AppendSteps ==
  ASSUME BufInv, BufNext
  PROVE  BufInv'
<1>1. fn = Appender /\ fn' = fn /\ input' = input
  BY DEF BufNext, Ensure, Grow, Abort, AppendPiece, Appended, InLoop, AfterLoop, Finished
<1>2. /\ input \in Seq(0 .. SizeLimit - 1) /\ Len(input) \in Nat
      /\ cur \in 1 .. Len(input) + 1
      /\ acc \in Nat /\ size \in 0 .. SizeLimit - 1
      /\ at = "ensure" => IF cur = 1 THEN acc = 0 /\ size = 0 ELSE acc < size
      /\ at = "grow" => cur <= Len(input) /\ acc < size
  BY <1>1 DEF BufInv
<1>3. cur <= Len(input) => Want \in 0 .. SizeLimit - 1
  <2>1. cur <= Len(input) => cur \in 1 .. Len(input)
    BY <1>2
  <2> QED
    BY <1>2, <2>1, ElementOfSeq DEF Want
<1>4. CASE Ensure
  <2>1. /\ at = "ensure" /\ cur <= Len(input) /\ cur' = cur /\ acc' = acc
        /\ size' = IF size = 0 THEN InitialSize ELSE size
        /\ IF acc > Sum \/ Want > Sum THEN at' = "abort" ELSE at' = "grow"
    BY <1>4 DEF Ensure, InLoop
  <2>2. size' \in 0 .. SizeLimit - 1 /\ acc < size'
    BY <1>2, <2>1, SizesOfBuffers
  <2>3. PICK w \in 0 .. SizeLimit - 1 : w = Want
    BY <1>3, <2>1
  <2>4. ASSUME at' = "abort" PROVE acc + w >= HalfSize - 1
    <3>1. acc > Sum \/ w > Sum
      BY <2>1, <2>3, <2>4
    <3>2. CASE acc + w < SizeLimit
      <4>1. (acc + w) % SizeLimit = acc + w
        BY <1>2, <2>3, <3>2, SizesOfBuffers
      <4>2. Sum = acc + w
        BY <2>3, <4>1 DEF Sum
      <4> QED
        BY <1>2, <2>3, <3>1, <4>2
    <3>3. CASE acc + w >= SizeLimit
      BY <1>2, <2>3, <3>3, SizesOfBuffers
    <3> QED
      BY <1>2, <2>3, <3>2, <3>3, SizesOfBuffers
  <2>5. Want' = Want
    BY <1>1, <2>1 DEF Want
  <2> QED
    BY <1>1, <1>2, <2>1, <2>2, <2>3, <2>4, <2>5 DEF BufInv
<1>5. CASE Grow
  <2>1. /\ at = "grow" /\ cur <= Len(input) /\ cur' = cur /\ acc' = acc /\ Want >= Free
        /\ \/ size >= HalfSize - 1 /\ at' = "abort" /\ size' = size
           \/ size < HalfSize - 1 /\ at' = at /\ size' = (2 * size) % SizeLimit
    BY <1>2, <1>5, SizesOfBuffers DEF Grow, InLoop, Full, Abort
  <2>2. Free = size - acc
    BY <1>2, <2>1, FreeOfBuffer
  <2>3. Want' = Want
    BY <1>1, <2>1 DEF Want
  <2>4. CASE size >= HalfSize - 1 /\ at' = "abort" /\ size' = size
    <3>1. acc + Want >= HalfSize - 1
      BY <1>2, <1>3, <2>1, <2>2, <2>4, SizesOfBuffers
    <3> QED
      BY <1>1, <1>2, <2>1, <2>3, <2>4, <3>1 DEF BufInv
  <2>5. CASE size < HalfSize - 1 /\ at' = at /\ size' = (2 * size) % SizeLimit
    <3>1. 2 * size \in Nat /\ 2 * size < SizeLimit
      BY <1>2, <2>5, SizesOfBuffers
    <3>2. (2 * size) % SizeLimit = 2 * size
      BY <3>1, SizesOfBuffers
    <3>3. size' = 2 * size /\ acc < size /\ size \in Nat
      BY <1>2, <2>1, <2>5, <3>2, SizesOfBuffers
    <3>4. size' \in 0 .. SizeLimit - 1 /\ acc < size'
      BY <1>2, <3>1, <3>3, SizesOfBuffers
    <3> QED
      BY <1>1, <1>2, <2>1, <2>5, <3>4 DEF BufInv
  <2> QED
    BY <2>1, <2>4, <2>5
<1>6. CASE AppendPiece
  <2>1. /\ at = "grow" /\ cur <= Len(input) /\ cur' = cur + 1 /\ acc' = acc + Want /\ size' = size
        /\ at' = "ensure" /\ ~(Want >= Free)
    BY <1>6 DEF AppendPiece, InLoop, Full
  <2>2. Free = size - acc
    BY <1>2, <2>1, FreeOfBuffer
  <2>3. acc' \in Nat /\ acc' < size' /\ cur' \in 1 .. Len(input) + 1 /\ cur' # 1
    BY <1>2, <1>3, <2>1, <2>2
  <2> QED
    BY <1>1, <1>2, <2>1, <2>3 DEF BufInv
<1>7. CASE Appended
  <2>1. at = "ensure" /\ at' = "return" /\ UNCHANGED <<cur, acc, size>>
    BY <1>7 DEF Appended, AfterLoop, Finished
  <2> QED
    BY <1>1, <1>2, <2>1 DEF BufInv
<1> QED
  BY <1>4, <1>5, <1>6, <1>7 DEF BufNext

LEMMA BufInvFits == BufInv => BufFits
<1> SUFFICES ASSUME BufInv, fn = Appender
             PROVE  /\ at = "grow" \/ (at \in {"ensure", "return"} /\ cur > 1) => acc < size
                    /\ at = "abort" => acc + Want >= HalfSize - 1
  BY DEF BufFits
<1> QED
  BY SizesOfBuffers DEF BufInv

-----------------------------------------------------------------------------
(* base64_encode                                                           *)

EncodedSize(n) == BlocksSize(n) + (BlocksSize(n) \div LineLength) + 1

(* b blocks and lines line feeds, each behind at least LineLength           *)
(* characters, fit with one block more.                                    *)
LEMMA LinesFit ==
  ASSUME NEW n \in Nat, NEW b \in Nat, NEW lines \in Nat, NEW more \in 0 .. 4,
         3 * b <= n, LineLength * lines <= 4 * b
  PROVE  4 * b + lines + more < EncodedSize(n)
<1> DEFINE olen == BlocksSize(n)
<1>1. n * 4 \in Nat /\ 4 * b \in Nat /\ 3 * (4 * b) <= n * 4
  OBVIOUS
<1>2. ASSUME NEW a \in Nat, NEW d \in Nat, d > 0, NEW q \in Nat, d * q <= a
      PROVE  q <= a \div d /\ a \div d \in Nat
  <2>1. q <= a \div d
    BY <1>2
  <2>2. a \div d \in Int
    BY <1>2
  <2> QED
    BY <2>1, <2>2
<1>3. 4 * b <= (n * 4) \div 3 /\ (n * 4) \div 3 \in Nat
  BY <1>1, <1>2
<1>4. olen \in Nat /\ 4 * b + 4 <= olen
  BY <1>1, <1>3 DEF BlocksSize
<1> HIDE DEF olen
<1>5. LineLength * lines <= olen
  BY <1>1, <1>4, LineLengthAssumption
<1>6. LineLength \in Nat /\ LineLength > 0
  BY LineLengthAssumption
<1>7. lines <= olen \div LineLength /\ olen \div LineLength \in Nat
  BY <1>2, <1>4, <1>5, <1>6
<1>8. 4 * b + lines + more < olen + (olen \div LineLength) + 1
  BY <1>1, <1>4, <1>7
<1> QED
  BY <1>8 DEF EncodedSize, olen

(* b blocks are written, and line feeds between them.                      *)
Blocks(b, lines) ==
  /\ cur = 3 * b + 1 /\ 3 * b <= Len(input)
  /\ acc \in Nat
  /\ Len(out) = 4 * b + lines
  /\ LineLength * lines + acc <= 4 * b

EncodeInv ==
  fn = Base64Encoder =>
    /\ size = EncodedSize(Len(input))
    /\ at \in {"write", "return"}
    /\ at = "write" => \E b, lines \in Nat : Blocks(b, lines)
    /\ at = "return" => Len(out) < size

LEMMA EncodeBegins ==
  ASSUME NEW bytes, CallBase64Encode(bytes)
  PROVE  EncodeInv'
<1>1. /\ at' = "write" /\ cur' = 1 /\ acc' = 0 /\ out' = <<>> /\ input' = bytes
      /\ size' = EncodedSize(Len(input'))
  BY DEF CallBase64Encode, EncodedSize
<1>2. LineLength * 0 = 0 /\ Len(bytes) \in Nat
  BY LineLengthAssumption
<1>3. Blocks(0, 0)'
  BY <1>1, <1>2 DEF Blocks
<1>4. \E b, lines \in Nat : Blocks(b, lines)'
  BY <1>3
<1> QED
  BY <1>1, <1>4 DEF EncodeInv

LEMMA EncodeSteps ==
  ASSUME EncodeInv, EncodeBlock \/ EncodeEnd
  PROVE  EncodeInv'
<1>1. fn = Base64Encoder /\ fn' = fn /\ at = "write" /\ UNCHANGED <<input, size>>
  BY DEF EncodeBlock, EncodeEnd, Finished
<1>2. size = EncodedSize(Len(input)) /\ Len(input) \in Nat
  BY <1>1 DEF EncodeInv
<1>3. PICK b, lines \in Nat : Blocks(b, lines)
  BY <1>1 DEF EncodeInv
<1>4. /\ cur = 3 * b + 1 /\ 3 * b <= Len(input) /\ acc \in Nat
      /\ Len(out) = 4 * b + lines /\ LineLength * lines + acc <= 4 * b
      /\ LineLength \in Nat /\ LineLength * lines \in Nat
  BY <1>3, LineLengthAssumption DEF Blocks
<1>5. Remaining = Len(input) - 3 * b
  BY <1>2, <1>4 DEF Remaining
<1>6. CASE EncodeBlock
  <2> DEFINE full == acc + 4 >= LineLength
             block == <<First, Second, Third, Fourth>>
             feed == IF full THEN <<Newline>> ELSE <<>>
  <2>1. /\ Remaining >= 3 /\ at' = at /\ cur' = cur + 3
        /\ acc' = (IF full THEN 0 ELSE acc + 4) /\ out' = out \o block \o feed
    BY <1>6 DEF EncodeBlock
  <2>2. cur' = 3 * (b + 1) + 1 /\ 3 * (b + 1) <= Len(input) /\ b + 1 \in Nat
    BY <1>2, <1>4, <1>5, <2>1
  <2>3. Len(block) = 4
    OBVIOUS
  <2> HIDE DEF block
  <2>4. CASE full
    <3>1. Len(feed) = 1
      BY <2>4
    <3> HIDE DEF feed
    <3>2. Len(out') = Len(out) + 4 + 1
      <4> DEFINE mid == out \o block
      <4>1. out' = mid \o feed
        BY <2>1
      <4>2. Len(mid) = Len(out) + Len(block) /\ Len(out) \in Nat
        BY Lengths
      <4> HIDE DEF mid
      <4>3. Len(out') = Len(mid) + Len(feed)
        BY <4>1, Lengths
      <4> QED
        BY <2>3, <3>1, <4>2, <4>3
    <3>3. LineLength * (lines + 1) = LineLength * lines + LineLength
      BY <1>4
    <3>4. LineLength * (lines + 1) + acc' <= 4 * (b + 1) /\ acc' = 0
      BY <1>4, <2>1, <2>4, <3>3
    <3>5. Len(out') = 4 * (b + 1) + (lines + 1) /\ lines + 1 \in Nat
      BY <1>4, <3>2
    <3>6. Blocks(b + 1, lines + 1)'
      BY <1>1, <2>2, <3>4, <3>5 DEF Blocks
    <3> QED
      BY <1>1, <1>2, <2>1, <2>2, <3>5, <3>6 DEF EncodeInv
  <2>5. CASE ~full
    <3>1. Len(feed) = 0
      BY <2>5
    <3> HIDE DEF feed
    <3>2. Len(out') = Len(out) + 4
      <4> DEFINE mid == out \o block
      <4>1. out' = mid \o feed
        BY <2>1
      <4>2. Len(mid) = Len(out) + Len(block) /\ Len(out) \in Nat
        BY Lengths
      <4> HIDE DEF mid
      <4>3. Len(out') = Len(mid) + Len(feed)
        BY <4>1, Lengths
      <4> QED
        BY <2>3, <3>1, <4>2, <4>3
    <3>3. acc' = acc + 4 /\ acc' \in Nat
      BY <1>4, <2>1, <2>5
    <3>4. LineLength * lines + acc' <= 4 * (b + 1)
      BY <1>4, <3>3
    <3>5. Len(out') = 4 * (b + 1) + lines
      BY <1>4, <3>2
    <3>6. Blocks(b + 1, lines)'
      BY <1>1, <2>2, <3>3, <3>4, <3>5 DEF Blocks
    <3> QED
      BY <1>1, <1>2, <2>1, <2>2, <3>6 DEF EncodeInv
  <2> QED
    BY <2>4, <2>5
<1>7. CASE EncodeEnd
  <2> DEFINE last == CASE Remaining = 0 -> <<>>
                       [] Remaining = 1 -> <<First, Second, Equals, Equals>>
                       [] Remaining = 2 -> <<First, Second, Third, Equals>>
  <2>1. at' = "return" /\ Remaining < 3 /\ out' = out \o last
    BY <1>7 DEF EncodeEnd, Finished
  <2>2. Remaining = 0 \/ Remaining = 1 \/ Remaining = 2
    BY <1>2, <1>4, <1>5, <2>1
  <2>3. Len(last) \in 0 .. 4
    <3>1. CASE Remaining = 0
      BY <3>1
    <3>2. CASE Remaining = 1
      BY <3>2
    <3>3. CASE Remaining = 2
      BY <3>3
    <3> QED
      BY <2>2, <3>1, <3>2, <3>3
  <2> HIDE DEF last
  <2>4. Len(out') = Len(out) + Len(last)
    BY <2>1
  <2>5. LineLength * lines <= 4 * b
    BY <1>4
  <2>6. 4 * b + lines + Len(last) < EncodedSize(Len(input))
    BY <1>2, <1>4, <2>3, <2>5, LinesFit
  <2>7. Len(out') < size
    BY <1>2, <1>4, <2>4, <2>6
  <2> QED
    BY <1>1, <1>2, <2>1, <2>7 DEF EncodeInv
<1> QED
  BY <1>6, <1>7

LEMMA EncodeInvFits == EncodeInv => (fn = Base64Encoder => Len(out) < size)
<1> SUFFICES ASSUME EncodeInv, fn = Base64Encoder
             PROVE  Len(out) < size
  OBVIOUS
<1>1. CASE at = "write"
  <2>1. PICK b, lines \in Nat : Blocks(b, lines)
    BY <1>1 DEF EncodeInv
  <2>2. 3 * b <= Len(input) /\ Len(out) = 4 * b + lines /\ LineLength * lines <= 4 * b
    BY <2>1, LineLengthAssumption DEF Blocks
  <2>3. 4 * b + lines + 0 < EncodedSize(Len(input))
    BY <2>2, LinesFit
  <2> QED
    BY <2>2, <2>3 DEF EncodeInv
<1> QED
  BY <1>1 DEF EncodeInv

-----------------------------------------------------------------------------
(* base64_decode                                                           *)

InAlphabet(k) == IF input[k] \in Alphabet THEN 1 ELSE 0

DecodeInv ==
  fn = Base64Decoder =>
    /\ Counts
    /\ cur \in 1 .. Len(input) + 1
    /\ \A k \in 1 .. Len(counts) - 1 : counts[k + 1] = counts[k] + InAlphabet(k)
    /\ at \in {"count", "failed", "write", "return"}
    /\ at = "count" => Len(counts) = cur /\ arg = NoBlock
    /\ at = "write" => /\ Len(counts) = Len(input) + 1 /\ size = Last(counts)
                       /\ Len(arg.block) <= 3
                       /\ Len(out) + Len(arg.block) <= counts[cur]
    /\ at = "return" => Len(out) <= size

LEMMA DecodeBegins ==
  ASSUME NEW text, CallBase64Decode(text)
  PROVE  DecodeInv'
<1>1. at' = "count" /\ cur' = 1 /\ counts' = <<0>> /\ cur' \in 1 .. Len(input') + 1
      /\ arg' = NoBlock
  BY DEF CallBase64Decode, Call
<1>2. Counts' /\ Len(counts') = 1
  BY <1>1, NewCounts
<1> QED
  BY <1>1, <1>2 DEF DecodeInv

LEMMA DecodeSteps ==
  ASSUME DecodeInv, fn = Base64Decoder, Base64Next
  PROVE  DecodeInv'
<1> DEFINE n == Len(input)
<1>1. fn' = fn /\ input' = input /\ Base64Encoder # Base64Decoder
  BY DEF Base64Next, EncodeBlock, EncodeEnd, CountCharacter, DecodeFails, ReserveDecoded,
         SkipCharacter, DecodeCharacter, DecodeEnd, InLoop, AfterLoop, CountOne, WriteOne,
         Reserve, Finished, Base64Encoder, Base64Decoder
<1>2. /\ Counts /\ cur \in 1 .. n + 1 /\ n \in Nat
      /\ \A k \in 1 .. Len(counts) - 1 : counts[k + 1] = counts[k] + InAlphabet(k)
      /\ at = "count" => Len(counts) = cur /\ arg = NoBlock
      /\ at = "write" => /\ Len(counts) = n + 1 /\ size = Last(counts)
                         /\ Len(arg.block) <= 3
                         /\ Len(out) + Len(arg.block) <= counts[cur]
  BY DEF DecodeInv
<1>3. /\ Len(counts) \in Nat /\ Len(counts) > 0 /\ counts[1] = 0
      /\ \A k \in 1 .. Len(counts) : counts[k] \in Nat /\ counts[k] <= Last(counts)
      /\ Last(counts) = counts[Len(counts)] /\ Last(counts) \in Nat
  BY <1>2, CountFacts
<1>4. \A k : InAlphabet(k)' = InAlphabet(k) /\ InAlphabet(k) \in 0 .. 1
  BY <1>1 DEF InAlphabet
<1>5. CASE CountCharacter
  <2>1. /\ at = "count" /\ at' = at /\ cur <= n /\ cur' = cur + 1 /\ UNCHANGED <<arg, size, out>>
        /\ counts' = Append(counts, Last(counts) + InAlphabet(cur))
    BY <1>5 DEF CountCharacter, InLoop, CountOne, InAlphabet
  <2>2. /\ Counts' /\ Len(counts') = Len(counts) + 1
        /\ counts'[Len(counts) + 1] = counts[Len(counts)] + InAlphabet(cur)
        /\ \A k \in 1 .. Len(counts) : counts'[k] = counts[k]
    BY <1>2, <1>4, <2>1, CountsGrow
  <2>3. ASSUME NEW k \in 1 .. Len(counts') - 1
        PROVE  counts'[k + 1] = counts'[k] + InAlphabet(k)
    <3>1. CASE k = Len(counts)
      BY <1>2, <1>3, <2>1, <2>2, <3>1
    <3>2. CASE k # Len(counts)
      <4>1. k \in 1 .. Len(counts) - 1 /\ k \in 1 .. Len(counts) /\ k + 1 \in 1 .. Len(counts)
        BY <1>3, <2>2, <3>2
      <4> QED
        BY <1>2, <2>2, <4>1
    <3> QED
      BY <3>1, <3>2
  <2>4. cur' \in 1 .. n + 1 /\ Len(counts') = cur' /\ arg' = NoBlock
    BY <1>2, <2>1, <2>2
  <2> QED
    BY <1>1, <1>4, <2>1, <2>2, <2>3, <2>4 DEF DecodeInv
<1>6. CASE DecodeFails
  <2>1. at' = "failed" /\ UNCHANGED <<cur, counts>>
    BY <1>6 DEF DecodeFails
  <2> QED
    BY <1>1, <1>2, <1>4, <2>1 DEF DecodeInv, Counts, Last
<1>7. CASE ReserveDecoded
  <2>1. /\ at = "count" /\ at' = "write" /\ cur = n + 1 /\ cur' = 1 /\ counts' = counts
        /\ size' = Last(counts) /\ out' = <<>> /\ arg' = arg
    BY <1>7 DEF ReserveDecoded, AfterLoop, Reserve
  <2>2. Len(arg.block) = 0 /\ Len(out') = 0
    BY <1>2, <2>1 DEF NoBlock
  <2>3. Len(out') + Len(arg'.block) <= counts'[cur']
    BY <1>3, <2>1, <2>2
  <2> QED
    BY <1>1, <1>2, <1>3, <1>4, <2>1, <2>2, <2>3 DEF DecodeInv, Counts, Last
<1>8. ASSUME at = "write", cur <= n
      PROVE  /\ cur \in 1 .. Len(counts) - 1 /\ cur \in 1 .. Len(counts)
             /\ counts[cur] \in Nat /\ counts[cur + 1] = counts[cur] + InAlphabet(cur)
  <2>1. cur \in 1 .. Len(counts) - 1 /\ cur \in 1 .. Len(counts)
    BY <1>2, <1>3, <1>8
  <2> QED
    BY <1>2, <1>3, <2>1
<1>9. CASE SkipCharacter
  <2>1. /\ at = "write" /\ at' = at /\ cur <= n /\ cur' = cur + 1 /\ UNCHANGED <<arg, size, counts>>
        /\ Len(out') = Len(out) /\ InAlphabet(cur) = 0
    BY <1>9 DEF SkipCharacter, InLoop, WriteOne, InAlphabet
  <2>2. Len(out') + Len(arg'.block) <= counts'[cur'] /\ cur' \in 1 .. n + 1
    BY <1>2, <1>8, <2>1
  <2> QED
    BY <1>1, <1>2, <1>4, <2>1, <2>2 DEF DecodeInv, Counts, Last
<1>10. CASE DecodeCharacter
  <2> DEFINE b == Append(arg.block, dtable(input[cur]))
  <2>1. /\ at = "write" /\ at' = at /\ cur <= n /\ cur' = cur + 1 /\ UNCHANGED <<size, counts>>
        /\ out' = (IF Len(b) = 4 THEN out \o Bytes(b) ELSE out)
        /\ arg'.block = (IF Len(b) = 4 THEN <<>> ELSE b)
        /\ InAlphabet(cur) = 1
    BY <1>10 DEF DecodeCharacter, InLoop, InAlphabet
  <2>2. Len(b) = Len(arg.block) + 1 /\ Len(arg.block) \in Nat
    OBVIOUS
  <2> HIDE DEF b
  <2>3. Len(out) \in Nat /\ Len(arg.block) <= 3
    BY <1>2, <2>1
  <2>4. PICK a \in Nat : a = counts[cur] /\ counts[cur + 1] = a + 1 /\ Len(out) + Len(arg.block) <= a
    BY <1>2, <1>8, <2>1
  <2>5. PICK l, m \in Nat : l = Len(out) /\ m = Len(arg.block)
    BY <2>2, <2>3
  <2>6. l + m <= a /\ m <= 3 /\ Len(b) = m + 1
    BY <2>2, <2>3, <2>4, <2>5
  <2>7. \E l1, m1 \in Nat : l1 = Len(out') /\ m1 = Len(arg'.block) /\ l1 + m1 <= a + 1 /\ m1 <= 3
    <3>1. CASE Len(b) = 4
      <4>1. Len(Bytes(b)) = 3
        BY DEF Bytes
      <4>2. out' = out \o Bytes(b)
        BY <2>1, <3>1
      <4>3. Len(arg'.block) = 0
        BY <2>1, <3>1
      <4>4. m = 3 /\ Len(out') = l + 3
        <5>0. m + 1 = 4 => m = 3
          OBVIOUS
        <5>1. m = 3
          BY <2>6, <3>1, <5>0, Zenon
        <5>2. Len(out') = Len(out) + Len(Bytes(b))
          BY <4>2, Lengths
        <5> QED
          BY <2>5, <4>1, <5>1, <5>2
      <4>5. l + 3 \in Nat /\ (l + 3) + 0 <= a + 1
        BY <2>6, <4>4
      <4> QED
        BY <4>3, <4>4, <4>5
    <3>2. CASE Len(b) # 4
      <4>1. out' = out /\ arg'.block = b
        BY <2>1, <3>2
      <4>2. m + 1 \in Nat /\ l + (m + 1) <= a + 1 /\ m + 1 <= 3
        BY <2>6, <3>2
      <4> QED
        BY <2>5, <2>6, <4>1, <4>2
    <3> QED
      BY <3>1, <3>2
  <2>8. Len(out') + Len(arg'.block) <= a + 1 /\ Len(arg'.block) <= 3
    BY <2>7
  <2>9. Len(out') + Len(arg'.block) <= counts'[cur'] /\ cur' \in 1 .. n + 1
    BY <1>2, <2>1, <2>4, <2>8
  <2> QED
    BY <1>1, <1>2, <1>4, <2>1, <2>8, <2>9 DEF DecodeInv, Counts, Last
<1>11. CASE DecodeEnd
  <2>1. /\ at = "write" /\ at' = "return" /\ cur = n + 1 /\ UNCHANGED <<cur, counts, size>>
        /\ out' = SubSeq(out, 1, Len(out) - Padding)
    BY <1>11 DEF DecodeEnd, AfterLoop, Finished
  <2>2. Len(out) <= size /\ size \in Nat /\ Len(out) \in Nat
    <3>1. Len(counts) = cur /\ Len(arg.block) \in Nat
      BY <1>2, <2>1
    <3>2. Len(out) + Len(arg.block) <= Last(counts) /\ size = Last(counts)
      BY <1>2, <1>3, <2>1, <3>1
    <3> QED
      BY <1>3, <3>1, <3>2
  <2>3. Padding \in 0 .. 2
    BY DEF Padding
  <2>4. Len(out) - Padding \in Int /\ Len(out) - Padding <= Len(out)
    <3>1. ASSUME NEW l \in Nat, NEW p \in 0 .. 2
          PROVE  l - p \in Int /\ l - p <= l
      OBVIOUS
    <3> QED
      BY <2>2, <2>3, <3>1
  <2>5. PICK d \in Int : d = Len(out) - Padding /\ d <= Len(out)
    BY <2>4
  <2>6. Len(SubSeq(out, 1, d)) = IF d > 0 THEN d ELSE 0
    OBVIOUS
  <2>7. Len(out') = IF d > 0 THEN d ELSE 0
    BY <2>1, <2>5, <2>6
  <2>8. PICK l \in Nat : l = Len(out) /\ l <= size /\ d <= l
    BY <2>2, <2>5
  <2>9. PICK l1 \in Nat : l1 = Len(out') /\ l1 <= size
    BY <2>2, <2>7, <2>8
  <2>10. Len(out') <= size'
    BY <2>1, <2>9
  <2> QED
    BY <1>1, <1>2, <1>4, <2>1, <2>10 DEF DecodeInv, Counts, Last
<1>12. ~EncodeBlock /\ ~EncodeEnd
  BY <1>1 DEF EncodeBlock, EncodeEnd
<1> QED
  BY <1>5, <1>6, <1>7, <1>9, <1>10, <1>11, <1>12 DEF Base64Next

LEMMA DecodeInvFits ==
  DecodeInv => (fn = Base64Decoder /\ at \in {"write", "return"} => Len(out) <= size)
<1> SUFFICES ASSUME DecodeInv, fn = Base64Decoder, at \in {"write", "return"}
             PROVE  Len(out) <= size
  OBVIOUS
<1>1. CASE at = "write"
  <2>1. /\ Counts /\ cur \in 1 .. Len(counts) /\ size = Last(counts)
        /\ Len(out) + Len(arg.block) <= counts[cur]
    BY <1>1 DEF DecodeInv
  <2>2. PICK a \in Nat : a = counts[cur] /\ a <= size /\ size \in Nat
    BY <2>1, CountFacts
  <2>3. Len(out) \in Nat /\ Len(arg.block) \in Nat
    OBVIOUS
  <2> QED
    BY <2>1, <2>2, <2>3
<1> QED
  BY <1>1 DEF DecodeInv

-----------------------------------------------------------------------------
(* The joiners of arrays and objects                                       *)

Cost(k) == IF Skipped(input[k]) THEN 0 ELSE Needed(input[k])
Text(k) == IF Skipped(input[k]) THEN <<>> ELSE Written(input[k])

(* What an element takes that is not counted with it.                      *)
Gap == CASE fn = "C_collapse_array" -> 1
         [] fn \in ObjectJoiners -> 0
         [] fn = "C_collapse_array_pretty_inner" -> 2
         [] OTHER -> Indent + 2

LEMMA WhitespaceLength == \A n \in Nat : Len(Whitespace(n)) = n
  BY DEF Whitespace

LEMMA FiveJoiners ==
  /\ \A f \in Joiners : \/ f = "C_collapse_array"
                        \/ f = "C_collapse_object"
                        \/ f = "C_collapse_object_pretty"
                        \/ f = "C_collapse_array_pretty_inner"
                        \/ f = "C_collapse_array_pretty_outer"
  /\ "C_collapse_array" \notin ObjectJoiners
  /\ "C_collapse_object" \in ObjectJoiners
  /\ "C_collapse_object_pretty" \in ObjectJoiners
  /\ "C_collapse_array_pretty_inner" \notin ObjectJoiners
  /\ "C_collapse_array_pretty_outer" \notin ObjectJoiners
  BY DEF Joiners, ObjectJoiners, ArrayJoiners

(* The lengths of a member, a line with a member, and a line with a value. *)
LEMMA MemberLength ==
  ASSUME NEW key, NEW value
  PROVE  Len(<<Comma>> \o key \o <<Colon>> \o value) = Len(key) + Len(value) + 2
<1> DEFINE before == <<Comma>> \o key
           name == before \o <<Colon>>
<1>1. PICK l, m \in Nat : l = Len(key) /\ m = Len(value)
  BY Lengths
<1>2. Len(<<Comma>>) = 1 /\ Len(<<Colon>>) = 1
  OBVIOUS
<1>3. /\ Len(before) = Len(<<Comma>>) + Len(key)
      /\ Len(name) = Len(before) + Len(<<Colon>>)
      /\ Len(name \o value) = Len(name) + Len(value)
  BY Lengths
<1> HIDE DEF before, name
<1>4. Len(name) = l + 2
  BY <1>1, <1>2, <1>3
<1>5. Len(name \o value) = l + m + 2
  BY <1>1, <1>3, <1>4
<1> QED
  BY <1>1, <1>5 DEF name, before

LEMMA LineLengths ==
  ASSUME NEW white, NEW i \in Nat, Len(white) = i, NEW value
  PROVE  Len(<<Newline>> \o white \o value \o <<Comma>>) = Len(value) + (i + 2)
<1> DEFINE line == <<Newline>> \o white
           before == line \o value
<1>1. PICK m \in Nat : m = Len(value)
  BY Lengths
<1>2. Len(<<Newline>>) = 1 /\ Len(<<Comma>>) = 1
  OBVIOUS
<1>3. /\ Len(line) = Len(<<Newline>>) + Len(white)
      /\ Len(before) = Len(line) + Len(value)
      /\ Len(before \o <<Comma>>) = Len(before) + Len(<<Comma>>)
  BY Lengths
<1> HIDE DEF line, before
<1>4. Len(line) = 1 + i
  BY <1>2, <1>3
<1>5. Len(before) = 1 + i + m
  BY <1>1, <1>3, <1>4
<1>6. Len(before \o <<Comma>>) = m + (i + 2)
  BY <1>1, <1>2, <1>3, <1>5
<1> QED
  BY <1>1, <1>6 DEF before, line

LEMMA MemberLineLength ==
  ASSUME NEW white, NEW key, NEW value
  PROVE  Len(<<Newline>> \o white \o key \o <<Colon, Space>> \o value \o <<Comma>>)
           = Len(key) + Len(value) + Len(white) + 4
<1> DEFINE line == <<Newline>> \o white
           before == line \o key
           name == before \o <<Colon, Space>>
           member == name \o value
<1>1. PICK l, m, i \in Nat : l = Len(key) /\ m = Len(value) /\ i = Len(white)
  BY Lengths
<1>2. Len(<<Newline>>) = 1 /\ Len(<<Colon, Space>>) = 2 /\ Len(<<Comma>>) = 1
  OBVIOUS
<1>3. /\ Len(line) = Len(<<Newline>>) + Len(white)
      /\ Len(before) = Len(line) + Len(key)
      /\ Len(name) = Len(before) + Len(<<Colon, Space>>)
      /\ Len(member) = Len(name) + Len(value)
      /\ Len(member \o <<Comma>>) = Len(member) + Len(<<Comma>>)
  BY Lengths
<1> HIDE DEF line, before, name, member
<1>4. Len(name) = ((1 + i) + l) + 2
  BY <1>1, <1>2, <1>3, Zenon
<1>5. Len(member \o <<Comma>>) = ((((1 + i) + l) + 2) + m) + 1
  BY <1>1, <1>2, <1>3, <1>4, Zenon
<1>6. ((((1 + i) + l) + 2) + m) + 1 = l + m + i + 4
  OBVIOUS
<1>7. Len(member \o <<Comma>>) = l + m + i + 4
  BY <1>5, <1>6, Zenon
<1> QED
  BY <1>1, <1>7 DEF member, name, before, line

(* An element is written in what was counted for it and the gap.           *)
LEMMA TextCosts ==
  ASSUME fn \in Joiners, Indent \in Nat, NEW k
  PROVE  Cost(k) \in Nat /\ Gap \in Nat /\ Len(Text(k)) = Cost(k) + Gap
<1> DEFINE e == input[k]
           white == Whitespace(Indent)
<1>1. PICK l, m \in Nat : l = Len(e.key) /\ m = Len(e.value)
  BY Lengths
<1>2. PICK i \in Nat : i = Indent
  OBVIOUS
<1>3. Len(white) = i
  BY <1>2, WhitespaceLength
<1>4. /\ l + m + 2 \in Nat /\ (l + m + 2) + 0 = l + m + 2
      /\ l + m + i + 4 \in Nat /\ (l + m + i + 4) + 0 = l + m + i + 4
      /\ i + 2 \in Nat /\ 0 + 0 = 0 /\ 0 \in Nat /\ 1 + m = m + 1
  OBVIOUS
<1>5. CASE fn = "C_collapse_array"
  <2>1. Cost(k) = Len(e.value) /\ Gap = 1 /\ Text(k) = <<Comma>> \o e.value
    BY <1>5, FiveJoiners DEF Cost, Gap, Text, Skipped, Needed, Written
  <2>2. Len(Text(k)) = Len(<<Comma>>) + Len(e.value)
    BY <2>1, Lengths
  <2>3. Len(<<Comma>>) = 1
    OBVIOUS
  <2>4. Len(Text(k)) = m + 1 /\ Cost(k) = m
    BY <1>1, <1>4, <2>1, <2>2, <2>3, Zenon
  <2> QED
    BY <2>1, <2>4
<1>6. CASE fn \in ObjectJoiners /\ e.na
  <2>1. Cost(k) = 0 /\ Gap = 0 /\ Text(k) = <<>>
    BY <1>6, FiveJoiners DEF Cost, Gap, Text, Skipped
  <2>2. Len(<<>>) = 0
    OBVIOUS
  <2> QED
    BY <1>4, <2>1, <2>2, Zenon
<1>7. CASE fn = "C_collapse_object" /\ ~e.na
  <2>1. /\ Cost(k) = Len(e.key) + Len(e.value) + 2 /\ Gap = 0
        /\ Text(k) = <<Comma>> \o e.key \o <<Colon>> \o e.value
    BY <1>7, FiveJoiners DEF Cost, Gap, Text, Skipped, Needed, Written
  <2>2. Len(Text(k)) = Len(e.key) + Len(e.value) + 2
    BY <2>1, MemberLength, Zenon
  <2> QED
    BY <1>1, <1>4, <2>1, <2>2, Zenon
<1>8. CASE fn = "C_collapse_object_pretty" /\ ~e.na
  <2>1. /\ Cost(k) = Len(e.key) + Len(e.value) + Indent + 4 /\ Gap = 0
        /\ Text(k) = <<Newline>> \o white \o e.key \o <<Colon, Space>> \o e.value \o <<Comma>>
    BY <1>8, FiveJoiners DEF Cost, Gap, Text, Skipped, Needed, Written
  <2> HIDE DEF white
  <2>2. Len(<<Newline>> \o white \o e.key \o <<Colon, Space>> \o e.value \o <<Comma>>)
          = Len(e.key) + Len(e.value) + Len(white) + 4
    BY MemberLineLength
  <2>3. Len(Text(k)) = Len(e.key) + Len(e.value) + i + 4
    BY <1>3, <2>1, <2>2, Zenon
  <2> QED
    BY <1>1, <1>2, <1>4, <2>1, <2>3, Zenon
<1>9. CASE fn = "C_collapse_array_pretty_inner"
  <2>1. Cost(k) = Len(e.value) /\ Gap = 2 /\ Text(k) = e.value \o <<Comma, Space>>
    BY <1>9, FiveJoiners DEF Cost, Gap, Text, Skipped, Needed, Written
  <2>2. Len(Text(k)) = Len(e.value) + Len(<<Comma, Space>>)
    BY <2>1, Lengths
  <2>3. Len(<<Comma, Space>>) = 2
    OBVIOUS
  <2> QED
    BY <1>1, <2>1, <2>2, <2>3, Zenon
<1>10. CASE fn = "C_collapse_array_pretty_outer"
  <2>1. /\ Cost(k) = Len(e.value) /\ Gap = Indent + 2
        /\ Text(k) = <<Newline>> \o white \o e.value \o <<Comma>>
    BY <1>10, FiveJoiners DEF Cost, Gap, Text, Skipped, Needed, Written
  <2> HIDE DEF white
  <2>2. Len(<<Newline>> \o white \o e.value \o <<Comma>>) = Len(e.value) + (i + 2)
    BY <1>3, LineLengths
  <2>3. Len(Text(k)) = Len(e.value) + (i + 2)
    BY <2>1, <2>2, Zenon
  <2> QED
    BY <1>1, <1>2, <1>4, <2>1, <2>3, Zenon
<1> QED
  BY <1>5, <1>6, <1>7, <1>8, <1>9, <1>10, FiveJoiners

(* The opening and the gaps fit in what is reserved besides the counts.    *)
LEMMA GapsFit ==
  ASSUME fn \in Joiners, arg.ni \in Nat, arg.spaces \in Nat
  PROVE  /\ Indent \in Nat /\ Gap \in Nat /\ Extra \in Nat
         /\ Len(Opening) \in Nat /\ Len(Opening) + Count * Gap <= Extra
<1>0. Count \in Nat /\ Indent \in Nat /\ Count * (Indent + 2) \in Nat
  <2>1. Count \in Nat /\ Indent \in Nat
    BY DEF Count, Indent
  <2> QED
    BY <2>1
<1>1. CASE fn = "C_collapse_array"
  <2>1. Gap = 1 /\ Extra = Count + 3 /\ Opening = <<>>
    BY <1>1, FiveJoiners DEF Gap, Extra, Opening
  <2> QED
    BY <1>0, <2>1
<1>2. CASE fn = "C_collapse_object"
  <2>1. Gap = 0 /\ Extra = 3 /\ Opening = <<>>
    BY <1>2, FiveJoiners DEF Gap, Extra, Opening
  <2> QED
    BY <1>0, <2>1
<1>3. CASE fn = "C_collapse_object_pretty"
  <2>1. Gap = 0 /\ Extra = arg.ni + 4 /\ Opening = <<OpenBracket>>
    BY <1>3, FiveJoiners DEF Gap, Extra, Opening
  <2>2. Len(Opening) = 1 /\ Count * Gap = 0
    BY <1>0, <2>1
  <2> QED
    BY <1>0, <2>1, <2>2
<1>4. CASE fn = "C_collapse_array_pretty_inner"
  <2>1. /\ Gap = 2 /\ Opening = <<OpenBrace>>
        /\ Extra = (IF Count > 0 THEN (Count - 1) * 2 ELSE 0) + 3
    BY <1>4, FiveJoiners DEF Gap, Extra, Opening
  <2>2. Len(Opening) = 1 /\ Count * Gap = Count * 2
    BY <1>0, <2>1
  <2> QED
    BY <1>0, <2>1, <2>2
<1>5. CASE fn = "C_collapse_array_pretty_outer"
  <2>1. /\ Gap = Indent + 2 /\ Opening = <<OpenBrace>>
        /\ Extra = Count * (Indent + 2) + arg.ni + 4
    BY <1>5, FiveJoiners DEF Gap, Extra, Opening
  <2>2. Len(Opening) = 1 /\ Count * Gap = Count * (Indent + 2)
    BY <1>0, <2>1
  <2> QED
    BY <1>0, <2>1, <2>2
<1> QED
  BY <1>1, <1>2, <1>3, <1>4, <1>5, FiveJoiners

(* Also with the bracket and the NUL, once all elements are written.       *)
LEMMA ClosingFits ==
  ASSUME fn \in Joiners, arg.ni \in Nat, arg.spaces \in Nat,
         NEW last \in Nat, Len(out) = Len(Opening) + last + Count * Gap
  PROVE  Len(JoinedText \o Close) <= last + Extra
<1>0. Count \in Nat /\ Indent \in Nat /\ Count * (Indent + 2) \in Nat
  <2>1. Count \in Nat /\ Indent \in Nat
    BY DEF Count, Indent
  <2> QED
    BY <2>1
<1>1. Len(Close) = 2
  BY DEF Close
<1>2. Len(JoinedText \o Close) = Len(JoinedText) + 2
  BY <1>1, Lengths
<1>3. PICK n \in Nat : n = Len(out)
  OBVIOUS
<1>4. \A bracket : Len(Bracketed(bracket)) = IF out = <<>> THEN 1 ELSE Len(out)
  BY DEF Bracketed
<1>5. Len(Closing) = IF Len(out) = 1 THEN Len(out) ELSE Len(out) + arg.ni
  <2>1. CASE Len(out) = 1
    BY <2>1 DEF Closing
  <2>2. CASE Len(out) # 1
    <3> DEFINE line == [out EXCEPT ![Len(out)] = Newline]
    <3>1. Len(line) = Len(out)
      OBVIOUS
    <3> HIDE DEF line
    <3>2. Closing = line \o Whitespace(arg.ni)
      BY <2>2 DEF Closing, line
    <3>3. Len(Closing) = Len(line) + Len(Whitespace(arg.ni))
      BY <3>2, Lengths
    <3>4. Len(Whitespace(arg.ni)) = arg.ni
      BY WhitespaceLength
    <3> QED
      BY <2>2, <3>1, <3>3, <3>4
  <2> QED
    BY <2>1, <2>2
<1>6. \A bracket : Len(Bracketed(bracket)) <= n + 1
  <2>1. n <= n + 1 /\ 1 <= n + 1
    OBVIOUS
  <2> QED
    BY <1>3, <1>4, <2>1, Zenon
<1>7. CASE fn = "C_collapse_array"
  <2>1. Gap = 1 /\ Extra = Count + 3 /\ Opening = <<>> /\ JoinedText = Bracketed(OpenBrace)
    BY <1>7, FiveJoiners DEF Gap, Extra, Opening, JoinedText
  <2>2. Len(Opening) = 0
    BY <2>1
  <2>3. n = last + Count
    BY <1>0, <1>3, <2>1, <2>2
  <2>4. Len(JoinedText) <= n + 1
    BY <1>6, <2>1, Zenon
  <2> QED
    BY <1>0, <1>2, <2>1, <2>3, <2>4
<1>8. CASE fn = "C_collapse_object"
  <2>1. Gap = 0 /\ Extra = 3 /\ Opening = <<>> /\ JoinedText = Bracketed(OpenBracket)
    BY <1>8, FiveJoiners DEF Gap, Extra, Opening, JoinedText
  <2>2. Len(Opening) = 0
    BY <2>1
  <2>3. n = last
    BY <1>0, <1>3, <2>1, <2>2
  <2>4. Len(JoinedText) <= n + 1
    BY <1>6, <2>1, Zenon
  <2> QED
    BY <1>0, <1>2, <2>1, <2>3, <2>4
<1>9. CASE fn = "C_collapse_object_pretty"
  <2>1. /\ Gap = 0 /\ Extra = arg.ni + 4 /\ Opening = <<OpenBracket>>
        /\ JoinedText = Closing
    BY <1>9, FiveJoiners DEF Gap, Extra, Opening, JoinedText
  <2>2. Len(Opening) = 1
    BY <2>1
  <2>3. n = last + 1
    BY <1>0, <1>3, <2>1, <2>2
  <2>4. PICK ni, text \in Nat : ni = arg.ni /\ text = Len(JoinedText)
    BY Lengths
  <2>5. text <= n + ni
    <3>1. text = n \/ text = n + ni
      BY <1>3, <1>5, <2>1, <2>4, Zenon
    <3> QED
      BY <3>1
  <2>6. text + 2 <= last + (ni + 4)
    BY <2>3, <2>5
  <2> QED
    BY <1>2, <2>1, <2>4, <2>6, Zenon
<1>10. CASE fn = "C_collapse_array_pretty_inner"
  <2>1. /\ Gap = 2 /\ Opening = <<OpenBrace>>
        /\ Extra = (IF Count > 0 THEN (Count - 1) * 2 ELSE 0) + 3
        /\ JoinedText = (IF Count > 0 THEN SubSeq(out, 1, Len(out) - 2) ELSE out)
    BY <1>10, FiveJoiners DEF Gap, Extra, Opening, JoinedText
  <2>2. Len(Opening) = 1
    BY <2>1
  <2>3. n = 1 + last + Count * 2
    BY <1>0, <1>3, <2>1, <2>2
  <2>4. CASE Count > 0
    <3>1. PICK d \in Nat : d = n - 2
      BY <1>0, <2>3, <2>4
    <3>2. JoinedText = SubSeq(out, 1, d)
      BY <1>3, <2>1, <2>4, <3>1
    <3>3. Len(JoinedText) = d
      BY <3>2
    <3> QED
      BY <1>0, <1>2, <2>1, <2>3, <2>4, <3>1, <3>3
  <2>5. CASE Count = 0
    BY <1>2, <1>3, <2>1, <2>3, <2>5
  <2> QED
    BY <1>0, <2>4, <2>5
<1>11. CASE fn = "C_collapse_array_pretty_outer"
  <2>1. /\ Gap = Indent + 2 /\ Opening = <<OpenBrace>>
        /\ Extra = Count * (Indent + 2) + arg.ni + 4
        /\ JoinedText = Closing
    BY <1>11, FiveJoiners DEF Gap, Extra, Opening, JoinedText
  <2>2. Len(Opening) = 1
    BY <2>1
  <2>3. PICK gaps \in Nat : gaps = Count * (Indent + 2)
    BY <1>0
  <2>4. n = 1 + last + gaps /\ Extra = gaps + arg.ni + 4
    BY <1>3, <2>1, <2>2, <2>3
  <2>5. PICK ni, text \in Nat : ni = arg.ni /\ text = Len(JoinedText)
    BY Lengths
  <2>6. text <= n + ni
    <3>1. text = n \/ text = n + ni
      BY <1>3, <1>5, <2>1, <2>5, Zenon
    <3> QED
      BY <3>1
  <2>7. text + 2 <= last + (gaps + ni + 4)
    BY <2>4, <2>6
  <2> QED
    BY <1>2, <2>4, <2>5, <2>7, Zenon
<1> QED
  BY <1>7, <1>8, <1>9, <1>10, <1>11, FiveJoiners

JoinInv ==
  fn \in Joiners =>
    /\ Counts /\ arg.ni \in Nat /\ arg.spaces \in Nat
    /\ cur \in 1 .. Len(input) + 1
    /\ \A k \in 1 .. Len(counts) - 1 : counts[k + 1] = counts[k] + Cost(k)
    /\ at \in {"count", "write", "return"}
    /\ at = "count" => Len(counts) = cur
    /\ at = "write" => /\ Len(counts) = Len(input) + 1 /\ size = Last(counts) + Extra
                       /\ Len(out) = Len(Opening) + counts[cur] + (cur - 1) * Gap
    /\ at = "return" => Len(out) <= size

LEMMA JoinBegins ==
  ASSUME NEW f, NEW elements, NEW indent \in Indents, CallJoin(f, elements, indent)
  PROVE  JoinInv'
<1>1. /\ at' = "count" /\ cur' = 1 /\ counts' = <<0>> /\ arg' = indent
      /\ cur' \in 1 .. Len(input') + 1
  BY DEF CallJoin, Call
<1>2. Counts' /\ Len(counts') = 1
  BY <1>1, NewCounts
<1>3. arg'.ni \in Nat /\ arg'.spaces \in Nat
  BY <1>1, IndentsAssumption
<1> QED
  BY <1>1, <1>2, <1>3 DEF JoinInv

LEMMA JoinSteps ==
  ASSUME JoinInv, fn \in Joiners, CollapseNext
  PROVE  JoinInv'
<1> DEFINE n == Len(input)
<1>1. fn' = fn /\ input' = input /\ arg' = arg
  BY DEF CollapseNext, CountElement, ReserveJoined, WriteElement, CloseJoined, InLoop, AfterLoop,
         CountOne, WriteOne, Reserve, Finished
<1>2. /\ Counts /\ arg.ni \in Nat /\ arg.spaces \in Nat
      /\ cur \in 1 .. n + 1 /\ n \in Nat
      /\ \A k \in 1 .. Len(counts) - 1 : counts[k + 1] = counts[k] + Cost(k)
      /\ at = "count" => Len(counts) = cur
      /\ at = "write" => /\ Len(counts) = n + 1 /\ size = Last(counts) + Extra
                         /\ Len(out) = Len(Opening) + counts[cur] + (cur - 1) * Gap
  BY DEF JoinInv
<1>3. /\ Len(counts) \in Nat /\ Len(counts) > 0 /\ counts[1] = 0
      /\ \A k \in 1 .. Len(counts) : counts[k] \in Nat /\ counts[k] <= Last(counts)
      /\ Last(counts) = counts[Len(counts)] /\ Last(counts) \in Nat
  BY <1>2, CountFacts
<1>4. /\ \A k : Cost(k)' = Cost(k)
      /\ Opening' = Opening /\ Gap' = Gap /\ Extra' = Extra
  <2>1. Indent' = Indent /\ Count' = Count
    BY <1>1 DEF Indent, Count
  <2>2. Opening' = Opening /\ Gap' = Gap /\ Extra' = Extra
    BY <1>1, <2>1 DEF Opening, Gap, Extra
  <2>3. \A k : Cost(k)' = Cost(k)
    BY <1>1, <2>1 DEF Cost, Skipped, Needed
  <2> QED
    BY <2>2, <2>3
<1>5. Indent \in Nat /\ Gap \in Nat /\ Extra \in Nat /\ Len(Opening) \in Nat
  BY <1>2, GapsFit
<1>6. CASE CountElement
  <2>1. /\ at = "count" /\ at' = at /\ cur <= n /\ cur' = cur + 1
        /\ counts' = Append(counts, Last(counts) + Cost(cur))
    BY <1>6 DEF CountElement, InLoop, CountOne, Cost
  <2>2. Cost(cur) \in Nat
    BY <1>5, TextCosts
  <2>3. /\ Counts' /\ Len(counts') = Len(counts) + 1
        /\ counts'[Len(counts) + 1] = counts[Len(counts)] + Cost(cur)
        /\ \A k \in 1 .. Len(counts) : counts'[k] = counts[k]
    BY <1>2, <2>1, <2>2, CountsGrow
  <2>4. ASSUME NEW k \in 1 .. Len(counts') - 1
        PROVE  counts'[k + 1] = counts'[k] + Cost(k)
    <3>1. CASE k = Len(counts)
      BY <1>2, <1>3, <2>1, <2>3, <3>1
    <3>2. CASE k # Len(counts)
      <4>1. k \in 1 .. Len(counts) - 1 /\ k \in 1 .. Len(counts) /\ k + 1 \in 1 .. Len(counts)
        BY <1>3, <2>3, <3>2
      <4> QED
        BY <1>2, <2>3, <4>1
    <3> QED
      BY <3>1, <3>2
  <2>5. cur' \in 1 .. n + 1 /\ Len(counts') = cur'
    BY <1>2, <2>1, <2>3
  <2> QED
    BY <1>1, <1>2, <1>4, <2>1, <2>3, <2>4, <2>5 DEF JoinInv
<1>7. CASE ReserveJoined
  <2>1. /\ at = "count" /\ at' = "write" /\ cur = n + 1 /\ cur' = 1 /\ counts' = counts
        /\ size' = Last(counts) + Extra /\ out' = Opening
    BY <1>7 DEF ReserveJoined, AfterLoop, Reserve
  <2>2. Len(Opening) = Len(Opening) + 0 + (1 - 1) * Gap
    BY <1>5
  <2>3. Len(out') = Len(Opening) + counts'[cur'] + (cur' - 1) * Gap
    BY <1>3, <2>1, <2>2, Zenon
  <2> QED
    BY <1>1, <1>2, <1>3, <1>4, <2>1, <2>3 DEF JoinInv, Counts, Last
<1>8. CASE WriteElement
  <2>1. /\ at = "write" /\ at' = at /\ cur <= n /\ cur' = cur + 1 /\ UNCHANGED <<size, counts>>
    BY <1>8 DEF WriteElement, InLoop, WriteOne
  <2>2. out' = out \o Text(cur)
    BY <1>8 DEF WriteElement, WriteOne, Text
  <2>3. Len(out') = Len(out) + Len(Text(cur))
    BY <2>2, Lengths
  <2>4. cur \in 1 .. Len(counts) - 1 /\ cur \in 1 .. Len(counts) /\ cur' \in 1 .. n + 1
    BY <1>2, <2>1
  <2>5. PICK a, c, g, o, before \in Nat :
          /\ a = counts[cur] /\ c = Cost(cur) /\ g = Gap /\ o = Len(Opening) /\ before = cur - 1
    <3>1. counts[cur] \in Nat /\ cur - 1 \in Nat
      BY <1>3, <2>4
    <3>2. Cost(cur) \in Nat
      BY <1>5, TextCosts
    <3> QED
      BY <1>5, <3>1, <3>2, Zenon
  <2>6. Len(Text(cur)) = c + g
    BY <1>5, <2>5, TextCosts, Zenon
  <2>7. Len(out) = o + a + before * g /\ counts[cur + 1] = a + c
    BY <1>2, <2>1, <2>4, <2>5, Zenon
  <2>8. o + a + before * g + (c + g) = o + (a + c) + (before + 1) * g
    OBVIOUS
  <2>9. cur' - 1 = before + 1
    BY <2>1, <2>4, <2>5
  <2>10. Len(out') = Len(Opening) + counts'[cur'] + (cur' - 1) * Gap
    BY <2>1, <2>3, <2>5, <2>6, <2>7, <2>8, <2>9, Zenon
  <2> QED
    BY <1>1, <1>2, <1>4, <2>1, <2>4, <2>10 DEF JoinInv, Counts, Last
<1>9. CASE CloseJoined
  <2>1. /\ at = "write" /\ at' = "return" /\ cur = n + 1 /\ UNCHANGED <<cur, size, counts>>
        /\ out' = JoinedText \o Close
    BY <1>9 DEF CloseJoined, AfterLoop, Finished
  <2>2. cur - 1 = Count /\ cur = Len(counts)
    BY <1>2, <2>1 DEF Count
  <2>3. Len(out) = Len(Opening) + Last(counts) + Count * Gap /\ size = Last(counts) + Extra
    BY <1>2, <1>3, <2>1, <2>2, Zenon
  <2>4. Len(JoinedText \o Close) <= Last(counts) + Extra
    BY <1>2, <1>3, <2>3, ClosingFits
  <2>5. Len(out') <= size'
    BY <2>1, <2>3, <2>4, Zenon
  <2> QED
    BY <1>1, <1>2, <1>4, <2>1, <2>5 DEF JoinInv, Counts, Last
<1> QED
  BY <1>6, <1>7, <1>8, <1>9 DEF CollapseNext

LEMMA JoinInvFits == JoinInv => CollapseFits
<1> SUFFICES ASSUME JoinInv, fn \in Joiners, at \in {"write", "return"}
             PROVE  Len(out) <= size
  BY DEF CollapseFits
<1>1. CASE at = "write"
  <2>1. /\ Counts /\ cur \in 1 .. Len(counts) /\ size = Last(counts) + Extra
        /\ cur \in 1 .. Count + 1 /\ Count \in Nat
        /\ Len(out) = Len(Opening) + counts[cur] + (cur - 1) * Gap
    BY <1>1 DEF JoinInv, Count
  <2>2. /\ Gap \in Nat /\ Extra \in Nat /\ Len(Opening) \in Nat
        /\ Len(Opening) + Count * Gap <= Extra
    BY GapsFit DEF JoinInv
  <2>3. counts[cur] \in Nat /\ counts[cur] <= Last(counts) /\ Last(counts) \in Nat
    BY <2>1, CountFacts
  <2>4. PICK before, rest \in Nat : before = cur - 1 /\ Count = before + rest
    <3>1. cur - 1 \in Nat /\ Count - (cur - 1) \in Nat
      BY <2>1
    <3>2. Count = (cur - 1) + (Count - (cur - 1))
      BY <2>1
    <3> QED
      BY <3>1, <3>2
  <2>5. PICK g, o, a, last, extra \in Nat : g = Gap /\ o = Len(Opening) /\ a = counts[cur]
                                            /\ last = Last(counts) /\ extra = Extra
    BY <2>2, <2>3
  <2>6. o + (before + rest) * g <= extra /\ a <= last
    BY <2>2, <2>3, <2>4, <2>5, Zenon
  <2>7. (before + rest) * g = before * g + rest * g /\ rest * g \in Nat /\ before * g \in Nat
    OBVIOUS
  <2>8. o + a + before * g <= last + extra
    <3>1. PICK p, q \in Nat : p = before * g /\ q = rest * g
      BY <2>7
    <3>2. o + (p + q) <= extra
      BY <2>6, <2>7, <3>1, Zenon
    <3>3. o + a + p <= last + extra
      BY <2>6, <3>2
    <3> QED
      BY <3>1, <3>3, Zenon
  <2> QED
    BY <2>1, <2>4, <2>5, <2>8, Zenon
<1> QED
  BY <1>1 DEF JoinInv

-----------------------------------------------------------------------------
(* yajl_render_error_string                                                *)

Above(k) == out[Column + 1] = Shown(input[k + 1])

RenderInv ==
  fn = Renderer =>
    /\ arg \in Nat /\ size = TextSize
    /\ input \in Seq(0 .. 255) /\ out \in Seq(0 .. 255)
    /\ at \in {"loop", "return"}
    /\ at = "loop" => /\ cur \in Nat /\ cur > start(arg)
                      /\ cur <= start(arg) + 1 \/ cur <= end(arg, Len(input)) + 1
                      /\ Len(out) = spacesNeeded(arg) + (cur - 1 - start(arg))
                      /\ cur > arg + 1 => Above(arg)
    /\ at = "return" => /\ Len(out) <= size
                        /\ arg < Len(input) /\ Window > 0 => Above(arg)

(* The columns of the line, where the offset is shown in Column.           *)
LEMMA ColumnsFit ==
  ASSUME NEW k \in Nat, NEW n \in Nat
  PROVE  /\ start(k) \in Nat /\ spacesNeeded(k) \in 0 .. Column
         /\ spacesNeeded(k) + (k - start(k)) = Column
         /\ end(k, n) \in 0 .. n /\ end(k, n) <= k + Window
         /\ k < n /\ Window > 0 => end(k, n) >= k + 1
  BY ErrorTextAssumption DEF start, spacesNeeded, end

(* What the cursor at c, with l characters written, says of the line.       *)
LEMMA ColumnsOfCursor ==
  ASSUME NEW k \in Nat, NEW n \in Nat, NEW c \in Nat, NEW l \in Nat,
         c > start(k), c <= start(k) + 1 \/ c <= end(k, n) + 1,
         l = spacesNeeded(k) + (c - 1 - start(k))
  PROVE  /\ c > k + 1 => Column + 1 <= l
         /\ c = k + 1 => l = Column
         /\ l <= Column + Window /\ l + 2 <= TextSize
         /\ c <= end(k, n) => c \in 1 .. n
         /\ c + 1 > start(k) /\ l + 1 = spacesNeeded(k) + ((c + 1) - 1 - start(k))
         /\ k < n /\ Window > 0 /\ c > end(k, n) => c > k + 1
<1>1. /\ start(k) \in Nat /\ spacesNeeded(k) \in 0 .. Column
      /\ spacesNeeded(k) + (k - start(k)) = Column
      /\ end(k, n) \in 0 .. n /\ end(k, n) <= k + Window
      /\ k < n /\ Window > 0 => end(k, n) >= k + 1
      /\ Column \in Nat /\ Window \in Nat /\ TextSize \in Nat /\ Column + Window + 2 <= TextSize
  BY ColumnsFit, ErrorTextAssumption
<1>2. PICK s, m, e, w, col, t \in Nat :
        s = start(k) /\ m = spacesNeeded(k) /\ e = end(k, n) /\ w = Window /\ col = Column
        /\ t = TextSize
  BY <1>1
<1>3. /\ m <= col /\ m + (k - s) = col /\ e <= n /\ e <= k + w
      /\ k < n /\ w > 0 => e >= k + 1
      /\ c > s /\ (c <= s + 1 \/ c <= e + 1) /\ l = m + (c - 1 - s) /\ col + w + 2 <= t
  BY <1>1, <1>2
<1>4. /\ c > k + 1 => col + 1 <= l
      /\ c = k + 1 => l = col
      /\ l <= col + w /\ l + 2 <= t
      /\ c <= e => c \in 1 .. n
      /\ c + 1 > s /\ l + 1 = m + ((c + 1) - 1 - s)
      /\ k < n /\ w > 0 /\ c > e => c > k + 1
  BY <1>3
<1> QED
  BY <1>2, <1>4, Zenon

LEMMA RenderBegins ==
  ASSUME NEW p \in ErrorPlaces, CallRender(p.text, p.offset)
  PROVE  RenderInv'
<1> DEFINE k == p.offset
<1>1. p.text \in Seq(0 .. 255) /\ k \in Nat
  BY PlacesAssumption
<1>2. /\ fn' = Renderer /\ at' = "loop" /\ input' = p.text /\ arg' = k /\ cur' = start(k) + 1
      /\ size' = TextSize /\ out' = [j \in 1 .. spacesNeeded(k) |-> Space]
  BY DEF CallRender
<1> HIDE DEF k
<1>3. start(k) \in Nat /\ spacesNeeded(k) \in Nat
  BY <1>1, ErrorTextAssumption DEF start, spacesNeeded
<1>4. start(k) <= k
  BY <1>1, ErrorTextAssumption DEF start
<1>5. out' \in Seq(0 .. 255) /\ Len(out') = spacesNeeded(k)
  <2>1. PICK m \in Nat : m = spacesNeeded(k)
    BY <1>3
  <2>2. out' = [j \in 1 .. m |-> Space]
    BY <1>2, <2>1
  <2>3. out' \in Seq(0 .. 255) /\ Len(out') = m
    BY <2>2 DEF Space
  <2> QED
    BY <2>1, <2>3
<1>6. /\ cur' \in Nat /\ cur' > start(k) /\ cur' <= start(k) + 1 /\ ~ cur' > k + 1
      /\ Len(out') = spacesNeeded(k) + (cur' - 1 - start(k))
  <2>1. PICK m, s \in Nat : m = spacesNeeded(k) /\ s = start(k)
    BY <1>3
  <2>2. s <= k /\ cur' = s + 1 /\ Len(out') = m
    BY <1>2, <1>4, <1>5, <2>1
  <2>3. cur' \in Nat /\ cur' > s /\ cur' <= s + 1 /\ ~ cur' > k + 1
    BY <1>1, <2>2
  <2>4. m + (cur' - 1 - s) = m
    BY <2>2
  <2> QED
    BY <2>1, <2>2, <2>3, <2>4, Zenon
<1> QED
  BY <1>1, <1>2, <1>5, <1>6 DEF RenderInv, start, end, spacesNeeded

LEMMA RenderSteps ==
  ASSUME RenderInv, fn = Renderer, RenderNext
  PROVE  RenderInv'
<1> DEFINE n == Len(input)
<1>1. fn' = fn /\ at = "loop" /\ UNCHANGED <<input, arg, size>>
  BY DEF RenderNext, CopyShown, EndShown, WriteOne, Finished
<1>2. /\ arg \in Nat /\ size = TextSize /\ input \in Seq(0 .. 255) /\ out \in Seq(0 .. 255)
      /\ cur \in Nat /\ cur > start(arg) /\ n \in Nat
      /\ cur <= start(arg) + 1 \/ cur <= end(arg, n) + 1
      /\ Len(out) = spacesNeeded(arg) + (cur - 1 - start(arg))
      /\ cur > arg + 1 => Above(arg)
  BY <1>1 DEF RenderInv
<1>3. PICK l \in Nat : l = Len(out)
  BY <1>2
<1>4. /\ cur > arg + 1 => Column + 1 <= l
      /\ cur = arg + 1 => l = Column
      /\ l <= Column + Window /\ l + 2 <= TextSize
      /\ cur <= end(arg, n) => cur \in 1 .. n
      /\ cur + 1 > start(arg) /\ l + 1 = spacesNeeded(arg) + ((cur + 1) - 1 - start(arg))
      /\ arg < n /\ Window > 0 /\ cur > end(arg, n) => cur > arg + 1
  BY <1>2, <1>3, ColumnsOfCursor
<1>5. Column \in Nat /\ end(arg, n) \in Int
  BY <1>2, ColumnsFit, ErrorTextAssumption
<1>6. /\ start(arg)' = start(arg) /\ end(arg, Len(input))' = end(arg, n)
      /\ spacesNeeded(arg)' = spacesNeeded(arg)
  BY <1>1 DEF start, end, spacesNeeded
<1>7. cur > arg + 1 => Column + 1 \in 1 .. Len(out)
  BY <1>3, <1>4, <1>5
<1>8. ASSUME NEW text \in Seq(0 .. 255), out' = out \o text
      PROVE  /\ out' \in Seq(0 .. 255) /\ Len(out') = Len(out) + Len(text)
             /\ cur > arg + 1 => Above(arg)'
  <2>1. out \in Seq(0 .. 255) /\ out \o text \in Seq(0 .. 255)
    BY <1>2
  <2>2. out' \in Seq(0 .. 255) /\ Len(out') = Len(out) + Len(text)
    BY <1>8, <2>1
  <2>3. ASSUME cur > arg + 1 PROVE Above(arg)'
    <3>1. out'[Column + 1] = out[Column + 1]
      BY <1>2, <1>7, <1>8, <2>3
    <3> QED
      BY <1>1, <1>2, <2>3, <3>1 DEF Above, Shown
  <2> QED
    BY <2>2, <2>3
<1>9. CASE CopyShown
  <2> DEFINE c == Shown(input[cur])
  <2>1. /\ at' = "loop" /\ cur <= end(arg, n) /\ cur' = cur + 1 /\ out' = out \o <<c>>
    BY <1>9 DEF CopyShown, WriteOne
  <2>2. cur \in 1 .. n
    BY <1>4, <2>1
  <2>3. input[cur] \in 0 .. 255
    BY <1>2, <2>2, ElementOfSeq
  <2>4. c \in 0 .. 255
    BY <2>3 DEF Shown, Space
  <2>5. <<c>> \in Seq(0 .. 255) /\ Len(<<c>>) = 1
    BY <2>4
  <2>6. /\ out' \in Seq(0 .. 255) /\ Len(out') = Len(out) + 1
        /\ cur > arg + 1 => Above(arg)'
    BY <1>8, <2>1, <2>5
  <2>7. ASSUME cur = arg + 1 PROVE Above(arg)'
    <3>1. Len(out) = Column
      BY <1>3, <1>4, <2>7
    <3>2. out \in Seq(0 .. 255) /\ Column + 1 = Len(out) + 1 /\ out' = out \o <<c>>
      BY <1>2, <2>1, <3>1
    <3> HIDE DEF c
    <3>3. out'[Column + 1] = c
      BY <2>5, <3>2
    <3> QED
      BY <1>1, <2>7, <3>3 DEF Above, Shown, c
  <2>8. cur' > arg + 1 => cur > arg + 1 \/ cur = arg + 1
    BY <1>2, <2>1
  <2>9. /\ cur' \in Nat /\ cur' > start(arg) /\ cur' <= end(arg, n) + 1
        /\ Len(out') = spacesNeeded(arg) + (cur' - 1 - start(arg))
    <3>1. cur' = cur + 1 /\ cur + 1 \in Nat /\ Len(out') = l + 1
      BY <1>2, <1>3, <2>1, <2>6
    <3>2. cur + 1 <= end(arg, n) + 1
      BY <1>2, <1>5, <2>1
    <3> QED
      BY <1>4, <3>1, <3>2, Zenon
  <2> QED
    BY <1>1, <1>2, <1>6, <2>1, <2>6, <2>7, <2>8, <2>9 DEF RenderInv
<1>10. CASE EndShown
  <2>1. at' = "return" /\ cur > end(arg, n) /\ out' = out \o <<Newline, NUL>>
    BY <1>10 DEF EndShown, Finished
  <2>2. <<Newline, NUL>> \in Seq(0 .. 255) /\ Len(<<Newline, NUL>>) = 2
    BY DEF Newline, NUL
  <2>3. /\ out' \in Seq(0 .. 255) /\ Len(out') = Len(out) + 2
        /\ cur > arg + 1 => Above(arg)'
    BY <1>8, <2>1, <2>2
  <2>5. Len(out') <= size'
    BY <1>1, <1>2, <1>3, <1>4, <2>3
  <2>6. arg < n /\ Window > 0 => cur > arg + 1
    BY <1>4, <2>1
  <2> QED
    BY <1>1, <1>2, <2>1, <2>3, <2>5, <2>6 DEF RenderInv
<1> QED
  BY <1>9, <1>10 DEF RenderNext

LEMMA RenderInvFits == RenderInv => RenderFits
<1> SUFFICES ASSUME RenderInv, fn = Renderer
             PROVE  /\ Len(out) <= size
                    /\ at = "return" /\ arg < Len(input) /\ Window > 0
                         => out[Column + 1] = Shown(input[arg + 1])
  BY DEF RenderFits
<1>1. CASE at = "loop"
  <2>1. /\ arg \in Nat /\ size = TextSize /\ Len(input) \in Nat
        /\ cur \in Nat /\ cur > start(arg)
        /\ cur <= start(arg) + 1 \/ cur <= end(arg, Len(input)) + 1
        /\ Len(out) = spacesNeeded(arg) + (cur - 1 - start(arg))
    BY <1>1 DEF RenderInv
  <2>2. PICK l \in Nat : l = Len(out) /\ l + 2 <= TextSize
    BY <2>1, ColumnsOfCursor, Lengths
  <2>3. Len(out) <= size
    BY <2>1, <2>2, ErrorTextAssumption
  <2> QED
    BY <1>1, <2>3
<1>2. CASE at = "return"
  BY <1>2 DEF RenderInv, Above
<1> QED
  BY <1>1, <1>2 DEF RenderInv

-----------------------------------------------------------------------------
(* All functions                                                           *)

ConvInv == EscapeInv /\ BufInv /\ EncodeInv /\ DecodeInv /\ JoinInv /\ RenderInv

Reserving == {Escaper, Appender, Base64Encoder, Base64Decoder, Renderer} \cup Joiners

(* The invariant of a function says nothing while another one runs.        *)
LEMMA OnlyItsOwn ==
  /\ fn' # Escaper => EscapeInv'
  /\ fn' # Appender => BufInv'
  /\ fn' # Base64Encoder => EncodeInv'
  /\ fn' # Base64Decoder => DecodeInv'
  /\ fn' \notin Joiners => JoinInv'
  /\ fn' # Renderer => RenderInv'
  BY DEF EscapeInv, BufInv, EncodeInv, DecodeInv, JoinInv, RenderInv

LEMMA NamesDiffer ==
  /\ Escaper \notin {Appender, Base64Encoder, Base64Decoder, Renderer} \cup Joiners
  /\ Appender \notin {Escaper, Base64Encoder, Base64Decoder, Renderer} \cup Joiners
  /\ Base64Encoder \notin {Escaper, Appender, Base64Decoder, Renderer} \cup Joiners
  /\ Base64Decoder \notin {Escaper, Appender, Base64Encoder, Renderer} \cup Joiners
  /\ Renderer \notin {Escaper, Appender, Base64Encoder, Base64Decoder} \cup Joiners
  /\ Reserving \cap {"idle", Encoder, Decoder, IntegerWriter, DoubleWriter, IntegerParser,
                     ValueParser} = {}
<1>1. /\ Escaper \notin {Appender, Base64Encoder, Base64Decoder, Renderer}
      /\ Appender \notin {Escaper, Base64Encoder, Base64Decoder, Renderer}
      /\ Base64Encoder \notin {Escaper, Appender, Base64Decoder, Renderer}
      /\ Base64Decoder \notin {Escaper, Appender, Base64Encoder, Renderer}
      /\ Renderer \notin {Escaper, Appender, Base64Encoder, Base64Decoder}
  BY DEF Escaper, Appender, Base64Encoder, Base64Decoder, Renderer
<1>2. {Escaper, Appender, Base64Encoder, Base64Decoder, Renderer}
        \cap {"idle", Encoder, Decoder, IntegerWriter, DoubleWriter, IntegerParser, ValueParser} = {}
  BY DEF Escaper, Appender, Base64Encoder, Base64Decoder, Renderer, Encoder, Decoder,
         IntegerWriter, DoubleWriter, IntegerParser, ValueParser
<1> QED
  BY <1>1, <1>2, JoinersDiffer DEF Reserving

LEMMA OthersReserveNothing ==
  ASSUME fn' \in {"idle", Encoder, Decoder, IntegerWriter, DoubleWriter, IntegerParser, ValueParser}
  PROVE  ConvInv'
<1>1. fn' \notin Reserving
  BY NamesDiffer
<1> QED
  BY <1>1, OnlyItsOwn DEF ConvInv, Reserving

LEMMA BeginsAlone ==
  /\ fn' = Escaper /\ EscapeInv' => ConvInv'
  /\ fn' = Appender /\ BufInv' => ConvInv'
  /\ fn' = Base64Encoder /\ EncodeInv' => ConvInv'
  /\ fn' = Base64Decoder /\ DecodeInv' => ConvInv'
  /\ fn' \in Joiners /\ JoinInv' => ConvInv'
  /\ fn' = Renderer /\ RenderInv' => ConvInv'
  BY NamesDiffer, OnlyItsOwn DEF ConvInv

LEMMA StartReserves ==
  ASSUME Start
  PROVE  ConvInv'
<1>1. CASE \E s \in Strings : Begin("string", s) /\ CallEscape(s)
  BY <1>1, EscapeBegins, BeginsAlone DEF CallEscape, Call
<1>2. CASE \E s \in Spelled : Begin("spelled", s.bytes) /\ CallDecode(s.text)
  BY <1>2, OthersReserveNothing DEF CallDecode, Call
<1>3. CASE \E s \in Raws, kind \in {"raw", "url"} : Begin(kind, s) /\ CallBase64Encode(s)
  <2>1. PICK s : CallBase64Encode(s)
    BY <1>3
  <2> QED
    BY <2>1, EncodeBegins, BeginsAlone DEF CallBase64Encode
<1>4. CASE \E s \in Base64Texts : Begin("base64", s) /\ CallBase64Decode(s)
  BY <1>4, DecodeBegins, BeginsAlone DEF CallBase64Decode, Call
<1>5. CASE \E v \in Integers32 : Begin("integer", v) /\ CallWriteInteger(v)
  BY <1>5, OthersReserveNothing DEF CallWriteInteger
<1>6. CASE \E s \in NumberTexts : Begin("number", s) /\ CallParseInteger(s)
  BY <1>6, OthersReserveNothing DEF CallParseInteger
<1>7. CASE \E d \in Doubles : Begin("double", d.parts) /\ CallWriteDouble(d.parts, d.prec, d.always)
  BY <1>7, OthersReserveNothing DEF CallWriteDouble
<1>8. CASE \E s \in ElementLists, f \in Joiners, i \in Indents :
             Begin("elements", s) /\ CallJoin(f, s, i)
  <2>1. PICK s \in ElementLists, f \in Joiners, i \in Indents : CallJoin(f, s, i)
    BY <1>8
  <2>2. fn' \in Joiners
    BY <2>1 DEF CallJoin, Call
  <2> QED
    BY <2>1, <2>2, JoinBegins, BeginsAlone
<1>9. CASE \E s \in PieceLists : Begin("pieces", s) /\ CallAppend(s)
  BY <1>9, AppendBegins, BeginsAlone DEF CallAppend, Call
<1>10. CASE \E p \in ErrorPlaces : Begin("error", p) /\ CallRender(p.text, p.offset)
  BY <1>10, RenderBegins, BeginsAlone DEF CallRender
<1> QED
  BY <1>1, <1>2, <1>3, <1>4, <1>5, <1>6, <1>7, <1>8, <1>9, <1>10 DEF Start

LEMMA RunReserves ==
  ASSUME ConvInv, Running
  PROVE  ConvInv'
<1>1. /\ fn' = fn
      /\ fn = Escaper => EscapeNext
      /\ fn = Appender => BufNext
      /\ fn \in {Base64Encoder, Base64Decoder} => Base64Next
      /\ fn \in Joiners => CollapseNext
      /\ fn = Renderer => RenderNext
  BY Runs
<1>2. CASE fn = Escaper
  BY <1>1, <1>2, EscapeSteps, BeginsAlone DEF ConvInv
<1>3. CASE fn = Appender
  BY <1>1, <1>3, AppendSteps, BeginsAlone DEF ConvInv
<1>4. CASE fn = Base64Encoder
  <2>1. EncodeBlock \/ EncodeEnd
    BY <1>1, <1>4, NamesDiffer DEF Base64Next, CountCharacter, DecodeFails, ReserveDecoded,
       SkipCharacter, DecodeCharacter, DecodeEnd, InLoop, AfterLoop
  <2> QED
    BY <1>1, <1>4, <2>1, EncodeSteps, BeginsAlone DEF ConvInv
<1>5. CASE fn = Base64Decoder
  BY <1>1, <1>5, DecodeSteps, BeginsAlone DEF ConvInv
<1>6. CASE fn \in Joiners
  BY <1>1, <1>6, JoinSteps, BeginsAlone DEF ConvInv
<1>7. CASE fn = Renderer
  BY <1>1, <1>7, RenderSteps, BeginsAlone DEF ConvInv
<1>8. CASE fn \notin Reserving
  BY <1>1, <1>8, OnlyItsOwn DEF ConvInv, Reserving
<1> QED
  BY <1>2, <1>3, <1>4, <1>5, <1>6, <1>7, <1>8 DEF Reserving

LEMMA HandOverReserves ==
  ASSUME HandOver
  PROVE  ConvInv'
<1>1. CASE ReadEscaped \/ PrettifyText \/ ReadEncoded \/ ReadInteger \/ ReadNumber
  BY <1>1, OthersReserveNothing DEF ReadEscaped, PrettifyText, ReadEncoded, ReadInteger, ReadNumber,
     CallDecode, CallEncode, CallParseInteger, CallParseValue, Call
<1>2. CASE EscapeBase64
  BY <1>2, EscapeBegins, BeginsAlone DEF EscapeBase64, CallEscape, Call
<1>3. CASE ReadBase64 \/ ReadUrl
  <2>1. PICK text : CallBase64Decode(text)
    BY <1>3 DEF ReadBase64, ReadUrl
  <2> QED
    BY <2>1, DecodeBegins, BeginsAlone DEF CallBase64Decode, Call
<1> QED
  BY <1>1, <1>2, <1>3 DEF HandOver

LEMMA ConvInvHolds == Spec => []ConvInv
<1>1. Init => ConvInv
  BY NamesDiffer DEF Init, ConvInv, EscapeInv, BufInv, EncodeInv, DecodeInv, JoinInv, RenderInv,
     Reserving
<1>2. ConvInv /\ [Next]_conversionVars => ConvInv'
  <2> SUFFICES ASSUME ConvInv, [Next]_conversionVars
               PROVE  ConvInv'
    OBVIOUS
  <2>1. CASE Start
    BY <2>1, StartReserves
  <2>2. CASE Running
    BY <2>2, RunReserves
  <2>3. CASE HandOver
    BY <2>3, HandOverReserves
  <2>4. CASE Return
    BY <2>4, OthersReserveNothing DEF Return
  <2>5. CASE UNCHANGED conversionVars
    <3>1. UNCHANGED <<fn, at, input, arg, cur, counts, size, out, acc>>
      BY <2>5 DEF conversionVars, vars
    <3>2. EscapeInv' /\ BufInv'
      BY <3>1 DEF ConvInv, EscapeInv, BufInv, Counts, Last, Matches, AfterLess, Want
    <3>3. EncodeInv' /\ DecodeInv'
      BY <3>1 DEF ConvInv, EncodeInv, Blocks, DecodeInv, InAlphabet, Counts, Last
    <3>4. JoinInv'
      BY <3>1 DEF ConvInv, JoinInv, Counts, Last, Cost, Skipped, Needed, Gap, Extra, Opening,
         Indent, Count
    <3>5. RenderInv'
      BY <3>1 DEF ConvInv, RenderInv, Above, Shown, start, end, spacesNeeded
    <3> QED
      BY <3>2, <3>3, <3>4, <3>5 DEF ConvInv
  <2> QED
    BY <2>1, <2>2, <2>3, <2>4, <2>5 DEF Next
<1> QED
  BY <1>1, <1>2, PTL DEF Spec

(* No function writes outside the memory it has reserved, and the sizes    *)
(* that are computed before the loop (src/src/escape_chars.c, base64.c,    *)
(* collapse_*.c), while it runs (yajl_buf.c) or not at all (the array of   *)
(* yajl_render_error_string) are enough, for texts of every length.        *)
THEOREM FitsHolds == Spec => []Fits
<1>1. ConvInv => Fits
  BY EscapeInvFits, BufInvFits, EncodeInvFits, DecodeInvFits, JoinInvFits, RenderInvFits
     DEF ConvInv, Fits, Base64Fits
<1> QED
  BY <1>1, ConvInvHolds, PTL

-----------------------------------------------------------------------------
(* yajl_parse_integer computes no number outside long long.                *)

(* Lowest .. Long is symmetric but for one, and 10 divides neither end; so *)
(* one more digit leaves it just when TooLarge says so.                    *)
LEMMA LimitsOfLong ==
  ASSUME NEW ret \in Lowest .. Long, NEW digit \in 0 .. 9
  PROVE  /\ ret >= 0 => (ret * 10 + digit > Long <=>
              \/ ret > Long \div 10
              \/ ret = Long \div 10 /\ digit > Long % 10)
         /\ ret <= 0 => (ret * 10 - digit < Lowest <=>
              \/ ret < -((Long + 1) \div 10)
              \/ ret = -((Long + 1) \div 10) /\ digit > (Long + 1) % 10)
<1>1. Long \in Nat /\ Long + 1 \in Nat
  BY LongAssumption
<1>2. ASSUME NEW limit \in Nat
      PROVE  /\ limit \div 10 \in Nat /\ limit % 10 \in 0 .. 9
             /\ limit = 10 * (limit \div 10) + (limit % 10)
  <2>1. limit \div 10 \in Int /\ limit \div 10 >= 0
    OBVIOUS
  <2>2. limit % 10 \in 0 .. 9
    OBVIOUS
  <2>3. limit = 10 * (limit \div 10) + (limit % 10)
    BY SMT
  <2> QED
    BY <2>1, <2>2, <2>3
<1>3. PICK q \in Nat, r \in 0 .. 9 : Long \div 10 = q /\ Long % 10 = r /\ Long = 10 * q + r
  BY <1>1, <1>2
<1>4. PICK p \in Nat, s \in 0 .. 9 :
        (Long + 1) \div 10 = p /\ (Long + 1) % 10 = s /\ Long + 1 = 10 * p + s
  BY <1>1, <1>2
<1> QED
  BY <1>1, <1>3, <1>4 DEF Lowest

(* What yajl_parse_integer has read, and what it has computed of it.       *)
ParseInv ==
  fn = IntegerParser =>
    /\ arg \in {1, -1}
    /\ acc \in Lowest .. Long
    /\ counts \in Seq(Nat) /\ Len(counts) > 0
    /\ at # "range" => acc = arg * Last(counts)
    /\ at = "range" /\ input[cur] \in Digits
         => arg * (Last(counts) * 10 + input[cur] - Zero) \notin Lowest .. Long

LEMMA DigitIsRead ==
  ASSUME ParseInv, ParseDigit
  PROVE  ParseInv'
<1> DEFINE digit == input[cur] - Zero
           n == Last(counts)
<1>1. /\ fn = IntegerParser /\ at = "loop" /\ digit \in 0 .. 9 /\ ~TooLarge(digit)
      /\ acc' = acc * 10 + arg * digit /\ counts' = Append(counts, n * 10 + digit)
      /\ fn' = fn /\ at' = at /\ arg' = arg
  BY DEF ParseDigit, InLoop, Digits, Zero
<1>2. /\ arg \in {1, -1} /\ acc \in Lowest .. Long /\ counts \in Seq(Nat) /\ Len(counts) > 0
      /\ acc = arg * n /\ n \in Nat
  BY <1>1 DEF ParseInv, Last
<1>3. Long \in Nat /\ Long > 0 /\ Lowest = -Long - 1
  BY LongAssumption DEF Lowest
<1> HIDE DEF digit, n
<1>4. acc' \in Lowest .. Long
  <2>1. CASE arg = 1
    <3>1. acc * 10 + digit <= Long /\ acc >= 0
      BY <1>1, <1>2, <1>3, <2>1, LimitsOfLong DEF TooLarge
    <3> QED
      BY <1>1, <1>2, <1>3, <2>1, <3>1
  <2>2. CASE arg = -1
    <3>1. acc * 10 - digit >= Lowest /\ acc <= 0
      BY <1>1, <1>2, <1>3, <2>2, LimitsOfLong DEF TooLarge
    <3> QED
      BY <1>1, <1>2, <1>3, <2>2, <3>1
  <2> QED
    BY <1>2, <2>1, <2>2
<1>5. counts' \in Seq(Nat) /\ Len(counts') > 0 /\ Last(counts') = n * 10 + digit
  <2>1. n * 10 + digit \in Nat
    BY <1>1, <1>2
  <2> QED
    BY <1>1, <1>2, <2>1 DEF Last
<1>6. acc' = arg * (n * 10 + digit)
  BY <1>1, <1>2
<1> QED
  BY <1>1, <1>2, <1>4, <1>5, <1>6 DEF ParseInv

LEMMA RangeIsLeft ==
  ASSUME ParseInv, OutOfRange
  PROVE  ParseInv'
<1> DEFINE digit == input[cur] - Zero
           n == Last(counts)
<1>1. /\ fn = IntegerParser /\ at = "loop" /\ at' = "range"
      /\ acc' = IF arg = 1 THEN Long ELSE Lowest
      /\ UNCHANGED <<fn, input, arg, cur, counts>>
      /\ input[cur] \in Digits => TooLarge(digit) /\ digit \in 0 .. 9
  BY DEF OutOfRange, InLoop, Digits, Zero
<1>2. /\ arg \in {1, -1} /\ acc \in Lowest .. Long /\ counts \in Seq(Nat) /\ Len(counts) > 0
      /\ acc = arg * n /\ n \in Nat
  BY <1>1 DEF ParseInv, Last
<1>3. Long \in Nat /\ Long > 0 /\ Lowest = -Long - 1
  BY LongAssumption DEF Lowest
<1>4. acc' \in Lowest .. Long
  BY <1>1, <1>2, <1>3
<1> HIDE DEF digit, n
<1>5. ASSUME input[cur] \in Digits
      PROVE  arg * (n * 10 + digit) \notin Lowest .. Long
  <2>1. CASE arg = 1
    <3>1. acc * 10 + digit > Long
      BY <1>1, <1>2, <1>3, <1>5, <2>1, LimitsOfLong DEF TooLarge
    <3>2. acc = n /\ n \in Nat /\ digit \in 0 .. 9
      BY <1>1, <1>2, <1>5, <2>1
    <3>3. arg * (n * 10 + digit) = acc * 10 + digit
      BY <1>2, <2>1, <3>2
    <3> QED
      BY <1>3, <3>1, <3>2, <3>3
  <2>2. CASE arg = -1
    <3>1. acc * 10 - digit < Lowest
      BY <1>1, <1>2, <1>3, <1>5, <2>2, LimitsOfLong DEF TooLarge
    <3>2. acc = -n /\ digit \in 0 .. 9
      BY <1>1, <1>2, <1>5, <2>2
    <3>3. arg * (n * 10 + digit) = acc * 10 - digit
      BY <1>2, <2>2, <3>2
    <3> QED
      BY <1>3, <3>1, <3>3
  <2> QED
    BY <1>2, <2>1, <2>2
<1>6. n * 10 + input[cur] - Zero = n * 10 + digit \/ input[cur] \notin Digits
  BY <1>2 DEF digit, Digits, Zero
<1> QED
  BY <1>1, <1>2, <1>4, <1>5, <1>6 DEF ParseInv, n

LEMMA ParseBegins ==
  ASSUME NEW text, CallParseInteger(text)
  PROVE  ParseInv'
<1>1. /\ arg' = 1 \/ arg' = -1
      /\ acc' = 0 /\ counts' = <<0>> /\ at' = "loop"
  BY DEF CallParseInteger
<1>2. counts' \in Seq(Nat) /\ Len(counts') = 1 /\ Last(counts') = 0
  BY <1>1 DEF Last
<1>3. 0 \in Lowest .. Long
  BY LongAssumption DEF Lowest
<1>4. acc' = arg' * Last(counts')
  <2>1. arg' * 0 = 0
    BY <1>1
  <2> QED
    BY <1>1, <1>2, <2>1
<1>5. arg' \in {1, -1} /\ acc' \in Lowest .. Long
  BY <1>1, <1>3
<1>6. Last(counts)' = Last(counts')
  BY DEF Last
<1>7. at' # "range"
  BY <1>1
<1>8. Len(counts)' > 0
  BY <1>2
<1>9. (acc = arg * Last(counts))'
  BY <1>4, <1>6
<1>10. (counts \in Seq(Nat))' /\ (arg \in {1, -1})' /\ (acc \in Lowest .. Long)'
  BY <1>2, <1>5
<1> QED
  BY <1>7, <1>8, <1>9, <1>10, Zenon DEF ParseInv

(* The names of the other functions.                                       *)
Others == {"idle", Escaper, Encoder, Decoder, Appender, Base64Encoder, Base64Decoder,
           IntegerWriter, DoubleWriter, ValueParser, Renderer} \cup Joiners

LEMMA OtherNames == IntegerParser \notin Others
<1>1. IntegerParser \notin Joiners
  BY DEF IntegerParser, Joiners, ObjectJoiners, ArrayJoiners
<1> QED
  BY <1>1 DEF Others, IntegerParser, Escaper, Encoder, Decoder, Appender, Base64Encoder,
              Base64Decoder, IntegerWriter, DoubleWriter, ValueParser, Renderer

LEMMA StartSteps ==
  ASSUME Start
  PROVE  fn' \in Others \/ \E text : CallParseInteger(text)
  BY DEF Start, CallEscape, CallDecode, CallBase64Encode, CallBase64Decode, CallWriteInteger,
         CallWriteDouble, CallJoin, CallAppend, CallRender, Call, Others

LEMMA HandOverSteps ==
  ASSUME HandOver
  PROVE  fn' \in Others \/ \E text : CallParseInteger(text)
  BY DEF HandOver, ReadEscaped, PrettifyText, ReadEncoded, EscapeBase64, ReadBase64, ReadUrl,
         ReadInteger, ReadNumber, CallEscape, CallDecode, CallEncode, CallBase64Decode,
         CallParseValue, Call, Others

LEMMA RunningSteps ==
  ASSUME Running
  PROVE  \/ ParseDigit \/ OutOfRange
         \/ fn' = fn /\ (fn \in Others \/ UNCHANGED <<at, input, arg, cur, counts, acc>>)
         \/ fn = IntegerParser /\ at = "loop" /\ at' = "return"
            /\ UNCHANGED <<fn, input, arg, cur, counts, acc>>
<1>1. CASE EscapeNext
  BY <1>1 DEF EscapeNext, CountMatches, ReserveEscaped, WriteEscaped, CloseQuote, InLoop, AfterLoop,
              CountOne, WriteOne, Reserve, Finished, Others
<1>2. CASE CodingNext
  BY <1>2 DEF CodingNext, EncodeEscaped, EncodePlain, CopyRest, DecodeLetter, DecodeUnit, DecodePair,
              DecodeLone, DecodePlain, AtUnicode, AtEscape, Replace, PassOver, InLoop, AfterLoop,
              Finished, Others
<1>3. CASE BufNext
  BY <1>3 DEF BufNext, Ensure, Grow, Abort, AppendPiece, Appended, InLoop, AfterLoop, Finished, Others
<1>4. CASE Base64Next
  BY <1>4 DEF Base64Next, EncodeBlock, EncodeEnd, CountCharacter, DecodeFails, ReserveDecoded,
              SkipCharacter, DecodeCharacter, DecodeEnd, InLoop, AfterLoop, CountOne, WriteOne,
              Reserve, Finished, Others
<1>5. CASE CollapseNext
  BY <1>5 DEF CollapseNext, CountElement, ReserveJoined, WriteElement, CloseJoined, InLoop, AfterLoop,
              CountOne, WriteOne, Reserve, Finished, Others
<1>6. CASE NumberNext
  BY <1>6 DEF NumberNext, WriteDigit, WriteSign, DropZero, ZerosDropped, WriteFraction, WritePoint,
              WriteDoubleSign, Parsed, InLoop, AfterLoop, Finished, Others
<1>7. CASE RenderNext
  BY <1>7 DEF RenderNext, CopyShown, EndShown, WriteOne, Finished, Others
<1> QED
  BY <1>1, <1>2, <1>3, <1>4, <1>5, <1>6, <1>7 DEF Running

LEMMA ParseInvInit == Init => ParseInv
  BY OtherNames DEF Init, ParseInv, Others

LEMMA ParseInvNext == ParseInv /\ [Next]_conversionVars => ParseInv'
<1> SUFFICES ASSUME ParseInv, [Next]_conversionVars
             PROVE  ParseInv'
  OBVIOUS
<1>1. ASSUME fn' \in Others PROVE ParseInv'
  BY <1>1, OtherNames DEF ParseInv
<1>2. CASE Start \/ HandOver
  BY <1>1, <1>2, StartSteps, HandOverSteps, ParseBegins
<1>3. CASE Running
  <2>1. CASE ParseDigit \/ OutOfRange
    BY <2>1, DigitIsRead, RangeIsLeft
  <2>2. CASE fn' = fn /\ (fn \in Others \/ UNCHANGED <<at, input, arg, cur, counts, acc>>)
    BY <1>1, <2>2 DEF ParseInv, Last
  <2>3. CASE /\ fn = IntegerParser /\ at = "loop" /\ at' = "return"
             /\ UNCHANGED <<fn, input, arg, cur, counts, acc>>
    BY <2>3 DEF ParseInv, Last
  <2> QED
    BY <1>3, <2>1, <2>2, <2>3, RunningSteps
<1>4. CASE Return
  BY <1>1, <1>4 DEF Return, Others
<1>5. CASE UNCHANGED conversionVars
  BY <1>5 DEF conversionVars, vars, ParseInv, Last
<1> QED
  BY <1>2, <1>3, <1>4, <1>5 DEF Next

(* Whatever the width of long long and the text of the number, yajl_parse_ *)
(* integer computes the number that the digits denote, never leaves long   *)
(* long, and gives up only where the number does, or at what is no digit.  *)
THEOREM ParsesExactlyHolds == Spec => []ParsesExactly
<1>1. ParseInv => ParsesExactly
  BY DEF ParseInv, ParsesExactly
<1> QED
  BY <1>1, ParseInvInit, ParseInvNext, PTL DEF Spec

(* Amount counts as its definition says, whatever the length of the text.  *)
Counting(amount, text) ==
  /\ amount[0] = 0
  /\ \A n \in 1 .. Len(text) :
       /\ text[n] \in Digits => amount[n] = amount[n - 1] * 10 + (text[n] - Zero)
       /\ text[n] \notin Digits => amount[n] = amount[n - 1]

LEMMA DigitValue ==
  ASSUME NEW c, c \in Digits
  PROVE  c - Zero \in 0 .. 9
  BY DEF Digits, Zero

LEMMA AmountCounts ==
  ASSUME NEW text, Len(text) \in Nat
  PROVE  Counting(Amount(text), text) /\ \A n \in 0 .. Len(text) : Amount(text)[n] \in Nat
<1> DEFINE N == Len(text)
           More(n, a) == IF text[n] \in Digits THEN a * 10 + (text[n] - Zero) ELSE a
           F == [p \in (1 .. N) \X Nat |-> More(p[1], p[2])]
           Equation(f) == f = [n \in 0 .. N |-> IF n = 0 THEN 0 ELSE More(n, f[n - 1])]
<1>1. \A n \in 1 .. N, a \in Nat : More(n, a) \in Nat
  BY DigitValue
<1>2. F \in [(1 .. N) \X Nat -> Nat]
  <2> HIDE DEF More
  <2> QED
    BY <1>1
<1>3. PICK f \in [0 .. N -> Nat] : Iterates(f, N, 0, F)
  <2> HIDE DEF F
  <2>1. \E f \in [0 .. N -> Nat] : Iterates(f, N, 0, F)
    BY <1>2, IterationExists
  <2> QED
    BY <2>1
<1>4. ASSUME NEW n \in 1 .. N
      PROVE  f[n] = More(n, f[n - 1])
  <2>1. f[n - 1] \in Nat /\ <<n, f[n - 1]>> \in (1 .. N) \X Nat
    OBVIOUS
  <2>2. f[n] = F[<<n, f[n - 1]>>]
    BY <1>3 DEF Iterates
  <2> HIDE DEF More
  <2> QED
    BY <2>1, <2>2
<1>5. Equation(f)
  <2> HIDE DEF More
  <2> QED
    BY <1>3, <1>4 DEF Iterates
<1>6. Equation(Amount(text))
  <2> DEFINE amount == CHOOSE g : Equation(g)
  <2>1. Equation(amount)
    <3> HIDE DEF Equation
    <3> QED
      BY <1>5
  <2>2. Amount(text) = amount
    BY DEF Amount
  <2> QED
    BY <2>1, <2>2
<1> DEFINE g == Amount(text)
<1>7. g[0] = 0 /\ \A n \in 1 .. N : g[n] = More(n, g[n - 1])
  <2> HIDE DEF More
  <2>1. g = [n \in 0 .. N |-> IF n = 0 THEN 0 ELSE More(n, g[n - 1])]
    BY <1>6
  <2> HIDE DEF g
  <2>2. 0 \in 0 .. N /\ \A n \in 1 .. N : n \in 0 .. N /\ n # 0
    OBVIOUS
  <2>3. \A n \in 0 .. N : g[n] = IF n = 0 THEN 0 ELSE More(n, g[n - 1])
    BY <2>1
  <2> QED
    BY <2>2, <2>3
<1>8. Counting(g, text)
  <2> HIDE DEF g
  <2> QED
    BY <1>7 DEF Counting
<1>9. \A n \in 0 .. N : g[n] \in Nat
  <2> HIDE DEF g, More
  <2>1. g[0] \in Nat /\ \A n \in 1 .. N : g[n - 1] \in Nat => g[n] \in Nat
    <3> SUFFICES ASSUME NEW n \in 1 .. N, g[n - 1] \in Nat PROVE g[0] \in Nat /\ g[n] \in Nat
      BY <1>7
    <3>1. g[n] = More(n, g[n - 1]) /\ More(n, g[n - 1]) \in Nat
      BY <1>1, <1>7
    <3> QED
      BY <1>7, <3>1
  <2> QED
    BY <2>1, IterationTyped
<1> QED
  BY <1>8, <1>9

LEMMA OneDigitMore ==
  ASSUME NEW p \in Nat, NEW q \in Nat, NEW v \in Nat, p <= q
  PROVE  p <= q * 10 + v
  BY Z3

(* More digits do not denote less.                                         *)
LEMMA AmountGrows ==
  ASSUME NEW text, Len(text) \in Nat, NEW m \in 0 .. Len(text)
  PROVE  Amount(text)[m] <= Value(text)
<1> DEFINE a == Amount(text)
           N == Len(text)
           S == {d \in Nat : m + d <= N => a[m] <= a[m + d]}
<1>1. Counting(a, text) /\ \A n \in 0 .. N : a[n] \in Nat
  BY AmountCounts
<1> HIDE DEF a
<1>2. 0 \in S
  BY <1>1
<1>3. ASSUME NEW d \in Nat, d \in S
      PROVE  d + 1 \in S
  <2> SUFFICES ASSUME m + d + 1 <= N PROVE a[m] <= a[m + d + 1]
    OBVIOUS
  <2>1. a[m] <= a[m + d] /\ m + d \in 0 .. N /\ m + d + 1 \in 1 .. N
    BY <1>3
  <2>2. a[m] \in Nat /\ a[m + d] \in Nat /\ (m + d + 1) - 1 = m + d
    BY <1>1, <2>1
  <2>3. CASE text[m + d + 1] \in Digits
    <3>1. a[m + d + 1] = a[m + d] * 10 + (text[m + d + 1] - Zero)
      BY <1>1, <2>1, <2>2, <2>3 DEF Counting
    <3>2. PICK v \in Nat : v = text[m + d + 1] - Zero
      BY <2>3, DigitValue
    <3>3. PICK p, q \in Nat : p = a[m] /\ q = a[m + d]
      BY <2>2
    <3>4. p <= q /\ a[m + d + 1] = q * 10 + v
      BY <2>1, <3>1, <3>2, <3>3
    <3>5. p <= q * 10 + v
      BY <3>4, OneDigitMore
    <3> QED
      BY <3>3, <3>4, <3>5
  <2>4. CASE text[m + d + 1] \notin Digits
    BY <1>1, <2>1, <2>2, <2>4 DEF Counting
  <2> QED
    BY <2>3, <2>4
<1>4. \A d \in Nat : d \in S
  <2> HIDE DEF S
  <2> QED
    BY <1>2, <1>3, InductionOnNat
<1>5. N - m \in S /\ m + (N - m) = N
  <2>1. N - m \in Nat /\ m + (N - m) = N
    OBVIOUS
  <2> HIDE DEF S
  <2> QED
    BY <1>4, <2>1
<1>6. a[m] <= a[N]
  BY <1>5
<1> QED
  BY <1>6 DEF Value, a

-----------------------------------------------------------------------------
(* An integer is written: the digits are those of the quotients by 10.     *)

Divides(f, digits, v, rest) ==
  /\ digits \in Seq(Digits)
  /\ f \in [0 .. Len(digits) -> Nat]
  /\ f[0] = v /\ f[Len(digits)] = rest
  /\ \A k \in 1 .. Len(digits) : f[k] = f[k - 1] \div 10 /\ digits[k] = Zero + (f[k - 1] % 10)

LEMMA DigitOf ==
  ASSUME NEW n \in Nat
  PROVE  /\ n \div 10 \in Nat /\ n % 10 \in 0 .. 9
         /\ Zero + (n % 10) \in Digits
         /\ n = (n \div 10) * 10 + (n % 10)
  BY DEF Digits, Zero

LEMMA DigitDivides ==
  ASSUME NEW digits, NEW v, NEW n \in Nat, NEW f, Divides(f, digits, v, n)
  PROVE  \E g : Divides(g, Append(digits, Zero + (n % 10)), v, n \div 10)
<1> DEFINE L == Len(digits)
           d == Zero + (n % 10)
           w == Append(digits, d)
           g == [k \in 0 .. L + 1 |-> IF k = L + 1 THEN n \div 10 ELSE f[k]]
<1>1. d \in Digits /\ n \div 10 \in Nat
  BY DigitOf
<1>2. digits \in Seq(Digits) /\ L \in Nat
  BY DEF Divides
<1>3. w \in Seq(Digits) /\ Len(w) = L + 1 /\ w[L + 1] = d /\ \A k \in 1 .. L : w[k] = digits[k]
  <2> HIDE DEF d
  <2> QED
    BY <1>1, <1>2, AppendProperties
<1>4. g \in [0 .. L + 1 -> Nat] /\ g[0] = v /\ g[L + 1] = n \div 10
  BY <1>1, <1>2 DEF Divides
<1>5. ASSUME NEW k \in 1 .. L + 1
      PROVE  g[k] = g[k - 1] \div 10 /\ w[k] = Zero + (g[k - 1] % 10)
  <2>1. CASE k = L + 1
    <3>1. g[k - 1] = f[L] /\ f[L] = n
      BY <1>2, <2>1 DEF Divides
    <3> QED
      BY <1>3, <1>4, <2>1, <3>1
  <2>2. CASE k # L + 1
    <3>1. k \in 1 .. L /\ k \in 0 .. L + 1 /\ k - 1 \in 0 .. L + 1 /\ k - 1 # L + 1
      BY <1>2, <2>2
    <3>2. g[k] = f[k] /\ g[k - 1] = f[k - 1] /\ w[k] = digits[k]
      BY <1>3, <2>2, <3>1
    <3> HIDE DEF g, w
    <3> QED
      BY <3>1, <3>2 DEF Divides
  <2> QED
    BY <2>1, <2>2
<1> HIDE DEF g, w, d
<1>6. Divides(g, w, v, n \div 10)
  BY <1>3, <1>4, <1>5 DEF Divides
<1> QED
  BY <1>6 DEF w, d

LEMMA TurnedRound ==
  ASSUME NEW X, NEW s \in Seq(X)
  PROVE  /\ Reversed(s) \in Seq(X) /\ Len(Reversed(s)) = Len(s)
         /\ \A k \in 1 .. Len(s) : Reversed(s)[k] = s[Len(s) + 1 - k]
<1>1. Len(s) \in Nat /\ \A k \in 1 .. Len(s) : Len(s) + 1 - k \in 1 .. Len(s)
  OBVIOUS
<1>2. \A k \in 1 .. Len(s) : s[Len(s) + 1 - k] \in X
  BY <1>1
<1> QED
  BY <1>1, <1>2 DEF Reversed

(* The text of the digits, turned round and with the sign, denotes the     *)
(* number.                                                                 *)
LEMMA SignedDenotes ==
  ASSUME NEW f, NEW digits, NEW v \in Nat, NEW negative \in BOOLEAN,
         Divides(f, digits, v, 0), digits # <<>>
  PROVE  LET text == Reversed(IF negative THEN Append(digits, Minus) ELSE digits)
         IN  /\ text \in Seq(Digits \cup {Minus}) /\ text # <<>>
             /\ text[1] = Minus <=> negative
             /\ IsInteger(text) /\ Value(text) = v
<1> DEFINE L == Len(digits)
           s == IF negative THEN Append(digits, Minus) ELSE digits
           o == IF negative THEN 1 ELSE 0
           text == Reversed(s)
           a == Amount(text)
<1>1. digits \in Seq(Digits) /\ L \in Nat /\ L > 0 /\ o \in {0, 1}
  BY DEF Divides
<1>2. /\ s \in Seq(Digits \cup {Minus}) /\ Len(s) = L + o
      /\ \A k \in 1 .. L : s[k] = digits[k]
      /\ o = 1 => s[L + 1] = Minus
  <2>1. digits \in Seq(Digits \cup {Minus})
    BY <1>1
  <2>2. CASE negative
    BY <2>1, <2>2, AppendProperties
  <2>3. CASE ~negative
    BY <2>1, <2>3
  <2> QED
    BY <2>2, <2>3
<1>3. /\ text \in Seq(Digits \cup {Minus}) /\ Len(text) = L + o
      /\ \A k \in 1 .. L + o : text[k] = s[L + o + 1 - k]
  <2> HIDE DEF s, o
  <2> QED
    BY <1>2, TurnedRound
<1>4. /\ \A k \in 1 .. L : text[o + k] = digits[L + 1 - k] /\ text[o + k] \in Digits
      /\ o = 1 => text[1] = Minus
  <2>1. ASSUME NEW k \in 1 .. L
        PROVE  text[o + k] = digits[L + 1 - k] /\ text[o + k] \in Digits
    <3>1. o + k \in 1 .. L + o /\ L + o + 1 - (o + k) = L + 1 - k /\ L + 1 - k \in 1 .. L
      BY <1>1
    <3> HIDE DEF text, s, o
    <3>2. text[o + k] = digits[L + 1 - k]
      BY <1>2, <1>3, <3>1
    <3> QED
      BY <1>1, <3>1, <3>2
  <2>2. ASSUME o = 1 PROVE text[1] = Minus
    <3> HIDE DEF text, s, o
    <3>1. 1 \in 1 .. L + o /\ L + o + 1 - 1 = L + 1
      BY <1>1, <2>2
    <3> QED
      BY <1>2, <1>3, <2>2, <3>1
  <2> QED
    BY <2>1, <2>2
<1>5. Minus \notin Digits
  BY DEF Minus, Digits, Zero
<1>6. text[1] = Minus <=> negative
  <2>1. CASE negative
    BY <1>4, <2>1
  <2>2. CASE ~negative
    <3>1. o = 0 /\ 1 \in 1 .. L
      BY <1>1, <2>2
    <3>2. text[o + 1] \in Digits
      BY <1>1, <1>4
    <3> HIDE DEF text, o
    <3> QED
      BY <1>5, <2>2, <3>1, <3>2
  <2> QED
    BY <2>1, <2>2
<1>7. IsInteger(text)
  <2> SUFFICES ASSUME NEW k \in 1 .. L + o
               PROVE  text[k] \in Digits \/ (k = 1 /\ text[k] = Minus)
    BY <1>3 DEF IsInteger
  <2> HIDE DEF text, o
  <2>1. CASE o = 1 /\ k = 1
    BY <1>4, <2>1
  <2>2. CASE ~(o = 1 /\ k = 1)
    <3>1. k - o \in 1 .. L /\ o + (k - o) = k
      BY <1>1, <2>2
    <3> QED
      BY <1>4, <3>1
  <2> QED
    BY <2>1, <2>2
<1>8. Counting(a, text) /\ \A n \in 0 .. L + o : a[n] \in Nat
  <2>1. Len(text) \in Nat
    BY <1>1, <1>3
  <2> HIDE DEF text, o
  <2> QED
    BY <1>3, <2>1, AmountCounts
<1> HIDE DEF a, text, s
<1>9. a[o] = 0
  <2>1. CASE o = 0
    BY <1>8, <2>1 DEF Counting
  <2>2. CASE o = 1
    <3>1. a[0] = 0 /\ a[1] = a[1 - 1]
      BY <1>1, <1>3, <1>4, <1>5, <1>8, <2>2 DEF Counting
    <3> QED
      BY <2>2, <3>1
  <2> QED
    BY <1>1, <2>1, <2>2
<1> HIDE DEF o
<1>10. \A k \in 0 .. L : a[o + k] = f[L - k]
  <2> DEFINE S == {k \in Nat : a[o + k] = f[L - k]}
  <2>1. 0 \in S
    BY <1>1, <1>9 DEF Divides
  <2>2. ASSUME NEW k \in 0 .. L - 1, k \in S
        PROVE  k + 1 \in S
    <3>1. /\ L - k \in 1 .. L /\ L - (k + 1) = (L - k) - 1 /\ L + 1 - (k + 1) = L - k
          /\ k + 1 \in 1 .. L /\ o + (k + 1) \in 1 .. L + o /\ (o + (k + 1)) - 1 = o + k
      BY <1>1
    <3>2. f[L - k] = f[L - (k + 1)] \div 10 /\ digits[L - k] = Zero + (f[L - (k + 1)] % 10)
      BY <3>1 DEF Divides
    <3>3. f[L - (k + 1)] \in Nat
      <4>1. L - (k + 1) \in 0 .. L /\ f \in [0 .. L -> Nat]
        BY <1>1 DEF Divides
      <4> QED
        BY <4>1
    <3>4. text[o + (k + 1)] = digits[L - k] /\ text[o + (k + 1)] \in Digits
      BY <1>4, <3>1
    <3>5. a[o + (k + 1)] = a[o + k] * 10 + (text[o + (k + 1)] - Zero)
      BY <1>3, <1>8, <3>1, <3>4 DEF Counting
    <3>6. PICK q \in Nat : q = f[L - (k + 1)]
      BY <3>3
    <3>7. a[o + (k + 1)] = (q \div 10) * 10 + (q % 10)
      <4>1. a[o + k] = q \div 10
        BY <2>2, <3>2, <3>6
      <4>2. text[o + (k + 1)] = Zero + (q % 10)
        BY <3>2, <3>4, <3>6
      <4>3. (Zero + (q % 10)) - Zero = q % 10
        BY <3>6 DEF Zero
      <4> QED
        BY <3>5, <4>1, <4>2, <4>3
    <3>8. a[o + (k + 1)] = q
      BY <3>6, <3>7, DigitOf
    <3> QED
      BY <3>6, <3>8
  <2>3. \A k \in 0 .. L : k \in S
    <3> HIDE DEF S
    <3> QED
      BY <1>1, <2>1, <2>2, InductionUpTo
  <2> QED
    BY <2>3
<1>11. Value(text) = v
  <2>1. a[o + L] = f[L - L] /\ o + L = L + o /\ L - L = 0
    BY <1>1, <1>10
  <2> QED
    BY <1>3, <2>1 DEF Value, a, Divides
<1>12. text # <<>>
  BY <1>1, <1>3
<1> QED
  BY <1>3, <1>6, <1>7, <1>11, <1>12 DEF text, s

-----------------------------------------------------------------------------
(* An integer is read: counts has what the digits up to the cursor denote. *)

ReadingInv ==
  fn = IntegerParser =>
    /\ input \in Seq(0 .. 255) /\ input # <<>>
    /\ arg = IF input[1] = Minus THEN -1 ELSE 1
    /\ cur \in 1 .. Len(input) + 1 /\ (input[1] = Minus => cur > 1)
    /\ Len(counts) > 0 /\ Last(counts) = Amount(input)[cur - 1]
    /\ \A k \in 1 .. cur - 1 : input[k] \in Digits \/ (k = 1 /\ input[k] = Minus)
    /\ at \in {"loop", "range", "return"}
    /\ at = "range" => cur <= Len(input)
    /\ at = "return" => cur = Len(input) + 1

LEMMA ReadingBegins ==
  ASSUME NEW text \in Seq(0 .. 255), text # <<>>, CallParseInteger(text)
  PROVE  ReadingInv'
<1> DEFINE c == IF text[1] = Minus THEN 2 ELSE 1
<1>1. /\ input' = text /\ arg' = (IF text[1] = Minus THEN -1 ELSE 1) /\ at' = "loop"
      /\ cur' = c /\ counts' = <<0>>
  BY DEF CallParseInteger
<1>2. Len(text) \in Nat /\ Len(text) > 0 /\ c \in 1 .. Len(text) + 1 /\ (text[1] = Minus => c > 1)
  OBVIOUS
<1>3. Amount(text)[c - 1] = 0
  <2>1. Counting(Amount(text), text)
    BY <1>2, AmountCounts
  <2>2. CASE text[1] = Minus
    <3>1. text[1] \notin Digits
      BY <2>2 DEF Minus, Digits, Zero
    <3>2. Amount(text)[1] = Amount(text)[1 - 1] /\ Amount(text)[0] = 0
      BY <1>2, <2>1, <3>1 DEF Counting
    <3> QED
      BY <2>2, <3>2
  <2>3. CASE text[1] # Minus
    BY <2>1, <2>3 DEF Counting
  <2> QED
    BY <2>2, <2>3
<1>4. Last(counts)' = 0 /\ Len(counts') = 1 /\ counts' \in Seq(Nat)
  BY <1>1 DEF Last
<1>5. \A k \in 1 .. c - 1 : text[k] \in Digits \/ (k = 1 /\ text[k] = Minus)
  OBVIOUS
<1> HIDE DEF c
<1> QED
  BY <1>1, <1>2, <1>3, <1>4, <1>5 DEF ReadingInv

LEMMA ReadingSteps ==
  ASSUME ReadingInv, ParseInv, ParseDigit \/ OutOfRange \/ Parsed
  PROVE  ReadingInv'
<1>1. fn = IntegerParser /\ fn' = fn /\ at = "loop" /\ input' = input /\ arg' = arg
  BY DEF ParseDigit, OutOfRange, Parsed, InLoop, AfterLoop, Finished
<1>2. /\ input \in Seq(0 .. 255) /\ input # <<>> /\ Len(input) \in Nat
      /\ arg = IF input[1] = Minus THEN -1 ELSE 1
      /\ cur \in 1 .. Len(input) + 1 /\ (input[1] = Minus => cur > 1)
      /\ Len(counts) > 0 /\ Last(counts) = Amount(input)[cur - 1]
      /\ \A k \in 1 .. cur - 1 : input[k] \in Digits \/ (k = 1 /\ input[k] = Minus)
  BY <1>1 DEF ReadingInv
<1>3. counts \in Seq(Nat) /\ Last(counts) \in Nat
  BY <1>1, <1>2 DEF ParseInv, Last
<1>4. CASE ParseDigit
  <2> DEFINE c == input[cur] - Zero
             m == Last(counts) * 10 + c
  <2>1. /\ cur <= Len(input) /\ input[cur] \in Digits /\ cur' = cur + 1 /\ at' = "loop"
        /\ counts' = Append(counts, m)
    BY <1>1, <1>4 DEF ParseDigit, InLoop
  <2>2. c \in 0 .. 9 /\ m \in Nat
    <3>1. c \in 0 .. 9
      BY <2>1, DigitValue
    <3> HIDE DEF c
    <3> QED
      BY <1>3, <3>1
  <2> HIDE DEF m
  <2>3. counts' \in Seq(Nat) /\ Len(counts') > 0 /\ Last(counts)' = m
    BY <1>2, <1>3, <2>1, <2>2 DEF Last
  <2>4. Amount(input)[cur] = Amount(input)[cur - 1] * 10 + c
    <3>1. Counting(Amount(input), input) /\ cur \in 1 .. Len(input)
      BY <1>2, <2>1, AmountCounts
    <3> QED
      BY <2>1, <3>1 DEF Counting
  <2>5. cur' - 1 = cur /\ cur' \in 1 .. Len(input) + 1 /\ cur' > 1
    BY <1>2, <2>1
  <2>6. Last(counts)' = Amount(input)[cur' - 1]
    BY <1>2, <2>3, <2>4, <2>5 DEF m
  <2>7. \A k \in 1 .. cur : input[k] \in Digits \/ (k = 1 /\ input[k] = Minus)
    BY <1>2, <2>1
  <2> QED
    BY <1>1, <1>2, <2>1, <2>3, <2>5, <2>6, <2>7 DEF ReadingInv
<1>5. CASE OutOfRange
  <2>1. cur <= Len(input) /\ cur' = cur /\ counts' = counts /\ at' = "range"
    BY <1>5 DEF OutOfRange, InLoop
  <2> QED
    BY <1>1, <1>2, <1>3, <2>1 DEF ReadingInv, Last
<1>6. CASE Parsed
  <2>1. cur = Len(input) + 1 /\ cur' = cur /\ counts' = counts /\ at' = "return"
    BY <1>6 DEF Parsed, AfterLoop, Finished
  <2> QED
    BY <1>1, <1>2, <1>3, <2>1 DEF ReadingInv, Last
<1> QED
  BY <1>4, <1>5, <1>6

(* What yajl_parse_integer returns is the integer that the text denotes,   *)
(* and it gives up where there is none in long long.                       *)
LEMMA ReadsTheInteger ==
  ASSUME ReadingInv, ParseInv, fn = IntegerParser
  PROVE  /\ at = "return" => /\ IsInteger(input) /\ acc = IntegerOf(input)
                             /\ acc \in Lowest .. Long
         /\ at = "range" => ~(IsInteger(input) /\ IntegerOf(input) \in Lowest .. Long)
<1>1. /\ input \in Seq(0 .. 255) /\ input # <<>> /\ Len(input) \in Nat
      /\ arg = IF input[1] = Minus THEN -1 ELSE 1
      /\ cur \in 1 .. Len(input) + 1 /\ (input[1] = Minus => cur > 1)
      /\ Last(counts) = Amount(input)[cur - 1]
      /\ \A k \in 1 .. cur - 1 : input[k] \in Digits \/ (k = 1 /\ input[k] = Minus)
  BY DEF ReadingInv
<1>2. acc \in Lowest .. Long /\ Long \in Nat /\ Lowest \in Int /\ Lowest < 0
  BY LongAssumption DEF ParseInv, Lowest
<1>3. Counting(Amount(input), input) /\ \A n \in 0 .. Len(input) : Amount(input)[n] \in Nat
  BY <1>1, AmountCounts
<1>4. ASSUME at = "return"
      PROVE  IsInteger(input) /\ acc = IntegerOf(input)
  <2>1. cur - 1 = Len(input) /\ acc = arg * Last(counts)
    BY <1>1, <1>4 DEF ReadingInv, ParseInv
  <2>2. acc = arg * Value(input) /\ Value(input) \in Nat
    BY <1>1, <1>3, <2>1 DEF Value
  <2>3. acc = IntegerOf(input)
    BY <1>1, <2>2 DEF IntegerOf
  <2> QED
    BY <1>1, <2>1, <2>3 DEF IsInteger
<1>5. ASSUME at = "range", IsInteger(input), IntegerOf(input) \in Lowest .. Long
      PROVE  FALSE
  <2> DEFINE c == input[cur] - Zero
             n == Last(counts)
  <2>1. cur \in 1 .. Len(input) /\ n \in Nat
    BY <1>1, <1>3, <1>5 DEF ReadingInv
  <2>2. input[cur] \in Digits
    BY <1>1, <1>5, <2>1 DEF IsInteger
  <2>3. c \in 0 .. 9 /\ arg * (n * 10 + input[cur] - Zero) \notin Lowest .. Long
    BY <1>5, <2>2, DigitValue DEF ParseInv
  <2>4. n * 10 + input[cur] - Zero = n * 10 + c
    BY <2>1, <2>2 DEF Digits, Zero
  <2>5. Amount(input)[cur] = n * 10 + c
    BY <1>1, <1>3, <2>1, <2>2 DEF Counting
  <2> HIDE DEF c, n
  <2>6. PICK m \in Nat : m = n * 10 + c
    BY <2>1, <2>3
  <2>7. PICK v \in Nat : v = Value(input) /\ m <= v
    <3>1. Value(input) \in Nat /\ Amount(input)[cur] <= Value(input)
      BY <1>1, <1>3, <2>1, AmountGrows DEF Value
    <3> QED
      BY <2>5, <2>6, <3>1
  <2>8. arg * m \notin Lowest .. Long /\ arg \in {1, -1} /\ arg * v \in Lowest .. Long
    <3>1. arg * m \notin Lowest .. Long
      BY <2>3, <2>4, <2>6
    <3>2. IntegerOf(input) = arg * v
      BY <1>1, <2>7 DEF IntegerOf
    <3> QED
      BY <1>1, <1>5, <3>1, <3>2
  <2>9. CASE arg = 1
    BY <1>2, <2>6, <2>7, <2>8, <2>9
  <2>10. CASE arg = -1
    BY <1>2, <2>6, <2>7, <2>8, <2>10
  <2> QED
    BY <2>8, <2>9, <2>10
<1> QED
  BY <1>2, <1>4, <1>5

-----------------------------------------------------------------------------
(* What happens to numbers in the order of the calls                       *)

WritingInv ==
  fn = IntegerWriter =>
    /\ origin \in Integers32
    /\ at \in {"digits", "sign", "return"}
    /\ at \in {"digits", "sign"} =>
         /\ arg = [negative |-> origin < 0]
         /\ acc \in Nat
         /\ \E f : Divides(f, out, Abs(origin), acc)
         /\ at = "sign" => acc = 0 /\ out # <<>>
    /\ at = "return" /\ origin # NA =>
         out \in Seq(0 .. 255) /\ out # <<>> /\ IsInteger(out) /\ IntegerOf(out) = origin

IntegersReadBack ==
  route = "integer" /\ fn = ValueParser => arg.type = "integer" /\ acc = origin

NumberInv ==
  /\ WritingInv
  /\ ReadingInv
  /\ fn = IntegerWriter => route = "integer"
  /\ fn = IntegerParser => route \in {"number", "integer"}
  /\ route = "number" /\ fn = IntegerParser => input = origin
  /\ route = "integer" /\ fn = IntegerParser =>
       /\ origin \in Integers32 /\ origin # NA
       /\ IsInteger(input) /\ IntegerOf(input) = origin
  /\ TypeHoldsValue
  /\ IntegersReadBack

\* The functions that have nothing to do with integers.
Strangers == {"idle", Escaper, Encoder, Decoder, Appender, Base64Encoder, Base64Decoder,
              DoubleWriter, Renderer} \cup Joiners

LEMMA StrangerNames ==
  /\ IntegerWriter \notin Strangers /\ IntegerParser \notin Strangers /\ ValueParser \notin Strangers
  /\ IntegerWriter # IntegerParser /\ IntegerWriter # ValueParser /\ IntegerParser # ValueParser
<1>1. {IntegerWriter, IntegerParser, ValueParser} \cap Joiners = {}
  BY DEF IntegerWriter, IntegerParser, ValueParser, Joiners, ObjectJoiners, ArrayJoiners
<1> QED
  BY <1>1 DEF Strangers, IntegerWriter, IntegerParser, ValueParser, Escaper, Encoder, Decoder,
     Appender, Base64Encoder, Base64Decoder, DoubleWriter, Renderer

LEMMA StrangersAreFree == fn' \in Strangers => NumberInv'
  BY StrangerNames DEF NumberInv, WritingInv, ReadingInv, TypeHoldsValue, IntegersReadBack

LEMMA Limits ==
  /\ NA = -MaxInt - 1 /\ MaxInt \in Nat /\ MaxExact \in Nat /\ Long \in Nat
  /\ Lowest = -Long - 1 /\ MaxInt <= MaxExact /\ MaxExact <= Long
  /\ \A v \in Integers32 : v \in Int /\ -MaxInt - 1 <= v /\ v <= MaxInt
<1>1. \A v \in Integers32 : v \in -MaxInt - 1 .. MaxInt
  BY IntegersAssumption
<1> QED
  BY <1>1, NumbersAssumption, LongAssumption DEF NA, Lowest

LEMMA StartOfNumbers ==
  ASSUME Start
  PROVE  \/ fn' \in Strangers
         \/ \E v \in Integers32 : Begin("integer", v) /\ CallWriteInteger(v)
         \/ \E s \in NumberTexts : Begin("number", s) /\ CallParseInteger(s)
  BY DEF Start, CallEscape, CallDecode, CallBase64Encode, CallBase64Decode,
         CallWriteDouble, CallJoin, CallAppend, CallRender, Call, Strangers

LEMMA HandOverOfNumbers ==
  ASSUME HandOver
  PROVE  fn' \in Strangers \/ ReadInteger \/ ReadNumber
  BY DEF HandOver, ReadEscaped, PrettifyText, ReadEncoded, EscapeBase64, ReadBase64, ReadUrl,
         CallEscape, CallDecode, CallEncode, CallBase64Decode, Call, Strangers

LEMMA RunningOfNumbers ==
  ASSUME Running
  PROVE  \/ fn' = fn /\ fn \in Strangers
         \/ fn = IntegerWriter /\ (WriteDigit \/ WriteSign)
         \/ fn = IntegerParser /\ (ParseDigit \/ OutOfRange \/ Parsed)
<1>1. EscapeNext \/ CodingNext \/ BufNext \/ Base64Next \/ CollapseNext \/ RenderNext
        => fn' = fn /\ fn \in Strangers
  BY Owners DEF Strangers
<1>2. NumberNext => fn' = fn /\ fn \in {IntegerWriter, DoubleWriter, IntegerParser}
  BY Owners
<1>3. DoubleWriter \in Strangers
  BY DEF Strangers
<1>4. ASSUME NumberNext, fn \in {IntegerWriter, IntegerParser}
      PROVE  \/ fn = IntegerWriter /\ (WriteDigit \/ WriteSign)
             \/ fn = IntegerParser /\ (ParseDigit \/ OutOfRange \/ Parsed)
  <2>1. fn # DoubleWriter
    BY <1>4 DEF IntegerWriter, DoubleWriter, IntegerParser
  <2> QED
    BY <1>4, <2>1, StrangerNames DEF NumberNext, WriteDigit, WriteSign, DropZero, ZerosDropped,
       WriteFraction, WritePoint, WriteDoubleSign, ParseDigit, OutOfRange, Parsed, InLoop, AfterLoop
<1> QED
  BY <1>1, <1>2, <1>3, <1>4 DEF Running

LEMMA WritingBegins ==
  ASSUME NEW v \in Integers32, Begin("integer", v), CallWriteInteger(v)
  PROVE  NumberInv'
<1>1. fn' = IntegerWriter /\ route' = "integer" /\ origin' = v /\ v \in Int
  BY Limits DEF Begin, CallWriteInteger
<1>2. CASE v = NA
  <2>1. at' = "return"
    BY <1>2 DEF CallWriteInteger
  <2> QED
    BY <1>1, <1>2, <2>1, StrangerNames DEF NumberInv, WritingInv, ReadingInv, TypeHoldsValue,
       IntegersReadBack
<1>3. CASE v # NA
  <2>1. /\ at' = "digits" /\ out' = <<>> /\ acc' = Abs(v) /\ arg' = [negative |-> v < 0]
    BY <1>3 DEF CallWriteInteger
  <2>2. Abs(v) \in Nat
    BY <1>1 DEF Abs
  <2>3. Divides([k \in 0 .. 0 |-> Abs(v)], <<>>, Abs(v), Abs(v))
    BY <2>2 DEF Divides
  <2> QED
    BY <1>1, <2>1, <2>2, <2>3, StrangerNames DEF NumberInv, WritingInv, ReadingInv, TypeHoldsValue,
       IntegersReadBack
<1> QED
  BY <1>2, <1>3

LEMMA WritingSteps ==
  ASSUME NumberInv, fn = IntegerWriter, WriteDigit \/ WriteSign, UNCHANGED <<route, origin>>
  PROVE  NumberInv'
<1>1. /\ fn' = fn /\ arg' = arg /\ at \in {"digits", "sign"}
  BY DEF WriteDigit, WriteSign, Finished
<1>2. /\ origin \in Integers32 /\ arg = [negative |-> origin < 0] /\ acc \in Nat
      /\ \E f : Divides(f, out, Abs(origin), acc)
      /\ at = "sign" => acc = 0 /\ out # <<>>
  BY <1>1 DEF NumberInv, WritingInv
<1>3. ASSUME WritingInv' PROVE NumberInv'
  BY <1>1, <1>3, StrangerNames DEF NumberInv, ReadingInv, TypeHoldsValue, IntegersReadBack
<1>4. CASE WriteDigit
  <2>1. /\ out' = Append(out, Zero + (acc % 10)) /\ acc' = acc \div 10
        /\ at' = (IF acc \div 10 = 0 THEN "sign" ELSE at) /\ at = "digits"
    BY <1>4 DEF WriteDigit
  <2>2. PICK f : Divides(f, out, Abs(origin), acc)
    BY <1>2
  <2>3. \E g : Divides(g, out', Abs(origin), acc')
    BY <1>2, <2>1, <2>2, DigitDivides
  <2>4. acc' \in Nat /\ out' # <<>>
    <3>1. out \in Seq(Digits)
      BY <2>2 DEF Divides
    <3> QED
      BY <1>2, <2>1, <3>1, DigitOf
  <2> QED
    BY <1>1, <1>2, <1>3, <2>1, <2>3, <2>4 DEF WritingInv
<1>5. CASE WriteSign
  <2>1. at = "sign" /\ at' = "return" /\ out' = Signed
    BY <1>5 DEF WriteSign, Finished
  <2>2. PICK f : Divides(f, out, Abs(origin), 0)
    BY <1>2, <2>1
  <2> DEFINE negative == origin < 0
  <2>3. negative \in BOOLEAN /\ arg.negative = negative /\ origin \in Int /\ Abs(origin) \in Nat
    BY <1>2, Limits DEF Abs
  <2>4. out' = Reversed(IF negative THEN Append(out, Minus) ELSE out)
    BY <2>1, <2>3 DEF Signed
  <2> HIDE DEF negative
  <2>5. /\ out' \in Seq(Digits \cup {Minus}) /\ out' # <<>>
        /\ out'[1] = Minus <=> negative
        /\ IsInteger(out') /\ Value(out') = Abs(origin)
    BY <1>2, <2>1, <2>2, <2>3, <2>4, SignedDenotes
  <2>6. IntegerOf(out') = origin
    BY <2>3, <2>5 DEF IntegerOf, Abs, negative
  <2>7. out' \in Seq(0 .. 255)
    <3> SUFFICES ASSUME NEW t \in Seq(Digits \cup {Minus}) PROVE t \in Seq(0 .. 255)
      BY <2>5
    <3> QED
      BY DEF Digits, Zero, Minus
  <2> QED
    BY <1>1, <1>2, <1>3, <2>1, <2>5, <2>6, <2>7 DEF WritingInv
<1> QED
  BY <1>4, <1>5

LEMMA ParsingBegins ==
  ASSUME NEW text \in Seq(0 .. 255), text # <<>>, CallParseInteger(text),
         \/ route' = "number" /\ origin' = text
         \/ /\ route' = "integer" /\ origin' \in Integers32 /\ origin' # NA
            /\ IsInteger(text) /\ IntegerOf(text) = origin'
  PROVE  NumberInv'
<1>1. fn' = IntegerParser /\ input' = text
  BY DEF CallParseInteger
<1>2. ReadingInv'
  BY ReadingBegins
<1>3. IsInteger(input)' = IsInteger(text) /\ IntegerOf(input)' = IntegerOf(text)
  BY <1>1 DEF IsInteger, IntegerOf, Value, Amount
<1>4. NA' = NA
  BY DEF NA
<1> QED
  BY <1>1, <1>2, <1>3, <1>4, StrangerNames DEF NumberInv, WritingInv, TypeHoldsValue, IntegersReadBack

LEMMA ParsingSteps ==
  ASSUME NumberInv, ParseInv, fn = IntegerParser, ParseDigit \/ OutOfRange \/ Parsed,
         UNCHANGED <<route, origin>>
  PROVE  NumberInv'
<1>1. fn' = fn /\ input' = input
  BY DEF ParseDigit, OutOfRange, Parsed, InLoop, AfterLoop, Finished
<1>2. ReadingInv'
  BY ReadingSteps DEF NumberInv
<1>3. IsInteger(input)' = IsInteger(input) /\ IntegerOf(input)' = IntegerOf(input)
  BY <1>1 DEF IsInteger, IntegerOf, Value, Amount
<1> QED
  BY <1>1, <1>2, <1>3, StrangerNames DEF NumberInv, WritingInv, TypeHoldsValue, IntegersReadBack

(* The type is chosen by the number, for every width of the integers.      *)
LEMMA TypeIsChosen ==
  ASSUME NEW v \in Int, NEW bigint \in BOOLEAN
  PROVE  LET type == TypeOf(TRUE, v, bigint)
         IN  /\ type = "integer" <=> v # NA /\ v \in -MaxInt - 1 .. MaxInt
             /\ type = "character" => bigint
             /\ type = "double" /\ bigint => Abs(v) <= MaxExact
             /\ type \in {"integer", "character", "double"}
<1>1. CASE bigint /\ (v > MaxExact \/ v < -MaxExact)
  BY <1>1, Limits DEF TypeOf
<1>2. CASE ~(bigint /\ (v > MaxExact \/ v < -MaxExact)) /\ (v > MaxInt \/ v < -MaxInt)
  BY <1>2, Limits DEF TypeOf, Abs
<1>3. CASE ~(bigint /\ (v > MaxExact \/ v < -MaxExact)) /\ ~(v > MaxInt \/ v < -MaxInt)
  BY <1>3, Limits DEF TypeOf, Abs
<1> QED
  BY <1>1, <1>2, <1>3

LEMMA ReadNumberSteps ==
  ASSUME NumberInv, ParseInv, ReadNumber
  PROVE  NumberInv'
<1>1. PICK bigint \in BOOLEAN : CallParseValue(bigint)
  BY DEF ReadNumber
<1>2. /\ fn = IntegerParser /\ at \in {"return", "range"} /\ UNCHANGED <<route, origin, acc>>
      /\ fn' = ValueParser /\ arg' = [type |-> TypeOf(at = "return", acc, bigint), bigint |-> bigint]
  BY <1>1 DEF ReadNumber, CallParseValue
<1>3. /\ at = "return" => /\ IsInteger(input) /\ acc = IntegerOf(input)
                          /\ acc \in Lowest .. Long
      /\ at = "range" => ~(IsInteger(input) /\ IntegerOf(input) \in Lowest .. Long)
  BY <1>2, ReadsTheInteger DEF NumberInv
<1>4. arg'.type = TypeOf(at = "return", acc, bigint) /\ arg'.bigint = bigint
  BY <1>2
<1>5. at = "range" => arg'.type = "double"
  BY <1>4 DEF TypeOf
<1>6. acc \in Int /\ (at = "return" => arg'.type = TypeOf(TRUE, acc, bigint))
  <2>1. acc \in Lowest .. Long /\ Lowest \in Int /\ Long \in Int
    BY <1>2, Limits DEF ParseInv
  <2>2. acc \in Int
    BY <2>1
  <2> QED
    BY <1>4, <2>2 DEF TypeOf
<1>7. at = "return" =>
        /\ arg'.type = "integer" <=> acc # NA /\ acc \in -MaxInt - 1 .. MaxInt
        /\ arg'.type = "character" => bigint
        /\ arg'.type = "double" /\ bigint => Abs(acc) <= MaxExact
  BY <1>6, TypeIsChosen
<1>8. ASSUME route = "number" PROVE TypeHoldsValue'
  <2>1. input = origin
    BY <1>2, <1>8 DEF NumberInv
  <2> DEFINE known == IsInteger(origin) /\ IntegerOf(origin) \in Lowest .. Long
             v == IntegerOf(origin)
  <2>2. /\ at = "return" => known /\ acc = v
        /\ at = "range" => ~known
    BY <1>3, <2>1
  <2>3. /\ arg'.type \in {"integer", "character"} => known /\ acc = v
        /\ arg'.type = "integer" <=> known /\ v # NA /\ v \in -MaxInt - 1 .. MaxInt
        /\ arg'.type = "character" => bigint
        /\ arg'.type = "double" /\ known /\ bigint => Abs(v) <= MaxExact
    <3> HIDE DEF known, v
    <3>1. CASE at = "return"
      BY <1>7, <2>2, <3>1
    <3>2. CASE at = "range"
      BY <1>5, <2>2, <3>2
    <3> QED
      BY <1>2, <3>1, <3>2
  <2>4. IsInteger(origin)' = IsInteger(origin) /\ IntegerOf(origin)' = IntegerOf(origin)
    BY <1>2 DEF IsInteger, IntegerOf, Value, Amount
  <2>5. arg.bigint' = bigint /\ acc' = acc
    BY <1>2
  <2> QED
    BY <2>3, <2>4, <2>5 DEF TypeHoldsValue, NA, Lowest, Abs
<1>9. ASSUME route = "integer" PROVE IntegersReadBack'
  <2>1. origin \in Integers32 /\ origin # NA /\ IsInteger(input) /\ IntegerOf(input) = origin
    BY <1>2, <1>9 DEF NumberInv
  <2>2. origin \in -MaxInt - 1 .. MaxInt /\ origin \in Lowest .. Long
    BY <2>1, Limits
  <2>3. at = "return" /\ acc = origin
    BY <1>2, <1>3, <2>1, <2>2
  <2> QED
    BY <1>2, <1>7, <2>1, <2>2, <2>3 DEF IntegersReadBack
<1>10. route \in {"number", "integer"}
  BY <1>2 DEF NumberInv
<1> QED
  BY <1>2, <1>8, <1>9, <1>10, StrangerNames DEF NumberInv, WritingInv, ReadingInv, TypeHoldsValue,
     IntegersReadBack

LEMMA NumberInvNext ==
  ASSUME NumberInv, ParseInv, [Next]_conversionVars
  PROVE  NumberInv'
<1>1. CASE Start
  <2>1. ASSUME NEW s \in NumberTexts, Begin("number", s), CallParseInteger(s)
        PROVE  NumberInv'
    <3>1. s \in Seq(0 .. 255) /\ s # <<>>
      BY TextsAssumption
    <3>2. route' = "number" /\ origin' = s
      BY <2>1 DEF Begin
    <3> QED
      BY <2>1, <3>1, <3>2, ParsingBegins
  <2> QED
    BY <1>1, <2>1, StartOfNumbers, StrangersAreFree, WritingBegins
<1>2. CASE HandOver
  <2>1. ASSUME ReadInteger PROVE NumberInv'
    <3>1. /\ fn = IntegerWriter /\ at = "return" /\ route = "integer" /\ origin # NA
          /\ UNCHANGED <<route, origin>> /\ CallParseInteger(out)
      BY <2>1 DEF ReadInteger, Has
    <3>2. /\ origin \in Integers32 /\ out \in Seq(0 .. 255) /\ out # <<>>
          /\ IsInteger(out) /\ IntegerOf(out) = origin
      BY <3>1 DEF NumberInv, WritingInv
    <3> QED
      BY <3>1, <3>2, ParsingBegins
  <2> QED
    BY <1>2, <2>1, HandOverOfNumbers, StrangersAreFree, ReadNumberSteps
<1>3. CASE Running
  <2>1. UNCHANGED <<route, origin>>
    BY <1>3 DEF Running
  <2> QED
    BY <1>3, <2>1, RunningOfNumbers, StrangersAreFree, WritingSteps, ParsingSteps
<1>4. CASE Return
  <2>1. fn' \in Strangers
    BY <1>4 DEF Return, Strangers
  <2> QED
    BY <2>1, StrangersAreFree
<1>5. CASE UNCHANGED conversionVars
  <2>1. UNCHANGED <<fn, at, input, arg, cur, counts, size, out, acc, route, origin>>
    BY <1>5 DEF conversionVars, vars
  <2>2. WritingInv' /\ ReadingInv'
    <3>1. WritingInv'
      BY <2>1 DEF NumberInv, WritingInv, NA, IsInteger, IntegerOf, Value, Amount, Divides, Abs
    <3>2. ReadingInv'
      BY <2>1 DEF NumberInv, ReadingInv, Last, Amount
    <3> QED
      BY <3>1, <3>2
  <2>3. TypeHoldsValue' /\ IntegersReadBack'
    BY <2>1 DEF NumberInv, TypeHoldsValue, IntegersReadBack, NA, Lowest, Abs, IsInteger, IntegerOf,
       Value, Amount
  <2> QED
    BY <2>1, <2>2, <2>3 DEF NumberInv, NA, IsInteger, IntegerOf, Value, Amount
<1> QED
  BY <1>1, <1>2, <1>3, <1>4, <1>5 DEF Next

LEMMA NumberInvHolds == Spec => []NumberInv
<1>1. Init => NumberInv
  BY StrangerNames DEF Init, NumberInv, WritingInv, ReadingInv, TypeHoldsValue, IntegersReadBack,
     Strangers
<1>2. NumberInv /\ ParseInv /\ [Next]_conversionVars => NumberInv'
  BY NumberInvNext
<1> QED
  BY <1>1, <1>2, ParseInvInit, ParseInvNext, PTL DEF Spec

(* Whatever the number that is read, how long it is and how wide long long *)
(* is: ParseValue makes an integer of it exactly where R has one, never the *)
(* one that means NA, the exact number wherever it is not a double, and     *)
(* a string instead of a double where it was asked for and the double may  *)
(* not be exact.                                                           *)
THEOREM TypesHoldValues == Spec => []TypeHoldsValue
<1>1. NumberInv => TypeHoldsValue
  BY DEF NumberInv
<1> QED
  BY <1>1, NumberInvHolds, PTL

-----------------------------------------------------------------------------
(* A stretch of a text                                                     *)

\* The part of text from m to n.
Stretch(part, text, m, n) ==
  /\ part \in Seq(0 .. 255) /\ Len(part) = (n + 1) - m
  /\ \A i \in 1 .. (n + 1) - m : part[i] = text[i + (m - 1)]

LEMMA PartsOfText ==
  ASSUME NEW text \in Seq(0 .. 255), NEW m \in Nat \ {0}, NEW n \in Nat, m <= n + 1, n <= Len(text)
  PROVE  Stretch(SubSeq(text, m, n), text, m, n)
<1>1. m \in Int /\ n \in Int /\ \A i \in m .. n : text[i] \in 0 .. 255
  <2>1. \A i \in m .. n : i \in 1 .. Len(text)
    OBVIOUS
  <2> QED
    BY <2>1, ElementOfSeq
<1>2. (IF m <= n THEN n - m + 1 ELSE 0) = (n + 1) - m
  OBVIOUS
<1>3. \A i \in 1 .. (n + 1) - m : i \in 1 .. n - m + 1 /\ m + i - 1 = i + (m - 1)
  OBVIOUS
<1> QED
  BY <1>1, <1>2, <1>3, SubSeqProperties DEF Stretch

-----------------------------------------------------------------------------
(* A string and a text that spells it                                      *)

\* The characters from i up to j, without j, of text stand for character k of s.
Stands(text, i, j, s, k) ==
  \/ /\ j = i + 1 /\ text[i] = s[k]
     /\ s[k] \notin Control \cup {Quote, Backslash}
     /\ ~(s[k] = Slash /\ k > 1 /\ s[k - 1] = Less)
  \/ /\ j = i + 2 /\ text[i] = Backslash
     /\ s[k] \in DOMAIN Letter /\ text[i + 1] = Letter[s[k]]
  \/ j = i + 2 /\ text[i] = Backslash /\ s[k] = Slash /\ text[i + 1] = Slash
  \/ /\ j = i + 6 /\ text[i] = Backslash /\ text[i + 1] = LetterU
     /\ text[i + 2] = Zero /\ text[i + 3] = Zero
     /\ text[i + 4] \in DOMAIN HexDigit /\ text[i + 5] \in DOMAIN HexDigit
     /\ s[k] \in Control
     /\ s[k] = 16 * HexDigit[text[i + 4]] + HexDigit[text[i + 5]]

\* From from on, text spells the first n characters of s, the k-th at pos[k].
Spells(pos, text, from, s, n) ==
  /\ pos \in [1 .. n + 1 -> Nat] /\ pos[1] = from /\ pos[n + 1] = Len(text) + 1
  /\ \A k \in 1 .. n : /\ pos[k] < pos[k + 1] /\ from <= pos[k] /\ pos[k + 1] <= Len(text) + 1
                       /\ Stands(text, pos[k], pos[k + 1], s, k)

LEMMA StandsElsewhere ==
  ASSUME NEW text, NEW other, NEW i \in Nat, NEW j \in Nat, NEW d \in Int, NEW s, NEW k,
         Stands(text, i, j, s, k), \A m \in i .. j - 1 : other[m + d] = text[m]
  PROVE  Stands(other, i + d, j + d, s, k)
<1>1. CASE j = i + 1
  <2>1. other[i + d] = text[i] /\ j + d = (i + d) + 1
    BY <1>1
  <2> QED
    BY <1>1, <2>1 DEF Stands
<1>2. CASE j = i + 2
  <2>1. /\ other[i + d] = text[i] /\ other[(i + 1) + d] = text[i + 1]
        /\ (i + 1) + d = (i + d) + 1 /\ j + d = (i + d) + 2
    BY <1>2
  <2> QED
    BY <1>2, <2>1 DEF Stands
<1>3. CASE j = i + 6
  <2>1. /\ other[i + d] = text[i] /\ other[(i + 1) + d] = text[i + 1]
        /\ other[(i + 2) + d] = text[i + 2] /\ other[(i + 3) + d] = text[i + 3]
        /\ other[(i + 4) + d] = text[i + 4] /\ other[(i + 5) + d] = text[i + 5]
    BY <1>3
  <2>2. /\ (i + 1) + d = (i + d) + 1 /\ (i + 2) + d = (i + d) + 2 /\ (i + 3) + d = (i + d) + 3
        /\ (i + 4) + d = (i + d) + 4 /\ (i + 5) + d = (i + d) + 5 /\ j + d = (i + d) + 6
    BY <1>3
  <2> QED
    BY <1>3, <2>1, <2>2 DEF Stands
<1> QED
  BY <1>1, <1>2, <1>3 DEF Stands

LEMMA StandsHere ==
  ASSUME NEW text, NEW other, NEW i \in Nat, NEW j \in Nat, NEW s, NEW k,
         Stands(text, i, j, s, k), \A m \in i .. j - 1 : other[m] = text[m]
  PROVE  Stands(other, i, j, s, k)
<1>1. PICK d \in Int : d = 0
  OBVIOUS
<1>2. \A m \in i .. j - 1 : other[m + d] = text[m]
  BY <1>1
<1>3. Stands(other, i + d, j + d, s, k)
  BY <1>2, StandsElsewhere
<1>4. i + d = i /\ j + d = j
  BY <1>1
<1> QED
  BY <1>3, <1>4

LEMMA NothingSpells ==
  ASSUME NEW text, Len(text) \in Nat, NEW s
  PROVE  \E pos : Spells(pos, text, Len(text) + 1, s, 0)
<1> DEFINE pos == [k \in 1 .. 0 + 1 |-> Len(text) + 1]
<1>1. Spells(pos, text, Len(text) + 1, s, 0)
  BY DEF Spells
<1> QED
  BY <1>1

LEMMA OneMoreIsSpelled ==
  ASSUME NEW text \in Seq(0 .. 255), NEW piece \in Seq(0 .. 255), NEW from \in Nat \ {0}, NEW s,
         NEW n \in Nat, NEW pos, Spells(pos, text, from, s, n),
         piece # <<>>, from <= Len(text) + 1, Stands(piece, 1, Len(piece) + 1, s, n + 1)
  PROVE  text \o piece \in Seq(0 .. 255) /\ \E p : Spells(p, text \o piece, from, s, n + 1)
<1> DEFINE L == Len(text)
           P == Len(piece)
           longer == text \o piece
           p == [k \in 1 .. (n + 1) + 1 |-> IF k = n + 2 THEN L + P + 1 ELSE pos[k]]
<1>1. /\ L \in Nat /\ P \in Nat /\ P > 0 /\ longer \in Seq(0 .. 255) /\ Len(longer) = L + P
      /\ \A m \in 1 .. L : longer[m] = text[m]
      /\ \A m \in 1 .. P : longer[m + L] = piece[m]
  OBVIOUS
<1>2. /\ pos \in [1 .. n + 1 -> Nat] /\ pos[1] = from /\ pos[n + 1] = L + 1
      /\ \A k \in 1 .. n : /\ pos[k] < pos[k + 1] /\ from <= pos[k] /\ pos[k + 1] <= L + 1
                           /\ Stands(text, pos[k], pos[k + 1], s, k)
  BY DEF Spells
<1>3. /\ p \in [1 .. (n + 1) + 1 -> Nat] /\ p[1] = from /\ p[(n + 1) + 1] = (L + P) + 1
      /\ \A k \in 1 .. n + 1 : p[k] = pos[k]
  BY <1>1, <1>2
<1> HIDE DEF longer, p, L, P
<1>4. ASSUME NEW k \in 1 .. n + 1
      PROVE  /\ p[k] < p[k + 1] /\ from <= p[k] /\ p[k + 1] <= (L + P) + 1
             /\ Stands(longer, p[k], p[k + 1], s, k)
  <2>1. CASE k = n + 1
    <3>1. p[k] = 1 + L /\ p[k + 1] = (P + 1) + L
      BY <1>1, <1>2, <1>3, <2>1
    <3>2. Stands(longer, 1 + L, (P + 1) + L, s, k)
      <4>1. \A m \in 1 .. (P + 1) - 1 : longer[m + L] = piece[m]
        BY <1>1
      <4>2. Stands(piece, 1, P + 1, s, k) /\ P + 1 \in Nat
        BY <1>1, <2>1 DEF P
      <4>3. PICK m \in Nat : m = P + 1
        BY <4>2
      <4>4. \A i \in 1 .. m - 1 : longer[i + L] = piece[i]
        BY <4>1, <4>3
      <4>5. Stands(piece, 1, m, s, k)
        BY <4>2, <4>3
      <4>6. PICK i \in Nat : i = 1
        OBVIOUS
      <4>7. Stands(piece, i, m, s, k) /\ \A z \in i .. m - 1 : longer[z + L] = piece[z]
        BY <4>4, <4>5, <4>6
      <4>8. L \in Int
        BY <1>1
      <4>9. Stands(longer, i + L, m + L, s, k)
        BY <4>7, <4>8, StandsElsewhere, Zenon
      <4> QED
        BY <4>3, <4>6, <4>9
    <3> QED
      BY <1>1, <3>1, <3>2 DEF L
  <2>2. CASE k # n + 1
    <3>1. k \in 1 .. n /\ k + 1 \in 1 .. n + 1
      BY <2>2
    <3>2. /\ pos[k] \in Nat /\ pos[k + 1] \in Nat /\ pos[k] < pos[k + 1] /\ pos[k + 1] <= L + 1
          /\ from <= pos[k] /\ Stands(text, pos[k], pos[k + 1], s, k)
          /\ p[k] = pos[k] /\ p[k + 1] = pos[k + 1]
      BY <1>2, <1>3, <3>1
    <3>3. PICK f \in Nat : f = pos[k]
      BY <3>2
    <3>4. PICK t \in Nat : t = pos[k + 1]
      BY <3>2
    <3>5. f < t /\ t <= L + 1 /\ from <= f /\ Stands(text, f, t, s, k) /\ p[k] = f /\ p[k + 1] = t
      BY <3>2, <3>3, <3>4
    <3>6. \A m \in f .. t - 1 : longer[m] = text[m]
      BY <1>1, <3>5
    <3>7. Stands(longer, f, t, s, k)
      BY <3>5, <3>6, StandsHere
    <3> QED
      BY <1>1, <3>5, <3>7
  <2> QED
    BY <2>1, <2>2
<1>5. Spells(p, longer, from, s, n + 1)
  BY <1>1, <1>3, <1>4 DEF Spells
<1> QED
  BY <1>1, <1>5 DEF longer

LEMMA HexadecimalDigits ==
  \A d \in 0 .. 15 :
    /\ HexLower(d) \in DOMAIN HexDigit /\ HexLower(d) \in 0 .. 255 /\ HexDigit[HexLower(d)] = d
    /\ HexUpper(d) \in DOMAIN HexDigit /\ HexUpper(d) \in 0 .. 255 /\ HexDigit[HexUpper(d)] = d
<1> SUFFICES ASSUME NEW d \in 0 .. 15
             PROVE  /\ HexLower(d) \in DOMAIN HexDigit /\ HexLower(d) \in 0 .. 255
                    /\ HexDigit[HexLower(d)] = d
                    /\ HexUpper(d) \in DOMAIN HexDigit /\ HexUpper(d) \in 0 .. 255
                    /\ HexDigit[HexUpper(d)] = d
  OBVIOUS
<1>1. CASE d < 10
  BY <1>1 DEF HexLower, HexUpper, HexDigit, Zero
<1>2. CASE d >= 10
  BY <1>2 DEF HexLower, HexUpper, HexDigit, Zero
<1> QED
  BY <1>1, <1>2

LEMMA HexDigitValues ==
  ASSUME NEW c \in DOMAIN HexDigit
  PROVE  HexDigit[c] \in 0 .. 15
<1>1. PICK n \in Nat : n = c /\ n \in (48 .. 57) \cup (65 .. 70) \cup (97 .. 102)
  BY DEF HexDigit
<1>2. HexDigit[c] = IF n < 65 THEN n - 48 ELSE IF n < 97 THEN n - 55 ELSE n - 87
  BY <1>1 DEF HexDigit
<1>3. CASE n < 65
  BY <1>1, <1>2, <1>3
<1>4. CASE n >= 65 /\ n < 97
  BY <1>1, <1>2, <1>4
<1>5. CASE n >= 97
  BY <1>1, <1>2, <1>5
<1> QED
  BY <1>3, <1>4, <1>5

LEMMA LettersAreMeant ==
  \A b \in DOMAIN Letter :
    /\ Letter[b] \in DOMAIN Meaning /\ Letter[b] \in 0 .. 255 /\ Letter[b] # LetterU
    /\ Meaning[Letter[b]] = b
<1> SUFFICES ASSUME NEW b \in DOMAIN Letter
             PROVE  /\ Letter[b] \in DOMAIN Meaning /\ Letter[b] \in 0 .. 255 /\ Letter[b] # LetterU
                    /\ Meaning[Letter[b]] = b
  OBVIOUS
<1>1. b \in {8, 9, 10, 12, 13, 34, 92}
  BY DEF Letter, Quote, Backslash
<1>2. Letter[b] = CASE b = 8 -> 98 [] b = 9 -> 116 [] b = 10 -> 110 [] b = 12 -> 102
                    [] b = 13 -> 114 [] OTHER -> b
  BY DEF Letter
<1>3. /\ b = 8 => Letter[b] = 98
      /\ b = 9 => Letter[b] = 116
      /\ b = 10 => Letter[b] = 110
      /\ b = 12 => Letter[b] = 102
      /\ b = 13 => Letter[b] = 114
      /\ b \in {34, 92} => Letter[b] = b
  BY <1>1, <1>2
<1>4. Letter[b] \in {98, 116, 110, 102, 114, 34, 92}
  BY <1>1, <1>3
<1>5. \A x \in DOMAIN Letter : Letter[x] = Letter[b] => x = b
  <2> SUFFICES ASSUME NEW x \in DOMAIN Letter, Letter[x] = Letter[b] PROVE x = b
    OBVIOUS
  <2>1. x \in {8, 9, 10, 12, 13, 34, 92}
    BY DEF Letter, Quote, Backslash
  <2>2. Letter[x] = CASE x = 8 -> 98 [] x = 9 -> 116 [] x = 10 -> 110 [] x = 12 -> 102
                      [] x = 13 -> 114 [] OTHER -> x
    BY DEF Letter
  <2> QED
    BY <1>1, <1>2, <2>1, <2>2
<1>6. (CHOOSE x \in DOMAIN Letter : Letter[x] = Letter[b]) = b
  BY <1>5
<1>7. Letter[b] \in DOMAIN Meaning /\ Letter[b] # Slash /\ Letter[b] # LetterU
  BY <1>4 DEF Meaning, Quote, Backslash, Slash, LetterU
<1>8. Meaning[Letter[b]] = CHOOSE x \in DOMAIN Letter : Letter[x] = Letter[b]
  BY <1>7 DEF Meaning
<1> QED
  BY <1>4, <1>6, <1>7, <1>8

\* What a writer puts for character k of s.
Piece(piece, s, k) ==
  piece \in Seq(0 .. 255) /\ piece # <<>> /\ Stands(piece, 1, Len(piece) + 1, s, k)

LEMMA PlainPiece ==
  ASSUME NEW s, NEW k, s[k] \in 0 .. 255, s[k] \notin Control \cup {Quote, Backslash},
         ~(s[k] = Slash /\ k > 1 /\ s[k - 1] = Less)
  PROVE  Piece(<<s[k]>>, s, k)
  BY DEF Piece, Stands

LEMMA LetterPiece ==
  ASSUME NEW s, NEW k, s[k] \in DOMAIN Letter
  PROVE  Piece(<<Backslash, Letter[s[k]]>>, s, k)
<1>1. PICK c \in 0 .. 255 : c = Letter[s[k]]
  BY LettersAreMeant
<1>2. Backslash \in 0 .. 255
  BY DEF Backslash
<1>3. /\ <<Backslash, c>> \in Seq(0 .. 255) /\ <<Backslash, c>> # <<>> /\ Len(<<Backslash, c>>) = 2
      /\ <<Backslash, c>>[1] = Backslash /\ <<Backslash, c>>[2] = c
  BY <1>2
<1> QED
  BY <1>1, <1>3 DEF Piece, Stands

LEMMA SolidusPiece ==
  ASSUME NEW s, NEW k, s[k] = Slash
  PROVE  Piece(<<Backslash, Slash>>, s, k)
<1>1. /\ <<Backslash, Slash>> \in Seq(0 .. 255) /\ <<Backslash, Slash>> # <<>>
      /\ Len(<<Backslash, Slash>>) = 2
      /\ <<Backslash, Slash>>[1] = Backslash /\ <<Backslash, Slash>>[2] = Slash
  BY DEF Backslash, Slash
<1> QED
  BY <1>1 DEF Piece, Stands

LEMMA HexPiece ==
  ASSUME NEW s, NEW k, s[k] \in Control
  PROVE  Piece(Hexadecimal(s[k]), s, k) /\ Piece(Hex(s[k]), s, k)
<1>1. PICK b \in 0 .. 31 : b = s[k]
  BY DEF Control
<1>2. b \div 16 \in 0 .. 15 /\ b % 16 \in 0 .. 15 /\ b = 16 * (b \div 16) + (b % 16)
  OBVIOUS
<1>3. ASSUME NEW x \in DOMAIN HexDigit, NEW y \in DOMAIN HexDigit, x \in 0 .. 255, y \in 0 .. 255,
             HexDigit[x] = b \div 16, HexDigit[y] = b % 16
      PROVE  Piece(<<Backslash, LetterU, Zero, Zero, x, y>>, s, k)
  <2> DEFINE p == <<Backslash, LetterU, Zero, Zero, x, y>>
  <2>1. /\ p \in Seq(0 .. 255) /\ p # <<>> /\ Len(p) = 6
        /\ p[1] = Backslash /\ p[2] = LetterU /\ p[3] = Zero /\ p[4] = Zero /\ p[5] = x /\ p[6] = y
    BY <1>3 DEF Backslash, LetterU, Zero
  <2> HIDE DEF p
  <2>2. Stands(p, 1, 6 + 1, s, k)
    BY <1>1, <1>2, <1>3, <2>1 DEF Stands
  <2> QED
    BY <2>1, <2>2 DEF Piece, p
<1> QED
  BY <1>1, <1>2, <1>3, HexadecimalDigits DEF Hexadecimal, Hex

LEMMA EscapedIsAPiece ==
  ASSUME input \in Seq(0 .. 255), NEW k \in 1 .. Len(input)
  PROVE  Piece(Escaped(k), input, k)
<1>1. input[k] \in 0 .. 255
  <2>1. \A m \in 1 .. Len(input) : input[m] \in 0 .. 255
    BY ElementOfSeq
  <2> QED
    BY <2>1
<1>2. CASE input[k] \in DOMAIN Letter
  <2>1. input[k] # Slash
    BY <1>2 DEF Letter, Slash, Quote, Backslash
  <2>2. Escaped(k) = <<Backslash, Letter[input[k]]>>
    BY <1>2, <2>1 DEF Escaped
  <2> QED
    BY <1>2, <2>2, LetterPiece
<1>3. CASE input[k] = Slash
  <2>1. input[k] \notin DOMAIN Letter /\ input[k] \notin Control \cup {Quote, Backslash}
    BY <1>3 DEF Letter, Slash, Control, Quote, Backslash
  <2>2. CASE AfterLess(k)
    BY <1>3, <2>1, <2>2, SolidusPiece DEF Escaped
  <2>3. CASE ~AfterLess(k)
    <3>1. Escaped(k) = <<input[k]>>
      BY <1>3, <2>1, <2>3 DEF Escaped
    <3> QED
      BY <1>1, <2>1, <2>3, <3>1, PlainPiece DEF AfterLess
  <2> QED
    BY <2>2, <2>3
<1>4. CASE input[k] \in Control \ DOMAIN Letter
  <2>1. input[k] # Slash
    <3>1. Slash \notin Control
      BY DEF Slash, Control
    <3> QED
      BY <1>4, <3>1
  <2>2. Escaped(k) = Hexadecimal(input[k])
    BY <1>4, <2>1 DEF Escaped
  <2> QED
    BY <1>4, <2>2, HexPiece
<1>5. CASE input[k] \notin Control \cup DOMAIN Letter \cup {Slash}
  <2>1. Escaped(k) = <<input[k]>> /\ input[k] \notin Control \cup {Quote, Backslash}
    BY <1>5 DEF Escaped, Letter
  <2> QED
    BY <1>1, <1>5, <2>1, PlainPiece
<1> QED
  BY <1>2, <1>3, <1>4, <1>5

-----------------------------------------------------------------------------
(* The decoder reads a piece in one step.                                  *)

LEMMA PieceBeginnings ==
  ASSUME NEW text, NEW i, NEW j, NEW s, NEW k, Stands(text, i, j, s, k)
  PROVE  text[i] \notin Control \cup {Quote}
  BY DEF Stands, Control, Quote, Backslash

LEMMA PieceIsRead ==
  ASSUME NEW s, NEW k, s[k] \in 0 .. 255, NEW j \in Nat, cur \in Nat,
         fn = Decoder, at = "loop", cur <= Len(input), CodingNext, Stands(input, cur, j, s, k)
  PROVE  \/ PassOver /\ j = cur + 1 /\ input[cur] = s[k]
         \/ Replace(<<s[k]>>, j - cur)
<1>1. Decoder # Encoder /\ cur # Len(input) + 1 /\ Len(input) \in Nat
  BY DEF Decoder, Encoder
<1>2. DecodeLetter \/ DecodeUnit \/ DecodePair \/ DecodeLone \/ DecodePlain
  BY <1>1 DEF CodingNext, EncodeEscaped, EncodePlain, CopyRest, InLoop, AfterLoop
<1>3. /\ LetterU \notin DOMAIN Meaning
      /\ Slash \in DOMAIN Meaning /\ Meaning[Slash] = Slash /\ Slash # LetterU
  BY DEF Meaning, LetterU, Slash, Quote, Backslash
<1>4. CASE j = cur + 1
  <2>1. input[cur] = s[k] /\ input[cur] # Backslash
    BY <1>4 DEF Stands
  <2>2. PassOver
    BY <1>2, <2>1 DEF DecodeLetter, DecodeUnit, DecodePair, DecodeLone, DecodePlain, AtUnicode, AtEscape
  <2> QED
    BY <1>4, <2>1, <2>2
<1>5. CASE j = cur + 2
  <2>1. /\ input[cur] = Backslash /\ input[cur + 1] # LetterU
        /\ input[cur + 1] \in DOMAIN Meaning /\ Meaning[input[cur + 1]] = s[k]
    BY <1>3, <1>5, LettersAreMeant DEF Stands
  <2>2. Replace(<<s[k]>>, 2)
    BY <1>2, <2>1 DEF DecodeLetter, DecodeUnit, DecodePair, DecodeLone, DecodePlain, AtUnicode, AtEscape
  <2>3. j - cur = 2
    BY <1>5
  <2> QED
    BY <2>2, <2>3
<1>6. CASE j = cur + 6
  <2>1. /\ input[cur] = Backslash /\ input[cur + 1] = LetterU
        /\ input[cur + 2] = Zero /\ input[cur + 3] = Zero
        /\ input[cur + 4] \in DOMAIN HexDigit /\ input[cur + 5] \in DOMAIN HexDigit
        /\ s[k] \in 0 .. 31
        /\ s[k] = 16 * HexDigit[input[cur + 4]] + HexDigit[input[cur + 5]]
    BY <1>6 DEF Stands, Control
  <2>2. \A c \in DOMAIN HexDigit : HexDigit[c] \in 0 .. 15
    BY HexDigitValues
  <2>3. HexDigit[Zero] = 0
    BY DEF HexDigit, Zero
  <2>4. Unit = s[k]
    <3>1. /\ (cur + 2) + 1 = cur + 3 /\ (cur + 2) + 2 = cur + 4 /\ (cur + 2) + 3 = cur + 5
      OBVIOUS
    <3>2. Unit = 4096 * 0 + 256 * 0 + 16 * HexDigit[input[cur + 4]] + HexDigit[input[cur + 5]]
      <4>1. /\ input[cur + 2] = Zero /\ input[(cur + 2) + 1] = Zero
            /\ input[(cur + 2) + 2] = input[cur + 4] /\ input[(cur + 2) + 3] = input[cur + 5]
        BY <2>1, <3>1
      <4> QED
        BY <2>3, <4>1 DEF Unit, hexToDigit
    <3>3. PICK a \in 0 .. 15 : a = HexDigit[input[cur + 4]]
      <4>1. HexDigit[input[cur + 4]] \in 0 .. 15
        BY <2>1, <2>2
      <4> QED
        BY <4>1
    <3>4. PICK b \in 0 .. 15 : b = HexDigit[input[cur + 5]]
      <4>1. HexDigit[input[cur + 5]] \in 0 .. 15
        BY <2>1, <2>2
      <4> QED
        BY <4>1
    <3>5. Unit = 4096 * 0 + 256 * 0 + 16 * a + b /\ s[k] = 16 * a + b
      BY <2>1, <3>2, <3>3, <3>4
    <3>6. 4096 * 0 + 256 * 0 + 16 * a + b = 16 * a + b
      OBVIOUS
    <3> QED
      BY <3>5, <3>6
  <2>5. ~HighSurrogate(Unit) /\ Utf32toUtf8(Unit) = <<s[k]>>
    <3>1. PICK u \in 0 .. 31 : u = Unit
      BY <2>1, <2>4
    <3>2. u < 128 /\ u \div 1024 # 54
      OBVIOUS
    <3> QED
      BY <2>4, <3>1, <3>2 DEF HighSurrogate, Utf32toUtf8
  <2>6. Replace(<<s[k]>>, 6)
    BY <1>2, <1>3, <2>1, <2>5 DEF DecodeLetter, DecodeUnit, DecodePair, DecodeLone, DecodePlain,
       AtUnicode, AtEscape
  <2>7. j - cur = 6
    BY <1>6
  <2> QED
    BY <2>6, <2>7
<1> QED
  BY <1>4, <1>5, <1>6 DEF Stands

-----------------------------------------------------------------------------
(* base64 of bytes, whatever its lines: cnt counts the characters of the   *)
(* alphabet, and the j-th is Symbol(bytes, j).                             *)

ByteOf(bytes, k) == IF k <= Len(bytes) THEN bytes[k] ELSE 0
Groups(n) == (n + 2) \div 3

\* b is the bytes before the block of character j, i its place in the block.
SextetAt(bytes, b, i) ==
  IF i = 0 THEN ByteOf(bytes, b + 1) \div 4
  ELSE IF i = 1 THEN (ByteOf(bytes, b + 1) % 4) * 16 + (ByteOf(bytes, b + 2) \div 16)
  ELSE IF i = 2 THEN (ByteOf(bytes, b + 2) % 16) * 4 + (ByteOf(bytes, b + 3) \div 64)
  ELSE ByteOf(bytes, b + 3) % 64
SymbolAt(bytes, b, i) ==
  IF i > 1 /\ b + i > Len(bytes) THEN Equals ELSE base64_table[SextetAt(bytes, b, i)]
Symbol(bytes, j) == SymbolAt(bytes, 3 * ((j - 1) \div 4), (j - 1) % 4)

Counted(cnt, text, bytes, q) ==
  /\ cnt \in [0 .. Len(text) -> Nat] /\ cnt[0] = 0 /\ cnt[Len(text)] = q
  /\ \A i \in 1 .. Len(text) :
       \/ text[i] \in Alphabet /\ cnt[i] = cnt[i - 1] + 1 /\ text[i] = Symbol(bytes, cnt[i])
       \/ text[i] = Newline /\ cnt[i] = cnt[i - 1]

EncodedAs(text, bytes) ==
  /\ bytes \in Seq(0 .. 255) /\ text \in Seq(0 .. 255)
  /\ \E cnt : Counted(cnt, text, bytes, 4 * Groups(Len(bytes)))

-----------------------------------------------------------------------------
(* What the functions for strings have written and read                    *)

\* The string that is written and read on the way of origin.
Carried(s) == IF route = "string" THEN s = origin ELSE EncodedAs(s, origin)

Copied == out \o Uncopied

EscapeText ==
  fn = Escaper =>
    /\ route \in {"string", "raw"} /\ input \in Seq(0 .. 255) /\ Carried(input)
    /\ at \in {"count", "write", "return"} /\ cur \in 1 .. Len(input) + 1
    /\ at = "write" => /\ out \in Seq(0 .. 255) /\ Len(out) >= 1
                       /\ \E pos : Spells(pos, out, 2, input, cur - 1)
    /\ at = "return" => /\ Inside(out) \in Seq(0 .. 255)
                        /\ \E pos : Spells(pos, Inside(out), 1, input, Len(input))

EncodeText ==
  fn = Encoder =>
    /\ route = "string" /\ input \in Seq(0 .. 255) /\ input = origin /\ arg = TRUE
    /\ at \in {"loop", "return"} /\ out \in Seq(0 .. 255)
    /\ at = "loop" => /\ cur \in 1 .. Len(input) + 1 /\ acc \in 1 .. cur
                      /\ \E pos : Spells(pos, Copied, 1, input, cur - 1)
    /\ at = "return" => \E pos : Spells(pos, out, 1, input, Len(input))

DecodeText ==
  fn = Decoder /\ route # "spelled" =>
    /\ route \in {"string", "raw"} /\ input \in Seq(0 .. 255) /\ at \in {"loop", "return"}
    /\ \E s \in Seq(0 .. 255) : \E pos :
         /\ Carried(s) /\ Spells(pos, input, 1, s, Len(s))
         /\ at = "loop" =>
              /\ out \in Seq(0 .. 255) /\ acc \in 1 .. cur
              /\ \E n \in 0 .. Len(s) : cur = pos[n + 1] /\ Copied = SubSeq(s, 1, n)
         /\ at = "return" => out = s

LEMMA TextNames ==
  /\ Escaper # Encoder /\ Escaper # Decoder /\ Encoder # Decoder
  /\ \A f \in {"idle", Appender, Base64Encoder, Base64Decoder, IntegerWriter, DoubleWriter,
               IntegerParser, ValueParser, Renderer} \cup Joiners : f \notin {Escaper, Encoder, Decoder}
<1>1. \A f \in Joiners : f \notin {Escaper, Encoder, Decoder}
  BY JoinersDiffer
<1> QED
  BY <1>1 DEF Escaper, Encoder, Decoder, Appender, Base64Encoder, Base64Decoder,
     IntegerWriter, DoubleWriter, IntegerParser, ValueParser, Renderer

LEMMA CarriedStays == UNCHANGED <<route, origin>> => \A s : Carried(s)' <=> Carried(s)
  BY DEF Carried

-----------------------------------------------------------------------------
(* C_escape_chars_one                                                      *)

LEMMA EscapingBegins ==
  ASSUME NEW x \in Seq(0 .. 255), CallEscape(x), route' \in {"string", "raw"}, Carried(x)'
  PROVE  EscapeText' /\ EncodeText' /\ DecodeText'
<1>1. fn' = Escaper /\ input' = x /\ at' = "count" /\ cur' = 1
  BY DEF CallEscape, Call
<1>2. Len(x) \in Nat
  OBVIOUS
<1>3. EscapeText'
  BY <1>1, <1>2 DEF EscapeText
<1> QED
  BY <1>1, <1>3, TextNames DEF EncodeText, DecodeText

(* Without its quotes the text is the one that was written between them.   *)
LEMMA WithoutQuotes ==
  ASSUME NEW text \in Seq(0 .. 255), Len(text) >= 1, NEW s, NEW n \in Nat, NEW pos,
         Spells(pos, text, 2, s, n)
  PROVE  LET inside == Inside(Append(text, Quote))
         IN  inside \in Seq(0 .. 255) /\ \E p : Spells(p, inside, 1, s, n)
<1> DEFINE quoted == Append(text, Quote)
           inside == SubSeq(quoted, 2, Len(quoted) - 1)
           L == Len(text)
           p == [k \in 1 .. n + 1 |-> pos[k] - 1]
<1>1. /\ quoted \in Seq(0 .. 255) /\ Len(quoted) = L + 1 /\ L \in Nat
      /\ \A m \in 1 .. L : quoted[m] = text[m]
  BY DEF Quote
<1>2. /\ inside \in Seq(0 .. 255) /\ Len(inside) = L - 1
      /\ \A m \in 1 .. L - 1 : inside[m] = quoted[m + 1]
  <2>1. /\ Len(quoted) - 1 = L /\ 2 \in Nat \ {0} /\ 2 <= L + 1 /\ L \in Nat
        /\ quoted \in Seq(0 .. 255) /\ L <= Len(quoted) /\ (L + 1) - 2 = L - 1 /\ 2 - 1 = 1
    BY <1>1
  <2> HIDE DEF quoted, L
  <2>2. PICK w \in Nat \ {0} : w = 2
    BY <2>1
  <2>3. Stretch(SubSeq(quoted, w, L), quoted, w, L)
    BY <2>1, <2>2, PartsOfText
  <2>4. w - 1 = 1 /\ inside = SubSeq(quoted, w, L) /\ (L + 1) - w = L - 1
    BY <2>1, <2>2
  <2> HIDE DEF inside
  <2> QED
    BY <2>1, <2>3, <2>4 DEF Stretch
<1>3. \A m \in 2 .. L : inside[m + (-1)] = text[m]
  <2> SUFFICES ASSUME NEW m \in 2 .. L PROVE inside[m + (-1)] = text[m]
    OBVIOUS
  <2>1. m - 1 \in 1 .. L - 1 /\ m + (-1) = m - 1 /\ (m - 1) + 1 = m /\ m \in 1 .. L
    BY <1>1
  <2> HIDE DEF inside, quoted, L
  <2> QED
    BY <1>1, <1>2, <2>1
<1> HIDE DEF inside, quoted
<1>4. /\ pos \in [1 .. n + 1 -> Nat] /\ pos[1] = 2 /\ pos[n + 1] = L + 1
      /\ \A k \in 1 .. n : /\ pos[k] < pos[k + 1] /\ 2 <= pos[k] /\ pos[k + 1] <= L + 1
                           /\ Stands(text, pos[k], pos[k + 1], s, k)
  BY DEF Spells
<1> HIDE DEF L
<1>5. \A k \in 1 .. n + 1 : pos[k] >= 1
  <2> SUFFICES ASSUME NEW k \in 1 .. n + 1 PROVE pos[k] >= 1
    OBVIOUS
  <2>1. CASE k = n + 1
    BY <1>1, <1>4, <2>1
  <2>2. CASE k \in 1 .. n
    BY <1>4, <2>2
  <2> QED
    BY <2>1, <2>2
<1>6. p \in [1 .. n + 1 -> Nat] /\ p[1] = 1 /\ p[n + 1] = (L - 1) + 1
  BY <1>1, <1>4, <1>5
<1>7. ASSUME NEW k \in 1 .. n
      PROVE  /\ p[k] < p[k + 1] /\ 1 <= p[k] /\ p[k + 1] <= (L - 1) + 1
             /\ Stands(inside, p[k], p[k + 1], s, k)
  <2>1. PICK i, j \in Nat : i = pos[k] /\ j = pos[k + 1]
    <3>1. k \in 1 .. n + 1 /\ k + 1 \in 1 .. n + 1
      OBVIOUS
    <3> QED
      BY <1>4, <3>1
  <2>2. /\ i < j /\ 2 <= i /\ j <= L + 1 /\ Stands(text, i, j, s, k)
        /\ p[k] = i - 1 /\ p[k + 1] = j - 1
    BY <1>4, <2>1
  <2>3. \A m \in i .. j - 1 : inside[m + (-1)] = text[m]
    BY <1>1, <1>3, <2>2
  <2>4. Stands(inside, i + (-1), j + (-1), s, k)
    BY <2>2, <2>3, StandsElsewhere
  <2>5. i + (-1) = i - 1 /\ j + (-1) = j - 1
    OBVIOUS
  <2> QED
    BY <1>1, <2>2, <2>4, <2>5
<1>8. Spells(p, inside, 1, s, n)
  <2> HIDE DEF p
  <2> QED
    BY <1>1, <1>2, <1>6, <1>7 DEF Spells
<1> QED
  BY <1>2, <1>8 DEF Inside, inside, quoted

LEMMA EscapingSteps ==
  ASSUME EscapeText, fn = Escaper, EscapeNext, UNCHANGED <<route, origin>>
  PROVE  EscapeText'
<1>1. /\ fn' = fn /\ input' = input
      /\ route' \in {"string", "raw"} /\ input \in Seq(0 .. 255) /\ Carried(input)' /\ Len(input) \in Nat
      /\ cur \in 1 .. Len(input) + 1
      /\ at = "write" => /\ out \in Seq(0 .. 255) /\ Len(out) >= 1
                         /\ \E pos : Spells(pos, out, 2, input, cur - 1)
  BY Owners, CarriedStays DEF EscapeText, EscapeNext, CountMatches, ReserveEscaped, WriteEscaped,
     CloseQuote, InLoop, AfterLoop, CountOne, WriteOne, Reserve, Finished
<1>2. CASE CountMatches
  <2>1. at' = "count" /\ cur <= Len(input) /\ cur' = cur + 1
    BY <1>2 DEF CountMatches, InLoop, CountOne
  <2> QED
    BY <1>1, <2>1 DEF EscapeText
<1>3. CASE ReserveEscaped
  <2>1. at' = "write" /\ cur' = 1 /\ out' = <<Quote>>
    BY <1>3 DEF ReserveEscaped, AfterLoop, Reserve
  <2>2. <<Quote>> \in Seq(0 .. 255) /\ Len(<<Quote>>) = 1
    BY DEF Quote
  <2>3. PICK pos : Spells(pos, <<Quote>>, 1 + 1, input, 0)
    BY <2>2, NothingSpells
  <2>4. Spells(pos, out', 2, input, cur' - 1)
    BY <2>1, <2>3
  <2> QED
    BY <1>1, <2>1, <2>2, <2>4 DEF EscapeText
<1>4. CASE WriteEscaped
  <2>1. /\ at = "write" /\ at' = at /\ cur <= Len(input) /\ cur' = cur + 1
        /\ out' = out \o Escaped(cur)
    BY <1>4 DEF WriteEscaped, InLoop, WriteOne
  <2>2. PICK pos : Spells(pos, out, 2, input, cur - 1)
    BY <1>1, <2>1
  <2>3. Piece(Escaped(cur), input, (cur - 1) + 1)
    BY <1>1, <2>1, EscapedIsAPiece
  <2>4. out' \in Seq(0 .. 255) /\ \E p : Spells(p, out', 2, input, (cur - 1) + 1)
    <3>1. cur - 1 \in Nat /\ 2 \in Nat \ {0} /\ 2 <= Len(out) + 1 /\ out \in Seq(0 .. 255)
      BY <1>1, <2>1
    <3> QED
      BY <2>1, <2>2, <2>3, <3>1, OneMoreIsSpelled DEF Piece
  <2>5. Len(out') >= 1
    BY <1>1, <2>1, <2>3 DEF Piece
  <2> QED
    BY <1>1, <2>1, <2>4, <2>5 DEF EscapeText
<1>5. CASE CloseQuote
  <2>1. /\ at = "write" /\ at' = "return" /\ cur = Len(input) + 1 /\ cur' = cur
        /\ out' = Append(out, Quote)
    BY <1>5 DEF CloseQuote, AfterLoop, Finished
  <2>2. PICK pos : Spells(pos, out, 2, input, Len(input))
    BY <1>1, <2>1
  <2>3. Inside(out') \in Seq(0 .. 255) /\ \E p : Spells(p, Inside(out'), 1, input, Len(input))
    BY <1>1, <2>1, <2>2, WithoutQuotes
  <2> QED
    BY <1>1, <2>1, <2>3 DEF EscapeText, Inside
<1> QED
  BY <1>2, <1>3, <1>4, <1>5 DEF EscapeNext

-----------------------------------------------------------------------------
(* yajl_string_encode and yajl_string_decode copy in stretches.            *)

LEMMA LongerByOne ==
  ASSUME NEW text \in Seq(0 .. 255), NEW m \in Nat \ {0}, NEW n \in Nat, m <= n + 1, n < Len(text)
  PROVE  SubSeq(text, m, n + 1) = SubSeq(text, m, n) \o <<text[n + 1]>>
<1>1. m \in 1 .. Len(text) + 1 /\ n + 1 \in m .. Len(text) /\ (n + 1) - 1 = n
  OBVIOUS
<1>2. PICK p \in Nat : p = n + 1
  OBVIOUS
<1>3. SubSeq(text, m, p) = SubSeq(text, m, p - 1) \o <<text[p]>>
  <2>1. m \in 1 .. Len(text) /\ p \in m .. Len(text)
    BY <1>2
  <2> QED
    BY <2>1, SubSeqRecursiveSecond
<1> QED
  BY <1>1, <1>2, <1>3

Associative(r, s, t) == r \o (s \o t) = (r \o s) \o t

LEMMA Associated ==
  ASSUME NEW r \in Seq(0 .. 255), NEW s \in Seq(0 .. 255), NEW t \in Seq(0 .. 255)
  PROVE  Associative(r, s, t)
<1>1. PICK Octet : Octet = 0 .. 255
  OBVIOUS
<1>2. r \in Seq(Octet) /\ s \in Seq(Octet) /\ t \in Seq(Octet)
  BY <1>1
<1>3. r \o (s \o t) = (r \o s) \o t
  BY <1>2, ConcatAssociative
<1> QED
  BY <1>3 DEF Associative

LEMMA CopiedGrows ==
  ASSUME input \in Seq(0 .. 255), out \in Seq(0 .. 255), NEW t \in Seq(0 .. 255), NEW n \in Nat,
         acc \in 1 .. cur, cur \in 1 .. Len(input),
         \/ PassOver /\ n = 1 /\ t = <<input[cur]>>
         \/ Replace(t, n)
  PROVE  /\ out' \in Seq(0 .. 255) /\ acc' \in 1 .. cur' /\ cur' = cur + n
         /\ Copied \in Seq(0 .. 255) /\ Copied' = Copied \o t
<1>1. acc \in Nat \ {0} /\ cur - 1 \in Nat /\ acc <= (cur - 1) + 1 /\ cur - 1 < Len(input)
      /\ (cur - 1) + 1 = cur /\ cur \in Nat
  OBVIOUS
<1>2. Uncopied \in Seq(0 .. 255)
  <2>1. \A x \in Nat : x < Len(input) => x <= Len(input)
    OBVIOUS
  <2> QED
    BY <1>1, <2>1, PartsOfText DEF Uncopied, Stretch
<1>3. Copied \in Seq(0 .. 255)
  BY <1>2, ConcatProperties DEF Copied
<1>4. CASE PassOver /\ n = 1 /\ t = <<input[cur]>>
  <2>1. /\ cur' = cur + 1 /\ UNCHANGED <<input, out, acc>>
    BY <1>4 DEF PassOver
  <2>2. PICK p \in Nat : p = cur - 1
    BY <1>1
  <2>3. SubSeq(input, acc, p + 1) = SubSeq(input, acc, p) \o <<input[p + 1]>>
    BY <1>1, <2>2, LongerByOne
  <2>4. p + 1 = cur /\ (cur + 1) - 1 = cur
    BY <1>1, <2>2
  <2>5. SubSeq(input, acc, (cur + 1) - 1) = SubSeq(input, acc, cur - 1) \o <<input[cur]>>
    BY <2>2, <2>3, <2>4
  <2>6. Uncopied' = Uncopied \o t
    BY <1>4, <2>1, <2>5 DEF Uncopied
  <2>7. out \o (Uncopied \o t) = (out \o Uncopied) \o t
    <3>1. PICK u \in Seq(0 .. 255) : u = Uncopied
      BY <1>2
    <3>2. Associative(out, u, t)
      BY Associated
    <3> QED
      BY <3>1, <3>2 DEF Associative
  <2>8. Copied' = Copied \o t
    BY <2>1, <2>6, <2>7 DEF Copied
  <2> QED
    BY <1>1, <1>3, <1>4, <2>1, <2>8
<1>5. CASE Replace(t, n)
  <2>1. /\ cur' = cur + n /\ acc' = cur + n /\ input' = input /\ out' = Copied \o t
    BY <1>5 DEF Replace, Copied
  <2>2. cur + n \in Nat \ {0} /\ (cur + n) - 1 < cur + n /\ (cur + n) - 1 \in Int
    BY <1>1
  <2>3. Uncopied' = <<>>
    <3>1. PICK a \in Int, b \in Int : a = cur + n /\ b = (cur + n) - 1
      BY <2>2
    <3>2. b < a
      BY <2>2, <3>1
    <3>3. SubSeq(input, a, b) = <<>>
      BY <3>2, SubSeqEmpty
    <3> QED
      BY <2>1, <3>1, <3>3 DEF Uncopied
  <2>4. out' \in Seq(0 .. 255)
    BY <1>3, <2>1, ConcatProperties
  <2>5. Copied' = out'
    BY <2>3, <2>4, ConcatEmptySeq DEF Copied
  <2> QED
    BY <1>3, <2>1, <2>2, <2>4, <2>5
<1> QED
  BY <1>4, <1>5

LEMMA EncodingBegins ==
  ASSUME NEW x \in Seq(0 .. 255), CallEncode(x, TRUE), route' = "string", x = origin'
  PROVE  EscapeText' /\ EncodeText' /\ DecodeText'
<1>1. /\ fn' = Encoder /\ at' = "loop" /\ input' = x /\ arg' = TRUE /\ cur' = 1 /\ out' = <<>>
      /\ acc' = 1
  BY DEF CallEncode
<1>2. Copied' = <<>>
  <2>1. SubSeq(x, 1, 1 - 1) = <<>>
    BY SubSeqEmpty
  <2>2. <<>> \o <<>> = <<>>
    OBVIOUS
  <2> QED
    BY <1>1, <2>1, <2>2 DEF Copied, Uncopied
<1>3. PICK pos : Spells(pos, <<>>, 1, x, 0)
  <2>1. Len(<<>>) = 0 /\ 0 + 1 = 1
    OBVIOUS
  <2> QED
    BY <2>1, NothingSpells
<1>4. EncodeText'
  <2>1. /\ Spells(pos, Copied', 1, input', cur' - 1) /\ cur' \in 1 .. Len(input') + 1
        /\ acc' \in 1 .. cur' /\ out' \in Seq(0 .. 255)
    BY <1>1, <1>2, <1>3
  <2> QED
    BY <1>1, <2>1 DEF EncodeText
<1> QED
  BY <1>1, <1>4, TextNames DEF EscapeText, DecodeText

LEMMA EncodingSteps ==
  ASSUME EncodeText, fn = Encoder, CodingNext, UNCHANGED <<route, origin>>
  PROVE  EncodeText'
<1>1. EncodeEscaped \/ EncodePlain \/ CopyRest(Encoder)
  BY TextNames DEF CodingNext, DecodeLetter, DecodeUnit, DecodePair, DecodeLone, DecodePlain, AtUnicode,
     AtEscape, CopyRest, InLoop, AfterLoop
<1>2. /\ at = "loop" /\ fn' = fn /\ UNCHANGED <<input, arg>> /\ Len(input) \in Nat
  BY <1>1 DEF EncodeEscaped, EncodePlain, CopyRest, InLoop, AfterLoop, Replace, PassOver, Finished
<1>3. /\ route' = "string" /\ input \in Seq(0 .. 255) /\ input = origin' /\ arg = TRUE
      /\ out \in Seq(0 .. 255) /\ cur \in 1 .. Len(input) + 1 /\ acc \in 1 .. cur
  BY <1>2 DEF EncodeText
<1>4. PICK pos : Spells(pos, Copied, 1, input, cur - 1)
  BY <1>2 DEF EncodeText
<1>5. ASSUME NEW t, Piece(t, input, cur), cur <= Len(input),
             \/ PassOver /\ t = <<input[cur]>>
             \/ Replace(t, 1)
      PROVE  EncodeText'
  <2>1. at' = at /\ cur \in 1 .. Len(input) /\ t \in Seq(0 .. 255) /\ t # <<>>
    <3>1. at' = at
      BY <1>5 DEF PassOver, Replace
    <3> QED
      BY <1>3, <1>5, <3>1 DEF Piece
  <2>2. /\ out' \in Seq(0 .. 255) /\ acc' \in 1 .. cur' /\ cur' = cur + 1
        /\ Copied \in Seq(0 .. 255) /\ Copied' = Copied \o t
    <3>1. PICK n \in Nat : n = 1
      OBVIOUS
    <3>2. \/ PassOver /\ n = 1 /\ t = <<input[cur]>>
          \/ Replace(t, n)
      BY <1>5, <3>1
    <3> QED
      BY <1>3, <2>1, <3>1, <3>2, CopiedGrows
  <2>3. \E p : Spells(p, Copied \o t, 1, input, (cur - 1) + 1)
    <3>1. cur - 1 \in Nat /\ (cur - 1) + 1 = cur /\ 1 \in Nat \ {0} /\ 1 <= Len(Copied) + 1
      BY <1>3, <2>2
    <3>2. Stands(t, 1, Len(t) + 1, input, (cur - 1) + 1)
      BY <1>5, <3>1 DEF Piece
    <3> QED
      BY <1>4, <2>1, <2>2, <3>1, <3>2, OneMoreIsSpelled
  <2>4. cur' - 1 = (cur - 1) + 1 /\ cur' \in 1 .. Len(input) + 1
    BY <1>3, <2>1, <2>2
  <2> QED
    BY <1>2, <1>3, <2>1, <2>2, <2>3, <2>4 DEF EncodeText
<1>6. CASE EncodeEscaped
  <2>1. /\ cur <= Len(input)
        /\ \/ input[cur] \in DOMAIN Letter /\ Replace(<<Backslash, Letter[input[cur]]>>, 1)
           \/ EscapesSolidus(cur) /\ Replace(<<Backslash, Slash>>, 1)
           \/ input[cur] \in Control \ DOMAIN Letter /\ Replace(Hex(input[cur]), 1)
    BY <1>6 DEF EncodeEscaped, InLoop
  <2>2. CASE input[cur] \in DOMAIN Letter /\ Replace(<<Backslash, Letter[input[cur]]>>, 1)
    BY <1>5, <2>1, <2>2, LetterPiece
  <2>3. CASE EscapesSolidus(cur) /\ Replace(<<Backslash, Slash>>, 1)
    BY <1>5, <2>1, <2>3, SolidusPiece DEF EscapesSolidus
  <2>4. CASE input[cur] \in Control \ DOMAIN Letter /\ Replace(Hex(input[cur]), 1)
    BY <1>5, <2>1, <2>4, HexPiece
  <2> QED
    BY <2>1, <2>2, <2>3, <2>4
<1>7. CASE EncodePlain
  <2>1. /\ cur <= Len(input) /\ input[cur] \notin Control \cup {Quote, Backslash}
        /\ ~EscapesSolidus(cur) /\ PassOver
    BY <1>7 DEF EncodePlain, InLoop
  <2>2. input[cur] \in 0 .. 255
    BY <1>3, <2>1, ElementOfSeq
  <2>3. Piece(<<input[cur]>>, input, cur)
    BY <1>3, <2>1, <2>2, PlainPiece DEF EscapesSolidus
  <2> QED
    BY <1>5, <2>1, <2>3
<1>8. CASE CopyRest(Encoder)
  <2>1. cur = Len(input) + 1 /\ at' = "return" /\ out' = Copied
    BY <1>8 DEF CopyRest, AfterLoop, Finished, Copied
  <2>2. Copied \in Seq(0 .. 255)
    <3>1. acc \in Nat \ {0} /\ cur - 1 \in Nat /\ acc <= (cur - 1) + 1 /\ cur - 1 <= Len(input)
      BY <1>3, <2>1
    <3>2. Uncopied \in Seq(0 .. 255)
      BY <1>3, <3>1, PartsOfText DEF Uncopied, Stretch
    <3> QED
      BY <1>3, <3>2, ConcatProperties DEF Copied
  <2>3. cur - 1 = Len(input)
    BY <1>2, <2>1
  <2> QED
    BY <1>2, <1>3, <1>4, <2>1, <2>2, <2>3 DEF EncodeText
<1> QED
  BY <1>1, <1>6, <1>7, <1>8

LEMMA DecodingBegins ==
  ASSUME NEW x \in Seq(0 .. 255), CallDecode(x), route' \in {"string", "raw"},
         NEW s \in Seq(0 .. 255), Carried(s)', NEW pos, Spells(pos, x, 1, s, Len(s))
  PROVE  EscapeText' /\ EncodeText' /\ DecodeText'
<1>1. fn' = Decoder /\ at' = "loop" /\ input' = x /\ cur' = 1 /\ out' = <<>> /\ acc' = 1
  BY DEF CallDecode
<1>2. Copied' = <<>>
  <2>1. SubSeq(x, 1, 1 - 1) = <<>>
    BY SubSeqEmpty
  <2>2. <<>> \o <<>> = <<>>
    OBVIOUS
  <2> QED
    BY <1>1, <2>1, <2>2 DEF Copied, Uncopied
<1>3. pos[1] = 1 /\ Len(s) \in Nat
  BY DEF Spells
<1>4. SubSeq(s, 1, 0) = <<>>
  BY SubSeqEmpty
<1>5. PICK n \in 0 .. Len(s) : n = 0
  BY <1>3
<1>6. cur' = pos[n + 1] /\ Copied' = SubSeq(s, 1, n)
  BY <1>1, <1>2, <1>3, <1>4, <1>5
<1>7. DecodeText'
  <2>1. out' \in Seq(0 .. 255) /\ acc' \in 1 .. cur'
    BY <1>1
  <2>2. \E m \in 0 .. Len(s) : cur' = pos[m + 1] /\ Copied' = SubSeq(s, 1, m)
    BY <1>6
  <2>3. /\ Carried(s)' /\ Spells(pos, input', 1, s, Len(s))
        /\ at' = "loop" =>
             /\ out' \in Seq(0 .. 255) /\ acc' \in 1 .. cur'
             /\ \E m \in 0 .. Len(s) : cur' = pos[m + 1] /\ Copied' = SubSeq(s, 1, m)
        /\ at' = "return" => out' = s
    BY <1>1, <2>1, <2>2
  <2> QED
    BY <1>1, <2>3 DEF DecodeText
<1> QED
  BY <1>1, <1>7, TextNames DEF EscapeText, EncodeText

LEMMA DecodingSteps ==
  ASSUME DecodeText, route # "spelled", fn = Decoder, CodingNext, UNCHANGED <<route, origin>>
  PROVE  DecodeText'
<1>1. \/ cur <= Len(input) /\ at' = at
      \/ CopyRest(Decoder)
  BY TextNames DEF CodingNext, EncodeEscaped, EncodePlain, DecodeLetter, DecodeUnit, DecodePair,
     DecodeLone, DecodePlain, AtUnicode, AtEscape, CopyRest, InLoop, AfterLoop, Replace, PassOver
<1>2. /\ at = "loop" /\ fn' = fn /\ UNCHANGED input /\ Len(input) \in Nat
  BY TextNames DEF CodingNext, EncodeEscaped, EncodePlain, DecodeLetter, DecodeUnit, DecodePair,
     DecodeLone, DecodePlain, AtUnicode, AtEscape, CopyRest, InLoop, AfterLoop, Replace, PassOver,
     Finished
<1>3. route' \in {"string", "raw"} /\ input \in Seq(0 .. 255)
  BY DEF DecodeText
<1>4. PICK s \in Seq(0 .. 255) : \E pos :
        /\ Carried(s) /\ Spells(pos, input, 1, s, Len(s))
        /\ out \in Seq(0 .. 255) /\ acc \in 1 .. cur
        /\ \E n \in 0 .. Len(s) : cur = pos[n + 1] /\ Copied = SubSeq(s, 1, n)
  BY <1>2 DEF DecodeText
<1>5. PICK pos :
        /\ Carried(s) /\ Spells(pos, input, 1, s, Len(s))
        /\ out \in Seq(0 .. 255) /\ acc \in 1 .. cur
        /\ \E n \in 0 .. Len(s) : cur = pos[n + 1] /\ Copied = SubSeq(s, 1, n)
  BY <1>4
<1>6. PICK n \in 0 .. Len(s) : cur = pos[n + 1] /\ Copied = SubSeq(s, 1, n)
  BY <1>5
<1>7. Carried(s)' /\ Len(s) \in Nat
  BY <1>5, CarriedStays
<1>8. /\ pos \in [1 .. Len(s) + 1 -> Nat] /\ pos[1] = 1 /\ pos[Len(s) + 1] = Len(input) + 1
      /\ \A k \in 1 .. Len(s) : /\ pos[k] < pos[k + 1] /\ 1 <= pos[k]
                                /\ pos[k + 1] <= Len(input) + 1
                                /\ Stands(input, pos[k], pos[k + 1], s, k)
  BY <1>5 DEF Spells
<1>9. cur \in Nat /\ n + 1 \in 1 .. Len(s) + 1
  BY <1>6, <1>7, <1>8
<1>10. CASE cur <= Len(input) /\ at' = at
  <2>1. n # Len(s)
    BY <1>2, <1>6, <1>8, <1>10
  <2>2. n + 1 \in 1 .. Len(s) /\ (n + 1) + 1 \in 1 .. Len(s) + 1 /\ n \in Nat /\ n < Len(s)
    BY <1>7, <2>1
  <2>3. PICK j \in Nat : j = pos[(n + 1) + 1]
    BY <1>8, <2>2
  <2>4. /\ cur < j /\ 1 <= cur /\ j <= Len(input) + 1
        /\ Stands(input, cur, j, s, n + 1)
    BY <1>6, <1>8, <2>2, <2>3
  <2>5. s[n + 1] \in 0 .. 255
    BY <2>2, ElementOfSeq
  <2>6. \/ PassOver /\ j = cur + 1 /\ input[cur] = s[n + 1]
        \/ Replace(<<s[n + 1]>>, j - cur)
    <3>1. PICK k \in Nat : k = n + 1
      BY <2>2
    <3> QED
      BY <1>2, <1>9, <1>10, <2>4, <2>5, <3>1, PieceIsRead
  <2>7. /\ out' \in Seq(0 .. 255) /\ acc' \in 1 .. cur' /\ cur' = j
        /\ Copied' = Copied \o <<s[n + 1]>>
    <3>1. PICK d \in Nat : d = j - cur
      BY <1>9, <2>4
    <3>2. <<s[n + 1]>> \in Seq(0 .. 255) /\ cur \in 1 .. Len(input) /\ cur + d = j
      BY <1>2, <1>9, <1>10, <2>4, <2>5, <3>1
    <3>3. \/ PassOver /\ d = 1 /\ <<s[n + 1]>> = <<input[cur]>>
          \/ Replace(<<s[n + 1]>>, d)
      BY <1>9, <2>6, <3>1
    <3>4. PICK t \in Seq(0 .. 255) : t = <<s[n + 1]>>
      BY <3>2
    <3>5. /\ out' \in Seq(0 .. 255) /\ acc' \in 1 .. cur' /\ cur' = cur + d
          /\ Copied' = Copied \o t
      BY <1>3, <1>5, <3>2, <3>3, <3>4, CopiedGrows
    <3> QED
      BY <3>2, <3>4, <3>5
  <2>8. Copied' = SubSeq(s, 1, n + 1)
    <3>1. PICK one \in Nat \ {0} : one = 1
      OBVIOUS
    <3>2. SubSeq(s, one, n + 1) = SubSeq(s, one, n) \o <<s[n + 1]>>
      BY <2>2, <3>1, LongerByOne
    <3> QED
      BY <1>6, <2>7, <3>1, <3>2
  <2>9. \E m \in 0 .. Len(s) : cur' = pos[m + 1] /\ Copied' = SubSeq(s, 1, m)
    <3>1. PICK m \in 0 .. Len(s) : m = n + 1
      BY <2>2
    <3>2. cur' = pos[m + 1]
      BY <2>3, <2>7, <3>1
    <3>3. Copied' = SubSeq(s, 1, m)
      BY <2>8, <3>1
    <3> QED
      BY <3>2, <3>3
  <2> QED
    BY <1>2, <1>3, <1>5, <1>7, <1>10, <2>7, <2>9 DEF DecodeText
<1>11. CASE CopyRest(Decoder)
  <2>1. cur = Len(input) + 1 /\ at' = "return" /\ out' = Copied
    BY <1>11 DEF CopyRest, AfterLoop, Finished, Copied
  <2>2. n = Len(s)
    <3>1. SUFFICES ASSUME n # Len(s) PROVE FALSE
      OBVIOUS
    <3>2. n + 1 \in 1 .. Len(s) /\ (n + 1) + 1 \in 1 .. Len(s) + 1
      BY <1>7, <3>1
    <3>3. PICK j \in Nat : j = pos[(n + 1) + 1]
      BY <1>8, <3>2
    <3>4. cur < j /\ j <= Len(input) + 1
      BY <1>6, <1>8, <3>2, <3>3
    <3> QED
      BY <1>2, <1>9, <2>1, <3>4
  <2>3. out' = s
    BY <1>6, <2>1, <2>2, SubSeqFull
  <2> QED
    BY <1>2, <1>3, <1>5, <1>7, <2>1, <2>3 DEF DecodeText
<1> QED
  BY <1>1, <1>10, <1>11

-----------------------------------------------------------------------------
(* A text that spells a string has no "</".                                *)

\* Between the characters before j there is none, and Less stands for itself.
NoEndTag(text, s, n, j) ==
  /\ \A k \in 1 .. j - 2 : ~(text[k] = Less /\ text[k + 1] = Slash)
  /\ j > 1 /\ text[j - 1] = Less => n > 0 /\ s[n] = Less

LEMMA HexDigitsAreNoTag == \A c \in DOMAIN HexDigit : c # Less /\ c # Backslash /\ c # Slash
  BY DEF HexDigit, Less, Backslash, Slash

LEMMA LettersAreNoTag == \A b \in DOMAIN Letter : Letter[b] # Less
<1> SUFFICES ASSUME NEW b \in DOMAIN Letter, Letter[b] = Less PROVE FALSE
  OBVIOUS
<1>1. Letter[b] \in DOMAIN Meaning
  BY LettersAreMeant
<1> QED
  BY <1>1 DEF Meaning, Less, Quote, Backslash, Slash

LEMMA PieceHasNoTag ==
  ASSUME NEW text, NEW s, NEW n \in Nat, NEW i \in Nat \ {0}, NEW j \in Nat,
         NoEndTag(text, s, n, i), Stands(text, i, j, s, n + 1)
  PROVE  NoEndTag(text, s, n + 1, j)
<1>1. /\ \A k \in 1 .. i - 2 : ~(text[k] = Less /\ text[k + 1] = Slash)
      /\ i > 1 /\ text[i - 1] = Less => n > 0 /\ s[n] = Less
  BY DEF NoEndTag
<1>2. text[i] = Slash => ~(n > 0 /\ s[n] = Less)
  <2>1. n > 0 => n + 1 > 1 /\ (n + 1) - 1 = n
    OBVIOUS
  <2> QED
    BY <2>1 DEF Stands, Slash, Backslash
<1>3. \A k \in 1 .. i - 1 : ~(text[k] = Less /\ text[k + 1] = Slash)
  <2> SUFFICES ASSUME NEW k \in 1 .. i - 1 PROVE ~(text[k] = Less /\ text[k + 1] = Slash)
    OBVIOUS
  <2>1. CASE k = i - 1
    BY <1>1, <1>2, <2>1
  <2>2. CASE k \in 1 .. i - 2
    BY <1>1, <2>2
  <2> QED
    BY <2>1, <2>2
<1>4. CASE j = i + 1
  <2>1. text[i] = Less => s[n + 1] = Less
    BY <1>4 DEF Stands, Less, Backslash
  <2>2. j - 2 = i - 1 /\ j - 1 = i /\ n + 1 > 0
    BY <1>4
  <2> QED
    BY <1>3, <2>1, <2>2 DEF NoEndTag
<1>5. CASE j = i + 2
  <2>1. text[i] = Backslash /\ text[i + 1] # Less
    BY <1>5, LettersAreNoTag DEF Stands, Less, Slash
  <2>2. /\ \A k \in 1 .. j - 2 : k \in 1 .. i - 1 \/ k = i
        /\ j - 1 = i + 1
    BY <1>5
  <2> QED
    BY <1>3, <2>1, <2>2 DEF NoEndTag, Less, Backslash
<1>6. CASE j = i + 6
  <2>1. /\ text[i] # Less /\ text[i + 1] # Less /\ text[i + 2] # Less /\ text[i + 3] # Less
        /\ text[i + 4] # Less /\ text[i + 5] # Less
    BY <1>6, HexDigitsAreNoTag DEF Stands, Less, Backslash, LetterU, Zero
  <2>2. /\ \A k \in 1 .. j - 2 : \/ k \in 1 .. i - 1 \/ k = i \/ k = i + 1 \/ k = i + 2
                                 \/ k = i + 3 \/ k = i + 4
        /\ j - 1 = i + 5
    BY <1>6
  <2> QED
    BY <1>3, <2>1, <2>2 DEF NoEndTag
<1> QED
  BY <1>4, <1>5, <1>6 DEF Stands

LEMMA SpelledWithoutTag ==
  ASSUME NEW text \in Seq(0 .. 255), NEW s \in Seq(0 .. 255), NEW pos,
         Spells(pos, text, 1, s, Len(s))
  PROVE  \A k \in 1 .. Len(text) - 1 : ~(text[k] = Less /\ text[k + 1] = Slash)
<1> DEFINE S == {n \in Nat : n <= Len(s) => NoEndTag(text, s, n, pos[n + 1])}
<1>1. /\ pos \in [1 .. Len(s) + 1 -> Nat] /\ pos[1] = 1 /\ pos[Len(s) + 1] = Len(text) + 1
      /\ \A k \in 1 .. Len(s) : /\ pos[k] < pos[k + 1] /\ 1 <= pos[k]
                                /\ pos[k + 1] <= Len(text) + 1
                                /\ Stands(text, pos[k], pos[k + 1], s, k)
      /\ Len(s) \in Nat /\ Len(text) \in Nat
  BY DEF Spells
<1>2. 0 \in S
  <2>1. PICK n \in Nat : n = 0
    OBVIOUS
  <2>2. NoEndTag(text, s, n, pos[n + 1])
    <3>1. pos[n + 1] = 1
      BY <1>1, <2>1
    <3> QED
      BY <3>1 DEF NoEndTag
  <2> QED
    BY <2>1, <2>2
<1>3. ASSUME NEW n \in Nat, n \in S PROVE n + 1 \in S
  <2>1. SUFFICES ASSUME n + 1 <= Len(s) PROVE NoEndTag(text, s, n + 1, pos[(n + 1) + 1])
    OBVIOUS
  <2>2. n + 1 \in 1 .. Len(s) /\ n + 1 \in 1 .. Len(s) + 1 /\ (n + 1) + 1 \in 1 .. Len(s) + 1
    BY <1>1, <2>1
  <2>3. PICK i, j \in Nat : i = pos[n + 1] /\ j = pos[(n + 1) + 1]
    BY <1>1, <2>2
  <2>4. 1 <= i /\ Stands(text, i, j, s, n + 1)
    BY <1>1, <2>2, <2>3
  <2>5. NoEndTag(text, s, n, i)
    BY <1>1, <1>3, <2>1, <2>3
  <2>6. i \in Nat \ {0}
    BY <2>3, <2>4
  <2> QED
    BY <2>3, <2>4, <2>5, <2>6, PieceHasNoTag
<1>4. \A n \in Nat : n \in S
  <2> HIDE DEF S
  <2> QED
    BY <1>2, <1>3, InductionOnNat
<1>5. NoEndTag(text, s, Len(s), Len(text) + 1)
  BY <1>1, <1>4
<1>6. (Len(text) + 1) - 2 = Len(text) - 1
  BY <1>1
<1> QED
  BY <1>5, <1>6 DEF NoEndTag

LEMMA DecodesSafely == DecodeText => SafeText
<1> SUFFICES ASSUME DecodeText, fn = Decoder, route \in {"string", "raw"}
             PROVE  /\ InLoop(Decoder, "loop") => input[cur] \notin Control \cup {Quote}
                    /\ \A k \in 1 .. Len(input) - 1 : ~(input[k] = Less /\ input[k + 1] = Slash)
  BY DEF SafeText
<1>1. input \in Seq(0 .. 255) /\ Len(input) \in Nat
  BY DEF DecodeText
<1>2. PICK s \in Seq(0 .. 255) : \E pos :
        /\ Spells(pos, input, 1, s, Len(s))
        /\ at = "loop" => \E n \in 0 .. Len(s) : cur = pos[n + 1]
  BY DEF DecodeText
<1>3. PICK pos :
        /\ Spells(pos, input, 1, s, Len(s))
        /\ at = "loop" => \E n \in 0 .. Len(s) : cur = pos[n + 1]
  BY <1>2
<1>4. ASSUME InLoop(Decoder, "loop") PROVE input[cur] \notin Control \cup {Quote}
  <2>1. at = "loop" /\ cur <= Len(input)
    BY <1>4 DEF InLoop
  <2>2. PICK n \in 0 .. Len(s) : cur = pos[n + 1]
    BY <1>3, <2>1
  <2>3. /\ pos[Len(s) + 1] = Len(input) + 1 /\ Len(s) \in Nat
        /\ \A k \in 1 .. Len(s) : Stands(input, pos[k], pos[k + 1], s, k)
    BY <1>3 DEF Spells
  <2>4. n + 1 \in 1 .. Len(s)
    BY <1>1, <2>1, <2>2, <2>3
  <2>5. Stands(input, cur, pos[(n + 1) + 1], s, n + 1)
    BY <2>2, <2>3, <2>4
  <2> QED
    BY <2>5, PieceBeginnings
<1> QED
  BY <1>1, <1>3, <1>4, SpelledWithoutTag

-----------------------------------------------------------------------------
(* The letters of base64                                                   *)

LEMMA TableOfLetters ==
  \A v \in 0 .. 63 :
    /\ base64_table[v] \in Alphabet /\ base64_table[v] \in 43 .. 122
    /\ base64_table[v] \notin {Equals, Minus, 95}
    /\ \A w \in 0 .. 63 : base64_table[w] = base64_table[v] => w = v
<1> SUFFICES ASSUME NEW v \in 0 .. 63
             PROVE  /\ base64_table[v] \in Alphabet /\ base64_table[v] \in 43 .. 122
                    /\ base64_table[v] \notin {Equals, Minus, 95}
                    /\ \A w \in 0 .. 63 : base64_table[w] = base64_table[v] => w = v
  OBVIOUS
<1>1. base64_table[v] \in Alphabet
  BY DEF Alphabet
<1>2. \A w \in 0 .. 63 :
        base64_table[w] = IF w < 26 THEN 65 + w ELSE IF w < 52 THEN 71 + w ELSE IF w < 62 THEN w - 4
                          ELSE IF w = 62 THEN 43 ELSE 47
  BY DEF base64_table, Slash
<1>3. base64_table[v] = IF v < 26 THEN 65 + v ELSE IF v < 52 THEN 71 + v ELSE IF v < 62 THEN v - 4
                        ELSE IF v = 62 THEN 43 ELSE 47
  BY <1>2, Zenon
<1>4. base64_table[v] \in 43 .. 122
  BY <1>3
<1>5. base64_table[v] \notin {Equals, Minus, 95}
  BY <1>3 DEF Equals, Minus
<1>6. ASSUME NEW w \in 0 .. 63, base64_table[w] = base64_table[v]
      PROVE  w = v
  <2>1. PICK a \in 43 .. 122 : a = base64_table[v] /\ a = base64_table[w]
    BY <1>4, <1>6
  <2>2. a = IF v < 26 THEN 65 + v ELSE IF v < 52 THEN 71 + v ELSE IF v < 62 THEN v - 4
            ELSE IF v = 62 THEN 43 ELSE 47
    BY <1>3, <2>1
  <2>3. a = IF w < 26 THEN 65 + w ELSE IF w < 52 THEN 71 + w ELSE IF w < 62 THEN w - 4
            ELSE IF w = 62 THEN 43 ELSE 47
    BY <1>2, <2>1
  <2> QED
    BY <2>2, <2>3
<1> QED
  BY <1>1, <1>4, <1>5, <1>6

LEMMA OtherCharacters == Newline \notin Alphabet /\ Equals \in Alphabet
<1>1. Equals \in Alphabet
  BY DEF Alphabet
<1>2. \A v \in 0 .. 63 : base64_table[v] # 10
  <2> SUFFICES ASSUME NEW v \in 0 .. 63 PROVE base64_table[v] # 10
    OBVIOUS
  <2>1. PICK c \in 43 .. 122 : c = base64_table[v]
    BY TableOfLetters
  <2> QED
    BY <2>1
<1>3. Newline \notin Alphabet
  BY <1>2 DEF Alphabet, Newline, Equals
<1> QED
  BY <1>1, <1>3

LEMMA AlphabetOfBytes ==
  ASSUME NEW c \in Alphabet
  PROVE  c \in 0 .. 255 /\ c \in 43 .. 122
<1>1. CASE c = Equals
  BY <1>1 DEF Equals
<1>2. CASE c # Equals
  <2>1. PICK v \in 0 .. 63 : c = base64_table[v]
    BY <1>2 DEF Alphabet
  <2>2. base64_table[v] \in 43 .. 122
    BY TableOfLetters
  <2>3. PICK d \in 43 .. 122 : d = c
    BY <2>1, <2>2
  <2> QED
    BY <2>3
<1> QED
  BY <1>1, <1>2

LEMMA LettersAreRead ==
  \A v \in 0 .. 63 : dtable(base64_table[v]) = v
<1> SUFFICES ASSUME NEW v \in 0 .. 63 PROVE dtable(base64_table[v]) = v
  OBVIOUS
<1>1. base64_table[v] # Equals /\ \A w \in 0 .. 63 : base64_table[w] = base64_table[v] => w = v
  BY TableOfLetters
<1>2. dtable(base64_table[v]) = CHOOSE w \in 0 .. 63 : base64_table[w] = base64_table[v]
  BY <1>1 DEF dtable
<1> QED
  BY <1>1, <1>2

LEMMA BytesOf ==
  ASSUME NEW bytes \in Seq(0 .. 255), NEW k \in Nat \ {0}
  PROVE  ByteOf(bytes, k) \in 0 .. 255 /\ (k > Len(bytes) => ByteOf(bytes, k) = 0)
<1>1. CASE k <= Len(bytes)
  <2>1. k \in 1 .. Len(bytes)
    BY <1>1
  <2> QED
    BY <1>1, <2>1, ElementOfSeq DEF ByteOf
<1>2. CASE ~(k <= Len(bytes))
  BY <1>2 DEF ByteOf
<1> QED
  BY <1>1, <1>2

LEMMA SplitByFour ==
  ASSUME NEW byte \in 0 .. 255
  PROVE  \E h \in 0 .. 63, l \in 0 .. 3 : byte \div 4 = h /\ byte % 4 = l /\ byte = 4 * h + l
  BY Z3

LEMMA SplitBySixteen ==
  ASSUME NEW byte \in 0 .. 255
  PROVE  \E h \in 0 .. 15, l \in 0 .. 15 : byte \div 16 = h /\ byte % 16 = l /\ byte = 16 * h + l
  BY Z3

LEMMA SplitBySixtyFour ==
  ASSUME NEW byte \in 0 .. 255
  PROVE  \E h \in 0 .. 3, l \in 0 .. 63 : byte \div 64 = h /\ byte % 64 = l /\ byte = 64 * h + l
  BY Z3

LEMMA OneByteOfTwo ==
  ASSUME NEW byte \in 0 .. 255, NEW h \in 0 .. 15
  PROVE  (256 * h + byte) % 256 = byte /\ byte % 256 = byte
  BY Z3

(* Three bytes are four sextets.                                           *)
LEMMA SextetsOfBytes ==
  ASSUME NEW bytes \in Seq(0 .. 255), NEW b \in Nat
  PROVE  /\ \A i \in 0 .. 3 : SextetAt(bytes, b, i) \in 0 .. 63
         /\ Bytes(<<SextetAt(bytes, b, 0), SextetAt(bytes, b, 1), SextetAt(bytes, b, 2),
                    SextetAt(bytes, b, 3)>>)
              = <<ByteOf(bytes, b + 1), ByteOf(bytes, b + 2), ByteOf(bytes, b + 3)>>
<1>1. /\ b + 1 \in Nat \ {0} /\ b + 2 \in Nat \ {0} /\ b + 3 \in Nat \ {0}
  OBVIOUS
<1>2. PICK x \in 0 .. 255, y \in 0 .. 255, z \in 0 .. 255 :
        x = ByteOf(bytes, b + 1) /\ y = ByteOf(bytes, b + 2) /\ z = ByteOf(bytes, b + 3)
  BY <1>1, BytesOf
<1>3. /\ SextetAt(bytes, b, 0) = x \div 4
      /\ SextetAt(bytes, b, 1) = (x % 4) * 16 + (y \div 16)
      /\ SextetAt(bytes, b, 2) = (y % 16) * 4 + (z \div 64)
      /\ SextetAt(bytes, b, 3) = z % 64
  BY <1>2 DEF SextetAt
<1>4. \A i \in 0 .. 3 : i = 0 \/ i = 1 \/ i = 2 \/ i = 3
  OBVIOUS
<1>5. /\ x \div 4 \in 0 .. 63
      /\ (x % 4) * 16 + (y \div 16) \in 0 .. 63
      /\ (y % 16) * 4 + (z \div 64) \in 0 .. 63
      /\ z % 64 \in 0 .. 63
      /\ Bytes(<<x \div 4, (x % 4) * 16 + (y \div 16), (y % 16) * 4 + (z \div 64), z % 64>>)
           = <<x, y, z>>
  <2>1. PICK hx \in 0 .. 63, lx \in 0 .. 3 : x \div 4 = hx /\ x % 4 = lx /\ x = 4 * hx + lx
    BY <1>2, SplitByFour
  <2>2. PICK hy \in 0 .. 15, ly \in 0 .. 15 : y \div 16 = hy /\ y % 16 = ly /\ y = 16 * hy + ly
    BY <1>2, SplitBySixteen
  <2>3. PICK hz \in 0 .. 3, lz \in 0 .. 63 : z \div 64 = hz /\ z % 64 = lz /\ z = 64 * hz + lz
    BY <1>2, SplitBySixtyFour
  <2>4. /\ hx * 4 + ((lx * 16 + hy) \div 16) = x
        /\ (lx * 16 + hy) * 16 + ((ly * 4 + hz) \div 4) = 256 * lx + y
        /\ (ly * 4 + hz) * 64 + lz = 256 * ly + z
    <3>1. (lx * 16 + hy) \div 16 = lx /\ (ly * 4 + hz) \div 4 = ly
      OBVIOUS
    <3> QED
      BY <2>1, <2>2, <2>3, <3>1
  <2>5. x % 256 = x /\ (256 * lx + y) % 256 = y /\ (256 * ly + z) % 256 = z
    <3>1. lx \in 0 .. 15 /\ ly \in 0 .. 15
      BY <2>1, <2>2
    <3>2. x % 256 = x
      <4>1. x \in 0 .. 255
        BY <1>2
      <4> QED
        BY <4>1, Z3
    <3>3. (256 * lx + y) % 256 = y
      <4>1. lx \in 0 .. 15 /\ y \in 0 .. 255
        BY <1>2, <3>1
      <4> QED
        BY <4>1, Z3
    <3>4. (256 * ly + z) % 256 = z
      <4>1. ly \in 0 .. 15 /\ z \in 0 .. 255
        BY <1>2, <3>1
      <4> QED
        BY <4>1, Z3
    <3> QED
      BY <3>2, <3>3, <3>4
  <2>6. Bytes(<<hx, lx * 16 + hy, ly * 4 + hz, lz>>) = <<x, y, z>>
    <3>1. /\ (hx * 4 + ((lx * 16 + hy) \div 16)) % 256 = x
          /\ ((lx * 16 + hy) * 16 + ((ly * 4 + hz) \div 4)) % 256 = y
          /\ ((ly * 4 + hz) * 64 + lz) % 256 = z
      BY <2>4, <2>5
    <3> QED
      BY <3>1 DEF Bytes
  <2>7. hx \in 0 .. 63 /\ lx * 16 + hy \in 0 .. 63 /\ ly * 4 + hz \in 0 .. 63 /\ lz \in 0 .. 63
    OBVIOUS
  <2> QED
    BY <2>1, <2>2, <2>3, <2>6, <2>7
<1>6. \A i \in 0 .. 3 : SextetAt(bytes, b, i) \in 0 .. 63
  <2>1. /\ SextetAt(bytes, b, 0) \in 0 .. 63 /\ SextetAt(bytes, b, 1) \in 0 .. 63
        /\ SextetAt(bytes, b, 2) \in 0 .. 63 /\ SextetAt(bytes, b, 3) \in 0 .. 63
    BY <1>3, <1>5, Zenon
  <2> QED
    BY <1>4, <2>1
<1> QED
  BY <1>2, <1>3, <1>5, <1>6, Zenon

LEMMA SymbolsOfBytes ==
  ASSUME NEW bytes \in Seq(0 .. 255), NEW b \in Nat, NEW i \in 0 .. 3
  PROVE  /\ SymbolAt(bytes, b, i) \in Alphabet
         /\ dtable(SymbolAt(bytes, b, i)) = SextetAt(bytes, b, i)
         /\ SymbolAt(bytes, b, i) = Equals <=> i > 1 /\ b + i > Len(bytes)
<1>1. SextetAt(bytes, b, i) \in 0 .. 63
  BY SextetsOfBytes
<1>2. CASE i > 1 /\ b + i > Len(bytes)
  <2>1. SymbolAt(bytes, b, i) = Equals /\ dtable(Equals) = 0
    BY <1>2 DEF SymbolAt, dtable
  <2>2. CASE i = 2
    <3>1. ByteOf(bytes, b + 2) = 0 /\ ByteOf(bytes, b + 3) = 0
      BY <1>2, <2>2 DEF ByteOf
    <3>2. SextetAt(bytes, b, 2) = (0 % 16) * 4 + (0 \div 64)
      BY <3>1 DEF SextetAt
    <3>3. SextetAt(bytes, b, i) = 0
      BY <2>2, <3>2
    <3> QED
      BY <1>2, <2>1, <3>3, OtherCharacters
  <2>3. CASE i = 3
    <3>1. ByteOf(bytes, b + 3) = 0
      BY <1>2, <2>3 DEF ByteOf
    <3>2. SextetAt(bytes, b, 3) = 0 % 64
      BY <3>1 DEF SextetAt
    <3>3. SextetAt(bytes, b, i) = 0
      BY <2>3, <3>2
    <3> QED
      BY <1>2, <2>1, <3>3, OtherCharacters
  <2> QED
    BY <1>2, <2>2, <2>3
<1>3. CASE ~(i > 1 /\ b + i > Len(bytes))
  <2>1. SymbolAt(bytes, b, i) = base64_table[SextetAt(bytes, b, i)]
    BY <1>3 DEF SymbolAt
  <2>2. PICK v \in 0 .. 63 : v = SextetAt(bytes, b, i)
    BY <1>1
  <2>3. /\ base64_table[v] \in Alphabet /\ dtable(base64_table[v]) = v
        /\ base64_table[v] # Equals
    BY TableOfLetters, LettersAreRead
  <2> QED
    BY <1>3, <2>1, <2>2, <2>3
<1> QED
  BY <1>2, <1>3

LEMMA PlaceOfSymbol ==
  ASSUME NEW b \in Nat, NEW i \in 0 .. 3
  PROVE  /\ (4 * b + i) \div 4 = b /\ (4 * b + i) % 4 = i
         /\ \A bytes : Symbol(bytes, (4 * b + i) + 1) = SymbolAt(bytes, 3 * b, i)
<1>1. (4 * b + i) \div 4 = b /\ (4 * b + i) % 4 = i /\ 4 * b + i \in Nat
  BY Z3
<1>2. PICK q \in Nat : q = 4 * b + i
  BY <1>1
<1>3. (q + 1) - 1 = q
  OBVIOUS
<1>4. \A bytes : Symbol(bytes, q + 1) = SymbolAt(bytes, 3 * b, i)
  BY <1>1, <1>2, <1>3 DEF Symbol
<1> QED
  BY <1>1, <1>2, <1>4

-----------------------------------------------------------------------------
(* A text of base64 grows.                                                 *)

LEMMA OneCharacterMore ==
  ASSUME NEW text \in Seq(0 .. 255), NEW bytes, NEW q \in Nat, NEW cnt, Counted(cnt, text, bytes, q),
         NEW c \in 0 .. 255, NEW p \in Nat,
         \/ c \in Alphabet /\ p = q + 1 /\ c = Symbol(bytes, p)
         \/ c = Newline /\ p = q
  PROVE  /\ Append(text, c) \in Seq(0 .. 255)
         /\ \E more : Counted(more, Append(text, c), bytes, p)
<1> DEFINE L == Len(text)
           longer == Append(text, c)
           more == [i \in 0 .. L + 1 |-> IF i = L + 1 THEN p ELSE cnt[i]]
<1>1. /\ longer \in Seq(0 .. 255) /\ Len(longer) = L + 1 /\ L \in Nat
      /\ longer[L + 1] = c /\ \A i \in 1 .. L : longer[i] = text[i]
  OBVIOUS
<1>2. /\ cnt \in [0 .. L -> Nat] /\ cnt[0] = 0 /\ cnt[L] = q
      /\ \A i \in 1 .. L :
           \/ text[i] \in Alphabet /\ cnt[i] = cnt[i - 1] + 1 /\ text[i] = Symbol(bytes, cnt[i])
           \/ text[i] = Newline /\ cnt[i] = cnt[i - 1]
  BY DEF Counted
<1> HIDE DEF longer, L
<1>3. /\ more \in [0 .. L + 1 -> Nat] /\ more[0] = 0 /\ more[L + 1] = p
      /\ \A i \in 0 .. L : more[i] = cnt[i]
  BY <1>1, <1>2
<1> HIDE DEF more
<1>4. ASSUME NEW i \in 1 .. L + 1
      PROVE  \/ longer[i] \in Alphabet /\ more[i] = more[i - 1] + 1 /\ longer[i] = Symbol(bytes, more[i])
             \/ longer[i] = Newline /\ more[i] = more[i - 1]
  <2>1. CASE i = L + 1
    <3>1. more[i] = p /\ more[i - 1] = q /\ longer[i] = c
      BY <1>1, <1>2, <1>3, <2>1
    <3> QED
      BY <3>1
  <2>2. CASE i \in 1 .. L
    <3>1. more[i] = cnt[i] /\ more[i - 1] = cnt[i - 1] /\ longer[i] = text[i]
      <4>1. i \in 0 .. L /\ i - 1 \in 0 .. L
        BY <1>1, <2>2
      <4> QED
        BY <1>1, <1>3, <2>2, <4>1
    <3> QED
      BY <1>2, <2>2, <3>1
  <2> QED
    BY <1>1, <2>1, <2>2
<1>5. Counted(more, longer, bytes, p)
  BY <1>1, <1>3, <1>4 DEF Counted
<1> QED
  BY <1>1, <1>5 DEF longer

JoinedOneByOne(r, a, b, c, d) == r \o <<a, b, c, d>> = Append(Append(Append(Append(r, a), b), c), d)

LEMMA FourAppended ==
  ASSUME NEW r \in Seq(0 .. 255), NEW a \in 0 .. 255, NEW b \in 0 .. 255,
         NEW c \in 0 .. 255, NEW d \in 0 .. 255
  PROVE  JoinedOneByOne(r, a, b, c, d)
  BY DEF JoinedOneByOne

\* Some letters of the alphabet, behind b blocks.
IsCoded(text, bytes, q) == text \in Seq(0 .. 255) /\ \E cnt : Counted(cnt, text, bytes, q)

LEMMA NothingIsCoded == \A bytes : IsCoded(<<>>, bytes, 0)
<1> SUFFICES ASSUME NEW bytes PROVE IsCoded(<<>>, bytes, 0)
  OBVIOUS
<1>1. Counted([i \in 0 .. 0 |-> 0], <<>>, bytes, 0)
  BY DEF Counted
<1> QED
  BY <1>1 DEF IsCoded

LEMMA OneBlockMore ==
  ASSUME NEW bytes \in Seq(0 .. 255), NEW b \in Nat, NEW text, IsCoded(text, bytes, 4 * b),
         NEW block, block = <<SymbolAt(bytes, 3 * b, 0), SymbolAt(bytes, 3 * b, 1),
                              SymbolAt(bytes, 3 * b, 2), SymbolAt(bytes, 3 * b, 3)>>
  PROVE  IsCoded(text \o block, bytes, 4 * (b + 1))
<1>1. ASSUME NEW t, NEW i \in 0 .. 3, IsCoded(t, bytes, 4 * b + i)
      PROVE  IsCoded(Append(t, SymbolAt(bytes, 3 * b, i)), bytes, (4 * b + i) + 1)
  <2>1. PICK q \in Nat, p \in Nat : q = 4 * b + i /\ p = q + 1
    OBVIOUS
  <2>2. PICK cnt : Counted(cnt, t, bytes, q)
    BY <1>1, <2>1 DEF IsCoded
  <2>3. PICK c \in 0 .. 255 : c = SymbolAt(bytes, 3 * b, i) /\ c \in Alphabet
    <3>1. 3 * b \in Nat
      OBVIOUS
    <3> QED
      <4>1. SymbolAt(bytes, 3 * b, i) \in Alphabet
        BY <3>1, SymbolsOfBytes
      <4>2. SymbolAt(bytes, 3 * b, i) \in 0 .. 255
        BY <4>1, AlphabetOfBytes
      <4> QED
        BY <4>1, <4>2
  <2>4. c = Symbol(bytes, p)
    BY <2>1, <2>3, PlaceOfSymbol
  <2>5. t \in Seq(0 .. 255)
    BY <1>1 DEF IsCoded
  <2>6. IsCoded(Append(t, c), bytes, p)
    <3>1. c \in Alphabet /\ p = q + 1 /\ c = Symbol(bytes, p)
      BY <2>1, <2>3, <2>4
    <3>2. /\ Append(t, c) \in Seq(0 .. 255)
          /\ \E more : Counted(more, Append(t, c), bytes, p)
      BY <2>1, <2>2, <2>3, <2>5, <3>1, OneCharacterMore
    <3> QED
      BY <3>2 DEF IsCoded
  <2> QED
    BY <2>1, <2>3, <2>6
<1>2. PICK s0 \in 0 .. 255, s1 \in 0 .. 255, s2 \in 0 .. 255, s3 \in 0 .. 255 :
        /\ s0 = SymbolAt(bytes, 3 * b, 0) /\ s1 = SymbolAt(bytes, 3 * b, 1)
        /\ s2 = SymbolAt(bytes, 3 * b, 2) /\ s3 = SymbolAt(bytes, 3 * b, 3)
  <2>1. 3 * b \in Nat
    OBVIOUS
  <2>2. \A i \in 0 .. 3 : SymbolAt(bytes, 3 * b, i) \in 0 .. 255
    BY <2>1, SymbolsOfBytes, AlphabetOfBytes
  <2>3. /\ SymbolAt(bytes, 3 * b, 0) \in 0 .. 255 /\ SymbolAt(bytes, 3 * b, 1) \in 0 .. 255
        /\ SymbolAt(bytes, 3 * b, 2) \in 0 .. 255 /\ SymbolAt(bytes, 3 * b, 3) \in 0 .. 255
    BY <2>2
  <2> QED
    BY <2>3, Zenon
<1>3. text \in Seq(0 .. 255)
  BY DEF IsCoded
<1>4. text \o <<s0, s1, s2, s3>> = Append(Append(Append(Append(text, s0), s1), s2), s3)
  <2>1. JoinedOneByOne(text, s0, s1, s2, s3)
    BY <1>2, <1>3, FourAppended
  <2> QED
    BY <2>1 DEF JoinedOneByOne
<1>5. IsCoded(Append(text, s0), bytes, 4 * b + 1)
  <2>1. 4 * b + 0 = 4 * b
    OBVIOUS
  <2>2. PICK i \in 0 .. 3 : i = 0
    OBVIOUS
  <2>3. IsCoded(text, bytes, 4 * b + i) /\ 4 * b + i = 4 * b
    BY <2>1, <2>2
  <2> QED
    BY <1>1, <1>2, <2>2, <2>3
<1>6. IsCoded(Append(Append(text, s0), s1), bytes, 4 * b + 2)
  <2>1. (4 * b + 1) + 1 = 4 * b + 2
    OBVIOUS
  <2> QED
    BY <1>1, <1>2, <1>5, <2>1
<1>7. IsCoded(Append(Append(Append(text, s0), s1), s2), bytes, 4 * b + 3)
  <2>1. (4 * b + 2) + 1 = 4 * b + 3
    OBVIOUS
  <2> QED
    BY <1>1, <1>2, <1>6, <2>1
<1>8. IsCoded(Append(Append(Append(Append(text, s0), s1), s2), s3), bytes, 4 * (b + 1))
  <2>1. (4 * b + 3) + 1 = 4 * (b + 1)
    OBVIOUS
  <2> QED
    BY <1>1, <1>2, <1>7, <2>1
<1> QED
  BY <1>2, <1>4, <1>8

LEMMA LineFeedMore ==
  ASSUME NEW bytes, NEW q \in Nat, NEW text, IsCoded(text, bytes, q)
  PROVE  IsCoded(text \o <<Newline>>, bytes, q)
<1>1. PICK cnt : Counted(cnt, text, bytes, q)
  BY DEF IsCoded
<1>2. text \in Seq(0 .. 255) /\ Newline \in 0 .. 255
  BY DEF IsCoded, Newline
<1>3. IsCoded(Append(text, Newline), bytes, q)
  BY <1>1, <1>2, OneCharacterMore DEF IsCoded
<1>4. Append(text, Newline) = text \o <<Newline>>
  BY <1>2
<1> QED
  BY <1>3, <1>4

-----------------------------------------------------------------------------
(* base64_encode                                                           *)

Base64Text ==
  fn = Base64Encoder =>
    /\ route \in {"raw", "url"} /\ input \in Seq(0 .. 255) /\ input = origin
    /\ at \in {"write", "return"}
    /\ at = "write" => \E b \in Nat : /\ cur = 3 * b + 1 /\ 3 * b <= Len(input)
                                      /\ IsCoded(out, input, 4 * b)
    /\ at = "return" => IsCoded(out, input, 4 * Groups(Len(input)))

LEMMA Base64TextBegins ==
  ASSUME NEW x \in Seq(0 .. 255), CallBase64Encode(x), route' \in {"raw", "url"}, x = origin'
  PROVE  Base64Text'
<1>1. fn' = Base64Encoder /\ at' = "write" /\ input' = x /\ cur' = 1 /\ out' = <<>>
  BY DEF CallBase64Encode
<1>2. PICK b \in Nat : b = 0
  OBVIOUS
<1>3. cur' = 3 * b + 1 /\ 3 * b <= Len(input') /\ 4 * b = 0
  BY <1>1, <1>2
<1>4. IsCoded(out', input', 4 * b)
  BY <1>1, <1>3, NothingIsCoded
<1> QED
  BY <1>1, <1>3, <1>4 DEF Base64Text

LEMMA BlockOfInput ==
  ASSUME NEW b \in Nat, cur = 3 * b + 1
  PROVE  /\ First = base64_table[SextetAt(input, 3 * b, 0)]
         /\ Second = base64_table[SextetAt(input, 3 * b, 1)]
         /\ Third = base64_table[SextetAt(input, 3 * b, 2)]
         /\ Fourth = base64_table[SextetAt(input, 3 * b, 3)]
<1>1. cur + 1 = 3 * b + 2 /\ cur + 2 = 3 * b + 3
  OBVIOUS
<1>2. /\ Byte(cur) = ByteOf(input, 3 * b + 1) /\ Byte(cur + 1) = ByteOf(input, 3 * b + 2)
      /\ Byte(cur + 2) = ByteOf(input, 3 * b + 3)
  BY <1>1 DEF Byte, ByteOf
<1> QED
  BY <1>2 DEF First, Second, Third, Fourth, SextetAt

LEMMA Base64TextSteps ==
  ASSUME Base64Text, EncodeBlock \/ EncodeEnd, UNCHANGED <<route, origin>>
  PROVE  Base64Text'
<1>1. fn = Base64Encoder /\ fn' = fn /\ at = "write" /\ input' = input
  BY DEF EncodeBlock, EncodeEnd, Finished
<1>2. /\ route' \in {"raw", "url"} /\ input \in Seq(0 .. 255) /\ input = origin' /\ Len(input) \in Nat
  BY <1>1 DEF Base64Text
<1>3. PICK b \in Nat : cur = 3 * b + 1 /\ 3 * b <= Len(input) /\ IsCoded(out, input, 4 * b)
  BY <1>1 DEF Base64Text
<1>4. Remaining = Len(input) - 3 * b
  BY <1>2, <1>3 DEF Remaining
<1> DEFINE S(i) == SymbolAt(input, 3 * b, i)
<1>5. /\ S(0) = First /\ S(1) = Second
      /\ S(2) = IF Remaining < 2 THEN Equals ELSE Third
      /\ S(3) = IF Remaining < 3 THEN Equals ELSE Fourth
  BY <1>2, <1>3, <1>4, BlockOfInput DEF SymbolAt
<1>6. \A block : block = <<S(0), S(1), S(2), S(3)>> => IsCoded(out \o block, input, 4 * (b + 1))
  BY <1>2, <1>3, OneBlockMore
<1> HIDE DEF S
<1>7. CASE EncodeBlock
  <2> DEFINE full == acc + 4 >= LineLength
             block == <<First, Second, Third, Fourth>>
  <2>1. /\ Remaining >= 3 /\ at' = at /\ cur' = cur + 3
        /\ out' = out \o block \o (IF full THEN <<Newline>> ELSE <<>>)
    BY <1>7 DEF EncodeBlock
  <2>2. block = <<S(0), S(1), S(2), S(3)>>
    BY <1>2, <1>4, <1>5, <2>1
  <2>3. IsCoded(out \o block, input, 4 * (b + 1))
    BY <1>6, <2>2
  <2> HIDE DEF block, full
  <2>4. IsCoded(out', input, 4 * (b + 1))
    <3>1. CASE full
      <4>1. PICK q \in Nat : q = 4 * (b + 1)
        OBVIOUS
      <4> QED
        BY <2>1, <2>3, <3>1, <4>1, LineFeedMore
    <3>2. CASE ~full
      <4>1. (out \o block) \o <<>> = out \o block
        BY <2>3, ConcatEmptySeq DEF IsCoded
      <4> QED
        BY <2>1, <2>3, <3>2, <4>1
    <3> QED
      BY <3>1, <3>2
  <2>5. cur' = 3 * (b + 1) + 1 /\ 3 * (b + 1) <= Len(input) /\ b + 1 \in Nat
    BY <1>2, <1>3, <1>4, <2>1
  <2> QED
    BY <1>1, <1>2, <2>1, <2>4, <2>5 DEF Base64Text
<1>8. CASE EncodeEnd
  <2> DEFINE last == CASE Remaining = 0 -> <<>>
                       [] Remaining = 1 -> <<First, Second, Equals, Equals>>
                       [] Remaining = 2 -> <<First, Second, Third, Equals>>
  <2>1. Remaining < 3 /\ at' = "return" /\ out' = out \o last
    BY <1>8 DEF EncodeEnd, Finished
  <2>2. Remaining \in {0, 1, 2}
    BY <1>2, <1>3, <1>4, <2>1
  <2>3. IsCoded(out', input, 4 * Groups(Len(input)))
    <3>1. CASE Remaining = 0
      <4>1. last = <<>>
        BY <3>1
      <4>2. out \o <<>> = out
        BY <1>3, ConcatEmptySeq DEF IsCoded
      <4>3. Groups(Len(input)) = b
        BY <1>2, <1>4, <3>1 DEF Groups
      <4> HIDE DEF last
      <4> QED
        BY <1>3, <2>1, <4>1, <4>2, <4>3
    <3>2. CASE Remaining \in {1, 2}
      <4>1. last = <<S(0), S(1), S(2), S(3)>>
        BY <1>5, <3>2
      <4>2. Groups(Len(input)) = b + 1
        BY <1>2, <1>4, <3>2 DEF Groups
      <4> HIDE DEF last
      <4> QED
        BY <1>6, <2>1, <4>1, <4>2
    <3> QED
      BY <2>2, <3>1, <3>2
  <2> QED
    BY <1>1, <1>2, <2>1, <2>3 DEF Base64Text
<1> QED
  BY <1>7, <1>8

-----------------------------------------------------------------------------
(* base64_decode                                                           *)

\* b blocks are decoded, and i letters of the next.
DecodedSoFar(b, i) ==
  /\ out \in Seq(0 .. 255) /\ Len(out) = 3 * b
  /\ \A k \in 1 .. 3 * b : out[k] = ByteOf(origin, k)
  /\ i = 0 => arg.block = <<>>
  /\ i = 1 => arg.block = <<SextetAt(origin, 3 * b, 0)>>
  /\ i = 2 => arg.block = <<SextetAt(origin, 3 * b, 0), SextetAt(origin, 3 * b, 1)>>
  /\ i = 3 => /\ arg.block = <<SextetAt(origin, 3 * b, 0), SextetAt(origin, 3 * b, 1),
                               SextetAt(origin, 3 * b, 2)>>
              /\ arg.third = SymbolAt(origin, 3 * b, 2)
  /\ i = 0 /\ b > 0 => /\ arg.third = SymbolAt(origin, 3 * (b - 1), 2)
                       /\ arg.fourth = SymbolAt(origin, 3 * (b - 1), 3)

DecodingAt(cnt) ==
  /\ Counted(cnt, input, origin, 4 * Groups(Len(origin)))
  /\ at = "count" => /\ cur \in 1 .. Len(input) + 1 /\ arg = NoBlock
                     /\ counts \in Seq(Nat) /\ Len(counts) > 0 /\ Last(counts) = cnt[cur - 1]
  /\ at = "write" => /\ cur \in 1 .. Len(input) + 1
                     /\ \E b \in Nat, i \in 0 .. 3 : cnt[cur - 1] = 4 * b + i /\ DecodedSoFar(b, i)

Base64Bytes ==
  fn = Base64Decoder /\ route \in {"raw", "url"} =>
    /\ origin \in Seq(0 .. 255) /\ input \in Seq(0 .. 255)
    /\ at \in {"count", "write", "return", "failed"}
    /\ \E cnt : DecodingAt(cnt)
    /\ at = "return" => out = origin
    /\ at = "failed" => origin = <<>>

LEMMA Base64BytesBegins ==
  ASSUME NEW text, CallBase64Decode(text), EncodedAs(text, origin')
  PROVE  Base64Bytes'
<1>1. /\ fn' = Base64Decoder /\ at' = "count" /\ input' = text /\ arg' = NoBlock /\ cur' = 1
      /\ counts' = <<0>>
  BY DEF CallBase64Decode, Call
<1>2. /\ origin' \in Seq(0 .. 255) /\ text \in Seq(0 .. 255)
      /\ \E cnt : Counted(cnt, text, origin', 4 * Groups(Len(origin')))
  BY DEF EncodedAs
<1>3. PICK cnt : Counted(cnt, text, origin', 4 * Groups(Len(origin')))
  BY <1>2
<1>4. cnt[0] = 0 /\ 1 - 1 = 0
  BY <1>3 DEF Counted
<1>5. counts' \in Seq(Nat) /\ Len(counts') = 1 /\ counts'[1] = 0
  BY <1>1
<1>6. Last(counts') = cnt[cur' - 1] /\ cur' \in 1 .. Len(input') + 1
  BY <1>1, <1>2, <1>4, <1>5 DEF Last
<1>7. DecodingAt(cnt)'
  BY <1>1, <1>3, <1>5, <1>6 DEF DecodingAt
<1> QED
  BY <1>1, <1>2, <1>7 DEF Base64Bytes

GrowsTo(block, c, longer) == Append(block, c) = longer

LEMMA Elementwise ==
  ASSUME NEW s \in Seq(0 .. 63), NEW c \in 0 .. 63, NEW longer \in Seq(0 .. 63),
         Len(longer) = Len(s) + 1, longer[Len(s) + 1] = c,
         \A k \in 1 .. Len(s) : longer[k] = s[k]
  PROVE  GrowsTo(s, c, longer)
<1> DEFINE t == Append(s, c)
<1>1. /\ t \in Seq(0 .. 63) /\ Len(t) = Len(s) + 1 /\ t[Len(s) + 1] = c
      /\ \A k \in 1 .. Len(s) : t[k] = s[k]
  BY AppendProperties
<1> HIDE DEF t
<1>2. \A k \in 1 .. Len(s) + 1 : t[k] = longer[k]
  BY <1>1
<1>3. t = longer
  BY <1>1, <1>2, SeqEqual
<1> QED
  BY <1>3 DEF GrowsTo, t

LEMMA SextetAppended ==
  ASSUME NEW p \in 0 .. 63, NEW q \in 0 .. 63, NEW r \in 0 .. 63, NEW s \in 0 .. 63
  PROVE  /\ GrowsTo(<<>>, p, <<p>>) /\ GrowsTo(<<p>>, q, <<p, q>>)
         /\ GrowsTo(<<p, q>>, r, <<p, q, r>>) /\ GrowsTo(<<p, q, r>>, s, <<p, q, r, s>>)
         /\ Len(<<p>>) = 1 /\ Len(<<p, q>>) = 2 /\ Len(<<p, q, r>>) = 3 /\ Len(<<p, q, r, s>>) = 4
<1> DEFINE one == <<p>>  two == <<p, q>>  three == <<p, q, r>>  four == <<p, q, r, s>>
<1>1. one \in Seq(0 .. 63) /\ Len(one) = 1 /\ one[1] = p
  OBVIOUS
<1>2. two \in Seq(0 .. 63) /\ Len(two) = 2 /\ two[1] = p /\ two[2] = q
  OBVIOUS
<1>3. three \in Seq(0 .. 63) /\ Len(three) = 3 /\ three[1] = p /\ three[2] = q /\ three[3] = r
  OBVIOUS
<1>4. /\ four \in Seq(0 .. 63) /\ Len(four) = 4
      /\ four[1] = p /\ four[2] = q /\ four[3] = r /\ four[4] = s
  OBVIOUS
<1>5. GrowsTo(<<>>, p, one)
  BY DEF GrowsTo
<1> HIDE DEF one, two, three, four
<1>6. GrowsTo(one, q, two)
  <2>1. Len(two) = Len(one) + 1 /\ two[Len(one) + 1] = q /\ \A k \in 1 .. Len(one) : two[k] = one[k]
    BY <1>1, <1>2
  <2> QED
    BY <1>1, <1>2, <2>1, Elementwise
<1>7. GrowsTo(two, r, three)
  <2>1. /\ Len(three) = Len(two) + 1 /\ three[Len(two) + 1] = r
        /\ \A k \in 1 .. Len(two) : three[k] = two[k]
    BY <1>2, <1>3
  <2> QED
    BY <1>2, <1>3, <2>1, Elementwise
<1>8. GrowsTo(three, s, four)
  <2>1. /\ Len(four) = Len(three) + 1 /\ four[Len(three) + 1] = s
        /\ \A k \in 1 .. Len(three) : four[k] = three[k]
    BY <1>3, <1>4
  <2> QED
    BY <1>3, <1>4, <2>1, Elementwise
<1> QED
  BY <1>1, <1>2, <1>3, <1>4, <1>5, <1>6, <1>7, <1>8 DEF one, two, three, four

ThreeLonger(text, longer, x, y, z) ==
  /\ longer = text \o <<x, y, z>> /\ longer \in Seq(0 .. 255) /\ Len(longer) = Len(text) + 3
  /\ \A k \in 1 .. Len(text) : longer[k] = text[k]
  /\ longer[Len(text) + 1] = x /\ longer[Len(text) + 2] = y /\ longer[Len(text) + 3] = z

LEMMA ThreeAppended ==
  ASSUME NEW text \in Seq(0 .. 255), NEW x \in 0 .. 255, NEW y \in 0 .. 255, NEW z \in 0 .. 255
  PROVE  ThreeLonger(text, text \o <<x, y, z>>, x, y, z)
  BY DEF ThreeLonger

LEMMA CharacterIsDecoded ==
  ASSUME origin \in Seq(0 .. 255), NEW b \in Nat, NEW i \in 0 .. 3, DecodedSoFar(b, i),
         DecodeCharacter, input[cur] = SymbolAt(origin, 3 * b, i), origin' = origin
  PROVE  \/ i < 3 /\ DecodedSoFar(b, i + 1)'
         \/ i = 3 /\ DecodedSoFar(b + 1, 0)'
<1> DEFINE S(k) == SextetAt(origin, 3 * b, k)
           sextets == Append(arg.block, dtable(input[cur]))
<1>1. /\ out' = IF Len(sextets) = 4 THEN out \o Bytes(sextets) ELSE out
      /\ arg' = [block  |-> IF Len(sextets) = 4 THEN <<>> ELSE sextets,
                 third  |-> IF Len(sextets) = 3 THEN input[cur] ELSE arg.third,
                 fourth |-> IF Len(sextets) = 4 THEN input[cur] ELSE arg.fourth]
  BY DEF DecodeCharacter
<1>2. dtable(input[cur]) = S(i) /\ 3 * b \in Nat
  <2>1. 3 * b \in Nat
    OBVIOUS
  <2> QED
    BY <2>1, SymbolsOfBytes
<1>3. /\ out \in Seq(0 .. 255) /\ Len(out) = 3 * b
      /\ \A k \in 1 .. 3 * b : out[k] = ByteOf(origin, k)
  BY DEF DecodedSoFar
<1>4. ASSUME NEW k \in 1 .. 3, Len(sextets) = k
      PROVE  /\ out' = out /\ arg'.block = sextets
             /\ k = 3 => arg'.third = input[cur]
  BY <1>1, <1>4
<1>5. ASSUME Len(sextets) = 4
      PROVE  /\ out' = out \o Bytes(sextets) /\ arg'.block = <<>>
             /\ arg'.third = arg.third /\ arg'.fourth = input[cur]
  BY <1>1, <1>5
<1>6. PICK s0 \in 0 .. 63, s1 \in 0 .. 63, s2 \in 0 .. 63, s3 \in 0 .. 63 :
         s0 = S(0) /\ s1 = S(1) /\ s2 = S(2) /\ s3 = S(3)
  <2>1. S(0) \in 0 .. 63 /\ S(1) \in 0 .. 63 /\ S(2) \in 0 .. 63 /\ S(3) \in 0 .. 63
    <3>1. \A k \in 0 .. 3 : S(k) \in 0 .. 63
      BY <1>2, SextetsOfBytes
    <3> HIDE DEF S
    <3> QED
      BY <3>1
  <2> HIDE DEF S
  <2> QED
    BY <2>1
<1>7. /\ GrowsTo(<<>>, s0, <<s0>>) /\ GrowsTo(<<s0>>, s1, <<s0, s1>>)
      /\ GrowsTo(<<s0, s1>>, s2, <<s0, s1, s2>>)
      /\ GrowsTo(<<s0, s1, s2>>, s3, <<s0, s1, s2, s3>>)
      /\ Len(<<s0>>) = 1 /\ Len(<<s0, s1>>) = 2 /\ Len(<<s0, s1, s2>>) = 3
      /\ Len(<<s0, s1, s2, s3>>) = 4
  BY <1>6, SextetAppended
<1>8. /\ i = 0 => arg.block = <<>>
      /\ i = 1 => arg.block = <<S(0)>>
      /\ i = 2 => arg.block = <<S(0), S(1)>>
      /\ i = 3 => arg.block = <<S(0), S(1), S(2)>>
  BY DEF DecodedSoFar
<1>9. GrowsTo(arg.block, S(i), sextets)
  BY <1>2 DEF GrowsTo
<1>10. CASE i = 0
  <2>1. sextets = <<S(0)>> /\ Len(<<S(0)>>) = 1
    <3> HIDE DEF S, sextets
    <3>1. arg.block = <<>> /\ S(i) = s0
      BY <1>10, <1>6, <1>8
    <3>2. sextets = <<s0>>
      BY <1>7, <1>9, <3>1 DEF GrowsTo
    <3> QED
      BY <1>6, <1>7, <3>2
  <2> HIDE DEF S, sextets
  <2>2. out' = out /\ arg'.block = <<S(0)>>
    BY <1>4, <2>1
  <2>3. DecodedSoFar(b, 1)'
    BY <1>3, <2>2 DEF DecodedSoFar, S
  <2> QED
    BY <1>10, <2>3
<1>11. CASE i = 1
  <2>1. sextets = <<S(0), S(1)>> /\ Len(<<S(0), S(1)>>) = 2
    <3> HIDE DEF S, sextets
    <3>1. arg.block = <<s0>> /\ S(i) = s1
      BY <1>11, <1>6, <1>8
    <3>2. sextets = <<s0, s1>>
      BY <1>7, <1>9, <3>1 DEF GrowsTo
    <3> QED
      BY <1>6, <1>7, <3>2
  <2> HIDE DEF S, sextets
  <2>2. out' = out /\ arg'.block = <<S(0), S(1)>>
    BY <1>4, <2>1
  <2>3. DecodedSoFar(b, 2)'
    BY <1>3, <2>2 DEF DecodedSoFar, S
  <2> QED
    BY <1>11, <2>3
<1>12. CASE i = 2
  <2>1. sextets = <<S(0), S(1), S(2)>> /\ Len(<<S(0), S(1), S(2)>>) = 3
    <3> HIDE DEF S, sextets
    <3>1. arg.block = <<s0, s1>> /\ S(i) = s2
      BY <1>12, <1>6, <1>8
    <3>2. sextets = <<s0, s1, s2>>
      BY <1>7, <1>9, <3>1 DEF GrowsTo
    <3> QED
      BY <1>6, <1>7, <3>2
  <2> HIDE DEF S, sextets
  <2>2. out' = out /\ arg'.block = <<S(0), S(1), S(2)>> /\ arg'.third = SymbolAt(origin, 3 * b, 2)
    BY <1>4, <1>12, <2>1
  <2>3. DecodedSoFar(b, 3)'
    BY <1>3, <2>2 DEF DecodedSoFar, S
  <2> QED
    BY <1>12, <2>3
<1>13. CASE i = 3
  <2>1. sextets = <<S(0), S(1), S(2), S(3)>> /\ Len(<<S(0), S(1), S(2), S(3)>>) = 4
    <3> HIDE DEF S, sextets
    <3>1. arg.block = <<s0, s1, s2>> /\ S(i) = s3
      BY <1>13, <1>6, <1>8
    <3>2. sextets = <<s0, s1, s2, s3>>
      BY <1>7, <1>9, <3>1 DEF GrowsTo
    <3> QED
      BY <1>6, <1>7, <3>2
  <2>2. arg.third = SymbolAt(origin, 3 * b, 2)
    BY <1>13 DEF DecodedSoFar
  <2>3. PICK x \in 0 .. 255, y \in 0 .. 255, z \in 0 .. 255 :
          /\ x = ByteOf(origin, 3 * b + 1) /\ y = ByteOf(origin, 3 * b + 2)
          /\ z = ByteOf(origin, 3 * b + 3)
    <3>1. 3 * b + 1 \in Nat \ {0} /\ 3 * b + 2 \in Nat \ {0} /\ 3 * b + 3 \in Nat \ {0}
      OBVIOUS
    <3> QED
      BY <3>1, BytesOf
  <2>4. Bytes(<<S(0), S(1), S(2), S(3)>>) = <<x, y, z>>
    BY <1>2, <2>3, SextetsOfBytes, Zenon
  <2> HIDE DEF S, sextets
  <2>5. /\ out' = out \o <<x, y, z>> /\ arg'.block = <<>>
        /\ arg'.third = SymbolAt(origin, 3 * b, 2) /\ arg'.fourth = SymbolAt(origin, 3 * b, 3)
    BY <1>5, <1>13, <2>1, <2>2, <2>4
  <2>6. /\ out' \in Seq(0 .. 255) /\ Len(out') = 3 * b + 3
        /\ \A k \in 1 .. 3 * b : out'[k] = out[k]
        /\ out'[3 * b + 1] = x /\ out'[3 * b + 2] = y /\ out'[3 * b + 3] = z
    <3>1. ThreeLonger(out, out \o <<x, y, z>>, x, y, z)
      BY <1>3, <2>3, ThreeAppended
    <3>2. ThreeLonger(out, out', x, y, z)
      BY <2>5, <3>1
    <3> QED
      BY <1>3, <3>2 DEF ThreeLonger
  <2>7. \A k \in 1 .. 3 * b + 3 : out'[k] = ByteOf(origin, k)
    <3> SUFFICES ASSUME NEW k \in 1 .. 3 * b + 3 PROVE out'[k] = ByteOf(origin, k)
      OBVIOUS
    <3>1. k \in 1 .. 3 * b \/ k = 3 * b + 1 \/ k = 3 * b + 2 \/ k = 3 * b + 3
      OBVIOUS
    <3> QED
      BY <1>3, <2>3, <2>6, <3>1
  <2>8. 3 * b + 3 = 3 * (b + 1) /\ (b + 1) - 1 = b
    OBVIOUS
  <2>9. DecodedSoFar(b + 1, 0)'
    <3>1. PICK c \in Nat : c = b + 1 /\ 3 * c = 3 * b + 3 /\ c - 1 = b
      BY <2>8
    <3>2. PICK w \in 0 .. 3 : w = 0
      OBVIOUS
    <3>3. /\ out' \in Seq(0 .. 255) /\ Len(out') = 3 * c
          /\ \A k \in 1 .. 3 * c : out'[k] = ByteOf(origin', k)
      BY <2>6, <2>7, <3>1
    <3>4. /\ arg'.third = SymbolAt(origin', 3 * (c - 1), 2)
          /\ arg'.fourth = SymbolAt(origin', 3 * (c - 1), 3)
      BY <2>5, <3>1
    <3>5. w = 0 /\ arg'.block = <<>>
      BY <2>5, <3>2
    <3>6. DecodedSoFar(c, w)'
      BY <3>3, <3>4, <3>5 DEF DecodedSoFar
    <3> QED
      BY <3>1, <3>2, <3>6
  <2> QED
    BY <1>13, <2>9
<1> QED
  BY <1>10, <1>11, <1>12, <1>13

LEMMA DecodedIsOrigin ==
  ASSUME origin \in Seq(0 .. 255), DecodedSoFar(Groups(Len(origin)), 0)
  PROVE  SubSeq(out, 1, Len(out) - Padding) = origin
<1> DEFINE N == Len(origin)
           G == Groups(N)
<1>1. /\ out \in Seq(0 .. 255) /\ Len(out) = 3 * G
      /\ \A k \in 1 .. 3 * G : out[k] = ByteOf(origin, k)
      /\ G > 0 => /\ arg.third = SymbolAt(origin, 3 * (G - 1), 2)
                  /\ arg.fourth = SymbolAt(origin, 3 * (G - 1), 3)
  BY DEF DecodedSoFar
<1>2. /\ N \in Nat /\ G \in Nat
      /\ \/ N = 0 /\ G = 0
         \/ G > 0 /\ N \in {3 * G, 3 * G - 1, 3 * G - 2}
  BY Z3 DEF Groups
<1> HIDE DEF N, G
<1>3. 3 * G - Padding = N
  <2>1. CASE G = 0
    <3>1. out = <<>>
      BY <1>1, <2>1
    <3>2. Padding = 0
      BY <3>1 DEF Padding
    <3> QED
      BY <1>2, <2>1, <3>2
  <2>2. CASE G > 0
    <3>1. out # <<>>
      BY <1>1, <1>2, <2>2
    <3>2. 3 * (G - 1) \in Nat
      BY <1>2, <2>2
    <3>3. /\ arg.third = Equals <=> 3 * (G - 1) + 2 > N
          /\ arg.fourth = Equals <=> 3 * (G - 1) + 3 > N
      <4>1. /\ SymbolAt(origin, 3 * (G - 1), 2) = Equals <=> 2 > 1 /\ 3 * (G - 1) + 2 > Len(origin)
            /\ SymbolAt(origin, 3 * (G - 1), 3) = Equals <=> 3 > 1 /\ 3 * (G - 1) + 3 > Len(origin)
        <5>1. PICK m \in Nat : m = 3 * (G - 1)
          BY <3>2
        <5>2. \A i \in 0 .. 3 : SymbolAt(origin, m, i) = Equals <=> i > 1 /\ m + i > Len(origin)
          BY SymbolsOfBytes
        <5> QED
          BY <5>1, <5>2
      <4> QED
        BY <1>1, <2>2, <4>1 DEF N
    <3>4. CASE N = 3 * G
      BY <1>2, <2>2, <3>1, <3>3, <3>4 DEF Padding
    <3>5. CASE N = 3 * G - 1
      <4>1. arg.third # Equals /\ arg.fourth = Equals
        BY <1>2, <2>2, <3>3, <3>5
      <4>2. Padding = 1
        BY <3>1, <4>1 DEF Padding
      <4> QED
        BY <1>2, <3>5, <4>2
    <3>6. CASE N = 3 * G - 2
      <4>1. arg.third = Equals
        BY <1>2, <2>2, <3>3, <3>6
      <4>2. Padding = 2
        BY <3>1, <4>1 DEF Padding
      <4> QED
        BY <1>2, <3>6, <4>2
    <3> QED
      BY <1>2, <2>2, <3>4, <3>5, <3>6
  <2> QED
    BY <1>2, <2>1, <2>2
<1>4. N <= 3 * G
  BY <1>2
<1>5. SubSeq(out, 1, N) = origin
  <2>1. PICK one \in Nat \ {0} : one = 1
    OBVIOUS
  <2>2. Stretch(SubSeq(out, one, N), out, one, N)
    <3>1. one <= N + 1 /\ N <= Len(out)
      BY <1>1, <1>2, <1>4, <2>1
    <3> QED
      BY <1>1, <1>2, <3>1, PartsOfText
  <2>3. (N + 1) - one = N /\ one - 1 = 0 /\ \A k \in Nat : k + 0 = k
    BY <1>2, <2>1
  <2> DEFINE part == SubSeq(out, one, N)
  <2> HIDE DEF part
  <2>4. /\ part \in Seq(0 .. 255) /\ Len(part) = N /\ \A k \in 1 .. N : part[k] = out[k]
    BY <2>2, <2>3 DEF Stretch, part
  <2>5. \A k \in 1 .. N : part[k] = origin[k]
    <3> SUFFICES ASSUME NEW k \in 1 .. N PROVE part[k] = origin[k]
      OBVIOUS
    <3>1. k \in 1 .. 3 * G /\ k <= N
      BY <1>2, <1>4
    <3> QED
      BY <1>1, <2>4, <3>1 DEF ByteOf, N
  <2>6. part = origin
    BY <2>4, <2>5, SeqEqual DEF N
  <2> QED
    BY <2>1, <2>6 DEF part
<1> QED
  BY <1>1, <1>3, <1>5

LEMMA Base64BytesSteps ==
  ASSUME Base64Bytes, fn = Base64Decoder, route \in {"raw", "url"},
         \/ CountCharacter \/ DecodeFails \/ ReserveDecoded
         \/ SkipCharacter \/ DecodeCharacter \/ DecodeEnd,
         UNCHANGED <<route, origin>>
  PROVE  Base64Bytes'
<1>1. fn' = fn /\ input' = input
  BY DEF CountCharacter, DecodeFails, ReserveDecoded, SkipCharacter, DecodeCharacter, DecodeEnd,
     InLoop, AfterLoop, CountOne, WriteOne, Reserve, Finished
<1>2. /\ origin' \in Seq(0 .. 255) /\ input' \in Seq(0 .. 255)
      /\ origin \in Seq(0 .. 255) /\ input \in Seq(0 .. 255) /\ Len(input) \in Nat
  BY <1>1 DEF Base64Bytes
<1>3. PICK cnt : DecodingAt(cnt)
  BY DEF Base64Bytes
<1> DEFINE total == 4 * Groups(Len(origin))
<1>4. /\ Counted(cnt, input, origin, total) /\ Counted(cnt, input', origin', 4 * Groups(Len(origin')))
  BY <1>1, <1>3 DEF DecodingAt
<1>5. /\ cnt \in [0 .. Len(input) -> Nat] /\ cnt[0] = 0 /\ cnt[Len(input)] = total
      /\ \A i \in 1 .. Len(input) :
           \/ input[i] \in Alphabet /\ cnt[i] = cnt[i - 1] + 1 /\ input[i] = Symbol(origin, cnt[i])
           \/ input[i] = Newline /\ cnt[i] = cnt[i - 1]
  BY <1>4 DEF Counted
<1>6. Groups(Len(origin)) \in Nat /\ (Groups(Len(origin)) = 0 => origin = <<>>)
  <2>1. PICK n \in Nat : n = Len(origin)
    BY <1>2
  <2>2. (n + 2) \div 3 \in Nat /\ ((n + 2) \div 3 = 0 => n = 0)
    BY Z3
  <2> QED
    BY <1>2, <2>1, <2>2 DEF Groups
<1> HIDE DEF total
<1>7. ASSUME at = "count"
      PROVE  /\ cur \in 1 .. Len(input) + 1 /\ arg = NoBlock
             /\ counts \in Seq(Nat) /\ Len(counts) > 0 /\ Last(counts) = cnt[cur - 1]
  BY <1>3, <1>7 DEF DecodingAt
<1>8. CASE CountCharacter
  <2> DEFINE n == IF input[cur] \in Alphabet THEN 1 ELSE 0
  <2>1. /\ at = "count" /\ at' = at /\ cur <= Len(input) /\ cur' = cur + 1 /\ arg' = arg
        /\ counts' = Append(counts, Last(counts) + n)
    BY <1>8 DEF CountCharacter, InLoop, CountOne
  <2>2. cur \in 1 .. Len(input) /\ cur' - 1 = cur /\ cur' \in 1 .. Len(input') + 1
    BY <1>1, <1>2, <1>7, <2>1
  <2>3. cnt[cur] = cnt[cur - 1] + n
    <3>1. PICK b \in 0 .. Len(input) : b = cur - 1
      BY <2>2
    <3>2. cnt[b] \in Nat
      BY <1>5
    <3> QED
      BY <1>5, <2>2, <3>1, <3>2, OtherCharacters
  <2>4. counts \in Seq(Nat) /\ Last(counts) + n = cnt[cur] /\ cnt[cur] \in Nat
    <3>1. cur \in 0 .. Len(input)
      BY <1>2, <2>2
    <3>2. cnt[cur] \in Nat
      BY <1>5, <3>1
    <3>3. counts \in Seq(Nat) /\ Last(counts) = cnt[cur - 1]
      BY <1>7, <2>1
    <3> HIDE DEF n
    <3> QED
      BY <2>3, <3>2, <3>3
  <2> HIDE DEF n
  <2>5. counts' \in Seq(Nat) /\ Len(counts') > 0 /\ Last(counts') = cnt[cur' - 1]
    <3>1. PICK c \in Nat : c = Last(counts) + n /\ c = cnt[cur]
      BY <2>4
    <3>2. counts' = Append(counts, c)
      BY <2>1, <3>1
    <3>3. counts \in Seq(Nat) /\ Len(counts) \in Nat
      BY <2>4
    <3>4. /\ Append(counts, c) \in Seq(Nat) /\ Len(Append(counts, c)) = Len(counts) + 1
          /\ Append(counts, c)[Len(counts) + 1] = c
      BY <3>1, <3>3, AppendProperties
    <3>5. Last(counts') = c /\ Len(counts') > 0 /\ counts' \in Seq(Nat)
      BY <3>2, <3>3, <3>4 DEF Last
    <3> QED
      BY <2>2, <3>1, <3>5
  <2>6. DecodingAt(cnt)'
    BY <1>4, <1>7, <2>1, <2>2, <2>5 DEF DecodingAt
  <2> QED
    BY <1>1, <1>2, <2>1, <2>6 DEF Base64Bytes
<1>9. ASSUME AfterLoop(Base64Decoder, "count")
      PROVE  at = "count" /\ Last(counts) = total
  <2>1. at = "count" /\ cur = Len(input) + 1
    BY <1>9 DEF AfterLoop
  <2>2. cur - 1 = Len(input)
    BY <1>2, <2>1
  <2> QED
    BY <1>5, <1>7, <2>1, <2>2
<1>10. CASE DecodeFails
  <2>1. /\ Last(counts) % 4 # 0 \/ Last(counts) = 0
        /\ at = "count" /\ Last(counts) = total /\ at' = "failed"
    BY <1>9, <1>10 DEF DecodeFails
  <2>2. total % 4 = 0
    BY <1>6, Z3 DEF total
  <2>3. origin = <<>>
    BY <1>6, <2>1, <2>2 DEF total
  <2>4. DecodingAt(cnt)'
    BY <1>4, <2>1 DEF DecodingAt
  <2> QED
    BY <1>1, <1>2, <2>1, <2>3, <2>4 DEF Base64Bytes
<1>11. CASE ReserveDecoded
  <2>1. at = "count" /\ at' = "write" /\ cur' = 1 /\ out' = <<>> /\ arg' = arg
    BY <1>9, <1>11 DEF ReserveDecoded, Reserve
  <2>2. PICK b \in Nat, i \in 0 .. 3 : b = 0 /\ i = 0
    OBVIOUS
  <2>3. DecodedSoFar(b, i)'
    <3>1. arg'.block = <<>>
      BY <1>7, <2>1 DEF NoBlock
    <3>2. out' \in Seq(0 .. 255) /\ Len(out') = 3 * b /\ 1 .. 3 * b = {}
      BY <2>1, <2>2
    <3> QED
      BY <2>2, <3>1, <3>2 DEF DecodedSoFar
  <2>4. cnt[cur' - 1] = 4 * b + i /\ cur' \in 1 .. Len(input') + 1
    BY <1>1, <1>2, <1>5, <2>1, <2>2
  <2>5. \E c \in Nat, k \in 0 .. 3 : cnt[cur' - 1] = 4 * c + k /\ DecodedSoFar(c, k)'
    BY <2>3, <2>4
  <2>6. DecodingAt(cnt)'
    BY <1>4, <2>1, <2>4, <2>5 DEF DecodingAt
  <2> QED
    BY <1>1, <1>2, <2>1, <2>6 DEF Base64Bytes
<1>12. ASSUME at = "write"
       PROVE  /\ cur \in 1 .. Len(input) + 1
              /\ \E b \in Nat, i \in 0 .. 3 : cnt[cur - 1] = 4 * b + i /\ DecodedSoFar(b, i)
  BY <1>3, <1>12 DEF DecodingAt
<1>13. ASSUME at = "write", at' = at, cur' = cur + 1, cur <= Len(input),
              \E b \in Nat, i \in 0 .. 3 : cnt[cur] = 4 * b + i /\ DecodedSoFar(b, i)'
       PROVE  Base64Bytes'
  <2>1. cur' - 1 = cur /\ cur' \in 1 .. Len(input') + 1
    BY <1>1, <1>2, <1>12, <1>13
  <2>2. \E b \in Nat, i \in 0 .. 3 : cnt[cur' - 1] = 4 * b + i /\ DecodedSoFar(b, i)'
    BY <1>13, <2>1
  <2>3. DecodingAt(cnt)'
    BY <1>4, <1>13, <2>1, <2>2 DEF DecodingAt
  <2> QED
    BY <1>1, <1>2, <1>13, <2>3 DEF Base64Bytes
<1>14. CASE SkipCharacter
  <2>1. /\ at = "write" /\ at' = at /\ cur <= Len(input) /\ cur' = cur + 1
        /\ input[cur] \notin Alphabet /\ out' = out \o <<>> /\ arg' = arg
    BY <1>14 DEF SkipCharacter, InLoop, WriteOne
  <2>2. PICK b \in Nat, i \in 0 .. 3 : cnt[cur - 1] = 4 * b + i /\ DecodedSoFar(b, i)
    BY <1>12, <2>1
  <2>3. cnt[cur] = cnt[cur - 1]
    BY <1>2, <1>5, <1>12, <2>1
  <2>4. out' = out
    BY <2>1, <2>2, ConcatEmptySeq DEF DecodedSoFar
  <2>5. DecodedSoFar(b, i)'
    BY <2>1, <2>2, <2>4 DEF DecodedSoFar
  <2> QED
    BY <1>13, <2>1, <2>2, <2>3, <2>5
<1>15. CASE DecodeCharacter
  <2>1. /\ at = "write" /\ at' = at /\ cur <= Len(input) /\ cur' = cur + 1
        /\ input[cur] \in Alphabet
    BY <1>15 DEF DecodeCharacter, InLoop
  <2>2. PICK b \in Nat, i \in 0 .. 3 : cnt[cur - 1] = 4 * b + i /\ DecodedSoFar(b, i)
    BY <1>12, <2>1
  <2>3. cnt[cur] = cnt[cur - 1] + 1 /\ input[cur] = Symbol(origin, cnt[cur])
    <3>1. cur \in 1 .. Len(input)
      BY <1>2, <1>12, <2>1
    <3>2. input[cur] # Newline
      BY <2>1, OtherCharacters
    <3> QED
      BY <1>5, <3>1, <3>2
  <2>4. input[cur] = SymbolAt(origin, 3 * b, i)
    BY <2>2, <2>3, PlaceOfSymbol
  <2>5. \/ i < 3 /\ DecodedSoFar(b, i + 1)'
        \/ i = 3 /\ DecodedSoFar(b + 1, 0)'
    BY <1>2, <1>15, <2>2, <2>4, CharacterIsDecoded
  <2>6. CASE i < 3 /\ DecodedSoFar(b, i + 1)'
    <3>1. cnt[cur] = 4 * b + (i + 1) /\ i + 1 \in 0 .. 3
      BY <2>2, <2>3, <2>6
    <3> QED
      BY <1>13, <2>1, <2>6, <3>1
  <2>7. CASE i = 3 /\ DecodedSoFar(b + 1, 0)'
    <3>1. PICK z \in 0 .. 3 : z = 0
      OBVIOUS
    <3>2. cnt[cur] = 4 * (b + 1) + z /\ b + 1 \in Nat /\ DecodedSoFar(b + 1, z)'
      BY <2>2, <2>3, <2>7, <3>1
    <3> QED
      BY <1>13, <2>1, <3>1, <3>2
  <2> QED
    BY <2>5, <2>6, <2>7
<1>16. CASE DecodeEnd
  <2>1. /\ at = "write" /\ cur = Len(input) + 1 /\ at' = "return"
        /\ out' = SubSeq(out, 1, Len(out) - Padding)
    BY <1>16 DEF DecodeEnd, AfterLoop, Finished
  <2>2. PICK b \in Nat, i \in 0 .. 3 : cnt[cur - 1] = 4 * b + i /\ DecodedSoFar(b, i)
    BY <1>12, <2>1
  <2>3. cur - 1 = Len(input)
    BY <1>2, <2>1
  <2>4. 4 * b + i = 4 * Groups(Len(origin))
    BY <1>5, <2>2, <2>3 DEF total
  <2>5. b = Groups(Len(origin)) /\ i = 0
    <3>1. PICK g \in Nat : g = Groups(Len(origin))
      BY <1>6
    <3>2. 4 * b + i = 4 * g
      BY <2>4, <3>1
    <3> QED
      BY <3>1, <3>2
  <2>6. DecodedSoFar(Groups(Len(origin)), 0)
    BY <2>2, <2>5
  <2>7. out' = origin
    BY <1>2, <2>1, <2>6, DecodedIsOrigin
  <2>8. DecodingAt(cnt)'
    BY <1>4, <2>1 DEF DecodingAt
  <2> QED
    BY <1>1, <1>2, <2>1, <2>7, <2>8 DEF Base64Bytes
<1> QED
  BY <1>8, <1>10, <1>11, <1>14, <1>15, <1>16

-----------------------------------------------------------------------------
(* base64url                                                               *)

LEMMA OneCharacterForAnother ==
  ASSUME NEW a, NEW b, NEW x, NEW y, a # b, NEW text \in Seq(0 .. 255)
  PROVE  /\ Len(Chartr(<<a, b>>, <<x, y>>, text)) = Len(text)
         /\ \A k \in 1 .. Len(text) :
              Chartr(<<a, b>>, <<x, y>>, text)[k] =
                IF text[k] = a THEN x ELSE IF text[k] = b THEN y ELSE text[k]
<1> DEFINE old == <<a, b>>
           new == <<x, y>>
           There(c) == IF \E j \in DOMAIN old : old[j] = c
                       THEN new[CHOOSE j \in DOMAIN old : old[j] = c] ELSE c
<1>1. /\ DOMAIN old = {1, 2} /\ old[1] = a /\ old[2] = b /\ new[1] = x /\ new[2] = y
  BY Z3
<1>2. ASSUME NEW c
      PROVE  There(c) = IF c = a THEN x ELSE IF c = b THEN y ELSE c
  <2> HIDE DEF old, new
  <2>1. CASE c = a
    <3>1. (CHOOSE j \in DOMAIN old : old[j] = c) = 1
      BY <1>1, <2>1
    <3> QED
      BY <1>1, <2>1, <3>1
  <2>2. CASE c # a /\ c = b
    <3>1. (CHOOSE j \in DOMAIN old : old[j] = c) = 2
      BY <1>1, <2>2
    <3> QED
      BY <1>1, <2>2, <3>1
  <2>3. CASE c # a /\ c # b
    BY <1>1, <2>3
  <2> QED
    BY <2>1, <2>2, <2>3
<1>3. Chartr(old, new, text) = [k \in 1 .. Len(text) |-> There(text[k])]
  BY DEF Chartr
<1> HIDE DEF There, old, new
<1>4. Len(Chartr(old, new, text)) = Len(text)
  <2>1. Len(text) \in Nat
    OBVIOUS
  <2> QED
    BY <1>3, <2>1
<1>5. \A k \in 1 .. Len(text) : Chartr(old, new, text)[k] = There(text[k])
  BY <1>3
<1> QED
  BY <1>2, <1>4, <1>5 DEF old, new

\* The first m characters of text.
Front(part, text, m) ==
  part \in Seq(0 .. 255) /\ Len(part) = m /\ \A k \in 1 .. m : part[k] = text[k]

\* text without up to two characters of padding.
Trimmed(part, text) ==
  \E e \in 0 .. 2 : /\ e <= Len(text) /\ Front(part, text, Len(text) - e)
                    /\ \A k \in 1 .. Len(text) : k > Len(text) - e => text[k] = Equals

LEMMA PaddingIsTrimmed ==
  ASSUME NEW text \in Seq(0 .. 255)
  PROVE  Trimmed(WithoutPadding(text), text)
<1> DEFINE n == Len(text)
           filled(k) == k > 0 /\ text[k] = Equals
           e == IF filled(n) THEN IF filled(n - 1) THEN 2 ELSE 1 ELSE 0
<1>1. n \in Nat /\ WithoutPadding(text) = SubSeq(text, 1, n - e)
  BY DEF WithoutPadding
<1>2. /\ e \in 0 .. 2 /\ e <= n
      /\ \A k \in 1 .. n : k > n - e => text[k] = Equals
  <2>1. n \in Nat
    OBVIOUS
  <2>2. CASE ~filled(n)
    BY <2>1, <2>2
  <2>3. CASE filled(n) /\ ~filled(n - 1)
    <3>1. e = 1 /\ n > 0 /\ text[n] = Equals
      BY <2>3
    <3> HIDE DEF e, n
    <3> QED
      BY <2>1, <3>1
  <2>4. CASE filled(n) /\ filled(n - 1)
    <3>1. e = 2 /\ n > 0 /\ n - 1 > 0 /\ text[n] = Equals /\ text[n - 1] = Equals
      BY <2>4
    <3> HIDE DEF e, n
    <3>2. \A k \in 1 .. n : k > n - e => k = n \/ k = n - 1
      BY <2>1, <3>1
    <3> QED
      BY <2>1, <3>1, <3>2
  <2> QED
    BY <2>2, <2>3, <2>4
<1> HIDE DEF e
<1>3. Front(SubSeq(text, 1, n - e), text, n - e)
  <2>1. PICK one \in Nat \ {0} : one = 1
    OBVIOUS
  <2>2. n - e \in Nat /\ one <= (n - e) + 1 /\ n - e <= Len(text)
    BY <1>1, <1>2, <2>1
  <2> HIDE DEF n
  <2>3. PICK m \in Nat : m = n - e
    BY <2>2
  <2>4. Stretch(SubSeq(text, one, m), text, one, m)
    BY <2>1, <2>2, <2>3, PartsOfText
  <2>5. (m + 1) - one = m /\ one - 1 = 0 /\ \A k \in 1 .. m : k + 0 = k
    BY <2>1, <2>3
  <2>6. Front(SubSeq(text, one, m), text, m)
    BY <2>4, <2>5 DEF Stretch, Front
  <2> QED
    BY <2>1, <2>3, <2>6
<1> QED
  BY <1>1, <1>2, <1>3 DEF Trimmed

\* What base64 is written with.
Base64Characters == Alphabet \cup {Newline}

LEMMA Base64CharacterCodes ==
  ASSUME NEW c \in Base64Characters
  PROVE  c \in 0 .. 255 /\ c # Minus /\ c # 95 /\ c # CarriageReturn
<1>1. CASE c = Newline
  BY <1>1 DEF Newline, Minus, CarriageReturn
<1>2. CASE c = Equals
  BY <1>2 DEF Equals, Minus, CarriageReturn
<1>3. CASE c # Newline /\ c # Equals
  <2>1. PICK v \in 0 .. 63 : c = base64_table[v]
    BY <1>3 DEF Base64Characters, Alphabet
  <2>2. PICK d \in 43 .. 122 : d = c
    BY <2>1, TableOfLetters
  <2>3. d # Minus /\ d # 95
    BY <2>1, <2>2, TableOfLetters
  <2>4. d \in 0 .. 255 /\ d # CarriageReturn
    BY <2>2 DEF CarriageReturn
  <2> QED
    BY <2>2, <2>3, <2>4
<1> QED
  BY <1>1, <1>2, <1>3

(* There and back, the text has lost at most its padding.                  *)
LEMMA ThereAndBack ==
  ASSUME NEW text \in Seq(0 .. 255), \A k \in 1 .. Len(text) : text[k] \in Base64Characters
  PROVE  Trimmed(Chartr(<<Minus, 95>>, <<43, Slash>>, base64url_enc(text)), text)
<1> DEFINE there == Chartr(<<43, Slash>>, <<Minus, 95>>, text)
           part == WithoutPadding(there)
           back == Chartr(<<Minus, 95>>, <<43, Slash>>, part)
<1>1. /\ Len(there) = Len(text) /\ Len(text) \in Nat
      /\ \A k \in 1 .. Len(text) :
           there[k] = IF text[k] = 43 THEN Minus ELSE IF text[k] = Slash THEN 95 ELSE text[k]
  <2>1. 43 # Slash
    BY DEF Slash
  <2> QED
    BY <2>1, OneCharacterForAnother
<1>2. there \in Seq(0 .. 255)
  <2>1. \A k \in 1 .. Len(text) : there[k] \in 0 .. 255
    <3> SUFFICES ASSUME NEW k \in 1 .. Len(text) PROVE there[k] \in 0 .. 255
      OBVIOUS
    <3>1. PICK c \in 0 .. 255 : c = text[k]
      BY ElementOfSeq
    <3>2. there[k] = IF c = 43 THEN Minus ELSE IF c = Slash THEN 95 ELSE c
      BY <1>1, <3>1
    <3> HIDE DEF there
    <3> QED
      BY <3>2 DEF Minus
  <2>2. there = [k \in 1 .. Len(text) |-> there[k]]
    BY DEF Chartr
  <2> HIDE DEF there
  <2> QED
    BY <1>1, <2>1, <2>2
<1> HIDE DEF there
<1>3. Trimmed(part, there)
  BY <1>2, PaddingIsTrimmed
<1> HIDE DEF part
<1>4. PICK e \in 0 .. 2 : /\ e <= Len(there) /\ Front(part, there, Len(there) - e)
                         /\ \A k \in 1 .. Len(there) : k > Len(there) - e => there[k] = Equals
  BY <1>3 DEF Trimmed
<1>5. PICK m \in Nat : m = Len(text) - e /\ m <= Len(text)
  BY <1>1, <1>4
<1>6. part \in Seq(0 .. 255) /\ Len(part) = m /\ \A k \in 1 .. m : part[k] = there[k]
  BY <1>1, <1>4, <1>5 DEF Front
<1>7. /\ Len(back) = m
      /\ \A k \in 1 .. m :
           back[k] = IF part[k] = Minus THEN 43 ELSE IF part[k] = 95 THEN Slash ELSE part[k]
  <2>1. Minus # 95
    BY DEF Minus
  <2> QED
    BY <1>6, <2>1, OneCharacterForAnother
<1>8. back = [k \in 1 .. m |-> back[k]]
  BY <1>6 DEF Chartr
<1> HIDE DEF back
<1>9. \A k \in 1 .. m : back[k] = text[k] /\ text[k] \in 0 .. 255
  <2> SUFFICES ASSUME NEW k \in 1 .. m PROVE back[k] = text[k] /\ text[k] \in 0 .. 255
    OBVIOUS
  <2>1. k \in 1 .. Len(text)
    BY <1>1, <1>5
  <2>2. text[k] \in 0 .. 255 /\ text[k] # Minus /\ text[k] # 95
    BY <2>1, Base64CharacterCodes
  <2>3. part[k] = IF text[k] = 43 THEN Minus ELSE IF text[k] = Slash THEN 95 ELSE text[k]
    BY <1>1, <1>6, <2>1
  <2>4. back[k] = IF part[k] = Minus THEN 43 ELSE IF part[k] = 95 THEN Slash ELSE part[k]
    BY <1>7
  <2>5. Minus # 95
    BY DEF Minus
  <2>6. PICK c \in 0 .. 255 : c = text[k]
    BY <2>2
  <2>7. part[k] = IF c = 43 THEN Minus ELSE IF c = Slash THEN 95 ELSE c
    BY <2>3, <2>6
  <2>8. back[k] = c
    BY <2>2, <2>4, <2>5, <2>6, <2>7 DEF Minus, Slash
  <2> QED
    BY <2>2, <2>6, <2>8
<1>10. back \in Seq(0 .. 255)
  <2>1. back \in [1 .. m -> 0 .. 255]
    BY <1>8, <1>9
  <2> QED
    BY <2>1
<1>11. Front(back, text, Len(text) - e)
  BY <1>5, <1>7, <1>9, <1>10 DEF Front
<1>12. \A k \in 1 .. Len(text) : k > Len(text) - e => text[k] = Equals
  <2> SUFFICES ASSUME NEW k \in 1 .. Len(text), k > Len(text) - e PROVE text[k] = Equals
    OBVIOUS
  <2>1. there[k] = Equals
    BY <1>1, <1>4
  <2>2. there[k] = IF text[k] = 43 THEN Minus ELSE IF text[k] = Slash THEN 95 ELSE text[k]
    BY <1>1
  <2> QED
    BY <2>1, <2>2 DEF Equals, Minus
<1> QED
  BY <1>1, <1>4, <1>11, <1>12 DEF Trimmed, base64url_enc, back, part, there

LEMMA FrontIsCounted ==
  ASSUME NEW text \in Seq(0 .. 255), NEW part, NEW m \in Nat, m <= Len(text), Front(part, text, m),
         NEW bytes, NEW q, NEW cnt, Counted(cnt, text, bytes, q)
  PROVE  cnt[m] \in Nat /\ Counted([i \in 0 .. m |-> cnt[i]], part, bytes, cnt[m])
<1> DEFINE less == [i \in 0 .. m |-> cnt[i]]
<1>1. /\ cnt \in [0 .. Len(text) -> Nat] /\ cnt[0] = 0
      /\ \A i \in 1 .. Len(text) :
           \/ text[i] \in Alphabet /\ cnt[i] = cnt[i - 1] + 1 /\ text[i] = Symbol(bytes, cnt[i])
           \/ text[i] = Newline /\ cnt[i] = cnt[i - 1]
  BY DEF Counted
<1>2. Len(text) \in Nat /\ Len(part) = m /\ \A k \in 1 .. m : part[k] = text[k]
  BY DEF Front
<1>3. \A i \in 0 .. m : less[i] = cnt[i] /\ cnt[i] \in Nat
  BY <1>1, <1>2
<1>4. less \in [0 .. m -> Nat]
  BY <1>3
<1> HIDE DEF less
<1>5. ASSUME NEW i \in 1 .. m
      PROVE  \/ part[i] \in Alphabet /\ less[i] = less[i - 1] + 1 /\ part[i] = Symbol(bytes, less[i])
             \/ part[i] = Newline /\ less[i] = less[i - 1]
  <2>1. i \in 1 .. Len(text) /\ i \in 0 .. m /\ i - 1 \in 0 .. m
    BY <1>2
  <2>2. part[i] = text[i] /\ less[i] = cnt[i] /\ less[i - 1] = cnt[i - 1]
    BY <1>2, <1>3, <2>1
  <2> QED
    BY <1>1, <2>1, <2>2
<1>6. less[0] = 0 /\ less[Len(part)] = cnt[m] /\ cnt[m] \in Nat
  BY <1>1, <1>2, <1>3
<1>7. Counted(less, part, bytes, cnt[m])
  BY <1>2, <1>4, <1>5, <1>6 DEF Counted
<1> QED
  BY <1>6, <1>7 DEF less

(* The padding that is trimmed was the end of the last block.              *)
LEMMA TrimmedIsCounted ==
  ASSUME NEW text \in Seq(0 .. 255), NEW part, Trimmed(part, text),
         NEW bytes, NEW q \in Nat, NEW cnt, Counted(cnt, text, bytes, q)
  PROVE  \E e \in 0 .. 2 : /\ e <= q /\ IsCoded(part, bytes, q - e)
                           /\ \A j \in 1 .. q : j > q - e => Symbol(bytes, j) = Equals
<1>1. PICK e \in 0 .. 2 : /\ e <= Len(text) /\ Front(part, text, Len(text) - e)
                         /\ \A k \in 1 .. Len(text) : k > Len(text) - e => text[k] = Equals
  BY DEF Trimmed
<1>2. PICK m \in Nat : m + e = Len(text) /\ m = Len(text) - e
  <2>1. PICK l \in Nat : l = Len(text)
    OBVIOUS
  <2>2. l - e \in Nat /\ (l - e) + e = l
    BY <1>1, <2>1
  <2> QED
    BY <2>1, <2>2
<1>3. cnt[m] \in Nat /\ Counted([i \in 0 .. m |-> cnt[i]], part, bytes, cnt[m])
  <2>1. m <= Len(text) /\ Front(part, text, m)
    BY <1>1, <1>2
  <2> QED
    BY <2>1, FrontIsCounted
<1>4. IsCoded(part, bytes, cnt[m])
  BY <1>1, <1>3 DEF IsCoded, Front
<1>5. ASSUME NEW k \in 1 .. Len(text), k > m
      PROVE  cnt[k] = cnt[k - 1] + 1 /\ Symbol(bytes, cnt[k]) = Equals
  <2>1. text[k] = Equals
    BY <1>1, <1>2, <1>5
  <2>2. Equals # Newline
    BY DEF Equals, Newline
  <2> QED
    BY <2>1, <2>2 DEF Counted
<1>6. cnt[Len(text)] = q
  BY DEF Counted
<1>7. CASE e = 0
  <2>1. m = Len(text) /\ q - e = q
    BY <1>2, <1>7
  <2>2. \A j \in 1 .. q : ~(j > q - e)
    BY <1>7
  <2> QED
    BY <1>4, <1>6, <1>7, <2>1, <2>2
<1>8. CASE e = 1
  <2>1. m + 1 = Len(text) /\ m + 1 \in 1 .. Len(text) /\ m + 1 > m /\ (m + 1) - 1 = m
    BY <1>2, <1>8
  <2>2. q = cnt[m] + 1 /\ Symbol(bytes, q) = Equals
    BY <1>5, <1>6, <2>1
  <2>3. q - e = cnt[m] /\ e <= q /\ \A j \in 1 .. q : j > q - e => j = q
    BY <1>3, <1>8, <2>2
  <2> QED
    BY <1>4, <2>2, <2>3
<1>9. CASE e = 2
  <2>1. /\ m + 2 = Len(text) /\ m + 1 \in 1 .. Len(text) /\ m + 1 > m /\ (m + 1) - 1 = m
        /\ m + 2 \in 1 .. Len(text) /\ m + 2 > m /\ (m + 2) - 1 = m + 1
    BY <1>2, <1>9
  <2>2. cnt[m + 1] = cnt[m] + 1 /\ Symbol(bytes, cnt[m + 1]) = Equals
    BY <1>5, <2>1
  <2>3. q = cnt[m + 1] + 1 /\ Symbol(bytes, q) = Equals
    BY <1>5, <1>6, <2>1
  <2>4. PICK c \in Nat : c = cnt[m]
    BY <1>3
  <2>5. q = c + 2 /\ Symbol(bytes, c + 1) = Equals
    BY <2>2, <2>3, <2>4
  <2>6. q - e = c /\ e <= q /\ \A j \in 1 .. q : j > q - e => j = q \/ j = c + 1
    BY <1>9, <2>5
  <2> QED
    BY <1>4, <2>3, <2>4, <2>5, <2>6
<1> QED
  BY <1>7, <1>8, <1>9

-----------------------------------------------------------------------------
(* fix_padding                                                             *)

\* Without lines the j-th character is the j-th letter.
Dense(text, bytes, q) ==
  /\ text \in Seq(0 .. 255) /\ Len(text) = q
  /\ \A j \in 1 .. q : text[j] \in Alphabet /\ text[j] = Symbol(bytes, j)

DropsLines(kept, text) ==
  /\ kept[0] = <<>>
  /\ \A n \in 1 .. Len(text) :
       kept[n] = IF text[n] \in {Newline, CarriageReturn} THEN kept[n - 1]
                 ELSE Append(kept[n - 1], text[n])

LEMMA LinesAreDropped ==
  ASSUME NEW text \in Seq(0 .. 255)
  PROVE  \E kept : DropsLines(kept, text) /\ WithoutLines(text) = kept[Len(text)]
<1> DEFINE N == Len(text)
           X == Seq(0 .. 255)
           Step1(n, k) == IF text[n] \in {Newline, CarriageReturn} THEN k ELSE Append(k, text[n])
           F == [p \in (1 .. N) \X X |-> Step1(p[1], p[2])]
           Equation(f) == f = [n \in 0 .. N |-> IF n = 0 THEN <<>>
                                ELSE IF text[n] \in {Newline, CarriageReturn} THEN f[n - 1]
                                ELSE Append(f[n - 1], text[n])]
<1>1. N \in Nat /\ <<>> \in X
  OBVIOUS
<1>2. ASSUME NEW n \in 1 .. N, NEW k \in X PROVE Step1(n, k) \in X
  <2>1. PICK c \in 0 .. 255 : c = text[n]
    BY ElementOfSeq
  <2>2. Append(k, c) \in X
    BY AppendProperties
  <2> QED
    BY <2>1, <2>2
<1>3. F \in [(1 .. N) \X X -> X]
  <2> HIDE DEF Step1, N, X
  <2> QED
    BY <1>2
<1>4. \E f \in [0 .. N -> X] : Iterates(f, N, <<>>, F)
  <2> HIDE DEF F, N, X
  <2> QED
    BY <1>1, <1>3, IterationExists
<1>5. PICK f \in [0 .. N -> X] : Iterates(f, N, <<>>, F)
  BY <1>4
<1>6. ASSUME NEW n \in 1 .. N
      PROVE  f[n] = Step1(n, f[n - 1])
  <2>1. f[n - 1] \in X /\ <<n, f[n - 1]>> \in (1 .. N) \X X
    <3>1. n - 1 \in 0 .. N
      BY <1>1
    <3> HIDE DEF N, X
    <3> QED
      BY <3>1
  <2>2. f[n] = F[<<n, f[n - 1]>>]
    BY <1>5 DEF Iterates
  <2> HIDE DEF Step1, N, X
  <2> QED
    BY <2>1, <2>2
<1>7. Equation(f)
  <2>1. \A n \in 0 .. N : f[n] = IF n = 0 THEN <<>>
                                 ELSE IF text[n] \in {Newline, CarriageReturn} THEN f[n - 1]
                                 ELSE Append(f[n - 1], text[n])
    <3>1. f[0] = <<>>
      BY <1>5 DEF Iterates
    <3>2. \A n \in 0 .. N : n # 0 => n \in 1 .. N
      BY <1>1
    <3> HIDE DEF N, X, F
    <3> QED
      BY <1>6, <3>1, <3>2
  <2> HIDE DEF N, X
  <2> QED
    BY <1>5, <2>1
<1>8. PICK kept : Equation(kept) /\ WithoutLines(text) = kept[N]
  <2> DEFINE kept == CHOOSE g : Equation(g)
  <2>1. Equation(kept)
    <3> HIDE DEF Equation
    <3> QED
      BY <1>7
  <2>2. WithoutLines(text) = kept[N]
    BY DEF WithoutLines
  <2> QED
    BY <2>1, <2>2
<1>9. DropsLines(kept, text)
  <2>1. \A n \in 1 .. N : n \in 0 .. N /\ n # 0
    BY <1>1
  <2>2. kept[0] = <<>> /\ 0 \in 0 .. N
    <3> HIDE DEF N
    <3> QED
      BY <1>1, <1>8
  <2>3. \A n \in 1 .. N : kept[n] = IF text[n] \in {Newline, CarriageReturn} THEN kept[n - 1]
                                    ELSE Append(kept[n - 1], text[n])
    <3> HIDE DEF N
    <3> QED
      BY <1>8, <2>1
  <2> QED
    BY <2>2, <2>3 DEF DropsLines
<1> QED
  BY <1>8, <1>9

LEMMA LettersWithoutLines ==
  ASSUME NEW text \in Seq(0 .. 255), NEW bytes, NEW q \in Nat, NEW cnt, Counted(cnt, text, bytes, q)
  PROVE  Dense(WithoutLines(text), bytes, q)
<1>1. PICK kept : DropsLines(kept, text) /\ WithoutLines(text) = kept[Len(text)]
  BY LinesAreDropped
<1>2. /\ cnt \in [0 .. Len(text) -> Nat] /\ cnt[0] = 0 /\ cnt[Len(text)] = q
      /\ \A i \in 1 .. Len(text) :
           \/ text[i] \in Alphabet /\ cnt[i] = cnt[i - 1] + 1 /\ text[i] = Symbol(bytes, cnt[i])
           \/ text[i] = Newline /\ cnt[i] = cnt[i - 1]
      /\ Len(text) \in Nat
  BY DEF Counted
<1>3. /\ kept[0] = <<>>
      /\ \A n \in 1 .. Len(text) :
           kept[n] = IF text[n] \in {Newline, CarriageReturn} THEN kept[n - 1]
                     ELSE Append(kept[n - 1], text[n])
  BY <1>1 DEF DropsLines
<1> DEFINE S == {n \in 0 .. Len(text) : Dense(kept[n], bytes, cnt[n])}
<1>4. 0 \in S
  <2>1. <<>> \in Seq(0 .. 255) /\ Len(<<>>) = 0 /\ 1 .. 0 = {}
    OBVIOUS
  <2>2. Dense(kept[0], bytes, cnt[0])
    BY <1>2, <1>3, <2>1 DEF Dense
  <2>3. 0 \in 0 .. Len(text)
    BY <1>2
  <2> QED
    BY <2>2, <2>3
<1>5. ASSUME NEW n \in 0 .. Len(text) - 1, n \in S
      PROVE  n + 1 \in S
  <2>1. n + 1 \in 1 .. Len(text) /\ n + 1 \in 0 .. Len(text) /\ (n + 1) - 1 = n
    BY <1>2
  <2>2. Dense(kept[n], bytes, cnt[n])
    BY <1>5
  <2>3. PICK c : c = text[n + 1]
    OBVIOUS
  <2>4. kept[n + 1] = IF c \in {Newline, CarriageReturn} THEN kept[n] ELSE Append(kept[n], c)
    BY <1>3, <2>1, <2>3
  <2>5. CASE c = Newline /\ cnt[n + 1] = cnt[n]
    BY <2>1, <2>2, <2>4, <2>5
  <2>6. CASE c \in Alphabet /\ cnt[n + 1] = cnt[n] + 1 /\ c = Symbol(bytes, cnt[n + 1])
    <3>1. PICK p \in Nat : p = cnt[n]
      BY <1>2, <2>1
    <3>2. kept[n + 1] = Append(kept[n], c)
      <4>1. c \in Base64Characters /\ c # Newline
        BY <2>6, OtherCharacters DEF Base64Characters
      <4>2. c # CarriageReturn
        BY <4>1, Base64CharacterCodes
      <4> QED
        BY <2>4, <4>1, <4>2
    <3>3. PICK d \in 0 .. 255 : d = c
      <4>1. c \in Base64Characters
        BY <2>6 DEF Base64Characters
      <4>2. c \in 0 .. 255
        BY <4>1, Base64CharacterCodes
      <4> QED
        BY <4>2
    <3>4. PICK s \in Seq(0 .. 255) : s = kept[n] /\ Len(s) = p
      BY <2>2, <3>1 DEF Dense
    <3>5. \A j \in 1 .. p : s[j] \in Alphabet /\ s[j] = Symbol(bytes, j)
      BY <2>2, <3>1, <3>4 DEF Dense
    <3>6. /\ Append(s, d) \in Seq(0 .. 255) /\ Len(Append(s, d)) = p + 1
          /\ \A j \in 1 .. p : Append(s, d)[j] = s[j]
          /\ Append(s, d)[p + 1] = d
      BY <3>4, AppendProperties
    <3>7. \A j \in 1 .. p + 1 : Append(s, d)[j] \in Alphabet /\ Append(s, d)[j] = Symbol(bytes, j)
      <4> SUFFICES ASSUME NEW j \in 1 .. p + 1
                   PROVE  Append(s, d)[j] \in Alphabet /\ Append(s, d)[j] = Symbol(bytes, j)
        OBVIOUS
      <4>1. CASE j = p + 1
        <5>1. d \in Alphabet /\ d = Symbol(bytes, p + 1)
          BY <2>6, <3>1, <3>3
        <5> QED
          BY <3>6, <4>1, <5>1
      <4>2. CASE j \in 1 .. p
        BY <3>5, <3>6, <4>2
      <4>3. j = p + 1 \/ j \in 1 .. p
        OBVIOUS
      <4> QED
        BY <4>1, <4>2, <4>3
    <3>8. Dense(Append(s, d), bytes, p + 1)
      BY <3>6, <3>7 DEF Dense
    <3> QED
      BY <2>1, <2>6, <3>1, <3>2, <3>3, <3>4, <3>8
  <2> QED
    BY <1>2, <2>1, <2>3, <2>5, <2>6
<1>6. \A n \in 0 .. Len(text) : n \in S
  <2> HIDE DEF S
  <2> QED
    BY <1>2, <1>4, <1>5, InductionUpTo
<1> QED
  BY <1>1, <1>2, <1>6

LEMMA PaddingOfBlocks ==
  ASSUME NEW g \in Nat, NEW e \in 0 .. 2, e <= 4 * g
  PROVE  (4 - ((4 * g - e) % 4)) % 4 = e
<1>1. CASE e = 0
  BY <1>1, Z3
<1>2. CASE e = 1
  BY <1>2, Z3
<1>3. CASE e = 2
  BY <1>3, Z3
<1> QED
  BY <1>1, <1>2, <1>3

LEMMA PaddingIsRestored ==
  ASSUME NEW w, NEW bytes, NEW g \in Nat, NEW e \in 0 .. 2, e <= 4 * g, Dense(w, bytes, 4 * g - e),
         \A j \in 1 .. 4 * g : j > 4 * g - e => Symbol(bytes, j) = Equals
  PROVE  Dense(w \o [k \in 1 .. (4 - (Len(w) % 4)) % 4 |-> Equals], bytes, 4 * g)
<1> DEFINE pad == [k \in 1 .. e |-> Equals]
           full == w \o pad
<1>1. PICK n \in Nat : n = 4 * g - e /\ n + e = 4 * g
  <2>1. 4 * g - e \in Nat /\ (4 * g - e) + e = 4 * g
    OBVIOUS
  <2> QED
    BY <2>1
<1>2. /\ w \in Seq(0 .. 255) /\ Len(w) = n
      /\ \A j \in 1 .. n : w[j] \in Alphabet /\ w[j] = Symbol(bytes, j)
  BY <1>1 DEF Dense
<1>3. (4 - (Len(w) % 4)) % 4 = e
  BY <1>1, <1>2, PaddingOfBlocks
<1>4. pad \in Seq(0 .. 255) /\ Len(pad) = e /\ \A k \in 1 .. e : pad[k] = Equals
  BY DEF Equals
<1> HIDE DEF pad
<1>5. /\ full \in Seq(0 .. 255) /\ Len(full) = n + e
      /\ \A j \in 1 .. n + e : full[j] = IF j <= n THEN w[j] ELSE pad[j - n]
  BY <1>2, <1>4, ConcatProperties
<1> HIDE DEF full
<1>6. ASSUME NEW j \in 1 .. 4 * g
      PROVE  full[j] \in Alphabet /\ full[j] = Symbol(bytes, j)
  <2>1. j \in 1 .. n + e
    BY <1>1
  <2>2. CASE j <= n
    <3>1. j \in 1 .. n
      BY <2>2
    <3> QED
      BY <1>2, <1>5, <2>1, <2>2, <3>1
  <2>3. CASE ~(j <= n)
    <3>1. j - n \in 1 .. e /\ j > 4 * g - e
      BY <1>1, <2>1, <2>3
    <3>2. full[j] = Equals /\ Symbol(bytes, j) = Equals
      BY <1>4, <1>5, <2>1, <2>3, <3>1
    <3> QED
      BY <3>2, OtherCharacters
  <2> QED
    BY <2>2, <2>3
<1>7. Dense(full, bytes, 4 * g)
  BY <1>1, <1>5, <1>6 DEF Dense
<1> QED
  BY <1>3, <1>7 DEF full, pad

LEMMA DenseIsCounted ==
  ASSUME NEW text, NEW bytes, NEW q \in Nat, Dense(text, bytes, q)
  PROVE  IsCoded(text, bytes, q)
<1> DEFINE cnt == [i \in 0 .. q |-> i]
<1>1. /\ text \in Seq(0 .. 255) /\ Len(text) = q
      /\ \A j \in 1 .. q : text[j] \in Alphabet /\ text[j] = Symbol(bytes, j)
  BY DEF Dense
<1>2. \A i \in 0 .. q : cnt[i] = i
  OBVIOUS
<1>3. cnt \in [0 .. q -> Nat]
  OBVIOUS
<1> HIDE DEF cnt
<1>4. \A i \in 1 .. q : cnt[i] = i /\ cnt[i] = cnt[i - 1] + 1
  <2>1. \A i \in 1 .. q : i \in 0 .. q /\ i - 1 \in 0 .. q
    OBVIOUS
  <2> QED
    BY <1>2, <2>1
<1>5. cnt[0] = 0 /\ cnt[q] = q
  BY <1>2
<1>6. Counted(cnt, text, bytes, q)
  BY <1>1, <1>3, <1>4, <1>5 DEF Counted
<1> QED
  BY <1>1, <1>6 DEF IsCoded

(* base64url and back is base64 of the same bytes, in one line.            *)
LEMMA UrlIsEncoded ==
  ASSUME NEW text, NEW bytes, EncodedAs(text, bytes)
  PROVE  EncodedAs(base64url_dec(base64url_enc(text)), bytes)
<1>1. /\ bytes \in Seq(0 .. 255) /\ text \in Seq(0 .. 255)
      /\ \E cnt : Counted(cnt, text, bytes, 4 * Groups(Len(bytes)))
  BY DEF EncodedAs
<1>2. PICK cnt : Counted(cnt, text, bytes, 4 * Groups(Len(bytes)))
  BY <1>1
<1>3. PICK g \in Nat : g = Groups(Len(bytes))
  <2>1. PICK n \in Nat : n = Len(bytes)
    BY <1>1
  <2>2. (n + 2) \div 3 \in Nat
    BY Z3
  <2> QED
    BY <2>1, <2>2 DEF Groups
<1>4. PICK q \in Nat : q = 4 * g
  OBVIOUS
<1>5. Counted(cnt, text, bytes, q)
  BY <1>2, <1>3, <1>4
<1>6. \A k \in 1 .. Len(text) : text[k] \in Base64Characters
  BY <1>5 DEF Counted, Base64Characters
<1> DEFINE back == Chartr(<<Minus, 95>>, <<43, Slash>>, base64url_enc(text))
<1>7. Trimmed(back, text)
  BY <1>1, <1>6, ThereAndBack
<1> HIDE DEF back
<1>8. PICK e \in 0 .. 2 : /\ e <= q /\ IsCoded(back, bytes, q - e)
                         /\ \A j \in 1 .. q : j > q - e => Symbol(bytes, j) = Equals
  BY <1>1, <1>5, <1>7, TrimmedIsCounted
<1>9. PICK less : Counted(less, back, bytes, q - e)
  BY <1>8 DEF IsCoded
<1>10. back \in Seq(0 .. 255) /\ q - e \in Nat
  BY <1>8 DEF IsCoded
<1> DEFINE w == WithoutLines(back)
<1>11. Dense(w, bytes, q - e)
  BY <1>9, <1>10, LettersWithoutLines
<1>12. base64url_dec(base64url_enc(text)) = w \o [k \in 1 .. (4 - (Len(w) % 4)) % 4 |-> Equals]
  BY DEF base64url_dec, fix_padding, back
<1> HIDE DEF w
<1>13. Dense(w \o [k \in 1 .. (4 - (Len(w) % 4)) % 4 |-> Equals], bytes, 4 * g)
  <2>1. e <= 4 * g /\ Dense(w, bytes, 4 * g - e)
    BY <1>4, <1>8, <1>11
  <2>2. \A j \in 1 .. 4 * g : j > 4 * g - e => Symbol(bytes, j) = Equals
    BY <1>4, <1>8
  <2> QED
    BY <2>1, <2>2, PaddingIsRestored
<1>14. Dense(base64url_dec(base64url_enc(text)), bytes, q)
  BY <1>4, <1>12, <1>13
<1>15. IsCoded(base64url_dec(base64url_enc(text)), bytes, q)
  BY <1>14, DenseIsCounted
<1> QED
  BY <1>1, <1>3, <1>4, <1>15 DEF EncodedAs, IsCoded

-----------------------------------------------------------------------------
(* Strings and raw vectors on their way through the functions              *)

TextFunctions == {Escaper, Encoder, Decoder, Base64Encoder, Base64Decoder}

Texts == EscapeText /\ EncodeText /\ DecodeText /\ Base64Text /\ Base64Bytes

TextInv ==
  /\ Texts
  /\ route \in {"raw", "url"} => fn \in {Base64Encoder, Escaper, Decoder, Base64Decoder}

LEMMA CodersDiffer ==
  /\ Base64Encoder # Base64Decoder
  /\ \A f \in {Escaper, Encoder, Decoder} : f # Base64Encoder /\ f # Base64Decoder
  BY DEF Escaper, Encoder, Decoder, Base64Encoder, Base64Decoder

LEMMA OthersAreNoTexts ==
  ASSUME fn' \notin TextFunctions, route' \notin {"raw", "url"}
  PROVE  TextInv'
<1>1. EscapeText' /\ EncodeText' /\ DecodeText'
  BY DEF TextFunctions, EscapeText, EncodeText, DecodeText
<1>2. Base64Text' /\ Base64Bytes'
  BY DEF TextFunctions, Base64Text, Base64Bytes
<1> QED
  BY <1>1, <1>2 DEF Texts, TextInv

LEMMA StringsBegin ==
  ASSUME fn' \in {Escaper, Encoder, Decoder}, EscapeText' /\ EncodeText' /\ DecodeText',
         fn' = Encoder => route' \notin {"raw", "url"}
  PROVE  TextInv'
<1>1. Base64Text' /\ Base64Bytes'
  BY CodersDiffer DEF Base64Text, Base64Bytes
<1>2. route' \in {"raw", "url"} => fn' \in {Escaper, Decoder}
  OBVIOUS
<1> QED
  BY <1>1, <1>2 DEF Texts, TextInv

LEMMA Base64Begins ==
  ASSUME \/ fn' = Base64Encoder /\ Base64Text'
         \/ fn' = Base64Decoder /\ Base64Bytes'
  PROVE  TextInv'
<1>1. EscapeText' /\ EncodeText' /\ DecodeText'
  BY CodersDiffer DEF EscapeText, EncodeText, DecodeText
<1>2. Base64Text' /\ Base64Bytes'
  BY CodersDiffer DEF Base64Text, Base64Bytes
<1>3. fn' \in {Base64Encoder, Base64Decoder}
  OBVIOUS
<1> QED
  BY <1>1, <1>2, <1>3 DEF Texts, TextInv

LEMMA StartOfTexts ==
  ASSUME Start
  PROVE  TextInv'
<1>1. ASSUME NEW s \in Strings, Begin("string", s), CallEscape(s) PROVE TextInv'
  <2>1. s \in Seq(0 .. 255)
    BY TextsAssumption
  <2>2. route' = "string" /\ origin' = s /\ fn' = Escaper
    BY <1>1 DEF Begin, CallEscape, Call
  <2>3. Carried(s)'
    BY <2>2 DEF Carried
  <2>4. EscapeText' /\ EncodeText' /\ DecodeText'
    BY <1>1, <2>1, <2>2, <2>3, EscapingBegins
  <2> QED
    BY <2>2, <2>4, StringsBegin
<1>2. ASSUME NEW s \in Spelled, Begin("spelled", s.bytes), CallDecode(s.text) PROVE TextInv'
  <2>1. route' = "spelled" /\ fn' = Decoder
    BY <1>2 DEF Begin, CallDecode
  <2>2. EscapeText' /\ EncodeText' /\ DecodeText'
    BY <2>1, TextNames DEF EscapeText, EncodeText, DecodeText
  <2> QED
    BY <2>1, <2>2, StringsBegin
<1>3. ASSUME NEW s \in Raws, NEW kind \in {"raw", "url"}, Begin(kind, s), CallBase64Encode(s)
      PROVE  TextInv'
  <2>1. s \in Seq(0 .. 255)
    BY TextsAssumption
  <2>2. route' \in {"raw", "url"} /\ origin' = s /\ fn' = Base64Encoder
    BY <1>3 DEF Begin, CallBase64Encode
  <2>3. Base64Text'
    BY <1>3, <2>1, <2>2, Base64TextBegins
  <2> QED
    BY <2>2, <2>3, Base64Begins
<1>4. ASSUME NEW s \in Base64Texts, Begin("base64", s), CallBase64Decode(s) PROVE TextInv'
  <2>1. route' = "base64" /\ fn' = Base64Decoder
    BY <1>4 DEF Begin, CallBase64Decode, Call
  <2>2. Base64Bytes'
    BY <2>1 DEF Base64Bytes
  <2> QED
    BY <2>1, <2>2, Base64Begins
<1>5. ASSUME NEW v \in Integers32, Begin("integer", v), CallWriteInteger(v) PROVE TextInv'
  <2>1. route' = "integer" /\ fn' = IntegerWriter
    BY <1>5 DEF Begin, CallWriteInteger
  <2> QED
    BY <2>1, TextNames, OthersAreNoTexts DEF TextFunctions, IntegerWriter, Base64Encoder, Base64Decoder
<1>6. ASSUME NEW s \in NumberTexts, Begin("number", s), CallParseInteger(s) PROVE TextInv'
  <2>1. route' = "number" /\ fn' = IntegerParser
    BY <1>6 DEF Begin, CallParseInteger
  <2> QED
    BY <2>1, TextNames, OthersAreNoTexts DEF TextFunctions, IntegerParser, Base64Encoder, Base64Decoder
<1>7. ASSUME NEW d \in Doubles, Begin("double", d.parts), CallWriteDouble(d.parts, d.prec, d.always)
      PROVE  TextInv'
  <2>1. route' = "double" /\ fn' = DoubleWriter
    BY <1>7 DEF Begin, CallWriteDouble
  <2> QED
    BY <2>1, TextNames, OthersAreNoTexts DEF TextFunctions, DoubleWriter, Base64Encoder, Base64Decoder
<1>8. ASSUME NEW s \in ElementLists, NEW f \in Joiners, NEW i \in Indents, Begin("elements", s),
             CallJoin(f, s, i)
      PROVE  TextInv'
  <2>1. route' = "elements" /\ fn' = f
    BY <1>8 DEF Begin, CallJoin, Call
  <2>2. fn' \notin TextFunctions
    BY <2>1, JoinersDiffer DEF TextFunctions
  <2> QED
    BY <2>1, <2>2, OthersAreNoTexts
<1>9. ASSUME NEW s \in PieceLists, Begin("pieces", s), CallAppend(s) PROVE TextInv'
  <2>1. route' = "pieces" /\ fn' = Appender
    BY <1>9 DEF Begin, CallAppend, Call
  <2> QED
    BY <2>1, TextNames, OthersAreNoTexts DEF TextFunctions, Appender, Base64Encoder, Base64Decoder
<1>10. ASSUME NEW p \in ErrorPlaces, Begin("error", p), CallRender(p.text, p.offset) PROVE TextInv'
  <2>1. route' = "error" /\ fn' = Renderer
    BY <1>10 DEF Begin, CallRender
  <2> QED
    BY <2>1, TextNames, OthersAreNoTexts DEF TextFunctions, Renderer, Base64Encoder, Base64Decoder
<1> QED
  BY <1>1, <1>2, <1>3, <1>4, <1>5, <1>6, <1>7, <1>8, <1>9, <1>10 DEF Start

LEMMA RunningOfTexts ==
  ASSUME TextInv, Running
  PROVE  TextInv'
<1>1. /\ EscapeText /\ EncodeText /\ DecodeText /\ Base64Text /\ Base64Bytes
      /\ route \in {"raw", "url"} => fn \in {Base64Encoder, Escaper, Decoder, Base64Decoder}
  BY DEF TextInv, Texts
<1>2. UNCHANGED <<route, origin>> /\ fn' = fn
  BY Owners DEF Running
<1>3. CASE EscapeNext
  <2>1. fn = Escaper /\ EscapeText'
    BY <1>1, <1>2, <1>3, Owners, EscapingSteps
  <2>2. EncodeText' /\ DecodeText'
    BY <1>2, <2>1, TextNames DEF EncodeText, DecodeText
  <2> QED
    BY <1>2, <2>1, <2>2, TextNames, StringsBegin
<1>4. CASE CodingNext
  <2>1. fn \in {Encoder, Decoder}
    BY <1>4, Owners
  <2>2. CASE fn = Encoder
    <3>1. EncodeText' /\ route = "string"
      BY <1>1, <1>2, <1>4, <2>2, EncodingSteps DEF EncodeText
    <3>2. EscapeText' /\ DecodeText'
      BY <1>2, <2>2, TextNames DEF EscapeText, DecodeText
    <3> QED
      BY <1>2, <2>2, <3>1, <3>2, StringsBegin
  <2>3. CASE fn = Decoder
    <3>1. DecodeText'
      <4>1. CASE route = "spelled"
        BY <1>2, <4>1 DEF DecodeText
      <4>2. CASE route # "spelled"
        BY <1>1, <1>2, <1>4, <2>3, <4>2, DecodingSteps
      <4> QED
        BY <4>1, <4>2
    <3>2. EscapeText' /\ EncodeText'
      BY <1>2, <2>3, TextNames DEF EscapeText, EncodeText
    <3> QED
      BY <1>2, <2>3, <3>1, <3>2, TextNames, StringsBegin
  <2> QED
    BY <2>1, <2>2, <2>3
<1>5. CASE Base64Next
  <2>1. fn \in {Base64Encoder, Base64Decoder}
    BY <1>5, Owners
  <2>2. CASE fn = Base64Encoder
    <3>1. EncodeBlock \/ EncodeEnd
      BY <1>5, <2>2, CodersDiffer DEF Base64Next, CountCharacter, DecodeFails, ReserveDecoded,
         SkipCharacter, DecodeCharacter, DecodeEnd, InLoop, AfterLoop
    <3>2. Base64Text'
      BY <1>1, <1>2, <3>1, Base64TextSteps
    <3> QED
      BY <1>2, <2>2, <3>2, Base64Begins
  <2>3. CASE fn = Base64Decoder
    <3>1. Base64Bytes'
      <4>1. CASE route \in {"raw", "url"}
        <5>1. \/ CountCharacter \/ DecodeFails \/ ReserveDecoded
              \/ SkipCharacter \/ DecodeCharacter \/ DecodeEnd
          BY <1>5, <2>3, CodersDiffer DEF Base64Next, EncodeBlock, EncodeEnd
        <5> QED
          BY <1>1, <1>2, <2>3, <4>1, <5>1, Base64BytesSteps
      <4>2. CASE route \notin {"raw", "url"}
        BY <1>2, <4>2 DEF Base64Bytes
      <4> QED
        BY <4>1, <4>2
    <3> QED
      BY <1>2, <2>3, <3>1, Base64Begins
  <2> QED
    BY <2>1, <2>2, <2>3
<1>6. CASE BufNext \/ CollapseNext \/ NumberNext \/ RenderNext
  <2>1. fn \in {Appender, IntegerWriter, DoubleWriter, IntegerParser, Renderer} \cup Joiners
    BY <1>6, Owners
  <2>2. fn \notin TextFunctions
    BY <2>1, JoinersDiffer DEF TextFunctions, Escaper, Encoder, Decoder, Appender, Base64Encoder,
       Base64Decoder, IntegerWriter, DoubleWriter, IntegerParser, Renderer
  <2>3. route \notin {"raw", "url"}
    BY <1>1, <2>2 DEF TextFunctions
  <2> QED
    BY <1>2, <2>2, <2>3, OthersAreNoTexts
<1> QED
  BY <1>3, <1>4, <1>5, <1>6 DEF Running

LEMMA HandOverOfTexts ==
  ASSUME TextInv, HandOver
  PROVE  TextInv'
<1>1. /\ EscapeText /\ EncodeText /\ DecodeText /\ Base64Text /\ Base64Bytes
      /\ route \in {"raw", "url"} => fn \in {Base64Encoder, Escaper, Decoder, Base64Decoder}
  BY DEF TextInv, Texts
<1>2. UNCHANGED <<route, origin>>
  BY DEF HandOver, ReadEscaped, PrettifyText, ReadEncoded, EscapeBase64, ReadBase64, ReadUrl,
     ReadInteger, ReadNumber, Has
<1>3. CASE ReadEscaped
  <2>1. fn = Escaper /\ at = "return" /\ route \in {"string", "raw"} /\ CallDecode(Inside(out))
    BY <1>3 DEF ReadEscaped, Has
  <2>2. /\ input \in Seq(0 .. 255) /\ Carried(input) /\ Inside(out) \in Seq(0 .. 255)
        /\ \E pos : Spells(pos, Inside(out), 1, input, Len(input))
    BY <1>1, <2>1 DEF EscapeText
  <2>3. PICK s \in Seq(0 .. 255) : s = input
    BY <2>2
  <2>4. PICK x \in Seq(0 .. 255) : x = Inside(out)
    BY <2>2
  <2>5. PICK pos : Spells(pos, x, 1, s, Len(s))
    BY <2>2, <2>3, <2>4
  <2>6. Carried(s)' /\ CallDecode(x) /\ route' \in {"string", "raw"}
    BY <1>2, <2>1, <2>2, <2>3, <2>4, CarriedStays
  <2>7. fn' = Decoder
    BY <2>6 DEF CallDecode
  <2>8. EscapeText' /\ EncodeText' /\ DecodeText'
    BY <2>5, <2>6, DecodingBegins
  <2> QED
    BY <2>7, <2>8, TextNames, StringsBegin
<1>4. CASE PrettifyText
  <2>1. fn = Decoder /\ at = "return" /\ route = "string" /\ CallEncode(out, TRUE)
    BY <1>4 DEF PrettifyText, Has
  <2>2. PICK s \in Seq(0 .. 255) : Carried(s) /\ out = s
    BY <1>1, <2>1 DEF DecodeText
  <2>3. s = origin' /\ CallEncode(s, TRUE) /\ route' = "string"
    BY <1>2, <2>1, <2>2 DEF Carried
  <2>4. fn' = Encoder
    BY <2>3 DEF CallEncode
  <2>5. EscapeText' /\ EncodeText' /\ DecodeText'
    BY <2>3, EncodingBegins
  <2> QED
    BY <2>3, <2>4, <2>5, StringsBegin
<1>5. CASE ReadEncoded
  <2>1. fn = Encoder /\ at = "return" /\ route = "string" /\ CallDecode(out)
    BY <1>5 DEF ReadEncoded, Has
  <2>2. /\ input \in Seq(0 .. 255) /\ input = origin /\ out \in Seq(0 .. 255)
        /\ \E pos : Spells(pos, out, 1, input, Len(input))
    BY <1>1, <2>1 DEF EncodeText
  <2>3. PICK s \in Seq(0 .. 255) : s = input
    BY <2>2
  <2>4. PICK x \in Seq(0 .. 255) : x = out
    BY <2>2
  <2>5. PICK pos : Spells(pos, x, 1, s, Len(s))
    BY <2>2, <2>3, <2>4
  <2>6. Carried(s)' /\ CallDecode(x) /\ route' \in {"string", "raw"}
    BY <1>2, <2>1, <2>2, <2>3, <2>4 DEF Carried
  <2>7. fn' = Decoder
    BY <2>6 DEF CallDecode
  <2>8. EscapeText' /\ EncodeText' /\ DecodeText'
    BY <2>5, <2>6, DecodingBegins
  <2> QED
    BY <2>7, <2>8, TextNames, StringsBegin
<1>6. ASSUME fn = Base64Encoder, at = "return"
      PROVE  EncodedAs(out, origin)
  BY <1>1, <1>6 DEF Base64Text, IsCoded, EncodedAs
<1>7. CASE EscapeBase64
  <2>1. fn = Base64Encoder /\ at = "return" /\ route = "raw" /\ CallEscape(out)
    BY <1>7 DEF EscapeBase64, Has
  <2>2. EncodedAs(out, origin)
    BY <1>6, <2>1
  <2>3. PICK x \in Seq(0 .. 255) : x = out
    BY <2>2 DEF EncodedAs
  <2>4. Carried(x)' /\ CallEscape(x) /\ route' = "raw"
    BY <1>2, <2>1, <2>2, <2>3 DEF Carried
  <2>5. fn' = Escaper
    BY <2>4 DEF CallEscape, Call
  <2>6. EscapeText' /\ EncodeText' /\ DecodeText'
    BY <2>4, EscapingBegins
  <2> QED
    BY <2>5, <2>6, TextNames, StringsBegin
<1>8. CASE ReadBase64
  <2>1. fn = Decoder /\ at = "return" /\ route = "raw" /\ CallBase64Decode(out)
    BY <1>8 DEF ReadBase64, Has
  <2>2. PICK s \in Seq(0 .. 255) : Carried(s) /\ out = s
    BY <1>1, <2>1 DEF DecodeText
  <2>3. EncodedAs(s, origin') /\ CallBase64Decode(s)
    BY <1>2, <2>1, <2>2 DEF Carried
  <2>4. fn' = Base64Decoder /\ Base64Bytes'
    BY <2>3, Base64BytesBegins DEF CallBase64Decode, Call
  <2> QED
    BY <2>4, Base64Begins
<1>9. CASE ReadUrl
  <2>1. /\ fn = Base64Encoder /\ at = "return"
        /\ CallBase64Decode(base64url_dec(base64url_enc(out)))
    BY <1>9 DEF ReadUrl, Has
  <2>2. EncodedAs(out, origin)
    BY <1>6, <2>1
  <2>3. PICK x, bytes : x = base64url_dec(base64url_enc(out)) /\ bytes = origin
    OBVIOUS
  <2>4. EncodedAs(x, bytes)
    BY <2>2, <2>3, UrlIsEncoded
  <2>5. CallBase64Decode(x) /\ EncodedAs(x, origin')
    BY <1>2, <2>1, <2>3, <2>4
  <2>6. fn' = Base64Decoder /\ Base64Bytes'
    BY <2>5, Base64BytesBegins DEF CallBase64Decode, Call
  <2> QED
    BY <2>6, Base64Begins
<1>10. CASE ReadInteger \/ ReadNumber
  <2>1. /\ fn \in {IntegerWriter, IntegerParser} /\ fn' \in {IntegerParser, ValueParser}
    BY <1>10 DEF ReadInteger, ReadNumber, Has, CallParseInteger, CallParseValue
  <2>2. fn' \notin TextFunctions
    BY <2>1 DEF TextFunctions, Escaper, Encoder, Decoder, Base64Encoder, Base64Decoder,
       IntegerParser, ValueParser
  <2>3. route' \notin {"raw", "url"}
    BY <1>1, <1>2, <2>1 DEF Escaper, Encoder, Decoder, Base64Encoder, Base64Decoder, IntegerWriter,
       IntegerParser
  <2> QED
    BY <2>2, <2>3, OthersAreNoTexts
<1> QED
  BY <1>3, <1>4, <1>5, <1>7, <1>8, <1>9, <1>10 DEF HandOver

LEMMA TextsStay ==
  ASSUME TextInv, UNCHANGED conversionVars
  PROVE  TextInv'
<1>1. UNCHANGED <<fn, at, input, arg, cur, counts, size, out, acc, route, origin>>
  BY DEF conversionVars, vars
<1>2. EscapeText'
  BY <1>1 DEF TextInv, Texts, EscapeText, Carried, Inside
<1>3. EncodeText'
  BY <1>1 DEF TextInv, Texts, EncodeText, Copied, Uncopied
<1>4. DecodeText'
  BY <1>1 DEF TextInv, Texts, DecodeText, Carried, Copied, Uncopied
<1>5. Base64Text'
  BY <1>1 DEF TextInv, Texts, Base64Text
<1>6. Base64Bytes'
  BY <1>1 DEF TextInv, Texts, Base64Bytes, DecodingAt, DecodedSoFar
<1> QED
  BY <1>1, <1>2, <1>3, <1>4, <1>5, <1>6 DEF TextInv, Texts

LEMMA TextInvHolds == Spec => []TextInv
<1>1. Init => TextInv
  <2> SUFFICES ASSUME Init PROVE TextInv
    OBVIOUS
  <2>1. fn = "idle" /\ route = "none"
    BY DEF Init
  <2>2. fn \notin TextFunctions
    BY <2>1 DEF TextFunctions, Escaper, Encoder, Decoder, Base64Encoder, Base64Decoder
  <2>3. EscapeText /\ EncodeText /\ DecodeText
    BY <2>2 DEF TextFunctions, EscapeText, EncodeText, DecodeText
  <2>4. Base64Text /\ Base64Bytes
    BY <2>2 DEF TextFunctions, Base64Text, Base64Bytes
  <2> QED
    BY <2>1, <2>3, <2>4 DEF Texts, TextInv
<1>2. ASSUME TextInv, [Next]_conversionVars
      PROVE  TextInv'
  <2>1. ASSUME Return PROVE TextInv'
    <3>1. fn' = "idle" /\ route' = "none"
      BY <2>1 DEF Return
    <3>2. fn' \notin TextFunctions
      BY <3>1 DEF TextFunctions, Escaper, Encoder, Decoder, Base64Encoder, Base64Decoder
    <3> QED
      BY <3>1, <3>2, OthersAreNoTexts
  <2> QED
    BY <1>2, <2>1, StartOfTexts, RunningOfTexts, HandOverOfTexts, TextsStay DEF Next
<1> QED
  BY <1>1, <1>2, PTL DEF Spec

(* What toJSON has written is read as the value it came from, whatever the *)
(* value: a string through C_escape_chars_one and yajl_string_decode, and  *)
(* through prettify any number of times, a raw vector through base64 with  *)
(* its lines and base64url without its padding, an integer with its sign.  *)
(* And no string has, between its quotes, a character that would end it or *)
(* that the lexer refuses, nor "</" with which a script would end.         *)
THEOREM ValuesReadBack == Spec => []ReadBack
<1>1. TextInv /\ NumberInv => ReadBack
  <2> SUFFICES ASSUME TextInv, NumberInv PROVE ReadBack
    OBVIOUS
  <2>1. /\ EscapeText /\ EncodeText /\ DecodeText /\ Base64Text /\ Base64Bytes
        /\ route \in {"raw", "url"} => fn \in {Base64Encoder, Escaper, Decoder, Base64Decoder}
    BY DEF TextInv, Texts
  <2>2. SafeText
    BY <2>1, DecodesSafely
  <2>3. ASSUME route = "string", fn = Decoder, at = "return" PROVE out = origin
    BY <2>1, <2>3 DEF DecodeText, Carried
  <2>4. ASSUME route \in {"raw", "url"}, fn = Base64Decoder, at = "return" PROVE out = origin
    BY <2>1, <2>4 DEF Base64Bytes
  <2>5. ASSUME route \in {"raw", "url"}, at = "failed" PROVE origin = <<>>
    <3>1. fn \notin {Escaper, Base64Encoder}
      BY <2>1, <2>5 DEF EscapeText, Base64Text
    <3>2. fn # Decoder
      BY <2>1, <2>5 DEF DecodeText
    <3> QED
      BY <2>1, <2>5, <3>1, <3>2 DEF Base64Bytes
  <2>6. ASSUME route = "integer", fn = ValueParser PROVE arg.type = "integer" /\ acc = origin
    BY <2>6 DEF NumberInv, IntegersReadBack
  <2> QED
    BY <2>2, <2>3, <2>4, <2>5, <2>6 DEF ReadBack
<1> QED
  BY <1>1, TextInvHolds, NumberInvHolds, PTL
=============================================================================
