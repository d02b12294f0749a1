------------------------------ MODULE Conversions ------------------------------
(***************************************************************************)
(* The functions that convert texts, as they are called after each other:  *)
(* what toJSON has written is read by fromJSON, possibly after prettify.   *)
(*                                                                         *)
(*   string   C_escape_chars_one, yajl_string_decode; and any number of    *)
(*            times yajl_string_encode and yajl_string_decode, prettify    *)
(*   raw      base64_encode, then as a string, then base64_decode          *)
(*   url      base64_encode and base64_decode, as base64url                *)
(*   integer  modp_itoa10, yajl_parse_integer, ParseValue                  *)
(*                                                                         *)
(* and on texts that somebody else has written:                            *)
(*                                                                         *)
(*   spelled  yajl_string_decode      number  yajl_parse_integer           *)
(*   base64   base64_decode                                                *)
(*                                                                         *)
(* modp_dtoa2, the joiners, the buffer and the error text stand alone.     *)
(***************************************************************************)
EXTENDS EscapeChars, YajlEncode, YajlBuf, Base64, Collapse, Numbers, ErrorText

CONSTANTS
  Strings,       \* strings of R, as bytes
  Spelled,       \* the inside of string tokens, and the bytes they stand for
  Raws,          \* raw vectors
  Base64Texts,   \* the input of base64_dec
  Integers32,    \* integers of R
  NumberTexts,   \* the numbers of a JSON text
  Doubles,       \* a double, the digits wanted, always_decimal
  ElementLists,  \* what is joined
  Indents,       \* with what indentation
  PieceLists,    \* the lengths of what is appended to a buffer
  ErrorPlaces    \* the text a caller has, and the offset of an error

ASSUME TextsAssumption ==
  /\ \A s \in Strings \cup Raws \cup Base64Texts : s \in Seq(0 .. 255)
  /\ \A s \in Spelled : s.text \in Seq(0 .. 255)
  /\ \A s \in NumberTexts : s \in Seq(0 .. 255) /\ s # <<>>
ASSUME IntegersAssumption == Integers32 \subseteq -MaxInt - 1 .. MaxInt
ASSUME DoublesAssumption ==
  \A d \in Doubles : d.parts \in Int /\ d.prec \in 0 .. 9 /\ d.always \in BOOLEAN
ASSUME ElementsAssumption ==
  \A s \in ElementLists : s \in Seq([key : Seq(0 .. 255), value : Seq(0 .. 255), na : BOOLEAN])
ASSUME IndentsAssumption == Indents \subseteq [ni : Nat, spaces : Nat]
ASSUME PiecesAssumption == \A s \in PieceLists : s \in Seq(0 .. SizeLimit - 1)
ASSUME PlacesAssumption ==
  \A p \in ErrorPlaces : p.text \in Seq(0 .. 255) /\ p.offset \in Nat

VARIABLES
  route,   \* the kind of value that is converted
  origin   \* the value that the first function was given

conversionVars == <<vars, route, origin>>

Init ==
  /\ fn = "idle" /\ at = "return" /\ input = <<>> /\ arg = 0 /\ cur = 1
  /\ counts = <<0>> /\ size = 0 /\ out = <<>> /\ acc = 0
  /\ route = "none" /\ origin = 0

-----------------------------------------------------------------------------
(* R code calls                                                            *)

Begin(kind, value) == route' = kind /\ origin' = value

CallEscape(x) == Call(Escaper, "count", x, 0)

Start ==
  /\ fn = "idle"
  /\ \/ \E s \in Strings : Begin("string", s) /\ CallEscape(s)
     \/ \E s \in Spelled : Begin("spelled", s.bytes) /\ CallDecode(s.text)
     \/ \E s \in Raws, kind \in {"raw", "url"} : Begin(kind, s) /\ CallBase64Encode(s)
     \/ \E s \in Base64Texts : Begin("base64", s) /\ CallBase64Decode(s)
     \/ \E v \in Integers32 : Begin("integer", v) /\ CallWriteInteger(v)
     \/ \E s \in NumberTexts : Begin("number", s) /\ CallParseInteger(s)
     \/ \E d \in Doubles : Begin("double", d.parts) /\ CallWriteDouble(d.parts, d.prec, d.always)
     \/ \E s \in ElementLists, f \in Joiners, i \in Indents : Begin("elements", s) /\ CallJoin(f, s, i)
     \/ \E s \in PieceLists : Begin("pieces", s) /\ CallAppend(s)
     \/ \E p \in ErrorPlaces : Begin("error", p) /\ CallRender(p.text, p.offset)

-----------------------------------------------------------------------------
(* What one function has written, another is given                         *)

Has(f, kinds) == fn = f /\ at = "return" /\ route \in kinds /\ UNCHANGED <<route, origin>>

Inside(text) == SubSeq(text, 2, Len(text) - 1)

ReadEscaped  == Has(Escaper, {"string", "raw"}) /\ CallDecode(Inside(out))
PrettifyText == Has(Decoder, {"string"}) /\ CallEncode(out, TRUE)
ReadEncoded  == Has(Encoder, {"string"}) /\ CallDecode(out)
EscapeBase64 == Has(Base64Encoder, {"raw"}) /\ CallEscape(out)
ReadBase64   == Has(Decoder, {"raw"}) /\ CallBase64Decode(out)
ReadUrl      == Has(Base64Encoder, {"url"}) /\ CallBase64Decode(base64url_dec(base64url_enc(out)))
ReadInteger  == Has(IntegerWriter, {"integer"}) /\ origin # NA /\ CallParseInteger(out)

ReadNumber ==
  /\ fn = IntegerParser /\ at \in {"return", "range"}
  /\ \E bigint \in BOOLEAN : CallParseValue(bigint)
  /\ UNCHANGED <<route, origin>>

HandOver ==
  \/ ReadEscaped \/ PrettifyText \/ ReadEncoded
  \/ EscapeBase64 \/ ReadBase64 \/ ReadUrl
  \/ ReadInteger \/ ReadNumber

(* The R code has its answer, or an R error; abort() ends the process, and *)
(* another one begins.                                                     *)
Answered ==
  \/ at \in {"failed", "abort"}
  \/ /\ at = "return"
     /\ \/ fn \in Joiners \cup {Appender, DoubleWriter, Renderer, ValueParser, Base64Decoder}
        \/ fn = IntegerWriter /\ origin = NA
        \/ fn = Decoder /\ route \in {"string", "spelled"}

Return ==
  /\ Answered
  /\ fn' = "idle" /\ at' = "return" /\ input' = <<>> /\ arg' = 0 /\ cur' = 1
  /\ counts' = <<0>> /\ size' = 0 /\ out' = <<>> /\ acc' = 0
  /\ route' = "none" /\ origin' = 0

Running ==
  /\ EscapeNext \/ CodingNext \/ BufNext \/ Base64Next \/ CollapseNext \/ NumberNext \/ RenderNext
  /\ UNCHANGED <<route, origin>>

Next == Start \/ Running \/ HandOver \/ Return

Spec == Init /\ [][Next]_conversionVars

-----------------------------------------------------------------------------
(* Safety *)

(* No function writes outside the memory it has reserved.                  *)
Fits == EscapeFits /\ BufFits /\ Base64Fits /\ CollapseFits /\ RenderFits

(* A string that is read by the parser has no raw quote at which it would  *)
(* end, no control character at which it would be refused, and no "</".    *)
SafeText ==
  fn = Decoder /\ route \in {"string", "raw"} =>
    /\ InLoop(Decoder, "loop") => input[cur] \notin Control \cup {Quote}
    /\ \A k \in 1 .. Len(input) - 1 : ~(input[k] = Less /\ input[k + 1] = Slash)

(* What toJSON has written is a JSON text that fromJSON reads as the value *)
(* it came from, also after prettify: strings, raw vectors, integers.      *)
ReadBack ==
  /\ SafeText
  /\ route = "string" /\ fn = Decoder /\ at = "return" => out = origin
  /\ route \in {"raw", "url"} /\ fn = Base64Decoder /\ at = "return" => out = origin
  /\ route \in {"raw", "url"} /\ at = "failed" => origin = <<>>
  /\ route = "integer" /\ fn = ValueParser => arg.type = "integer" /\ acc = origin
=============================================================================
