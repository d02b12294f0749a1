---------------------------- MODULE MCConversions ----------------------------
(***************************************************************************)
(* Small instance of Conversions: short texts over the characters that the *)
(* functions tell apart, small limits for the integers, small buffers, and *)
(* what a converted text or number should be, defined from its meaning.    *)
(***************************************************************************)
EXTENDS Meanings

Sequences(S, lengths) == UNION {[1 .. n -> S] : n \in lengths}

MCStrings == Sequences({Newline, 31, Quote, Slash, Less, 65, Backslash}, 0 .. 4)

MCRaws ==
  {[k \in 1 .. n |-> (37 * k + d) % 256] : n \in 0 .. 13, d \in {0, 90, 201}}
    \cup Sequences({0, 61, 128, 255}, 0 .. 3)

MCBase64Texts ==
  Sequences({65, 81, Equals, Newline, 200}, 0 .. 4)
    \cup {s \o <<81>> \o t : s \in [1 .. 3 -> {81, Equals}], t \in Sequences({Equals, 81}, 3 .. 4)}

MCIntegers == -MaxInt - 1 .. MaxInt

Text(digits) == [k \in 1 .. Len(digits) |-> Zero + digits[k]]
MCNumberTexts ==
  LET plain == {<<d>> : d \in 0 .. 9} \cup {<<a, b>> : a \in 1 .. 9, b \in 0 .. 9}
                 \cup {<<a, b, c>> : a \in {1, 2, 9}, b \in 0 .. 9, c \in 0 .. 9}
                 \cup {<<a, b, c, d>> : a \in {1, 2}, b \in {2, 8}, c \in 0 .. 9, d \in 0 .. 9}
      texts == {Text(d) : d \in plain} \cup {<<49, Point, 53>>, <<49, 101, 50>>}
  IN  texts \cup {<<Minus>> \o t : t \in texts}

MCDoubles ==
  [parts : (-90 .. 90) \ {0}, prec : 0 .. 3, always : {FALSE}]
    \cup [parts : {-16, 8, 20, 160}, prec : {0, 2}, always : {TRUE}]

MCElementLists ==
  Sequences({Element(<<Quote, 97, Quote>>, <<49>>), Element(<<Quote, Quote>>, <<Quote, 98, Quote>>),
             NAElement(<<Quote, 99, Quote>>)}, 0 .. 3)
MCIndents == {[ni |-> 0, spaces |-> 0], [ni |-> 0, spaces |-> 2], [ni |-> 2, spaces |-> 2]}

MCPieceLists == Sequences({0, 1, 3, 4, 9, 40, 63}, 0 .. 3)

\* An offset may belong to the one space that ends a parse.
MCErrorPlaces ==
  {p \in [text : {[k \in 1 .. n |-> IF k % 3 = 0 THEN Newline ELSE 64 + k] : n \in 0 .. 11},
          offset : 0 .. 11] : p.offset <= Len(p.text) \/ p.offset <= 1}

-----------------------------------------------------------------------------
(* The meaning of the escapes of a string: its UTF-16 code units.          *)

Unicode(u, Hex4(_)) ==
  <<Backslash, LetterU, Hex4(u \div 4096), Hex4((u \div 256) % 16),
    Hex4((u \div 16) % 16), Hex4(u % 16)>>

\* text, and either the bytes it stands for or a code unit
Items ==
  {[text |-> <<65>>, bytes |-> <<65>>, unit |-> -1],
   [text |-> <<195, 169>>, bytes |-> <<195, 169>>, unit |-> -1],
   [text |-> <<Backslash, 110>>, bytes |-> <<Newline>>, unit |-> -1],
   [text |-> <<Backslash, Slash>>, bytes |-> <<Slash>>, unit |-> -1]}
  \cup {[text |-> Unicode(u, HexLower), bytes |-> <<>>, unit |-> u] :
          u \in {0, 127, 233, 8364, 55357, 56319, 56832, 57343}}
  \cup {[text |-> Unicode(u, HexUpper), bytes |-> <<>>, unit |-> u] : u \in {55357, 56832}}

Utf8(point) ==
  LET n == CASE point < 128 -> 1 [] point < 2048 -> 2 [] point < 65536 -> 3 [] OTHER -> 4
  IN  [k \in 1 .. n |-> IF k = 1 THEN <<0, 192, 224, 240>>[n] + point \div 64^(n - 1)
                                 ELSE 128 + ((point \div 64^(n - k)) % 64)]

IsHigh(item) == item.unit \in 55296 .. 56319
IsLow(item)  == item.unit \in 56320 .. 57343

\* A pair of surrogates is one character, and a high one alone is "?".
RECURSIVE Meant(_)
Meant(items) ==
  IF items = <<>> THEN <<>>
  ELSE IF Len(items) > 1 /\ IsHigh(items[1]) /\ IsLow(items[2])
    THEN Utf8(65536 + (items[1].unit - 55296) * 1024 + (items[2].unit - 56320))
           \o Meant(Tail(Tail(items)))
  ELSE (IF items[1].unit = -1 THEN items[1].bytes
        ELSE IF IsHigh(items[1]) THEN <<Question>> ELSE Utf8(items[1].unit))
         \o Meant(Tail(items))

RECURSIVE TextOf(_)
TextOf(items) == IF items = <<>> THEN <<>> ELSE items[1].text \o TextOf(Tail(items))

MCSpelled == {[text |-> TextOf(s), bytes |-> Meant(s)] : s \in Sequences(Items, 0 .. 3)}

(* yajl_string_decode turns the escapes of a string into the UTF-8 of the  *)
(* characters that they mean, two surrogates into one character, whatever  *)
(* stands before and after them, and a high one that stands alone into "?".*)
DecodedAsSpelled == route = "spelled" /\ fn = Decoder /\ at = "return" => out = origin

-----------------------------------------------------------------------------
(* The elements, with commas between them                                  *)

RECURSIVE Listed(_)
Listed(items) ==
  IF items = <<>> THEN <<>>
  ELSE (IF fn \in ObjectJoiners THEN items[1].key \o <<Colon>> \o items[1].value
                                ELSE items[1].value)
         \o (IF Len(items) = 1 THEN <<>> ELSE <<Comma>> \o Listed(Tail(items)))

(* Without white space and the NUL at its end, what the functions that     *)
(* collapse return is the elements, or the members that are not NA, with   *)
(* commas between them and brackets around them, pretty or not; and the    *)
(* closing bracket of the pretty ones stands behind its indentation.       *)
CollapsedIsJson ==
  fn \in Joiners /\ at = "return" =>
    LET dense == SelectSeq(out, LAMBDA c : c \notin {Space, Newline, NUL})
        kept  == SelectSeq(input, LAMBDA e : ~Skipped(e))
    IN  /\ dense = (IF fn \in ObjectJoiners THEN <<OpenBracket>> ELSE <<OpenBrace>>)
                     \o Listed(kept)
                     \o (IF fn \in ObjectJoiners THEN <<CloseBracket>> ELSE <<CloseBrace>>)
        /\ \A k \in 1 .. Len(out) : out[k] = NUL <=> k = Len(out)
        /\ fn \in {"C_collapse_object_pretty", "C_collapse_array_pretty_outer"} /\ kept # <<>>
             => SubSeq(out, Len(out) - arg.ni - 2, Len(out) - 2) = <<Newline>> \o Whitespace(arg.ni)
=============================================================================
