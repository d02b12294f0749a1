------------------------------ MODULE JsonGrammar ------------------------------
(***************************************************************************)
(* The JSON grammar (RFC 8259), on tokens: the reference the parser is     *)
(* compared with.  It is written from the grammar and shares no definition *)
(* with the parser.  A value is a literal, an array of values or an object *)
(* of pairs; here it is also the tree that the text denotes.               *)
(***************************************************************************)
EXTENDS Integers, Sequences

Brackets == {"left_brace", "right_brace", "left_bracket", "right_bracket",
             "comma", "colon"}

IsLiteral(t) == t.tok \notin Brackets \cup {"error"}
IsString(t) == t.tok \in {"string", "string_with_escapes"}

Before(s, i) == SubSeq(s, 1, i - 1)
After(s, i)  == SubSeq(s, i + 1, Len(s))
Inside(s)    == SubSeq(s, 2, Len(s) - 1)

Enclosed(s, open, close) ==
  Len(s) >= 2 /\ s[1].tok = open /\ s[Len(s)].tok = close

RECURSIVE IsJson(_), IsElements(_), IsMembers(_)

IsJson(s) ==
  \/ Len(s) = 1 /\ IsLiteral(s[1])
  \/ /\ Enclosed(s, "left_brace", "right_brace")
     /\ Inside(s) = <<>> \/ IsElements(Inside(s))
  \/ /\ Enclosed(s, "left_bracket", "right_bracket")
     /\ Inside(s) = <<>> \/ IsMembers(Inside(s))

IsElements(s) ==
  \/ IsJson(s)
  \/ \E i \in 1 .. Len(s) :
       s[i].tok = "comma" /\ IsJson(Before(s, i)) /\ IsElements(After(s, i))

IsPair(s) ==
  Len(s) >= 3 /\ IsString(s[1]) /\ s[2].tok = "colon" /\ IsJson(After(s, 2))

IsMembers(s) ==
  \/ IsPair(s)
  \/ \E i \in 1 .. Len(s) :
       s[i].tok = "comma" /\ IsPair(Before(s, i)) /\ IsMembers(After(s, i))

\* One JSON text or several, one after the other.
RECURSIVE IsJsonStream(_)
IsJsonStream(s) ==
  \/ IsJson(s)
  \/ \E i \in 1 .. Len(s) - 1 : IsJson(Before(s, i + 1)) /\ IsJsonStream(After(s, i))

(***************************************************************************)
(* The value a JSON text denotes: its type, the text of a literal, the     *)
(* keys of an object and the values of an object or an array, in the order *)
(* of the text.  Duplicate keys are kept.                                  *)
(***************************************************************************)
Value(type, text, keys, values) ==
  [type |-> type, text |-> text, keys |-> keys, values |-> values]

LiteralType(t) ==
  CASE IsString(t)                     -> "string"
    [] t.tok \in {"integer", "double"} -> "number"
    [] OTHER                           -> t.tok

\* The position of the first comma that ends an element or a pair of s.
FirstComma(s, IsItem(_)) ==
  CHOOSE i \in 1 .. Len(s) + 1 :
    /\ i = Len(s) + 1 \/ s[i].tok = "comma"
    /\ IsItem(Before(s, i))

RECURSIVE Denoted(_), DenotedElements(_), DenotedValues(_), DenotedKeys(_)

Denoted(s) ==
  IF Len(s) = 1 THEN Value(LiteralType(s[1]), s[1].text, <<>>, <<>>)
  ELSE IF s[1].tok = "left_brace"
       THEN Value("array", "", <<>>, DenotedElements(Inside(s)))
       ELSE Value("object", "", DenotedKeys(Inside(s)), DenotedValues(Inside(s)))

DenotedElements(s) ==
  IF s = <<>> THEN <<>>
  ELSE LET i == FirstComma(s, IsJson)
       IN  <<Denoted(Before(s, i))>> \o DenotedElements(After(s, i))

DenotedValues(s) ==
  IF s = <<>> THEN <<>>
  ELSE LET i == FirstComma(s, IsPair)
       IN  <<Denoted(After(Before(s, i), 2))>> \o DenotedValues(After(s, i))

DenotedKeys(s) ==
  IF s = <<>> THEN <<>>
  ELSE LET i == FirstComma(s, IsPair)
       IN  <<s[1].text>> \o DenotedKeys(After(s, i))
=============================================================================
