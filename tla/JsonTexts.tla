------------------------------- MODULE JsonTexts -------------------------------
(***************************************************************************)
(* The JSON grammar (RFC 8259) as a generator, on tokens: every value with *)
(* its text and the tree that it denotes.  It is written from the grammar  *)
(* and shares no definition with the parser.                               *)
(*                                                                         *)
(* A phrase is a text with the keys and the values that it lists, in the   *)
(* order of the text.  The phrases of a grammar rule are put together from *)
(* shorter ones, so the rules are a table by the number of tokens.         *)
(***************************************************************************)
EXTENDS Integers, Sequences

CONSTANTS
  Lexemes,       \* the tokens that may occur in a text
  SeveralValues  \* a text may hold several values, one after the other

Punctuation == {"left_brace", "right_brace", "left_bracket", "right_bracket",
                "comma", "colon"}

SpellsKey(t)     == t.tok \in {"string", "string_with_escapes"}
SpellsLiteral(t) == t.tok \notin Punctuation \cup {"error"}

\* A JSON value: the text of a literal, the keys of an object, the values of
\* an object or an array.  Duplicate keys are kept.
JsonValue(type, text, keys, values) ==
  [type |-> type, text |-> text, keys |-> keys, values |-> values]

TypeSpelled(t) ==
  CASE SpellsKey(t)                      -> "string"
    [] t.tok \in {"integer", "double"}   -> "number"
    [] OTHER                             -> t.tok

-----------------------------------------------------------------------------

Phrase(text, keys, values) == [text |-> text, keys |-> keys, values |-> values]
EmptyPhrase == Phrase(<<>>, <<>>, <<>>)

Joined(p, q) == Phrase(p.text \o q.text, p.keys \o q.keys, p.values \o q.values)

\* A phrase of A, and after it one of B.
Then(A, B) == {Joined(p, q) : p \in A, q \in B}

Symbol(tok) == {Phrase(<<t>>, <<>>, <<>>) : t \in {l \in Lexemes : l.tok = tok}}
Keys == {Phrase(<<t>>, <<t.text>>, <<>>) : t \in {l \in Lexemes : SpellsKey(l)}}
Literals == {Phrase(<<t>>, <<>>, <<JsonValue(TypeSpelled(t), t.text, <<>>, <<>>)>>) :
               t \in {l \in Lexemes : SpellsLiteral(l)}}

\* The elements or pairs that p lists, taken together as one value.
AsArray(p)  == Phrase(p.text, <<>>, <<JsonValue("array", "", <<>>, p.values)>>)
AsObject(p) == Phrase(p.text, <<>>, <<JsonValue("object", "", p.keys, p.values)>>)

\* The phrases of a rule with k tokens, which may be none.
Listed(rows, k, rule) == IF k > 0 THEN rows[k][rule] ELSE {}
Within(rows, k, rule) == Listed(rows, k, rule) \cup (IF k = 0 THEN {EmptyPhrase} ELSE {})

\* An item alone, or an item, a separator and the rest of the list.
ListOf(rows, n, items, item, rule) ==
  items \cup UNION {Then(rows[k][item], Then(Symbol("comma"), rows[n - 1 - k][rule])) :
                      k \in 1 .. n - 2}

(* The phrases with n tokens, for each rule, from those with fewer.        *)
Row(n, rows) ==
  LET arrays  == Then(Symbol("left_brace"),
                      Then(Within(rows, n - 2, "elements"), Symbol("right_brace")))
      objects == Then(Symbol("left_bracket"),
                      Then(Within(rows, n - 2, "members"), Symbol("right_bracket")))
      values  == (IF n = 1 THEN Literals ELSE {}) \cup {AsArray(p) : p \in arrays}
                   \cup {AsObject(p) : p \in objects}
      longer  == UNION {Then(rows[k].values, rows[n - k].streams) : k \in 1 .. n - 1}
      pairs   == Then(Keys, Then(Symbol("colon"), Listed(rows, n - 2, "values")))
  IN  [values   |-> values,
       elements |-> ListOf(rows, n, values, "values", "elements"),
       pairs    |-> pairs,
       members  |-> ListOf(rows, n, pairs, "pairs", "members"),
       streams  |-> values \cup (IF SeveralValues THEN longer ELSE {})]

Rows[n \in Nat] ==
  IF n = 0 THEN <<>> ELSE LET shorter == Rows[n - 1] IN Append(shorter, Row(n, shorter))
=============================================================================
