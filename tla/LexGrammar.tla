------------------------------ MODULE LexGrammar ------------------------------
(***************************************************************************)
(* The tokens of JSON (RFC 8259) as sets of words, and comments: the       *)
(* reference for the lexer.  A word is a sequence of characters, named as  *)
(* in YajlLexer; no definition is shared with it.  The grammar is written  *)
(* on positions: "from i to j" is what follows the first i characters of   *)
(* a word, up to the one at j.                                             *)
(***************************************************************************)
EXTENDS Integers, Sequences

Drop(w, n) == SubSeq(w, n + 1, Len(w))

\* The positions up to to that pieces of w, one after the other, end at.
Reached(Pieces, from, to) ==
  LET ends[n \in 0 .. to] ==
        IF n = 0 THEN {from}
        ELSE ends[n - 1] \cup {m \in {n} : \E i \in ends[n - 1] : <<i, m>> \in Pieces}
  IN  ends[to]

-----------------------------------------------------------------------------
(* Numbers *)

Numerals == {"0", "1"}
AreDigits(w, first, to) == first <= to /\ \A k \in first .. to : w[k] \in Numerals

FirstDigit(w) == IF w # <<>> /\ w[1] = "-" THEN 2 ELSE 1
IntTo(w, i) ==
  AreDigits(w, FirstDigit(w), i) /\ (w[FirstDigit(w)] = "0" => i = FirstDigit(w))
FracTo(w, i, j) == j = i \/ (i < j /\ w[i + 1] = "." /\ AreDigits(w, i + 2, j))
ExpTo(w, j, n) ==
  \/ n = j
  \/ /\ j < n
     /\ w[j + 1] = "e"
     /\ \/ AreDigits(w, j + 2, n)
        \/ j + 2 <= n /\ w[j + 2] \in {"+", "-"} /\ AreDigits(w, j + 3, n)

IsInt(w)  == IntTo(w, Len(w))
IsReal(w) == \E i \in 1 .. Len(w) : \E j \in i .. Len(w) :
               IntTo(w, i) /\ FracTo(w, i, j) /\ ExpTo(w, j, Len(w))

-----------------------------------------------------------------------------
(* Strings *)

Plain   == {" ", "0", "1", "a", "e", "f", "n", "r", "t", "u", "l", "s", "x",
            "/", "*", "-", "+", ".", "{", "}", "[", "]", ",", ":"}
Escaped == {"quote", "backslash", "/", "f", "n", "r", "t"}
Tails   == [lead2 |-> 1, lead3 |-> 2, lead4 |-> 3]

\* A character or an escape in a string.
IsUnit(w, i, j) ==
  \/ j = i + 1 /\ w[j] \in Plain
  \/ j = i + 2 /\ w[i + 1] = "backslash" /\ w[j] \in Escaped
  \/ /\ j = i + 6 /\ w[i + 1] = "backslash" /\ w[i + 2] = "u"
     /\ \A k \in i + 3 .. j : w[k] \in {"0", "1", "a", "e", "f"}
  \/ /\ w[i + 1] \in DOMAIN Tails /\ j = i + 1 + Tails[w[i + 1]]
     /\ \A k \in i + 2 .. j : w[k] = "cont"

Units(w, from, to) ==
  {p \in (from .. to) \X (from .. to) : p[1] < p[2] /\ IsUnit(w, p[1], p[2])}
IsBody(w, from, to) == to \in Reached(Units(w, from, to), from, to)

IsQuoted(w) ==
  Len(w) > 1 /\ w[1] = "quote" /\ w[Len(w)] = "quote" /\ IsBody(w, 1, Len(w) - 1)
HasEscape(w) == \E i \in 1 .. Len(w) : w[i] = "backslash"

-----------------------------------------------------------------------------
(* Tokens, space and comments *)

MarkNames == [left_bracket |-> "{", right_bracket |-> "}", left_brace |-> "[",
              right_brace |-> "]", comma |-> ",", colon |-> ":"]
Bools == {<<"t", "r", "u", "e">>, <<"f", "a", "l", "s", "e">>}
Null  == <<"n", "u", "l", "l">>

\* w is a word of the token tok.
IsWord(tok, w) ==
  CASE tok = "integer"             -> IsInt(w)
    [] tok = "double"              -> IsReal(w) /\ ~IsInt(w)
    [] tok = "string"              -> IsQuoted(w) /\ ~HasEscape(w)
    [] tok = "string_with_escapes" -> IsQuoted(w) /\ HasEscape(w)
    [] tok = "bool"                -> w \in Bools
    [] tok = "null"                -> w = Null
    [] tok \in DOMAIN MarkNames    -> w = <<MarkNames[tok]>>

TokenNames == {"integer", "double", "string", "string_with_escapes", "bool", "null"}
                \cup DOMAIN MarkNames
IsToken(w) == \E tok \in TokenNames : IsWord(tok, w)

IsLineComment(w, i, j) ==
  /\ i + 2 < j /\ w[i + 1] = "/" /\ w[i + 2] = "/" /\ w[j] = "newline"
  /\ \A k \in i + 3 .. j - 1 : w[k] # "newline"
IsBlockComment(w, i, j) ==
  /\ i + 3 < j /\ w[i + 1] = "/" /\ w[i + 2] = "*" /\ w[j - 1] = "*" /\ w[j] = "/"
  /\ \A k \in i + 3 .. j - 2 : ~(w[k] = "*" /\ w[k + 1] = "/")
IsCommentIn(w, i, j) == IsLineComment(w, i, j) \/ IsBlockComment(w, i, j)
IsComment(w) == IsCommentIn(w, 0, Len(w))

\* The space of RFC 8259 ("tab" is \t or \r), and what this lexer takes for
\* space besides ("vtab" is \v or \f).
JsonSpace  == {" ", "newline", "tab"}
OtherSpace == {"vtab"}

\* A character of space or, where they are allowed, a comment.
IsGap(w, i, j, comments) ==
  \/ j = i + 1 /\ w[j] \in JsonSpace \cup OtherSpace
  \/ comments /\ IsCommentIn(w, i, j)
Gaps(w, from, to, comments) ==
  {p \in (from .. to) \X (from .. to) : p[1] < p[2] /\ IsGap(w, p[1], p[2], comments)}
IsBlank(w, from, to, comments) == to \in Reached(Gaps(w, from, to, comments), from, to)

Filled(n, c) == [i \in 1 .. n |-> c]

HexEnds     == {Filled(n, "0") \o <<"quote">> : n \in 0 .. 4}
Utf8Ends    == {Filled(n, "cont") \o <<"quote">> : n \in 1 .. 3}
LiteralEnds == {Drop(w, n) : w \in Bools \cup {Null}, n \in 1 .. 4}

\* What may be missing at the end of the beginning of a token or a comment.
Completions == {<<>>, <<"0">>, <<"n", "quote">>} \cup HexEnds \cup Utf8Ends \cup LiteralEnds
CommentEnds == {<<>>, <<"/", "newline">>, <<"newline">>, <<"*", "/">>, <<"/">>}

\* w is the beginning of a token or, where they are allowed, of a comment.
IsBeginning(w, comments) ==
  \/ w = <<>>
  \/ \E c \in Completions : IsToken(w \o c)
  \/ comments /\ \E c \in CommentEnds : IsComment(w \o c)
=============================================================================
