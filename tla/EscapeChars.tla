------------------------------ MODULE EscapeChars ------------------------------
(***************************************************************************)
(* C_escape_chars_one, src/src/escape_chars.c: toJSON's writer of strings. *)
(* The first loop counts by how much each character grows, the second      *)
(* writes it; the R string is made from the length that was counted.       *)
(***************************************************************************)
EXTENDS Conversion

Escaper == "C_escape_chars_one"

AfterLess(k) == k > 1 /\ input[k - 1] = Less

\* Slip: no look at the character before.
MatchesAnySlash(k) ==
  CASE input[k] \in DOMAIN Letter -> 1
    [] input[k] = Slash           -> 1
    [] input[k] \in Control \ DOMAIN Letter -> 5
    [] OTHER                      -> 0

Matches(k) ==
  CASE input[k] \in DOMAIN Letter           -> 1
    [] input[k] = Slash                     -> IF AfterLess(k) THEN 1 ELSE 0
    [] input[k] \in Control \ DOMAIN Letter -> 5
    [] OTHER                                -> 0

\* "\\u%04x" of a character below 32
Hexadecimal(b) == <<Backslash, LetterU, Zero, Zero, HexLower(b \div 16), HexLower(b % 16)>>

Escaped(k) ==
  CASE input[k] \in DOMAIN Letter           -> <<Backslash, Letter[input[k]]>>
    [] input[k] = Slash                     -> IF AfterLess(k) THEN <<Backslash, Slash>> ELSE <<Slash>>
    [] input[k] \in Control \ DOMAIN Letter -> Hexadecimal(input[k])
    [] OTHER                                -> <<input[k]>>

CountMatches == InLoop(Escaper, "count") /\ CountOne(Matches(cur))

ReserveEscaped ==
  /\ AfterLoop(Escaper, "count")
  /\ Reserve(Len(input) + Last(counts) + 2, <<Quote>>)

WriteEscaped == InLoop(Escaper, "write") /\ WriteOne(Escaped(cur))

\* mkCharLenCE(newstr, outlen)
CloseQuote == AfterLoop(Escaper, "write") /\ Finished(Append(out, Quote))

EscapeNext == CountMatches \/ ReserveEscaped \/ WriteEscaped \/ CloseQuote

-----------------------------------------------------------------------------

(* The escaped text never leaves the memory that was counted for it, nor   *)
(* does the NUL that snprintf puts behind an escape of six characters; and *)
(* it fills that memory, whose length is the length of the R string.       *)
EscapeFits ==
  fn = Escaper =>
    /\ at = "write" => Len(out) < size
    /\ at = "write" /\ cur <= Len(input) /\ input[cur] \in Control \ DOMAIN Letter
         => Len(out) + 7 <= size
    /\ at = "return" => Len(out) = size
=============================================================================
