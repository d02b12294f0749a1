-------------------------------- MODULE Meanings --------------------------------
(***************************************************************************)
(* What the result of a conversion should be, from the meaning of texts    *)
(* and numbers.                                                            *)
(***************************************************************************)
EXTENDS Conversions

-----------------------------------------------------------------------------
(* The meaning of the digits of a number                                   *)

\* What the digits denote that are among the first n characters.
Amount(text) ==
  LET amount[n \in 0 .. Len(text)] ==
        IF n = 0 THEN 0
        ELSE IF text[n] \in Digits THEN amount[n - 1] * 10 + (text[n] - Zero)
        ELSE amount[n - 1]
  IN  amount

Value(text)     == Amount(text)[Len(text)]
IntegerOf(text) == IF text[1] = Minus THEN -Value(text) ELSE Value(text)
IsInteger(text) == \A k \in 1 .. Len(text) : text[k] \in Digits \/ (k = 1 /\ text[k] = Minus)

(* The R value of a number has a type that holds it: an integer, never the *)
(* one that means NA, or a string of the digits where asked for and where  *)
(* a double may lose one; and every integer of R is read as an integer.    *)
TypeHoldsValue ==
  route = "number" /\ fn = ValueParser =>
    LET known == IsInteger(origin) /\ IntegerOf(origin) \in Lowest .. Long
        v     == IntegerOf(origin)
    IN  /\ arg.type \in {"integer", "character"} => known /\ acc = v
        /\ arg.type = "integer" <=> known /\ v # NA /\ v \in -MaxInt - 1 .. MaxInt
        /\ arg.type = "character" => arg.bigint
        /\ arg.type = "double" /\ known /\ arg.bigint => Abs(v) <= MaxExact

\* The digits after the point.
Decimals(text) ==
  IF \E k \in 1 .. Len(text) : text[k] = Point
    THEN Len(text) - (CHOOSE k \in 1 .. Len(text) : text[k] = Point) ELSE 0

(* A double is written as the decimal number of at most prec digits after  *)
(* the point that is nearest to it, the even one of two that are equally   *)
(* near, with its sign and without zeros at the end.  This is so where the *)
(* multiplication of modp_dtoa2 is exact, as it is for every number of     *)
(* Parts; where it rounds a tie may go the other way: 0.295 is not a tie,  *)
(* 0.295 * 100 is one in double arithmetic, and 2 digits of it are 0.3.    *)
NearestDecimal ==
  fn = DoubleWriter /\ at = "return" =>
    LET shown  == Value(out) * 10^(arg.prec - Decimals(out))
        wanted == Abs(arg.parts) * 10^arg.prec
        off    == Abs(shown * Parts - wanted)
    IN  arg.always \/
          /\ Decimals(out) <= arg.prec
          /\ 2 * off < Parts \/ (2 * off = Parts /\ shown % 2 = 0)
          /\ (out[1] = Minus) = (arg.parts < 0)
          /\ Decimals(out) > 0 => Last(out) # Zero
=============================================================================
