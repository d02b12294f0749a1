-------------------------------- MODULE Numbers --------------------------------
(***************************************************************************)
(* Numbers written and read.  toJSON: R_num_to_char for an integer, with   *)
(* modp_itoa10, and for a double of fixed digits, with modp_dtoa2 (the     *)
(* other formats are snprintf).  fromJSON: yajl_parse_integer, and what    *)
(* ParseValue of src/src/parse.c makes of it.                              *)
(*                                                                         *)
(* A double is a number of parts of 1 / Parts, a power of two, so that the *)
(* arithmetic of modp_dtoa2 on it is exact.  strtod is outside.            *)
(***************************************************************************)
EXTENDS Conversion

CONSTANTS
  MaxInt,    \* INT_MAX of R; NA is the integer below -MaxInt
  MaxExact,  \* 2^53, up to which a double holds every integer
  Parts      \* a double is a multiple of 1 / Parts

ASSUME NumbersAssumption ==
  /\ MaxInt \in Nat /\ MaxExact \in Nat /\ MaxInt <= MaxExact /\ MaxExact <= Long
  /\ Parts \in Nat \ {0}

NA == -MaxInt - 1

Abs(v) == IF v < 0 THEN -v ELSE v
Digits == Zero .. Zero + 9

-----------------------------------------------------------------------------
(* R_num_to_char of an integer, and modp_itoa10: acc is uvalue.            *)

IntegerWriter == "modp_itoa10"
DoubleWriter  == "modp_dtoa2"

Null == <<110, 117, 108, 108>>

CallWriteInteger(value) ==
  /\ fn' = IntegerWriter /\ input' = <<>> /\ cur' = 1 /\ counts' = <<0>> /\ size' = 0
  /\ arg' = [negative |-> value < 0]
  /\ IF value = NA
       THEN at' = "return" /\ out' = Null /\ acc' = 0
       ELSE at' = "digits" /\ out' = <<>> /\ acc' = Abs(value)

\* do ... while: the digits, the last one first
WriteDigit ==
  /\ fn \in {IntegerWriter, DoubleWriter} /\ at = "digits"
  /\ out' = Append(out, Zero + (acc % 10))
  /\ acc' = acc \div 10
  /\ at' = IF acc \div 10 = 0 THEN "sign" ELSE at
  /\ UNCHANGED <<fn, input, arg, cur, counts, size>>

\* Slip: the sign is written after the digits have been turned round.
SignedLast == Reversed(out) \o (IF arg.negative THEN <<Minus>> ELSE <<>>)
Signed == Reversed(IF arg.negative THEN Append(out, Minus) ELSE out)

WriteSign ==
  /\ fn = IntegerWriter /\ at = "sign"
  /\ Finished(Signed)

-----------------------------------------------------------------------------
(* R_num_to_char of a double, and modp_dtoa2: acc is frac, then whole.     *)

powers_of_10 == <<1, 10, 100, 1000, 10000, 100000, 1000000, 10000000, 100000000, 1000000000>>

\* Slip: a half is always rounded up.
RoundsUpHalf(diff, prec, frac, whole) == 2 * diff >= Parts

RoundsUp(diff, prec, frac, whole) ==
  \/ 2 * diff > Parts
  \/ 2 * diff = Parts /\ (IF prec > 0 THEN frac ELSE whole) % 2 = 1

\* The number of parts, the digits after the point, always_decimal.  A number
\* of parts stands for the doubles whose product with the power of ten is exact:
\* the code multiplies in double arithmetic, which rounds 0.295 * 100 up to 29.5.
CallWriteDouble(parts, prec, always) ==
  LET whole == Abs(parts) \div Parts
      tmp   == (Abs(parts) % Parts) * powers_of_10[prec + 1]
      frac  == tmp \div Parts
      up    == IF RoundsUp(tmp % Parts, prec, frac, whole) THEN frac + 1 ELSE frac
      over  == up >= powers_of_10[prec + 1]
  IN  /\ fn' = DoubleWriter /\ at' = "zeros" /\ input' = <<>> /\ cur' = 1
      /\ counts' = <<0>> /\ size' = 0 /\ out' = <<>>
      /\ arg' = [negative |-> parts < 0, always |-> always, prec |-> prec, parts |-> parts,
                 whole |-> IF over THEN whole + 1 ELSE whole, count |-> prec]
      /\ acc' = IF over THEN 0 ELSE up

DropZero ==
  /\ fn = DoubleWriter /\ at = "zeros"
  /\ arg.count > 0 /\ acc % 10 = 0
  /\ arg' = [arg EXCEPT !.count = @ - 1]
  /\ acc' = acc \div 10
  /\ UNCHANGED <<fn, at, input, cur, counts, size, out>>

ZerosDropped ==
  /\ fn = DoubleWriter /\ at = "zeros"
  /\ ~(arg.count > 0 /\ acc % 10 = 0)
  /\ at' = "fraction"
  /\ UNCHANGED <<fn, input, arg, cur, counts, size, out, acc>>

WriteFraction ==
  /\ fn = DoubleWriter /\ at = "fraction"
  /\ arg.count > 0
  /\ out' = Append(out, Zero + (acc % 10))
  /\ arg' = [arg EXCEPT !.count = @ - 1]
  /\ acc' = acc \div 10
  /\ UNCHANGED <<fn, at, input, cur, counts, size>>

WritePoint ==
  /\ fn = DoubleWriter /\ at = "fraction"
  /\ arg.count = 0
  /\ out' = IF out # <<>> THEN Append(out, Point) ELSE out
  /\ acc' = arg.whole + (IF acc > 0 THEN 1 ELSE 0)
  /\ at' = "digits"
  /\ UNCHANGED <<fn, input, arg, cur, counts, size>>

IsWhole(text) == \A k \in DOMAIN text : text[k] \in Digits \cup {Minus}

WriteDoubleSign ==
  /\ fn = DoubleWriter /\ at = "sign"
  /\ Finished(Signed \o (IF arg.always /\ IsWhole(Signed) THEN <<Point, Zero>> ELSE <<>>))

-----------------------------------------------------------------------------
(* yajl_parse_integer: acc is ret, arg is sign; counts is history here, the*)
(* number that the digits read so far denote.                              *)

IntegerParser == "yajl_parse_integer"
Lowest == -Long - 1

CallParseInteger(text) ==
  /\ fn' = IntegerParser /\ at' = "loop" /\ input' = text
  /\ arg' = IF text[1] = Minus THEN -1 ELSE 1
  /\ cur' = IF text[1] = Minus THEN 2 ELSE 1
  /\ counts' = <<0>> /\ size' = 0 /\ out' = <<>> /\ acc' = 0

\* Slip: the last digit is not looked at when ret is at the limit.
TooLargeLoose(digit) ==
  IF arg = 1 THEN acc > Long \div 10 ELSE acc < -((Long + 1) \div 10)

TooLarge(digit) ==
  IF arg = 1
    THEN \/ acc > Long \div 10
         \/ acc = Long \div 10 /\ digit > Long % 10
    ELSE \/ acc < -((Long + 1) \div 10)
         \/ acc = -((Long + 1) \div 10) /\ digit > (Long + 1) % 10

\* errno = ERANGE, for a number too large and for one that is no integer
OutOfRange ==
  /\ InLoop(IntegerParser, "loop")
  /\ input[cur] \in Digits => TooLarge(input[cur] - Zero)
  /\ acc' = IF arg = 1 THEN Long ELSE Lowest
  /\ at' = "range"
  /\ UNCHANGED <<fn, input, arg, cur, counts, size, out>>

ParseDigit ==
  /\ InLoop(IntegerParser, "loop")
  /\ input[cur] \in Digits
  /\ ~TooLarge(input[cur] - Zero)
  /\ acc' = acc * 10 + arg * (input[cur] - Zero)
  /\ counts' = Append(counts, Last(counts) * 10 + (input[cur] - Zero))
  /\ cur' = cur + 1
  /\ UNCHANGED <<fn, at, input, arg, size, out>>

Parsed == AfterLoop(IntegerParser, "loop") /\ Finished(out)

-----------------------------------------------------------------------------
(* ParseValue of a number: acc is the integer that handle_number has kept. *)

ValueParser == "ParseValue"

\* Slip: the limits are those of C.
TypeOfC(valid, val, bigint) ==
  IF ~valid THEN "double"
  ELSE IF bigint /\ (val > MaxExact \/ val < -MaxExact) THEN "character"
  ELSE IF val > MaxInt \/ val < -MaxInt - 1 THEN "double"
  ELSE "integer"

TypeOf(valid, val, bigint) ==
  IF ~valid THEN "double"
  ELSE IF bigint /\ (val > MaxExact \/ val < -MaxExact) THEN "character"
  ELSE IF val > MaxInt \/ val < -MaxInt THEN "double"
  ELSE "integer"

\* handle_number has set YAJL_NUMBER_INT_VALID if errno is 0.
CallParseValue(bigint) ==
  /\ fn' = ValueParser /\ at' = "return"
  /\ arg' = [type |-> TypeOf(at = "return", acc, bigint), bigint |-> bigint]
  /\ UNCHANGED <<input, cur, counts, size, out, acc>>

NumberNext ==
  \/ WriteDigit \/ WriteSign
  \/ DropZero \/ ZerosDropped \/ WriteFraction \/ WritePoint \/ WriteDoubleSign
  \/ OutOfRange \/ ParseDigit \/ Parsed

-----------------------------------------------------------------------------

(* yajl_parse_integer never computes a number that long long does not      *)
(* hold, its result is the number that the digits denote, and it gives up  *)
(* only for a number out of range, or for what is no integer.              *)
ParsesExactly ==
  fn = IntegerParser =>
    /\ acc \in Lowest .. Long
    /\ at # "range" => acc = arg * Last(counts)
    /\ at = "range" /\ input[cur] \in Digits
         => arg * (Last(counts) * 10 + input[cur] - Zero) \notin Lowest .. Long
=============================================================================
