------------------------------ MODULE Conversion ------------------------------
(***************************************************************************)
(* What the C functions that turn one text into another have in common:    *)
(* a loop over the input, memory reserved before or while it runs, and a   *)
(* cursor that writes.  Many count in one loop what they write in another. *)
(* Each is a module that extends this one; module Conversions has them     *)
(* call each other.  A character is its code.                              *)
(***************************************************************************)
EXTENDS Integers, Sequences

CONSTANT
  Long   \* LLONG_MAX

ASSUME LongAssumption == Long \in Nat \ {0}

VARIABLES
  fn,      \* the function that runs
  at,      \* the place in it: one of its loops, or "return"
  input,   \* what it converts
  arg,     \* its other arguments
  cur,     \* the element of the input that the loop has come to, from 1
  counts,  \* the count before each element that the counting loop has seen
  size,    \* the memory reserved
  out,     \* the memory written, up to the cursor that writes
  acc      \* the number that the loop carries along

vars == <<fn, at, input, arg, cur, counts, size, out, acc>>

Last(s) == s[Len(s)]
Reversed(s) == [k \in 1 .. Len(s) |-> s[Len(s) + 1 - k]]

NUL == 0   Tab == 9   Newline == 10   CarriageReturn == 13   Space == 32   Quote == 34
Comma == 44   Minus == 45   Point == 46   Slash == 47   Zero == 48   Colon == 58
Less == 60   Equals == 61   LetterU == 117   Backslash == 92   Question == 63
OpenBrace == 91   CloseBrace == 93   OpenBracket == 123   CloseBracket == 125

Control == 0 .. 31
HexUpper(d) == IF d < 10 THEN Zero + d ELSE 55 + d
HexLower(d) == IF d < 10 THEN Zero + d ELSE 87 + d

\* The escapes of one letter that the two writers of strings have.
Letter == [b \in {8, 9, 10, 12, 13, Quote, Backslash} |->
             CASE b = 8 -> 98 [] b = 9 -> 116 [] b = 10 -> 110 [] b = 12 -> 102
               [] b = 13 -> 114 [] OTHER -> b]

(* A function is called: its locals are new.                               *)
Call(f, place, x, a) ==
  /\ fn' = f /\ at' = place /\ input' = x /\ arg' = a
  /\ cur' = 1 /\ counts' = <<0>> /\ size' = 0 /\ out' = <<>> /\ acc' = 0

InLoop(f, place) == fn = f /\ at = place /\ cur <= Len(input)
AfterLoop(f, place) == fn = f /\ at = place /\ cur = Len(input) + 1

\* The counting loop counts n for an element; the writing loop writes one.
CountOne(n) ==
  /\ counts' = Append(counts, Last(counts) + n)
  /\ cur' = cur + 1
  /\ UNCHANGED <<fn, at, input, arg, size, out, acc>>

WriteOne(text) ==
  /\ out' = out \o text
  /\ cur' = cur + 1
  /\ UNCHANGED <<fn, at, input, arg, counts, size, acc>>

\* malloc of n bytes, and back to the beginning of the input.
Reserve(n, opening) ==
  /\ size' = n
  /\ out' = opening
  /\ cur' = 1
  /\ at' = "write"
  /\ UNCHANGED <<fn, input, arg, counts, acc>>

Finished(text) ==
  /\ out' = text
  /\ at' = "return"
  /\ UNCHANGED <<fn, input, arg, cur, counts, size, acc>>
=============================================================================
