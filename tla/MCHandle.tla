------------------------------- MODULE MCHandle -------------------------------
(***************************************************************************)
(* Small instance of Handle: every text of a few fragments, compared with  *)
(* the grammar of the characters and the grammar of the tokens.            *)
(***************************************************************************)
EXTENDS Handle, SequencesExt

CONSTANT Fragments   \* the number of fragments in a text

Words   == INSTANCE LexGrammar
Grammar == INSTANCE JsonGrammar

Pieces == {<<"[", "1">>, <<",", "1">>, <<"]">>, <<"{", "quote", "x">>,
           <<"quote", ":", "n", "u", "l", "l">>, <<"}">>, <<"quote">>, <<" ">>, <<"1">>, <<"-">>}
Blanks == {<<"tab">>, <<"vtab">>}

\* The last space is the one that yajl_complete_parse adds.
TextsOf(pieces) ==
  {[text |-> FlattenSeq(s) \o <<" ">>, comments |-> FALSE] : s \in [1 .. Fragments -> pieces]}

MCInputs    == TextsOf(Pieces \cup Blanks)
PlainInputs == TextsOf(Pieces)

-----------------------------------------------------------------------------

\* The longest word that w begins with, and the tokens of a whole text.
Longest(w) ==
  CHOOSE n \in 1 .. Len(w) : /\ Words!IsToken(SubSeq(w, 1, n))
                             /\ \A m \in n + 1 .. Len(w) : ~Words!IsToken(SubSeq(w, 1, m))
NameOf(w) == CHOOSE tok \in Words!TokenNames : Words!IsWord(tok, w)

RECURSIVE IsText(_, _, _)
IsText(w, space, toks) ==
  \/ w = <<>> /\ Grammar!IsJson(toks)
  \/ w # <<>> /\ w[1] \in space /\ IsText(Tail(w), space, toks)
  \/ /\ w # <<>> /\ w[1] \notin space
     /\ \E n \in 1 .. Len(w) : Words!IsToken(SubSeq(w, 1, n))
     /\ IsText(Words!Drop(w, Longest(w)), space,
               Append(toks, Token(NameOf(SubSeq(w, 1, Longest(w))))))

\* w is one JSON text, with the space of JSON around its tokens, or with what
\* the lexer takes for space.
IsJsonText(w)   == IsText(w, Words!JsonSpace, <<>>)
IsSpacedJson(w) == IsText(w, Words!JsonSpace \cup Words!OtherSpace, <<>>)

(* A text that is valid JSON is never rejected, however it was cut.        *)
RejectsOnlyNonJson == Rejected => ~IsJsonText(input)

(* validate() tests "if a string contains valid JSON".                     *)
AcceptsOnlyJsonText == Accepted => IsJsonText(input)

(* What is accepted departs from JSON in two ways only, alone or together: *)
(* \v and \f stand between the tokens like space, and the beginning of a   *)
(* string that never ends follows the value.                               *)
AcceptsOnlyNearlyJson ==
  Accepted =>
    \/ IsSpacedJson(input)
    \/ \E n \in 1 .. Len(input) :
         /\ IsSpacedJson(SubSeq(input, 1, n - 1))
         /\ input[n] = "quote"
         /\ Words!IsBeginning(SubSeq(input, n, Len(input)), FALSE)

(* The "offset" attribute of validate() says "at which byte the error      *)
(* occured": not before a byte up to which the text is still the beginning *)
(* of a valid one.  The text was given in one chunk.                       *)
OffsetIsAtTheError ==
  Rejected => \A n \in 0 .. Len(input) - 1 :
    (\E i \in Inputs : IsPrefix(SubSeq(input, 1, n), i.text) /\ IsJsonText(i.text))
      => bytesConsumed >= n
=============================================================================
