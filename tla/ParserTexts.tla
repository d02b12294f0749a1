------------------------------ MODULE ParserTexts ------------------------------
(***************************************************************************)
(* The texts that the parser accepts and rejects, compared with the JSON   *)
(* grammar.                                                                *)
(***************************************************************************)
EXTENDS YajlParser

SeveralValues == \E options \in Configurations : "allow_multiple_values" \in options

INSTANCE JsonTexts

\* The texts of at most MaxTokens tokens of a rule of the grammar.
Phrases == Rows[MaxTokens]
Spelled(rule) == UNION {{p.text : p \in Phrases[n][rule]} : n \in 1 .. MaxTokens}

\* One JSON text, or several in a row.
OneText  == Spelled("values")
TextsInARow == Spelled("streams")

Beginnings(texts) == UNION {{SubSeq(s, 1, n) : n \in 0 .. Len(s)} : s \in texts}
BeginningsOfOne  == Beginnings(OneText)
BeginningsInARow == Beginnings(TextsInARow)

\* The text is one JSON text, and root holds the value that it denotes.
Denotes(text, root) ==
  \E n \in 1 .. MaxTokens : Phrase(text, <<>>, root) \in Phrases[n].values

InARow == "allow_multiple_values" \in flags

\* yajl_complete_parse has run and reported success.
Accepted == call = "complete" /\ status = "ok"

(* yajl_complete_parse reports success only for a JSON text: every token   *)
(* that was read belongs to one complete value, however the text was cut   *)
(* into chunks.  With allow_multiple_values, to several values in a row.   *)
AcceptsOnlyJson ==
  Accepted /\ "allow_partial_values" \notin flags =>
    consumed \in (IF InARow THEN TextsInARow ELSE OneText)

(* Unless the client objects, the parser fails only when the text can no   *)
(* longer become JSON:                                                     *)
(* a text that is rejected at a token is no beginning of any JSON text,    *)
(* and one rejected at its end is none.                                    *)
AcceptsEveryJson ==
  (Current \in ErrorStates /\ parseError \notin {"client cancelled", "overflow"}) =>
    IF parseError = "premature EOF"
      THEN consumed \notin (IF InARow THEN TextsInARow ELSE OneText)
      ELSE consumed \notin (IF InARow THEN BeginningsInARow ELSE BeginningsOfOne)
=============================================================================
