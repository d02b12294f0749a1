------------------------------ MODULE LexerWords ------------------------------
(***************************************************************************)
(* What the lexer makes of a text, compared with the grammar of its words. *)
(***************************************************************************)
EXTENDS YajlLexer, LexGrammar

\* Token i of those delivered begins after Start(i) characters of the text.
Start(i) == lexed[i].end - Len(lexed[i].text)
EndOf(i) == IF i = 0 THEN 0 ELSE lexed[i].end
Part(from, to) == SubSeq(input, from + 1, to)

(* However the text is cut into chunks, the tokens are words of the text,  *)
(* in order, with nothing but space and comments between them.  No token   *)
(* stops short of a longer one, and the piecing together in buf loses and  *)
(* repeats nothing.  Each token is looked at when it is delivered.         *)
TokensAreTheText ==
  last \notin {"none", "eof", "error"} =>
    LET i     == Len(lexed)
        word  == lexed[i].text
        after == lexed[i].end
    IN  /\ word = Part(Start(i), after)
        /\ IsWord(lexed[i].tok, word)
        /\ IsBlank(input, EndOf(i - 1), Start(i), allowComments)
        /\ after < Len(input) => ~IsBeginning(Part(Start(i), after + 1), allowComments)

\* The text that was fed, from the end of token i on, without its leading
\* space and comments.
Rests(i) ==
  {Part(from, fed) : from \in {k \in EndOf(i) .. fed : IsBlank(input, EndOf(i), k, allowComments)}}

(* The lexer reports an error only where the text, up to a character it    *)
(* has read, can no longer become a token; what it holds back at the end   *)
(* of a chunk is the beginning of one.                                     *)
ErrorsAreJustified ==
  last = "error" =>
    \E rest \in Rests(Len(lexed) - 1) : \E n \in 1 .. Len(rest) :
      /\ ~IsBeginning(SubSeq(rest, 1, n), allowComments)
      /\ IsBeginning(SubSeq(rest, 1, n - 1), allowComments)
      /\ ~IsToken(SubSeq(rest, 1, n - 1))
HeldBackIsABeginning ==
  last = "eof" => /\ buf \in Rests(Len(lexed))
                  /\ IsBeginning(buf, allowComments)
=============================================================================
