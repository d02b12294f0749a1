------------------------------- MODULE YajlBuf -------------------------------
(***************************************************************************)
(* The growing buffer, src/src/yajl/yajl_buf.c, that the lexer, the parser *)
(* and the generator append to: yajl_buf_append makes room for a piece and *)
(* for the NUL behind it.  The input is the lengths of the pieces; size is *)
(* buf->len, 0 while buf->data is NULL, and acc is buf->used.              *)
(***************************************************************************)
EXTENDS Conversion

CONSTANTS
  InitialSize,  \* YAJL_BUF_INIT_SIZE, 2048
  HalfSize      \* 2^(w - 1), for a size_t of w bits

ASSUME BufferSizesAssumption ==
  /\ InitialSize \in Nat \ {0} /\ HalfSize \in Nat /\ InitialSize < HalfSize

SizeLimit == 2 * HalfSize

Appender == "yajl_buf_append"
Want == input[cur]
Sum == (acc + Want) % SizeLimit

CallAppend(pieces) == Call(Appender, "ensure", pieces, 0)

Abort ==
  /\ at' = "abort"
  /\ UNCHANGED <<fn, input, arg, cur, counts, size, out, acc>>

\* yajl_buf_ensure_available, up to its loop
Ensure ==
  /\ InLoop(Appender, "ensure")
  /\ size' = IF size = 0 THEN InitialSize ELSE size
  /\ IF acc > Sum \/ Want > Sum THEN at' = "abort" ELSE at' = "grow"
  /\ UNCHANGED <<fn, input, arg, cur, counts, out, acc>>

\* need - buf->used, in size_t
Free == (size - acc) % SizeLimit

\* Slip: there is room for the piece, none for the NUL.
FullWithoutNul == Want > Free
Full == Want >= Free

\* Slip: the capacity doubles without a look at the limit.
GrowWrapping ==
  /\ InLoop(Appender, "grow")
  /\ Full
  /\ size' = (2 * size) % SizeLimit
  /\ UNCHANGED <<fn, at, input, arg, cur, counts, out, acc>>
Grow ==
  /\ InLoop(Appender, "grow")
  /\ Full
  /\ IF size >= HalfSize - 1
       THEN Abort
       ELSE /\ size' = (2 * size) % SizeLimit
            /\ UNCHANGED <<fn, at, input, arg, cur, counts, out, acc>>

\* yajl_buf_append copies the piece.
AppendPiece ==
  /\ InLoop(Appender, "grow")
  /\ ~Full
  /\ acc' = acc + Want
  /\ cur' = cur + 1
  /\ at' = "ensure"
  /\ UNCHANGED <<fn, input, arg, counts, size, out>>

Appended == AfterLoop(Appender, "ensure") /\ Finished(out)

BufNext == Ensure \/ Grow \/ AppendPiece \/ Appended

-----------------------------------------------------------------------------

(* While the buffer grows, and after every piece, it holds the text and    *)
(* the NUL behind it, also where the capacity would double past the        *)
(* largest size_t; and the program is given up only when the text would    *)
(* fill half of the address space.                                         *)
BufFits ==
  fn = Appender =>
    /\ at = "grow" \/ (at \in {"ensure", "return"} /\ cur > 1) => acc < size
    /\ at = "abort" => acc + Want >= HalfSize - 1
=============================================================================
