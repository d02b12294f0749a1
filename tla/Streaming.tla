------------------------------- MODULE Streaming -------------------------------
(***************************************************************************)
(* Newline-delimited JSON: stream_out writes a data frame to a connection  *)
(* page by page (R/stream.R, R/apply_by_pages.R), and stream_in reads the  *)
(* lines back page by page, into an environment of pages or to a handler.  *)
(*                                                                         *)
(* The connection is a file.  Other programs may have put lines in it, and *)
(* it may be open before the call.  Its lines may arrive at the reader one *)
(* by one, as through a pipe or a socket, and then it waits for them or    *)
(* not.  A line is a record, blank, or no JSON; a record is known by the   *)
(* number of its row.  Both functions may be left by an R error when they  *)
(* open the connection, before their on.exit, or at any page, after it.    *)
(***************************************************************************)
EXTENDS Integers, Sequences, FiniteSets

CONSTANTS
  MaxRows,    \* bound: the rows of the data frame
  PageSizes,  \* the pagesize of a call
  OldLines    \* what may be in the file before the call of stream_out

ASSUME MaxRowsAssumption == MaxRows \in Nat
ASSUME PageSizesAssumption == PageSizes \subseteq Nat \ {0}

Record(row) == [kind |-> "record", row |-> row]
Blank       == [kind |-> "blank", row |-> 0]
Garbage     == [kind |-> "garbage", row |-> 0]

Line == [kind : {"record", "blank", "garbage"}, row : Nat]

ASSUME OldLinesAssumption == OldLines \subseteq Seq(Line)

VARIABLES
  file,      \* the lines of the file
  old,       \* history: the lines that were there when stream_out began
  isOpen,    \* isOpen(con)
  wasOpen,   \* history: isOpen(con) when the running function was called
  onExit,    \* the running function has registered close(con)
  pc,        \* what runs, and where it stands
  nr,        \* nrow(x)
  pagesize,  \* of the running call
  i,         \* stream_out: the page to write
  arrived,   \* stream_in: the lines that have arrived
  blocking,  \* stream_in: the connection waits for lines
  pos,       \* stream_in: the lines read so far
  custom,    \* stream_in: a handler was given
  count,     \* stream_in: count
  out,       \* stream_in: the environment of pages, by name
  handled,   \* history: the records that the handler was given
  result     \* what stream_in returns

writing == <<nr, i, old>>
reading == <<pos, custom, count, out, handled, result>>
opening == <<isOpen, wasOpen, onExit>>
waiting == <<arrived, blocking>>
vars == <<file, pc, pagesize, writing, reading, opening, waiting>>

Init ==
  /\ file \in OldLines
  /\ old = file
  /\ isOpen = FALSE /\ wasOpen = FALSE /\ onExit = FALSE
  /\ pc = "begin"
  /\ nr \in 0 .. MaxRows
  /\ pagesize \in PageSizes
  /\ i = 1
  /\ arrived = 0 /\ blocking = TRUE
  /\ pos = 0 /\ custom = FALSE /\ count = 0 /\ out = <<>>
  /\ handled = <<>> /\ result = <<>>

-----------------------------------------------------------------------------
(* stream_out *)

\* Slip: the last, shorter page is counted twice.
npagesUp == (nr + pagesize - 1) \div pagesize
npages   == nr \div pagesize
lastpage == nr % pagesize

\* The user opens the connection to append, or leaves that to stream_out.
UserOpens == isOpen' = TRUE /\ wasOpen' = TRUE /\ UNCHANGED <<onExit, file>>
\* Slip: close(con) is not registered.
ReopensOnly == isOpen' = TRUE /\ wasOpen' = FALSE /\ UNCHANGED onExit /\ file' = <<>>
Reopens   == isOpen' = TRUE /\ wasOpen' = FALSE /\ onExit' = TRUE /\ file' = <<>>

StreamOut ==
  /\ pc = "begin"
  /\ UserOpens \/ Reopens
  /\ pc' = "write"
  /\ UNCHANGED <<pagesize, writing, reading, waiting>>

\* open(con, "wb") fails: on.exit is not registered yet.
OutOpenFails ==
  /\ pc = "begin"
  /\ pc' = "outFailed"
  /\ UNCHANGED <<file, pagesize, writing, reading, opening, waiting>>

\* stream_out_page: rows from .. to of x, one line each.
Page(from, to) == [k \in 1 .. to - from + 1 |-> Record(from + k - 1)]

WritePage ==
  /\ pc = "write"
  /\ i <= npages
  /\ file' = file \o Page(pagesize * (i - 1) + 1, pagesize * i)
  /\ i' = i + 1
  /\ UNCHANGED <<pc, pagesize, nr, old, reading, opening, waiting>>

WriteLast ==
  /\ pc = "write"
  /\ i > npages
  /\ file' = file \o (IF lastpage # 0 THEN Page(nr - lastpage + 1, nr) ELSE <<>>)
  /\ pc' = "written"
  /\ UNCHANGED <<pagesize, writing, reading, opening, waiting>>

\* asJSON or writeLines raises an error.
WriteError ==
  /\ pc = "write"
  /\ pc' = "outFailed"
  /\ UNCHANGED <<file, pagesize, writing, reading, opening, waiting>>

\* on.exit, which runs on every way out.
Leave(from, to) ==
  /\ pc = from
  /\ pc' = to
  /\ isOpen' = (isOpen /\ ~onExit)
  /\ onExit' = FALSE
  /\ UNCHANGED <<file, pagesize, wasOpen, writing, reading, waiting>>

LeaveOut == Leave("written", "saved") \/ Leave("outFailed", "saved")

-----------------------------------------------------------------------------
(* stream_in *)

\* The user closes the connection and may open it again, to read; then it
\* may be one that does not block, while open(con, "rb") opens one that does.
StreamIn ==
  /\ pc = "saved"
  /\ \E h \in BOOLEAN, p \in PageSizes, open \in BOOLEAN :
       /\ custom' = h
       /\ pagesize' = p
       /\ wasOpen' = open
       /\ onExit' = ~open
       /\ blocking' \in (IF open THEN BOOLEAN ELSE {TRUE})
  /\ isOpen' = TRUE
  /\ pc' = "read"
  /\ UNCHANGED <<file, writing, arrived, pos, count, out, handled, result>>

\* open(con, "rb") fails.
InOpenFails ==
  /\ pc = "saved"
  /\ isOpen' = FALSE /\ wasOpen' = FALSE
  /\ pc' = "inFailed"
  /\ UNCHANGED <<file, pagesize, onExit, writing, reading, waiting>>

Least(a, b) == IF a < b THEN a ELSE b

Arrive ==
  /\ pc = "read"
  /\ arrived < Len(file)
  /\ arrived' = arrived + 1
  /\ UNCHANGED <<file, pc, pagesize, blocking, writing, reading, opening>>

\* readLines(con, n = pagesize) waits for n lines or the end of the file, or
\* returns what is there if the connection does not block.
Returns == blocking => arrived >= Least(pos + pagesize, Len(file))
readLines == SubSeq(file, pos + 1, Least(pos + pagesize, arrived))

NotBlank(line) == line.kind # "blank"
Filter(lines) ==
  LET kept[n \in 0 .. Len(lines)] ==
        IF n = 0 THEN <<>>
        ELSE IF NotBlank(lines[n]) THEN Append(kept[n - 1], lines[n]) ELSE kept[n - 1]
  IN  kept[Len(lines)]
Parses(lines) == \A k \in DOMAIN lines : lines[k] # Garbage

\* A page is known by the number of records up to its end.  Slip: by its own.
NameOwn(x) == Len(x)
Name(x) == count + Len(x)

\* The callback cb on the parsed records x.
Callback(x) ==
  IF custom
    THEN /\ handled' = handled \o x
         /\ count' = count + Len(x)
         /\ UNCHANGED out
    ELSE IF Len(x) > 0
    THEN /\ count' = count + Len(x)
         /\ out' = [name \in DOMAIN out \cup {Name(x)} |-> IF name = Name(x) THEN x ELSE out[name]]
         /\ UNCHANGED handled
    ELSE UNCHANGED <<count, out, handled>>

\* A short page is the last.  Slip: the comparison is turned round.
LastOver == Len(readLines) > pagesize
\* Slip: a full page is the last, too.
LastFull == Len(readLines) <= pagesize
Last == Len(readLines) < pagesize

ReadPage ==
  /\ pc = "read"
  /\ Returns
  /\ Parses(Filter(readLines))
  /\ pos' = pos + Len(readLines)
  /\ IF readLines # <<>> THEN Callback(Filter(readLines)) ELSE UNCHANGED <<count, out, handled>>
  /\ pc' = IF Last THEN "bind" ELSE "read"
  /\ UNCHANGED <<file, pagesize, custom, result, writing, opening, waiting>>

\* parseJSON raises an error: no record of the page is delivered.
ParseError ==
  /\ pc = "read"
  /\ Returns
  /\ ~Parses(Filter(readLines))
  /\ pos' = pos + Len(readLines)
  /\ pc' = "inFailed"
  /\ UNCHANGED <<file, pagesize, custom, count, out, handled, result, writing, opening, waiting>>

\* The handler raises an error, after it was given the page.
HandlerError ==
  /\ pc = "read"
  /\ Returns
  /\ custom
  /\ readLines # <<>>
  /\ Parses(Filter(readLines))
  /\ pos' = pos + Len(readLines)
  /\ handled' = handled \o Filter(readLines)
  /\ pc' = "inFailed"
  /\ UNCHANGED <<file, pagesize, custom, count, out, result, writing, opening, waiting>>

\* out[order(as.numeric(names(out)))], and unlist
Bound(pages) ==
  LET Upto[n \in 0 .. count] ==
        IF n = 0 THEN <<>> ELSE Upto[n - 1] \o (IF n \in DOMAIN pages THEN pages[n] ELSE <<>>)
  IN  Upto[count]

Bind ==
  /\ pc = "bind"
  /\ result' = IF custom THEN <<>> ELSE Bound(out)
  /\ pc' = "bound"
  /\ UNCHANGED <<file, pagesize, pos, custom, count, out, handled, writing, opening, waiting>>

LeaveIn == Leave("bound", "done") \/ Leave("inFailed", "failed")

-----------------------------------------------------------------------------

Step == StreamOut \/ OutOpenFails \/ WritePage \/ WriteLast \/ WriteError \/ LeaveOut
          \/ StreamIn \/ InOpenFails \/ ReadPage \/ ParseError \/ HandlerError \/ Bind \/ LeaveIn

Next == Step \/ Arrive
Spec == Init /\ [][Next]_vars

\* R runs the program until it ends, and every line arrives at last.
FairSpec == Spec /\ WF_vars(Step) /\ WF_vars(Arrive)

-----------------------------------------------------------------------------
(* Properties *)

Rows == [k \in 1 .. nr |-> Record(k)]

(* Every row is written once and in order, for any number of rows and any  *)
(* size of a page; a file that stream_out opened itself holds nothing else.*)
WrittenInPages ==
  pc = "written" => file = (IF wasOpen THEN old ELSE <<>>) \o Rows

(* What stream_in has delivered, to the handler or in its result, are the  *)
(* records of the lines that it read, all of them, once and in order; when *)
(* it fails on the way, the handler has seen a beginning of them.          *)
DeliveredInOrder ==
  /\ pc = "done" /\ ~custom => result = Filter(SubSeq(file, 1, pos))
  /\ pc = "done" /\ custom  => handled = Filter(SubSeq(file, 1, pos))
  /\ pc = "read" /\ custom  => handled = Filter(SubSeq(file, 1, pos))
  /\ handled = SubSeq(Filter(file), 1, Len(handled))

(* stream_in stops only when it has read every line that had arrived, and  *)
(* on a connection that blocks these are all lines of the file.            *)
StopsAtTheEnd ==
  pc \in {"bind", "bound", "done"} => pos = arrived /\ (blocking => pos = Len(file))

(* However a function ends, the connection is open or closed as it was     *)
(* before the call.                                                        *)
ConnectionAsFound == pc \in {"saved", "done", "failed"} => (isOpen <=> wasOpen)

(* Both functions come to an end.                                          *)
Ends == <>(pc \in {"done", "failed"})
=============================================================================
