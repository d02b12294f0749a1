---------------------------- MODULE StreamingProofs ----------------------------
(***************************************************************************)
(* Theorems about Streaming: what stream_out leaves in the file, where     *)
(* stream_in stops, and what becomes of the connection, for every number   *)
(* of rows, every size of a page and every file.                           *)
(***************************************************************************)
EXTENDS Streaming, Induction, SequenceTheorems, TLAPS


UpTo(n) == [k \in 1 .. n |-> Record(k)]
Base == IF wasOpen THEN old ELSE <<>>

-----------------------------------------------------------------------------
(* Rows and pages                                                          *)

(* The rows before a page and the page are the rows up to its end.         *)
LEMMA PageExtends ==
  ASSUME NEW m \in Nat, NEW n \in Nat, m <= n
  PROVE  /\ UpTo(m) \in Seq(Line) /\ Page(m + 1, n) \in Seq(Line) /\ UpTo(n) \in Seq(Line)
         /\ UpTo(m) \o Page(m + 1, n) = UpTo(n)
<1>1. \A k \in Nat : Record(k) \in Line
  BY DEF Record, Line
<1>2. UpTo(m) \in Seq(Line) /\ Len(UpTo(m)) = m /\ UpTo(n) \in Seq(Line) /\ Len(UpTo(n)) = n
  BY <1>1 DEF UpTo
<1>3. Page(m + 1, n) \in Seq(Line) /\ Len(Page(m + 1, n)) = n - m
  BY <1>1 DEF Page
<1>4. \A k \in 1 .. n - m : Page(m + 1, n)[k] = Record(m + k)
  BY DEF Page
<1>5. \A k \in 1 .. n : UpTo(n)[k] = Record(k)
  BY DEF UpTo
<1>6. \A k \in 1 .. m : UpTo(m)[k] = Record(k)
  BY DEF UpTo
<1>7. ASSUME NEW a \in Seq(Line), NEW b \in Seq(Line), NEW c \in Seq(Line),
             Len(a) = m, Len(b) = n - m, Len(c) = n,
             \A k \in 1 .. m : a[k] = Record(k),
             \A k \in 1 .. n - m : b[k] = Record(m + k),
             \A k \in 1 .. n : c[k] = Record(k)
      PROVE  a \o b = c
  <2>1. a \o b \in Seq(Line) /\ Len(a \o b) = m + (n - m)
    BY <1>7
  <2>2. ASSUME NEW k \in 1 .. n
        PROVE  (a \o b)[k] = c[k]
    <3>1. CASE k <= m
      <4>1. (a \o b)[k] = a[k] /\ k \in 1 .. m
        BY <1>7, <3>1
      <4> QED
        BY <1>7, <4>1
    <3>2. CASE k > m
      <4>1. k - m \in 1 .. n - m /\ m + (k - m) = k
        BY <3>2
      <4>2. (a \o b)[k] = b[k - m]
        BY <1>7, <3>2, <4>1
      <4> QED
        BY <1>7, <4>1, <4>2
    <3>3. k <= m \/ k > m
      BY <2>2
    <3> QED
      BY <3>1, <3>2, <3>3
  <2>3. Len(a \o b) = Len(c) /\ \A k \in 1 .. Len(a \o b) : (a \o b)[k] = c[k]
    BY <1>7, <2>1, <2>2
  <2>4. ASSUME NEW d \in Seq(Line), Len(d) = Len(c), \A k \in 1 .. Len(d) : d[k] = c[k]
        PROVE  d = c
    BY <2>4, SeqEqual, Zenon
  <2> QED
    BY <2>1, <2>3, <2>4
<1> QED
  BY <1>2, <1>3, <1>4, <1>5, <1>6, <1>7

LEMMA PageOnFile ==
  ASSUME NEW f \in Seq(Line), NEW m \in Nat, NEW n \in Nat, m <= n
  PROVE  /\ (f \o UpTo(m)) \o Page(m + 1, n) = f \o UpTo(n)
         /\ f \o UpTo(n) \in Seq(Line)
<1>1. /\ UpTo(m) \in Seq(Line) /\ Page(m + 1, n) \in Seq(Line) /\ UpTo(n) \in Seq(Line)
      /\ UpTo(m) \o Page(m + 1, n) = UpTo(n)
  BY PageExtends
<1>2. (f \o UpTo(m)) \o Page(m + 1, n) = f \o (UpTo(m) \o Page(m + 1, n))
  BY <1>1, ConcatAssociative
<1>3. f \o UpTo(n) \in Seq(Line)
  BY <1>1, ConcatProperties, Zenon
<1> QED
  BY <1>1, <1>2, <1>3

(* Division with remainder, of the rows into pages.                        *)
LEMMA Pages ==
  ASSUME nr \in Nat, pagesize \in Nat \ {0}
  PROVE  /\ npages \in Nat /\ lastpage \in Nat
         /\ pagesize * npages + lastpage = nr
  BY DEF npages, lastpage

LEMMA PageBounds ==
  ASSUME NEW p \in Nat \ {0}, NEW j \in Nat \ {0}
  PROVE  /\ p * (j - 1) \in Nat /\ p * j \in Nat
         /\ p * (j - 1) <= p * j
         /\ p * ((j + 1) - 1) = p * j
<1>1. p * (j - 1) \in Nat /\ p * j \in Nat
  OBVIOUS
<1>2. p * j = p * (j - 1) + p
  OBVIOUS
<1> QED
  BY <1>1, <1>2

LEMMA NoRows ==
  ASSUME NEW f \in Seq(Line)
  PROVE  f = f \o UpTo(0)
<1>1. UpTo(0) = <<>>
  BY DEF UpTo
<1> QED
  BY <1>1, ConcatEmptySeq

(* readLines returns the lines up to the end of the page, or all that have *)
(* arrived.                                                                *)
LEMMA LinesRead ==
  ASSUME NEW f \in Seq(Line), NEW from \in Nat, NEW to \in Nat, from <= to, to <= Len(f)
  PROVE  Len(SubSeq(f, from + 1, to)) = to - from
  OBVIOUS

-----------------------------------------------------------------------------
(* What the file holds while stream_out writes                             *)

OutTypes ==
  /\ nr \in Nat
  /\ pagesize \in Nat \ {0}
  /\ i \in Nat \ {0}
  /\ old \in Seq(Line)
  /\ file \in Seq(Line)

PagesWritten ==
  /\ pc = "begin" => file = old /\ i = 1
  /\ pc = "write" => i <= npages + 1 /\ file = Base \o UpTo(pagesize * (i - 1))
  /\ WrittenInPages

OutInv == OutTypes /\ PagesWritten

LEMMA BaseIsLines ==
  ASSUME OutTypes
  PROVE  Base \in Seq(Line)
  BY DEF OutTypes, Base

(* The actions after which nothing is to be shown of the file: what        *)
(* stream_out has done is done.                                            *)
Aside == OutOpenFails \/ WriteError \/ LeaveOut \/ StreamIn \/ InOpenFails \/ ReadPage
           \/ ParseError \/ HandlerError \/ Bind \/ LeaveIn \/ Arrive

LEMMA AsideKeeps ==
  ASSUME OutInv, Aside
  PROVE  OutInv'
<1>1. /\ UNCHANGED <<nr, i, old, file>> /\ pagesize' \in Nat \ {0}
      /\ pc' \notin {"begin", "write", "written"}
  BY PageSizesAssumption
     DEF OutInv, OutTypes, Aside, OutOpenFails, WriteError, LeaveOut, LeaveIn, Leave, StreamIn,
         InOpenFails, ReadPage, ParseError, HandlerError, Bind, Arrive, writing
<1> QED
  BY <1>1 DEF OutInv, OutTypes, PagesWritten, WrittenInPages

LEMMA OutInvInit == Init => OutInv
<1> SUFFICES ASSUME Init PROVE OutInv
  OBVIOUS
<1>1. OutTypes
  BY MaxRowsAssumption, PageSizesAssumption, OldLinesAssumption DEF Init, OutTypes
<1>2. PagesWritten
  BY DEF Init, PagesWritten, WrittenInPages
<1> QED
  BY <1>1, <1>2 DEF OutInv

LEMMA OutInvNext == OutInv /\ [Next]_vars => OutInv'
<1> SUFFICES ASSUME OutInv, [Next]_vars PROVE OutInv'
  OBVIOUS
<1> USE DEF OutInv
<1>1. CASE StreamOut
  <2>1. pc = "begin" /\ pc' = "write" /\ UNCHANGED <<nr, i, old, pagesize>> /\ i = 1 /\ file = old
    BY <1>1 DEF StreamOut, writing, PagesWritten
  <2>2. Base' \in Seq(Line) /\ file' = Base'
    BY <1>1, <2>1 DEF StreamOut, UserOpens, Reopens, Base, OutTypes
  <2>3. pagesize' * (i' - 1) = 0
    BY <2>1 DEF OutTypes
  <2>4. i' <= npages' + 1
    BY <2>1, Pages DEF OutTypes, npages
  <2>5. file' = Base' \o UpTo(0)
    BY <2>2, NoRows
  <2> QED
    BY <2>1, <2>2, <2>3, <2>4, <2>5 DEF OutTypes, PagesWritten, WrittenInPages
<1>2. CASE WritePage
  <2> DEFINE m == pagesize * (i - 1)
             n == pagesize * i
  <2>1. /\ pc = "write" /\ pc' = "write" /\ i <= npages /\ i' = i + 1
        /\ UNCHANGED <<nr, old, pagesize, wasOpen>>
        /\ file' = file \o Page(m + 1, n)
    BY <1>2 DEF WritePage, opening
  <2>2. file = Base \o UpTo(m) /\ Base' = Base
    BY <2>1 DEF PagesWritten, Base
  <2>6. Base \in Seq(Line)
    BY BaseIsLines
  <2>3. m \in Nat /\ n \in Nat /\ m <= n /\ pagesize' * (i' - 1) = n
    BY <2>1, PageBounds DEF OutTypes
  <2> HIDE DEF m, n
  <2>4. file' = Base' \o UpTo(n) /\ file' \in Seq(Line)
    BY <2>1, <2>2, <2>3, <2>6, PageOnFile
  <2>5. i' <= npages' + 1
    BY <2>1, Pages DEF OutTypes, npages
  <2>7. OutTypes'
    BY <2>1, <2>4 DEF OutTypes
  <2>8. PagesWritten'
    BY <2>1, <2>3, <2>4, <2>5 DEF PagesWritten, WrittenInPages
  <2> QED
    BY <2>7, <2>8
<1>3. CASE WriteLast
  <2> DEFINE m == pagesize * npages
  <2>1. /\ pc = "write" /\ pc' = "written" /\ i > npages
        /\ UNCHANGED <<nr, i, old, pagesize, wasOpen>>
        /\ file' = file \o (IF lastpage # 0 THEN Page(nr - lastpage + 1, nr) ELSE <<>>)
    BY <1>3 DEF WriteLast, opening, writing
  <2>2. npages \in Nat /\ lastpage \in Nat /\ m + lastpage = nr
    BY Pages DEF OutTypes
  <2>3. i - 1 = npages
    BY <2>1, <2>2 DEF PagesWritten, OutTypes
  <2>4. /\ file = Base \o UpTo(m)
        /\ Base \in Seq(Line)
        /\ Base' = Base
    <3>1. file = Base \o UpTo(m)
      BY <2>1, <2>3 DEF PagesWritten
    <3>2. Base' = Base
      BY <2>1 DEF Base
    <3> QED
      BY <3>1, <3>2, BaseIsLines
  <2>5. m \in Nat
    BY <2>2 DEF OutTypes
  <2> HIDE DEF m
  <2>6. nr \in Nat /\ m <= nr /\ nr - lastpage = m
    BY <2>2, <2>5 DEF OutTypes
  <2>7. file' = Base \o UpTo(nr) /\ file' \in Seq(Line)
    <3>1. CASE lastpage # 0
      BY <2>1, <2>4, <2>5, <2>6, <3>1, PageOnFile
    <3>2. CASE lastpage = 0
      <4>1. file' = file
        BY <2>1, <3>2, ConcatEmptySeq DEF OutTypes
      <4>2. m = nr
        BY <2>2, <2>5, <2>6, <3>2
      <4> QED
        BY <2>4, <4>1, <4>2 DEF OutTypes
    <3> QED
      BY <3>1, <3>2
  <2>8. WrittenInPages'
    BY <2>1, <2>4, <2>7 DEF WrittenInPages, Base, Rows, UpTo
  <2> QED
    BY <2>1, <2>7, <2>8 DEF OutTypes, PagesWritten
<1>4. CASE Aside
  BY <1>4, AsideKeeps
<1>5. CASE UNCHANGED vars
  <2>1. UNCHANGED <<file, pc, pagesize, nr, i, old, wasOpen>>
    BY <1>5 DEF vars, writing, opening
  <2> QED
    BY <2>1 DEF OutTypes, PagesWritten, WrittenInPages, Base, Rows, npages
<1> QED
  BY <1>1, <1>2, <1>3, <1>4, <1>5 DEF Next, Step, Aside

(* Every row is in the file once and in order when stream_out is done, for *)
(* every number of rows, every size of a page, and whatever the file held. *)
THEOREM WrittenInPagesHolds == Spec => []WrittenInPages
<1>1. OutInv => WrittenInPages
  BY DEF OutInv, PagesWritten
<1> QED
  BY <1>1, OutInvInit, OutInvNext, PTL DEF Spec

-----------------------------------------------------------------------------
(* Where stream_in stops                                                   *)

ReadPcs == {"read", "bind", "bound", "inFailed", "done", "failed"}

ReadSoFar ==
  /\ arrived \in Nat /\ pos \in Nat
  /\ pos <= arrived /\ arrived <= Len(file)
  /\ pc \notin ReadPcs => arrived = 0 /\ pos = 0

StopInv == ReadSoFar /\ StopsAtTheEnd

LEMMA StopInvInit == Init => StopInv
  BY OldLinesAssumption DEF Init, StopInv, ReadSoFar, StopsAtTheEnd, ReadPcs

(* A page that is read ends where the page is full, or where the arrived   *)
(* lines end.                                                              *)
LEMMA PageRead ==
  ASSUME OutTypes, ReadSoFar
  PROVE  /\ Least(pos + pagesize, arrived) \in pos .. arrived
         /\ Len(readLines) = Least(pos + pagesize, arrived) - pos
<1>1. Least(pos + pagesize, arrived) \in pos .. arrived
  BY DEF OutTypes, ReadSoFar, Least
<1>2. /\ file \in Seq(Line) /\ pos \in Nat /\ Least(pos + pagesize, arrived) \in Nat
      /\ pos <= Least(pos + pagesize, arrived) /\ Least(pos + pagesize, arrived) <= Len(file)
  BY <1>1 DEF OutTypes, ReadSoFar
<1> QED
  BY <1>1, <1>2, LinesRead DEF readLines

LEMMA StopInvNext == OutInv /\ StopInv /\ [Next]_vars => StopInv'
<1> SUFFICES ASSUME OutInv, StopInv, [Next]_vars PROVE StopInv'
  OBVIOUS
<1>0. OutTypes /\ OutTypes' /\ ReadSoFar /\ StopsAtTheEnd
  BY OutInvNext DEF OutInv, StopInv
<1>1. CASE StreamOut \/ OutOpenFails \/ WritePage \/ WriteLast \/ WriteError \/ LeaveOut
  <2>1. /\ UNCHANGED <<arrived, pos>>
        /\ pc \in {"begin", "write", "written", "outFailed"}
        /\ pc' \in {"write", "written", "outFailed", "saved"}
    BY <1>1 DEF StreamOut, OutOpenFails, WritePage, WriteLast, WriteError, LeaveOut, Leave,
                waiting, reading
  <2>2. arrived' = 0 /\ pos' = 0
    BY <1>0, <2>1 DEF ReadSoFar, ReadPcs
  <2>3. Len(file') \in Nat
    BY <1>0 DEF OutTypes
  <2>4. ReadSoFar'
    BY <2>2, <2>3 DEF ReadSoFar
  <2>5. StopsAtTheEnd'
    BY <2>1 DEF StopsAtTheEnd
  <2> QED
    BY <2>4, <2>5 DEF StopInv
<1>2. CASE StreamIn \/ InOpenFails
  BY <1>0, <1>2 DEF StreamIn, InOpenFails, StopInv, ReadSoFar, StopsAtTheEnd, ReadPcs, waiting, reading
<1>3. CASE Arrive
  BY <1>0, <1>3 DEF Arrive, reading, StopInv, ReadSoFar, StopsAtTheEnd, ReadPcs
<1>4. CASE ReadPage
  <2>1. /\ pc = "read" /\ UNCHANGED <<file, arrived, blocking>> /\ pos' = pos + Len(readLines)
        /\ pc' = (IF Last THEN "bind" ELSE "read") /\ Returns
    BY <1>4 DEF ReadPage, waiting
  <2>2. pos' = Least(pos + pagesize, arrived) /\ pos' \in pos .. arrived
    BY <1>0, <2>1, PageRead DEF ReadSoFar
  <2>3. ASSUME Last PROVE pos' = arrived /\ (blocking => pos' = Len(file))
    <3>1. pos' < pos + pagesize
      BY <1>0, <2>1, <2>2, <2>3, PageRead DEF Last, OutTypes, ReadSoFar
    <3> QED
      BY <1>0, <2>1, <2>2, <3>1 DEF Least, Returns, OutTypes, ReadSoFar
  <2>4. ReadSoFar'
    BY <1>0, <2>1, <2>2 DEF ReadSoFar, ReadPcs
  <2>5. StopsAtTheEnd'
    BY <1>0, <2>1, <2>3 DEF StopsAtTheEnd
  <2> QED
    BY <2>4, <2>5 DEF StopInv
<1>5. CASE ParseError \/ HandlerError
  <2>1. /\ UNCHANGED <<file, arrived>> /\ pos' = pos + Len(readLines)
        /\ pc' = "inFailed"
    BY <1>5 DEF ParseError, HandlerError, waiting
  <2>2. /\ Least(pos + pagesize, arrived) \in pos .. arrived
        /\ Len(readLines) = Least(pos + pagesize, arrived) - pos
    BY <1>0, PageRead
  <2>3. pos \in Nat /\ arrived \in Nat /\ arrived <= Len(file) /\ file \in Seq(Line)
    BY <1>0 DEF ReadSoFar, OutTypes
  <2>4. pos' \in pos .. arrived
    BY <2>1, <2>2, <2>3
  <2>5. ReadSoFar'
    BY <2>1, <2>3, <2>4 DEF ReadSoFar, ReadPcs
  <2>6. StopsAtTheEnd'
    BY <2>1 DEF StopsAtTheEnd
  <2> QED
    BY <2>5, <2>6 DEF StopInv
<1>6. CASE Bind \/ LeaveIn
  <2>1. /\ UNCHANGED <<file, arrived, blocking, pos>>
        /\ pc \in {"bind", "bound", "inFailed"}
        /\ pc' \in {"bound", "done", "failed"}
        /\ pc' \in {"bound", "done"} => pc \in {"bind", "bound"}
    BY <1>6 DEF Bind, LeaveIn, Leave, waiting, reading
  <2> QED
    BY <1>0, <2>1 DEF StopInv, ReadSoFar, StopsAtTheEnd, ReadPcs
<1>7. CASE UNCHANGED vars
  BY <1>0, <1>7 DEF vars, reading, waiting, StopInv, ReadSoFar, StopsAtTheEnd, ReadPcs
<1> QED
  BY <1>1, <1>2, <1>3, <1>4, <1>5, <1>6, <1>7 DEF Next, Step

(* stream_in has read every line that had arrived when it stops; all lines *)
(* of the file, if the connection waits for them.                          *)
THEOREM StopsAtTheEndHolds == Spec => []StopsAtTheEnd
<1>1. StopInv => StopsAtTheEnd
  BY DEF StopInv
<1> QED
  BY <1>1, OutInvInit, OutInvNext, StopInvInit, StopInvNext, PTL DEF Spec

-----------------------------------------------------------------------------
(* Filtering lines, and binding pages                                      *)

(* The lines that are not blank, line by line.                             *)
Keeps(kept, s) ==
  /\ kept \in [0 .. Len(s) -> Seq(Line)]
  /\ kept[0] = <<>>
  /\ \A n \in 1 .. Len(s) :
       kept[n] = IF NotBlank(s[n]) THEN Append(kept[n - 1], s[n]) ELSE kept[n - 1]

LEMMA FilterSteps ==
  ASSUME NEW s \in Seq(Line)
  PROVE  \E kept : Keeps(kept, s) /\ Filter(s) = kept[Len(s)]
<1> DEFINE N == Len(s)
           Step1(n, k) == IF NotBlank(s[n]) THEN Append(k, s[n]) ELSE k
           F == [p \in (1 .. N) \X Seq(Line) |-> Step1(p[1], p[2])]
           Equation(f) == f = [n \in 0 .. N |-> IF n = 0 THEN <<>> ELSE Step1(n, f[n - 1])]
<1>1. N \in Nat /\ <<>> \in Seq(Line)
  OBVIOUS
<1>2. \A n \in 1 .. N, k \in Seq(Line) : Step1(n, k) \in Seq(Line)
  OBVIOUS
<1>3. F \in [(1 .. N) \X Seq(Line) -> Seq(Line)]
  <2> HIDE DEF Step1, N
  <2> QED
    BY <1>2
<1>4. \E f \in [0 .. N -> Seq(Line)] : Iterates(f, N, <<>>, F)
  <2> HIDE DEF F, N
  <2> QED
    BY <1>1, <1>3, IterationExists
<1>5. PICK f \in [0 .. N -> Seq(Line)] : Iterates(f, N, <<>>, F)
  BY <1>4
<1>6. ASSUME NEW n \in 1 .. N
      PROVE  f[n] = Step1(n, f[n - 1])
  <2>1. f[n - 1] \in Seq(Line) /\ <<n, f[n - 1]>> \in (1 .. N) \X Seq(Line)
    OBVIOUS
  <2>2. f[n] = F[<<n, f[n - 1]>>]
    BY <1>5 DEF Iterates
  <2> HIDE DEF Step1, N
  <2> QED
    BY <2>1, <2>2
<1>7. Equation(f)
  <2> HIDE DEF Step1, N
  <2> QED
    BY <1>5, <1>6 DEF Iterates
<1>8. PICK kept : Equation(kept) /\ Filter(s) = kept[N]
  <2> DEFINE kept == CHOOSE g : Equation(g)
  <2>1. Equation(kept)
    <3> HIDE DEF Equation
    <3> QED
      BY <1>7
  <2>2. Filter(s) = kept[N]
    BY DEF Filter
  <2> QED
    BY <2>1, <2>2
<1>9. kept[0] = <<>> /\ \A n \in 1 .. N : kept[n] = Step1(n, kept[n - 1])
  <2> HIDE DEF Step1, N
  <2> QED
    BY <1>1, <1>8
<1>10. \A n \in 0 .. N : kept[n] \in Seq(Line)
  <2>1. kept[0] \in Seq(Line)
    BY <1>9
  <2>2. \A n \in 1 .. N : kept[n - 1] \in Seq(Line) => kept[n] \in Seq(Line)
    <3> HIDE DEF Step1, N
    <3> QED
      BY <1>2, <1>9
  <2> HIDE DEF Step1, N
  <2> QED
    BY <1>1, <2>1, <2>2, IterationTyped
<1>11. kept \in [0 .. N -> Seq(Line)]
  <2> HIDE DEF Step1, N
  <2> QED
    BY <1>8, <1>10
<1> QED
  BY <1>8, <1>9, <1>11 DEF Keeps

LEMMA AppendToConcat ==
  ASSUME NEW x \in Seq(Line), NEW y \in Seq(Line), NEW e \in Line
  PROVE  Append(x \o y, e) = x \o Append(y, e)
  OBVIOUS

(* Filtering two texts one after the other.                                *)
LEMMA FilterJoins ==
  ASSUME NEW s \in Seq(Line), NEW t \in Seq(Line)
  PROVE  /\ Filter(s) \in Seq(Line) /\ Filter(t) \in Seq(Line)
         /\ Filter(s \o t) = Filter(s) \o Filter(t)
<1> DEFINE m == Len(s)
<1>1. PICK a : Keeps(a, s) /\ Filter(s) = a[m]
  BY FilterSteps
<1>2. PICK b : Keeps(b, t) /\ Filter(t) = b[Len(t)]
  BY FilterSteps
<1>3. /\ s \o t \in Seq(Line) /\ Len(s \o t) = m + Len(t)
      /\ \A n \in 1 .. m : (s \o t)[n] = s[n]
      /\ \A n \in 1 .. Len(t) : (s \o t)[m + n] = t[n]
  <2>1. /\ s \o t \in Seq(Line) /\ Len(s \o t) = m + Len(t)
        /\ \A k \in 1 .. m + Len(t) : (s \o t)[k] = IF k <= m THEN s[k] ELSE t[k - m]
    BY ConcatProperties
  <2>2. m \in Nat /\ Len(t) \in Nat
    OBVIOUS
  <2>3. \A n \in 1 .. Len(t) : m + n \in 1 .. m + Len(t) /\ ~(m + n <= m) /\ (m + n) - m = n
    BY <2>2
  <2>4. \A n \in 1 .. m : n \in 1 .. m + Len(t) /\ n <= m
    BY <2>2
  <2> QED
    BY <2>1, <2>3, <2>4, Zenon
<1>4. PICK u \in Seq(Line) : u = s \o t
  BY <1>3, Zenon
<1>5. /\ Len(u) = m + Len(t) /\ m \in Nat /\ Len(t) \in Nat
      /\ \A n \in 1 .. m : u[n] = s[n]
      /\ \A n \in 1 .. Len(t) : u[m + n] = t[n] /\ t[n] \in Line
  <2>1. m \in Nat /\ Len(t) \in Nat /\ \A n \in 1 .. Len(t) : t[n] \in Line
    OBVIOUS
  <2> QED
    BY <1>3, <1>4, <2>1, Zenon
<1> HIDE DEF m
<1>6. PICK c : Keeps(c, u) /\ Filter(u) = c[Len(u)]
  BY FilterSteps
<1>7. a[m] \in Seq(Line) /\ b[Len(t)] \in Seq(Line)
  <2>1. m \in 0 .. Len(s) /\ Len(t) \in 0 .. Len(t)
    BY <1>5 DEF m
  <2>2. a \in [0 .. Len(s) -> Seq(Line)] /\ b \in [0 .. Len(t) -> Seq(Line)]
    BY <1>1, <1>2 DEF Keeps
  <2> QED
    BY <2>1, <2>2, Zenon
<1>8. \A n \in 0 .. m : c[n] = a[n]
  <2> DEFINE S == {k \in 0 .. m : c[k] = a[k]}
  <2>1. 0 \in S
    BY <1>1, <1>5, <1>6 DEF Keeps
  <2>2. ASSUME NEW n \in 0 .. m - 1, n \in S
        PROVE  n + 1 \in S
    <3>1. n + 1 \in 1 .. m /\ n + 1 \in 1 .. Len(u) /\ (n + 1) - 1 = n
      BY <1>5
    <3>2. c[n] = a[n] /\ u[n + 1] = s[n + 1]
      BY <1>5, <2>2, <3>1
    <3>3. /\ c[n + 1] = IF NotBlank(u[n + 1]) THEN Append(c[n], u[n + 1]) ELSE c[n]
          /\ a[n + 1] = IF NotBlank(s[n + 1]) THEN Append(a[n], s[n + 1]) ELSE a[n]
      BY <1>1, <1>6, <3>1 DEF Keeps, m
    <3> QED
      BY <3>1, <3>2, <3>3
  <2> HIDE DEF S
  <2>3. \A n \in 0 .. m : n \in S
    BY <1>5, <2>1, <2>2, InductionUpTo
  <2> QED
    BY <2>3 DEF S
<1>9. \A n \in 0 .. Len(t) : c[m + n] = a[m] \o b[n]
  <2> DEFINE S == {k \in 0 .. Len(t) : c[m + k] = a[m] \o b[k]}
  <2>1. 0 \in S
    <3>1. m + 0 = m /\ 0 \in 0 .. Len(t) /\ c[m] = a[m] /\ b[0] = <<>>
      BY <1>2, <1>5, <1>8 DEF Keeps
    <3>2. a[m] \o <<>> = a[m]
      BY <1>7, ConcatEmptySeq
    <3> QED
      BY <3>1, <3>2, Zenon
  <2>2. ASSUME NEW n \in 0 .. Len(t) - 1, n \in S
        PROVE  n + 1 \in S
    <3>1. /\ n + 1 \in 1 .. Len(t) /\ n + 1 \in 0 .. Len(t) /\ (n + 1) - 1 = n /\ n \in 0 .. Len(t)
          /\ m + (n + 1) \in 1 .. Len(u) /\ (m + (n + 1)) - 1 = m + n
      BY <1>5
    <3>2. u[m + (n + 1)] = t[n + 1] /\ t[n + 1] \in Line
      BY <1>5, <3>1
    <3>3. b[n] \in Seq(Line)
      BY <1>2, <3>1 DEF Keeps
    <3>4. c[m + (n + 1)] = IF NotBlank(t[n + 1]) THEN Append(c[m + n], t[n + 1]) ELSE c[m + n]
      BY <1>6, <3>1, <3>2 DEF Keeps
    <3>5. b[n + 1] = IF NotBlank(t[n + 1]) THEN Append(b[n], t[n + 1]) ELSE b[n]
      BY <1>2, <3>1 DEF Keeps
    <3>6. c[m + n] = a[m] \o b[n]
      BY <2>2
    <3>7. Append(a[m] \o b[n], t[n + 1]) = a[m] \o Append(b[n], t[n + 1])
      BY <1>7, <3>2, <3>3, AppendToConcat, Zenon
    <3>8. c[m + (n + 1)] = a[m] \o b[n + 1]
      BY <3>4, <3>5, <3>6, <3>7, Zenon
    <3> QED
      BY <3>1, <3>8, Zenon
  <2> HIDE DEF S
  <2>3. \A n \in 0 .. Len(t) : n \in S
    BY <1>5, <2>1, <2>2, InductionUpTo
  <2> QED
    BY <2>3, Zenon DEF S
<1>10. Len(t) \in 0 .. Len(t)
  BY <1>5
<1>11. Filter(u) = a[m] \o b[Len(t)]
  BY <1>5, <1>6, <1>9, <1>10, Zenon
<1> QED
  BY <1>1, <1>2, <1>4, <1>7, <1>11, Zenon

-----------------------------------------------------------------------------
(* The pages in the environment, bound in the order of their names.        *)
BoundAt(pages, c) ==
  LET Upto[n \in 0 .. c] ==
        IF n = 0 THEN <<>> ELSE Upto[n - 1] \o (IF n \in DOMAIN pages THEN pages[n] ELSE <<>>)
  IN  Upto[c]

PageAt(pages, n) == IF n \in DOMAIN pages THEN pages[n] ELSE <<>>

Binds(upto, pages, c) ==
  /\ upto \in [0 .. c -> Seq(Line)]
  /\ upto[0] = <<>>
  /\ \A n \in 1 .. c : upto[n] = upto[n - 1] \o PageAt(pages, n)

LEMMA JoinsAreLines ==
  ASSUME NEW x \in Seq(Line), NEW y \in Seq(Line)
  PROVE  x \o y \in Seq(Line)
  OBVIOUS

LEMMA NothingJoined ==
  ASSUME NEW x \in Seq(Line)
  PROVE  x \o <<>> = x
  OBVIOUS

LEMMA BoundSteps ==
  ASSUME NEW c \in Nat, NEW pages, \A n \in DOMAIN pages : pages[n] \in Seq(Line)
  PROVE  \E upto : Binds(upto, pages, c) /\ BoundAt(pages, c) = upto[c]
<1> DEFINE Step1(n, k) == k \o PageAt(pages, n)
           F == [p \in (1 .. c) \X Seq(Line) |-> Step1(p[1], p[2])]
           Equation(f) == f = [n \in 0 .. c |-> IF n = 0 THEN <<>> ELSE Step1(n, f[n - 1])]
<1>1. <<>> \in Seq(Line)
  OBVIOUS
<1>2. \A n \in 1 .. c, k \in Seq(Line) : Step1(n, k) \in Seq(Line)
  <2> SUFFICES ASSUME NEW n \in 1 .. c, NEW k \in Seq(Line) PROVE Step1(n, k) \in Seq(Line)
    OBVIOUS
  <2>1. PageAt(pages, n) \in Seq(Line)
    BY <1>1 DEF PageAt
  <2> QED
    BY <2>1, JoinsAreLines, Zenon
<1>3. F \in [(1 .. c) \X Seq(Line) -> Seq(Line)]
  <2> HIDE DEF Step1
  <2> QED
    BY <1>2
<1>4. \E f \in [0 .. c -> Seq(Line)] : Iterates(f, c, <<>>, F)
  <2> HIDE DEF F
  <2> QED
    BY <1>1, <1>3, IterationExists
<1>5. PICK f \in [0 .. c -> Seq(Line)] : Iterates(f, c, <<>>, F)
  BY <1>4
<1>6. ASSUME NEW n \in 1 .. c
      PROVE  f[n] = Step1(n, f[n - 1])
  <2>1. f[n - 1] \in Seq(Line) /\ <<n, f[n - 1]>> \in (1 .. c) \X Seq(Line)
    OBVIOUS
  <2> HIDE DEF F
  <2>2. f[n] = F[<<n, f[n - 1]>>]
    BY <1>5 DEF Iterates
  <2> HIDE DEF Step1
  <2> QED
    BY <2>1, <2>2 DEF F
<1>7. Equation(f)
  <2> HIDE DEF Step1
  <2> QED
    BY <1>5, <1>6 DEF Iterates
<1>8. PICK upto : Equation(upto) /\ BoundAt(pages, c) = upto[c]
  <2> DEFINE upto == CHOOSE g : Equation(g)
  <2>1. Equation(upto)
    <3> HIDE DEF Equation
    <3> QED
      BY <1>7
  <2>2. BoundAt(pages, c) = upto[c]
    BY DEF BoundAt, PageAt
  <2> QED
    BY <2>1, <2>2
<1>9. upto[0] = <<>> /\ \A n \in 1 .. c : upto[n] = Step1(n, upto[n - 1])
  <2> HIDE DEF Step1
  <2> QED
    BY <1>8
<1>10. \A n \in 0 .. c : upto[n] \in Seq(Line)
  <2>1. upto[0] \in Seq(Line)
    BY <1>1, <1>9
  <2>2. \A n \in 1 .. c : upto[n - 1] \in Seq(Line) => upto[n] \in Seq(Line)
    <3> HIDE DEF Step1
    <3> QED
      BY <1>2, <1>9
  <2> HIDE DEF Step1
  <2> QED
    BY <2>1, <2>2, IterationTyped
<1>11. upto \in [0 .. c -> Seq(Line)]
  <2> HIDE DEF Step1
  <2> QED
    BY <1>8, <1>10
<1> QED
  BY <1>8, <1>9, <1>11 DEF Binds

(* The pages are named within a count.                                     *)
Within(pages, c) ==
  /\ DOMAIN pages \subseteq 1 .. c
  /\ \A n \in DOMAIN pages : pages[n] \in Seq(Line)

WithPage(pages, name, x) ==
  [n \in DOMAIN pages \cup {name} |-> IF n = name THEN x ELSE pages[n]]

(* A page comes last when it is named by the number of records so far.     *)
LEMMA BoundNext ==
  ASSUME NEW c \in Nat, NEW pages, NEW x \in Seq(Line), NEW k \in Nat \ {0}, Within(pages, c)
  PROVE  /\ Within(WithPage(pages, c + k, x), c + k)
         /\ BoundAt(WithPage(pages, c + k, x), c + k) = BoundAt(pages, c) \o x
<1> DEFINE more == WithPage(pages, c + k, x)
<1> USE DEF Within
<1>0. more = [n \in DOMAIN pages \cup {c + k} |-> IF n = c + k THEN x ELSE pages[n]]
  BY DEF WithPage
<1> HIDE DEF more
<1>1. c + k \in Nat /\ c \in 0 .. c + k - 1 /\ c + k - 1 \in Nat
  OBVIOUS
<1>2. DOMAIN more \subseteq 1 .. c + k /\ \A n \in DOMAIN more : more[n] \in Seq(Line)
  BY <1>0
<1>3. PICK u : Binds(u, pages, c) /\ BoundAt(pages, c) = u[c]
  BY BoundSteps
<1>4. PICK v : Binds(v, more, c + k) /\ BoundAt(more, c + k) = v[c + k]
  BY <1>1, <1>2, BoundSteps
<1>5. \A n \in 0 .. c : v[n] = u[n]
  <2> DEFINE S == {n \in 0 .. c : v[n] = u[n]}
  <2>1. 0 \in S
    BY <1>3, <1>4 DEF Binds
  <2>2. ASSUME NEW n \in 0 .. c - 1, n \in S
        PROVE  n + 1 \in S
    <3>1. n + 1 \in 1 .. c /\ n + 1 \in 0 .. c /\ n + 1 \in 1 .. c + k /\ (n + 1) - 1 = n /\ n + 1 # c + k
      OBVIOUS
    <3>2. PageAt(more, n + 1) = PageAt(pages, n + 1)
      BY <1>0, <3>1 DEF PageAt
    <3>3. v[n + 1] = v[n] \o PageAt(more, n + 1) /\ u[n + 1] = u[n] \o PageAt(pages, n + 1)
      BY <1>3, <1>4, <3>1 DEF Binds
    <3>4. v[n] = u[n]
      BY <2>2
    <3>5. v[n + 1] = u[n + 1]
      BY <3>2, <3>3, <3>4, Zenon
    <3> QED
      BY <3>1, <3>5
  <2> HIDE DEF S
  <2>3. \A n \in 0 .. c : n \in S
    BY <2>1, <2>2, InductionUpTo
  <2> QED
    BY <2>3 DEF S
<1>6. u[c] \in Seq(Line) /\ v[c] = u[c]
  BY <1>3, <1>5 DEF Binds
<1>7. \A n \in 0 .. k - 1 : v[c + n] = u[c]
  <2> DEFINE S == {n \in 0 .. k - 1 : v[c + n] = u[c]}
  <2>1. 0 \in S
    BY <1>6
  <2>2. ASSUME NEW n \in 0 .. (k - 1) - 1, n \in S
        PROVE  n + 1 \in S
    <3>1. /\ n + 1 \in 0 .. k - 1 /\ c + (n + 1) \in 1 .. c + k /\ (c + (n + 1)) - 1 = c + n
          /\ c + (n + 1) # c + k /\ c + (n + 1) \notin 1 .. c
      OBVIOUS
    <3>2. PageAt(more, c + (n + 1)) = <<>>
      BY <1>0, <3>1 DEF PageAt
    <3>3. v[c + (n + 1)] = v[c + n] \o PageAt(more, c + (n + 1))
      BY <1>4, <3>1 DEF Binds
    <3>4. v[c + n] = u[c]
      BY <2>2
    <3>5. u[c] \o <<>> = u[c]
      BY <1>6, NothingJoined, Zenon
    <3>6. v[c + (n + 1)] = u[c]
      BY <3>2, <3>3, <3>4, <3>5, Zenon
    <3> QED
      BY <3>1, <3>6
  <2> HIDE DEF S
  <2>3. k - 1 \in Nat
    OBVIOUS
  <2>4. \A n \in 0 .. k - 1 : n \in S
    BY <2>1, <2>2, <2>3, InductionUpTo
  <2> QED
    BY <2>4 DEF S
<1>8. k - 1 \in 0 .. k - 1 /\ c + (k - 1) = (c + k) - 1 /\ c + k \in 1 .. c + k
  OBVIOUS
<1>9. v[(c + k) - 1] = u[c]
  <2>1. v[c + (k - 1)] = u[c]
    BY <1>7, <1>8
  <2> QED
    BY <1>8, <2>1
<1>10. PageAt(more, c + k) = x
  BY <1>0 DEF PageAt
<1>11. v[c + k] = v[(c + k) - 1] \o PageAt(more, c + k)
  BY <1>4, <1>8 DEF Binds
<1>12. BoundAt(more, c + k) = BoundAt(pages, c) \o x
  BY <1>3, <1>4, <1>9, <1>10, <1>11, Zenon
<1> QED
  BY <1>2, <1>12 DEF more

-----------------------------------------------------------------------------
(* What stream_in has delivered                                            *)

Delivered == Filter(SubSeq(file, 1, pos))

(* The pages of the environment are named within the count, and bound      *)
(* together they are what was read; the handler was given just that, up to *)
(* the page that did not parse.                                            *)
DeliverInv ==
  /\ count \in Nat /\ handled \in Seq(Line)
  /\ Within(out, count)
  /\ pc \notin ReadPcs => count = 0 /\ out = <<>>
  /\ ~custom \/ pc \notin ReadPcs => handled = <<>>
  /\ pc \in {"read", "bind"} /\ ~custom => Bound(out) = Delivered
  /\ pc \in {"bound", "done"} /\ ~custom => result = Delivered
  /\ pc \in {"read", "bind", "bound", "done"} /\ custom => handled = Delivered
  /\ pc \in {"inFailed", "failed"} /\ custom =>
       \E p \in 0 .. Len(file) : handled = Filter(SubSeq(file, 1, p))

(* The lines up to a place, and from there to another.                     *)
LEMMA LinesSplit ==
  ASSUME NEW f \in Seq(Line), NEW p \in Nat, NEW q \in Nat, p <= q, q <= Len(f)
  PROVE  /\ SubSeq(f, 1, p) \in Seq(Line) /\ SubSeq(f, p + 1, q) \in Seq(Line)
         /\ SubSeq(f, 1, q) = SubSeq(f, 1, p) \o SubSeq(f, p + 1, q)
  OBVIOUS

LEMMA AllLines ==
  ASSUME NEW f \in Seq(Line)
  PROVE  SubSeq(f, 1, Len(f)) = f /\ SubSeq(f, 1, 0) = <<>>
  OBVIOUS

LEMMA BeginningOfJoined ==
  ASSUME NEW x \in Seq(Line), NEW y \in Seq(Line)
  PROVE  SubSeq(x \o y, 1, Len(x)) = x
  OBVIOUS

LEMMA NothingKept == Filter(<<>>) = <<>>
<1>1. <<>> \in Seq(Line) /\ Len(<<>>) = 0
  OBVIOUS
<1>2. PICK kept : Keeps(kept, <<>>) /\ Filter(<<>>) = kept[Len(<<>>)]
  BY <1>1, FilterSteps, Zenon
<1> QED
  BY <1>1, <1>2 DEF Keeps

(* What is kept of the lines up to a place is a beginning of what is kept  *)
(* of the file.                                                            *)
LEMMA KeptIsABeginning ==
  ASSUME NEW f \in Seq(Line), NEW p \in 0 .. Len(f)
  PROVE  /\ Filter(SubSeq(f, 1, p)) \in Seq(Line)
         /\ Filter(SubSeq(f, 1, p)) = SubSeq(Filter(f), 1, Len(Filter(SubSeq(f, 1, p))))
<1> DEFINE a == SubSeq(f, 1, p)
           b == SubSeq(f, p + 1, Len(f))
<1>1. a \in Seq(Line) /\ b \in Seq(Line) /\ f = a \o b
  <2>1. p \in Nat /\ Len(f) \in Nat /\ p <= Len(f)
    OBVIOUS
  <2>2. f = SubSeq(f, 1, Len(f))
    BY AllLines
  <2>3. PICK q \in Nat : q = Len(f) /\ p <= q /\ q <= Len(f)
    BY <2>1
  <2>4. /\ SubSeq(f, 1, p) \in Seq(Line) /\ SubSeq(f, p + 1, q) \in Seq(Line)
        /\ SubSeq(f, 1, q) = SubSeq(f, 1, p) \o SubSeq(f, p + 1, q)
    BY <2>1, <2>3, LinesSplit, Zenon
  <2> QED
    BY <2>2, <2>3, <2>4, Zenon
<1> HIDE DEF a, b
<1>2. Filter(a) \in Seq(Line) /\ Filter(b) \in Seq(Line) /\ Filter(f) = Filter(a) \o Filter(b)
  BY <1>1, FilterJoins
<1>3. Filter(a) = SubSeq(Filter(f), 1, Len(Filter(a)))
  BY <1>2, BeginningOfJoined
<1> QED
  BY <1>2, <1>3 DEF a

LEMMA NothingBound ==
  ASSUME out = <<>>, count = 0
  PROVE  Bound(out) = <<>>
<1>1. DOMAIN out = {} /\ 0 \in Nat
  OBVIOUS
<1>2. PICK u : Binds(u, out, 0) /\ BoundAt(out, 0) = u[0]
  BY <1>1, BoundSteps
<1> QED
  BY <1>2 DEF Binds, BoundAt, Bound

LEMMA BoundIsBoundAt == Bound(out) = BoundAt(out, count) /\ Bound(out)' = BoundAt(out', count')
  BY DEF Bound, BoundAt

LEMMA DeliverInvInit == Init => DeliverInv
<1> SUFFICES ASSUME Init PROVE DeliverInv
  OBVIOUS
<1>1. pc = "begin" /\ count = 0 /\ out = <<>> /\ handled = <<>> /\ custom = FALSE
  BY DEF Init
<1>2. DOMAIN out = {}
  BY <1>1
<1> QED
  BY <1>1, <1>2 DEF DeliverInv, ReadPcs, Within

(* The records of a page, after those of the pages before.                 *)
LEMMA DeliveredNext ==
  ASSUME OutTypes, ReadSoFar, file' = file, pos' = pos + Len(readLines)
  PROVE  /\ Filter(readLines) \in Seq(Line) /\ Delivered \in Seq(Line)
         /\ Delivered' = Delivered \o Filter(readLines)
         /\ pos \in 0 .. Len(file) /\ pos' \in 0 .. Len(file)
<1>1. /\ file \in Seq(Line) /\ pos \in Nat /\ pos' \in Nat /\ pos <= pos' /\ pos' <= Len(file)
      /\ pos' = Least(pos + pagesize, arrived)
  BY PageRead DEF OutTypes, ReadSoFar
<1>2. readLines = SubSeq(file, pos + 1, pos')
  BY <1>1 DEF readLines
<1>3. /\ SubSeq(file, 1, pos) \in Seq(Line) /\ readLines \in Seq(Line)
      /\ SubSeq(file, 1, pos') = SubSeq(file, 1, pos) \o readLines
  BY <1>1, <1>2, LinesSplit
<1>4. /\ Delivered \in Seq(Line) /\ Filter(readLines) \in Seq(Line)
      /\ Filter(SubSeq(file, 1, pos')) = Delivered \o Filter(readLines)
  BY <1>3, FilterJoins DEF Delivered
<1> QED
  BY <1>1, <1>4 DEF Delivered

LEMMA DeliverInvNext == OutInv /\ StopInv /\ DeliverInv /\ [Next]_vars => DeliverInv'
<1> SUFFICES ASSUME OutInv, StopInv, DeliverInv, [Next]_vars PROVE DeliverInv'
  OBVIOUS
<1>0. OutTypes /\ ReadSoFar
  BY DEF OutInv, StopInv
<1>1. CASE StreamOut \/ OutOpenFails \/ WritePage \/ WriteLast \/ WriteError \/ LeaveOut
  <2>1. /\ UNCHANGED <<count, out, handled, custom>>
        /\ pc \in {"begin", "write", "written", "outFailed"}
        /\ pc' \in {"write", "written", "outFailed", "saved"}
    BY <1>1 DEF StreamOut, OutOpenFails, WritePage, WriteLast, WriteError, LeaveOut, Leave, reading
  <2> QED
    BY <2>1 DEF DeliverInv, ReadPcs
<1>2. CASE StreamIn
  <2>1. /\ UNCHANGED <<count, out, handled, file, pos>>
        /\ pc = "saved" /\ pc' = "read"
    BY <1>2 DEF StreamIn
  <2>2. count = 0 /\ out = <<>> /\ handled = <<>> /\ pos = 0
    BY <1>0, <2>1 DEF DeliverInv, ReadSoFar, ReadPcs
  <2>3. Delivered' = <<>>
    BY <1>0, <2>1, <2>2, AllLines, NothingKept DEF Delivered, OutTypes
  <2>4. Bound(out)' = <<>>
    BY <2>1, <2>2, NothingBound, BoundIsBoundAt
  <2> QED
    BY <2>1, <2>2, <2>3, <2>4 DEF DeliverInv, ReadPcs
<1>3. CASE Arrive
  <2>1. UNCHANGED <<pc, count, out, handled, custom, file, pos, result>>
    BY <1>3 DEF Arrive, reading
  <2>2. Delivered' = Delivered /\ Bound(out)' = Bound(out)
    BY <2>1, BoundIsBoundAt DEF Delivered
  <2> QED
    BY <2>1, <2>2 DEF DeliverInv
<1>4. CASE ReadPage
  <2> DEFINE x == Filter(readLines)
  <2>1. /\ pc = "read" /\ pc' \in {"read", "bind"} /\ UNCHANGED <<file, custom, result>>
        /\ pos' = pos + Len(readLines)
        /\ IF readLines # <<>> THEN Callback(x) ELSE UNCHANGED <<count, out, handled>>
    BY <1>4 DEF ReadPage
  <2>2. /\ x \in Seq(Line) /\ Delivered \in Seq(Line) /\ Delivered' = Delivered \o x
    BY <1>0, <2>1, DeliveredNext
  <2>3. readLines = <<>> => x = <<>>
    BY NothingKept
  <2> HIDE DEF x
  <2>4. CASE custom
    <3>1. handled' = handled \o x /\ count' \in Nat /\ UNCHANGED out /\ count <= count'
      <4>1. CASE readLines # <<>>
        <5>1. Len(x) \in Nat /\ count \in Nat
          BY <2>2 DEF DeliverInv
        <5> QED
          BY <2>1, <2>4, <4>1, <5>1 DEF Callback
      <4>2. CASE readLines = <<>>
        <5>1. handled \o x = handled
          BY <2>3, <4>2, NothingJoined DEF DeliverInv
        <5> QED
          BY <2>1, <4>2, <5>1 DEF DeliverInv
      <4> QED
        BY <4>1, <4>2
    <3>2. handled = Delivered
      BY <2>1, <2>4 DEF DeliverInv
    <3>3. handled' = Delivered' /\ handled' \in Seq(Line)
      BY <2>2, <3>1, <3>2, JoinsAreLines
    <3>4. Within(out', count')
      BY <3>1 DEF DeliverInv, Within
    <3> QED
      BY <2>1, <2>4, <3>1, <3>3, <3>4 DEF DeliverInv, ReadPcs
  <2>5. CASE ~custom
    <3>1. Bound(out) = Delivered /\ handled = <<>> /\ count \in Nat
      BY <2>1, <2>5 DEF DeliverInv
    <3>2. CASE x # <<>>
      <4>1. readLines # <<>> /\ Len(x) \in Nat \ {0}
        BY <2>2, <2>3, <3>2
      <4>2. /\ count' = count + Len(x) /\ handled' = handled
            /\ out' = [n \in DOMAIN out \cup {count + Len(x)} |-> IF n = count + Len(x) THEN x ELSE out[n]]
        BY <2>1, <2>5, <4>1 DEF Callback, Name
      <4>3. out' = WithPage(out, count + Len(x), x) /\ Within(out, count)
        BY <4>2 DEF WithPage, DeliverInv
      <4>4. /\ Within(out', count + Len(x))
            /\ BoundAt(out', count + Len(x)) = BoundAt(out, count) \o x
        BY <2>2, <3>1, <4>1, <4>3, BoundNext
      <4>5. Bound(out)' = Delivered'
        <5>1. Bound(out)' = BoundAt(out', count + Len(x)) /\ Bound(out) = BoundAt(out, count)
          BY <4>2, BoundIsBoundAt
        <5> QED
          BY <2>2, <3>1, <4>4, <5>1
      <4>6. count' \in Nat /\ handled' = <<>> /\ pc' \in {"read", "bind"} /\ ~custom'
        BY <2>1, <2>5, <3>1, <4>1, <4>2
      <4>7. Within(out', count')
        BY <4>2, <4>4
      <4> QED
        BY <4>5, <4>6, <4>7 DEF DeliverInv, ReadPcs
    <3>3. CASE x = <<>>
      <4>1. UNCHANGED <<count, out, handled>>
        BY <2>1, <2>2, <2>5, <3>3 DEF Callback
      <4>2. Delivered' = Delivered
        BY <2>2, <3>3, NothingJoined
      <4>3. Bound(out)' = Bound(out)
        BY <4>1, BoundIsBoundAt
      <4> QED
        BY <2>1, <2>5, <3>1, <4>1, <4>2, <4>3 DEF DeliverInv, ReadPcs
    <3> QED
      BY <3>2, <3>3
  <2> QED
    BY <2>4, <2>5
<1>5. CASE ParseError
  <2>1. /\ pc = "read" /\ pc' = "inFailed" /\ UNCHANGED <<file, custom, count, out, handled>>
        /\ pos' = pos + Len(readLines)
    BY <1>5 DEF ParseError
  <2>2. pos \in 0 .. Len(file)
    BY <1>0, <2>1, DeliveredNext
  <2>3. custom => handled = Filter(SubSeq(file, 1, pos))
    BY <2>1 DEF DeliverInv, Delivered
  <2> QED
    BY <2>1, <2>2, <2>3 DEF DeliverInv, ReadPcs
<1>6. CASE HandlerError
  <2>1. /\ pc = "read" /\ pc' = "inFailed" /\ UNCHANGED <<file, custom, count, out>> /\ custom
        /\ pos' = pos + Len(readLines) /\ handled' = handled \o Filter(readLines)
    BY <1>6 DEF HandlerError
  <2>2. /\ Filter(readLines) \in Seq(Line) /\ pos' \in 0 .. Len(file)
        /\ Delivered' = Delivered \o Filter(readLines) /\ Delivered \in Seq(Line)
    BY <1>0, <2>1, DeliveredNext
  <2>3. handled = Delivered
    BY <2>1 DEF DeliverInv
  <2>4. handled' = Filter(SubSeq(file, 1, pos'))
    BY <2>1, <2>2, <2>3 DEF Delivered
  <2>5. handled' \in Seq(Line)
    BY <2>1, <2>2, <2>3, JoinsAreLines
  <2> QED
    BY <2>1, <2>2, <2>4, <2>5 DEF DeliverInv, ReadPcs
<1>7. CASE Bind
  <2>1. /\ pc = "bind" /\ pc' = "bound" /\ UNCHANGED <<file, pos, custom, count, out, handled>>
        /\ ~custom => result' = Bound(out)
    BY <1>7 DEF Bind
  <2>2. Delivered' = Delivered
    BY <2>1 DEF Delivered
  <2> QED
    BY <2>1, <2>2 DEF DeliverInv, ReadPcs
<1>8. CASE LeaveIn
  <2>1. /\ UNCHANGED <<file, pos, custom, count, out, handled, result>>
        /\ (pc = "bound" /\ pc' = "done") \/ (pc = "inFailed" /\ pc' = "failed")
    BY <1>8 DEF LeaveIn, Leave, reading
  <2>2. Delivered' = Delivered
    BY <2>1 DEF Delivered
  <2> QED
    BY <2>1, <2>2 DEF DeliverInv, ReadPcs
<1>9. CASE InOpenFails
  <2>1. /\ UNCHANGED <<count, out, handled, file>>
        /\ pc = "saved" /\ pc' = "inFailed"
    BY <1>9 DEF InOpenFails, reading
  <2>2. handled = <<>>
    BY <2>1 DEF DeliverInv, ReadPcs
  <2>3. 0 \in 0 .. Len(file') /\ handled' = Filter(SubSeq(file', 1, 0))
    <3>1. file \in Seq(Line) /\ file' = file /\ Len(file) \in Nat
      BY <1>0, <2>1 DEF OutTypes
    <3>2. SubSeq(file', 1, 0) = <<>>
      BY <3>1, AllLines
    <3>3. Filter(SubSeq(file', 1, 0)) = <<>>
      BY <3>2, NothingKept
    <3> QED
      BY <2>1, <2>2, <3>1, <3>3
  <2> QED
    BY <2>1, <2>2, <2>3 DEF DeliverInv, ReadPcs
<1>10. CASE UNCHANGED vars
  <2>1. UNCHANGED <<pc, count, out, handled, custom, file, pos, result>>
    BY <1>10 DEF vars, reading
  <2>2. Delivered' = Delivered /\ Bound(out)' = Bound(out)
    BY <2>1, BoundIsBoundAt DEF Delivered
  <2> QED
    BY <2>1, <2>2 DEF DeliverInv
<1> QED
  BY <1>1, <1>2, <1>3, <1>4, <1>5, <1>6, <1>7, <1>8, <1>9, <1>10 DEF Next, Step

LEMMA DeliverInvMeans ==
  ASSUME OutInv, StopInv, DeliverInv
  PROVE  DeliveredInOrder
<1>1. file \in Seq(Line) /\ pos \in 0 .. Len(file)
  BY DEF OutInv, OutTypes, StopInv, ReadSoFar
<1>2. handled = SubSeq(Filter(file), 1, Len(handled))
  <2>1. CASE handled = <<>>
    <3>1. Filter(file) \in Seq(Line)
      BY <1>1, FilterJoins
    <3>2. SubSeq(Filter(file), 1, 0) = <<>> /\ Len(<<>>) = 0
      BY <3>1, AllLines
    <3> QED
      BY <2>1, <3>2
  <2>2. CASE handled # <<>>
    <3>1. \E p \in 0 .. Len(file) : handled = Filter(SubSeq(file, 1, p))
      BY <1>1, <2>2 DEF DeliverInv, ReadPcs, Delivered
    <3> QED
      BY <1>1, <3>1, KeptIsABeginning
  <2> QED
    BY <2>1, <2>2
<1> QED
  BY <1>2 DEF DeliveredInOrder, DeliverInv, Delivered

(* stream_in delivers the records of the lines that it has read, all of    *)
(* them, once and in order, whatever the pages and however many.           *)
THEOREM DeliveredInOrderHolds == Spec => []DeliveredInOrder
  BY OutInvInit, OutInvNext, StopInvInit, StopInvNext, DeliverInvInit, DeliverInvNext,
     DeliverInvMeans, PTL DEF Spec

-----------------------------------------------------------------------------
(* The connection                                                          *)

Inside == {"write", "written", "outFailed", "read", "bind", "bound", "inFailed"}

(* A function that runs has the connection open and will close it, or has  *)
(* failed to open it, exactly if it was not open before.                   *)
ConnInv ==
  /\ isOpen \in BOOLEAN /\ wasOpen \in BOOLEAN /\ onExit \in BOOLEAN
  /\ pc = "begin" => onExit = FALSE /\ isOpen = FALSE /\ wasOpen = FALSE
  /\ pc \in Inside => ((isOpen = TRUE /\ onExit = FALSE) <=> wasOpen = TRUE)
  /\ pc \in {"saved", "done", "failed"} => onExit = FALSE
  /\ ConnectionAsFound

LEMMA ConnInvInit == Init => ConnInv
  BY DEF Init, ConnInv, ConnectionAsFound, Inside

LEMMA ConnInvNext == ConnInv /\ [Next]_vars => ConnInv'
<1> SUFFICES ASSUME ConnInv, [Next]_vars PROVE ConnInv'
  OBVIOUS
<1> USE DEF ConnInv, ConnectionAsFound, Inside
<1>1. CASE StreamOut
  BY <1>1 DEF StreamOut, UserOpens, Reopens
<1>2. CASE OutOpenFails \/ StreamIn \/ InOpenFails
  BY <1>2 DEF OutOpenFails, StreamIn, InOpenFails, opening
<1>3. CASE LeaveOut \/ LeaveIn
  <2>1. /\ pc \in Inside /\ pc' \in {"saved", "done", "failed"}
        /\ isOpen' = (isOpen /\ ~onExit) /\ onExit' = FALSE /\ wasOpen' = wasOpen
    BY <1>3 DEF LeaveOut, LeaveIn, Leave
  <2>2. isOpen' = wasOpen
    BY <2>1
  <2> QED
    BY <2>1, <2>2
<1>4. CASE WritePage \/ WriteLast \/ WriteError \/ Arrive
  BY <1>4 DEF WritePage, WriteLast, WriteError, Arrive, opening
<1>5. CASE ReadPage \/ ParseError \/ HandlerError \/ Bind
  BY <1>5 DEF ReadPage, ParseError, HandlerError, Bind, opening
<1>6. CASE UNCHANGED vars
  BY <1>6 DEF vars, opening
<1> QED
  BY <1>1, <1>2, <1>3, <1>4, <1>5, <1>6 DEF Next, Step

(* However stream_out and stream_in end, the connection is open or closed  *)
(* as it was before.                                                       *)
THEOREM ConnectionAsFoundHolds == Spec => []ConnectionAsFound
<1>1. ConnInv => ConnectionAsFound
  BY DEF ConnInv
<1> QED
  BY <1>1, ConnInvInit, ConnInvNext, PTL DEF Spec
=============================================================================
