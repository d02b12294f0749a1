------------------------------ MODULE PushReader ------------------------------
(***************************************************************************)
(* fromJSON on a connection: R_parse_connection (src/src/push_parser.c)    *)
(* reads chunks with readBin and feeds them to the parser, whose tree      *)
(* builder works on the one global context mem_ctx (yajl_tree.c).  Each    *)
(* call has a handle of its own on the heap; the context is shared.        *)
(*                                                                         *)
(* readBin is R code, and so is a handler of the warning about a byte-     *)
(* order mark.  While they run, the same R process may call fromJSON on    *)
(* another connection, and an R error in them leaves the call at once.     *)
(***************************************************************************)
EXTENDS TreeFree

CONSTANTS
  MaxCalls,   \* bound: the number of calls of R_parse_connection
  MaxNested   \* how many of them may be running at the same time

ASSUME CallsAssumption == MaxCalls \in Nat /\ MaxNested \in Nat \ {0}

VARIABLES
  pc,         \* where the innermost call stands
  suspended,  \* the handles of the calls that wait for it in their readBin
  calls,      \* the number of calls made
  result      \* what the innermost call returns, NULL for an R error

handleVars == <<stateStack, parseError, call, status, unfinished, consumed>>
readerVars == <<flags, handleVars, ctx, pc, suspended, calls, result>>

Saved == [stateStack |-> stateStack, parseError |-> parseError, call |-> call,
          status |-> status, unfinished |-> unfinished, consumed |-> consumed]

SetHandle(h) ==
  /\ stateStack' = h.stateStack /\ parseError' = h.parseError /\ call' = h.call
  /\ status' = h.status /\ unfinished' = h.unfinished /\ consumed' = h.consumed

NewHandle == [stateStack |-> Push(<<>>, "start"), parseError |-> "none", call |-> "none",
              status |-> "ok", unfinished |-> FALSE, consumed |-> <<>>]

(* The context is filled with zeros.  Slip: it is not.                     *)
ContextLeft == ctx
NewContext == EmptyContext

ReaderInit ==
  /\ TreeInit
  /\ pc = "idle"
  /\ suspended = <<>>
  /\ calls = 0
  /\ result = NULL

(* fromJSON is called, at top level or by R code that readBin runs:        *)
(* push_parser_new allocates a handle and makes the context new.           *)
Begin ==
  /\ calls < MaxCalls
  /\ \/ pc = "idle" /\ UNCHANGED suspended
     \/ /\ pc = "reading"
        /\ Len(suspended) + 1 < MaxNested
        /\ suspended' = Append(suspended, Saved)
  /\ SetHandle(NewHandle)
  /\ ctx' = NewContext
  /\ pc' = "reading"
  /\ calls' = calls + 1
  /\ result' = NULL
  /\ UNCHANGED flags

(* readBin returns a chunk, or nothing at the end of the connection.       *)
ReadChunk == pc = "reading" /\ Parse /\ pc' = "parsing"
ReadEnd   == pc = "reading" /\ CompleteParse /\ pc' = "parsing"

(* An R error in readBin, or a warning turned into one, jumps over all of  *)
(* the cleaning up.                                                        *)
ReadError == pc = "reading" /\ pc' = "failed" /\ UNCHANGED <<flags, handleVars>>

Run ==
  /\ pc = "parsing"
  /\ \/ (EndChunk \/ Finish) /\ UNCHANGED ctx
     \/ \E t \in Lexemes :
          \/ SilentStep(t) /\ UNCHANGED ctx
          \/ \E mem \in Failures : BuildStep(t, mem)
  /\ UNCHANGED <<pc, suspended, calls, result>>

\* yajl_parse or yajl_complete_parse has returned.
Returned(function) == pc = "parsing" /\ status # "running" /\ call = function

NextChunk ==
  /\ Returned("parse") /\ status = "ok"
  /\ pc' = "reading"
  /\ UNCHANGED <<flags, handleVars, ctx, suspended, calls, result>>

(* push_parser_get, ParseValue and yajl_tree_free.  ParseValue has no      *)
(* value for a root that is missing, and raises an R error.                *)
GetTree ==
  /\ Returned("complete") /\ status = "ok"
  /\ IF ctx.root = NULL
       THEN pc' = "failed" /\ UNCHANGED <<result, ctx>>
       ELSE /\ pc' = "returned"
            /\ result' = ctx.root
            /\ ctx' = yajl_tree_free(ctx, ctx.root)
  /\ UNCHANGED <<flags, handleVars, suspended, calls>>

(* JSON_FAIL: the handle is freed and an R error is raised.                *)
JsonFail ==
  /\ pc = "parsing" /\ status \in {"error", "client_canceled"}
  /\ pc' = "failed"
  /\ UNCHANGED <<flags, handleVars, ctx, suspended, calls, result>>

(* Back in the caller: nobody, or R code that readBin runs for the call    *)
(* that was suspended, and that catches the error if there was one.        *)
Resume ==
  /\ pc \in {"returned", "failed"}
  /\ IF suspended = <<>>
       THEN pc' = "idle" /\ UNCHANGED <<handleVars, suspended>>
       ELSE /\ pc' = "reading"
            /\ SetHandle(suspended[Len(suspended)])
            /\ suspended' = Pop(suspended)
  /\ UNCHANGED <<flags, ctx, calls, result>>

ReaderNext ==
  \/ Begin
  \/ (ReadChunk \/ ReadEnd \/ ReadError) /\ UNCHANGED <<ctx, suspended, calls, result>>
  \/ Run
  \/ NextChunk
  \/ GetTree
  \/ JsonFail
  \/ Resume

ReaderSpec == ReaderInit /\ [][ReaderNext]_readerVars

-----------------------------------------------------------------------------
(* Safety *)

(* The assertion of yajl_tree.c:239: a value becomes the root only where   *)
(* there is none, also when another call has left its own in the context.  *)
RootIsFree == [][(pc = "parsing" /\ ctx.root # NULL /\ Run) => ctx'.root = ctx.root]_readerVars

(* A call that succeeds has freed its tree and left nothing on the stack.  *)
SuccessFreesAll == pc = "returned" => ctx.blocks = 0 /\ ~IsOpen(ctx)

(* Success without a root, for which ParseValue has no R value.            *)
RootIsThere == Returned("complete") /\ status = "ok" => ctx.root # NULL

(* A call that fails has freed what it built: "a small memory leak in the  *)
(* push parser" is fixed.                                                  *)
FailureFreesAll == pc = "failed" => ctx.blocks = 0
=============================================================================
