--------------------------- MODULE ControlProtocol ---------------------------
(***************************************************************************)
(* The control protocol of internal/query.go, in both directions.          *)
(*                                                                         *)
(* Out: sendControlRequest registers a one-place channel under a fresh id, *)
(* writes the request and waits for that channel or for its context; the   *)
(* read loop resolves it with the CLI's control_response, or, when the     *)
(* stream has ended, with each error the transport left behind.            *)
(*                                                                         *)
(* In: the read loop starts a goroutine for each control_request, which    *)
(* registers a cancel function, runs the host's callback and writes the    *)
(* response, unless a control_cancel_request cancelled it first.           *)
(*                                                                         *)
(* Actors: the callers, the read loop, one handler per request of the CLI, *)
(* the CLI, which may answer late, twice or never, and exit, and the host, *)
(* which may or may not read.  A frame of the conversation matters here    *)
(* for lastErrorResult and for its place in rawMessages: the read loop     *)
(* waits for one, and hears nothing meanwhile.                             *)
(***************************************************************************)
EXTENDS Naturals, Sequences, FiniteSets

CONSTANTS
  Calls,        \* control requests of the SDK; each is one call
  Requests,     \* control requests of the CLI
  ErrorsCap,    \* capacity of q.errors (10)
  RawCap,       \* capacity of q.rawMessages (100)
  MaxFrames,    \* bound: frames the read loop takes
  MaxErrors     \* bound: errors the transport reports before the CLI exits

ASSUME ControlAssumption ==
  /\ ErrorsCap \in Nat \ {0} /\ RawCap \in Nat \ {0}
  /\ MaxFrames \in Nat
  /\ MaxErrors \in Nat

VARIABLES
  call,             \* sendControlRequest: [Calls -> [pc, result]]
  pending,          \* q.pendingResponses, by call
  chan,             \* responseCh of each call
  sent,             \* requests that reached the CLI
  heard,            \* calls for which a response frame was handled
  reader,           \* the read loop: [pc, call, result]
  framesRead,       \* frames taken so far (bounded by MaxFrames)
  raw,              \* how many frames are in q.rawMessages
  lastErrorResult,  \* q.lastErrorResult # nil
  exit,             \* how the CLI exited: "no", "clean", "failed"
  transportErrors,  \* transport.Errors()
  errors,           \* q.errors
  closed,           \* q.closed
  handler,          \* handleControlRequest: [Requests -> [pc, cancelled]]
  inflight,         \* q.inflightRequests
  abandoned,        \* what the cancel of a request found: "no" (none yet),
                    \* "live" (a registered handler), "unknown"
  answered          \* requests of the CLI whose response was written

callVars    == <<call, pending, chan, sent, heard>>
readerVars  == <<reader, framesRead, raw, lastErrorResult>>
cliVars     == <<exit, transportErrors, errors, closed>>
handlerVars == <<handler, inflight, abandoned, answered>>
vars == <<call, pending, chan, sent, heard, reader, framesRead, raw, lastErrorResult,
          exit, transportErrors, errors, closed, handler, inflight, abandoned, answered>>

Answers  == {"success", "error"}
Failures == {"ProcessError", "ResultError", "other"}
Empty    == "empty"
None     == "none"
Outcomes == Answers \cup Failures \cup {"timeout", "writeError"}
NoCall   == "no call"
Idle     == [pc |-> "recv", call |-> NoCall, result |-> None]
InHand   == [Idle EXCEPT !.pc = "forward"]   \* with a frame for the host

-----------------------------------------------------------------------------
Init ==
  /\ call = [c \in Calls |-> [pc |-> "idle", result |-> None]]
  /\ pending = {}
  /\ chan = [c \in Calls |-> Empty]
  /\ sent = {} /\ heard = {}
  /\ reader = Idle
  /\ framesRead = 0 /\ raw = 0
  /\ lastErrorResult = FALSE
  /\ exit = "no"
  /\ transportErrors = <<>> /\ errors = <<>>
  /\ closed = FALSE
  /\ handler = [r \in Requests |-> [pc |-> "none", cancelled |-> FALSE]]
  /\ inflight = {}
  /\ abandoned = [r \in Requests |-> "no"]
  /\ answered = {}

(* ---- sendControlRequest ---- *)

Register_Mutant(c) ==   \* writes before it registers the channel
  /\ call[c].pc = "idle" /\ ~closed
  /\ call' = [call EXCEPT ![c].pc = "write"]
  /\ UNCHANGED <<pending, chan, sent, heard, readerVars, cliVars, handlerVars>>

\* The channel is registered before the request can be answered.
Register(c) ==
  /\ call[c].pc = "idle" /\ ~closed
  /\ pending' = pending \cup {c}
  /\ call' = [call EXCEPT ![c].pc = "write"]
  /\ UNCHANGED <<chan, sent, heard, readerVars, cliVars, handlerVars>>

\* An exited CLI takes no request; any other may, or may have closed its stdin.
WriteRequest(c) ==
  /\ call[c].pc = "write"
  /\ exit = "no"
  /\ sent' = sent \cup {c}
  /\ call' = [call EXCEPT ![c].pc = "wait"]
  /\ UNCHANGED <<pending, chan, heard, readerVars, cliVars, handlerVars>>

WriteRequestFails(c) ==
  /\ call[c].pc = "write"
  /\ call' = [call EXCEPT ![c] = [pc |-> "leave", result |-> "writeError"]]
  /\ UNCHANGED <<pending, chan, sent, heard, readerVars, cliVars, handlerVars>>

TakeResult(c) ==
  /\ call[c].pc = "wait"
  /\ chan[c] # Empty
  /\ call' = [call EXCEPT ![c] = [pc |-> "leave", result |-> chan[c]]]
  /\ chan' = [chan EXCEPT ![c] = Empty]
  /\ UNCHANGED <<pending, sent, heard, readerVars, cliVars, handlerVars>>

\* ctx.Done(): it may win even when a result is there.
TimeOut(c) ==
  /\ call[c].pc = "wait"
  /\ call' = [call EXCEPT ![c] = [pc |-> "leave", result |-> "timeout"]]
  /\ UNCHANGED <<pending, chan, sent, heard, readerVars, cliVars, handlerVars>>

\* The deferred delete, in a critical section of its own.
Leave(c) ==
  /\ call[c].pc = "leave"
  /\ pending' = pending \ {c}
  /\ call' = [call EXCEPT ![c].pc = "returned"]
  /\ UNCHANGED <<chan, sent, heard, readerVars, cliVars, handlerVars>>

(* ---- the read loop ---- *)

TakeFrame ==
  /\ reader.pc = "recv" /\ ~closed
  /\ framesRead < MaxFrames
  /\ framesRead' = framesRead + 1

\* Membership and removal are one critical section; an unknown id is skipped.
ReadResponse(c, answer) ==
  /\ TakeFrame
  /\ c \in sent
  /\ heard' = heard \cup {c}
  /\ IF c \in pending
     THEN /\ pending' = pending \ {c}
          /\ reader' = [pc |-> "deliver", call |-> c, result |-> answer]
     ELSE UNCHANGED <<pending, reader>>
  /\ UNCHANGED <<call, chan, sent, raw, lastErrorResult, cliVars, handlerVars>>

\* A send on a one-place channel that never blocks.
Offer(ch, result) == IF ch = Empty THEN result ELSE ch

Deliver ==
  /\ reader.pc = "deliver"
  /\ chan' = [chan EXCEPT ![reader.call] = Offer(@, reader.result)]
  /\ reader' = Idle
  /\ UNCHANGED <<call, pending, sent, heard, framesRead, raw, lastErrorResult, cliVars, handlerVars>>

\* A result, another frame of the conversation, or a report of the CLI's state,
\* which leaves lastErrorResult alone: each is the host's.
ReadResult(isError) ==
  /\ TakeFrame
  /\ lastErrorResult' = isError
  /\ reader' = InHand
  /\ UNCHANGED <<callVars, raw, cliVars, handlerVars>>

ReadConversation ==
  /\ TakeFrame
  /\ lastErrorResult' = FALSE
  /\ reader' = InHand
  /\ UNCHANGED <<callVars, raw, cliVars, handlerVars>>

ReadState ==
  /\ TakeFrame
  /\ reader' = InHand
  /\ UNCHANGED <<callVars, raw, lastErrorResult, cliVars, handlerVars>>

\* The send on rawMessages waits for a place, or for Close, which drops the frame.
Forward ==
  /\ reader.pc = "forward"
  /\ \/ raw < RawCap /\ raw' = raw + 1
     \/ closed /\ UNCHANGED raw
  /\ reader' = Idle
  /\ UNCHANGED <<callVars, framesRead, lastErrorResult, cliVars, handlerVars>>

\* The host takes a frame: nothing makes it.
HostReads ==
  /\ raw > 0
  /\ raw' = raw - 1
  /\ UNCHANGED <<callVars, reader, framesRead, lastErrorResult, cliVars, handlerVars>>

\* go spawnControlRequestHandler: the handler registers itself, later.
ReadRequest(r) ==
  /\ TakeFrame
  /\ handler[r].pc = "none"
  /\ handler' = [handler EXCEPT ![r].pc = "spawned"]
  /\ UNCHANGED <<callVars, reader, raw, lastErrorResult, cliVars, inflight, abandoned, answered>>

\* The CLI cancels a request it made, once; it may have been answered by then.
ReadCancel(r) ==
  /\ TakeFrame
  /\ handler[r].pc # "none" /\ abandoned[r] = "no"
  /\ IF r \in inflight
     THEN /\ handler' = [handler EXCEPT ![r].cancelled = TRUE]
          /\ inflight' = inflight \ {r}
          /\ abandoned' = [abandoned EXCEPT ![r] = "live"]
     ELSE /\ abandoned' = [abandoned EXCEPT ![r] = "unknown"]
          /\ UNCHANGED <<handler, inflight>>
  /\ UNCHANGED <<callVars, reader, raw, lastErrorResult, cliVars, answered>>

\* The stream ended after the frames the transport had buffered, or a frame
\* finds the query closed.
LoopEnds ==
  /\ reader.pc = "recv"
  /\ exit # "no" \/ (closed /\ framesRead < MaxFrames)
  /\ reader' = [reader EXCEPT !.pc = "drain"]
  /\ UNCHANGED <<callVars, framesRead, raw, lastErrorResult, cliVars, handlerVars>>

\* The error worth reporting: a failed exit that an error result explains.
PendingErr(err) == IF err = "ProcessError" /\ lastErrorResult THEN "ResultError" ELSE err

DrainError_Mutant ==   \* only the caller's error names the result
  /\ reader.pc = "drain" /\ transportErrors # <<>>
  /\ LET err == Head(transportErrors) IN
     /\ chan' = [c \in Calls |-> IF c \in pending THEN Offer(chan[c], err) ELSE chan[c]]
     /\ errors' = IF Len(errors) < ErrorsCap THEN Append(errors, PendingErr(err)) ELSE errors
  /\ pending' = {}
  /\ transportErrors' = Tail(transportErrors)
  /\ UNCHANGED <<call, sent, heard, readerVars, exit, closed, handlerVars>>

DrainError_Mutant2 ==   \* leaves pending requests to their time-outs
  /\ reader.pc = "drain" /\ transportErrors # <<>>
  /\ LET err == Head(transportErrors) IN
     errors' = IF Len(errors) < ErrorsCap THEN Append(errors, PendingErr(err)) ELSE errors
  /\ transportErrors' = Tail(transportErrors)
  /\ UNCHANGED <<call, chan, pending, sent, heard, readerVars, exit, closed, handlerVars>>

\* Each error fails every request still pending, then goes to the caller unless
\* q.errors is full.
DrainError ==
  /\ reader.pc = "drain" /\ transportErrors # <<>>
  /\ LET err == PendingErr(Head(transportErrors)) IN
     /\ chan' = [c \in Calls |-> IF c \in pending THEN Offer(chan[c], err) ELSE chan[c]]
     /\ errors' = IF Len(errors) < ErrorsCap THEN Append(errors, err) ELSE errors
  /\ pending' = {}
  /\ transportErrors' = Tail(transportErrors)
  /\ UNCHANGED <<call, sent, heard, readerVars, exit, closed, handlerVars>>

\* transport.Errors() is closed once the CLI was reaped, before the messages
\* channel is.
ReaderGone ==
  /\ reader.pc = "drain" /\ transportErrors = <<>> /\ exit # "no"
  /\ reader' = [reader EXCEPT !.pc = "gone"]
  /\ UNCHANGED <<callVars, framesRead, raw, lastErrorResult, cliVars, handlerVars>>

(* ---- the transport and the CLI ---- *)

\* A line too long, reported while the stream goes on.
TransportReports ==
  /\ exit = "no"
  /\ Len(transportErrors) < MaxErrors
  /\ transportErrors' = Append(transportErrors, "other")
  /\ UNCHANGED <<callVars, readerVars, exit, errors, closed, handlerVars>>

\* stdout ends and the CLI is reaped; a failed exit leaves a ProcessError, which
\* a transport being closed may drop.
CliExits(how) ==
  /\ exit = "no"
  /\ exit' = how
  /\ \/ how = "failed" /\ transportErrors' = Append(transportErrors, "ProcessError")
     \/ (how = "clean" \/ closed) /\ UNCHANGED transportErrors
  /\ UNCHANGED <<callVars, readerVars, errors, closed, handlerVars>>

\* Query.Close and the transport's. ClaudeSDKClient's lock keeps it from running
\* beside a call, and a call from starting after it; handlers go on.
Close ==
  /\ ~closed
  /\ \A c \in Calls : call[c].pc \in {"idle", "returned"}
  /\ closed' = TRUE
  /\ UNCHANGED <<callVars, readerVars, exit, transportErrors, errors, handlerVars>>

(* ---- spawnControlRequestHandler and handleControlRequest ---- *)

RegisterHandler(r) ==
  /\ handler[r].pc = "spawned"
  /\ inflight' = inflight \cup {r}
  /\ handler' = [handler EXCEPT ![r].pc = "callback"]
  /\ UNCHANGED <<callVars, readerVars, cliVars, abandoned, answered>>

CallbackReturns_Mutant2(r) ==   \* sends no response for a callback's error
  /\ handler[r].pc = "callback"
  /\ \E error \in BOOLEAN :
       handler' = [handler EXCEPT ![r].pc =
                     IF error \/ handler[r].cancelled THEN "leave" ELSE "respond"]
  /\ UNCHANGED <<callVars, readerVars, cliVars, inflight, abandoned, answered>>

\* The host's callback (or an error) has produced a response; a cancelled one is
\* not sent.
CallbackReturns(r) ==
  /\ handler[r].pc = "callback"
  /\ handler' = [handler EXCEPT ![r].pc =
                   IF handler[r].cancelled THEN "leave" ELSE "respond"]
  /\ UNCHANGED <<callVars, readerVars, cliVars, inflight, abandoned, answered>>

Respond_Mutant(r) ==   \* tries a failed write again
  /\ handler[r].pc = "respond"
  /\ \/ /\ exit = "no"
        /\ answered' = answered \cup {r}
        /\ handler' = [handler EXCEPT ![r].pc = "leave"]
     \/ (exit # "no" \/ closed) /\ UNCHANGED <<answered, handler>>
  /\ UNCHANGED <<callVars, readerVars, cliVars, inflight, abandoned>>

\* The outcome of the write is ignored; it may still succeed while Close is on
\* its way to the transport.
Respond(r) ==
  /\ handler[r].pc = "respond"
  /\ \/ exit = "no" /\ answered' = answered \cup {r}
     \/ (exit # "no" \/ closed) /\ UNCHANGED answered
  /\ handler' = [handler EXCEPT ![r].pc = "leave"]
  /\ UNCHANGED <<callVars, readerVars, cliVars, inflight, abandoned>>

HandlerLeaves(r) ==
  /\ handler[r].pc = "leave"
  /\ inflight' = inflight \ {r}
  /\ handler' = [handler EXCEPT ![r].pc = "done"]
  /\ UNCHANGED <<callVars, readerVars, cliVars, abandoned, answered>>

-----------------------------------------------------------------------------
CallStep(c)    == WriteRequest(c) \/ TakeResult(c) \/ Leave(c)
ReaderStep     == Deliver \/ Forward \/ LoopEnds \/ DrainError \/ ReaderGone
HandlerStep(r) == RegisterHandler(r) \/ CallbackReturns(r) \/ Respond(r) \/ HandlerLeaves(r)

Terminated ==
  /\ reader.pc = "gone"
  /\ \A c \in Calls : call[c].pc \in {"idle", "returned"}
  /\ \A r \in Requests : handler[r].pc \in {"none", "done"}
  /\ UNCHANGED vars

Next ==
  \/ \E c \in Calls : Register(c) \/ CallStep(c) \/ WriteRequestFails(c) \/ TimeOut(c)
  \/ \E c \in Calls, a \in Answers : ReadResponse(c, a)
  \/ \E isError \in BOOLEAN : ReadResult(isError)
  \/ ReadConversation \/ ReadState \/ HostReads
  \/ \E r \in Requests : ReadRequest(r) \/ ReadCancel(r) \/ HandlerStep(r)
  \/ ReaderStep
  \/ TransportReports \/ \E how \in {"clean", "failed"} : CliExits(how)
  \/ Close
  \/ Terminated

Spec == Init /\ [][Next]_vars

\* Goroutines that can run do run, and a callback returns.  No context is
\* assumed to have a deadline, the CLI owes nothing, no frame and no exit, and
\* the host need not read.
Fairness ==
  /\ \A c \in Calls : WF_vars(CallStep(c)) /\ WF_vars(exit # "no" /\ WriteRequestFails(c))
  /\ WF_vars(Deliver \/ Forward) /\ WF_vars(exit # "no" /\ ReaderStep)
  /\ \A r \in Requests : WF_vars(HandlerStep(r))

FairSpec == Spec /\ Fairness

-----------------------------------------------------------------------------
(* Properties *)

TypeOK ==
  /\ call \in [Calls -> [pc : {"idle", "write", "wait", "leave", "returned"},
                         result : Outcomes \cup {None}]]
  /\ pending \subseteq Calls /\ sent \subseteq Calls /\ heard \subseteq Calls
  /\ chan \in [Calls -> Answers \cup Failures \cup {Empty}]
  /\ reader \in [pc : {"recv", "deliver", "forward", "drain", "gone"}, call : Calls \cup {NoCall},
                 result : Answers \cup {None}]
  /\ framesRead \in Nat /\ raw \in 0..RawCap
  /\ lastErrorResult \in BOOLEAN
  /\ exit \in {"no", "clean", "failed"}
  /\ transportErrors \in Seq(Failures)
  /\ errors \in Seq(Failures) /\ Len(errors) <= ErrorsCap
  /\ closed \in BOOLEAN
  /\ handler \in [Requests -> [pc : {"none", "spawned", "callback", "respond", "leave", "done"},
                               cancelled : BOOLEAN]]
  /\ inflight \subseteq Requests
  /\ abandoned \in [Requests -> {"no", "live", "unknown"}]
  /\ answered \subseteq Requests

\* A response the CLI gave is not lost while its caller waits: it is in the
\* caller's channel or on its way there, however the write, the read loop and
\* the end of the stream interleave (query.go:1376-1405, 1818-1823).
AnswerNotLost ==
  \A c \in heard :
     call[c].pc = "wait" => chan[c] # Empty \/ (reader.pc = "deliver" /\ reader.call = c)

\* An entry of pendingResponses stands for a call that is still under way and
\* that nothing has resolved, so that a duplicate is a no-op (query.go:1373-1376).
PendingIsUnresolved ==
  \A c \in pending :
     /\ call[c].pc \in {"write", "wait", "leave"}
     /\ chan[c] = Empty
     /\ ~(reader.pc = "deliver" /\ reader.call = c)

\* A handler that is done has answered, unless its own cancel came first or the
\* CLI was gone or the query closed (query.go:1453-1464).
NoRequestDropped ==
  \A r \in Requests :
     handler[r].pc = "done" => r \in answered \/ abandoned[r] = "live" \/ exit # "no" \/ closed

\* inflightRequests holds exactly the handlers a cancel can still reach
\* (query.go:1413-1422).
InflightIsReachable ==
  inflight = {r \in Requests : /\ handler[r].pc \in {"callback", "respond", "leave"}
                               /\ ~handler[r].cancelled}

\* A call that the exit of the CLI fails is told what the error result before it
\* said, if the conversation ended with one, and the bare exit status only if it
\* did not (query.go:1319-1344).
FailureNamesResult ==
  \A c \in Calls :
     /\ call[c].result = "ProcessError" => ~lastErrorResult
     /\ call[c].result = "ResultError" => lastErrorResult

\* The read loop is not left for ever with a frame that nobody makes room for.
HostReadsOn == []<>(reader.pc # "forward" \/ raw < RawCap)

\* A failed exit fails every request at once, also one without a deadline: none
\* is left to time out (query.go:1341-1344), if the host reads on or closes.
FailsFast ==
  HostReadsOn =>
    \A c \in Calls :
       (exit = "failed" /\ call[c].pc \in {"write", "wait"}) ~> (call[c].pc = "returned")

\* Every control request of the CLI is dealt with once its callback returns
\* (query.go:1416-1423).
EveryRequestHandled ==
  \A r \in Requests : (handler[r].pc = "spawned") ~> (handler[r].pc = "done")
=============================================================================
