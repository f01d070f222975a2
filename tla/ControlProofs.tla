---------------------------- MODULE ControlProofs ----------------------------
(***************************************************************************)
(* The safety of the control protocol, for every set of calls and of CLI   *)
(* requests and every bound.  One invariant speaks of the outgoing calls,  *)
(* another of the handlers; neither needs the other.  A third says what a  *)
(* call is told that the exit of the CLI fails.                            *)
(***************************************************************************)
EXTENDS ControlProtocol, TLAPS

\* A result is in the call's channel, or in the read loop's hands.
Resolved(c) == chan[c] # Empty \/ (reader.pc = "deliver" /\ reader.call = c)

\* A call under way is either still pending or resolved; one that a response
\* was read for is no longer pending; and only a request that was written is
\* answered, which a call not yet begun cannot be.
CallInv ==
  /\ call \in [Calls -> [pc : {"idle", "write", "wait", "leave", "returned"},
                         result : Outcomes \cup {None}]]
  /\ chan \in [Calls -> Answers \cup Failures \cup {Empty}]
  /\ pending \subseteq Calls /\ sent \subseteq Calls /\ heard \subseteq sent
  /\ transportErrors \in Seq(Failures)
  /\ reader \in [pc : {"recv", "deliver", "forward", "drain", "gone"}, call : Calls \cup {NoCall},
                 result : Answers \cup {None}]
  /\ reader.pc = "deliver" => reader.call \in sent /\ reader.result \in Answers
  /\ \A c \in pending : call[c].pc \in {"write", "wait", "leave"} /\ ~Resolved(c)
  /\ \A c \in Calls : call[c].pc \in {"write", "wait"} => c \in pending \/ Resolved(c)
  /\ heard \cap pending = {}
  /\ \A c \in Calls : call[c].pc = "idle" => chan[c] = Empty
  /\ \A c \in sent : call[c].pc \in {"wait", "leave", "returned"}

LEMMA CallInit == Init => CallInv
  BY DEF Init, CallInv, Resolved, Idle, Empty, None, Outcomes

\* Steps that leave the calls, their channels and the reader's hands alone.
CallStutter ==
  /\ call' = call /\ chan' = chan /\ pending' = pending /\ sent' = sent /\ heard' = heard
  /\ reader' \in [pc : {"recv", "deliver", "forward", "drain", "gone"}, call : Calls \cup {NoCall},
                  result : Answers \cup {None}]
  /\ reader'.pc = "deliver" <=> reader.pc = "deliver"
  /\ reader.pc = "deliver" => reader' = reader
  /\ transportErrors' \in Seq(Failures)

LEMMA CallStutterKeeps == CallInv /\ CallStutter => CallInv'
  BY DEF CallInv, CallStutter, Resolved

LEMMA PendingErrType ==
  ASSUME NEW err \in Failures PROVE PendingErr(err) \in Failures
  BY DEF PendingErr, Failures

LEMMA CallNext == CallInv /\ [Next]_vars => CallInv'
<1> SUFFICES ASSUME CallInv, [Next]_vars PROVE CallInv'
  OBVIOUS
<1> USE DEF Resolved, callVars, readerVars, cliVars, handlerVars
<1>1. ASSUME NEW c \in Calls, Register(c) PROVE CallInv'
  <2>1. c \notin sent /\ c \notin heard /\ chan[c] = Empty
    BY <1>1 DEF CallInv, Register
  <2>2. reader.pc = "deliver" => reader.call # c
    BY <2>1 DEF CallInv
  <2> QED
    BY <1>1, <2>1, <2>2 DEF CallInv, Register
<1>2. ASSUME NEW c \in Calls, WriteRequest(c) PROVE CallInv'
  BY <1>2 DEF CallInv, WriteRequest
<1>3. ASSUME NEW c \in Calls, WriteRequestFails(c) PROVE CallInv'
  BY <1>3 DEF CallInv, WriteRequestFails, Outcomes
<1>4. ASSUME NEW c \in Calls, TakeResult(c) PROVE CallInv'
  BY <1>4 DEF CallInv, TakeResult, Outcomes
<1>5. ASSUME NEW c \in Calls, TimeOut(c) PROVE CallInv'
  BY <1>5 DEF CallInv, TimeOut, Outcomes
<1>6. ASSUME NEW c \in Calls, Leave(c) PROVE CallInv'
  <2>1. call' = [call EXCEPT ![c].pc = "returned"] /\ pending' = pending \ {c}
    BY <1>6 DEF Leave
  <2>2. chan' = chan /\ reader' = reader /\ sent' = sent /\ heard' = heard
        /\ transportErrors' = transportErrors
    BY <1>6 DEF Leave
  <2>3. call[c].pc = "leave"
    BY <1>6 DEF Leave
  <2>4. call' \in [Calls -> [pc : {"idle", "write", "wait", "leave", "returned"},
                            result : Outcomes \cup {None}]]
    BY <2>1 DEF CallInv
  <2>5. \A d \in Calls : call'[d].pc = IF d = c THEN "returned" ELSE call[d].pc
    BY <2>1 DEF CallInv
  <2> QED
    BY <2>1, <2>2, <2>3, <2>4, <2>5 DEF CallInv
<1>7. ASSUME NEW c \in Calls, NEW a \in Answers, ReadResponse(c, a) PROVE CallInv'
  BY <1>7 DEF CallInv, ReadResponse, TakeFrame
<1>8. CASE Deliver
  <2>1. reader.call \in sent /\ reader.result \in Answers /\ reader.call \in Calls
    BY <1>8 DEF CallInv, Deliver
  <2>2. Offer(chan[reader.call], reader.result) \in Answers \cup Failures
    BY <2>1 DEF CallInv, Offer
  <2>3. Offer(chan[reader.call], reader.result) # Empty
    BY <2>2 DEF Answers, Failures, Empty
  <2> QED
    BY <1>8, <2>1, <2>2, <2>3 DEF CallInv, Deliver, Idle
<1>9. CASE DrainError
  <2> DEFINE err == PendingErr(Head(transportErrors))
  <2>1. Head(transportErrors) \in Failures /\ Tail(transportErrors) \in Seq(Failures)
    BY <1>9 DEF CallInv, DrainError
  <2>2. err \in Failures /\ err # Empty
    BY <2>1, PendingErrType DEF Failures, Empty
  <2>3. chan' = [c \in Calls |-> IF c \in pending THEN Offer(chan[c], err) ELSE chan[c]]
    BY <1>9 DEF DrainError
  <2> HIDE DEF err
  <2>4. \A c \in Calls : /\ chan'[c] \in Answers \cup Failures \cup {Empty}
                         /\ c \in pending => chan'[c] # Empty
                         /\ chan[c] # Empty => chan'[c] = chan[c]
                         /\ c \notin pending => chan'[c] = chan[c]
    BY <2>2, <2>3 DEF CallInv, Offer
  <2>5. chan' \in [Calls -> Answers \cup Failures \cup {Empty}]
    BY <2>3, <2>4
  <2> QED
    BY <1>9, <2>1, <2>4, <2>5 DEF CallInv, DrainError
<1>10. CASE \/ \E isError \in BOOLEAN : ReadResult(isError)
            \/ ReadConversation \/ ReadState \/ Forward \/ HostReads
            \/ LoopEnds \/ ReaderGone \/ Close
  <2>1. /\ call' = call /\ chan' = chan /\ pending' = pending /\ sent' = sent /\ heard' = heard
        /\ transportErrors' = transportErrors
    BY <1>10 DEF ReadResult, ReadConversation, ReadState, Forward, HostReads, LoopEnds, ReaderGone, Close
  <2>2. reader' = reader \/ reader' = InHand \/ reader' = Idle
        \/ \E pc \in {"drain", "gone"} : reader' = [reader EXCEPT !.pc = pc]
    BY <1>10 DEF ReadResult, ReadConversation, ReadState, Forward, HostReads, LoopEnds, ReaderGone, Close
  <2>3. reader.pc = "deliver" => reader' = reader
    BY <1>10 DEF ReadResult, ReadConversation, ReadState, Forward, HostReads, LoopEnds, ReaderGone,
                 Close, TakeFrame
  <2> QED
    BY <2>1, <2>2, <2>3, CallStutterKeeps DEF CallInv, CallStutter, InHand, Idle
<1>11. CASE TransportReports \/ \E how \in {"clean", "failed"} : CliExits(how)
  <2>1. transportErrors' \in Seq(Failures)
    <3>1. \A e \in Failures : Append(transportErrors, e) \in Seq(Failures)
      BY DEF CallInv
    <3> QED
      BY <1>11, <3>1 DEF CallInv, TransportReports, CliExits, Failures
  <2>2. call' = call /\ chan' = chan /\ pending' = pending /\ sent' = sent /\ heard' = heard
        /\ reader' = reader
    BY <1>11 DEF TransportReports, CliExits
  <2> QED
    BY <2>1, <2>2, CallStutterKeeps DEF CallInv, CallStutter
<1>12. ASSUME NEW r \in Requests, ReadRequest(r) \/ ReadCancel(r) \/ HandlerStep(r) PROVE CallInv'
  BY <1>12, CallStutterKeeps DEF CallInv, CallStutter, ReadRequest, ReadCancel, HandlerStep,
            RegisterHandler, CallbackReturns, Respond, HandlerLeaves, TakeFrame
<1>13. CASE Terminated \/ UNCHANGED vars
  BY <1>13, CallStutterKeeps DEF CallInv, CallStutter, Terminated, vars
<1> QED
  BY <1>1, <1>2, <1>3, <1>4, <1>5, <1>6, <1>7, <1>8, <1>9, <1>10, <1>11, <1>12, <1>13
  DEF Next, CallStep, ReaderStep

THEOREM CallInvariance == Spec => []CallInv
<1> QED
  BY CallInit, CallNext, PTL DEF Spec

\* A response is never lost while its caller waits (query.go:1376-1405).
THEOREM AnswersArrive == Spec => []AnswerNotLost
<1>1. CallInv => AnswerNotLost
  BY DEF CallInv, AnswerNotLost, Resolved
<1> QED
  BY <1>1, CallInvariance, PTL

\* A pending entry is a call under way that nothing has resolved, so that
\* duplicate answers are no-ops (query.go:1373-1376).
THEOREM PendingUnresolved == Spec => []PendingIsUnresolved
<1>1. CallInv => PendingIsUnresolved
  BY DEF CallInv, PendingIsUnresolved, Resolved
<1> QED
  BY <1>1, CallInvariance, PTL

-----------------------------------------------------------------------------
(* The handlers. *)

HandlerInv ==
  /\ handler \in [Requests -> [pc : {"none", "spawned", "callback", "respond", "leave", "done"},
                               cancelled : BOOLEAN]]
  /\ abandoned \in [Requests -> {"no", "live", "unknown"}]
  /\ InflightIsReachable
  /\ \A r \in Requests :
       /\ handler[r].cancelled <=> abandoned[r] = "live"
       /\ handler[r].cancelled => handler[r].pc \in {"callback", "respond", "leave", "done"}
       /\ handler[r].pc \in {"leave", "done"} =>
            r \in answered \/ abandoned[r] = "live" \/ exit # "no" \/ closed

HandlerStutter ==
  /\ handler' = handler /\ inflight' = inflight /\ abandoned' = abandoned /\ answered' = answered
  /\ exit # "no" => exit' # "no"
  /\ closed => closed'

LEMMA HandlerNext == HandlerInv /\ [Next]_vars => HandlerInv'
<1> SUFFICES ASSUME HandlerInv, [Next]_vars PROVE HandlerInv'
  OBVIOUS
<1> USE DEF callVars, readerVars, cliVars, handlerVars
<1>1. HandlerStutter => HandlerInv'
  BY DEF HandlerInv, HandlerStutter, InflightIsReachable
<1>2. ASSUME NEW r \in Requests, ReadRequest(r) PROVE HandlerInv'
  BY <1>2 DEF HandlerInv, InflightIsReachable, ReadRequest
<1>3. ASSUME NEW r \in Requests, ReadCancel(r) PROVE HandlerInv'
  <2>1. CASE r \in inflight
    <3>1. /\ handler' = [handler EXCEPT ![r].cancelled = TRUE]
          /\ inflight' = inflight \ {r}
          /\ abandoned' = [abandoned EXCEPT ![r] = "live"]
          /\ answered' = answered /\ exit' = exit /\ closed' = closed
      BY <1>3, <2>1 DEF ReadCancel
    <3>2. handler[r].pc \in {"callback", "respond", "leave"}
      BY <2>1 DEF HandlerInv, InflightIsReachable
    <3> QED
      BY <3>1, <3>2, ZenonT(60) DEF HandlerInv, InflightIsReachable
  <2>2. CASE r \notin inflight
    <3>0. abandoned[r] = "no"
      BY <1>3 DEF ReadCancel
    <3>1. ~handler[r].cancelled /\ handler' = handler /\ inflight' = inflight
      BY <1>3, <2>2, <3>0 DEF HandlerInv, ReadCancel
    <3>2. abandoned' = [abandoned EXCEPT ![r] = "unknown"] /\ abandoned[r] = "no"
      BY <1>3, <2>2 DEF ReadCancel
    <3>3. answered' = answered /\ exit' = exit /\ closed' = closed
      BY <1>3 DEF ReadCancel
    <3> QED
      BY <3>1, <3>2, <3>3 DEF HandlerInv, InflightIsReachable
  <2> QED
    BY <2>1, <2>2
<1>4. ASSUME NEW r \in Requests, RegisterHandler(r) PROVE HandlerInv'
  BY <1>4 DEF HandlerInv, InflightIsReachable, RegisterHandler
<1>5. ASSUME NEW r \in Requests, CallbackReturns(r) PROVE HandlerInv'
  BY <1>5 DEF HandlerInv, InflightIsReachable, CallbackReturns
<1>6. ASSUME NEW r \in Requests, Respond(r) PROVE HandlerInv'
  BY <1>6 DEF HandlerInv, InflightIsReachable, Respond
<1>7. ASSUME NEW r \in Requests, HandlerLeaves(r) PROVE HandlerInv'
  BY <1>7 DEF HandlerInv, InflightIsReachable, HandlerLeaves
<1>8. ASSUME NEW c \in Calls, Register(c) \/ CallStep(c) \/ WriteRequestFails(c) \/ TimeOut(c)
      PROVE  HandlerInv'
  BY <1>1, <1>8 DEF HandlerStutter, CallStep, Register, WriteRequest, TakeResult, Leave,
                   WriteRequestFails, TimeOut
<1>9. ASSUME NEW c \in Calls, NEW a \in Answers, ReadResponse(c, a) PROVE HandlerInv'
  BY <1>1, <1>9 DEF HandlerStutter, ReadResponse
<1>10. CASE \/ ReaderStep \/ ReadConversation \/ ReadState \/ HostReads
            \/ \E isError \in BOOLEAN : ReadResult(isError)
  BY <1>1, <1>10 DEF HandlerStutter, ReaderStep, Deliver, Forward, LoopEnds, DrainError, ReaderGone,
                    ReadConversation, ReadState, HostReads, ReadResult
<1>11. CASE TransportReports \/ Close \/ \E how \in {"clean", "failed"} : CliExits(how)
  BY <1>1, <1>11 DEF HandlerStutter, TransportReports, Close, CliExits
<1>12. CASE Terminated \/ UNCHANGED vars
  BY <1>1, <1>12 DEF HandlerStutter, Terminated, vars
<1> QED
  BY <1>2, <1>3, <1>4, <1>5, <1>6, <1>7, <1>8, <1>9, <1>10, <1>11, <1>12 DEF Next, HandlerStep

THEOREM HandlerInvariance == Spec => []HandlerInv
<1>1. Init => HandlerInv
  BY DEF Init, HandlerInv, InflightIsReachable
<1> QED
  BY <1>1, HandlerNext, PTL DEF Spec

\* inflightRequests holds exactly the handlers a cancel can still reach
\* (query.go:1413-1422).
THEOREM InflightReachable == Spec => []InflightIsReachable
<1>1. HandlerInv => InflightIsReachable
  BY DEF HandlerInv
<1> QED
  BY <1>1, HandlerInvariance, PTL

\* A handler that is done has answered, unless cancelled or too late
\* (query.go:1453-1464).
THEOREM RequestsAnswered == Spec => []NoRequestDropped
<1>1. HandlerInv => NoRequestDropped
  BY DEF HandlerInv, NoRequestDropped
<1> QED
  BY <1>1, HandlerInvariance, PTL

-----------------------------------------------------------------------------
(* What a failed call is told. *)

Exits == {"ProcessError", "ResultError"}

\* The transport knows nothing of results; only the drain hands out an exit, and
\* it has the last word on lastErrorResult, since no frame is taken after it began.
ToldInv ==
  /\ transportErrors \in Seq({"ProcessError", "other"})
  /\ reader.result \notin Exits
  /\ \A c \in Calls : \A told \in {chan[c], call[c].result} :
       told \in Exits => reader.pc \in {"drain", "gone"} /\ (told = "ResultError" <=> lastErrorResult)

\* Steps that hand out no exit, before the drain or after it began.
ToldStutter ==
  /\ transportErrors' \in Seq({"ProcessError", "other"})
  /\ reader'.result \notin Exits
  /\ \A c \in Calls : \A told \in {chan'[c], call'[c].result} :
       told \in Exits => \E before \in {chan[c], call[c].result} : told = before
  /\ reader.pc \in {"drain", "gone"} =>
       reader'.pc \in {"drain", "gone"} /\ lastErrorResult' = lastErrorResult

LEMMA ToldStutterKeeps == ToldInv /\ ToldStutter => ToldInv'
  BY DEF ToldInv, ToldStutter

LEMMA ToldNext == CallInv /\ ToldInv /\ [Next]_vars => ToldInv'
<1> SUFFICES ASSUME CallInv, ToldInv, [Next]_vars PROVE ToldInv'
  OBVIOUS
<1> USE DEF callVars, readerVars, cliVars, handlerVars
<1>1. ASSUME NEW c \in Calls, Register(c) \/ CallStep(c) \/ WriteRequestFails(c) \/ TimeOut(c)
      PROVE  ToldInv'
  <2>1. /\ transportErrors' = transportErrors /\ reader' = reader
        /\ lastErrorResult' = lastErrorResult
    BY <1>1 DEF CallStep, Register, WriteRequest, TakeResult, Leave, WriteRequestFails, TimeOut
  <2>2. \A d \in Calls : d # c => call'[d] = call[d] /\ chan'[d] = chan[d]
    BY <1>1 DEF CallStep, Register, WriteRequest, TakeResult, Leave, WriteRequestFails, TimeOut, CallInv
  <2>3. chan'[c] \in {chan[c], Empty}
    BY <1>1 DEF CallStep, Register, WriteRequest, TakeResult, Leave, WriteRequestFails, TimeOut, CallInv
  <2>4. call'[c].result \in {call[c].result, chan[c], "writeError", "timeout"}
    BY <1>1 DEF CallStep, Register, WriteRequest, TakeResult, Leave, WriteRequestFails, TimeOut, CallInv
  <2> QED
    BY <2>1, <2>2, <2>3, <2>4, ToldStutterKeeps DEF ToldInv, ToldStutter, Exits, Empty
<1>2. ASSUME NEW c \in Calls, NEW a \in Answers, ReadResponse(c, a) PROVE ToldInv'
  BY <1>2, ToldStutterKeeps DEF ToldInv, ToldStutter, ReadResponse, TakeFrame, Exits, Answers
<1>3. CASE Deliver
  <2>1. reader.call \in Calls
    BY <1>3 DEF CallInv, Deliver
  <2>2. \A c \in Calls : chan'[c] \in {chan[c], reader.result}
    BY <1>3, <2>1 DEF Deliver, Offer, CallInv
  <2> QED
    BY <1>3, <2>2, ToldStutterKeeps DEF ToldInv, ToldStutter, Deliver, Idle, None, Exits
<1>4. CASE \/ \E isError \in BOOLEAN : ReadResult(isError)
           \/ ReadConversation \/ ReadState \/ Forward \/ HostReads \/ LoopEnds \/ ReaderGone \/ Close
  <2>1. /\ call' = call /\ chan' = chan /\ transportErrors' = transportErrors
        /\ reader'.result \in {reader.result, None}
    BY <1>4 DEF ReadResult, ReadConversation, ReadState, Forward, HostReads, LoopEnds, ReaderGone, Close,
                InHand, Idle, CallInv
  <2>2. reader.pc \in {"drain", "gone"} =>
          reader'.pc \in {"drain", "gone"} /\ lastErrorResult' = lastErrorResult
    BY <1>4 DEF ReadResult, ReadConversation, ReadState, Forward, HostReads, LoopEnds, ReaderGone, Close,
                TakeFrame, CallInv
  <2> QED
    BY <2>1, <2>2, ToldStutterKeeps DEF ToldInv, ToldStutter, None, Exits
<1>5. CASE DrainError
  <2> DEFINE err == PendingErr(Head(transportErrors))
  <2>1. /\ Head(transportErrors) \in {"ProcessError", "other"}
        /\ Tail(transportErrors) \in Seq({"ProcessError", "other"})
    BY <1>5 DEF ToldInv, DrainError
  <2>2. err \in Exits => (err = "ResultError" <=> lastErrorResult)
    BY <2>1 DEF PendingErr, Exits
  <2>3. chan' = [c \in Calls |-> IF c \in pending THEN Offer(chan[c], err) ELSE chan[c]]
    BY <1>5 DEF DrainError
  <2> HIDE DEF err
  <2>4. \A c \in Calls : chan'[c] \in {chan[c], err}
    BY <2>3 DEF Offer
  <2> QED
    BY <1>5, <2>1, <2>2, <2>4 DEF ToldInv, DrainError
<1>6. CASE TransportReports \/ \E how \in {"clean", "failed"} : CliExits(how)
  <2>1. \A e \in {"ProcessError", "other"} :
          Append(transportErrors, e) \in Seq({"ProcessError", "other"})
    BY DEF ToldInv
  <2>2. transportErrors' \in Seq({"ProcessError", "other"})
    BY <1>6, <2>1 DEF ToldInv, TransportReports, CliExits
  <2> QED
    BY <1>6, <2>2 DEF ToldInv, TransportReports, CliExits
<1>7. ASSUME NEW r \in Requests, ReadRequest(r) \/ ReadCancel(r) \/ HandlerStep(r) PROVE ToldInv'
  BY <1>7 DEF ToldInv, ReadRequest, ReadCancel, HandlerStep, RegisterHandler, CallbackReturns, Respond,
              HandlerLeaves, TakeFrame
<1>8. CASE Terminated \/ UNCHANGED vars
  BY <1>8 DEF ToldInv, Terminated, vars
<1> QED
  BY <1>1, <1>2, <1>3, <1>4, <1>5, <1>6, <1>7, <1>8 DEF Next, ReaderStep

THEOREM ToldInvariance == Spec => [](CallInv /\ ToldInv)
<1>1. Init => ToldInv
  BY DEF Init, ToldInv, Exits, Idle, None, Empty
<1> QED
  BY <1>1, ToldNext, CallInvariance, PTL DEF Spec

\* A call that the exit of the CLI fails is told what the error result said, if the
\* conversation ended with one, and the exit status only if it did not
\* (query.go:1319-1344).
THEOREM FailuresNameResults == Spec => []FailureNamesResult
<1>1. ToldInv => FailureNamesResult
  BY DEF ToldInv, FailureNamesResult, Exits
<1> QED
  BY <1>1, ToldInvariance, PTL
=============================================================================
