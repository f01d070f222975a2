---------------------------- MODULE OneShotQuery ----------------------------
(***************************************************************************)
(* Query and QuerySync of query.go, over the whole pipeline: the CLI, the  *)
(* transport (module Transport), the read loop of internal/query.go, the   *)
(* goroutine Query starts, its two channels and their consumer.            *)
(*                                                                         *)
(* A string prompt has been written and the handshake is over.  Of the run *)
(* end (module RunEnd) only this much matters here: with bidirectional     *)
(* needs stdin is closed once a result was handled, the read loop left its *)
(* loop, or the query was closed; without, at once.                        *)
(***************************************************************************)
EXTENDS Transport

CONSTANTS
  RawCap,              \* capacity of q.rawMessages (100)
  QErrorsCap,          \* capacity of q.errors (10)
  OutCap,              \* capacity of the message channel of Query (100)
  ErrsCap,             \* capacity of its error channel (10)
  BidirectionalNeeds,  \* hasBidirectionalNeeds()
  MayCancel,           \* the caller may cancel the context
  MayCrash             \* the CLI may die at any time

ASSUME QueryAssumption ==
  /\ RawCap \in Nat \ {0} /\ QErrorsCap \in Nat \ {0}
  /\ OutCap \in Nat \ {0} /\ ErrsCap \in Nat \ {0}
  /\ BidirectionalNeeds \in BOOLEAN /\ MayCancel \in BOOLEAN /\ MayCrash \in BOOLEAN

VARIABLES
  loop,      \* readMessages: [pc, frame]
  raw,       \* q.rawMessages
  qerrors,   \* q.errors
  runEnded,  \* q.runEnded
  input,     \* WaitForResultAndEndInput: "wait", "endInput", "done"
  main,      \* Query's goroutine: [pc, item]
  out, errs, \* the channels it returns
  ctxDone,   \* the caller's context is done
  consumer   \* [on, sync, got, failed]: QuerySync, or a caller that reads both channels;
             \* failed: it has taken the ProcessError

queryVars == <<loop, raw, qerrors, runEnded, input>>
callVars  == <<main, out, errs>>
allVars   == <<vars, queryVars, callVars, ctxDone, consumer>>

NoItem     == "none"
QClosed    == main.pc \in {"closing", "closeErrs", "closeOut", "done"}
RawClosed  == loop.pc = "gone"
ErrsClosed == main.pc \in {"closeOut", "done"}
OutClosed  == main.pc = "done"

-----------------------------------------------------------------------------
QueryInit ==
  /\ Init
  /\ loop = [pc |-> "recv", frame |-> NoFrame]
  /\ raw = <<>> /\ qerrors = <<>>
  /\ runEnded = FALSE
  /\ input = "wait"
  /\ main = [pc |-> "select", item |-> NoItem]
  /\ out = <<>> /\ errs = <<>>
  /\ ctxDone = FALSE
  /\ \E sync \in BOOLEAN : consumer = [on |-> TRUE, sync |-> sync, got |-> <<>>, failed |-> FALSE]

(* ---- the CLI: it ends with a result and exits on stdin EOF ---- *)

CliTalks == \E k \in LineKinds : CliWrites(k) /\ (k = "result" <=> written + 1 = MaxLines)

CliQuits ==
  \E how \in {"clean", "failed"} :
     /\ CliExits(how)
     /\ \/ ~stdin.open /\ written = MaxLines
        \/ how = "failed" /\ (MayCrash \/ killed)

(* ---- the read loop of internal/query.go ---- *)

LoopReceives_Mutant ==   \* overlooks the result
  /\ loop.pc = "recv" /\ TakeMessage
  /\ IF QClosed
     THEN /\ loop' = [loop EXCEPT !.pc = "drain"]
          /\ runEnded' = TRUE
     ELSE /\ loop' = [pc |-> "forward", frame |-> Head(messages)]
          /\ UNCHANGED runEnded
  /\ UNCHANGED <<raw, qerrors, input, callVars, ctxDone, consumer>>

LoopReceives ==
  /\ loop.pc = "recv" /\ TakeMessage
  /\ IF QClosed
     THEN /\ loop' = [loop EXCEPT !.pc = "drain"]
          /\ runEnded' = TRUE
     ELSE /\ loop' = [pc |-> "forward", frame |-> Head(messages)]
          /\ runEnded' = (runEnded \/ Head(messages).kind = "result")
  /\ UNCHANGED <<raw, qerrors, input, callVars, ctxDone, consumer>>

LoopForwards_Mutant2 ==   \* a send that drops instead of blocking
  /\ loop.pc = "forward"
  /\ raw' = IF Len(raw) < RawCap THEN Append(raw, loop.frame) ELSE raw
  /\ loop' = [pc |-> "recv", frame |-> NoFrame]
  /\ UNCHANGED <<vars, qerrors, runEnded, input, callVars, ctxDone, consumer>>

\* The send blocks on a full channel until Close releases it.
LoopForwards ==
  /\ loop.pc = "forward"
  /\ \/ Len(raw) < RawCap /\ raw' = Append(raw, loop.frame)
     \/ QClosed /\ UNCHANGED raw
  /\ loop' = [pc |-> "recv", frame |-> NoFrame]
  /\ UNCHANGED <<vars, qerrors, runEnded, input, callVars, ctxDone, consumer>>

LoopEnds ==
  /\ loop.pc = "recv" /\ MessagesClosed /\ messages = <<>>
  /\ loop' = [loop EXCEPT !.pc = "drain"]
  /\ runEnded' = TRUE
  /\ UNCHANGED <<vars, raw, qerrors, input, callVars, ctxDone, consumer>>

\* A full q.errors drops the error.
LoopDrains ==
  /\ loop.pc = "drain" /\ TakeError
  /\ qerrors' = IF Len(qerrors) < QErrorsCap THEN Append(qerrors, Head(errors)) ELSE qerrors
  /\ UNCHANGED <<loop, raw, runEnded, input, callVars, ctxDone, consumer>>

\* rawMessages is closed after the transport's errors were forwarded.
LoopGone ==
  /\ loop.pc = "drain" /\ ErrorsClosed /\ errors = <<>>
  /\ loop' = [loop EXCEPT !.pc = "gone"]
  /\ UNCHANGED <<vars, raw, qerrors, runEnded, input, callVars, ctxDone, consumer>>

LoopStep == LoopReceives \/ LoopForwards \/ LoopEnds \/ LoopDrains \/ LoopGone

(* ---- WaitForResultAndEndInput ---- *)

InputWakes ==
  /\ input = "wait" /\ (runEnded \/ ~BidirectionalNeeds)
  /\ input' = "endInput"
  /\ UNCHANGED <<vars, loop, raw, qerrors, runEnded, callVars, ctxDone, consumer>>

InputEnds ==
  /\ input = "endInput"
  /\ EndInput \/ (~stdin.open /\ UNCHANGED vars)
  /\ input' = "done"
  /\ UNCHANGED <<loop, raw, qerrors, runEnded, callVars, ctxDone, consumer>>

(* ---- the goroutine of Query ---- *)

\* The select: whichever of its arms is ready.
SelectCancelled ==
  /\ main.pc = "select" /\ ctxDone
  /\ errs' = IF Len(errs) < ErrsCap THEN Append(errs, "cancelled") ELSE errs
  /\ main' = [main EXCEPT !.pc = "close"]
  /\ UNCHANGED <<vars, queryVars, out, ctxDone, consumer>>

\* A frame that cannot be parsed goes to the error channel.
SelectMessage ==
  /\ main.pc = "select" /\ raw # <<>>
  /\ raw' = Tail(raw)
  /\ main' = IF Head(raw).kind = "malformed" THEN [pc |-> "sendError", item |-> "ParseError"]
             ELSE [pc |-> "sendMessage", item |-> Head(raw)]
  /\ UNCHANGED <<vars, loop, qerrors, runEnded, input, out, errs, ctxDone, consumer>>

SelectClosed_Mutant ==   \* without the drain at End
  /\ main.pc = "select" /\ raw = <<>> /\ RawClosed
  /\ main' = [main EXCEPT !.pc = "close"]
  /\ UNCHANGED <<vars, queryVars, out, errs, ctxDone, consumer>>

SelectClosed ==
  /\ main.pc = "select" /\ raw = <<>> /\ RawClosed
  /\ main' = [main EXCEPT !.pc = "drain"]
  /\ UNCHANGED <<vars, queryVars, out, errs, ctxDone, consumer>>

\* In the select an error comes back to it, at End to the drain.
SelectError ==
  /\ main.pc \in {"select", "drain"} /\ qerrors # <<>>
  /\ qerrors' = Tail(qerrors)
  /\ main' = [pc |-> IF main.pc = "select" THEN "sendError" ELSE "drainError", item |-> Head(qerrors)]
  /\ UNCHANGED <<vars, loop, raw, runEnded, input, out, errs, ctxDone, consumer>>

DrainEnds ==
  /\ main.pc = "drain" /\ qerrors = <<>>
  /\ main' = [main EXCEPT !.pc = "close"]
  /\ UNCHANGED <<vars, queryVars, out, errs, ctxDone, consumer>>

SendOut ==
  /\ main.pc = "sendMessage" /\ Len(out) < OutCap
  /\ out' = Append(out, main.item)
  /\ main' = [pc |-> "select", item |-> NoItem]
  /\ UNCHANGED <<vars, queryVars, errs, ctxDone, consumer>>

SendErr ==
  /\ main.pc \in {"sendError", "drainError"} /\ Len(errs) < ErrsCap
  /\ errs' = Append(errs, main.item)
  /\ main' = [pc |-> IF main.pc = "sendError" THEN "select" ELSE "drain", item |-> NoItem]
  /\ UNCHANGED <<vars, queryVars, out, ctxDone, consumer>>

SendCancelled ==
  /\ main.pc \in {"sendMessage", "sendError", "drainError"} /\ ctxDone
  /\ main' = [pc |-> "close", item |-> NoItem]
  /\ UNCHANGED <<vars, queryVars, out, errs, ctxDone, consumer>>

\* The deferred q.Close: mark closed, end the run, close the transport.
QueryCloses ==
  /\ main.pc = "close"
  /\ runEnded' = TRUE
  /\ main' = [main EXCEPT !.pc = "closing"]
  /\ UNCHANGED <<vars, loop, raw, qerrors, input, out, errs, ctxDone, consumer>>

TransportCloses == main.pc = "closing" /\ Close /\ UNCHANGED <<queryVars, callVars, ctxDone, consumer>>

\* The other deferred calls close the error channel, then the messages.
ChannelsClose ==
  /\ \/ main.pc = "closing" /\ closer = "done" /\ main' = [main EXCEPT !.pc = "closeErrs"]
     \/ main.pc = "closeErrs" /\ main' = [main EXCEPT !.pc = "closeOut"]
     \/ main.pc = "closeOut" /\ main' = [main EXCEPT !.pc = "done"]
  /\ UNCHANGED <<vars, queryVars, out, errs, ctxDone, consumer>>

MainStep ==
  \/ SelectCancelled \/ SelectMessage \/ SelectClosed \/ SelectError
  \/ DrainEnds \/ SendOut \/ SendErr \/ SendCancelled
  \/ QueryCloses \/ TransportCloses \/ ChannelsClose

(* ---- the caller ---- *)

\* A done context also kills the CLI.
Cancels ==
  /\ MayCancel /\ ~ctxDone /\ main.pc # "done"
  /\ ctxDone' = TRUE
  /\ IF Exited \/ killed THEN UNCHANGED vars ELSE ContextDone
  /\ UNCHANGED <<queryVars, callVars, consumer>>

ConsumerTakesMessage ==
  /\ consumer.on /\ out # <<>>
  /\ out' = Tail(out)
  /\ consumer' = [consumer EXCEPT !.got = Append(@, Head(out))]
  /\ UNCHANGED <<vars, queryVars, main, errs, ctxDone>>

ConsumerTakesError ==
  /\ consumer.on /\ errs # <<>>
  /\ errs' = Tail(errs)
  /\ consumer' = [consumer EXCEPT !.failed = @ \/ Head(errs) = "ProcessError"]
  /\ UNCHANGED <<vars, queryVars, main, out, ctxDone>>

\* QuerySync returns at the close of the message channel, or once cancelled; a
\* caller of Query that watches both reads both to their end.
ConsumerReturns ==
  /\ consumer.on
  /\ \/ OutClosed /\ out = <<>> /\ (consumer.sync \/ (ErrsClosed /\ errs = <<>>))
     \/ ctxDone
  /\ consumer' = [consumer EXCEPT !.on = FALSE]
  /\ UNCHANGED <<vars, queryVars, callVars, ctxDone>>

ConsumerStep == ConsumerTakesMessage \/ ConsumerTakesError \/ ConsumerReturns

-----------------------------------------------------------------------------
Others == <<queryVars, callVars, ctxDone, consumer>>

Finished ==
  /\ main.pc = "done" /\ loop.pc = "gone" /\ reader.pc = "gone"
  /\ input = "done" /\ ~consumer.on
  /\ UNCHANGED allVars

QueryNext ==
  \/ (CliTalks \/ CliQuits \/ ReadStdout) /\ UNCHANGED Others
  \/ LoopStep \/ InputWakes \/ InputEnds
  \/ MainStep
  \/ Cancels \/ ConsumerStep
  \/ Finished

QuerySpec == QueryInit /\ [][QueryNext]_allVars

\* Goroutines that can run do run; the CLI says what it has to say, exits on EOF
\* and dies of a kill; the caller reads on until it cancels.
FairQuerySpec ==
  /\ QuerySpec
  /\ WF_allVars(CliTalks /\ UNCHANGED Others)
  /\ WF_allVars(CliQuits /\ (killed \/ (~stdin.open /\ written = MaxLines)) /\ UNCHANGED Others)
  /\ WF_allVars(ReadStdout /\ UNCHANGED Others)
  /\ WF_allVars(LoopStep) /\ WF_allVars(InputWakes \/ InputEnds) /\ WF_allVars(MainStep)
  /\ WF_allVars(~ctxDone /\ ConsumerStep)

-----------------------------------------------------------------------------
(* Properties *)

Parsed(frame) == IF frame.kind = "malformed" THEN <<>> ELSE <<frame>>
WellParsed(frames) == FlattenSeq([i \in DOMAIN frames |-> Parsed(frames[i])])

TooLong(line) == line.kind = "long"

Uncancelled == ~consumer.on /\ ~ctxDone

\* A caller that was not cancelled has received every frame the CLI wrote, in
\* order, by the time the message channel is closed: through two read loops,
\* four channels and the close of the transport (query.go:79, 200-202).  What is
\* behind a line too long for the scanner is never read.
EveryFrameDelivered ==
  Uncancelled /\ WellFormed(scanned) =>
    /\ consumer.got = WellParsed(FramesOf(scanned))
    /\ Len(scanned) = written \/ \E i \in DOMAIN scanned : TooLong(scanned[i])

\* A caller that watches both channels learns that the process failed, although
\* the message channel may be seen closed first (query.go:246-249).
FailureReported ==
  Uncancelled /\ ~consumer.sync /\ proc = "failed" => consumer.failed

\* "The message channel is closed when the query completes" (query.go:79): it is,
\* after a final result, whatever else the CLI wrote.  And a cancelled query leaves
\* no goroutine behind, although its caller reads no more (query.go:195-196;
\* internal/query.go:738-752).
QueryEnds ==
  /\ <>(main.pc = "done")
  /\ ctxDone ~> (main.pc = "done" /\ loop.pc = "gone" /\ reader.pc = "gone" /\ input = "done")
=============================================================================
