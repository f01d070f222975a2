------------------------------- MODULE RunEnd -------------------------------
(***************************************************************************)
(* The run-end state machine of internal/query.go: when may the SDK close  *)
(* the CLI's stdin?  Hooks, SDK MCP servers and can_use_tool callbacks are *)
(* served over stdin, so it has to outlive a result frame; but the CLI     *)
(* exits only on stdin EOF, so it must be closed at last.                  *)
(*                                                                         *)
(* Actors: the read loop (readMessages), the input goroutine (StreamInput  *)
(* or WaitForResultAndEndInput), the ceiling timer and its callbacks, and  *)
(* Close.  They share the fields guarded by Query.mu, kept in the record   *)
(* `run'; each function that "requires q.mu to be held" is an operator     *)
(* from such a record to the next, so a critical section is their          *)
(* composition in the order of the code.                                   *)
(*                                                                         *)
(* The CLI and the caller are arbitrary: any frame may arrive at any time. *)
(* Module CliSession composes this one with a CLI that keeps the protocol. *)
(* Frames that `continue' out of the loop before the run-end code (control *)
(* and transcript_mirror frames) leave this state alone; ControlProtocol   *)
(* and MirrorBatcher model them, and lastErrorResult.                      *)
(***************************************************************************)
EXTENDS Naturals, FiniteSets

CONSTANTS
  Tasks,               \* task ids
  TaskTypes,           \* task_type values the CLI reports
  DeferringTaskTypes,  \* deferringTaskTypes
  Statuses,            \* status values of a task_updated patch
  TerminalStatuses,    \* terminalTaskStatuses
  MaxTrackedTasks,     \* maxTrackedTasks
  BidirectionalNeeds,  \* hasBidirectionalNeeds(): hooks, MCP servers, can_use_tool
  CeilingOn,           \* runEndCeilingMS > 0
  MaxFrames,           \* bound: frames the reader takes
  MaxPrompts           \* bound: messages on StreamInput's channel

ASSUME RunEndAssumption ==
  /\ DeferringTaskTypes \subseteq TaskTypes
  /\ TerminalStatuses \subseteq Statuses
  /\ MaxTrackedTasks \in Nat
  /\ BidirectionalNeeds \in BOOLEAN
  /\ CeilingOn \in BOOLEAN
  /\ MaxFrames \in Nat
  /\ MaxPrompts \in Nat
  /\ IsFiniteSet(Tasks)

VARIABLES
  run,         \* the run-end fields guarded by Query.mu
  firings,     \* generations of expired timers whose callback has yet to run
  reader,      \* the read loop: [pc, frame]
  input,       \* the input goroutine: [pc, ch, written, prompts]
  framesRead,  \* frames taken so far (bounded by MaxFrames)
  stdinOpen,   \* FALSE once transport.EndInput or transport.Close closed stdin
  stdoutEnded  \* the transport's message channel is (about to be) closed

vars == <<run, firings, reader, input, framesRead, stdinOpen, stdoutEnded>>

-----------------------------------------------------------------------------
(* Frames, by what the read loop tells apart. *)

NoState == "none"   \* sessionState = nil
SessionStates == {NoState, "running", "idle", "requires_action"}

StateFrames == [type : {"state"}, state : SessionStates, hostOnly : BOOLEAN]
TaskFrames  ==
  [type : {"task_started"}, task : Tasks, taskType : TaskTypes] \cup
  [type : {"task_notification"}, task : Tasks] \cup
  [type : {"task_updated"}, task : Tasks, status : Statuses]
\* "assistant" stands for assistant and stream_event frames; subagent: its
\* parent_tool_use_id is set.
TurnFrames  == [type : {"assistant"}, subagent : BOOLEAN]
PlainFrames == [type : {"result", "other"}]
Frames == StateFrames \cup TaskFrames \cup TurnFrames \cup PlainFrames

NoFrame == [type |-> "none"]

NoTimer == 0        \* ceilingTimer = nil; a live timer is named by its generation

RunState ==
  [ resultReceived     : BOOLEAN,
    sessionState       : SessionStates,
    turnInProgress     : BOOLEAN,
    runFinal           : BOOLEAN,
    runEnded           : BOOLEAN,
    runEndedCh         : Nat,         \* which of the successive channels
    ceilingTimer       : Nat,
    ceilingGeneration  : Nat,
    inflightTasks      : SUBSET Tasks,
    taskLedgerOverflowed : BOOLEAN,
    closed             : BOOLEAN ]

-----------------------------------------------------------------------------
(* The operations that need q.mu, as functions of the guarded state.  A     *)
(* definition whose name ends in _Mutant is a plausible mistake in the one *)
(* that follows it; no specification uses it.                              *)

\* The ledger lets a run end: it is empty, or known to be an under-count.
LedgerAllowsEnd(r) == r.inflightTasks = {} \/ r.taskLedgerOverflowed

ClearRunEndCeiling(r) ==
  [r EXCEPT !.ceilingGeneration = @ + 1, !.ceilingTimer = NoTimer]

\* endRun closes the channel, which releases every goroutine that holds it.
EndRun(r) == [ClearRunEndCeiling(r) EXCEPT !.runEnded = TRUE]

MaybeEndRun_Mutant(r) == EndRun(r)   \* ignores the ledger

MaybeEndRun(r) == IF LedgerAllowsEnd(r) THEN EndRun(r) ELSE r

ReopenRun(r) ==
  IF r.runEnded /\ ~r.runFinal
  THEN [r EXCEPT !.runEnded = FALSE, !.runEndedCh = @ + 1]
  ELSE r

MayArm(r) ==
  /\ CeilingOn /\ BidirectionalNeeds
  /\ ~r.runEnded /\ ~r.runFinal /\ ~r.closed /\ ~r.turnInProgress

ArmRunEndCeiling(r) ==
  LET c == ClearRunEndCeiling(r)
  IN IF MayArm(c) THEN [c EXCEPT !.ceilingTimer = c.ceilingGeneration] ELSE c

RearmRunEndCeilingBetweenTurns(r) ==
  IF r.resultReceived /\ r.sessionState \notin {NoState, "idle", "requires_action"}
  THEN ArmRunEndCeiling(r) ELSE r

\* A task that would exceed the cap is not tracked; the flag is never reset.
TrackSystemFrame(r, f) ==
  CASE f.type = "task_started" /\ f.taskType \in DeferringTaskTypes ->
         IF f.task \notin r.inflightTasks /\ Cardinality(r.inflightTasks) >= MaxTrackedTasks
         THEN [r EXCEPT !.taskLedgerOverflowed = TRUE]
         ELSE [r EXCEPT !.inflightTasks = @ \cup {f.task}]
    [] f.type = "task_notification" -> [r EXCEPT !.inflightTasks = @ \ {f.task}]
    [] f.type = "task_updated" /\ f.status \in TerminalStatuses ->
         [r EXCEPT !.inflightTasks = @ \ {f.task}]
    [] OTHER -> r

OnSessionState_Mutant2(r, state) ==   \* "idle" after the result is not noticed
  LET s == [r EXCEPT !.sessionState = state] IN
  IF state = "idle" THEN s ELSE ReopenRun(s)

OnSessionState(r, state) ==
  LET s == [r EXCEPT !.sessionState = state] IN
  CASE state = "idle"            -> IF s.resultReceived THEN MaybeEndRun(s) ELSE s
    [] state = "requires_action" -> ClearRunEndCeiling(ReopenRun(s))
    [] OTHER                     -> RearmRunEndCeilingBetweenTurns(ReopenRun(s))

-----------------------------------------------------------------------------
(* The critical sections of the read loop, one per kind of frame. *)

AfterTaskFrame_Mutant(r, f) == TrackSystemFrame(r, f)   \* no rearm on drain

AfterTaskFrame(r, f) ==
  LET t == TrackSystemFrame(r, f)
  IN IF r.inflightTasks # {} /\ t.inflightTasks = {}
     THEN RearmRunEndCeilingBetweenTurns(t) ELSE t

AfterResult_Mutant(r) ==   \* the result ends the run, whatever the session state
  MaybeEndRun([r EXCEPT !.resultReceived = TRUE, !.turnInProgress = FALSE])

AfterResult(r) ==
  LET t == [r EXCEPT !.resultReceived = TRUE, !.turnInProgress = FALSE] IN
  CASE t.sessionState \in {NoState, "idle"} \/ ~BidirectionalNeeds -> MaybeEndRun(t)
    [] t.sessionState = "running" /\ BidirectionalNeeds -> ArmRunEndCeiling(t)
    [] OTHER -> t

AfterTurnFrame(r, f) ==
  IF f.subagent THEN r
  ELSE ClearRunEndCeiling(ReopenRun([r EXCEPT !.turnInProgress = TRUE]))

AfterFrame(r, f) ==
  CASE f.type = "state"     -> OnSessionState(r, f.state)
    [] f.type = "result"    -> AfterResult(r)
    [] f.type = "assistant" -> AfterTurnFrame(r, f)
    [] OTHER                -> AfterTaskFrame(r, f)

Finalize_Mutant(r) == [r EXCEPT !.runFinal = TRUE]   \* forgets endRun

\* The section after the loop, and Close's: nothing can reopen the run.
Finalize(r) == EndRun([r EXCEPT !.runFinal = TRUE])

\* StreamInput, per prompt: the prompt owes a run of its own.
OweRun(r) == ClearRunEndCeiling([ReopenRun(r) EXCEPT !.resultReceived = FALSE])

-----------------------------------------------------------------------------
Init ==
  /\ run = [ resultReceived |-> FALSE, sessionState |-> NoState,
             turnInProgress |-> FALSE, runFinal |-> FALSE,
             runEnded |-> FALSE, runEndedCh |-> 0,
             ceilingTimer |-> NoTimer, ceilingGeneration |-> 0,
             inflightTasks |-> {}, taskLedgerOverflowed |-> FALSE,
             closed |-> FALSE ]
  /\ firings = {}
  /\ reader = [pc |-> "recv", frame |-> NoFrame]
  \* A string prompt starts WaitForResultAndEndInput, a channel StreamInput.
  /\ input \in [pc : {"snapshot", "next"}, ch : {0}, written : {0}, prompts : {0}]
  /\ framesRead = 0
  /\ stdinOpen = TRUE
  /\ stdoutEnded = FALSE

(* ---- the read loop ---- *)

\* A frame is received and the closed flag read; Close may come before the
\* frame is handled.  A result is handled only once the mirror is flushed.
ReadFrame(f) ==
  /\ reader.pc = "recv"
  /\ ~run.closed
  /\ framesRead < MaxFrames
  /\ framesRead' = framesRead + 1
  /\ reader' = [pc |-> IF f.type = "result" THEN "flush" ELSE "handle", frame |-> f]
  /\ UNCHANGED <<run, firings, input, stdinOpen, stdoutEnded>>

MirrorFlushed ==
  /\ reader.pc = "flush"
  /\ reader' = [reader EXCEPT !.pc = "handle"]
  /\ UNCHANGED <<run, firings, input, framesRead, stdinOpen, stdoutEnded>>

\* Host-only state frames are dropped; any other is forwarded to the caller.
HandleFrame ==
  /\ reader.pc = "handle"
  /\ run' = AfterFrame(run, reader.frame)
  /\ reader' = IF reader.frame.type = "state" /\ reader.frame.hostOnly
               THEN [pc |-> "recv", frame |-> NoFrame]
               ELSE [pc |-> "forward", frame |-> NoFrame]
  /\ UNCHANGED <<firings, input, framesRead, stdinOpen, stdoutEnded>>

\* The send on rawMessages: it may block until the caller reads or Close
\* releases it, and leaves the run alone.
ForwardFrame ==
  /\ reader.pc = "forward"
  /\ reader' = [reader EXCEPT !.pc = "recv"]
  /\ UNCHANGED <<run, firings, input, framesRead, stdinOpen, stdoutEnded>>

\* The loop ends at the end of the stream, or at the first frame that finds the
\* query closed; the section after the loop follows.
EndOfStream == stdoutEnded
FrameOnceClosed == run.closed /\ framesRead < MaxFrames

ReaderExit(reason) ==
  /\ reader.pc = "recv"
  /\ reason
  /\ run' = Finalize(run)
  /\ reader' = [reader EXCEPT !.pc = "gone"]
  /\ UNCHANGED <<firings, input, framesRead, stdinOpen, stdoutEnded>>

\* The CLI closes stdout (it exits or dies), or the transport gives up reading.
StdoutEnds ==
  /\ ~stdoutEnded
  /\ stdoutEnded' = TRUE
  /\ UNCHANGED <<run, firings, reader, input, framesRead, stdinOpen>>

(* ---- the ceiling timer ---- *)

\* The runtime starts the callback; Stop comes too late for this timer.
CeilingExpires ==
  /\ run.ceilingTimer # NoTimer
  /\ run.ceilingTimer \notin firings
  /\ firings' = firings \cup {run.ceilingTimer}
  /\ UNCHANGED <<run, reader, input, framesRead, stdinOpen, stdoutEnded>>

EndRunAtCeiling_Mutant(g) ==   \* no generation check
  /\ g \in firings
  /\ firings' = firings \ {g}
  /\ run' = MaybeEndRun([run EXCEPT !.ceilingTimer = NoTimer])
  /\ UNCHANGED <<reader, input, framesRead, stdinOpen, stdoutEnded>>

EndRunAtCeiling(g) ==
  /\ g \in firings
  /\ firings' = firings \ {g}
  /\ run' = IF g # run.ceilingGeneration THEN run
            ELSE MaybeEndRun([run EXCEPT !.ceilingTimer = NoTimer])
  /\ UNCHANGED <<reader, input, framesRead, stdinOpen, stdoutEnded>>

(* ---- the input goroutine ---- *)

\* Where StreamInput goes once it takes no further prompt.
AfterLoop == IF input.written = 0 THEN "nothing" ELSE "snapshot"

StreamNext ==
  /\ input.pc = "next"
  /\ input.prompts < MaxPrompts
  /\ IF run.closed
     THEN /\ input' = [input EXCEPT !.pc = AfterLoop]
          /\ UNCHANGED run
     ELSE /\ input' = [input EXCEPT !.pc = "write", !.prompts = @ + 1]
          /\ run' = OweRun(run)
  /\ UNCHANGED <<firings, reader, framesRead, stdinOpen, stdoutEnded>>

StreamWritten ==
  /\ input.pc = "write"
  /\ stdinOpen
  /\ input' = [input EXCEPT !.pc = "next", !.written = @ + 1]
  /\ UNCHANGED <<run, firings, reader, framesRead, stdinOpen, stdoutEnded>>

\* json.Marshal fails: the message is skipped, the run it reopened stays open.
StreamSkipped ==
  /\ input.pc = "write"
  /\ input' = [input EXCEPT !.pc = "next"]
  /\ UNCHANGED <<run, firings, reader, framesRead, stdinOpen, stdoutEnded>>

\* transport.Write fails: no further prompt is taken.
StreamWriteFails ==
  /\ input.pc = "write"
  /\ input' = [input EXCEPT !.pc = AfterLoop]
  /\ UNCHANGED <<run, firings, reader, framesRead, stdinOpen, stdoutEnded>>

\* The caller closes the channel.
StreamEnds ==
  /\ input.pc = "next"
  /\ input' = [input EXCEPT !.pc = AfterLoop]
  /\ UNCHANGED <<run, firings, reader, framesRead, stdinOpen, stdoutEnded>>

\* Nothing was written, so no result will come: final, with no clear.
NothingWritten ==
  /\ input.pc = "nothing"
  /\ run' = [run EXCEPT !.runFinal = TRUE]
  /\ input' = [input EXCEPT !.pc = "endInput"]
  /\ UNCHANGED <<firings, reader, framesRead, stdinOpen, stdoutEnded>>

\* The waiter keeps the channel it saw under the lock.
SnapshotRunEnded ==
  /\ input.pc = "snapshot"
  /\ input' = IF BidirectionalNeeds
              THEN [input EXCEPT !.pc = "wait", !.ch = run.runEndedCh]
              ELSE [input EXCEPT !.pc = "final"]
  /\ UNCHANGED <<run, firings, reader, framesRead, stdinOpen, stdoutEnded>>

\* A channel is closed if the run ended on it: every channel but the last was
\* replaced because it was closed.
ChannelClosed(ch) == ch < run.runEndedCh \/ run.runEnded

WaiterWakes ==
  /\ input.pc = "wait"
  /\ ChannelClosed(input.ch)
  /\ input' = [input EXCEPT !.pc = "final"]
  /\ UNCHANGED <<run, firings, reader, framesRead, stdinOpen, stdoutEnded>>

WaiterMakesFinal ==
  /\ input.pc = "final"
  /\ run' = ClearRunEndCeiling([run EXCEPT !.runFinal = TRUE])
  /\ input' = [input EXCEPT !.pc = "endInput"]
  /\ UNCHANGED <<firings, reader, framesRead, stdinOpen, stdoutEnded>>

EndInput ==
  /\ input.pc = "endInput"
  /\ stdinOpen' = FALSE
  /\ input' = [input EXCEPT !.pc = "done"]
  /\ UNCHANGED <<run, firings, reader, framesRead, stdoutEnded>>

(* ---- Close ---- *)

\* A second Close finds nothing left to do and is not modelled.
Close ==
  /\ ~run.closed
  /\ run' = Finalize([run EXCEPT !.closed = TRUE])
  /\ UNCHANGED <<firings, reader, input, framesRead, stdinOpen, stdoutEnded>>

\* After the batcher's flush and the bridges: the transport closes stdin and
\* releases its own reader.
CloseTransport ==
  /\ run.closed
  /\ stdinOpen \/ ~stdoutEnded
  /\ stdinOpen' = FALSE
  /\ stdoutEnded' = TRUE
  /\ UNCHANGED <<run, firings, reader, input, framesRead>>

-----------------------------------------------------------------------------
HandleStep == MirrorFlushed \/ HandleFrame \/ ReaderExit(EndOfStream)
Callback   == \E g \in firings : EndRunAtCeiling(g)
StreamStep == StreamNext \/ StreamWritten \/ StreamSkipped \/ StreamWriteFails \/ StreamEnds
WaiterStep == NothingWritten \/ SnapshotRunEnded \/ WaiterWakes \/ WaiterMakesFinal \/ EndInput

\* Everything has stopped.
Terminated ==
  /\ reader.pc = "gone" /\ input.pc = "done" /\ firings = {} /\ run.closed
  /\ UNCHANGED vars

Next ==
  \/ \E f \in Frames : ReadFrame(f)
  \/ HandleStep \/ ReaderExit(FrameOnceClosed) \/ ForwardFrame \/ StdoutEnds
  \/ CeilingExpires \/ Callback
  \/ StreamStep \/ WaiterStep
  \/ Close \/ CloseTransport
  \/ Terminated

Spec == Init /\ [][Next]_vars

\* Goroutines that can run do run, and a timer expires; a flush ends because
\* deliveries are retried a bounded number of times.  Nothing is assumed of the
\* CLI or the caller: frames may stop coming, rawMessages may stay full (until
\* Close releases the send) and Close, if it comes, may hang in the batcher.
Fairness ==
  /\ WF_vars(HandleStep)
  /\ WF_vars(ForwardFrame /\ run.closed)
  /\ WF_vars(CeilingExpires)
  /\ WF_vars(Callback)
  /\ WF_vars(WaiterStep)

FairSpec == Spec /\ Fairness

-----------------------------------------------------------------------------
(* Properties *)

InputPcs == {"next", "write", "nothing", "snapshot", "wait", "final", "endInput", "done"}

\* The types of the state; the in-flight ledger never holds more than
\* maxTrackedTasks entries, whatever the CLI announces (query.go:855).
TypeOK ==
  /\ run \in RunState
  /\ Cardinality(run.inflightTasks) <= MaxTrackedTasks
  /\ firings \subseteq Nat
  /\ reader \in [pc : {"recv", "flush", "handle", "forward", "gone"}, frame : Frames \cup {NoFrame}]
  /\ input \in [pc : InputPcs, ch : Nat, written : Nat, prompts : Nat]
  /\ framesRead \in Nat
  /\ stdinOpen \in BOOLEAN
  /\ stdoutEnded \in BOOLEAN

\* The ceiling counts only the wait between turns (query.go:1055-1059): while a
\* timer that may still end the run is set, or its callback is on its way, the
\* result owed has come, no main-thread turn is under way, the host is not
\* answering a request, the run is open and the query is not closed.
CeilingOnlyBetweenTurns ==
  (run.ceilingTimer # NoTimer \/ run.ceilingGeneration \in firings) =>
     /\ run.resultReceived
     /\ ~run.turnInProgress
     /\ run.sessionState # "requires_action"
     /\ ~run.runEnded
     /\ ~run.closed

\* Once the reader is gone or the query closed, the run is over for good, so
\* whatever channel a waiter holds is closed (query.go:1308-1314, 748-754).
GoneMeansOver ==
  (reader.pc = "gone" \/ run.closed) => run.runFinal /\ run.runEnded

\* A run that is over and final is never reopened: no later wait can be left
\* on a channel nobody will close (query.go:233-235).
FinalRunStaysEnded ==
  [][run.runFinal /\ run.runEnded => run'.runFinal /\ run'.runEnded]_vars

\* A run ends only when it is due: after the result its last prompt owes, with
\* no tracked task in flight (unless the ledger overflowed), or because the
\* reader is gone or the query closed (query.go:906-920, 990-1013).
EndsOnlyWhenDue ==
  [][~run.runEnded /\ run'.runEnded =>
       \/ run'.resultReceived /\ LedgerAllowsEnd(run')
       \/ reader'.pc = "gone"
       \/ run'.closed]_vars

\* A waiter is released once the reader is gone or the query closed
\* (query.go:1060-1061), even with a Close that hangs in the batcher.
WaiterReleased ==
  (input.pc = "wait" /\ (reader.pc = "gone" \/ run.closed)) ~> (input.pc = "done")

\* The CLI fell silent between turns, still reporting "running" after a result.
QuietBetweenTurns ==
  /\ CeilingOn /\ input.pc = "wait" /\ reader.pc = "recv"
  /\ run.resultReceived /\ run.sessionState = "running" /\ ~run.turnInProgress

\* The ceiling bounds that wait: with no tracked task in flight, stdin is
\* closed at last (query.go:1055-1057), also if the ceiling stood down for a
\* task that settled later.
CeilingBoundsQuietRun ==
  ~ <>[](QuietBetweenTurns /\ run.inflightTasks = {})
=============================================================================
