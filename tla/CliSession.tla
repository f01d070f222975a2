----------------------------- MODULE CliSession -----------------------------
(***************************************************************************)
(* RunEnd composed with a CLI that keeps its side of the protocol, over    *)
(* the two pipes between them.  The CLI is not in this repository: it is   *)
(* modelled from what internal/query.go says of it and relies on.  It runs *)
(* a turn for every prompt it reads and for every background task that     *)
(* settled; within a turn it may start a task or ask the host something,   *)
(* and needs stdin open until it is answered; it reports "idle" once no    *)
(* further turn is owed for the prompts it has read; it exits on stdin EOF.*)
(***************************************************************************)
EXTENDS RunEnd, Sequences

CONSTANTS
  StateReports,    \* may the CLI send session_state_changed frames? A set of BOOLEANs
  MaxAsks          \* bound: control requests over the session

ASSUME CliAssumption ==
  /\ StateReports \in (SUBSET BOOLEAN) \ {{}}
  /\ MaxAsks \in Nat
  /\ DeferringTaskTypes # {}

VARIABLES
  cli,        \* the CLI's own state
  stdout,     \* frames written by the CLI, not yet taken by the reader
  stdinPipe   \* prompts written by the SDK, not yet read by the CLI

cliVars == <<cli, stdout, stdinPipe>>
allVars == <<vars, cliVars>>

-----------------------------------------------------------------------------
ControlFrame == [type |-> "control"]   \* a control_request on stdout

StateFrame(s) == IF cli.reports
            THEN <<[type |-> "state", state |-> s, hostOnly |-> TRUE]>> ELSE <<>>
Started(t) == <<[type |-> "task_started", task |-> t,
                 taskType |-> CHOOSE k \in DeferringTaskTypes : TRUE]>>
Settled(t) == <<[type |-> "task_notification", task |-> t]>>
MainTurn   == <<[type |-> "assistant", subagent |-> FALSE]>>
Result     == <<[type |-> "result"]>>

Emit(frames) == stdout' = stdout \o frames

CliState ==
  [ reports  : BOOLEAN,        \* it reports its state
    phase    : {"idle", "turn", "followUp", "between", "exited"},
    owed     : Nat,            \* prompts read whose turn is still to be run
    tasks    : SUBSET Tasks,   \* background tasks still running
    unused   : SUBSET Tasks,   \* tasks never started
    woken    : Nat,            \* settled tasks whose completion is to be handled
    request  : {"none", "asked", "handling"},
    asks     : Nat,
    stranded : BOOLEAN ]       \* a request found stdin closed

CliInit ==
  /\ Init
  \* A string prompt is written before its waiter starts.
  /\ stdinPipe = IF input.pc = "snapshot" THEN 1 ELSE 0
  /\ \E reports \in StateReports :
       cli = [ reports |-> reports, phase |-> "idle", owed |-> 0,
               tasks |-> {}, unused |-> Tasks,
               woken |-> 0, request |-> "none", asks |-> 0, stranded |-> FALSE ]
  \* Some CLIs report "idle" at once, before any prompt.
  /\ stdout \in {<<>>, StateFrame("idle")}

-----------------------------------------------------------------------------
(* The CLI *)

CliReadsPrompt ==
  /\ cli.phase # "exited"
  /\ stdinPipe > 0
  /\ stdinPipe' = stdinPipe - 1
  /\ cli' = [cli EXCEPT !.owed = @ + 1]
  /\ UNCHANGED <<vars, stdout>>

CliStartsTurn ==
  /\ cli.phase \in {"idle", "between"}
  /\ \/ cli.owed > 0 /\ cli' = [cli EXCEPT !.phase = "turn", !.owed = @ - 1]
     \/ cli.woken > 0 /\ cli' = [cli EXCEPT !.phase = "followUp", !.woken = @ - 1]
  /\ Emit((IF cli.phase = "idle" THEN StateFrame("running") ELSE <<>>) \o MainTurn)
  /\ UNCHANGED <<vars, stdinPipe>>

InTurn == cli.phase \in {"turn", "followUp"} /\ cli.request = "none"

\* A CLI that reports no state starts none in a follow-up turn: the SDK cannot
\* tell that such a turn is owed (the limitation stated at query.go:1063-1067).
CliStartsTask(t) ==
  /\ InTurn
  /\ cli.reports \/ cli.phase = "turn"
  /\ t \in cli.unused
  /\ cli' = [cli EXCEPT !.tasks = @ \cup {t}, !.unused = @ \ {t}]
  /\ Emit(Started(t))
  /\ UNCHANGED <<vars, stdinPipe>>

\* A settled task wakes the session for another turn.
CliTaskSettles(t) ==
  /\ t \in cli.tasks
  /\ cli' = [cli EXCEPT !.tasks = @ \ {t}, !.woken = @ + 1]
  /\ Emit(Settled(t))
  /\ UNCHANGED <<vars, stdinPipe>>

CliAsks ==
  /\ InTurn
  /\ cli.asks < MaxAsks
  /\ cli' = [cli EXCEPT !.request = "asked", !.asks = @ + 1]
  /\ Emit(StateFrame("requires_action") \o <<ControlFrame>>)
  /\ UNCHANGED <<vars, stdinPipe>>

\* The answer cannot be written any more: "Stream closed".
CliStranded ==
  /\ cli.request # "none"
  /\ ~stdinOpen
  /\ cli' = [cli EXCEPT !.request = "none", !.stranded = TRUE]
  /\ UNCHANGED <<vars, stdout, stdinPipe>>

CliEndsTurn ==
  /\ InTurn
  /\ cli' = [cli EXCEPT !.phase = "between"]
  /\ Emit(Result)
  /\ UNCHANGED <<vars, stdinPipe>>

\* No further turn is owed; prompts still in the pipe are unknown to the CLI.
NothingOwed == cli.owed = 0 /\ cli.tasks = {} /\ cli.woken = 0

\* "Some hosts send it just before the result" (query.go:1256).
CliEndsTurnIdleFirst ==
  /\ InTurn
  /\ NothingOwed
  /\ cli' = [cli EXCEPT !.phase = "idle"]
  /\ Emit(StateFrame("idle") \o Result)
  /\ UNCHANGED <<vars, stdinPipe>>

CliGoesIdle ==
  /\ cli.phase = "between"
  /\ NothingOwed
  /\ cli' = [cli EXCEPT !.phase = "idle"]
  /\ Emit(StateFrame("idle"))
  /\ UNCHANGED <<vars, stdinPipe>>

\* Stdin EOF ends an idle CLI.
CliExits ==
  /\ ~stdinOpen /\ stdinPipe = 0
  /\ cli.phase = "idle" /\ cli.owed = 0
  /\ cli' = [cli EXCEPT !.phase = "exited"]
  /\ stdoutEnded' = TRUE
  /\ UNCHANGED <<run, firings, reader, input, framesRead, stdinOpen, stdout, stdinPipe>>

-----------------------------------------------------------------------------
(* The SDK, fed from stdout. *)

\* A control request is handed to a handler; it leaves the run alone.
ReadControl ==
  /\ stdout # <<>> /\ Head(stdout) = ControlFrame
  /\ reader.pc = "recv"
  /\ stdout' = Tail(stdout)
  /\ cli' = [cli EXCEPT !.request = IF @ = "asked" THEN "handling" ELSE @]
  /\ UNCHANGED <<vars, stdinPipe>>

\* The handler's response reaches the CLI.
SdkAnswers ==
  /\ cli.request = "handling"
  /\ stdinOpen
  /\ cli' = [cli EXCEPT !.request = "none"]
  /\ Emit(StateFrame("running"))
  /\ UNCHANGED <<vars, stdinPipe>>

ReadStdout ==
  /\ stdout # <<>> /\ Head(stdout) # ControlFrame
  /\ ReadFrame(Head(stdout))
  /\ stdout' = Tail(stdout)
  /\ UNCHANGED <<cli, stdinPipe>>

WritePrompt ==
  /\ StreamWritten
  /\ stdinPipe' = stdinPipe + 1
  /\ UNCHANGED <<cli, stdout>>

\* RunEnd's steps that touch neither pipe.  The caller does not close the query
\* and reads all it is sent, no write fails, and no session here stalls until
\* the ceiling: what those do is checked in RunEnd for an arbitrary CLI.
ReaderStep ==
  \/ MirrorFlushed \/ HandleFrame \/ ForwardFrame
  \/ (stdout = <<>> /\ ReaderExit(EndOfStream))

InputStep == StreamNext \/ StreamEnds \/ WaiterStep

SdkStep ==
  \/ (ReaderStep \/ InputStep) /\ UNCHANGED cliVars
  \/ ReadControl \/ SdkAnswers \/ ReadStdout \/ WritePrompt

CliStep ==
  \/ CliReadsPrompt \/ CliStartsTurn \/ CliAsks \/ CliStranded
  \/ CliEndsTurn \/ CliEndsTurnIdleFirst \/ CliGoesIdle \/ CliExits
  \/ \E t \in Tasks : CliStartsTask(t) \/ CliTaskSettles(t)

Done == /\ cli.phase = "exited" /\ reader.pc = "gone" /\ input.pc = "done"
        /\ UNCHANGED allVars

SessionNext == SdkStep \/ CliStep \/ Done
SessionSpec == CliInit /\ [][SessionNext]_allVars

\* Both programs keep running and the caller closes its channel at last.
FairSessionSpec ==
  /\ SessionSpec
  /\ WF_allVars(ReaderStep /\ UNCHANGED cliVars)
  /\ WF_allVars(ReadControl) /\ WF_allVars(SdkAnswers) /\ WF_allVars(ReadStdout)
  /\ WF_allVars((StreamEnds \/ WaiterStep) /\ UNCHANGED cliVars)
  /\ WF_allVars(WritePrompt)
  /\ WF_allVars(CliReadsPrompt) /\ WF_allVars(CliStranded)
  /\ WF_allVars(CliEndsTurn \/ CliEndsTurnIdleFirst) /\ WF_allVars(CliExits)
  /\ \A t \in Tasks : WF_allVars(CliTaskSettles(t))
  /\ WF_allVars(CliStartsTurn) /\ WF_allVars(CliGoesIdle)

-----------------------------------------------------------------------------
(* Properties *)

\* The control channel outlives the turns that need it: no request of a CLI
\* that reports its state ever finds that the SDK closed stdin on it
\* (query.go:44-57, 1025-1034; the "Stream closed" failures of #1088, #1190).
ControlChannelOpen == cli.reports => ~cli.stranded

\* By the time stdin is closed each prompt the SDK wrote has had its turn, no
\* background task is running, and with a CLI that reports its state each one that
\* settled has had its follow-up turn; a full ledger excuses the CLI that does not
\* report (query.go:103-108, 906-917, 1086-1090).
StdinOutlivesTheWork ==
  ~stdinOpen =>
    /\ stdinPipe = 0 /\ cli.owed = 0
    /\ cli.tasks = {} \/ (~cli.reports /\ run.taskLedgerOverflowed)
    /\ cli.reports => cli.woken = 0

\* The SDK closes stdin at last, so the CLI can exit: "The wait is guaranteed
\* to end" (query.go:1060).
StdinClosedAtLast == <>(~stdinOpen)
=============================================================================
