------------------------------ MODULE Transport ------------------------------
(***************************************************************************)
(* The subprocess transport (internal/transport/subprocess.go) and the     *)
(* process at the other end of its two pipes: readStdout, which turns      *)
(* lines into frames, Write and EndInput, which share writeMu, Close with  *)
(* its grace period, SIGTERM and kill, and the reaping both sides wait for.*)
(*                                                                         *)
(* The CLI is arbitrary here: it may write any line, stop reading stdin or *)
(* exit at any time.  A line stands for its kind and its number; the size  *)
(* of jsonBuffer is counted in lines.  Stderr is not modelled.             *)
(***************************************************************************)
EXTENDS Naturals, Sequences, SequencesExt

CONSTANTS
  Writers,      \* goroutines that call Write
  LineKinds,    \* the lines the CLI writes
  MessagesCap,  \* capacity of t.messages (100)
  ErrorsCap,    \* capacity of t.errors (10)
  BufferCap,    \* maxBufferSize, in lines
  StdinCap,     \* capacity of the stdin pipe, in writes
  StdoutCap,    \* capacity of the stdout pipe, in lines
  MaxLines,     \* bound: lines the CLI writes
  MaxWrites     \* bound: calls of Write

FrameKinds == {"message", "malformed", "result"}
AllKinds   == FrameKinds \cup {"head", "tail", "noise", "long"}

ASSUME TransportAssumption ==
  /\ LineKinds \subseteq AllKinds
  /\ MessagesCap \in Nat \ {0} /\ ErrorsCap \in Nat \ {0} /\ BufferCap \in Nat \ {0}
  /\ StdinCap \in Nat \ {0} /\ StdoutCap \in Nat \ {0}
  /\ MaxLines \in Nat /\ MaxWrites \in Nat

VARIABLES
  proc,       \* the CLI: "running", or how it exited: "clean", "failed"
  reaped,     \* waitCalled, and Wait returned: the pipes are closed
  killed,     \* the process was killed, by Close or by its context
  written,    \* lines the CLI wrote
  stdout,     \* lines in the stdout pipe
  stdin,      \* [open, pipe]: t.stdin # nil, and writes the CLI has yet to read
  reader,     \* readStdout: [pc, frame]
  buffer,     \* jsonBuffer
  scanned,    \* lines readStdout took
  messages,   \* t.messages
  errors,     \* t.errors
  received,   \* frames taken from t.messages
  seen,       \* errors taken from t.errors
  writeMu,    \* the writer that holds it, or Free
  writer,     \* Write: [Writers -> {"idle", "writing"}]
  writes,     \* calls of Write so far
  closer      \* Close

procVars   == <<proc, reaped, killed>>
pipeVars   == <<written, stdout, stdin>>
readerVars == <<reader, buffer, scanned>>
chanVars   == <<messages, errors>>
takenVars  == <<received, seen>>
writeVars  == <<writeMu, writer, writes>>
vars == <<proc, reaped, killed, written, stdout, stdin, reader, buffer, scanned,
          messages, errors, received, seen, writeMu, writer, writes, closer>>

Free    == "free"
NoFrame == [kind |-> "none", id |-> 0]
Lines   == [kind : AllKinds, id : 1..MaxLines]
Frames  == [kind : FrameKinds, id : 1..MaxLines]
ErrorKinds == {"BufferOverflowError", "JSONDecodeError", "ProcessError"}

Closed  == closer # "idle"
Exited  == proc # "running"
ErrorsClosed   == reader.pc \in {"closeMessages", "gone"}
MessagesClosed == reader.pc = "gone"

-----------------------------------------------------------------------------
Init ==
  /\ proc = "running" /\ reaped = FALSE /\ killed = FALSE
  /\ written = 0 /\ stdout = <<>>
  /\ stdin = [open |-> TRUE, pipe |-> 0]
  /\ reader = [pc |-> "scan", frame |-> NoFrame]
  /\ buffer = <<>> /\ scanned = <<>>
  /\ messages = <<>> /\ errors = <<>>
  /\ received = <<>> /\ seen = {}
  /\ writeMu = Free
  /\ writer = [w \in Writers |-> "idle"]
  /\ writes = 0
  /\ closer = "idle"

(* ---- the process ---- *)

CliWrites(kind) ==
  /\ ~Exited /\ written < MaxLines /\ Len(stdout) < StdoutCap
  /\ written' = written + 1
  /\ stdout' = Append(stdout, [kind |-> kind, id |-> written + 1])
  /\ UNCHANGED <<procVars, stdin, readerVars, chanVars, takenVars, writeVars, closer>>

CliReads ==
  /\ ~Exited /\ stdin.pipe > 0
  /\ stdin' = [stdin EXCEPT !.pipe = @ - 1]
  /\ UNCHANGED <<procVars, written, stdout, readerVars, chanVars, takenVars, writeVars, closer>>

CliExits(how) ==
  /\ ~Exited
  /\ proc' = how
  /\ UNCHANGED <<reaped, killed, pipeVars, readerVars, chanVars, takenVars, writeVars, closer>>

\* exec.CommandContext kills the process once the context of Connect is done.
ContextDone ==
  /\ ~Exited /\ ~killed
  /\ killed' = TRUE
  /\ UNCHANGED <<proc, reaped, pipeVars, readerVars, chanVars, takenVars, writeVars, closer>>

(* ---- readStdout ---- *)

\* json.Unmarshal accepts a whole frame, or one that came in two lines.
Complete(lines) ==
  \/ Len(lines) = 1 /\ lines[1].kind \in FrameKinds
  \/ Len(lines) = 2 /\ lines[1].kind = "head" /\ lines[2].kind = "tail"

FrameOf(lines) ==
  LET last == Last(lines)
  IN [kind |-> IF last.kind = "tail" THEN "message" ELSE last.kind, id |-> last.id]

OpensFrame(line) == line.kind \in FrameKinds \cup {"head"}

Skipped_Mutant(line) == ~OpensFrame(line)   \* skips such lines in mid-parse, too

\* A line that opens no JSON object is skipped, unless in mid-parse.
Skipped(line) == buffer = <<>> /\ ~OpensFrame(line)

Overflows(json) == Len(json) > BufferCap

\* One iteration of the scan loop; a line too long ends it.
TakeLine ==
  /\ reader.pc = "scan" /\ stdout # <<>>
  /\ stdout' = Tail(stdout)
  /\ LET line == Head(stdout)
         json == Append(buffer, line) IN
     /\ scanned' = Append(scanned, line)
     /\ CASE line.kind = "long" ->
               /\ reader' = [reader EXCEPT !.pc = "tooLong"]
               /\ UNCHANGED buffer
          [] line.kind # "long" /\ Skipped(line) ->
               UNCHANGED <<reader, buffer>>
          [] OTHER ->
               /\ buffer' = IF Overflows(json) \/ Complete(json) THEN <<>> ELSE json
               /\ reader' = CASE Overflows(json) -> [reader EXCEPT !.pc = "overflow"]
                              [] ~Overflows(json) /\ Complete(json) ->
                                   [pc |-> "send", frame |-> FrameOf(json)]
                              [] OTHER -> reader
  /\ UNCHANGED <<procVars, written, stdin, chanVars, takenVars, writeVars, closer>>

\* The send blocks on a full channel until Close releases it.
SendMessage ==
  /\ reader.pc = "send"
  /\ \/ Len(messages) < MessagesCap /\ messages' = Append(messages, reader.frame)
     \/ Closed /\ UNCHANGED messages
  /\ reader' = [pc |-> "scan", frame |-> NoFrame]
  /\ UNCHANGED <<procVars, pipeVars, buffer, scanned, errors, takenVars, writeVars, closer>>

\* The same for an error.
DeliverError(err) ==
  \/ Len(errors) < ErrorsCap /\ errors' = Append(errors, err)
  \/ Closed /\ UNCHANGED errors

SendError(pc, err, next) ==
  /\ reader.pc = pc
  /\ DeliverError(err)
  /\ reader' = [reader EXCEPT !.pc = next]
  /\ UNCHANGED <<procVars, pipeVars, buffer, scanned, messages, takenVars, writeVars, closer>>

\* End of file: the process is gone and the pipe read to its end.
ScanEnds ==
  /\ reader.pc = "scan" /\ Exited /\ stdout = <<>>
  /\ reader' = [reader EXCEPT !.pc = "wait"]
  /\ UNCHANGED <<procVars, pipeVars, buffer, scanned, chanVars, takenVars, writeVars, closer>>

\* Close reaped the process first, which closes the pipe under the scanner.
ScanFails ==
  /\ reader.pc = "scan" /\ reaped
  /\ reader' = [reader EXCEPT !.pc = "scanError"]
  /\ UNCHANGED <<procVars, pipeVars, buffer, scanned, chanVars, takenVars, writeVars, closer>>

\* waitForProcessExit.
WaitReturns ==
  /\ reader.pc = "wait" /\ Exited
  /\ reaped' = TRUE
  /\ reader' = [reader EXCEPT !.pc = IF proc = "failed" THEN "exitError" ELSE "closeErrors"]
  /\ UNCHANGED <<proc, killed, pipeVars, buffer, scanned, chanVars, takenVars, writeVars, closer>>

\* The deferred closes: errors first.
CloseErrors ==
  /\ reader.pc = "closeErrors"
  /\ reader' = [reader EXCEPT !.pc = "closeMessages"]
  /\ UNCHANGED <<procVars, pipeVars, buffer, scanned, chanVars, takenVars, writeVars, closer>>

CloseMessages ==
  /\ reader.pc = "closeMessages"
  /\ reader' = [reader EXCEPT !.pc = "gone"]
  /\ UNCHANGED <<procVars, pipeVars, buffer, scanned, chanVars, takenVars, writeVars, closer>>

ReadStdout ==
  \/ TakeLine \/ SendMessage
  \/ SendError("overflow", "BufferOverflowError", "scan")
  \/ SendError("tooLong", "BufferOverflowError", "wait")
  \/ SendError("scanError", "JSONDecodeError", "wait")
  \/ SendError("exitError", "ProcessError", "closeErrors")
  \/ ScanEnds \/ ScanFails \/ WaitReturns
  \/ CloseErrors \/ CloseMessages

(* ---- Write and EndInput ---- *)

\* ready and exitError are written without the lock: a write may see either.
StartWrite(w) ==
  /\ writer[w] = "idle" /\ writeMu = Free /\ writes < MaxWrites
  /\ writes' = writes + 1
  /\ \/ stdin.open /\ writeMu' = w /\ writer' = [writer EXCEPT ![w] = "writing"]
     \/ (~stdin.open \/ Closed \/ reaped) /\ UNCHANGED <<writeMu, writer>>
  /\ UNCHANGED <<procVars, pipeVars, readerVars, chanVars, takenVars, closer>>

\* A full pipe blocks until the CLI reads, a broken one fails.
FinishWrite(w) ==
  /\ writer[w] = "writing"
  /\ \/ /\ ~Exited /\ stdin.pipe < StdinCap
        /\ stdin' = [stdin EXCEPT !.pipe = @ + 1]
     \/ Exited /\ UNCHANGED stdin
  /\ writeMu' = Free
  /\ writer' = [writer EXCEPT ![w] = "idle"]
  /\ UNCHANGED <<procVars, written, stdout, readerVars, chanVars, takenVars, writes, closer>>

CloseStdin == writeMu = Free /\ stdin' = [stdin EXCEPT !.open = FALSE]

EndInput ==
  /\ stdin.open /\ CloseStdin
  /\ UNCHANGED <<procVars, written, stdout, readerVars, chanVars, takenVars, writeVars, closer>>

(* ---- Close ---- *)

StartClose ==
  /\ closer = "idle"
  /\ closer' = "endInput"
  /\ UNCHANGED <<procVars, pipeVars, readerVars, chanVars, takenVars, writeVars>>

CloseEndsInput ==
  /\ closer = "endInput"
  /\ CloseStdin
  /\ closer' = "grace"
  /\ UNCHANGED <<procVars, written, stdout, readerVars, chanVars, takenVars, writeVars>>

\* Five seconds each: SIGTERM, which the CLI may ignore, then a kill.
GraceExpires ==
  /\ closer = "grace"
  /\ closer' = "term"
  /\ UNCHANGED <<procVars, pipeVars, readerVars, chanVars, takenVars, writeVars>>

TermExpires_Mutant ==   \* SIGTERM once more
  /\ closer = "term"
  /\ closer' = "kill"
  /\ UNCHANGED <<procVars, pipeVars, readerVars, chanVars, takenVars, writeVars>>

TermExpires ==
  /\ closer = "term"
  /\ killed' = TRUE
  /\ closer' = "kill"
  /\ UNCHANGED <<proc, reaped, pipeVars, readerVars, chanVars, takenVars, writeVars>>

\* The goroutine that waits on Close's behalf may reap before readStdout is done.
CloseReaps ==
  /\ closer \in {"grace", "term", "kill"} /\ Exited
  /\ reaped' = TRUE
  /\ closer' = "done"
  /\ UNCHANGED <<proc, killed, pipeVars, readerVars, chanVars, takenVars, writeVars>>

Close == StartClose \/ CloseEndsInput \/ GraceExpires \/ TermExpires \/ CloseReaps

(* ---- the consumer of both channels ---- *)

TakeMessage ==
  /\ messages # <<>>
  /\ received' = Append(received, Head(messages))
  /\ messages' = Tail(messages)
  /\ UNCHANGED <<procVars, pipeVars, readerVars, errors, seen, writeVars, closer>>

TakeError ==
  /\ errors # <<>>
  /\ seen' = seen \cup {Head(errors)}
  /\ errors' = Tail(errors)
  /\ UNCHANGED <<procVars, pipeVars, readerVars, messages, received, writeVars, closer>>

-----------------------------------------------------------------------------
WriteStep(w) == StartWrite(w) \/ FinishWrite(w)
CliStep == (\E k \in LineKinds : CliWrites(k)) \/ CliReads \/ \E how \in {"clean", "failed"} : CliExits(how)

Terminated ==
  /\ reader.pc = "gone" /\ closer \in {"idle", "done"}
  /\ UNCHANGED vars

Next ==
  \/ CliStep \/ ReadStdout
  \/ (\E w \in Writers : WriteStep(w)) \/ EndInput
  \/ Close
  \/ TakeMessage \/ TakeError \/ ContextDone
  \/ Terminated

Spec == Init /\ [][Next]_vars

\* Goroutines that can run do run, timers expire and a kill kills.  The caller
\* owes nothing: it need not take a message, nor close.
GoFairness ==
  /\ WF_vars(ReadStdout)
  /\ \A w \in Writers : WF_vars(FinishWrite(w))
  /\ WF_vars(Closed /\ Close)
  /\ WF_vars(killed /\ CliExits("failed"))

\* The CLI owes nothing either: this is what the kill is for.
HungCliSpec == Spec /\ GoFairness

\* The CLI reads its stdin.
FairSpec == HungCliSpec /\ WF_vars(CliReads)

-----------------------------------------------------------------------------
(* Properties *)

\* The CLI has kept its frames whole: every split frame is completed by the very
\* next line.
WellFormed(lines) ==
  \A i \in DOMAIN lines :
     /\ lines[i].kind = "head" => i = Len(lines) \/ lines[i + 1].kind = "tail"
     /\ lines[i].kind = "tail" => i > 1 /\ lines[i - 1].kind = "head"

\* The frame a line brings to its end, if it does.
Ended(line) == IF line.kind \in FrameKinds \cup {"tail"} THEN <<FrameOf(<<line>>)>> ELSE <<>>

\* The frames of such lines, whatever noise stands between them.
FramesOf(lines) == FlattenSeq([i \in DOMAIN lines |-> Ended(lines[i])])

InHand == IF reader.pc = "send" THEN <<reader.frame>> ELSE <<>>

\* Until Close, no frame that was scanned is lost, damaged or reordered, however
\* noise lines and split frames alternate and however slow the consumer is
\* (subprocess.go:1205-1247).
NoFrameLost ==
  ~Closed /\ WellFormed(scanned) => received \o messages \o InHand = FramesOf(scanned)

\* Close ends, if need be by a kill (subprocess.go:1371-1397).
CloseCompletes == Closed ~> (closer = "done")
=============================================================================
