--------------------------- MODULE PipelineProofs ---------------------------
(***************************************************************************)
(* What a query delivers, for every capacity of its four channels and two  *)
(* pipes, and any number and kind of lines: the transport loses no frame   *)
(* before Close, and a caller of Query that does not cancel receives every *)
(* frame and learns of the failure of the process.                         *)
(***************************************************************************)
EXTENDS OneShotQuery, SequenceLemmas, TLAPS

(* ---- the transport ---- *)

Scanning   == {"scan", "send", "overflow", "tooLong", "scanError"}
Reaped     == {"exitError", "closeErrors", "closeMessages", "gone"}
ReaderPCs  == Scanning \cup {"wait"} \cup Reaped

PipeTypes ==
  /\ proc \in {"running", "clean", "failed"}
  /\ written \in 0..MaxLines
  /\ stdout \in Seq(Lines) /\ scanned \in Seq(Lines) /\ buffer \in Seq(Lines)
  /\ reader \in [pc : ReaderPCs, frame : Frames \cup {NoFrame}]
  /\ reader.pc = "send" => reader.frame \in Frames
  /\ messages \in Seq(Frames) /\ received \in Seq(Frames)
  /\ errors \in Seq(ErrorKinds) /\ Len(errors) <= ErrorsCap

\* The first line of a frame whose second has not come.
Unfinished(lines) ==
  IF lines # <<>> /\ lines[Len(lines)].kind = "head" THEN <<lines[Len(lines)]>> ELSE <<>>

Framing == WellFormed(scanned) => buffer = Unfinished(scanned)

\* What NoFrameLost says, whether or not the transport was closed.
Whole == WellFormed(scanned) => received \o messages \o InHand = FramesOf(scanned)

PipeInv == PipeTypes /\ Framing

EndedOf == [l \in Lines |-> Ended(l)]

LEMMA EndedType == Replaces(EndedOf, Lines, Frames)
<1> SUFFICES ASSUME NEW l \in Lines PROVE Ended(l) \in Seq(Frames)
  BY DEF EndedOf, Replaces
<1>1. CASE l.kind \in FrameKinds \cup {"tail"}
  <2>1. Last(<<l>>) = l
    BY DEF Last
  <2>2. FrameOf(<<l>>) \in Frames
    BY <1>1, <2>1 DEF FrameOf, Frames, Lines, FrameKinds
  <2> QED BY <1>1, <2>2 DEF Ended
<1>2. CASE l.kind \notin FrameKinds \cup {"tail"}
  BY <1>2 DEF Ended
<1> QED
  BY <1>1, <1>2

LEMMA FramesAreEach == ASSUME NEW s \in Seq(Lines) PROVE FramesOf(s) = Each(EndedOf, s)
<1>1. \A i \in DOMAIN s : s[i] \in Lines
  OBVIOUS
<1>2. [i \in DOMAIN s |-> Ended(s[i])] = [i \in DOMAIN s |-> EndedOf[s[i]]]
  BY <1>1 DEF EndedOf
<1> QED
  BY <1>2 DEF FramesOf, Each

LEMMA FramesType == ASSUME NEW s \in Seq(Lines) PROVE FramesOf(s) \in Seq(Frames)
BY FramesAreEach, EndedType, EachType

LEMMA FramesAppend ==
  ASSUME NEW s \in Seq(Lines), NEW l \in Lines
  PROVE  FramesOf(Append(s, l)) = FramesOf(s) \o Ended(l)
<1>1. Append(s, l) \in Seq(Lines)
  OBVIOUS
<1>2. Each(EndedOf, Append(s, l)) = Each(EndedOf, s) \o EndedOf[l]
  BY EndedType, EachAppend
<1> QED
  BY <1>1, <1>2, FramesAreEach DEF EndedOf

\* Of a well-formed sequence the part before the last line is well-formed, and that line
\* ends a frame exactly if one is begun.
LEMMA WellFormedAppend ==
  ASSUME NEW s \in Seq(Lines), NEW l \in Lines, WellFormed(Append(s, l))
  PROVE  /\ WellFormed(s)
         /\ l.kind = "tail" <=> Unfinished(s) # <<>>
         /\ Unfinished(Append(s, l)) = IF l.kind = "head" THEN <<l>> ELSE <<>>
<1> DEFINE t == Append(s, l)
           n == Len(s)
<1>1. /\ n \in Nat /\ Len(t) = n + 1 /\ DOMAIN t = 1..(n + 1) /\ DOMAIN s = 1..n
      /\ t[n + 1] = l /\ (\A i \in 1..n : t[i] = s[i]) /\ t # <<>>
      /\ (s = <<>> <=> n = 0)
  OBVIOUS
<1>2. \A i \in 1..(n + 1) :
         /\ t[i].kind = "head" => i = n + 1 \/ t[i + 1].kind = "tail"
         /\ t[i].kind = "tail" => i > 1 /\ t[i - 1].kind = "head"
  BY <1>1 DEF WellFormed
<1> HIDE DEF t, n
<1>3. ASSUME NEW i \in 1..n
      PROVE  /\ s[i].kind = "head" => i = n \/ s[i + 1].kind = "tail"
             /\ s[i].kind = "tail" => i > 1 /\ s[i - 1].kind = "head"
  <2>1. i \in 1..(n + 1) /\ t[i] = s[i] /\ i # n + 1
    BY <1>1
  <2>2. i # n => i + 1 \in 1..n /\ t[i + 1] = s[i + 1]
    BY <1>1
  <2>3. i > 1 => i - 1 \in 1..n /\ t[i - 1] = s[i - 1]
    BY <1>1, SMTT(60)
  <2> QED BY <1>2, <2>1, <2>2, <2>3
<1>4. WellFormed(s)
  BY <1>1, <1>3 DEF WellFormed, n
<1>5. l.kind = "tail" => n # 0 /\ s[n].kind = "head"
  <2>1. n + 1 \in 1..(n + 1) /\ (n + 1) - 1 = n
    BY <1>1
  <2>2. l.kind = "tail" => n + 1 > 1 /\ t[n].kind = "head"
    BY <1>1, <1>2, <2>1
  <2> QED BY <1>1, <2>2
<1>6. n # 0 /\ s[n].kind = "head" => l.kind = "tail"
  <2> SUFFICES ASSUME n # 0, s[n].kind = "head" PROVE l.kind = "tail"
    OBVIOUS
  <2>1. n \in 1..(n + 1) /\ n # n + 1 /\ n \in 1..n
    BY <1>1
  <2> QED BY <1>1, <1>2, <2>1
<1>7. Unfinished(s) # <<>> <=> n # 0 /\ s[n].kind = "head"
  BY <1>1 DEF Unfinished, n
<1>8. Unfinished(t) = IF l.kind = "head" THEN <<l>> ELSE <<>>
  BY <1>1 DEF Unfinished
<1> QED
  BY <1>4, <1>5, <1>6, <1>7, <1>8 DEF t

\* What one iteration of the scan loop does with a line of a well-formed sequence.
LEMMA TakeLineEffect ==
  ASSUME BufferCap > 1, BufferCap \in Nat, PipeTypes, Framing, TakeLine, WellFormed(scanned')
  PROVE  \E line \in Lines :
           /\ scanned' = Append(scanned, line) /\ WellFormed(scanned)
           /\ buffer' = Unfinished(scanned')
           /\ IF line.kind \in FrameKinds \cup {"tail"}
              THEN reader' = [pc |-> "send", frame |-> FrameOf(<<line>>)]
              ELSE reader' = [reader EXCEPT !.pc = IF line.kind = "long" THEN "tooLong" ELSE @]
<1> DEFINE line == Head(stdout)
           json == Append(buffer, line)
<1>1. line \in Lines /\ scanned' = Append(scanned, line) /\ reader.pc = "scan"
  BY DEF TakeLine, PipeTypes
<1>2. /\ line.kind = "long" => reader' = [reader EXCEPT !.pc = "tooLong"] /\ buffer' = buffer
      /\ line.kind # "long" /\ Skipped(line) => reader' = reader /\ buffer' = buffer
      /\ line.kind # "long" /\ ~Skipped(line) =>
           /\ buffer' = IF Overflows(json) \/ Complete(json) THEN <<>> ELSE json
           /\ Overflows(json) => reader' = [reader EXCEPT !.pc = "overflow"]
           /\ ~Overflows(json) /\ Complete(json) => reader' = [pc |-> "send", frame |-> FrameOf(json)]
           /\ ~Overflows(json) /\ ~Complete(json) => reader' = reader
  BY DEF TakeLine
<1>3. /\ WellFormed(scanned)
      /\ line.kind = "tail" <=> buffer # <<>>
      /\ Unfinished(scanned') = IF line.kind = "head" THEN <<line>> ELSE <<>>
      /\ buffer = Unfinished(scanned)
  <2>1. scanned \in Seq(Lines)
    BY DEF PipeTypes
  <2> QED BY <1>1, <2>1, WellFormedAppend DEF Framing
<1>4. buffer = <<>> \/ (buffer = <<buffer[1]>> /\ buffer[1].kind = "head")
  BY <1>3 DEF Unfinished
<1>5. reader' = [reader EXCEPT !.pc = @] <=> reader' = reader
  BY DEF PipeTypes
<1>6. buffer = <<>> => json = <<line>> /\ Len(json) = 1 /\ json[1] = line
  OBVIOUS
<1>7. buffer # <<>> => /\ Len(json) = 2 /\ json[1].kind = "head" /\ json[2] = line
                       /\ Last(json) = line
  <2> SUFFICES ASSUME buffer # <<>>
               PROVE  Len(json) = 2 /\ json[1].kind = "head" /\ json[2] = line /\ Last(json) = line
    OBVIOUS
  <2>1. PICK h : buffer = <<h>> /\ h.kind = "head"
    BY <1>4
  <2> HIDE DEF line
  <2>2. json = <<h, line>>
    <3>1. h \in Lines /\ line \in Lines
      BY <1>1, <2>1 DEF PipeTypes
    <3> QED BY <2>1, <3>1, PairAppend
  <2> HIDE DEF json
  <2> QED BY <2>1, <2>2 DEF Last
<1>8. Last(<<line>>) = line
  BY DEF Last
<1>9. line.kind \in AllKinds
  BY <1>1 DEF Lines
<1> HIDE DEF line, json
<1>10. CASE line.kind \in FrameKinds
  <2>1. buffer = <<>> /\ line.kind # "long" /\ ~Skipped(line)
    BY <1>3, <1>10 DEF Skipped, OpensFrame, FrameKinds
  <2>2. ~Overflows(json) /\ Complete(json)
    BY <1>6, <1>10, <2>1 DEF Overflows, Complete
  <2>3. line.kind # "head"
    BY <1>10 DEF FrameKinds
  <2> QED BY <1>1, <1>2, <1>3, <1>6, <1>10, <2>1, <2>2, <2>3
<1>11. CASE line.kind = "tail"
  <2>1. buffer # <<>> /\ line.kind # "long" /\ ~Skipped(line)
    BY <1>3, <1>11 DEF Skipped
  <2>2. ~Overflows(json) /\ Complete(json)
    <3>1. ~(2 > BufferCap)
      OBVIOUS
    <3> QED BY <1>7, <1>11, <2>1, <3>1 DEF Overflows, Complete
  <2>3. FrameOf(json) = FrameOf(<<line>>)
    BY <1>7, <1>8, <2>1 DEF FrameOf
  <2> QED BY <1>1, <1>2, <1>3, <1>11, <2>1, <2>2, <2>3
<1>12. CASE line.kind = "head"
  <2>1. buffer = <<>> /\ ~Skipped(line)
    BY <1>3, <1>12 DEF Skipped, OpensFrame
  <2>2. ~Overflows(json) /\ ~Complete(json)
    <3>1. ~(1 > BufferCap) /\ "head" \notin FrameKinds
      BY DEF FrameKinds
    <3> QED BY <1>6, <1>12, <2>1, <3>1 DEF Overflows, Complete
  <2>3. reader' = reader /\ buffer' = <<line>>
    BY <1>2, <1>6, <1>12, <2>1, <2>2
  <2> QED BY <1>1, <1>3, <1>5, <1>12, <2>3 DEF FrameKinds
<1>13. CASE line.kind = "noise"
  <2>1. buffer = <<>> /\ Skipped(line)
    BY <1>3, <1>13 DEF Skipped, OpensFrame, FrameKinds
  <2> QED BY <1>1, <1>2, <1>3, <1>5, <1>13, <2>1 DEF FrameKinds
<1>14. CASE line.kind = "long"
  <2>1. buffer = <<>>
    BY <1>3, <1>14
  <2> QED BY <1>1, <1>2, <1>3, <1>14, <2>1 DEF FrameKinds
<1> QED
  BY <1>9, <1>10, <1>11, <1>12, <1>13, <1>14 DEF AllKinds

LEMMA PipeInit == TransportAssumption /\ Init => PipeInv /\ Whole
<1> SUFFICES ASSUME TransportAssumption, Init PROVE PipeInv /\ Whole
  OBVIOUS
<1>1. PipeTypes
  BY DEF Init, PipeTypes, ReaderPCs, Scanning, TransportAssumption
<1>2. Framing
  BY DEF Init, Framing, Unfinished
<1>3. FramesOf(scanned) = <<>>
  <2>1. scanned = <<>> /\ scanned \in Seq(Lines)
    BY DEF Init
  <2> QED BY <2>1, FramesAreEach, EachEmpty
<1>4. Whole
  BY <1>3 DEF Init, Whole, InHand
<1> QED
  BY <1>1, <1>2, <1>4 DEF PipeInv

(* ---- the steps of the transport ---- *)

\* readStdout but for its scan of a line and its sends.
ReaderGoesOn ==
  \/ ScanEnds \/ ScanFails \/ WaitReturns \/ CloseErrors \/ CloseMessages

ErrorSends ==
  \/ SendError("overflow", "BufferOverflowError", "scan")
  \/ SendError("tooLong", "BufferOverflowError", "wait")
  \/ SendError("scanError", "JSONDecodeError", "wait")
  \/ SendError("exitError", "ProcessError", "closeErrors")

\* The steps of everyone else, which touch no frame.
Aside ==
  \/ CliReads \/ (\E how \in {"clean", "failed"} : CliExits(how)) \/ ContextDone
  \/ (\E w \in Writers : WriteStep(w)) \/ EndInput \/ Close \/ TakeError

LEMMA StepKinds ==
  ASSUME [Next]_vars
  PROVE  \/ (\E k \in LineKinds : CliWrites(k)) \/ TakeLine \/ SendMessage \/ TakeMessage
         \/ ErrorSends \/ ReaderGoesOn \/ Aside \/ UNCHANGED vars
BY DEF Next, CliStep, ReadStdout, ErrorSends, ReaderGoesOn, Aside, Terminated

LEMMA AsideEffect ==
  ASSUME Aside
  PROVE  /\ UNCHANGED <<written, stdout, reader, buffer, scanned, messages, received>>
         /\ proc' = proc \/ (proc = "running" /\ proc' \in {"clean", "failed"})
         /\ errors' = errors \/ (errors # <<>> /\ errors' = Tail(errors))
BY DEF Aside, CliReads, CliExits, ContextDone, WriteStep, StartWrite, FinishWrite, EndInput, CloseStdin,
     Close, StartClose, CloseEndsInput, GraceExpires, TermExpires, CloseReaps, TakeError, Exited,
     procVars, pipeVars, readerVars, chanVars, takenVars, writeVars

LEMMA ErrorSendsEffect ==
  ASSUME PipeTypes, ErrorSends
  PROVE  /\ UNCHANGED <<proc, reaped, written, stdout, buffer, scanned, messages, received, closer>>
         /\ \E err \in ErrorKinds : (Len(errors) < ErrorsCap /\ errors' = Append(errors, err)) \/ (Closed /\ errors' = errors)
         /\ reader.pc # "send" /\ reader'.pc \in ReaderPCs \ {"send"} /\ reader'.frame = reader.frame
         /\ reader' \in [pc : ReaderPCs, frame : Frames \cup {NoFrame}]
         /\ reader'.pc \in {"scan", "wait", "closeErrors"}
         /\ reader'.pc = "wait" => reader.pc \in {"tooLong", "scanError"}
         /\ reader'.pc = "closeErrors" =>
              reader.pc = "exitError" /\ (errors' = Append(errors, "ProcessError") \/ Closed)
<1>1. ASSUME NEW pc \in ReaderPCs \ {"send"}, NEW err \in ErrorKinds, NEW next \in ReaderPCs, SendError(pc, err, next)
      PROVE  /\ UNCHANGED <<proc, reaped, written, stdout, buffer, scanned, messages, received, closer>>
             /\ (Len(errors) < ErrorsCap /\ errors' = Append(errors, err)) \/ (Closed /\ errors' = errors)
             /\ reader.pc = pc /\ reader'.pc = next /\ reader'.frame = reader.frame
             /\ reader' \in [pc : ReaderPCs, frame : Frames \cup {NoFrame}]
  BY <1>1 DEF SendError, DeliverError, PipeTypes, procVars, pipeVars, takenVars, writeVars
<1>2. CASE SendError("overflow", "BufferOverflowError", "scan")
  <2>1. "overflow" \in ReaderPCs \ {"send"} /\ "scan" \in ReaderPCs /\ "BufferOverflowError" \in ErrorKinds
    BY DEF ReaderPCs, Scanning, Reaped, ErrorKinds
  <2> QED BY <1>1, <1>2, <2>1
<1>3. CASE SendError("tooLong", "BufferOverflowError", "wait")
  <2>1. "tooLong" \in ReaderPCs \ {"send"} /\ "wait" \in ReaderPCs /\ "BufferOverflowError" \in ErrorKinds
    BY DEF ReaderPCs, Scanning, Reaped, ErrorKinds
  <2> QED BY <1>1, <1>3, <2>1
<1>4. CASE SendError("scanError", "JSONDecodeError", "wait")
  <2>1. "scanError" \in ReaderPCs \ {"send"} /\ "wait" \in ReaderPCs /\ "JSONDecodeError" \in ErrorKinds
    BY DEF ReaderPCs, Scanning, Reaped, ErrorKinds
  <2> QED BY <1>1, <1>4, <2>1
<1>5. CASE SendError("exitError", "ProcessError", "closeErrors")
  <2>1. "exitError" \in ReaderPCs \ {"send"} /\ "closeErrors" \in ReaderPCs /\ "ProcessError" \in ErrorKinds
    BY DEF ReaderPCs, Scanning, Reaped, ErrorKinds
  <2> QED BY <1>1, <1>5, <2>1
<1> QED
  BY <1>2, <1>3, <1>4, <1>5 DEF ErrorSends

LEMMA GoesOnEffect ==
  ASSUME PipeTypes, ReaderGoesOn
  PROVE  /\ UNCHANGED <<proc, written, stdout, buffer, scanned, messages, received, errors, closer>>
         /\ reader.pc # "send" /\ reader'.pc # "send" /\ reader'.frame = reader.frame
         /\ reader' \in [pc : ReaderPCs, frame : Frames \cup {NoFrame}]
         /\ \/ reader.pc = "scan" /\ reader'.pc = "wait" /\ Exited /\ stdout = <<>> /\ reaped' = reaped
            \/ reader.pc = "scan" /\ reader'.pc = "scanError" /\ reaped /\ reaped' = reaped
            \/ /\ reader.pc = "wait" /\ Exited
               /\ reader'.pc = IF proc = "failed" THEN "exitError" ELSE "closeErrors"
            \/ reader.pc = "closeErrors" /\ reader'.pc = "closeMessages" /\ reaped' = reaped
            \/ reader.pc = "closeMessages" /\ reader'.pc = "gone" /\ reaped' = reaped
<1>1. \A pc \in ReaderPCs : LET r == [reader EXCEPT !.pc = pc] IN
        r.pc = pc /\ r.frame = reader.frame /\ r \in [pc : ReaderPCs, frame : Frames \cup {NoFrame}]
  BY DEF PipeTypes
<1> USE <1>1 DEF procVars, pipeVars, takenVars, writeVars, chanVars, ReaderPCs, Scanning, Reaped
<1>2. CASE ScanEnds
  BY <1>2 DEF ScanEnds
<1>3. CASE ScanFails
  BY <1>3 DEF ScanFails
<1>4. CASE WaitReturns
  BY <1>4 DEF WaitReturns
<1>5. CASE CloseErrors
  BY <1>5 DEF CloseErrors
<1>6. CASE CloseMessages
  BY <1>6 DEF CloseMessages
<1> QED
  BY <1>2, <1>3, <1>4, <1>5, <1>6 DEF ReaderGoesOn

LEMMA TakeLineTypes ==
  ASSUME PipeTypes, TakeLine
  PROVE  /\ stdout # <<>> /\ stdout' = Tail(stdout) /\ scanned' = Append(scanned, Head(stdout))
         /\ Head(stdout) \in Lines /\ buffer' \in Seq(Lines)
         /\ reader' \in [pc : ReaderPCs, frame : Frames \cup {NoFrame}]
         /\ reader'.pc = "send" => reader'.frame \in Frames
         /\ reader.pc = "scan" /\ reader'.pc \in {"scan", "send", "overflow", "tooLong"}
         /\ reader'.pc = "tooLong" => TooLong(Head(stdout))
         /\ UNCHANGED <<proc, reaped, written, messages, received, errors, closer>>
<1> DEFINE line == Head(stdout)
           json == Append(buffer, line)
<1>1. /\ stdout # <<>> /\ stdout' = Tail(stdout) /\ scanned' = Append(scanned, line)
      /\ line \in Lines /\ reader.pc = "scan"
      /\ UNCHANGED <<proc, reaped, written, messages, received, errors, closer>>
  BY DEF TakeLine, PipeTypes, procVars, chanVars, takenVars, writeVars
<1>2. /\ line.kind = "long" => reader' = [reader EXCEPT !.pc = "tooLong"] /\ buffer' = buffer
      /\ line.kind # "long" /\ Skipped(line) => reader' = reader /\ buffer' = buffer
      /\ line.kind # "long" /\ ~Skipped(line) =>
           /\ buffer' = IF Overflows(json) \/ Complete(json) THEN <<>> ELSE json
           /\ Overflows(json) => reader' = [reader EXCEPT !.pc = "overflow"]
           /\ ~Overflows(json) /\ Complete(json) => reader' = [pc |-> "send", frame |-> FrameOf(json)]
           /\ ~Overflows(json) /\ ~Complete(json) => reader' = reader
  BY DEF TakeLine
<1>3. json \in Seq(Lines) /\ buffer \in Seq(Lines)
  BY <1>1 DEF PipeTypes
<1>4. Complete(json) => FrameOf(json) \in Frames
  <2> SUFFICES ASSUME Complete(json) PROVE FrameOf(json) \in Frames
    OBVIOUS
  <2>1. Last(json) \in Lines /\ Last(json).kind \in FrameKinds \cup {"tail"}
    <3>1. CASE Len(json) = 1 /\ json[1].kind \in FrameKinds
      <4>1. Last(json) = json[1] /\ json[1] \in Lines
        BY <1>3, <3>1 DEF Last
      <4> QED BY <3>1, <4>1
    <3>2. CASE Len(json) = 2 /\ json[2].kind = "tail"
      <4>1. Last(json) = json[2] /\ json[2] \in Lines
        BY <1>3, <3>2 DEF Last
      <4> QED BY <3>2, <4>1
    <3> QED BY <3>1, <3>2 DEF Complete
  <2> HIDE DEF json
  <2> QED BY <2>1 DEF FrameOf, Frames, Lines, FrameKinds
<1>5. reader \in [pc : ReaderPCs, frame : Frames \cup {NoFrame}]
  BY DEF PipeTypes
<1> HIDE DEF json, line
<1>6. /\ buffer' \in Seq(Lines)
      /\ reader' \in [pc : ReaderPCs, frame : Frames \cup {NoFrame}]
      /\ reader'.pc = "send" => reader'.frame \in Frames
      /\ reader'.pc \in {"scan", "send", "overflow", "tooLong"}
      /\ reader'.pc = "tooLong" => line.kind = "long"
  <2>1. CASE line.kind = "long"
    BY <1>1, <1>2, <1>3, <1>5, <2>1 DEF ReaderPCs, Scanning
  <2>2. CASE line.kind # "long" /\ Skipped(line)
    BY <1>1, <1>2, <1>3, <1>5, <2>2 DEF ReaderPCs, Scanning
  <2>3. CASE line.kind # "long" /\ ~Skipped(line)
    <3>1. buffer' \in Seq(Lines)
      <4>1. buffer' = <<>> \/ buffer' = json
        BY <1>2, <2>3
      <4>2. <<>> \in Seq(Lines)
        OBVIOUS
      <4> QED BY <1>3, <4>1, <4>2
    <3>2. CASE Overflows(json)
      BY <1>1, <1>2, <1>5, <2>3, <3>1, <3>2 DEF ReaderPCs, Scanning
    <3>3. CASE ~Overflows(json) /\ Complete(json)
      BY <1>1, <1>2, <1>4, <2>3, <3>1, <3>3 DEF ReaderPCs, Scanning
    <3>4. CASE ~Overflows(json) /\ ~Complete(json)
      BY <1>1, <1>2, <1>5, <2>3, <3>1, <3>4 DEF ReaderPCs, Scanning
    <3> QED BY <3>2, <3>3, <3>4
  <2> QED BY <2>1, <2>2, <2>3
<1> QED
  BY <1>1, <1>6 DEF line, TooLong

LEMMA PipeTypesNext == ASSUME TransportAssumption, PipeTypes, [Next]_vars PROVE PipeTypes'
<1> USE DEF procVars, pipeVars, readerVars, chanVars, takenVars, writeVars
<1>1. ASSUME NEW k \in LineKinds, CliWrites(k) PROVE PipeTypes'
  <2>1. k \in AllKinds /\ written + 1 \in 1..MaxLines /\ written + 1 \in 0..MaxLines
    BY <1>1 DEF CliWrites, TransportAssumption, PipeTypes
  <2>2. [kind |-> k, id |-> written + 1] \in Lines
    BY <2>1 DEF Lines
  <2>3. stdout' \in Seq(Lines) /\ written' \in 0..MaxLines
    BY <1>1, <2>1, <2>2 DEF CliWrites, PipeTypes
  <2> QED BY <1>1, <2>3 DEF CliWrites, PipeTypes
<1>2. CASE TakeLine
  <2>1. stdout' \in Seq(Lines) /\ scanned' \in Seq(Lines)
    <3>1. /\ stdout # <<>> /\ stdout' = Tail(stdout) /\ stdout \in Seq(Lines)
          /\ Head(stdout) \in Lines /\ scanned' = Append(scanned, Head(stdout)) /\ scanned \in Seq(Lines)
      BY <1>2, TakeLineTypes DEF PipeTypes
    <3> QED BY <3>1, TailType, AppendType
  <2> QED BY <1>2, <2>1, TakeLineTypes DEF PipeTypes
<1>3. CASE SendMessage
  <2>1. messages' \in Seq(Frames)
    <3>1. messages \in Seq(Frames) /\ reader.frame \in Frames
          /\ (messages' = messages \/ messages' = Append(messages, reader.frame))
      BY <1>3 DEF SendMessage, PipeTypes
    <3> QED BY <3>1, AppendType
  <2>2. reader' = [pc |-> "scan", frame |-> NoFrame]
    BY <1>3 DEF SendMessage
  <2> QED BY <1>3, <2>1, <2>2 DEF SendMessage, PipeTypes, ReaderPCs, Scanning
<1>4. CASE TakeMessage
  <2>1. messages' \in Seq(Frames) /\ received' \in Seq(Frames)
    <3>1. /\ messages # <<>> /\ messages' = Tail(messages) /\ messages \in Seq(Frames)
          /\ received' = Append(received, Head(messages)) /\ received \in Seq(Frames)
      BY <1>4 DEF TakeMessage, PipeTypes
    <3>2. Head(messages) \in Frames /\ messages' \in Seq(Frames)
      BY <3>1, TailType
    <3> QED BY <3>1, <3>2, AppendType
  <2> QED BY <1>4, <2>1 DEF TakeMessage, PipeTypes
<1>5. CASE ErrorSends
  <2>1. PICK err \in ErrorKinds :
          (Len(errors) < ErrorsCap /\ errors' = Append(errors, err)) \/ (Closed /\ errors' = errors)
    BY <1>5, ErrorSendsEffect
  <2>2. errors' \in Seq(ErrorKinds) /\ Len(errors') <= ErrorsCap
    <3>1. errors \in Seq(ErrorKinds) /\ Len(errors) <= ErrorsCap /\ ErrorsCap \in Nat
      BY DEF PipeTypes, TransportAssumption
    <3>2. CASE Len(errors) < ErrorsCap /\ errors' = Append(errors, err)
      BY <3>1, <3>2, AppendType
    <3>3. CASE errors' = errors
      BY <3>1, <3>3
    <3> QED BY <2>1, <3>2, <3>3
  <2> QED BY <1>5, <2>2, ErrorSendsEffect DEF PipeTypes
<1>6. CASE ReaderGoesOn
  BY <1>6, GoesOnEffect DEF PipeTypes
<1>7. CASE Aside
  <2>1. errors' \in Seq(ErrorKinds) /\ Len(errors') <= ErrorsCap
    <3>1. errors \in Seq(ErrorKinds) /\ Len(errors) <= ErrorsCap /\ ErrorsCap \in Nat
      BY DEF PipeTypes, TransportAssumption
    <3>2. CASE errors # <<>> /\ errors' = Tail(errors)
      BY <3>1, <3>2, TailType
    <3>3. CASE errors' = errors
      BY <3>1, <3>3
    <3> QED BY <1>7, <3>2, <3>3, AsideEffect
  <2> QED BY <1>7, <2>1, AsideEffect DEF PipeTypes
<1>8. CASE UNCHANGED vars
  BY <1>8 DEF vars, PipeTypes
<1> QED
  BY <1>1, <1>2, <1>3, <1>4, <1>5, <1>6, <1>7, <1>8, StepKinds

\* Only the scan of a line touches what is scanned and its buffer.
LEMMA FramingNext ==
  ASSUME TransportAssumption, BufferCap > 1, PipeInv, [Next]_vars
  PROVE  PipeInv'
<1> USE DEF procVars, pipeVars, readerVars, chanVars, takenVars, writeVars, PipeInv
<1>1. CASE TakeLine
  <2>1. WellFormed(scanned') => buffer' = Unfinished(scanned')
    BY <1>1, TakeLineEffect DEF TransportAssumption
  <2> QED BY <2>1, PipeTypesNext DEF Framing
<1>2. CASE UNCHANGED <<scanned, buffer>>
  BY <1>2, PipeTypesNext DEF Framing
<1>3. ASSUME NEW k \in LineKinds, CliWrites(k) PROVE UNCHANGED <<scanned, buffer>>
  BY <1>3 DEF CliWrites
<1>4. SendMessage \/ TakeMessage \/ ErrorSends \/ ReaderGoesOn \/ Aside \/ UNCHANGED vars
        => UNCHANGED <<scanned, buffer>>
  BY ErrorSendsEffect, GoesOnEffect, AsideEffect DEF SendMessage, TakeMessage, vars
<1> QED
  BY <1>1, <1>2, <1>3, <1>4, StepKinds

\* A step loses no frame, unless it gives up a send.
LEMMA WholeNext ==
  ASSUME TransportAssumption, BufferCap > 1, PipeInv, Whole, [Next]_vars, ~(Closed /\ reader.pc = "send")
  PROVE  Whole'
<1> USE DEF procVars, pipeVars, readerVars, chanVars, takenVars, writeVars
<1>1. received \in Seq(Frames) /\ messages \in Seq(Frames) /\ InHand \in Seq(Frames) /\ scanned \in Seq(Lines)
  BY DEF PipeInv, PipeTypes, InHand
<1>2. CASE TakeLine
  <2> SUFFICES ASSUME WellFormed(scanned') PROVE (received \o messages \o InHand)' = FramesOf(scanned')
    BY DEF Whole
  <2>1. PICK line \in Lines :
           /\ scanned' = Append(scanned, line) /\ WellFormed(scanned)
           /\ IF line.kind \in FrameKinds \cup {"tail"}
              THEN reader' = [pc |-> "send", frame |-> FrameOf(<<line>>)]
              ELSE reader' = [reader EXCEPT !.pc = IF line.kind = "long" THEN "tooLong" ELSE @]
    BY <1>2, TakeLineEffect DEF TransportAssumption, PipeInv
  <2>2. reader.pc = "scan" /\ received' = received /\ messages' = messages
    BY <1>2, TakeLineTypes DEF PipeInv
  <2>3. InHand = <<>>
    BY <2>2 DEF InHand
  <2>4. InHand' = Ended(line)
    <3>1. CASE line.kind \in FrameKinds \cup {"tail"}
      BY <2>1, <3>1 DEF InHand, Ended
    <3>2. CASE line.kind \notin FrameKinds \cup {"tail"}
      BY <2>1, <2>2, <3>2 DEF InHand, Ended, PipeInv, PipeTypes
    <3> QED BY <3>1, <3>2
  <2>5. FramesOf(scanned') = FramesOf(scanned) \o Ended(line)
    BY <1>1, <2>1, FramesAppend
  <2>6. FramesOf(scanned) = received \o messages
    BY <1>1, <2>1, <2>3 DEF Whole
  <2> QED BY <2>2, <2>4, <2>5, <2>6
<1>3. CASE SendMessage
  <2>1. reader.pc = "send" /\ messages' = Append(messages, reader.frame) /\ reader'.pc = "scan"
        /\ received' = received /\ scanned' = scanned /\ reader.frame \in Frames
    BY <1>3 DEF SendMessage, PipeInv, PipeTypes
  <2>2. InHand = <<reader.frame>> /\ InHand' = <<>>
    BY <2>1 DEF InHand
  <2>3. messages' = messages \o <<reader.frame>> /\ messages' \in Seq(Frames)
    BY <1>1, <2>1
  <2>4. received \o messages' \o <<>> = received \o messages'
    BY <1>1, <2>3
  <2>5. received \o messages' = (received \o messages) \o <<reader.frame>>
    BY <1>1, <2>1, <2>3, ConcatAssoc, SMTT(60)
  <2> QED BY <2>1, <2>2, <2>4, <2>5 DEF Whole
<1>4. CASE TakeMessage
  <2>1. messages # <<>> /\ received' = Append(received, Head(messages)) /\ messages' = Tail(messages)
        /\ reader' = reader /\ scanned' = scanned
    BY <1>4 DEF TakeMessage
  <2>2. received' \o messages' = received \o messages
    BY <1>1, <2>1, HeadMoves
  <2> QED BY <2>1, <2>2 DEF Whole, InHand
<1>5. CASE UNCHANGED <<scanned, messages, received>> /\ reader.pc # "send" /\ reader'.pc # "send"
  BY <1>5 DEF Whole, InHand
<1>6. CASE UNCHANGED <<scanned, messages, received, reader>>
  BY <1>6 DEF Whole, InHand
<1>7. ASSUME NEW k \in LineKinds, CliWrites(k) PROVE Whole'
  BY <1>6, <1>7 DEF CliWrites
<1>8. CASE Aside \/ UNCHANGED vars
  BY <1>6, <1>8, AsideEffect DEF vars
<1>9. CASE ErrorSends \/ ReaderGoesOn
  BY <1>5, <1>9, ErrorSendsEffect, GoesOnEffect DEF PipeInv
<1> QED
  BY <1>2, <1>3, <1>4, <1>7, <1>8, <1>9, StepKinds

LEMMA StaysClosed == ASSUME [Next]_vars, Closed PROVE Closed'
BY DEF Closed, Next, CliStep, CliWrites, CliReads, CliExits, ReadStdout, TakeLine, SendMessage, SendError, ScanEnds,
       ScanFails, WaitReturns, CloseErrors, CloseMessages, WriteStep, StartWrite, FinishWrite, EndInput,
       Close, StartClose, CloseEndsInput, GraceExpires, TermExpires, CloseReaps, TakeMessage, TakeError,
       ContextDone, Terminated, vars

\* The transport loses no frame before it is closed, if its buffer has room for the two
\* lines of a split frame (subprocess.go:1205-1247).
THEOREM TransportDelivers ==
  ASSUME TransportAssumption, BufferCap > 1
  PROVE  Spec => []NoFrameLost
<1> DEFINE Inv == PipeInv /\ (~Closed => Whole)
<1>1. Init => Inv
  BY PipeInit
<1>2. Inv /\ [Next]_vars => Inv'
  BY FramingNext, WholeNext, StaysClosed
<1>3. Inv => NoFrameLost
  BY DEF Whole, NoFrameLost
<1> QED
  BY <1>1, <1>2, <1>3, PTL DEF Spec

(* ---- the query ---- *)

Reports == ErrorKinds \cup {"ParseError", "cancelled"}
Closing == {"closing", "closeErrs", "closeOut", "done"}
Ending  == {"drain", "drainError", "close"} \cup Closing
MainPCs == {"select", "sendMessage", "sendError"} \cup Ending

QueryTypes ==
  /\ loop \in [pc : {"recv", "forward", "drain", "gone"}, frame : Frames \cup {NoFrame}]
  /\ loop.pc = "forward" => loop.frame \in Frames
  /\ raw \in Seq(Frames) /\ out \in Seq(Frames)
  /\ qerrors \in Seq(ErrorKinds) /\ errs \in Seq(Reports)
  /\ main \in [pc : MainPCs, item : Frames \cup Reports \cup {NoItem}]
  /\ main.pc = "sendMessage" => main.item \in Frames
  /\ main.pc \in {"sendError", "drainError"} => main.item \in Reports
  /\ ctxDone \in BOOLEAN
  /\ consumer \in [on : BOOLEAN, sync : BOOLEAN, got : Seq(Frames), failed : BOOLEAN]

\* Who ends before whom, unless the caller cancels: the scan, the channels of the
\* transport, the read loop, the goroutine of Query, the transport, the caller.
Ordered ==
  ~ctxDone =>
    /\ loop.pc \in {"drain", "gone"} => reader.pc = "gone" /\ messages = <<>>
    /\ loop.pc = "gone" => errors = <<>>
    /\ main.pc \in Ending => loop.pc = "gone" /\ raw = <<>>
    /\ main.pc \in Ending \ {"drain", "drainError"} => qerrors = <<>>
    /\ Closed => main.pc \in Closing
    /\ ~consumer.on => main.pc = "done" /\ out = <<>> /\ (~consumer.sync => errs = <<>>)

\* The errors of the transport fit into q.errors, which is empty until it has them all.
Room ==
  ~ctxDone =>
    /\ loop.pc \in {"recv", "forward"} => qerrors = <<>>
    /\ loop.pc = "drain" => Len(qerrors) + Len(errors) <= ErrorsCap

\* What is left unread when the scan is over.
HasLong == \E i \in 1..Len(scanned) : TooLong(scanned[i])
ReadUp ==
  /\ Len(scanned) + Len(stdout) = written
  /\ ~ctxDone =>
       /\ reader.pc # "scanError"
       /\ reader.pc \in Scanning \cup {"wait"} => ~reaped
       /\ reader.pc = "tooLong" => HasLong
       /\ reader.pc \in {"wait"} \cup Reaped => (Exited /\ stdout = <<>>) \/ HasLong
       /\ reader.pc \in Reaped => Exited

\* The frames on their way: in the read loop, and in the goroutine of Query.
InLoop == IF loop.pc = "forward" THEN <<loop.frame>> ELSE <<>>
InMain == IF main.pc = "sendMessage" THEN <<main.item>> ELSE <<>>
Conveyed ==
  ~ctxDone => consumer.got \o out \o InMain \o WellParsed(raw \o InLoop) = WellParsed(received)

\* The failure of the process is known to the caller, or on its way.
Tells(reports) == \E i \in 1..Len(reports) : reports[i] = "ProcessError"
TellsMain == main.pc \in {"sendError", "drainError"} /\ main.item = "ProcessError"
Told ==
  ~ctxDone /\ proc = "failed" /\ reader.pc \in {"closeErrors", "closeMessages", "gone"} =>
    consumer.failed \/ Tells(errors) \/ Tells(qerrors) \/ Tells(errs) \/ TellsMain

QueryInv ==
  /\ PipeInv /\ (~ctxDone => Whole)
  /\ QueryTypes /\ Ordered /\ Room /\ ReadUp /\ Conveyed

ParsedOf == [f \in Frames |-> Parsed(f)]

LEMMA ParsedType == Replaces(ParsedOf, Frames, Frames)
BY DEF ParsedOf, Parsed, Replaces

LEMMA ParsedAreEach == ASSUME NEW s \in Seq(Frames) PROVE WellParsed(s) = Each(ParsedOf, s)
<1>1. \A i \in DOMAIN s : s[i] \in Frames
  OBVIOUS
<1>2. [i \in DOMAIN s |-> Parsed(s[i])] = [i \in DOMAIN s |-> ParsedOf[s[i]]]
  BY <1>1 DEF ParsedOf
<1> QED
  BY <1>2 DEF WellParsed, Each

LEMMA ParsedSeq == ASSUME NEW s \in Seq(Frames) PROVE WellParsed(s) \in Seq(Frames)
BY ParsedAreEach, ParsedType, EachType

LEMMA ParsedAppend ==
  ASSUME NEW s \in Seq(Frames), NEW f \in Frames
  PROVE  WellParsed(Append(s, f)) = WellParsed(s) \o Parsed(f)
<1>1. Append(s, f) \in Seq(Frames)
  BY AppendType
<1>2. Each(ParsedOf, Append(s, f)) = Each(ParsedOf, s) \o ParsedOf[f]
  BY ParsedType, EachAppend
<1> QED
  BY <1>1, <1>2, ParsedAreEach DEF ParsedOf

LEMMA ParsedHead ==
  ASSUME NEW s \in Seq(Frames), s # <<>>
  PROVE  WellParsed(s) = Parsed(Head(s)) \o WellParsed(Tail(s))
<1>1. Head(s) \in Frames /\ Tail(s) \in Seq(Frames)
  BY TailType
<1>2. Each(ParsedOf, s) = ParsedOf[Head(s)] \o Each(ParsedOf, Tail(s))
  BY ParsedType, EachHead
<1> QED
  BY <1>1, <1>2, ParsedAreEach DEF ParsedOf

(* ---- its steps ---- *)

\* A step of the query is one of its transport, or leaves it alone.
LEMMA QueryIsTransport == ASSUME [QueryNext]_allVars PROVE [Next]_vars
<1> USE DEF queryVars, callVars, Others
<1>1. CASE CliTalks \/ CliQuits \/ ReadStdout
  BY <1>1 DEF CliTalks, CliQuits, Next, CliStep
<1>2. CASE LoopStep
  BY <1>2 DEF LoopStep, LoopReceives, LoopForwards, LoopEnds, LoopDrains, LoopGone, Next
<1>3. CASE InputWakes \/ InputEnds
  BY <1>3 DEF InputWakes, InputEnds, Next
<1>4. CASE MainStep
  BY <1>4 DEF MainStep, SelectCancelled, SelectMessage, SelectClosed, SelectError, DrainEnds, SendOut, SendErr,
              SendCancelled, QueryCloses, TransportCloses, ChannelsClose, Next
<1>5. CASE Cancels \/ ConsumerStep
  BY <1>5 DEF Cancels, ConsumerStep, ConsumerTakesMessage, ConsumerTakesError, ConsumerReturns, Next
<1>6. CASE Finished \/ UNCHANGED allVars
  BY <1>6 DEF Finished, allVars
<1> QED
  BY <1>1, <1>2, <1>3, <1>4, <1>5, <1>6 DEF QueryNext

\* The steps of the CLI, of readStdout, of EndInput and of Close, which Query's goroutine
\* calls at its end.
Upstream ==
  /\ UNCHANGED <<loop, raw, qerrors, main, out, errs, ctxDone, consumer, received>>
  /\ \/ \E k \in LineKinds : CliWrites(k)
     \/ \E how \in {"clean", "failed"} : CliExits(how)
     \/ ReadStdout \/ EndInput \/ (Close /\ main.pc = "closing") \/ UNCHANGED vars

\* What the goroutine of Query does while the context is not done.
MainMoves ==
  \/ SelectMessage \/ SelectClosed \/ SelectError \/ DrainEnds \/ SendOut \/ SendErr
  \/ QueryCloses \/ ChannelsClose

LEMMA ReadTakesNothing == ASSUME ReadStdout PROVE received' = received
BY DEF ReadStdout, TakeLine, SendMessage, SendError, ScanEnds, ScanFails, WaitReturns, CloseErrors, CloseMessages,
       takenVars

LEMMA QueryKinds ==
  ASSUME [QueryNext]_allVars, ~ctxDone', ctxDone \in BOOLEAN
  PROVE  ~ctxDone /\ (Upstream \/ LoopStep \/ MainMoves \/ ConsumerStep)
<1> USE DEF queryVars, callVars, Others
<1>1. CASE (CliTalks \/ CliQuits \/ ReadStdout) /\ UNCHANGED Others
  BY <1>1, ReadTakesNothing DEF CliTalks, CliQuits, Upstream, CliWrites, CliExits, takenVars
<1>2. CASE LoopStep
  BY <1>2 DEF LoopStep, LoopReceives, LoopForwards, LoopEnds, LoopDrains, LoopGone
<1>3. CASE InputWakes \/ InputEnds
  BY <1>3 DEF InputWakes, InputEnds, Upstream, EndInput, takenVars, vars
<1>4. CASE MainStep
  <2>1. CASE SelectCancelled \/ SendCancelled
    BY <2>1 DEF SelectCancelled, SendCancelled
  <2>2. CASE TransportCloses
    BY <2>2 DEF TransportCloses, Upstream, Close, StartClose, CloseEndsInput, GraceExpires, TermExpires, CloseReaps,
                takenVars
  <2>3. CASE MainMoves
    BY <2>3 DEF MainMoves, SelectMessage, SelectClosed, SelectError, DrainEnds, SendOut, SendErr, QueryCloses, ChannelsClose
  <2> QED BY <1>4, <2>1, <2>2, <2>3 DEF MainStep, MainMoves
<1>5. CASE Cancels
  BY <1>5 DEF Cancels
<1>6. CASE ConsumerStep
  BY <1>6 DEF ConsumerStep, ConsumerTakesMessage, ConsumerTakesError, ConsumerReturns
<1>7. CASE Finished \/ UNCHANGED allVars
  BY <1>7 DEF Finished, allVars, Upstream, vars
<1> QED
  BY <1>1, <1>2, <1>3, <1>4, <1>5, <1>6, <1>7 DEF QueryNext

LEMMA QueryStarts ==
  ASSUME TransportAssumption, QueryAssumption, QueryInit
  PROVE  QueryInv /\ Told
<1>1. PipeInv /\ Whole
  BY PipeInit DEF QueryInit
<1>2. QueryTypes
  <2>1. PICK sync \in BOOLEAN : consumer = [on |-> TRUE, sync |-> sync, got |-> <<>>, failed |-> FALSE]
    BY DEF QueryInit
  <2>2. consumer \in [on : BOOLEAN, sync : BOOLEAN, got : Seq(Frames), failed : BOOLEAN]
    BY <2>1
  <2>3. raw \in Seq(Frames) /\ out \in Seq(Frames) /\ qerrors \in Seq(ErrorKinds) /\ errs \in Seq(Reports)
    BY DEF QueryInit
  <2>4. /\ main \in [pc : MainPCs, item : Frames \cup Reports \cup {NoItem}]
        /\ loop \in [pc : {"recv", "forward", "drain", "gone"}, frame : Frames \cup {NoFrame}]
        /\ main.pc = "select" /\ loop.pc = "recv" /\ ctxDone = FALSE
    BY DEF QueryInit, MainPCs
  <2> QED BY <2>2, <2>3, <2>4 DEF QueryTypes
<1>3. Ordered /\ Room
  BY DEF QueryInit, Init, Ordered, Room, Ending, Closed, Closing
<1>4. ReadUp
  BY DEF QueryInit, Init, ReadUp, Scanning, Reaped
<1>5. Conveyed
  <2>1. consumer.got = <<>> /\ out = <<>> /\ InMain = <<>> /\ raw \o InLoop = <<>> /\ received = <<>>
    BY DEF QueryInit, Init, InMain, InLoop
  <2>2. WellParsed(<<>>) = <<>>
    <3>1. <<>> \in Seq(Frames)
      OBVIOUS
    <3> QED BY <3>1, ParsedAreEach, EachEmpty
  <2> QED BY <2>1, <2>2 DEF Conveyed
<1>6. Told
  BY DEF QueryInit, Init, Told
<1> QED
  BY <1>1, <1>2, <1>3, <1>4, <1>5, <1>6 DEF QueryInv

LEMMA QueryTypesNext == ASSUME PipeTypes, QueryTypes, [QueryNext]_allVars PROVE QueryTypes'
<1> USE DEF vars, queryVars, callVars, Others
<1>m. ASSUME NEW pc \in MainPCs PROVE LET m == [main EXCEPT !.pc = pc] IN
        m.pc = pc /\ m.item = main.item /\ m \in [pc : MainPCs, item : Frames \cup Reports \cup {NoItem}]
  BY DEF QueryTypes
<1>l. ASSUME NEW pc \in {"recv", "forward", "drain", "gone"} PROVE LET l == [loop EXCEPT !.pc = pc] IN
        l.pc = pc /\ l \in [pc : {"recv", "forward", "drain", "gone"}, frame : Frames \cup {NoFrame}]
  BY DEF QueryTypes
<1>k. /\ MainPCs = {"select", "sendMessage", "sendError", "drain", "drainError", "close",
                    "closing", "closeErrs", "closeOut", "done"}
      /\ ErrorKinds \subseteq Reports /\ "ParseError" \in Reports /\ "cancelled" \in Reports
  BY DEF MainPCs, Ending, Closing, Reports
<1>1. CASE UNCHANGED <<loop, raw, qerrors, main, out, errs, ctxDone, consumer>>
  BY <1>1 DEF QueryTypes
<1>2. CASE LoopReceives
  <2>1. messages # <<>> /\ Head(messages) \in Frames
    BY <1>2, TailType DEF LoopReceives, TakeMessage, PipeTypes
  <2>2. loop' = [loop EXCEPT !.pc = "drain"] \/ loop' = [pc |-> "forward", frame |-> Head(messages)]
    BY <1>2 DEF LoopReceives
  <2>3. UNCHANGED <<raw, qerrors, main, out, errs, ctxDone, consumer>>
    BY <1>2 DEF LoopReceives
  <2> QED BY <1>l, <2>1, <2>2, <2>3 DEF QueryTypes
<1>3. CASE LoopForwards
  <2>1. raw' \in Seq(Frames)
    <3>1. raw \in Seq(Frames) /\ loop.frame \in Frames /\ (raw' = raw \/ raw' = Append(raw, loop.frame))
      BY <1>3 DEF LoopForwards, QueryTypes
    <3> QED BY <3>1, AppendType
  <2> QED BY <1>3, <2>1 DEF LoopForwards, QueryTypes
<1>4. CASE LoopEnds \/ LoopGone
  BY <1>4, <1>l DEF LoopEnds, LoopGone, QueryTypes
<1>5. CASE LoopDrains
  <2>1. qerrors' \in Seq(ErrorKinds)
    <3>1. /\ errors # <<>> /\ errors \in Seq(ErrorKinds) /\ qerrors \in Seq(ErrorKinds)
          /\ (qerrors' = qerrors \/ qerrors' = Append(qerrors, Head(errors)))
      BY <1>5 DEF LoopDrains, TakeError, QueryTypes, PipeTypes
    <3> QED BY <3>1, AppendType, TailType
  <2> QED BY <1>5, <2>1 DEF LoopDrains, QueryTypes
<1>6. CASE SelectCancelled
  <2>1. errs' \in Seq(Reports)
    <3>1. errs \in Seq(Reports) /\ (errs' = errs \/ errs' = Append(errs, "cancelled"))
      BY <1>6 DEF SelectCancelled, QueryTypes
    <3> QED BY <1>k, <3>1, AppendType
  <2>2. main' = [main EXCEPT !.pc = "close"]
    BY <1>6 DEF SelectCancelled
  <2> QED BY <1>6, <1>k, <1>m, <2>1, <2>2 DEF SelectCancelled, QueryTypes
<1>7. CASE SelectMessage
  <2>1. raw' \in Seq(Frames) /\ Head(raw) \in Frames
    BY <1>7, TailType DEF SelectMessage, QueryTypes
  <2>2. main' = [pc |-> "sendError", item |-> "ParseError"] \/ main' = [pc |-> "sendMessage", item |-> Head(raw)]
    BY <1>7 DEF SelectMessage
  <2> QED BY <1>7, <1>k, <2>1, <2>2 DEF SelectMessage, QueryTypes
<1>8. CASE SelectClosed \/ DrainEnds \/ QueryCloses \/ ChannelsClose
  <2>1. \E pc \in MainPCs \ {"sendMessage", "sendError", "drainError"} : main' = [main EXCEPT !.pc = pc]
    BY <1>8, <1>k DEF SelectClosed, DrainEnds, QueryCloses, ChannelsClose
  <2>2. UNCHANGED <<loop, raw, qerrors, out, errs, ctxDone, consumer>>
    BY <1>8 DEF SelectClosed, DrainEnds, QueryCloses, ChannelsClose
  <2> QED BY <1>m, <2>1, <2>2 DEF QueryTypes
<1>9. CASE SelectError
  <2>1. qerrors' \in Seq(ErrorKinds) /\ Head(qerrors) \in ErrorKinds
    BY <1>9, TailType DEF SelectError, QueryTypes
  <2>2. main' = [pc |-> IF main.pc = "select" THEN "sendError" ELSE "drainError", item |-> Head(qerrors)]
    BY <1>9 DEF SelectError
  <2> QED BY <1>9, <1>k, <2>1, <2>2 DEF SelectError, QueryTypes
<1>10. CASE SendOut
  <2>1. out' \in Seq(Frames)
    BY <1>10, AppendType DEF SendOut, QueryTypes
  <2> QED BY <1>10, <1>k, <2>1 DEF SendOut, QueryTypes
<1>11. CASE SendErr
  <2>1. errs' \in Seq(Reports)
    BY <1>11, AppendType DEF SendErr, QueryTypes
  <2> QED BY <1>11, <1>k, <2>1 DEF SendErr, QueryTypes
<1>12. CASE SendCancelled
  BY <1>12, <1>k DEF SendCancelled, QueryTypes
<1>13. CASE Cancels
  BY <1>13 DEF Cancels, QueryTypes
<1>14. CASE ConsumerTakesMessage
  <2>1. out' \in Seq(Frames) /\ Append(consumer.got, Head(out)) \in Seq(Frames)
    <3>1. out \in Seq(Frames) /\ out # <<>> /\ out' = Tail(out) /\ consumer.got \in Seq(Frames)
      BY <1>14 DEF ConsumerTakesMessage, QueryTypes
    <3> QED BY <3>1, AppendType, TailType
  <2>2. consumer' = [consumer EXCEPT !.got = Append(consumer.got, Head(out))]
    BY <1>14 DEF ConsumerTakesMessage, QueryTypes
  <2>3. consumer' \in [on : BOOLEAN, sync : BOOLEAN, got : Seq(Frames), failed : BOOLEAN]
    BY <2>1, <2>2 DEF QueryTypes
  <2> QED BY <1>14, <2>1, <2>3 DEF ConsumerTakesMessage, QueryTypes
<1>15. CASE ConsumerTakesError
  <2>1. errs' \in Seq(Reports)
    BY <1>15, TailType DEF ConsumerTakesError, QueryTypes
  <2>2. consumer' \in [on : BOOLEAN, sync : BOOLEAN, got : Seq(Frames), failed : BOOLEAN]
    BY <1>15 DEF ConsumerTakesError, QueryTypes
  <2> QED BY <1>15, <2>1, <2>2 DEF ConsumerTakesError, QueryTypes
<1>16. CASE ConsumerReturns
  <2>1. consumer' \in [on : BOOLEAN, sync : BOOLEAN, got : Seq(Frames), failed : BOOLEAN]
    BY <1>16 DEF ConsumerReturns, QueryTypes
  <2> QED BY <1>16, <2>1 DEF ConsumerReturns, QueryTypes
<1>17. CASE ((CliTalks \/ CliQuits \/ ReadStdout) /\ UNCHANGED Others) \/ InputWakes \/ InputEnds
             \/ TransportCloses \/ Finished \/ UNCHANGED allVars
  BY <1>1, <1>17 DEF InputWakes, InputEnds, TransportCloses, Finished, allVars
<1> QED
  BY <1>2, <1>3, <1>4, <1>5, <1>6, <1>7, <1>8, <1>9, <1>10, <1>11, <1>12, <1>13, <1>14, <1>15, <1>16, <1>17
  DEF QueryNext, LoopStep, MainStep, ConsumerStep

\* Once the scan is over only errors and frames are taken from the transport.
LEMMA GoneEffect ==
  ASSUME PipeTypes, Upstream, reader.pc = "gone"
  PROVE  UNCHANGED <<reader, messages, errors, scanned>>
<1> USE DEF procVars, pipeVars, readerVars, chanVars, takenVars, writeVars, vars
<1>1. ~ReadStdout
  BY DEF ReadStdout, TakeLine, SendMessage, SendError, ScanEnds, ScanFails, WaitReturns, CloseErrors, CloseMessages
<1> QED
  BY <1>1 DEF Upstream, CliWrites, CliExits, EndInput, CloseStdin, Close, StartClose, CloseEndsInput, GraceExpires,
              TermExpires, CloseReaps

LEMMA ClosesEffect == ASSUME Upstream, Closed' PROVE Closed \/ main.pc = "closing"
BY DEF Upstream, CliWrites, CliExits, EndInput, ReadStdout, TakeLine, SendMessage, SendError, ScanEnds, ScanFails,
       WaitReturns, CloseErrors, CloseMessages, vars, Closed

LEMMA OrderedNext ==
  ASSUME PipeTypes, QueryTypes, Ordered, [QueryNext]_allVars
  PROVE  Ordered'
<1> USE DEF vars, queryVars, callVars, Others
<1> SUFFICES ASSUME ~ctxDone' PROVE Ordered'
  BY DEF Ordered
<1>1. ~ctxDone /\ (Upstream \/ LoopStep \/ MainMoves \/ ConsumerStep)
  BY QueryKinds DEF QueryTypes
<1>2. /\ loop.pc \in {"drain", "gone"} => reader.pc = "gone" /\ messages = <<>>
      /\ loop.pc = "gone" => errors = <<>>
      /\ main.pc \in Ending => loop.pc = "gone" /\ raw = <<>>
      /\ main.pc \in Ending \ {"drain", "drainError"} => qerrors = <<>>
      /\ Closed => main.pc \in Closing
      /\ ~consumer.on => main.pc = "done" /\ out = <<>> /\ (~consumer.sync => errs = <<>>)
  BY <1>1 DEF Ordered
<1>3. Closing \subseteq Ending \ {"drain", "drainError"}
  BY DEF Ending, Closing
<1>4. CASE Upstream
  <2>1. UNCHANGED <<loop, raw, qerrors, main, out, errs, ctxDone, consumer>>
    BY <1>4 DEF Upstream
  <2>2. loop.pc \in {"drain", "gone"} => UNCHANGED <<reader, messages, errors>>
    BY <1>2, <1>4, GoneEffect
  <2>3. Closed' => Closed \/ main.pc = "closing"
    BY <1>4, ClosesEffect
  <2> QED BY <1>2, <2>1, <2>2, <2>3 DEF Ordered, Closing
<1>5. CASE LoopStep
  <2>1. UNCHANGED <<main, out, errs, consumer, reader, closer>> /\ loop.pc # "gone" /\ main.pc \notin Ending
    <3>1. UNCHANGED <<main, out, errs, consumer, reader, closer>> /\ loop.pc # "gone"
      BY <1>5 DEF LoopStep, LoopReceives, LoopForwards, LoopEnds, LoopDrains, LoopGone, TakeMessage, TakeError, readerVars
    <3> QED BY <1>2, <3>1
  <2>2. consumer.on /\ ~Closed /\ ~Closed'
    BY <1>2, <1>3, <2>1 DEF Closed, Closing, Ending
  <2>3. ~QClosed
    BY <2>1 DEF QClosed, Ending, Closing
  <2>4. loop' \in [pc : {"recv", "forward", "drain", "gone"}, frame : Frames \cup {NoFrame}]
    BY QueryTypesNext DEF QueryTypes
  <2>5. loop'.pc \in {"drain", "gone"} => reader.pc = "gone" /\ messages' = <<>>
    <3>1. CASE LoopReceives \/ LoopForwards
      BY <2>3, <3>1 DEF LoopReceives, LoopForwards
    <3>2. CASE LoopEnds
      BY <3>2 DEF LoopEnds, MessagesClosed
    <3>3. CASE LoopDrains \/ LoopGone
      BY <1>2, <3>3 DEF LoopDrains, LoopGone, TakeError
    <3> QED BY <1>5, <3>1, <3>2, <3>3 DEF LoopStep
  <2>6. loop'.pc = "gone" => errors' = <<>>
    <3>1. CASE LoopReceives \/ LoopForwards
      BY <2>3, <3>1 DEF LoopReceives, LoopForwards
    <3>2. CASE LoopEnds
      BY <3>2 DEF LoopEnds, QueryTypes
    <3>3. CASE LoopDrains
      BY <3>3 DEF LoopDrains
    <3>4. CASE LoopGone
      BY <3>4 DEF LoopGone
    <3> QED BY <1>5, <3>1, <3>2, <3>3, <3>4 DEF LoopStep
  <2> QED BY <2>1, <2>2, <2>5, <2>6 DEF Ordered
<1>6. CASE MainMoves
  <2>1. UNCHANGED <<loop, consumer, reader, messages, errors, closer>> /\ main.pc # "done"
    BY <1>6 DEF MainMoves, SelectMessage, SelectClosed, SelectError, DrainEnds, SendOut, SendErr, QueryCloses, ChannelsClose
  <2>2. consumer.on
    BY <1>2, <2>1
  <2>3. /\ main'.pc \in Ending => loop.pc = "gone" /\ raw' = <<>>
        /\ main'.pc \in Ending \ {"drain", "drainError"} => qerrors' = <<>>
        /\ Closed => main'.pc \in Closing
    <3> USE DEF Ending, Closing
    <3>1. CASE SelectMessage
      BY <1>2, <3>1 DEF SelectMessage
    <3>2. CASE SelectClosed
      BY <1>2, <3>2 DEF SelectClosed, RawClosed, QueryTypes
    <3>3. CASE SelectError
      BY <1>2, <3>3 DEF SelectError
    <3>4. CASE DrainEnds
      BY <1>2, <3>4 DEF DrainEnds, QueryTypes
    <3>5. CASE SendOut \/ SendErr
      BY <1>2, <3>5 DEF SendOut, SendErr
    <3>6. CASE QueryCloses
      BY <1>2, <3>6 DEF QueryCloses, QueryTypes
    <3>7. CASE ChannelsClose
      BY <1>2, <3>7 DEF ChannelsClose, QueryTypes
    <3> QED BY <1>6, <3>1, <3>2, <3>3, <3>4, <3>5, <3>6, <3>7 DEF MainMoves
  <2>4. Closed' <=> Closed
    BY <2>1 DEF Closed
  <2> QED BY <1>2, <2>1, <2>2, <2>3, <2>4 DEF Ordered
<1>7. CASE ConsumerStep
  <2>1. UNCHANGED <<loop, raw, qerrors, main, reader, messages, errors, closer>>
    BY <1>7 DEF ConsumerStep, ConsumerTakesMessage, ConsumerTakesError, ConsumerReturns
  <2>2. ~consumer'.on => main.pc = "done" /\ out' = <<>> /\ (~consumer'.sync => errs' = <<>>)
    <3>1. CASE ConsumerTakesMessage \/ ConsumerTakesError
      BY <3>1 DEF ConsumerTakesMessage, ConsumerTakesError, QueryTypes
    <3>2. CASE ConsumerReturns
      BY <1>1, <3>2 DEF ConsumerReturns, QueryTypes, OutClosed
    <3> QED BY <1>7, <3>1, <3>2 DEF ConsumerStep
  <2> QED BY <1>2, <2>1, <2>2 DEF Ordered, Closed
<1> QED
  BY <1>1, <1>4, <1>5, <1>6, <1>7

LEMMA RoomNext ==
  ASSUME TransportAssumption, QueryAssumption, PipeTypes, QueryTypes, Ordered, Room, [QueryNext]_allVars
  PROVE  Room'
<1> USE DEF vars, queryVars, callVars, Others
<1> SUFFICES ASSUME ~ctxDone' PROVE Room'
  BY DEF Room
<1>1. ~ctxDone /\ (Upstream \/ LoopStep \/ MainMoves \/ ConsumerStep)
  BY QueryKinds DEF QueryTypes
<1>2. /\ loop.pc \in {"recv", "forward"} => qerrors = <<>>
      /\ loop.pc = "drain" => Len(qerrors) + Len(errors) <= ErrorsCap
  BY <1>1 DEF Room
<1>3. /\ errors \in Seq(ErrorKinds) /\ Len(errors) <= ErrorsCap /\ qerrors \in Seq(ErrorKinds)
      /\ Len(errors) \in Nat /\ Len(qerrors) \in Nat /\ ErrorsCap \in Nat
  BY DEF PipeTypes, QueryTypes, TransportAssumption
<1>4. CASE Upstream
  <2>1. UNCHANGED <<loop, qerrors>> /\ (loop.pc = "drain" => errors' = errors)
    BY <1>1, <1>4, GoneEffect DEF Upstream, Ordered
  <2> QED BY <1>2, <2>1 DEF Room
<1>5. CASE LoopStep
  <2>1. CASE LoopReceives \/ LoopForwards \/ LoopEnds \/ LoopGone
    <3>1. qerrors' = qerrors /\ errors' = errors /\ loop.pc # "gone"
          /\ loop'.pc \in {"recv", "forward", "drain", "gone"} /\ (loop.pc = "drain" => loop'.pc = "gone")
          /\ (loop'.pc # "gone" => loop.pc \in {"recv", "forward"})
      BY <2>1, SMTT(60) DEF LoopReceives, LoopForwards, LoopEnds, LoopGone, TakeMessage, QueryTypes
    <3>2. loop'.pc # "gone" => qerrors' = <<>> /\ Len(qerrors') = 0
      BY <1>2, <3>1
    <3> QED BY <1>3, <3>1, <3>2 DEF Room
  <2>2. CASE LoopDrains
    <3>1. /\ loop.pc = "drain" /\ loop' = loop /\ errors # <<>> /\ errors' = Tail(errors)
          /\ qerrors' = qerrors \/ qerrors' = Append(qerrors, Head(errors))
      BY <2>2 DEF LoopDrains, TakeError
    <3>2. Len(errors') = Len(errors) - 1 /\ Head(errors) \in ErrorKinds
      BY <1>3, <3>1, TailType
    <3>3. qerrors' = qerrors \/ Len(qerrors') = Len(qerrors) + 1
      BY <1>3, <3>1, <3>2, AppendType
    <3> QED BY <1>2, <1>3, <3>1, <3>2, <3>3 DEF Room
  <2> QED BY <1>5, <2>1, <2>2 DEF LoopStep
<1>6. CASE MainMoves
  <2>1. loop' = loop /\ errors' = errors
    BY <1>6 DEF MainMoves, SelectMessage, SelectClosed, SelectError, DrainEnds, SendOut, SendErr, QueryCloses, ChannelsClose
  <2>2. qerrors' = qerrors \/ (qerrors # <<>> /\ qerrors' = Tail(qerrors))
    BY <1>6 DEF MainMoves, SelectMessage, SelectClosed, SelectError, DrainEnds, SendOut, SendErr, QueryCloses, ChannelsClose
  <2>3. CASE qerrors' = qerrors
    BY <1>2, <2>1, <2>3 DEF Room
  <2>4. CASE qerrors # <<>> /\ qerrors' = Tail(qerrors)
    <3>1. Len(qerrors') = Len(qerrors) - 1
      BY <1>3, <2>4, TailType
    <3> QED BY <1>2, <1>3, <2>1, <2>4, <3>1 DEF Room
  <2> QED BY <2>2, <2>3, <2>4
<1>7. CASE ConsumerStep
  BY <1>2, <1>7 DEF ConsumerStep, ConsumerTakesMessage, ConsumerTakesError, ConsumerReturns, Room
<1> QED
  BY <1>1, <1>4, <1>5, <1>6, <1>7

\* Until the caller cancels, the transport is closed after the scan.
LEMMA NotClosed ==
  ASSUME Ordered, ~ctxDone, reader.pc # "gone"
  PROVE  ~Closed /\ loop.pc \notin {"drain", "gone"} /\ main.pc \notin Ending
BY DEF Ordered, Ending, Closing

LEMMA ReadUpNext ==
  ASSUME TransportAssumption, PipeTypes, QueryTypes, Ordered, ReadUp, [QueryNext]_allVars
  PROVE  ReadUp'
<1>1. [Next]_vars
  BY QueryIsTransport
<1>2. scanned \in Seq(Lines) /\ stdout \in Seq(Lines) /\ Len(scanned) \in Nat /\ Len(stdout) \in Nat /\ written \in Nat
  BY DEF PipeTypes, TransportAssumption
<1>3. ctxDone' /\ Len(scanned') + Len(stdout') = written' => ReadUp'
  BY DEF ReadUp
<1>4. ~ctxDone' => ~ctxDone
  BY QueryKinds DEF QueryTypes
<1>5. CASE UNCHANGED <<scanned, stdout, written, reader, reaped, proc>>
  BY <1>4, <1>5 DEF ReadUp, HasLong, Exited
<1>6. ASSUME NEW k \in LineKinds, CliWrites(k) PROVE ReadUp'
  <2>1. /\ UNCHANGED <<scanned, reader, reaped, proc>> /\ ~Exited
        /\ stdout' = Append(stdout, [kind |-> k, id |-> written + 1]) /\ written' = written + 1
    BY <1>6 DEF CliWrites, procVars, readerVars
  <2>2. Len(stdout') = Len(stdout) + 1
    <3>1. k \in AllKinds /\ written + 1 \in 1..MaxLines
      BY <1>6 DEF CliWrites, TransportAssumption, PipeTypes
    <3>2. [kind |-> k, id |-> written + 1] \in Lines
      BY <3>1 DEF Lines
    <3> QED BY <1>2, <2>1, <3>2, AppendType
  <2>3. Len(scanned') + Len(stdout') = written'
    BY <1>2, <2>1, <2>2 DEF ReadUp
  <2>4. (HasLong' <=> HasLong) /\ ~Exited'
    BY <2>1 DEF HasLong, Exited
  <2> QED BY <1>4, <2>1, <2>3, <2>4 DEF ReadUp, Reaped
<1>7. CASE TakeLine
  <2>1. /\ stdout # <<>> /\ stdout' = Tail(stdout) /\ scanned' = Append(scanned, Head(stdout))
        /\ Head(stdout) \in Lines /\ reader.pc = "scan" /\ reader'.pc \in {"scan", "send", "overflow", "tooLong"}
        /\ reader'.pc = "tooLong" => TooLong(Head(stdout))
        /\ UNCHANGED <<proc, reaped, written>>
    BY <1>7, TakeLineTypes
  <2>2. Len(scanned') = Len(scanned) + 1 /\ Len(stdout') = Len(stdout) - 1 /\ scanned'[Len(scanned) + 1] = Head(stdout)
    <3>1. Len(stdout') = Len(stdout) - 1
      BY <1>2, <2>1, TailType
    <3> QED BY <1>2, <2>1, <3>1, AppendProperties
  <2>3. TooLong(Head(stdout)) => HasLong'
    <3>1. Len(scanned) + 1 \in 1..Len(scanned')
      BY <1>2, <2>2
    <3> QED BY <2>2, <3>1 DEF HasLong
  <2>4. Len(scanned') + Len(stdout') = written'
    <3>1. /\ written' = written /\ Len(scanned) + Len(stdout) = written
          /\ Len(scanned') = Len(scanned) + 1 /\ Len(stdout') = Len(stdout) - 1
      BY <2>1, <2>2 DEF ReadUp
    <3> QED BY ONLY <1>2, <3>1
  <2> QED BY <1>4, <2>1, <2>3, <2>4 DEF ReadUp, Scanning, Reaped
<1>8. CASE SendMessage
  <2>1. UNCHANGED <<scanned, stdout, written, reaped, proc>> /\ reader.pc = "send" /\ reader'.pc = "scan"
    BY <1>8 DEF SendMessage, procVars, pipeVars
  <2> QED BY <1>4, <2>1 DEF ReadUp, Scanning, Reaped, HasLong, Exited
<1>9. CASE ErrorSends
  <2>1. UNCHANGED <<scanned, stdout, written, reaped, proc>>
    BY <1>9, ErrorSendsEffect
  <2>2. /\ reader'.pc \in {"scan", "wait", "closeErrors"}
        /\ reader'.pc = "wait" => reader.pc \in {"tooLong", "scanError"}
        /\ reader'.pc = "closeErrors" => reader.pc = "exitError"
        /\ reader'.pc = "scan" => reader.pc = "overflow"
    <3>1. reader'.pc = "scan" => reader.pc = "overflow"
      BY <1>9 DEF ErrorSends, SendError, PipeTypes
    <3> QED BY <1>9, <3>1, ErrorSendsEffect
  <2> QED BY <1>4, <2>1, <2>2 DEF ReadUp, Scanning, Reaped, HasLong, Exited
<1>10. CASE ReaderGoesOn
  <2>1. UNCHANGED <<scanned, stdout, written, proc>>
    BY <1>10, GoesOnEffect
  <2>2. HasLong' <=> HasLong
    BY <2>1 DEF HasLong
  <2>3. \/ reader.pc = "scan" /\ reader'.pc = "wait" /\ Exited /\ stdout = <<>> /\ reaped' = reaped
        \/ reader.pc = "scan" /\ reader'.pc = "scanError" /\ reaped /\ reaped' = reaped
        \/ reader.pc = "wait" /\ Exited /\ reader'.pc \in {"exitError", "closeErrors"}
        \/ reader.pc = "closeErrors" /\ reader'.pc = "closeMessages" /\ reaped' = reaped
        \/ reader.pc = "closeMessages" /\ reader'.pc = "gone" /\ reaped' = reaped
    BY <1>10, GoesOnEffect
  <2> QED BY <1>4, <2>1, <2>2, <2>3 DEF ReadUp, Scanning, Reaped, Exited
<1>11. CASE TakeMessage \/ UNCHANGED vars
  BY <1>5, <1>11 DEF TakeMessage, procVars, pipeVars, readerVars, vars
<1>12. CASE Aside
  <2>1. UNCHANGED <<written, stdout, reader, scanned>>
        /\ (proc' = proc \/ (proc = "running" /\ proc' \in {"clean", "failed"}))
    BY <1>12, AsideEffect
  <2>2. Exited => Exited'
    BY <2>1 DEF Exited
  <2>3. reaped' = reaped \/ Closed
    BY <1>12 DEF Aside, CliReads, CliExits, ContextDone, WriteStep, StartWrite, FinishWrite, EndInput, CloseStdin,
         Close, StartClose, CloseEndsInput, GraceExpires, TermExpires, CloseReaps, TakeError, Closed,
         procVars, pipeVars, readerVars, chanVars, takenVars, writeVars
  <2>4. ~ctxDone' /\ reader.pc \in Scanning \cup {"wait"} => reaped' = reaped
    BY <1>4, <2>3, NotClosed DEF Scanning
  <2> QED BY <1>4, <2>1, <2>2, <2>4 DEF ReadUp, HasLong
<1> QED
  BY <1>1, <1>6, <1>7, <1>8, <1>9, <1>10, <1>11, <1>12, StepKinds

\* The frames move on; none is dropped while the caller does not cancel.
LEMMA ConveyedNext ==
  ASSUME PipeTypes, QueryTypes, Ordered, Conveyed, [QueryNext]_allVars
  PROVE  Conveyed'
<1> USE DEF vars, queryVars, callVars, Others
<1> SUFFICES ASSUME ~ctxDone' PROVE Conveyed'
  BY DEF Conveyed
<1>1. ~ctxDone /\ (Upstream \/ LoopStep \/ MainMoves \/ ConsumerStep)
  BY QueryKinds DEF QueryTypes
<1> DEFINE g == consumer.got
           w == WellParsed(raw \o InLoop)
<1>2. ((g \o out) \o InMain) \o w = WellParsed(received)
  BY <1>1 DEF Conveyed
<1>3. /\ g \in Seq(Frames) /\ out \in Seq(Frames) /\ InMain \in Seq(Frames) /\ raw \in Seq(Frames)
      /\ InLoop \in Seq(Frames) /\ raw \o InLoop \in Seq(Frames) /\ received \in Seq(Frames)
      /\ g \o out \in Seq(Frames)
  <2>1. /\ g \in Seq(Frames) /\ out \in Seq(Frames) /\ InMain \in Seq(Frames) /\ raw \in Seq(Frames)
        /\ InLoop \in Seq(Frames) /\ received \in Seq(Frames)
    BY DEF QueryTypes, PipeTypes, InMain, InLoop
  <2> QED BY <2>1, ConcatType
<1>4. w \in Seq(Frames)
  BY <1>3, ParsedSeq
<1> HIDE DEF g
<1>5. CASE UNCHANGED <<consumer, out, main, raw, loop, received>>
  BY <1>2, <1>5 DEF Conveyed, InMain, InLoop, g
<1>6. CASE LoopReceives
  <2>1. /\ loop.pc = "recv" /\ messages # <<>> /\ received' = Append(received, Head(messages))
        /\ UNCHANGED <<consumer, out, main, raw>> /\ messages \in Seq(Frames)
    BY <1>6 DEF LoopReceives, TakeMessage, PipeTypes
  <2>2. loop' = [pc |-> "forward", frame |-> Head(messages)]
    <3>1. ~QClosed
      BY <1>1, <2>1 DEF QClosed, Ordered, Ending, Closing
    <3> QED BY <1>6, <3>1 DEF LoopReceives
  <2>3. Head(messages) \in Frames
    BY <2>1, TailType
  <2>4. raw \o InLoop = raw /\ (raw \o InLoop)' = Append(raw, Head(messages))
    BY <1>3, <2>1, <2>2 DEF InLoop
  <2>5. w' = w \o Parsed(Head(messages)) /\ WellParsed(received') = WellParsed(received) \o Parsed(Head(messages))
    BY <1>3, <2>1, <2>3, <2>4, ParsedAppend
  <2>6. Parsed(Head(messages)) \in Seq(Frames) /\ (g \o out) \o InMain \in Seq(Frames)
    BY <1>3, <2>3, ConcatType DEF Parsed
  <2>7. ((g \o out) \o InMain) \o w' = WellParsed(received')
    <3> DEFINE p == (g \o out) \o InMain
               m == Parsed(Head(messages))
               r == WellParsed(received)
               v == WellParsed(raw \o InLoop)
    <3>1. p \in Seq(Frames) /\ m \in Seq(Frames) /\ v \in Seq(Frames)
      BY <1>4, <2>6
    <3>4. p \o v = r
      BY <1>2
    <3>2. w' = v \o m /\ WellParsed(received') = r \o m
      BY <2>5
    <3>3. p \o (v \o m) = r \o m
      <4> HIDE DEF p, m, r, v
      <4>1. (p \o v) \o m = p \o (v \o m)
        BY ONLY <3>1, ConcatAssoc
      <4> QED BY ONLY <3>4, <4>1, Zenon
    <3> QED BY <3>2, <3>3
  <2>8. g' = g /\ InMain' = InMain /\ out' = out
    BY <2>1 DEF g, InMain
  <2> QED BY <2>7, <2>8 DEF Conveyed, g
<1>7. CASE LoopForwards
  <2>1. /\ loop.pc = "forward" /\ loop' = [pc |-> "recv", frame |-> NoFrame] /\ loop.frame \in Frames
        /\ UNCHANGED <<consumer, out, main, received>>
    BY <1>7 DEF LoopForwards, QueryTypes
  <2>2. raw' = Append(raw, loop.frame)
    <3>1. ~QClosed
      BY <1>1, <2>1 DEF QClosed, Ordered, Ending, Closing
    <3> QED BY <1>7, <3>1 DEF LoopForwards
  <2>3. (raw \o InLoop)' = raw \o InLoop
    BY <1>3, <2>1, <2>2 DEF InLoop
  <2> QED BY <1>2, <2>1, <2>3 DEF Conveyed, InMain, g
<1>8. CASE LoopEnds \/ LoopDrains \/ LoopGone
  <2>1. UNCHANGED <<consumer, out, main, raw, received>> /\ loop.pc # "forward" /\ loop'.pc # "forward"
    BY <1>8 DEF LoopEnds, LoopDrains, LoopGone, TakeError, QueryTypes
  <2> QED BY <1>2, <2>1 DEF Conveyed, InMain, InLoop, g
<1>9. CASE SelectMessage
  <2>1. /\ main.pc = "select" /\ raw # <<>> /\ raw' = Tail(raw) /\ UNCHANGED <<consumer, out, loop, received>>
        /\ main' = IF Head(raw).kind = "malformed" THEN [pc |-> "sendError", item |-> "ParseError"]
                   ELSE [pc |-> "sendMessage", item |-> Head(raw)]
    BY <1>9 DEF SelectMessage
  <2>2. InMain = <<>> /\ InMain' = Parsed(Head(raw))
    BY <2>1 DEF InMain, Parsed
  <2>3. /\ raw \o InLoop # <<>> /\ Head(raw \o InLoop) = Head(raw) /\ Tail(raw \o InLoop) = Tail(raw) \o InLoop
    BY <1>3, <2>1, HeadOfConcat
  <2>4. w = Parsed(Head(raw)) \o w'
    BY <1>3, <2>1, <2>3, ParsedHead DEF InLoop
  <2>5. Head(raw) \in Frames /\ Tail(raw) \in Seq(Frames)
    BY <1>3, <2>1, TailType
  <2>6. w' = WellParsed(Tail(raw) \o InLoop)
    BY <2>1 DEF InLoop
  <2>7. WellParsed(Tail(raw) \o InLoop) \in Seq(Frames) /\ Parsed(Head(raw)) \in Seq(Frames)
    <3>1. Tail(raw) \o InLoop \in Seq(Frames)
      BY <1>3, <2>5, ConcatType
    <3>2. WellParsed(Tail(raw) \o InLoop) \in Seq(Frames)
      BY <3>1, ParsedSeq
    <3> QED BY <2>5, <3>2 DEF Parsed
  <2>8. ((g \o out) \o Parsed(Head(raw))) \o WellParsed(Tail(raw) \o InLoop) = WellParsed(received)
    <3> DEFINE p == g \o out
               m == Parsed(Head(raw))
               r == WellParsed(received)
               v == WellParsed(Tail(raw) \o InLoop)
    <3>1. (g \o out) \o InMain = p
      BY <1>3, <2>2
    <3>2. p \in Seq(Frames) /\ m \in Seq(Frames) /\ v \in Seq(Frames)
      BY <1>3, <2>7
    <3>3. p \o (m \o v) = r
      BY <1>2, <2>4, <2>6, <3>1
    <3>4. (p \o m) \o v = r
      <4> HIDE DEF p, m, r, v
      <4>1. (p \o m) \o v = p \o (m \o v)
        BY ONLY <3>2, ConcatAssoc, SMTT(60)
      <4> QED BY ONLY <3>3, <4>1, Zenon
    <3> QED BY <3>4
  <2> QED BY <2>1, <2>2, <2>6, <2>8 DEF Conveyed, g
<1>10. CASE SelectClosed \/ SelectError \/ DrainEnds \/ SendErr \/ QueryCloses \/ ChannelsClose
  <2>1. UNCHANGED <<consumer, out, loop, raw, received>> /\ main.pc # "sendMessage" /\ main'.pc # "sendMessage"
    BY <1>10 DEF SelectClosed, SelectError, DrainEnds, SendErr, QueryCloses, ChannelsClose, QueryTypes
  <2> QED BY <1>2, <2>1 DEF Conveyed, InMain, InLoop, g
<1>11. CASE SendOut
  <2>1. /\ main.pc = "sendMessage" /\ main.item \in Frames /\ out' = Append(out, main.item) /\ main'.pc = "select"
        /\ UNCHANGED <<consumer, loop, raw, received>>
    BY <1>11 DEF SendOut, QueryTypes
  <2>2. InMain = <<main.item>> /\ InMain' = <<>>
    BY <2>1 DEF InMain
  <2>3. (g \o out') \o <<>> = (g \o out) \o <<main.item>>
    <3>1. out' = out \o <<main.item>> /\ out' \in Seq(Frames) /\ <<main.item>> \in Seq(Frames)
      BY <1>3, <2>1
    <3>2. g \o out' = (g \o out) \o <<main.item>>
      BY <1>3, <3>1, ConcatAssoc, SMTT(60)
    <3>3. (g \o out') \o <<>> = g \o out'
      BY <1>3, <3>1
    <3> QED BY <3>2, <3>3
  <2> QED BY <1>2, <2>1, <2>2, <2>3 DEF Conveyed, InLoop, g
<1>12. CASE ConsumerTakesMessage
  <2>1. /\ out # <<>> /\ out' = Tail(out) /\ UNCHANGED <<main, loop, raw, received>>
        /\ consumer'.got = Append(g, Head(out))
    BY <1>12 DEF ConsumerTakesMessage, QueryTypes, g
  <2>2. Append(g, Head(out)) \o Tail(out) = g \o out
    BY <1>3, <2>1, HeadMoves
  <2> QED BY <1>2, <2>1, <2>2 DEF Conveyed, InLoop, InMain
<1>13. CASE ConsumerTakesError \/ ConsumerReturns
  <2>1. consumer'.got = consumer.got /\ UNCHANGED <<main, out, loop, raw, received>>
    BY <1>13 DEF ConsumerTakesError, ConsumerReturns, QueryTypes
  <2> QED BY <1>2, <2>1 DEF Conveyed, InLoop, InMain, g
<1>14. CASE Upstream
  BY <1>5, <1>14 DEF Upstream
<1> QED
  BY <1>1, <1>6, <1>7, <1>8, <1>9, <1>10, <1>11, <1>12, <1>13, <1>14 DEF LoopStep, MainMoves, ConsumerStep

LEMMA TellsAppend ==
  ASSUME NEW S, NEW s \in Seq(S), NEW x \in S
  PROVE  Tells(Append(s, x)) <=> Tells(s) \/ x = "ProcessError"
<1>1. /\ Len(s) \in Nat /\ Len(Append(s, x)) = Len(s) + 1 /\ Append(s, x)[Len(s) + 1] = x
      /\ \A i \in 1..Len(s) : Append(s, x)[i] = s[i]
  BY AppendProperties
<1>2. \A i \in 1..(Len(s) + 1) : i \in 1..Len(s) \/ i = Len(s) + 1
  BY <1>1
<1>3. \A i \in 1..Len(s) : i \in 1..(Len(s) + 1)
  BY <1>1
<1>4. Len(s) + 1 \in 1..(Len(s) + 1)
  BY <1>1
<1> QED
  BY <1>1, <1>2, <1>3, <1>4 DEF Tells

LEMMA TellsTail ==
  ASSUME NEW S, NEW s \in Seq(S), s # <<>>
  PROVE  Tells(s) => Head(s) = "ProcessError" \/ Tells(Tail(s))
<1> SUFFICES ASSUME NEW i \in 1..Len(s), s[i] = "ProcessError" PROVE Head(s) = "ProcessError" \/ Tells(Tail(s))
  BY DEF Tells
<1>1. Len(s) \in Nat /\ Len(Tail(s)) = Len(s) - 1 /\ Head(s) = s[1]
  BY TailType
<1>2. CASE i = 1
  BY <1>1, <1>2
<1>3. CASE i # 1
  <2>1. i - 1 \in 1..Len(Tail(s))
    BY <1>1, <1>3
  <2>2. Tail(s)[i - 1] = s[i]
    BY <1>1, <1>3, <2>1
  <2> QED BY <2>1, <2>2 DEF Tells
<1> QED
  BY <1>2, <1>3

\* When the channel of errors is about to be closed, the exit of the process was reported.
Late == {"closeErrors", "closeMessages", "gone"}

LEMMA ReaderReports ==
  ASSUME PipeTypes, Ordered, ReadUp, ~ctxDone, Upstream
  PROVE  /\ proc' = "failed" /\ reader'.pc \in Late =>
              (proc = "failed" /\ reader.pc \in Late) \/ errors' = Append(errors, "ProcessError")
         /\ errors' = errors \/ \E err \in ErrorKinds : errors' = Append(errors, err)
<1> USE DEF procVars, pipeVars, readerVars, chanVars, takenVars, writeVars, Late
<1>1. CASE TakeLine
  BY <1>1, TakeLineTypes
<1>2. CASE SendMessage
  BY <1>2 DEF SendMessage
<1>3. CASE ErrorSends
  <2>1. reader'.pc \in Late => reader.pc = "exitError" /\ (errors' = Append(errors, "ProcessError") \/ Closed)
    BY <1>3, ErrorSendsEffect
  <2>2. reader.pc # "gone" /\ (Closed => reader.pc = "gone")
    <3>1. reader.pc # "gone"
      BY <1>3 DEF ErrorSends, SendError
    <3> QED BY <3>1, NotClosed
  <2>3. errors' = errors \/ \E err \in ErrorKinds : errors' = Append(errors, err)
    BY <1>3, ErrorSendsEffect
  <2> QED BY <2>1, <2>2, <2>3
<1>4. CASE ReaderGoesOn
  BY <1>4, GoesOnEffect
<1>5. CASE \E k \in LineKinds : CliWrites(k)
  BY <1>5 DEF CliWrites
<1>6. CASE \E how \in {"clean", "failed"} : CliExits(how)
  <2>1. UNCHANGED <<reader, errors>> /\ ~Exited
    BY <1>6 DEF CliExits
  <2>2. reader.pc \in Late => Exited
    BY DEF ReadUp, Reaped
  <2> QED BY <2>1, <2>2
<1>7. CASE EndInput \/ Close
  BY <1>7 DEF EndInput, Close, StartClose, CloseEndsInput, GraceExpires, TermExpires, CloseReaps
<1>8. CASE UNCHANGED vars
  BY <1>8 DEF vars
<1> QED
  BY <1>1, <1>2, <1>3, <1>4, <1>5, <1>6, <1>7, <1>8 DEF Upstream, ReadStdout, ErrorSends, ReaderGoesOn

\* The failure is handed on, from channel to channel, until the caller has it.
LEMMA ToldNext ==
  ASSUME TransportAssumption, QueryAssumption, ErrorsCap <= QErrorsCap,
         PipeTypes, QueryTypes, Ordered, Room, ReadUp, Told, [QueryNext]_allVars
  PROVE  Told'
<1> USE DEF vars, queryVars, callVars, Others
<1> SUFFICES ASSUME ~ctxDone', proc' = "failed", reader'.pc \in Late
             PROVE  (consumer.failed \/ Tells(errors) \/ Tells(qerrors) \/ Tells(errs) \/ TellsMain)'
  BY DEF Told, Late
<1>1. ~ctxDone /\ (Upstream \/ LoopStep \/ MainMoves \/ ConsumerStep)
  BY QueryKinds DEF QueryTypes
<1>2. /\ errors \in Seq(ErrorKinds) /\ qerrors \in Seq(ErrorKinds) /\ errs \in Seq(Reports)
      /\ "ProcessError" \in ErrorKinds
  BY DEF PipeTypes, QueryTypes, ErrorKinds
<1>3. proc = "failed" /\ reader.pc \in Late =>
        consumer.failed \/ Tells(errors) \/ Tells(qerrors) \/ Tells(errs) \/ TellsMain
  BY <1>1 DEF Told, Late
<1>4. CASE Upstream
  <2>1. UNCHANGED <<consumer, qerrors, errs, main>>
    BY <1>4 DEF Upstream
  <2>2. CASE errors' = Append(errors, "ProcessError")
    <3>1. Tells(errors')
      BY <1>2, <2>2, TellsAppend
    <3> QED BY <3>1 DEF Tells
  <2>3. CASE proc = "failed" /\ reader.pc \in Late
    <3>1. errors' = errors \/ \E err \in ErrorKinds : errors' = Append(errors, err)
      BY <1>1, <1>4, ReaderReports
    <3>2. Tells(errors) => Tells(errors')
      BY <1>2, <3>1, TellsAppend, ZenonT(60)
    <3> QED BY <1>3, <2>1, <2>3, <3>2 DEF Tells, TellsMain
  <2> QED BY <1>1, <1>4, <2>2, <2>3, ReaderReports
<1>5. CASE LoopStep \/ MainMoves \/ ConsumerStep
  <2>1. proc = "failed" /\ reader.pc \in Late
    BY <1>5 DEF LoopStep, LoopReceives, LoopForwards, LoopEnds, LoopDrains, LoopGone, TakeMessage, TakeError,
                MainMoves, SelectMessage, SelectClosed, SelectError, DrainEnds, SendOut, SendErr, QueryCloses,
                ChannelsClose, ConsumerStep, ConsumerTakesMessage, ConsumerTakesError, ConsumerReturns,
                procVars, readerVars
  <2>2. consumer.failed \/ Tells(errors) \/ Tells(qerrors) \/ Tells(errs) \/ TellsMain
    BY <1>3, <2>1
  <2>3. CASE UNCHANGED <<errors, qerrors, errs>> /\ consumer'.failed = consumer.failed
               /\ (TellsMain => main' = main)
    BY <2>2, <2>3 DEF Tells, TellsMain
  <2>4. CASE LoopReceives \/ LoopForwards \/ LoopEnds \/ LoopGone
    BY <2>3, <2>4 DEF LoopReceives, LoopForwards, LoopEnds, LoopGone, TakeMessage
  <2>5. CASE LoopDrains
    <3>1. /\ errors # <<>> /\ errors' = Tail(errors) /\ UNCHANGED <<errs, main, consumer>>
          /\ qerrors' = IF Len(qerrors) < QErrorsCap THEN Append(qerrors, Head(errors)) ELSE qerrors
          /\ loop.pc = "drain"
      BY <2>5 DEF LoopDrains, TakeError
    <3>2. Len(qerrors) < QErrorsCap
      <4>1. Len(qerrors) + Len(errors) <= ErrorsCap
        BY <1>1, <3>1 DEF Room
      <4>2. Len(errors) >= 1 /\ Len(errors) \in Nat /\ Len(qerrors) \in Nat
        BY <1>2, <3>1, TailType
      <4>3. ErrorsCap \in Nat /\ QErrorsCap \in Nat
        BY DEF TransportAssumption, QueryAssumption
      <4> QED BY <4>1, <4>2, <4>3
    <3>3. Tells(errors) => Tells(Append(qerrors, Head(errors))) \/ Tells(Tail(errors))
      <4>1. Head(errors) \in ErrorKinds
        BY <1>2, <3>1, TailType
      <4> QED BY <1>2, <3>1, <4>1, TellsAppend, TellsTail
    <3>4. Tells(qerrors) => Tells(Append(qerrors, Head(errors)))
      <4>1. Head(errors) \in ErrorKinds
        BY <1>2, <3>1, TailType
      <4> QED BY <1>2, <4>1, TellsAppend
    <3> QED BY <2>2, <3>1, <3>2, <3>3, <3>4 DEF Tells, TellsMain
  <2>6. CASE SelectError
    <3>1. /\ main.pc \in {"select", "drain"} /\ qerrors # <<>> /\ qerrors' = Tail(qerrors)
          /\ UNCHANGED <<errors, errs, consumer>>
          /\ main'.pc \in {"sendError", "drainError"} /\ main'.item = Head(qerrors)
      BY <2>6 DEF SelectError
    <3>2. Tells(qerrors) => Head(qerrors) = "ProcessError" \/ Tells(Tail(qerrors))
      BY <1>2, <3>1, TellsTail
    <3> QED BY <2>2, <3>1, <3>2 DEF Tells, TellsMain
  <2>7. CASE SendErr
    <3>1. errs' = Append(errs, main.item) /\ UNCHANGED <<errors, qerrors, consumer>> /\ main.item \in Reports
      BY <2>7 DEF SendErr, QueryTypes
    <3>2. Tells(Append(errs, main.item)) <=> Tells(errs) \/ main.item = "ProcessError"
      BY <1>2, <3>1, TellsAppend
    <3> QED BY <2>2, <3>1, <3>2 DEF Tells, TellsMain
  <2>8. CASE SelectMessage \/ SelectClosed \/ DrainEnds \/ SendOut \/ QueryCloses \/ ChannelsClose
    <3>1. UNCHANGED <<errors, qerrors, errs, consumer>> /\ ~TellsMain
      BY <2>8 DEF SelectMessage, SelectClosed, DrainEnds, SendOut, QueryCloses, ChannelsClose, TellsMain
    <3> QED BY <2>3, <3>1
  <2>9. CASE ConsumerTakesError
    <3>1. /\ errs # <<>> /\ errs' = Tail(errs) /\ UNCHANGED <<errors, qerrors, main>>
          /\ consumer'.failed = (consumer.failed \/ Head(errs) = "ProcessError")
      BY <2>9 DEF ConsumerTakesError, QueryTypes
    <3>2. Tells(errs) => Head(errs) = "ProcessError" \/ Tells(Tail(errs))
      BY <1>2, <3>1, TellsTail
    <3> QED BY <2>2, <3>1, <3>2 DEF Tells, TellsMain
  <2>10. CASE ConsumerTakesMessage \/ ConsumerReturns
    <3>1. UNCHANGED <<errors, qerrors, errs, main>> /\ consumer'.failed = consumer.failed
      BY <2>10 DEF ConsumerTakesMessage, ConsumerReturns, QueryTypes
    <3> QED BY <2>3, <3>1
  <2> QED BY <1>5, <2>4, <2>5, <2>6, <2>7, <2>8, <2>9, <2>10 DEF LoopStep, MainMoves, ConsumerStep
<1> QED
  BY <1>1, <1>4, <1>5

LEMMA QueryInvariance ==
  ASSUME TransportAssumption, QueryAssumption, BufferCap > 1, QueryInv, [QueryNext]_allVars
  PROVE  QueryInv'
<1> USE DEF QueryInv
<1>1. [Next]_vars /\ PipeTypes
  BY QueryIsTransport DEF PipeInv
<1>2. PipeInv'
  BY <1>1, FramingNext
<1>3. (~ctxDone => Whole)'
  <2> SUFFICES ASSUME ~ctxDone' PROVE Whole'
    OBVIOUS
  <2>1. ~ctxDone
    BY QueryKinds DEF QueryTypes
  <2>2. ~(Closed /\ reader.pc = "send")
    BY <2>1, NotClosed
  <2> QED BY <1>1, <2>1, <2>2, WholeNext
<1>4. QueryTypes' /\ Ordered' /\ ReadUp' /\ Conveyed'
  BY <1>1, QueryTypesNext, OrderedNext, ReadUpNext, ConveyedNext
<1>5. Room'
  BY <1>1, RoomNext
<1> QED
  BY <1>2, <1>3, <1>4, <1>5

\* When the caller returns nothing is on its way: what it has is what was received, and
\* what was received is what was scanned.
LEMMA AtReturn ==
  ASSUME TransportAssumption, QueryInv, Uncancelled
  PROVE  /\ consumer.got = WellParsed(received)
         /\ WellFormed(scanned) => received = FramesOf(scanned)
         /\ Len(scanned) = written \/ \E i \in DOMAIN scanned : TooLong(scanned[i])
         /\ Told /\ ~consumer.sync /\ proc = "failed" => consumer.failed
<1> USE DEF QueryInv
<1>1. ~ctxDone /\ ~consumer.on
  BY DEF Uncancelled
<1>2. /\ main.pc = "done" /\ out = <<>> /\ (~consumer.sync => errs = <<>>)
      /\ loop.pc = "gone" /\ raw = <<>> /\ qerrors = <<>>
      /\ reader.pc = "gone" /\ messages = <<>> /\ errors = <<>>
  BY <1>1 DEF Ordered, Ending, Closing
<1>3. /\ consumer.got \in Seq(Frames) /\ received \in Seq(Frames) /\ scanned \in Seq(Lines)
      /\ Len(scanned) \in Nat /\ DOMAIN scanned = 1..Len(scanned)
  BY DEF QueryTypes, PipeInv, PipeTypes
<1>4. consumer.got = WellParsed(received)
  <2>1. InMain = <<>> /\ InLoop = <<>> /\ raw \o InLoop = <<>>
    BY <1>2 DEF InMain, InLoop
  <2>2. WellParsed(<<>>) = <<>>
    <3>1. <<>> \in Seq(Frames)
      OBVIOUS
    <3> QED BY <3>1, ParsedAreEach, EachEmpty
  <2>3. consumer.got \o out \o InMain \o WellParsed(raw \o InLoop) = WellParsed(received)
    BY <1>1 DEF Conveyed
  <2>4. ((consumer.got \o <<>>) \o <<>>) \o <<>> = consumer.got
    BY <1>3
  <2> QED BY <1>2, <2>1, <2>2, <2>3, <2>4
<1>5. WellFormed(scanned) => received = FramesOf(scanned)
  <2>1. InHand = <<>>
    BY <1>2 DEF InHand
  <2>2. (received \o <<>>) \o <<>> = received
    BY <1>3
  <2> QED BY <1>1, <1>2, <2>1, <2>2 DEF Whole
<1>6. Len(scanned) = written \/ \E i \in DOMAIN scanned : TooLong(scanned[i])
  <2>1. (Exited /\ stdout = <<>>) \/ HasLong
    BY <1>1, <1>2 DEF ReadUp, Reaped
  <2>2. stdout = <<>> => Len(scanned) = written
    BY <1>3 DEF ReadUp
  <2> QED BY <1>3, <2>1, <2>2 DEF HasLong
<1>7. Told /\ ~consumer.sync /\ proc = "failed" => consumer.failed
  <2>1. ~Tells(<<>>) /\ ~TellsMain
    BY <1>2 DEF Tells, TellsMain
  <2> QED BY <1>1, <1>2, <2>1 DEF Told
<1> QED
  BY <1>4, <1>5, <1>6, <1>7

\* The inductive invariant of a query with its caller.
THEOREM QueryInvariant ==
  ASSUME TransportAssumption, QueryAssumption, BufferCap > 1
  PROVE  QuerySpec => []QueryInv
<1>1. QueryInit => QueryInv
  BY QueryStarts
<1>2. QueryInv /\ [QueryNext]_allVars => QueryInv'
  BY QueryInvariance
<1> QED
  BY <1>1, <1>2, PTL DEF QuerySpec

\* A caller of Query that does not cancel has, when the channel of messages is closed,
\* every frame the CLI wrote but for those behind a line too long for the scanner, in
\* order (query.go:79, 200-202).
THEOREM QueryDelivers ==
  ASSUME TransportAssumption, QueryAssumption, BufferCap > 1
  PROVE  QuerySpec => []EveryFrameDelivered
<1>1. QueryInv => EveryFrameDelivered
  BY AtReturn DEF EveryFrameDelivered
<1> QED
  BY <1>1, QueryInvariant, PTL

\* A caller that watches both channels learns that the process failed (query.go:246-249).
\* q.errors is assumed to have the capacity of the transport's channel at least: both are
\* 10 in the code, and an error that finds q.errors full is dropped.
THEOREM QueryReportsFailure ==
  ASSUME TransportAssumption, QueryAssumption, BufferCap > 1, ErrorsCap <= QErrorsCap
  PROVE  QuerySpec => []FailureReported
<1>1. QueryInit => QueryInv /\ Told
  BY QueryStarts
<1>2. QueryInv /\ Told /\ [QueryNext]_allVars => Told'
  BY ToldNext DEF QueryInv, PipeInv
<1>3. QueryInv /\ Told => FailureReported
  BY AtReturn DEF FailureReported
<1> QED
  BY <1>1, <1>2, <1>3, QueryInvariant, PTL DEF QuerySpec
=============================================================================
