---------------------------- MODULE RunEndProofs ----------------------------
(***************************************************************************)
(* The safety of the run-end state machine, for every set of tasks, every  *)
(* ledger cap, ceiling setting and bound.  Each operation on the state     *)
(* guarded by Query.mu is shown, once, to keep RunOK and to relate the     *)
(* state before and after by Step; the actions then follow from those.     *)
(* The second half is about a session with a CLI that keeps the protocol:  *)
(* it is a behaviour of that machine, and with one prompt stdin outlives   *)
(* the work the CLI has to do.                                             *)
(***************************************************************************)
EXTENDS CliSession, SequenceLemmas, FiniteSetTheorems

\* The ceiling is armed only in the wait between turns, and its timer carries
\* the current generation: every earlier one was invalidated when cleared.
TimerOK(r) ==
  r.ceilingTimer # NoTimer =>
    /\ r.ceilingTimer = r.ceilingGeneration
    /\ r.resultReceived
    /\ ~r.turnInProgress
    /\ r.sessionState # "requires_action"
    /\ ~r.runEnded
    /\ ~r.closed

ClosedOK(r) == r.closed => r.runFinal /\ r.runEnded

LedgerOK(r) == Cardinality(r.inflightTasks) <= MaxTrackedTasks

RunOK(r) == r \in RunState /\ TimerOK(r) /\ ClosedOK(r) /\ LedgerOK(r)

\* What an operation may do to the guarded state: a generation is spent
\* whenever the timer changes, a final and ended run stays so, nothing but
\* Close closes.
Step(r, s) ==
  /\ s.ceilingGeneration >= r.ceilingGeneration
  /\ s.ceilingGeneration = r.ceilingGeneration => s.ceilingTimer = r.ceilingTimer
  /\ r.runFinal => s.runFinal
  /\ r.runFinal /\ r.runEnded => s.runEnded
  /\ s.closed = r.closed

\* A run that an operation ends was due.
EndsDue(r, s) == ~r.runEnded /\ s.runEnded => s.resultReceived /\ LedgerAllowsEnd(s)

-----------------------------------------------------------------------------
(* The operations that need q.mu, each by the fields it changes. *)

LEMMA ClearOK ==
  ASSUME NEW r \in RunState
  PROVE  /\ ClearRunEndCeiling(r) \in RunState
         /\ ClearRunEndCeiling(r).ceilingTimer = NoTimer
         /\ ClearRunEndCeiling(r).ceilingGeneration = r.ceilingGeneration + 1
         /\ ClearRunEndCeiling(r).resultReceived = r.resultReceived
         /\ ClearRunEndCeiling(r).sessionState = r.sessionState
         /\ ClearRunEndCeiling(r).turnInProgress = r.turnInProgress
         /\ ClearRunEndCeiling(r).runFinal = r.runFinal
         /\ ClearRunEndCeiling(r).runEnded = r.runEnded
         /\ ClearRunEndCeiling(r).inflightTasks = r.inflightTasks
         /\ ClearRunEndCeiling(r).taskLedgerOverflowed = r.taskLedgerOverflowed
         /\ ClearRunEndCeiling(r).closed = r.closed
<1>1. [r EXCEPT !.ceilingGeneration = @ + 1] \in RunState
  BY DEF RunState
<1>2. ClearRunEndCeiling(r) \in RunState
  BY <1>1 DEF ClearRunEndCeiling, RunState, NoTimer
<1> QED
  BY <1>2 DEF ClearRunEndCeiling, RunState, NoTimer

LEMMA EndRunOK ==
  ASSUME NEW r \in RunState
  PROVE  /\ EndRun(r) \in RunState
         /\ EndRun(r).ceilingTimer = NoTimer
         /\ EndRun(r).ceilingGeneration = r.ceilingGeneration + 1
         /\ EndRun(r).resultReceived = r.resultReceived
         /\ EndRun(r).runFinal = r.runFinal
         /\ EndRun(r).runEnded
         /\ EndRun(r).inflightTasks = r.inflightTasks
         /\ EndRun(r).taskLedgerOverflowed = r.taskLedgerOverflowed
         /\ EndRun(r).closed = r.closed
<1> DEFINE c == ClearRunEndCeiling(r)
<1>1. c \in RunState
  BY ClearOK
<1>2. /\ [c EXCEPT !.runEnded = TRUE] \in RunState
      /\ [c EXCEPT !.runEnded = TRUE].runEnded
      /\ [c EXCEPT !.runEnded = TRUE].ceilingTimer = c.ceilingTimer
      /\ [c EXCEPT !.runEnded = TRUE].ceilingGeneration = c.ceilingGeneration
      /\ [c EXCEPT !.runEnded = TRUE].resultReceived = c.resultReceived
      /\ [c EXCEPT !.runEnded = TRUE].runFinal = c.runFinal
      /\ [c EXCEPT !.runEnded = TRUE].inflightTasks = c.inflightTasks
      /\ [c EXCEPT !.runEnded = TRUE].taskLedgerOverflowed = c.taskLedgerOverflowed
      /\ [c EXCEPT !.runEnded = TRUE].closed = c.closed
  <2> HIDE DEF c
  <2> QED BY <1>1 DEF RunState
<1> QED
  BY <1>2, ClearOK DEF EndRun

LEMMA ReopenOK ==
  ASSUME NEW r \in RunState
  PROVE  /\ ReopenRun(r) \in RunState
         /\ ReopenRun(r).ceilingTimer = r.ceilingTimer
         /\ ReopenRun(r).ceilingGeneration = r.ceilingGeneration
         /\ ReopenRun(r).resultReceived = r.resultReceived
         /\ ReopenRun(r).sessionState = r.sessionState
         /\ ReopenRun(r).turnInProgress = r.turnInProgress
         /\ ReopenRun(r).runFinal = r.runFinal
         /\ ReopenRun(r).runEnded => r.runEnded
         /\ r.runFinal => ReopenRun(r).runEnded = r.runEnded
         /\ ReopenRun(r).inflightTasks = r.inflightTasks
         /\ ReopenRun(r).taskLedgerOverflowed = r.taskLedgerOverflowed
         /\ ReopenRun(r).closed = r.closed
<1> DEFINE c == [r EXCEPT !.runEnded = FALSE]
           s == [c EXCEPT !.runEndedCh = @ + 1]
<1>1. CASE r.runEnded /\ ~r.runFinal
  <2>1. c \in RunState
    BY DEF RunState
  <2>2. s \in RunState
    <3> HIDE DEF c
    <3> QED BY <2>1 DEF RunState
  <2>3. ReopenRun(r) = s
    BY <1>1 DEF ReopenRun
  <2> QED
    BY <1>1, <2>2, <2>3 DEF RunState
<1>2. CASE ~(r.runEnded /\ ~r.runFinal)
  BY <1>2 DEF ReopenRun, RunState
<1> QED
  BY <1>1, <1>2

\* MaybeEndRun keeps RunOK; if it ends the run, the ledger allowed it.
LEMMA MaybeEndOK ==
  ASSUME NEW r, RunOK(r)
  PROVE  /\ RunOK(MaybeEndRun(r))
         /\ Step(r, MaybeEndRun(r))
         /\ r.resultReceived => EndsDue(r, MaybeEndRun(r))
<1> USE DEF RunOK, MaybeEndRun
<1>1. CASE LedgerAllowsEnd(r)
  BY <1>1, EndRunOK DEF TimerOK, ClosedOK, LedgerOK, Step, EndsDue, LedgerAllowsEnd, RunState
<1>2. CASE ~LedgerAllowsEnd(r)
  BY <1>2 DEF Step, EndsDue, RunState
<1> QED
  BY <1>1, <1>2

\* The ceiling is armed past a result, and not while the host is answering.
LEMMA ArmOK ==
  ASSUME NEW r, RunOK(r), r.resultReceived, r.sessionState # "requires_action"
  PROVE  /\ RunOK(ArmRunEndCeiling(r))
         /\ Step(r, ArmRunEndCeiling(r))
         /\ ArmRunEndCeiling(r).runEnded = r.runEnded
<1> DEFINE c == ClearRunEndCeiling(r)
           a == [c EXCEPT !.ceilingTimer = c.ceilingGeneration]
<1>1. r \in RunState
  BY DEF RunOK
<1>2. c \in RunState
  BY <1>1, ClearOK
<1>3. RunOK(c) /\ Step(r, c) /\ c.runEnded = r.runEnded
  <2> HIDE DEF c
  <2>1. RunOK(c)
    BY <1>1, <1>2, ClearOK DEF c, RunOK, TimerOK, ClosedOK, LedgerOK
  <2>2. Step(r, c) /\ c.runEnded = r.runEnded
    BY <1>1, ClearOK DEF c, Step, RunState
  <2> QED BY <2>1, <2>2
<1>4. CASE MayArm(c)
  <2>1. ArmRunEndCeiling(r) = a
    BY <1>4 DEF ArmRunEndCeiling
  <2>2. /\ a \in RunState
        /\ a.ceilingTimer = c.ceilingGeneration
        /\ a.ceilingGeneration = c.ceilingGeneration
        /\ a.resultReceived = c.resultReceived
        /\ a.turnInProgress = c.turnInProgress
        /\ a.sessionState = c.sessionState
        /\ a.runFinal = c.runFinal
        /\ a.runEnded = c.runEnded
        /\ a.inflightTasks = c.inflightTasks
        /\ a.closed = c.closed
    <3> HIDE DEF c
    <3> QED BY <1>2 DEF RunState
  <2>3. /\ c.ceilingGeneration = r.ceilingGeneration + 1
        /\ c.resultReceived /\ c.sessionState # "requires_action"
    BY <1>1, ClearOK
  <2>4. RunOK(a)
    <3> HIDE DEF a, c
    <3> QED BY <2>2, <2>3, <1>3, <1>4 DEF RunOK, TimerOK, ClosedOK, LedgerOK, MayArm
  <2>5. Step(r, a)
    <3> HIDE DEF a, c
    <3> QED BY <1>1, <2>2, <2>3, <1>3 DEF Step, RunState
  <2> HIDE DEF a, c
  <2> QED BY <2>1, <2>2, <2>4, <2>5, <1>3
<1>5. CASE ~MayArm(c)
  BY <1>5, <1>3 DEF ArmRunEndCeiling
<1> QED
  BY <1>4, <1>5

LEMMA RearmOK ==
  ASSUME NEW r, RunOK(r)
  PROVE  /\ RunOK(RearmRunEndCeilingBetweenTurns(r))
         /\ Step(r, RearmRunEndCeilingBetweenTurns(r))
         /\ RearmRunEndCeilingBetweenTurns(r).runEnded = r.runEnded
<1> DEFINE armed == r.resultReceived /\ r.sessionState \notin {NoState, "idle", "requires_action"}
<1>1. CASE armed
  BY <1>1, ArmOK DEF RearmRunEndCeilingBetweenTurns
<1>2. CASE ~armed
  BY <1>2 DEF RearmRunEndCeilingBetweenTurns, RunOK, Step, RunState
<1> QED
  BY <1>1, <1>2

\* Reopening a run that is not closed keeps RunOK.
LEMMA ReopenKeepsOK ==
  ASSUME NEW r, RunOK(r)
  PROVE  RunOK(ReopenRun(r)) /\ Step(r, ReopenRun(r))
<1>1. r \in RunState
  BY DEF RunOK
<1>2. RunOK(ReopenRun(r))
  BY <1>1, ReopenOK DEF RunOK, TimerOK, ClosedOK, LedgerOK
<1>3. Step(r, ReopenRun(r))
  BY <1>1, ReopenOK DEF Step, RunState
<1> QED
  BY <1>2, <1>3

LEMMA ClearKeepsOK ==
  ASSUME NEW r \in RunState, ClosedOK(r), LedgerOK(r)
  PROVE  /\ RunOK(ClearRunEndCeiling(r))
         /\ Step(r, ClearRunEndCeiling(r))
<1>1. RunOK(ClearRunEndCeiling(r))
  BY ClearOK DEF RunOK, TimerOK, ClosedOK, LedgerOK
<1>2. Step(r, ClearRunEndCeiling(r))
  BY ClearOK DEF Step, RunState
<1> QED
  BY <1>1, <1>2

\* The ledger stays within its cap, and nothing else of the run is touched.
LEMMA TrackOK ==
  ASSUME NEW r, RunOK(r), NEW f \in TaskFrames \cup PlainFrames
  PROVE  /\ RunOK(TrackSystemFrame(r, f))
         /\ Step(r, TrackSystemFrame(r, f))
         /\ TrackSystemFrame(r, f).runEnded = r.runEnded
<1> DEFINE over == [r EXCEPT !.taskLedgerOverflowed = TRUE]
           more == [r EXCEPT !.inflightTasks = @ \cup {f.task}]
           less == [r EXCEPT !.inflightTasks = @ \ {f.task}]
<1>1. r \in RunState /\ IsFiniteSet(r.inflightTasks) /\ Cardinality(r.inflightTasks) \in Nat
  BY RunEndAssumption, FS_Subset, FS_CardinalityType DEF RunOK, RunState
<1>2. RunOK(over) /\ Step(r, over) /\ over.runEnded = r.runEnded
  <2>1. RunOK(over)
    BY <1>1 DEF RunOK, TimerOK, ClosedOK, LedgerOK, RunState
  <2>2. Step(r, over) /\ over.runEnded = r.runEnded
    BY <1>1 DEF Step, RunState
  <2> QED BY <2>1, <2>2
<1>3. ASSUME f \in TaskFrames,
             f.task \in r.inflightTasks \/ ~(Cardinality(r.inflightTasks) >= MaxTrackedTasks)
      PROVE  RunOK(more) /\ Step(r, more) /\ more.runEnded = r.runEnded
  <2>1. f.task \in Tasks
    BY <1>3 DEF TaskFrames
  <2>2. /\ more \in RunState
        /\ more.inflightTasks = r.inflightTasks \cup {f.task}
    BY <1>1, <2>1 DEF RunState
  <2>3. Cardinality(r.inflightTasks \cup {f.task}) <= MaxTrackedTasks
    <3>1. CASE f.task \in r.inflightTasks
      <4>1. r.inflightTasks \cup {f.task} = r.inflightTasks
        BY <3>1
      <4> QED BY <4>1 DEF RunOK, LedgerOK
    <3>2. CASE f.task \notin r.inflightTasks
      <4>1. Cardinality(r.inflightTasks \cup {f.task}) = Cardinality(r.inflightTasks) + 1
        BY <1>1, <3>2, FS_AddElement
      <4>2. ~(Cardinality(r.inflightTasks) >= MaxTrackedTasks)
        BY <1>3, <3>2
      <4> HIDE DEF more
      <4> QED BY <1>1, <4>1, <4>2, RunEndAssumption
    <3> QED BY <3>1, <3>2
  <2>4. RunOK(more)
    BY <1>1, <2>2, <2>3 DEF RunOK, TimerOK, ClosedOK, LedgerOK, RunState
  <2>5. Step(r, more) /\ more.runEnded = r.runEnded
    BY <1>1 DEF Step, RunState
  <2> QED BY <2>4, <2>5
<1>4. RunOK(less) /\ Step(r, less) /\ less.runEnded = r.runEnded
  <2>1. /\ less \in RunState
        /\ less.inflightTasks = r.inflightTasks \ {f.task}
    BY <1>1 DEF RunState
  <2>2. Cardinality(r.inflightTasks \ {f.task}) <= MaxTrackedTasks
    <3>1. /\ IsFiniteSet(r.inflightTasks \ {f.task})
          /\ Cardinality(r.inflightTasks \ {f.task}) <= Cardinality(r.inflightTasks)
      BY <1>1, FS_Subset
    <3>2. Cardinality(r.inflightTasks \ {f.task}) \in Nat
      BY <3>1, FS_CardinalityType
    <3> QED BY <1>1, <3>1, <3>2, RunEndAssumption DEF RunOK, LedgerOK
  <2>3. RunOK(less)
    BY <1>1, <2>1, <2>2 DEF RunOK, TimerOK, ClosedOK, LedgerOK, RunState
  <2>4. Step(r, less) /\ less.runEnded = r.runEnded
    BY <1>1 DEF Step, RunState
  <2> QED BY <2>3, <2>4
<1>5. RunOK(r) /\ Step(r, r)
  BY <1>1 DEF Step, RunState
<1>6. f.type = "task_started" => f \in TaskFrames
  BY DEF TaskFrames, PlainFrames
<1> HIDE DEF over, more, less
<1>7. \/ TrackSystemFrame(r, f) = r
      \/ TrackSystemFrame(r, f) = over
      \/ TrackSystemFrame(r, f) = less
      \/ /\ TrackSystemFrame(r, f) = more
         /\ f \in TaskFrames
         /\ f.task \in r.inflightTasks \/ ~(Cardinality(r.inflightTasks) >= MaxTrackedTasks)
  BY <1>6, Zenon DEF TrackSystemFrame, over, more, less
<1> QED
  BY <1>2, <1>3, <1>4, <1>5, <1>7

-----------------------------------------------------------------------------
(* The critical sections. *)

\* What every critical section of the read loop guarantees.
SectionOK(r, s) == RunOK(s) /\ Step(r, s) /\ EndsDue(r, s)

LEMMA OnSessionStateOK ==
  ASSUME NEW r, RunOK(r), NEW state \in SessionStates
  PROVE  SectionOK(r, OnSessionState(r, state))
<1> DEFINE s == [r EXCEPT !.sessionState = state]
<1>1. r \in RunState
  BY DEF RunOK
<1>2. /\ s \in RunState
      /\ s.sessionState = state
      /\ s.resultReceived = r.resultReceived
      /\ s.turnInProgress = r.turnInProgress
      /\ s.runFinal = r.runFinal
      /\ s.runEnded = r.runEnded
      /\ s.ceilingTimer = r.ceilingTimer
      /\ s.ceilingGeneration = r.ceilingGeneration
      /\ s.inflightTasks = r.inflightTasks
      /\ s.closed = r.closed
  BY <1>1 DEF RunState
<1> HIDE DEF s
<1>3. ClosedOK(s) /\ LedgerOK(s)
  BY <1>2 DEF RunOK, ClosedOK, LedgerOK
<1>4. state # "requires_action" => RunOK(s)
  BY <1>2, <1>3 DEF RunOK, TimerOK
<1>5. CASE state = "idle"
  <2>1. OnSessionState(r, state) = IF s.resultReceived THEN MaybeEndRun(s) ELSE s
    BY <1>5 DEF OnSessionState, s
  <2>2. CASE s.resultReceived
    <3>1. RunOK(MaybeEndRun(s)) /\ Step(s, MaybeEndRun(s)) /\ EndsDue(s, MaybeEndRun(s))
      BY <1>4, <1>5, <2>2, MaybeEndOK
    <3> QED
      BY <1>2, <2>1, <2>2, <3>1 DEF SectionOK, Step, EndsDue
  <2>3. CASE ~s.resultReceived
    BY <1>1, <1>2, <1>4, <1>5, <2>1, <2>3 DEF SectionOK, Step, EndsDue, RunState
  <2> QED
    BY <2>2, <2>3
<1>6. CASE state = "requires_action"
  <2> DEFINE o == ReopenRun(s)
             c == ClearRunEndCeiling(o)
  <2>1. OnSessionState(r, state) = c
    BY <1>6 DEF OnSessionState, s
  <2>2. /\ o \in RunState /\ ClosedOK(o) /\ LedgerOK(o)
        /\ o.ceilingGeneration = s.ceilingGeneration
        /\ o.runFinal = s.runFinal
        /\ o.runEnded => s.runEnded
        /\ s.runFinal => o.runEnded = s.runEnded
        /\ o.closed = s.closed
    BY <1>2, <1>3, ReopenOK DEF ClosedOK, LedgerOK
  <2> HIDE DEF o
  <2>3. RunOK(c) /\ Step(o, c) /\ c.runEnded = o.runEnded
    BY <2>2, ClearKeepsOK, ClearOK
  <2>4. c.ceilingGeneration = r.ceilingGeneration + 1
    BY <1>2, <2>2, ClearOK
  <2> HIDE DEF c
  <2>5. Step(r, c) /\ EndsDue(r, c)
    BY <1>1, <1>2, <2>2, <2>3, <2>4 DEF Step, EndsDue, RunState
  <2> QED
    BY <2>1, <2>3, <2>5 DEF SectionOK
<1>7. CASE state \notin {"idle", "requires_action"}
  <2> DEFINE o == ReopenRun(s)
             a == RearmRunEndCeilingBetweenTurns(o)
  <2>1. OnSessionState(r, state) = a
    BY <1>7 DEF OnSessionState, s
  <2>2. RunOK(o) /\ Step(s, o) /\ (o.runEnded => s.runEnded)
    BY <1>2, <1>4, <1>7, ReopenKeepsOK, ReopenOK
  <2> HIDE DEF o
  <2>3. RunOK(a) /\ Step(o, a) /\ a.runEnded = o.runEnded
    BY <2>2, RearmOK
  <2> HIDE DEF a
  <2>4. Step(r, a) /\ EndsDue(r, a)
    BY <1>2, <2>2, <2>3 DEF Step, EndsDue, RunOK, RunState
  <2> QED
    BY <2>1, <2>3, <2>4 DEF SectionOK
<1> QED
  BY <1>5, <1>6, <1>7

LEMMA AfterTaskFrameOK ==
  ASSUME NEW r, RunOK(r), NEW f \in TaskFrames \cup PlainFrames
  PROVE  SectionOK(r, AfterTaskFrame(r, f))
<1> DEFINE t == TrackSystemFrame(r, f)
           a == RearmRunEndCeilingBetweenTurns(t)
<1>1. RunOK(t) /\ Step(r, t) /\ t.runEnded = r.runEnded
  BY TrackOK
<1> HIDE DEF t
<1>2. RunOK(a) /\ Step(t, a) /\ a.runEnded = t.runEnded
  BY <1>1, RearmOK
<1>3. AfterTaskFrame(r, f) = t \/ AfterTaskFrame(r, f) = a
  BY DEF AfterTaskFrame, t
<1> HIDE DEF a
<1>4. Step(r, a)
  BY <1>1, <1>2 DEF Step, RunOK, RunState
<1> QED
  BY <1>1, <1>2, <1>3, <1>4 DEF SectionOK, EndsDue

LEMMA AfterResultOK ==
  ASSUME NEW r, RunOK(r)
  PROVE  SectionOK(r, AfterResult(r))
<1> DEFINE u == [r EXCEPT !.resultReceived = TRUE]
           t == [u EXCEPT !.turnInProgress = FALSE]
<1>1. r \in RunState
  BY DEF RunOK
<1>2. u \in RunState
  BY <1>1 DEF RunState
<1>3. /\ t \in RunState
      /\ t.resultReceived
      /\ ~t.turnInProgress
      /\ t.sessionState = r.sessionState
      /\ t.runFinal = r.runFinal
      /\ t.runEnded = r.runEnded
      /\ t.ceilingTimer = r.ceilingTimer
      /\ t.ceilingGeneration = r.ceilingGeneration
      /\ t.inflightTasks = r.inflightTasks
      /\ t.closed = r.closed
  <2>1. t \in RunState
    <3> HIDE DEF u
    <3> QED BY <1>2 DEF RunState
  <2> QED
    BY <1>1, <2>1 DEF RunState
<1> DEFINE ends == t.sessionState \in {NoState, "idle"} \/ ~BidirectionalNeeds
           arms == t.sessionState = "running" /\ BidirectionalNeeds
<1>4. /\ ends => AfterResult(r) = MaybeEndRun(t)
      /\ ~ends /\ arms => AfterResult(r) = ArmRunEndCeiling(t)
      /\ ~ends /\ ~arms => AfterResult(r) = t
  <2>1. AfterResult(r) = CASE ends -> MaybeEndRun(t)
                           [] arms -> ArmRunEndCeiling(t)
                           [] OTHER -> t
    BY DEF AfterResult
  <2>2. ~(ends /\ arms)
    BY DEF NoState
  <2> HIDE DEF t, u, ends, arms
  <2> QED BY <2>1, <2>2
<1> HIDE DEF t, u
<1>5. RunOK(t) /\ Step(r, t)
  BY <1>1, <1>3 DEF RunOK, TimerOK, ClosedOK, LedgerOK, Step, RunState
<1>6. CASE ~ends /\ ~arms
  <2> HIDE DEF ends, arms
  <2> QED BY <1>3, <1>4, <1>5, <1>6 DEF SectionOK, EndsDue
<1>7. CASE ends
  <2> DEFINE m == MaybeEndRun(t)
  <2>1. RunOK(m) /\ Step(t, m) /\ EndsDue(t, m)
    BY <1>3, <1>5, MaybeEndOK
  <2> HIDE DEF m
  <2> QED BY <1>3, <1>4, <1>7, <2>1 DEF SectionOK, Step, EndsDue, m
<1>8. CASE ~ends /\ arms
  <2> DEFINE a == ArmRunEndCeiling(t)
  <2>1. RunOK(a) /\ Step(t, a) /\ a.runEnded = t.runEnded
    BY <1>3, <1>5, <1>8, ArmOK
  <2> HIDE DEF a
  <2> QED BY <1>3, <1>4, <1>8, <2>1 DEF SectionOK, Step, EndsDue, a
<1> QED
  BY <1>4, <1>6, <1>7, <1>8

LEMMA AfterTurnFrameOK ==
  ASSUME NEW r, RunOK(r), NEW f \in TurnFrames
  PROVE  SectionOK(r, AfterTurnFrame(r, f))
<1> DEFINE t == [r EXCEPT !.turnInProgress = TRUE]
           o == ReopenRun(t)
           c == ClearRunEndCeiling(o)
<1>1. r \in RunState
  BY DEF RunOK
<1>2. /\ t \in RunState
      /\ t.runFinal = r.runFinal
      /\ t.runEnded = r.runEnded
      /\ t.ceilingGeneration = r.ceilingGeneration
      /\ t.inflightTasks = r.inflightTasks
      /\ t.closed = r.closed
  BY <1>1 DEF RunState
<1> HIDE DEF t
<1>3. /\ o \in RunState /\ ClosedOK(o) /\ LedgerOK(o)
      /\ o.ceilingGeneration = t.ceilingGeneration
      /\ o.runFinal = t.runFinal
      /\ o.runEnded => t.runEnded
      /\ t.runFinal => o.runEnded = t.runEnded
      /\ o.closed = t.closed
  BY <1>2, ReopenOK DEF RunOK, ClosedOK, LedgerOK
<1> HIDE DEF o
<1>4. RunOK(c) /\ Step(o, c) /\ c.runEnded = o.runEnded
  BY <1>3, ClearKeepsOK, ClearOK
<1>5. c.ceilingGeneration = r.ceilingGeneration + 1
  BY <1>2, <1>3, ClearOK
<1>6. CASE f.subagent
  BY <1>1, <1>6 DEF AfterTurnFrame, SectionOK, Step, EndsDue, RunState
<1>7. CASE ~f.subagent
  <2>1. AfterTurnFrame(r, f) = c
    BY <1>7 DEF AfterTurnFrame, o, t
  <2> HIDE DEF c
  <2>2. Step(r, c) /\ EndsDue(r, c)
    BY <1>1, <1>2, <1>3, <1>4, <1>5 DEF Step, EndsDue, RunState
  <2> QED
    BY <1>4, <2>1, <2>2 DEF SectionOK
<1> QED
  BY <1>6, <1>7

LEMMA AfterFrameOK ==
  ASSUME NEW r, RunOK(r), NEW f \in Frames
  PROVE  SectionOK(r, AfterFrame(r, f))
<1>1. CASE f \in StateFrames
  <2>1. AfterFrame(r, f) = OnSessionState(r, f.state) /\ f.state \in SessionStates
    BY <1>1 DEF AfterFrame, StateFrames
  <2> QED BY <2>1, OnSessionStateOK
<1>2. CASE f \in TaskFrames
  <2>1. AfterFrame(r, f) = AfterTaskFrame(r, f)
    BY <1>2 DEF AfterFrame, TaskFrames
  <2> QED BY <1>2, <2>1, AfterTaskFrameOK
<1>3. CASE f \in TurnFrames
  <2>1. AfterFrame(r, f) = AfterTurnFrame(r, f)
    BY <1>3 DEF AfterFrame, TurnFrames
  <2> QED BY <1>3, <2>1, AfterTurnFrameOK
<1>4. CASE f \in PlainFrames
  <2>1. CASE f.type = "result"
    BY <2>1, AfterResultOK DEF AfterFrame
  <2>2. CASE f.type # "result"
    <3>1. AfterFrame(r, f) = AfterTaskFrame(r, f)
      BY <1>4, <2>2 DEF AfterFrame, PlainFrames
    <3> QED BY <1>4, <3>1, AfterTaskFrameOK
  <2> QED BY <2>1, <2>2
<1> QED
  BY <1>1, <1>2, <1>3, <1>4 DEF Frames

LEMMA FinalizeOK ==
  ASSUME NEW r \in RunState, LedgerOK(r)
  PROVE  /\ RunOK(Finalize(r))
         /\ Finalize(r).runFinal /\ Finalize(r).runEnded
         /\ Finalize(r).ceilingGeneration = r.ceilingGeneration + 1
         /\ Finalize(r).closed = r.closed
<1> DEFINE f == [r EXCEPT !.runFinal = TRUE]
<1>1. /\ f \in RunState
      /\ f.runFinal
      /\ f.ceilingGeneration = r.ceilingGeneration
      /\ f.inflightTasks = r.inflightTasks
      /\ f.closed = r.closed
  BY DEF RunState
<1>2. Finalize(r) = EndRun(f)
  BY DEF Finalize
<1> HIDE DEF f
<1>3. EndRun(f) \in RunState /\ LedgerOK(EndRun(f))
  BY <1>1, EndRunOK DEF LedgerOK
<1> QED
  BY <1>1, <1>2, <1>3, EndRunOK DEF RunOK, TimerOK, ClosedOK

LEMMA OweRunOK ==
  ASSUME NEW r, RunOK(r), ~r.closed
  PROVE  SectionOK(r, OweRun(r))
<1> DEFINE o == ReopenRun(r)
           p == [o EXCEPT !.resultReceived = FALSE]
           c == ClearRunEndCeiling(p)
<1>1. r \in RunState
  BY DEF RunOK
<1>2. /\ o \in RunState /\ LedgerOK(o) /\ ~o.closed
      /\ o.ceilingGeneration = r.ceilingGeneration
      /\ o.runFinal = r.runFinal
      /\ o.runEnded => r.runEnded
      /\ r.runFinal => o.runEnded = r.runEnded
  BY <1>1, ReopenOK DEF RunOK, LedgerOK
<1> HIDE DEF o
<1>3. /\ p \in RunState /\ LedgerOK(p) /\ ClosedOK(p)
      /\ p.ceilingGeneration = o.ceilingGeneration
      /\ p.runFinal = o.runFinal
      /\ p.runEnded = o.runEnded
      /\ p.closed = o.closed
  <2>1. /\ p \in RunState
        /\ p.ceilingGeneration = o.ceilingGeneration
        /\ p.runFinal = o.runFinal
        /\ p.runEnded = o.runEnded
        /\ p.inflightTasks = o.inflightTasks
        /\ p.closed = o.closed
    BY <1>2 DEF RunState
  <2> HIDE DEF p
  <2> QED BY <1>2, <2>1 DEF LedgerOK, ClosedOK
<1>4. OweRun(r) = c
  BY DEF OweRun, o
<1> HIDE DEF p
<1>5. RunOK(c) /\ c.runEnded = p.runEnded /\ c.runFinal = p.runFinal
      /\ c.ceilingGeneration = p.ceilingGeneration + 1 /\ c.closed = p.closed
  BY <1>3, ClearKeepsOK, ClearOK
<1> HIDE DEF c
<1> QED
  BY <1>1, <1>2, <1>3, <1>4, <1>5 DEF SectionOK, Step, EndsDue, RunState

-----------------------------------------------------------------------------
(* The inductive invariant. *)

\* A callback on its way belongs to a generation spent, or to the timer set.
FiringsOK ==
  \A g \in firings :
    /\ g \in Nat /\ g # NoTimer
    /\ g <= run.ceilingGeneration
    /\ g = run.ceilingGeneration => run.ceilingTimer = g

\* The goroutines, as typed; a reader past its receive holds a frame.
ActorsOK ==
  /\ reader \in [pc : {"recv", "flush", "handle", "forward", "gone"}, frame : Frames \cup {NoFrame}]
  /\ reader.pc \in {"flush", "handle"} => reader.frame \in Frames
  /\ input \in [pc : InputPcs, ch : Nat, written : Nat, prompts : Nat]
  /\ framesRead \in Nat /\ stdinOpen \in BOOLEAN /\ stdoutEnded \in BOOLEAN

Inv == RunOK(run) /\ FiringsOK /\ GoneMeansOver /\ ActorsOK

\* What the two action properties say of one step.
RunStep ==
  /\ run.runFinal /\ run.runEnded => run'.runFinal /\ run'.runEnded
  /\ EndsDue(run, run') \/ reader'.pc = "gone" \/ run'.closed

\* A critical section that keeps the reader where it is, or away from "gone",
\* keeps the parts of the invariant that speak of the run.
LEMMA SectionKeepsRun ==
  ASSUME Inv, SectionOK(run, run'), firings' \subseteq firings,
         reader'.pc = "gone" => reader.pc = "gone"
  PROVE  RunOK(run)' /\ FiringsOK' /\ GoneMeansOver' /\ RunStep
<1>1. RunOK(run)'
  BY DEF SectionOK
<1>2. FiringsOK'
  <2> SUFFICES ASSUME NEW g \in firings'
               PROVE  /\ g \in Nat /\ g # NoTimer
                      /\ g <= run'.ceilingGeneration
                      /\ g = run'.ceilingGeneration => run'.ceilingTimer = g
    BY DEF FiringsOK
  <2>1. /\ g \in Nat /\ g # NoTimer
        /\ g <= run.ceilingGeneration
        /\ g = run.ceilingGeneration => run.ceilingTimer = g
    BY DEF Inv, FiringsOK
  <2>2. run.ceilingGeneration \in Nat /\ run'.ceilingGeneration \in Nat
    BY DEF Inv, SectionOK, RunOK, RunState
  <2> QED
    BY <2>1, <2>2 DEF SectionOK, Step
<1>3. GoneMeansOver' /\ RunStep
  BY DEF Inv, SectionOK, Step, GoneMeansOver, RunStep
<1> QED
  BY <1>1, <1>2, <1>3

\* The same for the section that makes the run final.
LEMMA FinalizeKeepsRun ==
  ASSUME Inv, NEW r \in RunState, LedgerOK(r),
         r.ceilingGeneration = run.ceilingGeneration,
         run' = Finalize(r), firings' = firings,
         reader'.pc = "gone" \/ r.closed
  PROVE  RunOK(run)' /\ FiringsOK' /\ GoneMeansOver' /\ RunStep
<1>1. /\ RunOK(run)' /\ run'.runFinal /\ run'.runEnded
      /\ run'.closed = r.closed
      /\ run'.ceilingGeneration = run.ceilingGeneration + 1
  BY FinalizeOK
<1>2. FiringsOK'
  <2> SUFFICES ASSUME NEW g \in firings
               PROVE  /\ g \in Nat /\ g # NoTimer
                      /\ g <= run'.ceilingGeneration
                      /\ g # run'.ceilingGeneration
    BY DEF FiringsOK
  <2>1. g \in Nat /\ g # NoTimer /\ g <= run.ceilingGeneration /\ run.ceilingGeneration \in Nat
    BY DEF Inv, FiringsOK, RunOK, RunState
  <2> QED
    BY <1>1, <2>1
<1> QED
  BY <1>1, <1>2 DEF GoneMeansOver, RunStep

LEMMA InitInv == Init => Inv
<1> SUFFICES ASSUME Init PROVE Inv
  OBVIOUS
<1>1. run \in RunState
  BY DEF Init, RunState, SessionStates, NoState, NoTimer
<1>2. LedgerOK(run)
  BY FS_EmptySet, RunEndAssumption DEF Init, LedgerOK
<1>3. RunOK(run)
  BY <1>1, <1>2 DEF Init, RunOK, TimerOK, ClosedOK, NoTimer
<1>4. FiringsOK /\ GoneMeansOver
  BY DEF Init, FiringsOK, GoneMeansOver
<1>5. ActorsOK
  <2>1. /\ reader \in [pc : {"recv", "flush", "handle", "forward", "gone"}, frame : Frames \cup {NoFrame}]
        /\ reader.pc \in {"flush", "handle"} => reader.frame \in Frames
    BY DEF Init
  <2>2. input \in [pc : InputPcs, ch : Nat, written : Nat, prompts : Nat]
    BY DEF Init, InputPcs
  <2>3. framesRead \in Nat /\ stdinOpen \in BOOLEAN /\ stdoutEnded \in BOOLEAN
    BY DEF Init
  <2> QED
    BY <2>1, <2>2, <2>3 DEF ActorsOK
<1> QED
  BY <1>3, <1>4, <1>5 DEF Inv

\* What the loop of StreamInput does to the input goroutine's state.
LEMMA InputOK ==
  ASSUME NEW i \in [pc : InputPcs, ch : Nat, written : Nat, prompts : Nat]
  PROVE  /\ \A pc \in InputPcs : [i EXCEPT !.pc = pc] \in [pc : InputPcs, ch : Nat, written : Nat, prompts : Nat]
         /\ [i EXCEPT !.pc = "write", !.prompts = @ + 1] \in [pc : InputPcs, ch : Nat, written : Nat, prompts : Nat]
         /\ [i EXCEPT !.pc = "next", !.written = @ + 1] \in [pc : InputPcs, ch : Nat, written : Nat, prompts : Nat]
<1> DEFINE I == [pc : InputPcs, ch : Nat, written : Nat, prompts : Nat]
<1>1. \A pc \in InputPcs : [i EXCEPT !.pc = pc] \in I
  OBVIOUS
<1>2. [i EXCEPT !.pc = "write", !.prompts = @ + 1] \in I
  <2> DEFINE j == [i EXCEPT !.pc = "write"]
  <2>1. j \in I /\ j.prompts = i.prompts
    BY DEF InputPcs
  <2> HIDE DEF j
  <2>2. [j EXCEPT !.prompts = i.prompts + 1] \in I
    BY <2>1
  <2> QED
    BY <2>2 DEF j
<1>3. [i EXCEPT !.pc = "next", !.written = @ + 1] \in I
  <2> DEFINE j == [i EXCEPT !.pc = "next"]
  <2>1. j \in I /\ j.written = i.written
    BY DEF InputPcs
  <2> HIDE DEF j
  <2>2. [j EXCEPT !.written = i.written + 1] \in I
    BY <2>1
  <2> QED
    BY <2>2 DEF j
<1> QED
  BY <1>1, <1>2, <1>3

LEMMA NextInv == Inv /\ [Next]_vars => Inv' /\ RunStep
<1> SUFFICES ASSUME Inv, [Next]_vars PROVE Inv' /\ RunStep
  OBVIOUS
<1>a. run \in RunState /\ LedgerOK(run) /\ ClosedOK(run) /\ RunOK(run)
  BY DEF Inv, RunOK
<1>s. SectionOK(run, run)
  BY <1>a DEF SectionOK, Step, EndsDue, RunState
\* The reader's own steps.
<1>1. ASSUME NEW f \in Frames, ReadFrame(f) PROVE Inv' /\ RunStep
  <2>1. ActorsOK'
    BY <1>1 DEF Inv, ActorsOK, ReadFrame
  <2> QED
    BY <1>1, <1>s, <2>1, SectionKeepsRun DEF Inv, ReadFrame
<1>2. CASE MirrorFlushed
  <2>1. ActorsOK'
    BY <1>2 DEF Inv, ActorsOK, MirrorFlushed
  <2> QED
    BY <1>2, <1>s, <2>1, SectionKeepsRun DEF Inv, MirrorFlushed, ActorsOK
<1>3. CASE HandleFrame
  <2>1. ActorsOK'
    BY <1>3 DEF Inv, ActorsOK, HandleFrame
  <2>2. reader.frame \in Frames
    BY <1>3 DEF Inv, ActorsOK, HandleFrame
  <2>3. SectionOK(run, run')
    BY <1>3, <1>a, <2>2, AfterFrameOK DEF HandleFrame
  <2>4. reader'.pc # "gone" /\ firings' = firings
    BY <1>3 DEF HandleFrame
  <2> QED
    BY <2>1, <2>3, <2>4, SectionKeepsRun DEF Inv
<1>4. CASE ForwardFrame
  <2>1. ActorsOK'
    BY <1>4 DEF Inv, ActorsOK, ForwardFrame
  <2> QED
    BY <1>4, <1>s, <2>1, SectionKeepsRun DEF Inv, ForwardFrame, ActorsOK
<1>5. ASSUME NEW reason, ReaderExit(reason) PROVE Inv' /\ RunStep
  <2>1. ActorsOK'
    BY <1>5 DEF Inv, ActorsOK, ReaderExit
  <2> QED
    BY <1>5, <1>a, <2>1, FinalizeKeepsRun DEF Inv, ActorsOK, ReaderExit
<1>6. CASE StdoutEnds
  <2>1. ActorsOK'
    BY <1>6 DEF Inv, ActorsOK, StdoutEnds
  <2> QED
    BY <1>6, <1>s, <2>1, SectionKeepsRun DEF Inv, StdoutEnds
\* The timer.
<1>7. CASE CeilingExpires
  <2>1. ActorsOK'
    BY <1>7 DEF Inv, ActorsOK, CeilingExpires
  <2>2. FiringsOK'
    <3>1. run.ceilingTimer = run.ceilingGeneration /\ run.ceilingGeneration \in Nat
      BY <1>7, <1>a DEF CeilingExpires, RunOK, TimerOK, RunState
    <3> QED
      BY <1>7, <3>1 DEF Inv, FiringsOK, CeilingExpires, NoTimer
  <2> QED
    BY <1>7, <2>1, <2>2 DEF Inv, GoneMeansOver, CeilingExpires, RunStep, EndsDue
<1>8. ASSUME NEW g \in firings, EndRunAtCeiling(g) PROVE Inv' /\ RunStep
  <2>1. ActorsOK'
    BY <1>8 DEF Inv, ActorsOK, EndRunAtCeiling
  <2>2. CASE g # run.ceilingGeneration
    BY <1>8, <1>s, <2>1, <2>2, SectionKeepsRun DEF Inv, EndRunAtCeiling
  <2>3. CASE g = run.ceilingGeneration
    <3> DEFINE t == [run EXCEPT !.ceilingTimer = NoTimer]
               m == MaybeEndRun(t)
    <3>0. run.resultReceived
      BY <1>a, <2>3 DEF Inv, FiringsOK, RunOK, TimerOK
    <3>1. /\ t \in RunState
          /\ t.resultReceived
          /\ t.ceilingTimer = NoTimer
          /\ t.ceilingGeneration = run.ceilingGeneration
          /\ t.runFinal = run.runFinal
          /\ t.runEnded = run.runEnded
          /\ t.inflightTasks = run.inflightTasks
          /\ t.closed = run.closed
      BY <1>a, <3>0 DEF RunState, NoTimer
    <3>2. run' = m /\ firings' = firings \ {g} /\ reader' = reader
      BY <1>8, <2>3 DEF EndRunAtCeiling
    <3> HIDE DEF t
    <3>3. RunOK(t)
      BY <1>a, <3>1 DEF RunOK, TimerOK, ClosedOK, LedgerOK
    <3>4. RunOK(m) /\ Step(t, m) /\ EndsDue(t, m)
      BY <3>1, <3>3, MaybeEndOK
    <3> HIDE DEF m
    <3>5. GoneMeansOver' /\ RunStep
      BY <3>1, <3>2, <3>4 DEF Inv, GoneMeansOver, RunStep, Step, EndsDue
    <3>6. FiringsOK'
      <4> SUFFICES ASSUME NEW h \in firings \ {g}
                   PROVE  /\ h \in Nat /\ h # NoTimer
                          /\ h <= m.ceilingGeneration
                          /\ h # m.ceilingGeneration
        BY <3>2 DEF FiringsOK
      <4>1. h \in Nat /\ h # NoTimer /\ h <= run.ceilingGeneration /\ h # run.ceilingGeneration
        BY <2>3 DEF Inv, FiringsOK
      <4>2. run.ceilingGeneration \in Nat /\ m.ceilingGeneration \in Nat
            /\ m.ceilingGeneration >= run.ceilingGeneration
        BY <1>a, <3>1, <3>4 DEF RunOK, RunState, Step
      <4> QED
        BY <4>1, <4>2
    <3> QED
      BY <2>1, <3>2, <3>4, <3>5, <3>6 DEF Inv
  <2> QED
    BY <2>2, <2>3
\* The input goroutine.
<1>9. CASE StreamNext
  <2> DEFINE I == [pc : InputPcs, ch : Nat, written : Nat, prompts : Nat]
  <2>i. input \in I /\ AfterLoop \in InputPcs
    BY DEF Inv, ActorsOK, AfterLoop, InputPcs
  <2>n. input' \in I
    BY <1>9, <2>i, InputOK DEF StreamNext
  <2>1. ActorsOK'
    BY <1>9, <2>n DEF Inv, ActorsOK, StreamNext
  <2>2. SectionOK(run, run')
    BY <1>9, <1>a, <1>s, OweRunOK DEF StreamNext
  <2> QED
    BY <1>9, <2>1, <2>2, SectionKeepsRun DEF Inv, StreamNext
<1>10. CASE StreamWritten \/ StreamSkipped \/ StreamWriteFails \/ StreamEnds
  <2> DEFINE I == [pc : InputPcs, ch : Nat, written : Nat, prompts : Nat]
  <2>i. input \in I /\ AfterLoop \in InputPcs /\ "next" \in InputPcs
    BY DEF Inv, ActorsOK, AfterLoop, InputPcs
  <2>n. input' \in I
    BY <1>10, <2>i, InputOK DEF StreamWritten, StreamSkipped, StreamWriteFails, StreamEnds
  <2>1. ActorsOK'
    BY <1>10, <2>n DEF Inv, ActorsOK, StreamWritten, StreamSkipped, StreamWriteFails, StreamEnds
  <2>2. run' = run /\ firings' = firings /\ reader' = reader
    BY <1>10 DEF StreamWritten, StreamSkipped, StreamWriteFails, StreamEnds
  <2> QED
    BY <1>s, <2>1, <2>2, SectionKeepsRun DEF Inv
<1>11. CASE NothingWritten
  <2>1. ActorsOK'
    BY <1>11 DEF Inv, ActorsOK, NothingWritten, InputPcs
  <2> DEFINE f == [run EXCEPT !.runFinal = TRUE]
  <2>2. SectionOK(run, f)
    <3>1. /\ f \in RunState
          /\ f.runFinal
          /\ f.runEnded = run.runEnded
          /\ f.resultReceived = run.resultReceived
          /\ f.turnInProgress = run.turnInProgress
          /\ f.sessionState = run.sessionState
          /\ f.ceilingTimer = run.ceilingTimer
          /\ f.ceilingGeneration = run.ceilingGeneration
          /\ f.inflightTasks = run.inflightTasks
          /\ f.closed = run.closed
      BY <1>a DEF RunState
    <3> HIDE DEF f
    <3>2. RunOK(f)
      BY <1>a, <3>1 DEF RunOK, TimerOK, ClosedOK, LedgerOK
    <3>3. Step(run, f) /\ EndsDue(run, f)
      BY <1>a, <3>1 DEF Step, EndsDue, RunState
    <3> QED
      BY <3>2, <3>3 DEF SectionOK
  <2> QED
    BY <1>11, <2>1, <2>2, SectionKeepsRun DEF Inv, NothingWritten
<1>12. CASE SnapshotRunEnded \/ WaiterWakes \/ EndInput
  <2>1. ActorsOK'
    BY <1>12, <1>a, ZenonT(60) DEF Inv, ActorsOK, SnapshotRunEnded, WaiterWakes, EndInput, InputPcs, RunState
  <2>2. run' = run /\ firings' = firings /\ reader' = reader
    BY <1>12 DEF SnapshotRunEnded, WaiterWakes, EndInput
  <2> QED
    BY <1>s, <2>1, <2>2, SectionKeepsRun DEF Inv
<1>13. CASE WaiterMakesFinal
  <2>1. ActorsOK'
    BY <1>13 DEF Inv, ActorsOK, WaiterMakesFinal, InputPcs
  <2> DEFINE f == [run EXCEPT !.runFinal = TRUE]
             c == ClearRunEndCeiling(f)
  <2>2. /\ f \in RunState
        /\ f.runFinal
        /\ f.runEnded = run.runEnded
        /\ f.ceilingGeneration = run.ceilingGeneration
        /\ f.inflightTasks = run.inflightTasks
        /\ f.closed = run.closed
    BY <1>a DEF RunState
  <2>3. SectionOK(run, c)
    <3> HIDE DEF f
    <3>1. RunOK(c) /\ Step(f, c) /\ c.runEnded = f.runEnded
          /\ c.ceilingGeneration = f.ceilingGeneration + 1
      BY <1>a, <2>2, ClearKeepsOK, ClearOK DEF ClosedOK, LedgerOK
    <3> HIDE DEF c
    <3>2. Step(run, c) /\ EndsDue(run, c)
      BY <1>a, <2>2, <3>1 DEF Step, EndsDue, RunState
    <3> QED
      BY <3>1, <3>2 DEF SectionOK
  <2> QED
    BY <1>13, <2>1, <2>3, SectionKeepsRun DEF Inv, WaiterMakesFinal
\* Close and the rest.
<1>14. CASE Close
  <2>1. ActorsOK'
    BY <1>14 DEF Inv, ActorsOK, Close
  <2> DEFINE r == [run EXCEPT !.closed = TRUE]
  <2>2. r \in RunState /\ LedgerOK(r) /\ r.ceilingGeneration = run.ceilingGeneration /\ r.closed
    BY <1>a DEF RunState, LedgerOK
  <2>3. run' = Finalize(r) /\ firings' = firings
    BY <1>14 DEF Close
  <2> HIDE DEF r
  <2> QED
    BY <2>1, <2>2, <2>3, FinalizeKeepsRun DEF Inv
<1>15. CASE CloseTransport
  <2>1. ActorsOK'
    BY <1>15 DEF Inv, ActorsOK, CloseTransport
  <2> QED
    BY <1>15, <1>s, <2>1, SectionKeepsRun DEF Inv, CloseTransport
<1>16. CASE Terminated \/ UNCHANGED vars
  <2>1. UNCHANGED vars
    BY <1>16 DEF Terminated
  <2>2. ActorsOK'
    BY <2>1 DEF Inv, ActorsOK, vars
  <2> QED
    BY <1>s, <2>1, <2>2, SectionKeepsRun DEF Inv, vars
<1> QED
  BY <1>1, <1>2, <1>3, <1>4, <1>5, <1>6, <1>7, <1>8, <1>9, <1>10, <1>11, <1>12,
     <1>13, <1>14, <1>15, <1>16
  DEF Next, HandleStep, Callback, StreamStep, WaiterStep

-----------------------------------------------------------------------------
(* The theorems. *)

THEOREM Invariance == Spec => []Inv
<1> QED
  BY InitInv, NextInv, PTL DEF Spec

\* The state has its types, and the in-flight ledger stays within its cap
\* (query.go:855).
THEOREM TypeCorrect == Spec => []TypeOK
<1>1. Inv => TypeOK
  BY DEF Inv, TypeOK, RunOK, LedgerOK, ActorsOK, FiringsOK
<1> QED
  BY <1>1, Invariance, PTL

\* A ceiling that may still end the run is set only in the wait between turns
\* (query.go:1055-1059).
THEOREM CeilingCounts == Spec => []CeilingOnlyBetweenTurns
<1>1. Inv => CeilingOnlyBetweenTurns
  <2> SUFFICES ASSUME Inv, run.ceilingTimer # NoTimer \/ run.ceilingGeneration \in firings
               PROVE  /\ run.resultReceived
                      /\ ~run.turnInProgress
                      /\ run.sessionState # "requires_action"
                      /\ ~run.runEnded
                      /\ ~run.closed
    BY DEF CeilingOnlyBetweenTurns
  <2>1. run.ceilingTimer # NoTimer
    BY DEF Inv, FiringsOK
  <2> QED
    BY <2>1 DEF Inv, RunOK, TimerOK
<1> QED
  BY <1>1, Invariance, PTL

\* A gone reader or a closed query leaves the run final and ended
\* (query.go:1308-1314, 748-754).
THEOREM OverOnceGone == Spec => []GoneMeansOver
<1>1. Inv => GoneMeansOver
  BY DEF Inv
<1> QED
  BY <1>1, Invariance, PTL

\* A run that is over and final is never reopened (query.go:233-235).
THEOREM FinalForGood == Spec => FinalRunStaysEnded
<1>1. Inv /\ [Next]_vars =>
        [run.runFinal /\ run.runEnded => run'.runFinal /\ run'.runEnded]_vars
  BY NextInv DEF RunStep
<1> QED
  BY <1>1, Invariance, PTL DEF Spec, FinalRunStaysEnded

\* A run ends after the result it owes with a drained or overflowed ledger, or
\* because the reader is gone or the query closed (query.go:906-920, 990-1013).
THEOREM EndsWhenDue == Spec => EndsOnlyWhenDue
<1>1. Inv /\ [Next]_vars =>
        [~run.runEnded /\ run'.runEnded =>
           \/ run'.resultReceived /\ LedgerAllowsEnd(run')
           \/ reader'.pc = "gone"
           \/ run'.closed]_vars
  BY NextInv DEF RunStep, EndsDue
<1> QED
  BY <1>1, Invariance, PTL DEF Spec, EndsOnlyWhenDue

-----------------------------------------------------------------------------
(* Sessions (CliSession): what a frame does to the fields a session turns on: *)
(* the state last reported, the result, the ledger, whether the run ended.   *)

Says(f, state)  == f.type = "state" /\ f.state = state
IsResult(f)     == f.type = "result"
Announces(f, t) == f.type = "task_started" /\ f.task = t
Settles(f, t)   == f.type = "task_notification" /\ f.task = t

\* The run ended at least once: a channel a waiter may hold is closed.
HasEnded(r) == r.runEnded \/ r.runEndedCh > 0

KeepsLedger(r, s) ==
  s.inflightTasks = r.inflightTasks /\ s.taskLedgerOverflowed = r.taskLedgerOverflowed

KeepsReport(r, s) == s.sessionState = r.sessionState /\ s.resultReceived = r.resultReceived

\* An operation that leaves these fields alone and ends no run.
Calm(r, s) ==
  s \in RunState /\ KeepsLedger(r, s) /\ KeepsReport(r, s) /\ (HasEnded(s) => HasEnded(r))

LEMMA CalmTrans ==
  ASSUME NEW r, NEW s, NEW u, Calm(r, s), Calm(s, u)
  PROVE  Calm(r, u)
BY DEF Calm, KeepsLedger, KeepsReport

LEMMA CalmSelf == ASSUME NEW r \in RunState PROVE Calm(r, r)
BY DEF Calm, KeepsLedger, KeepsReport

LEMMA ClearCalm ==
  ASSUME NEW r \in RunState
  PROVE  Calm(r, ClearRunEndCeiling(r))
<1>1. ClearRunEndCeiling(r).runEndedCh = r.runEndedCh
  BY DEF ClearRunEndCeiling, RunState
<1> QED
  BY <1>1, ClearOK DEF Calm, KeepsLedger, KeepsReport, HasEnded

LEMMA ReopenCalm ==
  ASSUME NEW r \in RunState
  PROVE  Calm(r, ReopenRun(r))
<1>1. HasEnded(ReopenRun(r)) => HasEnded(r)
  <2>1. CASE r.runEnded
    BY <2>1 DEF HasEnded
  <2>2. CASE ~r.runEnded
    BY <2>2 DEF ReopenRun
  <2> QED BY <2>1, <2>2
<1> QED
  BY <1>1, ReopenOK DEF Calm, KeepsLedger, KeepsReport

LEMMA ArmCalm ==
  ASSUME NEW r \in RunState
  PROVE  Calm(r, ArmRunEndCeiling(r))
<1> DEFINE c == ClearRunEndCeiling(r)
           a == [c EXCEPT !.ceilingTimer = c.ceilingGeneration]
<1>1. c \in RunState /\ Calm(r, c)
  BY ClearOK, ClearCalm
<1>2. Calm(c, a)
  <2> HIDE DEF c
  <2> QED BY <1>1 DEF Calm, KeepsLedger, KeepsReport, HasEnded, RunState
<1>3. ArmRunEndCeiling(r) = a \/ ArmRunEndCeiling(r) = c
  BY DEF ArmRunEndCeiling
<1>4. Calm(r, a)
  <2> HIDE DEF a, c
  <2> QED BY <1>1, <1>2, CalmTrans
<1> HIDE DEF a, c
<1> QED
  BY <1>1, <1>3, <1>4

LEMMA RearmCalm ==
  ASSUME NEW r \in RunState
  PROVE  Calm(r, RearmRunEndCeilingBetweenTurns(r))
BY ArmCalm, CalmSelf DEF RearmRunEndCeilingBetweenTurns

\* MaybeEndRun leaves them alone too, and ends a run only if the ledger allows it.
LEMMA MaybeEndView ==
  ASSUME NEW r \in RunState
  PROVE  /\ MaybeEndRun(r) \in RunState
         /\ KeepsLedger(r, MaybeEndRun(r))
         /\ KeepsReport(r, MaybeEndRun(r))
         /\ HasEnded(MaybeEndRun(r)) => HasEnded(r) \/ LedgerAllowsEnd(r)
<1>1. CASE LedgerAllowsEnd(r)
  <2>1. MaybeEndRun(r) = EndRun(r)
    BY <1>1 DEF MaybeEndRun
  <2>2. EndRun(r).sessionState = r.sessionState
    <3> DEFINE c == ClearRunEndCeiling(r)
    <3>1. c \in RunState /\ c.sessionState = r.sessionState
      BY ClearOK
    <3>2. EndRun(r) = [c EXCEPT !.runEnded = TRUE]
      BY DEF EndRun
    <3> HIDE DEF c
    <3> QED BY <3>1, <3>2 DEF RunState
  <2> QED
    BY <1>1, <2>1, <2>2, EndRunOK DEF KeepsLedger, KeepsReport
<1>2. CASE ~LedgerAllowsEnd(r)
  BY <1>2 DEF MaybeEndRun, KeepsLedger, KeepsReport
<1> QED
  BY <1>1, <1>2


\* The frames of a session; ControlFrame, which the read loop hands to a
\* handler, is none of RunEnd's.
SessionFrames ==
  [type : {"state"}, state : SessionStates \ {NoState}, hostOnly : BOOLEAN] \cup
  [type : {"task_started"}, task : Tasks, taskType : DeferringTaskTypes] \cup
  [type : {"task_notification"}, task : Tasks] \cup
  TurnFrames \cup [type : {"result"}]

Busy(state) == state \in {"running", "requires_action"}

\* Frame f, handled, takes the guarded state from r to s.
FrameView(r, f, s) ==
  /\ s \in RunState
  /\ s.sessionState = IF f.type = "state" THEN f.state ELSE r.sessionState
  /\ s.resultReceived <=> r.resultReceived \/ IsResult(f)
  /\ r.taskLedgerOverflowed => s.taskLedgerOverflowed
  /\ HasEnded(s) => \/ HasEnded(r)
                    \/ LedgerAllowsEnd(r) /\ Says(f, "idle") /\ r.resultReceived
                    \/ LedgerAllowsEnd(r) /\ IsResult(f) /\ ~Busy(r.sessionState)
  /\ \A t \in Tasks :
       /\ t \in r.inflightTasks /\ ~Settles(f, t) => t \in s.inflightTasks
       /\ Announces(f, t) => t \in s.inflightTasks \/ s.taskLedgerOverflowed

LEMMA SessionFramesAreFrames == SessionFrames \subseteq Frames
<1> SUFFICES ASSUME NEW f \in SessionFrames PROVE f \in Frames
  OBVIOUS
<1>1. CASE f \in [type : {"task_started"}, task : Tasks, taskType : DeferringTaskTypes]
  BY <1>1, RunEndAssumption DEF Frames, TaskFrames
<1> QED
  BY <1>1 DEF SessionFrames, Frames, StateFrames, TaskFrames, TurnFrames, PlainFrames

LEMMA StateView ==
  ASSUME NEW r \in RunState, NEW f, f.type = "state", f.state \in SessionStates \ {NoState}
  PROVE  FrameView(r, f, AfterFrame(r, f))
<1> DEFINE state == f.state
           s == [r EXCEPT !.sessionState = state]
           a == AfterFrame(r, f)
<1>1. /\ s \in RunState
      /\ s.sessionState = state
      /\ s.resultReceived = r.resultReceived
      /\ KeepsLedger(r, s)
      /\ HasEnded(s) => HasEnded(r)
  BY DEF RunState, KeepsLedger, HasEnded
<1>2. a = OnSessionState(r, state)
  BY DEF AfterFrame
<1>3. /\ state = "idle" => a = IF s.resultReceived THEN MaybeEndRun(s) ELSE s
      /\ state = "requires_action" => a = ClearRunEndCeiling(ReopenRun(s))
      /\ state \notin {"idle", "requires_action"} => a = RearmRunEndCeilingBetweenTurns(ReopenRun(s))
  <2> HIDE DEF a
  <2> QED BY <1>2 DEF OnSessionState
<1> HIDE DEF s, a
<1>4. /\ a \in RunState
      /\ KeepsLedger(s, a)
      /\ KeepsReport(s, a)
      /\ HasEnded(a) => HasEnded(s) \/ (LedgerAllowsEnd(s) /\ state = "idle" /\ s.resultReceived)
  <2>1. CASE state = "idle" /\ s.resultReceived
    BY <1>1, <1>3, <2>1, MaybeEndView
  <2>2. CASE state = "idle" /\ ~s.resultReceived
    BY <1>1, <1>3, <2>2, CalmSelf DEF Calm
  <2>3. CASE state = "requires_action"
    <3> DEFINE o == ReopenRun(s)
    <3>1. o \in RunState /\ Calm(s, o)
      BY <1>1, ReopenCalm, ReopenOK
    <3>2. a = ClearRunEndCeiling(o)
      BY <1>3, <2>3
    <3> HIDE DEF o
    <3>3. Calm(o, a)
      BY <3>1, <3>2, ClearCalm
    <3>4. Calm(s, a)
      BY <3>1, <3>3, CalmTrans
    <3> QED BY <3>4 DEF Calm
  <2>4. CASE state \notin {"idle", "requires_action"}
    <3> DEFINE o == ReopenRun(s)
    <3>1. o \in RunState /\ Calm(s, o)
      BY <1>1, ReopenCalm, ReopenOK
    <3>2. a = RearmRunEndCeilingBetweenTurns(o)
      BY <1>3, <2>4
    <3> HIDE DEF o
    <3>3. Calm(o, a)
      BY <3>1, <3>2, RearmCalm
    <3>4. Calm(s, a)
      BY <3>1, <3>3, CalmTrans
    <3> QED BY <3>4 DEF Calm
  <2> QED BY <2>1, <2>2, <2>3, <2>4
<1> QED
  BY <1>1, <1>4 DEF a, FrameView, KeepsLedger, KeepsReport, LedgerAllowsEnd, Says, IsResult, Announces, Settles

LEMMA ResultView ==
  ASSUME NEW r \in RunState, NEW f, f.type = "result", BidirectionalNeeds
  PROVE  FrameView(r, f, AfterFrame(r, f))
<1> DEFINE u == [r EXCEPT !.resultReceived = TRUE]
           t == [u EXCEPT !.turnInProgress = FALSE]
           a == AfterFrame(r, f)
<1>1. /\ t \in RunState
      /\ t.resultReceived
      /\ t.sessionState = r.sessionState
      /\ KeepsLedger(r, t)
      /\ HasEnded(t) => HasEnded(r)
  <2>1. /\ u \in RunState
        /\ u.resultReceived
        /\ u.sessionState = r.sessionState
        /\ KeepsLedger(r, u)
        /\ HasEnded(u) => HasEnded(r)
    BY DEF RunState, KeepsLedger, HasEnded
  <2> HIDE DEF u
  <2> QED BY <2>1 DEF RunState, KeepsLedger, HasEnded
<1>2. a = AfterResult(r)
  BY DEF AfterFrame
<1>3. \/ a = MaybeEndRun(t) /\ t.sessionState \in {NoState, "idle"}
      \/ a = ArmRunEndCeiling(t)
      \/ a = t
  <2> DEFINE ends == t.sessionState \in {NoState, "idle"} \/ ~BidirectionalNeeds
             arms == t.sessionState = "running" /\ BidirectionalNeeds
  <2>1. AfterResult(r) = CASE ends -> MaybeEndRun(t)
                           [] arms -> ArmRunEndCeiling(t)
                           [] OTHER -> t
    BY DEF AfterResult
  <2>2. ~(ends /\ arms)
    BY DEF NoState
  <2>3. ends => t.sessionState \in {NoState, "idle"}
    OBVIOUS
  <2> HIDE DEF t, u, ends, arms, a
  <2> QED BY <1>2, <2>1, <2>2, <2>3
<1> HIDE DEF t, u, a
<1>4. /\ a \in RunState
      /\ KeepsLedger(t, a)
      /\ KeepsReport(t, a)
      /\ HasEnded(a) => HasEnded(t) \/ (LedgerAllowsEnd(t) /\ t.sessionState \in {NoState, "idle"})
  <2>1. CASE a = MaybeEndRun(t) /\ t.sessionState \in {NoState, "idle"}
    BY <1>1, <2>1, MaybeEndView
  <2>2. CASE a = ArmRunEndCeiling(t) \/ a = t
    BY <1>1, <2>2, ArmCalm, CalmSelf DEF Calm
  <2> QED BY <1>3, <2>1, <2>2
<1> QED
  BY <1>1, <1>4 DEF a, FrameView, KeepsLedger, KeepsReport, LedgerAllowsEnd, Says, IsResult, Announces,
                    Settles, Busy, NoState

LEMMA TurnView ==
  ASSUME NEW r \in RunState, NEW f \in TurnFrames
  PROVE  FrameView(r, f, AfterFrame(r, f))
<1> DEFINE t == [r EXCEPT !.turnInProgress = TRUE]
           o == ReopenRun(t)
           c == ClearRunEndCeiling(o)
           a == AfterFrame(r, f)
<1>1. t \in RunState /\ Calm(r, t)
  BY DEF RunState, Calm, KeepsLedger, KeepsReport, HasEnded
<1>2. a = r \/ a = c
  BY DEF AfterFrame, AfterTurnFrame, TurnFrames
<1> HIDE DEF t
<1>3. o \in RunState /\ Calm(t, o)
  BY <1>1, ReopenCalm, ReopenOK
<1> HIDE DEF o
<1>4. Calm(o, c)
  BY <1>3, ClearCalm
<1> HIDE DEF c, a
<1>5. Calm(r, c)
  BY <1>1, <1>3, <1>4, CalmTrans
<1>6. Calm(r, a)
  BY <1>2, <1>5, CalmSelf
<1> QED
  BY <1>6 DEF a, Calm, FrameView, KeepsLedger, KeepsReport, Says, IsResult, Announces, Settles, TurnFrames

LEMMA TaskView ==
  ASSUME NEW r \in RunState, NEW f \in SessionFrames, f.type \in {"task_started", "task_notification"}
  PROVE  FrameView(r, f, AfterFrame(r, f))
<1> DEFINE over == [r EXCEPT !.taskLedgerOverflowed = TRUE]
           more == [r EXCEPT !.inflightTasks = @ \cup {f.task}]
           less == [r EXCEPT !.inflightTasks = @ \ {f.task}]
           t == TrackSystemFrame(r, f)
           a == AfterFrame(r, f)
<1>1. f.task \in Tasks /\ (f.type = "task_started" => f.taskType \in DeferringTaskTypes)
  BY DEF SessionFrames, TurnFrames
<1>2. /\ f.type = "task_started" => t = over \/ t = more
      /\ f.type = "task_notification" => t = less
  BY <1>1 DEF TrackSystemFrame
<1>3. /\ over \in RunState /\ more \in RunState /\ less \in RunState
      /\ KeepsReport(r, over) /\ KeepsReport(r, more) /\ KeepsReport(r, less)
      /\ HasEnded(over) => HasEnded(r)
      /\ HasEnded(more) => HasEnded(r)
      /\ HasEnded(less) => HasEnded(r)
      /\ over.taskLedgerOverflowed /\ over.inflightTasks = r.inflightTasks
      /\ more.taskLedgerOverflowed = r.taskLedgerOverflowed
      /\ more.inflightTasks = r.inflightTasks \cup {f.task}
      /\ less.taskLedgerOverflowed = r.taskLedgerOverflowed
      /\ less.inflightTasks = r.inflightTasks \ {f.task}
  BY <1>1 DEF RunState, KeepsReport, HasEnded
<1>4. a = t \/ a = RearmRunEndCeilingBetweenTurns(t)
  BY DEF AfterFrame, AfterTaskFrame
<1> HIDE DEF over, more, less, t, a
<1>5. t \in RunState /\ KeepsReport(r, t) /\ (HasEnded(t) => HasEnded(r))
  BY <1>2, <1>3
<1>6. Calm(t, a)
  BY <1>4, <1>5, CalmSelf, RearmCalm
<1>7. FrameView(r, f, t)
  <2>1. CASE f.type = "task_started"
    BY <1>2, <1>3, <2>1 DEF FrameView, KeepsReport, Says, IsResult, Announces, Settles
  <2>2. CASE f.type = "task_notification"
    BY <1>2, <1>3, <2>2 DEF FrameView, KeepsReport, Says, IsResult, Announces, Settles
  <2> QED BY <2>1, <2>2
<1> QED
  BY <1>6, <1>7 DEF a, Calm, FrameView, KeepsLedger, KeepsReport

LEMMA AfterFrameView ==
  ASSUME BidirectionalNeeds, NEW r \in RunState, NEW f \in SessionFrames
  PROVE  FrameView(r, f, AfterFrame(r, f))
<1>1. \/ f.type = "state" /\ f.state \in SessionStates \ {NoState}
      \/ f.type \in {"task_started", "task_notification"}
      \/ f \in TurnFrames
      \/ f.type = "result"
  BY DEF SessionFrames
<1> QED
  BY <1>1, StateView, TaskView, TurnView, ResultView


-----------------------------------------------------------------------------
(* Frames on their way: what is pending in the order it will be handled.     *)

Lines == SessionFrames \cup {ControlFrame}

NoResult(p) == \A i \in 1..Len(p) : ~IsResult(p[i])

LEMMA TailAt ==
  ASSUME NEW S, NEW p \in Seq(S), p # <<>>
  PROVE  /\ Tail(p) \in Seq(S)
         /\ p[1] \in S /\ 1 \in 1..Len(p)
         /\ Len(p) \in Nat
         /\ Len(Tail(p)) = Len(p) - 1
         /\ \A i \in 1..Len(Tail(p)) : Tail(p)[i] = p[i + 1] /\ i + 1 \in 1..Len(p)
OBVIOUS

LEMMA JoinAt ==
  ASSUME NEW S, NEW p \in Seq(S), NEW q \in Seq(S)
  PROVE  /\ p \o q \in Seq(S)
         /\ Len(p) \in Nat /\ Len(q) \in Nat
         /\ Len(p \o q) = Len(p) + Len(q)
         /\ \A i \in 1..Len(p) : (p \o q)[i] = p[i]
         /\ \A k \in 1..Len(q) : (p \o q)[Len(p) + k] = q[k]
         /\ \A i \in 1..Len(p \o q) : i \in 1..Len(p) \/ (i - Len(p) \in 1..Len(q) /\ (p \o q)[i] = q[i - Len(p)])
OBVIOUS

\* With a CLI that reports its state, and turns still to come: after a result
\* the SDK knows the CLI to be at work, it will before it handles a pending
\* result, and "idle" is pending only as the report of a CLI that has just begun.
ReportOK(p, state, resultReceived, phase) ==
  /\ resultReceived => Busy(state)
  /\ \A i \in 1..Len(p) : Says(p[i], "idle") => i = 1 /\ state = NoState /\ ~resultReceived
  /\ \A i \in 1..Len(p) : IsResult(p[i]) => Busy(state) \/ \E j \in 1..i : Says(p[j], "running")
  /\ phase # "idle" => Busy(state) \/ \E j \in 1..Len(p) : Says(p[j], "running")

LEMMA ReportHandles ==
  ASSUME NEW p \in Seq(Lines), p # <<>>, NEW r, NEW s, FrameView(r, p[1], s), NEW phase,
         ReportOK(p, r.sessionState, r.resultReceived, phase)
  PROVE  /\ ReportOK(Tail(p), s.sessionState, s.resultReceived, phase)
         /\ HasEnded(s) => HasEnded(r)
<1> DEFINE t == Tail(p)
           f == p[1]
<1>1. /\ t \in Seq(Lines) /\ f \in Lines /\ 1 \in 1..Len(p)
      /\ Len(t) \in Nat /\ Len(p) \in Nat /\ Len(p) = Len(t) + 1
      /\ \A i \in 1..Len(t) : t[i] = p[i + 1] /\ i + 1 \in 1..Len(p)
      /\ \A i \in 1..Len(p) : i = 1 \/ i - 1 \in 1..Len(t)
  BY TailAt
<1>2. /\ s.sessionState = IF f.type = "state" THEN f.state ELSE r.sessionState
      /\ s.resultReceived <=> r.resultReceived \/ IsResult(f)
      /\ HasEnded(s) => \/ HasEnded(r)
                        \/ Says(f, "idle") /\ r.resultReceived
                        \/ IsResult(f) /\ ~Busy(r.sessionState)
  BY DEF FrameView
<1>3. f.type = "state" => f.state \in {"running", "idle", "requires_action"}
  BY <1>1 DEF Lines, SessionFrames, SessionStates, NoState, TurnFrames, ControlFrame
<1>4. /\ Says(f, "idle") => r.sessionState = NoState /\ ~r.resultReceived
      /\ IsResult(f) => Busy(r.sessionState)
  <2>1. ~(IsResult(f) /\ Says(f, "running"))
    BY DEF IsResult, Says
  <2>2. IsResult(f) => Busy(r.sessionState) \/ \E j \in 1..1 : Says(p[j], "running")
    BY <1>1 DEF ReportOK
  <2> QED BY <1>1, <2>1, <2>2 DEF ReportOK
<1>5. /\ Says(f, "running") => Busy(s.sessionState)
      /\ Busy(r.sessionState) => Says(f, "idle") \/ Busy(s.sessionState)
      /\ ~Busy(NoState)
  BY <1>2, <1>3 DEF Says, Busy, NoState
<1> HIDE DEF t, f
<1>6. ASSUME NEW i \in 1..Len(p), Busy(r.sessionState) \/ \E j \in 1..i : Says(p[j], "running")
      PROVE  Busy(s.sessionState) \/ \E j \in 1..(i - 1) : Says(t[j], "running")
  <2>1. CASE Busy(r.sessionState)
    BY <1>4, <1>5, <2>1
  <2>2. CASE Says(f, "running")
    BY <1>5, <2>2
  <2>3. ASSUME NEW j \in 1..i, Says(p[j], "running"), ~Says(f, "running")
        PROVE  \E k \in 1..(i - 1) : Says(t[k], "running")
    <3>1. j # 1 /\ j \in 1..Len(p) /\ j - 1 \in 1..Len(t)
      BY <1>1, <2>3 DEF f
    <3>2. t[j - 1] = p[j] /\ j - 1 \in 1..(i - 1)
      BY <1>1, <3>1
    <3> QED BY <2>3, <3>2
  <2> QED BY <1>6, <2>1, <2>2, <2>3
<1>7. s.resultReceived => Busy(s.sessionState)
  BY <1>2, <1>4, <1>5 DEF ReportOK, Says, IsResult
<1>8. \A i \in 1..Len(t) : ~Says(t[i], "idle")
  BY <1>1 DEF ReportOK
<1>9. ASSUME NEW i \in 1..Len(t), IsResult(t[i])
      PROVE  Busy(s.sessionState) \/ \E j \in 1..i : Says(t[j], "running")
  <2>1. i + 1 \in 1..Len(p) /\ p[i + 1] = t[i] /\ (i + 1) - 1 = i
    BY <1>1
  <2>2. Busy(r.sessionState) \/ \E j \in 1..(i + 1) : Says(p[j], "running")
    BY <1>9, <2>1 DEF ReportOK
  <2> QED BY <1>6, <2>1, <2>2
<1>10. phase # "idle" => Busy(s.sessionState) \/ \E j \in 1..Len(t) : Says(t[j], "running")
  <2>1. Len(p) \in 1..Len(p) /\ Len(p) - 1 = Len(t)
    BY <1>1
  <2>2. phase # "idle" => Busy(r.sessionState) \/ \E j \in 1..Len(p) : Says(p[j], "running")
    BY DEF ReportOK
  <2> QED BY <1>6, <2>1, <2>2
<1>11. HasEnded(s) => HasEnded(r)
  BY <1>2, <1>4
<1> QED
  BY <1>7, <1>8, <1>9, <1>10, <1>11 DEF ReportOK, t

LEMMA ReportAppends ==
  ASSUME NEW p \in Seq(Lines), NEW q \in Seq(Lines), NEW state, NEW resultReceived, NEW phase, NEW then,
         ReportOK(p, state, resultReceived, phase),
         \A k \in 1..Len(q) : ~Says(q[k], "idle"),
         NoResult(q) \/ phase # "idle",
         then # "idle" => phase # "idle" \/ \E k \in 1..Len(q) : Says(q[k], "running")
  PROVE  ReportOK(p \o q, state, resultReceived, then)
<1> DEFINE w == p \o q
<1>1. /\ w \in Seq(Lines)
      /\ Len(p) \in Nat /\ Len(q) \in Nat /\ Len(w) = Len(p) + Len(q)
      /\ \A i \in 1..Len(p) : w[i] = p[i]
      /\ \A k \in 1..Len(q) : w[Len(p) + k] = q[k]
      /\ \A i \in 1..Len(w) : i \in 1..Len(p) \/ (i - Len(p) \in 1..Len(q) /\ w[i] = q[i - Len(p)])
  BY JoinAt
<1> HIDE DEF w
<1>2. resultReceived => Busy(state)
  BY DEF ReportOK
<1>3. ASSUME NEW i \in 1..Len(w), Says(w[i], "idle")
      PROVE  i = 1 /\ state = NoState /\ ~resultReceived
  BY <1>1, <1>3 DEF ReportOK
<1>4. phase # "idle" => \A m \in Nat : m >= Len(p) => Busy(state) \/ \E j \in 1..m : Says(w[j], "running")
  BY <1>1 DEF ReportOK
<1>5. ASSUME NEW i \in 1..Len(w), IsResult(w[i])
      PROVE  Busy(state) \/ \E j \in 1..i : Says(w[j], "running")
  <2>1. CASE i \in 1..Len(p)
    <3>1. Busy(state) \/ \E j \in 1..i : Says(p[j], "running")
      BY <1>1, <1>5, <2>1 DEF ReportOK
    <3>2. \A j \in 1..i : w[j] = p[j]
      BY <1>1, <2>1
    <3> QED BY <3>1, <3>2
  <2>2. CASE i \notin 1..Len(p)
    <3>1. i - Len(p) \in 1..Len(q) /\ IsResult(q[i - Len(p)])
      BY <1>1, <1>5, <2>2
    <3>2. phase # "idle"
      BY <3>1 DEF NoResult
    <3> QED BY <1>1, <1>4, <2>2, <3>2, SMTT(60)
  <2> QED BY <2>1, <2>2
<1>6. ASSUME then # "idle" PROVE Busy(state) \/ \E j \in 1..Len(w) : Says(w[j], "running")
  <2>1. CASE phase # "idle"
    BY <1>1, <1>4, <2>1
  <2>2. ASSUME NEW k \in 1..Len(q), Says(q[k], "running")
        PROVE  \E j \in 1..Len(w) : Says(w[j], "running")
    <3>1. Len(p) + k \in 1..Len(w) /\ Says(w[Len(p) + k], "running")
      BY <1>1, <2>2
    <3> QED BY <3>1
  <2> QED BY <1>6, <2>1, <2>2
<1> QED
  BY <1>2, <1>3, <1>5, <1>6 DEF ReportOK, w

\* With a CLI that reports no state: a task still to settle is in the ledger, or
\* is announced ahead of any result.
TasksOK(p, phase, unused, tasks, inflight, over) ==
  /\ \A i \in 1..Len(p) : p[i].type # "state"
  /\ phase = "turn" => NoResult(p)
  /\ \A t \in Tasks :
       /\ ~(t \in unused /\ t \in tasks)
       /\ t \in unused \cup tasks => \A i \in 1..Len(p) : ~Settles(p[i], t)
       /\ t \in tasks => t \in inflight \/ over \/ \E i \in 1..Len(p) : Announces(p[i], t)
       /\ \A j \in 1..Len(p) : Announces(p[j], t) => \A i \in 1..j : ~IsResult(p[i])

LEMMA TasksHandles ==
  ASSUME NEW p \in Seq(Lines), p # <<>>, NEW r, NEW s, FrameView(r, p[1], s),
         NEW phase, NEW unused, NEW tasks, tasks \subseteq Tasks,
         TasksOK(p, phase, unused, tasks, r.inflightTasks, r.taskLedgerOverflowed)
  PROVE  /\ TasksOK(Tail(p), phase, unused, tasks, s.inflightTasks, s.taskLedgerOverflowed)
         /\ HasEnded(s) => HasEnded(r) \/ (phase # "turn" /\ (tasks = {} \/ s.taskLedgerOverflowed))
<1> DEFINE u == Tail(p)
           f == p[1]
<1>1. /\ u \in Seq(Lines) /\ f \in Lines /\ 1 \in 1..Len(p)
      /\ Len(u) \in Nat /\ Len(p) \in Nat /\ Len(p) = Len(u) + 1
      /\ \A i \in 1..Len(u) : u[i] = p[i + 1] /\ i + 1 \in 1..Len(p)
      /\ \A i \in 1..Len(p) : i = 1 \/ i - 1 \in 1..Len(u)
  BY TailAt
<1>2. /\ r.taskLedgerOverflowed => s.taskLedgerOverflowed
      /\ HasEnded(s) => HasEnded(r) \/ (LedgerAllowsEnd(r) /\ (Says(f, "idle") \/ IsResult(f)))
      /\ \A t \in Tasks :
           /\ t \in r.inflightTasks /\ ~Settles(f, t) => t \in s.inflightTasks
           /\ Announces(f, t) => t \in s.inflightTasks \/ s.taskLedgerOverflowed
  BY DEF FrameView
<1> HIDE DEF u, f
<1>3. /\ \A i \in 1..Len(u) : u[i].type # "state"
      /\ phase = "turn" => NoResult(u)
  BY <1>1 DEF TasksOK, NoResult
<1>4. ASSUME NEW t \in Tasks
      PROVE  /\ ~(t \in unused /\ t \in tasks)
             /\ t \in unused \cup tasks => \A i \in 1..Len(u) : ~Settles(u[i], t)
             /\ t \in tasks => t \in s.inflightTasks \/ s.taskLedgerOverflowed
                                 \/ \E i \in 1..Len(u) : Announces(u[i], t)
             /\ \A j \in 1..Len(u) : Announces(u[j], t) => \A i \in 1..j : ~IsResult(u[i])
  <2>1. /\ ~(t \in unused /\ t \in tasks)
        /\ t \in unused \cup tasks => \A i \in 1..Len(p) : ~Settles(p[i], t)
        /\ t \in tasks => t \in r.inflightTasks \/ r.taskLedgerOverflowed
                            \/ \E i \in 1..Len(p) : Announces(p[i], t)
        /\ \A j \in 1..Len(p) : Announces(p[j], t) => \A i \in 1..j : ~IsResult(p[i])
    BY DEF TasksOK
  <2>2. t \in unused \cup tasks => \A i \in 1..Len(u) : ~Settles(u[i], t)
    BY <1>1, <2>1
  <2>3. ASSUME t \in tasks PROVE t \in s.inflightTasks \/ s.taskLedgerOverflowed
                                 \/ \E i \in 1..Len(u) : Announces(u[i], t)
    <3>1. ~Settles(f, t)
      BY <1>1, <2>1, <2>3 DEF f
    <3>2. CASE t \in r.inflightTasks \/ r.taskLedgerOverflowed
      BY <1>2, <3>1, <3>2
    <3>3. ASSUME NEW i \in 1..Len(p), Announces(p[i], t)
          PROVE  t \in s.inflightTasks \/ s.taskLedgerOverflowed
                   \/ \E k \in 1..Len(u) : Announces(u[k], t)
      <4>1. CASE i = 1
        BY <1>2, <3>3, <4>1 DEF f
      <4>2. CASE i # 1
        <5>1. i - 1 \in 1..Len(u) /\ u[i - 1] = p[i]
          BY <1>1, <4>2
        <5> QED BY <3>3, <5>1
      <4> QED BY <4>1, <4>2
    <3> QED BY <2>1, <2>3, <3>2, <3>3
  <2>4. ASSUME NEW j \in 1..Len(u), Announces(u[j], t), NEW i \in 1..j
        PROVE  ~IsResult(u[i])
    <3>1. /\ j + 1 \in 1..Len(p) /\ Announces(p[j + 1], t)
          /\ i + 1 \in 1..(j + 1) /\ i \in 1..Len(u) /\ u[i] = p[i + 1]
      BY <1>1, <2>4
    <3> QED BY <2>1, <3>1
  <2> QED BY <2>1, <2>2, <2>3, <2>4
<1>5. ASSUME HasEnded(s), ~HasEnded(r)
      PROVE  phase # "turn" /\ (tasks = {} \/ s.taskLedgerOverflowed)
  <2>1. IsResult(f) /\ LedgerAllowsEnd(r)
    BY <1>1, <1>2, <1>5 DEF TasksOK, Says, f
  <2>2. phase # "turn"
    BY <1>1, <2>1 DEF TasksOK, NoResult, f
  <2>3. ASSUME NEW t \in tasks, ~r.taskLedgerOverflowed PROVE FALSE
    <3>1. t \in Tasks /\ t \notin r.inflightTasks
      BY <2>1, <2>3 DEF LedgerAllowsEnd
    <3>2. PICK i \in 1..Len(p) : Announces(p[i], t)
      BY <2>3, <3>1 DEF TasksOK
    <3>3. ~IsResult(p[1])
      <4>1. 1 \in 1..i
        BY <1>1
      <4> QED BY <3>1, <3>2, <4>1 DEF TasksOK
    <3> QED BY <2>1, <3>3 DEF f
  <2> QED BY <1>2, <2>2, <2>3
<1> QED
  BY <1>3, <1>4, <1>5 DEF TasksOK, u

LEMMA TasksAppends ==
  ASSUME NEW p \in Seq(Lines), NEW q \in Seq(Lines), NEW inflight, NEW over,
         NEW phase, NEW unused, NEW tasks, NEW then, NEW unused2, NEW tasks2,
         TasksOK(p, phase, unused, tasks, inflight, over),
         \A k \in 1..Len(q) : q[k].type # "state",
         then = "turn" => NoResult(p) /\ NoResult(q),
         unused2 \subseteq unused,
         tasks2 \subseteq tasks \cup unused,
         \A t \in Tasks : ~(t \in unused2 /\ t \in tasks2),
         \A t \in tasks2 : t \in tasks \/ \E k \in 1..Len(q) : Announces(q[k], t),
         \A t \in unused2 \cup tasks2 : \A k \in 1..Len(q) : ~Settles(q[k], t),
         \A t \in Tasks : \A k \in 1..Len(q) : Announces(q[k], t) => NoResult(p) /\ NoResult(q)
  PROVE  TasksOK(p \o q, then, unused2, tasks2, inflight, over)
<1> DEFINE w == p \o q
<1>1. /\ w \in Seq(Lines)
      /\ Len(p) \in Nat /\ Len(q) \in Nat /\ Len(w) = Len(p) + Len(q)
      /\ \A i \in 1..Len(p) : w[i] = p[i]
      /\ \A k \in 1..Len(q) : w[Len(p) + k] = q[k]
      /\ \A i \in 1..Len(w) : i \in 1..Len(p) \/ (i - Len(p) \in 1..Len(q) /\ w[i] = q[i - Len(p)])
  BY JoinAt
<1> HIDE DEF w
<1>2. NoResult(p) /\ NoResult(q) => NoResult(w)
  BY <1>1 DEF NoResult
<1>3. \A i \in 1..Len(w) : w[i].type # "state"
  BY <1>1 DEF TasksOK
<1>4. ASSUME NEW t \in Tasks
      PROVE  /\ t \in unused2 \cup tasks2 => \A i \in 1..Len(w) : ~Settles(w[i], t)
             /\ t \in tasks2 => t \in inflight \/ over \/ \E i \in 1..Len(w) : Announces(w[i], t)
             /\ \A j \in 1..Len(w) : Announces(w[j], t) => \A i \in 1..j : ~IsResult(w[i])
  <2>1. /\ t \in unused \cup tasks => \A i \in 1..Len(p) : ~Settles(p[i], t)
        /\ t \in tasks => t \in inflight \/ over \/ \E i \in 1..Len(p) : Announces(p[i], t)
        /\ \A j \in 1..Len(p) : Announces(p[j], t) => \A i \in 1..j : ~IsResult(p[i])
    BY DEF TasksOK
  <2>2. t \in unused2 \cup tasks2 => \A i \in 1..Len(w) : ~Settles(w[i], t)
    BY <1>1, <2>1
  <2>3. t \in tasks2 => t \in inflight \/ over \/ \E i \in 1..Len(w) : Announces(w[i], t)
    <3>1. ASSUME NEW i \in 1..Len(p), Announces(p[i], t) PROVE \E m \in 1..Len(w) : Announces(w[m], t)
      <4>1. i \in 1..Len(w) /\ w[i] = p[i]
        BY <1>1
      <4> QED BY <3>1, <4>1
    <3>2. ASSUME NEW k \in 1..Len(q), Announces(q[k], t) PROVE \E m \in 1..Len(w) : Announces(w[m], t)
      <4>1. Len(p) + k \in 1..Len(w) /\ w[Len(p) + k] = q[k]
        BY <1>1
      <4> QED BY <3>2, <4>1
    <3> QED BY <2>1, <3>1, <3>2
  <2>4. ASSUME NEW j \in 1..Len(w), Announces(w[j], t), NEW i \in 1..j
        PROVE  ~IsResult(w[i])
    <3>1. CASE j \in 1..Len(p)
      BY <1>1, <2>1, <2>4, <3>1, SMTT(60)
    <3>2. CASE j \notin 1..Len(p)
      <4>1. NoResult(w)
        BY <1>1, <1>2, <2>4, <3>2
      <4>2. i \in 1..Len(w)
        BY <1>1
      <4> QED BY <4>1, <4>2 DEF NoResult
    <3> QED BY <3>1, <3>2
  <2> QED BY <2>2, <2>3, <2>4
<1> QED
  BY <1>2, <1>3, <1>4 DEF TasksOK, w

-----------------------------------------------------------------------------
(* A session is a run of the state machine for an arbitrary CLI.             *)

SessionTypes ==
  /\ cli \in CliState
  /\ stdinPipe \in Nat
  /\ stdout \in Seq(Lines)
  /\ reader.pc \in {"flush", "handle"} => reader.frame \in SessionFrames

StateLine(state) == [type |-> "state", state |-> state, hostOnly |-> TRUE]

LEMMA LinesAre ==
  /\ \A state \in {"running", "idle", "requires_action"} : StateLine(state) \in Lines
  /\ ControlFrame \in Lines
  /\ \A t \in Tasks : [type |-> "task_notification", task |-> t] \in Lines
  /\ \A t \in Tasks : [type |-> "task_started", task |-> t,
                       taskType |-> CHOOSE k \in DeferringTaskTypes : TRUE] \in Lines
  /\ [type |-> "assistant", subagent |-> FALSE] \in Lines
  /\ [type |-> "result"] \in Lines
<1>1. (CHOOSE k \in DeferringTaskTypes : TRUE) \in DeferringTaskTypes
  BY CliAssumption
<1> QED
  BY <1>1 DEF StateLine, Lines, SessionFrames, SessionStates, NoState, TurnFrames

LEMMA JoinTwo ==
  ASSUME NEW S, NEW b \in S
  PROVE  /\ <<>> \o <<b>> \in Seq(S) /\ Len(<<>> \o <<b>>) = 1 /\ (<<>> \o <<b>>)[1] = b
         /\ \A a \in S : <<a>> \o <<b>> \in Seq(S) /\ Len(<<a>> \o <<b>>) = 2
                         /\ (<<a>> \o <<b>>)[1] = a /\ (<<a>> \o <<b>>)[2] = b
OBVIOUS

\* What the CLI writes at once: its state, if it reports it, and a frame.
Said(q, state, f) ==
  /\ q \in Seq(Lines)
  /\ Len(q) \in Nat
  /\ \A k \in 1..Len(q) : q[k] = f \/ (cli.reports /\ q[k] = StateLine(state))
  /\ \E k \in 1..Len(q) : q[k] = f
  /\ q = StateFrame(state) \o <<f>> /\ cli.reports => 1 \in 1..Len(q) /\ q[1] = StateLine(state)

LEMMA SpeechAt ==
  \A state \in {"running", "idle", "requires_action"} : \A f \in Lines :
    Said(<<f>>, state, f) /\ Said(StateFrame(state) \o <<f>>, state, f)
<1> SUFFICES ASSUME NEW state \in {"running", "idle", "requires_action"}, NEW f \in Lines, NEW q,
                    q \in {<<f>>, StateFrame(state) \o <<f>>}
             PROVE  Said(q, state, f)
  OBVIOUS
<1> USE DEF Said
<1>1. StateLine(state) \in Lines
  BY LinesAre
<1>2. CASE q = <<f>> /\ q # StateFrame(state) \o <<f>>
  BY <1>2
<1>3. CASE q = StateFrame(state) \o <<f>> /\ cli.reports
  <2> DEFINE x == StateLine(state)
  <2>1. q = <<x>> \o <<f>>
    BY <1>3 DEF StateFrame, StateLine
  <2> HIDE DEF x
  <2>2. q \in Seq(Lines) /\ Len(q) = 2 /\ q[1] = x /\ q[2] = f
    BY <1>1, <2>1, JoinTwo DEF x
  <2>3. 1 \in 1..Len(q) /\ 2 \in 1..Len(q) /\ \A k \in 1..Len(q) : k = 1 \/ k = 2
    BY <2>2
  <2> QED BY <1>3, <2>2, <2>3 DEF x
<1>4. CASE q = StateFrame(state) \o <<f>> /\ ~cli.reports
  <2>1. q = <<>> \o <<f>>
    BY <1>4 DEF StateFrame
  <2>2. q \in Seq(Lines) /\ Len(q) = 1 /\ q[1] = f
    BY <2>1, JoinTwo
  <2>3. 1 \in 1..Len(q) /\ \A k \in 1..Len(q) : k = 1
    BY <2>2
  <2> QED BY <1>4, <2>2, <2>3
<1> QED
  BY <1>2, <1>3, <1>4

LEMMA StateAlone ==
  ASSUME NEW state \in {"running", "idle", "requires_action"}
  PROVE  /\ StateFrame(state) \in Seq(Lines)
         /\ \A k \in 1..Len(StateFrame(state)) : cli.reports /\ StateFrame(state)[k] = StateLine(state)
<1>1. StateLine(state) \in Lines
  BY LinesAre
<1>2. StateFrame(state) = IF cli.reports THEN <<StateLine(state)>> ELSE <<>>
  BY DEF StateFrame, StateLine
<1> QED
  BY <1>1, <1>2

\* The steps of a session that touch the pipes, each by what it writes.
LEMMA StepsWrite ==
  ASSUME SessionTypes
  PROVE  /\ CliStartsTurn => \E q \in Seq(Lines) : stdout' = stdout \o q
         /\ \A t \in Tasks : CliStartsTask(t) \/ CliTaskSettles(t) =>
              \E q \in Seq(Lines) : stdout' = stdout \o q
         /\ CliAsks \/ CliEndsTurn \/ CliEndsTurnIdleFirst \/ CliGoesIdle \/ SdkAnswers =>
              \E q \in Seq(Lines) : stdout' = stdout \o q
<1>1. CliStartsTurn => \E q \in Seq(Lines) : stdout' = stdout \o q
  <2>1. (IF cli.phase = "idle" THEN StateFrame("running") ELSE <<>>) \o MainTurn \in Seq(Lines)
    BY StateAlone, LinesAre, ConcatType DEF MainTurn
  <2> QED BY <2>1 DEF CliStartsTurn, Emit
<1>2. ASSUME NEW t \in Tasks, CliStartsTask(t) \/ CliTaskSettles(t)
      PROVE  \E q \in Seq(Lines) : stdout' = stdout \o q
  <2>1. Started(t) \in Seq(Lines) /\ Settled(t) \in Seq(Lines)
    BY LinesAre DEF Started, Settled
  <2> QED BY <1>2, <2>1 DEF CliStartsTask, CliTaskSettles, Emit
<1>3. CliAsks \/ CliEndsTurn \/ CliEndsTurnIdleFirst \/ CliGoesIdle \/ SdkAnswers =>
        \E q \in Seq(Lines) : stdout' = stdout \o q
  <2>1. Result \in Seq(Lines) /\ <<ControlFrame>> \in Seq(Lines)
    BY LinesAre DEF Result
  <2>2. /\ StateFrame("requires_action") \o <<ControlFrame>> \in Seq(Lines)
        /\ StateFrame("idle") \o Result \in Seq(Lines)
        /\ StateFrame("idle") \in Seq(Lines)
        /\ StateFrame("running") \in Seq(Lines)
    BY <2>1, StateAlone, ConcatType
  <2> QED BY <2>1, <2>2 DEF CliAsks, CliEndsTurn, CliEndsTurnIdleFirst, CliGoesIdle, SdkAnswers, Emit
<1> QED
  BY <1>1, <1>2, <1>3

\* The CLI's own steps keep its state's types.
LEMMA CliTyped ==
  ASSUME cli \in CliState, CliStep \/ SdkAnswers \/ ReadControl
  PROVE  cli' \in CliState
<1>1. CASE CliReadsPrompt
  BY <1>1 DEF CliReadsPrompt, CliState
<1>2. CASE CliStartsTurn
  <2>1. ASSUME cli.owed > 0, cli' = [cli EXCEPT !.phase = "turn", !.owed = @ - 1]
        PROVE  cli' \in CliState
    <3> DEFINE c == [cli EXCEPT !.phase = "turn"]
    <3>1. c \in CliState /\ c.owed > 0
      BY <2>1 DEF CliState
    <3>2. cli' = [c EXCEPT !.owed = @ - 1]
      BY <2>1
    <3> HIDE DEF c
    <3> QED BY <3>1, <3>2 DEF CliState
  <2>2. ASSUME cli.woken > 0, cli' = [cli EXCEPT !.phase = "followUp", !.woken = @ - 1]
        PROVE  cli' \in CliState
    <3> DEFINE c == [cli EXCEPT !.phase = "followUp"]
    <3>1. c \in CliState /\ c.woken > 0
      BY <2>2 DEF CliState
    <3>2. cli' = [c EXCEPT !.woken = @ - 1]
      BY <2>2
    <3> HIDE DEF c
    <3> QED BY <3>1, <3>2 DEF CliState
  <2> QED BY <1>2, <2>1, <2>2 DEF CliStartsTurn
<1>3. CASE CliAsks
  <2> DEFINE c == [cli EXCEPT !.request = "asked"]
  <2>1. c \in CliState
    BY DEF CliState
  <2>2. cli' = [c EXCEPT !.asks = @ + 1]
    BY <1>3 DEF CliAsks
  <2> HIDE DEF c
  <2> QED BY <2>1, <2>2 DEF CliState
<1>4. CASE CliStranded
  <2> DEFINE c == [cli EXCEPT !.request = "none"]
  <2>1. c \in CliState
    BY DEF CliState
  <2>2. cli' = [c EXCEPT !.stranded = TRUE]
    BY <1>4 DEF CliStranded
  <2> HIDE DEF c
  <2> QED BY <2>1, <2>2 DEF CliState
<1>5. CASE CliEndsTurn \/ CliEndsTurnIdleFirst \/ CliGoesIdle \/ CliExits
  BY <1>5 DEF CliEndsTurn, CliEndsTurnIdleFirst, CliGoesIdle, CliExits, CliState
<1>6. ASSUME NEW t \in Tasks, CliStartsTask(t) PROVE cli' \in CliState
  <2> DEFINE c == [cli EXCEPT !.tasks = @ \cup {t}]
  <2>1. c \in CliState
    BY DEF CliState
  <2>2. cli' = [c EXCEPT !.unused = @ \ {t}]
    BY <1>6 DEF CliStartsTask
  <2> HIDE DEF c
  <2> QED BY <2>1, <2>2 DEF CliState
<1>7. ASSUME NEW t \in Tasks, CliTaskSettles(t) PROVE cli' \in CliState
  <2> DEFINE c == [cli EXCEPT !.tasks = @ \ {t}]
  <2>1. c \in CliState
    BY DEF CliState
  <2>2. cli' = [c EXCEPT !.woken = @ + 1]
    BY <1>7 DEF CliTaskSettles
  <2> HIDE DEF c
  <2> QED BY <2>1, <2>2 DEF CliState
<1>8. CASE SdkAnswers \/ ReadControl
  BY <1>8 DEF SdkAnswers, ReadControl, CliState
<1> QED
  BY <1>1, <1>2, <1>3, <1>4, <1>5, <1>6, <1>7, <1>8 DEF CliStep

LEMMA SessionTyped ==
  ASSUME Inv, SessionTypes, [SessionNext]_allVars
  PROVE  SessionTypes'
<1> USE DEF SessionTypes
<1>r. reader \in [pc : {"recv", "flush", "handle", "forward", "gone"}, frame : Frames \cup {NoFrame}]
  BY DEF Inv, ActorsOK
<1>1. CASE (ReaderStep \/ InputStep) /\ UNCHANGED cliVars
  <2>1. reader'.pc \in {"flush", "handle"} =>
          (reader.pc = "flush" /\ reader'.frame = reader.frame) \/ reader' = reader
    <3>1. CASE MirrorFlushed
      BY <1>r, <3>1 DEF MirrorFlushed
    <3>2. CASE HandleFrame \/ ForwardFrame \/ ReaderExit(EndOfStream)
      BY <1>r, <3>2 DEF HandleFrame, ForwardFrame, ReaderExit
    <3>3. CASE InputStep
      BY <3>3 DEF InputStep, StreamNext, StreamEnds, WaiterStep, NothingWritten, SnapshotRunEnded,
                  WaiterWakes, WaiterMakesFinal, EndInput
    <3> QED BY <1>1, <3>1, <3>2, <3>3 DEF ReaderStep
  <2> QED BY <1>1, <2>1 DEF cliVars
<1>2. CASE ReadControl
  <2>1. stdout' \in Seq(Lines)
    BY <1>2, TailAt DEF ReadControl
  <2> QED BY <1>2, <2>1, CliTyped DEF ReadControl, vars
<1>3. CASE ReadStdout
  <2>1. stdout' \in Seq(Lines) /\ Head(stdout) \in Lines
    BY <1>3, TailAt DEF ReadStdout
  <2>2. Head(stdout) \in SessionFrames
    BY <1>3, <2>1 DEF ReadStdout, Lines
  <2> QED BY <1>3, <2>1, <2>2 DEF ReadStdout, ReadFrame
<1>4. CASE WritePrompt
  BY <1>4 DEF WritePrompt, StreamWritten
<1>5. CASE SdkAnswers \/ CliStep
  <2>1. \/ stdout' = stdout
        \/ \E q \in Seq(Lines) : stdout' = stdout \o q
    BY <1>5, StepsWrite DEF CliStep, CliReadsPrompt, CliStranded, CliExits
  <2>2. stdout' \in Seq(Lines)
    BY <2>1, ConcatType
  <2>3. reader' = reader /\ (stdinPipe' = stdinPipe \/ (stdinPipe > 0 /\ stdinPipe' = stdinPipe - 1))
    BY <1>5, Zenon DEF SdkAnswers, CliStep, CliReadsPrompt, CliStartsTurn, CliStartsTask, CliTaskSettles, CliAsks,
                CliStranded, CliEndsTurn, CliEndsTurnIdleFirst, CliGoesIdle, CliExits, vars
  <2> QED BY <1>5, <2>2, <2>3, CliTyped
<1>6. CASE Done \/ UNCHANGED allVars
  BY <1>6 DEF Done, allVars, vars, cliVars
<1> QED
  BY <1>1, <1>2, <1>3, <1>4, <1>5, <1>6 DEF SessionNext, SdkStep

LEMMA SessionStepsRun ==
  ASSUME Inv, SessionTypes, [SessionNext]_allVars
  PROVE  [Next]_vars
<1>1. CASE (ReaderStep \/ InputStep) /\ UNCHANGED cliVars
  BY <1>1 DEF ReaderStep, InputStep, Next, HandleStep, StreamStep
<1>2. CASE ReadStdout
  <2>1. Head(stdout) \in Lines
    BY <1>2, TailAt DEF ReadStdout, SessionTypes
  <2>2. Head(stdout) \in Frames
    BY <1>2, <2>1, SessionFramesAreFrames DEF ReadStdout, Lines
  <2> QED BY <1>2, <2>2 DEF ReadStdout, Next
<1>3. CASE WritePrompt
  BY <1>3 DEF WritePrompt, Next, StreamStep
<1>4. CASE CliExits
  <2>1. CASE ~stdoutEnded
    BY <1>4, <2>1 DEF CliExits, StdoutEnds, Next
  <2>2. CASE stdoutEnded
    BY <1>4, <2>2, SMTT(60) DEF CliExits, vars, Inv, ActorsOK
  <2> QED BY <2>1, <2>2
<1>5. CASE ReadControl \/ SdkAnswers \/ (CliStep /\ ~CliExits) \/ Done \/ UNCHANGED allVars
  BY <1>5 DEF ReadControl, SdkAnswers, CliStep, CliReadsPrompt, CliStartsTurn, CliStartsTask, CliTaskSettles,
              CliAsks, CliStranded, CliEndsTurn, CliEndsTurnIdleFirst, CliGoesIdle, Done, allVars
<1> QED
  BY <1>1, <1>2, <1>3, <1>4, <1>5 DEF SessionNext, SdkStep

LEMMA SessionBegins == CliInit => Init /\ SessionTypes
<1> SUFFICES ASSUME CliInit PROVE SessionTypes
  BY DEF CliInit
<1>1. cli \in CliState
  BY CliAssumption DEF CliInit, CliState
<1>2. stdout \in Seq(Lines)
  <2>1. StateFrame("idle") \in Seq(Lines)
    BY StateAlone
  <2>2. <<>> \in Seq(Lines)
    OBVIOUS
  <2> QED BY <2>1, <2>2 DEF CliInit
<1> QED
  BY <1>1, <1>2 DEF CliInit, SessionTypes, Init

\* A session is a behaviour of the run-end state machine: what holds with an
\* arbitrary CLI holds with one that keeps its side of the protocol.
THEOREM SessionRefines == SessionSpec => Spec
<1>1. CliInit => Init /\ Inv /\ SessionTypes
  BY SessionBegins, InitInv
<1>2. Inv /\ SessionTypes /\ [SessionNext]_allVars => [Next]_vars /\ Inv' /\ SessionTypes'
  BY SessionStepsRun, SessionTyped, NextInv
<1> QED
  BY <1>1, <1>2, PTL DEF SessionSpec, Spec

-----------------------------------------------------------------------------
(* The inductive invariant of a session whose host has at most one prompt.   *)

\* The frames still to be handled, in order: the one in hand, then stdout's.
Pending == IF reader.pc \in {"flush", "handle"} THEN <<reader.frame>> \o stdout ELSE stdout

\* The prompt, wherever it comes from, is still to be written.
Unsent == input.pc = "write" \/ (input.pc = "next" /\ input.written = 0)

\* It has had, or is having, its turn.
Came == ~Unsent /\ stdinPipe = 0 /\ cli.owed = 0

\* The work the prompt brought is done, as far as the SDK could be told.
Through ==
  /\ Came
  /\ IF cli.reports THEN cli.phase \in {"idle", "exited"}
     ELSE cli.phase # "turn" /\ (cli.tasks = {} \/ run.taskLedgerOverflowed)

\* One prompt, in one place; until its turn starts the CLI is idle.
PromptInv ==
  /\ input.pc = "next"  => input.written = input.prompts
  /\ input.pc = "write" => input.written = 0 /\ input.prompts = 1
  /\ stdinPipe + cli.owed <= 1
  /\ Unsent => stdinPipe = 0 /\ cli.owed = 0
  /\ ~Came => cli.phase = "idle" /\ NoResult(Pending)

\* A CLI at rest has nothing running and asks nothing.
RestInv ==
  /\ cli.phase \in {"idle", "exited"} => cli.tasks = {} /\ cli.woken = 0
  /\ cli.request # "none" => cli.phase \in {"turn", "followUp"}

\* The run ends, and the input goroutine moves on, only when the work is done.
EndedInv ==
  /\ HasEnded(run) => Through
  /\ input.pc \in {"nothing", "final", "endInput", "done"} => Through
  /\ ~stdinOpen => input.pc = "done"
  /\ stdoutEnded => ~stdinOpen

ReportInv ==
  cli.reports /\ ~Through =>
    ReportOK(Pending, run.sessionState, run.resultReceived, cli.phase)

TaskInv ==
  ~cli.reports =>
    TasksOK(Pending, cli.phase, cli.unused, cli.tasks, run.inflightTasks, run.taskLedgerOverflowed)

SessionInv == PromptInv /\ RestInv /\ EndedInv /\ ReportInv /\ TaskInv

\* A closed stdin strands no request, and leaves no work behind.
LEMMA SessionInvShows ==
  ASSUME SessionTypes, SessionInv
  PROVE  /\ StdinOutlivesTheWork
         /\ cli.request # "none" /\ ~stdinOpen => ~cli.reports
<1>1. ~stdinOpen => Through
  BY DEF SessionInv, EndedInv
<1>2. StdinOutlivesTheWork
  BY <1>1 DEF SessionInv, RestInv, Through, Came, StdinOutlivesTheWork
<1>3. cli.request # "none" /\ ~stdinOpen => ~cli.reports
  BY <1>1 DEF SessionInv, RestInv, Through
<1> QED
  BY <1>2, <1>3

LEMMA PendingType == SessionTypes => Pending \in Seq(Lines)
<1> SUFFICES ASSUME SessionTypes PROVE Pending \in Seq(Lines)
  OBVIOUS
<1>1. CASE reader.pc \in {"flush", "handle"}
  <2>1. <<reader.frame>> \in Seq(Lines) /\ stdout \in Seq(Lines)
    BY <1>1 DEF SessionTypes, Lines
  <2>2. <<reader.frame>> \o stdout \in Seq(Lines)
    BY <2>1, ConcatType
  <2> QED BY <1>1, <2>2 DEF Pending
<1>2. CASE reader.pc \notin {"flush", "handle"}
  BY <1>2 DEF Pending, SessionTypes
<1> QED
  BY <1>1, <1>2

LEMMA ConsAt ==
  ASSUME NEW S, NEW a \in S, NEW s \in Seq(S)
  PROVE  /\ <<a>> \o s # <<>>
         /\ (<<a>> \o s)[1] = a
         /\ Tail(<<a>> \o s) = s
OBVIOUS

LEMMA SplitHead ==
  ASSUME NEW S, NEW s \in Seq(S), s # <<>>
  PROVE  s = <<Head(s)>> \o Tail(s) /\ Head(s) = s[1]
OBVIOUS

LEMMA PendingStays ==
  ASSUME SessionTypes, Inv,
         \/ (MirrorFlushed \/ ForwardFrame \/ ReaderExit(EndOfStream)) /\ stdout' = stdout
         \/ ReadStdout
         \/ reader' = reader /\ stdout' = stdout
  PROVE  Pending' = Pending
<1>1. reader \in [pc : {"recv", "flush", "handle", "forward", "gone"}, frame : Frames \cup {NoFrame}]
  BY DEF Inv, ActorsOK
<1>2. CASE MirrorFlushed /\ stdout' = stdout
  <2>1. reader.pc = "flush" /\ reader'.pc = "handle" /\ reader'.frame = reader.frame
    BY <1>1, <1>2 DEF MirrorFlushed
  <2> QED BY <1>2, <2>1 DEF Pending
<1>3. CASE (ForwardFrame \/ ReaderExit(EndOfStream)) /\ stdout' = stdout
  <2>1. reader.pc \notin {"flush", "handle"} /\ reader'.pc \notin {"flush", "handle"}
    BY <1>1, <1>3 DEF ForwardFrame, ReaderExit
  <2> QED BY <1>3, <2>1 DEF Pending
<1>4. CASE ReadStdout
  <2>1. /\ reader.pc = "recv" /\ reader'.pc \in {"flush", "handle"} /\ reader'.frame = Head(stdout)
        /\ stdout' = Tail(stdout) /\ stdout # <<>> /\ stdout \in Seq(Lines)
    BY <1>4 DEF ReadStdout, ReadFrame, SessionTypes
  <2>2. stdout = <<Head(stdout)>> \o Tail(stdout)
    BY <2>1, SplitHead
  <2>3. Pending = stdout /\ Pending' = <<Head(stdout)>> \o Tail(stdout)
    BY <2>1 DEF Pending
  <2> QED BY <2>2, <2>3
<1>5. CASE reader' = reader /\ stdout' = stdout
  BY <1>5 DEF Pending
<1> QED
  BY <1>2, <1>3, <1>4, <1>5

LEMMA PendingShrinks ==
  ASSUME SessionTypes, (HandleFrame /\ stdout' = stdout) \/ ReadControl
  PROVE  /\ Pending # <<>>
         /\ Pending' = Tail(Pending)
         /\ HandleFrame /\ stdout' = stdout => Pending[1] = reader.frame /\ reader.frame \in SessionFrames
         /\ ReadControl => Pending[1] = ControlFrame
<1>1. CASE HandleFrame /\ stdout' = stdout
  <2>1. /\ reader.pc = "handle" /\ reader'.pc \notin {"flush", "handle"}
        /\ reader.frame \in SessionFrames /\ reader.frame \in Lines /\ stdout \in Seq(Lines)
    BY <1>1 DEF HandleFrame, SessionTypes, Lines
  <2>2. Pending = <<reader.frame>> \o stdout /\ Pending' = stdout
    BY <1>1, <2>1 DEF Pending
  <2>3. Pending # <<>> /\ Pending[1] = reader.frame /\ Tail(Pending) = stdout
    BY <2>1, <2>2, ConsAt
  <2>4. ~ReadControl
    BY <2>1 DEF ReadControl
  <2> QED BY <2>1, <2>2, <2>3, <2>4
<1>2. CASE ReadControl
  <2>1. /\ reader.pc = "recv" /\ reader' = reader /\ stdout' = Tail(stdout)
        /\ stdout # <<>> /\ stdout \in Seq(Lines) /\ Head(stdout) = ControlFrame
    BY <1>2 DEF ReadControl, SessionTypes, vars
  <2>2. Pending = stdout /\ Pending' = Tail(stdout)
    BY <2>1 DEF Pending
  <2>3. Head(stdout) = stdout[1]
    BY <2>1, SplitHead
  <2>4. ~HandleFrame
    BY <2>1 DEF HandleFrame
  <2> QED BY <2>1, <2>2, <2>3, <2>4
<1> QED
  BY <1>1, <1>2

LEMMA PendingGrows ==
  ASSUME SessionTypes, NEW q \in Seq(Lines), stdout' = stdout \o q, reader' = reader
  PROVE  Pending' = Pending \o q
<1>1. CASE reader.pc \in {"flush", "handle"}
  <2> DEFINE a == <<reader.frame>>
  <2>1. a \in Seq(Lines) /\ stdout \in Seq(Lines)
    BY <1>1 DEF SessionTypes, Lines
  <2>2. Pending = a \o stdout /\ Pending' = a \o (stdout \o q)
    BY <1>1 DEF Pending
  <2> HIDE DEF a
  <2>3. (a \o stdout) \o q = a \o (stdout \o q)
    BY <2>1, ConcatAssoc
  <2> QED BY <2>2, <2>3
<1>2. CASE reader.pc \notin {"flush", "handle"}
  BY <1>2 DEF Pending
<1> QED
  BY <1>1, <1>2

-----------------------------------------------------------------------------
(* What keeps the invariant: steps by what they do to the frames pending.    *)

\* Nothing a session turns on changes.
LEMMA QuietKeeps ==
  ASSUME SessionInv, Pending' = Pending,
         UNCHANGED <<run, input, cli, stdinPipe, stdinOpen, stdoutEnded>>
  PROVE  SessionInv'
BY DEF SessionInv, PromptInv, RestInv, EndedInv, ReportInv, TaskInv, Through, Came, Unsent, HasEnded

\* A frame is handled, or a control request handed to its handler.
LEMMA HandlingKeeps ==
  ASSUME SessionTypes, SessionInv, Pending # <<>>, Pending' = Tail(Pending),
         FrameView(run, Pending[1], run'),
         UNCHANGED <<input, stdinPipe, stdinOpen, stdoutEnded>>,
         cli'.reports = cli.reports, cli'.phase = cli.phase, cli'.owed = cli.owed,
         cli'.tasks = cli.tasks, cli'.unused = cli.unused, cli'.woken = cli.woken,
         cli'.request # "none" => cli.request # "none"
  PROVE  SessionInv'
<1> DEFINE p == Pending
           overflowed == run'.taskLedgerOverflowed
<1>1. p \in Seq(Lines) /\ cli.tasks \subseteq Tasks
  BY PendingType DEF SessionTypes, CliState
<1>2. run.taskLedgerOverflowed => run'.taskLedgerOverflowed
  BY DEF FrameView
<1>3. Came' = Came /\ Unsent' = Unsent /\ (Through => Through')
  BY <1>2 DEF Came, Unsent, Through
<1>4. NoResult(p) => NoResult(Tail(p))
  <2> HIDE DEF p
  <2> QED BY <1>1, TailAt DEF NoResult, p
<1>5. PromptInv'
  BY <1>3, <1>4 DEF SessionInv, PromptInv
<1>6. RestInv'
  BY DEF SessionInv, RestInv
<1>7. ASSUME cli.reports, ~Through
      PROVE  /\ ReportOK(Tail(p), run'.sessionState, run'.resultReceived, cli.phase)
             /\ HasEnded(run') => HasEnded(run)
  <2>1. ReportOK(p, run.sessionState, run.resultReceived, cli.phase)
    BY <1>7 DEF SessionInv, ReportInv
  <2> HIDE DEF p
  <2> QED BY <1>1, <2>1, ReportHandles DEF p
<1>8. ASSUME ~cli.reports
      PROVE  /\ TasksOK(Tail(p), cli.phase, cli.unused, cli.tasks, run'.inflightTasks, overflowed)
             /\ HasEnded(run') => HasEnded(run) \/ Through'
  <2>1. TasksOK(p, cli.phase, cli.unused, cli.tasks, run.inflightTasks, run.taskLedgerOverflowed)
    BY <1>8 DEF SessionInv, TaskInv
  <2>2. /\ TasksOK(Tail(p), cli.phase, cli.unused, cli.tasks, run'.inflightTasks, overflowed)
        /\ HasEnded(run') => HasEnded(run) \/ (cli.phase # "turn" /\ (cli.tasks = {} \/ overflowed))
    BY <1>1, <2>1, TasksHandles DEF p
  <2>3. HasEnded(run') /\ ~HasEnded(run) => Came
    <3>1. 1 \in 1..Len(p)
      BY <1>1, TailAt
    <3>2. ~Says(p[1], "idle")
      BY <2>1, <3>1 DEF TasksOK, Says
    <3>3. ASSUME HasEnded(run'), ~HasEnded(run) PROVE IsResult(p[1])
      BY <3>2, <3>3 DEF FrameView
    <3> QED BY <3>1, <3>3 DEF SessionInv, PromptInv, NoResult
  <2>4. cli.phase # "turn" /\ (cli.tasks = {} \/ overflowed) /\ Came => Through'
    BY <1>3, <1>8 DEF Through
  <2> QED BY <2>2, <2>3, <2>4
<1>9. HasEnded(run') => Through'
  <2>1. HasEnded(run) => Through
    BY DEF SessionInv, EndedInv
  <2> QED BY <1>3, <1>7, <1>8, <2>1
<1>10. EndedInv'
  BY <1>3, <1>9 DEF SessionInv, EndedInv, HasEnded
<1>11. ReportInv'
  BY <1>3, <1>7 DEF ReportInv
<1>12. TaskInv'
  BY <1>8 DEF TaskInv
<1> QED
  BY <1>5, <1>6, <1>10, <1>11, <1>12 DEF SessionInv

\* The CLI writes frames, or moves without writing any.
LEMMA SpeakingKeeps ==
  ASSUME SessionTypes, SessionInv, NEW q \in Seq(Lines), Pending' = Pending \o q,
         UNCHANGED <<run, input, stdinOpen>>, stdoutEnded' => ~stdinOpen,
         cli'.reports = cli.reports,
         PromptInv', RestInv', Through => Through',
         cli.reports /\ ~Through' =>
           /\ \A k \in 1..Len(q) : ~Says(q[k], "idle")
           /\ NoResult(q) \/ cli.phase # "idle"
           /\ cli'.phase # "idle" => cli.phase # "idle" \/ \E k \in 1..Len(q) : Says(q[k], "running"),
         ~cli.reports =>
           /\ \A k \in 1..Len(q) : q[k].type # "state"
           /\ cli'.phase = "turn" => NoResult(Pending) /\ NoResult(q)
           /\ cli'.unused \subseteq cli.unused
           /\ cli'.tasks \subseteq cli.tasks \cup cli.unused
           /\ \A t \in Tasks : ~(t \in cli'.unused /\ t \in cli'.tasks)
           /\ \A t \in cli'.tasks : t \in cli.tasks \/ \E k \in 1..Len(q) : Announces(q[k], t)
           /\ \A t \in cli'.unused \cup cli'.tasks : \A k \in 1..Len(q) : ~Settles(q[k], t)
           /\ \A t \in Tasks : \A k \in 1..Len(q) : Announces(q[k], t) => NoResult(Pending) /\ NoResult(q)
  PROVE  SessionInv'
<1> DEFINE p == Pending
<1>1. p \in Seq(Lines)
  BY PendingType
<1>2. EndedInv'
  BY DEF SessionInv, EndedInv, HasEnded
<1>3. ReportInv'
  <2> SUFFICES ASSUME cli.reports, ~Through'
               PROVE  ReportOK(Pending', run'.sessionState, run'.resultReceived, cli'.phase)
    BY DEF ReportInv
  <2>1. ReportOK(p, run.sessionState, run.resultReceived, cli.phase)
    BY DEF SessionInv, ReportInv
  <2>2. ReportOK(p \o q, run.sessionState, run.resultReceived, cli'.phase)
    <3> HIDE DEF p
    <3> QED BY <1>1, <2>1, ReportAppends
  <2> QED BY <2>2
<1>4. TaskInv'
  <2> SUFFICES ASSUME ~cli.reports
               PROVE  TasksOK(Pending', cli'.phase, cli'.unused, cli'.tasks, run'.inflightTasks,
                              run'.taskLedgerOverflowed)
    BY DEF TaskInv
  <2>1. TasksOK(p, cli.phase, cli.unused, cli.tasks, run.inflightTasks, run.taskLedgerOverflowed)
    BY DEF SessionInv, TaskInv
  <2>2. TasksOK(p \o q, cli'.phase, cli'.unused, cli'.tasks, run.inflightTasks, run.taskLedgerOverflowed)
    BY <1>1, <2>1, TasksAppends DEF p
  <2> QED BY <2>2
<1> QED
  BY <1>2, <1>3, <1>4 DEF SessionInv

-----------------------------------------------------------------------------
(* The steps of the CLI.                                                     *)

LEMMA CliReadsKeeps ==
  ASSUME SessionTypes, Inv, SessionInv, CliReadsPrompt
  PROVE  SessionInv'
<1>1. /\ cli'.owed = cli.owed + 1 /\ stdinPipe' = stdinPipe - 1 /\ stdinPipe > 0
      /\ cli'.reports = cli.reports /\ cli'.phase = cli.phase /\ cli'.tasks = cli.tasks
      /\ cli'.unused = cli.unused /\ cli'.woken = cli.woken /\ cli'.request = cli.request
      /\ stdinPipe \in Nat /\ cli.owed \in Nat
      /\ UNCHANGED <<run, input, stdinOpen, stdoutEnded, reader, stdout>>
  BY DEF CliReadsPrompt, SessionTypes, CliState, vars
<1>2. Pending' = Pending
  BY <1>1, PendingStays
<1>3. ~Came /\ ~Came' /\ ~Through /\ ~Through' /\ ~Unsent /\ ~Unsent'
  BY <1>1 DEF Came, Through, Unsent, SessionInv, PromptInv
<1>4. PromptInv'
  BY <1>1, <1>2, <1>3 DEF SessionInv, PromptInv
<1> QED
  BY <1>1, <1>2, <1>3, <1>4 DEF SessionInv, RestInv, EndedInv, ReportInv, TaskInv, HasEnded

LEMMA CliStartsTurnKeeps ==
  ASSUME SessionTypes, SessionInv, CliStartsTurn
  PROVE  SessionInv'
<1> DEFINE f == [type |-> "assistant", subagent |-> FALSE]
           q == (IF cli.phase = "idle" THEN StateFrame("running") ELSE <<>>) \o MainTurn
<1>1. /\ stdout' = stdout \o q
      /\ cli.phase \in {"idle", "between"}
      /\ UNCHANGED <<run, input, stdinOpen, stdoutEnded, reader, stdinPipe>>
  BY DEF CliStartsTurn, Emit, vars
<1>2. /\ \/ cli.owed > 0 /\ cli'.phase = "turn" /\ cli'.owed = cli.owed - 1 /\ cli'.woken = cli.woken
         \/ cli.woken > 0 /\ cli'.phase = "followUp" /\ cli'.woken = cli.woken - 1 /\ cli'.owed = cli.owed
      /\ cli'.reports = cli.reports /\ cli'.tasks = cli.tasks /\ cli'.unused = cli.unused
      /\ cli'.request = cli.request
      /\ cli.owed \in Nat /\ cli.woken \in Nat /\ stdinPipe \in Nat
  BY DEF CliStartsTurn, SessionTypes, CliState
<1>3. /\ q \in Seq(Lines) /\ Len(q) \in Nat
      /\ \A k \in 1..Len(q) : q[k] = f \/ (cli.reports /\ q[k] = StateLine("running"))
      /\ cli.reports /\ cli.phase = "idle" => 1 \in 1..Len(q) /\ q[1] = StateLine("running")
  <2>1. f \in Lines /\ MainTurn = <<f>>
    BY LinesAre DEF MainTurn
  <2>2. q = IF cli.phase = "idle" THEN StateFrame("running") \o <<f>> ELSE <<>> \o <<f>>
    BY <2>1
  <2>3. <<>> \o <<f>> = <<f>>
    BY <2>1
  <2>4. /\ q \in {<<f>>, StateFrame("running") \o <<f>>}
        /\ cli.phase = "idle" => q = StateFrame("running") \o <<f>>
    <3> HIDE DEF f
    <3> QED BY <2>2, <2>3
  <2>5. "running" \in {"running", "idle", "requires_action"}
    OBVIOUS
  <2> HIDE DEF f, q
  <2>6. Said(q, "running", f)
    BY <2>1, <2>4, <2>5, SpeechAt, Zenon
  <2> QED BY <2>4, <2>6 DEF Said
<1> HIDE DEF q
<1>4. Pending' = Pending \o q
  BY <1>1, <1>3, PendingGrows
<1>5. /\ \A k \in 1..Len(q) : ~Says(q[k], "idle") /\ ~IsResult(q[k]) /\ \A t \in Tasks : ~Announces(q[k], t) /\ ~Settles(q[k], t)
      /\ ~cli.reports => \A k \in 1..Len(q) : q[k].type # "state"
      /\ cli.reports /\ cli.phase = "idle" => \E k \in 1..Len(q) : Says(q[k], "running")
  BY <1>3 DEF StateLine, Says, IsResult, Announces, Settles
<1>6. /\ Unsent' = Unsent
      /\ Came => Came' /\ cli'.phase = "followUp"
      /\ ~Came => Came' /\ cli.phase = "idle" /\ NoResult(Pending)
  <2>1. stdinPipe + cli.owed <= 1 /\ (Unsent => stdinPipe = 0 /\ cli.owed = 0)
        /\ (~Came => cli.phase = "idle" /\ NoResult(Pending))
        /\ (cli.phase = "idle" => cli.woken = 0)
    BY DEF SessionInv, PromptInv, RestInv
  <2>2. Unsent' = Unsent
    BY <1>1 DEF Unsent
  <2>3. CASE Came
    BY <1>1, <1>2, <2>1, <2>2, <2>3 DEF Came
  <2>4. CASE ~Came
    <3>1. cli.phase = "idle" /\ NoResult(Pending) /\ cli.owed > 0 /\ cli'.owed = cli.owed - 1
      BY <1>2, <2>1, <2>4
    <3>2. stdinPipe = 0 /\ cli'.owed = 0 /\ ~Unsent
      BY <1>2, <2>1, <3>1
    <3> QED BY <1>1, <2>2, <2>4, <3>1, <3>2 DEF Came
  <2> QED BY <2>2, <2>3, <2>4
<1>7. PromptInv'
  <2>1. stdinPipe' + cli'.owed <= 1
    BY <1>1, <1>2 DEF SessionInv, PromptInv
  <2> QED BY <1>1, <1>6, <2>1 DEF SessionInv, PromptInv, Came
<1>8. RestInv' /\ (cli.phase = "idle" => ~Came)
  BY <1>2, <1>6 DEF SessionInv, RestInv, Came
<1>9. Through => Through'
  BY <1>1, <1>2, <1>6, <1>8 DEF Through
<1>10. NoResult(q) /\ (cli'.phase = "turn" => NoResult(Pending))
  BY <1>5, <1>6 DEF NoResult
<1>11. cli.tasks \subseteq Tasks /\ cli.unused \subseteq Tasks
       /\ (~cli.reports => \A t \in Tasks : ~(t \in cli.unused /\ t \in cli.tasks))
  BY DEF SessionTypes, CliState, SessionInv, TaskInv, TasksOK
<1> QED
  BY <1>1, <1>2, <1>3, <1>4, <1>5, <1>7, <1>8, <1>9, <1>10, <1>11, SpeakingKeeps DEF SessionInv, EndedInv

\* A task is started or settles.
LEMMA CliTaskKeeps ==
  ASSUME SessionTypes, SessionInv, NEW t \in Tasks, CliStartsTask(t) \/ CliTaskSettles(t)
  PROVE  SessionInv'
<1> DEFINE a == [type |-> "task_started", task |-> t, taskType |-> CHOOSE k \in DeferringTaskTypes : TRUE]
           b == [type |-> "task_notification", task |-> t]
<1>0. a \in Lines /\ b \in Lines /\ Started(t) = <<a>> /\ Settled(t) = <<b>>
  BY LinesAre DEF Started, Settled
<1>1. /\ UNCHANGED <<run, input, stdinOpen, stdoutEnded, reader, stdinPipe>>
      /\ cli'.phase = cli.phase /\ cli'.owed = cli.owed /\ cli'.reports = cli.reports
      /\ cli'.request = cli.request
      /\ cli.tasks \subseteq Tasks /\ cli.unused \subseteq Tasks
  BY DEF CliStartsTask, CliTaskSettles, SessionTypes, CliState, vars
<1>2. PICK f \in {a, b} :
        /\ stdout' = stdout \o <<f>>
        /\ f = a => /\ cli.phase \in {"turn", "followUp"} /\ (cli.reports \/ cli.phase = "turn")
                    /\ t \in cli.unused /\ cli'.tasks = cli.tasks \cup {t}
                    /\ cli'.unused = cli.unused \ {t} /\ cli'.woken = cli.woken
        /\ f = b => /\ t \in cli.tasks /\ cli'.tasks = cli.tasks \ {t}
                    /\ cli'.unused = cli.unused
  <2>1. a # b
    OBVIOUS
  <2>2. CASE CliStartsTask(t)
    <3>1. /\ stdout' = stdout \o <<a>>
          /\ cli.phase \in {"turn", "followUp"} /\ (cli.reports \/ cli.phase = "turn")
          /\ t \in cli.unused /\ cli'.tasks = cli.tasks \cup {t}
          /\ cli'.unused = cli.unused \ {t} /\ cli'.woken = cli.woken
      BY <1>0, <2>2 DEF CliStartsTask, InTurn, Emit, SessionTypes, CliState
    <3> HIDE DEF a, b
    <3> QED BY <2>1, <3>1
  <2>3. CASE CliTaskSettles(t)
    <3>1. /\ stdout' = stdout \o <<b>>
          /\ t \in cli.tasks /\ cli'.tasks = cli.tasks \ {t} /\ cli'.unused = cli.unused
      BY <1>0, <2>3 DEF CliTaskSettles, Emit, SessionTypes, CliState
    <3> HIDE DEF a, b
    <3> QED BY <2>1, <3>1
  <2> QED BY <2>2, <2>3
<1> DEFINE q == <<f>>
<1>3. q \in Seq(Lines) /\ Len(q) = 1 /\ q[1] = f /\ \A k \in 1..Len(q) : q[k] = f
  <2>1. f \in Lines
    BY <1>0
  <2> HIDE DEF a, b
  <2> QED BY <2>1
<1>4. /\ f.type # "state" /\ ~IsResult(f) /\ ~Says(f, "idle")
      /\ \A u \in Tasks : (Announces(f, u) <=> f = a /\ u = t) /\ (Settles(f, u) <=> f = b /\ u = t)
  BY DEF IsResult, Says, Announces, Settles
<1> HIDE DEF a, b, q
<1>5. Pending' = Pending \o q
  BY <1>1, <1>2, <1>3, PendingGrows DEF q
<1>6. Came' = Came /\ Unsent' = Unsent
  BY <1>1 DEF Came, Unsent
<1>7. cli.phase \notin {"idle", "exited"} /\ Came
  <2>1. cli.tasks # {} \/ cli.phase \in {"turn", "followUp"}
    BY <1>2
  <2> QED BY <2>1 DEF SessionInv, PromptInv, RestInv
<1>8. PromptInv' /\ RestInv'
  BY <1>1, <1>6, <1>7 DEF SessionInv, PromptInv, RestInv
<1>9. Through => Through'
  <2>1. CASE cli.reports
    BY <1>7, <2>1 DEF Through
  <2>2. CASE ~cli.reports
    BY <1>1, <1>2, <1>6, <2>2 DEF Through
  <2> QED BY <2>1, <2>2
<1>10. NoResult(q) /\ \A k \in 1..Len(q) : ~Says(q[k], "idle") /\ q[k].type # "state"
  BY <1>3, <1>4 DEF NoResult
<1>11. ASSUME ~cli.reports
       PROVE  /\ cli'.phase = "turn" => NoResult(Pending)
              /\ cli'.unused \subseteq cli.unused
              /\ cli'.tasks \subseteq cli.tasks \cup cli.unused
              /\ \A u \in Tasks : ~(u \in cli'.unused /\ u \in cli'.tasks)
              /\ \A u \in cli'.tasks : u \in cli.tasks \/ \E k \in 1..Len(q) : Announces(q[k], u)
              /\ \A u \in cli'.unused \cup cli'.tasks : \A k \in 1..Len(q) : ~Settles(q[k], u)
              /\ \A u \in Tasks : \A k \in 1..Len(q) : Announces(q[k], u) => NoResult(Pending)
  <2>1. /\ cli.phase = "turn" => NoResult(Pending)
        /\ \A u \in Tasks : ~(u \in cli.unused /\ u \in cli.tasks)
    BY <1>11 DEF SessionInv, TaskInv, TasksOK
  <2>2. 1 \in 1..Len(q)
    BY <1>3
  <2>3. f = a => cli.phase = "turn" /\ a # b
    BY <1>2, <1>11 DEF a, b
  <2> QED BY <1>1, <1>2, <1>3, <1>4, <2>1, <2>2, <2>3
<1> QED
  BY <1>1, <1>3, <1>5, <1>7, <1>8, <1>9, <1>10, <1>11, SpeakingKeeps DEF SessionInv, EndedInv

\* A request is asked, or answered.
LEMMA CliRequestKeeps ==
  ASSUME SessionTypes, SessionInv, CliAsks \/ SdkAnswers
  PROVE  SessionInv'
<1>1. /\ UNCHANGED <<run, input, stdinOpen, stdoutEnded, reader, stdinPipe>>
      /\ cli'.phase = cli.phase /\ cli'.owed = cli.owed /\ cli'.reports = cli.reports
      /\ cli'.tasks = cli.tasks /\ cli'.unused = cli.unused /\ cli'.woken = cli.woken
      /\ cli'.request # "none" => cli.phase \in {"turn", "followUp"}
  BY DEF CliAsks, SdkAnswers, InTurn, SessionTypes, CliState, vars
<1>2. cli.phase \in {"turn", "followUp"} /\ cli.tasks \subseteq Tasks /\ cli.unused \subseteq Tasks
  BY DEF CliAsks, SdkAnswers, InTurn, SessionInv, RestInv, SessionTypes, CliState
<1>3. PICK q \in Seq(Lines) :
        /\ stdout' = stdout \o q
        /\ Len(q) \in Nat
        /\ \A k \in 1..Len(q) :
             \/ q[k] = ControlFrame
             \/ cli.reports /\ q[k] \in {StateLine("running"), StateLine("requires_action")}
  <2>1. CASE CliAsks
    <3> DEFINE q == StateFrame("requires_action") \o <<ControlFrame>>
    <3>1. Said(q, "requires_action", ControlFrame)
      <4>1. "requires_action" \in {"running", "idle", "requires_action"} /\ ControlFrame \in Lines
        BY LinesAre
      <4> QED BY <4>1, SpeechAt, Zenon
    <3>2. stdout' = stdout \o q
      BY <2>1 DEF CliAsks, Emit
    <3> HIDE DEF q
    <3> QED BY <3>1, <3>2 DEF Said
  <2>2. CASE SdkAnswers
    <3> DEFINE q == StateFrame("running")
    <3>1. /\ q \in Seq(Lines) /\ Len(q) \in Nat
          /\ \A k \in 1..Len(q) : cli.reports /\ q[k] = StateLine("running")
      BY StateAlone
    <3>2. stdout' = stdout \o q
      BY <2>2 DEF SdkAnswers, Emit
    <3> HIDE DEF q
    <3> QED BY <3>1, <3>2
  <2> QED BY <2>1, <2>2
<1>4. Pending' = Pending \o q
  BY <1>1, <1>3, PendingGrows
<1>5. /\ \A k \in 1..Len(q) : ~Says(q[k], "idle") /\ ~IsResult(q[k]) /\ \A t \in Tasks : ~Announces(q[k], t) /\ ~Settles(q[k], t)
      /\ ~cli.reports => \A k \in 1..Len(q) : q[k].type # "state"
  BY <1>3 DEF StateLine, ControlFrame, Says, IsResult, Announces, Settles
<1>6. Came /\ Came' /\ Unsent' = Unsent /\ (Through => Through')
  BY <1>1, <1>2 DEF Came, Unsent, Through, SessionInv, PromptInv
<1>7. PromptInv' /\ RestInv'
  BY <1>1, <1>2, <1>6 DEF SessionInv, PromptInv, RestInv
<1>8. NoResult(q) /\ (~cli.reports /\ cli.phase = "turn" => NoResult(Pending))
      /\ (~cli.reports => \A t \in Tasks : ~(t \in cli.unused /\ t \in cli.tasks))
  BY <1>5 DEF NoResult, SessionInv, TaskInv, TasksOK
<1> QED
  BY <1>1, <1>2, <1>3, <1>4, <1>5, <1>6, <1>7, <1>8, SpeakingKeeps DEF SessionInv, EndedInv

\* A turn ends, or the CLI goes idle.
LEMMA CliEndsKeeps ==
  ASSUME SessionTypes, SessionInv, CliEndsTurn \/ CliEndsTurnIdleFirst \/ CliGoesIdle
  PROVE  SessionInv'
<1> DEFINE f == [type |-> "result"]
<1>1. /\ UNCHANGED <<run, input, stdinOpen, stdoutEnded, reader, stdinPipe>>
      /\ cli'.owed = cli.owed /\ cli'.reports = cli.reports /\ cli'.request = cli.request
      /\ cli'.tasks = cli.tasks /\ cli'.unused = cli.unused /\ cli'.woken = cli.woken
      /\ cli.phase \in {"turn", "followUp", "between"} /\ cli'.phase \in {"between", "idle"}
      /\ cli'.phase = "idle" => cli.owed = 0 /\ cli.tasks = {} /\ cli.woken = 0
      /\ cli.request # "none" => cli.phase = "between"
      /\ cli.tasks \subseteq Tasks /\ cli.unused \subseteq Tasks
  BY DEF CliEndsTurn, CliEndsTurnIdleFirst, CliGoesIdle, InTurn, NothingOwed, SessionTypes, CliState, vars
<1>2. PICK q \in Seq(Lines) :
        /\ stdout' = stdout \o q
        /\ Len(q) \in Nat
        /\ \A k \in 1..Len(q) : q[k] = f \/ (cli.reports /\ q[k] = StateLine("idle") /\ cli'.phase = "idle")
  <2>1. CASE CliEndsTurn
    <3>1. stdout' = stdout \o <<f>> /\ f \in Lines
      BY <2>1, LinesAre DEF CliEndsTurn, Emit, Result
    <3> HIDE DEF f
    <3>2. <<f>> \in Seq(Lines) /\ Len(<<f>>) = 1 /\ \A k \in 1..Len(<<f>>) : <<f>>[k] = f
      BY <3>1
    <3> QED BY <3>1, <3>2
  <2>2. CASE CliEndsTurnIdleFirst
    <3> DEFINE q == StateFrame("idle") \o <<f>>
    <3>1. Said(q, "idle", f)
      <4>1. "idle" \in {"running", "idle", "requires_action"} /\ f \in Lines
        BY LinesAre
      <4> HIDE DEF f
      <4> QED BY <4>1, SpeechAt, Zenon
    <3>2. stdout' = stdout \o q /\ cli'.phase = "idle"
      BY <2>2 DEF CliEndsTurnIdleFirst, Emit, Result, SessionTypes, CliState
    <3> HIDE DEF q, f
    <3> QED BY <3>1, <3>2 DEF Said
  <2>3. CASE CliGoesIdle
    <3> DEFINE q == StateFrame("idle")
    <3>1. /\ q \in Seq(Lines) /\ Len(q) \in Nat
          /\ \A k \in 1..Len(q) : cli.reports /\ q[k] = StateLine("idle")
      BY StateAlone
    <3>2. stdout' = stdout \o q /\ cli'.phase = "idle"
      BY <2>3 DEF CliGoesIdle, Emit, SessionTypes, CliState
    <3> HIDE DEF q
    <3> QED BY <3>1, <3>2
  <2> QED BY <2>1, <2>2, <2>3
<1>3. Pending' = Pending \o q
  BY <1>1, <1>2, PendingGrows
<1>4. /\ \A k \in 1..Len(q) : ~(\E t \in Tasks : Announces(q[k], t) \/ Settles(q[k], t))
      /\ ~cli.reports => \A k \in 1..Len(q) : q[k].type # "state"
      /\ cli'.phase # "idle" => \A k \in 1..Len(q) : ~Says(q[k], "idle")
  BY <1>2 DEF StateLine, Says, Announces, Settles
<1>5. Came /\ Came' /\ Unsent' = Unsent
  BY <1>1 DEF Came, Unsent, SessionInv, PromptInv
<1>6. (Through => Through') /\ (cli.reports /\ cli'.phase = "idle" => Through')
  BY <1>1, <1>5 DEF Through
<1>7. cli.request = "none"
  BY <1>1 DEF SessionInv, RestInv
<1>8. PromptInv' /\ RestInv'
  BY <1>1, <1>5, <1>7 DEF SessionInv, PromptInv, RestInv
<1>9. ~cli.reports => \A t \in Tasks : ~(t \in cli.unused /\ t \in cli.tasks)
  BY DEF SessionInv, TaskInv, TasksOK
<1> QED
  BY <1>1, <1>2, <1>3, <1>4, <1>6, <1>8, <1>9, SpeakingKeeps DEF SessionInv, EndedInv

\* A request is given up, or the CLI exits.
LEMMA CliQuietKeeps ==
  ASSUME SessionTypes, SessionInv, CliStranded \/ CliExits
  PROVE  SessionInv'
<1>1. /\ UNCHANGED <<run, input, stdinOpen, reader, stdinPipe, stdout>>
      /\ cli'.owed = cli.owed /\ cli'.reports = cli.reports
      /\ cli'.tasks = cli.tasks /\ cli'.unused = cli.unused /\ cli'.woken = cli.woken
      /\ \/ cli'.phase = cli.phase /\ cli'.request = "none" /\ stdoutEnded' = stdoutEnded
         \/ /\ cli.phase = "idle" /\ cli'.phase = "exited" /\ cli'.request = cli.request
            /\ ~stdinOpen
  BY DEF CliStranded, CliExits, SessionTypes, CliState, vars
<1>2. Pending' = Pending /\ Came' = Came /\ Unsent' = Unsent
  BY <1>1 DEF Pending, Came, Unsent
<1>3. ~stdinOpen => Through
  BY DEF SessionInv, EndedInv
<1>4. Through' = Through
  BY <1>1, <1>2 DEF Through
<1>5. PromptInv'
  BY <1>1, <1>2, <1>3 DEF SessionInv, PromptInv, Through
<1>6. RestInv'
  BY <1>1 DEF SessionInv, RestInv
<1>7. EndedInv'
  BY <1>1, <1>4 DEF SessionInv, EndedInv, HasEnded
<1>8. ReportInv'
  BY <1>1, <1>2, <1>3, <1>4 DEF SessionInv, ReportInv
<1>9. TaskInv'
  BY <1>1, <1>2 DEF SessionInv, TaskInv, TasksOK
<1> QED
  BY <1>5, <1>6, <1>7, <1>8, <1>9 DEF SessionInv

LEMMA CliKeeps ==
  ASSUME SessionTypes, Inv, SessionInv, CliStep \/ SdkAnswers
  PROVE  SessionInv'
BY CliReadsKeeps, CliStartsTurnKeeps, CliTaskKeeps, CliRequestKeeps, CliEndsKeeps, CliQuietKeeps DEF CliStep

-----------------------------------------------------------------------------
(* The steps of the SDK.                                                     *)

LEMMA ReaderKeeps ==
  ASSUME BidirectionalNeeds, SessionTypes, Inv, SessionInv,
         (ReaderStep /\ UNCHANGED cliVars) \/ ReadControl \/ ReadStdout
  PROVE  SessionInv'
<1>0. run \in RunState
  BY DEF Inv, RunOK
<1>1. CASE (MirrorFlushed \/ ForwardFrame) /\ UNCHANGED cliVars
  <2>1. Pending' = Pending
    BY <1>1, PendingStays DEF cliVars
  <2> QED BY <1>1, <2>1, QuietKeeps DEF MirrorFlushed, ForwardFrame, cliVars
<1>2. CASE ReadStdout
  <2>1. Pending' = Pending
    BY <1>2, PendingStays
  <2> QED BY <1>2, <2>1, QuietKeeps DEF ReadStdout, ReadFrame
<1>3. CASE HandleFrame /\ UNCHANGED cliVars
  <2>1. /\ Pending # <<>> /\ Pending' = Tail(Pending)
        /\ Pending[1] = reader.frame /\ reader.frame \in SessionFrames
    BY <1>3, PendingShrinks DEF cliVars
  <2>2. FrameView(run, reader.frame, AfterFrame(run, reader.frame))
    BY <1>0, <2>1, AfterFrameView
  <2>3. FrameView(run, Pending[1], run')
    BY <1>3, <2>1, <2>2 DEF HandleFrame
  <2> QED BY <1>3, <2>1, <2>3, HandlingKeeps DEF HandleFrame, cliVars
<1>4. CASE ReadControl
  <2>1. Pending # <<>> /\ Pending' = Tail(Pending) /\ Pending[1] = ControlFrame
    BY <1>4, PendingShrinks
  <2>2. FrameView(run, ControlFrame, run)
    BY <1>0 DEF FrameView, ControlFrame, IsResult, Settles, Announces, RunState
  <2>3. /\ UNCHANGED <<run, input, stdinPipe, stdinOpen, stdoutEnded>>
        /\ cli'.reports = cli.reports /\ cli'.phase = cli.phase /\ cli'.owed = cli.owed
        /\ cli'.tasks = cli.tasks /\ cli'.unused = cli.unused /\ cli'.woken = cli.woken
        /\ cli'.request # "none" => cli.request # "none"
    BY <1>4 DEF ReadControl, SessionTypes, CliState, vars
  <2> QED BY <2>1, <2>2, <2>3, HandlingKeeps
<1>5. CASE ReaderExit(EndOfStream) /\ UNCHANGED cliVars
  <2> DEFINE g == [run EXCEPT !.runFinal = TRUE]
  <2>1. Pending' = Pending
    BY <1>5, PendingStays DEF cliVars
  <2>2. Through
    BY <1>5 DEF ReaderExit, EndOfStream, SessionInv, EndedInv
  <2>3. KeepsLedger(run, run')
    <3>1. g \in RunState /\ KeepsLedger(run, g)
      BY <1>0 DEF RunState, KeepsLedger
    <3>2. run' = EndRun(g)
      BY <1>5 DEF ReaderExit, Finalize
    <3> HIDE DEF g
    <3> QED BY <3>1, <3>2, EndRunOK DEF KeepsLedger
  <2>4. UNCHANGED <<input, cli, stdinPipe, stdinOpen, stdoutEnded>>
    BY <1>5 DEF ReaderExit, cliVars
  <2>5. Through' /\ Came' = Came /\ Unsent' = Unsent
    BY <2>2, <2>3, <2>4 DEF Through, Came, Unsent, KeepsLedger
  <2>6. PromptInv' /\ RestInv' /\ EndedInv' /\ ReportInv'
    BY <2>1, <2>4, <2>5 DEF SessionInv, PromptInv, RestInv, EndedInv, ReportInv
  <2>7. TaskInv'
    BY <2>1, <2>3, <2>4 DEF SessionInv, TaskInv, KeepsLedger
  <2> QED BY <2>6, <2>7 DEF SessionInv
<1> QED
  BY <1>1, <1>2, <1>3, <1>4, <1>5 DEF ReaderStep

LEMMA InputKeeps ==
  ASSUME BidirectionalNeeds, MaxPrompts <= 1, SessionTypes, Inv, SessionInv,
         (InputStep /\ UNCHANGED cliVars) \/ WritePrompt
  PROVE  SessionInv'
<1> DEFINE I == [pc : InputPcs, ch : Nat, written : Nat, prompts : Nat]
<1>0. /\ run \in RunState /\ input \in I
      /\ MaxPrompts \in Nat /\ stdinPipe \in Nat /\ cli.owed \in Nat
  BY RunEndAssumption DEF Inv, RunOK, ActorsOK, SessionTypes, CliState
<1>f. UNCHANGED <<reader, cli, stdout, stdoutEnded>> /\ Pending' = Pending
  <2>1. UNCHANGED <<reader, cli, stdout, stdoutEnded>>
    BY DEF InputStep, WritePrompt, StreamNext, StreamWritten, StreamEnds, WaiterStep, NothingWritten,
           SnapshotRunEnded, WaiterWakes, WaiterMakesFinal, EndInput, cliVars
  <2> QED BY <2>1, PendingStays
\* Until the prompt is read the CLI is idle, with nothing begun.
<1>u. ~Came => cli.phase = "idle" /\ cli.tasks = {} /\ NoResult(Pending) /\ ~HasEnded(run) /\ ~Through
  BY DEF SessionInv, PromptInv, RestInv, EndedInv, Through
<1>1. CASE StreamNext /\ ~run.closed /\ UNCHANGED cliVars
  <2>1. /\ input.pc = "next" /\ input.prompts = 0 /\ input.written = 0
        /\ input'.pc = "write" /\ input'.prompts = 1 /\ input'.written = 0
        /\ run' = OweRun(run)
        /\ UNCHANGED <<stdinPipe, stdinOpen>>
    <3>1. /\ input.pc = "next" /\ input.prompts < MaxPrompts /\ input.written = input.prompts
          /\ input' = [input EXCEPT !.pc = "write", !.prompts = @ + 1]
          /\ run' = OweRun(run)
          /\ UNCHANGED <<stdinPipe, stdinOpen>>
      BY <1>1 DEF StreamNext, cliVars, SessionInv, PromptInv
    <3>2. input.prompts \in Nat /\ input.prompts = 0
      BY <1>0, <3>1
    <3>3. /\ input'.pc = "write" /\ input'.prompts = input.prompts + 1
          /\ input'.written = input.written
      BY <1>0, <3>1
    <3> QED BY <3>1, <3>2, <3>3
  <2>2. Unsent /\ Unsent' /\ ~Came /\ ~Came' /\ ~Through' /\ stdinPipe = 0 /\ cli.owed = 0 /\ stdinOpen
    BY <2>1 DEF Unsent, Came, Through, SessionInv, PromptInv, EndedInv
  <2>3. /\ KeepsLedger(run, run') /\ run'.sessionState = run.sessionState /\ ~run'.resultReceived
        /\ ~HasEnded(run')
    <3> DEFINE o == ReopenRun(run)
               p == [o EXCEPT !.resultReceived = FALSE]
    <3>1. o \in RunState /\ Calm(run, o)
      BY <1>0, ReopenOK, ReopenCalm
    <3>2. run' = ClearRunEndCeiling(p)
      BY <2>1 DEF OweRun
    <3> HIDE DEF o
    <3>3. /\ p \in RunState /\ KeepsLedger(o, p) /\ p.sessionState = o.sessionState
          /\ ~p.resultReceived /\ (HasEnded(p) => HasEnded(o))
      BY <3>1 DEF RunState, KeepsLedger, HasEnded
    <3> HIDE DEF p
    <3>4. Calm(p, run')
      BY <3>2, <3>3, ClearCalm
    <3> QED BY <1>u, <2>2, <3>1, <3>3, <3>4 DEF Calm, KeepsLedger, KeepsReport
  <2>4. PromptInv'
    BY <1>f, <1>u, <2>1, <2>2 DEF PromptInv
  <2>5. RestInv' /\ EndedInv'
    BY <1>f, <2>1, <2>2, <2>3 DEF SessionInv, RestInv, EndedInv
  <2>6. ReportInv'
    BY <1>f, <1>u, <2>2, <2>3 DEF SessionInv, ReportInv, ReportOK
  <2>7. TaskInv'
    BY <1>f, <2>3 DEF SessionInv, TaskInv, KeepsLedger
  <2> QED BY <2>4, <2>5, <2>6, <2>7 DEF SessionInv
<1>2. CASE WritePrompt
  <2>1. /\ input.pc = "write" /\ input.prompts = 1 /\ input.written = 0
        /\ input'.pc = "next" /\ input'.prompts = 1 /\ input'.written = 1
        /\ stdinPipe' = stdinPipe + 1
        /\ UNCHANGED <<run, stdinOpen>>
    BY <1>0, <1>2 DEF WritePrompt, StreamWritten, SessionInv, PromptInv
  <2>2. Unsent /\ ~Unsent' /\ stdinPipe = 0 /\ cli.owed = 0 /\ stdinPipe' = 1 /\ cli'.owed = 0
    BY <1>f, <2>1 DEF Unsent, SessionInv, PromptInv
  <2>3. ~Came /\ ~Came' /\ ~Through' /\ stdinOpen
    BY <2>1, <2>2 DEF Came, Through, SessionInv, EndedInv
  <2>4. PromptInv'
    BY <1>f, <1>u, <2>1, <2>2, <2>3 DEF PromptInv
  <2>5. RestInv' /\ EndedInv'
    BY <1>f, <1>u, <2>1, <2>3 DEF SessionInv, RestInv, EndedInv, HasEnded
  <2>6. ReportInv' /\ TaskInv'
    BY <1>f, <1>u, <2>1, <2>3 DEF SessionInv, ReportInv, TaskInv
  <2> QED BY <2>4, <2>5, <2>6 DEF SessionInv
\* The loop of StreamInput ends.
<1>3. CASE (StreamEnds \/ (StreamNext /\ run.closed)) /\ UNCHANGED cliVars
  <2>1. /\ input.pc = "next" /\ input'.pc = AfterLoop /\ input'.written = input.written
        /\ input'.prompts = input.prompts
        /\ UNCHANGED <<run, stdinPipe, stdinOpen>>
    BY <1>0, <1>3 DEF StreamEnds, StreamNext, cliVars
  <2>2. CASE input.written = 0
    <3>1. input'.pc = "nothing" /\ Unsent /\ ~Unsent' /\ stdinPipe = 0 /\ cli.owed = 0
      BY <2>1, <2>2 DEF AfterLoop, Unsent, SessionInv, PromptInv
    <3>2. ~Came /\ Came'
      BY <1>f, <2>1, <3>1 DEF Came
    <3>3. Through'
      BY <1>f, <1>u, <2>1, <3>2 DEF Through
    <3>4. PromptInv'
      BY <1>f, <2>1, <3>1, <3>2 DEF SessionInv, PromptInv
    <3>5. RestInv' /\ EndedInv' /\ ReportInv'
      BY <1>f, <2>1, <3>1, <3>3 DEF SessionInv, RestInv, EndedInv, ReportInv
    <3>6. TaskInv'
      BY <1>f, <2>1 DEF SessionInv, TaskInv
    <3> QED BY <3>4, <3>5, <3>6 DEF SessionInv
  <2>3. CASE input.written # 0
    <3>1. input'.pc = "snapshot" /\ ~Unsent /\ ~Unsent'
      BY <2>1, <2>3 DEF AfterLoop, Unsent
    <3>2. Came' = Came /\ Through' = Through
      BY <1>f, <2>1, <3>1 DEF Came, Through
    <3>3. PromptInv'
      BY <1>f, <2>1, <3>1, <3>2 DEF SessionInv, PromptInv
    <3>4. RestInv' /\ EndedInv' /\ ReportInv' /\ TaskInv'
      BY <1>f, <2>1, <3>1, <3>2 DEF SessionInv, RestInv, EndedInv, ReportInv, TaskInv, HasEnded
    <3> QED BY <3>3, <3>4 DEF SessionInv
  <2> QED BY <2>2, <2>3
\* The waiter goes on only when the work is done.
<1>4. CASE WaiterStep /\ UNCHANGED cliVars
  <2>1. /\ input.pc \in {"nothing", "snapshot", "wait", "final", "endInput"}
        /\ input'.pc \in {"wait", "final", "endInput", "done"}
        /\ input'.pc # "wait" => Through
        /\ stdinOpen' = stdinOpen \/ (input'.pc = "done" /\ ~stdinOpen')
        /\ stdinPipe' = stdinPipe
    <3>1. CASE WaiterWakes
      <4>1. input.pc = "wait" /\ input'.pc = "final" /\ input.ch \in Nat /\ run.runEndedCh \in Nat
        BY <1>0, <3>1 DEF WaiterWakes, RunState
      <4>2. HasEnded(run)
        BY <3>1, <4>1 DEF WaiterWakes, ChannelClosed, HasEnded
      <4> QED BY <1>4, <3>1, <4>1, <4>2 DEF WaiterWakes, SessionInv, EndedInv, cliVars
    <3>2. CASE SnapshotRunEnded
      <4>1. input.pc = "snapshot" /\ input'.pc = "wait"
        BY <1>0, <3>2 DEF SnapshotRunEnded
      <4> QED BY <1>4, <3>2, <4>1 DEF SnapshotRunEnded, cliVars
    <3>3. CASE NothingWritten \/ WaiterMakesFinal \/ EndInput
      BY <1>0, <1>4, <3>3 DEF NothingWritten, WaiterMakesFinal, EndInput, SessionInv, EndedInv, cliVars
    <3> QED BY <1>4, <3>1, <3>2, <3>3 DEF WaiterStep
  <2>2. /\ run' \in RunState /\ KeepsLedger(run, run') /\ KeepsReport(run, run')
        /\ HasEnded(run') => HasEnded(run)
    <3> DEFINE f == [run EXCEPT !.runFinal = TRUE]
    <3>1. f \in RunState /\ Calm(run, f) /\ Calm(run, run)
      BY <1>0 DEF RunState, Calm, KeepsLedger, KeepsReport, HasEnded
    <3>2. run' = f \/ run' = ClearRunEndCeiling(f) \/ run' = run
      BY <1>4 DEF WaiterStep, NothingWritten, SnapshotRunEnded, WaiterWakes, WaiterMakesFinal, EndInput
    <3> HIDE DEF f
    <3>3. Calm(f, ClearRunEndCeiling(f))
      BY <3>1, ClearCalm
    <3>4. Calm(run, run')
      BY <3>1, <3>2, <3>3, CalmTrans
    <3> QED BY <3>4 DEF Calm
  <2>3. ~Unsent /\ ~Unsent'
    BY <2>1 DEF Unsent
  <2>4. Came' = Came /\ Through' = Through
    BY <1>f, <2>1, <2>2, <2>3 DEF Came, Through, KeepsLedger
  <2>5. PromptInv'
    BY <1>f, <2>1, <2>3, <2>4 DEF SessionInv, PromptInv
  <2>6. RestInv' /\ EndedInv'
    BY <1>f, <2>1, <2>2, <2>4 DEF SessionInv, RestInv, EndedInv
  <2>7. ReportInv' /\ TaskInv'
    BY <1>f, <2>2, <2>4 DEF SessionInv, ReportInv, TaskInv, KeepsLedger, KeepsReport
  <2> QED BY <2>5, <2>6, <2>7 DEF SessionInv
<1> QED
  BY <1>1, <1>2, <1>3, <1>4 DEF InputStep

LEMMA SessionInvNext ==
  ASSUME BidirectionalNeeds, MaxPrompts <= 1, SessionTypes, Inv, SessionInv, [SessionNext]_allVars
  PROVE  SessionInv'
<1>1. CASE SdkStep
  BY <1>1, ReaderKeeps, InputKeeps, CliKeeps DEF SdkStep
<1>2. CASE CliStep
  BY <1>2, CliKeeps
<1>3. CASE Done \/ UNCHANGED allVars
  <2>1. UNCHANGED <<run, input, cli, stdinPipe, stdinOpen, stdoutEnded, reader, stdout>>
    BY <1>3 DEF Done, allVars, vars, cliVars
  <2>2. Pending' = Pending
    BY <2>1, PendingStays
  <2> QED BY <2>1, <2>2, QuietKeeps
<1> QED
  BY <1>1, <1>2, <1>3 DEF SessionNext

LEMMA SessionInvInit == CliInit => SessionInv
<1> SUFFICES ASSUME CliInit PROVE SessionInv
  OBVIOUS
<1>1. /\ run.sessionState = NoState /\ ~run.resultReceived /\ ~HasEnded(run)
      /\ reader.pc = "recv" /\ stdinOpen /\ ~stdoutEnded
      /\ input.pc \in {"snapshot", "next"} /\ input.written = 0 /\ input.prompts = 0
      /\ cli.phase = "idle" /\ cli.tasks = {} /\ cli.woken = 0 /\ cli.request = "none" /\ cli.owed = 0
      /\ stdinPipe = IF input.pc = "snapshot" THEN 1 ELSE 0
  BY DEF CliInit, Init, HasEnded
<1>2. Pending = stdout
  BY <1>1 DEF Pending
<1>3. stdout = <<>> \/ (cli.reports /\ stdout = <<StateLine("idle")>>)
  <2>1. StateFrame("idle") = IF cli.reports THEN <<StateLine("idle")>> ELSE <<>>
    BY DEF StateFrame, StateLine
  <2>2. stdout \in {<<>>, StateFrame("idle")}
    BY DEF CliInit
  <2> QED BY <2>1, <2>2, Zenon
<1>4. \A i \in 1..Len(stdout) : cli.reports /\ i = 1 /\ stdout[i] = StateLine("idle")
  <2> DEFINE x == StateLine("idle")
  <2>1. /\ \A i \in 1..Len(<<>>) : FALSE
        /\ \A i \in 1..Len(<<x>>) : i = 1 /\ <<x>>[i] = x
    OBVIOUS
  <2> HIDE DEF x
  <2> QED BY <1>3, <2>1, Zenon DEF x
<1>5. ~Came /\ ~Through
  BY <1>1 DEF Came, Unsent, Through
<1>6. NoResult(Pending)
  BY <1>2, <1>4 DEF NoResult, IsResult, StateLine
<1>7. PromptInv /\ RestInv /\ EndedInv
  BY <1>1, <1>5, <1>6 DEF PromptInv, RestInv, EndedInv, Unsent
<1>8. ReportInv
  BY <1>1, <1>2, <1>4 DEF ReportInv, ReportOK, IsResult, StateLine
<1>9. TaskInv
  BY <1>1, <1>2, <1>4 DEF TaskInv, TasksOK
<1> QED
  BY <1>7, <1>8, <1>9 DEF SessionInv

\* The inductive invariant of a session with a single prompt, for a host that
\* serves the CLI over stdin.
THEOREM SessionInvariance ==
  ASSUME BidirectionalNeeds, MaxPrompts <= 1
  PROVE  SessionSpec => [](Inv /\ SessionTypes /\ SessionInv)
<1>1. CliInit => Inv /\ SessionTypes /\ SessionInv
  BY SessionBegins, InitInv, SessionInvInit
<1>2. Inv /\ SessionTypes /\ SessionInv /\ [SessionNext]_allVars => (Inv /\ SessionTypes /\ SessionInv)'
  BY SessionStepsRun, SessionTyped, NextInv, SessionInvNext
<1> QED
  BY <1>1, <1>2, PTL DEF SessionSpec

\* Stdin outlives the work: when it is closed the prompt has had its turn, no
\* background task runs, and a CLI that reports its state has run every follow-up
\* turn (query.go:103-108, 906-917, 1086-1090).
THEOREM StdinOutlives ==
  ASSUME BidirectionalNeeds, MaxPrompts <= 1
  PROVE  SessionSpec => []StdinOutlivesTheWork
<1>1. SessionTypes /\ SessionInv => StdinOutlivesTheWork
  BY SessionInvShows
<1> QED
  BY <1>1, SessionInvariance, PTL

\* No request of a CLI that reports its state ever finds stdin closed on it
\* (query.go:44-57, 1025-1034).
THEOREM ChannelStaysOpen ==
  ASSUME BidirectionalNeeds, MaxPrompts <= 1
  PROVE  SessionSpec => []ControlChannelOpen
<1>1. CliInit => ControlChannelOpen
  BY DEF CliInit, ControlChannelOpen
<1>2. SessionTypes /\ SessionInv /\ ControlChannelOpen /\ [SessionNext]_allVars => ControlChannelOpen'
  <2> SUFFICES ASSUME SessionTypes, SessionInv, ControlChannelOpen, [SessionNext]_allVars
               PROVE  ControlChannelOpen'
    OBVIOUS
  <2>1. CASE CliStranded
    <3>1. ~cli.reports
      BY <2>1, SessionInvShows DEF CliStranded
    <3>2. cli'.reports = cli.reports
      BY <2>1 DEF CliStranded, SessionTypes, CliState
    <3> QED BY <3>1, <3>2 DEF ControlChannelOpen
  <2>2. CASE ~CliStranded
    <3>1. cli'.reports = cli.reports /\ cli'.stranded = cli.stranded
      BY <2>2 DEF SessionNext, SdkStep, CliStep, CliReadsPrompt, CliStartsTurn, CliStartsTask, CliTaskSettles, CliAsks,
                  CliEndsTurn, CliEndsTurnIdleFirst, CliGoesIdle, CliExits, SdkAnswers, ReadControl, ReadStdout,
                  WritePrompt, Done, allVars, cliVars, SessionTypes, CliState
    <3> QED BY <3>1, SMTT(60) DEF ControlChannelOpen
  <2> QED BY <2>1, <2>2
<1> QED
  BY <1>1, <1>2, SessionInvariance, PTL DEF SessionSpec
=============================================================================
