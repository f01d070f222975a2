---------------------------- MODULE MirrorBatcher ----------------------------
(***************************************************************************)
(* The transcript mirror (internal/mirror_batcher.go) with the two         *)
(* goroutines that use it: the read loop of query.go, which enqueues a     *)
(* batch per transcript_mirror frame and flushes before it hands a result  *)
(* to the caller, and Close (Query.Close, then ClaudeSDKClient.Close once  *)
(* more), which flushes and stops the worker.                              *)
(*                                                                         *)
(* A batch is the number of its frame; its entries are their count.  The   *)
(* approximate byte size follows the same course as that count and is left *)
(* out, as are the warning threshold, the back-off times and onError, which*)
(* every caller in this repository leaves nil.                             *)
(***************************************************************************)
EXTENDS Integers, Sequences, FiniteSets, SequencesExt, Functions

CONSTANTS
  QueueCap,      \* capacity of b.queue (256)
  MaxAttempts,   \* maxMirrorAttempts
  MaxBatches,    \* bound: transcript_mirror frames
  MaxResults,    \* bound: result frames
  EntryCount     \* entries of each batch: [1..MaxBatches -> Nat \ {0}]

ASSUME MirrorAssumption ==
  /\ QueueCap \in Nat \ {0}
  /\ MaxAttempts \in Nat \ {0}
  /\ MaxBatches \in Nat
  /\ MaxResults \in Nat
  /\ EntryCount \in [1..MaxBatches -> Nat \ {0}]

VARIABLES
  queue,           \* b.queue
  worker,          \* run(): [pc, unit, attempt]
  pendingEntries,  \* b.pendingEntries
  done,            \* b.done is closed
  processed,       \* units whose done channel is closed
  store,           \* batches the store wrote (whole or in part), in order
  lost,            \* batches given up: queue full, or every attempt failed
  closed,          \* q.closed
  reader,          \* the read loop: [pc, unit]
  closer,          \* Close: [pc, unit, pass]
  taken,           \* transcript_mirror frames read
  results,         \* result frames read
  observed         \* frames read before the last result the caller received

batcherVars == <<queue, worker, pendingEntries, done, processed, store, lost>>
vars == <<queue, worker, pendingEntries, done, processed, store, lost,
          closed, reader, closer, taken, results, observed>>

Batches == 1..MaxBatches

\* A unit of work: a batch, or a Flush's sentinel, each with a done channel.
BatchUnit(b)    == [type |-> "batch", id |-> b]
Sentinel(k)     == [type |-> "sentinel", id |-> k]
NoUnit          == [type |-> "none", id |-> 0]
Units           == [type : {"batch", "sentinel"}, id : Nat]

\* Sentinels by their flush: the reader's are numbered by result, Close's
\* passes follow.
ReaderSentinel  == Sentinel(results)
CloserSentinel  == Sentinel(MaxResults + closer.pass)

Entries(u) == IF u.type = "batch" THEN EntryCount[u.id] ELSE 0

-----------------------------------------------------------------------------
Init ==
  /\ queue = <<>>
  /\ worker = [pc |-> "select", unit |-> NoUnit, attempt |-> 0]
  /\ pendingEntries = 0
  /\ done = FALSE
  /\ processed = {}
  /\ store = <<>>
  /\ lost = {}
  /\ closed = FALSE
  /\ reader = [pc |-> "recv", unit |-> NoUnit]
  /\ closer = [pc |-> "idle", unit |-> NoUnit, pass |-> 1]
  /\ taken = 0 /\ results = 0 /\ observed = 0

(* ---- Enqueue, called by the read loop ---- *)

ReadMirrorFrame ==
  /\ reader.pc = "recv" /\ ~closed /\ taken < MaxBatches
  /\ taken' = taken + 1
  /\ reader' = [pc |-> "count", unit |-> BatchUnit(taken + 1)]
  /\ UNCHANGED <<batcherVars, closed, closer, results, observed>>

CountPending ==
  /\ reader.pc = "count"
  /\ pendingEntries' = pendingEntries + Entries(reader.unit)
  /\ reader' = [reader EXCEPT !.pc = "push"]
  /\ UNCHANGED <<queue, worker, done, processed, store, lost,
                 closed, closer, taken, results, observed>>

\* The select that never blocks: the batch is queued, or refused when full.
PushBatch ==
  /\ reader.pc = "push"
  /\ Len(queue) < QueueCap
  /\ queue' = Append(queue, reader.unit)
  /\ reader' = [pc |-> "recv", unit |-> NoUnit]
  /\ UNCHANGED <<worker, pendingEntries, done, processed, store, lost,
                 closed, closer, taken, results, observed>>

RefuseBatch ==
  /\ reader.pc = "push"
  /\ Len(queue) = QueueCap
  /\ pendingEntries' = pendingEntries - Entries(reader.unit)
  /\ processed' = processed \cup {reader.unit}
  /\ lost' = lost \cup {reader.unit.id}
  /\ reader' = [pc |-> "recv", unit |-> NoUnit]
  /\ UNCHANGED <<queue, worker, done, store, closed, closer, taken, results, observed>>

(* ---- Flush(context.Background()) ---- *)

\* The first select: the sentinel is queued, or the batcher is done.
SendSentinel(s) ==
  \/ /\ Len(queue) < QueueCap
     /\ queue' = Append(queue, s)
  \/ /\ done
     /\ UNCHANGED queue

Flushed_Mutant(s) == TRUE   \* returns once the sentinel is queued


\* The second select; after a sentinel that was not sent it is passed at once.
Flushed(s) == s \in processed \/ done

(* ---- a result frame ---- *)

ReadResult ==
  /\ reader.pc = "recv" /\ ~closed /\ results < MaxResults
  /\ results' = results + 1
  /\ reader' = [pc |-> "flush", unit |-> NoUnit]
  /\ UNCHANGED <<batcherVars, closed, closer, taken, observed>>

FlushResult ==
  /\ reader.pc = "flush"
  /\ SendSentinel(ReaderSentinel)
  /\ reader' = [pc |-> "flushing", unit |-> ReaderSentinel]
  /\ UNCHANGED <<worker, pendingEntries, done, processed, store, lost,
                 closed, closer, taken, results, observed>>

\* The result is handled, and forwarded unless the query was closed meanwhile.
ResultFlushed ==
  /\ reader.pc = "flushing"
  /\ Flushed(reader.unit)
  /\ reader' = [pc |-> IF closed THEN "recv" ELSE "forward", unit |-> NoUnit]
  /\ UNCHANGED <<batcherVars, closed, closer, taken, results, observed>>

\* The caller takes the result, even from a query being closed.
ResultObserved ==
  /\ reader.pc = "forward"
  /\ observed' = taken
  /\ reader' = [reader EXCEPT !.pc = "recv"]
  /\ UNCHANGED <<batcherVars, closed, closer, taken, results>>

ResultAbandoned ==
  /\ reader.pc = "forward" /\ closed
  /\ reader' = [reader EXCEPT !.pc = "recv"]
  /\ UNCHANGED <<batcherVars, closed, closer, taken, results, observed>>

\* The stream ends, or a frame finds the query closed.
ReaderExit ==
  /\ reader.pc = "recv"
  /\ reader' = [reader EXCEPT !.pc = "gone"]
  /\ UNCHANGED <<batcherVars, closed, closer, taken, results, observed>>

(* ---- the worker ---- *)

\* Either arm of the select may be taken when both are ready.
TakeUnit ==
  /\ worker.pc = "select"
  /\ queue # <<>>
  /\ queue' = Tail(queue)
  /\ worker' = [pc |-> IF Head(queue).type = "batch" THEN "append" ELSE "settle",
                unit |-> Head(queue), attempt |-> 0]
  /\ UNCHANGED <<pendingEntries, done, processed, store, lost,
                 closed, reader, closer, taken, results, observed>>

AppendSucceeds ==
  /\ worker.pc = "append"
  /\ store' = Append(store, worker.unit.id)
  /\ worker' = [worker EXCEPT !.pc = "settle", !.attempt = @ + 1]
  /\ UNCHANGED <<queue, pendingEntries, done, processed, lost,
                 closed, reader, closer, taken, results, observed>>


AppendFails_Mutant2(written) ==   \* the worker returns when it gives a batch up
  /\ worker.pc = "append"
  /\ store' = IF written THEN Append(store, worker.unit.id) ELSE store
  /\ IF worker.attempt + 1 < MaxAttempts
     THEN /\ worker' = [worker EXCEPT !.attempt = @ + 1]
          /\ UNCHANGED <<lost>>
     ELSE /\ worker' = [worker EXCEPT !.pc = "gone", !.attempt = @ + 1]
          /\ lost' = lost \cup {worker.unit.id}
  /\ UNCHANGED <<queue, pendingEntries, done, processed,
                 closed, reader, closer, taken, results, observed>>

\* A failed attempt may have written a part; the last one gives the batch up.
AppendFails(written) ==
  /\ worker.pc = "append"
  /\ store' = IF written THEN Append(store, worker.unit.id) ELSE store
  /\ IF worker.attempt + 1 < MaxAttempts
     THEN /\ worker' = [worker EXCEPT !.attempt = @ + 1]
          /\ UNCHANGED <<lost>>
     ELSE /\ worker' = [worker EXCEPT !.pc = "settle", !.attempt = @ + 1]
          /\ lost' = lost \cup {worker.unit.id}
  /\ UNCHANGED <<queue, pendingEntries, done, processed,
                 closed, reader, closer, taken, results, observed>>

SettleUnit ==
  /\ worker.pc = "settle"
  /\ pendingEntries' = pendingEntries - Entries(worker.unit)
  /\ processed' = processed \cup {worker.unit}
  /\ worker' = [pc |-> "select", unit |-> NoUnit, attempt |-> 0]
  /\ UNCHANGED <<queue, done, store, lost,
                 closed, reader, closer, taken, results, observed>>

WorkerStops ==
  /\ worker.pc = "select"
  /\ done
  /\ worker' = [worker EXCEPT !.pc = "gone"]
  /\ UNCHANGED <<queue, pendingEntries, done, processed, store, lost,
                 closed, reader, closer, taken, results, observed>>

(* ---- Close ---- *)

\* Query.Close marks the query closed before it closes the batcher.
StartClose ==
  /\ closer.pc = "idle"
  /\ closed' = TRUE
  /\ closer' = [closer EXCEPT !.pc = "flush"]
  /\ UNCHANGED <<batcherVars, reader, taken, results, observed>>

FlushAtClose ==
  /\ closer.pc = "flush"
  /\ SendSentinel(CloserSentinel)
  /\ closer' = [closer EXCEPT !.pc = "flushing", !.unit = CloserSentinel]
  /\ UNCHANGED <<worker, pendingEntries, done, processed, store, lost,
                 closed, reader, taken, results, observed>>

StopWorker ==
  /\ closer.pc = "flushing"
  /\ Flushed(closer.unit)
  /\ done' = TRUE
  /\ closer' = [closer EXCEPT !.pc = "join"]
  /\ UNCHANGED <<queue, worker, pendingEntries, processed, store, lost,
                 closed, reader, taken, results, observed>>

\* wg.Wait; the client then closes the batcher a second time.
JoinWorker ==
  /\ closer.pc = "join"
  /\ worker.pc = "gone"
  /\ closer' = IF closer.pass = 1 THEN [pc |-> "flush", unit |-> NoUnit, pass |-> 2]
               ELSE [closer EXCEPT !.pc = "done"]
  /\ UNCHANGED <<batcherVars, closed, reader, taken, results, observed>>

-----------------------------------------------------------------------------
EnqueueStep == CountPending \/ PushBatch \/ RefuseBatch
ResultStep  == FlushResult \/ ResultFlushed
WorkerStep  == TakeUnit \/ AppendSucceeds \/ (\E w \in BOOLEAN : AppendFails(w)) \/ SettleUnit
CloserStep  == FlushAtClose \/ StopWorker \/ JoinWorker

Terminated ==
  /\ reader.pc = "gone" /\ closer.pc = "done" /\ worker.pc = "gone"
  /\ UNCHANGED vars

Next ==
  \/ ReadMirrorFrame \/ ReadResult \/ EnqueueStep \/ ResultStep
  \/ ResultObserved \/ ResultAbandoned \/ ReaderExit
  \/ WorkerStep \/ WorkerStops
  \/ StartClose \/ CloserStep
  \/ Terminated

Spec == Init /\ [][Next]_vars

\* Goroutines that can run do run and the store's Append returns; neither the
\* CLI nor the caller owes a step.
Fairness ==
  /\ WF_vars(EnqueueStep) /\ WF_vars(ResultStep)
  /\ WF_vars(WorkerStep) /\ WF_vars(WorkerStops) /\ WF_vars(CloserStep)

FairSpec == Spec /\ Fairness

-----------------------------------------------------------------------------
(* Properties *)

TypeOK ==
  /\ queue \in Seq(Units) /\ Len(queue) <= QueueCap
  /\ worker \in [pc : {"select", "append", "settle", "gone"}, unit : Units \cup {NoUnit},
                 attempt : 0..MaxAttempts]
  /\ pendingEntries \in Nat
  /\ done \in BOOLEAN /\ closed \in BOOLEAN
  /\ processed \subseteq Units
  /\ store \in Seq(Batches) /\ lost \subseteq Batches
  /\ reader \in [pc : {"recv", "count", "push", "flush", "flushing", "forward", "gone"},
                 unit : Units \cup {NoUnit}]
  /\ closer \in [pc : {"idle", "flush", "flushing", "join", "done"},
                 unit : Units \cup {NoUnit}, pass : 1..2]
  /\ taken \in 0..MaxBatches /\ results \in 0..MaxResults /\ observed \in 0..MaxBatches

BatchesIn(units) == {u.id : u \in {v \in units : v.type = "batch"}}

\* Accepted and not settled: in the worker's hands, or queued.
Accepted == BatchesIn({worker.unit} \cup ToSet(queue))

\* A caller that observes a result finds every frame read before it settled:
\* persisted, or given up on (query.go:1236-1237), even if Close runs meanwhile.
ResultAfterMirror ==
  \A b \in 1..observed :
     BatchUnit(b) \in processed /\ (b \in ToSet(store) \/ b \in lost)

\* Close waits for all that was accepted before the query was marked closed:
\* only the frame the read loop held at that moment can be left behind.
AtMostOneLeftBehind ==
  worker.pc = "gone" =>
     Cardinality(Accepted \cup BatchesIn({reader.unit})) <= 1


\* What OrderedDelivery calls pending: the worker's batch and those queued.
InHand(unit) == IF unit.type = "batch" THEN <<unit.id>> ELSE <<>>
QueuedBatches == FlattenSeq([i \in DOMAIN queue |-> InHand(queue[i])])

Delivery == INSTANCE OrderedDelivery WITH
  Batch   <- Batches,
  pending <- InHand(worker.unit) \o QueuedBatches,
  tries   <- worker.attempt,
  log     <- store,
  stopped <- worker.pc = "gone"

\* No step but those of OrderedDelivery: a batch accepted is neither overtaken nor
\* dropped before it was written or every attempt was made, and none is left in the
\* middle of its attempts (mirror_batcher.go:41-51).
DeliversInOrder == Delivery!Safety

=============================================================================
