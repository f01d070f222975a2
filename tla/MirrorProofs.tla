---------------------------- MODULE MirrorProofs ----------------------------
(***************************************************************************)
(* The guarantee the read loop's flush gives to callers (a result is       *)
(* observed after the frames before it), and what Close leaves behind, for *)
(* every queue capacity, number of attempts and of frames, and division    *)
(* into batches.                                                           *)
(***************************************************************************)
EXTENDS MirrorBatcher, FiniteSetTheorems, SequenceLemmas, TLAPS

Queued(u)   == \E i \in 1..Len(queue) : queue[i] = u
InWorker(u) == worker.pc \in {"append", "settle"} /\ worker.unit = u
InReader(u) == reader.pc \in {"count", "push"} /\ reader.unit = u
Settled(b)  == BatchUnit(b) \in processed

Types ==
  /\ queue \in Seq(Units)
  /\ worker \in [pc : {"select", "append", "settle", "gone"}, unit : Units \cup {NoUnit}, attempt : Nat]
  /\ store \in Seq(Nat)
  /\ reader \in [pc : {"recv", "count", "push", "flush", "flushing", "forward", "gone"},
                 unit : Units \cup {NoUnit}]
  /\ closer \in [pc : {"idle", "flush", "flushing", "join", "done"},
                 unit : Units \cup {NoUnit}, pass : 1..2]
  /\ taken \in Nat /\ results \in Nat /\ observed \in Nat
  /\ results <= MaxResults

\* Only Close stops the worker, and it marks the query closed first.
ClosedFirst == (done \/ closer.pc # "idle") => closed

\* A frame read is with the reader, in the queue, with the worker, or settled.
Located ==
  \A b \in 1..taken :
     Settled(b) \/ InReader(BatchUnit(b)) \/ Queued(BatchUnit(b)) \/ InWorker(BatchUnit(b))

\* What is settled was written or given up.
Accounted ==
  /\ \A b \in Nat : Settled(b) => b \in ToSet(store) \/ b \in lost
  /\ worker.pc = "append" => worker.unit.type = "batch"
  /\ worker.pc = "settle" /\ worker.unit.type = "batch" =>
       worker.unit.id \in ToSet(store) \/ worker.unit.id \in lost

\* The sentinel of a flush not yet begun is nowhere.
FreshSentinel ==
  \A k \in 1..MaxResults :
     (k > results \/ (k = results /\ reader.pc = "flush")) =>
        Sentinel(k) \notin processed /\ ~Queued(Sentinel(k)) /\ ~InWorker(Sentinel(k))

\* While the read loop waits for its sentinel, no batch is behind it.
SentinelIsLast ==
  reader.pc = "flushing" /\ ~done =>
     \/ reader.unit \in processed /\ \A b \in 1..taken : Settled(b)
     \/ /\ reader.unit \notin processed
        /\ InWorker(reader.unit)
        /\ \A i \in 1..Len(queue) : queue[i].type # "batch" /\ queue[i] # reader.unit
     \/ /\ reader.unit \notin processed
        /\ ~InWorker(reader.unit)
        /\ \E i \in 1..Len(queue) :
             /\ queue[i] = reader.unit
             /\ \A j \in 1..Len(queue) : /\ j # i => queue[j] # reader.unit
                                         /\ j > i => queue[j].type # "batch"

Flushing ==
  /\ reader.pc \in {"flush", "flushing"} => results >= 1
  /\ reader.pc = "flushing" => reader.unit = Sentinel(results)
  /\ reader.pc \in {"count", "push"} => reader.unit.type = "batch"
  /\ reader.pc = "forward" => \A b \in 1..taken : Settled(b)
  /\ \A b \in 1..observed : Settled(b)

MirrorInv ==
  Types /\ ClosedFirst /\ Located /\ Accounted /\ FreshSentinel /\ SentinelIsLast /\ Flushing

-----------------------------------------------------------------------------
(* The queue. *)

LEMMA QueueAppend ==
  ASSUME queue \in Seq(Units), NEW x \in Units, queue' = Append(queue, x)
  PROVE  /\ queue' \in Seq(Units)
         /\ Len(queue') = Len(queue) + 1
         /\ \A i \in 1..Len(queue) : queue'[i] = queue[i]
         /\ queue'[Len(queue) + 1] = x
         /\ \A u : Queued(u)' <=> Queued(u) \/ u = x
<1>1. /\ queue' \in Seq(Units)
      /\ Len(queue) \in Nat
      /\ Len(queue') = Len(queue) + 1
      /\ \A i \in 1..Len(queue) : queue'[i] = queue[i]
      /\ queue'[Len(queue) + 1] = x
  OBVIOUS
<1>2. \A u : Queued(u)' <=> Queued(u) \/ u = x
  BY <1>1 DEF Queued
<1> QED
  BY <1>1, <1>2

LEMMA QueueTail ==
  ASSUME queue \in Seq(Units), queue # <<>>, queue' = Tail(queue)
  PROVE  /\ queue' \in Seq(Units)
         /\ Len(queue) \in Nat /\ Len(queue) >= 1
         /\ Len(queue') = Len(queue) - 1
         /\ \A i \in 1..Len(queue') : queue'[i] = queue[i + 1]
         /\ Head(queue) = queue[1]
         /\ \A u : Queued(u) <=> Queued(u)' \/ u = Head(queue)
<1>1. /\ queue' \in Seq(Units)
      /\ Len(queue) \in Nat /\ Len(queue) >= 1
      /\ Len(queue') = Len(queue) - 1
      /\ \A i \in 1..Len(queue') : queue'[i] = queue[i + 1]
      /\ Head(queue) = queue[1]
  OBVIOUS
<1>2. ASSUME NEW u PROVE Queued(u) => Queued(u)' \/ u = Head(queue)
  <2> SUFFICES ASSUME NEW i \in 1..Len(queue), queue[i] = u, i # 1
               PROVE  Queued(u)'
    BY <1>1 DEF Queued
  <2>1. i - 1 \in 1..Len(queue') /\ queue'[i - 1] = u
    BY <1>1
  <2> QED
    BY <2>1 DEF Queued
<1>3. ASSUME NEW u PROVE Queued(u)' \/ u = Head(queue) => Queued(u)
  <2>1. CASE u = Head(queue)
    BY <1>1, <2>1 DEF Queued
  <2>2. CASE Queued(u)'
    <3> PICK i \in 1..Len(queue') : queue'[i] = u
      BY <2>2 DEF Queued
    <3>1. i + 1 \in 1..Len(queue) /\ queue[i + 1] = u
      BY <1>1
    <3> QED
      BY <3>1 DEF Queued
  <2> QED
    BY <2>1, <2>2
<1> QED
  BY <1>1, <1>2, <1>3

\* A batch and a sentinel are never the same unit.
LEMMA UnitKinds ==
  /\ \A b \in Nat : BatchUnit(b) \in Units /\ BatchUnit(b).type = "batch" /\ BatchUnit(b).id = b
  /\ \A k \in Nat : Sentinel(k) \in Units /\ Sentinel(k).type = "sentinel" /\ Sentinel(k).id = k
  /\ \A k, l \in Nat : Sentinel(k) = Sentinel(l) => k = l
  /\ \A u \in Units : u.type = "batch" => u = BatchUnit(u.id) /\ u.id \in Nat
  /\ NoUnit \notin Units
  BY DEF BatchUnit, Sentinel, Units, NoUnit

LEMMA StoreGrows ==
  ASSUME store \in Seq(Nat), NEW b \in Nat, store' = Append(store, b)
  PROVE  store' \in Seq(Nat) /\ ToSet(store') = ToSet(store) \cup {b}
<1>1. /\ store' \in Seq(Nat)
      /\ Len(store') = Len(store) + 1 /\ Len(store) \in Nat
      /\ DOMAIN store' = 1..Len(store') /\ DOMAIN store = 1..Len(store)
      /\ \A i \in 1..Len(store) : store'[i] = store[i]
      /\ store'[Len(store) + 1] = b
  OBVIOUS
<1>2. ToSet(store') \subseteq ToSet(store) \cup {b}
  BY <1>1 DEF ToSet
<1>3. ToSet(store) \cup {b} \subseteq ToSet(store')
  BY <1>1, SMTT(60) DEF ToSet
<1> QED
  BY <1>1, <1>2, <1>3

-----------------------------------------------------------------------------
(* The invariant. *)

LEMMA MirrorInit == Init => MirrorInv
<1> SUFFICES ASSUME Init PROVE MirrorInv
  OBVIOUS
<1>1. Types
  BY MirrorAssumption DEF Init, Types, NoUnit
<1>2. ClosedFirst /\ Located /\ SentinelIsLast /\ Flushing
  BY DEF Init, ClosedFirst, Located, SentinelIsLast, Flushing
<1>3. Accounted /\ FreshSentinel
  BY DEF Init, Accounted, FreshSentinel, Settled, Queued, InWorker
<1> QED
  BY <1>1, <1>2, <1>3 DEF MirrorInv

\* Steps of the read loop that leave the batcher alone.
LEMMA ReaderKeeps ==
  ASSUME MirrorInv, ReadMirrorFrame \/ CountPending \/ ReadResult \/ ResultFlushed
                    \/ ResultObserved \/ ResultAbandoned \/ ReaderExit
  PROVE  MirrorInv'
<1> USE DEF batcherVars
<1>0. queue' = queue /\ worker' = worker /\ processed' = processed /\ done' = done
      /\ store' = store /\ lost' = lost /\ closed' = closed /\ closer' = closer
  BY DEF ReadMirrorFrame, CountPending, ReadResult, ResultFlushed, ResultObserved,
         ResultAbandoned, ReaderExit
<1>u. /\ \A u : Queued(u)' <=> Queued(u)
      /\ \A u : InWorker(u)' <=> InWorker(u)
      /\ \A b : Settled(b)' <=> Settled(b)
  BY <1>0 DEF Queued, InWorker, Settled
<1>1. ClosedFirst' /\ Accounted'
  BY <1>0 DEF MirrorInv, ClosedFirst, Accounted, Settled
<1>2. CASE ReadMirrorFrame
  <2>1. BatchUnit(taken + 1) \in Units /\ BatchUnit(taken + 1).type = "batch"
    BY UnitKinds DEF MirrorInv, Types
  <2>2. reader' = [pc |-> "count", unit |-> BatchUnit(taken + 1)] /\ taken' = taken + 1
        /\ results' = results /\ observed' = observed /\ reader.pc = "recv"
    BY <1>2 DEF ReadMirrorFrame
  <2>3. Types'
    BY <1>0, <2>1, <2>2 DEF MirrorInv, Types
  <2>4. Located'
    <3> SUFFICES ASSUME NEW b \in 1..(taken + 1)
                 PROVE  Settled(b) \/ InReader(BatchUnit(b))' \/ Queued(BatchUnit(b)) \/ InWorker(BatchUnit(b))
      BY <1>u, <2>2 DEF Located
    <3>1. CASE b = taken + 1
      BY <2>2, <3>1 DEF InReader
    <3>2. CASE b # taken + 1
      <4>1. b \in 1..taken
        BY <3>2 DEF MirrorInv, Types
      <4> QED BY <2>2, <4>1 DEF MirrorInv, Located, InReader
    <3> QED BY <3>1, <3>2
  <2>5. FreshSentinel' /\ SentinelIsLast'
    BY <1>0, <1>u, <2>2 DEF MirrorInv, FreshSentinel, SentinelIsLast
  <2>6. Flushing'
    BY <1>u, <2>1, <2>2 DEF MirrorInv, Flushing
  <2> QED BY <1>1, <2>3, <2>4, <2>5, <2>6 DEF MirrorInv
<1>3. CASE CountPending
  <2>1. reader' = [reader EXCEPT !.pc = "push"] /\ reader.pc = "count"
        /\ taken' = taken /\ results' = results /\ observed' = observed
    BY <1>3 DEF CountPending
  <2>2. reader'.pc = "push" /\ reader'.unit = reader.unit /\ Types'
    BY <1>0, <2>1 DEF MirrorInv, Types
  <2>3. Located'
    BY <1>u, <2>1, <2>2 DEF MirrorInv, Located, InReader
  <2>4. FreshSentinel' /\ SentinelIsLast' /\ Flushing'
    BY <1>0, <1>u, <2>1, <2>2 DEF MirrorInv, FreshSentinel, SentinelIsLast, Flushing
  <2> QED BY <1>1, <2>2, <2>3, <2>4 DEF MirrorInv
<1>4. CASE ReadResult
  <2>1. reader' = [pc |-> "flush", unit |-> NoUnit] /\ reader.pc = "recv"
        /\ results' = results + 1 /\ results < MaxResults
        /\ taken' = taken /\ observed' = observed
    BY <1>4 DEF ReadResult
  <2>2. Types'
    BY <1>0, <2>1, MirrorAssumption DEF MirrorInv, Types
  <2>3. Located'
    BY <1>u, <2>1 DEF MirrorInv, Located, InReader
  <2>4. FreshSentinel'
    BY <1>0, <1>u, <2>1 DEF MirrorInv, FreshSentinel, Types
  <2>5. SentinelIsLast' /\ Flushing'
    BY <1>u, <2>1 DEF MirrorInv, Types, SentinelIsLast, Flushing
  <2> QED BY <1>1, <2>2, <2>3, <2>4, <2>5 DEF MirrorInv
<1>5. CASE ResultFlushed
  <2>1. reader' = [pc |-> IF closed THEN "recv" ELSE "forward", unit |-> NoUnit]
        /\ reader.pc = "flushing" /\ Flushed(reader.unit)
        /\ results' = results /\ taken' = taken /\ observed' = observed
    BY <1>5 DEF ResultFlushed
  <2>2. Types'
    BY <1>0, <2>1 DEF MirrorInv, Types
  <2>3. Located'
    BY <1>u, <2>1 DEF MirrorInv, Located, InReader
  <2>4. FreshSentinel' /\ SentinelIsLast'
    BY <1>0, <1>u, <2>1 DEF MirrorInv, FreshSentinel, SentinelIsLast
  <2>5. ~closed => \A b \in 1..taken : Settled(b)
    BY <2>1 DEF MirrorInv, ClosedFirst, SentinelIsLast, Flushed
  <2>6. Flushing'
    BY <1>u, <2>1, <2>5 DEF MirrorInv, Flushing
  <2> QED BY <1>1, <2>2, <2>3, <2>4, <2>6 DEF MirrorInv
<1>6. CASE ResultObserved
  <2>1. reader' = [reader EXCEPT !.pc = "recv"] /\ reader.pc = "forward"
        /\ results' = results /\ taken' = taken /\ observed' = taken
    BY <1>6 DEF ResultObserved
  <2>2. reader'.pc = "recv" /\ Types'
    BY <1>0, <2>1 DEF MirrorInv, Types
  <2>3. Located' /\ FreshSentinel' /\ SentinelIsLast'
    BY <1>0, <1>u, <2>1, <2>2 DEF MirrorInv, Located, InReader, FreshSentinel, SentinelIsLast
  <2>4. Flushing'
    BY <1>u, <2>1, <2>2 DEF MirrorInv, Flushing
  <2> QED BY <1>1, <2>2, <2>3, <2>4 DEF MirrorInv
<1>7. CASE ResultAbandoned \/ ReaderExit
  <2>1. reader' \in {[reader EXCEPT !.pc = "recv"], [reader EXCEPT !.pc = "gone"]}
        /\ reader.pc \in {"recv", "forward"}
        /\ results' = results /\ taken' = taken /\ observed' = observed
    BY <1>7 DEF ResultAbandoned, ReaderExit
  <2>2. reader'.pc \in {"recv", "gone"} /\ Types'
    BY <1>0, <2>1 DEF MirrorInv, Types
  <2>3. Located' /\ FreshSentinel' /\ SentinelIsLast' /\ Flushing'
    BY <1>0, <1>u, <2>1, <2>2 DEF MirrorInv, Located, InReader, FreshSentinel, SentinelIsLast, Flushing
  <2> QED BY <1>1, <2>2, <2>3 DEF MirrorInv
<1> QED
  BY <1>2, <1>3, <1>4, <1>5, <1>6, <1>7

LEMMA PushKeeps ==
  ASSUME MirrorInv, PushBatch PROVE MirrorInv'
<1>1. /\ queue' = Append(queue, reader.unit) /\ reader.pc = "push"
      /\ reader' = [pc |-> "recv", unit |-> NoUnit]
      /\ worker' = worker /\ processed' = processed /\ done' = done /\ store' = store
      /\ lost' = lost /\ closed' = closed /\ closer' = closer
      /\ taken' = taken /\ results' = results /\ observed' = observed
  BY DEF PushBatch
<1>2. reader.unit \in Units /\ reader.unit.type = "batch"
  BY <1>1, UnitKinds DEF MirrorInv, Types, Flushing, NoUnit
<1>3. Types' /\ \A u : Queued(u)' <=> Queued(u) \/ u = reader.unit
  BY <1>1, <1>2, QueueAppend DEF MirrorInv, Types
<1>u. /\ \A u : InWorker(u)' <=> InWorker(u)
      /\ \A b : Settled(b)' <=> Settled(b)
  BY <1>1 DEF InWorker, Settled
<1>4. Located'
  BY <1>1, <1>3, <1>u DEF MirrorInv, Located, InReader
<1>5. ClosedFirst' /\ Accounted'
  BY <1>1 DEF MirrorInv, ClosedFirst, Accounted, Settled
<1>6. FreshSentinel'
  <2>1. \A k \in 1..MaxResults : Sentinel(k) # reader.unit
    BY <1>2, UnitKinds
  <2> QED
    BY <1>1, <1>3, <1>u, <2>1 DEF MirrorInv, FreshSentinel
<1>7. SentinelIsLast' /\ Flushing'
  BY <1>1, <1>u DEF MirrorInv, SentinelIsLast, Flushing
<1> QED
  BY <1>3, <1>4, <1>5, <1>6, <1>7 DEF MirrorInv

LEMMA RefuseKeeps ==
  ASSUME MirrorInv, RefuseBatch PROVE MirrorInv'
<1>1. /\ reader.pc = "push" /\ reader' = [pc |-> "recv", unit |-> NoUnit]
      /\ processed' = processed \cup {reader.unit}
      /\ lost' = lost \cup {reader.unit.id}
      /\ queue' = queue /\ worker' = worker /\ done' = done /\ store' = store
      /\ closed' = closed /\ closer' = closer
      /\ taken' = taken /\ results' = results /\ observed' = observed
  BY DEF RefuseBatch
<1>2. reader.unit \in Units /\ reader.unit.type = "batch" /\ reader.unit = BatchUnit(reader.unit.id)
  BY <1>1, UnitKinds DEF MirrorInv, Types, Flushing, NoUnit
<1>3. Types' /\ ClosedFirst'
  BY <1>1 DEF MirrorInv, Types, ClosedFirst
<1>u. /\ \A u : InWorker(u)' <=> InWorker(u)
      /\ \A u : Queued(u)' <=> Queued(u)
      /\ \A b : Settled(b)' <=> Settled(b) \/ BatchUnit(b) = reader.unit
  BY <1>1 DEF InWorker, Queued, Settled
<1>4. Located'
  BY <1>1, <1>u DEF MirrorInv, Located, InReader
<1>5. Accounted'
  <2>1. \A b \in Nat : BatchUnit(b) = reader.unit => b = reader.unit.id
    BY UnitKinds
  <2> QED
    BY <1>1, <1>u, <2>1 DEF MirrorInv, Accounted
<1>6. FreshSentinel'
  <2>1. \A k \in 1..MaxResults : Sentinel(k) # reader.unit
    BY <1>2, UnitKinds
  <2> QED
    BY <1>1, <1>u, <2>1 DEF MirrorInv, FreshSentinel
<1>7. SentinelIsLast' /\ Flushing'
  BY <1>1, <1>u DEF MirrorInv, SentinelIsLast, Flushing
<1> QED
  BY <1>3, <1>4, <1>5, <1>6, <1>7 DEF MirrorInv

\* The read loop's sentinel goes behind every batch; a batcher that is done
\* takes none, and then the query is closed.
LEMMA FlushKeeps ==
  ASSUME MirrorInv, FlushResult PROVE MirrorInv'
<1>1. /\ reader.pc = "flush" /\ reader' = [pc |-> "flushing", unit |-> Sentinel(results)]
      /\ queue' = Append(queue, Sentinel(results)) \/ (done /\ queue' = queue)
      /\ worker' = worker /\ processed' = processed /\ done' = done /\ store' = store
      /\ lost' = lost /\ closed' = closed /\ closer' = closer
      /\ taken' = taken /\ results' = results /\ observed' = observed
  BY DEF FlushResult, SendSentinel, ReaderSentinel
<1>2. /\ results \in 1..MaxResults /\ Sentinel(results) \in Units
      /\ Sentinel(results).type = "sentinel"
  BY <1>1, UnitKinds, MirrorAssumption DEF MirrorInv, Flushing, Types
<1>3. /\ Sentinel(results) \notin processed
      /\ ~Queued(Sentinel(results))
      /\ ~InWorker(Sentinel(results))
  BY <1>1, <1>2 DEF MirrorInv, FreshSentinel, Types
<1>u. /\ \A u : InWorker(u)' <=> InWorker(u)
      /\ \A b : Settled(b)' <=> Settled(b)
  BY <1>1 DEF InWorker, Settled
<1>4. ClosedFirst' /\ Accounted'
  BY <1>1 DEF MirrorInv, ClosedFirst, Accounted, Settled
<1>5. CASE queue' = Append(queue, Sentinel(results))
  <2>1. /\ queue' \in Seq(Units)
        /\ Len(queue') = Len(queue) + 1 /\ Len(queue) \in Nat
        /\ \A i \in 1..Len(queue) : queue'[i] = queue[i]
        /\ queue'[Len(queue) + 1] = Sentinel(results)
        /\ \A u : Queued(u)' <=> Queued(u) \/ u = Sentinel(results)
    BY <1>2, <1>5, QueueAppend DEF MirrorInv, Types
  <2>2. Types'
    BY <1>1, <1>2, <2>1 DEF MirrorInv, Types
  <2>3. Located'
    BY <1>1, <1>u, <2>1 DEF MirrorInv, Located, InReader
  <2>4. FreshSentinel'
    <3>1. \A k \in 1..MaxResults : k > results => Sentinel(k) # Sentinel(results)
      BY <1>2, UnitKinds
    <3> QED
      BY <1>1, <1>u, <2>1, <3>1 DEF MirrorInv, FreshSentinel
  <2>5. SentinelIsLast'
    <3>1. \A i \in 1..Len(queue) : queue'[i] # Sentinel(results)
      BY <1>3, <2>1 DEF Queued
    <3>2. Len(queue) + 1 \in 1..Len(queue')
      BY <2>1
    <3>3. \A j \in 1..Len(queue') : /\ j # Len(queue) + 1 => queue'[j] # Sentinel(results)
                                    /\ ~(j > Len(queue) + 1)
      BY <2>1, <3>1
    <3> QED
      BY <1>1, <1>3, <1>u, <2>1, <3>2, <3>3 DEF SentinelIsLast
  <2>6. Flushing'
    BY <1>1, <1>u DEF MirrorInv, Flushing
  <2> QED BY <1>4, <2>2, <2>3, <2>4, <2>5, <2>6 DEF MirrorInv
<1>6. CASE done /\ queue' = queue
  <2>1. \A u : Queued(u)' <=> Queued(u)
    BY <1>6 DEF Queued
  <2>2. Types'
    BY <1>1, <1>2, <1>6 DEF MirrorInv, Types
  <2>3. Located' /\ FreshSentinel'
    BY <1>1, <1>u, <2>1 DEF MirrorInv, Located, InReader, FreshSentinel
  <2>4. SentinelIsLast' /\ Flushing'
    BY <1>1, <1>u, <1>6 DEF MirrorInv, SentinelIsLast, Flushing
  <2> QED BY <1>4, <2>2, <2>3, <2>4 DEF MirrorInv
<1> QED
  BY <1>1, <1>5, <1>6

LEMMA TakeKeeps ==
  ASSUME MirrorInv, TakeUnit PROVE MirrorInv'
<1> DEFINE u == Head(queue)
<1>1. /\ worker.pc = "select" /\ queue # <<>> /\ queue' = Tail(queue)
      /\ worker' = [pc |-> IF u.type = "batch" THEN "append" ELSE "settle", unit |-> u, attempt |-> 0]
      /\ reader' = reader /\ processed' = processed /\ done' = done /\ store' = store
      /\ lost' = lost /\ closed' = closed /\ closer' = closer
      /\ taken' = taken /\ results' = results /\ observed' = observed
  BY DEF TakeUnit
<1>2. /\ queue' \in Seq(Units)
      /\ Len(queue) \in Nat /\ Len(queue) >= 1
      /\ Len(queue') = Len(queue) - 1
      /\ \A i \in 1..Len(queue') : queue'[i] = queue[i + 1]
      /\ u = queue[1]
      /\ \A v : Queued(v) <=> Queued(v)' \/ v = u
  BY <1>1, QueueTail DEF MirrorInv, Types
<1>3. u \in Units
  BY <1>1 DEF MirrorInv, Types
<1> HIDE DEF u
<1>4. Types' /\ ClosedFirst'
  BY <1>1, <1>2, <1>3 DEF MirrorInv, Types, ClosedFirst
<1>u. /\ \A v : ~InWorker(v)
      /\ \A v : InWorker(v)' <=> v = u
      /\ \A v : InReader(v)' <=> InReader(v)
      /\ \A b : Settled(b)' <=> Settled(b)
  BY <1>1 DEF InWorker, InReader, Settled
<1>5. Located'
  BY <1>1, <1>2, <1>u DEF MirrorInv, Located
<1>6. Accounted'
  BY <1>1, <1>u DEF MirrorInv, Accounted
<1>7. FreshSentinel'
  BY <1>1, <1>2, <1>u DEF MirrorInv, FreshSentinel
<1>8. SentinelIsLast'
  <2> SUFFICES ASSUME reader.pc = "flushing", ~done, reader.unit \notin processed
               PROVE  SentinelIsLast'
    BY <1>1, <1>u DEF MirrorInv, SentinelIsLast
  <2>1. PICK i \in 1..Len(queue) :
             /\ queue[i] = reader.unit
             /\ \A j \in 1..Len(queue) : /\ j # i => queue[j] # reader.unit
                                         /\ j > i => queue[j].type # "batch"
    BY <1>u DEF MirrorInv, SentinelIsLast
  <2>2. \A j \in 1..Len(queue') : j + 1 \in 1..Len(queue) /\ j + 1 > 1 /\ queue'[j] = queue[j + 1]
    BY <1>2
  <2>3. CASE i = 1
    <3>1. \A j \in 1..Len(queue') : queue'[j].type # "batch" /\ queue'[j] # reader.unit
      BY <2>1, <2>2, <2>3
    <3> QED
      BY <1>1, <1>2, <1>u, <2>1, <2>3, <3>1 DEF SentinelIsLast
  <2>4. CASE i # 1
    <3>1. i - 1 \in 1..Len(queue') /\ queue'[i - 1] = reader.unit /\ u # reader.unit
      <4>1. i - 1 \in 1..Len(queue')
        BY <1>2, <2>4
      <4>2. 1 \in 1..Len(queue)
        BY <1>2
      <4> QED
        BY <1>2, <2>1, <2>2, <2>4, <4>1, <4>2
    <3>2. \A j \in 1..Len(queue') : /\ j # i - 1 => queue'[j] # reader.unit
                                    /\ j > i - 1 => queue'[j].type # "batch"
      <4> TAKE j \in 1..Len(queue')
      <4>1. j + 1 \in 1..Len(queue) /\ queue'[j] = queue[j + 1]
        BY <2>2
      <4>2. (j # i - 1 => j + 1 # i) /\ (j > i - 1 => j + 1 > i)
        OBVIOUS
      <4> QED
        BY <2>1, <4>1, <4>2
    <3> QED
      BY <1>1, <1>u, <3>1, <3>2 DEF SentinelIsLast
  <2> QED BY <2>3, <2>4
<1>9. Flushing'
  BY <1>1, <1>u DEF MirrorInv, Flushing
<1> QED
  BY <1>4, <1>5, <1>6, <1>7, <1>8, <1>9 DEF MirrorInv

\* An attempt moves no unit; a batch goes on to be settled once written or lost.
LEMMA AttemptKeeps ==
  ASSUME MirrorInv, AppendSucceeds \/ \E w \in BOOLEAN : AppendFails(w)
  PROVE  MirrorInv'
<1> DEFINE b == worker.unit.id
<1>1. /\ worker.pc = "append" /\ worker.unit.type = "batch"
      /\ queue' = queue /\ reader' = reader /\ processed' = processed /\ done' = done
      /\ closed' = closed /\ closer' = closer
      /\ taken' = taken /\ results' = results /\ observed' = observed
      /\ store' = Append(store, b) \/ store' = store
      /\ lost' = lost \cup {b} \/ lost' = lost
      /\ worker' = [worker EXCEPT !.pc = "settle", !.attempt = @ + 1] \/
         worker' = [worker EXCEPT !.attempt = @ + 1]
  BY DEF AppendSucceeds, AppendFails, MirrorInv, Accounted
<1>2. worker'.pc = "settle" => store' = Append(store, b) \/ lost' = lost \cup {b}
  <2>1. CASE AppendSucceeds
    BY <2>1 DEF AppendSucceeds
  <2>2. ASSUME NEW w \in BOOLEAN, AppendFails(w)
        PROVE  worker'.pc = "settle" => lost' = lost \cup {b}
    <3>1. CASE worker.attempt + 1 < MaxAttempts
      <4>1. worker' = [worker EXCEPT !.attempt = @ + 1] /\ worker.pc = "append"
        BY <2>2, <3>1 DEF AppendFails
      <4>2. worker'.pc = "append"
        BY <4>1 DEF MirrorInv, Types
      <4> QED BY <4>2
    <3>2. CASE ~(worker.attempt + 1 < MaxAttempts)
      BY <2>2, <3>2 DEF AppendFails
    <3> QED BY <3>1, <3>2
  <2> QED BY <2>1, <2>2
<1>3. b \in Nat
  <2>1. worker.unit \in Units
    BY <1>1 DEF MirrorInv, Types, NoUnit
  <2> QED BY <1>1, <2>1, UnitKinds
<1>4. worker'.unit = worker.unit /\ worker'.pc \in {"append", "settle"}
      /\ worker' \in [pc : {"select", "append", "settle", "gone"}, unit : Units \cup {NoUnit}, attempt : Nat]
  <2>1. worker.attempt + 1 \in Nat
    BY DEF MirrorInv, Types
  <2>2. CASE worker' = [worker EXCEPT !.attempt = @ + 1]
    BY <1>1, <2>1, <2>2 DEF MirrorInv, Types
  <2>3. CASE worker' = [worker EXCEPT !.pc = "settle", !.attempt = @ + 1]
    <3> DEFINE w == [worker EXCEPT !.pc = "settle"]
               W == [pc : {"select", "append", "settle", "gone"}, unit : Units \cup {NoUnit}, attempt : Nat]
    <3>1. w \in W /\ w.unit = worker.unit /\ w.pc = "settle" /\ w.attempt = worker.attempt
      BY DEF MirrorInv, Types
    <3> HIDE DEF w
    <3>2. [w EXCEPT !.attempt = worker.attempt + 1] \in W
          /\ [w EXCEPT !.attempt = worker.attempt + 1].unit = w.unit
          /\ [w EXCEPT !.attempt = worker.attempt + 1].pc = w.pc
      BY <2>1, <3>1
    <3>3. worker' = [w EXCEPT !.attempt = worker.attempt + 1]
      BY <2>3 DEF w
    <3> QED BY <3>1, <3>2, <3>3
  <2> QED BY <1>1, <2>2, <2>3
<1>5. store' \in Seq(Nat) /\ ToSet(store) \subseteq ToSet(store')
      /\ (store' = Append(store, b) => b \in ToSet(store'))
  <2>1. store \in Seq(Nat)
    BY DEF MirrorInv, Types
  <2>2. CASE store' = Append(store, b)
    BY <1>3, <2>1, <2>2, StoreGrows
  <2>3. CASE store' = store /\ store # Append(store, b)
    BY <2>1, <2>3
  <2> QED BY <1>1, <2>2, <2>3
<1>u. /\ \A v : InWorker(v)' <=> InWorker(v)
      /\ \A v : Queued(v)' <=> Queued(v)
      /\ \A v : InReader(v)' <=> InReader(v)
      /\ \A d : Settled(d)' <=> Settled(d)
  BY <1>1, <1>4 DEF InWorker, InReader, Queued, Settled
<1>6. Types' /\ ClosedFirst'
  BY <1>1, <1>4, <1>5 DEF MirrorInv, Types, ClosedFirst
<1>7. Located' /\ FreshSentinel' /\ SentinelIsLast' /\ Flushing'
  BY <1>1, <1>u DEF MirrorInv, Located, FreshSentinel, SentinelIsLast, Flushing
<1>8. Accounted'
  <2>1. worker'.pc = "settle" => b \in ToSet(store') \/ b \in lost'
    BY <1>2, <1>5
  <2>2. \A d \in Nat : Settled(d)' => d \in ToSet(store') \/ d \in lost'
    BY <1>1, <1>5, <1>u DEF MirrorInv, Accounted
  <2> QED
    BY <1>1, <1>4, <2>1, <2>2 DEF Accounted
<1> QED
  BY <1>6, <1>7, <1>8 DEF MirrorInv

LEMMA SettleKeeps ==
  ASSUME MirrorInv, SettleUnit PROVE MirrorInv'
<1> DEFINE u == worker.unit
<1>1. /\ worker.pc = "settle" /\ worker' = [pc |-> "select", unit |-> NoUnit, attempt |-> 0]
      /\ processed' = processed \cup {u}
      /\ queue' = queue /\ reader' = reader /\ done' = done /\ store' = store
      /\ lost' = lost /\ closed' = closed /\ closer' = closer
      /\ taken' = taken /\ results' = results /\ observed' = observed
  BY DEF SettleUnit
<1>2. Types' /\ ClosedFirst'
  BY <1>1 DEF MirrorInv, Types, ClosedFirst
<1>u. /\ \A v : InWorker(v) <=> v = u
      /\ \A v : ~InWorker(v)'
      /\ \A v : Queued(v)' <=> Queued(v)
      /\ \A v : InReader(v)' <=> InReader(v)
      /\ \A b : Settled(b)' <=> Settled(b) \/ BatchUnit(b) = u
  BY <1>1 DEF InWorker, InReader, Queued, Settled
<1> HIDE DEF u
<1>3. Located'
  BY <1>1, <1>u DEF MirrorInv, Located
<1>4. Accounted'
  <2>1. \A b \in Nat : BatchUnit(b) = u => u.type = "batch" /\ u.id = b
    BY UnitKinds
  <2> QED
    BY <1>1, <1>u, <2>1 DEF MirrorInv, Accounted, u
<1>5. FreshSentinel'
  BY <1>1, <1>u DEF MirrorInv, FreshSentinel
<1>6. SentinelIsLast'
  <2> SUFFICES ASSUME reader.pc = "flushing", ~done, reader.unit = u,
                      reader.unit \notin processed
               PROVE  \A b \in 1..taken : Settled(b)'
    BY <1>1, <1>u DEF MirrorInv, SentinelIsLast
  <2>1. \A i \in 1..Len(queue) : queue[i].type # "batch"
    BY <1>u DEF MirrorInv, SentinelIsLast
  <2>2. \A b \in 1..taken : ~Queued(BatchUnit(b)) /\ ~InReader(BatchUnit(b))
    BY <2>1, UnitKinds DEF Queued, InReader
  <2> QED
    BY <1>u, <2>2 DEF MirrorInv, Located
<1>7. Flushing'
  BY <1>1, <1>u DEF MirrorInv, Flushing
<1> QED
  BY <1>2, <1>3, <1>4, <1>5, <1>6, <1>7 DEF MirrorInv

\* Close: its sentinel is no batch and none of the read loop's.
LEMMA CloserKeeps ==
  ASSUME MirrorInv, StartClose \/ CloserStep \/ WorkerStops
  PROVE  MirrorInv'
<1> USE DEF batcherVars
<1>1. /\ reader' = reader /\ processed' = processed /\ store' = store /\ lost' = lost
      /\ taken' = taken /\ results' = results /\ observed' = observed
  BY DEF StartClose, CloserStep, WorkerStops, FlushAtClose, StopWorker, JoinWorker
<1>2. CASE FlushAtClose /\ queue' # queue
  <2>1. /\ queue' = Append(queue, CloserSentinel)
        /\ closer' = [closer EXCEPT !.pc = "flushing", !.unit = CloserSentinel]
        /\ closer.pc = "flush" /\ worker' = worker /\ done' = done /\ closed' = closed
    BY <1>2 DEF FlushAtClose, SendSentinel
  <2>2. /\ CloserSentinel \in Units /\ CloserSentinel.type = "sentinel"
        /\ \A k \in 1..MaxResults : Sentinel(k) # CloserSentinel
    <3>1. MaxResults + closer.pass \in Nat /\ MaxResults + closer.pass > MaxResults
      BY MirrorAssumption DEF MirrorInv, Types
    <3> QED BY <3>1, UnitKinds, MirrorAssumption DEF CloserSentinel
  <2>3. /\ queue' \in Seq(Units)
        /\ Len(queue') = Len(queue) + 1 /\ Len(queue) \in Nat
        /\ \A i \in 1..Len(queue) : queue'[i] = queue[i]
        /\ queue'[Len(queue) + 1] = CloserSentinel
        /\ \A v : Queued(v)' <=> Queued(v) \/ v = CloserSentinel
    BY <2>1, <2>2, QueueAppend DEF MirrorInv, Types
  <2> HIDE DEF CloserSentinel
  <2>4. closer' \in [pc : {"idle", "flush", "flushing", "join", "done"},
                     unit : Units \cup {NoUnit}, pass : 1..2]
    <3> DEFINE C == [pc : {"idle", "flush", "flushing", "join", "done"},
                     unit : Units \cup {NoUnit}, pass : 1..2]
               c == [closer EXCEPT !.pc = "flushing"]
    <3>1. c \in C
      BY DEF MirrorInv, Types
    <3> HIDE DEF c
    <3>2. [c EXCEPT !.unit = CloserSentinel] \in C
      BY <2>2, <3>1
    <3>3. closer' = [c EXCEPT !.unit = CloserSentinel]
      BY <2>1 DEF c
    <3> QED BY <3>2, <3>3
  <2>5. Types' /\ ClosedFirst'
    BY <1>1, <2>1, <2>3, <2>4 DEF MirrorInv, Types, ClosedFirst
  <2>u. /\ \A v : InWorker(v)' <=> InWorker(v)
        /\ \A v : InReader(v)' <=> InReader(v)
        /\ \A b : Settled(b)' <=> Settled(b)
    BY <1>1, <2>1 DEF InWorker, InReader, Settled
  <2>6. Located' /\ Accounted' /\ Flushing'
    BY <1>1, <2>1, <2>3, <2>u DEF MirrorInv, Located, Accounted, Flushing
  <2>7. FreshSentinel'
    BY <1>1, <2>2, <2>3, <2>u DEF MirrorInv, FreshSentinel
  <2>8. SentinelIsLast'
    <3> SUFFICES ASSUME reader.pc = "flushing", ~done PROVE SentinelIsLast'
      BY <1>1, <2>1 DEF SentinelIsLast
    <3>1. reader.unit # CloserSentinel
      <4>1. reader.unit = Sentinel(results) /\ results \in 1..MaxResults
        BY MirrorAssumption DEF MirrorInv, Flushing, Types
      <4> QED BY <2>2, <4>1
    <3>2. \A i \in 1..Len(queue') : i \in 1..Len(queue) \/ queue'[i] = CloserSentinel
      BY <2>3
    <3>3. \A i \in 1..Len(queue) : i \in 1..Len(queue')
      BY <2>3
    <3> QED
      BY <1>1, <2>1, <2>2, <2>3, <2>u, <3>1, <3>2, <3>3 DEF MirrorInv, SentinelIsLast
  <2> QED BY <2>5, <2>6, <2>7, <2>8 DEF MirrorInv
<1>3. CASE (StartClose \/ StopWorker \/ JoinWorker \/ WorkerStops) \/ (FlushAtClose /\ queue' = queue)
  <2>1. queue' = queue
    BY <1>3 DEF StartClose, StopWorker, JoinWorker, WorkerStops
  <2>2. \A v : InWorker(v)' <=> InWorker(v)
    BY <1>3 DEF InWorker, StartClose, StopWorker, JoinWorker, WorkerStops, FlushAtClose, MirrorInv, Types
  <2>3. /\ worker' \in [pc : {"select", "append", "settle", "gone"}, unit : Units \cup {NoUnit}, attempt : Nat]
        /\ worker'.pc \in {"append", "settle"} => worker' = worker
    BY <1>3 DEF StartClose, StopWorker, JoinWorker, WorkerStops, FlushAtClose, MirrorInv, Types
  <2>4. closer' \in [pc : {"idle", "flush", "flushing", "join", "done"},
                     unit : Units \cup {NoUnit}, pass : 1..2]
    <3> DEFINE C == [pc : {"idle", "flush", "flushing", "join", "done"},
                     unit : Units \cup {NoUnit}, pass : 1..2]
    <3>1. CloserSentinel \in Units
      BY UnitKinds, MirrorAssumption DEF CloserSentinel, MirrorInv, Types
    <3>2. \A p \in {"flush", "flushing", "join", "done"} : [closer EXCEPT !.pc = p] \in C
      BY DEF MirrorInv, Types
    <3>3. [closer EXCEPT !.pc = "flushing", !.unit = CloserSentinel] \in C
      <4> DEFINE c == [closer EXCEPT !.pc = "flushing"]
      <4>1. c \in C
        BY <3>2
      <4> HIDE DEF c
      <4>2. [c EXCEPT !.unit = CloserSentinel] \in C
        BY <3>1, <4>1
      <4> QED BY <4>2 DEF c
    <3>4. closer \in C
      BY DEF MirrorInv, Types
    <3>5. [pc |-> "flush", unit |-> NoUnit, pass |-> 2] \in C
      OBVIOUS
    <3>6. \/ closer' = closer
          \/ closer' = [pc |-> "flush", unit |-> NoUnit, pass |-> 2]
          \/ closer' = [closer EXCEPT !.pc = "flushing", !.unit = CloserSentinel]
          \/ \E p \in {"flush", "flushing", "join", "done"} : closer' = [closer EXCEPT !.pc = p]
      BY <1>3 DEF StartClose, StopWorker, JoinWorker, WorkerStops, FlushAtClose
    <3> HIDE DEF C
    <3> QED
      BY <3>2, <3>3, <3>4, <3>5, <3>6 DEF C
  <2>5. ClosedFirst' /\ (done => done')
    BY <1>3, <2>4 DEF StartClose, StopWorker, JoinWorker, WorkerStops, FlushAtClose, MirrorInv, ClosedFirst
  <2>u. /\ \A v : Queued(v)' <=> Queued(v)
        /\ \A v : InReader(v)' <=> InReader(v)
        /\ \A b : Settled(b)' <=> Settled(b)
    BY <1>1, <2>1 DEF Queued, InReader, Settled
  <2>6. Types'
    BY <1>1, <2>1, <2>3, <2>4 DEF MirrorInv, Types
  <2>7. Located' /\ Accounted' /\ FreshSentinel' /\ Flushing'
    BY <1>1, <2>2, <2>3, <2>u DEF MirrorInv, Located, Accounted, FreshSentinel, Flushing
  <2>8. SentinelIsLast'
    BY <1>1, <2>1, <2>2, <2>5, <2>u DEF MirrorInv, SentinelIsLast
  <2> QED BY <2>5, <2>6, <2>7, <2>8 DEF MirrorInv
<1> QED
  BY <1>2, <1>3 DEF CloserStep

THEOREM MirrorInvariance == Spec => []MirrorInv
<1>1. MirrorInv /\ [Next]_vars => MirrorInv'
  <2> SUFFICES ASSUME MirrorInv, [Next]_vars PROVE MirrorInv'
    OBVIOUS
  <2>1. CASE UNCHANGED vars
    BY <2>1 DEF vars, MirrorInv, Types, ClosedFirst, Located, Accounted, FreshSentinel,
                SentinelIsLast, Flushing, Queued, InWorker, InReader, Settled
  <2>2. CASE Next
    BY <2>1, <2>2, ReaderKeeps, PushKeeps, RefuseKeeps, FlushKeeps, TakeKeeps, AttemptKeeps,
       SettleKeeps, CloserKeeps
    DEF Next, EnqueueStep, ResultStep, WorkerStep, Terminated
  <2> QED
    BY <2>1, <2>2
<1> QED
  BY <1>1, MirrorInit, PTL DEF Spec

\* A caller that observes a result finds every frame read before it settled,
\* even if Close runs meanwhile (query.go:1236-1237).
THEOREM ResultsFollowTheMirror == Spec => []ResultAfterMirror
<1>1. MirrorInv => ResultAfterMirror
  BY DEF MirrorInv, Types, Flushing, Accounted, Settled, ResultAfterMirror
<1> QED
  BY <1>1, MirrorInvariance, PTL

-----------------------------------------------------------------------------
(* ---- what Close leaves behind ---- *)

\* The sentinel of Close's first pass.
First           == Sentinel(MaxResults + 1)
Only(b, u)      == u.type = "batch" => u.id = b
QueueOnly(b, k) == \A j \in 1..Len(queue) : j > k => Only(b, queue[j])

\* Close's sentinel is on its way, and the only batch that can be behind it is b.
Waiting(b) ==
  \/ worker.unit = First /\ QueueOnly(b, 0)
  \/ \E i \in 1..Len(queue) :
       /\ queue[i] = First /\ worker.unit # First
       /\ \A j \in 1..Len(queue) : j < i => queue[j] # First
       /\ QueueOnly(b, i)

Hands ==
  /\ worker.pc \in {"select", "gone"} => worker.unit = NoUnit
  /\ worker.pc = "gone" => done
  /\ reader.pc \notin {"count", "push"} => reader.unit.type # "batch"
  /\ closer.pc \in {"join", "done"} \/ closer.pass = 2 => done
  /\ closer.pc = "flushing" => closer.unit = CloserSentinel

FreshClose ==
  ~done /\ closer.pc \in {"idle", "flush"} =>
     First \notin processed /\ ~Queued(First) /\ worker.unit # First

\* Once Close's sentinel is processed, one batch b is all that can be anywhere.
Late ==
  /\ done \/ (closer.pc = "flushing" /\ First \in processed) =>
       \E b \in Nat : Only(b, reader.unit) /\ Only(b, worker.unit) /\ QueueOnly(b, 0)
  /\ ~done /\ closer.pc = "flushing" /\ First \notin processed =>
       \E b \in Nat : Only(b, reader.unit) /\ Waiting(b)

CloseInv == Hands /\ FreshClose /\ Late

LEMMA FirstKind ==
  ASSUME MirrorInv
  PROVE  /\ First \in Units /\ First.type = "sentinel" /\ First # NoUnit
         /\ \A b \in Nat : First # BatchUnit(b)
         /\ First # Sentinel(results)
         /\ closer.pass = 1 => CloserSentinel = First
         /\ CloserSentinel \in Units /\ CloserSentinel.type = "sentinel"
<1>1. MaxResults \in Nat /\ results \in Nat /\ results <= MaxResults /\ closer.pass \in 1..2
  BY MirrorAssumption DEF MirrorInv, Types
<1>2. MaxResults + 1 \in Nat /\ MaxResults + closer.pass \in Nat /\ MaxResults + 1 # results
  BY <1>1
<1> QED
  BY <1>1, <1>2, UnitKinds DEF First, CloserSentinel

LEMMA OnlyAppend ==
  ASSUME queue \in Seq(Units), NEW x \in Units, queue' = Append(queue, x),
         NEW b, NEW k \in Nat, Only(b, x), QueueOnly(b, k)
  PROVE  QueueOnly(b, k)'
<1>1. Len(queue) \in Nat /\ Len(queue') = Len(queue) + 1
      /\ (\A i \in 1..Len(queue) : queue'[i] = queue[i]) /\ queue'[Len(queue) + 1] = x
  BY QueueAppend
<1> QED
  BY <1>1 DEF QueueOnly, Only

\* A unit that is no batch but b, nor First, changes nothing behind Close's sentinel.
LEMMA WaitingAppend ==
  ASSUME queue \in Seq(Units), NEW x \in Units, queue' = Append(queue, x), worker' = worker,
         NEW b, Only(b, x), Waiting(b)
  PROVE  Waiting(b)'
<1>1. Len(queue) \in Nat /\ Len(queue') = Len(queue) + 1
      /\ (\A i \in 1..Len(queue) : queue'[i] = queue[i]) /\ queue'[Len(queue) + 1] = x
  BY QueueAppend
<1>2. CASE worker.unit = First /\ QueueOnly(b, 0)
  <2>1. QueueOnly(b, 0)'
    BY <1>2, OnlyAppend
  <2> QED BY <1>2, <2>1 DEF Waiting, First
<1>3. ASSUME NEW i \in 1..Len(queue), queue[i] = First, worker.unit # First,
             \A j \in 1..Len(queue) : j < i => queue[j] # First, QueueOnly(b, i)
      PROVE  Waiting(b)'
  <2>1. QueueOnly(b, i)'
    BY <1>3, OnlyAppend
  <2>2. i \in 1..Len(queue') /\ queue'[i] = First
    BY <1>1, <1>3
  <2>3. \A j \in 1..Len(queue') : j < i => j \in 1..Len(queue) /\ queue'[j] # First
    BY <1>1, <1>3
  <2>4. First' = First
    BY DEF First
  <2> QED BY <1>3, <2>1, <2>2, <2>3, <2>4 DEF Waiting
<1> QED
  BY <1>2, <1>3 DEF Waiting

LEMMA CloseInit == Init => CloseInv
  BY UnitKinds, MirrorAssumption
  DEF Init, CloseInv, Hands, FreshClose, Late, Queued, NoUnit, First, Sentinel

\* Steps that leave the queue, the worker and Close alone.
LEMMA CloseReader ==
  ASSUME MirrorInv, CloseInv,
         ReadMirrorFrame \/ CountPending \/ RefuseBatch \/ ReadResult \/ ResultFlushed
           \/ ResultObserved \/ ResultAbandoned \/ ReaderExit
  PROVE  CloseInv'
<1> USE DEF batcherVars
<1>1. queue' = queue /\ worker' = worker /\ done' = done /\ closed' = closed /\ closer' = closer
  BY DEF ReadMirrorFrame, CountPending, RefuseBatch, ReadResult, ResultFlushed, ResultObserved,
         ResultAbandoned, ReaderExit
<1>2. First' = First /\ (First \in processed' <=> First \in processed)
  <2>1. CASE RefuseBatch
    <3>1. reader.unit.type = "batch" /\ processed' = processed \cup {reader.unit}
      BY <2>1 DEF RefuseBatch, MirrorInv, Flushing
    <3> QED BY <3>1, FirstKind DEF First
  <2>2. CASE ~RefuseBatch
    BY <2>2 DEF ReadMirrorFrame, CountPending, ReadResult, ResultFlushed, ResultObserved,
                ResultAbandoned, ReaderExit, First
  <2> QED BY <2>1, <2>2
<1>3. reader.pc \in {"count", "push"} \/ reader.unit.type # "batch"
  BY DEF CloseInv, Hands
<1>4. \/ reader'.unit.type # "batch"
      \/ reader'.unit = reader.unit /\ reader'.pc \in {"count", "push"}
      \/ ~closed /\ reader'.pc = "count"
  BY <1>3 DEF ReadMirrorFrame, CountPending, RefuseBatch, ReadResult, ResultFlushed, ResultObserved,
     ResultAbandoned, ReaderExit, MirrorInv, Types, NoUnit
<1>5. ~closed => ~done /\ closer.pc = "idle"
  BY DEF MirrorInv, ClosedFirst
<1>6. Hands'
  BY <1>1, <1>4 DEF CloseInv, Hands, CloserSentinel
<1>7. FreshClose'
  BY <1>1, <1>2 DEF CloseInv, FreshClose, Queued
<1>8. Late'
  BY <1>1, <1>2, <1>4, <1>5, SMTT(60) DEF CloseInv, Late, Waiting, QueueOnly, Only
<1> QED
  BY <1>6, <1>7, <1>8 DEF CloseInv

\* A unit is queued: the reader's batch, or a sentinel.
LEMMA CloseQueued ==
  ASSUME MirrorInv, CloseInv, PushBatch \/ FlushResult
  PROVE  CloseInv'
<1>1. /\ worker' = worker /\ done' = done /\ closed' = closed /\ closer' = closer
      /\ processed' = processed
      /\ reader'.pc \notin {"count", "push"} /\ reader'.unit.type # "batch"
  BY UnitKinds, MirrorAssumption
  DEF PushBatch, FlushResult, ReaderSentinel, NoUnit, Sentinel
<1> DEFINE x == IF PushBatch THEN reader.unit ELSE Sentinel(results)
<1>2. queue' = queue \/ queue' = Append(queue, x)
  BY DEF PushBatch, FlushResult, SendSentinel, ReaderSentinel
<1>3. x \in Units /\ x # First
      /\ (x.type = "batch" => x = reader.unit)
  <2>1. CASE PushBatch
    <3>1. reader.unit.type = "batch" /\ reader.unit \in Units
      BY <2>1 DEF PushBatch, MirrorInv, Flushing, Types, NoUnit
    <3> QED BY <2>1, <3>1, FirstKind
  <2>2. CASE ~PushBatch
    BY <2>2, FirstKind, UnitKinds DEF MirrorInv, Types
  <2> QED BY <2>1, <2>2
<1> HIDE DEF x
<1>4. queue \in Seq(Units) /\ First' = First
  BY DEF MirrorInv, Types, First
<1>5. Hands'
  BY <1>1 DEF CloseInv, Hands, CloserSentinel
<1>6. CASE queue' = queue
  <2>1. FreshClose'
    BY <1>1, <1>4, <1>6 DEF CloseInv, FreshClose, Queued
  <2>2. \A b : /\ QueueOnly(b, 0)' <=> QueueOnly(b, 0)
               /\ Waiting(b)' <=> Waiting(b)
    BY <1>1, <1>4, <1>6 DEF QueueOnly, Waiting
  <2>3. Late'
    BY <1>1, <1>4, <2>2 DEF CloseInv, Late, Only
  <2> QED BY <1>5, <2>1, <2>3 DEF CloseInv
<1>7. CASE queue' = Append(queue, x)
  <2>1. \A u : Queued(u)' <=> Queued(u) \/ u = x
    BY <1>3, <1>4, <1>7, QueueAppend
  <2>2. FreshClose'
    BY <1>1, <1>3, <1>4, <2>1 DEF CloseInv, FreshClose
  <2>3. ASSUME NEW b \in Nat, Only(b, reader.unit)
        PROVE  Only(b, x) /\ Only(b, reader'.unit)
    BY <1>1, <1>3, <2>3 DEF Only
  <2>4. ASSUME NEW b \in Nat, Only(b, reader.unit), QueueOnly(b, 0) PROVE QueueOnly(b, 0)'
    BY <1>3, <1>4, <1>7, <2>3, <2>4, OnlyAppend
  <2>5. ASSUME NEW b \in Nat, Only(b, reader.unit), Waiting(b) PROVE Waiting(b)'
    BY <1>1, <1>3, <1>4, <1>7, <2>3, <2>5, WaitingAppend
  <2>6. Late'
    BY <1>1, <1>4, <2>3, <2>4, <2>5 DEF CloseInv, Late, Only
  <2> QED BY <1>5, <2>2, <2>6 DEF CloseInv
<1> QED
  BY <1>2, <1>6, <1>7

LEMMA CloseTake ==
  ASSUME MirrorInv, CloseInv, TakeUnit
  PROVE  CloseInv'
<1> DEFINE u == Head(queue)
<1>1. /\ worker.pc = "select" /\ queue # <<>> /\ queue' = Tail(queue)
      /\ worker'.unit = u /\ worker'.pc \in {"append", "settle"}
      /\ done' = done /\ closed' = closed /\ closer' = closer /\ reader' = reader
      /\ processed' = processed /\ First' = First
  BY DEF TakeUnit, First
<1>2. /\ Len(queue) \in Nat /\ Len(queue) >= 1 /\ Len(queue') = Len(queue) - 1
      /\ \A i \in 1..Len(queue') : i + 1 \in 1..Len(queue) /\ queue'[i] = queue[i + 1]
      /\ u = queue[1] /\ 1 \in 1..Len(queue)
      /\ \A v : Queued(v) <=> Queued(v)' \/ v = u
  BY <1>1, QueueTail DEF MirrorInv, Types
<1>3. worker.unit = NoUnit /\ NoUnit # First
  BY <1>1, FirstKind DEF CloseInv, Hands
<1> HIDE DEF u
<1>4. Hands' /\ FreshClose'
  BY <1>1, <1>2 DEF CloseInv, Hands, FreshClose, CloserSentinel
<1>5. ASSUME NEW b, QueueOnly(b, 0) PROVE QueueOnly(b, 0)' /\ Only(b, u)
  BY <1>2, <1>5 DEF QueueOnly
<1>6. ASSUME NEW b, Waiting(b) PROVE Waiting(b)'
  <2>1. PICK i \in 1..Len(queue) :
               /\ queue[i] = First
               /\ \A j \in 1..Len(queue) : j < i => queue[j] # First
               /\ QueueOnly(b, i)
    BY <1>3, <1>6 DEF Waiting
  <2>2. CASE i = 1
    <3>1. QueueOnly(b, 0)'
      BY <1>2, <2>1, <2>2 DEF QueueOnly
    <3> QED BY <1>1, <1>2, <2>1, <2>2, <3>1 DEF Waiting
  <2>3. CASE i # 1
    <3>1. i - 1 \in 1..Len(queue') /\ queue'[i - 1] = First
      BY <1>2, <2>1, <2>3
    <3>2. u # First
      BY <1>2, <2>1, <2>3
    <3>3. \A j \in 1..Len(queue') : j < i - 1 => queue'[j] # First
      BY <1>2, <2>1
    <3>4. QueueOnly(b, i - 1)'
      BY <1>2, <2>1 DEF QueueOnly
    <3> QED BY <1>1, <3>1, <3>2, <3>3, <3>4 DEF Waiting
  <2> QED BY <2>2, <2>3
<1>7. Late'
  BY <1>1, <1>5, <1>6 DEF CloseInv, Late, Only
<1> QED
  BY <1>4, <1>7 DEF CloseInv

\* An attempt keeps the worker's unit; settling it may be Close's sentinel's turn.
LEMMA CloseWorker ==
  ASSUME MirrorInv, CloseInv,
         AppendSucceeds \/ (\E w \in BOOLEAN : AppendFails(w)) \/ SettleUnit
  PROVE  CloseInv'
<1>1. /\ queue' = queue /\ done' = done /\ closed' = closed /\ closer' = closer
      /\ reader' = reader /\ First' = First /\ worker.pc \in {"append", "settle"}
  BY DEF AppendSucceeds, AppendFails, SettleUnit, First
<1>2. \/ worker'.unit = worker.unit /\ worker'.pc \in {"append", "settle"} /\ processed' = processed
      \/ worker'.unit = NoUnit /\ worker'.pc = "select" /\ processed' = processed \cup {worker.unit}
  <2>1. CASE SettleUnit
    BY <2>1 DEF SettleUnit
  <2>2. CASE AppendSucceeds
    BY <2>2 DEF AppendSucceeds, MirrorInv, Types
  <2>3. ASSUME NEW w \in BOOLEAN, AppendFails(w)
        PROVE  worker'.unit = worker.unit /\ worker'.pc \in {"append", "settle"} /\ processed' = processed
    BY <2>3 DEF AppendFails, MirrorInv, Types
  <2> QED BY <2>1, <2>2, <2>3
<1>3. NoUnit # First /\ NoUnit.type # "batch"
  BY FirstKind DEF NoUnit
<1>4. Hands' /\ FreshClose'
  BY <1>1, <1>2, <1>3 DEF CloseInv, Hands, FreshClose, CloserSentinel, Queued
<1>q. \A b, k : QueueOnly(b, k)' <=> QueueOnly(b, k)
  BY <1>1 DEF QueueOnly, Only
<1>5. CASE worker'.unit = worker.unit /\ processed' = processed
  <2>1. \A b : Waiting(b)' <=> Waiting(b)
    BY <1>1, <1>5, <1>q DEF Waiting
  <2> QED BY <1>1, <1>4, <1>5, <1>q, <2>1 DEF CloseInv, Late, Only
<1>6. CASE worker'.unit = NoUnit /\ processed' = processed \cup {worker.unit}
  <2>1. ASSUME NEW b, Waiting(b)
        PROVE  IF worker.unit = First THEN QueueOnly(b, 0)' ELSE Waiting(b)'
    <3>1. CASE worker.unit = First
      <4>1. \/ QueueOnly(b, 0)
            \/ \E i \in 1..Len(queue) : worker.unit # First
        BY <2>1 DEF Waiting
      <4> QED BY <1>q, <3>1, <4>1
    <3>2. CASE worker.unit # First
      <4>1. PICK i \in 1..Len(queue) :
               /\ queue[i] = First
               /\ \A j \in 1..Len(queue) : j < i => queue[j] # First
               /\ QueueOnly(b, i)
        BY <2>1, <3>2 DEF Waiting
      <4> QED BY <1>1, <1>3, <1>6, <1>q, <3>2, <4>1 DEF Waiting
    <3> QED BY <3>1, <3>2
  <2>2. First \in processed' <=> First \in processed \/ worker.unit = First
    BY <1>1, <1>6
  <2>3. \A b : Only(b, NoUnit)
    BY <1>3 DEF Only
  <2>4. Late'
    BY <1>1, <1>6, <1>q, <2>1, <2>2, <2>3 DEF CloseInv, Late, Only
  <2> QED BY <1>4, <2>4 DEF CloseInv
<1> QED
  BY <1>2, <1>5, <1>6

\* Close begins, ends and waits; the worker stops.
LEMMA CloseCloser ==
  ASSUME MirrorInv, CloseInv, StartClose \/ StopWorker \/ JoinWorker \/ WorkerStops
  PROVE  CloseInv'
<1> USE DEF batcherVars
<1>1. queue' = queue /\ reader' = reader /\ processed' = processed /\ First' = First
      /\ worker'.unit = worker.unit /\ closer \in [pc : {"idle", "flush", "flushing", "join", "done"},
                 unit : Units \cup {NoUnit}, pass : 1..2]
  BY DEF StartClose, StopWorker, JoinWorker, WorkerStops, First, MirrorInv, Types
<1>q. \A b : QueueOnly(b, 0)' <=> QueueOnly(b, 0)
  BY <1>1 DEF QueueOnly, Only
<1>2. CASE StartClose
  <2>1. closer.pc = "idle" /\ closer'.pc = "flush" /\ closer'.pass = closer.pass
        /\ worker' = worker /\ done' = done
    BY <1>1, <1>2 DEF StartClose
  <2>2. Hands' /\ FreshClose' /\ Late'
    BY <1>1, <1>q, <2>1 DEF CloseInv, Hands, FreshClose, Late, Queued, Only
  <2> QED BY <2>2 DEF CloseInv
<1>3. CASE StopWorker
  <2>1. closer.pc = "flushing" /\ closer'.pc = "join" /\ done' = TRUE /\ worker' = worker
        /\ (done \/ closer.unit \in processed) /\ closer.unit = CloserSentinel
    BY <1>1, <1>3 DEF StopWorker, Flushed, CloseInv, Hands
  <2>2. done \/ First \in processed
    BY <1>1, <2>1, FirstKind DEF CloseInv, Hands
  <2>3. Hands' /\ FreshClose'
    BY <1>1, <2>1 DEF CloseInv, Hands, FreshClose
  <2>4. Late'
    BY <1>1, <1>q, <2>1, <2>2 DEF CloseInv, Late, Only
  <2> QED BY <2>3, <2>4 DEF CloseInv
<1>4. CASE JoinWorker
  <2>1. closer.pc = "join" /\ closer'.pc \in {"flush", "done"} /\ done' = done /\ worker' = worker
    BY <1>1, <1>4 DEF JoinWorker
  <2>2. done
    BY <2>1 DEF CloseInv, Hands
  <2>3. Hands' /\ FreshClose' /\ Late'
    BY <1>1, <1>q, <2>1, <2>2 DEF CloseInv, Hands, FreshClose, Late, Only
  <2> QED BY <2>3 DEF CloseInv
<1>5. CASE WorkerStops
  <2>1. done /\ done' = done /\ closer' = closer /\ worker.pc = "select"
    BY <1>5 DEF WorkerStops
  <2>2. Hands' /\ FreshClose' /\ Late'
    BY <1>1, <1>q, <2>1 DEF CloseInv, Hands, FreshClose, Late, Only, CloserSentinel
  <2> QED BY <2>2 DEF CloseInv
<1> QED
  BY <1>2, <1>3, <1>4, <1>5

\* The first pass: its sentinel goes behind every batch but the reader's.
LEMMA CloseFlush ==
  ASSUME MirrorInv, CloseInv, FlushAtClose
  PROVE  CloseInv'
<1>1. /\ closer.pc = "flush" /\ closer' = [closer EXCEPT !.pc = "flushing", !.unit = CloserSentinel]
      /\ worker' = worker /\ done' = done /\ reader' = reader /\ processed' = processed
      /\ First' = First /\ queue \in Seq(Units)
      /\ queue' = Append(queue, CloserSentinel) \/ (done /\ queue' = queue)
  BY DEF FlushAtClose, SendSentinel, First, MirrorInv, Types
<1>2. closer'.pc = "flushing" /\ closer'.unit = CloserSentinel /\ closer'.pass = closer.pass
      /\ CloserSentinel' = CloserSentinel
  <2>1. closer'.pc = "flushing" /\ closer'.unit = CloserSentinel /\ closer'.pass = closer.pass
    BY <1>1 DEF MirrorInv, Types
  <2> QED BY <2>1 DEF CloserSentinel
<1>3. CloserSentinel \in Units /\ CloserSentinel.type = "sentinel"
  BY FirstKind
<1>4. Hands' /\ FreshClose'
  BY <1>1, <1>2 DEF CloseInv, Hands, FreshClose
<1>5. CASE done
  <2>1. ASSUME NEW b \in Nat, QueueOnly(b, 0) PROVE QueueOnly(b, 0)'
    <3>1. CASE queue' = queue
      BY <2>1, <3>1 DEF QueueOnly, Only
    <3>2. CASE queue' = Append(queue, CloserSentinel)
      BY <1>1, <1>3, <2>1, <3>2, OnlyAppend DEF Only
    <3> QED BY <1>1, <3>1, <3>2
  <2>2. Late'
    BY <1>1, <1>2, <1>5, <2>1 DEF CloseInv, Late, Only
  <2> QED BY <1>4, <2>2 DEF CloseInv
<1>6. CASE ~done
  <2>1. CloserSentinel = First /\ queue' = Append(queue, First)
    BY <1>1, <1>6, FirstKind DEF CloseInv, Hands, MirrorInv, Types
  <2>2. First \notin processed /\ ~Queued(First) /\ worker.unit # First
    BY <1>1, <1>6 DEF CloseInv, FreshClose
  <2>3. PICK b \in Nat : Only(b, reader.unit)
    <3>1. CASE reader.unit \in Units
      BY <3>1 DEF Only, Units
    <3>2. CASE reader.unit = NoUnit
      BY <3>2 DEF Only, NoUnit
    <3> QED BY <3>1, <3>2 DEF MirrorInv, Types
  <2>4. /\ Len(queue) \in Nat /\ Len(queue') = Len(queue) + 1
        /\ \A i \in 1..Len(queue) : queue'[i] = queue[i]
        /\ queue'[Len(queue) + 1] = First
    BY <1>1, <2>1, FirstKind, QueueAppend
  <2>5. PICK n \in Nat : n = Len(queue')
    BY <2>4
  <2>6. Waiting(b)'
    <3>1. n \in 1..Len(queue') /\ queue'[n] = First' /\ worker'.unit # First'
      BY <1>1, <2>2, <2>4, <2>5
    <3>2. \A j \in 1..Len(queue') : j < n => queue'[j] # First'
      BY <1>1, <2>2, <2>4, <2>5 DEF Queued
    <3>3. QueueOnly(b, n)'
      BY <2>5 DEF QueueOnly
    <3> QED BY <3>1, <3>2, <3>3 DEF Waiting
  <2>7. Late'
    BY <1>1, <1>6, <2>2, <2>3, <2>6 DEF Late, Only
  <2> QED BY <1>4, <2>7 DEF CloseInv
<1> QED
  BY <1>5, <1>6

THEOREM CloseInvariance == Spec => []CloseInv
<1>1. MirrorInv /\ CloseInv /\ [Next]_vars => CloseInv'
  <2> SUFFICES ASSUME MirrorInv, CloseInv, [Next]_vars PROVE CloseInv'
    OBVIOUS
  <2>1. CASE UNCHANGED vars
    BY <2>1 DEF vars, CloseInv, Hands, FreshClose, Late, Waiting, QueueOnly, Only, Queued, First,
                CloserSentinel
  <2>2. CASE Next
    BY <2>1, <2>2, CloseReader, CloseQueued, CloseTake, CloseWorker, CloseCloser, CloseFlush
    DEF Next, EnqueueStep, ResultStep, WorkerStep, CloserStep, Terminated
  <2> QED BY <2>1, <2>2
<1> QED
  BY <1>1, CloseInit, MirrorInvariance, PTL DEF Spec

\* Close waits for all that was accepted before the query was marked closed: the
\* one batch that can stay behind is the one the read loop held then
\* (mirror_batcher.go:154-159).
THEOREM CloseLeavesOne == Spec => []AtMostOneLeftBehind
<1>1. MirrorInv /\ CloseInv => AtMostOneLeftBehind
  <2> DEFINE L == Accepted \cup BatchesIn({reader.unit})
  <2> SUFFICES ASSUME MirrorInv, CloseInv, worker.pc = "gone" PROVE Cardinality(L) <= 1
    BY DEF AtMostOneLeftBehind
  <2>1. PICK b \in Nat : Only(b, reader.unit) /\ QueueOnly(b, 0) /\ Only(b, worker.unit)
    BY DEF CloseInv, Hands, Late
  <2>2. \A u \in ToSet(queue) : Only(b, u)
    BY <2>1, SMTT(60) DEF ToSet, QueueOnly, MirrorInv, Types
  <2>3. L \subseteq {b}
    BY <2>1, <2>2 DEF Accepted, BatchesIn, Only
  <2>4. IsFiniteSet({b}) /\ Cardinality({b}) = 1
    BY FS_Singleton
  <2>5. IsFiniteSet(L) /\ Cardinality(L) <= Cardinality({b})
    BY <2>3, <2>4, FS_Subset
  <2> QED BY <2>4, <2>5
<1> QED
  BY <1>1, MirrorInvariance, CloseInvariance, PTL

-----------------------------------------------------------------------------
(* The batcher implements OrderedDelivery. *)

Pending == InHand(worker.unit) \o QueuedBatches
InHandOf == [u \in Units |-> InHand(u)]

\* The frames the read loop is through with.
Offered == IF reader.pc \in {"count", "push"} THEN taken - 1 ELSE taken
UpTo(s, n) == \A i \in 1..Len(s) : s[i] <= n

\* What the worker holds, and how often it has tried it.
Trying ==
  /\ worker.attempt <= MaxAttempts /\ taken <= MaxBatches
  /\ worker.pc \in {"select", "gone"} => worker.unit = NoUnit /\ worker.attempt = 0
  /\ worker.pc \in {"append", "settle"} => worker.unit \in Units
  /\ worker.pc = "append" => worker.attempt < MaxAttempts
  /\ worker.pc = "settle" =>
       IF worker.unit.type = "batch"
       THEN worker.attempt = MaxAttempts \/ (store # <<>> /\ store[Len(store)] = worker.unit.id)
       ELSE worker.attempt = 0
  /\ reader.pc \in {"count", "push"} => taken >= 1 /\ reader.unit = BatchUnit(taken)

\* The batches are in the order of their frames.
InOrder == UpTo(Pending, Offered) /\ UpTo(store, Offered)

LEMMA InHandType ==
  /\ Replaces(InHandOf, Units, Nat)
  /\ \A u \in Units \cup {NoUnit} : InHand(u) \in Seq(Nat)
<1>1. \A u \in Units \cup {NoUnit} : InHand(u) \in Seq(Nat)
  BY DEF InHand, Units, NoUnit
<1> QED
  BY <1>1 DEF InHandOf, Replaces

LEMMA QueuedAreEach == ASSUME queue \in Seq(Units) PROVE QueuedBatches = Each(InHandOf, queue)
<1>1. \A i \in DOMAIN queue : queue[i] \in Units
  OBVIOUS
<1>2. [i \in DOMAIN queue |-> InHand(queue[i])] = [i \in DOMAIN queue |-> InHandOf[queue[i]]]
  BY <1>1 DEF InHandOf
<1> QED
  BY <1>2 DEF QueuedBatches, Each

LEMMA PendingType ==
  ASSUME Types
  PROVE  QueuedBatches \in Seq(Nat) /\ InHand(worker.unit) \in Seq(Nat) /\ Pending \in Seq(Nat)
<1>1. queue \in Seq(Units) /\ worker.unit \in Units \cup {NoUnit}
  BY DEF Types
<1>2. QueuedBatches \in Seq(Nat)
  BY <1>1, QueuedAreEach, InHandType, EachType
<1>3. InHand(worker.unit) \in Seq(Nat)
  BY <1>1, InHandType
<1> QED
  BY <1>2, <1>3, ConcatType DEF Pending

LEMMA QueuedAppend ==
  ASSUME queue \in Seq(Units), NEW u \in Units, queue' = Append(queue, u)
  PROVE  QueuedBatches' = QueuedBatches \o InHand(u)
<1>1. queue' \in Seq(Units)
  BY AppendType
<1>2. QueuedBatches' = Each(InHandOf, queue')
  <2>1. \A i \in DOMAIN queue' : queue'[i] \in Units
    BY <1>1
  <2>2. [i \in DOMAIN queue' |-> InHand(queue'[i])] = [i \in DOMAIN queue' |-> InHandOf[queue'[i]]]
    BY <2>1 DEF InHandOf
  <2> QED BY <2>2 DEF QueuedBatches, Each, InHand
<1>3. Each(InHandOf, Append(queue, u)) = Each(InHandOf, queue) \o InHandOf[u]
  BY InHandType, EachAppend
<1> QED
  BY <1>2, <1>3, QueuedAreEach DEF InHandOf

LEMMA QueuedTail ==
  ASSUME queue \in Seq(Units), queue # <<>>, queue' = Tail(queue)
  PROVE  QueuedBatches = InHand(Head(queue)) \o QueuedBatches'
<1>1. queue' \in Seq(Units) /\ Head(queue) \in Units
  BY TailType
<1>2. QueuedBatches' = Each(InHandOf, queue')
  <2>1. \A i \in DOMAIN queue' : queue'[i] \in Units
    BY <1>1
  <2>2. [i \in DOMAIN queue' |-> InHand(queue'[i])] = [i \in DOMAIN queue' |-> InHandOf[queue'[i]]]
    BY <2>1 DEF InHandOf
  <2> QED BY <2>2 DEF QueuedBatches, Each, InHand
<1>3. Each(InHandOf, queue) = InHandOf[Head(queue)] \o Each(InHandOf, Tail(queue))
  BY InHandType, EachHead
<1> QED
  BY <1>1, <1>2, <1>3, QueuedAreEach DEF InHandOf

LEMMA TryingInit == Init => Trying /\ InOrder
<1> SUFFICES ASSUME Init PROVE Trying /\ InOrder
  OBVIOUS
<1>1. Trying
  BY MirrorAssumption DEF Init, Trying
<1>2. QueuedBatches = <<>>
  <2>1. queue = <<>> /\ queue \in Seq(Units)
    BY DEF Init
  <2> QED BY <2>1, QueuedAreEach, EachEmpty
<1>3. Pending = <<>> /\ store = <<>>
  BY <1>2 DEF Init, Pending, InHand, NoUnit
<1> QED
  BY <1>1, <1>3 DEF InOrder, UpTo

LEMMA TryingNext ==
  ASSUME MirrorInv, Trying, [Next]_vars
  PROVE  Trying'
<1> USE DEF batcherVars
<1>1. /\ worker \in [pc : {"select", "append", "settle", "gone"}, unit : Units \cup {NoUnit}, attempt : Nat]
      /\ reader \in [pc : {"recv", "count", "push", "flush", "flushing", "forward", "gone"}, unit : Units \cup {NoUnit}]
      /\ queue \in Seq(Units) /\ store \in Seq(Nat) /\ taken \in Nat /\ MaxAttempts \in Nat \ {0} /\ MaxBatches \in Nat
  BY MirrorAssumption DEF MirrorInv, Types
<1>2. CASE ReadMirrorFrame
  BY <1>1, <1>2 DEF ReadMirrorFrame, Trying
<1>3. CASE CountPending
  BY <1>1, <1>3 DEF CountPending, Trying
<1>4. CASE PushBatch \/ RefuseBatch \/ ReadResult \/ FlushResult \/ ResultFlushed \/ ResultObserved
           \/ ResultAbandoned \/ ReaderExit
  <2>1. UNCHANGED <<worker, store, taken>> /\ reader'.pc \notin {"count", "push"}
    BY <1>1, <1>4 DEF PushBatch, RefuseBatch, ReadResult, FlushResult, ResultFlushed, ResultObserved,
                     ResultAbandoned, ReaderExit
  <2> QED BY <2>1 DEF Trying
<1>5. CASE TakeUnit
  <2>1. Head(queue) \in Units
    BY <1>1, <1>5, TailType DEF TakeUnit
  <2>2. /\ worker' = [pc |-> IF Head(queue).type = "batch" THEN "append" ELSE "settle", unit |-> Head(queue), attempt |-> 0]
        /\ UNCHANGED <<reader, taken, store>>
    BY <1>5 DEF TakeUnit
  <2> QED BY <1>1, <2>1, <2>2 DEF Trying
<1>6. CASE AppendSucceeds
  <2>1. /\ worker.pc = "append" /\ store' = Append(store, worker.unit.id) /\ UNCHANGED <<reader, taken>>
        /\ worker' = [worker EXCEPT !.pc = "settle", !.attempt = @ + 1]
    BY <1>6 DEF AppendSucceeds
  <2>2. worker.unit \in Units /\ worker.unit.id \in Nat /\ worker.attempt < MaxAttempts
    BY <2>1 DEF Trying, Units
  <2>3. store' # <<>> /\ store'[Len(store')] = worker.unit.id
    <3>1. Len(store') = Len(store) + 1 /\ store'[Len(store) + 1] = worker.unit.id /\ store' # <<>>
      BY <1>1, <2>1, <2>2, AppendType, AppendProperties
    <3> QED BY <3>1
  <2>4. worker.unit.type = "batch"
    BY <2>1 DEF MirrorInv, Accounted
  <2>5. worker'.pc = "settle" /\ worker'.unit = worker.unit /\ worker'.attempt = worker.attempt + 1
    BY <1>1, <2>1
  <2> QED BY <1>1, <2>1, <2>2, <2>3, <2>4, <2>5, SMTT(60) DEF Trying
<1>7. ASSUME NEW written \in BOOLEAN, AppendFails(written) PROVE Trying'
  <2>1. /\ worker.pc = "append" /\ UNCHANGED <<reader, taken>>
        /\ worker' = [worker EXCEPT !.attempt = @ + 1] \/ worker' = [worker EXCEPT !.pc = "settle", !.attempt = @ + 1]
        /\ worker.attempt + 1 < MaxAttempts => worker' = [worker EXCEPT !.attempt = @ + 1]
        /\ ~(worker.attempt + 1 < MaxAttempts) => worker' = [worker EXCEPT !.pc = "settle", !.attempt = @ + 1]
    BY <1>7 DEF AppendFails
  <2>2. worker.unit \in Units /\ worker.attempt < MaxAttempts
    BY <2>1 DEF Trying
  <2>3. worker.unit.type = "batch"
    BY <2>1 DEF MirrorInv, Accounted
  <2>4. /\ worker'.unit = worker.unit /\ worker'.attempt = worker.attempt + 1
        /\ worker'.pc = IF worker.attempt + 1 < MaxAttempts THEN "append" ELSE "settle"
    BY <1>1, <2>1
  <2> QED BY <1>1, <2>1, <2>2, <2>3, <2>4 DEF Trying
<1>8. CASE SettleUnit
  BY <1>1, <1>8 DEF SettleUnit, Trying
<1>9. CASE WorkerStops
  <2>1. worker' = [worker EXCEPT !.pc = "gone"] /\ UNCHANGED <<reader, taken, store>> /\ worker.pc = "select"
    BY <1>9 DEF WorkerStops
  <2> QED BY <1>1, <2>1 DEF Trying
<1>10. CASE StartClose \/ FlushAtClose \/ StopWorker \/ JoinWorker \/ Terminated \/ UNCHANGED vars
  <2>1. UNCHANGED <<worker, store, reader, taken>>
    BY <1>10 DEF StartClose, FlushAtClose, StopWorker, JoinWorker, Terminated, vars
  <2> QED BY <2>1 DEF Trying
<1> QED
  BY <1>2, <1>3, <1>4, <1>5, <1>6, <1>7, <1>8, <1>9, <1>10
  DEF Next, EnqueueStep, ResultStep, WorkerStep, CloserStep

LEMMA UpToAppend ==
  ASSUME NEW s \in Seq(Nat), NEW n \in Nat, NEW x \in Nat, UpTo(s, n), x <= n
  PROVE  UpTo(Append(s, x), n)
<1>1. /\ Len(s) \in Nat /\ Len(Append(s, x)) = Len(s) + 1 /\ Append(s, x)[Len(s) + 1] = x
      /\ \A i \in 1..Len(s) : Append(s, x)[i] = s[i]
  BY AppendProperties
<1>2. \A i \in 1..(Len(s) + 1) : i \in 1..Len(s) \/ i = Len(s) + 1
  BY <1>1
<1> QED
  BY <1>1, <1>2 DEF UpTo

LEMMA UpToTail ==
  ASSUME NEW s \in Seq(Nat), NEW n \in Nat, UpTo(s, n), s # <<>>
  PROVE  UpTo(Tail(s), n) /\ Head(s) <= n
<1>1. Len(s) \in Nat /\ Len(s) >= 1 /\ Len(Tail(s)) = Len(s) - 1 /\ Head(s) = s[1]
  BY TailType
<1>2. ASSUME NEW i \in 1..Len(Tail(s)) PROVE Tail(s)[i] <= n
  <2>1. i + 1 \in 1..Len(s) /\ Tail(s)[i] = s[i + 1]
    BY <1>1
  <2> QED BY <2>1 DEF UpTo
<1> QED
  BY <1>1, <1>2 DEF UpTo

LEMMA UpToMore ==
  ASSUME NEW s \in Seq(Nat), NEW m \in Nat, NEW n \in Nat, UpTo(s, m), m <= n
  PROVE  UpTo(s, n)
BY DEF UpTo

\* The worker's batch is the first of those pending.
LEMMA FirstPending ==
  ASSUME Types, worker.unit \in Units, worker.unit.type = "batch"
  PROVE  /\ Pending # <<>> /\ Head(Pending) = worker.unit.id /\ Tail(Pending) = QueuedBatches
         /\ worker.unit.id \in Nat
<1>1. InHand(worker.unit) = <<worker.unit.id>> /\ worker.unit.id \in Nat
  BY DEF InHand, Units
<1>2. QueuedBatches \in Seq(Nat)
  BY PendingType
<1>3. \A b \in Nat : \A s \in Seq(Nat) : <<b>> \o s # <<>> /\ Head(<<b>> \o s) = b /\ Tail(<<b>> \o s) = s
  OBVIOUS
<1> QED
  BY <1>1, <1>2, <1>3 DEF Pending

LEMMA OfferedBound ==
  ASSUME Types, Trying
  PROVE  Offered \in Nat /\ Offered <= taken /\ (reader.pc \in {"count", "push"} => Offered = taken - 1)
BY DEF Offered, Types, Trying

\* Steps that no one who knows only OrderedDelivery sees.
LEMMA Unseen ==
  ASSUME MirrorInv, Trying, Trying', Types', InOrder, Offered <= Offered',
         QueuedBatches' = QueuedBatches, UNCHANGED <<worker, store>>
  PROVE  UNCHANGED Delivery!vars /\ InOrder'
<1>1. Pending' = Pending
  BY DEF Pending, InHand
<1>2. UNCHANGED Delivery!vars
  BY <1>1 DEF Pending, Delivery!vars
<1>3. /\ Offered \in Nat /\ Offered' \in Nat /\ Pending \in Seq(Nat) /\ store \in Seq(Nat)
  <2>1. Types /\ taken' \in Nat /\ (reader'.pc \in {"count", "push"} => taken' >= 1)
    BY DEF MirrorInv, Types, Trying
  <2>2. Offered' \in Nat
    <3>1. CASE reader'.pc \in {"count", "push"}
      <4>1. Offered' = taken' - 1
        BY <3>1 DEF Offered
      <4>2. taken' \in Nat /\ taken' >= 1
        BY <2>1, <3>1
      <4>3. \A n \in Nat : n >= 1 => n - 1 \in Nat
        OBVIOUS
      <4> QED BY <4>1, <4>2, <4>3
    <3>2. CASE reader'.pc \notin {"count", "push"}
      <4>1. Offered' = taken'
        BY <3>2 DEF Offered
      <4> QED BY <2>1, <4>1
    <3> QED BY <3>1, <3>2
  <2> QED BY <2>1, <2>2, OfferedBound, PendingType DEF Types
<1>4. UpTo(Pending, Offered') /\ UpTo(store, Offered')
  BY <1>3, UpToMore DEF InOrder
<1> QED
  BY <1>1, <1>2, <1>4 DEF InOrder, UpTo

LEMMA Accepts ==
  ASSUME MirrorInv, Trying, InOrder, PushBatch
  PROVE  Delivery!Next /\ InOrder'
<1>1. /\ reader.pc = "push" /\ queue' = Append(queue, reader.unit) /\ UNCHANGED <<worker, store, taken>>
      /\ reader'.pc = "recv"
  BY DEF PushBatch
<1>2. /\ reader.unit = BatchUnit(taken) /\ taken \in Batches /\ taken \in Nat /\ Offered = taken - 1 /\ Offered \in Nat
      /\ Offered' = taken
  BY <1>1, OfferedBound DEF MirrorInv, Types, Trying, Batches, Offered
<1>3. QueuedBatches' = QueuedBatches \o <<taken>>
  <2>1. BatchUnit(taken) \in Units /\ InHand(BatchUnit(taken)) = <<taken>> /\ queue \in Seq(Units)
    BY <1>2, UnitKinds DEF InHand, MirrorInv, Types
  <2> QED BY <1>1, <1>2, <2>1, QueuedAppend
<1>4. /\ InHand(worker.unit) \in Seq(Nat) /\ QueuedBatches \in Seq(Nat) /\ Pending \in Seq(Nat) /\ store \in Seq(Nat)
  BY PendingType DEF MirrorInv, Types
<1>5. Pending' = Append(Pending, taken)
  <2>1. <<taken>> \in Seq(Nat)
    BY <1>2
  <2> DEFINE h == InHand(worker.unit)
             q == QueuedBatches
             t == <<taken>>
  <2>2. h \o (q \o t) = (h \o q) \o t
    <3>1. h \in Seq(Nat) /\ q \in Seq(Nat) /\ t \in Seq(Nat)
      BY <1>4, <2>1
    <3> HIDE DEF h, q, t
    <3> QED BY <3>1, ConcatAssoc, SMTT(60)
  <2>3. Pending \o <<taken>> = Append(Pending, taken)
    BY <1>2, <1>4
  <2>4. InHand(worker.unit)' = h
    BY <1>1 DEF InHand
  <2> QED BY <1>3, <2>2, <2>3, <2>4 DEF Pending
<1>6. \A i \in DOMAIN Pending : Pending[i] < taken
  <2>1. \A i \in 1..Len(Pending) : Pending[i] <= Offered /\ Pending[i] \in Nat /\ DOMAIN Pending = 1..Len(Pending)
    BY <1>4 DEF InOrder, UpTo
  <2>2. DOMAIN Pending = 1..Len(Pending)
    BY <1>4
  <2> QED BY <1>2, <2>1, <2>2
<1>7. \A i \in DOMAIN store : store[i] < taken
  <2>1. \A i \in 1..Len(store) : store[i] <= Offered /\ store[i] \in Nat
    BY <1>4 DEF InOrder, UpTo
  <2>2. DOMAIN store = 1..Len(store)
    BY <1>4
  <2> QED BY <1>2, <2>1, <2>2
<1>8. Delivery!Accept(taken)
  BY <1>1, <1>5, <1>6, <1>7 DEF Delivery!Accept, Pending
<1>9. InOrder'
  <2>1. UpTo(Pending, taken) /\ UpTo(store, taken)
    BY <1>2, <1>4, UpToMore DEF InOrder
  <2>2. UpTo(Append(Pending, taken), taken)
    BY <1>2, <1>4, <2>1, UpToAppend
  <2> QED BY <1>1, <1>2, <1>5, <2>1, <2>2 DEF InOrder, UpTo
<1> QED
  BY <1>2, <1>8, <1>9 DEF Delivery!Next

LEMMA Attempts ==
  ASSUME MirrorInv, Trying, InOrder, AppendSucceeds \/ \E written \in BOOLEAN : AppendFails(written)
  PROVE  Delivery!Next /\ InOrder'
<1>1. /\ worker.pc = "append" /\ UNCHANGED <<queue, reader, taken>>
      /\ store' \in {store, Append(store, worker.unit.id)}
      /\ \E pc \in {"append", "settle"} : worker' = [worker EXCEPT !.pc = pc, !.attempt = @ + 1]
  <2>1. CASE AppendSucceeds
    BY <2>1 DEF AppendSucceeds
  <2>2. ASSUME NEW written \in BOOLEAN, AppendFails(written)
        PROVE  \E pc \in {"append", "settle"} : worker' = [worker EXCEPT !.pc = pc, !.attempt = @ + 1]
    <3>1. worker.pc = "append" /\ worker \in [pc : {"select", "append", "settle", "gone"}, unit : Units \cup {NoUnit}, attempt : Nat]
      BY <2>2 DEF AppendFails, MirrorInv, Types
    <3>2. CASE worker' = [worker EXCEPT !.attempt = @ + 1]
      <4>1. worker' = [worker EXCEPT !.pc = "append", !.attempt = @ + 1]
        BY <3>1, <3>2
      <4> QED BY <4>1
    <3>3. CASE worker' = [worker EXCEPT !.pc = "settle", !.attempt = @ + 1]
      BY <3>3
    <3> QED BY <2>2, <3>2, <3>3 DEF AppendFails
  <2>3. ASSUME NEW written \in BOOLEAN, AppendFails(written)
        PROVE  /\ worker.pc = "append" /\ UNCHANGED <<queue, reader, taken>>
               /\ store' \in {store, Append(store, worker.unit.id)}
    BY <2>3 DEF AppendFails
  <2> QED BY <2>1, <2>2, <2>3
<1>2. /\ worker'.unit = worker.unit /\ worker'.attempt = worker.attempt + 1 /\ worker'.pc # "gone"
      /\ worker.attempt < MaxAttempts /\ worker.unit \in Units /\ worker.unit.type = "batch"
  BY <1>1 DEF MirrorInv, Types, Accounted, Trying
<1>3. Pending # <<>> /\ Head(Pending) = worker.unit.id /\ worker.unit.id \in Nat
  BY <1>2, FirstPending DEF MirrorInv
<1>4. Pending' = Pending
  BY <1>1, <1>2 DEF Pending, QueuedBatches, InHand
<1>5. Delivery!Attempt
  BY <1>1, <1>2, <1>3, <1>4 DEF Delivery!Attempt, Pending
<1>6. InOrder'
  <2>1. Offered' = Offered /\ Offered \in Nat /\ Pending \in Seq(Nat) /\ store \in Seq(Nat)
    BY <1>1, OfferedBound, PendingType DEF Offered, MirrorInv, Types
  <2>2. worker.unit.id <= Offered
    BY <1>3, <2>1, UpToTail DEF InOrder
  <2>3. UpTo(Append(store, worker.unit.id), Offered)
    BY <1>3, <2>1, <2>2, UpToAppend DEF InOrder
  <2> QED BY <1>1, <1>4, <2>1, <2>3 DEF InOrder, UpTo
<1> QED
  BY <1>5, <1>6 DEF Delivery!Next

\* The worker lets go of its unit: of a batch, which it has written or given up, or of a
\* sentinel.
LEMMA Retires ==
  ASSUME MirrorInv, Trying, InOrder, SettleUnit
  PROVE  [Delivery!Next]_Delivery!vars /\ InOrder'
<1>1. /\ worker.pc = "settle" /\ UNCHANGED <<queue, reader, taken, store>>
      /\ worker' = [pc |-> "select", unit |-> NoUnit, attempt |-> 0]
  BY DEF SettleUnit
<1>2. worker.unit \in Units
  BY <1>1 DEF Trying
<1>3. QueuedBatches \in Seq(Nat) /\ Pending \in Seq(Nat)
  BY PendingType DEF MirrorInv
<1>4. Pending' = QueuedBatches
  <2>1. InHand(worker.unit)' = <<>> /\ QueuedBatches' = QueuedBatches
    BY <1>1 DEF InHand, NoUnit, QueuedBatches
  <2>2. <<>> \o QueuedBatches = QueuedBatches
    BY <1>3
  <2> QED BY <2>1, <2>2 DEF Pending
<1>5. Offered' = Offered /\ Offered \in Nat
  BY <1>1, OfferedBound DEF Offered, MirrorInv
<1>6. CASE worker.unit.type = "batch"
  <2>1. Pending # <<>> /\ Head(Pending) = worker.unit.id /\ Tail(Pending) = QueuedBatches
    BY <1>2, <1>6, FirstPending DEF MirrorInv
  <2>2. worker.attempt = MaxAttempts \/ (store # <<>> /\ store[Len(store)] = worker.unit.id)
    BY <1>1, <1>6 DEF Trying
  <2>3. Delivery!Retire
    BY <1>1, <1>4, <2>1, <2>2 DEF Delivery!Retire, Pending
  <2>4. UpTo(Tail(Pending), Offered)
    BY <1>3, <1>5, <2>1, UpToTail DEF InOrder
  <2> QED BY <1>1, <1>4, <1>5, <2>1, <2>3, <2>4 DEF Delivery!Next, InOrder, UpTo
<1>7. CASE worker.unit.type # "batch"
  <2>1. Pending = QueuedBatches /\ worker.attempt = 0
    <3>1. InHand(worker.unit) = <<>>
      BY <1>7 DEF InHand
    <3>2. <<>> \o QueuedBatches = QueuedBatches
      BY <1>3
    <3> QED BY <1>1, <1>7, <3>1, <3>2 DEF Pending, Trying
  <2>2. UNCHANGED Delivery!vars
    BY <1>1, <1>4, <2>1 DEF Delivery!vars, Pending
  <2> QED BY <1>1, <1>4, <1>5, <2>1, <2>2 DEF InOrder, UpTo
<1> QED
  BY <1>6, <1>7

\* The worker takes a unit, which was the first already, or stops between two.
LEMMA TakesOrStops ==
  ASSUME MirrorInv, Trying, InOrder, TakeUnit \/ WorkerStops
  PROVE  [Delivery!Next]_Delivery!vars /\ InOrder'
<1>1. UNCHANGED <<reader, taken, store>> /\ worker.pc = "select" /\ worker.unit = NoUnit /\ worker.attempt = 0
  BY DEF TakeUnit, WorkerStops, Trying
<1>2. QueuedBatches \in Seq(Nat) /\ <<>> \o QueuedBatches = QueuedBatches
  BY PendingType DEF MirrorInv
<1>3. InHand(worker.unit) = <<>> /\ Pending = QueuedBatches
  BY <1>1, <1>2 DEF InHand, NoUnit, Pending
<1>4. Offered' = Offered
  BY <1>1 DEF Offered
<1>5. CASE TakeUnit
  <2>1. queue \in Seq(Units) /\ queue # <<>> /\ queue' = Tail(queue) /\ worker'.unit = Head(queue)
        /\ worker'.pc # "gone" /\ worker'.attempt = 0
    BY <1>5 DEF TakeUnit, MirrorInv, Types
  <2>2. QueuedBatches = InHand(Head(queue)) \o QueuedBatches'
    BY <2>1, QueuedTail
  <2>3. Pending' = Pending
    BY <1>3, <2>1, <2>2 DEF Pending, InHand
  <2>4. UNCHANGED Delivery!vars
    BY <1>1, <2>1, <2>3 DEF Delivery!vars, Pending
  <2> QED BY <1>1, <1>4, <2>3, <2>4 DEF InOrder, UpTo
<1>6. CASE WorkerStops
  <2>1. /\ worker' = [worker EXCEPT !.pc = "gone"] /\ queue' = queue
        /\ worker \in [pc : {"select", "append", "settle", "gone"}, unit : Units \cup {NoUnit}, attempt : Nat]
    BY <1>6 DEF WorkerStops, MirrorInv, Types
  <2>2. worker'.unit = worker.unit /\ worker'.attempt = 0 /\ worker'.pc = "gone"
    BY <1>1, <2>1
  <2>3. Pending' = Pending
    BY <2>1, <2>2 DEF Pending, QueuedBatches, InHand
  <2>4. Delivery!Stop
    BY <1>1, <2>2, <2>3 DEF Delivery!Stop, Pending
  <2> QED BY <1>1, <1>4, <2>3, <2>4 DEF Delivery!Next, InOrder, UpTo
<1> QED
  BY <1>5, <1>6

LEMMA DeliveryStep ==
  ASSUME MirrorInv, MirrorInv', Trying, Trying', InOrder, [Next]_vars
  PROVE  [Delivery!Next]_Delivery!vars /\ InOrder'
<1> USE DEF batcherVars
<1>1. /\ Types /\ Types' /\ queue \in Seq(Units) /\ taken \in Nat /\ taken' \in Nat
      /\ Offered \in Nat /\ Offered <= taken /\ QueuedBatches \in Seq(Nat)
  BY OfferedBound, PendingType DEF MirrorInv, Types
<1>2. CASE ReadMirrorFrame \/ CountPending \/ RefuseBatch \/ ReadResult \/ ResultFlushed \/ ResultObserved
           \/ ResultAbandoned \/ ReaderExit \/ StartClose \/ StopWorker \/ JoinWorker \/ Terminated \/ UNCHANGED vars
  <2>1. UNCHANGED <<queue, worker, store>>
    BY <1>2 DEF ReadMirrorFrame, CountPending, RefuseBatch, ReadResult, ResultFlushed, ResultObserved,
               ResultAbandoned, ReaderExit, StartClose, StopWorker, JoinWorker, Terminated, vars
  <2>2. Offered <= Offered'
    <3>1. CASE ReadMirrorFrame
      BY <1>1, <3>1 DEF ReadMirrorFrame, Offered
    <3>2. CASE CountPending
      BY <1>1, <3>2 DEF CountPending, Offered, Types
    <3>3. CASE RefuseBatch \/ ReadResult \/ ResultFlushed \/ ResultObserved \/ ResultAbandoned \/ ReaderExit
      <4>1. taken' = taken /\ reader'.pc \notin {"count", "push"}
        BY <3>3 DEF RefuseBatch, ReadResult, ResultFlushed, ResultObserved, ResultAbandoned, ReaderExit, MirrorInv, Types
      <4> QED BY <1>1, <4>1 DEF Offered
    <3>4. CASE StartClose \/ StopWorker \/ JoinWorker \/ Terminated \/ UNCHANGED vars
      <4>1. taken' = taken /\ reader' = reader
        BY <3>4 DEF StartClose, StopWorker, JoinWorker, Terminated, vars
      <4> QED BY <1>1, <4>1 DEF Offered
    <3> QED BY <1>2, <3>1, <3>2, <3>3, <3>4
  <2>3. QueuedBatches' = QueuedBatches
    BY <2>1 DEF QueuedBatches, InHand
  <2> QED BY <1>1, <2>1, <2>2, <2>3, Unseen
<1>3. CASE FlushResult \/ FlushAtClose
  <2>1. /\ UNCHANGED <<worker, store, taken>> /\ (reader' = reader \/ reader'.pc = "flushing")
        /\ queue' = queue \/ \E s : s \in {ReaderSentinel, CloserSentinel} /\ queue' = Append(queue, s)
    BY <1>3 DEF FlushResult, FlushAtClose, SendSentinel
  <2>2. Offered <= Offered'
    BY <1>1, <1>3, <2>1 DEF Offered, FlushResult
  <2>3. QueuedBatches' = QueuedBatches
    <3>1. CASE queue' = queue
      BY <3>1 DEF QueuedBatches, InHand
    <3>2. CASE \E s : s \in {ReaderSentinel, CloserSentinel} /\ queue' = Append(queue, s)
      <4>1. PICK s \in {ReaderSentinel, CloserSentinel} : queue' = Append(queue, s)
        BY <3>2
      <4>2. s \in Units /\ InHand(s) = <<>>
        <5>1. results \in Nat /\ MaxResults + closer.pass \in Nat
          BY MirrorAssumption DEF MirrorInv, Types
        <5> QED BY <4>1, <5>1, UnitKinds DEF ReaderSentinel, CloserSentinel, InHand
      <4>3. QueuedBatches' = QueuedBatches \o <<>>
        BY <1>1, <4>1, <4>2, QueuedAppend
      <4> QED BY <1>1, <4>3
    <3> QED BY <2>1, <3>1, <3>2
  <2> QED BY <1>1, <2>1, <2>2, <2>3, Unseen
<1>4. CASE PushBatch
  BY <1>4, Accepts
<1>5. CASE AppendSucceeds \/ \E written \in BOOLEAN : AppendFails(written)
  BY <1>5, Attempts
<1>6. CASE SettleUnit
  BY <1>6, Retires
<1>7. CASE TakeUnit \/ WorkerStops
  BY <1>7, TakesOrStops
<1> QED
  BY <1>2, <1>3, <1>4, <1>5, <1>6, <1>7 DEF Next, EnqueueStep, ResultStep, WorkerStep, CloserStep

\* The batches the worker accepts are written, or given up after the last attempt, in the
\* order of their frames: the refinement of OrderedDelivery, but for its fairness
\* (mirror_batcher.go:41-51).
THEOREM MirrorKeepsTheOrder == Spec => DeliversInOrder
<1>1. Init => Delivery!Init
  <2> SUFFICES ASSUME Init PROVE Delivery!Init
    OBVIOUS
  <2>1. QueuedBatches = <<>>
    <3>1. queue = <<>> /\ queue \in Seq(Units)
      BY DEF Init
    <3> QED BY <3>1, QueuedAreEach, EachEmpty
  <2> QED BY <2>1 DEF Init, Delivery!Init, InHand, NoUnit
<1>2. MirrorInv /\ Trying /\ [Next]_vars => Trying'
  BY TryingNext
<1>3. MirrorInv /\ MirrorInv' /\ Trying /\ Trying' /\ InOrder /\ [Next]_vars
        => [Delivery!Next]_Delivery!vars /\ InOrder'
  BY DeliveryStep
<1> QED
  BY <1>1, <1>2, <1>3, TryingInit, MirrorInvariance, PTL DEF Spec, DeliversInOrder, Delivery!Safety
=============================================================================
