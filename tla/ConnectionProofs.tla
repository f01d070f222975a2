--------------------------- MODULE ConnectionProofs ---------------------------
(***************************************************************************)
(* Nothing outlives the connection it belongs to, and nobody waits on what *)
(* is gone: first for the client (ClientLifecycle), then for the bridge to *)
(* an in-process MCP server that a connection carries (McpBridge).         *)
(*                                                                         *)
(* The client.  Whatever the callers do and however Connect fails, a call  *)
(* uses the connection there is, no CLI process runs outside of one, and   *)
(* an attempt after failed ones has its credentials.  LockInv says what    *)
(* holding the lock means: who is past Announce is the writer, who reads   *)
(* is a reader, and an operation that writes runs alone.  The properties   *)
(* follow because every step that replaces the query or clears `connected` *)
(* is one of such an operation.                                            *)
(*                                                                         *)
(* The bridge.  Nobody waits on a session that is over, an id is in the    *)
(* table once, and a bridge runs one session at a time, for every number   *)
(* of messages and whatever ids they carry.                                *)
(***************************************************************************)
EXTENDS ClientLifecycle, McpBridge, TLAPS

(* ---- ClientLifecycle ---- *)

Holds(c) == call[c].pc \in Connecting \cup {"cleanup"} \/ (At(c, "begin") /\ call[c].op \in Writing)
Reads(c) == At(c, "write") \/ At(c, "await") \/ (At(c, "begin") /\ call[c].op \in Reading)

LockInv ==
  /\ \A c \in Callers : At(c, "idle") <=> call[c].op = "none"
  /\ \A c \in Callers : call[c].pc \in Connecting => call[c].op = "connect"
  /\ \A c \in Callers : At(c, "cleanup") => call[c].op = "close"
  /\ \A c \in Callers : At(c, "announced") => call[c].op \in Writing
  /\ \A c \in Callers : At(c, "write") => call[c].op \in {"send"} \cup Asking
  /\ \A c \in Callers : At(c, "await") => call[c].op \in Asking
  /\ \A c \in Callers : Holds(c) => writer = c /\ readers = {}
  /\ \A c \in Callers : At(c, "announced") => writer = c
  /\ \A c \in Callers : Reads(c) => c \in readers

DownWhileConnecting == \A c \in Callers : call[c].pc \in Connecting \cup {"cleanup"} => ~client.connected

Inv == TypeOK /\ LockInv /\ DownWhileConnecting /\ CallsUseTheirConnection /\ NoStrayProcess

(* ---- what the two ways of moving on do ---- *)

LEMMA GoToEffect ==
  ASSUME TypeOK, NEW c \in Callers, NEW place \in PCs, GoTo(c, place)
  PROVE  /\ call' \in [Callers -> [op : Ops \cup {"none"}, pc : PCs, conn : Nat]]
         /\ call'[c].pc = place /\ call'[c].op = call[c].op /\ call'[c].conn = call[c].conn
         /\ \A d \in Callers : d # c => call'[d] = call[d]
<1>1. call' = [call EXCEPT ![c] = [call[c] EXCEPT !.pc = place]]
  BY DEF GoTo
<1>2. call[c] \in [op : Ops \cup {"none"}, pc : PCs, conn : Nat]
  BY DEF TypeOK
<1>3. [call[c] EXCEPT !.pc = place] \in [op : Ops \cup {"none"}, pc : PCs, conn : Nat]
  BY <1>2
<1> QED
  BY <1>1, <1>2, <1>3 DEF TypeOK

LEMMA ReturnEffect ==
  ASSUME TypeOK, NEW c \in Callers, Return(c)
  PROVE  /\ call' \in [Callers -> [op : Ops \cup {"none"}, pc : PCs, conn : Nat]]
         /\ readers' \subseteq Callers /\ writer' \in Callers \cup {Nobody}
         /\ call'[c].pc = "idle" /\ call'[c].op = "none"
         /\ \A d \in Callers : d # c => call'[d] = call[d]
<1>1. [op |-> "none", pc |-> "idle", conn |-> None] \in [op : Ops \cup {"none"}, pc : PCs, conn : Nat]
  BY DEF PCs, None
<1> QED
  BY <1>1 DEF Return, TypeOK

(* ---- the two ends of a write ---- *)

PromptWritten(c)  == Written(c) /\ Return(c)
RequestWritten(c) == Written(c) /\ call[c].op \in Asking /\ GoTo(c, "await") /\ UNCHANGED lockVars

LEMMA WrittenKinds ==
  ASSUME NEW c \in Callers, Written(c)
  PROVE  PromptWritten(c) \/ RequestWritten(c)
BY DEF Written, PromptWritten, RequestWritten

(* ---- types ---- *)

LEMMA TypeInit == Init => TypeOK
<1> SUFFICES ASSUME Init PROVE TypeOK
  OBVIOUS
<1>1. [op |-> "none", pc |-> "idle", conn |-> None] \in [op : Ops \cup {"none"}, pc : PCs, conn : Nat]
  BY DEF PCs, None
<1> QED
  BY <1>1 DEF Init, TypeOK, None

LEMMA TypeNext == TypeOK /\ [Next]_vars => TypeOK'
<1> SUFFICES ASSUME TypeOK, [Next]_vars PROVE TypeOK'
  OBVIOUS
<1> USE DEF lockVars, worldVars
<1>1. ASSUME NEW c \in Callers, NEW op \in Ops, StartCall(c, op) PROVE TypeOK'
  <2>1. [op |-> op, pc |-> "lock", conn |-> None] \in [op : Ops \cup {"none"}, pc : PCs, conn : Nat]
    BY DEF PCs, None
  <2> QED
    BY <1>1, <2>1 DEF StartCall, TypeOK
<1>2. ASSUME NEW c \in Callers,
             Announce(c) \/ Acquire(c) \/ RLock(c) \/ BeginAttempt(c) \/ NothingToMaterialize(c)
               \/ Materialize(c) \/ Configure(c) \/ Spawn(c) \/ InitializeSent(c) \/ Initialized(c)
               \/ RequestWritten(c) \/ CloseQuery(c)
      PROVE  TypeOK'
  <2>1. PICK place \in PCs : GoTo(c, place)
    BY <1>2 DEF Announce, Acquire, RLock, BeginAttempt, NothingToMaterialize, Materialize, Configure,
                Spawn, InitializeSent, Initialized, RequestWritten, CloseQuery, PCs, Connecting
  <2>2. call' \in [Callers -> [op : Ops \cup {"none"}, pc : PCs, conn : Nat]]
    BY <2>1, GoToEffect
  <2>3. readers' \subseteq Callers /\ writer' \in Callers \cup {Nobody} /\ attempts' \in Nat
    BY <1>2 DEF Announce, Acquire, RLock, BeginAttempt, NothingToMaterialize, Materialize, Configure,
                Spawn, InitializeSent, Initialized, RequestWritten, Written, CloseQuery, lockVars, TypeOK
  <2>4. client' \in [canUseTool : BOOLEAN, store : BOOLEAN, resumes : BOOLEAN, connected : BOOLEAN,
                     query : Nat, batcher : Nat, materialized : Nat, dir : Nat, permission : BOOLEAN]
    <3>1. CASE Materialize(c)
      <4>1. [client EXCEPT !.materialized = attempts]
              \in [canUseTool : BOOLEAN, store : BOOLEAN, resumes : BOOLEAN, connected : BOOLEAN,
                   query : Nat, batcher : Nat, materialized : Nat, dir : Nat, permission : BOOLEAN]
        BY DEF TypeOK
      <4> QED
        BY <3>1, <4>1 DEF Materialize, TypeOK
    <3>2. CASE Configure(c)
      <4>1. [client EXCEPT !.permission = client.canUseTool]
              \in [canUseTool : BOOLEAN, store : BOOLEAN, resumes : BOOLEAN, connected : BOOLEAN,
                   query : Nat, batcher : Nat, materialized : Nat, dir : Nat, permission : BOOLEAN]
        BY DEF TypeOK
      <4>2. PICK b \in Nat : client' = [client EXCEPT !.permission = client.canUseTool, !.batcher = b]
        BY <3>2 DEF Configure, TypeOK
      <4> QED
        BY <4>1, <4>2
    <3>3. CASE Spawn(c)
      BY <3>3 DEF Spawn, TypeOK
    <3>4. CASE CloseQuery(c)
      BY <3>4 DEF CloseQuery, TypeOK
    <3>5. CASE UNCHANGED client
      BY <3>5 DEF TypeOK
    <3> QED
      BY <1>2, <3>1, <3>2, <3>3, <3>4, <3>5
         DEF Announce, Acquire, RLock, BeginAttempt, NothingToMaterialize, InitializeSent, Initialized,
             RequestWritten, Written
  <2> QED
    BY <2>2, <2>3, <2>4 DEF TypeOK
<1>3. ASSUME NEW c \in Callers,
             Return(c), UNCHANGED attempts,
             \/ UNCHANGED client
             \/ client' = [client EXCEPT !.connected = TRUE]
             \/ client' = [client EXCEPT !.batcher = None, !.materialized = None]
      PROVE  TypeOK'
  <2>1. client' \in [canUseTool : BOOLEAN, store : BOOLEAN, resumes : BOOLEAN, connected : BOOLEAN,
                     query : Nat, batcher : Nat, materialized : Nat, dir : Nat, permission : BOOLEAN]
    <3>1. CASE client' = [client EXCEPT !.batcher = None, !.materialized = None]
      <4>1. [client EXCEPT !.batcher = None]
              \in [canUseTool : BOOLEAN, store : BOOLEAN, resumes : BOOLEAN, connected : BOOLEAN,
                   query : Nat, batcher : Nat, materialized : Nat, dir : Nat, permission : BOOLEAN]
        BY DEF TypeOK, None
      <4> QED
        BY <3>1, <4>1 DEF None
    <3> QED
      BY <1>3, <3>1 DEF TypeOK
  <2> QED
    BY <1>3, <2>1, ReturnEffect DEF TypeOK
<1>4. ASSUME NEW c \in Callers,
             \/ AlreadyConnected(c) \/ MaterializeFails(c) \/ ConfigureRefuses(c) \/ SpawnFails(c)
             \/ HandshakeFails(c) \/ Connected(c) \/ NotConnected(c) \/ ReceiveResponse(c)
             \/ PromptWritten(c) \/ PipeFails(c) \/ Answered(c) \/ TimeOut(c) \/ NothingToClose(c)
             \/ CleanUp(c)
      PROVE  TypeOK'
  <2> QED
    BY <1>3, <1>4 DEF AlreadyConnected, MaterializeFails, ConfigureRefuses, SpawnFails, HandshakeFails,
         Connected, NotConnected, ReceiveResponse, PromptWritten, Written, PipeFails, Answered, TimeOut,
         NothingToClose, CleanUp, FailAttempt
<1>5. ASSUME NEW c \in Callers, BeginWrite(c) PROVE TypeOK'
  <2>1. [op |-> call[c].op, pc |-> "write", conn |-> client.query]
          \in [op : Ops \cup {"none"}, pc : PCs, conn : Nat]
    BY DEF TypeOK, PCs
  <2> QED
    BY <1>5, <2>1 DEF BeginWrite, TypeOK
<1>6. ASSUME NEW n \in Attempts, CliExits(n) PROVE TypeOK'
  BY <1>6 DEF CliExits, TypeOK
<1>7. CASE UNCHANGED vars
  BY <1>7 DEF vars, TypeOK
<1> QED
  BY <1>1, <1>2, <1>4, <1>5, <1>6, <1>7, WrittenKinds DEF Next, CallStep, HandshakeStep, ConnectStep, CloseStep

(* ---- the lock ---- *)

\* The steps of a call that goes on with the lock in its hands, and those that
\* release it.
Continues(c) ==
  \/ BeginAttempt(c) \/ NothingToMaterialize(c) \/ Materialize(c) \/ Configure(c)
  \/ Spawn(c) \/ InitializeSent(c) \/ Initialized(c) \/ CloseQuery(c)

Returns(c) ==
  \/ AlreadyConnected(c) \/ MaterializeFails(c) \/ ConfigureRefuses(c) \/ SpawnFails(c)
  \/ HandshakeFails(c) \/ Connected(c) \/ NotConnected(c) \/ ReceiveResponse(c)
  \/ PromptWritten(c) \/ PipeFails(c) \/ Answered(c) \/ TimeOut(c) \/ NothingToClose(c) \/ CleanUp(c)

\* A call that uses the connection goes on under the read lock.
Uses(c) == BeginWrite(c) \/ RequestWritten(c)

LEMMA StepKinds ==
  ASSUME [Next]_vars
  PROVE  \/ \E c \in Callers, op \in Ops : StartCall(c, op)
         \/ \E c \in Callers : Announce(c) \/ Acquire(c) \/ RLock(c) \/ Uses(c)
                                \/ Continues(c) \/ Returns(c)
         \/ \E n \in Attempts : CliExits(n)
         \/ UNCHANGED vars
BY WrittenKinds DEF Next, CallStep, ConnectStep, HandshakeStep, CloseStep, Continues, Returns, Uses

LEMMA ReturnsReturn ==
  ASSUME NEW c \in Callers, Returns(c)
  PROVE  Return(c) /\ UNCHANGED attempts
BY DEF Returns, AlreadyConnected, MaterializeFails, ConfigureRefuses, SpawnFails, HandshakeFails,
       Connected, NotConnected, ReceiveResponse, PromptWritten, Written, PipeFails, Answered, TimeOut,
       NothingToClose, CleanUp, FailAttempt

LEMMA UsesUse ==
  ASSUME TypeOK, LockInv, NEW c \in Callers, Uses(c)
  PROVE  /\ call'[c].pc \in {"write", "await"} /\ call'[c].op = call[c].op
         /\ call[c].pc \in {"begin", "write"} /\ Reads(c)
         /\ call'[c].pc = "write" => call[c].op \in {"send"} \cup Asking
         /\ call'[c].pc = "await" => call[c].op \in Asking
         /\ call'[c].pc = "write" => client.connected /\ call'[c].conn = client.query
         /\ call'[c].pc = "await" => call[c].pc = "write" /\ call'[c].conn = call[c].conn
         /\ \A d \in Callers : d # c => call'[d] = call[d]
         /\ UNCHANGED <<lockVars, client, attempts, worldVars, failed>>
<1>1. CASE BeginWrite(c)
  BY <1>1 DEF BeginWrite, Reads, Reading, At, TypeOK
<1>2. CASE RequestWritten(c)
  BY <1>2 DEF RequestWritten, Written, GoTo, Reads, At, TypeOK
<1> QED
  BY <1>1, <1>2 DEF Uses

LEMMA ContinuesHolds ==
  ASSUME TypeOK, LockInv, NEW c \in Callers, Continues(c)
  PROVE  /\ Holds(c) /\ UNCHANGED lockVars
         /\ \E p \in Connecting \cup {"cleanup"} :
               GoTo(c, p) /\ (call[c].op = IF p = "cleanup" THEN "close" ELSE "connect")
BY DEF Continues, BeginAttempt, NothingToMaterialize, Materialize, Configure, Spawn, InitializeSent,
       Initialized, CloseQuery, LockInv, Holds, At, Connecting, Writing, lockVars

LEMMA LockNext == TypeOK /\ LockInv /\ [Next]_vars => LockInv'
<1> SUFFICES ASSUME TypeOK, LockInv, [Next]_vars PROVE LockInv'
  OBVIOUS
<1> USE DEF At, Holds, Reads, Connecting, Writing, Asking, Reading, Ops
<1>1. ASSUME NEW c \in Callers, NEW op \in Ops, StartCall(c, op) PROVE LockInv'
  <2>1. /\ call'[c].pc = "lock" /\ call'[c].op = op
        /\ \A d \in Callers : d # c => call'[d] = call[d]
    BY <1>1 DEF StartCall, TypeOK
  <2> QED
    BY <1>1, <2>1 DEF StartCall, LockInv, lockVars
<1>2. ASSUME NEW c \in Callers, Announce(c) PROVE LockInv'
  <2>1. "announced" \in PCs /\ GoTo(c, "announced")
    BY <1>2 DEF PCs, Announce
  <2>2. /\ call'[c].pc = "announced" /\ call'[c].op = call[c].op
        /\ \A d \in Callers : d # c => call'[d] = call[d]
    BY <2>1, GoToEffect
  <2>3. \A d \in Callers : ~Holds(d) /\ ~At(d, "announced")
    BY <1>2, NobodyAssumption DEF Announce, LockInv
  <2> QED
    BY <1>2, <2>2, <2>3 DEF Announce, LockInv
<1>3. ASSUME NEW c \in Callers, Acquire(c) PROVE LockInv'
  <2>1. "begin" \in PCs /\ GoTo(c, "begin")
    BY <1>3 DEF PCs, Acquire
  <2>2. /\ call'[c].pc = "begin" /\ call'[c].op = call[c].op
        /\ \A d \in Callers : d # c => call'[d] = call[d]
    BY <2>1, GoToEffect
  <2> QED
    BY <1>3, <2>2 DEF Acquire, LockInv, lockVars
<1>4. ASSUME NEW c \in Callers, RLock(c) PROVE LockInv'
  <2>1. "begin" \in PCs /\ GoTo(c, "begin")
    BY <1>4 DEF PCs, RLock
  <2>2. /\ call'[c].pc = "begin" /\ call'[c].op = call[c].op
        /\ \A d \in Callers : d # c => call'[d] = call[d]
    BY <2>1, GoToEffect
  <2>3. \A d \in Callers : ~Holds(d) /\ ~At(d, "announced")
    BY <1>4, NobodyAssumption DEF RLock, LockInv
  <2> QED
    BY <1>4, <2>2, <2>3 DEF RLock, LockInv
<1>5. ASSUME NEW c \in Callers, Uses(c) PROVE LockInv'
  BY <1>5, UsesUse DEF LockInv, lockVars
<1>6. ASSUME NEW c \in Callers, Continues(c) PROVE LockInv'
  <2>1. PICK p \in Connecting \cup {"cleanup"} :
          GoTo(c, p) /\ call[c].op = IF p = "cleanup" THEN "close" ELSE "connect"
    BY <1>6, ContinuesHolds
  <2>2. /\ call'[c].pc = p /\ call'[c].op = call[c].op
        /\ \A d \in Callers : d # c => call'[d] = call[d]
    BY <2>1, GoToEffect DEF PCs
  <2>3. Holds(c) /\ UNCHANGED lockVars
    BY <1>6, ContinuesHolds
  <2> QED
    BY <2>1, <2>2, <2>3 DEF LockInv, lockVars
<1>7. ASSUME NEW c \in Callers, Returns(c) PROVE LockInv'
  <2>1. Return(c)
    BY <1>7, ReturnsReturn
  <2>2. /\ call'[c].pc = "idle" /\ call'[c].op = "none"
        /\ \A d \in Callers : d # c => call'[d] = call[d]
    BY <2>1, ReturnEffect
  <2>3. \A d \in Callers : d # c /\ writer = d => writer' = d
    BY <2>1 DEF Return
  <2>4. readers' = readers \ {c}
    BY <2>1 DEF Return
  <2> QED
    BY <2>2, <2>3, <2>4 DEF LockInv
<1>8. ASSUME NEW n \in Attempts, CliExits(n) PROVE LockInv'
  BY <1>8 DEF CliExits, LockInv, lockVars
<1>9. CASE UNCHANGED vars
  BY <1>9 DEF vars, LockInv
<1> QED
  BY <1>1, <1>2, <1>3, <1>4, <1>5, <1>6, <1>7, <1>8, <1>9, StepKinds

(* ---- the connection ---- *)

\* Only one operation that writes is past the lock, and nobody reads beside it.
LEMMA Alone ==
  ASSUME TypeOK, LockInv, NEW c \in Callers, Holds(c)
  PROVE  /\ \A d \in Callers : Holds(d) => d = c
         /\ \A d \in Callers : ~Reads(d)
BY DEF LockInv

\* No process runs while Connect has none of its own.
LEMMA NothingLive ==
  ASSUME TypeOK, LockInv, DownWhileConnecting, NoStrayProcess, NEW c \in Callers,
         call[c].pc \in Connecting \cup {"cleanup"}, ~Shaking(c)
  PROVE  live = {}
<1>1. ~client.connected
  BY DEF DownWhileConnecting
<1>2. \A d \in Callers : ~Shaking(d)
  BY Alone DEF Holds, At, Shaking, Connecting
<1> QED
  BY <1>1, <1>2 DEF NoStrayProcess

LEMMA UnderWayNext == TypeOK /\ LockInv /\ DownWhileConnecting /\ [Next]_vars => DownWhileConnecting'
<1> SUFFICES ASSUME TypeOK, LockInv, DownWhileConnecting, [Next]_vars PROVE DownWhileConnecting'
  OBVIOUS
<1> USE DEF At, Holds, Connecting, Writing, Reading
<1>1. ASSUME NEW c \in Callers, NEW op \in Ops, StartCall(c, op) PROVE DownWhileConnecting'
  BY <1>1 DEF StartCall, DownWhileConnecting, TypeOK
<1>2. ASSUME NEW c \in Callers, Announce(c) \/ Acquire(c) \/ RLock(c) \/ Uses(c) PROVE DownWhileConnecting'
  BY <1>2, UsesUse DEF Announce, Acquire, RLock, GoTo, DownWhileConnecting, TypeOK
<1>3. ASSUME NEW c \in Callers, Continues(c) PROVE DownWhileConnecting'
  <2>1. ~client'.connected
    <3>1. client \in [canUseTool : BOOLEAN, store : BOOLEAN, resumes : BOOLEAN, connected : BOOLEAN,
                      query : Nat, batcher : Nat, materialized : Nat, dir : Nat, permission : BOOLEAN]
      BY DEF TypeOK
    <3>2. CASE CloseQuery(c)
      BY <3>1, <3>2 DEF CloseQuery
    <3>3. CASE ~CloseQuery(c)
      <4>1. ~client.connected
        BY <1>3, <3>3 DEF Continues, BeginAttempt, NothingToMaterialize, Materialize, Configure, Spawn,
                          InitializeSent, Initialized, DownWhileConnecting
      <4> QED
        BY <1>3, <3>1, <3>3, <4>1 DEF Continues, BeginAttempt, NothingToMaterialize, Materialize,
                          Configure, Spawn, InitializeSent, Initialized
    <3> QED
      BY <3>2, <3>3
  <2> QED
    BY <2>1 DEF DownWhileConnecting
<1>4. ASSUME NEW c \in Callers, Returns(c) PROVE DownWhileConnecting'
  <2>1. Return(c)
    BY <1>4, ReturnsReturn
  <2>2. call'[c].pc = "idle" /\ \A d \in Callers : d # c => call'[d] = call[d]
    BY <2>1, ReturnEffect
  <2>3. CASE Connected(c)
    <3>1. \A d \in Callers : Holds(d) => d = c
      BY <2>3, Alone DEF Connected
    <3> QED
      BY <2>2, <3>1 DEF DownWhileConnecting
  <2>4. CASE ~Connected(c)
    <3>1. client'.connected = client.connected
      BY <1>4, <2>4 DEF Returns, AlreadyConnected, MaterializeFails, ConfigureRefuses, SpawnFails,
           HandshakeFails, NotConnected, ReceiveResponse, PromptWritten, Written, PipeFails, Answered,
           TimeOut, NothingToClose, CleanUp, FailAttempt, TypeOK
    <3> QED
      BY <2>2, <3>1 DEF DownWhileConnecting
  <2> QED
    BY <2>3, <2>4
<1>5. ASSUME NEW n \in Attempts, CliExits(n) PROVE DownWhileConnecting'
  BY <1>5 DEF CliExits, DownWhileConnecting
<1>6. CASE UNCHANGED vars
  BY <1>6 DEF vars, DownWhileConnecting
<1> QED
  BY <1>1, <1>2, <1>3, <1>4, <1>5, <1>6, StepKinds

LEMMA CallsNext == TypeOK /\ LockInv /\ CallsUseTheirConnection /\ [Next]_vars => CallsUseTheirConnection'
<1> SUFFICES ASSUME TypeOK, LockInv, CallsUseTheirConnection, [Next]_vars PROVE CallsUseTheirConnection'
  OBVIOUS
<1> USE DEF At, CallsUseTheirConnection
<1>1. ASSUME NEW c \in Callers, NEW op \in Ops, StartCall(c, op) PROVE CallsUseTheirConnection'
  BY <1>1 DEF StartCall, TypeOK
<1>2. ASSUME NEW c \in Callers, Announce(c) \/ Acquire(c) \/ RLock(c) PROVE CallsUseTheirConnection'
  BY <1>2 DEF Announce, Acquire, RLock, GoTo, TypeOK
<1>3. ASSUME NEW c \in Callers, Uses(c) PROVE CallsUseTheirConnection'
  BY <1>3, UsesUse
<1>4. ASSUME NEW c \in Callers, Continues(c) PROVE CallsUseTheirConnection'
  <2>1. \A d \in Callers : ~At(d, "write") /\ ~At(d, "await")
    BY <1>4, ContinuesHolds, Alone DEF Reads
  <2>2. PICK p \in Connecting \cup {"cleanup"} : GoTo(c, p)
    BY <1>4, ContinuesHolds
  <2>3. call'[c].pc = p /\ \A d \in Callers : d # c => call'[d] = call[d]
    BY <2>2, GoToEffect DEF PCs
  <2> QED
    BY <2>1, <2>3 DEF Connecting
<1>5. ASSUME NEW c \in Callers, Returns(c) PROVE CallsUseTheirConnection'
  <2>1. call'[c].pc = "idle" /\ \A d \in Callers : d # c => call'[d] = call[d]
    BY <1>5, ReturnsReturn, ReturnEffect
  <2>2. CASE Connected(c) \/ CleanUp(c)
    <3>1. \A d \in Callers : ~At(d, "write") /\ ~At(d, "await")
      BY <2>2, Alone DEF Holds, Reads, Connected, CleanUp, Connecting
    <3> QED
      BY <2>1, <3>1
  <2>3. CASE ~Connected(c) /\ ~CleanUp(c)
    <3>1. UNCHANGED client
      BY <1>5, <2>3 DEF Returns, AlreadyConnected, MaterializeFails, ConfigureRefuses, SpawnFails,
           HandshakeFails, NotConnected, ReceiveResponse, PromptWritten, Written, PipeFails, Answered,
           TimeOut, NothingToClose
    <3> QED
      BY <2>1, <3>1
  <2> QED
    BY <2>2, <2>3
<1>6. ASSUME NEW n \in Attempts, CliExits(n) PROVE CallsUseTheirConnection'
  BY <1>6 DEF CliExits
<1>7. CASE UNCHANGED vars
  BY <1>7 DEF vars
<1> QED
  BY <1>1, <1>2, <1>3, <1>4, <1>5, <1>6, <1>7, StepKinds

LEMMA StrayNext == TypeOK /\ LockInv /\ DownWhileConnecting /\ NoStrayProcess /\ [Next]_vars => NoStrayProcess'
<1> SUFFICES ASSUME TypeOK, LockInv, DownWhileConnecting, NoStrayProcess, [Next]_vars PROVE NoStrayProcess'
  OBVIOUS
<1> USE DEF At
<1>1. ASSUME NEW c \in Callers, NEW op \in Ops, StartCall(c, op) PROVE NoStrayProcess'
  BY <1>1 DEF StartCall, Shaking, worldVars, NoStrayProcess, TypeOK
<1>2. ASSUME NEW c \in Callers, Announce(c) \/ Acquire(c) \/ RLock(c) \/ Uses(c) PROVE NoStrayProcess'
  <2>1. \A d \in Callers : Shaking(d) => Shaking(d)'
    BY <1>2, UsesUse DEF Announce, Acquire, RLock, GoTo, Shaking, TypeOK
  <2>2. UNCHANGED <<client, live>>
    BY <1>2, UsesUse DEF Announce, Acquire, RLock, worldVars
  <2> QED
    BY <2>1, <2>2 DEF NoStrayProcess
<1>3. ASSUME NEW c \in Callers, Continues(c) PROVE NoStrayProcess'
  <2>1. PICK p \in Connecting \cup {"cleanup"} : GoTo(c, p)
    BY <1>3, ContinuesHolds
  <2>2. call'[c].pc = p /\ \A d \in Callers : d # c => call'[d] = call[d]
    BY <2>1, GoToEffect DEF PCs
  <2>3. CASE BeginAttempt(c)
    BY <2>2, <2>3 DEF BeginAttempt, worldVars, NoStrayProcess, Shaking
  <2>4. CASE NothingToMaterialize(c) \/ Materialize(c) \/ Configure(c)
    BY <2>4, NothingLive
       DEF NothingToMaterialize, Materialize, Configure, worldVars, Connecting, Shaking, NoStrayProcess
  <2>5. CASE Spawn(c)
    <3>1. live = {}
      BY <2>5, NothingLive DEF Spawn, Connecting, Shaking
    <3>2. client'.query = attempts /\ live' = {attempts}
      BY <2>5, <3>1 DEF Spawn, TypeOK
    <3>3. call'[c].pc = "initialize"
      BY <2>5 DEF Spawn, GoTo, TypeOK
    <3> QED
      BY <3>2, <3>3 DEF NoStrayProcess, Shaking
  <2>6. CASE InitializeSent(c) \/ Initialized(c)
    <3>1. Shaking(c)' /\ UNCHANGED <<client, live>>
      BY <2>6 DEF InitializeSent, Initialized, GoTo, Shaking, TypeOK, worldVars
    <3>2. \A n \in live : n = client.query
      BY DEF NoStrayProcess
    <3> QED
      BY <3>1, <3>2 DEF NoStrayProcess
  <2>7. CASE CloseQuery(c)
    BY <2>7 DEF CloseQuery, NoStrayProcess
  <2> QED
    BY <1>3, <2>3, <2>4, <2>5, <2>6, <2>7 DEF Continues
<1>4. ASSUME NEW c \in Callers, Returns(c) PROVE NoStrayProcess'
  <2>1. call'[c].pc = "idle" /\ \A d \in Callers : d # c => call'[d] = call[d]
    BY <1>4, ReturnsReturn, ReturnEffect
  <2>2. CASE Connected(c)
    BY <2>2 DEF Connected, worldVars, NoStrayProcess, TypeOK
  <2>3. CASE CleanUp(c)
    BY <2>3, NothingLive DEF CleanUp, Connecting, Shaking, NoStrayProcess
  <2>4. CASE HandshakeFails(c)
    BY <2>4 DEF HandshakeFails, NoStrayProcess
  <2>5. CASE ~Connected(c) /\ ~CleanUp(c) /\ ~HandshakeFails(c)
    <3>1. ~Shaking(c) /\ UNCHANGED <<client, live>>
      BY <1>4, <2>5 DEF Returns, AlreadyConnected, MaterializeFails, ConfigureRefuses, SpawnFails,
           NotConnected, ReceiveResponse, PromptWritten, Written, PipeFails, Answered, TimeOut,
           NothingToClose, worldVars, Shaking
    <3> QED
      BY <2>1, <3>1 DEF NoStrayProcess, Shaking
  <2> QED
    BY <2>2, <2>3, <2>4, <2>5
<1>5. ASSUME NEW n \in Attempts, CliExits(n) PROVE NoStrayProcess'
  BY <1>5 DEF CliExits, NoStrayProcess, Shaking
<1>6. CASE UNCHANGED vars
  BY <1>6 DEF vars, NoStrayProcess, Shaking
<1> QED
  BY <1>1, <1>2, <1>3, <1>4, <1>5, <1>6, StepKinds

(* ---- the credentials ---- *)

Working(c) == call[c].pc \in Connecting
Failing    == \A n \in 1..attempts : n \in failed \/ (n = attempts /\ \E c \in Callers : Working(c))
HasCredentials == client.dir = None \/ client.dir \in dirs \cap authed

\* Attempts fail once they are over, and one that did not fail is the connection, is
\* being closed, or was.  While all failed, no directory was removed.
CredInv ==
  /\ failed \subseteq 1..attempts
  /\ client.connected \/ (\E c \in Callers : At(c, "cleanup")) => attempts >= 1 /\ attempts \notin failed
  /\ (\E c \in Callers : Working(c)) => attempts >= 1 /\ attempts \notin failed
  /\ Failing => HasCredentials

\* A step that begins and ends no attempt and no Close, and leaves the directories alone.
LEMMA CredKept ==
  ASSUME CredInv, UNCHANGED <<attempts, failed, dirs, authed>>,
         client'.dir = client.dir, client'.connected = client.connected,
         \A d \in Callers : Working(d)' <=> Working(d),
         \A d \in Callers : At(d, "cleanup")' => At(d, "cleanup")
  PROVE  CredInv'
BY DEF CredInv, Failing, HasCredentials

LEMMA CredNext == TypeOK /\ LockInv /\ DownWhileConnecting /\ CredInv /\ [Next]_vars => CredInv'
<1> SUFFICES ASSUME TypeOK, LockInv, DownWhileConnecting, CredInv, [Next]_vars PROVE CredInv'
  OBVIOUS
<1> USE DEF worldVars
<1>0. attempts \in Nat /\ client.dir \in Nat
  BY DEF TypeOK
<1>1. ASSUME NEW c \in Callers, NEW op \in Ops, StartCall(c, op) PROVE CredInv'
  <2>1. call'[c].pc = "lock" /\ call[c].pc = "idle" /\ \A d \in Callers : d # c => call'[d] = call[d]
    BY <1>1 DEF StartCall, TypeOK, At
  <2>2. \A d \in Callers : (Working(d)' <=> Working(d)) /\ (At(d, "cleanup")' => At(d, "cleanup"))
    BY <2>1 DEF Working, At, Connecting
  <2> QED
    BY <1>1, <2>2, CredKept DEF StartCall
<1>2. ASSUME NEW c \in Callers, Announce(c) \/ Acquire(c) \/ RLock(c) \/ Uses(c) PROVE CredInv'
  <2>1. /\ call[c].pc \in {"lock", "announced", "begin", "write"}
        /\ call'[c].pc \in {"announced", "begin", "write", "await"}
        /\ \A d \in Callers : d # c => call'[d] = call[d]
    BY <1>2, UsesUse DEF Announce, Acquire, RLock, GoTo, TypeOK, At
  <2>2. \A d \in Callers : (Working(d)' <=> Working(d)) /\ (At(d, "cleanup")' => At(d, "cleanup"))
    BY <2>1 DEF Working, At, Connecting
  <2>3. UNCHANGED <<client, attempts, failed, dirs, authed>>
    BY <1>2, UsesUse DEF Announce, Acquire, RLock
  <2> QED
    BY <2>2, <2>3, CredKept
<1>3. ASSUME NEW c \in Callers, Continues(c) PROVE CredInv'
  <2>1. PICK p \in Connecting \cup {"cleanup"} : GoTo(c, p)
    BY <1>3, ContinuesHolds
  <2>2. call'[c].pc = p /\ \A d \in Callers : d # c => call'[d] = call[d]
    BY <2>1, GoToEffect DEF PCs
  <2>3. \A d \in Callers : d # c => ~Working(d) /\ ~At(d, "cleanup")
    BY <1>3, ContinuesHolds, Alone DEF Holds, Working, At
  <2>4. CASE BeginAttempt(c)
    <3>1. /\ attempts' = attempts + 1 /\ UNCHANGED <<client, failed, dirs, authed>>
          /\ call'[c].pc \in Connecting /\ call[c].pc = "begin" /\ ~client.connected
      BY <2>4 DEF BeginAttempt, GoTo, TypeOK, At, Connecting
    <3>2. failed' \subseteq 1..attempts' /\ attempts' \notin failed' /\ attempts' >= 1
      BY <1>0, <3>1 DEF CredInv
    <3>3. Failing' => Failing
      BY <1>0, <3>1 DEF Failing, CredInv
    <3>4. HasCredentials' <=> HasCredentials
      BY <3>1 DEF HasCredentials
    <3> QED
      BY <3>2, <3>3, <3>4 DEF CredInv
  <2>5. CASE Materialize(c)
    <3>1. /\ Working(c) /\ Working(c)' /\ UNCHANGED <<attempts, failed>> /\ client'.connected = client.connected
          /\ client'.dir = attempts /\ dirs' = dirs \cup {attempts}
          /\ authed' = IF HasCredentials THEN authed \cup {attempts} ELSE authed
      BY <2>5 DEF Materialize, GoTo, TypeOK, At, Working, Connecting, HasCredentials
    <3>2. \A d \in Callers : (Working(d)' <=> Working(d)) /\ ~At(d, "cleanup")'
      BY <2>2, <2>3, <3>1 DEF Working, At, Connecting
    <3>3. Failing' <=> Failing
      BY <3>1, <3>2 DEF Failing
    <3>4. HasCredentials => HasCredentials'
      BY <3>1 DEF HasCredentials
    <3> QED
      BY <3>1, <3>2, <3>3, <3>4 DEF CredInv
  <2>6. CASE NothingToMaterialize(c) \/ Configure(c) \/ Spawn(c) \/ InitializeSent(c) \/ Initialized(c)
    <3>1. call[c].pc \in Connecting /\ call'[c].pc \in Connecting
      BY <2>6 DEF NothingToMaterialize, Configure, Spawn, InitializeSent, Initialized, GoTo, TypeOK, At,
               Connecting
    <3>2. \A d \in Callers : (Working(d)' <=> Working(d)) /\ (At(d, "cleanup")' => At(d, "cleanup"))
      BY <2>2, <3>1 DEF Working, At, Connecting
    <3>3. client'.dir = client.dir /\ client'.connected = client.connected
      BY <2>6 DEF NothingToMaterialize, Configure, Spawn, InitializeSent, Initialized, TypeOK
    <3>4. UNCHANGED <<attempts, failed, dirs, authed>>
      BY <2>6 DEF NothingToMaterialize, Configure, Spawn, InitializeSent, Initialized
    <3> QED
      BY <3>2, <3>3, <3>4, CredKept
  <2>7. CASE CloseQuery(c)
    <3>1. /\ UNCHANGED <<attempts, failed, dirs, authed>> /\ client.connected
          /\ client'.dir = client.dir /\ ~Working(c) /\ ~Working(c)'
      BY <2>7 DEF CloseQuery, GoTo, TypeOK, At, Working, Connecting
    <3>2. \A d \in Callers : Working(d)' <=> Working(d)
      BY <2>2, <3>1 DEF Working
    <3>3. Failing' <=> Failing
      BY <3>1, <3>2 DEF Failing
    <3> QED
      BY <3>1, <3>2, <3>3 DEF CredInv, HasCredentials
  <2> QED
    BY <1>3, <2>4, <2>5, <2>6, <2>7 DEF Continues
<1>4. ASSUME NEW c \in Callers, Returns(c) PROVE CredInv'
  <2>1. call'[c].pc = "idle" /\ \A d \in Callers : d # c => call'[d] = call[d]
    BY <1>4, ReturnsReturn, ReturnEffect
  <2>2. ~Working(c)' /\ ~At(c, "cleanup")' /\ \A d \in Callers : d # c => (Working(d)' <=> Working(d))
        /\ \A e \in Callers : At(e, "cleanup")' => At(e, "cleanup")
    BY <2>1 DEF Working, At, Connecting
  <2>3. ASSUME Working(c) \/ At(c, "cleanup")
        PROVE  ~client.connected /\ \A d \in Callers : d # c => ~Working(d) /\ ~At(d, "cleanup")
    BY <2>3, Alone DEF Holds, Working, At, DownWhileConnecting
  <2>4. CASE MaterializeFails(c) \/ ConfigureRefuses(c) \/ SpawnFails(c) \/ HandshakeFails(c)
    <3>1. Working(c) /\ failed' = failed \cup {attempts} /\ UNCHANGED <<client, attempts, dirs, authed>>
      BY <2>4 DEF MaterializeFails, ConfigureRefuses, SpawnFails, HandshakeFails, FailAttempt,
           Shaking, Working, At, Connecting
    <3>2. failed' \subseteq 1..attempts
      BY <1>0, <3>1 DEF CredInv
    <3>3. ~client'.connected /\ \A d \in Callers : ~Working(d)' /\ ~At(d, "cleanup")'
      BY <2>2, <2>3, <3>1
    <3>4. Failing' => Failing
      BY <3>1, <3>3 DEF Failing
    <3> QED
      BY <3>1, <3>2, <3>3, <3>4 DEF CredInv, HasCredentials
  <2>5. CASE Connected(c) \/ CleanUp(c)
    <3>1. Working(c) \/ At(c, "cleanup")
      BY <2>5 DEF Connected, CleanUp, Working, At, Connecting
    <3>2. UNCHANGED <<attempts, failed>> /\ attempts >= 1 /\ attempts \notin failed
      BY <2>5, <3>1 DEF Connected, CleanUp, CredInv
    <3>3. \A d \in Callers : ~Working(d)'
      BY <2>2, <2>3, <3>1
    <3>4. ~Failing'
      BY <1>0, <3>2, <3>3 DEF Failing
    <3> QED
      BY <3>2, <3>3, <3>4 DEF CredInv
  <2>6. CASE \/ AlreadyConnected(c) \/ NotConnected(c) \/ ReceiveResponse(c) \/ PromptWritten(c)
             \/ PipeFails(c) \/ Answered(c) \/ TimeOut(c) \/ NothingToClose(c)
    <3>1. ~Working(c) /\ UNCHANGED <<client, attempts, failed, dirs, authed>>
      BY <2>6 DEF AlreadyConnected, NotConnected, ReceiveResponse, PromptWritten, Written, PipeFails,
           Answered, TimeOut, NothingToClose, Working, At, Connecting
    <3> QED
      BY <2>2, <3>1, CredKept
  <2> QED
    BY <1>4, <2>4, <2>5, <2>6 DEF Returns
<1>5. ASSUME NEW n \in Attempts, CliExits(n) PROVE CredInv'
  BY <1>5, CredKept DEF CliExits, Working, At
<1>6. CASE UNCHANGED vars
  BY <1>6, CredKept DEF vars, Working, At
<1> QED
  BY <1>1, <1>2, <1>3, <1>4, <1>5, <1>6, StepKinds

(* ---- the theorems ---- *)

\* The invariant holds of every execution of the client.
THEOREM ClientInvariance == Spec => []Inv
<1>1. Init => Inv
  <2> SUFFICES ASSUME Init PROVE Inv
    OBVIOUS
  <2>1. LockInv /\ DownWhileConnecting /\ CallsUseTheirConnection /\ NoStrayProcess
    BY DEF Init, LockInv, Holds, Reads, At, Connecting, DownWhileConnecting,
           CallsUseTheirConnection, NoStrayProcess
  <2> QED
    BY <2>1, TypeInit DEF Inv
<1>2. Inv /\ [Next]_vars => Inv'
  BY TypeNext, LockNext, UnderWayNext, CallsNext, StrayNext DEF Inv
<1> QED
  BY <1>1, <1>2, PTL DEF Spec

\* The lock, the calls and the client's fields keep their types.
THEOREM TypeCorrect == Spec => []TypeOK
BY ClientInvariance, PTL DEF Inv

\* What is being written, or waits for the CLI, is with the query of the connection
\* there is, for any number of callers and of connections made and closed: Close and
\* Connect never run beside it (client.go:361-394, 480-488, 690-702).
THEOREM CallsStayWithTheirConnection == Spec => []CallsUseTheirConnection
BY ClientInvariance, PTL DEF Inv

\* However Connect fails, no CLI process runs outside a connection
\* (client.go:135-137, 305-334).
THEOREM NoProcessStrays == Spec => []NoStrayProcess
BY ClientInvariance, PTL DEF Inv

\* The attempts' invariant, joined to that of the client.
THEOREM CredentialInvariance == Spec => [](Inv /\ CredInv)
<1>1. Init => CredInv
  BY DEF Init, CredInv, Working, At, Connecting, HasCredentials
<1>2. Inv /\ CredInv /\ [Next]_vars => CredInv'
  BY CredNext DEF Inv
<1> QED
  BY <1>1, <1>2, ClientInvariance, PTL DEF Spec

\* However often Connect failed, and at whatever step, the next attempt starts the CLI with
\* no directory or with one that is there and holds the credentials (client.go:66-75,
\* session_resume.go:266-284).
THEOREM RetriesKeepCredentials == Spec => []RetryKeepsCredentials
<1>1. Inv /\ CredInv => RetryKeepsCredentials
  <2> SUFFICES ASSUME Inv, CredInv, NEW c \in Callers, At(c, "spawn"),
                      \A n \in 1..(attempts - 1) : n \in failed
               PROVE  HasCredentials
    BY DEF RetryKeepsCredentials, HasCredentials
  <2>1. Working(c) /\ attempts \in Nat
    BY DEF Working, At, Connecting, Inv, TypeOK
  <2>2. Failing
    BY <2>1 DEF Failing
  <2> QED
    BY <2>2 DEF CredInv
<1> QED
  BY <1>1, CredentialInvariance, PTL

-----------------------------------------------------------------------------
(* ---- McpBridge ---- *)

Early == {"idle", "dispatch", "choose", "handle"}

\* The types, with what each place in the program knows of them.
BridgeTypeInv ==
  /\ BridgeTypeOK
  /\ \A m \in Messages :
       /\ pc[m] \notin {"idle", "dispatch"} => bridgeOf[m] \in Bridges
       /\ pc[m] \in {"handle", "write", "wait"} => on[m] \in Messages
  /\ closer.pc = "bridge" => closer.bridge \in Bridges
  /\ closer.pc \in {"session", "grace"} => closer.session \in Messages

LEMMA AnswerTypes ==
  /\ \A k \in Answers : Says(k) \in [kind : Answers \cup {"none", "reply"}, of : Messages \cup {NoOne}]
  /\ \A m \in Messages : Reply(m) \in [kind : Answers \cup {"none", "reply"}, of : Messages \cup {NoOne}]
  BY DEF Says, Reply

LEMMA BridgeTypeInit == BridgeInit => BridgeTypeInv
<1> SUFFICES ASSUME BridgeInit PROVE BridgeTypeInv
  OBVIOUS
<1>1. (CHOOSE i \in Ids : TRUE) \in Ids
  BY BridgeAssumption
<1>2. msg \in [Messages -> [kind : Kinds, id : Ids]]
  BY <1>1 DEF BridgeInit, Kinds
<1>3. Unanswered \in [kind : Answers \cup {"none", "reply"}, of : Messages \cup {NoOne}]
  BY DEF Unanswered
<1>4. closer \in [pc : {"idle", "drop", "bridge", "session", "grace", "done"},
                  bridge : Bridges \cup {NoBridge}, session : Messages \cup {NoOne}]
  BY DEF BridgeInit
<1> QED
  BY <1>2, <1>3, <1>4 DEF BridgeInit, BridgeTypeInv, BridgeTypeOK

LEMMA BridgeTypeNext == BridgeTypeInv /\ [BridgeNext]_allVars => BridgeTypeInv'
<1> SUFFICES ASSUME BridgeTypeInv, [BridgeNext]_allVars PROVE BridgeTypeInv'
  OBVIOUS
<1> USE DEF messageVars, bridgeVars, sessionVars, serverVars, BridgeTypeInv, BridgeTypeOK
<1>1. ASSUME NEW m \in Messages, NEW kind \in Kinds, NEW id \in Ids, Arrives(m, kind, id)
      PROVE  BridgeTypeInv'
  <2>1. msg' \in [Messages -> [kind : Kinds, id : Ids]]
    BY <1>1 DEF Arrives
  <2> QED
    BY <1>1, <2>1 DEF Arrives
<1>2. ASSUME NEW m \in Messages, BridgeForServer(m) PROVE BridgeTypeInv'
  BY <1>2 DEF BridgeForServer, Bridges
<1>3. ASSUME NEW m \in Messages, ChooseSession(m) PROVE BridgeTypeInv'
  <2>1. bridgeOf[m] \in Bridges /\ current[bridgeOf[m]] \in Messages \cup {NoOne}
    BY <1>3 DEF ChooseSession
  <2>2. /\ on' \in [Messages -> Messages \cup {NoOne}] /\ on'[m] \in Messages
        /\ \A n \in Messages : n # m => on'[n] = on[n]
    <3>1. PICK s \in Messages : on' = [on EXCEPT ![m] = s]
      BY <1>3, <2>1 DEF ChooseSession
    <3> QED
      BY <3>1
  <2>3. /\ current' \in [Bridges -> Messages \cup {NoOne}]
        /\ owner' \in [Messages -> Bridges \cup {NoBridge}]
        /\ \A set \in {serving', cancelled', reading'} : set \subseteq Messages
    <3>1. CASE StartSession(m) /\ cancelled' = cancelled \cup ({current[bridgeOf[m]]} \ {NoOne})
      BY <2>1, <3>1 DEF StartSession
    <3>2. CASE UNCHANGED <<current, owner, serving, reading, cancelled>>
      BY <3>2
    <3> QED
      BY <1>3, <3>1, <3>2 DEF ChooseSession
  <2>4. /\ pc[m] = "choose" /\ pc' = [pc EXCEPT ![m] = "handle"]
        /\ UNCHANGED <<msg, bridgeOf, answer, pending, registry, closed, done, cached, greeted,
                       running, closer>>
    BY <1>3 DEF ChooseSession
  <2> QED
    BY <2>1, <2>2, <2>3, <2>4
<1>4. ASSUME NEW m \in Messages, RefuseSession(m) \/ AnswerFromCache(m) \/ RefuseDuplicate(m) \/ WriteFails(m)
      PROVE  BridgeTypeInv'
  <2>1. PICK k \in Answers : Concludes(m, Says(k))
    BY <1>4 DEF RefuseSession, AnswerFromCache, RefuseDuplicate, WriteFails, Answers
  <2>2. answer' \in [Messages -> [kind : Answers \cup {"none", "reply"}, of : Messages \cup {NoOne}]]
    BY <2>1, AnswerTypes DEF Concludes
  <2>3. pc' = [pc EXCEPT ![m] = "done"] /\ pc[m] \notin {"idle", "dispatch"}
    BY <1>4, <2>1 DEF Concludes, RefuseSession, AnswerFromCache, RefuseDuplicate, WriteFails
  <2>4. /\ UNCHANGED <<msg, bridgeOf, on, bridgeVars, sessionVars, serverVars, closer>>
        /\ pending' \subseteq pending
    BY <1>4 DEF RefuseSession, AnswerFromCache, RefuseDuplicate, WriteFails
  <2> QED
    BY <2>2, <2>3, <2>4
<1>5. ASSUME NEW m \in Messages, CancelPending(m) PROVE BridgeTypeInv'
  <2>1. answer' \in [Messages -> [kind : Answers \cup {"none", "reply"}, of : Messages \cup {NoOne}]]
    BY <1>5, AnswerTypes DEF CancelPending, Answers
  <2> QED
    BY <1>5, <2>1 DEF CancelPending
<1>6. ASSUME NEW m \in Messages, Register(m) \/ Write(m) \/ Wake(m) PROVE BridgeTypeInv'
  BY <1>6, SMTT(60) DEF Register, Write, Wake
<1>7. ASSUME NEW m \in Messages, Respond(m) PROVE BridgeTypeInv'
  BY <1>7, AnswerTypes DEF Respond, Settle
<1>8. ASSUME NEW s \in Messages, ReaderEnds(s) PROVE BridgeTypeInv'
  BY <1>8, AnswerTypes DEF ReaderEnds, Settle, Answers
<1>9. ASSUME NEW s \in Messages, ServerStops(s) \/ WindsDown(s) PROVE BridgeTypeInv'
  BY <1>9 DEF ServerStops, WindsDown
<1>10. CASE StartClose \/ SessionDone
  BY <1>10, SMTT(60) DEF StartClose, SessionDone
<1>11. CASE DropBridges
  BY <1>11 DEF DropBridges
<1>12. CASE CloseBridge
  BY <1>12 DEF CloseBridge
<1>13. CASE CloseSession
  <2>1. closer.pc = "session" /\ closer' = [closer EXCEPT !.pc = "grace"]
    BY <1>13 DEF CloseSession
  <2>2. /\ closer' \in [pc : {"idle", "drop", "bridge", "session", "grace", "done"},
                        bridge : Bridges \cup {NoBridge}, session : Messages \cup {NoOne}]
        /\ closer'.pc = "grace" /\ closer'.session \in Messages
    BY <2>1
  <2>3. cancelled' \subseteq Messages
    BY <1>13, <2>1 DEF CloseSession
  <2> QED
    BY <1>13, <2>2, <2>3 DEF CloseSession
<1>14. CASE GraceExpires
  <2>1. answer' \in [Messages -> [kind : Answers \cup {"none", "reply"}, of : Messages \cup {NoOne}]]
    BY <1>14, AnswerTypes DEF GraceExpires, Settle, Answers
  <2>2. closer' \in [pc : {"idle", "drop", "bridge", "session", "grace", "done"},
                     bridge : Bridges \cup {NoBridge}, session : Messages \cup {NoOne}]
    BY <1>14 DEF GraceExpires
  <2> QED
    BY <1>14, <2>1, <2>2 DEF GraceExpires
<1>15. CASE Terminated \/ UNCHANGED allVars
  BY <1>15 DEF Terminated, allVars
<1> QED
  BY <1>1, <1>2, <1>3, <1>4, <1>5, <1>6, <1>7, <1>8, <1>9, <1>10, <1>11, <1>12, <1>13, <1>14, <1>15
     DEF BridgeNext, HandleStep, CloserStep

\* The types, with what each place in the program knows of them.
THEOREM BridgeTypeInvariance == BridgeSpec => []BridgeTypeInv
  BY BridgeTypeInit, BridgeTypeNext, PTL DEF BridgeSpec

\* Type correctness of the bridge, its sessions and the messages.
THEOREM BridgeTypes == BridgeSpec => []BridgeTypeOK
<1>1. BridgeTypeInv => BridgeTypeOK
  BY DEF BridgeTypeInv
<1> QED
  BY <1>1, BridgeTypeInvariance, PTL

\* The waiters.
WaitInv ==
  /\ pc \in [Messages -> Early \cup {"write", "wait", "done"}]
  /\ msg \in [Messages -> [kind : Kinds, id : Ids]]
  /\ on \in [Messages -> Messages \cup {NoOne}]
  /\ answer \in [Messages -> [kind : Answers \cup {"none", "reply"}, of : Messages \cup {NoOne}]]
  /\ pending \subseteq Messages
  /\ \A s \in Messages : Reachable(s) => s \in reading
  /\ \A m \in Messages :
       /\ pc[m] \in Early => answer[m] = Unanswered
       /\ pc[m] \in {"write", "wait"} /\ answer[m] = Unanswered => m \in pending
       /\ pc[m] \in {"handle", "write", "wait"} => on[m] \in Messages
  /\ NobodyWaitsOnTheDead
  /\ PendingIsUnsettled

LEMMA AnswersDiffer ==
  /\ \A k \in Answers : Says(k) # Unanswered
                     /\ Says(k) \in [kind : Answers \cup {"none", "reply"}, of : Messages \cup {NoOne}]
  /\ \A m \in Messages : Reply(m) # Unanswered
                      /\ Reply(m) \in [kind : Answers \cup {"none", "reply"}, of : Messages \cup {NoOne}]
<1>1. \A k \in Answers : Says(k).kind # Unanswered.kind
  BY DEF Says, Unanswered, Answers
<1>2. \A m \in Messages : Reply(m).kind # Unanswered.kind
  BY DEF Reply, Unanswered
<1> QED
  BY <1>1, <1>2 DEF Says, Reply, Answers

LEMMA WaitInit == BridgeInit => WaitInv
<1> SUFFICES ASSUME BridgeInit PROVE WaitInv
  OBVIOUS
<1>1. (CHOOSE i \in Ids : TRUE) \in Ids
  BY BridgeAssumption
<1>2. msg \in [Messages -> [kind : Kinds, id : Ids]]
  BY <1>1 DEF BridgeInit, Kinds
<1>3. Unanswered \in [kind : Answers \cup {"none", "reply"}, of : Messages \cup {NoOne}]
  BY DEF Unanswered
<1>4. /\ \A m \in Messages : pc[m] = "idle" /\ on[m] = NoOne /\ answer[m] = Unanswered
      /\ pending = {} /\ serving = {}
  BY DEF BridgeInit
<1>5. /\ pc \in [Messages -> Early \cup {"write", "wait", "done"}]
      /\ on \in [Messages -> Messages \cup {NoOne}]
      /\ answer \in [Messages -> [kind : Answers \cup {"none", "reply"}, of : Messages \cup {NoOne}]]
  BY <1>3 DEF BridgeInit, Early
<1> QED
  BY <1>2, <1>4, <1>5 DEF WaitInv, Reachable, NobodyWaitsOnTheDead, PendingIsUnsettled

LEMMA WaitNext == BridgeTypeInv /\ WaitInv /\ [BridgeNext]_allVars => WaitInv'
<1> SUFFICES ASSUME BridgeTypeInv, WaitInv, [BridgeNext]_allVars PROVE WaitInv'
  OBVIOUS
<1> USE DEF messageVars, bridgeVars, sessionVars, serverVars, Early
<1>1. ASSUME NEW m \in Messages, NEW kind \in Kinds, NEW id \in Ids, Arrives(m, kind, id)
      PROVE  WaitInv'
  <2>1. msg' \in [Messages -> [kind : Kinds, id : Ids]]
    BY <1>1 DEF Arrives, WaitInv
  <2>2. m \notin pending
    BY <1>1 DEF Arrives, WaitInv, PendingIsUnsettled
  <2> QED
    BY <1>1, <2>1, <2>2 DEF Arrives, WaitInv, Reachable, NobodyWaitsOnTheDead, PendingIsUnsettled
<1>2. ASSUME NEW m \in Messages, BridgeForServer(m) PROVE WaitInv'
  BY <1>2 DEF BridgeForServer, WaitInv, Reachable, NobodyWaitsOnTheDead, PendingIsUnsettled
<1>3. ASSUME NEW m \in Messages, ChooseSession(m) PROVE WaitInv'
  <2>1. /\ pc[m] = "choose" /\ pc' = [pc EXCEPT ![m] = "handle"]
        /\ on' \in [Messages -> Messages \cup {NoOne}] /\ on'[m] \in Messages
        /\ \A n \in Messages : n # m => on'[n] = on[n]
        /\ msg' = msg /\ answer' = answer /\ pending' = pending
        /\ reading \subseteq reading'
        /\ \A s \in Messages : Reachable(s)' => Reachable(s) \/ s \in reading'
    <3>1. bridgeOf[m] \in Bridges /\ current[bridgeOf[m]] \in Messages \cup {NoOne}
      BY <1>3 DEF ChooseSession, BridgeTypeInv, BridgeTypeOK
    <3>2. /\ on' \in [Messages -> Messages \cup {NoOne}] /\ on'[m] \in Messages
          /\ \A n \in Messages : n # m => on'[n] = on[n]
      <4>1. PICK s \in Messages : on' = [on EXCEPT ![m] = s]
        BY <1>3, <3>1 DEF ChooseSession
      <4> QED
        BY <4>1 DEF WaitInv
    <3>3. \/ serving' = serving \cup {m} /\ reading' = reading \cup {m} /\ cancelled \subseteq cancelled'
          \/ UNCHANGED <<serving, reading, cancelled>>
      BY <1>3 DEF ChooseSession, StartSession
    <3>4. /\ reading \subseteq reading'
          /\ \A s \in Messages : Reachable(s)' => Reachable(s) \/ s \in reading'
      BY <3>3 DEF Reachable
    <3> QED
      BY <1>3, <3>2, <3>4 DEF ChooseSession
  <2>2. m \notin pending
    BY <2>1 DEF WaitInv, PendingIsUnsettled
  <2> QED
    BY <2>1, <2>2 DEF WaitInv, NobodyWaitsOnTheDead, PendingIsUnsettled
<1>4. ASSUME NEW m \in Messages, NEW k \in Answers, pc[m] \in Early \cup {"write"},
             Concludes(m, Says(k)), pending' = pending \ {m},
             UNCHANGED <<msg, on, serving, cancelled, reading>>
      PROVE  WaitInv'
  BY <1>4, AnswersDiffer DEF Concludes, WaitInv, Reachable, NobodyWaitsOnTheDead, PendingIsUnsettled
<1>5. ASSUME NEW m \in Messages,
             RefuseSession(m) \/ AnswerFromCache(m) \/ RefuseDuplicate(m) \/ WriteFails(m)
      PROVE  WaitInv'
  <2>1. m \in pending => pc[m] \in {"write", "wait"}
    BY DEF WaitInv, PendingIsUnsettled
  <2> QED
    BY <1>4, <1>5, <2>1 DEF RefuseSession, AnswerFromCache, RefuseDuplicate, WriteFails, Answers
<1>6. ASSUME NEW m \in Messages, CancelPending(m) PROVE WaitInv'
  <2> DEFINE named == Waiting(on[m], msg[m].id)
  <2>1. /\ pc[m] = "handle" /\ pc' = [pc EXCEPT ![m] = "done"]
        /\ pending' = pending \ named
        /\ answer' = [n \in Messages |-> IF n \in named THEN Says("cancelled")
                                         ELSE IF n = m THEN Says("acked") ELSE answer[n]]
        /\ UNCHANGED <<msg, on, serving, cancelled, reading>>
    BY <1>6 DEF CancelPending
  <2>2. named \subseteq pending
    BY DEF Waiting
  <2>3. /\ Says("cancelled") # Unanswered /\ Says("acked") # Unanswered
        /\ answer' \in [Messages -> [kind : Answers \cup {"none", "reply"}, of : Messages \cup {NoOne}]]
    BY <2>1, AnswersDiffer DEF WaitInv, Answers
  <2> HIDE DEF named
  <2> QED
    BY <2>1, <2>2, <2>3 DEF WaitInv, Reachable, NobodyWaitsOnTheDead, PendingIsUnsettled
<1>7. ASSUME NEW m \in Messages, Register(m) PROVE WaitInv'
  BY <1>7 DEF Register, Waiting, WaitInv, Reachable, NobodyWaitsOnTheDead, PendingIsUnsettled
<1>8. ASSUME NEW m \in Messages, Write(m) PROVE WaitInv'
  BY <1>8 DEF Write, WaitInv, Reachable, NobodyWaitsOnTheDead, PendingIsUnsettled
<1>9. ASSUME NEW m \in Messages, Wake(m) PROVE WaitInv'
  BY <1>9 DEF Wake, WaitInv, Reachable, NobodyWaitsOnTheDead, PendingIsUnsettled
\* Settling any part of the table, and taking it out.
<1>10. ASSUME NEW waiting \in SUBSET pending, NEW a, a # Unanswered,
              a \in [kind : Answers \cup {"none", "reply"}, of : Messages \cup {NoOne}],
              pending' = pending \ waiting, Settle(waiting, a),
              UNCHANGED <<pc, msg, on, serving, cancelled>>,
              \A m \in pending \ waiting : on[m] \in reading => on[m] \in reading',
              \A s \in Messages : Reachable(s) /\ s \in reading => s \in reading'
       PROVE  WaitInv'
  BY <1>10 DEF Settle, WaitInv, Reachable, NobodyWaitsOnTheDead, PendingIsUnsettled
<1>11. ASSUME NEW m \in Messages, Respond(m) PROVE WaitInv'
  <2> DEFINE waiting == IF on[m] \in reading THEN Waiting(on[m], msg[m].id) ELSE {}
  <2>1. /\ pending' = pending \ waiting /\ Settle(waiting, Reply(m))
        /\ UNCHANGED <<pc, msg, on, serving, cancelled, reading>>
    BY <1>11 DEF Respond
  <2>2. waiting \in SUBSET pending
    BY DEF Waiting
  <2> HIDE DEF waiting
  <2> QED
    BY <1>10, <2>1, <2>2, AnswersDiffer
<1>12. ASSUME NEW s \in Messages, ReaderEnds(s) PROVE WaitInv'
  <2> DEFINE waiting == {m \in pending : on[m] = s}
  <2>1. /\ ~Reachable(s) /\ reading' = reading \ {s}
        /\ pending' = pending \ waiting /\ Settle(waiting, Says("closed"))
        /\ UNCHANGED <<pc, msg, on, serving, cancelled>>
    BY <1>12 DEF ReaderEnds
  <2>2. waiting \in SUBSET pending /\ \A m \in pending \ waiting : on[m] # s
    OBVIOUS
  <2>3. Says("closed") # Unanswered
        /\ Says("closed") \in [kind : Answers \cup {"none", "reply"}, of : Messages \cup {NoOne}]
    BY AnswersDiffer DEF Answers
  <2> HIDE DEF waiting
  <2> QED
    BY <1>10, <2>1, <2>2, <2>3
<1>13. CASE GraceExpires
  <2> DEFINE waiting == {m \in pending : on[m] = closer.session}
  <2>1. /\ pending' = pending \ waiting /\ Settle(waiting, Says("closed"))
        /\ UNCHANGED <<pc, msg, on, serving, cancelled, reading>>
    BY <1>13 DEF GraceExpires
  <2>2. waiting \in SUBSET pending
    OBVIOUS
  <2>3. Says("closed") # Unanswered
        /\ Says("closed") \in [kind : Answers \cup {"none", "reply"}, of : Messages \cup {NoOne}]
    BY AnswersDiffer DEF Answers
  <2> HIDE DEF waiting
  <2> QED
    BY <1>10, <2>1, <2>2, <2>3
\* Steps that touch neither messages nor readers.
<1>14. ASSUME UNCHANGED <<pc, msg, on, answer, pending, reading>>,
              \A s \in Messages : Reachable(s)' => Reachable(s)
       PROVE  WaitInv'
  BY <1>14 DEF WaitInv, NobodyWaitsOnTheDead, PendingIsUnsettled
<1>15. ASSUME NEW s \in Messages, ServerStops(s) \/ WindsDown(s) PROVE WaitInv'
  BY <1>14, <1>15 DEF ServerStops, WindsDown, Reachable
<1>16. CASE StartClose \/ DropBridges \/ CloseBridge \/ CloseSession \/ SessionDone
  BY <1>14, <1>16 DEF StartClose, DropBridges, CloseBridge, CloseSession, SessionDone, Reachable
<1>17. CASE Terminated \/ UNCHANGED allVars
  BY <1>14, <1>17 DEF Terminated, allVars, Reachable
<1> QED
  BY <1>1, <1>2, <1>3, <1>5, <1>6, <1>7, <1>8, <1>9, <1>11, <1>12, <1>13, <1>15, <1>16, <1>17
     DEF BridgeNext, HandleStep, CloserStep

\* The inductive invariant of the waiters (sdk_mcp_bridge.go:218-257, 362-597).
THEOREM WaitInvariance == BridgeSpec => []WaitInv
  BY BridgeTypeInvariance, WaitInit, WaitNext, PTL DEF BridgeSpec

\* Every message whose answer is still to come is in the table of a session that
\* is being read (sdk_mcp_bridge.go:362-375, 518-522).
THEOREM NoneWaitsOnTheDead == BridgeSpec => []NobodyWaitsOnTheDead
<1>1. WaitInv => NobodyWaitsOnTheDead
  BY DEF WaitInv
<1> QED
  BY <1>1, WaitInvariance, PTL

\* The table holds unsettled messages, each id once for a session
\* (sdk_mcp_bridge.go:499-510).
THEOREM PendingUnsettled == BridgeSpec => []PendingIsUnsettled
<1>1. WaitInv => PendingIsUnsettled
  BY DEF WaitInv
<1> QED
  BY <1>1, WaitInvariance, PTL

\* A bridge that is not closed knows its last session, the only one that may
\* still be running; and only a message past the choice has started one.
SessionInv ==
  /\ \A s \in Messages : owner[s] # NoBridge =>
       /\ pc[s] \notin {"idle", "dispatch", "choose"}
       /\ s \in done \/ owner[s] \in closed \/ current[owner[s]] = s
  /\ OneSessionAtATime

LEMMA SessionInit == BridgeInit => SessionInv
  BY DEF BridgeInit, SessionInv, OneSessionAtATime

LEMMA SessionNext == BridgeTypeInv /\ SessionInv /\ [BridgeNext]_allVars => SessionInv'
<1> SUFFICES ASSUME BridgeTypeInv, SessionInv, [BridgeNext]_allVars PROVE SessionInv'
  OBVIOUS
<1> USE DEF messageVars, bridgeVars, sessionVars, serverVars
<1>1. ASSUME NEW m \in Messages, ChooseSession(m) PROVE SessionInv'
  <2>1. /\ pc[m] = "choose" /\ pc' = [pc EXCEPT ![m] = "handle"]
        /\ bridgeOf[m] \in Bridges \ closed
        /\ done' = done /\ closed' = closed
    BY <1>1 DEF ChooseSession, BridgeTypeInv
  <2>2. CASE UNCHANGED <<current, owner>>
    BY <2>1, <2>2 DEF SessionInv, OneSessionAtATime, BridgeTypeInv, BridgeTypeOK
  <2>3. CASE StartSession(m) /\ current[bridgeOf[m]] \in done \cup {NoOne}
    <3>1. /\ current' = [current EXCEPT ![bridgeOf[m]] = m]
          /\ owner' = [owner EXCEPT ![m] = bridgeOf[m]]
          /\ current \in [Bridges -> Messages \cup {NoOne}]
          /\ owner \in [Messages -> Bridges \cup {NoBridge}]
          /\ pc \in [Messages -> {"idle", "dispatch", "choose", "handle", "write", "wait", "done"}]
      BY <2>3 DEF StartSession, BridgeTypeInv, BridgeTypeOK
    <3>2. \A s \in Messages : owner[s] = bridgeOf[m] => s \in done
      BY <2>1, <2>3 DEF SessionInv, NoOne, Messages, Bridges, NoBridge
    <3> QED
      BY <2>1, <3>1, <3>2 DEF SessionInv, OneSessionAtATime
  <2> QED
    BY <1>1, <2>2, <2>3 DEF ChooseSession
\* Steps that start no session only take a message further or end a session.
<1>2. ASSUME UNCHANGED <<owner, current>>, done \subseteq done', closed \subseteq closed',
             \A s \in Messages : pc[s] \notin {"idle", "dispatch", "choose"}
                                 => pc'[s] \notin {"idle", "dispatch", "choose"}
      PROVE  SessionInv'
  BY <1>2 DEF SessionInv, OneSessionAtATime
<1>3. ASSUME NEW m \in Messages, NEW p, UNCHANGED <<owner, current, done, closed>>,
             pc' = [pc EXCEPT ![m] = p],
             p \in {"handle", "write", "wait", "done"} \/ pc[m] \in {"idle", "dispatch", "choose"}
      PROVE  SessionInv'
  BY <1>2, <1>3 DEF BridgeTypeInv, BridgeTypeOK
<1>4. ASSUME NEW m \in Messages, NEW kind \in Kinds, NEW id \in Ids, Arrives(m, kind, id)
      PROVE  SessionInv'
  BY <1>3, <1>4 DEF Arrives
<1>5. ASSUME NEW m \in Messages, BridgeForServer(m) PROVE SessionInv'
  BY <1>3, <1>5 DEF BridgeForServer
<1>6. ASSUME NEW m \in Messages,
             \/ RefuseSession(m) \/ AnswerFromCache(m) \/ CancelPending(m) \/ Register(m)
             \/ RefuseDuplicate(m) \/ Write(m) \/ WriteFails(m) \/ Wake(m)
      PROVE  SessionInv'
  <2>1. \E p \in {"handle", "write", "wait", "done"} : pc' = [pc EXCEPT ![m] = p]
    BY <1>6 DEF RefuseSession, AnswerFromCache, CancelPending, Register, RefuseDuplicate,
                Write, WriteFails, Wake, Concludes
  <2>2. UNCHANGED <<owner, current, done, closed>>
    BY <1>6 DEF RefuseSession, AnswerFromCache, CancelPending, Register, RefuseDuplicate,
                Write, WriteFails, Wake
  <2> QED
    BY <1>3, <2>1, <2>2
<1>7. ASSUME NEW m \in Messages,
             Respond(m) \/ ReaderEnds(m) \/ WindsDown(m) \/ ServerStops(m)
      PROVE  SessionInv'
  BY <1>2, <1>7 DEF Respond, ReaderEnds, WindsDown, ServerStops
<1>8. CASE CloseBridge
  <2>1. /\ closed' = closed \cup {closer.bridge}
        /\ current' = [current EXCEPT ![closer.bridge] = NoOne]
        /\ UNCHANGED <<pc, owner, done>>
    BY <1>8 DEF CloseBridge
  <2>2. \A s \in Messages : owner[s] # NoBridge =>
           owner[s] \in closed' \/ current'[owner[s]] = current[owner[s]]
    BY <2>1 DEF BridgeTypeInv, BridgeTypeOK
  <2> QED
    BY <2>1, <2>2 DEF SessionInv, OneSessionAtATime
<1>9. CASE StartClose \/ DropBridges \/ CloseSession \/ SessionDone \/ GraceExpires
  BY <1>2, <1>9 DEF StartClose, DropBridges, CloseSession, SessionDone, GraceExpires
<1>10. CASE Terminated \/ UNCHANGED allVars
  BY <1>2, <1>10 DEF Terminated, allVars
<1> QED
  BY <1>1, <1>4, <1>5, <1>6, <1>7, <1>8, <1>9, <1>10 DEF BridgeNext, HandleStep, CloserStep

\* A bridge "runs one session at a time" (sdk_mcp_bridge.go:178-179), whatever
\* the CLI sends and however the sessions end.
THEOREM OneSession == BridgeSpec => []OneSessionAtATime
<1>1. SessionInv => OneSessionAtATime
  BY DEF SessionInv
<1> QED
  BY <1>1, BridgeTypeInvariance, SessionInit, SessionNext, PTL DEF BridgeSpec
=============================================================================
