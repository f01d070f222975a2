-------------------------- MODULE ClientLifecycle --------------------------
(***************************************************************************)
(* ClaudeSDKClient (client.go): its lock, the steps of Connect with their  *)
(* failures, the calls that talk to the CLI, Close, and what a connection  *)
(* leaves in the world: a CLI process, a mirror worker, a directory.       *)
(*                                                                         *)
(* A connection is named by the attempt that made it, and so are its       *)
(* worker and its directory.  What flows through a connection is the       *)
(* subject of ControlProtocol; how Query.Close ends it is that of the      *)
(* modules below.  What matters here is that a call may be held up: in a   *)
(* write, while the stdin pipe is full, whatever its context says, and     *)
(* while it waits for the CLI's answer, as long as its context says.       *)
(* Options that no Connect accepts are left out, and so are processes that *)
(* no call of the client started.                                          *)
(***************************************************************************)
EXTENDS Naturals, FiniteSets

CONSTANTS
  Callers,      \* goroutines of the application, among them callbacks of the SDK
  MaxAttempts   \* bound: calls of Connect

ASSUME ClientAssumption ==
  /\ IsFiniteSet(Callers)
  /\ MaxAttempts \in Nat

Attempts == 1..MaxAttempts
None     == 0
Nobody   == "nobody"

ASSUME NobodyAssumption == Nobody \notin Callers

Writing == {"connect", "close"}    \* operations that take the lock
Asking  == {"control", "timed"}    \* control calls, the latter with a deadline
Reading == {"receive", "send"} \cup Asking   \* those that take the read lock
Ops     == Writing \cup Reading

VARIABLES
  call,     \* [Callers -> [op, pc, conn]]: conn is the query in use
  readers,  \* c.mu: callers that hold it for reading
  writer,   \* c.mu: the caller that announced itself for writing, or holds it
  client,   \* the fields of the client
  attempts, \* connects begun
  live,     \* CLI processes
  workers,  \* mirror workers
  dirs,     \* materialized directories on disk
  authed,   \* those that were given the caller's credentials
  failed    \* attempts that returned an error

lockVars  == <<readers, writer>>
worldVars == <<live, workers, dirs, authed>>
vars == <<call, readers, writer, client, attempts, live, workers, dirs, authed, failed>>

Init ==
  /\ call = [c \in Callers |-> [op |-> "none", pc |-> "idle", conn |-> None]]
  /\ readers = {} /\ writer = Nobody
  /\ \E canUseTool, store, resumes \in BOOLEAN :
     client = [canUseTool |-> canUseTool, store |-> store, resumes |-> resumes,
               connected |-> FALSE, query |-> None, batcher |-> None, materialized |-> None,
               dir |-> None,           \* options.Env: the materialized CLAUDE_CONFIG_DIR
               permission |-> FALSE]   \* options.PermissionPromptToolName = "stdio"
  /\ attempts = 0
  /\ live = {} /\ workers = {} /\ dirs = {} /\ authed = {}
  /\ failed = {}

(* ---- the lock: a writer that waits keeps new readers out ---- *)

At(c, pc)   == call[c].pc = pc
GoTo(c, pc) == call' = [call EXCEPT ![c].pc = pc]

StartCall(c, op) ==
  /\ At(c, "idle")
  /\ op = "connect" => Cardinality({d \in Callers : call[d].op = "connect"}) + attempts < MaxAttempts
  /\ call' = [call EXCEPT ![c] = [op |-> op, pc |-> "lock", conn |-> None]]
  /\ UNCHANGED <<lockVars, client, attempts, worldVars, failed>>

Announce(c) ==
  /\ At(c, "lock") /\ call[c].op \in Writing
  /\ writer = Nobody
  /\ writer' = c
  /\ GoTo(c, "announced")
  /\ UNCHANGED <<readers, client, attempts, worldVars, failed>>

Acquire_Mutant(c) ==   \* does not wait for the readers
  /\ At(c, "announced")
  /\ GoTo(c, "begin")
  /\ UNCHANGED <<lockVars, client, attempts, worldVars, failed>>

Acquire(c) ==
  /\ At(c, "announced") /\ readers = {}
  /\ GoTo(c, "begin")
  /\ UNCHANGED <<lockVars, client, attempts, worldVars, failed>>

RLock_Mutant(c) ==   \* overtakes a writer that waits
  /\ At(c, "lock") /\ call[c].op \in Reading
  /\ \A d \in Callers : writer = d => At(d, "announced")
  /\ readers' = readers \cup {c}
  /\ GoTo(c, "begin")
  /\ UNCHANGED <<writer, client, attempts, worldVars, failed>>

RLock(c) ==
  /\ At(c, "lock") /\ call[c].op \in Reading
  /\ writer = Nobody
  /\ readers' = readers \cup {c}
  /\ GoTo(c, "begin")
  /\ UNCHANGED <<writer, client, attempts, worldVars, failed>>

\* The deferred unlock.
Return(c) ==
  /\ call' = [call EXCEPT ![c] = [op |-> "none", pc |-> "idle", conn |-> None]]
  /\ readers' = readers \ {c}
  /\ writer' = IF writer = c THEN Nobody ELSE writer

(* ---- Connect ---- *)

AlreadyConnected(c) ==
  /\ At(c, "begin") /\ call[c].op = "connect"
  /\ client.connected
  /\ Return(c)
  /\ UNCHANGED <<client, attempts, worldVars, failed>>

BeginAttempt(c) ==
  /\ At(c, "begin") /\ call[c].op = "connect"
  /\ ~client.connected
  /\ attempts' = attempts + 1
  /\ GoTo(c, IF client.store /\ client.resumes THEN "materialize" ELSE "configure")
  /\ UNCHANGED <<lockVars, client, worldVars, failed>>

FailAttempt(c) ==
  /\ failed' = failed \cup {attempts}
  /\ Return(c)

MaterializeFails(c) ==
  /\ At(c, "materialize")
  /\ FailAttempt(c)
  /\ UNCHANGED <<client, attempts, worldVars>>

\* The store does not have the session: the options stay as they are.
NothingToMaterialize(c) ==
  /\ At(c, "materialize")
  /\ GoTo(c, "configure")
  /\ UNCHANGED <<lockVars, client, attempts, worldVars, failed>>

\* copyAuthFiles copies from the directory the options name, if any.
Materialize(c) ==
  /\ At(c, "materialize")
  /\ dirs' = dirs \cup {attempts}
  /\ authed' = IF client.dir = None \/ client.dir \in dirs \cap authed
               THEN authed \cup {attempts} ELSE authed
  /\ client' = [client EXCEPT !.materialized = attempts, !.dir = attempts]
  /\ GoTo(c, "configure")
  /\ UNCHANGED <<lockVars, attempts, live, workers, failed>>

\* configureCanUseTool refuses a PermissionPromptToolName beside CanUseTool, and
\* sets one itself.
ConfigureRefuses(c) ==
  /\ At(c, "configure")
  /\ client.canUseTool /\ client.permission
  /\ FailAttempt(c)
  /\ UNCHANGED <<client, attempts, worldVars>>

Configure(c) ==
  /\ At(c, "configure")
  /\ ~(client.canUseTool /\ client.permission)
  /\ client' = [client EXCEPT !.permission = client.canUseTool,
                              !.batcher = IF client.store THEN attempts ELSE @]
  /\ workers' = IF client.store THEN workers \cup {attempts} ELSE workers
  /\ GoTo(c, "spawn")
  /\ UNCHANGED <<lockVars, attempts, live, dirs, authed, failed>>

SpawnFails(c) ==
  /\ At(c, "spawn")
  /\ FailAttempt(c)
  /\ UNCHANGED <<client, attempts, worldVars>>

Spawn(c) ==
  /\ At(c, "spawn")
  /\ live' = live \cup {attempts}
  /\ client' = [client EXCEPT !.query = attempts]
  /\ GoTo(c, "initialize")
  /\ UNCHANGED <<lockVars, attempts, workers, dirs, authed, failed>>

\* The initialize request is written, the CLI answers, a string prompt is written.
InitializeSent(c) ==
  /\ At(c, "initialize") /\ client.query \in live
  /\ GoTo(c, "handshake")
  /\ UNCHANGED <<lockVars, client, attempts, worldVars, failed>>

Initialized(c) ==
  /\ At(c, "handshake") /\ client.query \in live
  /\ GoTo(c, "prompt")
  /\ UNCHANGED <<lockVars, client, attempts, worldVars, failed>>

Shaking(c) == At(c, "initialize") \/ At(c, "handshake") \/ At(c, "prompt")

HandshakeFails_Mutant(c) ==   \* forgets the transport
  /\ Shaking(c)
  /\ FailAttempt(c)
  /\ UNCHANGED <<client, attempts, worldVars>>

HandshakeFails_Mutant2(c) ==   \* cleans up, but leaves the options as they are
  /\ Shaking(c)
  /\ live' = live \ {client.query}
  /\ dirs' = dirs \ {client.materialized}
  /\ client' = [client EXCEPT !.materialized = None]
  /\ FailAttempt(c)
  /\ UNCHANGED <<attempts, workers, authed>>

\* A write fails, the CLI refuses, or initializeTimeout is over: the transport is
\* closed, nothing else is.
HandshakeFails(c) ==
  /\ Shaking(c)
  /\ live' = live \ {client.query}
  /\ FailAttempt(c)
  /\ UNCHANGED <<client, attempts, workers, dirs, authed>>

\* With a channel of prompts, or none, nothing more is written.
Connected(c) ==
  /\ At(c, "handshake") \/ At(c, "prompt")
  /\ client.query \in live
  /\ client' = [client EXCEPT !.connected = TRUE]
  /\ Return(c)
  /\ UNCHANGED <<attempts, worldVars, failed>>

ConnectStep(c) ==
  \/ AlreadyConnected(c) \/ BeginAttempt(c)
  \/ MaterializeFails(c) \/ NothingToMaterialize(c) \/ Materialize(c)
  \/ ConfigureRefuses(c) \/ Configure(c)
  \/ SpawnFails(c) \/ Spawn(c)

HandshakeStep(c) ==
  InitializeSent(c) \/ Initialized(c) \/ HandshakeFails(c) \/ Connected(c)

(* ---- calls under the read lock ---- *)

NotConnected(c) ==
  /\ At(c, "begin") /\ call[c].op \in Reading
  /\ ~client.connected
  /\ Return(c)
  /\ UNCHANGED <<client, attempts, worldVars, failed>>

\* ReceiveResponse only starts a goroutine.
ReceiveResponse(c) ==
  /\ At(c, "begin") /\ call[c].op = "receive"
  /\ client.connected
  /\ Return(c)
  /\ UNCHANGED <<client, attempts, worldVars, failed>>

\* Send and Query write a prompt, Interrupt, SetModel and the like a request.
BeginWrite(c) ==
  /\ At(c, "begin") /\ call[c].op \in {"send"} \cup Asking
  /\ client.connected
  /\ call' = [call EXCEPT ![c] = [op |-> call[c].op, pc |-> "write", conn |-> client.query]]
  /\ UNCHANGED <<lockVars, client, attempts, worldVars, failed>>

\* The pipe has taken the line.  A prompt needs no answer; its goroutine, that of
\* Query, is left out.
Written(c) ==
  /\ At(c, "write") /\ call[c].conn \in live
  /\ \/ call[c].op = "send" /\ Return(c)
     \/ call[c].op \in Asking /\ GoTo(c, "await") /\ UNCHANGED lockVars
  /\ UNCHANGED <<client, attempts, worldVars, failed>>

\* A pipe that nobody reads any more fails, and so may any other.
PipeFails(c) ==
  /\ At(c, "write")
  /\ Return(c)
  /\ UNCHANGED <<client, attempts, worldVars, failed>>

\* The read loop hands over the CLI's answer, or an error of the transport's.
Answered(c) ==
  /\ At(c, "await")
  /\ Return(c)
  /\ UNCHANGED <<client, attempts, worldVars, failed>>

TimeOut(c) ==
  /\ At(c, "await") /\ call[c].op = "timed"
  /\ Return(c)
  /\ UNCHANGED <<client, attempts, worldVars, failed>>

(* ---- Close ---- *)

NothingToClose(c) ==
  /\ At(c, "begin") /\ call[c].op = "close"
  /\ ~client.connected
  /\ Return(c)
  /\ UNCHANGED <<client, attempts, worldVars, failed>>

\* Query.Close flushes and closes the batcher, then closes the transport.
CloseQuery(c) ==
  /\ At(c, "begin") /\ call[c].op = "close"
  /\ client.connected
  /\ client' = [client EXCEPT !.connected = FALSE]
  /\ workers' = workers \ {client.batcher}
  /\ live' = live \ {client.query}
  /\ GoTo(c, "cleanup")
  /\ UNCHANGED <<lockVars, attempts, dirs, authed, failed>>

CleanUp(c) ==
  /\ At(c, "cleanup")
  /\ dirs' = dirs \ {client.materialized}
  /\ client' = [client EXCEPT !.batcher = None, !.materialized = None]
  /\ Return(c)
  /\ UNCHANGED <<attempts, live, workers, authed, failed>>

CloseStep(c) == NothingToClose(c) \/ CloseQuery(c) \/ CleanUp(c)

(* ---- the CLI ---- *)

CliExits(n) ==
  /\ n \in live
  /\ live' = live \ {n}
  /\ UNCHANGED <<call, lockVars, client, attempts, workers, dirs, authed, failed>>

-----------------------------------------------------------------------------
CallStep(c) ==
  \/ Acquire(c) \/ ConnectStep(c) \/ CloseStep(c)
  \/ NotConnected(c) \/ ReceiveResponse(c) \/ BeginWrite(c)

Next ==
  \/ \E c \in Callers, op \in Ops : StartCall(c, op)
  \/ \E c \in Callers : \/ Announce(c) \/ RLock(c) \/ CallStep(c) \/ HandshakeStep(c)
                         \/ Written(c) \/ PipeFails(c) \/ Answered(c) \/ TimeOut(c)
  \/ \E n \in Attempts : CliExits(n)

Spec == Init /\ [][Next]_vars

Gone(c) == IF At(c, "write") THEN call[c].conn \notin live ELSE client.query \notin live

\* Goroutines that can run do run, Go's mutexes starve nobody, a deadline comes,
\* initializeTimeout too, and a write to a CLI that is gone fails.  A live CLI need
\* neither read nor answer.
FairSpec ==
  /\ Spec
  /\ \A c \in Callers : /\ SF_vars(Announce(c)) /\ SF_vars(RLock(c))
                        /\ WF_vars(CallStep(c)) /\ WF_vars(TimeOut(c))
                        /\ WF_vars(At(c, "handshake") /\ HandshakeStep(c))
                        /\ WF_vars(Gone(c) /\ (HandshakeFails(c) \/ PipeFails(c)))

-----------------------------------------------------------------------------
(* Properties *)

Connecting == {"materialize", "configure", "spawn", "initialize", "handshake", "prompt"}
PCs == {"idle", "lock", "announced", "begin", "write", "await", "cleanup"} \cup Connecting

\* Types of the lock, the calls and the fields the properties below speak of.
TypeOK ==
  /\ call \in [Callers -> [op : Ops \cup {"none"}, pc : PCs, conn : Nat]]
  /\ readers \subseteq Callers
  /\ writer \in Callers \cup {Nobody}
  /\ client \in [canUseTool : BOOLEAN, store : BOOLEAN, resumes : BOOLEAN, connected : BOOLEAN,
                 query : Nat, batcher : Nat, materialized : Nat, dir : Nat, permission : BOOLEAN]
  /\ attempts \in Nat

\* Close never runs beside a call, nor does a call outlive its connection: what is
\* being written, or waits for an answer, is with the query of the connection there
\* is (client.go:361-394, 480-488, 690-702; ControlProtocol relies on it).
CallsUseTheirConnection ==
  \A c \in Callers :
     At(c, "write") \/ At(c, "await") => client.connected /\ client.query = call[c].conn

\* A CLI process runs only in a connection or while one is being made, however
\* the steps of Connect fail (client.go:135-137, 305-334).
NoStrayProcess ==
  \A n \in live :
     /\ n = client.query
     /\ client.connected \/ \E c \in Callers : Shaking(c)

Busy == \E c \in Callers : call[c].op \in Writing /\ call[c].pc \notin {"lock", "announced", "begin"}

\* A client that tries again after failures gives the CLI a directory that
\* exists and holds the caller's credentials, although Connect left the options
\* pointing at the directory of an earlier attempt (client.go:66-75,
\* session_resume.go:266-284).
RetryKeepsCredentials ==
  (\E c \in Callers : At(c, "spawn")) /\ (\A n \in 1..(attempts - 1) : n \in failed)
    => client.dir = None \/ client.dir \in dirs \cap authed

\* No live CLI leaves a write in its pipe for ever, and no request without a deadline
\* stays unanswered, whatever the reason: neither wait has an end of its own, and the
\* lock is held meanwhile.
HeldUp(c) ==
  \/ At(c, "write") /\ call[c].conn \in live
  \/ (At(c, "initialize") \/ At(c, "prompt")) /\ client.query \in live
  \/ At(c, "await") /\ call[c].op = "control"

CliGoesOn == \A c \in Callers : []<>~HeldUp(c)

\* Every call returns, Close among them: whoever holds the lock lets it go, also
\* where the CLI does not answer a call with a deadline, is gone or goes silent in
\* the handshake, and nobody is overtaken for ever
\* (client.go:51, 304-308, 362, 480-488, 690).
EveryCallReturns == CliGoesOn => \A c \in Callers : (~At(c, "idle")) ~> At(c, "idle")
=============================================================================
