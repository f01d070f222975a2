------------------------------ MODULE McpBridge ------------------------------
(***************************************************************************)
(* The bridge between the CLI's mcp_message control requests and one       *)
(* in-process MCP server (internal/sdk_mcp_bridge.go), with the registry   *)
(* of bridges in Query and its close (internal/query.go:772-796).          *)
(*                                                                         *)
(* A message is named by the control request that carries it, a session by *)
(* the message that started it: Handle starts at most one per message.     *)
(* The go-sdk's server end is external: it answers the messages it took,   *)
(* in any order or never, may stop at any time, and rejects the second     *)
(* initialize of a session; a write to it fails once the session was       *)
(* closed or the server's end is gone.  Messages that need no reply and    *)
(* change nothing (other notifications, responses, frames without a        *)
(* method) and requests of the server to the client are left out, and so   *)
(* is a failure to connect the in-memory pair.                             *)
(***************************************************************************)
EXTENDS Naturals, FiniteSets

CONSTANTS
  Ids,          \* JSON-RPC ids
  MaxMessages,  \* bound: mcp_message control requests of the CLI
  MaxUnderWay   \* bound: those under way at a time

ASSUME BridgeAssumption == Ids # {} /\ MaxMessages \in Nat /\ MaxUnderWay \in Nat

Messages == 1..MaxMessages   \* numbered as the read loop takes them
NoOne     == 0                \* no message, no session

VARIABLES
  pc,        \* Handle, for each message
  msg,       \* [Messages -> [kind, id]]; a cancel's id is the one it names
  bridgeOf,  \* the bridge a message was given
  on,        \* the session a message was given
  answer,    \* [Messages -> [kind, of]]: what Handle returns; "of" is the
             \* message whose handler produced a reply
  pending,   \* s.pending of all sessions: unanswered messages (by session and id)
  registry,  \* q.mcpBridges: the bridge registered for the server
  closed,    \* bridges with b.closed
  current,   \* b.session, by bridge
  owner,     \* the bridge of each session started
  serving,   \* sessions whose server end is open
  cancelled, \* sessions closed: context cancelled, connection closed
  reading,   \* sessions whose readLoop runs
  done,      \* sessions with s.done closed
  cached,    \* sessions with an initResult
  greeted,   \* sessions whose server took an initialize
  running,   \* messages the server took and has not answered
  closer     \* Query.Close: [pc, bridge, session]

messageVars == <<pc, msg, bridgeOf, on, answer, pending>>
bridgeVars  == <<registry, closed, current>>
sessionVars == <<owner, serving, cancelled, reading, done, cached>>
serverVars  == <<greeted, running>>
allVars == <<pc, msg, bridgeOf, on, answer, pending, registry, closed, current, owner,
          serving, cancelled, reading, done, cached, greeted, running, closer>>

Bridges   == {"first", "second"}   \* created before and after closeMCPBridges
NoBridge  == "none"
Kinds     == {"initialize", "call", "cancel"}
Unanswered == [kind |-> "none", of |-> NoOne]
Answers   == {"closed", "stopped", "refused", "cached", "cancelled", "failed", "acked"}
Says(k)   == [kind |-> k, of |-> NoOne]
Reply(m)  == [kind |-> "reply", of |-> m]

-----------------------------------------------------------------------------
BridgeInit ==
  /\ pc = [m \in Messages |-> "idle"]
  /\ msg = [m \in Messages |-> [kind |-> "call", id |-> CHOOSE i \in Ids : TRUE]]
  /\ bridgeOf = [m \in Messages |-> NoBridge]
  /\ on = [m \in Messages |-> NoOne]
  /\ answer = [m \in Messages |-> Unanswered]
  /\ pending = {}
  /\ registry = NoBridge
  /\ closed = {}
  /\ current = [b \in Bridges |-> NoOne]
  /\ owner = [m \in Messages |-> NoBridge]
  /\ serving = {} /\ cancelled = {} /\ reading = {} /\ done = {} /\ cached = {}
  /\ greeted = {} /\ running = {}
  /\ closer = [pc |-> "idle", bridge |-> NoBridge, session |-> NoOne]

(* ---- the CLI ---- *)

UnderWay(m) == pc[m] \notin {"idle", "done"}

\* The CLI keeps to MCP: one handshake at a time, a cancel names one call under
\* way, and an id once cancelled is not used again.
CliMaySend(kind, id) ==
  IF kind = "cancel"
  THEN Cardinality({m \in Messages : UnderWay(m) /\ msg[m].id = id}) = 1
       /\ \E m \in Messages : UnderWay(m) /\ msg[m] = [kind |-> "call", id |-> id]
  ELSE /\ \A m \in Messages : pc[m] # "idle" /\ msg[m].kind = "cancel" => msg[m].id # id
       /\ kind = "initialize" => \A m \in Messages : UnderWay(m) => msg[m].kind # "initialize"

\* The read loop hands the control request to a goroutine, until it is closed.
Arrives(m, kind, id) ==
  /\ pc[m] = "idle" /\ \A n \in 1..(m - 1) : pc[n] # "idle"
  /\ Cardinality({n \in Messages : UnderWay(n)}) < MaxUnderWay
  /\ closer.pc = "idle"
  /\ CliMaySend(kind, id)
  /\ pc' = [pc EXCEPT ![m] = "dispatch"]
  /\ msg' = [msg EXCEPT ![m] = [kind |-> kind, id |-> id]]
  /\ UNCHANGED <<bridgeOf, on, answer, pending, bridgeVars, sessionVars, serverVars, closer>>

(* ---- Handle ---- *)

Concludes(m, a) ==
  /\ pc' = [pc EXCEPT ![m] = "done"]
  /\ answer' = [answer EXCEPT ![m] = a]

\* bridgeForServer: whatever the state of the query.
BridgeForServer(m) ==
  /\ pc[m] = "dispatch"
  /\ registry' = IF registry # NoBridge THEN registry
                 ELSE IF closer.pc \in {"idle", "drop"} THEN "first" ELSE "second"
  /\ bridgeOf' = [bridgeOf EXCEPT ![m] = registry']
  /\ pc' = [pc EXCEPT ![m] = "choose"]
  /\ UNCHANGED <<msg, on, answer, pending, closed, current, sessionVars, serverVars, closer>>

\* newSDKMCPSession, under the bridge's lock.
StartSession(m) ==
  /\ current' = [current EXCEPT ![bridgeOf[m]] = m]
  /\ owner' = [owner EXCEPT ![m] = bridgeOf[m]]
  /\ serving' = serving \cup {m}
  /\ reading' = reading \cup {m}

ChooseSession_Mutant(m) ==   \* takes a session whose reader ended for finished
  /\ pc[m] = "choose" /\ bridgeOf[m] \notin closed
  /\ LET s == current[bridgeOf[m]] IN
       \/ /\ s = NoOne \/ (s \notin reading /\ msg[m].kind = "initialize")
          /\ StartSession(m)
          /\ on' = [on EXCEPT ![m] = m]
          /\ cancelled' = cancelled \cup ({s} \ {NoOne})
       \/ /\ s \in reading
          /\ on' = [on EXCEPT ![m] = s]
          /\ UNCHANGED <<current, owner, serving, reading, cancelled>>
  /\ pc' = [pc EXCEPT ![m] = "handle"]
  /\ UNCHANGED <<msg, bridgeOf, answer, pending, registry, closed, done, cached, serverVars, closer>>

\* The first message, or an initialize after the session finished, starts a new
\* session; the finished one is closed, which waits for nothing any more.
ChooseSession(m) ==
  /\ pc[m] = "choose" /\ bridgeOf[m] \notin closed
  /\ LET s == current[bridgeOf[m]] IN
       \/ /\ s = NoOne \/ (s \in done /\ msg[m].kind = "initialize")
          /\ StartSession(m)
          /\ on' = [on EXCEPT ![m] = m]
          /\ cancelled' = cancelled \cup ({s} \ {NoOne})
       \/ /\ s # NoOne /\ s \notin done
          /\ on' = [on EXCEPT ![m] = s]
          /\ UNCHANGED <<current, owner, serving, reading, cancelled>>
  /\ pc' = [pc EXCEPT ![m] = "handle"]
  /\ UNCHANGED <<msg, bridgeOf, answer, pending, registry, closed, done, cached, serverVars, closer>>

\* The bridge is closed, or its server stopped and this is no new handshake.
RefuseSession(m) ==
  /\ pc[m] = "choose"
  /\ \/ bridgeOf[m] \in closed /\ Concludes(m, Says("closed"))
     \/ /\ bridgeOf[m] \notin closed
        /\ current[bridgeOf[m]] \in done /\ msg[m].kind # "initialize"
        /\ Concludes(m, Says("stopped"))
  /\ UNCHANGED <<msg, bridgeOf, on, pending, bridgeVars, sessionVars, serverVars, closer>>

\* A repeated initialize is answered from the first handshake's result.
AnswerFromCache(m) ==
  /\ pc[m] = "handle" /\ msg[m].kind = "initialize" /\ on[m] \in cached
  /\ Concludes(m, Says("cached"))
  /\ UNCHANGED <<msg, bridgeOf, on, pending, bridgeVars, sessionVars, serverVars, closer>>

\* In s.pending of session s under the given id.
Waiting(s, id) == {m \in pending : on[m] = s /\ msg[m].id = id}

\* The call it names is settled; the go-sdk is told, and its handler may or may
\* not take notice.
CancelPending(m) ==
  /\ pc[m] = "handle" /\ msg[m].kind = "cancel"
  /\ LET named == Waiting(on[m], msg[m].id) IN
       /\ pending' = pending \ named
       /\ answer' = [n \in Messages |-> IF n \in named THEN Says("cancelled")
                                        ELSE IF n = m THEN Says("acked") ELSE answer[n]]
  /\ pc' = [pc EXCEPT ![m] = "done"]
  /\ UNCHANGED <<msg, bridgeOf, on, bridgeVars, sessionVars, serverVars, closer>>

IsRequest(m) ==
  msg[m].kind = "call" \/ (msg[m].kind = "initialize" /\ on[m] \notin cached)

Register(m) ==
  /\ pc[m] = "handle" /\ IsRequest(m)
  /\ Waiting(on[m], msg[m].id) = {}
  /\ pending' = pending \cup {m}
  /\ pc' = [pc EXCEPT ![m] = "write"]
  /\ UNCHANGED <<msg, bridgeOf, on, answer, bridgeVars, sessionVars, serverVars, closer>>

RefuseDuplicate(m) ==
  /\ pc[m] = "handle" /\ IsRequest(m)
  /\ Waiting(on[m], msg[m].id) # {}
  /\ Concludes(m, Says("refused"))
  /\ UNCHANGED <<msg, bridgeOf, on, pending, bridgeVars, sessionVars, serverVars, closer>>

Reachable(s) == s \in serving \ cancelled

Write(m) ==
  /\ pc[m] = "write" /\ Reachable(on[m])
  /\ running' = running \cup {m}
  /\ greeted' = IF msg[m].kind = "initialize" THEN greeted \cup {on[m]} ELSE greeted
  /\ pc' = [pc EXCEPT ![m] = "wait"]
  /\ UNCHANGED <<msg, bridgeOf, on, answer, pending, bridgeVars, sessionVars, closer>>

\* The session went away; the id is released unless it was settled meanwhile.
WriteFails(m) ==
  /\ pc[m] = "write" /\ ~Reachable(on[m])
  /\ pending' = pending \ {m}
  /\ Concludes(m, Says("failed"))
  /\ UNCHANGED <<msg, bridgeOf, on, bridgeVars, sessionVars, serverVars, closer>>

Wake(m) ==
  /\ pc[m] = "wait" /\ answer[m] # Unanswered
  /\ cached' = IF msg[m].kind = "initialize" /\ answer[m].kind = "reply"
               THEN cached \cup {on[m]} ELSE cached
  /\ pc' = [pc EXCEPT ![m] = "done"]
  /\ UNCHANGED <<msg, bridgeOf, on, answer, pending, bridgeVars, owner, serving, cancelled,
                 reading, done, serverVars, closer>>

HandleStep(m) ==
  \/ BridgeForServer(m) \/ ChooseSession(m) \/ RefuseSession(m) \/ AnswerFromCache(m)
  \/ CancelPending(m) \/ Register(m) \/ RefuseDuplicate(m) \/ Write(m) \/ WriteFails(m)
  \/ Wake(m)

(* ---- a session ---- *)

Settle(ms, a) == answer' = [m \in Messages |-> IF m \in ms THEN a ELSE answer[m]]

\* The handler of m returns and respond looks its id up; an answer that no one
\* waits for, or that no one reads any more, is dropped.
Respond(m) ==
  LET waiting == IF on[m] \in reading THEN Waiting(on[m], msg[m].id) ELSE {}
  IN /\ m \in running
     /\ running' = running \ {m}
     /\ pending' = pending \ waiting
     /\ Settle(waiting, Reply(m))
     /\ UNCHANGED <<pc, msg, bridgeOf, on, bridgeVars, sessionVars, greeted, closer>>

\* The server's end goes: by itself, or because the connection was closed.
ServerStops(s) ==
  /\ s \in serving
  /\ serving' = serving \ {s}
  /\ UNCHANGED <<messageVars, bridgeVars, owner, cancelled, reading, done, cached, serverVars, closer>>

ReaderEnds_Mutant(s) ==   \* without failPending
  /\ s \in reading /\ ~Reachable(s)
  /\ reading' = reading \ {s}
  /\ UNCHANGED <<messageVars, bridgeVars, owner, serving, cancelled, done, cached, serverVars, closer>>

\* readLoop ends with failPending.
ReaderEnds(s) ==
  /\ s \in reading /\ ~Reachable(s)
  /\ reading' = reading \ {s}
  /\ LET waiting == {m \in pending : on[m] = s}
     IN /\ pending' = pending \ waiting
        /\ Settle(waiting, Says("closed"))
  /\ UNCHANGED <<pc, msg, bridgeOf, on, bridgeVars, owner, serving, cancelled, done, cached,
                 serverVars, closer>>

\* The reader's goroutine waits for the server session, which a handler that
\* ignores its cancellation holds open.
WindsDown(s) ==
  /\ owner[s] # NoBridge /\ s \notin reading \cup serving \cup done
  /\ \A m \in running : on[m] # s
  /\ done' = done \cup {s}
  /\ UNCHANGED <<messageVars, bridgeVars, owner, serving, cancelled, reading, cached, serverVars, closer>>

SessionStep(s) == ReaderEnds(s) \/ WindsDown(s) \/ (s \in cancelled /\ ServerStops(s))

(* ---- Query.Close ---- *)

StartClose ==
  /\ closer.pc = "idle"
  /\ closer' = [closer EXCEPT !.pc = "drop"]
  /\ UNCHANGED <<messageVars, bridgeVars, sessionVars, serverVars>>

\* closeMCPBridges takes the registry.
DropBridges ==
  /\ closer.pc = "drop"
  /\ registry' = NoBridge
  /\ closer' = [closer EXCEPT !.pc = IF registry = NoBridge THEN "done" ELSE "bridge",
                              !.bridge = registry]
  /\ UNCHANGED <<messageVars, closed, current, sessionVars, serverVars>>

CloseBridge ==
  /\ closer.pc = "bridge"
  /\ closed' = closed \cup {closer.bridge}
  /\ current' = [current EXCEPT ![closer.bridge] = NoOne]
  /\ closer' = [closer EXCEPT !.pc = IF current[closer.bridge] = NoOne THEN "done" ELSE "session",
                              !.session = current[closer.bridge]]
  /\ UNCHANGED <<messageVars, registry, sessionVars, serverVars>>

CloseSession ==
  /\ closer.pc = "session"
  /\ cancelled' = cancelled \cup {closer.session}
  /\ closer' = [closer EXCEPT !.pc = "grace"]
  /\ UNCHANGED <<messageVars, bridgeVars, owner, serving, reading, done, cached, serverVars>>

SessionDone ==
  /\ closer.pc = "grace" /\ closer.session \in done
  /\ closer' = [closer EXCEPT !.pc = "done"]
  /\ UNCHANGED <<messageVars, bridgeVars, sessionVars, serverVars>>

\* Past the grace period the session is left to itself.
GraceExpires_Mutant ==   \* waits for the session however long it takes
  SessionDone

GraceExpires ==
  /\ closer.pc = "grace"
  /\ LET waiting == {m \in pending : on[m] = closer.session}
     IN /\ pending' = pending \ waiting
        /\ Settle(waiting, Says("closed"))
  /\ closer' = [closer EXCEPT !.pc = "done"]
  /\ UNCHANGED <<pc, msg, bridgeOf, on, bridgeVars, sessionVars, serverVars>>

CloserStep == DropBridges \/ CloseBridge \/ CloseSession \/ SessionDone \/ GraceExpires

-----------------------------------------------------------------------------
Terminated ==
  /\ closer.pc = "done" /\ \A m \in Messages : ~UnderWay(m)
  /\ UNCHANGED allVars

BridgeNext ==
  \/ \E m \in Messages, kind \in Kinds, id \in Ids : Arrives(m, kind, id)
  \/ \E m \in Messages : HandleStep(m) \/ Respond(m)
  \/ \E s \in Messages : ReaderEnds(s) \/ WindsDown(s) \/ ServerStops(s)
  \/ StartClose \/ CloserStep
  \/ Terminated

BridgeSpec == BridgeInit /\ [][BridgeNext]_allVars

\* Goroutines that can run do run and the grace period expires.  A handler may
\* never return, a server that is not told to stop may never do so.
FairBridgeSpec ==
  /\ BridgeSpec
  /\ \A m \in Messages : WF_allVars(HandleStep(m)) /\ WF_allVars(SessionStep(m))
  /\ WF_allVars(CloserStep)

-----------------------------------------------------------------------------
(* Properties *)

BridgeTypeOK ==
  /\ pc \in [Messages -> {"idle", "dispatch", "choose", "handle", "write", "wait", "done"}]
  /\ msg \in [Messages -> [kind : Kinds, id : Ids]]
  /\ bridgeOf \in [Messages -> Bridges \cup {NoBridge}]
  /\ on \in [Messages -> Messages \cup {NoOne}]
  /\ answer \in [Messages -> [kind : Answers \cup {"none", "reply"}, of : Messages \cup {NoOne}]]
  /\ pending \subseteq Messages
  /\ registry \in Bridges \cup {NoBridge}
  /\ closed \subseteq Bridges
  /\ current \in [Bridges -> Messages \cup {NoOne}]
  /\ owner \in [Messages -> Bridges \cup {NoBridge}]
  /\ \A set \in {serving, cancelled, reading, done, cached, greeted, running} : set \subseteq Messages
  /\ closer \in [pc : {"idle", "drop", "bridge", "session", "grace", "done"},
                 bridge : Bridges \cup {NoBridge}, session : Messages \cup {NoOne}]

\* Nobody waits on a session whose reader is gone: every message whose answer is
\* still to come is in the table of a session that is being read, however its
\* registration and its write race the end of the session
\* (sdk_mcp_bridge.go:362-375, 518-522).
NobodyWaitsOnTheDead ==
  \A m \in Messages :
     pc[m] = "wait" /\ answer[m] = Unanswered => m \in pending /\ on[m] \in reading

\* The table holds messages under way and unsettled only, each id once for a
\* session (sdk_mcp_bridge.go:499-510).
PendingIsUnsettled ==
  /\ \A m \in pending : pc[m] \in {"write", "wait"} /\ answer[m] = Unanswered
  /\ \A m, n \in pending : on[m] = on[n] /\ msg[m].id = msg[n].id => m = n

\* A bridge "runs one session at a time" (sdk_mcp_bridge.go:178-179): a new one
\* starts only when the last is over, with its handlers.
OneSessionAtATime ==
  \A s, t \in Messages :
     s # t /\ owner[s] # NoBridge /\ owner[s] = owner[t] => s \in done \/ t \in done

\* Close returns within the grace period, although a handler never does, and
\* every message of the bridge it closed is answered then or soon after, those
\* that were about to register or to write as well
\* (sdk_mcp_bridge.go:76-82, 362-373, 582-597).
CloseReleasesWaiters ==
  (closer.pc = "drop") ~>
     (closer.pc = "done" /\ \A m \in Messages : bridgeOf[m] = "first" => pc[m] = "done")
=============================================================================
