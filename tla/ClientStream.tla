---------------------------- MODULE ClientStream ----------------------------
(***************************************************************************)
(* What flows through a connection of ClaudeSDKClient: Send, Query and     *)
(* ReceiveResponse of client.go over the read loop of internal/query.go.   *)
(*                                                                         *)
(* Query and ReceiveResponse each start a goroutine that takes raw frames  *)
(* from the one channel rawMessages, parses them (module MessageParser)    *)
(* and sends the messages on a channel of its own, until a result, or for  *)
(* Query until rawMessages is closed.  The requests of the CLI come down   *)
(* the same pipe, and are handled aside (module Dispatch).                 *)
(*                                                                         *)
(* Actors: the CLI, which runs one turn for each prompt and may run one    *)
(* more on its own; the read loop; a handler for each request; a goroutine *)
(* for each call; and the host, which follows one of three styles:         *)
(*   "receive": Send, and ReceiveResponse once for each prompt             *)
(*   "stream" : one Query, Send for more, one loop over the channel        *)
(*   "each"   : Query for each prompt, and a loop until its result         *)
(***************************************************************************)
EXTENDS MessageParser, Dispatch, Naturals, Sequences, SequencesExt, FiniteSets

CONSTANTS
  Styles,        \* what the host may do
  Bodies,        \* frames of a turn before its result
  Result,        \* the result frame
  HostState,     \* the session_state_changed frame marked sdk_host_only
  AskKinds,      \* requests of the CLI, as in Dispatch
  WireCap,       \* capacity of the pipe and of the transport's channel
  RawCap,        \* capacity of q.rawMessages (100)
  OutCap,        \* capacity of a channel of messages (100)
  MaxPrompts,    \* bound: prompts
  MaxBody,       \* bound: frames of all turns before their results
  MaxAsks,       \* bound: requests of the CLI
  MaxFollowUps   \* bound: turns the CLI runs on its own

ASSUME StreamAssumption ==
  /\ Styles \subseteq {"receive", "stream", "each"}
  /\ IsResultMessage(Result)
  /\ \A frame \in Bodies \cup {HostState} : ~IsResultMessage(frame)
  /\ \A n \in {WireCap, RawCap, OutCap, MaxPrompts} : n \in Nat \ {0}
  /\ \A n \in {MaxBody, MaxAsks, MaxFollowUps} : n \in Nat

VARIABLES
  cli,      \* [does, turn, prompts, said, asked, followUps]; turn: the prompt it answers, or 0
  wire,     \* stdout and transport.messages: [turn, frame] or [ask]
  loop,     \* readMessages: [pc, item]
  closed,   \* q.closed
  raw,      \* q.rawMessages
  passed,   \* all that was ever put into raw
  handler,  \* handleControlRequest: [1..MaxAsks -> [pc, request, returned]]
  heard,    \* the answers the CLI has read
  reader,   \* the goroutine of a call: [1..MaxPrompts -> [pc, until, item]]
  out,      \* the channel of a call
  got,      \* what the host has taken from it
  host      \* [style, sent, calls, at]; at: the call whose channel it reads, or 0

cliVars == <<cli, heard>>
loopVars == <<wire, loop, raw, passed>>
readVars == <<reader, out>>
hostVars == <<host, got, closed>>
vars == <<cliVars, loopVars, handler, readVars, hostVars>>

Calls   == 1..MaxPrompts
Asks    == 1..MaxAsks
NoFrame == [type |-> Absent, subtype |-> Absent, has |-> {}, blocks |-> {}]
NoItem  == [turn |-> 0, frame |-> NoFrame]
NoAsk   == [subtype |-> None, known |-> FALSE]
NotYet  == Returns(None, None, TRUE)
Unheard == [subtype |-> None, behavior |-> None, input |-> None]

IsAsk(item)    == "ask" \in DOMAIN item
Parses(item)   == ParseMessage(item.frame) = "message"
IsResult(item) == IsResultMessage(item.frame)
LoopGone       == loop.pc = "gone"

Init ==
  /\ cli = [does |-> "idle", turn |-> 0, prompts |-> 0, said |-> 0, asked |-> 0, followUps |-> 0]
  /\ heard = [a \in Asks |-> Unheard]
  /\ wire = <<>> /\ raw = <<>> /\ passed = <<>>
  /\ loop = [pc |-> "recv", item |-> NoItem]
  /\ handler = [a \in Asks |-> [pc |-> "none", request |-> NoAsk, returned |-> NotYet]]
  /\ reader = [c \in Calls |-> [pc |-> "none", until |-> "end", item |-> NoItem]]
  /\ out = [c \in Calls |-> <<>>] /\ got = [c \in Calls |-> <<>>]
  /\ closed = FALSE
  /\ \E style \in Styles : host = [style |-> style, sent |-> 0, calls |-> 0, at |-> 0]

-----------------------------------------------------------------------------
(* The CLI *)

Emit(item) == Len(wire) < WireCap /\ wire' = Append(wire, item)

\* The prompts it was sent and has not begun; turns are numbered as their prompts are.
Begun == cli.prompts

CliStartsTurn ==
  /\ cli.does = "idle" /\ cli.prompts < host.sent
  /\ cli' = [cli EXCEPT !.does = "turn", !.turn = Begun + 1, !.prompts = Begun + 1]
  /\ UNCHANGED <<heard, loopVars, handler, readVars, hostVars>>

\* A background task that settled wakes the session.
CliFollowsUp ==
  /\ cli.does = "idle" /\ Begun > 0 /\ cli.followUps < MaxFollowUps
  /\ cli' = [cli EXCEPT !.does = "turn", !.turn = 0, !.followUps = @ + 1]
  /\ UNCHANGED <<heard, loopVars, handler, readVars, hostVars>>

CliSays(frame) ==
  /\ cli.does = "turn" /\ cli.said < MaxBody
  /\ Emit([turn |-> cli.turn, frame |-> frame])
  /\ cli' = [cli EXCEPT !.said = @ + 1]
  /\ UNCHANGED <<heard, loop, raw, passed, handler, readVars, hostVars>>

CliAsks(request) ==
  /\ cli.does = "turn" /\ cli.asked < MaxAsks
  /\ Emit([ask |-> cli.asked + 1, request |-> request])
  /\ cli' = [cli EXCEPT !.does = "asking", !.asked = @ + 1]
  /\ UNCHANGED <<heard, loop, raw, passed, handler, readVars, hostVars>>

CliEndsTurn ==
  /\ cli.does = "turn"
  /\ Emit([turn |-> cli.turn, frame |-> Result])
  /\ cli' = [cli EXCEPT !.does = "idle"]
  /\ UNCHANGED <<heard, loop, raw, passed, handler, readVars, hostVars>>

\* After Close, or on its own.
CliExits ==
  /\ cli.does # "gone"
  /\ cli' = [cli EXCEPT !.does = "gone"]
  /\ UNCHANGED <<heard, loopVars, handler, readVars, hostVars>>

-----------------------------------------------------------------------------
(* The read loop *)

\* Requests go to a goroutine of their own, and frames the host did not ask for no
\* further.  A closed query takes no more.
TakeFrame ==
  /\ loop.pc = "recv" /\ wire # <<>>
  /\ wire' = Tail(wire)
  /\ LET item == Head(wire) IN
     \/ /\ closed
        /\ loop' = [loop EXCEPT !.pc = "gone"]
        /\ UNCHANGED handler
     \/ /\ ~closed /\ IsAsk(item)
        /\ handler' = [handler EXCEPT ![item.ask].pc = "callback", ![item.ask].request = item.request]
        /\ UNCHANGED loop
     \/ /\ ~closed /\ ~IsAsk(item)
        /\ loop' = IF item.frame = HostState THEN loop ELSE [pc |-> "forward", item |-> item]
        /\ UNCHANGED handler
  /\ UNCHANGED <<cliVars, raw, passed, readVars, hostVars>>

\* A full channel blocks the loop, until Close releases it: then the frame is dropped.
Forward ==
  /\ loop.pc = "forward"
  /\ \/ /\ Len(raw) < RawCap
        /\ raw' = Append(raw, loop.item) /\ passed' = Append(passed, loop.item)
     \/ closed /\ UNCHANGED <<raw, passed>>
  /\ loop' = [pc |-> "recv", item |-> NoItem]
  /\ UNCHANGED <<cliVars, wire, handler, readVars, hostVars>>

LoopEnds ==
  /\ loop.pc = "recv" /\ cli.does = "gone" /\ wire = <<>>
  /\ loop' = [loop EXCEPT !.pc = "gone"]
  /\ UNCHANGED <<cliVars, wire, raw, passed, handler, readVars, hostVars>>

LoopStep == TakeFrame \/ Forward \/ LoopEnds

-----------------------------------------------------------------------------
(* A request and its handler *)

CallbackReturns(a) ==
  /\ handler[a].pc = "callback"
  /\ \E r \in Results(handler[a].request) :
       handler' = [handler EXCEPT ![a] = [@ EXCEPT !.pc = "respond", !.returned = r]]
  /\ UNCHANGED <<cliVars, loopVars, readVars, hostVars>>

Respond_Mutant(a) ==   \* says nothing when the callback fails
  /\ handler[a].pc = "respond"
  /\ handler' = [handler EXCEPT ![a].pc = "done"]
  /\ LET answer == HandleControlRequest(handler[a].request, handler[a].returned) IN
     IF cli.does = "asking" /\ answer \notin {EmptyLine, Error}
     THEN cli' = [cli EXCEPT !.does = "turn"] /\ heard' = [heard EXCEPT ![a] = answer]
     ELSE UNCHANGED cliVars
  /\ UNCHANGED <<loopVars, readVars, hostVars>>

\* An empty line is no answer: the CLI waits on.
Respond(a) ==
  /\ handler[a].pc = "respond"
  /\ handler' = [handler EXCEPT ![a].pc = "done"]
  /\ LET answer == HandleControlRequest(handler[a].request, handler[a].returned) IN
     IF cli.does = "asking" /\ answer # EmptyLine
     THEN cli' = [cli EXCEPT !.does = "turn"] /\ heard' = [heard EXCEPT ![a] = answer]
     ELSE UNCHANGED cliVars
  /\ UNCHANGED <<loopVars, readVars, hostVars>>

-----------------------------------------------------------------------------
(* The goroutine of Query or ReceiveResponse *)

StartReader(c, until) == reader' = [reader EXCEPT ![c].pc = "recv", ![c].until = until]

ReaderTakes(c) ==
  /\ reader[c].pc = "recv" /\ raw # <<>>
  /\ raw' = Tail(raw)
  /\ reader' = IF Parses(Head(raw)) THEN [reader EXCEPT ![c].pc = "send", ![c].item = Head(raw)]
               ELSE reader
  /\ UNCHANGED <<cliVars, wire, loop, passed, handler, out, hostVars>>

ReaderSends_Mutant(c) ==   \* reads on behind the result
  /\ reader[c].pc = "send" /\ Len(out[c]) < OutCap
  /\ out' = [out EXCEPT ![c] = Append(@, reader[c].item)]
  /\ reader' = [reader EXCEPT ![c].item = NoItem, ![c].pc = "recv"]
  /\ UNCHANGED <<cliVars, loopVars, handler, hostVars>>

ReaderSends(c) ==
  /\ reader[c].pc = "send" /\ Len(out[c]) < OutCap
  /\ out' = [out EXCEPT ![c] = Append(@, reader[c].item)]
  /\ reader' = [reader EXCEPT ![c].item = NoItem,
       ![c].pc = IF reader[c].until = "result" /\ IsResult(reader[c].item) THEN "done" ELSE "recv"]
  /\ UNCHANGED <<cliVars, loopVars, handler, hostVars>>

ReaderEnds(c) ==
  /\ reader[c].pc = "recv" /\ raw = <<>> /\ LoopGone
  /\ reader' = [reader EXCEPT ![c].pc = "done"]
  /\ UNCHANGED <<cliVars, loopVars, handler, out, hostVars>>

ReaderStep(c) == ReaderTakes(c) \/ ReaderSends(c) \/ ReaderEnds(c)

-----------------------------------------------------------------------------
(* The host *)

\* Send writes and returns; several prompts may be under way.
Send ==
  /\ ~closed /\ host.sent < MaxPrompts
  /\ host.style = "receive" \/ (host.style = "stream" /\ host.calls = 1)
  /\ host' = [host EXCEPT !.sent = @ + 1]
  /\ UNCHANGED <<cliVars, loopVars, handler, readVars, got, closed>>

ReceiveResponse ==
  /\ ~closed /\ host.style = "receive" /\ host.at = 0 /\ host.calls < host.sent
  /\ StartReader(host.calls + 1, "result")
  /\ host' = [host EXCEPT !.calls = @ + 1, !.at = host.calls + 1]
  /\ UNCHANGED <<cliVars, loopVars, handler, out, got, closed>>

Query ==
  /\ ~closed /\ host.at = 0 /\ host.sent < MaxPrompts
  /\ host.style = "each" \/ (host.style = "stream" /\ host.calls = 0)
  /\ StartReader(host.calls + 1, "end")
  /\ host' = [host EXCEPT !.sent = @ + 1, !.calls = @ + 1, !.at = host.calls + 1]
  /\ UNCHANGED <<cliVars, loopVars, handler, out, got, closed>>

\* At a result a host of style "each" leaves the loop, and one of style "receive" may.
TakeMessage ==
  /\ host.at # 0 /\ out[host.at] # <<>>
  /\ LET c == host.at
         item == Head(out[c])
     IN /\ out' = [out EXCEPT ![c] = Tail(@)]
        /\ got' = [got EXCEPT ![c] = Append(@, item)]
        /\ \/ IsResult(item) /\ host.style # "stream" /\ host' = [host EXCEPT !.at = 0]
           \/ ~(IsResult(item) /\ host.style = "each") /\ UNCHANGED host
  /\ UNCHANGED <<cliVars, loopVars, handler, reader, closed>>

SeesEnd ==
  /\ host.at # 0 /\ out[host.at] = <<>> /\ reader[host.at].pc = "done"
  /\ host' = [host EXCEPT !.at = 0]
  /\ UNCHANGED <<cliVars, loopVars, handler, readVars, got, closed>>

HostReads == TakeMessage \/ SeesEnd

\* Close may come from another goroutine of the host, which reads on to the end.
Close ==
  /\ ~closed
  /\ closed' = TRUE
  /\ UNCHANGED <<cliVars, loopVars, handler, readVars, host, got>>

-----------------------------------------------------------------------------
Next ==
  \/ CliStartsTurn \/ CliFollowsUp \/ CliEndsTurn \/ CliExits
  \/ \E frame \in Bodies : CliSays(frame)
  \/ \E request \in AskKinds : CliAsks(request)
  \/ LoopStep
  \/ \E a \in Asks : CallbackReturns(a) \/ Respond(a)
  \/ \E c \in Calls : ReaderStep(c)
  \/ Send \/ ReceiveResponse \/ Query \/ HostReads \/ Close

Spec == Init /\ [][Next]_vars

\* Goroutines that can run do run; callbacks return; the CLI ends the turns it can,
\* and exits once it was closed; the host keeps reading the channel it is at.
FairSpec ==
  /\ Spec
  /\ WF_vars(CliStartsTurn) /\ WF_vars(CliEndsTurn) /\ WF_vars(closed /\ CliExits)
  /\ WF_vars(LoopStep)
  /\ \A a \in Asks : WF_vars(CallbackReturns(a)) /\ WF_vars(Respond(a))
  /\ \A c \in Calls : WF_vars(ReaderStep(c))
  /\ WF_vars(HostReads)

-----------------------------------------------------------------------------
(* Properties *)

\* What the goroutine of a call has taken and parsed.
Taken(c) ==
  got[c] \o out[c] \o (IF reader[c].pc = "send" THEN <<reader[c].item>> ELSE <<>>)

Messages(items) ==
  FlattenSeq([i \in DOMAIN items |-> IF Parses(items[i]) THEN <<items[i]>> ELSE <<>>])

\* "ReceiveResponse returns messages until a ResultMessage is received" (client.go:450):
\* the responses of a host that asks for one at a time, together, are all the messages
\* forwarded, in order; each ends at the first result in it; and if the CLI ran no turn
\* of its own, the response to a prompt is its turn's.
ResponseIsOneTurn ==
  host.style # "each" =>
    /\ FlattenSeq([c \in Calls |-> Taken(c)]) \o Messages(raw) = Messages(passed)
    /\ host.style = "receive" =>
         \A c \in Calls : \A k \in DOMAIN Taken(c) :
           /\ IsResult(Taken(c)[k]) => k = Len(Taken(c)) /\ reader[c].pc \in {"send", "done"}
           /\ cli.followUps = 0 => Taken(c)[k].turn = c

Stranded == \E a \in Asks : ~handler[a].returned.writable

HasResult(p) == \E c \in Calls : \E k \in DOMAIN got[c] : got[c][k].turn = p /\ IsResult(got[c][k])

\* A host that reads is never left waiting, whatever its callbacks return that can be
\* written, and however the CLI ends: its response ends, or the channel of its one Query
\* brings the result of each prompt or is closed.
ResponseEnds ==
  \A p \in Calls :
    /\ (host.style = "receive" /\ host.at = p) ~> (host.at # p \/ Stranded)
    /\ (host.style = "stream" /\ host.sent >= p) ~> (HasResult(p) \/ host.at = 0 \/ Stranded)

\* The CLI hears of a permission only what the host granted, with the input the host saw
\* or gave, and of everything else that it was refused: a nil result grants nothing
\* (internal/query.go:1551-1558).
GrantedByTheHost ==
  \A a \in Asks :
    LET r == handler[a].returned IN
      /\ heard[a].behavior = "allow" =>
           r.is = "allow" /\ heard[a].input = IF r.input = None THEN Asked ELSE r.input
      /\ heard[a] # Unheard /\ r.is \notin {"allow", "deny", "interrupt", "output"} => heard[a] = Error

\* "Query sends a message and returns a channel of responses" (client.go:396), as
\* examples/streaming/main.go:28-54 uses it: each loop meets its result, or the end.
EachQueryAnswered ==
  \A c \in Calls : (host.style = "each" /\ host.at = c) ~> (host.at # c)
=============================================================================
