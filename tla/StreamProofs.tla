---------------------------- MODULE StreamProofs ----------------------------
(***************************************************************************)
(* Proofs about ClientStream: the CLI hears of each request what the host  *)
(* said; a host that does not call Query twice has one goroutine at a time *)
(* on the messages; and the responses of a host that asks for one at a     *)
(* time are the turns of its prompts.                                      *)
(*                                                                         *)
(* RequestInv follows a request from the pipe to its handler and back: its *)
(* id is used once, so an answer the CLI has heard stays that of its       *)
(* callback.  ReaderInv follows the calls: while the host is at none, no   *)
(* goroutine is left, since a response that holds a result has ended.      *)
(* Filtered says where the messages are: with the calls made so far, and   *)
(* in raw.  TurnInv says in what order: raw, the frame the read loop holds *)
(* and the pipe each go on with the turn the part before them ended with.  *)
(***************************************************************************)
EXTENDS ClientStream, SequenceLemmas, TLAPS

Clis     == [does : {"idle", "turn", "asking", "gone"}, turn : Nat, prompts : Nat,
             said : Nat, asked : 0..MaxAsks, followUps : Nat]
Items    == [turn : Nat, frame : Bodies \cup {Result, NoFrame}]
Loops    == [pc : {"recv", "forward", "gone"}, item : Items]
AskItems == [ask : Asks, request : AskKinds]
Replies  == UNION {Results(q) : q \in AskKinds}
Handlers == [pc : {"none", "callback", "respond", "done"}, request : AskKinds \cup {NoAsk},
             returned : Replies \cup {NotYet}]
Readers  == [pc : {"none", "recv", "send", "done"}, until : {"result", "end"}, item : Items]
Hosts    == [style : {"receive", "stream", "each"}, sent : 0..MaxPrompts, calls : 0..MaxPrompts, at : 0..MaxPrompts]

TypeOK ==
  /\ cli \in Clis
  /\ wire \in Seq(Items \cup AskItems)
  /\ loop \in Loops
  /\ raw \in Seq(Items) /\ passed \in Seq(Items)
  /\ handler \in [Asks -> Handlers]
  /\ DOMAIN heard = Asks
  /\ reader \in [Calls -> Readers]
  /\ out \in [Calls -> Seq(Items)]
  /\ got \in [Calls -> Seq(Items)]
  /\ host \in Hosts /\ host.calls <= host.sent

\* A request in the pipe has an id below the counter, its own, and no handler yet.
InPipe ==
  \A i \in 1..Len(wire) : wire[i] \in AskItems =>
    /\ wire[i].ask <= cli.asked /\ handler[wire[i].ask].pc = "none"
    /\ \A j \in 1..Len(wire) : wire[j] \in AskItems /\ wire[j].ask = wire[i].ask => j = i

\* An id above the counter is unused; an answer is that of the handler's callback.
Handled ==
  \A a \in Asks :
    /\ cli.asked < a => handler[a].pc = "none"
    /\ handler[a].pc \in {"callback", "respond", "done"} => handler[a].request \in AskKinds
    /\ handler[a].pc \in {"respond", "done"} => handler[a].returned \in Results(handler[a].request)
    /\ handler[a].pc # "done" => heard[a] = Unheard
    /\ handler[a].pc = "done" =>
         heard[a] \in {Unheard, HandleControlRequest(handler[a].request, handler[a].returned)}

RequestInv == InPipe /\ Handled

Active(c) == reader[c].pc \in {"recv", "send"}

ReaderInv ==
  host.style # "each" =>
    /\ host.at \in {0, host.calls}
    /\ host.style = "stream" => host.calls <= 1
    /\ \A c \in Calls :
         /\ Active(c) => host.at = c
         /\ reader[c].pc # "none" => reader[c].until = IF host.style = "receive" THEN "result" ELSE "end"
         /\ host.calls < c => reader[c].pc = "none" /\ out[c] = <<>>
         /\ host.style = "receive" =>
              \A k \in 1..Len(out[c]) : IsResult(out[c][k]) => reader[c].pc = "done"

\* As long as the host does not call Query for each prompt, one goroutine at a time
\* takes messages from the channel all calls share (client.go:437, 458).
OneReaderAtATime ==
  host.style # "each" => \A c, d \in Calls : Active(c) /\ Active(d) => c = d

Inv == TypeOK /\ RequestInv /\ ReaderInv

(* ---- types ---- *)

LEMMA ItemKinds ==
  /\ \A x \in Items : ~IsAsk(x) /\ x \notin AskItems
  /\ \A x \in AskItems : IsAsk(x) /\ x \notin Items
  /\ NoItem \in Items
<1>1. ASSUME NEW x \in Items PROVE DOMAIN x = {"turn", "frame"}
  BY DEF Items
<1>2. ASSUME NEW x \in AskItems PROVE DOMAIN x = {"ask", "request"}
  BY DEF AskItems
<1>3. NoItem \in Items
  BY DEF NoItem, Items
<1> QED
  BY <1>1, <1>2, <1>3 DEF IsAsk

LEMMA HeadTail ==
  ASSUME NEW S, NEW s \in Seq(S), s # <<>>
  PROVE  /\ Head(s) \in S /\ Head(s) = s[1] /\ 1 \in 1..Len(s)
         /\ Tail(s) \in Seq(S) /\ Len(Tail(s)) = Len(s) - 1
         /\ \A i \in 1..Len(Tail(s)) : Tail(s)[i] = s[i + 1] /\ i + 1 \in 1..Len(s)
OBVIOUS

LEMMA Appended ==
  ASSUME NEW S, NEW s \in Seq(S), NEW x \in S
  PROVE  /\ Append(s, x) \in Seq(S) /\ Len(Append(s, x)) = Len(s) + 1 /\ Len(s) \in Nat
         /\ Append(s, x)[Len(s) + 1] = x
         /\ \A i \in 1..Len(s) : Append(s, x)[i] = s[i]
OBVIOUS

LEMMA ReaderEffect ==
  ASSUME TypeOK, NEW c \in Calls, NEW r \in Readers, reader' = [reader EXCEPT ![c] = r]
  PROVE  reader' \in [Calls -> Readers] /\ reader'[c] = r /\ \A d \in Calls : d # c => reader'[d] = reader[d]
BY DEF TypeOK

LEMMA HandlerEffect ==
  ASSUME TypeOK, NEW a \in Asks, NEW h \in Handlers, handler' = [handler EXCEPT ![a] = h]
  PROVE  handler' \in [Asks -> Handlers] /\ handler'[a] = h /\ \A b \in Asks : b # a => handler'[b] = handler[b]
BY DEF TypeOK

LEMMA TypeInit == ASSUME StreamAssumption PROVE Init => TypeOK
<1> SUFFICES ASSUME Init PROVE TypeOK
  OBVIOUS
<1>1. NoItem \in Items
  BY ItemKinds
<1>2. MaxAsks \in Nat /\ MaxPrompts \in Nat
  BY DEF StreamAssumption
<1>3. [pc |-> "none", request |-> NoAsk, returned |-> NotYet] \in Handlers
  BY DEF Handlers
<1>4. [pc |-> "none", until |-> "end", item |-> NoItem] \in Readers
  BY <1>1 DEF Readers
<1>5. host \in Hosts /\ host.calls <= host.sent
  BY <1>2 DEF Init, Hosts, StreamAssumption
<1>6. loop \in Loops
  BY <1>1 DEF Init, Loops
<1>7. cli \in Clis
  BY <1>2 DEF Init, Clis
<1>8. handler \in [Asks -> Handlers] /\ reader \in [Calls -> Readers] /\ out \in [Calls -> Seq(Items)]
  BY <1>3, <1>4 DEF Init
<1> QED
  BY <1>5, <1>6, <1>7, <1>8 DEF Init, TypeOK

LEMMA CliEdits ==
  ASSUME NEW r \in Clis, NEW n \in Nat
  PROVE  /\ [r EXCEPT !.does = "turn"] \in Clis /\ [r EXCEPT !.does = "turn"].asked = r.asked
         /\ [r EXCEPT !.turn = n] \in Clis /\ [r EXCEPT !.turn = n].asked = r.asked
         /\ [r EXCEPT !.prompts = n] \in Clis /\ [r EXCEPT !.prompts = n].asked = r.asked
         /\ [r EXCEPT !.followUps = n] \in Clis /\ [r EXCEPT !.followUps = n].asked = r.asked
BY DEF Clis

\* What one of the CLI's own steps does.
LEMMA CliEffect ==
  ASSUME TypeOK, StreamAssumption,
         CliStartsTurn \/ CliFollowsUp \/ CliEndsTurn \/ CliExits
           \/ \E frame \in Bodies : CliSays(frame)
  PROVE  /\ cli' \in Clis /\ cli'.asked = cli.asked
         /\ wire' = wire \/ \E x \in Items : wire' = Append(wire, x)
         /\ UNCHANGED <<heard, loop, raw, passed, handler, readVars, hostVars>>
<1> USE DEF cliVars, loopVars
<1>0. cli \in Clis
  BY DEF TypeOK
<1>1. CASE CliStartsTurn
  <2>1. cli.prompts + 1 \in Nat
    BY <1>0 DEF Clis
  <2>2. PICK r \in Clis : r = [cli EXCEPT !.does = "turn"] /\ r.asked = cli.asked
    BY <1>0, <2>1, CliEdits
  <2>3. PICK s \in Clis : s = [r EXCEPT !.turn = cli.prompts + 1] /\ s.asked = cli.asked
    <3>1. cli.prompts + 1 \in Nat
      BY <2>1
    <3>2. [r EXCEPT !.turn = cli.prompts + 1] \in Clis /\ [r EXCEPT !.turn = cli.prompts + 1].asked = r.asked
      BY <3>1, CliEdits
    <3> QED
      BY <2>2, <3>2
  <2>4. cli' = [s EXCEPT !.prompts = cli.prompts + 1]
    BY <1>1, <2>2, <2>3 DEF CliStartsTurn, Begun
  <2>5. cli' \in Clis /\ cli'.asked = cli.asked
    BY <2>1, <2>3, <2>4, CliEdits
  <2> QED
    BY <1>1, <2>5 DEF CliStartsTurn
<1>2. CASE CliFollowsUp
  <2>1. cli.followUps + 1 \in Nat
    BY <1>0 DEF Clis
  <2>2. PICK r \in Clis : r = [cli EXCEPT !.does = "turn"] /\ r.asked = cli.asked
    BY <1>0, <2>1, CliEdits
  <2>3. PICK s \in Clis : s = [r EXCEPT !.turn = 0] /\ s.asked = cli.asked
    <3>1. 0 \in Nat
      BY <2>1
    <3>2. [r EXCEPT !.turn = 0] \in Clis /\ [r EXCEPT !.turn = 0].asked = r.asked
      BY <3>1, CliEdits
    <3> QED
      BY <2>2, <3>2
  <2>4. cli' = [s EXCEPT !.followUps = cli.followUps + 1]
    BY <1>2, <2>2, <2>3 DEF CliFollowsUp
  <2>5. cli' \in Clis /\ cli'.asked = cli.asked
    BY <2>1, <2>3, <2>4, CliEdits
  <2> QED
    BY <1>2, <2>5 DEF CliFollowsUp
<1>3. CASE CliExits
  <2>1. cli' \in Clis /\ cli'.asked = cli.asked
    BY <1>0, <1>3 DEF CliExits, Clis
  <2> QED
    BY <1>3, <2>1 DEF CliExits
<1>4. CASE CliEndsTurn
  <2>1. cli' \in Clis /\ cli'.asked = cli.asked
    BY <1>0, <1>4 DEF CliEndsTurn, Clis
  <2>2. [turn |-> cli.turn, frame |-> Result] \in Items
    BY <1>0 DEF Items, Clis
  <2> QED
    BY <1>4, <2>1, <2>2 DEF CliEndsTurn, Emit
<1>5. ASSUME NEW frame \in Bodies, CliSays(frame)
      PROVE  /\ cli' \in Clis /\ cli'.asked = cli.asked
             /\ \E x \in Items : wire' = Append(wire, x)
             /\ UNCHANGED <<heard, loop, raw, passed, handler, readVars, hostVars>>
  <2>1. cli' \in Clis /\ cli'.asked = cli.asked
    BY <1>0, <1>5 DEF CliSays, Clis
  <2>2. [turn |-> cli.turn, frame |-> frame] \in Items
    BY <1>0 DEF Items, Clis
  <2> QED
    BY <1>5, <2>1, <2>2 DEF CliSays, Emit
<1> QED
  BY <1>1, <1>2, <1>3, <1>4, <1>5

LEMMA AskEffect ==
  ASSUME TypeOK, StreamAssumption, NEW request \in AskKinds, CliAsks(request)
  PROVE  /\ cli' \in Clis /\ cli'.asked = cli.asked + 1 /\ cli.asked + 1 \in Asks /\ cli.asked \in Nat
         /\ [ask |-> cli.asked + 1, request |-> request] \in AskItems
         /\ wire' = Append(wire, [ask |-> cli.asked + 1, request |-> request])
         /\ UNCHANGED <<heard, loop, raw, passed, handler, readVars, hostVars>>
<1>1. cli \in Clis
  BY DEF TypeOK
<1>2. cli.asked + 1 \in Asks /\ cli.asked \in Nat /\ cli.asked + 1 \in 0..MaxAsks
  BY <1>1 DEF CliAsks, Clis, Asks, StreamAssumption
<1>3. [cli EXCEPT !.does = "asking"] \in Clis
  BY <1>1 DEF Clis
<1>4. cli' \in Clis /\ cli'.asked = cli.asked + 1
  BY <1>1, <1>2, <1>3 DEF CliAsks, Clis
<1>5. [ask |-> cli.asked + 1, request |-> request] \in AskItems
  BY <1>2 DEF AskItems
<1> QED
  BY <1>2, <1>4, <1>5 DEF CliAsks, Emit

\* A frame taken from the pipe: dropped, handed to a handler of its own, or forwarded.
LEMMA TakeEffect ==
  ASSUME TypeOK, TakeFrame
  PROVE  /\ wire # <<>> /\ wire' = Tail(wire) /\ loop' \in Loops
         /\ UNCHANGED <<cliVars, raw, passed, readVars, hostVars>>
         /\ \/ UNCHANGED handler
            \/ /\ Head(wire) \in AskItems
               /\ handler' = [handler EXCEPT ![Head(wire).ask] =
                                [handler[Head(wire).ask] EXCEPT !.pc = "callback", !.request = Head(wire).request]]
<1>1. Head(wire) \in Items \cup AskItems
  BY HeadTail DEF TakeFrame, TypeOK
<1>2. CASE closed
  BY <1>2 DEF TakeFrame, TypeOK, Loops
<1>3. CASE ~closed /\ IsAsk(Head(wire))
  <2>1. Head(wire) \in AskItems
    BY <1>1, <1>3, ItemKinds
  <2> QED
    BY <1>3, <2>1 DEF TakeFrame, TypeOK
<1>4. CASE ~closed /\ ~IsAsk(Head(wire))
  <2>1. Head(wire) \in Items
    BY <1>1, <1>4, ItemKinds
  <2>2. [pc |-> "forward", item |-> Head(wire)] \in Loops
    BY <2>1 DEF Loops
  <2> QED
    BY <1>4, <2>2 DEF TakeFrame, TypeOK
<1> QED
  BY <1>2, <1>3, <1>4

LEMMA AskTaken ==
  ASSUME TypeOK, TakeFrame, handler' # handler
  PROVE  /\ Head(wire) \in AskItems /\ Head(wire).ask \in Asks
         /\ handler' \in [Asks -> Handlers]
         /\ handler'[Head(wire).ask].pc = "callback" /\ handler'[Head(wire).ask].request \in AskKinds
         /\ \A b \in Asks : b # Head(wire).ask => handler'[b] = handler[b]
<1> DEFINE x == Head(wire)
<1>1. /\ x \in AskItems
      /\ handler' = [handler EXCEPT ![x.ask] = [handler[x.ask] EXCEPT !.pc = "callback", !.request = x.request]]
  BY TakeEffect
<1> HIDE DEF x
<1>2. x.ask \in Asks /\ x.request \in AskKinds
  BY <1>1 DEF AskItems
<1>3. handler[x.ask] \in Handlers
  BY <1>2 DEF TypeOK
<1>4. [handler[x.ask] EXCEPT !.pc = "callback"] \in Handlers /\ [handler[x.ask] EXCEPT !.pc = "callback"].pc = "callback"
  BY <1>3 DEF Handlers
<1>5. PICK h \in Handlers : h = [handler[x.ask] EXCEPT !.pc = "callback"] /\ h.pc = "callback"
  BY <1>4
<1>6. /\ [h EXCEPT !.request = x.request] \in Handlers /\ [h EXCEPT !.request = x.request].pc = "callback"
      /\ [h EXCEPT !.request = x.request].request = x.request
  BY <1>2, <1>5 DEF Handlers
<1>7. PICK i \in Handlers : i = [h EXCEPT !.request = x.request] /\ i.pc = "callback" /\ i.request = x.request
  BY <1>6
<1>8. handler' = [handler EXCEPT ![x.ask] = i]
  BY <1>1, <1>5, <1>7
<1>9. handler' \in [Asks -> Handlers] /\ handler'[x.ask] = i /\ \A b \in Asks : b # x.ask => handler'[b] = handler[b]
  BY <1>2, <1>8, HandlerEffect
<1> QED
  BY <1>1, <1>2, <1>7, <1>9 DEF x

LEMMA TypeLoop ==
  ASSUME TypeOK, LoopStep
  PROVE  TypeOK'
<1> USE DEF cliVars, readVars, hostVars
<1>1. CASE TakeFrame
  <2>1. wire' \in Seq(Items \cup AskItems) /\ Head(wire) \in Items \cup AskItems
    <3>1. wire \in Seq(Items \cup AskItems) /\ wire # <<>> /\ wire' = Tail(wire)
      BY <1>1, TakeEffect DEF TypeOK
    <3> QED
      BY <3>1, HeadTail
  <2>2. handler' \in [Asks -> Handlers]
    <3>1. CASE UNCHANGED handler
      BY <3>1 DEF TypeOK
    <3> QED
      BY <1>1, <3>1, AskTaken
  <2> QED
    BY <1>1, <2>1, <2>2, TakeEffect DEF TypeOK
<1>2. CASE Forward
  <2>1. [pc |-> "recv", item |-> NoItem] \in Loops
    BY ItemKinds DEF Loops
  <2>2. loop.item \in Items
    BY DEF TypeOK, Loops
  <2>3. raw' \in Seq(Items) /\ passed' \in Seq(Items)
    <3>1. raw \in Seq(Items) /\ passed \in Seq(Items)
      BY DEF TypeOK
    <3>2. Append(raw, loop.item) \in Seq(Items) /\ Append(passed, loop.item) \in Seq(Items)
      BY <2>2, <3>1, Appended
    <3> QED
      BY <1>2, <3>1, <3>2 DEF Forward
  <2> QED
    BY <1>2, <2>1, <2>3 DEF Forward, TypeOK
<1>3. CASE LoopEnds
  <2>1. loop' \in Loops
    BY <1>3 DEF LoopEnds, TypeOK, Loops
  <2> QED
    BY <1>3, <2>1 DEF LoopEnds, TypeOK
<1> QED
  BY <1>1, <1>2, <1>3 DEF LoopStep

\* The handler of a request moves: to "respond", with what its callback returned, or to
\* "done", with the answer written.
LEMMA CallbackEffect ==
  ASSUME TypeOK, NEW a \in Asks, CallbackReturns(a), handler[a].request \in AskKinds
  PROVE  /\ handler[a].pc = "callback"
         /\ handler' \in [Asks -> Handlers] /\ handler'[a].pc = "respond"
         /\ handler'[a].request = handler[a].request
         /\ handler'[a].returned \in Results(handler[a].request)
         /\ \A b \in Asks : b # a => handler'[b] = handler[b]
         /\ UNCHANGED <<cliVars, loopVars, readVars, hostVars>>
<1>1. PICK r \in Results(handler[a].request) :
        handler' = [handler EXCEPT ![a] = [handler[a] EXCEPT !.pc = "respond", !.returned = r]]
  BY DEF CallbackReturns
<1>2. handler[a] \in Handlers /\ r \in Replies
  BY DEF TypeOK, Replies
<1>3. PICK h \in Handlers : h = [handler[a] EXCEPT !.pc = "respond"] /\ h.request = handler[a].request /\ h.pc = "respond"
  <2>1. /\ [handler[a] EXCEPT !.pc = "respond"] \in Handlers
        /\ [handler[a] EXCEPT !.pc = "respond"].request = handler[a].request
        /\ [handler[a] EXCEPT !.pc = "respond"].pc = "respond"
    BY <1>2 DEF Handlers
  <2> QED
    BY <2>1
<1>4. [h EXCEPT !.returned = r] \in Handlers /\ [h EXCEPT !.returned = r].returned = r
      /\ [h EXCEPT !.returned = r].request = h.request /\ [h EXCEPT !.returned = r].pc = h.pc
  BY <1>2 DEF Handlers
<1>5. PICK i \in Handlers : handler' = [handler EXCEPT ![a] = i] /\ i.returned = r
                            /\ i.request = handler[a].request /\ i.pc = "respond"
  BY <1>1, <1>3, <1>4
<1>6. handler' \in [Asks -> Handlers] /\ handler'[a] = i /\ \A b \in Asks : b # a => handler'[b] = handler[b]
  BY <1>5, HandlerEffect
<1> QED
  BY <1>5, <1>6 DEF CallbackReturns

LEMMA RespondEffect ==
  ASSUME TypeOK, NEW a \in Asks, Respond(a)
  PROVE  /\ handler[a].pc = "respond"
         /\ handler' \in [Asks -> Handlers] /\ handler'[a].pc = "done"
         /\ handler'[a].request = handler[a].request /\ handler'[a].returned = handler[a].returned
         /\ \A b \in Asks : b # a => handler'[b] = handler[b] /\ heard'[b] = heard[b]
         /\ heard'[a] \in {heard[a], HandleControlRequest(handler[a].request, handler[a].returned)}
         /\ DOMAIN heard' = Asks /\ cli' \in Clis /\ cli'.asked = cli.asked
         /\ UNCHANGED <<loopVars, readVars, hostVars>>
<1>1. handler' = [handler EXCEPT ![a] = [handler[a] EXCEPT !.pc = "done"]]
  BY DEF Respond
<1>2. handler[a] \in Handlers
  BY DEF TypeOK
<1>3. PICK h \in Handlers : h = [handler[a] EXCEPT !.pc = "done"] /\ h.request = handler[a].request
                            /\ h.returned = handler[a].returned /\ h.pc = "done"
  <2>1. /\ [handler[a] EXCEPT !.pc = "done"] \in Handlers
        /\ [handler[a] EXCEPT !.pc = "done"].request = handler[a].request
        /\ [handler[a] EXCEPT !.pc = "done"].returned = handler[a].returned
        /\ [handler[a] EXCEPT !.pc = "done"].pc = "done"
    BY <1>2 DEF Handlers
  <2> QED
    BY <2>1
<1>4. handler' \in [Asks -> Handlers] /\ handler'[a] = h /\ \A b \in Asks : b # a => handler'[b] = handler[b]
  BY <1>1, <1>3, HandlerEffect
<1>5. cli \in Clis /\ 0 \in Nat /\ DOMAIN heard = Asks
  BY DEF TypeOK
<1>6. [cli EXCEPT !.does = "turn"] \in Clis /\ [cli EXCEPT !.does = "turn"].asked = cli.asked
  BY <1>5, CliEdits
<1>7. cli' \in Clis /\ cli'.asked = cli.asked
  BY <1>5, <1>6 DEF Respond, cliVars
<1> DEFINE answer == HandleControlRequest(handler[a].request, handler[a].returned)
<1>8. heard' = heard \/ heard' = [heard EXCEPT ![a] = answer]
  BY DEF Respond, cliVars
<1>9. /\ DOMAIN heard' = Asks /\ heard'[a] \in {heard[a], answer}
      /\ \A b \in Asks : b # a => heard'[b] = heard[b]
  <2> HIDE DEF answer
  <2> QED
    BY <1>5, <1>8
<1> QED
  BY <1>3, <1>4, <1>7, <1>9 DEF Respond

(* ---- the goroutines of the calls ---- *)

\* A goroutine moves alone.
ReaderMoves(c, pc) ==
  /\ reader' \in [Calls -> Readers] /\ reader'[c].pc = pc /\ reader'[c].until = reader[c].until
  /\ \A d \in Calls : d # c => reader'[d] = reader[d]

LEMMA TakesEffect ==
  ASSUME TypeOK, NEW c \in Calls, ReaderTakes(c)
  PROVE  /\ reader[c].pc = "recv" /\ raw # <<>> /\ raw' = Tail(raw) /\ raw' \in Seq(Items)
         /\ \/ ~Parses(Head(raw)) /\ reader' = reader
            \/ Parses(Head(raw)) /\ ReaderMoves(c, "send") /\ reader'[c].item = Head(raw)
         /\ UNCHANGED <<cliVars, wire, loop, passed, handler, out, hostVars>>
<1>1. raw \in Seq(Items) /\ raw # <<>> /\ raw' = Tail(raw)
  BY DEF TypeOK, ReaderTakes
<1>2. Head(raw) \in Items /\ raw' \in Seq(Items)
  BY <1>1, HeadTail
<1>3. CASE ~Parses(Head(raw))
  BY <1>1, <1>2, <1>3 DEF ReaderTakes
<1>4. CASE Parses(Head(raw))
  <2>1. reader' = [reader EXCEPT ![c] = [reader[c] EXCEPT !.pc = "send", !.item = Head(raw)]]
    BY <1>4 DEF ReaderTakes, TypeOK
  <2>2. reader[c] \in Readers
    BY DEF TypeOK
  <2>3. PICK r \in Readers : r = [reader[c] EXCEPT !.pc = "send"] /\ r.pc = "send" /\ r.until = reader[c].until
    <3>1. /\ [reader[c] EXCEPT !.pc = "send"] \in Readers
          /\ [reader[c] EXCEPT !.pc = "send"].pc = "send"
          /\ [reader[c] EXCEPT !.pc = "send"].until = reader[c].until
      BY <2>2 DEF Readers
    <3> QED
      BY <3>1
  <2>4. [r EXCEPT !.item = Head(raw)] \in Readers /\ [r EXCEPT !.item = Head(raw)].pc = "send"
        /\ [r EXCEPT !.item = Head(raw)].until = reader[c].until
        /\ [r EXCEPT !.item = Head(raw)].item = Head(raw)
    BY <1>2, <2>3 DEF Readers
  <2>5. PICK q \in Readers : q = [r EXCEPT !.item = Head(raw)] /\ q.pc = "send" /\ q.until = reader[c].until
                         /\ q.item = Head(raw)
    BY <2>4
  <2>6. reader' = [reader EXCEPT ![c] = q]
    BY <2>1, <2>3, <2>5
  <2>7. reader' \in [Calls -> Readers] /\ reader'[c] = q /\ \A d \in Calls : d # c => reader'[d] = reader[d]
    BY <2>6, ReaderEffect
  <2> QED
    BY <1>1, <1>2, <1>4, <2>5, <2>7 DEF ReaderTakes, ReaderMoves
<1> QED
  BY <1>3, <1>4

LEMMA SendsEffect ==
  ASSUME TypeOK, NEW c \in Calls, ReaderSends(c)
  PROVE  /\ reader[c].pc = "send" /\ reader[c].item \in Items
         /\ out' \in [Calls -> Seq(Items)] /\ out'[c] = Append(out[c], reader[c].item)
         /\ \A d \in Calls : d # c => out'[d] = out[d]
         /\ ReaderMoves(c, IF reader[c].until = "result" /\ IsResult(reader[c].item) THEN "done" ELSE "recv")
         /\ UNCHANGED <<cliVars, loopVars, handler, hostVars>>
<1> DEFINE pc == IF reader[c].until = "result" /\ IsResult(reader[c].item) THEN "done" ELSE "recv"
<1>1. reader[c] \in Readers /\ reader[c].item \in Items /\ out[c] \in Seq(Items) /\ NoItem \in Items
  BY ItemKinds DEF TypeOK, Readers
<1>2. /\ reader' = [reader EXCEPT ![c] = [reader[c] EXCEPT !.item = NoItem, !.pc = pc]]
      /\ out' = [out EXCEPT ![c] = Append(out[c], reader[c].item)]
  BY DEF ReaderSends, TypeOK
<1>3. pc \in {"recv", "done"}
  OBVIOUS
<1> HIDE DEF pc
<1>4. PICK r \in Readers : r = [reader[c] EXCEPT !.item = NoItem] /\ r.until = reader[c].until
  <2>1. [reader[c] EXCEPT !.item = NoItem] \in Readers /\ [reader[c] EXCEPT !.item = NoItem].until = reader[c].until
    BY <1>1 DEF Readers
  <2> QED
    BY <2>1
<1>5. [r EXCEPT !.pc = pc] \in Readers /\ [r EXCEPT !.pc = pc].pc = pc /\ [r EXCEPT !.pc = pc].until = r.until
  BY <1>3, <1>4 DEF Readers
<1>6. PICK q \in Readers : q = [r EXCEPT !.pc = pc] /\ q.pc = pc /\ q.until = reader[c].until
  BY <1>4, <1>5
<1>7. reader' = [reader EXCEPT ![c] = q]
  BY <1>2, <1>4, <1>6
<1>8. reader' \in [Calls -> Readers] /\ reader'[c] = q /\ \A d \in Calls : d # c => reader'[d] = reader[d]
  BY <1>7, ReaderEffect
<1>9. ReaderMoves(c, pc)
  BY <1>6, <1>8 DEF ReaderMoves
<1>10. Append(out[c], reader[c].item) \in Seq(Items)
  BY <1>1, Appended
<1>11. /\ out' \in [Calls -> Seq(Items)] /\ out'[c] = Append(out[c], reader[c].item)
       /\ \A d \in Calls : d # c => out'[d] = out[d]
  BY <1>2, <1>10 DEF TypeOK
<1> QED
  BY <1>1, <1>9, <1>11 DEF ReaderSends, pc

LEMMA EndsEffect ==
  ASSUME TypeOK, NEW c \in Calls, ReaderEnds(c)
  PROVE  /\ reader[c].pc = "recv" /\ ReaderMoves(c, "done")
         /\ UNCHANGED <<cliVars, loopVars, handler, out, hostVars>>
<1>1. reader[c] \in Readers
  BY DEF TypeOK
<1>2. reader' = [reader EXCEPT ![c] = [reader[c] EXCEPT !.pc = "done"]]
  BY DEF ReaderEnds
<1>3. /\ [reader[c] EXCEPT !.pc = "done"] \in Readers /\ [reader[c] EXCEPT !.pc = "done"].pc = "done"
      /\ [reader[c] EXCEPT !.pc = "done"].until = reader[c].until
  BY <1>1 DEF Readers
<1>4. PICK r \in Readers : r = [reader[c] EXCEPT !.pc = "done"] /\ r.pc = "done" /\ r.until = reader[c].until
  BY <1>3
<1>5. reader' \in [Calls -> Readers] /\ reader'[c] = r /\ \A d \in Calls : d # c => reader'[d] = reader[d]
  BY <1>2, <1>4, ReaderEffect
<1> QED
  BY <1>4, <1>5 DEF ReaderMoves, ReaderEnds

LEMMA StartEffect ==
  ASSUME TypeOK, NEW c \in Calls, NEW until \in {"result", "end"}, StartReader(c, until)
  PROVE  /\ reader' \in [Calls -> Readers] /\ reader'[c].pc = "recv" /\ reader'[c].until = until
         /\ \A d \in Calls : d # c => reader'[d] = reader[d]
<1>1. reader[c] \in Readers
  BY DEF TypeOK
<1>2. reader' = [reader EXCEPT ![c] = [reader[c] EXCEPT !.pc = "recv", !.until = until]]
  BY DEF StartReader, TypeOK
<1>3. [reader[c] EXCEPT !.pc = "recv"] \in Readers /\ [reader[c] EXCEPT !.pc = "recv"].pc = "recv"
  BY <1>1 DEF Readers
<1>4. PICK r \in Readers : r = [reader[c] EXCEPT !.pc = "recv"] /\ r.pc = "recv"
  BY <1>3
<1>5. [r EXCEPT !.until = until] \in Readers /\ [r EXCEPT !.until = until].pc = "recv"
      /\ [r EXCEPT !.until = until].until = until
  BY <1>4 DEF Readers
<1>6. PICK q \in Readers : q = [r EXCEPT !.until = until] /\ q.pc = "recv" /\ q.until = until
  BY <1>5
<1>7. reader' = [reader EXCEPT ![c] = q]
  BY <1>2, <1>4, <1>6
<1>8. reader' \in [Calls -> Readers] /\ reader'[c] = q /\ \A d \in Calls : d # c => reader'[d] = reader[d]
  BY <1>7, ReaderEffect
<1> QED
  BY <1>6, <1>8

(* ---- the host ---- *)

\* The host's record, as one of its calls leaves it.
Becomes(sent, calls, at) ==
  /\ host' \in Hosts /\ host'.style = host.style
  /\ host'.sent = sent /\ host'.calls = calls /\ host'.at = at

LEMMA HostFields ==
  ASSUME TypeOK, StreamAssumption
  PROVE  /\ host \in Hosts /\ host.style \in {"receive", "stream", "each"} /\ host.calls <= host.sent
         /\ host.sent \in 0..MaxPrompts /\ host.calls \in 0..MaxPrompts /\ host.at \in 0..MaxPrompts
         /\ MaxPrompts \in Nat /\ MaxPrompts > 0 /\ 0 \in 0..MaxPrompts
BY DEF TypeOK, Hosts, StreamAssumption

\* One, two or three of its fields changed in turn.
LEMMA SetSent ==
  ASSUME NEW h \in Hosts, NEW n \in 0..MaxPrompts
  PROVE  \E k \in Hosts : /\ k = [h EXCEPT !.sent = n]
                          /\ k.style = h.style /\ k.sent = n /\ k.calls = h.calls /\ k.at = h.at
<1>1. /\ [h EXCEPT !.sent = n] \in Hosts /\ [h EXCEPT !.sent = n].style = h.style
      /\ [h EXCEPT !.sent = n].sent = n /\ [h EXCEPT !.sent = n].calls = h.calls
      /\ [h EXCEPT !.sent = n].at = h.at
  BY DEF Hosts
<1> QED
  BY <1>1

LEMMA SetCalls ==
  ASSUME NEW h \in Hosts, NEW n \in 0..MaxPrompts
  PROVE  \E k \in Hosts : /\ k = [h EXCEPT !.calls = n]
                          /\ k.style = h.style /\ k.sent = h.sent /\ k.calls = n /\ k.at = h.at
<1>1. /\ [h EXCEPT !.calls = n] \in Hosts /\ [h EXCEPT !.calls = n].style = h.style
      /\ [h EXCEPT !.calls = n].sent = h.sent /\ [h EXCEPT !.calls = n].calls = n
      /\ [h EXCEPT !.calls = n].at = h.at
  BY DEF Hosts
<1> QED
  BY <1>1

LEMMA SetAt ==
  ASSUME NEW h \in Hosts, NEW n \in 0..MaxPrompts
  PROVE  \E k \in Hosts : /\ k = [h EXCEPT !.at = n]
                          /\ k.style = h.style /\ k.sent = h.sent /\ k.calls = h.calls /\ k.at = n
<1>1. /\ [h EXCEPT !.at = n] \in Hosts /\ [h EXCEPT !.at = n].style = h.style
      /\ [h EXCEPT !.at = n].sent = h.sent /\ [h EXCEPT !.at = n].calls = h.calls
      /\ [h EXCEPT !.at = n].at = n
  BY DEF Hosts
<1> QED
  BY <1>1

LEMMA SendEffect ==
  ASSUME TypeOK, StreamAssumption, Send
  PROVE  /\ Becomes(host.sent + 1, host.calls, host.at)
         /\ UNCHANGED <<cliVars, loopVars, handler, readVars, got, closed>>
<1>1. host.sent + 1 \in 0..MaxPrompts /\ host \in Hosts
  BY HostFields DEF Send
<1>2. host' = [host EXCEPT !.sent = host.sent + 1]
  BY DEF Send
<1>3. PICK h \in Hosts : /\ h = [host EXCEPT !.sent = host.sent + 1]
                         /\ h.style = host.style /\ h.sent = host.sent + 1 /\ h.calls = host.calls /\ h.at = host.at
  BY <1>1, SetSent
<1> QED
  BY <1>2, <1>3 DEF Becomes, Send

LEMMA ReceiveEffect ==
  ASSUME TypeOK, StreamAssumption, ReceiveResponse
  PROVE  /\ host.style = "receive" /\ host.at = 0 /\ host.calls + 1 \in Calls /\ host.calls + 1 <= host.sent
         /\ Becomes(host.sent, host.calls + 1, host.calls + 1)
         /\ StartReader(host.calls + 1, "result")
         /\ UNCHANGED <<cliVars, loopVars, handler, out, got, closed>>
<1>1. host.calls + 1 \in 0..MaxPrompts /\ host.calls + 1 \in Calls /\ host.calls + 1 <= host.sent /\ host \in Hosts
  BY HostFields DEF ReceiveResponse, Calls
<1>2. host' = [host EXCEPT !.calls = host.calls + 1, !.at = host.calls + 1]
  BY DEF ReceiveResponse
<1>3. PICK h \in Hosts : /\ h = [host EXCEPT !.calls = host.calls + 1]
                         /\ h.style = host.style /\ h.sent = host.sent /\ h.calls = host.calls + 1 /\ h.at = host.at
  BY <1>1, SetCalls
<1>4. PICK k \in Hosts : /\ k = [h EXCEPT !.at = host.calls + 1]
                         /\ k.style = h.style /\ k.sent = h.sent /\ k.calls = h.calls /\ k.at = host.calls + 1
  BY <1>1, <1>3, SetAt
<1>5. host' = k
  BY <1>2, <1>3, <1>4
<1> QED
  BY <1>1, <1>3, <1>4, <1>5 DEF ReceiveResponse, Becomes

LEMMA QueryEffect ==
  ASSUME TypeOK, StreamAssumption, Query
  PROVE  /\ host.style = "each" \/ (host.style = "stream" /\ host.calls = 0)
         /\ host.at = 0 /\ host.calls + 1 \in Calls
         /\ Becomes(host.sent + 1, host.calls + 1, host.calls + 1)
         /\ StartReader(host.calls + 1, "end")
         /\ UNCHANGED <<cliVars, loopVars, handler, out, got, closed>>
<1>1. host.calls + 1 \in 0..MaxPrompts /\ host.calls + 1 \in Calls /\ host.sent + 1 \in 0..MaxPrompts /\ host \in Hosts
  BY HostFields DEF Query, Calls
<1>2. host' = [host EXCEPT !.sent = host.sent + 1, !.calls = host.calls + 1, !.at = host.calls + 1]
  BY DEF Query
<1>3. PICK g \in Hosts : /\ g = [host EXCEPT !.sent = host.sent + 1]
                         /\ g.style = host.style /\ g.sent = host.sent + 1 /\ g.calls = host.calls /\ g.at = host.at
  BY <1>1, SetSent
<1>4. PICK h \in Hosts : /\ h = [g EXCEPT !.calls = host.calls + 1]
                         /\ h.style = g.style /\ h.sent = g.sent /\ h.calls = host.calls + 1 /\ h.at = g.at
  BY <1>1, <1>3, SetCalls
<1>5. PICK k \in Hosts : /\ k = [h EXCEPT !.at = host.calls + 1]
                         /\ k.style = h.style /\ k.sent = h.sent /\ k.calls = h.calls /\ k.at = host.calls + 1
  BY <1>1, <1>4, SetAt
<1>6. host' = k
  BY <1>2, <1>3, <1>4, <1>5
<1>7. Becomes(host.sent + 1, host.calls + 1, host.calls + 1)
  BY <1>3, <1>4, <1>5, <1>6 DEF Becomes
<1>8. /\ host.style = "each" \/ (host.style = "stream" /\ host.calls = 0)
      /\ host.at = 0 /\ StartReader(host.calls + 1, "end")
      /\ UNCHANGED <<cliVars, loopVars, handler, out, got, closed>>
  BY DEF Query
<1> QED
  BY <1>1, <1>7, <1>8

\* The host leaves a channel only at a result, and not one it follows to the end.
LEMMA TakeMessageEffect ==
  ASSUME TypeOK, StreamAssumption, TakeMessage
  PROVE  /\ host.at \in Calls /\ out[host.at] \in Seq(Items) /\ out[host.at] # <<>>
         /\ out' \in [Calls -> Seq(Items)] /\ out'[host.at] = Tail(out[host.at])
         /\ \A d \in Calls : d # host.at => out'[d] = out[d]
         /\ got' \in [Calls -> Seq(Items)] /\ got'[host.at] = Append(got[host.at], Head(out[host.at]))
         /\ \A d \in Calls : d # host.at => got'[d] = got[d]
         /\ \/ IsResult(Head(out[host.at])) /\ host.style # "stream" /\ Becomes(host.sent, host.calls, 0)
            \/ UNCHANGED host
         /\ UNCHANGED <<cliVars, loopVars, handler, reader, closed>>
<1>1. host.at \in Calls /\ host \in Hosts /\ 0 \in 0..MaxPrompts
  BY HostFields DEF TakeMessage, Calls
<1>2. out[host.at] \in Seq(Items) /\ out[host.at] # <<>>
  BY <1>1 DEF TypeOK, TakeMessage
<1>3. Tail(out[host.at]) \in Seq(Items)
  BY <1>2, HeadTail
<1>4. /\ out' = [out EXCEPT ![host.at] = Tail(out[host.at])]
      /\ got' = [got EXCEPT ![host.at] = Append(got[host.at], Head(out[host.at]))]
  BY DEF TakeMessage, TypeOK
<1>5. PICK h \in Hosts : /\ h = [host EXCEPT !.at = 0]
                         /\ h.style = host.style /\ h.sent = host.sent /\ h.calls = host.calls /\ h.at = 0
  BY <1>1, SetAt
<1>6. \/ IsResult(Head(out[host.at])) /\ host.style # "stream" /\ host' = [host EXCEPT !.at = 0]
      \/ UNCHANGED host
  BY DEF TakeMessage
<1>7. /\ out' \in [Calls -> Seq(Items)] /\ out'[host.at] = Tail(out[host.at])
      /\ \A d \in Calls : d # host.at => out'[d] = out[d]
  BY <1>1, <1>3, <1>4 DEF TypeOK
<1>9. Append(got[host.at], Head(out[host.at])) \in Seq(Items)
  <2>1. got[host.at] \in Seq(Items) /\ Head(out[host.at]) \in Items
    BY <1>1, <1>2, HeadTail DEF TypeOK
  <2> QED BY <2>1, Appended
<1>10. /\ got' \in [Calls -> Seq(Items)] /\ got'[host.at] = Append(got[host.at], Head(out[host.at]))
       /\ \A d \in Calls : d # host.at => got'[d] = got[d]
  BY <1>1, <1>4, <1>9 DEF TypeOK
<1>8. UNCHANGED <<cliVars, loopVars, handler, reader, closed>>
  BY DEF TakeMessage
<1> QED
  BY <1>1, <1>2, <1>5, <1>6, <1>7, <1>8, <1>10 DEF Becomes

LEMMA SeesEndEffect ==
  ASSUME TypeOK, StreamAssumption, SeesEnd
  PROVE  /\ host.at \in Calls /\ reader[host.at].pc = "done" /\ Becomes(host.sent, host.calls, 0)
         /\ UNCHANGED <<cliVars, loopVars, handler, readVars, got, closed>>
<1>1. host.at \in Calls /\ host \in Hosts /\ 0 \in 0..MaxPrompts
  BY HostFields DEF SeesEnd, Calls
<1>2. PICK h \in Hosts : /\ h = [host EXCEPT !.at = 0]
                         /\ h.style = host.style /\ h.sent = host.sent /\ h.calls = host.calls /\ h.at = 0
  BY <1>1, SetAt
<1> QED
  BY <1>1, <1>2 DEF SeesEnd, Becomes

(* ---- one step ---- *)

CliStep == CliStartsTurn \/ CliFollowsUp \/ CliEndsTurn \/ CliExits \/ \E frame \in Bodies : CliSays(frame)

LEMMA StepKinds ==
  ASSUME [Next]_vars
  PROVE  \/ CliStep \/ (\E request \in AskKinds : CliAsks(request)) \/ LoopStep
         \/ (\E a \in Asks : CallbackReturns(a) \/ Respond(a)) \/ (\E c \in Calls : ReaderStep(c))
         \/ Send \/ ReceiveResponse \/ Query \/ TakeMessage \/ SeesEnd \/ Close \/ UNCHANGED vars
BY DEF Next, CliStep, HostReads

LEMMA TypeNext == ASSUME StreamAssumption, TypeOK, Handled, [Next]_vars PROVE TypeOK'
<1> USE DEF cliVars, loopVars, readVars, hostVars
<1>1. CASE CliStep
  <2>1. PICK s \in Seq(Items \cup AskItems) : wire' = s
    <3>1. wire \in Seq(Items \cup AskItems)
      BY DEF TypeOK
    <3>2. ASSUME NEW x \in Items PROVE Append(wire, x) \in Seq(Items \cup AskItems)
      BY <3>1, Appended
    <3> QED
      BY <1>1, <3>1, <3>2, CliEffect DEF CliStep
  <2>2. cli' \in Clis /\ UNCHANGED <<heard, loop, raw, passed, handler, readVars, hostVars>>
    BY <1>1, CliEffect DEF CliStep
  <2> QED
    BY <2>1, <2>2 DEF TypeOK
<1>2. ASSUME NEW request \in AskKinds, CliAsks(request) PROVE TypeOK'
  <2> DEFINE x == [ask |-> cli.asked + 1, request |-> request]
  <2>1. wire \in Seq(Items \cup AskItems) /\ x \in Items \cup AskItems /\ wire' = Append(wire, x)
    BY <1>2, AskEffect DEF TypeOK
  <2> HIDE DEF x
  <2>2. wire' \in Seq(Items \cup AskItems)
    BY <2>1, Appended
  <2>3. cli' \in Clis /\ UNCHANGED <<heard, loop, raw, passed, handler, readVars, hostVars>>
    BY <1>2, AskEffect
  <2> QED
    BY <2>2, <2>3 DEF TypeOK
<1>3. CASE LoopStep
  BY <1>3, TypeLoop
<1>4. ASSUME NEW a \in Asks, CallbackReturns(a) PROVE TypeOK'
  <2>1. handler[a].request \in AskKinds
    BY <1>4 DEF Handled, CallbackReturns
  <2> QED
    BY <1>4, <2>1, CallbackEffect DEF TypeOK
<1>5. ASSUME NEW a \in Asks, Respond(a) PROVE TypeOK'
  BY <1>5, RespondEffect DEF TypeOK
<1>6. ASSUME NEW c \in Calls, ReaderStep(c) PROVE TypeOK'
  <2>1. CASE ReaderTakes(c)
    BY <2>1, TakesEffect DEF TypeOK, ReaderMoves
  <2>2. CASE ReaderSends(c)
    BY <2>2, SendsEffect DEF TypeOK, ReaderMoves
  <2>3. CASE ReaderEnds(c)
    BY <2>3, EndsEffect DEF TypeOK, ReaderMoves
  <2> QED
    BY <1>6, <2>1, <2>2, <2>3 DEF ReaderStep
<1>7. CASE Send
  <2>1. host' \in Hosts /\ host'.calls <= host'.sent
    BY <1>7, SendEffect, HostFields DEF Becomes
  <2> QED
    BY <1>7, <2>1, SendEffect DEF TypeOK
<1>8. CASE ReceiveResponse
  <2>1. host' \in Hosts /\ host'.calls <= host'.sent /\ host.calls + 1 \in Calls
    BY <1>8, ReceiveEffect DEF Becomes
  <2>2. reader' \in [Calls -> Readers]
    BY <1>8, <2>1, ReceiveEffect, StartEffect
  <2> QED
    BY <1>8, <2>1, <2>2, ReceiveEffect DEF TypeOK
<1>9. CASE Query
  <2>1. host' \in Hosts /\ host'.calls <= host'.sent /\ host.calls + 1 \in Calls
    BY <1>9, QueryEffect, HostFields DEF Becomes
  <2>2. reader' \in [Calls -> Readers]
    BY <1>9, <2>1, QueryEffect, StartEffect
  <2> QED
    BY <1>9, <2>1, <2>2, QueryEffect DEF TypeOK
<1>10. CASE TakeMessage
  <2>1. host' \in Hosts /\ host'.calls <= host'.sent
    BY <1>10, TakeMessageEffect, HostFields DEF Becomes
  <2> QED
    BY <1>10, <2>1, TakeMessageEffect DEF TypeOK
<1>11. CASE SeesEnd
  <2>1. host' \in Hosts /\ host'.calls <= host'.sent
    BY <1>11, SeesEndEffect, HostFields DEF Becomes
  <2> QED
    BY <1>11, <2>1, SeesEndEffect DEF TypeOK
<1>12. CASE Close
  BY <1>12 DEF Close, TypeOK
<1>13. CASE UNCHANGED vars
  BY <1>13 DEF vars, TypeOK
<1> QED
  BY <1>1, <1>2, <1>3, <1>4, <1>5, <1>6, <1>7, <1>8, <1>9, <1>10, <1>11, <1>12, <1>13, StepKinds

(* ---- requests ---- *)

LEMMA RequestInit == ASSUME StreamAssumption PROVE Init => RequestInv
<1> SUFFICES ASSUME Init PROVE RequestInv
  OBVIOUS
<1>1. Len(wire) = 0
  BY DEF Init
<1> QED
  BY <1>1 DEF Init, RequestInv, InPipe, Handled

\* A step that leaves the requests alone, and appends at most a frame of a turn.
LEMMA RequestsKept ==
  ASSUME TypeOK, RequestInv, cli'.asked = cli.asked, UNCHANGED <<heard, handler>>,
         wire' = wire \/ \E x \in Items : wire' = Append(wire, x)
  PROVE  RequestInv'
<1>1. Handled'
  BY DEF Handled, RequestInv
<1>2. CASE wire' = wire
  BY <1>1, <1>2 DEF RequestInv, InPipe
<1>3. ASSUME NEW x \in Items, wire' = Append(wire, x) PROVE InPipe'
  <2>1. wire \in Seq(Items \cup AskItems) /\ x \in Items \cup AskItems /\ x \notin AskItems
    BY ItemKinds DEF TypeOK
  <2>2. Len(wire') = Len(wire) + 1 /\ Len(wire) \in Nat /\ wire'[Len(wire) + 1] = x
        /\ \A i \in 1..Len(wire) : wire'[i] = wire[i]
    BY <1>3, <2>1, Appended
  <2>3. \A i \in 1..Len(wire') : wire'[i] \in AskItems => i \in 1..Len(wire) /\ wire'[i] = wire[i]
    BY <2>1, <2>2
  <2> QED
    BY <2>3 DEF RequestInv, InPipe
<1> QED
  BY <1>1, <1>2, <1>3 DEF RequestInv

\* A step of one handler, whose request has left the pipe.
LEMMA HandlerKept ==
  ASSUME TypeOK, RequestInv, NEW a \in Asks, handler[a].pc # "none",
         wire' = wire, cli'.asked = cli.asked, cli.asked \in Nat,
         \A b \in Asks : b # a => handler'[b] = handler[b]
  PROVE  InPipe'
<1>1. \A i \in 1..Len(wire) : wire[i] \in AskItems => wire[i].ask \in Asks
  BY DEF AskItems
<1> QED
  BY <1>1 DEF RequestInv, InPipe

LEMMA RequestNext == ASSUME StreamAssumption, TypeOK, RequestInv, [Next]_vars PROVE RequestInv'
<1> USE DEF cliVars, loopVars, readVars, hostVars
<1>0. cli.asked \in Nat
  BY DEF TypeOK, Clis
<1>1. CASE CliStep
  BY <1>1, CliEffect, RequestsKept DEF CliStep
<1>2. ASSUME NEW request \in AskKinds, CliAsks(request) PROVE RequestInv'
  <2> DEFINE a == cli.asked + 1
             x == [ask |-> a, request |-> request]
  <2>1. /\ cli'.asked = a /\ a \in Asks /\ x \in AskItems /\ wire' = Append(wire, x)
        /\ handler' = handler /\ heard' = heard
    BY <1>2, AskEffect
  <2>2. wire \in Seq(Items \cup AskItems) /\ x \in Items \cup AskItems
    BY <2>1 DEF TypeOK
  <2>3. Len(wire') = Len(wire) + 1 /\ Len(wire) \in Nat /\ wire'[Len(wire) + 1] = x
        /\ \A i \in 1..Len(wire) : wire'[i] = wire[i]
    BY <2>1, <2>2, Appended
  <2>4. x.ask = a /\ handler[a].pc = "none"
    BY <1>0, <2>1 DEF RequestInv, Handled, Asks
  <2> HIDE DEF x, a
  <2>5. ASSUME NEW i \in 1..Len(wire), wire[i] \in AskItems
        PROVE  wire[i].ask \in Nat /\ wire[i].ask <= cli.asked /\ wire[i].ask # a
    BY <1>0, <2>5, SMTT(60) DEF RequestInv, InPipe, AskItems, Asks, a
  <2>6. InPipe'
    BY <1>0, <2>1, <2>3, <2>4, <2>5, SMTT(60) DEF RequestInv, InPipe, a
  <2>7. Handled'
    BY <1>0, <2>1 DEF RequestInv, Handled, a, Asks
  <2> QED
    BY <2>6, <2>7 DEF RequestInv
<1>3. CASE TakeFrame
  <2>1. /\ wire \in Seq(Items \cup AskItems) /\ wire # <<>> /\ wire' = Tail(wire)
        /\ cli' = cli /\ heard' = heard
    BY <1>3, TakeEffect DEF TypeOK
  <2>2. /\ Head(wire) = wire[1] /\ 1 \in 1..Len(wire)
        /\ \A i \in 1..Len(wire') : wire'[i] = wire[i + 1] /\ i + 1 \in 1..Len(wire) /\ i + 1 # 1
    BY <2>1, HeadTail
  <2>3. \A i, j \in 1..Len(wire') : i + 1 = j + 1 => i = j
    OBVIOUS
  <2>4. CASE handler' = handler
    <3>1. InPipe'
      BY <2>1, <2>2, <2>3, <2>4 DEF RequestInv, InPipe
    <3> QED
      BY <2>1, <2>4, <3>1 DEF RequestInv, Handled
  <2>5. CASE handler' # handler
    <3> DEFINE a == wire[1].ask
    <3>1. /\ wire[1] \in AskItems /\ a \in Asks /\ handler'[a].pc = "callback" /\ handler'[a].request \in AskKinds
          /\ \A b \in Asks : b # a => handler'[b] = handler[b]
      BY <1>3, <2>2, <2>5, AskTaken
    <3>2. a <= cli.asked /\ handler[a].pc = "none"
      BY <2>2, <3>1 DEF RequestInv, InPipe
    <3>3. \A i \in 1..Len(wire') : wire'[i] \in AskItems => wire'[i].ask \in Asks /\ wire'[i].ask # a
      BY <2>2, <3>1, SMTT(60) DEF RequestInv, InPipe, AskItems
    <3> HIDE DEF a
    <3>4. InPipe'
      BY <2>1, <2>2, <2>3, <3>1, <3>3, SMTT(60) DEF RequestInv, InPipe
    <3>5. heard[a] = Unheard /\ ~(cli.asked < a)
      BY <1>0, <3>1, <3>2 DEF RequestInv, Handled, Asks
    <3>6. Handled'
      BY <2>1, <3>1, <3>5 DEF RequestInv, Handled
    <3> QED
      BY <3>4, <3>6 DEF RequestInv
  <2> QED
    BY <2>4, <2>5
<1>4. CASE Forward \/ LoopEnds
  <2>1. UNCHANGED <<cli, heard, handler, wire>>
    BY <1>4 DEF Forward, LoopEnds
  <2> QED
    BY <2>1, RequestsKept
<1>5. ASSUME NEW a \in Asks, CallbackReturns(a) PROVE RequestInv'
  <2>1. handler[a].request \in AskKinds /\ handler[a].pc = "callback"
    BY <1>5 DEF RequestInv, Handled, CallbackReturns
  <2>2. /\ handler'[a].pc = "respond" /\ handler'[a].request = handler[a].request
        /\ handler'[a].returned \in Results(handler[a].request)
        /\ \A b \in Asks : b # a => handler'[b] = handler[b]
        /\ UNCHANGED <<cli, heard, wire>>
    BY <1>5, <2>1, CallbackEffect
  <2>3. InPipe'
    BY <1>0, <2>1, <2>2, HandlerKept
  <2>4. Handled'
    BY <1>0, <2>1, <2>2 DEF RequestInv, Handled, Asks
  <2> QED
    BY <2>3, <2>4 DEF RequestInv
<1>6. ASSUME NEW a \in Asks, Respond(a) PROVE RequestInv'
  <2>1. /\ handler[a].pc = "respond" /\ handler'[a].pc = "done"
        /\ handler'[a].request = handler[a].request /\ handler'[a].returned = handler[a].returned
        /\ \A b \in Asks : b # a => handler'[b] = handler[b] /\ heard'[b] = heard[b]
        /\ heard'[a] \in {heard[a], HandleControlRequest(handler[a].request, handler[a].returned)}
        /\ cli'.asked = cli.asked /\ wire' = wire
    BY <1>6, RespondEffect
  <2>2. InPipe'
    BY <1>0, <2>1, HandlerKept
  <2>3. Handled'
    BY <1>0, <2>1 DEF RequestInv, Handled, Asks
  <2> QED
    BY <2>2, <2>3 DEF RequestInv
<1>7. ASSUME NEW c \in Calls, ReaderStep(c) PROVE RequestInv'
  <2>1. UNCHANGED <<cli, heard, handler, wire>>
    BY <1>7 DEF ReaderStep, ReaderTakes, ReaderSends, ReaderEnds
  <2> QED
    BY <2>1, RequestsKept
<1>8. CASE Send \/ ReceiveResponse \/ Query \/ TakeMessage \/ SeesEnd \/ Close \/ UNCHANGED vars
  <2>1. UNCHANGED <<cli, heard, handler, wire>>
    BY <1>8 DEF Send, ReceiveResponse, Query, TakeMessage, SeesEnd, Close, vars
  <2> QED
    BY <2>1, RequestsKept
<1> QED
  BY <1>1, <1>2, <1>3, <1>4, <1>5, <1>6, <1>7, <1>8, StepKinds DEF LoopStep

(* ---- calls ---- *)

LEMMA ReaderInit == ASSUME StreamAssumption PROVE Init => ReaderInv
<1> SUFFICES ASSUME Init PROVE ReaderInv
  OBVIOUS
<1>1. /\ host.at = 0 /\ host.calls = 0
      /\ \A c \in Calls : reader[c].pc = "none" /\ out[c] = <<>>
  BY DEF Init
<1>2. \A c \in Calls : Len(out[c]) = 0
  BY <1>1
<1> QED
  BY <1>1, <1>2 DEF ReaderInv, Active

\* The goroutine of a call moves on; what it had sent is still in its channel.
LEMMA ReaderGoesOn ==
  ASSUME StreamAssumption, TypeOK, ReaderInv, NEW c \in Calls, Active(c), UNCHANGED <<host, out>>,
         NEW pc \in {"recv", "send", "done"}, ReaderMoves(c, pc)
  PROVE  ReaderInv'
<1> SUFFICES ASSUME host.style # "each" PROVE ReaderInv'
  BY DEF ReaderInv
<1>1. reader'[c].pc = pc /\ reader'[c].until = reader[c].until /\ \A d \in Calls : d # c => reader'[d] = reader[d]
  BY DEF ReaderMoves
<1>2. host.at = c /\ reader[c].pc # "none" /\ reader[c].pc # "done" /\ host.calls >= c
  BY HostFields DEF ReaderInv, Active, Calls
<1>3. ASSUME NEW d \in Calls
      PROVE  /\ Active(d)' => host.at = d
             /\ reader'[d].pc # "none" => reader'[d].until = IF host.style = "receive" THEN "result" ELSE "end"
             /\ host.calls < d => reader'[d].pc = "none" /\ out[d] = <<>>
             /\ host.style = "receive" =>
                  \A k \in 1..Len(out[d]) : IsResult(out[d][k]) => reader'[d].pc = "done"
  <2>1. CASE d = c
    BY <1>1, <1>2, <2>1, HostFields DEF ReaderInv, Active, Calls
  <2>2. CASE d # c
    BY <1>1, <2>2 DEF ReaderInv, Active
  <2> QED
    BY <2>1, <2>2
<1> QED
  BY <1>3 DEF ReaderInv

LEMMA ReaderNext == ASSUME StreamAssumption, TypeOK, ReaderInv, [Next]_vars PROVE ReaderInv'
<1> USE DEF cliVars, loopVars, readVars, hostVars
<1>1. CASE UNCHANGED <<reader, out, host>>
  BY <1>1, SMTT(60) DEF ReaderInv, Active
<1>2. CASE CliStep \/ (\E request \in AskKinds : CliAsks(request)) \/ LoopStep
             \/ (\E a \in Asks : CallbackReturns(a) \/ Respond(a)) \/ Close \/ UNCHANGED vars
  BY <1>1, <1>2 DEF CliStep, CliStartsTurn, CliFollowsUp, CliEndsTurn, CliExits, CliSays, CliAsks, LoopStep,
       TakeFrame, Forward, LoopEnds, CallbackReturns, Respond, Close, vars
<1>3. ASSUME NEW c \in Calls, ReaderTakes(c) PROVE ReaderInv'
  BY <1>1, <1>3, TakesEffect, ReaderGoesOn DEF Active
<1>4. ASSUME NEW c \in Calls, ReaderEnds(c) PROVE ReaderInv'
  BY <1>4, EndsEffect, ReaderGoesOn DEF Active
<1>5. ASSUME NEW c \in Calls, ReaderSends(c), host.style # "each" PROVE ReaderInv'
  <2> DEFINE pc == IF reader[c].until = "result" /\ IsResult(reader[c].item) THEN "done" ELSE "recv"
  <2>1. /\ reader[c].pc = "send" /\ reader[c].item \in Items
        /\ out'[c] = Append(out[c], reader[c].item) /\ \A d \in Calls : d # c => out'[d] = out[d]
        /\ reader'[c].pc = pc /\ reader'[c].until = reader[c].until
        /\ \A d \in Calls : d # c => reader'[d] = reader[d]
        /\ host' = host
    BY <1>5, SendsEffect DEF ReaderMoves
  <2>2. /\ host.at = c /\ ~(host.calls < c)
        /\ reader[c].until = IF host.style = "receive" THEN "result" ELSE "end"
    BY <1>5, <2>1 DEF ReaderInv, Active
  <2>3. ASSUME host.style = "receive", NEW k \in 1..Len(out'[c]), IsResult(out'[c][k]) PROVE pc = "done"
    <3>1. out[c] \in Seq(Items)
      BY DEF TypeOK
    <3>2. /\ Len(out'[c]) = Len(out[c]) + 1 /\ Len(out[c]) \in Nat
          /\ out'[c][Len(out[c]) + 1] = reader[c].item
          /\ \A i \in 1..Len(out[c]) : out'[c][i] = out[c][i]
      BY <2>1, <3>1, Appended
    <3>3. \A i \in 1..Len(out[c]) : ~IsResult(out[c][i])
      BY <1>5, <2>1, <2>3 DEF ReaderInv
    <3>4. k = Len(out[c]) + 1
      <4>1. CASE k \in 1..Len(out[c])
        <5>1. out'[c][k] = out[c][k] /\ ~IsResult(out[c][k])
          BY <3>2, <3>3, <4>1
        <5> QED
          BY <2>3, <5>1
      <4>2. CASE k \notin 1..Len(out[c])
        BY <3>2, <4>2, SMTT(60)
      <4> QED
        BY <4>1, <4>2
    <3> QED
      BY <2>2, <2>3, <3>2, <3>4
  <2>4. pc \in {"recv", "done"}
    OBVIOUS
  <2> HIDE DEF pc
  <2>5. ASSUME NEW d \in Calls
        PROVE  /\ Active(d)' => host.at = d
               /\ reader'[d].pc # "none" => reader'[d].until = IF host.style = "receive" THEN "result" ELSE "end"
               /\ host.calls < d => reader'[d].pc = "none" /\ out'[d] = <<>>
               /\ host.style = "receive" =>
                    \A k \in 1..Len(out'[d]) : IsResult(out'[d][k]) => reader'[d].pc = "done"
    <3>1. CASE d = c
      BY <2>1, <2>2, <2>3, <2>4, <3>1
    <3>2. CASE d # c
      BY <1>5, <2>1, <3>2, SMTT(60) DEF ReaderInv, Active
    <3> QED
      BY <3>1, <3>2
  <2> QED
    BY <1>5, <2>1, <2>5 DEF ReaderInv
<1>6. CASE Send
  <2>1. /\ host'.style = host.style /\ host'.calls = host.calls /\ host'.at = host.at
        /\ reader' = reader /\ out' = out
    BY <1>6, SendEffect DEF Becomes
  <2> QED
    BY <2>1 DEF ReaderInv, Active
<1>7. ASSUME NEW c \in Calls, c = host.calls + 1, host.at = 0, host'.style = host.style,
             host'.calls = c, host'.at = c, out' = out, reader'[c].pc = "recv",
             \/ host.style = "receive" /\ reader'[c].until = "result"
             \/ host.style = "stream" /\ host.calls = 0 /\ reader'[c].until = "end",
             \A d \in Calls : d # c => reader'[d] = reader[d]
      PROVE  ReaderInv'
  <2>1. host.calls \in Nat /\ c \in Nat /\ host.calls < c /\ host.style # "each" /\ \A d \in Calls : d \in Nat
    BY <1>7, HostFields DEF Calls
  <2>2. out[c] = <<>> /\ Len(out[c]) = 0
    BY <1>7, <2>1 DEF ReaderInv
  <2>3. ASSUME NEW d \in Calls
        PROVE  /\ Active(d)' => d = c
               /\ reader'[d].pc # "none" => reader'[d].until = IF host.style = "receive" THEN "result" ELSE "end"
               /\ c < d => reader'[d].pc = "none" /\ out[d] = <<>>
               /\ host.style = "receive" =>
                    \A k \in 1..Len(out[d]) : IsResult(out[d][k]) => reader'[d].pc = "done"
    <3>1. CASE d = c
      BY <1>7, <2>1, <2>2, <3>1
    <3>2. CASE d # c
      <4>1. ~Active(d)
        BY <1>7, <2>1 DEF ReaderInv, Calls
      <4>2. ~Active(d)' /\ reader'[d] = reader[d]
        BY <1>7, <3>2, <4>1 DEF Active
      <4> QED
        BY <1>7, <2>1, <3>2, <4>2 DEF ReaderInv
    <3> QED
      BY <3>1, <3>2
  <2> QED
    BY <1>7, <2>1, <2>3 DEF ReaderInv
<1>8. CASE ReceiveResponse
  <2> DEFINE c == host.calls + 1
  <2>1. /\ c \in Calls /\ host.style = "receive" /\ host.at = 0 /\ StartReader(c, "result") /\ out' = out
        /\ host'.style = host.style /\ host'.calls = c /\ host'.at = c
    BY <1>8, ReceiveEffect DEF Becomes
  <2>2. reader'[c].pc = "recv" /\ reader'[c].until = "result" /\ \A d \in Calls : d # c => reader'[d] = reader[d]
    BY <2>1, StartEffect
  <2> QED
    BY <1>7, <2>1, <2>2
<1>9. ASSUME Query, host.style # "each" PROVE ReaderInv'
  <2> DEFINE c == host.calls + 1
  <2>1. /\ c \in Calls /\ host.style = "stream" /\ host.calls = 0 /\ host.at = 0 /\ StartReader(c, "end")
        /\ out' = out /\ host'.style = host.style /\ host'.calls = c /\ host'.at = c
    BY <1>9, QueryEffect DEF Becomes
  <2>2. reader'[c].pc = "recv" /\ reader'[c].until = "end" /\ \A d \in Calls : d # c => reader'[d] = reader[d]
    BY <2>1, StartEffect
  <2> QED
    BY <1>7, <2>1, <2>2
<1>10. ASSUME TakeMessage, host.style # "each" PROVE ReaderInv'
  <2>1. /\ host.at \in Calls /\ out[host.at] \in Seq(Items) /\ out[host.at] # <<>>
        /\ out'[host.at] = Tail(out[host.at]) /\ \A d \in Calls : d # host.at => out'[d] = out[d]
        /\ reader' = reader
        /\ \/ /\ IsResult(Head(out[host.at])) /\ host.style # "stream"
              /\ host'.style = host.style /\ host'.calls = host.calls /\ host'.at = 0
           \/ host' = host
    BY <1>10, TakeMessageEffect DEF Becomes
  <2>2. /\ Head(out[host.at]) = out[host.at][1] /\ 1 \in 1..Len(out[host.at])
        /\ \A k \in 1..Len(out'[host.at]) :
              out'[host.at][k] = out[host.at][k + 1] /\ k + 1 \in 1..Len(out[host.at])
    BY <2>1, HeadTail, SMTT(60)
  <2>3. ASSUME NEW d \in Calls
        PROVE  /\ host.calls < d => out'[d] = <<>>
               /\ host.style = "receive" =>
                    \A k \in 1..Len(out'[d]) : IsResult(out'[d][k]) => reader[d].pc = "done"
    <3>1. CASE d = host.at
      BY <1>10, <2>1, <2>2, <3>1, ZenonT(60) DEF ReaderInv
    <3>2. CASE d # host.at
      BY <1>10, <2>1, <3>2 DEF ReaderInv
    <3> QED
      BY <3>1, <3>2
  <2>4. CASE host' = host
    BY <1>10, <2>1, <2>3, <2>4 DEF ReaderInv, Active
  <2>5. CASE host' # host
    <3>1. host.style = "receive" /\ host'.style = host.style /\ host'.calls = host.calls /\ host'.at = 0
      BY <1>10, <2>1, <2>5, HostFields
    <3>2. reader[host.at].pc = "done"
      BY <1>10, <2>1, <2>2, <2>5, <3>1 DEF ReaderInv
    <3>3. \A d \in Calls : ~Active(d)
      BY <1>10, <3>2 DEF ReaderInv, Active
    <3> QED
      BY <1>10, <2>1, <2>3, <3>1, <3>3 DEF ReaderInv, Active
  <2> QED
    BY <2>4, <2>5
<1>11. ASSUME SeesEnd, host.style # "each" PROVE ReaderInv'
  <2>1. /\ reader[host.at].pc = "done" /\ reader' = reader /\ out' = out
        /\ host'.style = host.style /\ host'.calls = host.calls /\ host'.at = 0
    BY <1>11, SeesEndEffect DEF Becomes
  <2>2. \A d \in Calls : ~Active(d)
    BY <1>11, <2>1 DEF ReaderInv, Active
  <2> QED
    BY <1>11, <2>1, <2>2 DEF ReaderInv, Active
<1>12. ASSUME host.style = "each", Query \/ TakeMessage \/ SeesEnd \/ \E c \in Calls : ReaderSends(c) PROVE ReaderInv'
  <2>1. host'.style = "each"
    BY <1>12, QueryEffect, TakeMessageEffect, SeesEndEffect, SendsEffect DEF Becomes
  <2> QED
    BY <2>1 DEF ReaderInv
<1> QED
  BY <1>2, <1>3, <1>4, <1>5, <1>6, <1>8, <1>9, <1>10, <1>11, <1>12, StepKinds DEF ReaderStep

(* ---- the theorems ---- *)

\* Types, requests and calls are as Inv says, in every reachable state.
THEOREM StreamInvariance == ASSUME StreamAssumption PROVE Spec => []Inv
<1>1. Init => Inv
  BY TypeInit, RequestInit, ReaderInit DEF Inv
<1>2. Inv /\ [Next]_vars => Inv'
  <2> SUFFICES ASSUME Inv, [Next]_vars PROVE Inv'
    OBVIOUS
  <2>1. Handled
    BY DEF Inv, RequestInv
  <2> QED
    BY <2>1, TypeNext, RequestNext, ReaderNext DEF Inv
<1> QED
  BY <1>1, <1>2, PTL DEF Spec

LEMMA ReaderInvImplies == ASSUME Inv PROVE OneReaderAtATime
BY DEF Inv, ReaderInv, OneReaderAtATime

\* For a host that keeps to Send and ReceiveResponse, or to one Query: of the goroutines
\* of its calls at most one takes from the channel they share (client.go:437, 458).
THEOREM OneReader == ASSUME StreamAssumption PROVE Spec => []OneReaderAtATime
BY StreamInvariance, ReaderInvImplies, PTL

\* What an answer says, for each request and each thing its callback may return.
LEMMA DispatchGrants ==
  ASSUME NEW q, NEW r \in Results(q)
  PROVE  LET answer == HandleControlRequest(q, r) IN
           /\ answer.behavior = "allow" => r.is = "allow" /\ answer.input = IF r.input = None THEN Asked ELSE r.input
           /\ r.is \notin {"allow", "deny", "interrupt", "output"} => answer = Error
<1> USE DEF HandleControlRequest, SendControlSuccess, Error, EmptyLine, Success
<1>1. CASE q.known /\ q.subtype = "can_use_tool"
  <2>1. r \in PermissionResults
    BY <1>1 DEF Results
  <2>2. PICK is, i, w : r = [is |-> is, input |-> i, writable |-> w]
    <3>1. CASE r \in {Returns("allow", i, TRUE) : i \in {None, "updated"}}
      BY <3>1 DEF Returns
    <3>2. CASE r = Returns("allow", "updated", FALSE)
      BY <3>2 DEF Returns
    <3>3. CASE r \in {Returns(is, None, TRUE) : is \in {"deny", "interrupt", "nil", "typed nil", "other type", "err"}}
      BY <3>3 DEF Returns
    <3> QED
      BY <2>1, <3>1, <3>2, <3>3 DEF PermissionResults
  <2>3. CASE r.is \in {"allow", "deny", "interrupt"}
    <3>1. ClientCanUseTool(r) = r
      BY <2>3 DEF ClientCanUseTool
    <3> QED
      BY <1>1, <2>3, <3>1 DEF HandleCanUseTool, None
  <2>4. CASE r.is \notin {"allow", "deny", "interrupt"}
    <3>1. ClientCanUseTool(r).is = "err"
      BY <2>2, <2>4 DEF ClientCanUseTool
    <3> QED
      BY <1>1, <2>4, <3>1 DEF HandleCanUseTool, None
  <2> QED
    BY <2>3, <2>4
<1>2. CASE q.known /\ q.subtype = "hook_callback"
  <2>1. r.is \in {"output", "err"}
    BY <1>2 DEF Results, HookResults, Returns
  <2> QED
    BY <1>2, <2>1 DEF HandleHookCallback, None
<1>3. CASE ~q.known
  BY <1>3 DEF None
<1>4. CASE q.known /\ q.subtype \notin {"can_use_tool", "hook_callback"}
  BY <1>4 DEF None
<1> QED
  BY <1>1, <1>2, <1>3, <1>4

LEMMA RequestInvImplies == ASSUME Inv PROVE GrantedByTheHost
<1> SUFFICES ASSUME NEW a \in Asks
             PROVE  LET r == handler[a].returned IN
                      /\ heard[a].behavior = "allow" =>
                           r.is = "allow" /\ heard[a].input = IF r.input = None THEN Asked ELSE r.input
                      /\ heard[a] # Unheard /\ r.is \notin {"allow", "deny", "interrupt", "output"} => heard[a] = Error
  BY DEF GrantedByTheHost
<1>1. CASE heard[a] = Unheard
  BY <1>1 DEF Unheard, None
<1>2. CASE heard[a] # Unheard
  <2>1. handler[a].pc = "done" /\ handler[a].returned \in Results(handler[a].request)
        /\ heard[a] = HandleControlRequest(handler[a].request, handler[a].returned)
    BY <1>2 DEF Inv, RequestInv, Handled
  <2> QED
    BY <2>1, DispatchGrants
<1> QED
  BY <1>1, <1>2

\* The CLI hears that a tool may run only if the host's callback said so for this
\* request, and with the input the host saw or gave (internal/query.go:1511-1590).
THEOREM GrantsAreTheHosts == ASSUME StreamAssumption PROVE Spec => []GrantedByTheHost
BY StreamInvariance, RequestInvImplies, PTL

(* ---- the turns ---- *)

Ends(x) == ~IsAsk(x) /\ IsResult(x)

\* n[i] is the turn that is due behind the first i of s.
Counts(n, s, e, f) ==
  /\ n \in [0..Len(s) -> Nat]
  /\ n[0] = e /\ n[Len(s)] = f
  /\ \A i \in 1..Len(s) : /\ ~IsAsk(s[i]) => s[i].turn = n[i - 1]
                          /\ n[i] = IF Ends(s[i]) THEN n[i - 1] + 1 ELSE n[i - 1]

\* The frames of s are of the turns that follow one another from e on, each with its
\* result at its end; f is due next.
Runs(s, e, f) == \E n : Counts(n, s, e, f)

LEMMA RunsEmpty ==
  ASSUME NEW e \in Nat, NEW s, s = <<>>
  PROVE  Runs(s, e, e)
<1>1. Len(s) = 0
  OBVIOUS
<1>2. Counts([i \in 0..0 |-> e], s, e, e)
  BY <1>1 DEF Counts
<1> QED
  BY <1>2 DEF Runs

LEMMA RunsAppend ==
  ASSUME NEW S, NEW s \in Seq(S), NEW x \in S, NEW e \in Nat, NEW f \in Nat, Runs(s, e, f),
         ~IsAsk(x) => x.turn = f
  PROVE  Runs(Append(s, x), e, IF Ends(x) THEN f + 1 ELSE f)
<1> DEFINE g == IF Ends(x) THEN f + 1 ELSE f
           t == Append(s, x)
           k == Len(s)
<1>1. PICK n : Counts(n, s, e, f)
  BY DEF Runs
<1>2. /\ k \in Nat /\ Len(t) = k + 1 /\ t[k + 1] = x /\ \A i \in 1..k : t[i] = s[i]
  OBVIOUS
<1>3. /\ n \in [0..k -> Nat] /\ n[0] = e /\ n[k] = f
      /\ \A i \in 1..k : /\ ~IsAsk(s[i]) => s[i].turn = n[i - 1]
                         /\ n[i] = IF Ends(s[i]) THEN n[i - 1] + 1 ELSE n[i - 1]
  BY <1>1 DEF Counts
<1> HIDE DEF t, k
<1> DEFINE m == [i \in 0..(k + 1) |-> IF i = k + 1 THEN g ELSE n[i]]
<1>4. g \in Nat
  OBVIOUS
<1>5. /\ m \in [0..(k + 1) -> Nat] /\ m[0] = e /\ m[k + 1] = g /\ m[k] = f
      /\ \A i \in 0..k : m[i] = n[i]
  <2> HIDE DEF g
  <2> QED BY <1>2, <1>3, <1>4
<1> HIDE DEF m
<1>6. ASSUME NEW i \in 1..(k + 1)
      PROVE  /\ ~IsAsk(t[i]) => t[i].turn = m[i - 1]
             /\ m[i] = IF Ends(t[i]) THEN m[i - 1] + 1 ELSE m[i - 1]
  <2>1. CASE i \in 1..k
    <3>1. i \in 0..k /\ i - 1 \in 0..k
      BY <1>2, <2>1
    <3>2. m[i] = n[i] /\ m[i - 1] = n[i - 1] /\ t[i] = s[i]
      BY <1>2, <1>5, <2>1, <3>1
    <3> QED BY <1>3, <2>1, <3>2
  <2>2. CASE i = k + 1
    <3>1. i - 1 = k
      BY <1>2, <2>2
    <3>2. t[i] = x /\ m[i] = g /\ m[i - 1] = f
      BY <1>2, <1>5, <2>2, <3>1
    <3> QED BY <3>2
  <2> QED BY <1>2, <2>1, <2>2
<1>7. Counts(m, t, e, g)
  <2> HIDE DEF g
  <2> QED BY <1>2, <1>5, <1>6 DEF Counts
<1> QED
  BY <1>7 DEF Runs, t

LEMMA RunsHead ==
  ASSUME NEW S, NEW s \in Seq(S), s # <<>>, NEW e \in Nat, NEW f \in Nat, Runs(s, e, f)
  PROVE  /\ ~IsAsk(Head(s)) => Head(s).turn = e
         /\ Runs(Tail(s), IF Ends(Head(s)) THEN e + 1 ELSE e, f)
<1> DEFINE h == Head(s)
           t == Tail(s)
           k == Len(t)
<1>1. PICK n : Counts(n, s, e, f)
  BY DEF Runs
<1>2. k \in Nat /\ Len(s) = k + 1 /\ s[1] = h /\ \A i \in 1..k : t[i] = s[i + 1]
  OBVIOUS
<1> HIDE DEF h, t, k
<1>3. /\ n \in [0..(k + 1) -> Nat] /\ n[0] = e /\ n[k + 1] = f
      /\ \A i \in 1..(k + 1) : /\ ~IsAsk(s[i]) => s[i].turn = n[i - 1]
                               /\ n[i] = IF Ends(s[i]) THEN n[i - 1] + 1 ELSE n[i - 1]
  BY <1>1, <1>2 DEF Counts
<1>4. 1 \in 1..(k + 1) /\ 1 - 1 = 0
  BY <1>2
<1>5. (~IsAsk(h) => h.turn = e) /\ n[1] = IF Ends(h) THEN e + 1 ELSE e
  BY <1>2, <1>3, <1>4
<1> DEFINE m == [i \in 0..k |-> n[i + 1]]
<1>6. m \in [0..k -> Nat] /\ m[0] = n[1] /\ m[k] = f /\ \A i \in 0..k : m[i] = n[i + 1]
  BY <1>2, <1>3
<1> HIDE DEF m
<1>7. ASSUME NEW i \in 1..k
      PROVE  /\ ~IsAsk(t[i]) => t[i].turn = m[i - 1]
             /\ m[i] = IF Ends(t[i]) THEN m[i - 1] + 1 ELSE m[i - 1]
  <2>1. i + 1 \in 1..(k + 1) /\ (i + 1) - 1 = i /\ i \in 0..k /\ i - 1 \in 0..k /\ (i - 1) + 1 = i
    BY <1>2
  <2>2. t[i] = s[i + 1] /\ m[i] = n[i + 1] /\ m[i - 1] = n[i]
    BY <1>2, <1>6, <2>1
  <2> QED BY <1>3, <2>1, <2>2
<1>8. Counts(m, t, n[1], f)
  BY <1>2, <1>6, <1>7 DEF Counts, k
<1>9. Runs(t, IF Ends(h) THEN e + 1 ELSE e, f)
  BY <1>5, <1>8 DEF Runs
<1> QED
  BY <1>5, <1>9 DEF h, t

(* ---- what the goroutines have taken ---- *)

\* What becomes of a frame on its way to the host.
AsMessages == [x \in Items |-> IF Parses(x) THEN <<x>> ELSE <<>>]

AllTaken == [c \in Calls |-> Taken(c)]

\* What a call that was not made yet has taken: nothing.
Unmade == host.style # "each" => \A c \in Calls : host.calls < c => got[c] = <<>>

\* What was taken, and what is still there to take, is what was passed on.
Filtered == host.style # "each" => FlattenSeq(AllTaken) \o Each(AsMessages, raw) = Each(AsMessages, passed)

LEMMA MessagesAreEach ==
  /\ Replaces(AsMessages, Items, Items)
  /\ \A s \in Seq(Items) : Messages(s) = Each(AsMessages, s)
<1>1. ASSUME NEW x \in Items PROVE AsMessages[x] \in Seq(Items) /\ AsMessages[x] = IF Parses(x) THEN <<x>> ELSE <<>>
  BY DEF AsMessages
<1>2. AsMessages \in [Items -> Seq(Items)]
  <2>1. \A x \in Items : (IF Parses(x) THEN <<x>> ELSE <<>>) \in Seq(Items)
    OBVIOUS
  <2> QED BY <2>1 DEF AsMessages
<1>3. ASSUME NEW s \in Seq(Items) PROVE Messages(s) = Each(AsMessages, s)
  <2>1. \A i \in DOMAIN s : s[i] \in Items
    OBVIOUS
  <2>2. [i \in DOMAIN s |-> IF Parses(s[i]) THEN <<s[i]>> ELSE <<>>] = [i \in DOMAIN s |-> AsMessages[s[i]]]
    BY <1>1, <2>1
  <2> QED BY <2>2 DEF Messages, Each
<1> QED
  BY <1>2, <1>3 DEF Replaces

LEMMA TakenType ==
  ASSUME TypeOK, NEW c \in Calls
  PROVE  /\ got[c] \in Seq(Items) /\ out[c] \in Seq(Items) /\ reader[c].item \in Items
         /\ got[c] \o out[c] \in Seq(Items) /\ Taken(c) \in Seq(Items)
         /\ reader[c].pc # "send" => Taken(c) = got[c] \o out[c]
         /\ reader[c].pc = "send" => Taken(c) = Append(got[c] \o out[c], reader[c].item)
<1> DEFINE g == got[c]
           o == out[c]
           x == reader[c].item
           t == IF reader[c].pc = "send" THEN <<x>> ELSE <<>>
           s == g \o o
<1>1. g \in Seq(Items) /\ o \in Seq(Items) /\ x \in Items
  BY DEF TypeOK, Readers
<1> HIDE DEF g, o
<1>2. s \in Seq(Items)
  BY <1>1, ConcatType
<1> HIDE DEF s, x
<1>3. t \in Seq(Items)
  BY <1>1
<1>4. s \o <<>> = s /\ s \o <<x>> = Append(s, x)
  BY <1>1, <1>2
<1>5. s \o t \in Seq(Items)
  BY <1>2, <1>3, ConcatType
<1>6. Taken(c) = s \o t
  BY DEF Taken, g, o, s, x
<1> QED
  BY <1>1, <1>2, <1>4, <1>5, <1>6 DEF g, o, s, x

\* What a step adds to what the goroutines have taken: the head of raw, by one that takes
\* it and can parse it.
TakenSame == \A c \in Calls : Taken(c)' = Taken(c)

TakenBy(c) ==
  /\ Active(c) /\ reader[c].pc = "recv" /\ raw # <<>> /\ raw' = Tail(raw) /\ passed' = passed
  /\ \A d \in Calls : d # c => Taken(d)' = Taken(d)
  /\ Taken(c)' = IF Parses(Head(raw)) THEN Append(Taken(c), Head(raw)) ELSE Taken(c)
  /\ Parses(Head(raw)) => reader'[c].pc = "send" /\ reader'[c].item = Head(raw)
  /\ ~Parses(Head(raw)) => reader' = reader

LEMMA SameTaken ==
  ASSUME TypeOK, NEW c \in Calls, got'[c] = got[c], out'[c] = out[c],
         \/ reader'[c] = reader[c]
         \/ reader[c].pc # "send" /\ reader'[c].pc # "send"
  PROVE  Taken(c)' = Taken(c)
BY DEF Taken

LEMMA TakenStep ==
  ASSUME StreamAssumption, TypeOK, TypeOK', ReaderInv, host.style # "each", [Next]_vars
  PROVE  \/ TakenSame /\ UNCHANGED <<raw, passed>>
         \/ TakenSame /\ Forward /\ raw' = Append(raw, loop.item) /\ passed' = Append(passed, loop.item)
         \/ \E c \in Calls : ReaderTakes(c) /\ TakenBy(c)
<1> USE DEF cliVars, loopVars, readVars, hostVars
<1>1. ASSUME UNCHANGED <<readVars, got>> PROVE TakenSame
  BY <1>1, SameTaken DEF TakenSame
<1>2. CASE CliStep \/ (\E request \in AskKinds : CliAsks(request))
  <2>1. UNCHANGED <<readVars, hostVars, raw, passed>>
    BY <1>2, CliEffect, AskEffect DEF CliStep
  <2> QED BY <1>1, <2>1
<1>3. CASE LoopStep
  BY <1>1, <1>3 DEF LoopStep, TakeFrame, Forward, LoopEnds
<1>4. CASE (\E a \in Asks : CallbackReturns(a) \/ Respond(a)) \/ Send \/ SeesEnd \/ Close \/ UNCHANGED vars
  BY <1>1, <1>4 DEF CallbackReturns, Respond, Send, SeesEnd, Close, vars
<1>5. ASSUME NEW c \in Calls, c = host.calls + 1, NEW until \in {"result", "end"}, StartReader(c, until), UNCHANGED <<out, got>>
      PROVE  TakenSame
  <2>1. reader[c].pc = "none"
    <3>1. host.calls < c
      BY <1>5, HostFields DEF Calls
    <3> QED BY <3>1 DEF ReaderInv
  <2>2. reader'[c].pc = "recv" /\ \A d \in Calls : d # c => reader'[d] = reader[d]
    BY <1>5, StartEffect
  <2> QED BY <1>5, <2>1, <2>2, SameTaken DEF TakenSame
<1>6. CASE ReceiveResponse
  BY <1>5, <1>6, ReceiveEffect
<1>7. CASE Query
  BY <1>5, <1>7, QueryEffect
<1>8. ASSUME NEW c \in Calls, ReaderTakes(c) PROVE TakenBy(c)
  <2>0. got' = got /\ out' = out /\ passed' = passed /\ raw # <<>> /\ raw' = Tail(raw) /\ reader[c].pc = "recv"
    BY <1>8, TakesEffect
  <2>1. CASE ~Parses(Head(raw))
    <3>1. reader' = reader
      BY <1>8, <2>1, TakesEffect
    <3>2. \A d \in Calls : Taken(d)' = Taken(d)
      BY <2>0, <3>1, SameTaken
    <3> QED BY <2>0, <2>1, <3>1, <3>2 DEF TakenBy, Active
  <2>2. CASE Parses(Head(raw))
    <3>1. /\ reader'[c].pc = "send" /\ reader'[c].item = Head(raw)
          /\ \A d \in Calls : d # c => reader'[d] = reader[d]
      BY <1>8, <2>2, TakesEffect DEF ReaderMoves
    <3>2. \A d \in Calls : d # c => Taken(d)' = Taken(d)
      BY <2>0, <3>1, SameTaken
    <3>3. Taken(c) = got[c] \o out[c]
      BY <2>0, TakenType
    <3>4. Taken(c)' = Append(got[c] \o out[c], Head(raw))
      <4>1. Taken(c)' = (got[c] \o out[c]) \o <<Head(raw)>>
        BY <2>0, <3>1 DEF Taken
      <4>2. got[c] \o out[c] \in Seq(Items) /\ Head(raw) \in Items
        BY <2>0, TakenType, HeadTail DEF TypeOK
      <4>3. ASSUME NEW s \in Seq(Items), NEW x \in Items PROVE s \o <<x>> = Append(s, x)
        OBVIOUS
      <4> QED BY <4>1, <4>2, <4>3
    <3> QED BY <2>0, <2>2, <3>1, <3>2, <3>3, <3>4 DEF TakenBy, Active
  <2> QED BY <2>1, <2>2
<1>9. ASSUME NEW c \in Calls, ReaderSends(c) PROVE TakenSame /\ UNCHANGED <<raw, passed>>
  <2>1. /\ reader[c].pc = "send" /\ reader'[c].pc # "send" /\ reader[c].item \in Items
        /\ out'[c] = Append(out[c], reader[c].item) /\ got' = got /\ UNCHANGED <<raw, passed>>
        /\ \A d \in Calls : d # c => out'[d] = out[d] /\ reader'[d] = reader[d]
    BY <1>9, SendsEffect DEF ReaderMoves
  <2>2. \A d \in Calls : d # c => Taken(d)' = Taken(d)
    BY <2>1, SameTaken
  <2>3. Taken(c) = (got[c] \o out[c]) \o <<reader[c].item>>
    BY <2>1 DEF Taken
  <2>4. Taken(c)' = (got[c] \o Append(out[c], reader[c].item)) \o <<>>
    BY <2>1 DEF Taken
  <2>5. Taken(c)' = Taken(c)
    <3> DEFINE g == got[c]
               o == out[c]
               x == reader[c].item
    <3>1. g \in Seq(Items) /\ o \in Seq(Items) /\ x \in Items
      BY TakenType
    <3> HIDE DEF g, o, x
    <3>2. Append(o, x) = o \o <<x>> /\ <<x>> \in Seq(Items)
      BY <3>1
    <3>3. (g \o o) \o <<x>> = g \o (o \o <<x>>)
      BY <3>1, <3>2, ConcatAssoc, SMTT(60)
    <3>4. g \o (o \o <<x>>) \in Seq(Items)
      BY <3>1, <3>2, ConcatType
    <3>5. (g \o (o \o <<x>>)) \o <<>> = g \o (o \o <<x>>)
      BY <3>4
    <3> QED BY <2>3, <2>4, <3>2, <3>3, <3>5 DEF g, o, x
  <2> QED BY <2>1, <2>2, <2>5 DEF TakenSame
<1>10. ASSUME NEW c \in Calls, ReaderEnds(c) PROVE TakenSame /\ UNCHANGED <<raw, passed>>
  <2>1. /\ reader[c].pc # "send" /\ reader'[c].pc # "send" /\ UNCHANGED <<got, out, raw, passed>>
        /\ \A d \in Calls : d # c => reader'[d] = reader[d]
    BY <1>10, EndsEffect DEF ReaderMoves
  <2> QED BY <2>1, SameTaken DEF TakenSame
<1>11. CASE TakeMessage
  <2>0. PICK c \in Calls : c = host.at
    BY <1>11, TakeMessageEffect
  <2>1. /\ c \in Calls /\ out[c] \in Seq(Items) /\ out[c] # <<>> /\ out'[c] = Tail(out[c])
        /\ got'[c] = Append(got[c], Head(out[c])) /\ reader' = reader /\ UNCHANGED <<raw, passed>>
        /\ \A d \in Calls : d # c => out'[d] = out[d] /\ got'[d] = got[d]
    BY <1>11, <2>0, TakeMessageEffect
  <2>2. \A d \in Calls : d # c => Taken(d)' = Taken(d)
    BY <2>1, SameTaken
  <2>3. got'[c] \o out'[c] = got[c] \o out[c]
    <3>1. got[c] \in Seq(Items)
      BY TakenType
    <3>2. Append(got[c], Head(out[c])) \o Tail(out[c]) = got[c] \o out[c]
      BY <2>1, <3>1, HeadMoves
    <3> QED BY <2>1, <3>2
  <2>4. Taken(c)' = Taken(c)
    BY <2>1, <2>3 DEF Taken
  <2> QED BY <2>1, <2>2, <2>4 DEF TakenSame
<1> QED
  BY <1>2, <1>3, <1>4, <1>6, <1>7, <1>8, <1>9, <1>10, <1>11, StepKinds, ReceiveEffect, QueryEffect DEF ReaderStep

LEMMA UnmadeNext ==
  ASSUME StreamAssumption, TypeOK, ReaderInv, Unmade, [Next]_vars
  PROVE  Unmade'
<1> USE DEF cliVars, loopVars, readVars, hostVars
<1>1. ASSUME got' = got, host'.style = host.style, host'.calls \in Nat, host.calls <= host'.calls PROVE Unmade'
  <2>1. host.calls \in Nat /\ \A c \in Calls : c \in Nat
    BY HostFields DEF Calls
  <2> QED BY <1>1, <2>1 DEF Unmade
<1>2. host.calls \in Nat /\ host.calls <= host.calls
  BY HostFields
<1>3. CASE CliStep \/ (\E request \in AskKinds : CliAsks(request))
  BY <1>1, <1>2, <1>3, CliEffect, AskEffect DEF CliStep
<1>4. CASE LoopStep
  BY <1>1, <1>2, <1>4 DEF LoopStep, TakeFrame, Forward, LoopEnds
<1>5. CASE (\E a \in Asks : CallbackReturns(a) \/ Respond(a)) \/ Close \/ UNCHANGED vars
  BY <1>1, <1>2, <1>5 DEF CallbackReturns, Respond, Close, vars
<1>6. ASSUME NEW c \in Calls, ReaderStep(c) PROVE Unmade'
  BY <1>1, <1>2, <1>6 DEF ReaderStep, ReaderTakes, ReaderSends, ReaderEnds
<1>7. CASE Send
  BY <1>1, <1>2, <1>7, SendEffect DEF Becomes
<1>8. CASE ReceiveResponse \/ Query
  <2>1. host'.calls = host.calls + 1 /\ got' = got /\ host'.style = host.style
    BY <1>8, ReceiveEffect, QueryEffect DEF Becomes
  <2> QED BY <1>1, <1>2, <2>1
<1>9. CASE SeesEnd
  BY <1>1, <1>2, <1>9, SeesEndEffect DEF Becomes
<1>10. CASE TakeMessage
  <2>1. /\ host'.style = host.style /\ host'.calls = host.calls /\ host.at \in Calls
        /\ \A d \in Calls : d # host.at => got'[d] = got[d]
    BY <1>10, TakeMessageEffect DEF Becomes
  <2>2. host.style # "each" => ~(host.calls < host.at)
    BY <1>2, <2>1, HostFields DEF ReaderInv
  <2> QED BY <2>1, <2>2 DEF Unmade
<1> QED
  BY <1>3, <1>4, <1>5, <1>6, <1>7, <1>8, <1>9, <1>10, StepKinds

\* Calls not made yet have taken nothing.
LEMMA UnmadeTaken ==
  ASSUME StreamAssumption, TypeOK, ReaderInv, Unmade, host.style # "each", NEW c \in Calls, host.calls < c
  PROVE  Taken(c) = <<>>
<1>1. got[c] = <<>> /\ out[c] = <<>> /\ reader[c].pc = "none"
  BY DEF Unmade, ReaderInv
<1>2. <<>> \o <<>> = <<>>
  OBVIOUS
<1> QED BY <1>1, <1>2, TakenType

LEMMA AllTakenType ==
  ASSUME StreamAssumption, TypeOK
  PROVE  /\ AllTaken \in Seq(Seq(Items)) /\ Len(AllTaken) = MaxPrompts
         /\ \A c \in Calls : AllTaken[c] = Taken(c)
<1>1. \A c \in Calls : Taken(c) \in Seq(Items)
  BY TakenType
<1>2. MaxPrompts \in Nat
  BY DEF StreamAssumption
<1> QED BY <1>1, <1>2 DEF AllTaken, Calls

\* The sequences of a step, whose values are two fixed families.
LEMMA OneGrows ==
  ASSUME NEW n \in Nat, n # 0, NEW c \in 1..n, NEW x \in Items,
         NEW ss \in Seq(Seq(Items)), NEW tt \in Seq(Seq(Items)), Len(ss) = n, Len(tt) = n,
         tt[c] = Append(ss[c], x),
         \A d \in 1..n : d # c => tt[d] = ss[d],
         \A d \in 1..n : c < d => ss[d] = <<>>
  PROVE  FlattenSeq(tt) = FlattenSeq(ss) \o <<x>>
<1> DEFINE u == <<x>>
           k == c - 1
           m == n - c
<1>1. u \in Seq(Items) /\ k \in Nat /\ m \in Nat /\ k + 1 + m = n /\ k + 1 = c
  OBVIOUS
<1>2. ss[c] \in Seq(Items)
  OBVIOUS
<1>3. Append(ss[c], x) = ss[c] \o u
  <2>1. ASSUME NEW s \in Seq(Items) PROVE Append(s, x) = s \o <<x>>
    OBVIOUS
  <2> QED BY <1>2, <2>1
<1>4. Grown(ss, tt, u, k, n)
  <2>1. \A i \in 1..k : i \in 1..n /\ i # c
    OBVIOUS
  <2>2. \A i \in (k + 2)..n : i \in 1..n /\ i # c /\ c < i
    OBVIOUS
  <2> HIDE DEF u, k
  <2> QED BY <1>1, <1>3, <2>1, <2>2 DEF Grown
<1> HIDE DEF u, k, m
<1>5. \A a, b \in Seq(Seq(Items)) : Grown(a, b, u, k, k + 1 + m) => FlattenSeq(b) = FlattenSeq(a) \o u
  BY <1>1, FlattenGrows, ZenonT(60)
<1> QED BY <1>1, <1>4, <1>5 DEF u

LEMMA FilteredNext ==
  ASSUME StreamAssumption, TypeOK, TypeOK', ReaderInv, Unmade, Filtered, [Next]_vars,
         host.style # "each"
  PROVE  FlattenSeq(AllTaken)' \o Each(AsMessages, raw') = Each(AsMessages, passed')
<1> DEFINE f == FlattenSeq(AllTaken)
           e(s) == Each(AsMessages, s)
<1>0. f \o e(raw) = e(passed)
  BY DEF Filtered
<1>1. raw \in Seq(Items) /\ passed \in Seq(Items) /\ f \in Seq(Items)
  BY AllTakenType, FlattenType DEF TypeOK
<1>2. \A s \in Seq(Items) : e(s) \in Seq(Items)
  BY EachType, MessagesAreEach
<1>3. \A x \in Items : AsMessages[x] \in Seq(Items)
  BY MessagesAreEach DEF Replaces
<1>4. \A r, s, t \in Seq(Items) : (r \o s) \o t = r \o (s \o t)
  <2>1. ASSUME NEW r \in Seq(Items), NEW s \in Seq(Items), NEW t \in Seq(Items) PROVE (r \o s) \o t = r \o (s \o t)
    BY ONLY ConcatAssoc
  <2> QED BY <2>1
<1>5. \A s \in Seq(Items), x \in Items : e(Append(s, x)) = e(s) \o AsMessages[x]
  BY EachAppend, MessagesAreEach
<1>6. ASSUME TakenSame PROVE AllTaken' = AllTaken
  BY <1>6 DEF TakenSame, AllTaken
<1>7. CASE TakenSame /\ UNCHANGED <<raw, passed>>
  BY <1>0, <1>6, <1>7
<1>8. CASE TakenSame /\ Forward /\ raw' = Append(raw, loop.item) /\ passed' = Append(passed, loop.item)
  <2>1. PICK x \in Items : x = loop.item
    BY DEF TypeOK, Loops
  <2>2. e(raw') = e(raw) \o AsMessages[x] /\ e(passed') = e(passed) \o AsMessages[x]
    BY <1>1, <1>5, <1>8, <2>1
  <2>3. f \o (e(raw) \o AsMessages[x]) = (f \o e(raw)) \o AsMessages[x]
    <3>1. e(raw) \in Seq(Items) /\ AsMessages[x] \in Seq(Items)
      BY <1>1, <1>2, <1>3
    <3> HIDE DEF e, f
    <3> QED BY <1>1, <1>4, <3>1, ZenonT(60)
  <2>4. AllTaken' = AllTaken
    BY <1>6, <1>8
  <2> HIDE DEF e
  <2> QED BY <1>0, <2>2, <2>3, <2>4 DEF e
<1>9. ASSUME NEW c \in Calls, TakenBy(c) PROVE FlattenSeq(AllTaken)' \o Each(AsMessages, raw') = Each(AsMessages, passed')
  <2>1. PICK h \in Items : h = Head(raw) /\ raw # <<>> /\ raw' = Tail(raw) /\ passed' = passed
    BY <1>1, <1>9, HeadTail DEF TakenBy
  <2>2. e(raw) = AsMessages[h] \o e(raw') /\ raw' \in Seq(Items)
    BY <1>1, <2>1, EachHead, HeadTail, MessagesAreEach
  <2>3. PICK g \in Seq(Items) : g = AsMessages[h] /\ g = IF Parses(h) THEN <<h>> ELSE <<>>
    BY <1>3 DEF AsMessages
  <2>4. FlattenSeq(AllTaken)' = f \o g
    <3>1. CASE ~Parses(h)
      <4>1. TakenSame
        BY <1>9, <2>1, <3>1 DEF TakenBy, TakenSame
      <4>2. AllTaken' = AllTaken /\ g = <<>>
        BY <1>6, <2>3, <3>1, <4>1
      <4> HIDE DEF f
      <4>3. f \o <<>> = f
        BY <1>1
      <4> QED BY <4>2, <4>3 DEF f
    <3>2. CASE Parses(h)
      <4>1. PICK ss, tt \in Seq(Seq(Items)) :
              /\ ss = AllTaken /\ tt = AllTaken' /\ Len(ss) = MaxPrompts /\ Len(tt) = MaxPrompts
              /\ \A d \in Calls : ss[d] = Taken(d) /\ tt[d] = Taken(d)'
        <5>1. AllTaken \in Seq(Seq(Items)) /\ Len(AllTaken) = MaxPrompts /\ \A d \in Calls : AllTaken[d] = Taken(d)
          BY AllTakenType
        <5>2. AllTaken' \in Seq(Seq(Items)) /\ Len(AllTaken') = MaxPrompts /\ \A d \in Calls : AllTaken'[d] = Taken(d)'
          <6>1. \A d \in Calls : Taken(d)' \in Seq(Items)
            <7>1. ASSUME NEW d \in Calls PROVE Taken(d)' \in Seq(Items)
              <8>1. Taken(d) \in Seq(Items) /\ Taken(c) \in Seq(Items)
                BY TakenType
              <8>2. Taken(d)' = Taken(d) \/ Taken(d)' = Append(Taken(c), h)
                BY <1>9, <2>1, <3>2 DEF TakenBy
              <8>3. Append(Taken(c), h) \in Seq(Items)
                <9>1. \A s \in Seq(Items) : Append(s, h) \in Seq(Items)
                  OBVIOUS
                <9> QED BY <8>1, <9>1
              <8> QED BY <8>1, <8>2, <8>3
            <7> QED BY <7>1
          <6>2. MaxPrompts \in Nat
            BY DEF StreamAssumption
          <6> QED BY <6>1, <6>2 DEF AllTaken, Calls
        <5> QED BY <5>1, <5>2
      <4>2. MaxPrompts \in Nat /\ MaxPrompts # 0 /\ c \in 1..MaxPrompts /\ Calls = 1..MaxPrompts
        BY DEF StreamAssumption, Calls
      <4>3. \A d \in Calls : c < d => ss[d] = <<>>
        <5>1. host.at = c /\ host.at \in {0, host.calls} /\ c # 0
          <6>1. Active(c)
            BY <1>9 DEF TakenBy
          <6>2. host.at = c /\ host.at \in {0, host.calls}
            BY <6>1 DEF ReaderInv
          <6>3. c # 0
            BY DEF Calls
          <6> QED BY <6>2, <6>3
        <5>2. host.calls = c
          BY <5>1, Zenon
        <5> QED BY <4>1, <5>2, UnmadeTaken
      <4>4. tt[c] = Append(ss[c], h) /\ \A d \in Calls : d # c => tt[d] = ss[d]
        BY <1>9, <2>1, <3>2, <4>1 DEF TakenBy
      <4>5. FlattenSeq(tt) = FlattenSeq(ss) \o <<h>>
        <5>1. \A d \in 1..MaxPrompts : (d # c => tt[d] = ss[d]) /\ (c < d => ss[d] = <<>>)
          BY <4>2, <4>3, <4>4
        <5>2. /\ Len(ss) = MaxPrompts /\ Len(tt) = MaxPrompts /\ tt[c] = Append(ss[c], h)
              /\ ss \in Seq(Seq(Items)) /\ tt \in Seq(Seq(Items))
          BY <4>1, <4>4
        <5> HIDE DEF f, e
        <5>3. MaxPrompts \in Nat /\ MaxPrompts # 0 /\ c \in 1..MaxPrompts
          BY <4>2
        <5> QED BY ONLY <5>1, <5>2, <5>3, OneGrows, ZenonT(60)
      <4> QED BY <2>3, <3>2, <4>1, <4>5
    <3> QED BY <3>1, <3>2
  <2>5. (f \o g) \o e(raw') = f \o (g \o e(raw'))
    <3>1. e(raw') \in Seq(Items)
      BY <1>2, <2>2
    <3> HIDE DEF e, f
    <3> QED BY <1>1, <1>4, <3>1, ZenonT(60)
  <2> HIDE DEF f, e
  <2>6. (f \o g) \o e(raw') = e(passed')
    BY <1>0, <2>1, <2>2, <2>3, <2>5
  <2> QED BY <2>4, <2>6 DEF e
<1> QED
  BY <1>7, <1>8, <1>9, TakenStep

(* ---- the turns of a host that asks for one response at a time ---- *)

\* A result is the last that its call takes.
ResultIsLast ==
  host.style = "receive" =>
    \A c \in Calls : \A k \in 1..Len(Taken(c)) :
      IsResult(Taken(c)[k]) => k = Len(Taken(c)) /\ reader[c].pc \in {"send", "done"}

\* If the CLI ran no turn of its own, what call c takes is of turn c.
OwnTurn ==
  host.style = "receive" /\ cli.followUps = 0 =>
    \A c \in Calls : \A k \in 1..Len(Taken(c)) : Taken(c)[k].turn = c

\* The turn whose frames the host is to take next.
Due ==
  IF \E c \in Calls : reader[c].pc = "recv" \/ (reader[c].pc = "send" /\ ~IsResult(reader[c].item))
  THEN host.calls ELSE host.calls + 1

Over == LoopGone /\ raw = <<>>

\* Turn m is due behind raw, and turn p behind the frame the read loop holds.
AtLoop(m, p) ==
  IF loop.pc = "forward"
  THEN loop.item.turn = m /\ p = IF IsResult(loop.item) THEN m + 1 ELSE m
  ELSE p = m

\* Turn k is due behind the pipe, and is the turn the CLI is in or will run next.
AtCli(p, k) ==
  /\ Runs(wire, p, k)
  /\ cli.does \in {"turn", "asking"} => cli.turn = k /\ cli.prompts = k
  /\ cli.does = "idle" => cli.prompts + 1 = k

\* The turns follow one another all the way from the CLI to the host; a frame may be
\* dropped only by a loop that is closed, and what is behind it then goes nowhere.
TurnInv ==
  host.style = "receive" /\ cli.followUps = 0 /\ ~Over =>
    \E m, p \in Nat :
      /\ Runs(raw, Due, m) /\ AtLoop(m, p)
      /\ ~closed /\ ~LoopGone => \E k \in Nat : AtCli(p, k)

Turns == ResultIsLast /\ OwnTurn /\ TurnInv

LEMMA ResultsParse ==
  /\ \A x : IsResult(x) => Parses(x)
  /\ \A x \in Items : (Ends(x) <=> IsResult(x)) /\ ~IsAsk(x)
  /\ \A x \in AskItems : ~Ends(x) /\ IsAsk(x)
<1>1. \A x \in Items : ~IsAsk(x)
  BY ItemKinds
<1>2. \A x \in AskItems : IsAsk(x)
  BY ItemKinds
<1>3. \A x : IsResult(x) => Parses(x)
  BY DEF IsResult, Parses, IsResultMessage
<1> QED BY <1>1, <1>2, <1>3 DEF Ends

LEMMA TurnsInit == ASSUME StreamAssumption, Init PROVE Turns
<1>1. TypeOK
  BY TypeInit
<1>2. \A c \in Calls : Taken(c) = <<>> /\ reader[c].pc = "none"
  <2>1. \A c \in Calls : got[c] = <<>> /\ out[c] = <<>> /\ reader[c].pc = "none"
    BY DEF Init
  <2>2. <<>> \o <<>> = <<>>
    OBVIOUS
  <2> QED BY <1>1, <2>1, <2>2, TakenType
<1>3. Len(<<>>) = 0
  OBVIOUS
<1>4. ResultIsLast /\ OwnTurn
  <2>1. \A c \in Calls : \A k \in 1..Len(Taken(c)) : FALSE
    BY <1>2, <1>3
  <2> QED BY <2>1 DEF ResultIsLast, OwnTurn
<1>5. host.calls = 0 /\ Due = 1
  BY <1>2 DEF Init, Due
<1>6. Runs(raw, Due, 1) /\ Runs(wire, 1, 1)
  <2>1. raw = <<>> /\ wire = <<>> /\ 1 \in Nat
    BY DEF Init
  <2> QED BY <1>5, <2>1, RunsEmpty
<1>7. AtLoop(1, 1) /\ AtCli(1, 1)
  BY <1>6 DEF Init, AtLoop, AtCli
<1> QED
  BY <1>4, <1>6, <1>7 DEF Turns, TurnInv

LEMMA DueType == ASSUME StreamAssumption, TypeOK PROVE Due \in Nat
BY HostFields DEF Due

\* While a goroutine waits for a frame it is its turn that is due.
LEMMA DueOfActive ==
  ASSUME StreamAssumption, TypeOK, ReaderInv, host.style = "receive", NEW c \in Calls, Active(c)
  PROVE  /\ host.calls = c /\ host.at = c /\ \A d \in Calls : d # c => ~Active(d)
         /\ reader[c].until = "result"
         /\ Due = IF reader[c].pc = "send" /\ IsResult(reader[c].item) THEN c + 1 ELSE c
<1>1. host.at = c /\ host.at \in {0, host.calls} /\ c # 0 /\ reader[c].until = "result"
  <2>1. c # 0
    BY DEF Calls
  <2>2. host.at = c /\ host.at \in {0, host.calls}
    BY DEF ReaderInv
  <2>3. reader[c].until = "result"
    BY DEF ReaderInv, Active
  <2> QED BY <2>1, <2>2, <2>3
<1>2. host.calls = c
  BY <1>1, Zenon
<1>3. \A d \in Calls : d # c => ~Active(d)
  BY <1>1 DEF ReaderInv
<1>4. Due = IF reader[c].pc = "send" /\ IsResult(reader[c].item) THEN c + 1 ELSE c
  <2>1. \A d \in Calls : d # c => reader[d].pc \notin {"recv", "send"}
    BY <1>3 DEF Active
  <2>2. reader[c].pc \in {"recv", "send"}
    BY DEF Active
  <2> QED BY <1>2, <2>1, <2>2 DEF Due
<1> QED BY <1>1, <1>2, <1>3, <1>4

LEMMA DueOfNone ==
  ASSUME \A c \in Calls : ~Active(c)
  PROVE  Due = host.calls + 1
BY DEF Due, Active

LEMMA StyleKept ==
  ASSUME StreamAssumption, TypeOK, [Next]_vars
  PROVE  host'.style = host.style
<1> USE DEF cliVars, loopVars, readVars, hostVars
<1>1. CASE CliStep \/ (\E request \in AskKinds : CliAsks(request))
  BY <1>1, CliEffect, AskEffect DEF CliStep
<1>2. CASE LoopStep
  BY <1>2 DEF LoopStep, TakeFrame, Forward, LoopEnds
<1>3. CASE (\E a \in Asks : CallbackReturns(a) \/ Respond(a)) \/ Close \/ UNCHANGED vars
  BY <1>3 DEF CallbackReturns, Respond, Close, vars
<1>4. CASE \E c \in Calls : ReaderStep(c)
  BY <1>4 DEF ReaderStep, ReaderTakes, ReaderSends, ReaderEnds
<1>5. CASE Send \/ ReceiveResponse \/ Query \/ TakeMessage \/ SeesEnd
  BY <1>5, SendEffect, ReceiveEffect, QueryEffect, TakeMessageEffect, SeesEndEffect DEF Becomes
<1> QED BY <1>1, <1>2, <1>3, <1>4, <1>5, StepKinds

LEMMA FollowUpsStay ==
  ASSUME StreamAssumption, TypeOK, [Next]_vars, cli'.followUps = 0
  PROVE  cli.followUps = 0
<1> USE DEF cliVars, loopVars, readVars, hostVars
<1>0. cli \in Clis
  BY DEF TypeOK
<1>1. CASE CliFollowsUp
  <2>1. cli'.followUps = cli.followUps + 1
    BY <1>0, <1>1 DEF CliFollowsUp, Clis
  <2> QED BY <1>0, <2>1 DEF Clis
<1>2. CASE CliStartsTurn \/ CliEndsTurn \/ CliExits \/ (\E frame \in Bodies : CliSays(frame))
           \/ (\E request \in AskKinds : CliAsks(request))
  BY <1>0, <1>2 DEF CliStartsTurn, CliEndsTurn, CliExits, CliSays, CliAsks, Clis
<1>3. CASE LoopStep \/ \E c \in Calls : ReaderStep(c)
  BY <1>3 DEF LoopStep, TakeFrame, Forward, LoopEnds, ReaderStep, ReaderTakes, ReaderSends, ReaderEnds
<1>4. CASE (\E a \in Asks : CallbackReturns(a)) \/ Close \/ UNCHANGED vars
  BY <1>4 DEF CallbackReturns, Close, vars
<1>5. CASE \E a \in Asks : Respond(a)
  BY <1>0, <1>5 DEF Respond, Clis
<1>6. CASE Send \/ ReceiveResponse \/ Query \/ TakeMessage \/ SeesEnd
  BY <1>6, SendEffect, ReceiveEffect, QueryEffect, TakeMessageEffect, SeesEndEffect
<1> QED BY <1>1, <1>2, <1>3, <1>4, <1>5, <1>6, StepKinds DEF CliStep

\* A goroutine that has sent a result goes no further.
LEMMA PcStep ==
  ASSUME StreamAssumption, TypeOK, ReaderInv, [Next]_vars, host.style = "receive",
         NEW c \in Calls, reader[c].pc \in {"send", "done"}
  PROVE  reader'[c].pc \in {"send", "done"} \/ (reader[c].pc = "send" /\ ~IsResult(reader[c].item))
<1> USE DEF cliVars, loopVars, readVars, hostVars
<1>1. CASE reader' = reader
  BY <1>1
<1>2. CASE CliStep \/ (\E request \in AskKinds : CliAsks(request)) \/ LoopStep \/ Send \/ TakeMessage \/ SeesEnd
           \/ (\E a \in Asks : CallbackReturns(a) \/ Respond(a)) \/ Close \/ UNCHANGED vars
  <2>1. reader' = reader
    <3>1. CASE CliStep \/ (\E request \in AskKinds : CliAsks(request))
      BY <3>1, CliEffect, AskEffect DEF CliStep
    <3>2. CASE LoopStep
      BY <3>2 DEF LoopStep, TakeFrame, Forward, LoopEnds
    <3>3. CASE Send \/ TakeMessage \/ SeesEnd
      BY <3>3, SendEffect, TakeMessageEffect, SeesEndEffect
    <3>4. CASE (\E a \in Asks : CallbackReturns(a) \/ Respond(a)) \/ Close \/ UNCHANGED vars
      BY <3>4 DEF CallbackReturns, Respond, Close, vars
    <3> QED BY <1>2, <3>1, <3>2, <3>3, <3>4
  <2> QED BY <1>1, <2>1
<1>3. ASSUME NEW e \in Calls, ReaderTakes(e) \/ ReaderEnds(e) PROVE reader'[c] = reader[c]
  <2>1. c # e
    BY <1>3, TakesEffect, EndsEffect
  <2> QED BY <1>3, <2>1, TakesEffect, EndsEffect DEF ReaderMoves
<1>4. ASSUME NEW e \in Calls, ReaderSends(e)
      PROVE  reader'[c].pc \in {"send", "done"} \/ (reader[c].pc = "send" /\ ~IsResult(reader[c].item))
  <2>1. CASE e = c
    <3>1. reader[c].pc = "send"
      BY <1>4, <2>1, SendsEffect
    <3>2. reader[c].until = "result"
      BY <3>1 DEF ReaderInv
    <3>3. reader'[c].pc = IF reader[c].until = "result" /\ IsResult(reader[c].item) THEN "done" ELSE "recv"
      BY <1>4, <2>1, SendsEffect DEF ReaderMoves
    <3> QED BY <3>1, <3>2, <3>3
  <2>2. CASE e # c
    BY <1>4, <2>2, SendsEffect DEF ReaderMoves
  <2> QED BY <2>1, <2>2
<1>5. CASE ReceiveResponse \/ Query
  <2>1. PICK n \in Calls, until \in {"result", "end"} : n = host.calls + 1 /\ StartReader(n, until)
    BY <1>5, ReceiveEffect, QueryEffect
  <2>2. host.calls < n
    BY <2>1, HostFields DEF Calls
  <2>3. c # n
    BY <2>2 DEF ReaderInv
  <2> QED BY <2>1, <2>3, StartEffect
<1> QED BY <1>2, <1>3, <1>4, <1>5, StepKinds DEF ReaderStep

LEMMA ResultIsLastNext ==
  ASSUME StreamAssumption, TypeOK, TypeOK', ReaderInv, ResultIsLast, [Next]_vars
  PROVE  ResultIsLast'
<1> SUFFICES ASSUME host.style = "receive", NEW c \in Calls, NEW k \in 1..Len(Taken(c)'), IsResult(Taken(c)'[k])
             PROVE  k = Len(Taken(c)') /\ reader'[c].pc \in {"send", "done"}
  BY StyleKept DEF ResultIsLast
<1>1. CASE Taken(c)' = Taken(c)
  <2>1. k = Len(Taken(c)) /\ reader[c].pc \in {"send", "done"} /\ IsResult(Taken(c)[k])
    BY <1>1 DEF ResultIsLast
  <2>2. ASSUME reader[c].pc = "send" PROVE IsResult(reader[c].item)
    <3>1. Taken(c) = Append(got[c] \o out[c], reader[c].item) /\ got[c] \o out[c] \in Seq(Items) /\ reader[c].item \in Items
      BY <2>2, TakenType
    <3>2. \A s \in Seq(Items), x \in Items : Append(s, x)[Len(Append(s, x))] = x
      OBVIOUS
    <3>3. Taken(c)[Len(Taken(c))] = reader[c].item
      BY <3>1, <3>2, Zenon
    <3> QED BY <2>1, <3>3
  <2>3. reader'[c].pc \in {"send", "done"}
    BY <2>1, <2>2, PcStep
  <2> QED BY <1>1, <2>1, <2>3
<1>2. CASE TakenBy(c) /\ Parses(Head(raw))
  <2>1. PICK h \in Items : h = Head(raw)
    BY <1>2, HeadTail DEF TakenBy, TypeOK
  <2>2. reader[c].pc = "recv" /\ reader'[c].pc = "send" /\ Taken(c)' = Append(Taken(c), h)
    BY <1>2, <2>1 DEF TakenBy
  <2>3. \A i \in 1..Len(Taken(c)) : ~IsResult(Taken(c)[i])
    BY <2>2 DEF ResultIsLast
  <2>4. /\ Len(Taken(c)') = Len(Taken(c)) + 1 /\ Len(Taken(c)) \in Nat
        /\ \A i \in 1..Len(Taken(c)) : Taken(c)'[i] = Taken(c)[i]
    <3>1. Taken(c) \in Seq(Items)
      BY TakenType
    <3> QED BY <2>2, <3>1, Appended
  <2>5. k \notin 1..Len(Taken(c))
    BY <2>3, <2>4
  <2> QED BY <2>2, <2>4, <2>5
<1>3. TakenSame \/ \E d \in Calls : TakenBy(d)
  BY TakenStep
<1>4. Taken(c)' = Taken(c) \/ (TakenBy(c) /\ Parses(Head(raw)))
  BY <1>3 DEF TakenSame, TakenBy
<1> QED BY <1>1, <1>2, <1>4

LEMMA OwnTurnNext ==
  ASSUME StreamAssumption, TypeOK, TypeOK', ReaderInv, OwnTurn, TurnInv, [Next]_vars
  PROVE  OwnTurn'
<1> SUFFICES ASSUME host.style = "receive", cli.followUps = 0, NEW c \in Calls, NEW k \in 1..Len(Taken(c)')
             PROVE  Taken(c)'[k].turn = c
  BY StyleKept, FollowUpsStay DEF OwnTurn
<1>1. CASE Taken(c)' = Taken(c)
  BY <1>1 DEF OwnTurn
<1>2. CASE TakenBy(c) /\ Parses(Head(raw))
  <2>1. PICK h \in Items : h = Head(raw) /\ raw \in Seq(Items) /\ raw # <<>>
    BY <1>2, HeadTail DEF TakenBy, TypeOK
  <2>2. reader[c].pc = "recv" /\ Active(c) /\ Taken(c)' = Append(Taken(c), h)
    BY <1>2, <2>1 DEF TakenBy
  <2>3. PICK m \in Nat : Runs(raw, Due, m)
    BY <2>1 DEF TurnInv, Over
  <2>4. Due = c /\ Due \in Nat
    BY <2>2, DueOfActive, DueType
  <2>5. h.turn = c
    <3>1. ~IsAsk(h)
      BY ResultsParse
    <3> QED BY <2>1, <2>3, <2>4, <3>1, RunsHead
  <2>6. Taken(c) \in Seq(Items)
    BY TakenType
  <2>7. \A i \in 1..Len(Taken(c)) : Taken(c)[i].turn = c
    BY DEF OwnTurn
  <2> QED BY <2>2, <2>5, <2>6, <2>7, Appended
<1>3. TakenSame \/ \E d \in Calls : TakenBy(d)
  BY TakenStep
<1>4. Taken(c)' = Taken(c) \/ (TakenBy(c) /\ Parses(Head(raw)))
  BY <1>3 DEF TakenSame, TakenBy
<1> QED BY <1>1, <1>2, <1>4

\* What a step does to the turn that is due, if it takes nothing from raw.
LEMMA DueKept ==
  ASSUME StreamAssumption, TypeOK, ReaderInv, ReaderInv', TypeOK', [Next]_vars, host.style = "receive", ~Over,
         \A c \in Calls : ~ReaderTakes(c)
  PROVE  Due' = Due
<1> USE DEF cliVars, loopVars, readVars, hostVars
<1>1. ASSUME reader' = reader, host'.calls = host.calls PROVE Due' = Due
  BY <1>1 DEF Due
<1>2. CASE CliStep \/ (\E request \in AskKinds : CliAsks(request))
  BY <1>1, <1>2, CliEffect, AskEffect DEF CliStep
<1>3. CASE LoopStep
  BY <1>1, <1>3 DEF LoopStep, TakeFrame, Forward, LoopEnds
<1>4. CASE (\E a \in Asks : CallbackReturns(a) \/ Respond(a)) \/ Close \/ UNCHANGED vars
  BY <1>1, <1>4 DEF CallbackReturns, Respond, Close, vars
<1>5. CASE Send \/ TakeMessage \/ SeesEnd
  BY <1>1, <1>5, SendEffect, TakeMessageEffect, SeesEndEffect DEF Becomes
<1>6. ASSUME NEW c \in Calls, ReaderSends(c) PROVE Due' = Due
  <2>1. Active(c) /\ reader[c].pc = "send"
    BY <1>6, SendsEffect DEF Active
  <2>2. /\ host.calls = c /\ reader[c].until = "result" /\ \A d \in Calls : d # c => ~Active(d)
        /\ Due = IF IsResult(reader[c].item) THEN c + 1 ELSE c
    BY <2>1, DueOfActive
  <2>3. /\ reader'[c].pc = IF IsResult(reader[c].item) THEN "done" ELSE "recv"
        /\ host' = host /\ \A d \in Calls : d # c => reader'[d] = reader[d]
    BY <1>6, <2>2, SendsEffect DEF ReaderMoves
  <2>4. CASE IsResult(reader[c].item)
    <3>1. \A d \in Calls : reader'[d].pc \notin {"recv", "send"}
      BY <2>2, <2>3, <2>4 DEF Active
    <3>2. Due' = host'.calls + 1
      BY <3>1 DEF Due
    <3> QED BY <2>2, <2>3, <2>4, <3>2
  <2>5. CASE ~IsResult(reader[c].item)
    <3>1. Due' = host'.calls
      BY <2>3, <2>5 DEF Due
    <3> QED BY <2>2, <2>3, <2>5, <3>1
  <2> QED BY <2>4, <2>5
<1>7. ASSUME NEW c \in Calls PROVE ~ReaderEnds(c)
  BY DEF ReaderEnds, Over
<1>8. CASE ReceiveResponse
  <2> DEFINE c == host.calls + 1
  <2>1. /\ c \in Calls /\ host.at = 0 /\ host'.calls = c /\ StartReader(c, "result")
    BY <1>8, ReceiveEffect DEF Becomes
  <2>2. reader'[c].pc = "recv"
    BY <2>1, StartEffect
  <2>3. \A d \in Calls : ~Active(d)
    <3>1. \A d \in Calls : d # 0
      BY DEF Calls
    <3> QED BY <2>1, <3>1 DEF ReaderInv
  <2>4. Due = c
    BY <2>3, DueOfNone
  <2>5. Due' = host'.calls
    BY <2>1, <2>2 DEF Due
  <2> QED BY <2>1, <2>4, <2>5
<1>9. ~Query
  BY DEF Query
<1> QED BY <1>2, <1>3, <1>4, <1>5, <1>6, <1>7, <1>8, <1>9, StepKinds DEF ReaderStep

\* The turn at the CLI's end, as the CLI or a handler moves.
LEMMA AtCliNext ==
  ASSUME StreamAssumption, TypeOK, cli'.followUps = 0,
         CliStep \/ (\E request \in AskKinds : CliAsks(request)) \/ \E a \in Asks : Respond(a),
         NEW p \in Nat, NEW k \in Nat, AtCli(p, k)
  PROVE  \E n \in Nat : AtCli(p, n)'
<1> USE DEF cliVars, loopVars, readVars, hostVars
<1>0. /\ cli \in Clis /\ cli.turn \in Nat /\ cli.prompts \in Nat /\ cli.followUps \in Nat
      /\ wire \in Seq(Items \cup AskItems) /\ Runs(wire, p, k)
  BY DEF TypeOK, Clis, AtCli
<1>1. CASE CliStartsTurn
  <2>1. /\ cli'.does = "turn" /\ cli'.turn = cli.prompts + 1 /\ cli'.prompts = cli.prompts + 1 /\ wire' = wire
        /\ cli.does = "idle"
    BY <1>0, <1>1 DEF CliStartsTurn, Clis, Begun
  <2>2. AtCli(p, k)'
    BY <2>1 DEF AtCli
  <2> QED BY <2>2
<1>2. ~CliFollowsUp
  <2>1. CliFollowsUp => cli'.followUps = cli.followUps + 1
    BY <1>0 DEF CliFollowsUp, Clis
  <2> QED BY <1>0, <2>1
<1>3. ASSUME NEW x \in Items \cup AskItems, wire' = Append(wire, x), ~IsAsk(x) => x.turn = k,
             cli.does = "turn", cli'.turn = cli.turn, cli'.prompts = cli.prompts,
             IF Ends(x) THEN cli'.does = "idle" ELSE cli'.does \in {"turn", "asking"}
      PROVE  \E n \in Nat : AtCli(p, n)'
  <2> DEFINE n == IF Ends(x) THEN k + 1 ELSE k
  <2>1. n \in Nat /\ Runs(wire', p, n)
    BY <1>0, <1>3, RunsAppend, SMTT(60)
  <2>2. cli.turn = k /\ cli.prompts = k
    BY <1>3 DEF AtCli
  <2>3. AtCli(p, n)'
    BY <1>3, <2>1, <2>2 DEF AtCli
  <2> QED BY <2>1, <2>3
<1>4. ASSUME NEW frame \in Bodies, CliSays(frame) PROVE \E n \in Nat : AtCli(p, n)'
  <2>1. PICK x : x = [turn |-> cli.turn, frame |-> frame]
    OBVIOUS
  <2>2. x \in Items /\ x.turn = cli.turn /\ x.frame = frame
    BY <1>0, <2>1 DEF Items
  <2>3. ~Ends(x)
    BY <2>2 DEF Ends, IsResult, StreamAssumption
  <2>4. /\ cli.does = "turn" /\ cli'.does = "turn" /\ cli'.turn = cli.turn /\ cli'.prompts = cli.prompts
        /\ wire' = Append(wire, x)
    BY <1>0, <1>4, <2>1 DEF CliSays, Emit, Clis
  <2>5. x.turn = k
    BY <2>2, <2>4 DEF AtCli
  <2> QED BY <1>3, <2>2, <2>3, <2>4, <2>5
<1>5. ASSUME NEW request \in AskKinds, CliAsks(request) PROVE \E n \in Nat : AtCli(p, n)'
  <2>1. PICK x : x = [ask |-> cli.asked + 1, request |-> request]
    OBVIOUS
  <2>2. x \in AskItems /\ wire' = Append(wire, x)
    BY <1>5, <2>1, AskEffect
  <2>3. ~Ends(x) /\ IsAsk(x)
    BY <2>2, ResultsParse
  <2>4. cli.does = "turn" /\ cli'.does = "asking" /\ cli'.turn = cli.turn /\ cli'.prompts = cli.prompts
    BY <1>0, <1>5 DEF CliAsks, Clis
  <2> QED BY <1>3, <2>2, <2>3, <2>4
<1>6. CASE CliEndsTurn
  <2>1. PICK x : x = [turn |-> cli.turn, frame |-> Result]
    OBVIOUS
  <2>2. x \in Items /\ x.turn = cli.turn /\ x.frame = Result
    BY <1>0, <2>1 DEF Items
  <2>3. Ends(x)
    BY <2>2, ResultsParse DEF IsResult, StreamAssumption
  <2>4. /\ cli.does = "turn" /\ cli'.does = "idle" /\ cli'.turn = cli.turn /\ cli'.prompts = cli.prompts
        /\ wire' = Append(wire, x)
    BY <1>0, <1>6, <2>1 DEF CliEndsTurn, Emit, Clis
  <2>5. x.turn = k
    BY <2>2, <2>4 DEF AtCli
  <2> QED BY <1>3, <2>2, <2>3, <2>4, <2>5
<1>7. CASE CliExits
  <2>1. cli'.does = "gone" /\ wire' = wire
    BY <1>0, <1>7 DEF CliExits, Clis
  <2> QED BY <1>0, <2>1 DEF AtCli
<1>8. ASSUME NEW a \in Asks, Respond(a) PROVE \E n \in Nat : AtCli(p, n)'
  <2>1. /\ cli' = cli \/ (cli.does = "asking" /\ cli' = [cli EXCEPT !.does = "turn"])
        /\ wire' = wire
    BY <1>8 DEF Respond
  <2>2. CASE cli' = cli
    BY <2>1, <2>2 DEF AtCli
  <2>3. CASE cli.does = "asking" /\ cli' = [cli EXCEPT !.does = "turn"]
    <3>1. cli'.does = "turn" /\ cli'.turn = cli.turn /\ cli'.prompts = cli.prompts
      BY <1>0, <2>3 DEF Clis
    <3>2. AtCli(p, k)'
      BY <2>1, <2>3, <3>1 DEF AtCli
    <3> QED BY <3>2
  <2> QED BY <2>1, <2>2, <2>3
<1> QED BY <1>1, <1>2, <1>4, <1>5, <1>6, <1>7, <1>8 DEF CliStep

\* A step of the CLI or of a handler leaves what is behind the pipe alone.
LEMMA CliTurns ==
  ASSUME StreamAssumption, TypeOK, cli'.followUps = 0,
         CliStep \/ (\E request \in AskKinds : CliAsks(request)) \/ \E a \in Asks : Respond(a),
         NEW m \in Nat, NEW p \in Nat, AtLoop(m, p), ~closed /\ ~LoopGone => \E k \in Nat : AtCli(p, k)
  PROVE  /\ raw' = raw /\ AtLoop(m, p)'
         /\ ~closed' /\ ~LoopGone' => \E k \in Nat : AtCli(p, k)'
<1> USE DEF cliVars, loopVars, readVars, hostVars
<1>1. UNCHANGED <<raw, loop, closed>>
  <2>1. CASE CliStep \/ (\E request \in AskKinds : CliAsks(request))
    BY <2>1, CliEffect, AskEffect DEF CliStep
  <2>2. CASE \E a \in Asks : Respond(a)
    BY <2>2 DEF Respond
  <2> QED BY <2>1, <2>2
<1>2. AtLoop(m, p)'
  BY <1>1 DEF AtLoop
<1>3. ASSUME ~closed, ~LoopGone PROVE \E k \in Nat : AtCli(p, k)'
  <2>1. PICK k \in Nat : AtCli(p, k)
    BY <1>3
  <2> QED BY <2>1, AtCliNext
<1> QED BY <1>1, <1>2, <1>3 DEF LoopGone

\* The read loop takes a frame from the pipe, and is ended by the query's being closed.
LEMMA TakeFrameTurns ==
  ASSUME StreamAssumption, TypeOK, TakeFrame,
         NEW m \in Nat, NEW p \in Nat, AtLoop(m, p), ~closed /\ ~LoopGone => \E k \in Nat : AtCli(p, k)
  PROVE  /\ raw' = raw
         /\ \E q \in Nat : /\ AtLoop(m, q)'
                           /\ ~closed' /\ ~LoopGone' => \E k \in Nat : AtCli(q, k)'
<1> USE DEF cliVars, loopVars, readVars, hostVars
<1>1. /\ loop.pc = "recv" /\ wire # <<>> /\ wire' = Tail(wire) /\ cli' = cli /\ raw' = raw /\ closed' = closed
      /\ wire \in Seq(Items \cup AskItems)
  BY DEF TakeFrame, TypeOK
<1>2. p = m
  BY <1>1 DEF AtLoop
<1>3. CASE closed
  <2>1. loop'.pc = "gone"
    BY <1>3 DEF TakeFrame, TypeOK, Loops
  <2>2. AtLoop(m, m)'
    BY <2>1 DEF AtLoop
  <2> QED BY <1>1, <1>3, <2>2
<1>4. CASE ~closed
  <2>1. PICK x \in Items \cup AskItems : x = Head(wire)
    BY <1>1, HeadTail
  <2>2. PICK k \in Nat : AtCli(m, k)
    BY <1>1, <1>2, <1>4 DEF LoopGone
  <2>3. /\ ~IsAsk(x) => x.turn = m
        /\ Runs(wire', IF Ends(x) THEN m + 1 ELSE m, k)
    <3>1. Runs(wire, m, k)
      BY <2>2 DEF AtCli
    <3> QED BY <1>1, <2>1, <3>1, RunsHead
  <2>4. ASSUME NEW q \in Nat, Runs(wire', q, k) PROVE AtCli(q, k)'
    BY <1>1, <2>2, <2>4 DEF AtCli
  <2>5. CASE IsAsk(x)
    <3>1. ~Ends(x) /\ loop' = loop
      BY <1>4, <2>1, <2>5 DEF TakeFrame, Ends
    <3>2. AtLoop(m, m)' /\ AtCli(m, k)'
      BY <1>1, <2>3, <2>4, <3>1 DEF AtLoop
    <3> QED BY <1>1, <3>2
  <2>6. CASE ~IsAsk(x) /\ x.frame = HostState
    <3>1. ~Ends(x) /\ loop' = loop
      BY <1>4, <2>1, <2>6 DEF TakeFrame, Ends, IsResult, StreamAssumption
    <3>2. AtLoop(m, m)' /\ AtCli(m, k)'
      BY <1>1, <2>3, <2>4, <3>1 DEF AtLoop
    <3> QED BY <1>1, <3>2
  <2>7. CASE ~IsAsk(x) /\ x.frame # HostState
    <3> DEFINE q == IF IsResult(x) THEN m + 1 ELSE m
    <3>1. q \in Nat /\ loop' = [pc |-> "forward", item |-> x] /\ (Ends(x) <=> IsResult(x))
      BY <1>4, <2>1, <2>7 DEF TakeFrame, Ends
    <3>2. AtLoop(m, q)'
      BY <2>3, <2>7, <3>1 DEF AtLoop
    <3>3. AtCli(q, k)'
      BY <2>3, <2>4, <3>1
    <3> QED BY <1>1, <3>1, <3>2, <3>3
  <2> QED BY <2>5, <2>6, <2>7
<1> QED BY <1>3, <1>4

\* The read loop hands its frame on, or drops it because the query is closed, or ends.
LEMMA ForwardTurns ==
  ASSUME StreamAssumption, TypeOK, Forward \/ LoopEnds, NEW e \in Nat,
         NEW m \in Nat, NEW p \in Nat, Runs(raw, e, m),
         AtLoop(m, p), ~closed /\ ~LoopGone => \E k \in Nat : AtCli(p, k)
  PROVE  \E n, q \in Nat :
           /\ Runs(raw', e, n) /\ AtLoop(n, q)'
           /\ ~closed' /\ ~LoopGone' => \E k \in Nat : AtCli(q, k)'
<1> USE DEF cliVars, loopVars, readVars, hostVars
<1>1. cli' = cli /\ wire' = wire /\ closed' = closed /\ raw \in Seq(Items)
  BY DEF Forward, LoopEnds, TypeOK
<1>2. \A k \in Nat : AtCli(p, k)' <=> AtCli(p, k)
  BY <1>1 DEF AtCli
<1>3. CASE LoopEnds
  <2>1. loop.pc = "recv" /\ loop'.pc = "gone" /\ raw' = raw
    BY <1>3 DEF LoopEnds, TypeOK, Loops
  <2>2. AtLoop(m, p)'
    BY <2>1 DEF AtLoop
  <2> QED BY <2>1, <2>2 DEF LoopGone
<1>4. CASE Forward
  <2>1. PICK x \in Items : x = loop.item
    BY DEF TypeOK, Loops
  <2>2. /\ loop.pc = "forward" /\ loop'.pc = "recv"
        /\ raw' = Append(raw, x) \/ (closed /\ raw' = raw)
    BY <1>4, <2>1 DEF Forward
  <2>3. x.turn = m /\ p = IF IsResult(x) THEN m + 1 ELSE m
    BY <2>1, <2>2 DEF AtLoop
  <2>4. \A q \in Nat : AtLoop(q, q)'
    BY <2>2 DEF AtLoop
  <2>5. CASE raw' = Append(raw, x)
    <3>1. Runs(raw', e, p)
      <4>1. Runs(Append(raw, x), e, IF Ends(x) THEN m + 1 ELSE m)
        BY <1>1, <2>3, RunsAppend
      <4>2. Ends(x) <=> IsResult(x)
        BY ResultsParse
      <4> QED BY <2>3, <2>5, <4>1, <4>2
    <3>2. ~closed' /\ ~LoopGone' => \E k \in Nat : AtCli(p, k)'
      BY <1>1, <1>2, <2>2 DEF LoopGone
    <3> QED BY <2>4, <3>1, <3>2
  <2>6. CASE closed /\ raw' = raw
    BY <1>1, <2>4, <2>6
  <2> QED BY <2>2, <2>5, <2>6
<1> QED BY <1>3, <1>4

\* A goroutine takes a frame: what it parsed is the head of what is due.
LEMMA TakesTurns ==
  ASSUME StreamAssumption, TypeOK, TypeOK', ReaderInv, ReaderInv', host.style = "receive", NEW c \in Calls, ReaderTakes(c),
         NEW m \in Nat, Runs(raw, Due, m)
  PROVE  Runs(raw', Due', m)
<1> USE DEF cliVars, loopVars, readVars, hostVars
<1>1. /\ reader[c].pc = "recv" /\ raw # <<>> /\ raw' = Tail(raw) /\ host' = host /\ raw \in Seq(Items)
  BY TakesEffect DEF TypeOK
<1>2. PICK h \in Items : h = Head(raw)
  BY <1>1, HeadTail
<1>3. Due = c /\ c \in Nat /\ host.calls = c /\ \A d \in Calls : d # c => ~Active(d)
  BY <1>1, DueOfActive DEF Active, Calls
<1>4. Runs(raw', IF IsResult(h) THEN c + 1 ELSE c, m)
  <2>1. Ends(h) <=> IsResult(h)
    BY ResultsParse
  <2>2. Runs(raw, c, m)
    BY <1>3
  <2>3. Runs(Tail(raw), IF Ends(h) THEN c + 1 ELSE c, m)
    BY <1>1, <1>2, <1>3, <2>2, RunsHead
  <2> QED BY <1>1, <2>1, <2>3
<1>5. CASE ~Parses(h)
  <2>1. reader' = reader /\ ~IsResult(h)
    BY <1>2, <1>5, TakesEffect, ResultsParse
  <2>2. Due' = Due
    BY <1>1, <2>1 DEF Due
  <2> QED BY <1>3, <1>4, <2>1, <2>2
<1>6. CASE Parses(h)
  <2>1. /\ reader'[c].pc = "send" /\ reader'[c].item = h
        /\ \A d \in Calls : d # c => reader'[d] = reader[d]
    BY <1>2, <1>6, TakesEffect DEF ReaderMoves
  <2>2. \A d \in Calls : d # c => reader'[d].pc \notin {"recv", "send"}
    BY <1>3, <2>1 DEF Active
  <2>3. Due' = IF IsResult(h) THEN c + 1 ELSE c
    BY <1>1, <1>3, <2>1, <2>2 DEF Due
  <2> QED BY <1>4, <2>3
<1> QED BY <1>5, <1>6

LEMMA TurnInvNext ==
  ASSUME StreamAssumption, TypeOK, TypeOK', ReaderInv, ReaderInv', TurnInv, [Next]_vars
  PROVE  TurnInv'
<1> USE DEF cliVars, loopVars, readVars, hostVars
<1> SUFFICES ASSUME host.style = "receive", cli'.followUps = 0, ~Over'
             PROVE  \E m, p \in Nat :
                      /\ Runs(raw', Due', m) /\ AtLoop(m, p)'
                      /\ ~closed' /\ ~LoopGone' => \E k \in Nat : AtCli(p, k)'
  BY StyleKept DEF TurnInv
<1>1. cli.followUps = 0
  BY FollowUpsStay
<1>2. ~Over
  <2>1. ASSUME Over PROVE loop' = loop /\ raw' = raw
    <3>1. ~LoopStep /\ \A c \in Calls : ~ReaderTakes(c)
      BY <2>1 DEF Over, LoopGone, LoopStep, TakeFrame, Forward, LoopEnds, ReaderTakes
    <3>2. CASE CliStep \/ (\E request \in AskKinds : CliAsks(request))
      BY <3>2, CliEffect, AskEffect DEF CliStep
    <3>3. CASE (\E a \in Asks : CallbackReturns(a) \/ Respond(a)) \/ Close \/ UNCHANGED vars
      BY <3>3 DEF CallbackReturns, Respond, Close, vars
    <3>4. CASE \E c \in Calls : ReaderStep(c)
      BY <3>1, <3>4 DEF ReaderStep, ReaderSends, ReaderEnds
    <3>5. CASE Send \/ ReceiveResponse \/ Query \/ TakeMessage \/ SeesEnd
      BY <3>5, SendEffect, ReceiveEffect, QueryEffect, TakeMessageEffect, SeesEndEffect
    <3> QED BY <3>1, <3>2, <3>3, <3>4, <3>5, StepKinds
  <2> QED BY <2>1 DEF Over, LoopGone
<1>3. PICK m \in Nat, p \in Nat :
        /\ Runs(raw, Due, m) /\ AtLoop(m, p)
        /\ ~closed /\ ~LoopGone => \E k \in Nat : AtCli(p, k)
  BY <1>1, <1>2 DEF TurnInv
<1>4. CASE \E c \in Calls : ReaderTakes(c)
  <2>1. PICK c \in Calls : ReaderTakes(c)
    BY <1>4
  <2>2. Runs(raw', Due', m)
    BY <1>3, <2>1, TakesTurns
  <2>3. UNCHANGED <<loop, closed, cli, wire>>
    BY <2>1, TakesEffect
  <2>4. AtLoop(m, p)' /\ \A k \in Nat : AtCli(p, k)' <=> AtCli(p, k)
    BY <1>3, <2>3 DEF AtLoop, AtCli
  <2> QED BY <1>3, <2>2, <2>3, <2>4 DEF LoopGone
<1>5. CASE \A c \in Calls : ~ReaderTakes(c)
  <2>1. Due' = Due /\ Due \in Nat
    BY <1>2, <1>5, DueKept, DueType
  <2>2. CASE CliStep \/ (\E request \in AskKinds : CliAsks(request)) \/ \E a \in Asks : Respond(a)
    <3>1. /\ raw' = raw /\ AtLoop(m, p)'
          /\ ~closed' /\ ~LoopGone' => \E k \in Nat : AtCli(p, k)'
      BY <1>3, <2>2, CliTurns
    <3> QED BY <1>3, <2>1, <3>1
  <2>3. CASE TakeFrame
    <3>1. /\ raw' = raw
          /\ \E q \in Nat : /\ AtLoop(m, q)'
                            /\ ~closed' /\ ~LoopGone' => \E k \in Nat : AtCli(q, k)'
      BY <1>3, <2>3, TakeFrameTurns
    <3> QED BY <1>3, <2>1, <3>1
  <2>4. CASE Forward \/ LoopEnds
    <3>1. PICK d \in Nat : d = Due
      BY <2>1
    <3>2. \E n, q \in Nat :
            /\ Runs(raw', d, n) /\ AtLoop(n, q)'
            /\ ~closed' /\ ~LoopGone' => \E k \in Nat : AtCli(q, k)'
      BY <1>3, <2>4, <3>1, ForwardTurns
    <3> QED BY <2>1, <3>1, <3>2
  <2>5. ASSUME UNCHANGED <<raw, loop, cli, wire>>, closed' = closed \/ closed'
        PROVE  \E n, q \in Nat :
                 /\ Runs(raw', Due', n) /\ AtLoop(n, q)'
                 /\ ~closed' /\ ~LoopGone' => \E k \in Nat : AtCli(q, k)'
    <3>1. AtLoop(m, p)' /\ \A k \in Nat : AtCli(p, k)' <=> AtCli(p, k)
      BY <1>3, <2>5 DEF AtLoop, AtCli
    <3> QED BY <1>3, <2>1, <2>5, <3>1 DEF LoopGone
  <2>6. CASE (\E a \in Asks : CallbackReturns(a)) \/ Close \/ UNCHANGED vars
    BY <2>5, <2>6 DEF CallbackReturns, Close, vars
  <2>7. CASE \E c \in Calls : ReaderStep(c)
    BY <1>5, <2>5, <2>7 DEF ReaderStep, ReaderSends, ReaderEnds
  <2>8. CASE Send \/ ReceiveResponse \/ Query \/ TakeMessage \/ SeesEnd
    BY <2>5, <2>8, SendEffect, ReceiveEffect, QueryEffect, TakeMessageEffect, SeesEndEffect
  <2> QED BY <2>2, <2>3, <2>4, <2>6, <2>7, <2>8, StepKinds DEF LoopStep
<1> QED BY <1>4, <1>5

(* ---- a response is a turn ---- *)

\* The invariants of the frames' way to the host.
TurnsInv == Inv /\ Unmade /\ Filtered /\ Turns

LEMMA FilteredInit == ASSUME StreamAssumption, Init PROVE Unmade /\ Filtered
<1>1. TypeOK /\ ReaderInv
  BY TypeInit, ReaderInit
<1>2. Unmade
  BY DEF Init, Unmade
<1>3. ASSUME host.style # "each" PROVE FlattenSeq(AllTaken) = <<>>
  <2>1. host.calls = 0 /\ \A c \in Calls : 0 < c
    BY DEF Init, Calls
  <2>2. \A c \in Calls : Taken(c) = <<>>
    BY <1>1, <1>2, <1>3, <2>1, UnmadeTaken
  <2>3. /\ AllTaken \in Seq(Seq(Items)) /\ Len(AllTaken) = MaxPrompts /\ MaxPrompts \in Nat
        /\ \A c \in 1..MaxPrompts : AllTaken[c] = <<>>
    BY <1>1, <2>2, AllTakenType DEF StreamAssumption, Calls
  <2> QED BY <2>3, FlattenNothing
<1>4. raw = <<>> /\ passed = <<>> /\ <<>> \o <<>> = <<>>
  BY DEF Init
<1> QED BY <1>2, <1>3, <1>4, EachEmpty DEF Filtered

LEMMA FilteredImplies ==
  ASSUME StreamAssumption, TurnsInv
  PROVE  ResponseIsOneTurn
<1>1. TypeOK
  BY DEF TurnsInv, Inv
<1>2. ASSUME host.style # "each"
      PROVE  FlattenSeq([c \in Calls |-> Taken(c)]) \o Messages(raw) = Messages(passed)
  <2>1. Messages(raw) = Each(AsMessages, raw) /\ Messages(passed) = Each(AsMessages, passed)
    BY <1>1, MessagesAreEach DEF TypeOK
  <2> QED BY <1>2, <2>1 DEF TurnsInv, Filtered, AllTaken
<1>3. ASSUME host.style = "receive", NEW c \in Calls, NEW k \in DOMAIN Taken(c)
      PROVE  /\ IsResult(Taken(c)[k]) => k = Len(Taken(c)) /\ reader[c].pc \in {"send", "done"}
             /\ cli.followUps = 0 => Taken(c)[k].turn = c
  <2>1. Taken(c) \in Seq(Items)
    BY <1>1, TakenType
  <2>2. k \in 1..Len(Taken(c))
    BY <2>1
  <2> QED BY <1>3, <2>2 DEF TurnsInv, Turns, ResultIsLast, OwnTurn
<1> QED BY <1>2, <1>3 DEF ResponseIsOneTurn

LEMMA TurnsInvNext == ASSUME StreamAssumption, TurnsInv, Inv', [Next]_vars PROVE TurnsInv'
<1>1. TypeOK /\ ReaderInv /\ TypeOK' /\ ReaderInv'
  BY DEF TurnsInv, Inv
<1>2. Unmade'
  BY <1>1, UnmadeNext DEF TurnsInv
<1>3. Filtered'
  <2>1. host.style # "each" => FlattenSeq(AllTaken)' \o Each(AsMessages, raw') = Each(AsMessages, passed')
    BY <1>1, FilteredNext DEF TurnsInv
  <2>2. host'.style = host.style
    BY <1>1, StyleKept
  <2> QED BY <2>1, <2>2 DEF Filtered
<1>4. ResultIsLast' /\ OwnTurn' /\ TurnInv'
  BY <1>1, ResultIsLastNext, OwnTurnNext, TurnInvNext DEF TurnsInv, Turns
<1> QED BY <1>2, <1>3, <1>4 DEF TurnsInv, Turns

\* "ReceiveResponse returns messages until a ResultMessage is received" (client.go:450):
\* the calls of a host that asks for one response at a time divide all the messages among
\* themselves, in order and whole; each ends at a result; and unless the CLI ran a turn of
\* its own, the response to a prompt is that prompt's turn.
THEOREM ResponsesAreTurns == ASSUME StreamAssumption PROVE Spec => []ResponseIsOneTurn
<1>1. Init => TurnsInv
  BY TypeInit, RequestInit, ReaderInit, FilteredInit, TurnsInit DEF TurnsInv, Inv
<1>2. TurnsInv /\ [Next]_vars => TurnsInv'
  <2> SUFFICES ASSUME TurnsInv, [Next]_vars PROVE TurnsInv'
    OBVIOUS
  <2>1. Inv /\ Handled
    BY DEF TurnsInv, Inv, RequestInv
  <2>2. Inv'
    BY <2>1, TypeNext, RequestNext, ReaderNext DEF Inv
  <2> QED BY <2>2, TurnsInvNext
<1>3. TurnsInv => ResponseIsOneTurn
  BY FilteredImplies
<1> QED
  BY <1>1, <1>2, <1>3, PTL DEF Spec
=============================================================================
