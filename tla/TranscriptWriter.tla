--------------------------- MODULE TranscriptWriter ---------------------------
(***************************************************************************)
(* A transcript while the CLI writes it, read at every moment.  The CLI is *)
(* external: prompts, blocks of a streamed response that share its id,     *)
(* results in any order, progress and attachment lines, a retried          *)
(* response, a prompt edited and sent again, lines of a sidechain or a     *)
(* team, lines without a timestamp, a write that is repeated, and a line   *)
(* that is lost.  `live` is what the CLI itself holds to be the            *)
(* conversation.                                                           *)
(***************************************************************************)
EXTENDS Transcript

CONSTANTS
  MaxCost,    \* bound of a run: a line costs 1, what is not a prompt, block or result 2 more
  PageSizes   \* limits a reader asks for

ASSUME WriterAssumption == MaxCost \in Nat /\ MaxCost < FreshBase

VARIABLES
  lines,   \* the transcript
  count,   \* uuids given out
  odd,     \* unusual lines so far
  lost,    \* a line did not reach the file
  head,    \* the line the next one continues
  live,    \* the lines of the conversation
  turns,   \* per prompt of the conversation: head and live before it
  resp,    \* the response being streamed, and head and live before it
  open     \* calls not answered yet

vars == <<lines, count, odd, lost, head, live, turns, resp, open>>

NoResponse == [id |-> None, head |-> None, live |-> {}]

\* A new line that continues `parent`; a call has the uuid of the block that makes it.
Line(type, parent) ==
  [type |-> type, uuid |-> count + 1, parent |-> parent, resp |-> None, calls |-> {}, answers |-> {},
   source |-> None, side |-> FALSE, team |-> FALSE, meta |-> FALSE, agent |-> None, ts |-> count + 1]

Put(line) ==
  /\ count' = count + 1
  /\ lines' = Append(lines, line)

PutMain(line, before) == Put(line) /\ head' = line.uuid /\ live' = before \cup {line.uuid}

Odd == odd' = odd + 1
Within == count' + 2 * odd' <= MaxCost

WriterInit ==
  /\ lines = <<>> /\ count = 0 /\ odd = 0 /\ lost = FALSE
  /\ head = None /\ live = {} /\ turns = <<>> /\ resp = NoResponse /\ open = {}

\* A prompt, or a caveat the CLI adds as a meta line.
Prompt ==
  /\ open = {}
  /\ PutMain(Line("user", head), live)
  /\ turns' = Append(turns, [head |-> head, live |-> live])
  /\ resp' = NoResponse
  /\ UNCHANGED <<odd, lost, open>>

\* An earlier prompt is edited: the conversation goes on from before it.
Rewind ==
  /\ Odd /\ turns # <<>>
  /\ \E i \in DOMAIN turns :
        /\ PutMain(Line("user", turns[i].head), turns[i].live)
        /\ turns' = SubSeq(turns, 1, i)
  /\ resp' = NoResponse /\ open' = {}
  /\ UNCHANGED lost

\* A block of a response, text or a call; the first block starts the response.
Block ==
  /\ turns # <<>> /\ (resp.id = None => open = {})
  /\ LET id == IF resp.id = None THEN count + 1 ELSE resp.id
         block == [Line("assistant", head) EXCEPT !.resp = id]
     IN \/ PutMain(block, live) /\ UNCHANGED open
        \/ /\ PutMain([block EXCEPT !.calls = {count + 1}], live)
           /\ open' = open \cup {count + 1}
  /\ resp' = IF resp.id = None THEN [id |-> count + 1, head |-> head, live |-> live] ELSE resp
  /\ UNCHANGED <<odd, lost, turns>>

\* The request is sent again: a response with another id in the place of this one.
Retry ==
  /\ resp.id # None /\ Odd
  /\ PutMain([Line("assistant", resp.head) EXCEPT !.resp = count + 1, !.calls = {count + 1}], resp.live)
  /\ resp' = [resp EXCEPT !.id = count + 1]
  /\ open' = {count + 1}
  /\ UNCHANGED <<lost, turns>>

\* A result continues the block of its call, or a progress line under it.
Result ==
  \E call \in open :
    /\ \E parent \in {call} \cup {lines[i].uuid : i \in {j \in DOMAIN lines :
                                    lines[j].type = "progress" /\ lines[j].parent = call}} :
          PutMain([Line("user", parent) EXCEPT !.answers = {call}, !.source = call], live)
    /\ open' = open \ {call}
    /\ resp' = IF open' = {} THEN NoResponse ELSE resp
    /\ UNCHANGED <<odd, lost, turns>>

\* Lines of the conversation that are no turn, or that are not shown.
Aside ==
  /\ Odd /\ turns # <<>>
  /\ \/ \E type \in {"progress", "attachment", "system"} : PutMain(Line(type, head), live)
     \/ PutMain([Line("user", head) EXCEPT !.meta = TRUE], live)
     \/ PutMain([Line("user", head) EXCEPT !.team = TRUE], live)
  /\ UNCHANGED <<lost, turns, resp, open>>

\* A subagent's line, in the same file and off the conversation.
Sidechain ==
  /\ Odd
  /\ \E parent \in {None, head} :
        Put([Line("user", parent) EXCEPT !.side = TRUE, !.agent = 1])
  /\ UNCHANGED <<lost, head, live, turns, resp, open>>

\* Metadata: a title or a tag, appended by anybody.
Metadata ==
  /\ Odd
  /\ lines' = Append(lines, [Line("custom-title", None) EXCEPT !.uuid = None])
  /\ UNCHANGED <<count, lost, head, live, turns, resp, open>>

\* A batch that was written in part is written again, or a session is imported twice.
Repeat ==
  /\ Odd
  /\ \E n \in 1..Len(lines) : lines' = lines \o SubSeq(lines, n, Len(lines))
  /\ UNCHANGED <<count, lost, head, live, turns, resp, open>>

\* The CLI dies while it writes the last line, and goes on later.
Lose ==
  /\ Odd /\ lines # <<>>
  /\ lines' = Front(lines)
  /\ lost' = TRUE
  /\ UNCHANGED <<count, head, live, turns, resp, open>>

WriterNext ==
  /\ \/ Prompt \/ Rewind \/ Block \/ Retry \/ Result
     \/ Aside \/ Sidechain \/ Metadata \/ Repeat \/ Lose
  /\ Within

WriterSpec == WriterInit /\ [][WriterNext]_vars

-----------------------------------------------------------------------------
Entries == DiskEntries(lines)
Shown   == Messages(Entries)
LineOf(u) == ByUuid(lines, u)

ReadByPages(shown, n) ==
  FlattenSeq([i \in 1..Len(shown) + 1 |-> Page(shown, (i - 1) * n, n)])

\* Every hidden turn that continues another line has a shown turn after it.
EndsInTheOpen(es) ==
  \A i \in DOMAIN es :
     IsTurn(es[i]) /\ ~IsVisible(es[i]) /\ es[i].parent # None =>
        \E j \in i..Len(es) : IsVisible(es[j])

\* While no line is lost, the messages read, page by page, are the ones of the
\* conversation the CLI is in: every call and result of a parallel turn, and
\* nothing of a retried response or of a branch that was edited away.
ReadsTheConversation ==
  ~lost /\ EndsInTheOpen(lines) =>
     LET shown == Shown
     IN /\ ToSet(shown) = {u \in live : IsVisible(LineOf(u))}
        /\ \A n \in PageSizes : ReadByPages(shown, n) = shown

\* Whatever was lost or repeated: a message is shown once, and the result of a
\* call never before the call.
AnswersFollowCalls ==
  LET shown == Shown
  IN \A i, j \in DOMAIN shown :
        i < j => /\ shown[i] # shown[j]
                 /\ LineOf(shown[j]).calls \cap LineOf(shown[i]).answers = {}

\* A fork, whole or up to a message, reads as its source did at that message
\* (a team's lines apart, which a fork makes its own).
ForkReadsTheSame ==
  ~lost /\ (\A i \in DOMAIN lines : ~lines[i].team) =>
     \A u \in {None} \cup Uuids(ForkSource(lines, None)) :
        LET source  == ForkSource(lines, u)
            reading == Messages(source)
        IN EndsInTheOpen(source) =>
              Messages(Fork(lines, u, count + 1)) = [i \in DOMAIN reading |-> Renamed(reading[i])]

\* A reader of the store, which keeps no progress or attachment lines, may show
\* less than the reader of the file, but nothing of an abandoned branch.
StoreShowsNoOther ==
  ~lost /\ EndsInTheOpen(lines) => ToSet(Messages(StoreEntries(lines))) \subseteq live
=============================================================================
