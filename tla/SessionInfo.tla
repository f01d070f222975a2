------------------------------ MODULE SessionInfo ------------------------------
(***************************************************************************)
(* What a listing knows of a session, computed from its lines in two ways: *)
(* from the first and last bytes of the transcript (sessions.go, for files *)
(* and for entries of a store that are written out again), and from the    *)
(* summary a store keeps up to date (session_summary.go).  Also the title  *)
(* and the lines of a fork (session_mutations.go), the order and paging of *)
(* a listing, and what an agent's metadata entry is told apart by.         *)
(*                                                                         *)
(* A line has a kind, a text (a number, None is the empty text), a mark    *)
(* for the sidechain, and `sorted`: its keys are in alphabetical order, as *)
(* json.Marshal writes a map, so that it does not begin with its type.     *)
(* Sizes are counted in lines.                                             *)
(***************************************************************************)
EXTENDS Integers, Sequences, FiniteSets, SequencesExt, FiniteSetsExt

CONSTANTS
  Window,    \* lines in the head, and in the tail, of a transcript
  ForkBase   \* ForkBase + t is the title of a fork of a session titled t

ASSUME InfoAssumption == Window \in Nat \ {0} /\ ForkBase \in Nat \ {0, 1}

None == 0
Kinds == {"prompt", "meta", "reply", "custom-title", "ai-title", "last-prompt", "tag", "agent_metadata"}
LineType == [kind : Kinds, text : Nat, side : BOOLEAN, sorted : BOOLEAN]
NoInfo == [title |-> None, summary |-> None, prompt |-> None, tag |-> None]

Or(a, b) == IF a # None THEN a ELSE b   \* the first text that is not empty

\* The elements of s that are in S, in their order.
Among(s, S) == FlattenSeq([i \in DOMAIN s |-> IF s[i] \in S THEN <<s[i]>> ELSE <<>>])

-----------------------------------------------------------------------------
(* ---- from the head and the tail ---- *)

\* Where a field of that kind is, and what it says first and last.
OfKind(lines, kind)    == {i \in DOMAIN lines : lines[i].kind = kind /\ lines[i].text # None}
FirstText(lines, kind) == LET at == OfKind(lines, kind) IN IF at = {} THEN None ELSE lines[Min(at)].text
LastText(lines, kind)  == LET at == OfKind(lines, kind) IN IF at = {} THEN None ELSE lines[Max(at)].text

HeadOf(lines) == SubSeq(lines, 1, Min({Window, Len(lines)}))
TailOf(lines) == SubSeq(lines, Max({1, Len(lines) - Window + 1}), Len(lines))

\* A field's last value in the tail, or else in the head.
Recent(lines, kind) ==
  Or(LastText(TailOf(lines), kind), LastText(HeadOf(lines), kind))

TitleOf(lines) == Or(Recent(lines, "custom-title"), Recent(lines, "ai-title"))

\* The first prompt that is not meta; a sidechain's counts.
FirstPrompt(lines) == FirstText(HeadOf(lines), "prompt")

\* Only a line that begins with its type is taken for a tag.
TagOf(lines) ==
  LET tail == TailOf(lines)
      tags == {i \in DOMAIN tail : tail[i].kind = "tag" /\ ~tail[i].sorted}
  IN IF tags = {} THEN None ELSE tail[Max(tags)].text

\* parseSessionInfoFromLite
LiteInfo(lines) ==
  LET title   == TitleOf(lines)
      summary == Or(Or(title, LastText(TailOf(lines), "last-prompt")), FirstPrompt(lines))
  IN IF lines = <<>> \/ Head(lines).side \/ summary = None THEN NoInfo
     ELSE [title |-> title, summary |-> summary, prompt |-> FirstPrompt(lines), tag |-> TagOf(lines)]

\* entriesToJSONL: every line is marshalled from a map.
WrittenOut(entries) == [i \in DOMAIN entries |-> [entries[i] EXCEPT !.sorted = TRUE]]

-----------------------------------------------------------------------------
(* ---- the summary a store keeps ---- *)

SummaryType == [side : BOOLEAN, custom : Nat, ai : Nat, lastPrompt : Nat, prompt : Nat, tag : Nat]
NoSummary == [side |-> FALSE, custom |-> None, ai |-> None, lastPrompt |-> None, prompt |-> None,
              tag |-> None]

IsPrompt(l) == l.kind \in {"prompt", "meta"}

\* One entry: the sidechain mark and the first prompt are set once, the others follow the last.
FoldLine(s, l) ==
  [side       |-> s.side \/ l.side,
   custom     |-> IF l.kind = "custom-title" THEN Or(l.text, s.custom) ELSE s.custom,
   ai         |-> IF l.kind = "ai-title" THEN Or(l.text, s.ai) ELSE s.ai,
   lastPrompt |-> IF l.kind = "last-prompt" THEN Or(l.text, s.lastPrompt) ELSE s.lastPrompt,
   prompt     |-> IF IsPrompt(l) THEN Or(s.prompt, l.text) ELSE s.prompt,
   tag        |-> IF l.kind = "tag" THEN l.text ELSE s.tag]

FoldSessionSummary(prev, entries) ==
  LET fold[i \in 0..Len(entries)] == IF i = 0 THEN prev ELSE FoldLine(fold[i - 1], entries[i])
  IN fold[Len(entries)]

\* summaryEntryToSDKInfo
SummaryInfo(s) ==
  LET title   == Or(s.custom, s.ai)
      summary == Or(Or(title, s.lastPrompt), s.prompt)
  IN IF s.side \/ summary = None THEN NoInfo
     ELSE [title |-> title, summary |-> summary, prompt |-> s.prompt, tag |-> s.tag]

-----------------------------------------------------------------------------
(* ---- listings ---- *)

\* Newest first; two sessions written in the same millisecond are left out.
Newest(infos) ==
  [i \in 1..Cardinality(infos) |->
     CHOOSE x \in infos : Cardinality({y \in infos : y.mtime > x.mtime}) = i - 1]

\* limit = None: no limit.
Paged(listing, offset, limit) ==
  IF offset >= Len(listing) THEN <<>>
  ELSE LET rest == SubSeq(listing, Max({offset, 0}) + 1, Len(listing))
       IN IF limit > 0 THEN SubSeq(rest, 1, Min({limit, Len(rest)})) ELSE rest

Deduplicated_Mutant(infos) ==   \* the copy that was written first
  {i \in infos : \A j \in infos : j.sid = i.sid => j.mtime >= i.mtime}

\* deduplicateBySessionID: of the copies of a session, the one written last.
Deduplicated(infos) ==
  {i \in infos : \A j \in infos : j.sid = i.sid => j.mtime <= i.mtime}

-----------------------------------------------------------------------------
(* ---- forks ---- *)

TitleLine(text) == [kind |-> "custom-title", text |-> text, side |-> FALSE, sorted |-> TRUE]
Untitled == ForkBase - 1   \* "Forked session"

Messages(lines) == {l \in ToSet(lines) : l.kind \in {"prompt", "meta", "reply"} /\ ~l.side}

\* The copy: the messages off the sidechain, written by the SDK, and its title.
Copied(lines) == WrittenOut(Among(lines, Messages(lines)))

ForkTitle_Mutant(lines) ==   \* the head is not searched for the user's title
  ForkBase + Or(Or(Or(LastText(TailOf(lines), "custom-title"), Recent(lines, "ai-title")),
                   FirstPrompt(lines)), Untitled)

\* ForkSession: the title a listing shows, or else the first prompt.
ForkTitle(lines) == ForkBase + Or(Or(TitleOf(lines), FirstPrompt(lines)), Untitled)

\* deriveTitleFromEntries: the user's last title, or else the first one generated.
StoredTitle(entries) ==
  Or(LastText(entries, "custom-title"), FirstText(entries, "ai-title"))

\* ForkSessionViaStore
StoreForkTitle(entries) ==
  IF StoredTitle(entries) = None THEN Untitled ELSE ForkBase + StoredTitle(entries)

-----------------------------------------------------------------------------
(* ---- an agent's transcript in a store ---- *)

\* splitAgentMetadata
AgentMetadata(entries)   == LastText(entries, "agent_metadata")
AgentTranscript(entries) == Among(entries, {l \in ToSet(entries) : l.kind # "agent_metadata"})
=============================================================================
