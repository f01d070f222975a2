-------------------------------- MODULE Sessions --------------------------------
(***************************************************************************)
(* The sessions of a host, on disk and in a SessionStore, while the CLI    *)
(* writes them, the mirror copies lines to the store, and the host         *)
(* renames, tags, forks, deletes, imports, lists, reads and resumes them.  *)
(*                                                                         *)
(* A session may have a copy in several project directories, and the       *)
(* directories of one repository's worktrees are searched together.  The   *)
(* store is InMemorySessionStore.  It is addressed by a project key of one *)
(* of two forms: "name", the name of the directory under projects/, in     *)
(* what the mirror and the import write and ListSessionsFromStore lists;   *)
(* "path", ProjectKeyForDirectory, in everything else.                     *)
(*                                                                         *)
(* The clock advances at every write.  Every action is one call, an import *)
(* is one per batch; the readers are the operators the properties compare. *)
(***************************************************************************)
EXTENDS SessionInfo

CONSTANTS
  Dirs,           \* project directories
  DirOrder,       \* the order os.ReadDir lists them in
  WorktreeOrder,  \* worktrees of one repository, as git lists them
  Sids,           \* session ids
  Prepared,       \* the transcripts there may be at the start, per directory and session
  BatchSize,      \* entries of an import's batch
  StoreDirs,      \* directories whose sessions are stored
  Written,        \* kinds of the lines a CLI writes
  MaxCalls        \* bound of a run

ASSUME SessionsAssumption ==
  /\ MaxCalls \in Nat /\ BatchSize \in Nat \ {0}
  /\ IsFiniteSet(Dirs) /\ IsFiniteSet(Sids)
  /\ DirOrder \in Seq(Dirs) /\ ToSet(DirOrder) = Dirs /\ WorktreeOrder \in Seq(Dirs)
  /\ StoreDirs \subseteq Dirs
  /\ Prepared \subseteq [Dirs -> [Sids -> Seq(LineType)]] /\ Written \subseteq Kinds

VARIABLES
  files,      \* per directory and session: lines of the transcript, mtime, lines of its agent
  data,       \* the store: per key, the entries appended and the time of the last batch
  summaries,  \* the store: per key of a main transcript, its sidecar
  import,     \* the ImportSessionToStore call under way
  clock,
  renamed,    \* the last rename: its session, directory option and title, and the copy that took it
  calls       \* so far: on the files or by the mirror, and on the store by path

vars == <<files, data, summaries, import, clock, renamed, calls>>

Keys == [form : {"name", "path"}, dir : StoreDirs, sid : Sids, sub : BOOLEAN]
Key(form, d, s) == [form |-> form, dir |-> d, sid |-> s, sub |-> FALSE]
SubKey(key) == [key EXCEPT !.sub = TRUE]

NoDir     == "none"   \* the directory option left out
ASSUME DirAssumption == NoDir \notin Dirs \cup Sids
NoRename  == [sid |-> NoDir, dir |-> NoDir, at |-> NoDir, title |-> None]
NoFile    == [lines |-> <<>>, mtime |-> 0, agent |-> <<>>]
NoData    == [entries |-> <<>>, mtime |-> 0]
NoSidecar == [summary |-> NoSummary, mtime |-> 0]
NoImport  == [state |-> "none", dir |-> NoDir, sid |-> NoDir, agents |-> FALSE,
              file |-> "main", frozen |-> FALSE, lines |-> <<>>, pos |-> 0,
              total |-> 0, appended |-> 0, wanted |-> <<>>]

Init ==
  /\ \E start \in Prepared :
        files = [d \in Dirs |-> [s \in Sids |->
                   [NoFile EXCEPT !.lines = start[d][s],
                                  !.mtime = -SelectInSeq(DirOrder, LAMBDA e : e = d)]]]
  /\ data = [k \in Keys |-> NoData]
  /\ summaries = [k \in Keys |-> NoSidecar]
  /\ import = NoImport
  /\ clock = 0
  /\ renamed = NoRename
  /\ calls = [files |-> 0, store |-> 0]

Now == clock + 1   \* the time of the write this step makes
Tick == clock' = Now

\* The two kinds of calls have the clock in common and nothing else: a run makes one or the other.
CallsFiles ==
  /\ calls.files < MaxCalls /\ calls.store = 0
  /\ calls' = [calls EXCEPT !.files = @ + 1]
CallsOther == CallsFiles /\ renamed' = NoRename
CallsStore ==
  /\ calls.store < MaxCalls /\ calls.files = 0
  /\ calls' = [calls EXCEPT !.store = @ + 1]
  /\ UNCHANGED renamed

-----------------------------------------------------------------------------
(* ---- the files ---- *)

Lines(d, s)  == files[d][s].lines
Exists(d, s) == Lines(d, s) # <<>>

\* Where a session is looked for: its directory and then the other worktrees, or everywhere.
SearchOrder(dir) ==
  IF dir = NoDir THEN DirOrder
  ELSE IF ~Contains(WorktreeOrder, dir) THEN <<dir>>
  ELSE <<dir>> \o Among(WorktreeOrder, Dirs \ {dir})

\* The readers take the first copy there is.
Found(s, dir) ==
  LET order == SearchOrder(dir)
      at    == {i \in DOMAIN order : Exists(order[i], s)}
  IN IF at = {} THEN NoDir ELSE order[Min(at)]

\* An append takes the first copy that can be opened for writing and written, which
\* those in `refusing` cannot.
Opened(s, dir, refusing) ==
  LET order == SearchOrder(dir)
      at    == {i \in DOMAIN order : Exists(order[i], s) /\ order[i] \notin refusing}
  IN IF at = {} THEN NoDir ELSE order[Min(at)]

AppendTo(d, s, line) ==
  files' = [files EXCEPT ![d][s].lines = Append(@, line), ![d][s].mtime = Now]

(* ---- the readers of files ---- *)

GetSessionInfo(s, dir) ==
  LET d == Found(s, dir) IN IF d = NoDir THEN NoInfo ELSE LiteInfo(Lines(d, s))

ReadFromDir(d) ==
  {[sid |-> s, mtime |-> files[d][s].mtime, info |-> LiteInfo(Lines(d, s))] : s \in Sids}

ListSessions(dir, offset, limit) ==
  LET all == UNION {ReadFromDir(d) : d \in ToSet(SearchOrder(dir))}
  IN Paged(Newest(Deduplicated({i \in all : i.info # NoInfo})), offset, limit)

-----------------------------------------------------------------------------
(* ---- the store ---- *)

Load(key) == data[key].entries
Stored(key) == Load(key) # <<>>

StoreListing(form, d) ==
  {[sid |-> s, mtime |-> data[Key(form, d, s)].mtime] : s \in {t \in Sids : Stored(Key(form, d, t))}}

ListSubkeys(key) == IF Stored(SubKey(key)) THEN {"agent"} ELSE {}

\* InMemorySessionStore.Append, now.
StoreAppend(key, entries) ==
  LET all == Load(key) \o entries
  IN /\ data' = [data EXCEPT ![key] = [entries |-> all, mtime |-> Now]]
     /\ summaries' =
          IF key.sub THEN summaries
          ELSE [summaries EXCEPT ![key] = [summary |-> FoldSessionSummary(@.summary, all),
                                           mtime   |-> Now]]

StoreDelete_Mutant(key) ==   \* the sidecar is forgotten
  /\ data' = [k \in Keys |-> IF k \in {key, SubKey(key)} THEN NoData ELSE data[k]]
  /\ UNCHANGED summaries

\* A main transcript takes its agents' with it.
StoreDelete(key) ==
  LET gone == IF key.sub THEN {key} ELSE {key, SubKey(key)}
  IN /\ data' = [k \in Keys |-> IF k \in gone THEN NoData ELSE data[k]]
     /\ summaries' = [k \in Keys |-> IF k \in gone THEN NoSidecar ELSE summaries[k]]

(* ---- the readers of the store ---- *)

GetSessionInfoFromStore(s, d) == LiteInfo(WrittenOut(Load(Key("path", d, s))))

\* A session whose sidecar is missing or stale is loaded: by its other key.
StoreSlot(d, listed) ==
  LET sidecar == summaries[Key("name", d, listed.sid)]
  IN [sid   |-> listed.sid, mtime |-> listed.mtime,
      info  |-> IF sidecar.mtime >= listed.mtime THEN SummaryInfo(sidecar.summary)
                ELSE GetSessionInfoFromStore(listed.sid, d)]

\* Pages are cut before the loads, so that a page may come out short.
ListSessionsFromStore(d, offset, limit) ==
  LET slots == {StoreSlot(d, l) : l \in StoreListing("name", d)}
      fresh == {i \in slots : summaries[Key("name", d, i.sid)].mtime < i.mtime \/ i.info # NoInfo}
  IN Among(Paged(Newest(fresh), offset, limit), {i \in fresh : i.info # NoInfo})

ContinueCandidate_Mutant(form, d) ==   \* in the order ListSessions gives
  LET order == Reverse(Newest(StoreListing(form, d)))
      main  == {i \in DOMAIN order : ~Head(Load(Key(form, d, order[i].sid))).side}
  IN IF main = {} THEN NoDir ELSE order[Min(main)].sid

\* The session a conversation is continued from: the last written that is no sidechain.
ContinueCandidate(form, d) ==
  LET order == Newest(StoreListing(form, d))
      main  == {i \in DOMAIN order : ~Head(Load(Key(form, d, order[i].sid))).side}
  IN IF main = {} THEN NoDir ELSE order[Min(main)].sid

\* The files a resume writes for the CLI to read: the transcript and its agent's.
Materialized(form, d, s) ==
  LET key == Key(form, d, s)
  IN [NoFile EXCEPT !.lines = WrittenOut(Load(key)),
                    !.agent = IF "agent" \in ListSubkeys(key)
                              THEN WrittenOut(AgentTranscript(Load(SubKey(key)))) ELSE <<>>]

(* ---- the import under way ---- *)

ImportKey == [Key("name", import.dir, import.sid) EXCEPT !.sub = import.file # "main"]

\* The lines its open file holds: they grow while the CLI writes, until the end of file is read.
Source ==
  IF import.frozen THEN import.lines
  ELSE IF import.file = "main" THEN Lines(import.dir, import.sid)
  ELSE files[import.dir][import.sid].agent

Importing == import.state = "on"
Frozen   == IF Importing THEN [import EXCEPT !.frozen = TRUE, !.lines = Source] ELSE import
Forgotten == [import EXCEPT !.wanted = <<>>]

-----------------------------------------------------------------------------
(* ---- the CLI and the mirror ---- *)

Line(kind, side) == [kind |-> kind, text |-> Now, side |-> side, sorted |-> FALSE]

\* A line of a main transcript, which the mirror delivers or loses.
CliWrites ==
  /\ Tick /\ CallsOther
  /\ \E d \in Dirs, s \in Sids, kind \in Written :
        /\ AppendTo(d, s, Line(kind, FALSE))
        /\ \/ d \in StoreDirs /\ StoreAppend(Key("name", d, s), <<Line(kind, FALSE)>>)
           \/ UNCHANGED <<data, summaries>>
  /\ UNCHANGED import

\* A line of an agent's transcript: FilePathToSessionKey finds no session in its
\* name, so the mirror drops it.
CliWritesAgent ==
  /\ Tick /\ CallsOther
  /\ \E d \in Dirs, s \in Sids :
        /\ Exists(d, s)
        /\ files' = [files EXCEPT ![d][s].agent = Append(@, Line("prompt", TRUE))]
  /\ UNCHANGED <<data, summaries, import>>

(* ---- calls that change files ---- *)

\* A write that fails leaves nothing, and where all do nothing has changed.
Appends(s, dir, refusing, line) ==
  LET d == Opened(s, dir, refusing)
  IN /\ Tick
     /\ d # NoDir
     /\ AppendTo(d, s, line)
     /\ UNCHANGED <<data, summaries, import>>

TagLine(text) == [TitleLine(text) EXCEPT !.kind = "tag"]

RenameSession(s, dir, refusing) ==
  /\ CallsFiles
  /\ renamed' = [sid |-> s, dir |-> dir, at |-> Opened(s, dir, refusing), title |-> Now]
  /\ Appends(s, dir, refusing, TitleLine(Now))
TagSession(s, dir, refusing) == CallsOther /\ Appends(s, dir, refusing, TagLine(Now))
ClearTag(s, dir, refusing) == CallsOther /\ Appends(s, dir, refusing, TagLine(None))   \* a nil tag

\* The copy that is found, and its agents' transcripts beside it.
DeleteSession(s, dir) ==
  LET d == Found(s, dir)
  IN /\ Tick /\ CallsOther
     /\ d # NoDir
     /\ files' = [files EXCEPT ![d][s] = NoFile]
     /\ import' = IF import.dir = d /\ import.sid = s THEN Frozen ELSE import
     /\ UNCHANGED <<data, summaries>>

\* A new session in the directory of the copy that is found.
ForkSession(s, t, dir) ==
  LET d == Found(s, dir)
  IN /\ Tick /\ CallsOther
     /\ d # NoDir /\ \A e \in Dirs : ~Exists(e, t)
     /\ Copied(Lines(d, s)) # <<>>
     /\ files' = [files EXCEPT ![d][t] = [NoFile EXCEPT
                     !.lines = Append(Copied(Lines(d, s)), TitleLine(ForkTitle(Lines(d, s)))),
                     !.mtime = Now]]
     /\ UNCHANGED <<data, summaries, import>>

(* ---- calls that change the store ---- *)

\* The calls on the store by path, and those of the host on any key.
CallsBy(form) == IF form = "path" THEN CallsStore ELSE CallsOther

\* RenameSessionViaStore, TagSessionViaStore: a session that is not there is begun.
AppendsViaStore(s, d, line) ==
  /\ Tick /\ CallsStore
  /\ StoreAppend(Key("path", d, s), <<line>>)
  /\ UNCHANGED <<files, import>>

\* DeleteSessionViaStore, or the host itself, of a main transcript or an agent's.
DeletesFromStore(key) ==
  /\ Tick /\ CallsBy(key.form)
  /\ Stored(key)
  /\ StoreDelete(key)
  /\ import' = IF key = [ImportKey EXCEPT !.sub = FALSE] THEN Forgotten ELSE import
  /\ UNCHANGED files

ForkSessionViaStore(s, t, d) ==
  LET entries == Load(Key("path", d, s))
  IN /\ Tick /\ CallsStore
     /\ Copied(entries) # <<>> /\ ~Stored(Key("path", d, t))
     /\ StoreAppend(Key("path", d, t), Append(Copied(entries), TitleLine(StoreForkTitle(entries))))
     /\ UNCHANGED <<files, import>>

\* The host fills the store itself, a transcript or an agent's.
HostAppends(key, kind, side) ==
  /\ Tick /\ CallsStore
  /\ key.form = "path" /\ StoreAppend(key, <<Line(kind, side)>>)
  /\ UNCHANGED <<files, import>>

-----------------------------------------------------------------------------
(* ---- ImportSessionToStore, batch by batch ---- *)

ImportStarts(s, dir) ==
  LET d == Found(s, dir)
  IN /\ ~Importing /\ CallsOther
     /\ d \in StoreDirs
     /\ \E agents \in BOOLEAN :
          import' = [NoImport EXCEPT !.state = "on", !.dir = d, !.sid = s, !.agents = agents,
                                     !.wanted = Lines(d, s)]
     /\ UNCHANGED <<files, data, summaries, clock>>

\* The next batch; a batch that is not full is flushed at the end of the file.
Batch(pos) == SubSeq(Source, pos + 1, Min({pos + BatchSize, Len(Source)}))

ImportBatch ==
  /\ Importing /\ import.pos < Len(Source)
  /\ Tick
  /\ LET batch == Batch(import.pos)
         n     == Len(batch)
     IN /\ StoreAppend(ImportKey, batch)
        /\ import' = [(IF n < BatchSize THEN Frozen ELSE import) EXCEPT
                        !.pos = @ + n, !.appended = @ + n,
                        !.total = IF import.file = "main" THEN @ + n ELSE @]
  /\ UNCHANGED <<files, renamed, calls>>

ImportFails_Mutant ==   \* a batch is counted before it is stored
  /\ Importing /\ import.pos < Len(Source)
  /\ import' = [import EXCEPT !.state = "failed", !.total = @ + Len(Batch(import.pos))]
  /\ UNCHANGED <<files, data, summaries, clock, renamed, calls>>

\* The store fails: what was appended stays.
ImportFails ==
  /\ Importing /\ import.pos < Len(Source)
  /\ import' = [import EXCEPT !.state = "failed"]
  /\ UNCHANGED <<files, data, summaries, clock, renamed, calls>>

\* The end of the main transcript: the agent's is next, if there is one.
ImportMainEnds ==
  /\ Importing /\ import.file = "main" /\ import.pos >= Len(Source)
  /\ import' = IF import.agents /\ files[import.dir][import.sid].agent # <<>>
               THEN [import EXCEPT !.file = "agent", !.frozen = FALSE, !.pos = 0]
               ELSE [import EXCEPT !.state = "done"]
  /\ UNCHANGED <<files, data, summaries, clock, renamed, calls>>

\* The agent's transcript was removed since, or it is read to its end; its
\* metadata, if there is any, is appended as an entry of its own.
ImportAgentEnds ==
  /\ Importing /\ import.file = "agent" /\ import.pos >= Len(Source)
  /\ LET read == [import EXCEPT !.state = "done", !.total = @ + import.pos]
     IN \/ /\ Source = <<>>
           /\ import' = [import EXCEPT !.state = "failed"]
           /\ UNCHANGED <<data, summaries, clock>>
        \/ /\ Source # <<>>
           /\ import' = read
           /\ UNCHANGED <<data, summaries, clock>>
        \/ /\ Source # <<>> /\ Tick
           /\ StoreAppend(ImportKey, <<[Line("agent_metadata", FALSE) EXCEPT !.sorted = TRUE]>>)
           /\ import' = [read EXCEPT !.total = @ + 1, !.appended = @ + 1]
  /\ UNCHANGED <<files, renamed, calls>>

Everywhere == Dirs \cup {NoDir}

Next ==
  \/ CliWrites \/ CliWritesAgent
  \/ \E s \in Sids, dir \in Everywhere :
        \/ \E refusing \in SUBSET Dirs :
              \/ RenameSession(s, dir, refusing)
              \/ TagSession(s, dir, refusing) \/ ClearTag(s, dir, refusing)
        \/ DeleteSession(s, dir)
        \/ \E t \in Sids : ForkSession(s, t, dir)
        \/ ImportStarts(s, dir)
  \/ \E s \in Sids, d \in StoreDirs :
        \/ \E line \in {TitleLine(Now), TagLine(Now), TagLine(None)} : AppendsViaStore(s, d, line)
        \/ \E t \in Sids : ForkSessionViaStore(s, t, d)
  \/ \E key \in Keys :
        \/ DeletesFromStore(key)
        \/ \E kind \in Written, side \in BOOLEAN : HostAppends(key, kind, side)
  \/ ImportBatch \/ ImportFails \/ ImportMainEnds \/ ImportAgentEnds

Spec == Init /\ [][Next]_vars

-----------------------------------------------------------------------------
FileType    == [lines : Seq(LineType), mtime : Int, agent : Seq(LineType)]
DataType    == [entries : Seq(LineType), mtime : Nat]
SidecarType == [summary : SummaryType, mtime : Nat]
ImportType  == [state : {"none", "on", "done", "failed"}, dir : Everywhere, sid : Sids \cup {NoDir},
                agents : BOOLEAN, file : {"main", "agent"}, frozen : BOOLEAN, lines : Seq(LineType),
                pos : Nat, total : Nat, appended : Nat, wanted : Seq(LineType)]

TypeOK ==
  /\ files \in [Dirs -> [Sids -> FileType]]
  /\ data \in [Keys -> DataType]
  /\ summaries \in [Keys -> SidecarType]
  /\ import \in ImportType
  /\ import.state # "none" => import.dir \in StoreDirs /\ import.sid \in Sids
  /\ clock \in Nat
  /\ renamed \in [sid : Sids \cup {NoDir}, dir : Everywhere, at : Everywhere, title : Nat]
  /\ calls \in [files : Nat, store : Nat]

\* A session that was renamed is first in the listing, with the title, whichever of
\* its copies took it and whatever its others hold; GetSessionInfo shows it when it
\* reads that copy (a sidechain's transcript is never shown).
RenameShows ==
  renamed # NoRename /\ ~Head(Lines(renamed.at, renamed.sid)).side =>
    /\ LET top == Head(ListSessions(renamed.dir, 0, 1))
       IN top.sid = renamed.sid /\ top.info.title = renamed.title
    /\ Found(renamed.sid, renamed.dir) = renamed.at =>
         GetSessionInfo(renamed.sid, renamed.dir).title = renamed.title

\* A fork bears the title its source was shown with, long as the transcript may be.
ForkNamedAsShown ==
  [][\A s, t \in Sids, dir \in Everywhere :
       ForkSession(s, t, dir) /\ GetSessionInfo(s, dir).title # None =>
         \E d \in Dirs : /\ Found(t, dir)' = d
                         /\ LiteInfo(Lines(d, t))'.title = ForkBase + GetSessionInfo(s, dir).title]_vars

Untold(s) == [s EXCEPT !.tag = None]

\* Short enough for the head, and without what the two readings take differently.
Plain(entries) ==
  /\ entries # <<>> /\ Len(entries) <= Window
  /\ \A i \in DOMAIN entries : entries[i].kind # "meta" /\ (entries[i].side => entries[1].side)

\* The sidecar of a stored transcript, and its row in the listing of the store, say
\* what reading the transcript says (tags apart), whatever was deleted and stored
\* again under its key.
SidecarAgrees ==
  /\ \A key \in Keys : ~key.sub /\ Plain(Load(key)) =>
        /\ Untold(SummaryInfo(summaries[key].summary)) = Untold(LiteInfo(WrittenOut(Load(key))))
        /\ summaries[key].mtime = data[key].mtime
  /\ \A d \in StoreDirs, s \in Sids :
        LET entries == Load(Key("name", d, s))
            rows    == ToSet(ListSessionsFromStore(d, 0, None))
        IN Plain(entries) =>
             (\E row \in rows : row.sid = s) <=> LiteInfo(WrittenOut(entries)) # NoInfo

\* A conversation that is continued from the store goes on from the session written
\* last that is not a sidechain's, and from one if there is any.
ContinueIsLastWritten ==
  \A d \in StoreDirs, s \in Sids :
    LET key == Key("path", d, s)
        candidate == ContinueCandidate("path", d)
    IN Stored(key) /\ ~Load(key)[1].side =>
         /\ candidate # NoDir
         /\ Materialized("path", d, candidate).lines # <<>>
         /\ data[key].mtime <= data[Key("path", d, candidate)].mtime

\* How many of the wanted lines are met, in their order, in entries.
Met(wanted, entries) ==
  LET met[i \in 0..Len(entries)] ==
        IF i = 0 THEN 0
        ELSE IF met[i - 1] < Len(wanted) /\ wanted[met[i - 1] + 1] = entries[i]
             THEN met[i - 1] + 1 ELSE met[i - 1]
  IN met[Len(entries)]

\* While the CLI writes on and the mirror adds to the same key, an import that ends
\* has stored, in their order, the lines there were when it began, and counts what it
\* appended; so does one that fails in the main transcript.
ImportComplete ==
  /\ import.state = "done" =>
       /\ import.total = import.appended
       /\ Met(import.wanted, Load([ImportKey EXCEPT !.sub = FALSE])) = Len(import.wanted)
  /\ import.state = "failed" /\ import.file = "main" => import.total = import.appended
=============================================================================
