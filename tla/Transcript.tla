------------------------------ MODULE Transcript ------------------------------
(***************************************************************************)
(* How sessions.go, session_parallel.go and session_mutations.go read a    *)
(* transcript: the lines they keep, the walk along parentUuid from the     *)
(* best leaf, the recovery of parallel tool calls and results the walk     *)
(* cannot see, the messages shown, their pages, and the copy a fork makes. *)
(*                                                                         *)
(* A line is a record.  Uuids are positive numbers, None is a missing      *)
(* field; `calls` and `answers` are the ids of its tool_use and            *)
(* tool_result blocks, `resp` the id of the API response a block of an     *)
(* assistant message belongs to.  Texts, and lines that are no JSON or     *)
(* blocks without an id, are left out.                                     *)
(***************************************************************************)
EXTENDS Integers, Sequences, FiniteSets, SequencesExt, FiniteSetsExt

CONSTANT FreshBase   \* larger than every uuid: a fork maps uuid u to FreshBase + u

ASSUME FreshAssumption == FreshBase \in Nat \ {0}

None == 0

DiskTypes  == {"user", "assistant", "progress", "system", "attachment"}
StoreTypes == {"user", "assistant", "system", "tool_result"}

-----------------------------------------------------------------------------
(* ---- which lines are entries ---- *)

\* A file: parseTranscriptEntries.  A store: filterTranscriptEntries.
DiskEntries(lines)  == SelectSeq(lines, LAMBDA e : e.uuid # None /\ e.type \in DiskTypes)
StoreEntries(lines) == SelectSeq(lines, LAMBDA e : e.type \in StoreTypes)

(* ---- the walk along parentUuid ---- *)

Positions(es, u) == {i \in DOMAIN es : es[i].uuid = u}
EntryIndex(es, u) == Max(Positions(es, u))
Known(es, u) == u # None /\ Positions(es, u) # {}
ByUuid(es, u) == es[EntryIndex(es, u)]   \* the last entry of that uuid

\* From the last entry of `path` towards the root; an entry on the path already ends it.
RECURSIVE WalkUp(_, _)
WalkUp(es, path) ==
  LET up == Last(path).parent
  IN IF Known(es, up) /\ \A i \in DOMAIN path : path[i].uuid # up
     THEN WalkUp(es, Append(path, ByUuid(es, up)))
     ELSE path

IsTurn(e) == e.type \in {"user", "assistant"}

\* Entries nobody names as a parent.
Terminals(es) == SelectSeq(es, LAMBDA e : \A i \in DOMAIN es : es[i].parent # e.uuid)

\* The nearest user or assistant entry above each terminal.
Leaves(es) ==
  LET walks == LET ts == SelectSeq(Terminals(es), LAMBDA e : e.uuid # None)
               IN [i \in DOMAIN ts |-> SelectSeq(WalkUp(es, <<ts[i]>>), IsTurn)]
      found == SelectSeq(walks, LAMBDA w : w # <<>>)
  IN [i \in DOMAIN found |-> Head(found[i])]

IsMain(e) == ~e.side /\ ~e.team /\ ~e.meta

BestLeaf_Mutant(es, leaves) ==   \* the first leaf: an old branch
  LET main == SelectSeq(leaves, IsMain)
  IN Head(IF main = <<>> THEN leaves ELSE main)

\* The first of the candidates that stand last in the file.
BestLeaf(es, leaves) ==
  LET main == SelectSeq(leaves, IsMain)
      candidates == IF main = <<>> THEN leaves ELSE main
      last == Max({EntryIndex(es, candidates[i].uuid) : i \in DOMAIN candidates})
  IN Head(SelectSeq(candidates, LAMBDA e : EntryIndex(es, e.uuid) = last))

(* ---- the recovery of parallel tool entries ---- *)

Uuids(s) == {s[i].uuid : i \in DOMAIN s}

\* The elements of s without repetition, each at its first place.
Distinct(s) ==
  FoldLeft(LAMBDA acc, x : IF Contains(acc, x) THEN acc ELSE Append(acc, x), <<>>, s)

\* Each uuid at its first position, with its last value.
Ordered(es) ==
  LET us == Distinct([i \in DOMAIN es |-> es[i].uuid])
  IN [i \in DOMAIN us |-> ByUuid(es, us[i])]

IsToolResult(e) == e.type = "user" /\ e.parent # None /\ e.answers # {}
SameWriter(a, b) == a.side = b.side /\ a.agent = b.agent
StableByTime(s) ==
  LET is == SetToSortSeq(DOMAIN s, LAMBDA i, j : s[i].ts < s[j].ts \/ (s[i].ts = s[j].ts /\ i < j))
  IN [i \in DOMAIN is |-> s[is[i]]]

\* The entry that made call c: the last block of the one response that claims it, if one does.
Claims(ordered, c) == SelectSeq(ordered, LAMBDA e : e.resp # None /\ c \in e.calls)
OwnsCall(ordered, a, c) ==
  LET claims == Claims(ordered, c)
  IN /\ claims # <<>> /\ Last(claims).uuid = a
     /\ \A i \in DOMAIN claims : claims[i].resp = Last(claims).resp

Attached_Mutant(es, ordered, a) ==   \* the call ids are ignored
  SelectSeq(ordered, LAMBDA r : IsToolResult(r) /\ r.parent = a)

\* The results of assistant entry a: by parent, by source hint, or by the call they answer.
Attached(es, ordered, a) ==
  SelectSeq(ordered, LAMBDA r :
    /\ IsToolResult(r)
    /\ \/ r.parent = a
       \/ r.source = a /\ Known(es, a) /\ SameWriter(r, ByUuid(es, a))
       \/ \E c \in r.answers : OwnsCall(ordered, a, c) /\ SameWriter(r, ByUuid(es, a)))

\* A result from elsewhere is taken only if it answers a call of these members that is still open.
AdmitStrays(ordered, members, answered, strays) ==
  FoldLeft(LAMBDA acc, r :
             IF \E c \in r.answers \ acc.answered : \E a \in members : OwnsCall(ordered, a, c)
             THEN [answered |-> acc.answered \cup r.answers, taken |-> Append(acc.taken, r)]
             ELSE acc,
           [answered |-> answered, taken |-> <<>>], strays).taken

AnswersOf(s) == UNION {s[i].answers : i \in DOMAIN s}

\* What the walk missed of one response: its other blocks, then results of its calls.
Recovered(es, ordered, chain, seen, resp) ==
  LET group    == SelectSeq(ordered, LAMBDA e : e.resp = resp)
      members  == Uuids(group)
      results  == SelectSeq(Distinct(FlattenSeq(
                    [i \in DOMAIN group |-> Attached(es, ordered, group[i].uuid)])),
                    LAMBDA r : r.uuid \notin seen)
      orphans  == SelectSeq(results, LAMBDA r : r.parent \in members)
      strays   == SelectSeq(ordered, LAMBDA r : Contains(results, r) /\ r.parent \notin members)
      admitted == AdmitStrays(ordered, members, AnswersOf(chain) \cup AnswersOf(orphans), strays)
  IN StableByTime(SelectSeq(group, LAMBDA e : e.uuid \notin seen))
       \o StableByTime(orphans \o admitted)

InsertAfter_Mutant(chain, resp) ==   \* after the first block of the response
  Min({i \in DOMAIN chain : chain[i].resp = resp})

InsertAfter(chain, resp) == Max({i \in DOMAIN chain : chain[i].resp = resp})

\* Each response on the chain, in order of appearance, with what is put in after its last block.
RecoverParallel(es, chain) ==
  LET ordered   == Ordered(es)
      responses == Distinct(SelectSeq([i \in DOMAIN chain |-> chain[i].resp], LAMBDA r : r # None))
      Step(acc, r) ==
        LET found == Recovered(es, ordered, chain, acc.seen, r)
        IN [seen |-> acc.seen \cup Uuids(found),
            inserts |-> [acc.inserts EXCEPT ![InsertAfter(chain, r)] = found]]
      inserts == FoldLeft(Step, [seen |-> Uuids(chain), inserts |-> [i \in DOMAIN chain |-> <<>>]],
                          responses).inserts
  IN FlattenSeq([i \in DOMAIN chain |-> <<chain[i]>> \o inserts[i]])

ConversationChain(es) ==
  LET leaves == Leaves(es)
  IN IF leaves = <<>> THEN <<>>
     ELSE RecoverParallel(es, Reverse(WalkUp(es, <<BestLeaf(es, leaves)>>)))

(* ---- the messages, page by page ---- *)

IsVisible(e) == IsTurn(e) /\ ~e.meta /\ ~e.side /\ ~e.team

Messages(es) == LET shown == SelectSeq(ConversationChain(es), IsVisible)
                IN [i \in DOMAIN shown |-> shown[i].uuid]

\* limit = None: no limit.
Page(messages, offset, limit) ==
  LET start == Max({offset, 0})
      end   == IF limit > 0 THEN Min({start + limit, Len(messages)}) ELSE Len(messages)
  IN SubSeq(messages, start + 1, end)

-----------------------------------------------------------------------------
(* ---- fork ---- *)

Renamed(u) == IF u = None THEN None ELSE FreshBase + u

\* Without the sidechains, up to the first entry of that uuid; None: all of it.
ForkSource(lines, upTo) ==
  LET kept == SelectSeq(DiskEntries(lines), LAMBDA e : ~e.side)
      cuts == {i \in DOMAIN kept : kept[i].uuid = upTo}
  IN IF upTo = None THEN kept
     ELSE IF cuts = {} THEN <<>> ELSE SubSeq(kept, 1, Min(cuts))

ForkParent_Mutant(source, e) ==   \* a progress parent is not skipped
  IF Known(source, e.parent) /\ ByUuid(source, e.parent).type # "progress" THEN e.parent ELSE None

\* The nearest ancestor that is copied: progress entries are not.
RECURSIVE ForkParent(_, _)
ForkParent(source, e) ==
  IF ~Known(source, e.parent) THEN None
  ELSE LET p == ByUuid(source, e.parent)
       IN IF p.type = "progress" THEN ForkParent(source, p) ELSE p.uuid

\* Every entry but the last keeps its time, if it has one.
Fork(lines, upTo, now) ==
  LET source   == ForkSource(lines, upTo)
      writable == SelectSeq(source, LAMBDA e : e.type # "progress")
  IN [i \in DOMAIN writable |->
        [writable[i] EXCEPT
           !.uuid   = Renamed(@),
           !.parent = Renamed(ForkParent(source, writable[i])),
           !.ts     = IF i = Len(writable) \/ @ = None THEN now ELSE @,
           !.side   = FALSE, !.team = FALSE, !.source = None]]
=============================================================================
