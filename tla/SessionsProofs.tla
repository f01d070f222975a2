---------------------------- MODULE SessionsProofs ----------------------------
(***************************************************************************)
(* Proofs about Sessions: for any number of sessions, directories and      *)
(* calls, any transcript to start from and any head and tail.              *)
(*                                                                         *)
(* Every step is Sound: it rewrites one copy of a session or none, gains   *)
(* entries under one key, takes one transcript away or leaves the store,   *)
(* and moves the clock by one or not.  Types, and three invariants that    *)
(* are inductive, follow from that and from what each action does:         *)
(*   SidecarInv  a sidecar is the fold of the entries it is stored with,   *)
(*               and ClockInv, what is stored was stored by now;           *)
(*   RenameInv   the copy that took a rename is the newest, and the title  *)
(*               is the last line of it;                                   *)
(*   ImportInv   what was read of a file that still grows is a prefix of   *)
(*               it, and is met among the entries of the store.            *)
(***************************************************************************)
EXTENDS Sessions, SequenceLemmas, FiniteSetTheorems

USE DEF None

(* ---- lines ---- *)

LEMMA LineTypes ==
  /\ \A text \in Nat : TitleLine(text) \in LineType /\ TagLine(text) \in LineType
  /\ clock \in Nat => \A kind \in Kinds, side \in BOOLEAN : Line(kind, side) \in LineType
<1>1. "custom-title" \in Kinds /\ "tag" \in Kinds
  BY DEF Kinds
<1>2. ASSUME NEW text \in Nat PROVE TitleLine(text) \in LineType
  BY <1>1 DEF TitleLine, LineType
<1>3. ASSUME NEW text \in Nat PROVE TagLine(text) \in LineType
  <2>1. TitleLine(text) \in LineType
    BY <1>2
  <2> QED BY <1>1, <2>1 DEF TagLine, LineType
<1>4. ASSUME clock \in Nat, NEW kind \in Kinds, NEW side \in BOOLEAN PROVE Line(kind, side) \in LineType
  <2>1. Now \in Nat
    BY <1>4 DEF Now
  <2> QED BY <2>1 DEF Line, LineType
<1> QED
  BY <1>2, <1>3, <1>4

\* Singles(U, S) maps an element to itself if it is in S, and to nothing if not.
Singles(U, S) == [x \in U |-> IF x \in S THEN <<x>> ELSE <<>>]

LEMMA SinglesReplaces ==
  ASSUME NEW U, NEW S
  PROVE  Replaces(Singles(U, S), U, U \cap S)
<1>1. ASSUME NEW x \in U PROVE (IF x \in S THEN <<x>> ELSE <<>>) \in Seq(U \cap S)
  <2>1. CASE x \in S
    <3>1. x \in U \cap S
      BY <2>1
    <3> QED BY <2>1, <3>1
  <2>2. CASE x \notin S
    BY <2>2
  <2> QED BY <2>1, <2>2
<1> QED
  BY <1>1 DEF Singles, Replaces

LEMMA AmongIsEach ==
  ASSUME NEW U, NEW S, NEW s \in Seq(U)
  PROVE  Among(s, S) = Each(Singles(U, S), s)
<1>1. \A i \in DOMAIN s : s[i] \in U
  OBVIOUS
<1>2. [i \in DOMAIN s |-> IF s[i] \in S THEN <<s[i]>> ELSE <<>>] = [i \in DOMAIN s |-> Singles(U, S)[s[i]]]
  BY <1>1 DEF Singles
<1> QED
  BY <1>2 DEF Among, Each

LEMMA AmongType ==
  ASSUME NEW U, NEW S, NEW s \in Seq(U)
  PROVE  Among(s, S) \in Seq(U \cap S)
<1>1. Replaces(Singles(U, S), U, U \cap S)
  BY SinglesReplaces
<1>2. Each(Singles(U, S), s) \in Seq(U \cap S)
  BY <1>1, EachType
<1> QED
  BY <1>2, AmongIsEach

LEMMA AmongAppend ==
  ASSUME NEW U, NEW S, NEW s \in Seq(U), NEW x \in U
  PROVE  Among(Append(s, x), S) = IF x \in S THEN Append(Among(s, S), x) ELSE Among(s, S)
<1> DEFINE g == Singles(U, S)
<1>1. Replaces(g, U, U \cap S)
  BY SinglesReplaces
<1>2. Append(s, x) \in Seq(U) /\ g[x] = IF x \in S THEN <<x>> ELSE <<>>
  BY AppendType DEF Singles
<1>3. Among(s, S) = Each(g, s) /\ Among(Append(s, x), S) = Each(g, Append(s, x))
  BY <1>2, AmongIsEach
<1> HIDE DEF g
<1>4. Each(g, Append(s, x)) = Each(g, s) \o g[x]
  BY <1>1, EachAppend
<1>5. Among(s, S) \in Seq(U \cap S)
  BY AmongType
<1> QED
  BY <1>2, <1>3, <1>4, <1>5

LEMMA ToSetAppend ==
  ASSUME NEW U, NEW s \in Seq(U), NEW x \in U
  PROVE  ToSet(Append(s, x)) = ToSet(s) \cup {x}
<1>1. DOMAIN Append(s, x) = DOMAIN s \cup {Len(s) + 1} /\ Len(s) + 1 \notin DOMAIN s
  OBVIOUS
<1>2. Append(s, x)[Len(s) + 1] = x /\ \A i \in DOMAIN s : Append(s, x)[i] = s[i]
  OBVIOUS
<1> QED
  BY <1>1, <1>2, Zenon DEF ToSet

\* What is among them is what is in both.
LEMMA AmongElements ==
  ASSUME NEW U, NEW S
  PROVE  \A s \in Seq(U) : ToSet(Among(s, S)) = ToSet(s) \cap S
<1> DEFINE Good(s) == ToSet(Among(s, S)) = ToSet(s) \cap S
           N == {n \in Nat : \A s \in Seq(U) : Len(s) = n => Good(s)}
<1>1. 0 \in N
  <2> SUFFICES ASSUME NEW s \in Seq(U), Len(s) = 0 PROVE Good(s)
    OBVIOUS
  <2>1. s = <<>> /\ Among(s, S) = <<>>
    <3>1. s = <<>>
      OBVIOUS
    <3>2. [i \in DOMAIN s |-> IF s[i] \in S THEN <<s[i]>> ELSE <<>>] = <<>>
      BY <3>1
    <3> QED BY <3>1, <3>2, FlattenEmpty DEF Among
  <2> QED BY <2>1 DEF ToSet
<1>2. ASSUME NEW n \in Nat, n \in N PROVE n + 1 \in N
  <2> SUFFICES ASSUME NEW s \in Seq(U), Len(s) = n + 1 PROVE Good(s)
    OBVIOUS
  <2>1. PICK t \in Seq(U) : Len(t) = n /\ s[n + 1] \in U /\ s = Append(t, s[n + 1])
    <3>1. Splits(U, s, n)
      BY SplitLast
    <3> QED BY <3>1, Zenon DEF Splits
  <2> DEFINE x == s[n + 1]
  <2>2. x \in U /\ s = Append(t, x)
    BY <2>1
  <2> HIDE DEF x
  <2>3. Good(t)
    BY <1>2, <2>1
  <2>4. Among(s, S) = IF x \in S THEN Append(Among(t, S), x) ELSE Among(t, S)
    BY <2>2, AmongAppend
  <2>6. ToSet(s) = ToSet(t) \cup {x}
    BY <2>2, ToSetAppend
  <2>7. Among(t, S) \in Seq(U)
    <3>1. Among(t, S) \in Seq(U \cap S)
      BY AmongType
    <3> QED BY <3>1
  <2>8. ToSet(Append(Among(t, S), x)) = ToSet(Among(t, S)) \cup {x}
    BY <2>2, <2>7, ToSetAppend
  <2> QED BY <2>3, <2>4, <2>6, <2>8
<1>3. Nat \subseteq N
  <2> HIDE DEF N
  <2> QED BY <1>1, <1>2, Induction
<1>4. ASSUME NEW s \in Seq(U) PROVE Good(s)
  BY <1>3
<1> QED
  BY <1>4

LEMMA WrittenOutType ==
  ASSUME NEW s \in Seq(LineType)
  PROVE  /\ WrittenOut(s) \in Seq(LineType) /\ Len(WrittenOut(s)) = Len(s)
         /\ \A i \in 1..Len(s) : WrittenOut(s)[i] = [s[i] EXCEPT !.sorted = TRUE]
<1>1. ASSUME NEW l \in LineType PROVE [l EXCEPT !.sorted = TRUE] \in LineType
  BY DEF LineType
<1>2. \A i \in 1..Len(s) : s[i] \in LineType
  OBVIOUS
<1>3. WrittenOut(s) \in [1..Len(s) -> LineType]
  BY <1>1, <1>2 DEF WrittenOut
<1> QED
  BY <1>3 DEF WrittenOut

(* ---- texts ---- *)

LEMMA TextTypes ==
  ASSUME NEW lines \in Seq(LineType), NEW kind
  PROVE  /\ OfKind(lines, kind) \subseteq 1..Len(lines)
         /\ FirstText(lines, kind) \in Nat /\ LastText(lines, kind) \in Nat
         /\ (FirstText(lines, kind) = None) <=> (OfKind(lines, kind) = {})
         /\ (LastText(lines, kind) = None) <=> (OfKind(lines, kind) = {})
<1> DEFINE at == OfKind(lines, kind)
<1>1. at \subseteq 1..Len(lines) /\ Len(lines) \in Nat
  BY DEF OfKind
<1>2. \A i \in at : lines[i].text \in Nat /\ lines[i].text # None
  <2>1. \A i \in 1..Len(lines) : lines[i] \in LineType
    OBVIOUS
  <2>2. \A l \in LineType : l.text \in Nat
    BY DEF LineType
  <2> QED BY <1>1, <2>1, <2>2 DEF OfKind
<1> HIDE DEF at
<1>3. at # {} => Min(at) \in at /\ Max(at) \in at
  <2>1. at \subseteq Nat
    BY <1>1
  <2>2. at # {} => Min(at) \in at
    BY <2>1, MinOfPositions
  <2>3. at # {} => Max(at) \in at
    BY <1>1, MaxOfPositions
  <2> QED BY <2>2, <2>3
<1>4. /\ FirstText(lines, kind) = IF at = {} THEN None ELSE lines[Min(at)].text
      /\ LastText(lines, kind) = IF at = {} THEN None ELSE lines[Max(at)].text
  BY DEF at, FirstText, LastText
<1>5. CASE at = {}
  BY <1>1, <1>4, <1>5 DEF at
<1>6. CASE at # {}
  <2>1. /\ lines[Min(at)].text \in Nat /\ lines[Min(at)].text # None
        /\ lines[Max(at)].text \in Nat /\ lines[Max(at)].text # None
    BY <1>2, <1>3, <1>6
  <2> QED BY <1>1, <1>4, <1>6, <2>1 DEF at
<1> QED
  BY <1>5, <1>6

LEMMA HeadAndTail ==
  ASSUME NEW lines \in Seq(LineType)
  PROVE  /\ HeadOf(lines) \in Seq(LineType) /\ TailOf(lines) \in Seq(LineType)
         /\ Len(lines) <= Window => HeadOf(lines) = lines /\ TailOf(lines) = lines
         /\ lines # <<>> => TailOf(lines) # <<>> /\ Last(TailOf(lines)) = Last(lines)
<1> DEFINE n == Len(lines)
<1>1. n \in Nat /\ Window \in Nat /\ Window >= 1
  BY InfoAssumption
<1>2. Min({Window, n}) = IF Window <= n THEN Window ELSE n
  <2> HIDE DEF n
  <2> QED BY <1>1 DEF Min
<1>3. Max({1, n - Window + 1}) = IF n - Window + 1 >= 1 THEN n - Window + 1 ELSE 1
  <2> HIDE DEF n
  <2> QED BY <1>1 DEF Max
<1>4. /\ HeadOf(lines) = SubSeq(lines, 1, Min({Window, n}))
      /\ TailOf(lines) = SubSeq(lines, Max({1, n - Window + 1}), n)
  BY DEF HeadOf, TailOf
<1>5. HeadOf(lines) \in Seq(LineType)
  <2> DEFINE m == Min({Window, n})
  <2>1. m \in Nat /\ m <= n
    BY <1>1, <1>2
  <2> HIDE DEF m
  <2>2. \A i \in 1..m : lines[i] \in LineType
    BY <2>1
  <2>3. SubSeq(lines, 1, m) \in Seq(LineType)
    BY <2>1, <2>2, SubSeqProperties
  <2> QED BY <1>4, <2>3 DEF m
<1> DEFINE m == Max({1, n - Window + 1})
<1>6. m \in Nat /\ m >= 1 /\ (n >= 1 => m <= n)
  BY <1>1, <1>3
<1> HIDE DEF m
<1>7. /\ SubSeq(lines, m, n) \in Seq(LineType)
      /\ m <= n => Len(SubSeq(lines, m, n)) = n - m + 1
      /\ \A i \in 1..(n - m + 1) : SubSeq(lines, m, n)[i] = lines[m + i - 1]
  <2>1. \A i \in m..n : lines[i] \in LineType
    BY <1>1, <1>6
  <2> QED BY <1>1, <1>6, <2>1, SubSeqProperties
<1>8. TailOf(lines) = SubSeq(lines, m, n)
  BY <1>4 DEF m
<1>9. ASSUME n <= Window PROVE HeadOf(lines) = lines /\ TailOf(lines) = lines
  <2>1. Min({Window, n}) = n /\ Max({1, n - Window + 1}) = 1
    BY <1>1, <1>2, <1>3, <1>9
  <2>2. SubSeq(lines, 1, n) = lines
    OBVIOUS
  <2> QED BY <1>4, <2>1, <2>2
<1>10. ASSUME lines # <<>> PROVE TailOf(lines) # <<>> /\ Last(TailOf(lines)) = Last(lines)
  <2>1. n >= 1 /\ m <= n
    BY <1>6, <1>10
  <2>2. Len(TailOf(lines)) = n - m + 1 /\ n - m + 1 \in 1..(n - m + 1)
    BY <1>1, <1>6, <1>7, <1>8, <2>1
  <2>3. TailOf(lines)[n - m + 1] = lines[m + (n - m + 1) - 1]
    BY <1>7, <1>8, <2>2
  <2>4. m + (n - m + 1) - 1 = n
    BY <1>1, <1>6
  <2>5. TailOf(lines) # <<>>
    BY <2>1, <2>2, <1>6, <1>1
  <2>6. Last(TailOf(lines)) = TailOf(lines)[n - m + 1] /\ Last(lines) = lines[n]
    BY <2>2 DEF Last
  <2> QED BY <2>3, <2>4, <2>5, <2>6
<1> QED
  BY <1>5, <1>7, <1>8, <1>9, <1>10

\* A text that is in the last line is the last of its kind.
LEMMA LastLineTells ==
  ASSUME NEW lines \in Seq(LineType), lines # <<>>, Last(lines).text # None
  PROVE  LastText(lines, Last(lines).kind) = Last(lines).text
<1> DEFINE n == Len(lines)
           at == OfKind(lines, Last(lines).kind)
<1>1. n \in Nat /\ n >= 1 /\ at \subseteq 1..n
  BY TextTypes
<1>2. n \in at
  BY <1>1 DEF OfKind, Last
<1>3. LastText(lines, Last(lines).kind) = IF at = {} THEN None ELSE lines[Max(at)].text
  BY DEF LastText
<1> HIDE DEF at
<1>4. Max(at) = n
  <2>1. Max(at) \in at /\ \A k \in at : k <= Max(at)
    BY <1>1, <1>2, MaxOfPositions
  <2>2. Max(at) \in 1..n /\ n <= Max(at)
    BY <1>1, <1>2, <2>1
  <2> QED BY <1>1, <2>2
<1> QED
  BY <1>2, <1>3, <1>4 DEF Last

LEMMA RecentTypes ==
  ASSUME NEW lines \in Seq(LineType)
  PROVE  /\ \A kind : Recent(lines, kind) \in Nat
         /\ TitleOf(lines) \in Nat /\ FirstPrompt(lines) \in Nat
         /\ ForkTitle(lines) \in Nat /\ StoredTitle(lines) \in Nat /\ StoreForkTitle(lines) \in Nat
         /\ ForkTitle(lines) # None
<1>1. HeadOf(lines) \in Seq(LineType) /\ TailOf(lines) \in Seq(LineType)
  BY HeadAndTail
<1>2. ASSUME NEW kind PROVE Recent(lines, kind) \in Nat
  <2>1. LastText(TailOf(lines), kind) \in Nat /\ LastText(HeadOf(lines), kind) \in Nat
    BY <1>1, TextTypes
  <2> QED BY <2>1 DEF Recent, Or
<1>3. TitleOf(lines) \in Nat
  BY <1>2 DEF TitleOf, Or
<1>4. FirstPrompt(lines) \in Nat
  BY <1>1, TextTypes DEF FirstPrompt
<1>5. ForkBase \in Nat /\ ForkBase >= 2 /\ Untitled \in Nat
  BY InfoAssumption DEF Untitled
<1>6. ForkTitle(lines) \in Nat /\ ForkTitle(lines) # None
  BY <1>3, <1>4, <1>5 DEF ForkTitle, Or
<1>7. StoredTitle(lines) \in Nat
  <2>1. LastText(lines, "custom-title") \in Nat /\ FirstText(lines, "ai-title") \in Nat
    BY TextTypes
  <2> QED BY <2>1 DEF StoredTitle, Or
<1>8. StoreForkTitle(lines) \in Nat
  BY <1>5, <1>7 DEF StoreForkTitle
<1> QED
  BY <1>2, <1>3, <1>4, <1>6, <1>7, <1>8

LEMMA CopiedType ==
  ASSUME NEW lines \in Seq(LineType)
  PROVE  /\ Copied(lines) \in Seq(LineType)
         /\ Copied(lines) # <<>> => ~Head(Copied(lines)).side
<1> DEFINE kept == Among(lines, Messages(lines))
<1>1. kept \in Seq(LineType \cap Messages(lines))
  BY AmongType
<1>2. kept \in Seq(LineType)
  BY <1>1
<1>3. Copied(lines) = WrittenOut(kept)
  BY DEF Copied
<1> HIDE DEF kept
<1>4. /\ WrittenOut(kept) \in Seq(LineType) /\ Len(WrittenOut(kept)) = Len(kept)
      /\ \A i \in 1..Len(kept) : WrittenOut(kept)[i] = [kept[i] EXCEPT !.sorted = TRUE]
  BY <1>2, WrittenOutType
<1>5. ASSUME Copied(lines) # <<>> PROVE ~Head(Copied(lines)).side
  <2>1. Len(kept) >= 1 /\ Head(WrittenOut(kept)) = WrittenOut(kept)[1]
    BY <1>2, <1>3, <1>4, <1>5
  <2>2. kept[1] \in LineType \cap Messages(lines)
    BY <1>1, <2>1
  <2>3. kept[1] \in LineType /\ ~kept[1].side
    BY <2>2 DEF Messages
  <2>4. Head(WrittenOut(kept)) = [kept[1] EXCEPT !.sorted = TRUE]
    <3>1. WrittenOut(kept)[1] = [kept[1] EXCEPT !.sorted = TRUE]
      BY <1>2, <1>4, <2>1
    <3> QED BY <2>1, <3>1
  <2>5. [kept[1] EXCEPT !.sorted = TRUE].side = kept[1].side
    BY <2>3 DEF LineType
  <2> QED BY <1>3, <2>3, <2>4, <2>5
<1> QED
  BY <1>3, <1>4, <1>5

(* ---- the summary ---- *)

LEMMA FoldLineType ==
  ASSUME NEW sum \in SummaryType, NEW l \in LineType
  PROVE  FoldLine(sum, l) \in SummaryType
<1>1. /\ sum.side \in BOOLEAN /\ l.side \in BOOLEAN /\ l.text \in Nat
      /\ sum.custom \in Nat /\ sum.ai \in Nat /\ sum.lastPrompt \in Nat /\ sum.prompt \in Nat /\ sum.tag \in Nat
  BY DEF SummaryType, LineType
<1>2. (sum.side \/ l.side) \in BOOLEAN
  OBVIOUS
<1>3. /\ (IF l.kind = "custom-title" THEN Or(l.text, sum.custom) ELSE sum.custom) \in Nat
      /\ (IF l.kind = "ai-title" THEN Or(l.text, sum.ai) ELSE sum.ai) \in Nat
      /\ (IF l.kind = "last-prompt" THEN Or(l.text, sum.lastPrompt) ELSE sum.lastPrompt) \in Nat
      /\ (IF IsPrompt(l) THEN Or(sum.prompt, l.text) ELSE sum.prompt) \in Nat
      /\ (IF l.kind = "tag" THEN l.text ELSE sum.tag) \in Nat
  BY <1>1 DEF Or
<1> QED
  BY <1>2, <1>3 DEF FoldLine, SummaryType

\* What the summary s becomes with the line l.
Takes(new, s, l) ==
  /\ new.side <=> (s.side \/ l.side)
  /\ new.custom = IF l.kind = "custom-title" THEN Or(l.text, s.custom) ELSE s.custom
  /\ new.ai = IF l.kind = "ai-title" THEN Or(l.text, s.ai) ELSE s.ai
  /\ new.lastPrompt = IF l.kind = "last-prompt" THEN Or(l.text, s.lastPrompt) ELSE s.lastPrompt
  /\ new.prompt = IF IsPrompt(l) THEN Or(s.prompt, l.text) ELSE s.prompt

LEMMA FoldLineFields == \A s, l : Takes(FoldLine(s, l), s, l)
  BY ZenonT(60) DEF FoldLine, Takes

\* f[i] is the summary after the first i entries.
SumsFrom(f, prev, entries) ==
  /\ f[0] = prev
  /\ \A i \in 1..Len(entries) : f[i] = FoldLine(f[i - 1], entries[i])
  /\ FoldSessionSummary(prev, entries) = f[Len(entries)]

LEMMA SummaryFold ==
  ASSUME NEW prev \in SummaryType, NEW entries \in Seq(LineType)
  PROVE  \E f \in [0..Len(entries) -> SummaryType] : SumsFrom(f, prev, entries)
<1> DEFINE n == Len(entries)
           G == [p \in SummaryType \X LineType |-> FoldLine(p[1], p[2])]
           Eq(f) == f = [i \in 0..Len(entries) |->
                           IF i = 0 THEN prev ELSE FoldLine(f[i - 1], entries[i])]
           f == CHOOSE f : Eq(f)
<1>1. n \in Nat /\ entries \in [1..n -> LineType]
  OBVIOUS
<1>2. G \in [SummaryType \X LineType -> SummaryType]
  <2>1. \A p \in SummaryType \X LineType : FoldLine(p[1], p[2]) \in SummaryType
    BY FoldLineType
  <2> QED BY <2>1
<1>3. \A sum \in SummaryType, l \in LineType : G[<<sum, l>>] = FoldLine(sum, l)
  OBVIOUS
<1> HIDE DEF G
<1>4. PICK h \in [0..n -> SummaryType] : Folds(h, G, entries, prev, n)
  BY <1>1, <1>2, FoldExists
<1>5. h[0] = prev /\ \A i \in 1..n : h[i] = FoldLine(h[i - 1], entries[i])
  <2>1. ASSUME NEW i \in 1..n PROVE h[i] = FoldLine(h[i - 1], entries[i])
    <3>1. h[i - 1] \in SummaryType /\ entries[i] \in LineType
      OBVIOUS
    <3> QED BY <1>3, <1>4, <3>1 DEF Folds
  <2> QED BY <1>4, <2>1 DEF Folds
<1>6. Eq(f)
  <2>1. h = [i \in 0..n |-> IF i = 0 THEN prev ELSE FoldLine(h[i - 1], entries[i])]
    BY <1>5
  <2>2. Eq(h)
    BY <2>1
  <2> HIDE DEF Eq
  <2> QED BY <2>2
<1>7. FoldSessionSummary(prev, entries) = f[n]
  BY DEF FoldSessionSummary
<1> HIDE DEF f
<1>8. f[0] = prev /\ \A i \in 1..n : f[i] = FoldLine(f[i - 1], entries[i])
  BY <1>1, <1>6
<1>9. \A i \in Nat : i <= n => f[i] = h[i]
  <2> DEFINE N == {i \in Nat : i <= n => f[i] = h[i]}
  <2>1. 0 \in N
    BY <1>5, <1>8
  <2>2. ASSUME NEW i \in Nat, i \in N PROVE i + 1 \in N
    <3> SUFFICES ASSUME i + 1 <= n PROVE f[i + 1] = h[i + 1]
      OBVIOUS
    <3>1. i + 1 \in 1..n /\ (i + 1) - 1 = i /\ f[i] = h[i]
      BY <1>1, <2>2
    <3> QED BY <1>5, <1>8, <3>1
  <2>3. Nat \subseteq N
    <3> HIDE DEF N
    <3> QED BY <2>1, <2>2, Induction
  <2> QED BY <2>3
<1>10. SumsFrom(h, prev, entries)
  BY <1>1, <1>5, <1>7, <1>9 DEF SumsFrom
<1> QED
  BY <1>10

\* Where entries have a prompt, meta or not, and the first of them.
Prompts(entries) == {i \in DOMAIN entries : IsPrompt(entries[i]) /\ entries[i].text # None}
PromptOf(entries) ==
  IF Prompts(entries) = {} THEN None ELSE entries[Min(Prompts(entries))].text

\* What a summary says of the entries it stands for.
SumsUp(sum, entries) ==
  /\ sum.side <=> \E i \in DOMAIN entries : entries[i].side
  /\ sum.custom = LastText(entries, "custom-title")
  /\ sum.ai = LastText(entries, "ai-title")
  /\ sum.lastPrompt = LastText(entries, "last-prompt")
  /\ sum.prompt = PromptOf(entries)

LEMMA SumOfNothing == SumsUp(NoSummary, <<>>) /\ NoSummary \in SummaryType
<1>1. DOMAIN <<>> = {}
  OBVIOUS
<1>2. \A kind : OfKind(<<>>, kind) = {}
  BY <1>1 DEF OfKind
<1>3. Prompts(<<>>) = {}
  BY <1>1 DEF Prompts
<1>4. ~NoSummary.side
  BY DEF NoSummary
<1>5. SumsUp(NoSummary, <<>>)
  BY <1>1, <1>2, <1>3, <1>4 DEF SumsUp, NoSummary, LastText, PromptOf
<1> QED
  BY <1>5 DEF NoSummary, SummaryType

\* `all` begins with the lines of `old`.
Begins(old, all) ==
  Len(old) <= Len(all) /\ \A i \in 1..Len(old) : old[i] = all[i]

\* The last text of a kind, folded over all the lines onto that of the first of them.
LEMMA TextFollows ==
  ASSUME NEW old \in Seq(LineType), NEW all \in Seq(LineType), Begins(old, all), NEW kind, NEW v,
         v[0] = LastText(old, kind),
         \A i \in 1..Len(all) :
           v[i] = IF all[i].kind = kind THEN Or(all[i].text, v[i - 1]) ELSE v[i - 1]
  PROVE  v[Len(all)] = LastText(all, kind)
<1> DEFINE n == Len(all)
           at == OfKind(all, kind)
           t == [i \in 1..n |-> all[i].text]
<1>1. n \in Nat /\ at \subseteq 1..n
  BY TextTypes
<1>2. \A i \in 1..n : v[i] = IF i \in at THEN t[i] ELSE v[i - 1]
  <2> SUFFICES ASSUME NEW i \in 1..n PROVE v[i] = IF i \in at THEN t[i] ELSE v[i - 1]
    OBVIOUS
  <2>1. i \in at <=> all[i].kind = kind /\ all[i].text # None
    BY DEF OfKind
  <2>2. v[i] = IF all[i].kind = kind THEN Or(all[i].text, v[i - 1]) ELSE v[i - 1]
    OBVIOUS
  <2>3. t[i] = all[i].text
    OBVIOUS
  <2> HIDE DEF at, t
  <2> QED BY <2>1, <2>2, <2>3 DEF Or
<1>3. LastText(all, kind) = IF at = {} THEN None ELSE all[Max(at)].text
  BY DEF LastText
<1>4. at = {} => LastText(old, kind) = None
  <2> SUFFICES ASSUME at = {} PROVE LastText(old, kind) = None
    OBVIOUS
  <2>1. OfKind(old, kind) \subseteq 1..Len(old) /\ 1..Len(old) \subseteq 1..n
    BY <1>1, TextTypes DEF Begins
  <2>2. ASSUME NEW i \in OfKind(old, kind) PROVE i \in OfKind(all, kind)
    <3>1. i \in 1..Len(old) /\ i \in 1..n /\ old[i] = all[i]
      BY <2>1 DEF Begins
    <3> QED BY <3>1 DEF OfKind
  <2>3. OfKind(old, kind) = {}
    BY <2>2
  <2> QED BY <2>3 DEF LastText
<1>5. at # {} => t[Max(at)] = all[Max(at)].text
  <2>1. at # {} => Max(at) \in 1..n
    <3> HIDE DEF at
    <3> QED BY <1>1, MaxOfPositions
  <2> HIDE DEF at
  <2> QED BY <2>1
<1> HIDE DEF at, t
<1>6. v[n] = IF at = {} THEN v[0] ELSE t[Max(at)]
  <2>1. Follows(v, at, t, n)
    BY <1>2 DEF Follows
  <2> QED BY ONLY <1>1, <2>1, FollowsLast, ZenonT(60)
<1> QED
  BY <1>3, <1>4, <1>5, <1>6

\* The first prompt, which is set once.
LEMMA PromptIsSet ==
  ASSUME NEW old \in Seq(LineType), NEW all \in Seq(LineType), Begins(old, all), NEW v,
         v[0] = PromptOf(old),
         \A i \in 1..Len(all) :
           v[i] = IF IsPrompt(all[i]) THEN Or(v[i - 1], all[i].text) ELSE v[i - 1]
  PROVE  v[Len(all)] = PromptOf(all)
<1> DEFINE n == Len(all)
           at == Prompts(all)
           t == [i \in 1..n |-> all[i].text]
<1>1. n \in Nat /\ at \subseteq 1..n /\ at \subseteq Nat
  BY DEF Prompts
<1>2. \A i \in 1..n : t[i] = all[i].text /\ all[i].text \in Nat
  <2>1. \A i \in 1..n : all[i] \in LineType
    OBVIOUS
  <2>2. \A l \in LineType : l.text \in Nat
    BY DEF LineType
  <2> QED BY <2>1, <2>2
<1>3. \A i \in 1..n : i \in at <=> IsPrompt(all[i]) /\ all[i].text # None
  BY DEF Prompts
<1>4. PromptOf(all) = IF at = {} THEN None ELSE all[Min(at)].text
  BY DEF PromptOf
<1> DEFINE was == Prompts(old)
<1>5. Len(old) \in Nat /\ Len(old) <= n /\ was \subseteq 1..Len(old) /\ was \subseteq Nat
  BY DEF Prompts, Begins
<1>6. \A i \in 1..Len(old) : i \in was <=> i \in at
  <2> SUFFICES ASSUME NEW i \in 1..Len(old) PROVE i \in was <=> i \in at
    OBVIOUS
  <2>1. i \in 1..n /\ old[i] = all[i]
    BY <1>1, <1>5 DEF Begins
  <2> QED BY <2>1 DEF Prompts
<1>7. PromptOf(old) = IF was = {} THEN None ELSE old[Min(was)].text
  BY DEF PromptOf
<1>8. \A i \in at : t[i] # None
  BY <1>1, <1>2, <1>3
<1>9. \A i \in 1..n : v[i] = IF i \in at /\ v[i - 1] = None THEN t[i] ELSE v[i - 1]
  <2> SUFFICES ASSUME NEW i \in 1..n
               PROVE  v[i] = IF i \in at /\ v[i - 1] = None THEN t[i] ELSE v[i - 1]
    OBVIOUS
  <2>1. v[i] = IF IsPrompt(all[i]) THEN Or(v[i - 1], all[i].text) ELSE v[i - 1]
    OBVIOUS
  <2>2. t[i] = all[i].text /\ (i \in at <=> IsPrompt(all[i]) /\ all[i].text # None)
    BY <1>2, <1>3
  <2> HIDE DEF at, t
  <2> QED BY <2>1, <2>2 DEF Or
<1> HIDE DEF at, t, was
<1>10. v[n] = IF v[0] # None \/ at = {} THEN v[0] ELSE t[Min(at)]
  <2>1. SetOnce(v, at, t, None, n)
    BY <1>8, <1>9 DEF SetOnce
  <2>2. FirstWins(v, at, t, None, n)
    BY ONLY <1>1, <2>1, SetByFirst, Zenon
  <2> QED BY <2>2 DEF FirstWins
<1>11. CASE at = {}
  <2>1. was = {}
    BY <1>5, <1>6, <1>11
  <2> QED BY <1>4, <1>7, <1>10, <1>11, <2>1
<1>12. CASE at # {}
  <2>1. Min(at) \in at /\ \A k \in at : Min(at) <= k
    BY <1>1, <1>12, MinOfPositions
  <2>2. t[Min(at)] = all[Min(at)].text
    BY <1>1, <1>2, <2>1
  <2>3. CASE was = {}
    BY <1>4, <1>7, <1>10, <1>12, <2>2, <2>3
  <2>4. CASE was # {}
    <3>1. Min(was) \in was /\ \A k \in was : Min(was) <= k
      BY <1>5, <2>4, MinOfPositions
    <3>2. Min(was) \in at /\ Min(was) \in 1..Len(old)
      BY <1>5, <1>6, <3>1
    <3>3. Min(at) <= Min(was) /\ Min(at) \in 1..n
      BY <1>1, <2>1, <3>2
    <3>4. Min(at) \in 1..Len(old)
      BY <1>1, <1>5, <3>2, <3>3
    <3>5. Min(at) = Min(was)
      <4>1. Min(at) \in was
        BY <1>6, <2>1, <3>4
      <4>2. Min(was) <= Min(at)
        BY <3>1, <4>1
      <4> QED BY <1>5, <3>2, <3>3, <4>2
    <3>6. old[Min(was)] = all[Min(was)]
      BY <3>2 DEF Begins
    <3>7. v[0] = all[Min(at)].text /\ v[0] # None
      BY <1>7, <1>8, <2>1, <2>2, <2>4, <3>5, <3>6
    <3> QED BY <1>4, <1>10, <1>12, <3>7
  <2> QED BY <2>3, <2>4
<1> QED
  BY <1>11, <1>12

\* However a transcript grows, folding the whole of it onto its summary sums it up.
LEMMA SumGrows ==
  ASSUME NEW prev \in SummaryType, NEW old \in Seq(LineType), NEW all \in Seq(LineType),
         Begins(old, all), SumsUp(prev, old)
  PROVE  SumsUp(FoldSessionSummary(prev, all), all) /\ FoldSessionSummary(prev, all) \in SummaryType
<1> DEFINE n == Len(all)
<1>1. PICK f \in [0..n -> SummaryType] : SumsFrom(f, prev, all)
  BY SummaryFold
<1>2. n \in Nat /\ f[0] = prev /\ FoldSessionSummary(prev, all) = f[n] /\ f[n] \in SummaryType
  BY <1>1 DEF SumsFrom
<1>3. \A i \in 1..n :
        /\ f[i].side <=> (f[i - 1].side \/ all[i].side)
        /\ f[i].custom = IF all[i].kind = "custom-title" THEN Or(all[i].text, f[i - 1].custom)
                         ELSE f[i - 1].custom
        /\ f[i].ai = IF all[i].kind = "ai-title" THEN Or(all[i].text, f[i - 1].ai) ELSE f[i - 1].ai
        /\ f[i].lastPrompt = IF all[i].kind = "last-prompt" THEN Or(all[i].text, f[i - 1].lastPrompt)
                             ELSE f[i - 1].lastPrompt
        /\ f[i].prompt = IF IsPrompt(all[i]) THEN Or(f[i - 1].prompt, all[i].text) ELSE f[i - 1].prompt
  <2> SUFFICES ASSUME NEW i \in 1..n
               PROVE  Takes(f[i], f[i - 1], all[i])
    BY DEF Takes
  <2>1. f[i] = FoldLine(f[i - 1], all[i])
    BY <1>1 DEF SumsFrom
  <2> QED BY <2>1, FoldLineFields
<1>4. f[n].custom = LastText(all, "custom-title")
  <2> DEFINE v == [i \in 0..n |-> f[i].custom]
  <2>1. v[0] = LastText(old, "custom-title") /\ v[n] = f[n].custom
    BY <1>2 DEF SumsUp
  <2>2. \A i \in 1..n : v[i] = IF all[i].kind = "custom-title" THEN Or(all[i].text, v[i - 1]) ELSE v[i - 1]
    BY <1>3
  <2> HIDE DEF v
  <2>3. v[n] = LastText(all, "custom-title")
    BY <2>1, <2>2, TextFollows
  <2> QED BY <2>1, <2>3
<1>5. f[n].ai = LastText(all, "ai-title")
  <2> DEFINE v == [i \in 0..n |-> f[i].ai]
  <2>1. v[0] = LastText(old, "ai-title") /\ v[n] = f[n].ai
    BY <1>2 DEF SumsUp
  <2>2. \A i \in 1..n : v[i] = IF all[i].kind = "ai-title" THEN Or(all[i].text, v[i - 1]) ELSE v[i - 1]
    BY <1>3
  <2> HIDE DEF v
  <2>3. v[n] = LastText(all, "ai-title")
    BY <2>1, <2>2, TextFollows
  <2> QED BY <2>1, <2>3
<1>6. f[n].lastPrompt = LastText(all, "last-prompt")
  <2> DEFINE v == [i \in 0..n |-> f[i].lastPrompt]
  <2>1. v[0] = LastText(old, "last-prompt") /\ v[n] = f[n].lastPrompt
    BY <1>2 DEF SumsUp
  <2>2. \A i \in 1..n : v[i] = IF all[i].kind = "last-prompt" THEN Or(all[i].text, v[i - 1]) ELSE v[i - 1]
    BY <1>3
  <2> HIDE DEF v
  <2>3. v[n] = LastText(all, "last-prompt")
    BY <2>1, <2>2, TextFollows
  <2> QED BY <2>1, <2>3
<1>7. f[n].prompt = PromptOf(all)
  <2> DEFINE v == [i \in 0..n |-> f[i].prompt]
  <2>1. v[0] = PromptOf(old) /\ v[n] = f[n].prompt
    BY <1>2 DEF SumsUp
  <2>2. \A i \in 1..n : v[i] = IF IsPrompt(all[i]) THEN Or(v[i - 1], all[i].text) ELSE v[i - 1]
    BY <1>3
  <2> HIDE DEF v
  <2>3. v[n] = PromptOf(all)
    BY <2>1, <2>2, PromptIsSet
  <2> QED BY <2>1, <2>3
<1>8. f[n].side <=> \E i \in DOMAIN all : all[i].side
  <2> DEFINE Up(k) == f[k].side <=> prev.side \/ \E i \in 1..k : all[i].side
             N == {k \in Nat : k <= n => Up(k)}
  <2>1. 0 \in N
    BY <1>2
  <2>2. ASSUME NEW k \in Nat, k \in N PROVE k + 1 \in N
    <3> SUFFICES ASSUME k + 1 <= n PROVE Up(k + 1)
      OBVIOUS
    <3>1. k + 1 \in 1..n /\ (k + 1) - 1 = k /\ Up(k)
      BY <1>2, <2>2
    <3>2. f[k + 1].side <=> (f[k].side \/ all[k + 1].side)
      BY <1>3, <3>1
    <3>3. (\E i \in 1..(k + 1) : all[i].side) <=> (\E i \in 1..k : all[i].side) \/ all[k + 1].side
      OBVIOUS
    <3> QED BY <3>1, <3>2, <3>3
  <2>3. Nat \subseteq N
    <3> HIDE DEF N
    <3> QED BY <2>1, <2>2, Induction
  <2>4. Up(n)
    BY <1>2, <2>3
  <2>5. prev.side => \E i \in 1..n : all[i].side
    <3> SUFFICES ASSUME prev.side PROVE \E i \in 1..n : all[i].side
      OBVIOUS
    <3>1. PICK i \in DOMAIN old : old[i].side
      BY DEF SumsUp
    <3>2. i \in 1..n /\ all[i] = old[i]
      BY <1>2 DEF Begins
    <3> QED BY <3>1, <3>2
  <2> QED BY <2>4, <2>5
<1>9. SumsUp(f[n], all)
  BY <1>4, <1>5, <1>6, <1>7, <1>8 DEF SumsUp
<1> QED
  BY <1>2, <1>9

LEMMA BeginsConcat ==
  ASSUME NEW s \in Seq(LineType), NEW t \in Seq(LineType)
  PROVE  s \o t \in Seq(LineType) /\ Len(s \o t) = Len(s) + Len(t) /\ Begins(s, s \o t)
  BY DEF Begins

\* The summary and the transcript that is written out again tell the same of a plain one.
LEMMA SummaryTells ==
  ASSUME NEW entries \in Seq(LineType), Plain(entries), NEW sum \in SummaryType, SumsUp(sum, entries)
  PROVE  /\ Untold(SummaryInfo(sum)) = Untold(LiteInfo(WrittenOut(entries)))
         /\ (SummaryInfo(sum) = NoInfo) <=> (LiteInfo(WrittenOut(entries)) = NoInfo)
<1> DEFINE lines == WrittenOut(entries)
           n == Len(entries)
<1>1. /\ lines \in Seq(LineType) /\ Len(lines) = n /\ n \in Nat
      /\ \A i \in 1..n : lines[i] = [entries[i] EXCEPT !.sorted = TRUE]
  BY WrittenOutType
<1>2. n <= Window /\ n >= 1 /\ \A i \in 1..n : entries[i].kind # "meta" /\ (entries[i].side => entries[1].side)
  BY DEF Plain
<1>3. \A i \in 1..n : /\ lines[i].kind = entries[i].kind /\ lines[i].text = entries[i].text
                      /\ lines[i].side = entries[i].side
  <2> SUFFICES ASSUME NEW i \in 1..n
               PROVE  /\ lines[i].kind = entries[i].kind /\ lines[i].text = entries[i].text
                      /\ lines[i].side = entries[i].side
    OBVIOUS
  <2>1. entries[i] \in LineType /\ lines[i] = [entries[i] EXCEPT !.sorted = TRUE]
    BY <1>1
  <2> QED BY <2>1 DEF LineType
<1> HIDE DEF lines
<1>4. HeadOf(lines) = lines /\ TailOf(lines) = lines
  BY <1>1, <1>2, HeadAndTail
<1>5. \A kind : OfKind(lines, kind) = OfKind(entries, kind) /\ OfKind(entries, kind) \subseteq 1..n
  <2>1. \A kind : OfKind(entries, kind) \subseteq 1..n
    BY TextTypes
  <2>2. DOMAIN lines = 1..n /\ DOMAIN entries = 1..n
    BY <1>1
  <2> QED BY <1>3, <2>1, <2>2 DEF OfKind
<1>6. ASSUME NEW kind PROVE LastText(lines, kind) = LastText(entries, kind)
  <2> DEFINE at == OfKind(entries, kind)
  <2>1. /\ LastText(lines, kind) = IF at = {} THEN None ELSE lines[Max(at)].text
        /\ LastText(entries, kind) = IF at = {} THEN None ELSE entries[Max(at)].text
        /\ at \subseteq 1..n
    BY <1>5 DEF LastText
  <2> HIDE DEF at
  <2>2. at # {} => Max(at) \in 1..n
    BY <1>1, <2>1, MaxOfPositions
  <2> QED BY <1>3, <2>1, <2>2
<1>7. FirstPrompt(lines) = PromptOf(entries)
  <2> DEFINE at == OfKind(entries, "prompt")
  <2>1. Prompts(entries) = at
    <3>1. DOMAIN entries = 1..n
      OBVIOUS
    <3> QED BY <1>2, <3>1 DEF Prompts, IsPrompt, OfKind
  <2>2. /\ FirstPrompt(lines) = IF at = {} THEN None ELSE lines[Min(at)].text
        /\ PromptOf(entries) = IF at = {} THEN None ELSE entries[Min(at)].text
        /\ at \subseteq 1..n
    BY <1>4, <1>5, <2>1 DEF FirstPrompt, FirstText, PromptOf
  <2> HIDE DEF at
  <2>3. at # {} => Min(at) \in 1..n
    <3>1. at \subseteq Nat
      BY <2>2
    <3> QED BY <2>2, <3>1, MinOfPositions
  <2> QED BY <1>3, <2>2, <2>3
<1>8. /\ LastText(entries, "custom-title") \in Nat /\ LastText(entries, "ai-title") \in Nat
      /\ LastText(entries, "last-prompt") \in Nat
  BY TextTypes
<1>9. \A kind : Recent(lines, kind) = LastText(entries, kind)
  BY <1>4, <1>6 DEF Recent, Or
<1> DEFINE title == Or(sum.custom, sum.ai)
           text  == Or(Or(title, sum.lastPrompt), sum.prompt)
<1>10. title = TitleOf(lines)
  BY <1>9 DEF SumsUp, TitleOf
<1>11. text = Or(Or(TitleOf(lines), LastText(TailOf(lines), "last-prompt")), FirstPrompt(lines))
  BY <1>4, <1>6, <1>7, <1>10 DEF SumsUp
<1>12. sum.side <=> Head(lines).side
  <2>1. Head(lines) = lines[1] /\ 1 \in 1..n /\ lines[1].side = entries[1].side
    BY <1>1, <1>2, <1>3
  <2>2. sum.side <=> \E i \in 1..n : entries[i].side
    BY DEF SumsUp
  <2> QED BY <1>2, <2>1, <2>2
<1>13. lines # <<>>
  BY <1>1, <1>2
<1>14. SummaryInfo(sum) = IF sum.side \/ text = None THEN NoInfo
                          ELSE [title |-> title, summary |-> text, prompt |-> sum.prompt, tag |-> sum.tag]
  BY DEF SummaryInfo
<1>15. LiteInfo(lines) = IF sum.side \/ text = None THEN NoInfo
                         ELSE [title |-> title, summary |-> text, prompt |-> sum.prompt, tag |-> TagOf(lines)]
  <2>1. sum.prompt = FirstPrompt(lines)
    BY <1>7 DEF SumsUp
  <2> HIDE DEF title, text
  <2> QED BY <1>10, <1>11, <1>12, <1>13, <2>1 DEF LiteInfo
<1> HIDE DEF title, text
<1>16. CASE sum.side \/ text = None
  BY <1>14, <1>15, <1>16 DEF lines
<1>17. CASE ~sum.side /\ text # None
  <2>1. SummaryInfo(sum).summary = text /\ LiteInfo(lines).summary = text /\ NoInfo.summary = None
    BY <1>14, <1>15, <1>17 DEF NoInfo
  <2>2. Untold(SummaryInfo(sum)) = Untold(LiteInfo(lines))
    BY <1>14, <1>15, <1>17 DEF Untold
  <2> QED BY <1>17, <2>1, <2>2 DEF lines
<1> QED
  BY <1>16, <1>17

(* ---- listings ---- *)

Newer(S, x) == {y \in S : y.mtime > x.mtime}

\* The sessions S, written at different times, in the order of Newest.
Ordered(S, listing) ==
  /\ listing \in Seq(S) /\ Len(listing) = Cardinality(S)
  /\ \A x \in S : \E i \in 1..Len(listing) : listing[i] = x
  /\ \A i, j \in 1..Len(listing) : i <= j => listing[j].mtime <= listing[i].mtime

WrittenApart(S) ==
  /\ IsFiniteSet(S)
  /\ \A x \in S : x.mtime \in Int
  /\ \A x, y \in S : x.mtime = y.mtime => x = y

\* Sessions written later have fewer that were written later still.
LEMMA FewerAreNewer ==
  ASSUME NEW S, WrittenApart(S), NEW x \in S, NEW y \in S, x.mtime < y.mtime
  PROVE  /\ Cardinality(Newer(S, y)) < Cardinality(Newer(S, x))
         /\ Cardinality(Newer(S, x)) \in Nat /\ Cardinality(Newer(S, y)) \in Nat
<1>1. IsFiniteSet(S) /\ Newer(S, x) \in SUBSET S
  BY DEF WrittenApart, Newer
<1>2. IsFiniteSet(Newer(S, x))
  BY <1>1, FS_Subset
<1>3. Newer(S, y) \in SUBSET Newer(S, x)
  <2> SUFFICES ASSUME NEW z \in S, z.mtime > y.mtime PROVE z.mtime > x.mtime
    BY DEF Newer
  <2> QED BY DEF WrittenApart
<1>4. y \in Newer(S, x) /\ y \notin Newer(S, y)
  <2>1. y.mtime \in Int /\ x.mtime \in Int
    BY DEF WrittenApart
  <2> QED BY <2>1 DEF Newer
<1>5. /\ IsFiniteSet(Newer(S, y)) /\ Cardinality(Newer(S, y)) <= Cardinality(Newer(S, x))
      /\ Cardinality(Newer(S, x)) = Cardinality(Newer(S, y)) => Newer(S, x) = Newer(S, y)
  BY <1>2, <1>3, FS_Subset
<1>6. Cardinality(Newer(S, x)) \in Nat /\ Cardinality(Newer(S, y)) \in Nat
  BY <1>2, <1>5, FS_CardinalityType
<1>7. Cardinality(Newer(S, x)) # Cardinality(Newer(S, y))
  BY <1>4, <1>5
<1> QED
  BY <1>5, <1>6, <1>7

LEMMA NewestOrdered ==
  ASSUME NEW S, WrittenApart(S)
  PROVE  Ordered(S, Newest(S)) /\ Cardinality(S) \in Nat
<1> DEFINE n == Cardinality(S)
           rank == [x \in S |-> Cardinality(Newer(S, x)) + 1]
<1>1. IsFiniteSet(S) /\ n \in Nat
  BY FS_CardinalityType DEF WrittenApart
<1>2. ASSUME NEW x \in S PROVE rank[x] \in 1..n
  <2>1. Newer(S, x) \in SUBSET (S \ {x})
    <3>1. x.mtime \in Int
      BY DEF WrittenApart
    <3> QED BY <3>1 DEF Newer
  <2>2. IsFiniteSet(S \ {x}) /\ Cardinality(S \ {x}) = n - 1
    BY <1>1, FS_RemoveElement
  <2>3. IsFiniteSet(Newer(S, x)) /\ Cardinality(Newer(S, x)) <= Cardinality(S \ {x})
    BY <2>1, <2>2, FS_Subset
  <2>4. Cardinality(Newer(S, x)) \in Nat
    BY <2>3, FS_CardinalityType
  <2> HIDE DEF n
  <2>5. Cardinality(Newer(S, x)) + 1 \in 1..n
    BY <1>1, <2>2, <2>3, <2>4
  <2> QED BY <2>5
<1>3. ASSUME NEW x \in S, NEW y \in S, rank[x] = rank[y] PROVE x = y
  <2> SUFFICES ASSUME x # y PROVE FALSE
    OBVIOUS
  <2>1. x.mtime \in Int /\ y.mtime \in Int /\ x.mtime # y.mtime
    BY DEF WrittenApart
  <2>2. Cardinality(Newer(S, x)) + 1 = Cardinality(Newer(S, y)) + 1
    BY <1>3
  <2>3. CASE x.mtime < y.mtime
    <3>1. /\ Cardinality(Newer(S, y)) < Cardinality(Newer(S, x))
          /\ Cardinality(Newer(S, x)) \in Nat /\ Cardinality(Newer(S, y)) \in Nat
      BY <2>3, FewerAreNewer
    <3> QED BY <2>2, <3>1
  <2>4. CASE y.mtime < x.mtime
    <3>1. /\ Cardinality(Newer(S, x)) < Cardinality(Newer(S, y))
          /\ Cardinality(Newer(S, x)) \in Nat /\ Cardinality(Newer(S, y)) \in Nat
      BY <2>4, FewerAreNewer
    <3> QED BY <2>2, <3>1
  <2> QED BY <2>1, <2>3, <2>4
<1>4. rank \in Injection(S, 1..n)
  <2>1. rank \in [S -> 1..n]
    BY <1>2
  <2> QED BY <1>3, <2>1 DEF Injection, IsInjective
<1>5. \A i \in 1..n : \E x \in S : rank[x] = i
  <2>1. IsFiniteSet(1..n) /\ Cardinality(1..n) = n
    BY <1>1, FS_Interval
  <2>2. rank \in Surjection(S, 1..n)
    <3> HIDE DEF rank
    <3> QED BY <1>4, <2>1, FS_Injection
  <2> HIDE DEF rank, n
  <2> QED BY <2>2 DEF Surjection
<1>6. ASSUME NEW i \in 1..n PROVE Newest(S)[i] \in S /\ rank[Newest(S)[i]] = i
  <2>1. PICK x \in S : rank[x] = i
    BY <1>5
  <2>2. Cardinality(Newer(S, x)) = i - 1
    <3>1. Cardinality(Newer(S, x)) + 1 = i
      BY <2>1
    <3>2. Newer(S, x) \in SUBSET S
      BY DEF Newer
    <3>3. Cardinality(Newer(S, x)) \in Nat
      <4>1. IsFiniteSet(Newer(S, x))
        BY <1>1, <3>2, FS_Subset
      <4> QED BY <4>1, FS_CardinalityType
    <3> QED BY <3>1, <3>3
  <2>3. Newest(S)[i] = CHOOSE z \in S : Cardinality(Newer(S, z)) = i - 1
    BY DEF Newest, Newer
  <2>4. Newest(S)[i] \in S /\ Cardinality(Newer(S, Newest(S)[i])) = i - 1
    BY <2>2, <2>3
  <2> HIDE DEF n
  <2>5. i \in Int
    BY <1>1
  <2> QED BY <2>4, <2>5
<1>7. Newest(S) \in Seq(S) /\ Len(Newest(S)) = n
  <2> DEFINE e(i) == CHOOSE x \in S : Cardinality({y \in S : y.mtime > x.mtime}) = i - 1
  <2>1. Newest(S) = [i \in 1..n |-> e(i)]
    BY DEF Newest
  <2> HIDE DEF n, e
  <2>2. \A i \in 1..n : e(i) \in S
    BY <1>6, <2>1
  <2>3. Newest(S) \in [1..n -> S]
    BY <2>1, <2>2
  <2> QED BY <1>1, <2>3
<1>8. ASSUME NEW x \in S PROVE \E i \in 1..n : Newest(S)[i] = x
  <2>1. rank[x] \in 1..n
    BY <1>2
  <2>2. Newest(S)[rank[x]] \in S /\ rank[Newest(S)[rank[x]]] = rank[x]
    BY <1>6, <2>1
  <2> HIDE DEF rank
  <2>3. Newest(S)[rank[x]] = x
    BY <1>3, <2>2
  <2> QED BY <2>1, <2>3
<1>9. ASSUME NEW i \in 1..n, NEW j \in 1..n, i <= j PROVE Newest(S)[j].mtime <= Newest(S)[i].mtime
  <2> DEFINE x == Newest(S)[i]
             y == Newest(S)[j]
  <2>1. x \in S /\ y \in S /\ rank[x] = i /\ rank[y] = j
    BY <1>6
  <2> HIDE DEF x, y
  <2>2. Cardinality(Newer(S, x)) + 1 = i /\ Cardinality(Newer(S, y)) + 1 = j
    BY <2>1
  <2>3. x.mtime \in Int /\ y.mtime \in Int
    BY <2>1 DEF WrittenApart
  <2>4. ~(x.mtime < y.mtime)
    <3> SUFFICES ASSUME x.mtime < y.mtime PROVE FALSE
      OBVIOUS
    <3>1. /\ Cardinality(Newer(S, y)) < Cardinality(Newer(S, x))
          /\ Cardinality(Newer(S, x)) \in Nat /\ Cardinality(Newer(S, y)) \in Nat
      BY <2>1, FewerAreNewer
    <3> QED BY <1>9, <2>2, <3>1
  <2>5. y.mtime <= x.mtime
    BY <2>3, <2>4
  <2> QED BY <2>5 DEF x, y
<1> HIDE DEF n
<1> QED
  BY <1>1, <1>7, <1>8, <1>9 DEF Ordered, n

(* ---- types ---- *)

LEMMA KeyTypes ==
  /\ \A form \in {"name", "path"}, d \in StoreDirs, s \in Sids :
        /\ Key(form, d, s) \in Keys /\ ~Key(form, d, s).sub
        /\ Key(form, d, s).dir = d /\ Key(form, d, s).sid = s /\ Key(form, d, s).form = form
  /\ \A key \in Keys : SubKey(key) \in Keys /\ SubKey(key).sub
  /\ \A key \in Keys : ~key.sub => key = Key(key.form, key.dir, key.sid)
<1>1. ASSUME NEW key \in Keys PROVE SubKey(key) \in Keys /\ SubKey(key).sub
  BY DEF Keys, SubKey
<1>2. ASSUME NEW key \in Keys, ~key.sub PROVE key = Key(key.form, key.dir, key.sid)
  <2>1. key = [form |-> key.form, dir |-> key.dir, sid |-> key.sid, sub |-> key.sub] /\ key.sub \in BOOLEAN
    BY DEF Keys
  <2>2. key.sub = FALSE
    BY <1>2, <2>1
  <2> QED BY <2>1, <2>2 DEF Key
<1> QED
  BY <1>1, <1>2 DEF Keys, Key

\* The directories looked into are directories, and so is the one found.
LEMMA SearchOrderType ==
  ASSUME NEW dir \in Everywhere
  PROVE  SearchOrder(dir) \in Seq(Dirs)
<1>1. DirOrder \in Seq(Dirs) /\ WorktreeOrder \in Seq(Dirs)
  BY SessionsAssumption
<1>2. CASE dir = NoDir
  BY <1>1, <1>2 DEF SearchOrder
<1>3. CASE dir # NoDir
  <2>1. <<dir>> \in Seq(Dirs)
    BY <1>3 DEF Everywhere
  <2>2. Among(WorktreeOrder, Dirs \ {dir}) \in Seq(Dirs)
    <3>1. Among(WorktreeOrder, Dirs \ {dir}) \in Seq(Dirs \cap (Dirs \ {dir}))
      BY <1>1, AmongType
    <3> QED BY <3>1
  <2>3. <<dir>> \o Among(WorktreeOrder, Dirs \ {dir}) \in Seq(Dirs)
    BY <2>1, <2>2, ConcatType
  <2> QED BY <1>3, <2>1, <2>3 DEF SearchOrder
<1> QED
  BY <1>2, <1>3

LEMMA OpenedIs ==
  ASSUME NEW dir \in Everywhere, NEW s, NEW refusing
  PROVE  /\ Opened(s, dir, refusing) \in Everywhere
         /\ Opened(s, dir, refusing) # NoDir =>
              /\ Opened(s, dir, refusing) \in Dirs
              /\ Opened(s, dir, refusing) \in ToSet(SearchOrder(dir))
              /\ Exists(Opened(s, dir, refusing), s)
<1> DEFINE order == SearchOrder(dir)
           at == {i \in DOMAIN order : Exists(order[i], s) /\ order[i] \notin refusing}
<1>1. order \in Seq(Dirs)
  BY SearchOrderType
<1>2. Opened(s, dir, refusing) = IF at = {} THEN NoDir ELSE order[Min(at)]
  BY DEF Opened
<1> HIDE DEF order
<1>3. at \subseteq Nat
  BY <1>1
<1>4. at # {} => Min(at) \in at
  <2> HIDE DEF at
  <2> QED BY <1>3, MinOfPositions
<1>5. at # {} => order[Min(at)] \in Dirs /\ order[Min(at)] \in ToSet(order) /\ Exists(order[Min(at)], s)
  <2> SUFFICES ASSUME at # {}
               PROVE  order[Min(at)] \in Dirs /\ order[Min(at)] \in ToSet(order) /\ Exists(order[Min(at)], s)
    OBVIOUS
  <2>1. PICK m \in at : m = Min(at)
    BY <1>4
  <2>2. m \in DOMAIN order /\ Exists(order[m], s)
    OBVIOUS
  <2> HIDE DEF at
  <2>3. order[m] \in Dirs /\ order[m] \in ToSet(order)
    BY <1>1, <2>2 DEF ToSet
  <2> QED BY <2>1, <2>2, <2>3
<1> HIDE DEF at
<1> QED
  BY <1>2, <1>5 DEF Everywhere, order

LEMMA FoundIs ==
  ASSUME NEW dir \in Everywhere, NEW s
  PROVE  /\ Found(s, dir) \in Everywhere
         /\ Found(s, dir) # NoDir =>
              Found(s, dir) \in Dirs /\ Found(s, dir) \in ToSet(SearchOrder(dir)) /\ Exists(Found(s, dir), s)
<1>1. Found(s, dir) = Opened(s, dir, {})
  BY DEF Found, Opened
<1> QED
  BY <1>1, OpenedIs

\* A session is found where it exists.
LEMMA FoundIfThere ==
  ASSUME NEW dir \in Everywhere, NEW s, NEW d \in ToSet(SearchOrder(dir)), Exists(d, s)
  PROVE  Found(s, dir) \in Dirs
<1> DEFINE order == SearchOrder(dir)
           at == {i \in DOMAIN order : Exists(order[i], s)}
<1>1. order \in Seq(Dirs)
  BY SearchOrderType
<1>2. Found(s, dir) = IF at = {} THEN NoDir ELSE order[Min(at)]
  BY DEF Found
<1>3. PICK i \in DOMAIN order : order[i] = d
  BY DEF ToSet
<1> HIDE DEF order
<1>4. at # {} /\ at \subseteq Nat
  BY <1>1, <1>3
<1>5. Min(at) \in at
  <2> HIDE DEF at
  <2> QED BY <1>4, MinOfPositions
<1> QED
  BY <1>1, <1>2, <1>4, <1>5

\* The copy of s in d becomes f.
Rewritten(d, s, f) == files' = [files EXCEPT ![d][s] = f]

LEMMA RewrittenIs ==
  ASSUME files \in [Dirs -> [Sids -> FileType]], NEW d \in Dirs, NEW s \in Sids, NEW f \in FileType,
         Rewritten(d, s, f)
  PROVE  /\ files' \in [Dirs -> [Sids -> FileType]]
         /\ files'[d][s] = f
         /\ \A e \in Dirs, t \in Sids : (e # d \/ t # s) => files'[e][t] = files[e][t]
  BY DEF Rewritten

LEMMA AppendToRewrites ==
  ASSUME files \in [Dirs -> [Sids -> FileType]], clock \in Nat, NEW d \in Dirs, NEW s \in Sids,
         NEW line \in LineType, AppendTo(d, s, line)
  PROVE  \E f \in FileType :
           Rewritten(d, s, f) /\ f.lines = Append(Lines(d, s), line) /\ f.mtime = Now
<1> DEFINE old == files[d][s]
           f == [lines |-> Append(old.lines, line), mtime |-> Now, agent |-> old.agent]
<1>1. files[d] \in [Sids -> FileType] /\ old \in FileType
  OBVIOUS
<1>2. old = [lines |-> old.lines, mtime |-> old.mtime, agent |-> old.agent] /\ old.lines \in Seq(LineType)
  BY <1>1 DEF FileType
<1>3. f \in FileType
  <2>1. Append(old.lines, line) \in Seq(LineType) /\ Now \in Int
    BY <1>2, AppendType DEF Now
  <2> HIDE DEF old
  <2> QED BY <1>1, <2>1 DEF FileType, old
<1>4. files' = [files EXCEPT ![d][s] = f]
  <2>1. files' = [files EXCEPT ![d][s] = [[old EXCEPT !.lines = Append(@, line)] EXCEPT !.mtime = Now]]
    BY DEF AppendTo
  <2>2. \A r \in FileType : \A x, y : [[r EXCEPT !.lines = x] EXCEPT !.mtime = y]
                                       = [lines |-> x, mtime |-> y, agent |-> r.agent]
    <3> SUFFICES ASSUME NEW r \in FileType, NEW x, NEW y
                 PROVE  [[r EXCEPT !.lines = x] EXCEPT !.mtime = y]
                          = [lines |-> x, mtime |-> y, agent |-> r.agent]
      OBVIOUS
    <3>1. r = [lines |-> r.lines, mtime |-> r.mtime, agent |-> r.agent]
      BY DEF FileType
    <3> DEFINE q == [r EXCEPT !.lines = x]
    <3>2. q = [lines |-> x, mtime |-> r.mtime, agent |-> r.agent]
      BY <3>1
    <3> HIDE DEF q
    <3>3. [q EXCEPT !.mtime = y] = [lines |-> x, mtime |-> y, agent |-> r.agent]
      BY <3>2
    <3> QED BY <3>3 DEF q
  <2>3. [[old EXCEPT !.lines = Append(@, line)] EXCEPT !.mtime = Now] = f
    <3> HIDE DEF old
    <3> QED BY <1>1, <2>2
  <2> QED BY <2>1, <2>3
<1>5. Rewritten(d, s, f) /\ f.lines = Append(Lines(d, s), line) /\ f.mtime = Now
  BY <1>4 DEF Rewritten, Lines
<1> QED
  BY <1>3, <1>5

\* What one write does to the store: a key gains entries, a transcript goes, or nothing.
Gains(key, entries) ==
  /\ data'[key] = [entries |-> Load(key) \o entries, mtime |-> Now]
  /\ \A k \in Keys : k # key => data'[k] = data[k] /\ summaries'[k] = summaries[k]
  /\ summaries'[key] = IF key.sub THEN summaries[key]
                       ELSE [summary |-> FoldSessionSummary(summaries[key].summary, Load(key) \o entries),
                             mtime   |-> Now]

GoneWith(key) == IF key.sub THEN {key} ELSE {key, SubKey(key)}
Loses(key) ==
  \A k \in Keys : /\ data'[k] = IF k \in GoneWith(key) THEN NoData ELSE data[k]
                  /\ summaries'[k] = IF k \in GoneWith(key) THEN NoSidecar ELSE summaries[k]

StoreTypes == data \in [Keys -> DataType] /\ summaries \in [Keys -> SidecarType]

LEMMA StoreAppendIs ==
  ASSUME StoreTypes, clock \in Nat, NEW key \in Keys, NEW entries \in Seq(LineType), StoreAppend(key, entries)
  PROVE  Gains(key, entries) /\ StoreTypes'
<1> DEFINE all == Load(key) \o entries
           sum == FoldSessionSummary(summaries[key].summary, all)
<1>1. Load(key) \in Seq(LineType) /\ all \in Seq(LineType) /\ Now \in Nat
  <2>1. data[key] \in DataType
    BY DEF StoreTypes
  <2>2. Load(key) \in Seq(LineType)
    BY <2>1 DEF Load, DataType
  <2>3. all \in Seq(LineType)
    BY <2>2, ConcatType
  <2> QED BY <2>2, <2>3 DEF Now
<1>2. summaries[key].summary \in SummaryType
  BY DEF StoreTypes, SidecarType
<1> HIDE DEF all
<1>3. sum \in SummaryType
  <2>1. PICK f \in [0..Len(all) -> SummaryType] : SumsFrom(f, summaries[key].summary, all)
    BY <1>1, <1>2, SummaryFold
  <2> QED BY <1>1, <2>1 DEF SumsFrom
<1> HIDE DEF sum
<1>4. data' = [data EXCEPT ![key] = [entries |-> all, mtime |-> Now]]
  BY DEF StoreAppend, all
<1>5. summaries' = IF key.sub THEN summaries
                   ELSE [summaries EXCEPT ![key] = [summary |-> sum, mtime |-> Now]]
  BY DEF StoreAppend, all, sum
<1>6. data' \in [Keys -> DataType] /\ data'[key] = [entries |-> all, mtime |-> Now]
      /\ \A k \in Keys : k # key => data'[k] = data[k]
  <2>1. [entries |-> all, mtime |-> Now] \in DataType
    BY <1>1 DEF DataType
  <2> QED BY <1>4, <2>1 DEF StoreTypes
<1>7. /\ summaries' \in [Keys -> SidecarType]
      /\ summaries'[key] = IF key.sub THEN summaries[key] ELSE [summary |-> sum, mtime |-> Now]
      /\ \A k \in Keys : k # key => summaries'[k] = summaries[k]
  <2>1. [summary |-> sum, mtime |-> Now] \in SidecarType
    BY <1>1, <1>3 DEF SidecarType
  <2> QED BY <1>5, <2>1 DEF StoreTypes
<1> QED
  BY <1>6, <1>7 DEF Gains, StoreTypes, all, sum

LEMMA StoreDeleteIs ==
  ASSUME StoreTypes, NEW key \in Keys, StoreDelete(key)
  PROVE  Loses(key) /\ StoreTypes'
<1>1. /\ data' = [k \in Keys |-> IF k \in GoneWith(key) THEN NoData ELSE data[k]]
      /\ summaries' = [k \in Keys |-> IF k \in GoneWith(key) THEN NoSidecar ELSE summaries[k]]
  BY DEF StoreDelete, GoneWith
<1>2. NoData \in DataType /\ NoSidecar \in SidecarType
  BY SumOfNothing DEF NoData, DataType, NoSidecar, SidecarType
<1> QED
  BY <1>1, <1>2 DEF Loses, StoreTypes

(* ---- steps ---- *)

ImportOK ==
  /\ import \in ImportType
  /\ import.state # "none" => import.dir \in StoreDirs /\ import.sid \in Sids

\* The key of the main transcript that is imported.
MainKey == Key("name", import.dir, import.sid)

LEMMA ImportKeys ==
  ASSUME ImportOK, import.state # "none"
  PROVE  /\ ImportKey \in Keys /\ (ImportKey.sub <=> import.file # "main")
         /\ MainKey = [ImportKey EXCEPT !.sub = FALSE] /\ MainKey \in Keys /\ ~MainKey.sub
         /\ import.file = "main" => ImportKey = MainKey
<1>1. import.dir \in StoreDirs /\ import.sid \in Sids /\ import.file \in {"main", "agent"}
  BY DEF ImportOK, ImportType
<1> DEFINE key == Key("name", import.dir, import.sid)
<1>2. key \in Keys /\ ~key.sub
  BY <1>1, KeyTypes
<1>3. key = [form |-> "name", dir |-> import.dir, sid |-> import.sid, sub |-> FALSE]
  BY DEF Key
<1> HIDE DEF key
<1>4. ImportKey = [form |-> "name", dir |-> import.dir, sid |-> import.sid, sub |-> import.file # "main"]
  <2>1. ImportKey = [key EXCEPT !.sub = import.file # "main"]
    BY DEF ImportKey, key
  <2> QED BY <1>3, <2>1
<1>6. ImportKey \in Keys
  BY <1>1, <1>4 DEF Keys
<1>5. MainKey = [ImportKey EXCEPT !.sub = FALSE]
  <2> DEFINE k == ImportKey
             m == [k EXCEPT !.sub = FALSE]
  <2>1. k \in Keys /\ k.form = "name" /\ k.dir = import.dir /\ k.sid = import.sid
    BY <1>4, <1>6
  <2> HIDE DEF k
  <2>2. m \in Keys /\ m.form = "name" /\ m.dir = import.dir /\ m.sid = import.sid /\ ~m.sub
    BY <2>1 DEF Keys
  <2> HIDE DEF m
  <2>3. m = MainKey
    BY <2>2, KeyTypes DEF MainKey
  <2> QED BY <2>3 DEF k, m
<1>7. MainKey = key
  BY DEF MainKey, key
<1> QED
  BY <1>2, <1>3, <1>4, <1>5, <1>6, <1>7 DEF key

LEMMA SourceType ==
  ASSUME ImportOK, files \in [Dirs -> [Sids -> FileType]], import.state # "none"
  PROVE  Source \in Seq(LineType)
<1>1. import.dir \in Dirs /\ import.sid \in Sids /\ import.lines \in Seq(LineType)
  BY SessionsAssumption DEF ImportOK, ImportType
<1>2. files[import.dir][import.sid] \in FileType
  BY <1>1
<1>3. Lines(import.dir, import.sid) \in Seq(LineType) /\ files[import.dir][import.sid].agent \in Seq(LineType)
  BY <1>2 DEF Lines, FileType
<1> QED
  BY <1>1, <1>3 DEF Source

\* A frozen import is the same import with the lines its file holds.
SameImport(new) ==
  /\ new.state = import.state /\ new.dir = import.dir /\ new.sid = import.sid
  /\ new.agents = import.agents /\ new.file = import.file /\ new.pos = import.pos
  /\ new.total = import.total /\ new.appended = import.appended /\ new.wanted = import.wanted

LEMMA FrozenIs ==
  ASSUME ImportOK, files \in [Dirs -> [Sids -> FileType]]
  PROVE  /\ Frozen \in ImportType /\ SameImport(Frozen)
         /\ Importing => Frozen.frozen /\ Frozen.lines = Source
         /\ ~Importing => Frozen = import
<1>1. import \in ImportType
  BY DEF ImportOK
<1>2. CASE Importing
  <2>1. Source \in Seq(LineType)
    BY <1>2, SourceType DEF Importing
  <2> DEFINE once == [import EXCEPT !.frozen = TRUE]
             twice == [once EXCEPT !.lines = Source]
  <2>2. once \in ImportType /\ SameImport(once) /\ once.frozen
    BY <1>1 DEF ImportType, SameImport
  <2> HIDE DEF once
  <2>3. twice \in ImportType /\ SameImport(twice) /\ twice.frozen /\ twice.lines = Source
    BY <2>1, <2>2 DEF ImportType, SameImport
  <2>4. Frozen = twice
    BY <1>2 DEF Frozen, once
  <2> QED BY <1>2, <2>3, <2>4
<1>3. CASE ~Importing
  BY <1>1, <1>3 DEF Frozen, SameImport
<1> QED
  BY <1>2, <1>3

\* The next batch is the next lines of the file.
LEMMA BatchIs ==
  ASSUME NEW source \in Seq(LineType), Source = source, NEW pos \in Nat, pos < Len(source)
  PROVE  /\ Batch(pos) \in Seq(LineType) /\ Len(Batch(pos)) >= 1 /\ pos + Len(Batch(pos)) <= Len(source)
         /\ Len(Batch(pos)) < BatchSize => pos + Len(Batch(pos)) = Len(source)
         /\ \A i \in 1..Len(Batch(pos)) : Batch(pos)[i] = source[pos + i]
<1> DEFINE last == Min({pos + BatchSize, Len(source)})
<1>1. BatchSize \in Nat /\ BatchSize >= 1 /\ Len(source) \in Nat
  BY SessionsAssumption
<1>2. last = IF pos + BatchSize <= Len(source) THEN pos + BatchSize ELSE Len(source)
  <2> DEFINE a == pos + BatchSize
             b == Len(source)
  <2>1. a \in Nat /\ b \in Nat
    BY <1>1
  <2> HIDE DEF a, b
  <2>2. Min({a, b}) = IF a <= b THEN a ELSE b
    BY <2>1 DEF Min
  <2> QED BY <2>2 DEF a, b
<1> HIDE DEF last
<1>3. last \in Nat /\ pos + 1 <= last /\ last <= Len(source)
  BY <1>1, <1>2
<1>4. Batch(pos) = SubSeq(source, pos + 1, last)
  BY DEF Batch, last
<1>5. \A i \in (pos + 1)..last : source[i] \in LineType
  BY <1>1, <1>3
<1>6. /\ Batch(pos) \in Seq(LineType) /\ Len(Batch(pos)) = last - (pos + 1) + 1
      /\ \A i \in 1..(last - (pos + 1) + 1) : Batch(pos)[i] = source[pos + 1 + i - 1]
  BY <1>3, <1>4, <1>5, SubSeqProperties
<1>7. last - (pos + 1) + 1 = last - pos /\ \A i \in 1..(last - pos) : pos + 1 + i - 1 = pos + i
  BY <1>3
<1> QED
  BY <1>1, <1>2, <1>3, <1>6, <1>7

FileStep ==
  \/ UNCHANGED files
  \/ /\ Tick
     /\ \E d \in Dirs, s \in Sids : \E f \in FileType :
           Rewritten(d, s, f) /\ f.mtime \in {0, files[d][s].mtime, Now}
StoreStep ==
  \/ UNCHANGED <<data, summaries>>
  \/ Tick /\ \E key \in Keys : \E entries \in Seq(LineType) : Gains(key, entries)
  \/ Tick /\ \E key \in Keys : Loses(key)

\* What every action does to the files, the store, the import and the rest.
Sound == TypeOK' /\ FileStep /\ StoreStep /\ clock' \in {clock, Now}

LEMMA TypeParts ==
  TypeOK <=> /\ files \in [Dirs -> [Sids -> FileType]] /\ StoreTypes /\ ImportOK /\ clock \in Nat
             /\ renamed \in [sid : Sids \cup {NoDir}, dir : Everywhere, at : Everywhere, title : Nat]
             /\ calls \in [files : Nat, store : Nat]
  BY DEF TypeOK, StoreTypes, ImportOK

RestOK ==
  /\ clock' \in {clock, Now}
  /\ renamed' \in [sid : Sids \cup {NoDir}, dir : Everywhere, at : Everywhere, title : Nat]
  /\ calls' \in [files : Nat, store : Nat]

\* A step is sound if its parts are.
LEMMA SoundParts ==
  ASSUME TypeOK, FileStep, StoreStep, StoreTypes', ImportOK', RestOK
  PROVE  Sound
<1>1. files \in [Dirs -> [Sids -> FileType]] /\ clock \in Nat
  BY TypeParts
<1>2. clock' \in Nat
  BY <1>1 DEF RestOK, Now
<1>3. files' \in [Dirs -> [Sids -> FileType]]
  <2>1. CASE UNCHANGED files
    BY <1>1, <2>1
  <2>2. CASE \E d \in Dirs, s \in Sids : \E f \in FileType : Rewritten(d, s, f)
    BY <1>1, <2>2, RewrittenIs
  <2> QED BY <2>1, <2>2 DEF FileStep
<1> QED
  BY <1>2, <1>3 DEF Sound, RestOK, TypeOK, StoreTypes, ImportOK

LEMMA CallsCount ==
  ASSUME TypeOK
  PROVE  /\ CallsFiles \/ CallsStore => calls' \in [files : Nat, store : Nat]
         /\ CallsOther => calls' \in [files : Nat, store : Nat]
                          /\ renamed' \in [sid : Sids \cup {NoDir}, dir : Everywhere, at : Everywhere, title : Nat]
         /\ CallsStore => renamed' = renamed
<1>1. calls \in [files : Nat, store : Nat]
  BY DEF TypeOK
<1>2. CallsFiles \/ CallsStore => calls' \in [files : Nat, store : Nat]
  BY <1>1 DEF CallsFiles, CallsStore
<1>3. NoRename \in [sid : Sids \cup {NoDir}, dir : Everywhere, at : Everywhere, title : Nat]
  BY DEF NoRename, Everywhere
<1> QED
  BY <1>2, <1>3 DEF CallsOther, CallsStore

LEMMA Kept ==
  /\ UNCHANGED <<data, summaries>> => StoreStep /\ (StoreTypes => StoreTypes')
  /\ UNCHANGED import => (ImportOK => ImportOK')
  /\ UNCHANGED files => FileStep
  BY DEF StoreStep, StoreTypes, ImportOK, FileStep

LEMMA GainsStep ==
  ASSUME TypeOK, Tick, NEW key \in Keys, NEW entries \in Seq(LineType), StoreAppend(key, entries)
  PROVE  StoreStep /\ StoreTypes'
<1>1. StoreTypes /\ clock \in Nat
  BY TypeParts
<1> QED
  BY <1>1, StoreAppendIs DEF StoreStep

LEMMA CliWritesSound == TypeOK /\ CliWrites => Sound
<1> SUFFICES ASSUME TypeOK, CliWrites PROVE Sound
  OBVIOUS
<1>1. Tick /\ CallsOther /\ UNCHANGED import
  BY DEF CliWrites
<1>2. PICK d \in Dirs, s \in Sids, kind \in Written :
        /\ AppendTo(d, s, Line(kind, FALSE))
        /\ \/ d \in StoreDirs /\ StoreAppend(Key("name", d, s), <<Line(kind, FALSE)>>)
           \/ UNCHANGED <<data, summaries>>
  BY DEF CliWrites
<1> DEFINE line == Line(kind, FALSE)
<1>3. line \in LineType
  <2>1. kind \in Kinds /\ clock \in Nat
    BY SessionsAssumption, TypeParts
  <2> QED BY <2>1, LineTypes
<1> HIDE DEF line
<1>4. FileStep
  <2>1. files \in [Dirs -> [Sids -> FileType]] /\ clock \in Nat /\ AppendTo(d, s, line)
    BY <1>2, TypeParts DEF line
  <2>2. \E f \in FileType : Rewritten(d, s, f) /\ f.lines = Append(Lines(d, s), line) /\ f.mtime = Now
    BY <1>3, <2>1, AppendToRewrites
  <2> QED BY <1>1, <2>2 DEF FileStep
<1>5. StoreStep /\ StoreTypes'
  <2>1. CASE d \in StoreDirs /\ StoreAppend(Key("name", d, s), <<line>>)
    <3>1. Key("name", d, s) \in Keys /\ <<line>> \in Seq(LineType)
      BY <1>3, <2>1, KeyTypes
    <3> QED BY <1>1, <2>1, <3>1, GainsStep
  <2>2. CASE UNCHANGED <<data, summaries>>
    BY <2>2, TypeParts, Kept
  <2> QED BY <1>2, <2>1, <2>2 DEF line
<1>6. ImportOK'
  BY <1>1, TypeParts, Kept
<1>7. RestOK
  BY <1>1, CallsCount DEF RestOK, Tick
<1> QED
  BY <1>4, <1>5, <1>6, <1>7, SoundParts

LEMMA CliWritesAgentSound == TypeOK /\ CliWritesAgent => Sound
<1> SUFFICES ASSUME TypeOK, CliWritesAgent PROVE Sound
  OBVIOUS
<1>1. Tick /\ CallsOther /\ UNCHANGED <<data, summaries>> /\ UNCHANGED import
  BY DEF CliWritesAgent
<1>2. PICK d \in Dirs, s \in Sids :
        files' = [files EXCEPT ![d][s].agent = Append(@, Line("prompt", TRUE))]
  BY DEF CliWritesAgent
<1> DEFINE line == Line("prompt", TRUE)
           f == files[d][s]
<1>3. line \in LineType /\ f \in FileType
  <2>1. "prompt" \in Kinds /\ clock \in Nat /\ TRUE \in BOOLEAN
    BY TypeParts DEF Kinds
  <2>2. f \in FileType
    BY TypeParts
  <2> QED BY <2>1, <2>2, LineTypes
<1> DEFINE new == [f EXCEPT !.agent = Append(@, line)]
<1>4. Rewritten(d, s, new)
  BY <1>2 DEF Rewritten
<1> HIDE DEF line, f
<1>5. new \in FileType /\ new.mtime = f.mtime
  <2>1. Append(f.agent, line) \in Seq(LineType)
    BY <1>3, AppendType DEF FileType
  <2> QED BY <1>3, <2>1 DEF FileType
<1>6. FileStep
  <2> HIDE DEF new
  <2> QED BY <1>1, <1>4, <1>5 DEF FileStep, f
<1>7. ImportOK' /\ StoreStep /\ StoreTypes'
  BY <1>1, TypeParts, Kept
<1>8. RestOK
  BY <1>1, CallsCount DEF RestOK, Tick
<1> QED
  BY <1>6, <1>7, <1>8, SoundParts

LEMMA AppendsSound ==
  ASSUME TypeOK, NEW s \in Sids, NEW dir \in Everywhere, NEW refusing, NEW line \in LineType,
         Appends(s, dir, refusing, line),
         renamed' \in [sid : Sids \cup {NoDir}, dir : Everywhere, at : Everywhere, title : Nat],
         calls' \in [files : Nat, store : Nat]
  PROVE  Sound
<1> DEFINE d == Opened(s, dir, refusing)
<1>1. d \in Dirs
  BY OpenedIs DEF Appends
<1> HIDE DEF d
<1>2. Tick /\ AppendTo(d, s, line) /\ UNCHANGED <<data, summaries>> /\ UNCHANGED import
  BY DEF Appends, d
<1>3. FileStep
  <2>1. files \in [Dirs -> [Sids -> FileType]] /\ clock \in Nat
    BY TypeParts
  <2>2. \E f \in FileType : Rewritten(d, s, f) /\ f.lines = Append(Lines(d, s), line) /\ f.mtime = Now
    BY <1>1, <1>2, <2>1, AppendToRewrites
  <2> QED BY <1>1, <1>2, <2>2 DEF FileStep
<1>4. ImportOK' /\ StoreStep /\ StoreTypes'
  BY <1>2, TypeParts, Kept
<1>5. RestOK
  BY <1>2 DEF RestOK, Tick
<1> QED
  BY <1>3, <1>4, <1>5, SoundParts

\* The three calls that append a line.
Mutates(s, dir, refusing) ==
  RenameSession(s, dir, refusing) \/ TagSession(s, dir, refusing) \/ ClearTag(s, dir, refusing)

LEMMA MutationsSound ==
  ASSUME TypeOK, NEW s \in Sids, NEW dir \in Everywhere, NEW refusing, Mutates(s, dir, refusing)
  PROVE  Sound
<1>1. Now \in Nat /\ None \in Nat
  BY TypeParts DEF Now
<1>2. TitleLine(Now) \in LineType /\ TagLine(Now) \in LineType /\ TagLine(None) \in LineType
  BY <1>1, LineTypes
<1>3. CASE RenameSession(s, dir, refusing)
  <2>1. /\ CallsFiles
        /\ renamed' = [sid |-> s, dir |-> dir, at |-> Opened(s, dir, refusing), title |-> Now]
        /\ Appends(s, dir, refusing, TitleLine(Now))
    BY <1>3 DEF RenameSession
  <2>2. renamed' \in [sid : Sids \cup {NoDir}, dir : Everywhere, at : Everywhere, title : Nat]
    BY <1>1, <2>1, OpenedIs
  <2> QED BY <1>2, <2>1, <2>2, CallsCount, AppendsSound
<1>4. CASE TagSession(s, dir, refusing)
  <2>1. CallsOther /\ Appends(s, dir, refusing, TagLine(Now))
    BY <1>4 DEF TagSession
  <2> QED BY <1>2, <2>1, CallsCount, AppendsSound
<1>5. CASE ClearTag(s, dir, refusing)
  <2>1. CallsOther /\ Appends(s, dir, refusing, TagLine(None))
    BY <1>5 DEF ClearTag
  <2> QED BY <1>2, <2>1, CallsCount, AppendsSound
<1> QED
  BY <1>3, <1>4, <1>5 DEF Mutates

LEMMA DeleteSessionSound ==
  ASSUME TypeOK, NEW s \in Sids, NEW dir \in Everywhere, DeleteSession(s, dir)
  PROVE  Sound
<1> DEFINE d == Found(s, dir)
<1>1. d \in Dirs
  BY FoundIs DEF DeleteSession
<1>2. /\ Tick /\ CallsOther /\ UNCHANGED <<data, summaries>>
      /\ files' = [files EXCEPT ![d][s] = NoFile]
      /\ import' = IF import.dir = d /\ import.sid = s THEN Frozen ELSE import
  BY DEF DeleteSession
<1> HIDE DEF d
<1>3. FileStep
  <2>1. NoFile \in FileType /\ NoFile.mtime = 0 /\ Rewritten(d, s, NoFile)
    BY <1>2 DEF NoFile, FileType, Rewritten
  <2> QED BY <1>1, <1>2, <2>1 DEF FileStep
<1>4. ImportOK'
  <2>1. Frozen \in ImportType /\ SameImport(Frozen)
    BY TypeParts, FrozenIs
  <2>2. CASE import' = Frozen
    BY <2>1, <2>2, TypeParts DEF ImportOK, SameImport
  <2>3. CASE import' = import
    BY <2>3, TypeParts, Kept
  <2> QED BY <1>2, <2>2, <2>3
<1>5. StoreStep /\ StoreTypes'
  BY <1>2, TypeParts, Kept
<1>6. RestOK
  BY <1>2, CallsCount DEF RestOK, Tick
<1> QED
  BY <1>3, <1>4, <1>5, <1>6, SoundParts

\* What a fork writes.
Fork(lines) == [lines |-> Append(Copied(lines), TitleLine(ForkTitle(lines))), mtime |-> Now, agent |-> <<>>]

LEMMA ForkIs ==
  ASSUME TypeOK, NEW s \in Sids, NEW t \in Sids, NEW dir \in Everywhere, ForkSession(s, t, dir)
  PROVE  /\ Found(s, dir) \in Dirs /\ Lines(Found(s, dir), s) \in Seq(LineType)
         /\ Fork(Lines(Found(s, dir), s)) \in FileType
         /\ Rewritten(Found(s, dir), t, Fork(Lines(Found(s, dir), s)))
<1> DEFINE d == Found(s, dir)
           lines == Lines(d, s)
<1>1. d \in Dirs
  BY FoundIs DEF ForkSession
<1>2. files' = [files EXCEPT ![d][t] = [[NoFile EXCEPT
                    !.lines = Append(Copied(lines), TitleLine(ForkTitle(lines)))] EXCEPT !.mtime = Now]]
  BY DEF ForkSession
<1> HIDE DEF d
<1>3. lines \in Seq(LineType)
  <2>1. files[d][s] \in FileType
    BY <1>1, TypeParts
  <2> QED BY <2>1 DEF FileType, Lines
<1> HIDE DEF lines
<1>4. Append(Copied(lines), TitleLine(ForkTitle(lines))) \in Seq(LineType)
  <2>1. TitleLine(ForkTitle(lines)) \in LineType /\ Copied(lines) \in Seq(LineType)
    BY <1>3, LineTypes, RecentTypes, CopiedType
  <2> QED BY <2>1, AppendType
<1>5. Now \in Int
  BY TypeParts DEF Now
<1>6. Fork(lines) \in FileType
  BY <1>4, <1>5 DEF Fork, FileType
<1>7. Rewritten(d, t, Fork(lines))
  <2> DEFINE new == Append(Copied(lines), TitleLine(ForkTitle(lines)))
             q == [NoFile EXCEPT !.lines = new]
  <2>1. q = [lines |-> new, mtime |-> 0, agent |-> <<>>]
    <3> HIDE DEF new
    <3> QED BY DEF NoFile
  <2>2. files' = [files EXCEPT ![d][t] = [q EXCEPT !.mtime = Now]]
    BY <1>2
  <2>3. Fork(lines) = [lines |-> new, mtime |-> Now, agent |-> <<>>]
    BY DEF Fork
  <2> HIDE DEF q, new
  <2>4. [q EXCEPT !.mtime = Now] = Fork(lines)
    BY <2>1, <2>3
  <2> QED BY <2>2, <2>4 DEF Rewritten
<1> QED
  BY <1>1, <1>3, <1>6, <1>7 DEF d, lines

LEMMA ForkSessionSound ==
  ASSUME TypeOK, NEW s \in Sids, NEW t \in Sids, NEW dir \in Everywhere, ForkSession(s, t, dir)
  PROVE  Sound
<1> DEFINE d == Found(s, dir)
           new == Fork(Lines(d, s))
<1>1. d \in Dirs /\ new \in FileType /\ Rewritten(d, t, new)
  BY ForkIs
<1>2. new.mtime = Now
  BY DEF Fork
<1>3. Tick /\ CallsOther /\ UNCHANGED <<data, summaries>> /\ UNCHANGED import
  BY DEF ForkSession
<1> HIDE DEF d, new
<1>4. FileStep
  BY <1>1, <1>2, <1>3 DEF FileStep
<1>5. ImportOK' /\ StoreStep /\ StoreTypes'
  BY <1>3, TypeParts, Kept
<1>6. RestOK
  BY <1>3, CallsCount DEF RestOK, Tick
<1> QED
  BY <1>4, <1>5, <1>6, SoundParts

\* A call that appends to one key of the store, by path, and changes nothing else.
LEMMA ByPathSound ==
  ASSUME TypeOK, NEW key \in Keys, NEW entries \in Seq(LineType), Tick, CallsStore,
         StoreAppend(key, entries), UNCHANGED <<files, import>>
  PROVE  Sound
<1>1. StoreStep /\ StoreTypes'
  BY GainsStep
<1>2. ImportOK' /\ FileStep
  BY TypeParts, Kept
<1>3. RestOK
  BY CallsCount, TypeParts DEF RestOK, Tick
<1> QED
  BY <1>1, <1>2, <1>3, SoundParts

LEMMA AppendsViaStoreSound ==
  ASSUME TypeOK, NEW s \in Sids, NEW d \in StoreDirs, NEW line \in {TitleLine(Now), TagLine(Now), TagLine(None)},
         AppendsViaStore(s, d, line)
  PROVE  Sound
<1>1. Now \in Nat /\ None \in Nat
  BY TypeParts DEF Now
<1>2. <<line>> \in Seq(LineType)
  <2>1. line \in LineType
    BY <1>1, LineTypes
  <2> QED BY <2>1
<1>3. Key("path", d, s) \in Keys
  BY KeyTypes
<1>4. Tick /\ CallsStore /\ StoreAppend(Key("path", d, s), <<line>>) /\ UNCHANGED <<files, import>>
  BY DEF AppendsViaStore
<1> QED
  BY <1>2, <1>3, <1>4, ByPathSound

LEMMA ForkSessionViaStoreSound ==
  ASSUME TypeOK, NEW s \in Sids, NEW t \in Sids, NEW d \in StoreDirs, ForkSessionViaStore(s, t, d)
  PROVE  Sound
<1> DEFINE entries == Load(Key("path", d, s))
           new == Append(Copied(entries), TitleLine(StoreForkTitle(entries)))
<1>1. Key("path", d, s) \in Keys /\ Key("path", d, t) \in Keys
  BY KeyTypes
<1>2. entries \in Seq(LineType)
  <2>1. data[Key("path", d, s)] \in DataType
    BY <1>1, TypeParts DEF StoreTypes
  <2> QED BY <2>1 DEF Load, DataType
<1>3. Tick /\ CallsStore /\ StoreAppend(Key("path", d, t), new) /\ UNCHANGED <<files, import>>
  BY DEF ForkSessionViaStore
<1> HIDE DEF entries
<1>4. new \in Seq(LineType)
  <2>1. TitleLine(StoreForkTitle(entries)) \in LineType /\ Copied(entries) \in Seq(LineType)
    BY <1>2, LineTypes, RecentTypes, CopiedType
  <2> QED BY <2>1, AppendType
<1> HIDE DEF new
<1> QED
  BY <1>1, <1>3, <1>4, ByPathSound

LEMMA HostAppendsSound ==
  ASSUME TypeOK, NEW key \in Keys, NEW kind \in Written, NEW side \in BOOLEAN, HostAppends(key, kind, side)
  PROVE  Sound
<1>1. <<Line(kind, side)>> \in Seq(LineType)
  <2>1. kind \in Kinds /\ clock \in Nat
    BY SessionsAssumption, TypeParts
  <2>2. Line(kind, side) \in LineType
    BY <2>1, LineTypes
  <2> QED BY <2>2
<1>2. Tick /\ CallsStore /\ StoreAppend(key, <<Line(kind, side)>>) /\ UNCHANGED <<files, import>>
  BY DEF HostAppends
<1> QED
  BY <1>1, <1>2, ByPathSound

LEMMA DeletesFromStoreSound ==
  ASSUME TypeOK, NEW key \in Keys, DeletesFromStore(key)
  PROVE  Sound
<1>1. /\ Tick /\ CallsBy(key.form) /\ StoreDelete(key) /\ UNCHANGED files
      /\ import' = IF key = [ImportKey EXCEPT !.sub = FALSE] THEN Forgotten ELSE import
  BY DEF DeletesFromStore
<1>2. StoreStep /\ StoreTypes'
  BY <1>1, TypeParts, StoreDeleteIs DEF StoreStep
<1>3. ImportOK'
  <2>1. <<>> \in Seq(LineType) /\ import \in ImportType
    BY TypeParts DEF ImportOK
  <2>2. Forgotten \in ImportType /\ Forgotten.state = import.state /\ Forgotten.dir = import.dir
        /\ Forgotten.sid = import.sid
    BY <2>1 DEF Forgotten, ImportType
  <2>3. CASE import' = Forgotten
    BY <2>2, <2>3, TypeParts DEF ImportOK
  <2>4. CASE import' = import
    BY <2>4, TypeParts, Kept
  <2> QED BY <1>1, <2>3, <2>4
<1>4. RestOK
  <2>1. calls' \in [files : Nat, store : Nat]
        /\ renamed' \in [sid : Sids \cup {NoDir}, dir : Everywhere, at : Everywhere, title : Nat]
    BY <1>1, CallsCount, TypeParts DEF CallsBy
  <2> QED BY <1>1, <2>1 DEF RestOK, Tick
<1>5. FileStep
  BY <1>1, Kept
<1> QED
  BY <1>2, <1>3, <1>4, <1>5, SoundParts

LEMMA NoImportType == NoImport \in ImportType /\ NoImport.state = "none"
  BY DEF NoImport, ImportType, Everywhere

\* How the call that begins is recorded.
Begun(d, s, agents) ==
  [NoImport EXCEPT !.state = "on", !.dir = d, !.sid = s, !.agents = agents, !.wanted = Lines(d, s)]

LEMMA BegunIs ==
  ASSUME NEW d \in StoreDirs, NEW s \in Sids, NEW agents \in BOOLEAN, Lines(d, s) \in Seq(LineType)
  PROVE  /\ Begun(d, s, agents) \in ImportType
         /\ LET new == Begun(d, s, agents)
            IN /\ new.state = "on" /\ new.dir = d /\ new.sid = s /\ new.wanted = Lines(d, s)
               /\ new.file = "main" /\ ~new.frozen /\ new.pos = 0 /\ new.total = 0 /\ new.appended = 0
<1> DEFINE ls == Lines(d, s)
           a == [NoImport EXCEPT !.state = "on"]
           b == [a EXCEPT !.dir = d]
           c == [b EXCEPT !.sid = s]
           e == [c EXCEPT !.agents = agents]
           f == [e EXCEPT !.wanted = ls]
<1> HIDE DEF ls
<1>1. d \in Everywhere
  BY SessionsAssumption DEF Everywhere
<1>2. a \in ImportType /\ a.state = "on" /\ a.file = "main" /\ ~a.frozen /\ a.pos = 0 /\ a.total = 0
      /\ a.appended = 0
  BY NoImportType DEF ImportType, NoImport
<1> HIDE DEF a
<1>3. b \in ImportType /\ b.state = "on" /\ b.file = "main" /\ ~b.frozen /\ b.pos = 0 /\ b.total = 0
      /\ b.appended = 0 /\ b.dir = d
  BY <1>1, <1>2 DEF ImportType
<1> HIDE DEF b
<1>4. c \in ImportType /\ c.state = "on" /\ c.file = "main" /\ ~c.frozen /\ c.pos = 0 /\ c.total = 0
      /\ c.appended = 0 /\ c.dir = d /\ c.sid = s
  BY <1>3 DEF ImportType
<1> HIDE DEF c
<1>5. e \in ImportType /\ e.state = "on" /\ e.file = "main" /\ ~e.frozen /\ e.pos = 0 /\ e.total = 0
      /\ e.appended = 0 /\ e.dir = d /\ e.sid = s
  BY <1>4 DEF ImportType
<1> HIDE DEF e
<1>6. f \in ImportType /\ f.state = "on" /\ f.file = "main" /\ ~f.frozen /\ f.pos = 0 /\ f.total = 0
      /\ f.appended = 0 /\ f.dir = d /\ f.sid = s /\ f.wanted = ls
  <2>1. ls \in Seq(LineType)
    BY DEF ls
  <2> QED BY <1>5, <2>1 DEF ImportType
<1>7. Begun(d, s, agents) = f
  BY DEF Begun, a, b, c, e, ls
<1> QED
  BY <1>6, <1>7 DEF ls

LEMMA ImportStartsSound ==
  ASSUME TypeOK, NEW s \in Sids, NEW dir \in Everywhere, ImportStarts(s, dir)
  PROVE  Sound
<1> DEFINE d == Found(s, dir)
<1>1. d \in StoreDirs /\ d \in Dirs /\ CallsOther /\ UNCHANGED <<files, data, summaries, clock>>
  BY SessionsAssumption DEF ImportStarts
<1>2. PICK agents \in BOOLEAN : import' = Begun(d, s, agents)
  BY DEF ImportStarts, Begun
<1> HIDE DEF d
<1>3. ImportOK'
  <2>1. Lines(d, s) \in Seq(LineType)
    <3>1. files[d][s] \in FileType
      BY <1>1, TypeParts
    <3> QED BY <3>1 DEF FileType, Lines
  <2>2. /\ Begun(d, s, agents) \in ImportType
        /\ Begun(d, s, agents).dir = d /\ Begun(d, s, agents).sid = s
    BY <1>1, <2>1, BegunIs
  <2> QED BY <1>1, <1>2, <2>2 DEF ImportOK
<1>4. FileStep /\ StoreStep /\ StoreTypes'
  BY <1>1, TypeParts, Kept
<1>5. RestOK
  BY <1>1, CallsCount DEF RestOK
<1> QED
  BY <1>3, <1>4, <1>5, SoundParts

\* The import, a batch of n entries later.
BatchLater(new, n) ==
  /\ new \in ImportType
  /\ new.state = import.state /\ new.dir = import.dir /\ new.sid = import.sid
  /\ new.file = import.file /\ new.wanted = import.wanted
  /\ new.pos = import.pos + n /\ new.appended = import.appended + n
  /\ new.total = IF import.file = "main" THEN import.total + n ELSE import.total
  /\ IF n < BatchSize THEN new.frozen /\ new.lines = Source
     ELSE new.frozen = import.frozen /\ new.lines = import.lines

LEMMA ImportBatchIs ==
  ASSUME TypeOK, ImportBatch
  PROVE  /\ Source \in Seq(LineType) /\ Batch(import.pos) \in Seq(LineType) /\ import.pos \in Nat
         /\ Len(Batch(import.pos)) >= 1 /\ import.pos + Len(Batch(import.pos)) <= Len(Source)
         /\ Len(Batch(import.pos)) < BatchSize => import.pos + Len(Batch(import.pos)) = Len(Source)
         /\ \A i \in 1..Len(Batch(import.pos)) : Batch(import.pos)[i] = Source[import.pos + i]
         /\ BatchLater(import', Len(Batch(import.pos)))
<1> DEFINE n == Len(Batch(import.pos))
<1>1. import \in ImportType /\ Importing /\ import.state # "none" /\ import.pos < Len(Source)
  BY TypeParts DEF ImportBatch, Importing, ImportOK
<1>2. Source \in Seq(LineType) /\ import.pos \in Nat /\ import.total \in Nat /\ import.appended \in Nat
  <2>1. Source \in Seq(LineType)
    BY <1>1, TypeParts, SourceType
  <2> QED BY <1>1, <2>1 DEF ImportType
<1>3. /\ Batch(import.pos) \in Seq(LineType) /\ n >= 1 /\ import.pos + n <= Len(Source)
      /\ n < BatchSize => import.pos + n = Len(Source)
      /\ \A i \in 1..n : Batch(import.pos)[i] = Source[import.pos + i]
  <2>1. PICK source \in Seq(LineType) : Source = source
    BY <1>2
  <2>2. import.pos < Len(source)
    BY <1>1, <2>1
  <2> QED BY <1>2, <2>1, <2>2, BatchIs
<1>4. n \in Nat
  BY <1>3
<1> DEFINE was == IF n < BatchSize THEN Frozen ELSE import
           a == [was EXCEPT !.pos = @ + n]
           b == [a EXCEPT !.appended = @ + n]
           c == [b EXCEPT !.total = IF import.file = "main" THEN @ + n ELSE @]
<1>5. import' = c
  BY DEF ImportBatch
<1> HIDE DEF n
<1>6. /\ was \in ImportType /\ SameImport(was)
      /\ IF n < BatchSize THEN was.frozen /\ was.lines = Source
         ELSE was.frozen = import.frozen /\ was.lines = import.lines
  <2>1. Frozen \in ImportType /\ SameImport(Frozen) /\ Frozen.frozen /\ Frozen.lines = Source
    BY <1>1, TypeParts, FrozenIs
  <2>2. SameImport(import)
    BY DEF SameImport
  <2> QED BY <1>1, <2>1, <2>2
<1> HIDE DEF was
<1>7. /\ a \in ImportType /\ a.pos = was.pos + n /\ a.state = was.state /\ a.dir = was.dir /\ a.sid = was.sid
      /\ a.file = was.file /\ a.wanted = was.wanted /\ a.appended = was.appended /\ a.total = was.total
      /\ a.frozen = was.frozen /\ a.lines = was.lines
  <2>1. was.pos + n \in Nat
    BY <1>4, <1>6 DEF ImportType
  <2> QED BY <1>6, <2>1 DEF ImportType
<1> HIDE DEF a
<1>8. /\ b \in ImportType /\ b.pos = was.pos + n /\ b.state = was.state /\ b.dir = was.dir /\ b.sid = was.sid
      /\ b.file = was.file /\ b.wanted = was.wanted /\ b.appended = was.appended + n /\ b.total = was.total
      /\ b.frozen = was.frozen /\ b.lines = was.lines
  <2>1. a.appended + n \in Nat
    BY <1>4, <1>7 DEF ImportType
  <2> QED BY <1>7, <2>1 DEF ImportType
<1> HIDE DEF b
<1>9. /\ c \in ImportType /\ c.pos = was.pos + n /\ c.state = was.state /\ c.dir = was.dir /\ c.sid = was.sid
      /\ c.file = was.file /\ c.wanted = was.wanted /\ c.appended = was.appended + n
      /\ c.total = (IF import.file = "main" THEN was.total + n ELSE was.total)
      /\ c.frozen = was.frozen /\ c.lines = was.lines
  <2>1. b.total + n \in Nat /\ b.total \in Nat
    BY <1>4, <1>8 DEF ImportType
  <2> QED BY <1>8, <2>1 DEF ImportType
<1> HIDE DEF c
<1>10. BatchLater(c, n)
  BY <1>6, <1>9 DEF BatchLater, SameImport
<1> QED
  BY <1>2, <1>3, <1>5, <1>10 DEF n

LEMMA ImportBatchSound == TypeOK /\ ImportBatch => Sound
<1> SUFFICES ASSUME TypeOK, ImportBatch PROVE Sound
  OBVIOUS
<1>1. /\ Tick /\ StoreAppend(ImportKey, Batch(import.pos)) /\ UNCHANGED <<files, renamed, calls>>
      /\ import.state # "none" /\ ImportOK
  BY TypeParts DEF ImportBatch, Importing
<1>2. Batch(import.pos) \in Seq(LineType) /\ BatchLater(import', Len(Batch(import.pos)))
  BY ImportBatchIs
<1>3. ImportKey \in Keys
  BY <1>1, ImportKeys
<1>4. StoreStep /\ StoreTypes'
  BY <1>1, <1>2, <1>3, GainsStep
<1>5. ImportOK'
  BY <1>1, <1>2 DEF ImportOK, BatchLater
<1>6. FileStep /\ RestOK
  BY <1>1, TypeParts, Kept DEF RestOK, Tick
<1> QED
  BY <1>4, <1>5, <1>6, SoundParts

LEMMA ImportFailsSound == TypeOK /\ ImportFails => Sound
<1> SUFFICES ASSUME TypeOK, ImportFails PROVE Sound
  OBVIOUS
<1>1. /\ import' = [import EXCEPT !.state = "failed"] /\ Importing
      /\ UNCHANGED files /\ UNCHANGED <<data, summaries>> /\ UNCHANGED <<clock, renamed, calls>>
  BY DEF ImportFails
<1>2. ImportOK'
  BY <1>1, TypeParts DEF ImportOK, ImportType, Importing
<1>3. FileStep /\ StoreStep /\ StoreTypes' /\ RestOK
  BY <1>1, TypeParts, Kept DEF RestOK
<1> QED
  BY <1>2, <1>3, SoundParts

\* The agent's transcript is begun, from its first line, or the import is done.
AgentNext ==
  /\ import'.state = "on" /\ import'.file = "agent" /\ ~import'.frozen /\ import'.pos = 0
MainWasAll == import'.state = "done" /\ import'.file = import.file

LEMMA ImportMainEndsIs ==
  ASSUME TypeOK, ImportMainEnds
  PROVE  /\ import' \in ImportType
         /\ import'.dir = import.dir /\ import'.sid = import.sid /\ import'.wanted = import.wanted
         /\ import'.total = import.total /\ import'.appended = import.appended
         /\ AgentNext \/ MainWasAll
<1>1. import \in ImportType /\ Importing
  BY TypeParts DEF ImportOK, ImportMainEnds
<1> DEFINE a == [import EXCEPT !.file = "agent"]
           b == [a EXCEPT !.frozen = FALSE]
           c == [b EXCEPT !.pos = 0]
<1>2. import' = c \/ import' = [import EXCEPT !.state = "done"]
  BY DEF ImportMainEnds
<1>3. CASE import' = c
  <2>1. a \in ImportType /\ a.state = import.state /\ a.dir = import.dir /\ a.sid = import.sid
        /\ a.wanted = import.wanted /\ a.total = import.total /\ a.appended = import.appended /\ a.file = "agent"
    BY <1>1 DEF ImportType
  <2>2. import'.state = c.state /\ import'.file = c.file /\ (import'.frozen <=> c.frozen) /\ import'.pos = c.pos
    BY <1>3
  <2> HIDE DEF a
  <2>3. b \in ImportType /\ b.state = import.state /\ b.dir = import.dir /\ b.sid = import.sid
        /\ b.wanted = import.wanted /\ b.total = import.total /\ b.appended = import.appended /\ b.file = "agent"
        /\ ~b.frozen
    BY <2>1 DEF ImportType
  <2> HIDE DEF b
  <2>4. c \in ImportType /\ c.state = import.state /\ c.dir = import.dir /\ c.sid = import.sid
        /\ c.wanted = import.wanted /\ c.total = import.total /\ c.appended = import.appended /\ c.file = "agent"
        /\ ~c.frozen /\ c.pos = 0
    BY <2>3 DEF ImportType
  <2> HIDE DEF c
  <2> QED BY <1>1, <1>3, <2>2, <2>4 DEF AgentNext, Importing
<1>4. CASE import' = [import EXCEPT !.state = "done"]
  BY <1>1, <1>4 DEF ImportType, MainWasAll
<1> QED
  BY <1>2, <1>3, <1>4

LEMMA ImportMainEndsSound == TypeOK /\ ImportMainEnds => Sound
<1> SUFFICES ASSUME TypeOK, ImportMainEnds PROVE Sound
  OBVIOUS
<1>1. /\ Importing /\ UNCHANGED files /\ UNCHANGED <<data, summaries>> /\ UNCHANGED <<clock, renamed, calls>>
  BY DEF ImportMainEnds
<1>2. import' \in ImportType /\ import'.dir = import.dir /\ import'.sid = import.sid
  BY ImportMainEndsIs
<1>3. ImportOK'
  BY <1>1, <1>2, TypeParts DEF ImportOK, Importing
<1>4. FileStep /\ StoreStep /\ StoreTypes' /\ RestOK
  BY <1>1, TypeParts, Kept DEF RestOK
<1> QED
  BY <1>3, <1>4, SoundParts

AgentMetadataLine == [Line("agent_metadata", FALSE) EXCEPT !.sorted = TRUE]

LEMMA MetadataLine == clock \in Nat => <<AgentMetadataLine>> \in Seq(LineType)
<1> SUFFICES ASSUME clock \in Nat PROVE <<AgentMetadataLine>> \in Seq(LineType)
  OBVIOUS
<1>1. "agent_metadata" \in Kinds /\ FALSE \in BOOLEAN
  BY DEF Kinds
<1> DEFINE l == Line("agent_metadata", FALSE)
<1>2. l \in LineType
  BY <1>1, LineTypes
<1> HIDE DEF l
<1>3. [l EXCEPT !.sorted = TRUE] \in LineType
  BY <1>2 DEF LineType, l
<1>4. AgentMetadataLine \in LineType
  BY <1>3 DEF AgentMetadataLine, l
<1> QED
  BY <1>4

\* How the end of the agent's transcript ends the import.
AgentGone == import'.state = "failed" /\ UNCHANGED <<data, summaries, clock>>
AgentRead == /\ import'.state = "done" /\ import'.total = import.total + import.pos
             /\ import'.appended = import.appended /\ UNCHANGED <<data, summaries, clock>>
AgentReadToo == /\ import'.state = "done" /\ import'.total = import.total + import.pos + 1
                /\ import'.appended = import.appended + 1
                /\ Tick /\ StoreAppend(ImportKey, <<AgentMetadataLine>>)

LEMMA ImportAgentEndsIs ==
  ASSUME TypeOK, ImportAgentEnds
  PROVE  /\ import' \in ImportType
         /\ import'.dir = import.dir /\ import'.sid = import.sid /\ import'.wanted = import.wanted
         /\ import'.file = "agent"
         /\ AgentGone \/ AgentRead \/ AgentReadToo
<1>1. import \in ImportType /\ import.file = "agent" /\ import.pos \in Nat /\ import.total \in Nat
      /\ import.appended \in Nat
  BY TypeParts DEF ImportOK, ImportAgentEnds, ImportType
<1> DEFINE a == [import EXCEPT !.state = "done"]
           read == [a EXCEPT !.total = @ + import.pos]
           b == [read EXCEPT !.total = @ + 1]
           c == [b EXCEPT !.appended = @ + 1]
<1>2. \/ import' = [import EXCEPT !.state = "failed"] /\ UNCHANGED <<data, summaries, clock>>
      \/ import' = read /\ UNCHANGED <<data, summaries, clock>>
      \/ import' = c /\ Tick /\ StoreAppend(ImportKey, <<AgentMetadataLine>>)
  BY DEF ImportAgentEnds, AgentMetadataLine
<1>3. CASE import' = [import EXCEPT !.state = "failed"] /\ UNCHANGED <<data, summaries, clock>>
  BY <1>1, <1>3 DEF ImportType, AgentGone
<1>4. a \in ImportType /\ a.state = "done" /\ a.dir = import.dir /\ a.sid = import.sid /\ a.file = "agent"
      /\ a.wanted = import.wanted /\ a.total = import.total /\ a.appended = import.appended
  BY <1>1 DEF ImportType
<1> HIDE DEF a
<1>5. read \in ImportType /\ read.state = "done" /\ read.dir = import.dir /\ read.sid = import.sid
      /\ read.file = "agent" /\ read.wanted = import.wanted /\ read.total = import.total + import.pos
      /\ read.appended = import.appended
  <2>1. a.total + import.pos \in Nat
    BY <1>1, <1>4
  <2> QED BY <1>4, <2>1 DEF ImportType
<1> HIDE DEF read
<1>6. CASE import' = read /\ UNCHANGED <<data, summaries, clock>>
  BY <1>5, <1>6 DEF AgentRead
<1>7. b \in ImportType /\ b.state = "done" /\ b.dir = import.dir /\ b.sid = import.sid
      /\ b.file = "agent" /\ b.wanted = import.wanted /\ b.total = import.total + import.pos + 1
      /\ b.appended = import.appended
  <2>1. read.total + 1 \in Nat
    BY <1>1, <1>5
  <2> QED BY <1>5, <2>1 DEF ImportType
<1> HIDE DEF b
<1>8. c \in ImportType /\ c.state = "done" /\ c.dir = import.dir /\ c.sid = import.sid
      /\ c.file = "agent" /\ c.wanted = import.wanted /\ c.total = import.total + import.pos + 1
      /\ c.appended = import.appended + 1
  <2>1. b.appended + 1 \in Nat
    BY <1>1, <1>7
  <2> QED BY <1>7, <2>1 DEF ImportType
<1> HIDE DEF c
<1>9. CASE import' = c /\ Tick /\ StoreAppend(ImportKey, <<AgentMetadataLine>>)
  BY <1>8, <1>9 DEF AgentReadToo
<1> QED
  BY <1>2, <1>3, <1>6, <1>9

LEMMA ImportAgentEndsSound == TypeOK /\ ImportAgentEnds => Sound
<1> SUFFICES ASSUME TypeOK, ImportAgentEnds PROVE Sound
  OBVIOUS
<1>1. /\ Importing /\ ImportOK /\ UNCHANGED files /\ UNCHANGED <<renamed, calls>>
  BY TypeParts DEF ImportAgentEnds
<1>2. /\ import' \in ImportType /\ import'.dir = import.dir /\ import'.sid = import.sid
      /\ AgentGone \/ AgentRead \/ AgentReadToo
  BY ImportAgentEndsIs
<1>3. ImportOK'
  BY <1>1, <1>2 DEF ImportOK, Importing
<1>4. StoreStep /\ StoreTypes' /\ clock' \in {clock, Now}
  <2>1. CASE AgentGone \/ AgentRead
    BY <2>1, TypeParts, Kept DEF AgentGone, AgentRead
  <2>2. CASE AgentReadToo
    <3>1. ImportKey \in Keys
      BY <1>1, ImportKeys DEF Importing
    <3>2. <<AgentMetadataLine>> \in Seq(LineType)
      BY TypeParts, MetadataLine
    <3> QED BY <2>2, <3>1, <3>2, GainsStep DEF AgentReadToo, Tick
  <2> QED BY <1>2, <2>1, <2>2
<1>5. FileStep /\ RestOK
  BY <1>1, <1>4, TypeParts, Kept DEF RestOK
<1> QED
  BY <1>3, <1>4, <1>5, SoundParts

\* Where a directory is in the order they are listed in.
Rank(d) == SelectInSeq(DirOrder, LAMBDA e : e = d)

LEMMA RankType == \A d : Rank(d) \in Nat
<1> SUFFICES ASSUME NEW d PROVE Rank(d) \in Nat
  OBVIOUS
<1> DEFINE I == {i \in 1..Len(DirOrder) : DirOrder[i] = d}
<1>1. Rank(d) = IF I # {} THEN Min(I) ELSE 0
  BY DEF Rank, SelectInSeq
<1>2. I \subseteq Nat
  BY SessionsAssumption
<1> HIDE DEF I
<1>3. I # {} => Min(I) \in Nat
  BY <1>2, MinOfPositions
<1> QED
  BY <1>1, <1>3

LEMMA InitTypes == Init => TypeOK /\ \A d \in Dirs, s \in Sids : files[d][s].mtime <= 0
<1> SUFFICES ASSUME Init PROVE TypeOK /\ \A d \in Dirs, s \in Sids : files[d][s].mtime <= 0
  OBVIOUS
<1>1. PICK start \in Prepared :
        files = [d \in Dirs |-> [s \in Sids |-> [NoFile EXCEPT !.lines = start[d][s], !.mtime = -Rank(d)]]]
  BY DEF Init, Rank
<1>2. start \in [Dirs -> [Sids -> Seq(LineType)]]
  BY SessionsAssumption
<1>3. ASSUME NEW d \in Dirs, NEW s \in Sids PROVE files[d][s] \in FileType /\ files[d][s].mtime <= 0
  <2> DEFINE ls == start[d][s]
             t == -Rank(d)
             q == [NoFile EXCEPT !.lines = ls]
  <2>1. ls \in Seq(LineType) /\ t \in Int /\ t <= 0
    BY <1>2, RankType
  <2>2. files[d][s] = [q EXCEPT !.mtime = t]
    BY <1>1
  <2> HIDE DEF ls, t
  <2>3. q \in FileType
    <3>1. q = [lines |-> ls, mtime |-> 0, agent |-> <<>>] /\ <<>> \in Seq(LineType)
      BY DEF NoFile
    <3> HIDE DEF q
    <3> QED BY <2>1, <3>1 DEF FileType
  <2> HIDE DEF q
  <2> QED BY <2>1, <2>2, <2>3 DEF FileType
<1>4. files \in [Dirs -> [Sids -> FileType]]
  BY <1>1, <1>3
<1>5. data \in [Keys -> DataType] /\ summaries \in [Keys -> SidecarType]
  <2>1. NoData \in DataType /\ NoSidecar \in SidecarType
    BY SumOfNothing DEF NoData, DataType, NoSidecar, SidecarType
  <2> QED BY <2>1 DEF Init
<1>6. ImportOK
  BY NoImportType DEF Init, ImportOK
<1>7. renamed \in [sid : Sids \cup {NoDir}, dir : Everywhere, at : Everywhere, title : Nat]
  BY DEF Init, NoRename, Everywhere
<1>8. clock \in Nat /\ calls \in [files : Nat, store : Nat]
  BY DEF Init
<1> QED
  BY <1>3, <1>4, <1>5, <1>6, <1>7, <1>8, TypeParts DEF StoreTypes

LEMMA StutterSound == TypeOK /\ UNCHANGED vars => Sound
<1> SUFFICES ASSUME TypeOK, UNCHANGED vars PROVE Sound
  OBVIOUS
<1>1. UNCHANGED <<data, summaries>> /\ UNCHANGED import /\ UNCHANGED files /\ UNCHANGED <<clock, renamed, calls>>
  BY DEF vars
<1>2. FileStep /\ StoreStep /\ StoreTypes' /\ ImportOK'
  BY <1>1, TypeParts, Kept
<1>3. RestOK
  BY <1>1, TypeParts DEF RestOK
<1> QED
  BY <1>2, <1>3, SoundParts

\* The actions, one by one.
LEMMA StepsSound == TypeOK /\ [Next]_vars => Sound
<1> SUFFICES ASSUME TypeOK, [Next]_vars PROVE Sound
  OBVIOUS
<1>1. CASE CliWrites
  BY <1>1, CliWritesSound
<1>2. CASE CliWritesAgent
  BY <1>2, CliWritesAgentSound
<1>3. ASSUME NEW s \in Sids, NEW dir \in Everywhere, NEW refusing, Mutates(s, dir, refusing)
      PROVE  Sound
  BY <1>3, MutationsSound
<1>4. ASSUME NEW s \in Sids, NEW dir \in Everywhere, DeleteSession(s, dir) PROVE Sound
  BY <1>4, DeleteSessionSound
<1>5. ASSUME NEW s \in Sids, NEW dir \in Everywhere, NEW t \in Sids, ForkSession(s, t, dir) PROVE Sound
  BY <1>5, ForkSessionSound
<1>6. ASSUME NEW s \in Sids, NEW dir \in Everywhere, ImportStarts(s, dir) PROVE Sound
  BY <1>6, ImportStartsSound
<1>7. ASSUME NEW s \in Sids, NEW d \in StoreDirs, NEW line \in {TitleLine(Now), TagLine(Now), TagLine(None)},
             AppendsViaStore(s, d, line)
      PROVE  Sound
  BY <1>7, AppendsViaStoreSound
<1>8. ASSUME NEW s \in Sids, NEW d \in StoreDirs, NEW t \in Sids, ForkSessionViaStore(s, t, d) PROVE Sound
  BY <1>8, ForkSessionViaStoreSound
<1>9. ASSUME NEW key \in Keys, DeletesFromStore(key) PROVE Sound
  BY <1>9, DeletesFromStoreSound
<1>10. ASSUME NEW key \in Keys, NEW kind \in Written, NEW side \in BOOLEAN, HostAppends(key, kind, side)
       PROVE  Sound
  BY <1>10, HostAppendsSound
<1>11. CASE ImportBatch
  BY <1>11, ImportBatchSound
<1>12. CASE ImportFails
  BY <1>12, ImportFailsSound
<1>13. CASE ImportMainEnds
  BY <1>13, ImportMainEndsSound
<1>14. CASE ImportAgentEnds
  BY <1>14, ImportAgentEndsSound
<1>15. CASE UNCHANGED vars
  BY <1>15, StutterSound
<1> QED
  BY <1>1, <1>2, <1>3, <1>4, <1>5, <1>6, <1>7, <1>8, <1>9, <1>10, <1>11, <1>12, <1>13, <1>14, <1>15
     DEF Next, Mutates

\* Whatever the host, the CLI and an import do, the variables keep their types.
\* (sessions.go, session_mutations.go, session_import.go, session_store.go)
THEOREM SessionsTypes == Spec => []TypeOK
<1>1. Init => TypeOK
  BY InitTypes
<1>2. TypeOK /\ [Next]_vars => TypeOK'
  BY StepsSound DEF Sound
<1> QED
  BY <1>1, <1>2, PTL DEF Spec

(* ---- the store's invariants ---- *)

\* The sidecar of a main transcript was written with it and sums it up, also when
\* the transcript is empty or was deleted.
SidecarInv ==
  \A key \in Keys : ~key.sub =>
    summaries[key].mtime = data[key].mtime /\ SumsUp(summaries[key].summary, Load(key))

\* Nothing is written later than now, and no two keys at the same time.
ClockInv ==
  /\ \A key \in Keys : data[key].mtime <= clock
  /\ \A k, l \in Keys : Stored(k) /\ Stored(l) /\ data[k].mtime = data[l].mtime => k = l
  /\ \A d \in Dirs, s \in Sids : files[d][s].mtime <= clock

LEMMA StoredTypes ==
  ASSUME StoreTypes, NEW key \in Keys
  PROVE  /\ data[key].mtime \in Nat /\ Load(key) \in Seq(LineType)
         /\ summaries[key].mtime \in Nat /\ summaries[key].summary \in SummaryType
  BY DEF StoreTypes, DataType, SidecarType, Load

LEMMA StoreInvInit == Init => SidecarInv /\ ClockInv
<1> SUFFICES ASSUME Init PROVE SidecarInv /\ ClockInv
  OBVIOUS
<1>1. ASSUME NEW key \in Keys
      PROVE  /\ data[key].mtime = 0 /\ Load(key) = <<>>
             /\ summaries[key].mtime = 0 /\ summaries[key].summary = NoSummary
  BY DEF Init, NoData, NoSidecar, Load
<1>2. SidecarInv
  BY <1>1, SumOfNothing DEF SidecarInv
<1>3. \A d \in Dirs, s \in Sids : files[d][s].mtime <= 0
  BY InitTypes
<1>4. clock = 0
  BY DEF Init
<1> QED
  BY <1>1, <1>2, <1>3, <1>4 DEF ClockInv, Stored

LEMMA SidecarStep == StoreTypes /\ clock \in Nat /\ SidecarInv /\ StoreStep => SidecarInv'
<1> SUFFICES ASSUME StoreTypes, clock \in Nat, SidecarInv, StoreStep, NEW k \in Keys, ~k.sub
             PROVE  summaries'[k].mtime = data'[k].mtime /\ SumsUp(summaries'[k].summary, data'[k].entries)
  BY DEF SidecarInv, Load
<1>1. summaries[k].mtime = data[k].mtime /\ SumsUp(summaries[k].summary, Load(k))
  BY DEF SidecarInv
<1>2. CASE UNCHANGED <<data, summaries>>
  BY <1>1, <1>2 DEF Load
<1>3. ASSUME NEW key \in Keys, NEW entries \in Seq(LineType), Gains(key, entries)
      PROVE  summaries'[k].mtime = data'[k].mtime /\ SumsUp(summaries'[k].summary, data'[k].entries)
  <2>1. CASE k # key
    BY <1>1, <1>3, <2>1 DEF Gains, Load
  <2>2. CASE k = key
    <3> DEFINE old == Load(k)
               all == old \o entries
               prev == summaries[k].summary
    <3>1. old \in Seq(LineType) /\ prev \in SummaryType /\ SumsUp(prev, old)
      BY <1>1, StoredTypes
    <3>2. /\ data'[k] = [entries |-> all, mtime |-> Now]
          /\ summaries'[k] = [summary |-> FoldSessionSummary(prev, all), mtime |-> Now]
      BY <1>3, <2>2 DEF Gains
    <3> HIDE DEF old, prev
    <3>3. all \in Seq(LineType) /\ Begins(old, all)
      BY <3>1, BeginsConcat
    <3> HIDE DEF all
    <3>4. SumsUp(FoldSessionSummary(prev, all), all)
      BY <3>1, <3>3, SumGrows
    <3> QED BY <3>2, <3>4
  <2> QED BY <2>1, <2>2
<1>4. ASSUME NEW key \in Keys, Loses(key)
      PROVE  summaries'[k].mtime = data'[k].mtime /\ SumsUp(summaries'[k].summary, data'[k].entries)
  <2>1. CASE k \in GoneWith(key)
    BY <1>4, <2>1, SumOfNothing DEF Loses, NoData, NoSidecar
  <2>2. CASE k \notin GoneWith(key)
    BY <1>1, <1>4, <2>2 DEF Loses, Load
  <2> QED BY <2>1, <2>2
<1> QED
  BY <1>2, <1>3, <1>4 DEF StoreStep

LEMMA ClockStep == TypeOK /\ ClockInv /\ Sound => ClockInv'
<1> SUFFICES ASSUME TypeOK, ClockInv, Sound PROVE ClockInv'
  OBVIOUS
<1>1. clock \in Nat /\ clock' \in Nat /\ clock <= clock' /\ Now = clock + 1 /\ (Tick => clock' = Now)
  BY TypeParts DEF Sound, Now, Tick
<1>2. ASSUME NEW k \in Keys PROVE data[k].mtime \in Nat /\ data'[k].mtime \in Nat
  <2>1. StoreTypes
    BY TypeParts
  <2>2. StoreTypes'
    BY DEF Sound, TypeOK, StoreTypes
  <2> QED BY <2>1, <2>2 DEF StoreTypes, DataType
<1>3. ASSUME NEW d \in Dirs, NEW s \in Sids PROVE files'[d][s].mtime <= clock'
  <2>1. files \in [Dirs -> [Sids -> FileType]] /\ files[d][s] \in FileType
    BY TypeParts
  <2>2. files[d][s].mtime <= clock /\ files[d][s].mtime \in Int
    BY <2>1 DEF ClockInv, FileType
  <2>3. CASE UNCHANGED files
    BY <1>1, <2>2, <2>3
  <2>4. ASSUME Tick, NEW e \in Dirs, NEW t \in Sids, NEW f \in FileType, Rewritten(e, t, f),
               f.mtime \in {0, files[e][t].mtime, Now}
        PROVE  files'[d][s].mtime <= clock'
    <3>1. files'[e][t] = f /\ ((d # e \/ s # t) => files'[d][s] = files[d][s])
      BY <2>1, <2>4, RewrittenIs
    <3>2. files[e][t].mtime <= clock /\ files[e][t].mtime \in Int
      <4>1. files[e][t] \in FileType
        BY <2>1
      <4> QED BY <4>1 DEF ClockInv, FileType
    <3>3. f.mtime <= clock'
      BY <1>1, <2>4, <3>2
    <3> QED BY <1>1, <2>2, <3>1, <3>3
  <2> QED BY <2>3, <2>4 DEF Sound, FileStep
<1>4. ASSUME NEW k \in Keys PROVE data'[k].mtime <= clock'
  <2>1. data[k].mtime <= clock /\ data[k].mtime \in Nat
    BY <1>2 DEF ClockInv
  <2>2. CASE UNCHANGED <<data, summaries>>
    BY <1>1, <2>1, <2>2
  <2>3. ASSUME NEW key \in Keys, NEW entries, Gains(key, entries), Tick PROVE data'[k].mtime <= clock'
    <3>1. CASE k = key
      <4>1. data'[k].mtime = Now
        BY <2>3, <3>1 DEF Gains
      <4> QED BY <1>1, <2>3, <4>1
    <3>2. CASE k # key
      <4>1. data'[k] = data[k]
        BY <2>3, <3>2 DEF Gains
      <4> QED BY <1>1, <2>1, <4>1
    <3> QED BY <3>1, <3>2
  <2>4. ASSUME NEW key \in Keys, Loses(key) PROVE data'[k].mtime <= clock'
    BY <1>1, <2>1, <2>4 DEF Loses, NoData
  <2> QED BY <2>2, <2>3, <2>4 DEF Sound, StoreStep
<1>5. ASSUME NEW k \in Keys, NEW l \in Keys, data'[k].entries # <<>>, data'[l].entries # <<>>,
             data'[k].mtime = data'[l].mtime
      PROVE  k = l
  <2>1. \A j \in Keys : data[j].mtime <= clock /\ data[j].mtime \in Nat
    BY <1>2 DEF ClockInv
  <2>2. data[k].entries # <<>> /\ data[l].entries # <<>> /\ data[k].mtime = data[l].mtime => k = l
    BY DEF ClockInv, Stored, Load
  <2>3. CASE UNCHANGED <<data, summaries>>
    BY <1>5, <2>2, <2>3
  <2>4. ASSUME NEW key \in Keys, NEW entries, Gains(key, entries) PROVE k = l
    <3>1. data'[key].mtime = Now /\ \A j \in Keys : j # key => data'[j] = data[j]
      BY <2>4 DEF Gains
    <3>2. \A j \in Keys : j # key => data'[j].mtime # Now
      BY <1>1, <2>1, <3>1
    <3> QED BY <1>5, <2>2, <3>1, <3>2
  <2>5. ASSUME NEW key \in Keys, Loses(key) PROVE k = l
    BY <1>5, <2>2, <2>5 DEF Loses, NoData
  <2> QED BY <2>3, <2>4, <2>5 DEF Sound, StoreStep
<1> QED
  BY <1>3, <1>4, <1>5 DEF ClockInv, Stored, Load

LEMMA StoreInvariants == Spec => [](TypeOK /\ SidecarInv /\ ClockInv)
<1> DEFINE I == TypeOK /\ SidecarInv /\ ClockInv
<1>1. Init => I
  BY InitTypes, StoreInvInit
<1>2. I /\ [Next]_vars => I'
  <2> SUFFICES ASSUME I, [Next]_vars PROVE I'
    OBVIOUS
  <2>1. Sound
    BY StepsSound
  <2>2. TypeOK' /\ StoreStep
    BY <2>1 DEF Sound
  <2>3. SidecarInv'
    BY <2>2, SidecarStep, TypeParts
  <2>4. ClockInv'
    BY <2>1, ClockStep
  <2> QED BY <2>2, <2>3, <2>4
<1> HIDE DEF I
<1>3. Spec => []I
  BY <1>1, <1>2, PTL DEF Spec
<1> QED
  BY <1>3 DEF I

(* ---- what the store lists ---- *)

LEMMA FiniteImage ==
  ASSUME NEW S, IsFiniteSet(S), NEW f, NEW T, T \subseteq {f[x] : x \in S}
  PROVE  IsFiniteSet(T)
<1> DEFINE g == [x \in S |-> f[x]]
           R == {f[x] : x \in S}
<1>1. g \in Surjection(S, R)
  BY DEF Surjection
<1>2. IsFiniteSet(R)
  <2> HIDE DEF g, R
  <2> QED BY <1>1, FS_Surjection
<1> HIDE DEF R
<1>3. T \in SUBSET R
  BY DEF R
<1> QED
  BY <1>2, <1>3, FS_Subset

LEMMA WholePage ==
  ASSUME NEW S, NEW listing \in Seq(S)
  PROVE  Paged(listing, 0, None) = listing
<1>1. Max({0, 0}) = 0
  BY DEF Max
<1>2. CASE Len(listing) = 0
  BY <1>2 DEF Paged
<1>3. CASE Len(listing) # 0
  <2>1. ~(0 >= Len(listing)) /\ Len(listing) \in Nat
    BY <1>3
  <2>2. SubSeq(listing, Max({0, 0}) + 1, Len(listing)) = listing
    BY <1>1
  <2> QED BY <2>1, <2>2 DEF Paged, None
<1> QED
  BY <1>2, <1>3

\* Of the sessions a store lists, every two were written at different times.
LEMMA ListedApart ==
  ASSUME StoreTypes, ClockInv, NEW form \in {"name", "path"}, NEW d \in StoreDirs, NEW S,
         \A x \in S : x.sid \in Sids /\ Stored(Key(form, d, x.sid))
                      /\ x.mtime = data[Key(form, d, x.sid)].mtime,
         \A x, y \in S : x.sid = y.sid => x = y
  PROVE  WrittenApart(S)
<1>1. ASSUME NEW x \in S PROVE Key(form, d, x.sid) \in Keys /\ x.mtime \in Int
  <2>1. Key(form, d, x.sid) \in Keys
    BY KeyTypes
  <2> QED BY <2>1, StoredTypes
<1>2. ASSUME NEW x \in S, NEW y \in S, x.mtime = y.mtime PROVE x = y
  <2>1. Key(form, d, x.sid) = Key(form, d, y.sid)
    BY <1>1, <1>2 DEF ClockInv
  <2>2. x.sid = y.sid
    BY <2>1, KeyTypes
  <2> QED BY <2>2
<1>3. IsFiniteSet(S)
  <2> DEFINE f == [s \in Sids |-> CHOOSE x \in S : x.sid = s]
  <2>1. S \subseteq {f[s] : s \in Sids}
    <3> SUFFICES ASSUME NEW x \in S PROVE \E s \in Sids : f[s] = x
      OBVIOUS
    <3>1. x.sid \in Sids /\ f[x.sid] \in S /\ f[x.sid].sid = x.sid
      OBVIOUS
    <3> QED BY <3>1
  <2> HIDE DEF f
  <2> QED BY <2>1, SessionsAssumption, FiniteImage
<1> QED
  BY <1>1, <1>2, <1>3 DEF WrittenApart

LEMMA SidecarHolds == TypeOK /\ SidecarInv /\ ClockInv => SidecarAgrees
<1> SUFFICES ASSUME TypeOK, SidecarInv, ClockInv PROVE SidecarAgrees
  OBVIOUS
<1>1. ASSUME NEW key \in Keys, ~key.sub
      PROVE  /\ Load(key) \in Seq(LineType) /\ summaries[key].summary \in SummaryType
             /\ SumsUp(summaries[key].summary, Load(key))
             /\ summaries[key].mtime = data[key].mtime /\ data[key].mtime \in Nat
  BY <1>1, TypeParts, StoredTypes DEF SidecarInv
<1>2. ASSUME NEW key \in Keys, ~key.sub, Plain(Load(key))
      PROVE  /\ Untold(SummaryInfo(summaries[key].summary)) = Untold(LiteInfo(WrittenOut(Load(key))))
             /\ summaries[key].mtime = data[key].mtime
             /\ (SummaryInfo(summaries[key].summary) = NoInfo) <=> (LiteInfo(WrittenOut(Load(key))) = NoInfo)
  BY <1>1, <1>2, SummaryTells
<1>3. ASSUME NEW d \in StoreDirs, NEW s \in Sids, Plain(Load(Key("name", d, s)))
      PROVE  (\E row \in ToSet(ListSessionsFromStore(d, 0, None)) : row.sid = s)
               <=> LiteInfo(WrittenOut(Load(Key("name", d, s)))) # NoInfo
  <2> DEFINE K(t) == Key("name", d, t)
             listed == StoreListing("name", d)
             slots == {StoreSlot(d, l) : l \in listed}
             fresh == {i \in slots : summaries[K(i.sid)].mtime < i.mtime \/ i.info # NoInfo}
             shown == {i \in fresh : i.info # NoInfo}
  <2>1. \A t \in Sids : K(t) \in Keys /\ ~K(t).sub
    BY KeyTypes
  <2>2. \A l \in listed : l.sid \in Sids /\ Stored(K(l.sid)) /\ l.mtime = data[K(l.sid)].mtime
                          /\ l = [sid |-> l.sid, mtime |-> data[K(l.sid)].mtime]
    BY DEF StoreListing
  <2>3. \A l \in listed : StoreSlot(d, l) = [sid |-> l.sid, mtime |-> l.mtime,
                                             info |-> SummaryInfo(summaries[K(l.sid)].summary)]
    <3> SUFFICES ASSUME NEW l \in listed
                 PROVE  StoreSlot(d, l) = [sid |-> l.sid, mtime |-> l.mtime,
                                           info |-> SummaryInfo(summaries[K(l.sid)].summary)]
      OBVIOUS
    <3> HIDE DEF listed
    <3>1. l.sid \in Sids /\ l.mtime = data[K(l.sid)].mtime
      BY <2>2
    <3>2. K(l.sid) \in Keys /\ ~K(l.sid).sub
      BY <2>1, <3>1
    <3>3. summaries[K(l.sid)].mtime = l.mtime /\ l.mtime \in Nat
      BY <1>1, <3>1, <3>2
    <3> QED BY <3>3 DEF StoreSlot
  <2>4. \A i \in slots : \E l \in listed : i = StoreSlot(d, l)
    BY DEF slots
  <2> HIDE DEF listed, slots
  <2>5. ASSUME NEW i \in slots
        PROVE  /\ i.sid \in Sids /\ Stored(K(i.sid)) /\ i.mtime = data[K(i.sid)].mtime
               /\ i.info = SummaryInfo(summaries[K(i.sid)].summary)
               /\ summaries[K(i.sid)].mtime = i.mtime /\ i.mtime \in Nat
               /\ i = [sid |-> i.sid, mtime |-> data[K(i.sid)].mtime,
                       info |-> SummaryInfo(summaries[K(i.sid)].summary)]
    <3>1. PICK l \in listed : i = StoreSlot(d, l)
      BY <2>4
    <3>2. i = [sid |-> l.sid, mtime |-> l.mtime, info |-> SummaryInfo(summaries[K(l.sid)].summary)]
      BY <2>3, <3>1
    <3>3. i.sid = l.sid /\ i.mtime = l.mtime /\ i.info = SummaryInfo(summaries[K(l.sid)].summary)
      BY <3>2
    <3>4. l.sid \in Sids /\ Stored(K(l.sid)) /\ l.mtime = data[K(l.sid)].mtime
      BY <2>2
    <3>5. K(l.sid) \in Keys /\ ~K(l.sid).sub
      BY <2>1, <3>4
    <3>6. summaries[K(l.sid)].mtime = data[K(l.sid)].mtime /\ data[K(l.sid)].mtime \in Nat
      BY <1>1, <3>5
    <3> QED BY <3>2, <3>3, <3>4, <3>6
  <2>6. fresh = shown /\ fresh \subseteq slots
    BY <2>5
  <2>7. WrittenApart(fresh)
    <3>1. \A x \in fresh : x.sid \in Sids /\ Stored(Key("name", d, x.sid))
                           /\ x.mtime = data[Key("name", d, x.sid)].mtime
      BY <2>5
    <3>2. \A x, y \in fresh : x.sid = y.sid => x = y
      <4> SUFFICES ASSUME NEW x \in fresh, NEW y \in fresh, x.sid = y.sid PROVE x = y
        OBVIOUS
      <4>1. /\ x = [sid |-> x.sid, mtime |-> data[K(x.sid)].mtime,
                    info |-> SummaryInfo(summaries[K(x.sid)].summary)]
            /\ y = [sid |-> y.sid, mtime |-> data[K(y.sid)].mtime,
                    info |-> SummaryInfo(summaries[K(y.sid)].summary)]
        BY <2>5
      <4> QED BY <4>1
    <3> HIDE DEF fresh
    <3> QED BY <3>1, <3>2, TypeParts, ListedApart
  <2>8. ToSet(ListSessionsFromStore(d, 0, None)) = shown
    <3>1. ListSessionsFromStore(d, 0, None) = Among(Paged(Newest(fresh), 0, None), shown)
      BY DEF ListSessionsFromStore, slots, listed
    <3> HIDE DEF fresh, shown
    <3>2. /\ Newest(fresh) \in Seq(fresh)
          /\ \A x \in fresh : \E i \in 1..Len(Newest(fresh)) : Newest(fresh)[i] = x
      BY <2>7, NewestOrdered DEF Ordered
    <3>3. ToSet(Newest(fresh)) = fresh
      BY <3>2 DEF ToSet
    <3>4. Paged(Newest(fresh), 0, None) = Newest(fresh)
      BY <3>2, WholePage
    <3>5. ToSet(Among(Newest(fresh), shown)) = ToSet(Newest(fresh)) \cap shown
      BY <3>2, AmongElements
    <3> QED BY <2>6, <3>1, <3>3, <3>4, <3>5
  <2>9. SummaryInfo(summaries[K(s)].summary) # NoInfo <=> LiteInfo(WrittenOut(Load(K(s)))) # NoInfo
    BY <1>2, <1>3, <2>1
  <2>10. (\E row \in shown : row.sid = s) <=> SummaryInfo(summaries[K(s)].summary) # NoInfo
    <3>1. ASSUME NEW row \in shown, row.sid = s PROVE SummaryInfo(summaries[K(s)].summary) # NoInfo
      BY <2>5, <3>1
    <3>2. ASSUME SummaryInfo(summaries[K(s)].summary) # NoInfo PROVE \E row \in shown : row.sid = s
      <4> DEFINE l == [sid |-> s, mtime |-> data[K(s)].mtime]
      <4>1. l \in listed
        <5>1. Stored(K(s))
          BY <1>3 DEF Plain, Stored
        <5> QED BY <5>1 DEF listed, StoreListing
      <4>2. l.sid = s
        OBVIOUS
      <4> HIDE DEF l
      <4>3. StoreSlot(d, l) \in slots
        BY <4>1 DEF slots
      <4>4. StoreSlot(d, l).sid = s /\ StoreSlot(d, l).info = SummaryInfo(summaries[K(s)].summary)
        BY <2>3, <4>1, <4>2
      <4> QED BY <3>2, <4>3, <4>4
    <3> QED BY <3>1, <3>2
  <2> QED BY <2>8, <2>9, <2>10
<1> QED
  BY <1>2, <1>3 DEF SidecarAgrees

\* The summary a store keeps beside a transcript, and the row of its listing, say
\* what reading the transcript says, whatever was appended, deleted and stored again.
\* (session_summary.go FoldSessionSummary, session_store.go Append and Delete,
\* sessions.go ListSessionsFromStore)
THEOREM SidecarsAgree == Spec => []SidecarAgrees
  BY StoreInvariants, SidecarHolds, PTL

LEMMA ContinueHolds == TypeOK /\ ClockInv => ContinueIsLastWritten
<1> SUFFICES ASSUME TypeOK, ClockInv, NEW d \in StoreDirs, NEW s \in Sids,
                    Stored(Key("path", d, s)), ~Load(Key("path", d, s))[1].side
             PROVE  LET candidate == ContinueCandidate("path", d)
                    IN /\ candidate # NoDir
                       /\ Materialized("path", d, candidate).lines # <<>>
                       /\ data[Key("path", d, s)].mtime <= data[Key("path", d, candidate)].mtime
  BY DEF ContinueIsLastWritten
<1> DEFINE K(t) == Key("path", d, t)
           listed == StoreListing("path", d)
           order == Newest(listed)
           main == {i \in DOMAIN order : ~Head(Load(K(order[i].sid))).side}
           x == [sid |-> s, mtime |-> data[K(s)].mtime]
<1>1. \A t \in Sids : K(t) \in Keys
  BY KeyTypes
<1>2. ASSUME NEW l \in listed
      PROVE  l.sid \in Sids /\ Stored(K(l.sid)) /\ l = [sid |-> l.sid, mtime |-> data[K(l.sid)].mtime]
             /\ l.mtime = data[K(l.sid)].mtime
  BY DEF StoreListing
<1>3. x \in listed /\ x.sid = s /\ x.mtime = data[K(s)].mtime
  BY DEF StoreListing
<1> HIDE DEF listed, x
<1>4. WrittenApart(listed)
  <2>1. \A l \in listed : l.sid \in Sids /\ Stored(Key("path", d, l.sid))
                          /\ l.mtime = data[Key("path", d, l.sid)].mtime
    BY <1>2
  <2>2. \A l, m \in listed : l.sid = m.sid => l = m
    <3> SUFFICES ASSUME NEW l \in listed, NEW m \in listed, l.sid = m.sid PROVE l = m
      OBVIOUS
    <3>1. /\ l = [sid |-> l.sid, mtime |-> data[K(l.sid)].mtime]
          /\ m = [sid |-> m.sid, mtime |-> data[K(m.sid)].mtime]
      BY <1>2
    <3> QED BY <3>1
  <2> QED BY <2>1, <2>2, TypeParts, ListedApart
<1>5. Ordered(listed, order)
  BY <1>4, NewestOrdered
<1>6. ContinueCandidate("path", d) = IF main = {} THEN NoDir ELSE order[Min(main)].sid
  BY DEF ContinueCandidate, listed
<1> HIDE DEF order
<1>7. /\ order \in Seq(listed) /\ Len(order) \in Nat /\ DOMAIN order = 1..Len(order)
      /\ \A i, j \in 1..Len(order) : i <= j => order[j].mtime <= order[i].mtime
  BY <1>5 DEF Ordered
<1>8. PICK i \in 1..Len(order) : order[i] = x
  BY <1>3, <1>5 DEF Ordered
<1>9. i \in main
  <2>1. Load(K(s)) \in Seq(LineType) /\ Load(K(s)) # <<>>
    BY <1>1, TypeParts, StoredTypes DEF Stored
  <2>2. Head(Load(K(s))) = Load(K(s))[1]
    BY <2>1
  <2> QED BY <1>3, <1>7, <1>8, <2>2
<1> DEFINE m == Min(main)
<1>10. main \subseteq Nat /\ main # {}
  BY <1>7, <1>9
<1>11. m \in 1..Len(order) /\ m <= i
  <2>1. m \in main /\ \A k \in main : m <= k
    <3> HIDE DEF main
    <3> QED BY <1>10, MinOfPositions
  <2>2. main \subseteq 1..Len(order)
    BY <1>7
  <2> HIDE DEF main
  <2> QED BY <1>9, <2>1, <2>2
<1>12. ContinueCandidate("path", d) = order[m].sid
  BY <1>6, <1>10
<1> HIDE DEF main, m
<1>13. order[m] \in listed /\ order[i].mtime <= order[m].mtime
  BY <1>7, <1>8, <1>11
<1> DEFINE c == order[m].sid
<1>14. c \in Sids /\ Stored(K(c)) /\ data[K(c)].mtime = order[m].mtime
  BY <1>2, <1>13
<1> HIDE DEF c
<1>15. c # NoDir
  BY <1>14, DirAssumption
<1>16. Materialized("path", d, c).lines # <<>>
  <2>1. Load(K(c)) \in Seq(LineType) /\ Load(K(c)) # <<>>
    BY <1>1, <1>14, TypeParts, StoredTypes DEF Stored
  <2>2. WrittenOut(Load(K(c))) \in Seq(LineType) /\ Len(WrittenOut(Load(K(c)))) = Len(Load(K(c)))
    BY <2>1, WrittenOutType
  <2>3. WrittenOut(Load(K(c))) # <<>>
    BY <2>1, <2>2
  <2>4. Materialized("path", d, c).lines = WrittenOut(Load(K(c)))
    BY DEF Materialized, NoFile
  <2> QED BY <2>3, <2>4
<1>17. data[K(s)].mtime <= data[K(c)].mtime
  BY <1>3, <1>8, <1>13, <1>14
<1> QED
  BY <1>12, <1>15, <1>16, <1>17 DEF c

\* Continuing goes on from the session written last that is not a sidechain's, and
\* has one whenever there is one. (session_resume.go resolveContinueCandidateWithTimeout)
THEOREM ContinuesLastWritten == Spec => []ContinueIsLastWritten
  BY StoreInvariants, ContinueHolds, PTL

(* ---- titles of forks and of sessions that are renamed ---- *)

\* A transcript that is no sidechain's and ends with a title is shown with it.
LEMMA TitleShows ==
  ASSUME NEW lines \in Seq(LineType), lines # <<>>, ~Head(lines).side,
         NEW t \in Nat, t # None, Last(lines) = TitleLine(t)
  PROVE  LiteInfo(lines).title = t /\ LiteInfo(lines) # NoInfo
<1> DEFINE tail == TailOf(lines)
<1>1. tail \in Seq(LineType) /\ tail # <<>> /\ Last(tail) = TitleLine(t)
  BY HeadAndTail
<1> HIDE DEF tail
<1>2. LastText(tail, "custom-title") = t
  <2>1. TitleLine(t).kind = "custom-title" /\ TitleLine(t).text = t
    BY DEF TitleLine
  <2>2. Last(tail).text # None /\ Last(tail).kind = "custom-title" /\ Last(tail).text = t
    BY <1>1, <2>1
  <2>3. LastText(tail, Last(tail).kind) = Last(tail).text
    BY <1>1, <2>2, LastLineTells
  <2> QED BY <2>2, <2>3
<1>3. TitleOf(lines) = t
  BY <1>2 DEF TitleOf, Recent, Or, tail
<1> DEFINE summary == Or(Or(TitleOf(lines), LastText(TailOf(lines), "last-prompt")), FirstPrompt(lines))
<1>4. summary = t
  BY <1>3 DEF Or
<1>5. LiteInfo(lines) = IF lines = <<>> \/ Head(lines).side \/ summary = None THEN NoInfo
                        ELSE [title |-> TitleOf(lines), summary |-> summary, prompt |-> FirstPrompt(lines),
                              tag |-> TagOf(lines)]
  BY DEF LiteInfo
<1> HIDE DEF summary
<1>6. LiteInfo(lines).title = t
  BY <1>3, <1>4, <1>5
<1>7. NoInfo.title = None
  BY DEF NoInfo
<1> QED
  BY <1>6, <1>7

\* A session that was nowhere is found where it is put.
LEMMA FoundWherePut ==
  ASSUME NEW dir \in Everywhere, NEW t, NEW d \in ToSet(SearchOrder(dir)),
         \A e \in Dirs : Exists(e, t)' <=> e = d
  PROVE  Found(t, dir)' = d
<1> DEFINE order == SearchOrder(dir)
           at == {i \in DOMAIN order : Exists(order[i], t)'}
<1>1. order \in Seq(Dirs)
  BY SearchOrderType
<1>2. Found(t, dir)' = IF at = {} THEN NoDir ELSE order[Min(at)]
  BY DEF Found, Exists, Lines, SearchOrder
<1>3. PICK i \in DOMAIN order : order[i] = d
  BY DEF ToSet
<1> HIDE DEF order
<1>4. at = {j \in DOMAIN order : order[j] = d}
  <2>1. \A j \in DOMAIN order : order[j] \in Dirs
    BY <1>1
  <2> QED BY <2>1
<1>5. at # {} /\ at \subseteq Nat
  BY <1>1, <1>3, <1>4
<1>6. Min(at) \in at
  <2> HIDE DEF at
  <2> QED BY <1>5, MinOfPositions
<1>7. order[Min(at)] = d
  <2> HIDE DEF at
  <2> QED BY <1>4, <1>6
<1> QED
  BY <1>2, <1>5, <1>7

LEMMA ForkNamed ==
  ASSUME TypeOK, NEW s \in Sids, NEW t \in Sids, NEW dir \in Everywhere, ForkSession(s, t, dir),
         GetSessionInfo(s, dir).title # None
  PROVE  \E d \in Dirs : /\ Found(t, dir)' = d
                         /\ LiteInfo(Lines(d, t))'.title = ForkBase + GetSessionInfo(s, dir).title
<1> DEFINE d == Found(s, dir)
           lines == Lines(d, s)
           new == Fork(lines)
<1>1. d \in Dirs /\ lines \in Seq(LineType) /\ new \in FileType /\ Rewritten(d, t, new)
  BY ForkIs
<1>2. d # NoDir /\ (\A e \in Dirs : ~Exists(e, t)) /\ Copied(lines) # <<>>
  BY DEF ForkSession
<1>3. d \in ToSet(SearchOrder(dir))
  BY <1>2, FoundIs
<1>4. GetSessionInfo(s, dir) = LiteInfo(lines)
  BY <1>2 DEF GetSessionInfo
<1> HIDE DEF d, lines
<1>5. LiteInfo(lines).title = TitleOf(lines) /\ TitleOf(lines) # None
  <2>1. LiteInfo(lines).title # None /\ NoInfo.title = None
    BY <1>4 DEF NoInfo
  <2> QED BY <2>1 DEF LiteInfo
<1>6. ForkTitle(lines) = ForkBase + TitleOf(lines)
  BY <1>5 DEF ForkTitle, Or
<1>7. ForkTitle(lines) \in Nat /\ ForkTitle(lines) # None
  BY <1>1, RecentTypes
<1> DEFINE title == ForkTitle(lines)
           copied == Append(Copied(lines), TitleLine(title))
<1>8. /\ copied \in Seq(LineType) /\ copied # <<>> /\ ~Head(copied).side
      /\ Last(copied) = TitleLine(title)
  <2>1. Copied(lines) \in Seq(LineType) /\ ~Head(Copied(lines)).side /\ TitleLine(title) \in LineType
    BY <1>1, <1>2, <1>7, CopiedType, LineTypes
  <2>2. Copied(lines) # <<>>
    BY <1>2
  <2> DEFINE c == Copied(lines)
             l == TitleLine(title)
  <2> HIDE DEF c, l
  <2>3. Append(c, l) \in Seq(LineType) /\ Append(c, l) # <<>> /\ Head(Append(c, l)) = Head(c)
    BY <2>1, <2>2 DEF c, l
  <2>4. Last(Append(c, l)) = l
    <3>1. Len(Append(c, l)) = Len(c) + 1 /\ Append(c, l)[Len(c) + 1] = l
      BY <2>1 DEF c, l
    <3> QED BY <3>1 DEF Last
  <2> QED BY <2>1, <2>3, <2>4 DEF c, l
<1>9. new.lines = copied
  BY DEF Fork
<1> HIDE DEF title, copied, new
<1>10. LiteInfo(copied).title = title
  BY <1>7, <1>8, TitleShows DEF title
<1>11. PICK c \in Dirs : c = d
  BY <1>1
<1>12. files'[c][t] = new /\ \A e \in Dirs : e # c => files'[e][t] = files[e][t]
  BY <1>1, <1>11, TypeParts, RewrittenIs
<1>13. Lines(c, t)' = copied
  BY <1>9, <1>12 DEF Lines
<1>14. \A e \in Dirs : Exists(e, t)' <=> e = c
  <2>1. Exists(c, t)'
    BY <1>8, <1>13 DEF Exists
  <2>2. \A e \in Dirs : e # c => (Exists(e, t)' <=> Exists(e, t))
    BY <1>12 DEF Exists, Lines
  <2> QED BY <1>2, <2>1, <2>2
<1>15. Found(t, dir)' = c
  <2>1. c \in ToSet(SearchOrder(dir)) /\ \A e \in Dirs : Exists(e, t)' <=> e = c
    BY <1>3, <1>11, <1>14
  <2> QED BY <2>1, FoundWherePut
<1>16. LiteInfo(Lines(c, t))' = LiteInfo(copied)
  BY <1>13
<1> QED
  BY <1>4, <1>5, <1>6, <1>10, <1>15, <1>16 DEF title

\* A fork bears the title its source was shown with, wherever in the transcript the
\* title was. (session_mutations.go ForkSession)
THEOREM ForksNamedAsShown == Spec => ForkNamedAsShown
<1> DEFINE Named == \A s, t \in Sids, dir \in Everywhere :
                      ForkSession(s, t, dir) /\ GetSessionInfo(s, dir).title # None =>
                        \E d \in Dirs : /\ Found(t, dir)' = d
                                        /\ LiteInfo(Lines(d, t))'.title
                                             = ForkBase + GetSessionInfo(s, dir).title
<1>1. TypeOK /\ [Next]_vars => [Named]_vars
  <2>1. TypeOK => Named
    BY ForkNamed
  <2> HIDE DEF Named
  <2> QED BY <2>1
<1> QED
  BY <1>1, SessionsTypes, PTL DEF Spec, ForkNamedAsShown

\* Every other copy of every session was written before the copy of s in `at`.
LastWritten(at, s) ==
  \A d \in Dirs, t \in Sids : (d # at \/ t # s) => files[d][t].mtime < files[at][s].mtime

\* The copy of s in at, one of those that are listed, ends with the title t and was
\* written last.
Titled(at, s, dir, t) ==
  /\ at \in Dirs /\ at \in ToSet(SearchOrder(dir)) /\ t # None
  /\ Exists(at, s) /\ Last(Lines(at, s)) = TitleLine(t) /\ LastWritten(at, s)

RenameInv ==
  /\ renamed # NoRename => renamed.sid \in Sids /\ renamed.title # None
  /\ \A s \in Sids, dir, at \in Everywhere, t \in Nat :
        renamed = [sid |-> s, dir |-> dir, at |-> at, title |-> t] /\ t # None => Titled(at, s, dir, t)

LEMMA RenameTitles ==
  ASSUME TypeOK, ClockInv, NEW s \in Sids, NEW dir \in Everywhere, NEW refusing,
         RenameSession(s, dir, refusing), NEW now \in Nat, now = Now,
         NEW c, c = Opened(s, dir, refusing)
  PROVE  Titled(c, s, dir, now)'
<1>1. c \in Dirs /\ c \in ToSet(SearchOrder(dir))
  BY OpenedIs DEF RenameSession, Appends
<1>2. AppendTo(c, s, TitleLine(Now)) /\ clock' = Now
  BY DEF RenameSession, Appends, Tick
<1> DEFINE line == TitleLine(now)
<1>5. PICK f \in FileType : Rewritten(c, s, f) /\ f.lines = Append(Lines(c, s), line) /\ f.mtime = now
  <2>1. line \in LineType /\ AppendTo(c, s, line) /\ files \in [Dirs -> [Sids -> FileType]] /\ clock \in Nat
    BY <1>2, LineTypes, TypeParts
  <2> HIDE DEF line
  <2> QED BY <1>1, <2>1, AppendToRewrites
<1>6. files'[c][s] = f /\ \A e \in Dirs, t \in Sids : (e # c \/ t # s) => files'[e][t] = files[e][t]
  BY <1>1, <1>5, TypeParts, RewrittenIs
<1>7. Lines(c, s) \in Seq(LineType) /\ line \in LineType
  <2>1. files[c][s] \in FileType
    BY <1>1, TypeParts
  <2>2. line \in LineType
    BY LineTypes
  <2> QED BY <2>1, <2>2 DEF FileType, Lines
<1>8. f.lines # <<>> /\ Last(f.lines) = line
  <2> DEFINE ls == Lines(c, s)
             all == Append(ls, line)
  <2> HIDE DEF ls, line
  <2>1. all \in Seq(LineType) /\ Len(all) = Len(ls) + 1 /\ all[Len(ls) + 1] = line /\ Len(ls) \in Nat
    BY <1>7 DEF ls
  <2>2. f.lines = all
    BY <1>5 DEF ls
  <2> HIDE DEF all
  <2>3. all # <<>> /\ Last(all) = line
    BY <2>1 DEF Last
  <2> QED BY <2>2, <2>3
<1>9. Exists(c, s)'
  BY <1>6, <1>8 DEF Exists, Lines
<1>10. LastWritten(c, s)'
  <2> SUFFICES ASSUME NEW e \in Dirs, NEW t \in Sids, e # c \/ t # s
               PROVE  files'[e][t].mtime < files'[c][s].mtime
    BY DEF LastWritten
  <2>1. files'[e][t] = files[e][t] /\ files[e][t] \in FileType
    BY <1>6, TypeParts
  <2>2. files[e][t].mtime <= clock /\ files[e][t].mtime \in Int /\ clock \in Nat /\ now = clock + 1
    BY <2>1, TypeParts DEF ClockInv, FileType, Now
  <2> QED BY <1>5, <1>6, <2>1, <2>2
<1>11. Last(Lines(c, s))' = line
  BY <1>6, <1>8 DEF Lines
<1>12. now # None
  BY TypeParts DEF Now, None
<1> QED
  BY <1>1, <1>9, <1>10, <1>11, <1>12 DEF Titled

\* A rename is recorded by RenameSession, kept with the files, and forgotten at any other write.
RenameStep ==
  \/ renamed' = NoRename
  \/ UNCHANGED <<files, renamed>>
  \/ \E s \in Sids, dir \in Everywhere, refusing \in SUBSET Dirs : RenameSession(s, dir, refusing)

LEMMA RenameSteps == [Next]_vars => RenameStep
<1> SUFFICES ASSUME [Next]_vars PROVE RenameStep
  OBVIOUS
<1>1. CASE CliWrites \/ CliWritesAgent
  BY <1>1 DEF RenameStep, CliWrites, CliWritesAgent, CallsOther
<1>2. ASSUME NEW s \in Sids, NEW dir \in Everywhere, NEW refusing \in SUBSET Dirs,
             RenameSession(s, dir, refusing)
      PROVE  RenameStep
  BY <1>2 DEF RenameStep
<1>3. ASSUME NEW s \in Sids, NEW dir \in Everywhere, NEW t \in Sids, NEW refusing \in SUBSET Dirs,
             \/ TagSession(s, dir, refusing) \/ ClearTag(s, dir, refusing)
             \/ DeleteSession(s, dir) \/ ForkSession(s, t, dir)
      PROVE  RenameStep
  BY <1>3 DEF RenameStep, TagSession, ClearTag, DeleteSession, ForkSession, CallsOther
<1>4. ASSUME NEW s \in Sids, NEW dir \in Everywhere, ImportStarts(s, dir) PROVE RenameStep
  BY <1>4 DEF RenameStep, ImportStarts, CallsOther
<1>5. ASSUME NEW s \in Sids, NEW d \in StoreDirs, NEW line, AppendsViaStore(s, d, line) PROVE RenameStep
  BY <1>5 DEF RenameStep, AppendsViaStore, CallsStore
<1>6. ASSUME NEW s \in Sids, NEW d \in StoreDirs, NEW t \in Sids, ForkSessionViaStore(s, t, d)
      PROVE  RenameStep
  BY <1>6 DEF RenameStep, ForkSessionViaStore, CallsStore
<1>7. ASSUME NEW key \in Keys, DeletesFromStore(key) PROVE RenameStep
  BY <1>7 DEF RenameStep, DeletesFromStore, CallsBy, CallsStore, CallsOther
<1>8. ASSUME NEW key \in Keys, NEW kind \in Written, NEW side \in BOOLEAN, HostAppends(key, kind, side)
      PROVE  RenameStep
  BY <1>8 DEF RenameStep, HostAppends, CallsStore
<1>9. CASE ImportBatch \/ ImportFails \/ ImportMainEnds \/ ImportAgentEnds
  BY <1>9 DEF RenameStep, ImportBatch, ImportFails, ImportMainEnds, ImportAgentEnds
<1>10. CASE UNCHANGED vars
  BY <1>10 DEF RenameStep, vars
<1> QED
  BY <1>1, <1>2, <1>3, <1>4, <1>5, <1>6, <1>7, <1>8, <1>9, <1>10 DEF Next

LEMMA RenameInvStep == TypeOK /\ ClockInv /\ RenameInv /\ [Next]_vars => RenameInv'
<1>a. ASSUME TypeOK, RenameInv, [Next]_vars
      PROVE  (renamed # NoRename => renamed.sid \in Sids /\ renamed.title # None)'
  <2>1. ASSUME NEW s \in Sids, NEW dir \in Everywhere, NEW refusing, RenameSession(s, dir, refusing)
        PROVE  renamed'.sid \in Sids /\ renamed'.title # None
    <3>1. PICK at : renamed' = [sid |-> s, dir |-> dir, at |-> at, title |-> Now]
      BY <2>1 DEF RenameSession
    <3>2. Now # None
      BY <1>a, TypeParts DEF Now, None
    <3> QED BY <3>1, <3>2
  <2>2. CASE UNCHANGED <<files, renamed>>
    BY <1>a, <2>2 DEF RenameInv
  <2> QED BY <1>a, <2>1, <2>2, RenameSteps DEF RenameStep
<1> SUFFICES ASSUME TypeOK, ClockInv, RenameInv, [Next]_vars,
                    NEW s \in Sids, NEW dir \in Everywhere, NEW at \in Everywhere, NEW t \in Nat,
                    renamed' = [sid |-> s, dir |-> dir, at |-> at, title |-> t], t # None
             PROVE  Titled(at, s, dir, t)'
  BY <1>a DEF RenameInv
<1>1. renamed' # NoRename
  <2>1. renamed'.title = t /\ NoRename.title = None
    BY DEF NoRename
  <2> QED BY <2>1
<1>2. CASE UNCHANGED <<files, renamed>>
  <2>1. Titled(at, s, dir, t)
    BY <1>2 DEF RenameInv
  <2>2. Lines(at, s)' = Lines(at, s) /\ (Exists(at, s)' <=> Exists(at, s))
    BY <1>2 DEF Exists, Lines
  <2>3. LastWritten(at, s)'
    BY <1>2, <2>1 DEF Titled, LastWritten
  <2> QED BY <2>1, <2>2, <2>3 DEF Titled
<1>3. ASSUME NEW r \in Sids, NEW e \in Everywhere, NEW refusing, RenameSession(r, e, refusing)
      PROVE  Titled(at, s, dir, t)'
  <2>1. PICK c : c = Opened(r, e, refusing)
    OBVIOUS
  <2>2. renamed' = [sid |-> r, dir |-> e, at |-> c, title |-> Now]
    BY <1>3, <2>1 DEF RenameSession
  <2>3. r = s /\ e = dir /\ at = c /\ t = Now
    BY <2>2
  <2> QED BY <1>3, <2>1, <2>3, RenameTitles
<1> QED
  BY <1>1, <1>2, <1>3, RenameSteps DEF RenameStep

LEMMA RenameInvariance == Spec => [](TypeOK /\ RenameInv)
<1> DEFINE I == TypeOK /\ RenameInv
<1>1. Init => I
  <2> SUFFICES ASSUME Init PROVE I
    OBVIOUS
  <2>1. renamed = NoRename /\ renamed.title = None
    BY DEF Init, NoRename
  <2>2. \A s, dir, at, t : renamed = [sid |-> s, dir |-> dir, at |-> at, title |-> t] => t = None
    BY <2>1
  <2> QED BY <2>1, <2>2, InitTypes DEF RenameInv
<1>2. I /\ TypeOK /\ SidecarInv /\ ClockInv /\ [Next]_vars => I'
  BY RenameInvStep, StepsSound DEF Sound
<1> HIDE DEF I
<1>3. Spec => []I
  BY <1>1, <1>2, StoreInvariants, PTL DEF Spec
<1> QED
  BY <1>3 DEF I

\* The one that is newer than all others is first.
LEMMA NewestFirst ==
  ASSUME NEW S, IsFiniteSet(S), NEW x \in S, x.mtime \in Int,
         \A y \in S : y # x => y.mtime \in Int /\ y.mtime < x.mtime
  PROVE  Newest(S) # <<>> /\ Newest(S)[1] = x /\ Len(Newest(S)) \in Nat /\ Newest(S) \in Seq(ToSet(Newest(S)))
<1> DEFINE n == Cardinality(S)
           e(i) == CHOOSE z \in S : Cardinality({y \in S : y.mtime > z.mtime}) = i - 1
<1>1. n \in Nat /\ n >= 1
  <2>1. n \in Nat /\ n # 0
    BY FS_CardinalityType, FS_EmptySet
  <2> HIDE DEF n
  <2> QED BY <2>1
<1>2. Newest(S) = [i \in 1..n |-> e(i)]
  BY DEF Newest
<1>3. Cardinality({y \in S : y.mtime > x.mtime}) = 0
  <2>1. {y \in S : y.mtime > x.mtime} = {}
    <3> SUFFICES ASSUME NEW y \in S, y.mtime > x.mtime PROVE FALSE
      OBVIOUS
    <3> QED OBVIOUS
  <2> QED BY <2>1, FS_EmptySet
<1>4. ASSUME NEW z \in S, Cardinality({y \in S : y.mtime > z.mtime}) = 0 PROVE z = x
  <2> DEFINE over == {y \in S : y.mtime > z.mtime}
  <2>1. over \in SUBSET S
    OBVIOUS
  <2> HIDE DEF over
  <2>2. IsFiniteSet(over)
    BY <2>1, FS_Subset
  <2>3. over = {}
    BY <1>4, <2>2, FS_EmptySet DEF over
  <2>4. ~(x.mtime > z.mtime)
    BY <2>3 DEF over
  <2> QED BY <2>4
<1>5. e(1) = x
  <2> DEFINE P(z) == Cardinality({y \in S : y.mtime > z.mtime}) = 0
  <2>1. P(x) /\ \A z \in S : P(z) => z = x
    BY <1>3, <1>4
  <2>2. e(1) = CHOOSE z \in S : P(z)
    OBVIOUS
  <2> HIDE DEF e, P
  <2> QED BY <2>1, <2>2
<1> HIDE DEF e, n
<1>6. Newest(S)[1] = x
  BY <1>1, <1>2, <1>5
<1>7. DOMAIN Newest(S) = 1..n /\ Newest(S) \in [1..n -> ToSet(Newest(S))]
  BY <1>1, <1>2 DEF ToSet
<1>8. Newest(S) \in Seq(ToSet(Newest(S))) /\ Len(Newest(S)) = n
  BY <1>1, <1>7
<1> QED
  BY <1>1, <1>6, <1>8

LEMMA FirstOfPage ==
  ASSUME NEW S, NEW listing \in Seq(S), listing # <<>>
  PROVE  Head(Paged(listing, 0, 1)) = listing[1]
<1>1. Max({0, 0}) = 0 /\ Len(listing) \in Nat /\ Len(listing) >= 1
  BY DEF Max
<1>2. SubSeq(listing, Max({0, 0}) + 1, Len(listing)) = listing
  BY <1>1
<1>3. Min({1, Len(listing)}) = 1
  <2> DEFINE n == Len(listing)
  <2>1. n \in Nat /\ n >= 1
    BY <1>1
  <2> HIDE DEF n
  <2>2. Min({1, n}) = 1
    BY <2>1 DEF Min
  <2> QED BY <2>2 DEF n
<1>4. Paged(listing, 0, 1) = SubSeq(listing, 1, 1)
  <2> DEFINE rest == SubSeq(listing, Max({0, 0}) + 1, Len(listing))
             len == Len(listing)
  <2>1. Paged(listing, 0, 1) = IF 0 >= len THEN <<>> ELSE IF 1 > 0 THEN SubSeq(rest, 1, Min({1, Len(rest)})) ELSE rest
    BY DEF Paged
  <2>2. rest = listing /\ ~(0 >= len) /\ 1 > 0
    BY <1>1, <1>2
  <2> HIDE DEF rest, len
  <2>3. Paged(listing, 0, 1) = SubSeq(rest, 1, Min({1, Len(rest)}))
    BY <2>1, <2>2
  <2> QED BY <1>3, <2>2, <2>3
<1>5. Len(SubSeq(listing, 1, 1)) = 1 /\ SubSeq(listing, 1, 1)[1] = listing[1] /\ SubSeq(listing, 1, 1) \in Seq(S)
  <2>1. \A i \in 1..1 : listing[i] \in S
    BY <1>1
  <2>2. /\ SubSeq(listing, 1, 1) \in Seq(S)
        /\ Len(SubSeq(listing, 1, 1)) = 1 - 1 + 1
        /\ \A i \in 1..(1 - 1 + 1) : SubSeq(listing, 1, 1)[i] = listing[1 + i - 1]
    BY <2>1, SubSeqProperties
  <2> QED BY <2>2
<1> QED
  BY <1>4, <1>5

LEMMA RenameHolds == TypeOK /\ RenameInv => RenameShows
<1> SUFFICES ASSUME TypeOK, RenameInv, renamed # NoRename,
                    ~Head(Lines(renamed.at, renamed.sid)).side
             PROVE  /\ LET top == Head(ListSessions(renamed.dir, 0, 1))
                       IN top.sid = renamed.sid /\ top.info.title = renamed.title
                    /\ Found(renamed.sid, renamed.dir) = renamed.at =>
                         GetSessionInfo(renamed.sid, renamed.dir).title = renamed.title
  BY DEF RenameShows
<1> DEFINE sid == renamed.sid
           dir == renamed.dir
           t == renamed.title
           at == renamed.at
           lines == Lines(at, sid)
<1>1. sid \in Sids /\ dir \in Everywhere /\ at \in Everywhere /\ t \in Nat /\ t # None
      /\ renamed = [sid |-> sid, dir |-> dir, at |-> at, title |-> t]
  BY TypeParts DEF RenameInv
<1>2. Titled(at, sid, dir, t) /\ ~Head(lines).side
  BY <1>1 DEF RenameInv
<1> HIDE DEF sid, dir, t, at
<1>3. at \in Dirs /\ Last(lines) = TitleLine(t) /\ LastWritten(at, sid)
  BY <1>2 DEF Titled
<1>4. at # NoDir /\ at \in ToSet(SearchOrder(dir)) /\ lines # <<>>
  BY <1>2, <1>3, DirAssumption DEF Titled, Exists
<1>5. \A d \in Dirs, s \in Sids : files[d][s] \in FileType /\ Lines(d, s) \in Seq(LineType)
                                  /\ files[d][s].mtime \in Int
  <2>1. \A d \in Dirs, s \in Sids : files[d][s] \in FileType
    BY TypeParts
  <2> QED BY <2>1 DEF FileType, Lines
<1>6. Found(sid, dir) = at => GetSessionInfo(sid, dir) = LiteInfo(lines)
  BY <1>4 DEF GetSessionInfo
<1>7. LiteInfo(lines).title = t /\ LiteInfo(lines) # NoInfo
  <2>1. lines \in Seq(LineType)
    BY <1>1, <1>3, <1>5
  <2> HIDE DEF lines
  <2> QED BY <1>1, <1>2, <1>3, <1>4, <2>1, TitleShows
<1> DEFINE row(d, s) == [sid |-> s, mtime |-> files[d][s].mtime, info |-> LiteInfo(Lines(d, s))]
           all == UNION {ReadFromDir(d) : d \in ToSet(SearchOrder(dir))}
           infos == {i \in all : i.info # NoInfo}
           kept == Deduplicated(infos)
           x == row(at, sid)
<1>8. ASSUME NEW i \in all PROVE \E d \in Dirs, s \in Sids : i = row(d, s)
  <2>1. PICK d \in ToSet(SearchOrder(dir)) : i \in ReadFromDir(d)
    OBVIOUS
  <2>2. d \in Dirs
    <3>1. SearchOrder(dir) \in Seq(Dirs)
      BY <1>1, SearchOrderType
    <3> QED BY <3>1 DEF ToSet
  <2>3. PICK s \in Sids : i = row(d, s)
    BY <2>1 DEF ReadFromDir
  <2> QED BY <2>2, <2>3
<1>9. x \in infos
  <2>1. x \in ReadFromDir(at)
    BY <1>1 DEF ReadFromDir
  <2>2. x \in all
    BY <1>4, <2>1
  <2>3. x.info = LiteInfo(lines)
    OBVIOUS
  <2> HIDE DEF x, all, lines
  <2> QED BY <1>7, <2>2, <2>3
<1>10. x.sid = sid /\ x.mtime = files[at][sid].mtime /\ x.mtime \in Int /\ x.info = LiteInfo(lines)
  BY <1>1, <1>3, <1>5
<1>11. ASSUME NEW y \in all, y # x PROVE y.mtime \in Int /\ y.mtime < x.mtime
  <2> HIDE DEF all, x
  <2>1. PICK d \in Dirs, s \in Sids : y = row(d, s)
    BY <1>8
  <2>2. d # at \/ s # sid
    BY <1>11, <2>1 DEF x
  <2>3. y.mtime = files[d][s].mtime
    BY <2>1
  <2> QED BY <1>3, <1>5, <1>10, <2>2, <2>3 DEF LastWritten
<1>12. infos \subseteq all
  OBVIOUS
<1>13. IsFiniteSet(all)
  <2> DEFINE f == [p \in Dirs \X Sids |-> row(p[1], p[2])]
  <2>1. IsFiniteSet(Dirs \X Sids)
    BY SessionsAssumption, FS_Product
  <2>2. all \subseteq {f[p] : p \in Dirs \X Sids}
    <3> HIDE DEF all
    <3> SUFFICES ASSUME NEW i \in all PROVE \E p \in Dirs \X Sids : f[p] = i
      OBVIOUS
    <3>1. PICK d \in Dirs, s \in Sids : i = row(d, s)
      BY <1>8
    <3>2. <<d, s>> \in Dirs \X Sids /\ f[<<d, s>>] = row(d, s)
      OBVIOUS
    <3> QED BY <3>1, <3>2
  <2> HIDE DEF f, all
  <2> QED BY <2>1, <2>2, FiniteImage
<1>14. kept \subseteq infos /\ x \in kept
  <2>1. kept \subseteq infos
    BY DEF Deduplicated
  <2>2. \A j \in infos : j.mtime <= x.mtime
    <3> SUFFICES ASSUME NEW j \in infos PROVE j.mtime <= x.mtime
      OBVIOUS
    <3> HIDE DEF x, all
    <3> QED BY <1>10, <1>11, <1>12
  <2> HIDE DEF x, infos
  <2> QED BY <1>9, <2>1, <2>2 DEF Deduplicated
<1>15. /\ Newest(kept) # <<>> /\ Newest(kept)[1] = x
       /\ Newest(kept) \in Seq(ToSet(Newest(kept)))
  <2> HIDE DEF x, all, kept
  <2>1. kept \in SUBSET all
    BY <1>12, <1>14
  <2>2. IsFiniteSet(kept)
    BY <1>13, <2>1, FS_Subset
  <2>3. \A y \in kept : y # x => y.mtime \in Int /\ y.mtime < x.mtime
    BY <1>11, <2>1
  <2> QED BY <1>10, <1>14, <2>2, <2>3, NewestFirst
<1>16. Head(ListSessions(dir, 0, 1)) = x
  <2>1. ListSessions(dir, 0, 1) = Paged(Newest(kept), 0, 1)
    BY DEF ListSessions
  <2> HIDE DEF x, kept
  <2>2. Head(Paged(Newest(kept), 0, 1)) = Newest(kept)[1]
    BY <1>15, FirstOfPage
  <2> QED BY <1>15, <2>1, <2>2
<1> HIDE DEF x, lines
<1>17. Found(sid, dir) = at => GetSessionInfo(sid, dir).title = t
  BY <1>6, <1>7
<1>18. Head(ListSessions(dir, 0, 1)).sid = sid /\ Head(ListSessions(dir, 0, 1)).info.title = t
  BY <1>7, <1>10, <1>16
<1> QED
  BY <1>17, <1>18 DEF sid, dir, t, at

\* A session that was renamed is first in the listing, with its title, whichever of its
\* copies could be written, and shows it to a reader of that copy
\* (session_mutations.go RenameSession, sessions.go GetSessionInfo and ListSessions).
THEOREM RenamesShow == Spec => []RenameShows
  BY RenameInvariance, RenameHolds, PTL

(* ---- an import ---- *)

\* f[i] is how many of the wanted lines are met in the first i entries.
Meets(f, wanted, entries) ==
  /\ f[0] = 0
  /\ \A i \in 1..Len(entries) :
        f[i] = IF f[i - 1] < Len(wanted) /\ wanted[f[i - 1] + 1] = entries[i] THEN f[i - 1] + 1 ELSE f[i - 1]

LEMMA MetFold ==
  ASSUME NEW wanted \in Seq(LineType), NEW entries \in Seq(LineType)
  PROVE  \E f \in [0..Len(entries) -> 0..Len(wanted)] :
           Meets(f, wanted, entries) /\ Met(wanted, entries) = f[Len(entries)]
<1> DEFINE n == Len(entries)
           X == 0..Len(wanted)
           Step(m, l) == IF m < Len(wanted) /\ wanted[m + 1] = l THEN m + 1 ELSE m
           G == [p \in X \X LineType |-> Step(p[1], p[2])]
           Eq(f) == f = [i \in 0..Len(entries) |->
                           IF i = 0 THEN 0
                           ELSE IF f[i - 1] < Len(wanted) /\ wanted[f[i - 1] + 1] = entries[i]
                                THEN f[i - 1] + 1 ELSE f[i - 1]]
           f == CHOOSE f : Eq(f)
<1>1. n \in Nat /\ entries \in [1..n -> LineType] /\ Len(wanted) \in Nat /\ 0 \in X
  OBVIOUS
<1>2. G \in [X \X LineType -> X]
  <2>1. \A m \in X, l \in LineType : Step(m, l) \in X
    BY <1>1
  <2>2. \A p \in X \X LineType : p[1] \in X /\ p[2] \in LineType
    OBVIOUS
  <2> HIDE DEF Step, X
  <2> QED BY <2>1, <2>2
<1>3. \A m \in X, l \in LineType : G[<<m, l>>] = Step(m, l)
  <2> HIDE DEF X
  <2> QED OBVIOUS
<1> HIDE DEF G, X
<1>4. PICK h \in [0..n -> X] : Folds(h, G, entries, 0, n)
  BY <1>1, <1>2, FoldExists
<1>5. h[0] = 0 /\ \A i \in 1..n : h[i] = Step(h[i - 1], entries[i])
  <2>1. ASSUME NEW i \in 1..n PROVE h[i] = Step(h[i - 1], entries[i])
    <3>1. h[i - 1] \in X /\ entries[i] \in LineType
      BY <1>1
    <3> HIDE DEF Step
    <3> QED BY <1>3, <1>4, <3>1 DEF Folds
  <2> QED BY <1>4, <2>1 DEF Folds
<1>6. Eq(f)
  <2>1. h = [i \in 0..n |-> IF i = 0 THEN 0 ELSE Step(h[i - 1], entries[i])]
    <3> HIDE DEF Step
    <3> QED BY <1>5
  <2>2. Eq(h)
    BY <2>1
  <2> HIDE DEF Eq
  <2> QED BY <2>2
<1>7. Met(wanted, entries) = f[n]
  BY DEF Met
<1> HIDE DEF f
<1>8. f[0] = 0 /\ \A i \in 1..n : f[i] = Step(f[i - 1], entries[i])
  <2>1. f = [i \in 0..n |-> IF i = 0 THEN 0 ELSE Step(f[i - 1], entries[i])]
    BY <1>6
  <2> HIDE DEF Step
  <2> QED BY <1>1, <2>1, SMTT(60)
<1>9. \A i \in Nat : i <= n => f[i] = h[i]
  <2> DEFINE N == {i \in Nat : i <= n => f[i] = h[i]}
  <2>1. 0 \in N
    BY <1>5, <1>8
  <2>2. ASSUME NEW i \in Nat, i \in N PROVE i + 1 \in N
    <3> SUFFICES ASSUME i + 1 <= n PROVE f[i + 1] = h[i + 1]
      OBVIOUS
    <3>1. i + 1 \in 1..n /\ (i + 1) - 1 = i /\ f[i] = h[i]
      BY <1>1, <2>2
    <3> QED BY <1>5, <1>8, <3>1, SMTT(60)
  <2>3. Nat \subseteq N
    <3> HIDE DEF N
    <3> QED BY <2>1, <2>2, Induction
  <2> QED BY <2>3
<1>10. Meets(h, wanted, entries) /\ Met(wanted, entries) = h[n]
  BY <1>1, <1>5, <1>7, <1>9 DEF Meets
<1> QED
  BY <1>10 DEF X

\* The lines met in more entries are those met in the first of them, and more.
LEMMA MetInPrefix ==
  ASSUME NEW wanted \in Seq(LineType), NEW old \in Seq(LineType), NEW all \in Seq(LineType), Begins(old, all),
         NEW f \in [0..Len(all) -> 0..Len(wanted)], Meets(f, wanted, all)
  PROVE  f[Len(old)] = Met(wanted, old)
<1> DEFINE m == Len(old)
<1>1. PICK g \in [0..m -> 0..Len(wanted)] : Meets(g, wanted, old) /\ Met(wanted, old) = g[m]
  BY MetFold
<1>2. m \in Nat /\ Len(all) \in Nat /\ m <= Len(all)
  BY DEF Begins
<1> DEFINE N == {i \in Nat : i <= m => f[i] = g[i]}
<1>3. 0 \in N
  BY <1>1 DEF Meets
<1>4. ASSUME NEW i \in Nat, i \in N PROVE i + 1 \in N
  <2> SUFFICES ASSUME i + 1 <= m PROVE f[i + 1] = g[i + 1]
    OBVIOUS
  <2>1. i + 1 \in 1..m /\ i + 1 \in 1..Len(all) /\ (i + 1) - 1 = i /\ f[i] = g[i]
    BY <1>2, <1>4
  <2> DEFINE j == i + 1
  <2>2. j \in 1..Len(old) /\ j \in 1..Len(all) /\ j - 1 = i /\ old[j] = all[j]
    BY <2>1 DEF Begins
  <2> HIDE DEF j
  <2>3. f[j] = IF f[i] < Len(wanted) /\ wanted[f[i] + 1] = all[j] THEN f[i] + 1 ELSE f[i]
    BY <2>2 DEF Meets
  <2>4. g[j] = IF g[i] < Len(wanted) /\ wanted[g[i] + 1] = old[j] THEN g[i] + 1 ELSE g[i]
    BY <1>1, <2>2 DEF Meets
  <2>5. f[j] = g[j]
    BY <2>1, <2>2, <2>3, <2>4
  <2> QED BY <2>5 DEF j
<1>5. Nat \subseteq N
  <2> HIDE DEF N
  <2> QED BY <1>3, <1>4, Induction
<1> QED
  BY <1>1, <1>2, <1>5

LEMMA MetGrows ==
  ASSUME NEW wanted \in Seq(LineType), NEW old \in Seq(LineType), NEW all \in Seq(LineType), Begins(old, all)
  PROVE  /\ Met(wanted, old) \in Nat /\ Met(wanted, all) \in Nat
         /\ Met(wanted, old) <= Met(wanted, all) /\ Met(wanted, all) <= Len(wanted)
<1> DEFINE m == Len(old)
           n == Len(all)
<1>1. PICK f \in [0..n -> 0..Len(wanted)] : Meets(f, wanted, all) /\ Met(wanted, all) = f[n]
  BY MetFold
<1>2. f[m] = Met(wanted, old)
  BY <1>1, MetInPrefix
<1>3. m \in Nat /\ n \in Nat /\ m <= n /\ Len(wanted) \in Nat
  BY DEF Begins
<1> DEFINE N == {k \in Nat : m + k <= n => f[m] <= f[m + k]}
<1>4. 0 \in N
  BY <1>3
<1>5. ASSUME NEW k \in Nat, k \in N PROVE k + 1 \in N
  <2> SUFFICES ASSUME m + (k + 1) <= n PROVE f[m] <= f[m + (k + 1)]
    OBVIOUS
  <2>1. m + (k + 1) \in 1..n /\ m + (k + 1) - 1 = m + k /\ m + k \in 0..n /\ f[m] <= f[m + k]
    BY <1>3, <1>5
  <2>2. f[m + (k + 1)] = f[m + k] \/ f[m + (k + 1)] = f[m + k] + 1
    <3> DEFINE j == m + (k + 1)
               i == m + k
    <3>1. j \in 1..Len(all) /\ j - 1 = i
      BY <2>1
    <3> HIDE DEF j, i
    <3>2. f[j] = f[i] \/ f[j] = f[i] + 1
      BY <1>1, <3>1 DEF Meets
    <3> QED BY <3>2 DEF i, j
  <2>3. f[m] \in Nat /\ f[m + k] \in Nat
    BY <1>3, <2>1
  <2> QED BY <2>1, <2>2, <2>3
<1>6. Nat \subseteq N
  <2> HIDE DEF N
  <2> QED BY <1>4, <1>5, Induction
<1>7. f[m] <= f[n]
  <2>1. n - m \in Nat /\ m + (n - m) = n
    BY <1>3
  <2>2. n - m \in N
    BY <1>6, <2>1
  <2> QED BY <2>1, <2>2
<1> QED
  BY <1>1, <1>2, <1>3, <1>7

\* As many wanted lines are met as were read, or all of them are.
Keeps(pos, wanted, entries) ==
  pos <= Met(wanted, entries) \/ Met(wanted, entries) = Len(wanted)

\* A batch keeps up: it goes on in a source that begins with the wanted lines.
LEMMA MetBatch ==
  ASSUME NEW wanted \in Seq(LineType), NEW old \in Seq(LineType), NEW batch \in Seq(LineType),
         NEW source \in Seq(LineType), NEW pos \in Nat, Begins(wanted, source), Keeps(pos, wanted, old),
         pos + Len(batch) <= Len(source), \A i \in 1..Len(batch) : batch[i] = source[pos + i]
  PROVE  Keeps(pos + Len(batch), wanted, old \o batch)
<1> DEFINE m == Len(old)
           n == Len(batch)
           all == old \o batch
           w == Len(wanted)
<1>1. all \in Seq(LineType) /\ Len(all) = m + n /\ Begins(old, all) /\ m \in Nat /\ n \in Nat /\ w \in Nat
      /\ \A i \in 1..n : all[m + i] = batch[i]
  BY BeginsConcat
<1> HIDE DEF all
<1>2. PICK f \in [0..Len(all) -> 0..w] : Meets(f, wanted, all) /\ Met(wanted, all) = f[Len(all)]
  BY <1>1, MetFold
<1>3. f[m] = Met(wanted, old)
  BY <1>1, <1>2, MetInPrefix
<1> DEFINE Up(k) == pos + k <= f[m + k] \/ f[m + k] = w
           N == {k \in Nat : k <= n => Up(k)}
<1>4. 0 \in N
  BY <1>1, <1>3 DEF Keeps
<1>5. ASSUME NEW k \in Nat, k \in N PROVE k + 1 \in N
  <2> SUFFICES ASSUME k + 1 <= n PROVE Up(k + 1)
    OBVIOUS
  <2>1. k + 1 \in 1..n /\ m + (k + 1) \in 1..Len(all) /\ m + (k + 1) - 1 = m + k /\ Up(k) /\ m + k \in 0..Len(all)
    BY <1>1, <1>5
  <2>2. f[m + k] \in Nat /\ f[m + k] <= w
    BY <1>1, <1>2, <2>1, SMTT(60)
  <2>3. f[m + (k + 1)] = IF f[m + k] < w /\ wanted[f[m + k] + 1] = all[m + (k + 1)]
                         THEN f[m + k] + 1 ELSE f[m + k]
    <3> DEFINE j == m + (k + 1)
               i == m + k
    <3>1. j \in 1..Len(all) /\ j - 1 = i
      BY <2>1
    <3> HIDE DEF j, i
    <3>2. f[j] = IF f[i] < w /\ wanted[f[i] + 1] = all[j] THEN f[i] + 1 ELSE f[i]
      BY <1>2, <3>1 DEF Meets
    <3> QED BY <3>2 DEF i, j
  <2>4. CASE f[m + k] = w
    BY <1>1, <2>3, <2>4
  <2>5. CASE f[m + k] # w /\ pos + k < f[m + k]
    BY <2>2, <2>3, <2>5
  <2>6. CASE f[m + k] # w /\ pos + k = f[m + k]
    <3>1. f[m + k] < w /\ pos + (k + 1) = f[m + k] + 1 /\ pos + (k + 1) \in 1..w
      BY <1>1, <2>2, <2>6
    <3>2. wanted[pos + (k + 1)] = source[pos + (k + 1)]
      BY <3>1 DEF Begins
    <3>3. all[m + (k + 1)] = source[pos + (k + 1)]
      BY <1>1, <2>1
    <3> QED BY <2>2, <2>3, <3>1, <3>2, <3>3
  <2>7. f[m + k] = w \/ pos + k < f[m + k] \/ pos + k = f[m + k]
    <3> DEFINE a == f[m + k]
    <3>1. a \in Nat /\ (pos + k <= a \/ a = w)
      BY <2>1, <2>2
    <3> HIDE DEF a, w
    <3>2. a = w \/ pos + k < a \/ pos + k = a
      BY <3>1
    <3> QED BY <3>2 DEF a
  <2> HIDE DEF Up
  <2> QED BY <2>4, <2>5, <2>6, <2>7
<1>6. Nat \subseteq N
  <2> HIDE DEF N
  <2> QED BY <1>4, <1>5, Induction
<1>7. Up(n)
  <2>1. n \in N /\ n <= n
    BY <1>1, <1>6
  <2> HIDE DEF Up
  <2> QED BY <2>1
<1> QED
  BY <1>1, <1>2, <1>7 DEF Keeps, all

\* Transcripts that are there and the store only grow.
FilesGrow == \A d \in Dirs, s \in Sids : Exists(d, s) => Begins(Lines(d, s), Lines(d, s)')
StoreGrows == \A key \in Keys : Begins(Load(key), Load(key)')
Grows == UNCHANGED import /\ FilesGrow /\ StoreGrows

LEMMA BeginsItself == \A s \in Seq(LineType) : Begins(s, s)
  BY DEF Begins

LEMMA BeginsOn ==
  ASSUME NEW s \in Seq(LineType), NEW t \in Seq(LineType), NEW u \in Seq(LineType), Begins(s, t), Begins(t, u)
  PROVE  Begins(s, u)
  BY DEF Begins

LEMMA FileTypes ==
  ASSUME files \in [Dirs -> [Sids -> FileType]], NEW d \in Dirs, NEW s \in Sids
  PROVE  files[d][s] \in FileType /\ Lines(d, s) \in Seq(LineType)
<1>1. files[d][s] \in FileType
  OBVIOUS
<1> QED
  BY <1>1 DEF FileType, Lines

LEMMA UnchangedGrows ==
  ASSUME TypeOK
  PROVE  /\ UNCHANGED files => FilesGrow
         /\ UNCHANGED data => StoreGrows
<1>1. ASSUME UNCHANGED files PROVE FilesGrow
  <2> SUFFICES ASSUME NEW d \in Dirs, NEW s \in Sids PROVE Begins(Lines(d, s), Lines(d, s)')
    BY DEF FilesGrow
  <2>1. Lines(d, s) \in Seq(LineType)
    BY TypeParts, FileTypes
  <2>2. Lines(d, s)' = Lines(d, s)
    BY <1>1 DEF Lines
  <2> QED BY <2>1, <2>2, BeginsItself
<1>2. ASSUME UNCHANGED data PROVE StoreGrows
  <2> SUFFICES ASSUME NEW key \in Keys PROVE Begins(Load(key), Load(key)')
    BY DEF StoreGrows
  <2>1. Load(key) \in Seq(LineType)
    BY TypeParts, StoredTypes
  <2>2. Load(key)' = Load(key)
    BY <1>2 DEF Load
  <2> QED BY <2>1, <2>2, BeginsItself
<1> QED
  BY <1>1, <1>2

\* A copy is rewritten with lines that begin with its own, or it was not there.
LEMMA RewrittenGrows ==
  ASSUME TypeOK, NEW d \in Dirs, NEW s \in Sids, NEW f \in FileType, Rewritten(d, s, f),
         Exists(d, s) => Begins(Lines(d, s), f.lines)
  PROVE  FilesGrow
<1> SUFFICES ASSUME NEW e \in Dirs, NEW t \in Sids, Exists(e, t) PROVE Begins(Lines(e, t), Lines(e, t)')
  BY DEF FilesGrow
<1>1. files'[d][s] = f /\ ((e # d \/ t # s) => files'[e][t] = files[e][t])
  BY TypeParts, RewrittenIs
<1>2. Lines(e, t) \in Seq(LineType)
  BY TypeParts, FileTypes
<1>3. CASE e = d /\ t = s
  BY <1>1, <1>3 DEF Lines
<1>4. CASE e # d \/ t # s
  <2>1. Lines(e, t)' = Lines(e, t)
    BY <1>1, <1>4 DEF Lines
  <2> QED BY <1>2, <2>1, BeginsItself
<1> QED
  BY <1>3, <1>4

LEMMA AppendToGrows ==
  ASSUME TypeOK, NEW d \in Dirs, NEW s \in Sids, NEW line \in LineType, AppendTo(d, s, line)
  PROVE  FilesGrow
<1>1. PICK f \in FileType : Rewritten(d, s, f) /\ f.lines = Append(Lines(d, s), line)
  BY TypeParts, AppendToRewrites
<1>2. Lines(d, s) \in Seq(LineType)
  BY TypeParts, FileTypes
<1> DEFINE ls == Lines(d, s)
<1> HIDE DEF ls
<1>3. Begins(ls, Append(ls, line))
  BY <1>2 DEF Begins, ls
<1> QED
  BY <1>1, <1>3, RewrittenGrows DEF ls

LEMMA StoreAppendGrows ==
  ASSUME TypeOK, NEW key \in Keys, NEW entries \in Seq(LineType), StoreAppend(key, entries)
  PROVE  StoreGrows
<1> SUFFICES ASSUME NEW k \in Keys PROVE Begins(Load(k), Load(k)')
  BY DEF StoreGrows
<1>1. Gains(key, entries)
  BY TypeParts, StoreAppendIs
<1>2. Load(k) \in Seq(LineType)
  BY TypeParts, StoredTypes
<1>3. CASE k = key
  <2>1. Load(k)' = Load(k) \o entries
    BY <1>1, <1>3 DEF Gains, Load
  <2> QED BY <1>2, <2>1, BeginsConcat
<1>4. CASE k # key
  <2>1. Load(k)' = Load(k)
    BY <1>1, <1>4 DEF Gains, Load
  <2> QED BY <1>2, <2>1, BeginsItself
<1> QED
  BY <1>3, <1>4

LEMMA CliWritesGrows == TypeOK /\ CliWrites => Grows
<1> SUFFICES ASSUME TypeOK, CliWrites PROVE Grows
  OBVIOUS
<1>1. PICK d \in Dirs, s \in Sids, kind \in Written :
        /\ AppendTo(d, s, Line(kind, FALSE))
        /\ \/ d \in StoreDirs /\ StoreAppend(Key("name", d, s), <<Line(kind, FALSE)>>)
           \/ UNCHANGED <<data, summaries>>
  BY DEF CliWrites
<1> DEFINE line == Line(kind, FALSE)
<1>2. line \in LineType
  <2>1. kind \in Kinds /\ clock \in Nat
    BY SessionsAssumption, TypeParts
  <2> QED BY <2>1, LineTypes
<1> HIDE DEF line
<1>3. FilesGrow
  BY <1>1, <1>2, AppendToGrows DEF line
<1>4. StoreGrows
  <2>1. CASE d \in StoreDirs /\ StoreAppend(Key("name", d, s), <<line>>)
    <3>1. Key("name", d, s) \in Keys /\ <<line>> \in Seq(LineType)
      BY <1>2, <2>1, KeyTypes
    <3> QED BY <2>1, <3>1, StoreAppendGrows
  <2> QED BY <1>1, <2>1, UnchangedGrows DEF line
<1> QED
  BY <1>3, <1>4 DEF Grows, CliWrites

LEMMA CliWritesAgentGrows == TypeOK /\ CliWritesAgent => Grows
<1> SUFFICES ASSUME TypeOK, CliWritesAgent PROVE Grows
  OBVIOUS
<1>1. PICK d \in Dirs, s \in Sids :
        files' = [files EXCEPT ![d][s].agent = Append(@, Line("prompt", TRUE))]
  BY DEF CliWritesAgent
<1>2. ASSUME NEW e \in Dirs, NEW t \in Sids PROVE Begins(Lines(e, t), Lines(e, t)')
  <2>1. files[e][t] \in FileType /\ Lines(e, t) \in Seq(LineType) /\ files \in [Dirs -> [Sids -> FileType]]
    BY TypeParts, FileTypes
  <2>2. Lines(e, t)' = Lines(e, t)
    BY <1>1, <2>1 DEF Lines, FileType
  <2> QED BY <2>1, <2>2, BeginsItself
<1> QED
  BY <1>2, UnchangedGrows DEF Grows, FilesGrow, CliWritesAgent

LEMMA AppendsGrows ==
  ASSUME TypeOK, NEW s \in Sids, NEW dir \in Everywhere, NEW refusing, NEW line \in LineType,
         Appends(s, dir, refusing, line)
  PROVE  Grows
<1>1. PICK d \in Dirs : d = Opened(s, dir, refusing)
  BY OpenedIs DEF Appends
<1>2. AppendTo(d, s, line) /\ UNCHANGED data /\ UNCHANGED import
  BY <1>1 DEF Appends
<1> QED
  BY <1>2, AppendToGrows, UnchangedGrows DEF Grows

LEMMA MutationsGrow ==
  ASSUME TypeOK, NEW s \in Sids, NEW dir \in Everywhere, NEW refusing, Mutates(s, dir, refusing)
  PROVE  Grows
<1>1. Now \in Nat /\ None \in Nat
  BY TypeParts DEF Now
<1>2. TitleLine(Now) \in LineType /\ TagLine(Now) \in LineType /\ TagLine(None) \in LineType
  BY <1>1, LineTypes
<1> QED
  BY <1>2, AppendsGrows DEF Mutates, RenameSession, TagSession, ClearTag

LEMMA ForkSessionGrows ==
  ASSUME TypeOK, NEW s \in Sids, NEW t \in Sids, NEW dir \in Everywhere, ForkSession(s, t, dir)
  PROVE  Grows
<1> DEFINE d == Found(s, dir)
           f == Fork(Lines(d, s))
<1>1. d \in Dirs /\ f \in FileType /\ Rewritten(d, t, f)
  BY ForkIs
<1>2. ~Exists(d, t) /\ UNCHANGED data /\ UNCHANGED import
  BY <1>1 DEF ForkSession
<1> HIDE DEF d, f
<1>3. FilesGrow
  BY <1>1, <1>2, RewrittenGrows
<1> QED
  BY <1>2, <1>3, UnchangedGrows DEF Grows

\* The calls on the store by path.
LEMMA ByPathGrows ==
  ASSUME TypeOK, NEW key \in Keys, NEW entries \in Seq(LineType), StoreAppend(key, entries),
         UNCHANGED <<files, import>>
  PROVE  Grows
  BY StoreAppendGrows, UnchangedGrows DEF Grows

LEMMA AppendsViaStoreGrows ==
  ASSUME TypeOK, NEW s \in Sids, NEW d \in StoreDirs, NEW line \in {TitleLine(Now), TagLine(Now), TagLine(None)},
         AppendsViaStore(s, d, line)
  PROVE  Grows
<1>1. Now \in Nat /\ None \in Nat
  BY TypeParts DEF Now
<1>2. <<line>> \in Seq(LineType) /\ Key("path", d, s) \in Keys
  <2>1. line \in LineType
    BY <1>1, LineTypes
  <2> QED BY <2>1, KeyTypes
<1> QED
  BY <1>2, ByPathGrows DEF AppendsViaStore

LEMMA ForkSessionViaStoreGrows ==
  ASSUME TypeOK, NEW s \in Sids, NEW t \in Sids, NEW d \in StoreDirs, ForkSessionViaStore(s, t, d)
  PROVE  Grows
<1> DEFINE entries == Load(Key("path", d, s))
           new == Append(Copied(entries), TitleLine(StoreForkTitle(entries)))
<1>1. Key("path", d, s) \in Keys /\ Key("path", d, t) \in Keys
  BY KeyTypes
<1>2. entries \in Seq(LineType)
  BY <1>1, TypeParts, StoredTypes
<1>3. StoreAppend(Key("path", d, t), new) /\ UNCHANGED <<files, import>>
  BY DEF ForkSessionViaStore
<1> HIDE DEF entries
<1>4. new \in Seq(LineType)
  <2>1. TitleLine(StoreForkTitle(entries)) \in LineType /\ Copied(entries) \in Seq(LineType)
    BY <1>2, LineTypes, RecentTypes, CopiedType
  <2> QED BY <2>1, AppendType
<1> HIDE DEF new
<1> QED
  BY <1>1, <1>3, <1>4, ByPathGrows

LEMMA HostAppendsGrows ==
  ASSUME TypeOK, NEW key \in Keys, NEW kind \in Written, NEW side \in BOOLEAN, HostAppends(key, kind, side)
  PROVE  Grows
<1>1. <<Line(kind, side)>> \in Seq(LineType)
  <2>1. kind \in Kinds /\ clock \in Nat
    BY SessionsAssumption, TypeParts
  <2>2. Line(kind, side) \in LineType
    BY <2>1, LineTypes
  <2> QED BY <2>2
<1> QED
  BY <1>1, ByPathGrows DEF HostAppends

\* What holds of an import i that reads `source`, when its main transcript is stored
\* as `entries` and `there` tells whether its file is still there.
MainGood(i, source, entries, there) ==
  /\ i.frozen \/ there
  /\ Begins(i.wanted, source)
  /\ Keeps(i.pos, i.wanted, entries)
  /\ i.total = i.pos /\ i.appended = i.pos

ImportGood(i, source, entries, there) ==
  /\ i.state = "on" /\ i.file = "main" => MainGood(i, source, entries, there)
  /\ i.state = "on" /\ i.file = "agent" =>
       Met(i.wanted, entries) = Len(i.wanted) /\ i.total + i.pos = i.appended
  /\ i.state = "done" => Met(i.wanted, entries) = Len(i.wanted) /\ i.total = i.appended
  /\ i.state = "failed" /\ i.file = "main" => i.total = i.appended

ImportInv == ImportGood(import, Source, Load(MainKey), Exists(import.dir, import.sid))

\* The main transcript being read is still there if it was, and only grew.
ReadOn(i, source, longer, there, still) ==
  i.state = "on" /\ i.file = "main" =>
    /\ source \in Seq(LineType) /\ longer \in Seq(LineType)
    /\ Begins(source, longer) /\ (i.frozen \/ (there => still))

LEMMA GoodGrows ==
  ASSUME NEW i \in ImportType, NEW source, NEW entries \in Seq(LineType), NEW there \in BOOLEAN,
         ImportGood(i, source, entries, there),
         NEW longer, NEW more \in Seq(LineType), NEW still \in BOOLEAN, Begins(entries, more),
         ReadOn(i, source, longer, there, still)
  PROVE  ImportGood(i, longer, more, still)
<1>1. i.wanted \in Seq(LineType) /\ i.pos \in Nat /\ Len(i.wanted) \in Nat
  BY DEF ImportType
<1>2. /\ Met(i.wanted, entries) \in Nat /\ Met(i.wanted, more) \in Nat
      /\ Met(i.wanted, entries) <= Met(i.wanted, more) /\ Met(i.wanted, more) <= Len(i.wanted)
  BY <1>1, MetGrows
<1>3. Met(i.wanted, entries) = Len(i.wanted) => Met(i.wanted, more) = Len(i.wanted)
  BY <1>1, <1>2
<1>4. Keeps(i.pos, i.wanted, entries) => Keeps(i.pos, i.wanted, more)
  BY <1>1, <1>2 DEF Keeps
<1>5. ASSUME i.state = "on", i.file = "main" PROVE MainGood(i, longer, more, still)
  <2>1. MainGood(i, source, entries, there) /\ Begins(source, longer)
        /\ source \in Seq(LineType) /\ longer \in Seq(LineType)
    BY <1>5 DEF ImportGood, ReadOn
  <2>2. Begins(i.wanted, longer)
    BY <1>1, <2>1, BeginsOn DEF MainGood
  <2>3. i.frozen \/ still
    BY <1>5, <2>1 DEF MainGood, ReadOn
  <2> QED BY <1>4, <2>1, <2>2, <2>3 DEF MainGood
<1> QED
  BY <1>3, <1>5 DEF ImportGood

\* Freezing the file keeps all of it.
LEMMA GoodFrozen ==
  ASSUME NEW source, NEW entries, NEW there, ImportGood(import, source, entries, there),
         NEW i, SameImport(i), i.state = "on" => i.frozen, NEW still
  PROVE  ImportGood(i, source, entries, still)
  BY DEF ImportGood, MainGood, SameImport

LEMMA MetNothing == \A entries \in Seq(LineType) : Met(<<>>, entries) = 0
<1> SUFFICES ASSUME NEW entries \in Seq(LineType) PROVE Met(<<>>, entries) = 0
  OBVIOUS
<1>1. <<>> \in Seq(LineType) /\ Len(<<>>) = 0
  OBVIOUS
<1>2. Met(<<>>, entries) \in Nat /\ Met(<<>>, entries) <= Len(<<>>)
  BY <1>1, BeginsItself, MetGrows
<1> QED
  BY <1>1, <1>2

\* An import whose transcript is deleted wants nothing.
LEMMA GoodForgotten ==
  ASSUME import \in ImportType, NEW source \in Seq(LineType), NEW entries \in Seq(LineType),
         NEW old, NEW there, ImportGood(import, source, old, there)
  PROVE  ImportGood(Forgotten, source, entries, there)
<1>1. Met(<<>>, entries) = 0 /\ Len(<<>>) = 0
  BY MetNothing
<1>2. /\ Forgotten.state = import.state /\ Forgotten.file = import.file /\ Forgotten.frozen = import.frozen
      /\ Forgotten.pos = import.pos /\ Forgotten.total = import.total
      /\ Forgotten.appended = import.appended /\ Forgotten.wanted = <<>>
  BY DEF Forgotten, ImportType
<1>3. Begins(<<>>, source)
  BY <1>1 DEF Begins
<1>4. Keeps(import.pos, <<>>, entries)
  BY <1>1 DEF Keeps
<1> HIDE DEF Forgotten
<1> QED
  BY <1>1, <1>2, <1>3, <1>4 DEF ImportGood, MainGood

\* The state of the import, with the variables fixed.
LEMMA ImportView ==
  ASSUME TypeOK
  PROVE  /\ import \in ImportType
         /\ import.state # "none" => import.dir \in Dirs /\ import.sid \in Sids /\ MainKey \in Keys
                                     /\ Source \in Seq(LineType) /\ Load(MainKey) \in Seq(LineType)
<1>1. import \in ImportType
  BY TypeParts DEF ImportOK
<1>2. ASSUME import.state # "none"
      PROVE  import.dir \in Dirs /\ import.sid \in Sids /\ MainKey \in Keys /\ Source \in Seq(LineType)
             /\ Load(MainKey) \in Seq(LineType)
  <2>1. import.dir \in Dirs /\ import.sid \in Sids
    BY <1>2, SessionsAssumption, TypeParts DEF ImportOK
  <2>2. MainKey \in Keys /\ Source \in Seq(LineType)
    BY <1>2, TypeParts, ImportKeys, SourceType
  <2>3. Load(MainKey) \in Seq(LineType)
    BY <2>2, TypeParts, StoredTypes
  <2> QED BY <2>1, <2>2, <2>3
<1> QED
  BY <1>1, <1>2

LEMMA NoneGood == \A i, source, entries, there : i.state = "none" => ImportGood(i, source, entries, there)
  BY DEF ImportGood

\* While others write, an import stays as it is.
LEMMA ImportWhileOthersWrite == TypeOK /\ TypeOK' /\ ImportInv /\ Grows => ImportInv'
<1> SUFFICES ASSUME TypeOK, TypeOK', ImportInv, Grows PROVE ImportInv'
  OBVIOUS
<1>1. import' = import /\ FilesGrow /\ StoreGrows
  BY DEF Grows
<1> DEFINE there == Exists(import.dir, import.sid)
<1>2. PICK i, old, before : i = import /\ old = Source /\ before = Load(MainKey)
  OBVIOUS
<1>3. PICK new, after : new = Source' /\ after = Load(MainKey)'
  OBVIOUS
<1>4. PICK was \in BOOLEAN : was <=> there
  BY Zenon
<1>5. PICK is \in BOOLEAN : is <=> there'
  BY Zenon
<1>6. ImportGood(i, old, before, was)
  <2>1. ImportGood(import, Source, Load(MainKey), there)
    BY DEF ImportInv
  <2> QED BY <1>2, <1>4, <2>1 DEF ImportGood, MainGood
<1>7. CASE import.state = "none"
  BY <1>1, <1>7, NoneGood DEF ImportInv, ImportGood
<1>8. CASE import.state # "none"
  <2>1. i \in ImportType /\ i.dir \in Dirs /\ i.sid \in Sids /\ old \in Seq(LineType) /\ before \in Seq(LineType)
        /\ MainKey \in Keys
    BY <1>2, <1>8, ImportView
  <2>2. PICK key \in Keys : key = MainKey
    BY <2>1
  <2>3. PICK d \in Dirs, s \in Sids : d = i.dir /\ s = i.sid
    BY <2>1
  <2>4. before = Load(key) /\ after = Load(key)'
    BY <1>1, <1>2, <1>3, <2>2 DEF MainKey, Load, Key
  <2>5. Begins(before, after) /\ after \in Seq(LineType)
    <3>1. Begins(Load(key), Load(key)')
      BY <1>1 DEF StoreGrows
    <3>2. data' \in [Keys -> DataType]
      BY DEF TypeOK
    <3>3. Load(key)' \in Seq(LineType)
      BY <3>2 DEF Load, DataType
    <3> QED BY <2>4, <3>1, <3>3
  <2>6. Exists(d, s) => Begins(Lines(d, s), Lines(d, s)')
    BY <1>1 DEF FilesGrow
  <2>7. was <=> Exists(d, s)
    BY <1>2, <1>4, <2>3
  <2>8. is <=> Exists(d, s)'
    BY <1>1, <1>2, <1>5, <2>3 DEF Exists, Lines
  <2>9. Lines(d, s) \in Seq(LineType) /\ Lines(d, s)' \in Seq(LineType)
    <3>1. files' \in [Dirs -> [Sids -> FileType]]
      BY DEF TypeOK
    <3>2. files'[d][s] \in FileType
      BY <3>1
    <3>3. Lines(d, s)' \in Seq(LineType)
      BY <3>2 DEF Lines, FileType
    <3> QED BY <3>3, TypeParts, FileTypes
  <2>10. was => is
    BY <2>6, <2>7, <2>8, <2>9 DEF Exists, Begins
  <2>11. ASSUME i.state = "on", i.file = "main"
         PROVE  new \in Seq(LineType) /\ Begins(old, new)
    <3>1. old = (IF i.frozen THEN i.lines ELSE Lines(d, s))
      BY <1>2, <2>3, <2>11 DEF Source
    <3>2. new = IF i.frozen THEN i.lines ELSE Lines(d, s)'
      BY <1>1, <1>2, <1>3, <2>3, <2>11 DEF Source, Lines
    <3>3. CASE i.frozen
      BY <2>1, <3>1, <3>2, <3>3, BeginsItself
    <3>4. CASE ~i.frozen
      <4>1. Exists(d, s)
        BY <1>6, <2>7, <2>11, <3>4 DEF ImportGood, MainGood
      <4> QED BY <2>6, <2>9, <3>1, <3>2, <3>4, <4>1
    <3> QED BY <3>3, <3>4
  <2>12. ReadOn(i, old, new, was, is)
    BY <2>1, <2>10, <2>11 DEF ReadOn
  <2>13. ImportGood(i, new, after, is)
    <3>1. was \in BOOLEAN /\ is \in BOOLEAN
      OBVIOUS
    <3> QED BY ONLY <1>6, <2>1, <2>5, <2>12, <3>1, GoodGrows, Zenon
  <2> QED BY <1>1, <1>2, <1>3, <1>5, <2>13 DEF ImportInv, ImportGood, MainGood
<1> QED
  BY <1>7, <1>8

\* A step that leaves what the import has done and read as it is.
LEMMA ImportAsItWas ==
  ASSUME ImportInv, SameImport(import'),
         import.state # "none" => Load(MainKey)' = Load(MainKey),
         import.state = "on" /\ import.file = "main" =>
           Source' = Source /\ (import'.frozen \/ (~import.frozen /\ Exists(import.dir, import.sid)'))
  PROVE  ImportInv'
  BY DEF ImportInv, ImportGood, MainGood, SameImport

LEMMA DeleteSessionKeepsImport ==
  ASSUME TypeOK, ImportInv, NEW s \in Sids, NEW dir \in Everywhere, DeleteSession(s, dir)
  PROVE  ImportInv'
<1> DEFINE d == Found(s, dir)
<1>1. /\ d \in Dirs /\ Rewritten(d, s, NoFile) /\ UNCHANGED data
      /\ import' = IF import.dir = d /\ import.sid = s THEN Frozen ELSE import
  BY FoundIs DEF DeleteSession, Rewritten
<1> HIDE DEF d
<1>2. /\ Frozen \in ImportType /\ SameImport(Frozen)
      /\ Importing => Frozen.frozen /\ Frozen.lines = Source
  BY TypeParts, FrozenIs
<1>3. SameImport(import')
  BY <1>1, <1>2 DEF SameImport
<1>4. Load(MainKey)' = Load(MainKey)
  BY <1>1, <1>3 DEF SameImport, MainKey, Load, Key
<1>5. ASSUME import.state = "on", import.file = "main"
      PROVE  Source' = Source /\ (import'.frozen \/ (~import.frozen /\ Exists(import.dir, import.sid)'))
  <2>1. CASE import.dir = d /\ import.sid = s
    BY <1>1, <1>2, <1>5, <2>1 DEF Importing, Source
  <2>2. CASE ~(import.dir = d /\ import.sid = s)
    <3>1. import' = import /\ import.dir \in Dirs /\ import.sid \in Sids
      BY <1>1, <1>5, <2>2, ImportView
    <3>2. NoFile \in FileType
      BY DEF NoFile, FileType
    <3>3. files'[import.dir][import.sid] = files[import.dir][import.sid]
      BY <1>1, <2>2, <3>1, <3>2, TypeParts, RewrittenIs
    <3>4. Lines(import.dir, import.sid)' = Lines(import.dir, import.sid)
      BY <3>1, <3>3 DEF Lines
    <3>5. Source' = Source
      BY <1>5, <3>1, <3>4 DEF Source
    <3>6. import.frozen \/ Exists(import.dir, import.sid)
      BY <1>5 DEF ImportInv, ImportGood, MainGood
    <3> QED BY <3>1, <3>4, <3>5, <3>6 DEF Exists
  <2> QED BY <2>1, <2>2
<1> QED
  BY <1>3, <1>4, <1>5, ImportAsItWas

LEMMA DeletesFromStoreKeepsImport ==
  ASSUME TypeOK, TypeOK', ImportInv, NEW key \in Keys, DeletesFromStore(key)
  PROVE  ImportInv'
<1>1. /\ UNCHANGED files /\ Loses(key)
      /\ import' = IF key = [ImportKey EXCEPT !.sub = FALSE] THEN Forgotten ELSE import
  BY TypeParts, StoreDeleteIs DEF DeletesFromStore
<1>2. /\ import \in ImportType
      /\ Forgotten.state = import.state /\ Forgotten.file = import.file /\ Forgotten.frozen = import.frozen
      /\ Forgotten.dir = import.dir /\ Forgotten.sid = import.sid /\ Forgotten.lines = import.lines
  BY ImportView DEF Forgotten, ImportType
<1>3. CASE import.state = "none"
  BY <1>1, <1>2, <1>3, NoneGood DEF ImportInv
<1>4. CASE import.state # "none"
  <2>1. /\ MainKey = [ImportKey EXCEPT !.sub = FALSE] /\ MainKey \in Keys /\ ~MainKey.sub
        /\ Source \in Seq(LineType)
    BY <1>4, TypeParts, ImportKeys, ImportView
  <2>2. CASE key = MainKey
    <3>1. import' = Forgotten
      BY <1>1, <2>1, <2>2
    <3>2. PICK source \in Seq(LineType) : source = Source
      BY <2>1
    <3>3. PICK there \in BOOLEAN : there <=> Exists(import.dir, import.sid)
      BY Zenon
    <3>4. PICK entries \in Seq(LineType) : entries = Load(key)'
      <4>1. data' \in [Keys -> DataType]
        BY DEF TypeOK
      <4>2. Load(key)' \in Seq(LineType)
        BY <4>1 DEF Load, DataType
      <4> QED BY <4>2
    <3>5. PICK old : old = Load(MainKey)
      OBVIOUS
    <3>6. ImportGood(import, source, old, there)
      BY <3>2, <3>3, <3>5 DEF ImportInv, ImportGood, MainGood
    <3>7. ImportGood(Forgotten, source, entries, there)
      BY <1>2, <3>6, GoodForgotten
    <3>8. Source' = source /\ (Exists(import.dir, import.sid)' <=> there)
      BY <1>1, <1>2, <3>1, <3>2, <3>3 DEF Source, Exists, Lines
    <3>9. Load(MainKey)' = entries
      BY <1>2, <2>2, <3>1, <3>4 DEF Load, MainKey, Key
    <3> HIDE DEF Forgotten
    <3> QED BY <3>1, <3>7, <3>8, <3>9 DEF ImportInv, ImportGood, MainGood
  <2>3. CASE key # MainKey
    <3>1. import' = import
      BY <1>1, <2>1, <2>3
    <3>2. MainKey \notin GoneWith(key)
      <4>1. SubKey(key).sub
        BY KeyTypes
      <4>2. MainKey # SubKey(key)
        BY <2>1, <4>1
      <4> QED BY <2>3, <4>2 DEF GoneWith
    <3>3. Load(MainKey)' = Load(MainKey)
      BY <1>1, <2>1, <3>1, <3>2 DEF Loses, Load, MainKey, Key
    <3>4. Source' = Source /\ (Exists(import.dir, import.sid)' <=> Exists(import.dir, import.sid))
      BY <1>1, <3>1 DEF Source, Exists, Lines
    <3> QED BY <3>1, <3>3, <3>4 DEF ImportInv, ImportGood, MainGood
  <2> QED BY <2>2, <2>3
<1> QED
  BY <1>3, <1>4

LEMMA MetBounds ==
  ASSUME NEW wanted \in Seq(LineType), NEW entries \in Seq(LineType)
  PROVE  Met(wanted, entries) \in Nat /\ Met(wanted, entries) <= Len(wanted)
  BY BeginsItself, MetGrows

LEMMA ImportStartsWell ==
  ASSUME TypeOK, NEW s \in Sids, NEW dir \in Everywhere, ImportStarts(s, dir)
  PROVE  ImportInv'
<1> DEFINE d == Found(s, dir)
<1>1. d \in StoreDirs /\ d \in Dirs /\ Exists(d, s) /\ UNCHANGED <<files, data>>
  <2>1. d \in StoreDirs /\ UNCHANGED <<files, data>>
    BY DEF ImportStarts
  <2>2. d \in Dirs /\ d # NoDir
    BY <2>1, SessionsAssumption, DirAssumption
  <2> QED BY <2>1, <2>2, FoundIs
<1>2. PICK agents \in BOOLEAN : import' = Begun(d, s, agents)
  BY DEF ImportStarts, Begun
<1> HIDE DEF d
<1> DEFINE lines == Lines(d, s)
           entries == Load(Key("name", d, s))
<1>3. lines \in Seq(LineType) /\ entries \in Seq(LineType)
  BY <1>1, TypeParts, FileTypes, KeyTypes, StoredTypes
<1>4. /\ import'.state = "on" /\ import'.dir = d /\ import'.sid = s /\ import'.wanted = lines
      /\ import'.file = "main" /\ ~import'.frozen /\ import'.pos = 0 /\ import'.total = 0
      /\ import'.appended = 0
  BY <1>1, <1>2, <1>3, BegunIs
<1>5. Source' = lines /\ Load(MainKey)' = entries
  BY <1>1, <1>4 DEF Source, Lines, Load, MainKey, Key
<1>6. Exists(import.dir, import.sid)'
  BY <1>1, <1>4 DEF Exists, Lines
<1> HIDE DEF lines, entries
<1>7. Begins(lines, lines) /\ Keeps(0, lines, entries)
  BY <1>3, BeginsItself, MetBounds DEF Keeps
<1> QED
  BY <1>4, <1>5, <1>6, <1>7 DEF ImportInv, ImportGood, MainGood

\* Appending to the key of the import keeps the main transcript but for what it gains.
LEMMA ImportAppends ==
  ASSUME TypeOK, import.state # "none", NEW entries \in Seq(LineType), StoreAppend(ImportKey, entries),
         import'.dir = import.dir, import'.sid = import.sid
  PROVE  /\ import.file = "main" => Load(MainKey)' = Load(MainKey) \o entries
         /\ import.file # "main" => Load(MainKey)' = Load(MainKey)
<1>1. /\ ImportKey \in Keys /\ (ImportKey.sub <=> import.file # "main")
      /\ MainKey \in Keys /\ ~MainKey.sub
      /\ import.file = "main" => ImportKey = MainKey
  BY TypeParts, ImportKeys
<1>2. PICK key \in Keys : key = ImportKey
  BY <1>1
<1>3. Gains(key, entries)
  BY <1>2, TypeParts, StoreAppendIs
<1>4. MainKey' = MainKey
  BY DEF MainKey, Key
<1>5. PICK main \in Keys : main = MainKey
  BY <1>1
<1>6. Load(MainKey)' = data'[main].entries /\ Load(MainKey) = data[main].entries
  BY <1>4, <1>5 DEF Load
<1>7. CASE import.file = "main"
  BY <1>1, <1>2, <1>3, <1>5, <1>6, <1>7 DEF Gains, Load
<1>8. CASE import.file # "main"
  <2>1. main # key
    BY <1>1, <1>2, <1>5, <1>8
  <2> QED BY <1>3, <1>6, <1>8, <2>1 DEF Gains
<1> QED
  BY <1>7, <1>8

LEMMA ImportBatchGoesOn == TypeOK /\ ImportInv /\ ImportBatch => ImportInv'
<1> SUFFICES ASSUME TypeOK, ImportInv, ImportBatch PROVE ImportInv'
  OBVIOUS
<1> DEFINE batch == Batch(import.pos)
           n == Len(batch)
<1>1. /\ Source \in Seq(LineType) /\ batch \in Seq(LineType) /\ import.pos \in Nat
      /\ n >= 1 /\ import.pos + n <= Len(Source)
      /\ \A i \in 1..n : batch[i] = Source[import.pos + i]
      /\ BatchLater(import', n)
  BY ImportBatchIs
<1>2. StoreAppend(ImportKey, batch) /\ UNCHANGED files /\ import.state = "on"
  BY DEF ImportBatch, Importing
<1> HIDE DEF batch
<1>3. /\ import'.state = "on" /\ import'.dir = import.dir /\ import'.sid = import.sid
      /\ import'.file = import.file /\ import'.wanted = import.wanted
      /\ import'.pos = import.pos + n /\ import'.appended = import.appended + n
      /\ import'.total = IF import.file = "main" THEN import.total + n ELSE import.total
  BY <1>1, <1>2 DEF BatchLater
<1>4. /\ import \in ImportType /\ import.total \in Nat /\ import.appended \in Nat /\ n \in Nat
      /\ import.wanted \in Seq(LineType) /\ Load(MainKey) \in Seq(LineType)
      /\ import.file \in {"main", "agent"}
  BY <1>1, <1>2, ImportView DEF ImportType
<1>5. /\ import.file = "main" => Load(MainKey)' = Load(MainKey) \o batch
      /\ import.file # "main" => Load(MainKey)' = Load(MainKey)
  BY <1>1, <1>2, <1>3, ImportAppends
<1>6. CASE import.file = "main"
  <2>1. MainGood(import, Source, Load(MainKey), Exists(import.dir, import.sid))
    BY <1>2, <1>6 DEF ImportInv, ImportGood
  <2>2. PICK source \in Seq(LineType), old \in Seq(LineType), wanted \in Seq(LineType), pos \in Nat :
          source = Source /\ old = Load(MainKey) /\ wanted = import.wanted /\ pos = import.pos
    BY <1>1, <1>4
  <2>3. Begins(wanted, source) /\ Keeps(pos, wanted, old)
    BY <2>1, <2>2 DEF MainGood
  <2>4. Keeps(pos + n, wanted, old \o batch)
    BY <1>1, <2>2, <2>3, MetBatch
  <2>5. Source' = source
    <3>1. /\ n < BatchSize => import'.frozen /\ import'.lines = Source
          /\ ~(n < BatchSize) => import'.frozen = import.frozen /\ import'.lines = import.lines
      BY <1>1 DEF BatchLater
    <3> QED BY <1>2, <1>3, <1>6, <2>2, <3>1 DEF Source, Lines
  <2>6. import'.frozen \/ Exists(import.dir, import.sid)'
    <3>1. import.frozen => import'.frozen
      BY <1>1 DEF BatchLater
    <3> QED BY <1>2, <1>3, <2>1, <3>1 DEF MainGood, Exists, Lines
  <2>7. import'.total = import'.pos /\ import'.appended = import'.pos
    BY <1>1, <1>3, <1>4, <1>6, <2>1 DEF MainGood
  <2>8. Begins(import'.wanted, Source') /\ Keeps(import'.pos, import'.wanted, Load(MainKey)')
    BY <1>3, <1>5, <1>6, <2>2, <2>3, <2>4, <2>5
  <2> QED BY <1>3, <1>6, <2>6, <2>7, <2>8 DEF ImportInv, ImportGood, MainGood
<1>7. CASE import.file = "agent"
  <2>1. Met(import.wanted, Load(MainKey)) = Len(import.wanted) /\ import.total + import.pos = import.appended
    BY <1>2, <1>7 DEF ImportInv, ImportGood
  <2>2. import'.total + import'.pos = import'.appended
    BY <1>1, <1>3, <1>4, <1>7, <2>1
  <2> QED BY <1>3, <1>5, <1>7, <2>1, <2>2 DEF ImportInv, ImportGood
<1> QED
  BY <1>4, <1>6, <1>7

LEMMA ImportFailsWell == TypeOK /\ ImportInv /\ ImportFails => ImportInv'
<1> SUFFICES ASSUME TypeOK, ImportInv, ImportFails PROVE ImportInv'
  OBVIOUS
<1>1. import \in ImportType /\ import.state = "on" /\ import' = [import EXCEPT !.state = "failed"]
  BY ImportView DEF ImportFails, Importing
<1>2. /\ import'.state = "failed" /\ import'.file = import.file
      /\ import'.total = import.total /\ import'.appended = import.appended
  BY <1>1 DEF ImportType
<1> QED
  BY <1>1, <1>2 DEF ImportInv, ImportGood, MainGood

LEMMA ImportMainEndsWell == TypeOK /\ ImportInv /\ ImportMainEnds => ImportInv'
<1> SUFFICES ASSUME TypeOK, ImportInv, ImportMainEnds PROVE ImportInv'
  OBVIOUS
<1>1. import.state = "on" /\ import.file = "main" /\ import.pos >= Len(Source) /\ UNCHANGED data
  BY DEF ImportMainEnds, Importing
<1>2. /\ import'.dir = import.dir /\ import'.sid = import.sid /\ import'.wanted = import.wanted
      /\ import'.total = import.total /\ import'.appended = import.appended
      /\ AgentNext \/ MainWasAll
  BY ImportMainEndsIs
<1>3. /\ import.pos \in Nat /\ import.total \in Nat /\ import.wanted \in Seq(LineType)
      /\ Source \in Seq(LineType) /\ Load(MainKey) \in Seq(LineType)
  BY <1>1, ImportView DEF ImportType
<1>4. MainGood(import, Source, Load(MainKey), Exists(import.dir, import.sid))
  BY <1>1 DEF ImportInv, ImportGood
<1>5. Met(import.wanted, Load(MainKey)) = Len(import.wanted)
  <2> DEFINE met == Met(import.wanted, Load(MainKey))
  <2>1. met \in Nat /\ met <= Len(import.wanted)
    BY <1>3, MetBounds
  <2>2. import.pos <= met \/ met = Len(import.wanted)
    BY <1>4 DEF MainGood, Keeps
  <2>3. Len(import.wanted) <= Len(Source) /\ Len(import.wanted) \in Nat /\ Len(Source) \in Nat
    BY <1>3, <1>4 DEF MainGood, Begins
  <2> HIDE DEF met
  <2>4. met = Len(import.wanted)
    BY <1>1, <1>3, <2>1, <2>2, <2>3
  <2> QED BY <2>4 DEF met
<1>6. import.total = import.appended
  BY <1>4 DEF MainGood
<1>7. Load(MainKey)' = Load(MainKey)
  BY <1>1, <1>2 DEF Load, MainKey, Key
<1>8. CASE AgentNext
  <2>1. import'.total + import'.pos = import'.appended
    BY <1>2, <1>3, <1>6, <1>8 DEF AgentNext
  <2> QED BY <1>2, <1>5, <1>7, <1>8, <2>1 DEF ImportInv, ImportGood, AgentNext
<1>9. CASE MainWasAll
  BY <1>2, <1>5, <1>6, <1>7, <1>9 DEF ImportInv, ImportGood, MainWasAll
<1> QED
  BY <1>2, <1>8, <1>9

LEMMA ImportAgentEndsWell == TypeOK /\ ImportInv /\ ImportAgentEnds => ImportInv'
<1> SUFFICES ASSUME TypeOK, ImportInv, ImportAgentEnds PROVE ImportInv'
  OBVIOUS
<1>1. import.state = "on" /\ import.file = "agent"
  BY DEF ImportAgentEnds, Importing
<1>2. /\ import'.dir = import.dir /\ import'.sid = import.sid /\ import'.wanted = import.wanted
      /\ import'.file = "agent"
      /\ AgentGone \/ AgentRead \/ AgentReadToo
  BY ImportAgentEndsIs
<1>3. Met(import.wanted, Load(MainKey)) = Len(import.wanted) /\ import.total + import.pos = import.appended
  BY <1>1 DEF ImportInv, ImportGood
<1>4. import.pos \in Nat /\ import.total \in Nat /\ import.appended \in Nat
  BY ImportView DEF ImportType
<1>5. CASE AgentGone
  BY <1>2, <1>5 DEF ImportInv, ImportGood, AgentGone
<1>6. CASE AgentRead
  <2>1. Load(MainKey)' = Load(MainKey)
    BY <1>2, <1>6 DEF AgentRead, Load, MainKey, Key
  <2> QED BY <1>2, <1>3, <1>6, <2>1 DEF ImportInv, ImportGood, AgentRead
<1>7. CASE AgentReadToo
  <2>1. <<AgentMetadataLine>> \in Seq(LineType)
    BY TypeParts, MetadataLine
  <2>2. Load(MainKey)' = Load(MainKey)
    BY <1>1, <1>2, <1>7, <2>1, ImportAppends DEF AgentReadToo
  <2>3. import'.total = import'.appended
    BY <1>3, <1>4, <1>7 DEF AgentReadToo
  <2> QED BY <1>2, <1>3, <1>7, <2>2, <2>3 DEF ImportInv, ImportGood, AgentReadToo
<1> QED
  BY <1>2, <1>5, <1>6, <1>7

LEMMA ImportStep == TypeOK /\ TypeOK' /\ ImportInv /\ [Next]_vars => ImportInv'
<1> SUFFICES ASSUME TypeOK, TypeOK', ImportInv, [Next]_vars PROVE ImportInv'
  OBVIOUS
<1>1. Grows => ImportInv'
  BY ImportWhileOthersWrite
<1>2. CASE UNCHANGED vars
  BY <1>1, <1>2, UnchangedGrows DEF vars, Grows
<1>3. CASE CliWrites \/ CliWritesAgent
  BY <1>1, <1>3, CliWritesGrows, CliWritesAgentGrows
<1>4. CASE \E s \in Sids, dir \in Everywhere :
             \/ \E refusing \in SUBSET Dirs : Mutates(s, dir, refusing)
             \/ DeleteSession(s, dir)
             \/ \E t \in Sids : ForkSession(s, t, dir)
             \/ ImportStarts(s, dir)
  <2>1. PICK s \in Sids, dir \in Everywhere :
             \/ \E refusing \in SUBSET Dirs : Mutates(s, dir, refusing)
             \/ DeleteSession(s, dir)
             \/ \E t \in Sids : ForkSession(s, t, dir)
             \/ ImportStarts(s, dir)
    BY <1>4
  <2>2. CASE \E refusing \in SUBSET Dirs : Mutates(s, dir, refusing)
    BY <1>1, <2>2, MutationsGrow
  <2>3. CASE DeleteSession(s, dir)
    BY <2>3, DeleteSessionKeepsImport
  <2>4. CASE \E t \in Sids : ForkSession(s, t, dir)
    BY <1>1, <2>4, ForkSessionGrows
  <2>5. CASE ImportStarts(s, dir)
    BY <2>5, ImportStartsWell
  <2> QED BY <2>1, <2>2, <2>3, <2>4, <2>5
<1>5. CASE \E s \in Sids, d \in StoreDirs :
             \/ \E line \in {TitleLine(Now), TagLine(Now), TagLine(None)} : AppendsViaStore(s, d, line)
             \/ \E t \in Sids : ForkSessionViaStore(s, t, d)
  BY <1>1, <1>5, AppendsViaStoreGrows, ForkSessionViaStoreGrows
<1>6. CASE \E key \in Keys :
             \/ DeletesFromStore(key)
             \/ \E kind \in Written, side \in BOOLEAN : HostAppends(key, kind, side)
  BY <1>1, <1>6, DeletesFromStoreKeepsImport, HostAppendsGrows
<1>7. CASE ImportBatch \/ ImportFails \/ ImportMainEnds \/ ImportAgentEnds
  BY <1>7, ImportBatchGoesOn, ImportFailsWell, ImportMainEndsWell, ImportAgentEndsWell
<1> QED
  BY <1>2, <1>3, <1>4, <1>5, <1>6, <1>7 DEF Next, Mutates

LEMMA ImportInvariance == Spec => [](TypeOK /\ ImportInv)
<1>1. Init => ImportInv
  <2> SUFFICES ASSUME Init PROVE ImportInv
    OBVIOUS
  <2>1. import.state = "none"
    BY DEF Init, NoImport
  <2> QED BY <2>1 DEF ImportInv, ImportGood
<1>2. TypeOK /\ TypeOK' /\ ImportInv /\ [Next]_vars => ImportInv'
  BY ImportStep
<1> QED
  BY <1>1, <1>2, SessionsTypes, PTL DEF Spec

\* While the CLI writes on, the mirror appends to the same key, files are deleted and the
\* store fails, an import that ends has stored, in their order, the lines there were when
\* it began, unless they were deleted from the store since, and counts what it appended;
\* one that fails in the main transcript counts so too.
\* (session_import.go ImportSessionToStore)
THEOREM ImportsComplete == Spec => []ImportComplete
<1>1. TypeOK /\ ImportInv => ImportComplete
  <2> SUFFICES ASSUME TypeOK, ImportInv PROVE ImportComplete
    OBVIOUS
  <2>1. CASE import.state = "none"
    BY <2>1 DEF ImportComplete
  <2>2. CASE import.state # "none"
    <3>1. MainKey = [ImportKey EXCEPT !.sub = FALSE]
      BY <2>2, TypeParts, ImportKeys
    <3> QED BY <3>1 DEF ImportComplete, ImportInv, ImportGood
  <2> QED BY <2>1, <2>2
<1> QED
  BY <1>1, ImportInvariance, PTL

===============================================================================
