--------------------------- MODULE SequenceLemmas ---------------------------
(***************************************************************************)
(* Facts about FlattenSeq, in which the specifications express filtering   *)
(* and joining sequences, about the first and last of a set of positions,  *)
(* and about what is folded along a sequence.  They are proved by          *)
(* induction: a set of naturals with 0 and the successors of its elements  *)
(* holds every natural, which follows from the well-foundedness of < on    *)
(* the naturals.                                                           *)
(***************************************************************************)
EXTENDS SequencesExt, FiniteSetsExt, SequenceTheorems, WellFoundedInduction, TLAPS

(* ---- induction, over sets ---- *)

Below == {p \in Nat \X Nat : p[1] < p[2]}

\* A set of naturals that is not empty has a least element.
LEMMA LeastNatural ==
  ASSUME NEW T, T \subseteq Nat, T # {}
  PROVE  \E m \in T : \A k \in T : m <= k
<1>1. IsWellFoundedOn(Below, Nat)
  <2>1. OpToRel(<, Nat) = Below
    BY DEF OpToRel, Below
  <2> QED BY <2>1, NatLessThanWellFounded
<1>2. PICK m \in T : \A k \in T : ~(<<k, m>> \in Below)
  BY <1>1, WFMin
<1>3. ASSUME NEW k \in T PROVE m <= k
  <2>1. <<k, m>> \in Nat \X Nat /\ k \in Nat /\ m \in Nat
    OBVIOUS
  <2>2. ~(k < m)
    BY <1>2, <2>1 DEF Below
  <2> QED BY <2>1, <2>2
<1> QED
  BY <1>3

LEMMA Induction ==
  ASSUME NEW S, 0 \in S, \A n \in Nat : n \in S => n + 1 \in S
  PROVE  Nat \subseteq S
<1> SUFFICES ASSUME NEW n \in Nat, n \notin S PROVE FALSE
  OBVIOUS
<1> DEFINE T == {m \in Nat : m \notin S}
<1>1. PICK m \in T : \A k \in T : m <= k
  <2>1. T \subseteq Nat /\ T # {}
    OBVIOUS
  <2> HIDE DEF T
  <2> QED BY <2>1, LeastNatural
<1>2. m # 0 /\ m - 1 \in Nat /\ m - 1 \in S
  BY <1>1
<1> QED
  BY <1>2

(* ---- the function FlattenSeq defines ---- *)

\* f[i] joins the first i of the sequences ss, for i up to n.
Joins(f, ss, n) == \A i \in 1..n : f[i] = IF i = 1 THEN ss[i] ELSE f[i - 1] \o ss[i]

LEMMA ConcatType ==
  ASSUME NEW S, NEW s \in Seq(S), NEW t \in Seq(S)
  PROVE  s \o t \in Seq(S)
OBVIOUS

Agree(f, g, n) == \A i \in 1..n : f[i] = g[i]

LEMMA JoinExists ==
  ASSUME NEW S
  PROVE  \A n \in Nat : \A ss \in [1..n -> Seq(S)] : \E f \in [1..n -> Seq(S)] : Joins(f, ss, n)
<1> DEFINE Good(n) == \A ss \in [1..n -> Seq(S)] : \E f \in [1..n -> Seq(S)] : Joins(f, ss, n)
           N == {n \in Nat : Good(n)}
<1>1. Good(0)
  <2> SUFFICES ASSUME NEW ss \in [1..0 -> Seq(S)] PROVE Joins(ss, ss, 0)
    OBVIOUS
  <2> QED BY DEF Joins
<1>2. ASSUME NEW n \in Nat, Good(n) PROVE Good(n + 1)
  <2> SUFFICES ASSUME NEW ss \in [1..(n + 1) -> Seq(S)]
               PROVE  \E f \in [1..(n + 1) -> Seq(S)] : Joins(f, ss, n + 1)
    OBVIOUS
  <2> DEFINE tt == [i \in 1..n |-> ss[i]]
  <2>1. tt \in [1..n -> Seq(S)] /\ \A i \in 1..n : tt[i] = ss[i]
    OBVIOUS
  <2> HIDE DEF tt
  <2>2. PICK f \in [1..n -> Seq(S)] : Joins(f, tt, n)
    BY <1>2, <2>1
  <2> DEFINE last == IF n = 0 THEN ss[1] ELSE f[n] \o ss[n + 1]
             g == [i \in 1..(n + 1) |-> IF i = n + 1 THEN last ELSE f[i]]
  <2>3. last \in Seq(S)
    <3>1. CASE n = 0
      BY <3>1
    <3>2. CASE n # 0
      BY <3>2, ConcatType
    <3> QED BY <3>1, <3>2
  <2>4. g \in [1..(n + 1) -> Seq(S)] /\ g[n + 1] = last /\ \A i \in 1..n : g[i] = f[i]
    <3> HIDE DEF last
    <3> QED BY <2>3
  <2> HIDE DEF g
  <2>5. ASSUME NEW i \in 1..(n + 1) PROVE g[i] = IF i = 1 THEN ss[i] ELSE g[i - 1] \o ss[i]
    <3>1. CASE i \in 1..n
      <4>1. g[i] = f[i] /\ (i # 1 => i - 1 \in 1..n /\ g[i - 1] = f[i - 1])
        BY <2>4, <3>1
      <4> QED BY <2>1, <2>2, <3>1, <4>1 DEF Joins
    <3>2. CASE i = n + 1 /\ n = 0
      BY <2>4, <3>2
    <3>3. CASE i = n + 1 /\ n # 0
      <4>1. i - 1 = n /\ n \in 1..n /\ i # 1
        BY <3>3
      <4> QED BY <2>4, <3>3, <4>1
    <3> QED BY <3>1, <3>2, <3>3
  <2> QED BY <2>4, <2>5 DEF Joins
<1>3. Nat \subseteq N
  <2> HIDE DEF Good
  <2>1. 0 \in N /\ \A n \in Nat : n \in N => n + 1 \in N
    BY <1>1, <1>2
  <2> HIDE DEF N
  <2> QED BY <2>1, Induction
<1> QED
  BY <1>3

\* What is joined of a part does not depend on the rest.
LEMMA JoinPrefix ==
  ASSUME NEW m \in Nat, NEW n \in Nat, m <= n, NEW ss, NEW tt, \A i \in 1..m : ss[i] = tt[i],
         NEW f, NEW g, Joins(f, ss, m), Joins(g, tt, n)
  PROVE  \A i \in 1..m : f[i] = g[i]
<1> DEFINE N == {k \in Nat : k \in 1..m => f[k] = g[k]}
<1>1. 0 \in N
  OBVIOUS
<1>2. ASSUME NEW k \in Nat, k \in N PROVE k + 1 \in N
  <2> SUFFICES ASSUME k + 1 \in 1..m PROVE f[k + 1] = g[k + 1]
    OBVIOUS
  <2>1. CASE k = 0
    BY <2>1 DEF Joins
  <2>2. CASE k # 0
    <3>1. k \in 1..m /\ k + 1 # 1 /\ k + 1 \in 1..n /\ (k + 1) - 1 = k
      BY <2>2
    <3>2. f[k + 1] = f[k] \o ss[k + 1] /\ g[k + 1] = g[k] \o tt[k + 1]
      BY <3>1 DEF Joins
    <3> QED BY <1>2, <3>1, <3>2
  <2> QED BY <2>1, <2>2
<1>3. Nat \subseteq N
  <2> HIDE DEF N
  <2> QED BY <1>1, <1>2, Induction
<1> QED
  BY <1>3

LEMMA JoinExtends ==
  ASSUME NEW n \in Nat, NEW ss, NEW tt, Agree(ss, tt, n),
         NEW f, NEW g, Joins(f, ss, n), Joins(g, tt, n + 1)
  PROVE  Agree(f, g, n)
<1> DEFINE m == n + 1
<1>1. m \in Nat /\ n <= m /\ Joins(g, tt, m)
  OBVIOUS
<1> HIDE DEF m
<1> QED
  BY <1>1, JoinPrefix DEF Agree

\* FlattenSeq is the last value of such a function.
LEMMA FlattenIsJoin ==
  ASSUME NEW S, NEW ss \in Seq(Seq(S)), Len(ss) # 0
  PROVE  \E f \in [1..Len(ss) -> Seq(S)] : FlattenSeq(ss) = f[Len(ss)] /\ Joins(f, ss, Len(ss))
<1> DEFINE Eq(f) == f = [i \in 1..Len(ss) |-> IF i = 1 THEN ss[i] ELSE f[i - 1] \o ss[i]]
           f == CHOOSE f : Eq(f)
<1>1. Len(ss) \in Nat /\ ss \in [1..Len(ss) -> Seq(S)]
  OBVIOUS
<1>2. PICK h \in [1..Len(ss) -> Seq(S)] : Joins(h, ss, Len(ss))
  BY <1>1, JoinExists
<1>3. Eq(f)
  <2>1. h = [i \in 1..Len(ss) |-> IF i = 1 THEN ss[i] ELSE h[i - 1] \o ss[i]]
    BY <1>2 DEF Joins
  <2>2. Eq(h)
    BY <2>1
  <2> HIDE DEF Eq
  <2> QED BY <2>2
<1>4. FlattenSeq(ss) = f[Len(ss)]
  BY DEF FlattenSeq
<1> HIDE DEF f
<1>5. Joins(f, ss, Len(ss)) /\ f = [i \in 1..Len(ss) |-> f[i]]
  BY <1>3 DEF Joins
<1>6. \A i \in 1..Len(ss) : f[i] = h[i]
  <2> DEFINE n == Len(ss)
  <2>1. n \in Nat /\ n <= n /\ Joins(f, ss, n) /\ Joins(h, ss, n)
    BY <1>1, <1>2, <1>5
  <2> HIDE DEF n
  <2>2. \A i \in 1..n : f[i] = h[i]
    BY ONLY <2>1, JoinPrefix
  <2> QED BY <2>2 DEF n
<1>7. f \in [1..Len(ss) -> Seq(S)]
  BY <1>5, <1>6
<1> QED
  BY <1>4, <1>5, <1>7

(* ---- FlattenSeq ---- *)

LEMMA FlattenEmpty == FlattenSeq(<<>>) = <<>>
BY DEF FlattenSeq

LEMMA FlattenType ==
  ASSUME NEW S, NEW ss \in Seq(Seq(S))
  PROVE  FlattenSeq(ss) \in Seq(S)
<1>1. CASE Len(ss) = 0
  <2>1. ss = <<>>
    BY <1>1
  <2>2. <<>> \in Seq(S)
    OBVIOUS
  <2> QED BY <2>1, <2>2, FlattenEmpty
<1>2. CASE Len(ss) # 0
  <2>1. Len(ss) \in 1..Len(ss)
    BY <1>2
  <2> QED BY <1>2, <2>1, FlattenIsJoin, SMTT(60)
<1> QED
  BY <1>1, <1>2

LEMMA FlattenAppend ==
  ASSUME NEW S, NEW ss \in Seq(Seq(S)), NEW s \in Seq(S)
  PROVE  FlattenSeq(Append(ss, s)) = FlattenSeq(ss) \o s
<1> DEFINE n  == Len(ss)
           tt == Append(ss, s)
<1>1. /\ n \in Nat /\ tt \in Seq(Seq(S)) /\ Len(tt) = n + 1 /\ tt[n + 1] = s
      /\ \A i \in 1..n : tt[i] = ss[i]
  OBVIOUS
<1>2. (n = 0 => ss = <<>>) /\ <<>> \o s = s
  OBVIOUS
<1>3. n # 0 => \E f \in [1..n -> Seq(S)] : FlattenSeq(ss) = f[n] /\ Joins(f, ss, n)
  BY FlattenIsJoin
<1> HIDE DEF tt, n
<1>4. PICK g \in [1..(n + 1) -> Seq(S)] : FlattenSeq(tt) = g[n + 1] /\ Joins(g, tt, n + 1)
  <2>1. tt \in Seq(Seq(S)) /\ Len(tt) # 0
    BY <1>1
  <2>2. \E g \in [1..Len(tt) -> Seq(S)] : FlattenSeq(tt) = g[Len(tt)] /\ Joins(g, tt, Len(tt))
    BY ONLY <2>1, FlattenIsJoin
  <2> QED BY <1>1, <2>2
<1>5. CASE n = 0
  <2>1. g[1] = s
    BY <1>1, <1>4, <1>5 DEF Joins
  <2> QED BY <1>2, <1>4, <1>5, <2>1, FlattenEmpty DEF tt
<1>6. CASE n # 0
  <2>1. PICK f \in [1..n -> Seq(S)] : FlattenSeq(ss) = f[n] /\ Joins(f, ss, n)
    BY <1>3, <1>6
  <2>2. f[n] = g[n]
    <3>1. /\ n \in Nat /\ Joins(f, ss, n) /\ Joins(g, tt, n + 1)
          /\ Agree(ss, tt, n)
      BY <1>1, <1>4, <2>1 DEF Agree
    <3>2. Agree(f, g, n)
      BY <3>1, JoinExtends
    <3>3. n \in 1..n
      BY <1>1, <1>6
    <3> QED BY <3>2, <3>3 DEF Agree
  <2>3. g[n + 1] = g[n] \o s
    <3>1. n + 1 \in 1..(n + 1) /\ n + 1 # 1 /\ (n + 1) - 1 = n
      BY <1>1, <1>6
    <3> QED BY <1>1, <1>4, <3>1 DEF Joins
  <2> QED BY <1>4, <2>1, <2>2, <2>3 DEF tt
<1> QED
  BY <1>5, <1>6

LEMMA FlattenOne ==
  ASSUME NEW S, NEW s \in Seq(S)
  PROVE  FlattenSeq(<<s>>) = s
<1>1. <<s>> = Append(<<>>, s) /\ <<>> \in Seq(Seq(S)) /\ <<>> \o s = s
  OBVIOUS
<1> QED
  BY <1>1, FlattenAppend, FlattenEmpty

LEMMA AppendType ==
  ASSUME NEW S, NEW s \in Seq(S), NEW x \in S
  PROVE  Append(s, x) \in Seq(S) /\ Len(Append(s, x)) = Len(s) + 1 /\ Len(s) \in Nat /\ Append(s, x) # <<>>
OBVIOUS

LEMMA TailType ==
  ASSUME NEW S, NEW s \in Seq(S), s # <<>>
  PROVE  /\ Head(s) \in S /\ Tail(s) \in Seq(S)
         /\ Len(s) \in Nat /\ Len(s) >= 1 /\ Len(Tail(s)) = Len(s) - 1
OBVIOUS

LEMMA PairAppend ==
  ASSUME NEW S, NEW x \in S, NEW y \in S
  PROVE  Append(<<x>>, y) = <<x, y>>
<1> DEFINE s == <<x>>
           t == <<x, y>>
<1>1. s \in Seq(S) /\ Len(s) = 1 /\ s[1] = x
  OBVIOUS
<1>2. t \in Seq(S) /\ Len(t) = 2 /\ t[1] = x /\ t[2] = y
  OBVIOUS
<1> HIDE DEF s, t
<1>3. Append(s, y) \in Seq(S) /\ Len(Append(s, y)) = 2 /\ Append(s, y)[1] = x /\ Append(s, y)[2] = y
  <2>1. /\ Append(s, y) \in Seq(S) /\ Len(Append(s, y)) = Len(s) + 1
        /\ \A i \in 1..Len(s) : Append(s, y)[i] = s[i]
        /\ Append(s, y)[Len(s) + 1] = y
    <3>0. s \in Seq(S) /\ y \in S /\ Len(s) \in Nat
      BY <1>1
    <3>1. Append(s, y) \in Seq(S) /\ Len(Append(s, y)) = Len(s) + 1
      BY ONLY <3>0
    <3>2. \A i \in 1..Len(s) : Append(s, y)[i] = s[i]
      BY ONLY <3>0
    <3>3. Append(s, y)[Len(s) + 1] = y
      BY ONLY <3>0
    <3> QED BY ONLY <3>1, <3>2, <3>3
  <2>2. Len(s) + 1 = 2 /\ 1 \in 1..Len(s)
    BY <1>1
  <2> QED BY ONLY <1>1, <2>1, <2>2
<1>4. \A i \in 1..2 : i = 1 \/ i = 2
  OBVIOUS
<1>5. Append(s, y) = t
  BY <1>2, <1>3, <1>4, SeqEqual
<1> QED
  BY <1>5 DEF s, t

\* Concatenation is associative.
LEMMA ConcatAssoc ==
  ASSUME NEW S, NEW s \in Seq(S), NEW t \in Seq(S), NEW u \in Seq(S)
  PROVE  (s \o t) \o u = s \o (t \o u)
OBVIOUS

\* The head of one sequence becomes the last of the one before it.
LEMMA HeadMoves ==
  ASSUME NEW S, NEW s \in Seq(S), NEW t \in Seq(S), t # <<>>
  PROVE  Append(s, Head(t)) \o Tail(t) = s \o t
<1>1. /\ Head(t) \in S /\ Tail(t) \in Seq(S) /\ <<Head(t)>> \in Seq(S)
      /\ t = <<Head(t)>> \o Tail(t) /\ Append(s, Head(t)) = s \o <<Head(t)>>
  OBVIOUS
<1> QED
  BY <1>1, ConcatAssoc, SMTT(60)

LEMMA HeadOfConcat ==
  ASSUME NEW S, NEW s \in Seq(S), NEW t \in Seq(S), s # <<>>
  PROVE  s \o t # <<>> /\ Head(s \o t) = Head(s) /\ Tail(s \o t) = Tail(s) \o t
OBVIOUS

\* The part before the last element.
\* t is s without its last element.
Splits(T, s, n) == \E t \in Seq(T) : Len(t) = n /\ s[n + 1] \in T /\ s = Append(t, s[n + 1])

LEMMA SplitLast ==
  ASSUME NEW S, NEW s \in Seq(S), NEW n \in Nat, Len(s) = n + 1
  PROVE  Splits(S, s, n)
<1> DEFINE t == SubSeq(s, 1, n)
<1>1. t \in Seq(S) /\ Len(t) = n /\ s[n + 1] \in S
  OBVIOUS
<1>2. s = Append(t, s[n + 1])
  OBVIOUS
<1> HIDE DEF t
<1> QED
  BY <1>1, <1>2 DEF Splits

LEMMA FlattenConcat ==
  ASSUME NEW S
  PROVE  \A ss, tt \in Seq(Seq(S)) : FlattenSeq(ss \o tt) = FlattenSeq(ss) \o FlattenSeq(tt)
<1> DEFINE Good(n) == \A ss, tt \in Seq(Seq(S)) :
                        Len(tt) = n => FlattenSeq(ss \o tt) = FlattenSeq(ss) \o FlattenSeq(tt)
           N == {n \in Nat : Good(n)}
<1>1. Good(0)
  <2> SUFFICES ASSUME NEW ss \in Seq(Seq(S)), NEW tt \in Seq(Seq(S)), Len(tt) = 0
               PROVE  FlattenSeq(ss \o tt) = FlattenSeq(ss) \o FlattenSeq(tt)
    OBVIOUS
  <2>1. tt = <<>> /\ ss \o tt = ss
    OBVIOUS
  <2>2. FlattenSeq(ss) \in Seq(S)
    BY FlattenType
  <2>3. FlattenSeq(ss) \o <<>> = FlattenSeq(ss)
    BY <2>2
  <2> QED BY <2>1, <2>3, FlattenEmpty
<1>2. ASSUME NEW n \in Nat, Good(n) PROVE Good(n + 1)
  <2> SUFFICES ASSUME NEW ss \in Seq(Seq(S)), NEW tt \in Seq(Seq(S)), Len(tt) = n + 1
               PROVE  FlattenSeq(ss \o tt) = FlattenSeq(ss) \o FlattenSeq(tt)
    OBVIOUS
  <2> DEFINE s == tt[n + 1]
  <2>0. Splits(Seq(S), tt, n)
    BY SplitLast, Zenon
  <2>1. PICK uu \in Seq(Seq(S)) : Len(uu) = n /\ s \in Seq(S) /\ tt = Append(uu, s)
    BY <2>0, Zenon DEF Splits
  <2> HIDE DEF s
  <2>2. ss \o tt = Append(ss \o uu, s) /\ ss \o uu \in Seq(Seq(S))
    BY <2>1
  <2>3. FlattenSeq(ss \o uu) = FlattenSeq(ss) \o FlattenSeq(uu)
    BY <1>2, <2>1
  <2>4. FlattenSeq(ss \o tt) = FlattenSeq(ss \o uu) \o s
    BY <2>1, <2>2, FlattenAppend
  <2>5. FlattenSeq(tt) = FlattenSeq(uu) \o s
    BY <2>1, FlattenAppend
  <2>6. FlattenSeq(ss) \in Seq(S) /\ FlattenSeq(uu) \in Seq(S)
    BY <2>1, FlattenType
  <2> QED BY <2>1, <2>3, <2>4, <2>5, <2>6, ConcatAssoc, SMTT(60)
<1>3. Nat \subseteq N
  <2> HIDE DEF Good
  <2>1. 0 \in N /\ \A n \in Nat : n \in N => n + 1 \in N
    BY <1>1, <1>2
  <2> HIDE DEF N
  <2> QED BY <2>1, Induction
<1>4. \A n \in Nat : Good(n)
  <2> HIDE DEF Good
  <2> QED BY <1>3
<1> SUFFICES ASSUME NEW ss \in Seq(Seq(S)), NEW tt \in Seq(Seq(S))
             PROVE  FlattenSeq(ss \o tt) = FlattenSeq(ss) \o FlattenSeq(tt)
  OBVIOUS
<1>5. Len(tt) \in Nat
  OBVIOUS
<1> QED
  BY <1>4, <1>5

LEMMA FlattenHead ==
  ASSUME NEW S, NEW ss \in Seq(Seq(S)), ss # <<>>
  PROVE  FlattenSeq(ss) = Head(ss) \o FlattenSeq(Tail(ss))
<1>1. Head(ss) \in Seq(S) /\ Tail(ss) \in Seq(Seq(S)) /\ <<Head(ss)>> \in Seq(Seq(S))
      /\ ss = <<Head(ss)>> \o Tail(ss)
  OBVIOUS
<1>2. FlattenSeq(ss) = FlattenSeq(<<Head(ss)>>) \o FlattenSeq(Tail(ss))
  BY <1>1, FlattenConcat
<1> QED
  BY <1>1, <1>2, FlattenOne
\* tt is ss, with u added to the sequence at place n + 1 and nothing in those behind it.
Grown(ss, tt, u, n, len) ==
  /\ Len(ss) = len /\ Len(tt) = len
  /\ tt[n + 1] = ss[n + 1] \o u
  /\ \A i \in 1..n : tt[i] = ss[i]
  /\ \A i \in (n + 2)..len : ss[i] = <<>> /\ tt[i] = <<>>

LEMMA GrownLast ==
  ASSUME NEW S, NEW u \in Seq(S), NEW n \in Nat, NEW ss \in Seq(Seq(S)), NEW tt \in Seq(Seq(S)),
         Grown(ss, tt, u, n, n + 1)
  PROVE  FlattenSeq(tt) = FlattenSeq(ss) \o u
<1> DEFINE v == ss[n + 1]
           w == tt[n + 1]
<1>0. Len(ss) = n + 1 /\ Len(tt) = n + 1
  BY DEF Grown
<1>s. Splits(Seq(S), ss, n) /\ Splits(Seq(S), tt, n)
  BY <1>0, SplitLast, Zenon
<1>1. PICK p \in Seq(Seq(S)) : Len(p) = n /\ v \in Seq(S) /\ ss = Append(p, v)
  BY <1>s, Zenon DEF Splits
<1>2. PICK q \in Seq(Seq(S)) : Len(q) = n /\ w \in Seq(S) /\ tt = Append(q, w)
  BY <1>s, Zenon DEF Splits
<1>3. w = v \o u /\ \A i \in 1..n : tt[i] = ss[i]
  BY DEF Grown
<1> HIDE DEF v, w
<1>4. q = p
  <2>1. \A i \in 1..n : p[i] = ss[i] /\ q[i] = tt[i]
    BY <1>1, <1>2
  <2>2. \A i \in 1..Len(q) : q[i] = p[i]
    BY <1>1, <1>2, <1>3, <2>1
  <2> QED BY <1>1, <1>2, <2>2, SeqEqual
<1>5. FlattenSeq(ss) = FlattenSeq(p) \o v
  BY <1>1, FlattenAppend
<1>6. FlattenSeq(tt) = FlattenSeq(p) \o w
  BY <1>2, <1>4, FlattenAppend
<1> DEFINE f == FlattenSeq(p)
<1>7. f \in Seq(S) /\ v \in Seq(S) /\ u \in Seq(S)
  BY <1>1, FlattenType
<1> HIDE DEF f
<1>8. (f \o v) \o u = f \o (v \o u)
  BY ONLY <1>7, ConcatAssoc, SMTT(60)
<1> QED
  BY ONLY <1>3, <1>5, <1>6, <1>8, Zenon DEF f

\* What is added to one of the sequences, those behind it empty, is added at the end.
LEMMA FlattenGrows ==
  ASSUME NEW S, NEW u \in Seq(S), NEW n \in Nat
  PROVE  \A m \in Nat : \A ss, tt \in Seq(Seq(S)) :
           Grown(ss, tt, u, n, n + 1 + m) => FlattenSeq(tt) = FlattenSeq(ss) \o u
<1> DEFINE Good(m) == \A ss, tt \in Seq(Seq(S)) :
                        Grown(ss, tt, u, n, n + 1 + m) => FlattenSeq(tt) = FlattenSeq(ss) \o u
           N == {m \in Nat : Good(m)}
<1>1. Good(0)
  <2>1. n + 1 + 0 = n + 1
    OBVIOUS
  <2> QED BY <2>1, GrownLast
<1>2. ASSUME NEW m \in Nat, Good(m) PROVE Good(m + 1)
  <2> SUFFICES ASSUME NEW ss \in Seq(Seq(S)), NEW tt \in Seq(Seq(S)), Grown(ss, tt, u, n, n + 1 + (m + 1))
               PROVE  FlattenSeq(tt) = FlattenSeq(ss) \o u
    OBVIOUS
  <2> DEFINE k == n + 1 + m
             x == <<>>
  <2>0. k \in Nat /\ n + 1 + (m + 1) = k + 1 /\ k + 1 \in (n + 2)..(k + 1)
    OBVIOUS
  <2>s. ss \in Seq(Seq(S)) /\ tt \in Seq(Seq(S))
    OBVIOUS
  <2>1. ss[k + 1] = x /\ tt[k + 1] = x /\ Len(ss) = k + 1 /\ Len(tt) = k + 1
    BY <2>0 DEF Grown
  <2>2. x \in Seq(S)
    OBVIOUS
  <2> HIDE DEF x, k
  <2>3. PICK vv \in Seq(Seq(S)) : Len(vv) = k /\ ss = Append(vv, x)
    <3>1. Splits(Seq(S), ss, k)
      BY ONLY <2>0, <2>s, <2>1, SplitLast, Zenon
    <3> QED BY <2>1, <3>1, Zenon DEF Splits
  <2>4. PICK ww \in Seq(Seq(S)) : Len(ww) = k /\ tt = Append(ww, x)
    <3>1. Splits(Seq(S), tt, k)
      BY ONLY <2>0, <2>s, <2>1, SplitLast, Zenon
    <3> QED BY <2>1, <3>1, Zenon DEF Splits
  <2>5. \A i \in 1..k : ss[i] = vv[i] /\ tt[i] = ww[i]
    BY <2>3, <2>4
  <2>6. Grown(vv, ww, u, n, k)
    <3>1. n + 1 \in 1..k /\ (\A i \in 1..n : i \in 1..k) /\ (\A i \in (n + 2)..k : i \in 1..k /\ i \in (n + 2)..(k + 1))
      BY DEF k
    <3> QED BY <2>0, <2>3, <2>4, <2>5, <3>1 DEF Grown
  <2>7. FlattenSeq(ww) = FlattenSeq(vv) \o u
    BY <1>2, <2>6 DEF k
  <2>8. FlattenSeq(ss) = FlattenSeq(vv) \o x /\ FlattenSeq(tt) = FlattenSeq(ww) \o x
    BY <2>2, <2>3, <2>4, FlattenAppend
  <2>9. FlattenSeq(vv) \in Seq(S) /\ FlattenSeq(ww) \in Seq(S)
    BY FlattenType
  <2>10. FlattenSeq(vv) \o x = FlattenSeq(vv) /\ FlattenSeq(ww) \o x = FlattenSeq(ww)
    BY <2>9 DEF x
  <2> QED BY ONLY <2>7, <2>8, <2>10, Zenon
<1>3. Nat \subseteq N
  <2> HIDE DEF Good
  <2>1. 0 \in N /\ \A m \in Nat : m \in N => m + 1 \in N
    BY <1>1, <1>2
  <2> HIDE DEF N
  <2> QED BY <2>1, Induction
<1> HIDE DEF Good
<1>4. \A m \in Nat : Good(m)
  BY <1>3
<1> QED
  BY <1>4 DEF Good

\* Of empty sequences there is nothing.
LEMMA FlattenNothing ==
  ASSUME NEW S
  PROVE  \A n \in Nat : \A ss \in Seq(Seq(S)) :
           Len(ss) = n /\ (\A i \in 1..n : ss[i] = <<>>) => FlattenSeq(ss) = <<>>
<1> DEFINE Good(n) == \A ss \in Seq(Seq(S)) :
                        Len(ss) = n /\ (\A i \in 1..n : ss[i] = <<>>) => FlattenSeq(ss) = <<>>
           N == {n \in Nat : Good(n)}
<1>1. Good(0)
  <2>1. \A ss \in Seq(Seq(S)) : Len(ss) = 0 => ss = <<>>
    OBVIOUS
  <2> QED BY <2>1, FlattenEmpty
<1>2. ASSUME NEW n \in Nat, Good(n) PROVE Good(n + 1)
  <2> SUFFICES ASSUME NEW ss \in Seq(Seq(S)), Len(ss) = n + 1, \A i \in 1..(n + 1) : ss[i] = <<>>
               PROVE  FlattenSeq(ss) = <<>>
    OBVIOUS
  <2>0. Splits(Seq(S), ss, n)
    BY SplitLast, Zenon
  <2>1. PICK t \in Seq(Seq(S)) : Len(t) = n /\ ss[n + 1] \in Seq(S) /\ ss = Append(t, ss[n + 1])
    BY <2>0, Zenon DEF Splits
  <2>2. ss[n + 1] = <<>> /\ \A i \in 1..n : i \in 1..(n + 1)
    OBVIOUS
  <2>3. \A i \in 1..n : t[i] = ss[i]
    <3>1. PICK v \in Seq(S) : v = ss[n + 1]
      BY <2>1
    <3>2. ss = Append(t, v) /\ Len(t) = n
      BY <2>1, <3>1
    <3> QED BY ONLY t \in Seq(Seq(S)), v \in Seq(S), <3>2
  <2>4. FlattenSeq(t) = <<>>
    BY <1>2, <2>1, <2>2, <2>3
  <2>5. FlattenSeq(ss) = FlattenSeq(t) \o ss[n + 1]
    BY <2>1, FlattenAppend
  <2>6. <<>> \o <<>> = <<>>
    OBVIOUS
  <2> QED BY ONLY <2>2, <2>4, <2>5, <2>6, Zenon
<1>3. Nat \subseteq N
  <2> HIDE DEF Good
  <2>1. 0 \in N /\ \A n \in Nat : n \in N => n + 1 \in N
    BY <1>1, <1>2
  <2> HIDE DEF N
  <2> QED BY <2>1, Induction
<1> HIDE DEF Good
<1>4. \A n \in Nat : Good(n)
  BY <1>3
<1> QED
  BY <1>4 DEF Good

(* ---- a sequence with each element replaced by a sequence ---- *)

\* g gives a sequence over T for each element of S.
Replaces(g, S, T) == g \in [S -> Seq(T)]

Each(g, s) == FlattenSeq([i \in DOMAIN s |-> g[s[i]]])

LEMMA EachEmpty == \A g : Each(g, <<>>) = <<>>
<1> SUFFICES ASSUME NEW g PROVE Each(g, <<>>) = <<>>
  OBVIOUS
<1>1. [i \in DOMAIN <<>> |-> g[<<>>[i]]] = <<>>
  OBVIOUS
<1> QED
  BY <1>1, FlattenEmpty DEF Each

LEMMA EachParts ==
  ASSUME NEW S, NEW T, NEW g, Replaces(g, S, T), NEW s \in Seq(S)
  PROVE  [i \in DOMAIN s |-> g[s[i]]] \in Seq(Seq(T))
<1>1. DOMAIN s = 1..Len(s) /\ Len(s) \in Nat /\ \A i \in 1..Len(s) : g[s[i]] \in Seq(T)
  BY DEF Replaces
<1> QED
  BY <1>1

LEMMA EachType ==
  ASSUME NEW S, NEW T, NEW g, Replaces(g, S, T), NEW s \in Seq(S)
  PROVE  Each(g, s) \in Seq(T)
BY EachParts, FlattenType DEF Each

LEMMA EachAppend ==
  ASSUME NEW S, NEW T, NEW g, Replaces(g, S, T), NEW s \in Seq(S), NEW x \in S
  PROVE  Each(g, Append(s, x)) = Each(g, s) \o g[x]
<1> DEFINE t == Append(s, x)
           u == [i \in DOMAIN s |-> g[s[i]]]
           v == [i \in DOMAIN t |-> g[t[i]]]
<1>1. u \in Seq(Seq(T)) /\ g[x] \in Seq(T)
  <2>1. u \in Seq(Seq(T))
    BY EachParts, Zenon
  <2>2. g[x] \in Seq(T)
    BY DEF Replaces
  <2> QED BY <2>1, <2>2
<1>2. v = Append(u, g[x])
  <2>1. /\ DOMAIN s = 1..Len(s) /\ DOMAIN t = 1..(Len(s) + 1) /\ Len(s) \in Nat
        /\ t[Len(s) + 1] = x /\ \A i \in 1..Len(s) : t[i] = s[i]
    OBVIOUS
  <2> HIDE DEF t
  <2>2. Len(u) = Len(s) /\ \A i \in 1..Len(s) : u[i] = g[s[i]]
    BY <2>1
  <2>3. v = [i \in 1..(Len(s) + 1) |-> IF i = Len(s) + 1 THEN g[x] ELSE u[i]]
    BY <2>1, <2>2
  <2> HIDE DEF u, v
  <2>4. Append(u, g[x]) = [i \in 1..(Len(u) + 1) |-> IF i = Len(u) + 1 THEN g[x] ELSE u[i]]
    BY <1>1
  <2> QED BY <2>2, <2>3, <2>4
<1> HIDE DEF u
<1> QED
  BY <1>1, <1>2, FlattenAppend DEF Each, u

LEMMA EachOne ==
  ASSUME NEW S, NEW T, NEW g, Replaces(g, S, T), NEW x \in S
  PROVE  Each(g, <<x>>) = g[x]
<1> DEFINE e == <<>>
<1>1. <<x>> = Append(e, x) /\ e \in Seq(S)
  OBVIOUS
<1>2. g[x] \in Seq(T) /\ <<>> \o g[x] = g[x]
  BY DEF Replaces
<1>3. Each(g, e) = <<>>
  BY EachEmpty
<1> HIDE DEF e
<1>4. Each(g, Append(e, x)) = Each(g, e) \o g[x]
  BY <1>1, EachAppend
<1> QED
  BY <1>1, <1>2, <1>3, <1>4

LEMMA EachConcat ==
  ASSUME NEW S, NEW T, NEW g, Replaces(g, S, T), NEW s \in Seq(S), NEW t \in Seq(S)
  PROVE  Each(g, s \o t) = Each(g, s) \o Each(g, t)
<1> DEFINE w == s \o t
           a == [i \in DOMAIN s |-> g[s[i]]]
           b == [i \in DOMAIN t |-> g[t[i]]]
           c == [i \in DOMAIN w |-> g[w[i]]]
<1>1. a \in Seq(Seq(T)) /\ b \in Seq(Seq(T))
  BY EachParts, Zenon
<1>2. c = a \o b
  <2>1. /\ Len(s) \in Nat /\ Len(t) \in Nat /\ DOMAIN s = 1..Len(s) /\ DOMAIN t = 1..Len(t)
        /\ DOMAIN w = 1..(Len(s) + Len(t))
        /\ \A i \in 1..(Len(s) + Len(t)) : w[i] = IF i <= Len(s) THEN s[i] ELSE t[i - Len(s)]
    OBVIOUS
  <2> HIDE DEF w
  <2>2. /\ Len(a) = Len(s) /\ \A i \in 1..Len(s) : a[i] = g[s[i]]
        /\ Len(b) = Len(t) /\ \A i \in 1..Len(t) : b[i] = g[t[i]]
    BY <2>1
  <2>3. c = [i \in 1..(Len(s) + Len(t)) |-> IF i <= Len(s) THEN a[i] ELSE b[i - Len(s)]]
    <3>1. \A i \in 1..(Len(s) + Len(t)) :
             IF i <= Len(s) THEN i \in 1..Len(s) ELSE i - Len(s) \in 1..Len(t)
      BY <2>1
    <3>2. \A i \in 1..(Len(s) + Len(t)) : g[w[i]] = IF i <= Len(s) THEN a[i] ELSE b[i - Len(s)]
      BY <2>1, <2>2, <3>1
    <3> QED BY <2>1, <3>2
  <2> HIDE DEF a, b, c
  <2>4. /\ a \o b \in Seq(Seq(T)) /\ Len(a \o b) = Len(a) + Len(b)
        /\ \A i \in 1..(Len(a) + Len(b)) : (a \o b)[i] = IF i <= Len(a) THEN a[i] ELSE b[i - Len(a)]
    BY <1>1, ConcatProperties
  <2>5. c \in Seq(Seq(T)) /\ Len(c) = Len(s) + Len(t)
    <3>1. w \in Seq(S)
      BY DEF w
    <3>2. c \in Seq(Seq(T))
      BY <3>1, EachParts DEF c
    <3> QED BY <2>1, <2>3, <3>2
  <2>6. \A i \in 1..Len(c) : c[i] = (a \o b)[i]
    BY <2>2, <2>3, <2>4, <2>5
  <2> HIDE DEF w
  <2> QED BY <2>2, <2>4, <2>5, <2>6, SeqEqual
<1> HIDE DEF a, b, c
<1>3. FlattenSeq(c) = FlattenSeq(a) \o FlattenSeq(b)
  BY <1>1, <1>2, FlattenConcat
<1> QED
  BY <1>3 DEF Each, a, b, c

LEMMA EachHead ==
  ASSUME NEW S, NEW T, NEW g, Replaces(g, S, T), NEW s \in Seq(S), s # <<>>
  PROVE  Each(g, s) = g[Head(s)] \o Each(g, Tail(s))
<1> DEFINE h == Head(s)
           t == Tail(s)
           u == <<h>>
<1>1. h \in S /\ t \in Seq(S) /\ u \in Seq(S) /\ s = u \o t
  OBVIOUS
<1> HIDE DEF t, h
<1>2. Each(g, u) = g[h]
  BY <1>1, EachOne
<1> HIDE DEF u
<1>3. Each(g, u \o t) = Each(g, u) \o Each(g, t)
  BY <1>1, EachConcat
<1> QED
  BY <1>1, <1>2, <1>3 DEF h, t

(* ---- the first and the last of a set of positions ---- *)

LEMMA MinOfPositions ==
  ASSUME NEW T, T \subseteq Nat, T # {}
  PROVE  Min(T) \in T /\ \A k \in T : Min(T) <= k
<1>1. \E m \in T : \A k \in T : m <= k
  BY LeastNatural
<1> QED
  BY <1>1 DEF Min

LEMMA MaxOfPositions ==
  ASSUME NEW n \in Nat, NEW T, T \subseteq 1..n, T # {}
  PROVE  Max(T) \in T /\ \A k \in T : k <= Max(T)
<1> DEFINE U == {n - k : k \in T}
<1>1. U \subseteq Nat /\ U # {}
  <2>1. PICK k \in T : TRUE
    OBVIOUS
  <2>2. n - k \in U
    BY <2>1
  <2>3. \A j \in T : n - j \in Nat
    OBVIOUS
  <2> QED BY <2>2, <2>3
<1>2. PICK u \in U : \A k \in U : u <= k
  <2> HIDE DEF U
  <2> QED BY <1>1, LeastNatural
<1>3. PICK m \in T : u = n - m
  OBVIOUS
<1>4. ASSUME NEW k \in T PROVE k <= m
  <2>1. n - k \in U
    OBVIOUS
  <2>2. n - m <= n - k
    BY <1>2, <1>3, <2>1
  <2> QED BY <2>2
<1>5. \A k \in T : m >= k
  BY <1>4
<1>6. Max(T) \in T /\ \A k \in T : Max(T) >= k
  BY <1>5 DEF Max
<1>7. \A k \in T : k <= Max(T)
  BY <1>6
<1> QED
  BY <1>6, <1>7

(* ---- folds ---- *)

\* f[i] is what the first i elements of s make of a, one step of G after the other.
Folds(f, G, s, a, n) == f[0] = a /\ \A i \in 1..n : f[i] = G[<<f[i - 1], s[i]>>]

LEMMA FoldExists ==
  ASSUME NEW X, NEW S, NEW G \in [X \X S -> X], NEW a \in X
  PROVE  \A n \in Nat : \A s \in [1..n -> S] : \E f \in [0..n -> X] : Folds(f, G, s, a, n)
<1> DEFINE Good(n) == \A s \in [1..n -> S] : \E f \in [0..n -> X] : Folds(f, G, s, a, n)
           N == {n \in Nat : Good(n)}
<1>1. Good(0)
  <2> SUFFICES ASSUME NEW s \in [1..0 -> S] PROVE \E f \in [0..0 -> X] : Folds(f, G, s, a, 0)
    OBVIOUS
  <2>1. [i \in 0..0 |-> a] \in [0..0 -> X] /\ Folds([i \in 0..0 |-> a], G, s, a, 0)
    BY DEF Folds
  <2> QED BY <2>1
<1>2. ASSUME NEW n \in Nat, Good(n) PROVE Good(n + 1)
  <2> SUFFICES ASSUME NEW s \in [1..(n + 1) -> S]
               PROVE  \E f \in [0..(n + 1) -> X] : Folds(f, G, s, a, n + 1)
    OBVIOUS
  <2> DEFINE t == [i \in 1..n |-> s[i]]
  <2>1. t \in [1..n -> S] /\ (\A i \in 1..n : t[i] = s[i]) /\ s[n + 1] \in S
    OBVIOUS
  <2> HIDE DEF t
  <2>2. PICK f \in [0..n -> X] : Folds(f, G, t, a, n)
    BY <1>2, <2>1
  <2> DEFINE last == G[<<f[n], s[n + 1]>>]
             g == [i \in 0..(n + 1) |-> IF i = n + 1 THEN last ELSE f[i]]
  <2>3. last \in X
    <3>1. f[n] \in X
      OBVIOUS
    <3>2. <<f[n], s[n + 1]>> \in X \X S
      BY <2>1, <3>1
    <3> QED BY <3>2
  <2>4. g \in [0..(n + 1) -> X] /\ g[n + 1] = last /\ \A i \in 0..n : g[i] = f[i]
    <3> HIDE DEF last
    <3> QED BY <2>3
  <2> HIDE DEF g
  <2>5. ASSUME NEW i \in 1..(n + 1) PROVE g[i] = G[<<g[i - 1], s[i]>>]
    <3>1. CASE i \in 1..n
      <4>1. i - 1 \in 0..n /\ i \in 0..n
        BY <3>1
      <4>2. g[i] = f[i] /\ g[i - 1] = f[i - 1]
        BY <2>4, <4>1
      <4>3. f[i] = G[<<f[i - 1], t[i]>>]
        BY <2>2, <3>1 DEF Folds
      <4>4. t[i] = s[i]
        BY <2>1, <3>1
      <4> QED BY <4>2, <4>3, <4>4
    <3>2. CASE i = n + 1
      <4>1. i - 1 = n /\ n \in 0..n
        BY <3>2
      <4>2. g[i - 1] = f[n]
        BY <2>4, <4>1
      <4> QED BY <2>4, <3>2, <4>2
    <3> QED BY <3>1, <3>2
  <2>6. g[0] = a
    BY <2>2, <2>4 DEF Folds
  <2>7. Folds(g, G, s, a, n + 1)
    BY <2>5, <2>6 DEF Folds
  <2> QED BY <2>4, <2>7
<1>3. Nat \subseteq N
  <2> HIDE DEF Good
  <2>1. 0 \in N /\ \A n \in Nat : n \in N => n + 1 \in N
    BY <1>1, <1>2
  <2> HIDE DEF N
  <2> QED BY <2>1, Induction
<1> QED
  BY <1>3

\* What is folded of a part does not depend on the rest.
LEMMA FoldPrefix ==
  ASSUME NEW m \in Nat, NEW n \in Nat, m <= n, NEW s, NEW t, Agree(s, t, m),
         NEW G, NEW a, NEW f, NEW g, Folds(f, G, s, a, m), Folds(g, G, t, a, n)
  PROVE  \A i \in 0..m : f[i] = g[i]
<1> DEFINE N == {k \in Nat : k \in 0..m => f[k] = g[k]}
<1>1. 0 \in N
  BY DEF Folds
<1>2. ASSUME NEW k \in Nat, k \in N PROVE k + 1 \in N
  <2> SUFFICES ASSUME k + 1 \in 0..m PROVE f[k + 1] = g[k + 1]
    OBVIOUS
  <2>1. k + 1 \in 1..m /\ k + 1 \in 1..n /\ (k + 1) - 1 = k /\ k \in 0..m
    OBVIOUS
  <2>2. f[k + 1] = G[<<f[k], s[k + 1]>>] /\ g[k + 1] = G[<<g[k], t[k + 1]>>]
    BY <2>1 DEF Folds
  <2>3. s[k + 1] = t[k + 1] /\ f[k] = g[k]
    BY <1>2, <2>1 DEF Agree
  <2> QED BY <2>2, <2>3
<1>3. Nat \subseteq N
  <2> HIDE DEF N
  <2> QED BY <1>1, <1>2, Induction
<1> QED
  BY <1>3

\* The value v changes at the positions in `at`, to what t holds there.
Follows(v, at, t, n) == \A i \in 1..n : v[i] = IF i \in at THEN t[i] ELSE v[i - 1]

LEMMA FollowsLast ==
  ASSUME NEW n \in Nat, NEW at, at \subseteq 1..n, NEW v, NEW t, Follows(v, at, t, n)
  PROVE  v[n] = IF at = {} THEN v[0] ELSE t[Max(at)]
<1> DEFINE Up(i) == /\ (\A j \in 1..i : j \notin at) => v[i] = v[0]
                    /\ \A m \in at : m <= i /\ (\A j \in (m + 1)..i : j \notin at) => v[i] = t[m]
           N == {i \in Nat : i <= n => Up(i)}
<1>1. Up(0)
  OBVIOUS
<1>2. ASSUME NEW i \in Nat, i \in N PROVE i + 1 \in N
  <2> SUFFICES ASSUME i + 1 <= n PROVE Up(i + 1)
    OBVIOUS
  <2>1. i <= n /\ i + 1 \in 1..n /\ (i + 1) - 1 = i
    OBVIOUS
  <2>2. v[i + 1] = IF i + 1 \in at THEN t[i + 1] ELSE v[i]
    BY <2>1 DEF Follows
  <2>3. Up(i)
    BY <1>2, <2>1
  <2>4. ASSUME \A j \in 1..(i + 1) : j \notin at PROVE v[i + 1] = v[0]
    <3>1. i + 1 \notin at /\ \A j \in 1..i : j \notin at
      BY <2>4
    <3> QED BY <2>2, <2>3, <3>1
  <2>5. ASSUME NEW m \in at, m <= i + 1, \A j \in (m + 1)..(i + 1) : j \notin at
        PROVE  v[i + 1] = t[m]
    <3>1. CASE m = i + 1
      BY <2>2, <3>1
    <3>2. CASE m # i + 1
      <4>1. m \in Nat /\ m <= i
        BY <2>5, <3>2
      <4>2. i + 1 \notin at /\ \A j \in (m + 1)..i : j \notin at
        BY <2>5, <4>1
      <4> QED BY <2>2, <2>3, <4>1, <4>2
    <3> QED BY <3>1, <3>2
  <2> QED BY <2>4, <2>5
<1>3. Nat \subseteq N
  <2> HIDE DEF Up
  <2>1. 0 \in N
    BY <1>1
  <2> HIDE DEF N
  <2> QED BY <1>2, <2>1, Induction
<1>4. Up(n)
  BY <1>3
<1>5. CASE at = {}
  BY <1>4, <1>5
<1>6. CASE at # {}
  <2> DEFINE m == Max(at)
  <2>1. m \in at /\ \A k \in at : k <= m
    BY <1>6, MaxOfPositions
  <2> HIDE DEF m
  <2>2. m \in 1..n /\ \A j \in (m + 1)..n : j \notin at
    <3>1. m \in 1..n
      BY <2>1
    <3>2. \A j \in (m + 1)..n : j \notin at
      BY <2>1, <3>1
    <3> QED BY <3>1, <3>2
  <2>3. v[n] = t[m]
    BY <1>4, <2>1, <2>2
  <2> QED BY <1>6, <2>3 DEF m
<1> QED
  BY <1>5, <1>6

\* The value v is set once, at the first of the positions in `at`.
SetOnce(v, at, t, unset, n) ==
  /\ \A i \in at : t[i] # unset
  /\ \A i \in 1..n : v[i] = IF i \in at /\ v[i - 1] = unset THEN t[i] ELSE v[i - 1]

FirstWins(v, at, t, unset, n) == v[n] = IF v[0] # unset \/ at = {} THEN v[0] ELSE t[Min(at)]

LEMMA SetByFirst ==
  ASSUME NEW n \in Nat, NEW at, at \subseteq 1..n, NEW v, NEW t, NEW unset, SetOnce(v, at, t, unset, n)
  PROVE  FirstWins(v, at, t, unset, n)
<1> DEFINE Up(i) == /\ v[0] # unset \/ (\A j \in 1..i : j \notin at) => v[i] = v[0]
                    /\ \A m \in at : v[0] = unset /\ m <= i /\ (\A j \in 1..(m - 1) : j \notin at) => v[i] = t[m]
           N == {i \in Nat : i <= n => Up(i)}
<1>1. Up(0)
  OBVIOUS
<1>2. ASSUME NEW i \in Nat, i \in N PROVE i + 1 \in N
  <2> SUFFICES ASSUME i + 1 <= n PROVE Up(i + 1)
    OBVIOUS
  <2>1. i <= n /\ i + 1 \in 1..n /\ (i + 1) - 1 = i
    OBVIOUS
  <2>2. v[i + 1] = IF i + 1 \in at /\ v[i] = unset THEN t[i + 1] ELSE v[i]
    BY <2>1 DEF SetOnce
  <2>3. Up(i)
    BY <1>2, <2>1
  <2>4. ASSUME v[0] # unset \/ (\A j \in 1..(i + 1) : j \notin at) PROVE v[i + 1] = v[0]
    <3>1. v[0] # unset \/ (i + 1 \notin at /\ \A j \in 1..i : j \notin at)
      BY <2>4
    <3> QED BY <2>2, <2>3, <3>1
  <2>5. ASSUME NEW m \in at, v[0] = unset, m <= i + 1, \A j \in 1..(m - 1) : j \notin at
        PROVE  v[i + 1] = t[m]
    <3>1. CASE m = i + 1
      <4>1. \A j \in 1..i : j \notin at
        BY <2>5, <3>1
      <4>2. v[i] = unset
        BY <2>3, <2>5, <4>1
      <4>3. i + 1 \in at /\ v[i + 1] = t[i + 1]
        BY <2>2, <3>1, <4>2
      <4> QED BY <3>1, <4>3
    <3>2. CASE m # i + 1
      <4>1. m \in Nat /\ m <= i
        BY <2>5, <3>2
      <4>2. v[i] = t[m]
        BY <2>3, <2>5, <4>1
      <4>3. t[m] # unset
        BY DEF SetOnce
      <4> QED BY <2>2, <4>2, <4>3
    <3> QED BY <3>1, <3>2
  <2> QED BY <2>4, <2>5
<1>3. Nat \subseteq N
  <2> HIDE DEF Up
  <2>1. 0 \in N
    BY <1>1
  <2> HIDE DEF N
  <2> QED BY <1>2, <2>1, Induction
<1>4. Up(n)
  BY <1>3
<1>5. CASE v[0] # unset \/ at = {}
  BY <1>4, <1>5 DEF FirstWins
<1>6. CASE v[0] = unset /\ at # {}
  <2> DEFINE m == Min(at)
  <2>1. at \subseteq Nat
    OBVIOUS
  <2>2. m \in at /\ \A k \in at : m <= k
    BY <1>6, <2>1, MinOfPositions
  <2> HIDE DEF m
  <2>3. m \in 1..n /\ \A j \in 1..(m - 1) : j \notin at
    BY <2>2
  <2>4. v[n] = t[m]
    BY <1>4, <1>6, <2>2, <2>3
  <2> QED BY <1>6, <2>4 DEF m, FirstWins
<1> QED
  BY <1>5, <1>6
=============================================================================
