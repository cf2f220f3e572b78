---------------------------- MODULE SequenceFacts ----------------------------
(***************************************************************************)
(* Facts about stacks, positions and natural numbers that the proofs about *)
(* several components rest on.                                             *)
(***************************************************************************)
EXTENDS SequencesExt, SequenceTheorems, FiniteSetTheorems, TLAPS

\* Induction over the naturals, for a set instead of a predicate.
LEMMA NatSetInduction ==
  ASSUME NEW T, 0 \in T, \A n \in Nat : n \in T => n + 1 \in T
  PROVE  Nat \subseteq T
<1> DEFINE U == Nat \ T
<1> SUFFICES ASSUME U # {} PROVE FALSE
  OBVIOUS
<1>1. PICK x \in U : \A y \in U : ~ (<<y, x>> \in OpToRel(<, Nat))
  <2>1. U \subseteq Nat
    OBVIOUS
  <2> HIDE DEF U
  <2> QED BY <2>1, NatLessThanWellFounded, WFMin, Zenon
<1>2. \A y \in U : ~(y < x)
  <2>1. U \subseteq Nat
    OBVIOUS
  <2> HIDE DEF U
  <2> QED BY <1>1, <2>1 DEF OpToRel
<1>3. x \in Nat /\ x # 0
  OBVIOUS
<1>4. x - 1 \in Nat /\ x - 1 < x /\ x - 1 + 1 = x
  BY <1>3
<1>5. x - 1 \in T
  BY <1>2, <1>4
<1> QED BY <1>4, <1>5

\* What N steps from `base` make.
Iterates(f, D, base, step, N) ==
  /\ f \in [0..N -> D]
  /\ f[0] = base /\ \A n \in 1..N : f[n] = step[f[n - 1]]

\* What N steps make from `base` when each is one of its own.
StepsOf(f, D, base, step, N) ==
  /\ f \in [0..N -> D]
  /\ f[0] = base /\ \A n \in 1..N : f[n] = step[n][f[n - 1]]

\* Steps can be taken one after another.
LEMMA Steps ==
  ASSUME NEW D, NEW base \in D, NEW N \in Nat, NEW step \in [1..N -> [D -> D]]
  PROVE  \E f : StepsOf(f, D, base, step, N)
<1> DEFINE Takes(n, f) == f[0] = base /\ \A k \in 1..n : f[k] = step[k][f[k - 1]]
           T == {n \in Nat : n <= N => \E f \in [0..n -> D] : Takes(n, f)}
<1>1. 0 \in T
  <2>1. [k \in 0..0 |-> base] \in [0..0 -> D] /\ Takes(0, [k \in 0..0 |-> base])
    OBVIOUS
  <2> QED BY <2>1
<1>2. ASSUME NEW n \in Nat, n \in T, n + 1 <= N
      PROVE  \E f \in [0..n + 1 -> D] : Takes(n + 1, f)
  <2>1. PICK f \in [0..n -> D] : Takes(n, f)
    BY <1>2
  <2> DEFINE g == [k \in 0..n + 1 |-> IF k \in 0..n THEN f[k] ELSE step[n + 1][f[n]]]
  <2>2. f[n] \in D /\ n + 1 \notin 0..n /\ n + 1 \in 0..n + 1 /\ (n + 1) - 1 = n /\ n + 1 \in 1..N
    BY <1>2
  <2>3. g \in [0..n + 1 -> D] /\ g[n + 1] = step[n + 1][f[n]]
    <3>1. step[n + 1] \in [D -> D]
      BY <2>2
    <3> QED BY <2>2, <3>1
  <2>4. \A k \in 0..n : g[k] = f[k]
    OBVIOUS
  <2>5. \A k \in 1..n + 1 : g[k] = step[k][g[k - 1]]
    <3> HIDE DEF g
    <3> TAKE k \in 1..n + 1
    <3>1. CASE k \in 1..n
      BY <2>1, <2>4, <3>1
    <3>2. CASE k = n + 1
      BY <2>2, <2>3, <2>4, <3>2
    <3> QED BY <3>1, <3>2
  <2>6. g[0] = base
    BY <2>1
  <2> HIDE DEF g
  <2> QED BY <2>3, <2>5, <2>6
<1>3. ASSUME NEW n \in Nat, n \in T PROVE n + 1 \in T
  <2>1. n + 1 <= N => \E f \in [0..n + 1 -> D] : Takes(n + 1, f)
    BY <1>2, <1>3
  <2>2. n + 1 \in Nat
    OBVIOUS
  <2> HIDE DEF Takes
  <2> QED BY <2>1, <2>2
<1> HIDE DEF T
<1>4. Nat \subseteq T
  BY <1>1, <1>3, NatSetInduction
<1> QED BY <1>4 DEF T, StepsOf

\* A step can be taken any number of times.
LEMMA Iteration ==
  ASSUME NEW D, NEW base \in D, NEW step \in [D -> D], NEW N \in Nat
  PROVE  \E f : Iterates(f, D, base, step, N)
<1> DEFINE Takes(n, f) == f[0] = base /\ \A k \in 1..n : f[k] = step[f[k - 1]]
           T == {n \in Nat : \E f \in [0..n -> D] : Takes(n, f)}
<1>1. 0 \in T
  <2>1. [k \in 0..0 |-> base] \in [0..0 -> D] /\ Takes(0, [k \in 0..0 |-> base])
    OBVIOUS
  <2> QED BY <2>1
<1>2. ASSUME NEW n \in Nat, n \in T
      PROVE  n + 1 \in T
  <2>1. PICK f \in [0..n -> D] : Takes(n, f)
    BY <1>2
  <2> DEFINE g == [k \in 0..n + 1 |-> IF k \in 0..n THEN f[k] ELSE step[f[n]]]
  <2>2. f[n] \in D /\ n + 1 \notin 0..n /\ n + 1 \in 0..n + 1 /\ (n + 1) - 1 = n
    OBVIOUS
  <2>3. g \in [0..n + 1 -> D] /\ g[n + 1] = step[f[n]]
    BY <2>2
  <2>4. \A k \in 0..n : g[k] = f[k]
    OBVIOUS
  <2>5. \A k \in 1..n + 1 : g[k] = step[g[k - 1]]
    <3> HIDE DEF g
    <3> TAKE k \in 1..n + 1
    <3>1. CASE k \in 1..n
      BY <2>1, <2>4, <3>1
    <3>2. CASE k = n + 1
      BY <2>2, <2>3, <2>4, <3>2
    <3> QED BY <3>1, <3>2
  <2>6. g[0] = base
    BY <2>1
  <2> HIDE DEF g
  <2> QED BY <2>3, <2>5, <2>6
<1> HIDE DEF T
<1>3. Nat \subseteq T
  BY <1>1, <1>2, NatSetInduction
<1> QED BY <1>3 DEF T, Iterates

\* A non-empty set of positions has a greatest element, and Max finds it.
LEMMA NonEmptyHasMax ==
  ASSUME NEW n \in Nat, NEW S, S \subseteq 1..n, S # {}
  PROVE  Max(S) \in S /\ \A m \in S : m <= Max(S)
<1> DEFINE T == {n - x : x \in S}
<1>1. T \subseteq Nat /\ T # {}
  OBVIOUS
<1>2. PICK t \in T : \A y \in T : ~ (<<y, t>> \in OpToRel(<, Nat))
  <2> HIDE DEF T
  <2> QED BY <1>1, NatLessThanWellFounded, WFMin, Zenon
<1>3. \A y \in T : ~(y < t)
  <2> HIDE DEF T
  <2> QED BY <1>1, <1>2 DEF OpToRel
<1>4. PICK x \in S : t = n - x
  OBVIOUS
<1>5. \A m \in S : m <= x
  <2> TAKE m \in S
  <2>1. n - m \in T
    OBVIOUS
  <2>2. ~(n - m < n - x)
    BY <2>1, <1>3, <1>4
  <2> QED BY <2>2
<1>6. \E z \in S : \A y \in S : z >= y
  BY <1>5
<1> QED BY <1>6 DEF Max

\* The first k elements of a stack.
LEMMA PrefixTypes ==
  ASSUME NEW S, NEW s \in Seq(S), NEW k \in 0..Len(s)
  PROVE  /\ SubSeq(s, 1, k) \in Seq(S)
         /\ Len(SubSeq(s, 1, k)) = k
         /\ \A i \in 1..k : SubSeq(s, 1, k)[i] = s[i]
<1>1. Len(s) \in Nat /\ \A i \in 1..Len(s) : s[i] \in S
  BY LenProperties, ElementOfSeq
<1>2. k \in Nat /\ \A i \in 1..k : s[i] \in S
  BY <1>1
<1>3. k = IF 1 <= k THEN k - 1 + 1 ELSE 0
  BY <1>2
<1>4. \A i \in 1..k : i \in 1..(k - 1 + 1) /\ 1 + i - 1 = i
  BY <1>2
<1> QED BY <1>2, <1>3, <1>4, SubSeqProperties

\* What is left of a stack when its top is taken off.
LEMMA FrontTypes ==
  ASSUME NEW S, NEW s \in Seq(S), s # <<>>
  PROVE  /\ Front(s) \in Seq(S)
         /\ Len(Front(s)) = Len(s) - 1
         /\ \A i \in 1..(Len(s) - 1) : Front(s)[i] = s[i]
<1>1. Len(s) \in Nat \ {0}
  BY EmptySeq
<1>2. Len(s) - 1 \in 0..Len(s)
  BY <1>1
<1> QED BY <1>2, PrefixTypes DEF Front

\* A stack is that of before up to k.
LEMMA SamePrefix ==
  ASSUME NEW S, NEW s \in Seq(S), NEW t \in Seq(S),
         NEW k \in 0..Len(s), k <= Len(t), \A i \in 1..k : t[i] = s[i]
  PROVE  SubSeq(t, 1, k) = SubSeq(s, 1, k)
<1>1. k \in 0..Len(t)
  BY LenProperties
<1>2. /\ SubSeq(s, 1, k) \in Seq(S) /\ Len(SubSeq(s, 1, k)) = k
      /\ \A i \in 1..k : SubSeq(s, 1, k)[i] = s[i]
  BY PrefixTypes
<1>3. /\ SubSeq(t, 1, k) \in Seq(S) /\ Len(SubSeq(t, 1, k)) = k
      /\ \A i \in 1..k : SubSeq(t, 1, k)[i] = t[i]
  BY <1>1, PrefixTypes
<1> QED BY <1>2, <1>3, SeqEqual

\* What there is when an element is put on top of a stack.
LEMMA AppendFacts ==
  ASSUME NEW S, NEW s \in Seq(S), NEW e \in S
  PROVE  /\ Append(s, e) \in Seq(S)
         /\ Len(Append(s, e)) = Len(s) + 1
         /\ Append(s, e)[Len(s) + 1] = e
         /\ \A i \in 1..Len(s) : Append(s, e)[i] = s[i]
BY AppendProperties

\* What there is when the top of a stack is replaced.
LEMMA ReplaceFacts ==
  ASSUME NEW S, NEW s \in Seq(S), s # <<>>, NEW e \in S
  PROVE  /\ Append(Front(s), e) \in Seq(S)
         /\ Len(Append(Front(s), e)) = Len(s)
         /\ Append(Front(s), e)[Len(s)] = e
         /\ \A i \in 1..(Len(s) - 1) : Append(Front(s), e)[i] = s[i]
<1>1. /\ Front(s) \in Seq(S)
      /\ Len(Front(s)) = Len(s) - 1
      /\ \A i \in 1..(Len(s) - 1) : Front(s)[i] = s[i]
  BY FrontTypes
<1>2. Len(s) \in Nat \ {0}
  BY EmptySeq
<1> HIDE DEF Front
<1> QED BY <1>1, <1>2, AppendFacts

\* A stack of things that are all in T is a stack over T.
LEMMA SeqOfMembers ==
  ASSUME NEW S, NEW s \in Seq(S), NEW T, \A i \in 1..Len(s) : s[i] \in T
  PROVE  s \in Seq(T)
<1>1. Len(s) \in Nat /\ s \in [1..Len(s) -> S]
  BY LenProperties
<1>2. s \in [1..Len(s) -> T]
  BY <1>1
<1> QED BY <1>1, <1>2, SeqDef

\* The elements of a stack.
LEMMA SeqRange ==
  ASSUME NEW S, NEW s \in Seq(S)
  PROVE  /\ DOMAIN s = 1..Len(s) /\ Range(s) \subseteq S
         /\ \A i \in 1..Len(s) : s[i] \in Range(s)
         /\ \A T : Range(s) \subseteq T => s \in Seq(T)
<1>1. DOMAIN s = 1..Len(s) /\ \A i \in 1..Len(s) : s[i] \in S
  BY LenProperties, ElementOfSeq
<1>2. Range(s) \subseteq S /\ \A i \in 1..Len(s) : s[i] \in Range(s)
  BY <1>1 DEF Range
<1>3. ASSUME NEW T, Range(s) \subseteq T
      PROVE  s \in Seq(T)
  BY <1>2, <1>3, SeqOfMembers
<1> QED BY <1>1, <1>2, <1>3

\* The top of a stack.
LEMMA LastFacts ==
  ASSUME NEW S, NEW s \in Seq(S), s # <<>>
  PROVE  Len(s) \in Nat \ {0} /\ Last(s) = s[Len(s)] /\ Last(s) \in S /\ Last(s) \in Range(s)
<1>1. Len(s) \in Nat \ {0}
  BY EmptySeq
<1>2. Len(s) \in 1..Len(s)
  BY <1>1
<1> QED BY <1>1, <1>2, SeqRange, ElementOfSeq DEF Last

\* The functions on T whose value at each t is one of R[t].
Sections(T, R) == {g \in [T -> UNION {R[t] : t \in T}] : \A t \in T : g[t] \in R[t]}

\* F is the body of a recursive function: its value at t depends on the
\* function at what is of lower rank only.
Descends(F, T, R, rank) ==
  \A g, h \in Sections(T, R), t \in T :
    (\A s \in T : rank[s] < rank[t] => g[s] = h[s]) => F[g][t] = F[h][t]

\* Such a function exists.
LEMMA RankedRecursion ==
  ASSUME NEW T, NEW R, NEW rank \in [T -> Nat], NEW start \in Sections(T, R),
         NEW F \in [Sections(T, R) -> Sections(T, R)], Descends(F, T, R, rank)
  PROVE  \E f \in Sections(T, R) : f = F[f]
<1> DEFINE W == Sections(T, R)
           Upto(g, n) == \A t \in T : rank[t] < n => g[t] = F[g][t]
           Some == {n \in Nat : \E g \in W : Upto(g, n)}
           Same == {n \in Nat : \A g, h \in W : Upto(g, n) /\ Upto(h, n) =>
                                  \A t \in T : rank[t] < n => g[t] = h[t]}
<1>0. \A t \in T : rank[t] \in Nat
  OBVIOUS
<1>1. \A g, h \in W, t \in T : (\A s \in T : rank[s] < rank[t] => g[s] = h[s]) => F[g][t] = F[h][t]
  BY DEF Descends
<1>2. \A g \in W : F[g] \in W
  OBVIOUS
<1>3. Nat \subseteq Some
  <2>1. 0 \in Some
    <3>1. Upto(start, 0)
      BY <1>0
    <3> QED BY <3>1
  <2>2. ASSUME NEW n \in Nat, n \in Some PROVE n + 1 \in Some
    <3>1. PICK g \in W : Upto(g, n)
      BY <2>2
    <3>2. PICK h \in W : h = F[g]
      BY <1>2
    <3>3. ASSUME NEW t \in T, rank[t] < n + 1 PROVE h[t] = F[h][t]
      <4>1. \A s \in T : rank[s] < rank[t] => h[s] = g[s]
        BY <1>0, <3>1, <3>2, <3>3
      <4>2. F[h][t] = F[g][t]
        BY <1>1, <4>1
      <4> QED BY <3>2, <4>2
    <3> QED BY <3>3
  <2> HIDE DEF Some
  <2> QED BY <2>1, <2>2, NatSetInduction
<1>4. Nat \subseteq Same
  <2>1. 0 \in Same
    BY <1>0
  <2>2. ASSUME NEW n \in Nat, n \in Same PROVE n + 1 \in Same
    <3>1. SUFFICES ASSUME NEW g \in W, NEW h \in W, Upto(g, n + 1), Upto(h, n + 1),
                          NEW t \in T, rank[t] < n + 1
                   PROVE  g[t] = h[t]
      OBVIOUS
    <3>2. Upto(g, n) /\ Upto(h, n)
      BY <1>0, <3>1
    <3>3. \A s \in T : rank[s] < n => g[s] = h[s]
      BY <2>2, <3>2
    <3>4. \A s \in T : rank[s] < rank[t] => g[s] = h[s]
      BY <1>0, <3>1, <3>3
    <3>5. F[g][t] = F[h][t]
      BY <1>1, <3>4
    <3> QED BY <3>1, <3>5
  <2> HIDE DEF Same
  <2> QED BY <2>1, <2>2, NatSetInduction
<1> DEFINE pick(n) == CHOOSE g : g \in W /\ Upto(g, n)
           f == [t \in T |-> pick(rank[t] + 1)[t]]
<1>5. \A n \in Nat : pick(n) \in W /\ Upto(pick(n), n)
  <2> TAKE n \in Nat
  <2>1. \E g : g \in W /\ Upto(g, n)
    BY <1>3
  <2> HIDE DEF W, Upto
  <2> QED BY <2>1
<1> HIDE DEF pick
<1>6. \A t \in T : rank[t] + 1 \in Nat
  BY <1>0
<1>7. f \in W
  <2>1. \A t \in T : pick(rank[t] + 1)[t] \in R[t]
    BY <1>5, <1>6 DEF Sections
  <2> QED BY <2>1 DEF Sections
<1>8. ASSUME NEW t \in T PROVE f[t] = F[f][t]
  <2>1. PICK g \in W : g = pick(rank[t] + 1) /\ Upto(g, rank[t] + 1)
    BY <1>5, <1>6
  <2>2. ASSUME NEW s \in T, rank[s] < rank[t] PROVE f[s] = g[s]
    <3>1. PICK h \in W : h = pick(rank[s] + 1) /\ Upto(h, rank[s] + 1)
      BY <1>5, <1>6
    <3>2. Upto(g, rank[s] + 1)
      BY <1>0, <2>1, <2>2
    <3>3. rank[s] + 1 \in Same /\ rank[s] < rank[s] + 1
      BY <1>0, <1>4
    <3>4. h[s] = g[s]
      BY <3>1, <3>2, <3>3
    <3> QED BY <3>1, <3>4
  <2>3. F[f][t] = F[g][t]
    BY <1>1, <1>7, <2>2
  <2>4. g[t] = F[g][t]
    BY <1>0, <2>1
  <2> QED BY <2>1, <2>3, <2>4
<1>9. F[f] \in W
  BY <1>2, <1>7
<1>10. f = F[f]
  <2>1. F[f] = [t \in T |-> F[f][t]] /\ f = [t \in T |-> f[t]]
    BY <1>9 DEF Sections
  <2> HIDE DEF f
  <2> QED BY <1>8, <2>1
<1> QED BY <1>7, <1>10
==============================================================================
