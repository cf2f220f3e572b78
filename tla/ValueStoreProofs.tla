--------------------------- MODULE ValueStoreProofs ---------------------------
(***************************************************************************)
(* What holds of the store for every number of names, cells, buffers,      *)
(* operands and frames: bindings copy, and variables share nothing unless  *)
(* a store makes them.                                                     *)
(***************************************************************************)
EXTENDS ValueStore, SequenceFacts

------------------------------------------------------------------------------
(* Reachability.                                                           *)

\* Sets of buffers that hold the elements of their buffers.
Closed(h, S) == S \subseteq DOMAIN h /\ \A b \in S : Range(h[b]) \subseteq S

\* A heap has no element outside of it.
IsHeap(h) == DOMAIN h \subseteq Buffers /\ Closed(h, DOMAIN h)

\* One more step along the elements of the buffers met.
Met(h) == [X \in SUBSET DOMAIN h |-> X \cup UNION {Range(h[b]) : b \in X}]

\* As many steps as there are buffers are enough: what can be reached is the
\* least closed set that holds the roots.
LEMMA ReachableIsLeast ==
  ASSUME NEW h, IsHeap(h), NEW roots \in SUBSET DOMAIN h
  PROVE  /\ roots \subseteq ReachableIn(h, roots)
         /\ Closed(h, ReachableIn(h, roots))
         /\ \A S : Closed(h, S) /\ roots \subseteq S => ReachableIn(h, roots) \subseteq S
<1> DEFINE N == NumBuffers
           D == SUBSET DOMAIN h
           Is(f) == f = [n \in 0..N |->
                           IF n = 0 THEN roots
                           ELSE f[n - 1] \cup UNION {Range(h[b]) : b \in f[n - 1]}]
           reach == CHOOSE f : Is(f)
<1>1. N \in Nat
  BY BoundsAssumption
<1>2. ReachableIn(h, roots) = reach[N]
  BY DEF ReachableIn
<1>3. \A X \in D : X \cup UNION {Range(h[b]) : b \in X} \in D
  BY DEF IsHeap, Closed
<1>4. Met(h) \in [D -> D]
  BY <1>3 DEF Met
<1>5. Is(reach)
  <2>1. PICK f \in [0..N -> D] : f[0] = roots /\ \A n \in 1..N : f[n] = Met(h)[f[n - 1]]
    <3>1. roots \in D
      OBVIOUS
    <3> HIDE DEF D, N
    <3>2. \E f : Iterates(f, D, roots, Met(h), N)
      BY <1>1, <1>4, <3>1, Iteration
    <3> QED BY <3>2 DEF Iterates
  <2>2. \A n \in 1..N : f[n] = f[n - 1] \cup UNION {Range(h[b]) : b \in f[n - 1]}
    <3>1. \A n \in 1..N : n - 1 \in 0..N
      BY <1>1
    <3>2. \A n \in 1..N : f[n - 1] \in D
      BY <2>1, <3>1
    <3>3. \A X \in D : Met(h)[X] = X \cup UNION {Range(h[b]) : b \in X}
      BY DEF Met
    <3> HIDE DEF D
    <3> QED BY <2>1, <3>2, <3>3
  <2>3. \A n \in 0..N : n = 0 \/ n \in 1..N
    BY <1>1
  <2>4. \A n \in 0..N : f[n] = IF n = 0 THEN roots
                               ELSE f[n - 1] \cup UNION {Range(h[b]) : b \in f[n - 1]}
    BY <2>1, <2>2, <2>3
  <2>5. Is(f)
    BY <2>1, <2>4
  <2> HIDE DEF Is
  <2> QED BY <2>5
<1> HIDE DEF reach
<1>6. /\ reach[0] = roots
      /\ \A n \in 0..N : n + 1 \in 0..N =>
           reach[n + 1] = reach[n] \cup UNION {Range(h[b]) : b \in reach[n]}
  BY <1>1, <1>5
<1> HIDE DEF Is
<1>7. \A n \in 0..N : reach[n] \in D /\ roots \subseteq reach[n]
  <2> DEFINE T == {n \in Nat : n \in 0..N => reach[n] \in D /\ roots \subseteq reach[n]}
  <2>1. 0 \in T
    BY <1>6
  <2>2. ASSUME NEW n \in Nat, n \in T
        PROVE  n + 1 \in T
    BY <1>1, <1>3, <1>6, <2>2
  <2> HIDE DEF T
  <2>3. Nat \subseteq T
    BY <2>1, <2>2, NatSetInduction
  <2> QED BY <1>1, <2>3 DEF T
<1>8. ASSUME NEW S, Closed(h, S), roots \subseteq S
      PROVE  \A n \in 0..N : reach[n] \subseteq S
  <2> DEFINE T == {n \in Nat : n \in 0..N => reach[n] \subseteq S}
  <2>1. 0 \in T
    BY <1>6, <1>8
  <2>2. ASSUME NEW n \in Nat, n \in T
        PROVE  n + 1 \in T
    BY <1>1, <1>6, <1>8, <2>2 DEF Closed
  <2> HIDE DEF T
  <2>3. Nat \subseteq T
    BY <2>1, <2>2, NatSetInduction
  <2> QED BY <1>1, <2>3 DEF T
<1>9. IsFiniteSet(Buffers) /\ Cardinality(Buffers) = N
  BY <1>1, FS_Interval DEF Buffers
<1>10. \A n \in 0..N : IsFiniteSet(reach[n]) /\ Cardinality(reach[n]) \in 0..N
  <2> TAKE n \in 0..N
  <2>1. reach[n] \in SUBSET Buffers
    BY <1>7 DEF IsHeap
  <2>2. IsFiniteSet(reach[n]) /\ Cardinality(reach[n]) <= Cardinality(Buffers)
    BY <1>9, <2>1, FS_Subset
  <2> QED BY <1>1, <1>9, <2>2, FS_CardinalityType
<1>11. \A n \in 0..N : Closed(h, reach[n]) \/ Cardinality(reach[n]) > n
  <2> DEFINE T == {n \in Nat : n \in 0..N => Closed(h, reach[n]) \/ Cardinality(reach[n]) > n}
  <2>1. 0 \in T
    <3>1. CASE roots = {}
      BY <1>6, <3>1 DEF Closed
    <3>2. CASE roots # {}
      <4>1. 0 \in 0..N
        BY <1>1
      <4>2. Cardinality(roots) \in 0..N /\ Cardinality(roots) # 0
        BY <1>6, <1>10, <3>2, <4>1, FS_EmptySet
      <4> QED BY <1>6, <4>2
    <3> QED BY <3>1, <3>2
  <2>2. ASSUME NEW n \in Nat, n \in T, n + 1 \in 0..N
        PROVE  Closed(h, reach[n + 1]) \/ Cardinality(reach[n + 1]) > n + 1
    <3>1. n \in 0..N /\ reach[n + 1] = reach[n] \cup UNION {Range(h[b]) : b \in reach[n]}
      BY <1>1, <1>6, <2>2
    <3>2. CASE reach[n + 1] = reach[n]
      <4>1. Closed(h, reach[n])
        BY <1>7, <3>1, <3>2 DEF Closed
      <4> QED BY <3>2, <4>1
    <3>3. CASE reach[n + 1] # reach[n]
      <4>1. ~Closed(h, reach[n])
        <5>1. ASSUME Closed(h, reach[n])
              PROVE  UNION {Range(h[b]) : b \in reach[n]} \subseteq reach[n]
          BY <5>1 DEF Closed
        <5> DEFINE more == UNION {Range(h[b]) : b \in reach[n]}
        <5>2. reach[n + 1] = reach[n] \cup more
          BY <3>1
        <5> HIDE DEF more
        <5> QED BY <3>3, <5>1, <5>2 DEF more
      <4>2. Cardinality(reach[n]) > n
        BY <2>2, <3>1, <4>1
      <4>3. /\ reach[n] \in SUBSET reach[n + 1]
            /\ Cardinality(reach[n]) <= Cardinality(reach[n + 1])
            /\ Cardinality(reach[n + 1]) # Cardinality(reach[n])
        <5>1. reach[n] \in SUBSET reach[n + 1]
          BY <3>1
        <5>2. IsFiniteSet(reach[n + 1])
          BY <1>10, <2>2
        <5> QED BY <3>3, <5>1, <5>2, FS_Subset
      <4>4. Cardinality(reach[n]) \in Nat /\ Cardinality(reach[n + 1]) \in Nat
        <5>1. \A k \in 0..N : k \in Nat
          BY <1>1
        <5> QED BY <1>10, <2>2, <3>1, <5>1
      <4> QED BY <2>2, <4>2, <4>3, <4>4
    <3> QED BY <3>2, <3>3
  <2>3. \A n \in Nat : n \in T => n + 1 \in T
    BY <2>2
  <2> HIDE DEF T
  <2>4. Nat \subseteq T
    BY <2>1, <2>3, NatSetInduction
  <2> QED BY <1>1, <2>4 DEF T
<1>12. N \in 0..N
  BY <1>1
<1>13. Closed(h, reach[N])
  BY <1>1, <1>10, <1>11, <1>12
<1> QED BY <1>2, <1>7, <1>8, <1>12, <1>13

\* More roots reach more, and nothing but what they reach each.
LEMMA ReachableOfUnion ==
  ASSUME NEW h, IsHeap(h), NEW S \in SUBSET DOMAIN h, NEW T \in SUBSET DOMAIN h
  PROVE  ReachableIn(h, S \cup T) = ReachableIn(h, S) \cup ReachableIn(h, T)
<1> DEFINE RS == ReachableIn(h, S)
           RT == ReachableIn(h, T)
           RU == ReachableIn(h, S \cup T)
<1>1. S \subseteq RS /\ Closed(h, RS) /\ \A C : Closed(h, C) /\ S \subseteq C => RS \subseteq C
  BY ReachableIsLeast
<1>2. T \subseteq RT /\ Closed(h, RT) /\ \A C : Closed(h, C) /\ T \subseteq C => RT \subseteq C
  BY ReachableIsLeast
<1>3. S \cup T \in SUBSET DOMAIN h
  OBVIOUS
<1>4. /\ S \cup T \subseteq RU /\ Closed(h, RU)
      /\ \A C : Closed(h, C) /\ S \cup T \subseteq C => RU \subseteq C
  BY <1>3, ReachableIsLeast
<1> HIDE DEF RS, RT, RU
<1>5. Closed(h, RS \cup RT)
  BY <1>1, <1>2 DEF Closed
<1> QED BY <1>1, <1>2, <1>4, <1>5 DEF RS, RT, RU

\* What some of the roots reach is reached.
LEMMA ReachableGrows ==
  ASSUME NEW h, IsHeap(h), NEW T \in SUBSET DOMAIN h, NEW S \in SUBSET T
  PROVE  ReachableIn(h, S) \subseteq ReachableIn(h, T)
<1>1. S \cup T = T /\ S \in SUBSET DOMAIN h
  OBVIOUS
<1> QED BY <1>1, ReachableOfUnion

\* Roots that lie in a closed set reach no further.
LEMMA ReachableStaysIn ==
  ASSUME NEW h, IsHeap(h), NEW C, Closed(h, C), NEW S \in SUBSET C
  PROVE  ReachableIn(h, S) \subseteq C
<1>1. S \in SUBSET DOMAIN h
  BY DEF Closed
<1> QED BY <1>1, ReachableIsLeast

\* Two heaps that agree on a closed set.
Agree(g, h, C) == Closed(g, C) /\ Closed(h, C) /\ \A b \in C : g[b] = h[b]

\* What is reached inside of a closed set depends on that set alone.
LEMMA ReachableIsLocal ==
  ASSUME NEW g, NEW h, NEW C, IsHeap(g), IsHeap(h), Agree(g, h, C), NEW S \in SUBSET C
  PROVE  ReachableIn(g, S) = ReachableIn(h, S)
<1> DEFINE RG == ReachableIn(g, S)
           RH == ReachableIn(h, S)
<1>1. S \in SUBSET DOMAIN g /\ S \in SUBSET DOMAIN h
  BY DEF Closed, Agree
<1>2. S \subseteq RG /\ Closed(g, RG) /\ \A X : Closed(g, X) /\ S \subseteq X => RG \subseteq X
  BY <1>1, ReachableIsLeast
<1>3. S \subseteq RH /\ Closed(h, RH) /\ \A X : Closed(h, X) /\ S \subseteq X => RH \subseteq X
  BY <1>1, ReachableIsLeast
<1> HIDE DEF RG, RH
<1>4. RG \subseteq C /\ RH \subseteq C
  BY <1>2, <1>3 DEF Agree
<1>5. Closed(h, RG)
  BY <1>2, <1>4 DEF Agree, Closed
<1>6. Closed(g, RH)
  BY <1>3, <1>4 DEF Agree, Closed
<1> QED BY <1>2, <1>3, <1>5, <1>6 DEF RG, RH

\* The heap that is left when what the roots do not reach is dropped agrees
\* with the one of before.
LEMMA KeptHeapAgrees ==
  ASSUME NEW h, IsHeap(h), NEW roots \in SUBSET DOMAIN h,
         NEW g, g = Keep(h, ReachableIn(h, roots))
  PROVE  /\ DOMAIN g = ReachableIn(h, roots)
         /\ IsHeap(g) /\ Agree(g, h, DOMAIN g) /\ roots \subseteq DOMAIN g
<1> DEFINE R == ReachableIn(h, roots)
<1>1. roots \subseteq R /\ Closed(h, R)
  BY ReachableIsLeast
<1> HIDE DEF R
<1>2. g = [x \in DOMAIN h \cap R |-> h[x]]
  BY DEF Keep, R
<1>3. DOMAIN g = R /\ \A b \in R : g[b] = h[b]
  BY <1>1, <1>2 DEF Closed
<1>4. Closed(g, R)
  BY <1>1, <1>3 DEF Closed
<1> QED BY <1>1, <1>3, <1>4 DEF R, IsHeap, Agree, Closed

\* What a store holds is a heap.
LEMMA ArraysAreAHeap ==
  ASSUME NEW h, HoldsArrays(h)
  PROVE  IsHeap(h)
<1>1. \A b \in DOMAIN h : Range(h[b]) \subseteq DOMAIN h
  <2> TAKE b \in DOMAIN h
  <2>1. h[b] \in [1..Len(h[b]) -> DOMAIN h]
    BY LenProperties DEF HoldsArrays
  <2> QED BY <2>1 DEF Range
<1> QED BY <1>1 DEF HoldsArrays, IsHeap, Closed

------------------------------------------------------------------------------
(* The tree a value unfolds to.                                            *)

\* Where the nodes of a tree may be, and what they may be.
Places(h) == Seq(1..MaxLen) \X DOMAIN h
Deeper(h, v) == [X \in SUBSET Places(h) |-> {<< <<>>, v >>} \cup UNION {Below(h, u) : u \in X}]

\* The nodes of the first n levels, for every n.
Unfolds(f, h, v) ==
  /\ f \in [0..NumBuffers -> SUBSET Places(h)]
  /\ f[0] = {<< <<>>, v >>}
  /\ \A n \in 1..NumBuffers : f[n] = {<< <<>>, v >>} \cup UNION {Below(h, u) : u \in f[n - 1]}

\* Indices lead from a place to a place.
LEMMA BelowAPlace ==
  ASSUME NEW h, HoldsArrays(h), NEW u \in Places(h)
  PROVE  /\ DOMAIN h[u[2]] = 1..Len(h[u[2]]) /\ Len(h[u[2]]) \in 0..MaxLen
         /\ \A i \in DOMAIN h[u[2]] : i \in 1..MaxLen /\ h[u[2]][i] \in DOMAIN h
         /\ Below(h, u) \in SUBSET Places(h)
<1>1. u[1] \in Seq(1..MaxLen) /\ u[2] \in DOMAIN h
  BY DEF Places
<1>2. h[u[2]] \in Seq(DOMAIN h) /\ Len(h[u[2]]) <= MaxLen /\ MaxLen \in Nat
  BY <1>1, BoundsAssumption DEF HoldsArrays
<1>3. /\ Len(h[u[2]]) \in Nat /\ h[u[2]] \in [1..Len(h[u[2]]) -> DOMAIN h]
      /\ DOMAIN h[u[2]] = 1..Len(h[u[2]])
  BY <1>2, LenProperties
<1>4. \A i \in DOMAIN h[u[2]] : i \in 1..MaxLen /\ h[u[2]][i] \in DOMAIN h
  BY <1>2, <1>3
<1>5. \A i \in 1..MaxLen : Append(u[1], i) \in Seq(1..MaxLen)
  BY <1>1, AppendProperties
<1>6. \A i \in DOMAIN h[u[2]] : <<Append(u[1], i), h[u[2]][i]>> \in Places(h)
  BY <1>4, <1>5 DEF Places
<1>7. Below(h, u) \in SUBSET Places(h)
  <2> HIDE DEF Places
  <2> QED BY <1>6 DEF Below
<1> QED BY <1>2, <1>3, <1>4, <1>7

\* A value unfolds level by level.
LEMMA UnfoldingExists ==
  ASSUME NEW h, HoldsArrays(h), NEW v \in DOMAIN h
  PROVE  \E f : Unfolds(f, h, v) /\ UnfoldingIn(h, v) = f[NumBuffers]
<1> DEFINE N == NumBuffers
           D == SUBSET Places(h)
           root == {<< <<>>, v >>}
           Is(f) == f = [n \in 0..N |->
                           root \cup IF n = 0 THEN {} ELSE UNION {Below(h, u) : u \in f[n - 1]}]
           nodes == CHOOSE f : Is(f)
<1>1. N \in Nat
  BY BoundsAssumption
<1>2. UnfoldingIn(h, v) = nodes[N]
  BY DEF UnfoldingIn
<1>3. root \in D
  <2>1. <<>> \in Seq(1..MaxLen)
    BY EmptySeq
  <2>2. << <<>>, v >> \in Places(h)
    BY <2>1 DEF Places
  <2> QED BY <2>2
<1>4. Deeper(h, v) \in [D -> D]
  <2>1. \A X \in D : \A u \in X : Below(h, u) \in D
    BY BelowAPlace
  <2>2. \A X \in D : root \cup UNION {Below(h, u) : u \in X} \in D
    <3> HIDE DEF root
    <3> QED BY <2>1, <1>3
  <2> QED BY <2>2 DEF Deeper
<1>5. PICK f : Iterates(f, D, root, Deeper(h, v), N)
  <2> HIDE DEF D, N, root
  <2> QED BY <1>1, <1>3, <1>4, Iteration
<1>6. f \in [0..N -> D] /\ f[0] = root /\ \A n \in 1..N : f[n] = Deeper(h, v)[f[n - 1]]
  BY <1>5 DEF Iterates
<1>7. \A n \in 1..N : f[n] = root \cup UNION {Below(h, u) : u \in f[n - 1]}
  <2>1. \A n \in 1..N : f[n - 1] \in D
    BY <1>1, <1>6
  <2>2. \A X \in D : Deeper(h, v)[X] = root \cup UNION {Below(h, u) : u \in X}
    BY DEF Deeper
  <2> HIDE DEF D, root
  <2> QED BY <1>6, <2>1, <2>2
<1>8. \A n \in 0..N : f[n] = root \cup IF n = 0 THEN {} ELSE UNION {Below(h, u) : u \in f[n - 1]}
  <2> HIDE DEF root
  <2> QED BY <1>1, <1>6, <1>7
<1>9. Is(f)
  BY <1>6, <1>8
<1>10. Is(nodes)
  <2> HIDE DEF Is
  <2> QED BY <1>9
<1> HIDE DEF nodes
<1>11. \A n \in 0..N : nodes[n] = f[n]
  <2> DEFINE T == {n \in Nat : n \in 0..N => nodes[n] = f[n]}
  <2>1. \A n \in 0..N : nodes[n] = root \cup IF n = 0 THEN {} ELSE UNION {Below(h, u) : u \in nodes[n - 1]}
    BY <1>10
  <2> HIDE DEF root
  <2>2. 0 \in T
    BY <1>1, <1>8, <2>1
  <2>3. ASSUME NEW n \in Nat, n \in T, n + 1 \in 0..N
        PROVE  nodes[n + 1] = f[n + 1]
    <3>1. n \in 0..N /\ n + 1 # 0 /\ (n + 1) - 1 = n
      BY <1>1, <2>3
    <3>2. nodes[n] = f[n]
      BY <2>3, <3>1
    <3> QED BY <1>8, <2>1, <2>3, <3>1, <3>2
  <2>4. \A n \in Nat : n \in T => n + 1 \in T
    BY <2>3
  <2> HIDE DEF T
  <2>5. Nat \subseteq T
    BY <2>2, <2>4, NatSetInduction
  <2> QED BY <1>1, <2>5 DEF T
<1>12. N \in 0..N
  BY <1>1
<1>13. Unfolds(f, h, v)
  BY <1>6, <1>7 DEF Unfolds
<1> QED BY <1>2, <1>11, <1>12, <1>13

\* Every level is a set of places, and has those of the levels before.
LEMMA UnfoldingGrows ==
  ASSUME NEW h, HoldsArrays(h), NEW v \in DOMAIN h, NEW f, Unfolds(f, h, v)
  PROVE  /\ \A n \in 0..NumBuffers : f[n] \in SUBSET Places(h) /\ << <<>>, v >> \in f[n]
         /\ \A m, n \in 0..NumBuffers : m <= n => f[m] \subseteq f[n]
<1> DEFINE N == NumBuffers
           root == {<< <<>>, v >>}
<1>1. N \in Nat
  BY BoundsAssumption
<1>2. \A n \in 0..N : n = 0 \/ (n \in 1..N /\ n - 1 \in 0..N)
  BY <1>1
<1>3. \A n \in 0..N : f[n] \in SUBSET Places(h)
  BY DEF Unfolds
<1>4. \A n \in 0..N : root \subseteq f[n]
  BY <1>2 DEF Unfolds
<1>5. f[0] = root /\ \A n \in 1..N : f[n] = root \cup UNION {Below(h, u) : u \in f[n - 1]}
  BY DEF Unfolds
<1> HIDE DEF root
<1>6. \A n \in 0..N : n + 1 \in 0..N => f[n] \subseteq f[n + 1]
  <2> DEFINE T == {n \in Nat : n + 1 \in 0..N => f[n] \subseteq f[n + 1]}
  <2>1. 0 \in T
    BY <1>4, <1>5
  <2>2. ASSUME NEW n \in Nat, n \in T, (n + 1) + 1 \in 0..N
        PROVE  f[n + 1] \subseteq f[(n + 1) + 1]
    <3>1. n + 1 \in 1..N /\ (n + 1) + 1 \in 1..N /\ (n + 1) - 1 = n /\ ((n + 1) + 1) - 1 = n + 1
      BY <1>1, <2>2
    <3>2. f[n] \subseteq f[n + 1]
      BY <1>1, <2>2
    <3>3. /\ f[n + 1] = root \cup UNION {Below(h, u) : u \in f[n]}
          /\ f[(n + 1) + 1] = root \cup UNION {Below(h, u) : u \in f[n + 1]}
      BY <1>5, <3>1
    <3> QED BY <3>2, <3>3
  <2>3. \A n \in Nat : n \in T => n + 1 \in T
    BY <2>2
  <2> HIDE DEF T
  <2>4. Nat \subseteq T
    BY <2>1, <2>3, NatSetInduction
  <2> QED BY <1>1, <2>4 DEF T
<1>7. \A m, n \in 0..N : m <= n => f[m] \subseteq f[n]
  <2> DEFINE T == {n \in Nat : n \in 0..N => \A m \in 0..n : f[m] \subseteq f[n]}
  <2>1. 0 \in T
    OBVIOUS
  <2>2. ASSUME NEW n \in Nat, n \in T
        PROVE  n + 1 \in T
    <3> SUFFICES ASSUME n + 1 \in 0..N, NEW m \in 0..n + 1
                 PROVE  f[m] \subseteq f[n + 1]
      OBVIOUS
    <3>1. m = n + 1 \/ m \in 0..n
      OBVIOUS
    <3>2. n \in 0..N
      BY <1>1
    <3>3. \A k \in 0..n : f[k] \subseteq f[n]
      BY <2>2, <3>2
    <3> QED BY <1>6, <3>1, <3>2, <3>3
  <2> HIDE DEF T
  <2>3. Nat \subseteq T
    BY <2>1, <2>2, NatSetInduction
  <2> QED BY <1>1, <2>3 DEF T
<1> QED BY <1>3, <1>4, <1>7 DEF root

\* A node other than the root is an element of a node of the level before.
LEMMA NodesAreBelow ==
  ASSUME NEW h, HoldsArrays(h), NEW v \in DOMAIN h, NEW f, Unfolds(f, h, v),
         NEW n \in 0..NumBuffers, NEW u \in f[n]
  PROVE  \/ u = << <<>>, v >>
         \/ /\ n \in 1..NumBuffers
            /\ \E w \in f[n - 1] : \E i \in DOMAIN h[w[2]] : u = <<Append(w[1], i), h[w[2]][i]>>
<1>1. NumBuffers \in Nat
  BY BoundsAssumption
<1>2. n = 0 \/ n \in 1..NumBuffers
  BY <1>1
<1> QED BY <1>2 DEF Unfolds, Below

\* The indices to a node are not those to the root, and tell the node before.
LEMMA PathsAreTold ==
  ASSUME NEW p \in Seq(1..MaxLen), NEW q \in Seq(1..MaxLen), NEW i \in 1..MaxLen, NEW j \in 1..MaxLen
  PROVE  /\ Append(p, i) # <<>>
         /\ Append(p, i) = Append(q, j) => p = q /\ i = j
<1>1. Append(p, i) # <<>>
  BY AppendProperties
<1>2. \A s, t \in Seq(1..MaxLen) : \A d, e \in 1..MaxLen :
        Append(s, d) = Append(t, e) <=> s = t /\ d = e
  BY AppendInjective
<1> QED BY <1>1, <1>2

\* The same indices lead to the same buffer.
LEMMA OneNodePerPath ==
  ASSUME NEW h, HoldsArrays(h), NEW v \in DOMAIN h, NEW f, Unfolds(f, h, v)
  PROVE  \A n \in 0..NumBuffers : \A u, w \in f[n] : u[1] = w[1] => u = w
<1> DEFINE N == NumBuffers
           T == {n \in Nat : n \in 0..N => \A u, w \in f[n] : u[1] = w[1] => u = w}
<1>1. N \in Nat
  BY BoundsAssumption
<1>2. 0 \in T
  BY DEF Unfolds
<1>3. ASSUME NEW n \in Nat, n \in T
      PROVE  n + 1 \in T
  <2> SUFFICES ASSUME n + 1 \in 0..N, NEW u \in f[n + 1], NEW w \in f[n + 1], u[1] = w[1]
               PROVE  u = w
    OBVIOUS
  <2> DEFINE Under(x) == \E y \in f[n] : \E i \in DOMAIN h[y[2]] : x = <<Append(y[1], i), h[y[2]][i]>>
  <2>1. n \in 0..N /\ (n + 1) - 1 = n
    BY <1>1
  <2>2. \A y, z \in f[n] : y[1] = z[1] => y = z
    BY <1>3, <2>1
  <2>3. \A y \in f[n] : /\ y[1] \in Seq(1..MaxLen)
                        /\ \A i \in DOMAIN h[y[2]] : i \in 1..MaxLen
    <3>1. f[n] \in SUBSET Places(h)
      BY <2>1 DEF Unfolds
    <3> QED BY <3>1, BelowAPlace DEF Places
  <2>4. (u = << <<>>, v >> \/ Under(u)) /\ (w = << <<>>, v >> \/ Under(w))
    BY <2>1, NodesAreBelow
  <2>5. \A x : Under(x) => x[1] # <<>>
    BY <2>3, PathsAreTold
  <2>6. ASSUME Under(u), Under(w)
        PROVE  u = w
    <3>1. PICK y \in f[n] : \E i \in DOMAIN h[y[2]] : u = <<Append(y[1], i), h[y[2]][i]>>
      BY <2>6
    <3>2. PICK i \in DOMAIN h[y[2]] : u = <<Append(y[1], i), h[y[2]][i]>>
      BY <3>1
    <3>3. PICK z \in f[n] : \E j \in DOMAIN h[z[2]] : w = <<Append(z[1], j), h[z[2]][j]>>
      BY <2>6
    <3>4. PICK j \in DOMAIN h[z[2]] : w = <<Append(z[1], j), h[z[2]][j]>>
      BY <3>3
    <3>5. Append(y[1], i) = Append(z[1], j)
      BY <3>2, <3>4
    <3>6. y[1] = z[1] /\ i = j
      <4>1. /\ y[1] \in Seq(1..MaxLen) /\ z[1] \in Seq(1..MaxLen)
            /\ i \in 1..MaxLen /\ j \in 1..MaxLen
        BY <2>3
      <4> QED BY <3>5, <4>1, PathsAreTold
    <3> QED BY <2>2, <3>2, <3>4, <3>6
  <2>7. u[1] = <<>> <=> w[1] = <<>>
    OBVIOUS
  <2> HIDE DEF Under
  <2> QED BY <2>4, <2>5, <2>6, <2>7
<1> HIDE DEF T
<1>4. Nat \subseteq T
  BY <1>2, <1>3, NatSetInduction
<1> QED BY <1>1, <1>4 DEF T

\* There are finitely many nodes.
LEMMA UnfoldingIsFinite ==
  ASSUME NEW h, HoldsArrays(h), NEW v \in DOMAIN h, NEW f, Unfolds(f, h, v)
  PROVE  \A n \in 0..NumBuffers : IsFiniteSet(f[n])
<1> DEFINE N == NumBuffers
           T == {n \in Nat : n \in 0..N => IsFiniteSet(f[n])}
<1>1. N \in Nat
  BY BoundsAssumption
<1>2. 0 \in T
  BY FS_Singleton DEF Unfolds
<1>3. ASSUME NEW n \in Nat, n \in T
      PROVE  n + 1 \in T
  <2> SUFFICES ASSUME n + 1 \in 0..N
               PROVE  IsFiniteSet(f[n + 1])
    OBVIOUS
  <2>1. n \in 0..N /\ n + 1 \in 1..N /\ (n + 1) - 1 = n
    BY <1>1
  <2> DEFINE S == {Below(h, u) : u \in f[n]}
             below == [u \in f[n] |-> Below(h, u)]
  <2>2. IsFiniteSet(f[n]) /\ f[n] \in SUBSET Places(h)
    BY <1>3, <2>1 DEF Unfolds
  <2>3. below \in Surjection(f[n], S)
    BY DEF Surjection
  <2>4. IsFiniteSet(S)
    <3> HIDE DEF S, below
    <3> QED BY <2>2, <2>3, FS_Surjection
  <2>5. ASSUME NEW u \in f[n]
        PROVE  IsFiniteSet(Below(h, u))
    <3> DEFINE I == DOMAIN h[u[2]]
               B == Below(h, u)
               g == [i \in I |-> <<Append(u[1], i), h[u[2]][i]>>]
    <3>1. Len(h[u[2]]) \in Nat /\ I = 1..Len(h[u[2]])
      BY <2>2, BelowAPlace, BoundsAssumption
    <3>2. IsFiniteSet(I)
      <4>1. \A k \in Nat : IsFiniteSet(1..k)
        BY FS_Interval
      <4> HIDE DEF I
      <4> QED BY <3>1, <4>1
    <3>3. g \in Surjection(I, B)
      BY DEF Surjection, Below
    <3> HIDE DEF I, g, B
    <3>4. IsFiniteSet(B)
      BY <3>2, <3>3, FS_Surjection
    <3> QED BY <3>4 DEF B
  <2>6. IsFiniteSet(UNION S)
    <3>1. \A X \in S : IsFiniteSet(X)
      BY <2>5
    <3> HIDE DEF S
    <3> QED BY <2>4, <3>1, FS_UNION
  <2>7. IsFiniteSet({<< <<>>, v >>} \cup UNION S)
    <3>1. IsFiniteSet({<< <<>>, v >>})
      BY FS_Singleton
    <3> HIDE DEF S
    <3> QED BY <2>6, <3>1, FS_Union
  <2>8. f[n + 1] = {<< <<>>, v >>} \cup UNION S
    BY <2>1 DEF Unfolds
  <2> QED BY <2>7, <2>8
<1> HIDE DEF T
<1>4. Nat \subseteq T
  BY <1>2, <1>3, NatSetInduction
<1> QED BY <1>1, <1>4 DEF T

\* The indices below a node that are not below the last level are those of
\* its buffer, and nothing is below the nodes of the last level.
Kids(p, paths) == {i \in 1..MaxLen : Append(p, i) \in paths}

\* The children of a path are the elements of the array it leads to.
LEMMA KidsAreElements ==
  ASSUME NEW h, HoldsArrays(h), NEW v \in DOMAIN h, NEW f, Unfolds(f, h, v),
         NEW paths, paths = PathsOf(f[NumBuffers])
  PROVE  /\ \A n \in 0..NumBuffers : \A w \in f[n] :
              n + 1 \in 0..NumBuffers => Kids(w[1], paths) = DOMAIN h[w[2]]
         /\ \A p \in paths : Kids(p, paths) = {} \/
              \E w \in f[NumBuffers] : w[1] = p /\ Kids(p, paths) = DOMAIN h[w[2]]
<1> DEFINE N == NumBuffers
<1>1. N \in Nat \ {0} /\ N \in 0..N /\ N - 1 \in 0..N
  BY BoundsAssumption
<1>2. \A n \in 0..N : f[n] \in SUBSET Places(h)
  BY UnfoldingGrows
<1>3. \A m, n \in 0..N : m <= n => f[m] \subseteq f[n]
  BY UnfoldingGrows
<1>4. ASSUME NEW n \in 0..N, NEW w \in f[n]
      PROVE  /\ w[1] \in Seq(1..MaxLen) /\ w[2] \in DOMAIN h
             /\ \A i \in DOMAIN h[w[2]] : i \in 1..MaxLen
  BY <1>2, BelowAPlace DEF Places
<1>5. ASSUME NEW p \in Seq(1..MaxLen), NEW i \in 1..MaxLen, Append(p, i) \in paths
      PROVE  \E w \in f[N - 1] : w[1] = p /\ i \in DOMAIN h[w[2]]
  <2>1. PICK u \in f[N] : u[1] = Append(p, i)
    BY <1>5 DEF PathsOf
  <2>2. u # << <<>>, v >>
    BY <2>1, PathsAreTold
  <2>3. PICK w \in f[N - 1] : \E j \in DOMAIN h[w[2]] : u = <<Append(w[1], j), h[w[2]][j]>>
    BY <1>1, <2>2, NodesAreBelow
  <2>4. PICK j \in DOMAIN h[w[2]] : u = <<Append(w[1], j), h[w[2]][j]>>
    BY <2>3
  <2>5. w[1] \in Seq(1..MaxLen) /\ j \in 1..MaxLen
    BY <1>1, <1>4
  <2>6. Append(p, i) = Append(w[1], j)
    BY <2>1, <2>4
  <2>7. p = w[1] /\ i = j
    BY <2>5, <2>6, PathsAreTold
  <2> QED BY <2>7
<1>6. \A u, w \in f[N] : u[1] = w[1] => u = w
  BY <1>1, OneNodePerPath
<1>7. ASSUME NEW n \in 0..N, NEW w \in f[n], n + 1 \in 0..N
      PROVE  Kids(w[1], paths) = DOMAIN h[w[2]]
  <2>1. w[1] \in Seq(1..MaxLen) /\ \A i \in DOMAIN h[w[2]] : i \in 1..MaxLen
    BY <1>4, <1>7
  <2>2. f[n] \subseteq f[N] /\ f[n + 1] \subseteq f[N] /\ f[N - 1] \subseteq f[N]
    BY <1>1, <1>3, <1>7
  <2>3. \A i \in Kids(w[1], paths) : i \in DOMAIN h[w[2]]
    <3> TAKE i \in Kids(w[1], paths)
    <3>1. i \in 1..MaxLen /\ Append(w[1], i) \in paths
      BY DEF Kids
    <3>2. PICK u \in f[N - 1] : u[1] = w[1] /\ i \in DOMAIN h[u[2]]
      BY <1>5, <2>1, <3>1
    <3>3. u = w
      BY <1>6, <1>7, <2>2, <3>2
    <3> QED BY <3>2, <3>3
  <2>4. \A i \in DOMAIN h[w[2]] : Append(w[1], i) \in paths
    <3> TAKE i \in DOMAIN h[w[2]]
    <3>1. n + 1 \in 1..N /\ (n + 1) - 1 = n
      BY <1>1, <1>7
    <3>2. <<Append(w[1], i), h[w[2]][i]>> \in Below(h, w)
      BY DEF Below
    <3>3. <<Append(w[1], i), h[w[2]][i]>> \in f[n + 1]
      <4>1. f[n + 1] = {<< <<>>, v >>} \cup UNION {Below(h, u) : u \in f[n]}
        BY <3>1 DEF Unfolds
      <4> QED BY <1>7, <3>2, <4>1
    <3>4. <<Append(w[1], i), h[w[2]][i]>> \in f[N]
      BY <2>2, <3>3
    <3> DEFINE u == <<Append(w[1], i), h[w[2]][i]>>
    <3>5. u[1] = Append(w[1], i)
      OBVIOUS
    <3> HIDE DEF u
    <3> QED BY <3>4, <3>5 DEF PathsOf, u
  <2> QED BY <2>1, <2>3, <2>4 DEF Kids
<1>8. ASSUME NEW p \in paths, Kids(p, paths) # {}
      PROVE  \E w \in f[N] : w[1] = p /\ Kids(p, paths) = DOMAIN h[w[2]]
  <2>1. p \in Seq(1..MaxLen)
    <3>1. PICK u \in f[N] : p = u[1]
      BY <1>8 DEF PathsOf
    <3> QED BY <1>1, <1>4, <3>1
  <2>2. PICK i \in 1..MaxLen : Append(p, i) \in paths
    BY <1>8 DEF Kids
  <2>3. PICK w \in f[N - 1] : w[1] = p /\ i \in DOMAIN h[w[2]]
    BY <1>5, <2>1, <2>2
  <2>4. Kids(p, paths) = DOMAIN h[w[2]]
    BY <1>1, <1>7, <2>3
  <2>5. w \in f[N]
    BY <1>1, <1>3, <2>3
  <2> QED BY <2>3, <2>4, <2>5
<1> QED BY <1>7, <1>8

------------------------------------------------------------------------------
(* Clones.                                                                 *)

\* A set with no more elements than another has an element of the other for
\* each of its own.
LEMMA InjectionExists ==
  ASSUME NEW S, NEW T, IsFiniteSet(S), IsFiniteSet(T), Cardinality(S) <= Cardinality(T)
  PROVE  \E f \in [S -> T] : IsInjective(f)
<1> DEFINE m == Cardinality(S)
           n == Cardinality(T)
<1>1. m \in Nat /\ n \in Nat /\ ExistsBijection(1..m, S) /\ ExistsBijection(1..n, T)
  BY FS_CardinalityType
<1> HIDE DEF m, n
<1>2. PICK g : g \in Bijection(1..m, S)
  BY <1>1 DEF ExistsBijection
<1>3. PICK k : k \in Bijection(1..n, T)
  BY <1>1 DEF ExistsBijection
<1>4. /\ g \in [1..m -> S] /\ \A s \in S : \E i \in 1..m : g[i] = s
      /\ \A i, j \in 1..m : g[i] = g[j] => i = j
  BY <1>2 DEF Bijection, Injection, Surjection, IsInjective
<1>5. k \in [1..n -> T] /\ \A i, j \in 1..n : k[i] = k[j] => i = j
  BY <1>3 DEF Bijection, Injection, Surjection, IsInjective
<1>6. \A i \in 1..m : i \in 1..n
  <2>1. m <= n
    BY DEF m, n
  <2> QED BY <1>1, <2>1
<1> DEFINE place(s) == CHOOSE i \in 1..m : g[i] = s
           f == [s \in S |-> k[place(s)]]
<1>7. \A s \in S : place(s) \in 1..m /\ g[place(s)] = s
  BY <1>4
<1> HIDE DEF place
<1>8. f \in [S -> T] /\ \A s, t \in S : f[s] = f[t] => s = t
  BY <1>5, <1>6, <1>7
<1> HIDE DEF f
<1> QED BY <1>8 DEF IsInjective

\* A clone of `v` in heap `h` gives every node of the tree of `v` a buffer of
\* its own among `unused`.
IsCopy(copy, clone, h, v, unused) ==
  LET paths == PathsOf(UnfoldingIn(h, v)) IN
  /\ copy \in [paths -> unused]
  /\ <<>> \in paths /\ clone.root = copy[<<>>]
  /\ DOMAIN clone.heap = Range(copy)
  /\ \A p \in paths : clone.heap[copy[p]] = [i \in Kids(p, paths) |-> copy[Append(p, i)]]

\* When there is room, a clone is such a copy.
LEMMA CloneIsACopy ==
  ASSUME HoldsArrays(buffer), NEW v \in DOMAIN buffer, HasRoom(v)
  PROVE  \E copy : IsCopy(copy, Clone(v), buffer, v, Buffers \ DOMAIN buffer)
<1> DEFINE paths == PathsOf(UnfoldingIn(buffer, v))
           unused == Buffers \ DOMAIN buffer
           kids(p) == {i \in 1..MaxLen : Append(p, i) \in paths}
           copy == CHOOSE f \in [paths -> unused] : IsInjective(f)
<1>1. PICK f : Unfolds(f, buffer, v) /\ UnfoldingIn(buffer, v) = f[NumBuffers]
  BY UnfoldingExists
<1>2. NumBuffers \in 0..NumBuffers
  BY BoundsAssumption
<1>3. IsFiniteSet(paths)
  <2> DEFINE T == f[NumBuffers]
             g == [u \in T |-> u[1]]
  <2>1. IsFiniteSet(T)
    BY <1>1, <1>2, UnfoldingIsFinite
  <2>2. g \in Surjection(T, paths)
    BY <1>1 DEF Surjection, PathsOf
  <2> HIDE DEF g, paths, T
  <2> QED BY <2>1, <2>2, FS_Surjection
<1>4. IsFiniteSet(unused)
  <2>1. IsFiniteSet(Buffers)
    BY BoundsAssumption, FS_Interval DEF Buffers
  <2> QED BY <2>1, FS_Subset
<1>5. Cardinality(paths) <= Cardinality(unused)
  BY DEF HasRoom, Shape, Unfolding
<1>6. <<>> \in paths
  <2>1. << <<>>, v >> \in f[NumBuffers]
    BY <1>1, <1>2, UnfoldingGrows
  <2>2. << <<>>, v >>[1] = <<>>
    OBVIOUS
  <2> QED BY <1>1, <2>1, <2>2 DEF PathsOf
<1>7. Clone(v) = [root |-> copy[<<>>],
                  heap |-> [b \in Range(copy) |-> LET p == CHOOSE p \in paths : copy[p] = b IN
                                                  [i \in kids(p) |-> copy[Append(p, i)]]]]
  BY DEF Clone, CopyOf, Unfolding
<1> HIDE DEF paths, unused
<1>8. copy \in [paths -> unused] /\ IsInjective(copy)
  BY <1>3, <1>4, <1>5, InjectionExists
<1> HIDE DEF copy
<1>9. \A p \in paths : (CHOOSE q \in paths : copy[q] = copy[p]) = p
  <2>1. \A p, q \in paths : copy[q] = copy[p] => q = p
    BY <1>8 DEF IsInjective
  <2> QED BY <2>1
<1>10. \A p \in paths : copy[p] \in Range(copy)
  BY <1>8 DEF Range
<1>11. Clone(v).root = copy[<<>>] /\ DOMAIN Clone(v).heap = Range(copy)
  BY <1>7
<1>12. \A p \in paths : Clone(v).heap[copy[p]] = [i \in kids(p) |-> copy[Append(p, i)]]
  BY <1>7, <1>9, <1>10
<1>13. IsCopy(copy, Clone(v), buffer, v, unused)
  BY <1>6, <1>8, <1>11, <1>12 DEF IsCopy, paths, Kids
<1> QED BY <1>13 DEF unused

\* A copy is a store of its own.
LEMMA CopiesAreStores ==
  ASSUME NEW h, HoldsArrays(h), NEW v \in DOMAIN h, NEW unused, unused \subseteq Buffers,
         NEW copy, NEW clone, IsCopy(copy, clone, h, v, unused)
  PROVE  /\ clone.root \in DOMAIN clone.heap /\ DOMAIN clone.heap \subseteq unused
         /\ HoldsArrays(clone.heap)
<1> DEFINE paths == PathsOf(UnfoldingIn(h, v))
<1>1. PICK f : Unfolds(f, h, v) /\ UnfoldingIn(h, v) = f[NumBuffers]
  BY UnfoldingExists
<1>2. paths = PathsOf(f[NumBuffers]) /\ NumBuffers \in 0..NumBuffers
  BY <1>1, BoundsAssumption
<1>3. f[NumBuffers] \in SUBSET Places(h)
  BY <1>1, <1>2, UnfoldingGrows
<1>4. ASSUME NEW p \in paths
      PROVE  \E n \in 0..MaxLen : Kids(p, paths) = 1..n
  <2>1. Kids(p, paths) = {} \/ \E w \in f[NumBuffers] : w[1] = p /\ Kids(p, paths) = DOMAIN h[w[2]]
    BY <1>1, <1>2, KidsAreElements
  <2>2. \A w \in f[NumBuffers] : Len(h[w[2]]) \in 0..MaxLen /\ DOMAIN h[w[2]] = 1..Len(h[w[2]])
    BY <1>3, BelowAPlace
  <2>3. 0 \in 0..MaxLen /\ 1..0 = {}
    BY BoundsAssumption
  <2> QED BY <2>1, <2>2, <2>3
<1>5. /\ copy \in [paths -> unused] /\ <<>> \in paths /\ clone.root = copy[<<>>]
      /\ DOMAIN clone.heap = Range(copy)
      /\ \A p \in paths : clone.heap[copy[p]] = [i \in Kids(p, paths) |-> copy[Append(p, i)]]
  BY DEF IsCopy
<1> HIDE DEF paths
<1>6. ASSUME NEW b \in Range(copy)
      PROVE  clone.heap[b] \in Seq(Range(copy)) /\ Len(clone.heap[b]) <= MaxLen
  <2>1. PICK p \in paths : b = copy[p]
    BY <1>5 DEF Range
  <2>2. PICK n \in 0..MaxLen : Kids(p, paths) = 1..n
    BY <1>4
  <2>3. n \in Nat /\ n <= MaxLen
    BY BoundsAssumption
  <2>4. \A i \in 1..n : copy[Append(p, i)] \in Range(copy)
    BY <1>5, <2>2 DEF Kids, Range
  <2>5. clone.heap[b] = [i \in 1..n |-> copy[Append(p, i)]]
    BY <1>5, <2>1, <2>2
  <2>6. clone.heap[b] \in [1..n -> Range(copy)]
    BY <2>4, <2>5
  <2>7. clone.heap[b] \in Seq(Range(copy))
    BY <2>3, <2>6, SeqDef
  <2>8. Len(clone.heap[b]) = n
    BY <2>3, <2>6, <2>7, LenProperties
  <2> QED BY <2>3, <2>7, <2>8
<1>7. copy[<<>>] \in Range(copy) /\ Range(copy) \subseteq unused
  BY <1>5 DEF Range
<1> DEFINE S == DOMAIN clone.heap
<1>8. S = Range(copy)
  BY <1>5
<1> HIDE DEF S
<1>9. clone.root \in S /\ S \subseteq unused
  BY <1>5, <1>7, <1>8
<1>10. \A b \in S : clone.heap[b] \in Seq(S) /\ Len(clone.heap[b]) <= MaxLen
  BY <1>6, <1>8
<1> QED BY <1>9, <1>10 DEF HoldsArrays, S

\* The nodes of a tree, with the buffers of a copy.
Relabeled(copy, S) == {<<w[1], copy[w[1]]>> : w \in S}

\* Node by node.
LEMMA RelabeledNodes ==
  ASSUME NEW copy, NEW S, NEW T
  PROVE  /\ Relabeled(copy, S \cup T) = Relabeled(copy, S) \cup Relabeled(copy, T)
         /\ PathsOf(Relabeled(copy, S)) = PathsOf(S)
         /\ \A p, b : Relabeled(copy, {<<p, b>>}) = {<<p, copy[p]>>}
<1>1. ASSUME NEW x
      PROVE  x \in PathsOf(Relabeled(copy, S)) <=> x \in PathsOf(S)
  <2>1. \A w \in S : <<w[1], copy[w[1]]>> \in Relabeled(copy, S)
    BY DEF Relabeled
  <2>2. \A u \in Relabeled(copy, S) : \E w \in S : u = <<w[1], copy[w[1]]>>
    BY DEF Relabeled
  <2>3. \A w : <<w[1], copy[w[1]]>>[1] = w[1]
    OBVIOUS
  <2>4. \A X : x \in PathsOf(X) <=> \E u \in X : x = u[1]
    BY DEF PathsOf
  <2>5. ASSUME x \in PathsOf(S) PROVE x \in PathsOf(Relabeled(copy, S))
    <3>1. PICK w \in S : x = w[1]
      BY <2>4, <2>5
    <3>2. <<w[1], copy[w[1]]>> \in Relabeled(copy, S) /\ x = <<w[1], copy[w[1]]>>[1]
      BY <2>1, <2>3, <3>1
    <3> QED BY <2>4, <3>2
  <2>6. ASSUME x \in PathsOf(Relabeled(copy, S)) PROVE x \in PathsOf(S)
    <3>1. PICK u \in Relabeled(copy, S) : x = u[1]
      BY <2>4, <2>6
    <3>2. PICK w \in S : u = <<w[1], copy[w[1]]>>
      BY <2>2
    <3>3. x = w[1]
      BY <2>3, <3>1, <3>2
    <3> QED BY <2>4, <3>3
  <2> QED BY <2>5, <2>6
<1>2. ASSUME NEW p, NEW b
      PROVE  Relabeled(copy, {<<p, b>>}) = {<<p, copy[p]>>}
  <2>1. <<p, b>>[1] = p
    OBVIOUS
  <2>2. \A w \in {<<p, b>>} : w = <<p, b>>
    OBVIOUS
  <2> QED BY <2>1, <2>2, Zenon DEF Relabeled
<1> QED BY <1>1, <1>2 DEF Relabeled

\* A value that is a copy has the shape of the value copied.
LEMMA CopiesHaveTheShape ==
  ASSUME NEW h, HoldsArrays(h), NEW v \in DOMAIN h, NEW unused,
         NEW copy, NEW clone, IsCopy(copy, clone, h, v, unused),
         NEW g, HoldsArrays(g), Agree(g, clone.heap, DOMAIN clone.heap)
  PROVE  PathsOf(UnfoldingIn(g, clone.root)) = PathsOf(UnfoldingIn(h, v))
<1> DEFINE N == NumBuffers
           paths == PathsOf(UnfoldingIn(h, v))
<1>1. PICK f : Unfolds(f, h, v) /\ UnfoldingIn(h, v) = f[N]
  BY UnfoldingExists
<1>2. /\ copy \in [paths -> unused] /\ <<>> \in paths /\ clone.root = copy[<<>>]
      /\ DOMAIN clone.heap = Range(copy)
      /\ \A p \in paths : clone.heap[copy[p]] = [i \in Kids(p, paths) |-> copy[Append(p, i)]]
  BY DEF IsCopy
<1>3. \A p \in paths : copy[p] \in DOMAIN g /\ g[copy[p]] = [i \in Kids(p, paths) |-> copy[Append(p, i)]]
  <2> HIDE DEF paths
  <2>1. \A p \in paths : copy[p] \in DOMAIN clone.heap
    BY <1>2 DEF Range
  <2> QED BY <1>2, <2>1 DEF Agree, Closed
<1>4. clone.root \in DOMAIN g
  BY <1>2, <1>3
<1>5. PICK e : Unfolds(e, g, clone.root) /\ UnfoldingIn(g, clone.root) = e[N]
  BY <1>4, UnfoldingExists
<1>6. N \in Nat /\ N \in 0..N
  BY BoundsAssumption
<1>7. \A n \in 0..N : \A w \in f[n] : w[1] \in paths
  <2>1. \A n \in 0..N : f[n] \subseteq f[N]
    <3>1. \A n \in 0..N : n <= N
      BY <1>6
    <3> QED BY <1>1, <1>6, <3>1, UnfoldingGrows
  <2> QED BY <1>1, <2>1 DEF PathsOf
<1>8. \A n \in 0..N : \A w \in f[n] : n + 1 \in 0..N => Kids(w[1], paths) = DOMAIN h[w[2]]
  BY <1>1, KidsAreElements
<1> HIDE DEF paths
<1>9. ASSUME NEW n \in 0..N, n + 1 \in 0..N, NEW w \in f[n]
      PROVE  Below(g, <<w[1], copy[w[1]]>>) = Relabeled(copy, Below(h, w))
  <2>1. w[1] \in paths /\ Kids(w[1], paths) = DOMAIN h[w[2]]
    BY <1>7, <1>8, <1>9
  <2>2. g[copy[w[1]]] = [i \in DOMAIN h[w[2]] |-> copy[Append(w[1], i)]]
    BY <1>3, <2>1
  <2> DEFINE I == DOMAIN h[w[2]]
             at == copy[w[1]]
  <2>3. DOMAIN g[at] = I /\ \A i \in I : g[at][i] = copy[Append(w[1], i)]
    BY <2>2
  <2>4. Below(g, <<w[1], at>>) = {<<Append(w[1], i), g[at][i]>> : i \in DOMAIN g[at]}
    BY DEF Below
  <2>5. Relabeled(copy, Below(h, w)) = {<<Append(w[1], i), copy[Append(w[1], i)]>> : i \in I}
    <3> DEFINE kid(i) == <<Append(w[1], i), h[w[2]][i]>>
    <3>1. Below(h, w) = {kid(i) : i \in I}
      BY DEF Below
    <3>2. \A i \in I : kid(i)[1] = Append(w[1], i)
      OBVIOUS
    <3> HIDE DEF kid, I
    <3>3. Relabeled(copy, Below(h, w)) = {<<kid(i)[1], copy[kid(i)[1]]>> : i \in I}
      BY <3>1 DEF Relabeled
    <3> QED BY <3>2, <3>3
  <2> HIDE DEF I, at
  <2>6. {<<Append(w[1], i), g[at][i]>> : i \in DOMAIN g[at]}
          = {<<Append(w[1], i), copy[Append(w[1], i)]>> : i \in I}
    BY <2>3
  <2> QED BY <2>4, <2>5, <2>6 DEF at
<1>10. \A n \in 0..N : e[n] = Relabeled(copy, f[n])
  <2> DEFINE T == {n \in Nat : n \in 0..N => e[n] = Relabeled(copy, f[n])}
  <2>1. 0 \in T
    <3>1. f[0] = {<< <<>>, v >>} /\ e[0] = {<< <<>>, clone.root >>}
      BY <1>1, <1>5 DEF Unfolds
    <3>2. Relabeled(copy, {<< <<>>, v >>}) = {<< <<>>, copy[<<>>] >>}
      BY RelabeledNodes
    <3> QED BY <1>2, <3>1, <3>2
  <2>2. ASSUME NEW n \in Nat, n \in T, n + 1 \in 0..N
        PROVE  e[n + 1] = Relabeled(copy, f[n + 1])
    <3>1. n \in 0..N /\ n + 1 \in 1..N /\ (n + 1) - 1 = n
      BY <1>6, <2>2
    <3>2. e[n] = Relabeled(copy, f[n])
      BY <2>2, <3>1
    <3>3. /\ f[n + 1] = {<< <<>>, v >>} \cup UNION {Below(h, w) : w \in f[n]}
          /\ e[n + 1] = {<< <<>>, clone.root >>} \cup UNION {Below(g, u) : u \in e[n]}
      BY <1>1, <1>5, <3>1 DEF Unfolds
    <3>4. UNION {Below(g, u) : u \in e[n]} = UNION {Below(g, <<w[1], copy[w[1]]>>) : w \in f[n]}
      BY <3>2 DEF Relabeled
    <3> DEFINE more == UNION {Below(h, w) : w \in f[n]}
    <3>5. UNION {Below(g, <<w[1], copy[w[1]]>>) : w \in f[n]}
            = UNION {Relabeled(copy, Below(h, w)) : w \in f[n]}
      <4>1. \A w \in f[n] : Below(g, <<w[1], copy[w[1]]>>) = Relabeled(copy, Below(h, w))
        BY <1>9, <2>2, <3>1
      <4> QED BY <4>1
    <3>6. UNION {Relabeled(copy, Below(h, w)) : w \in f[n]} = Relabeled(copy, more)
      BY DEF Relabeled
    <3>7. Relabeled(copy, {<< <<>>, v >>}) = {<< <<>>, clone.root >>}
      <4>1. Relabeled(copy, {<< <<>>, v >>}) = {<< <<>>, copy[<<>>] >>}
        BY RelabeledNodes
      <4> QED BY <1>2, <4>1
    <3>8. Relabeled(copy, {<< <<>>, v >>} \cup more)
            = Relabeled(copy, {<< <<>>, v >>}) \cup Relabeled(copy, more)
      BY RelabeledNodes
    <3>9. f[n + 1] = {<< <<>>, v >>} \cup more
      BY <3>3
    <3> HIDE DEF more
    <3> QED BY <3>3, <3>4, <3>5, <3>6, <3>7, <3>8, <3>9, Zenon
  <2>3. \A n \in Nat : n \in T => n + 1 \in T
    BY <2>2
  <2> HIDE DEF T
  <2>4. Nat \subseteq T
    BY <2>1, <2>3, NatSetInduction
  <2> QED BY <1>6, <2>4 DEF T
<1>11. PathsOf(Relabeled(copy, f[N])) = PathsOf(f[N])
  BY RelabeledNodes
<1> QED BY <1>1, <1>5, <1>6, <1>10, <1>11

\* The tree of a value in a closed set depends on that set alone.
LEMMA UnfoldingIsLocal ==
  ASSUME NEW g, NEW h, HoldsArrays(g), HoldsArrays(h), NEW C, Agree(g, h, C), NEW v \in C
  PROVE  UnfoldingIn(g, v) = UnfoldingIn(h, v)
<1> DEFINE N == NumBuffers
<1>1. v \in DOMAIN g /\ v \in DOMAIN h
  BY DEF Agree, Closed
<1>2. PICK e : Unfolds(e, g, v) /\ UnfoldingIn(g, v) = e[N]
  BY <1>1, UnfoldingExists
<1>3. PICK f : Unfolds(f, h, v) /\ UnfoldingIn(h, v) = f[N]
  BY <1>1, UnfoldingExists
<1>4. N \in Nat /\ N \in 0..N
  BY BoundsAssumption
<1>5. ASSUME NEW u, u[2] \in C
      PROVE  Below(g, u) = Below(h, u) /\ \A w \in Below(h, u) : w[2] \in C
  <2>1. g[u[2]] = h[u[2]] /\ Range(h[u[2]]) \subseteq C
    BY <1>5 DEF Agree, Closed
  <2> QED BY <2>1 DEF Below, Range
<1>6. \A n \in 0..N : e[n] = f[n] /\ \A u \in f[n] : u[2] \in C
  <2> DEFINE T == {n \in Nat : n \in 0..N => e[n] = f[n] /\ \A u \in f[n] : u[2] \in C}
  <2>1. 0 \in T
    <3>1. e[0] = {<< <<>>, v >>} /\ f[0] = {<< <<>>, v >>}
      BY <1>2, <1>3 DEF Unfolds
    <3>2. << <<>>, v >>[2] = v
      OBVIOUS
    <3> QED BY <3>1, <3>2
  <2>2. ASSUME NEW n \in Nat, n \in T, n + 1 \in 0..N
        PROVE  e[n + 1] = f[n + 1] /\ \A u \in f[n + 1] : u[2] \in C
    <3>1. n \in 0..N /\ n + 1 \in 1..N /\ (n + 1) - 1 = n
      BY <1>4, <2>2
    <3>2. e[n] = f[n] /\ \A u \in f[n] : u[2] \in C
      BY <2>2, <3>1
    <3>3. /\ f[n + 1] = {<< <<>>, v >>} \cup UNION {Below(h, w) : w \in f[n]}
          /\ e[n + 1] = {<< <<>>, v >>} \cup UNION {Below(g, w) : w \in e[n]}
      BY <1>2, <1>3, <3>1 DEF Unfolds
    <3>4. \A u \in f[n] : Below(g, u) = Below(h, u) /\ \A w \in Below(h, u) : w[2] \in C
      BY <1>5, <3>2
    <3> QED BY <3>2, <3>3, <3>4
  <2>3. \A n \in Nat : n \in T => n + 1 \in T
    BY <2>2
  <2> HIDE DEF T
  <2>4. Nat \subseteq T
    BY <2>1, <2>3, NatSetInduction
  <2> QED BY <1>4, <2>4 DEF T
<1> QED BY <1>2, <1>3, <1>4, <1>6

------------------------------------------------------------------------------
(* Environments.                                                           *)

\* Partial functions are the functions on a part.
LEMMA PartialFunctionFacts ==
  ASSUME NEW S, NEW T
  PROVE  /\ \A f \in PartialFunctions(S, T) : DOMAIN f \subseteq S /\ f \in [DOMAIN f -> T]
         /\ \A D \in SUBSET S : \A f \in [D -> T] : f \in PartialFunctions(S, T)
BY DEF PartialFunctions

\* The cells an environment leads to are those it is over, and it is over
\* any set that has them.
LEMMA HeldCells ==
  ASSUME NEW C, NEW scs \in Seq(PartialFunctions(Names, C))
  PROVE  /\ Held(scs) \subseteq C
         /\ \A L : Held(scs) \subseteq L => scs \in Seq(PartialFunctions(Names, L))
         /\ \A i \in 1..Len(scs) : \A x \in DOMAIN scs[i] : x \in Names /\ scs[i][x] \in Held(scs)
<1>1. DOMAIN scs = 1..Len(scs)
  BY LenProperties
<1>2. \A i \in 1..Len(scs) : scs[i] \in PartialFunctions(Names, C)
  BY ElementOfSeq
<1>3. \A i \in 1..Len(scs) : DOMAIN scs[i] \subseteq Names /\ scs[i] \in [DOMAIN scs[i] -> C]
  BY <1>2, PartialFunctionFacts
<1>4. Held(scs) \subseteq C
  BY <1>1, <1>3 DEF Held, Range
<1>5. \A i \in 1..Len(scs) : \A x \in DOMAIN scs[i] : scs[i][x] \in Held(scs)
  BY <1>1 DEF Held, Range
<1>6. ASSUME NEW L, Held(scs) \subseteq L
      PROVE  scs \in Seq(PartialFunctions(Names, L))
  <2>1. \A i \in 1..Len(scs) : scs[i] \in [DOMAIN scs[i] -> L]
    BY <1>3, <1>5, <1>6
  <2>2. \A i \in 1..Len(scs) : scs[i] \in PartialFunctions(Names, L)
    BY <1>3, <2>1, PartialFunctionFacts
  <2> QED BY <2>2, SeqOfMembers
<1> QED BY <1>3, <1>4, <1>5, <1>6

\* An environment stays one when there are more cells.
LEMMA EnvironmentWidens ==
  ASSUME NEW c, NEW d, DOMAIN c \subseteq DOMAIN d, NEW scs, IsEnvironment(scs, c)
  PROVE  IsEnvironment(scs, d)
<1>1. scs \in Seq(PartialFunctions(Names, DOMAIN c)) /\ scs # <<>>
  BY DEF IsEnvironment
<1>2. Held(scs) \subseteq DOMAIN d
  BY <1>1, HeldCells
<1> QED BY <1>1, <1>2, HeldCells DEF IsEnvironment

\* The same of a frame.
LEMMA FrameWidens ==
  ASSUME NEW c, NEW d, DOMAIN c \subseteq DOMAIN d, NEW h, NEW g, DOMAIN h \subseteq DOMAIN g
  PROVE  FramesOf(c, h) \subseteq FramesOf(d, g)
<1>1. Seq(DOMAIN h) \subseteq Seq(DOMAIN g)
  BY SeqMonotonic
<1>2. Seq(PartialFunctions(Names, DOMAIN c)) \subseteq Seq(PartialFunctions(Names, DOMAIN d))
  <2> SUFFICES ASSUME NEW scs \in Seq(PartialFunctions(Names, DOMAIN c))
               PROVE  scs \in Seq(PartialFunctions(Names, DOMAIN d))
    OBVIOUS
  <2>1. Held(scs) \subseteq DOMAIN d
    BY HeldCells
  <2> QED BY <2>1, HeldCells
<1> QED BY <1>1, <1>2 DEF FramesOf

\* The same of all a program keeps.
LEMMA ProgramWidens ==
  ASSUME NEW c, NEW d, DOMAIN c \subseteq DOMAIN d, NEW h, NEW g, DOMAIN h \subseteq DOMAIN g,
         NEW scs, NEW fun, NEW ts, NEW fs, IsProgram(c, h, scs, fun, ts, fs)
  PROVE  IsProgram(d, g, scs, fun, ts, fs)
<1>1. IsEnvironment(scs, d) /\ (fun = <<>> \/ IsEnvironment(fun, d))
  BY EnvironmentWidens DEF IsProgram
<1>2. ts \in Seq(DOMAIN g)
  BY SeqMonotonic DEF IsProgram
<1>3. fs \in Seq(FramesOf(d, g))
  BY FrameWidens, SeqMonotonic DEF IsProgram
<1> QED BY <1>1, <1>2, <1>3 DEF IsProgram

------------------------------------------------------------------------------
(* What is dropped.                                                        *)

\* What is left of cells and heap when a program keeps what it leads to.
Committed(c, h, scs, fun, ts, fs, kc, kh) ==
  /\ kc = Keep(c, Live(scs, fun, fs))
  /\ kh = Keep(h, ReachableIn(h, Range(kc) \cup Pending(ts, fs)))

\* The cells a program leads to are cells in use, and what is left is what
\* it leads to, with the same values.
LEMMA LiveCells ==
  ASSUME NEW c, NEW h, NEW scs, NEW fun, NEW ts, NEW fs, IsProgram(c, h, scs, fun, ts, fs),
         NEW kc, kc = Keep(c, Live(scs, fun, fs))
  PROVE  /\ DOMAIN kc = Live(scs, fun, fs) /\ Live(scs, fun, fs) \subseteq DOMAIN c
         /\ \A x \in DOMAIN kc : kc[x] = c[x]
         /\ kc \in [DOMAIN kc -> Range(c)]
<1>1. Held(scs) \subseteq DOMAIN c
  BY HeldCells DEF IsProgram, IsEnvironment
<1>2. Held(fun) \subseteq DOMAIN c
  <2>1. CASE fun = <<>>
    BY <2>1 DEF Held
  <2>2. CASE IsEnvironment(fun, c)
    BY <2>2, HeldCells DEF IsEnvironment
  <2> QED BY <2>1, <2>2 DEF IsProgram
<1>3. \A i \in DOMAIN fs : Held(fs[i].scopes) \subseteq DOMAIN c
  <2> TAKE i \in DOMAIN fs
  <2>1. fs[i] \in FramesOf(c, h)
    BY LenProperties, ElementOfSeq DEF IsProgram
  <2>2. fs[i].scopes \in Seq(PartialFunctions(Names, DOMAIN c))
    BY <2>1 DEF FramesOf
  <2> QED BY <2>2, HeldCells
<1>4. Live(scs, fun, fs) \subseteq DOMAIN c
  BY <1>1, <1>2, <1>3 DEF Live
<1> QED BY <1>4 DEF Keep, Range

\* Operands and items are buffers in use.
LEMMA PendingBuffers ==
  ASSUME NEW c, NEW h, NEW ts \in Seq(DOMAIN h), NEW fs \in Seq(FramesOf(c, h))
  PROVE  Pending(ts, fs) \subseteq DOMAIN h
<1>1. Range(ts) \subseteq DOMAIN h
  BY SeqRange
<1>2. \A i \in DOMAIN fs : Range(fs[i].temps) \subseteq DOMAIN h /\ Range(fs[i].items) \subseteq DOMAIN h
  <2> TAKE i \in DOMAIN fs
  <2>1. fs[i] \in FramesOf(c, h)
    BY LenProperties, ElementOfSeq
  <2>2. fs[i].temps \in Seq(DOMAIN h) /\ fs[i].items \in Seq(DOMAIN h)
    BY <2>1 DEF FramesOf
  <2> QED BY <2>2, SeqRange
<1> QED BY <1>1, <1>2 DEF Pending

\* Nothing that is still needed is dropped.
LEMMA CommitFacts ==
  ASSUME NEW c, NEW h, IsStore(c, h),
         NEW scs, NEW fun, NEW ts, NEW fs, IsProgram(c, h, scs, fun, ts, fs),
         NEW kc, NEW kh, Committed(c, h, scs, fun, ts, fs, kc, kh)
  PROVE  /\ IsStore(kc, kh) /\ IsProgram(kc, kh, scs, fun, ts, fs)
         /\ DOMAIN kc = Live(scs, fun, fs) /\ DOMAIN kc \subseteq DOMAIN c
         /\ \A x \in DOMAIN kc : kc[x] = c[x]
         /\ Agree(kh, h, DOMAIN kh)
<1> DEFINE L == Live(scs, fun, fs)
           roots == Range(kc) \cup Pending(ts, fs)
<1>1. DOMAIN kc = L /\ L \subseteq DOMAIN c /\ kc \in [L -> Range(c)] /\ \A x \in L : kc[x] = c[x]
  BY LiveCells DEF Committed
<1>2. c \in [DOMAIN c -> DOMAIN h] /\ DOMAIN c \subseteq Cells
  BY PartialFunctionFacts DEF IsStore
<1>3. Range(kc) \subseteq DOMAIN h
  BY <1>1, <1>2 DEF Range
<1>4. IsHeap(h) /\ HoldsArrays(h)
  BY ArraysAreAHeap DEF IsStore
<1>5. roots \in SUBSET DOMAIN h
  <2>1. ts \in Seq(DOMAIN h) /\ fs \in Seq(FramesOf(c, h))
    BY DEF IsProgram
  <2> QED BY <1>3, <2>1, PendingBuffers
<1>6. kh = Keep(h, ReachableIn(h, roots))
  BY DEF Committed
<1>7. IsHeap(kh) /\ Agree(kh, h, DOMAIN kh) /\ roots \subseteq DOMAIN kh
  <2> HIDE DEF roots
  <2> QED BY <1>4, <1>5, <1>6, KeptHeapAgrees
<1>8. HoldsArrays(kh)
  <2> SUFFICES ASSUME NEW b \in DOMAIN kh
               PROVE  kh[b] \in Seq(DOMAIN kh) /\ Len(kh[b]) <= MaxLen
    BY <1>7 DEF HoldsArrays, IsHeap
  <2>1. kh[b] = h[b] /\ b \in DOMAIN h /\ Range(h[b]) \subseteq DOMAIN kh
    BY <1>7 DEF Agree, Closed
  <2>2. h[b] \in Seq(DOMAIN h) /\ Len(h[b]) <= MaxLen
    BY <1>4, <2>1 DEF HoldsArrays
  <2> QED BY <2>1, <2>2, SeqRange
<1>9. IsStore(kc, kh)
  <2>1. L \in SUBSET Cells
    BY <1>1, <1>2
  <2>2. kc \in [L -> DOMAIN kh]
    BY <1>1, <1>7 DEF Range
  <2> QED BY <1>8, <2>1, <2>2, PartialFunctionFacts DEF IsStore
<1>10. ASSUME NEW C, NEW e \in Seq(PartialFunctions(Names, C)), Held(e) \subseteq L
       PROVE  e \in Seq(PartialFunctions(Names, DOMAIN kc))
  BY <1>1, <1>10, HeldCells
<1>11. IsEnvironment(scs, kc) /\ (fun = <<>> \/ IsEnvironment(fun, kc))
  <2>1. Held(scs) \subseteq L /\ Held(fun) \subseteq L
    BY DEF Live
  <2> HIDE DEF L
  <2> QED BY <1>10, <2>1 DEF IsEnvironment, IsProgram
<1>12. ts \in Seq(DOMAIN kh)
  <2>1. Range(ts) \subseteq DOMAIN kh
    BY <1>7 DEF Pending
  <2> QED BY <2>1, SeqRange DEF IsProgram
<1>13. fs \in Seq(FramesOf(kc, kh))
  <2>1. fs \in Seq(FramesOf(c, h)) /\ DOMAIN fs = 1..Len(fs)
    BY LenProperties DEF IsProgram
  <2> SUFFICES ASSUME NEW i \in DOMAIN fs
               PROVE  fs[i] \in FramesOf(kc, kh)
    BY <2>1, SeqOfMembers
  <2>2. fs[i] \in FramesOf(c, h)
    BY <2>1, ElementOfSeq
  <2>3. /\ fs[i].scopes \in Seq(PartialFunctions(Names, DOMAIN c))
        /\ fs[i].temps \in Seq(DOMAIN h) /\ fs[i].items \in Seq(DOMAIN h)
    BY <2>2 DEF FramesOf
  <2>4. Held(fs[i].scopes) \subseteq L
    BY DEF Live
  <2>5. Range(fs[i].temps) \subseteq DOMAIN kh /\ Range(fs[i].items) \subseteq DOMAIN kh
    BY <1>7 DEF Pending
  <2>6. fs[i].scopes \in Seq(PartialFunctions(Names, DOMAIN kc))
    BY <1>10, <2>3, <2>4
  <2>7. fs[i].temps \in Seq(DOMAIN kh) /\ fs[i].items \in Seq(DOMAIN kh)
    BY <2>3, <2>5, SeqRange
  <2> QED BY <2>2, <2>6, <2>7 DEF FramesOf
<1>14. IsProgram(kc, kh, scs, fun, ts, fs)
  BY <1>11, <1>12, <1>13 DEF IsProgram
<1> QED BY <1>1, <1>7, <1>9, <1>14

------------------------------------------------------------------------------
(* Steps that bind nothing and store nothing.                              *)

\* A step that goes by way of cells `c` and heap `h`, all of it well formed.
Settled(c, h) ==
  /\ IsStore(c, h)
  /\ IsProgram(c, h, scopes', captured', temps', frames')
  /\ Commit(c, h)
  /\ outcome' = outcome

\* What TypeOK says of each part.
LEMMA TypeParts ==
  ASSUME TypeOK
  PROVE  /\ cell \in [DOMAIN cell -> DOMAIN buffer] /\ DOMAIN cell \subseteq Cells
         /\ HoldsArrays(buffer) /\ DOMAIN buffer \subseteq Buffers
         /\ IsEnvironment(scopes, cell) /\ (captured = <<>> \/ IsEnvironment(captured, cell))
         /\ temps \in Seq(DOMAIN buffer) /\ Len(temps) \in 0..MaxTemps
         /\ \A i \in 1..Len(temps) : temps[i] \in DOMAIN buffer
         /\ frames \in Seq(FramesOf(cell, buffer)) /\ Len(frames) \in 0..MaxFrames
         /\ MaxTemps \in Nat \ {0} /\ MaxFrames \in Nat /\ MaxLen \in Nat \ {0}
<1>1. cell \in [DOMAIN cell -> DOMAIN buffer] /\ DOMAIN cell \subseteq Cells
  BY PartialFunctionFacts DEF TypeOK, IsStore
<1>2. Len(temps) \in Nat /\ Len(frames) \in Nat /\ \A i \in 1..Len(temps) : temps[i] \in DOMAIN buffer
  BY LenProperties, ElementOfSeq DEF TypeOK, IsProgram
<1> QED BY <1>1, <1>2, BoundsAssumption DEF TypeOK, IsStore, IsProgram, HoldsArrays

\* A name that can be seen leads to a cell in use.
LEMMA LookupFacts ==
  ASSUME TypeOK, NEW x \in Visible
  PROVE  /\ Lookup(x) \in DOMAIN cell /\ cell[Lookup(x)] \in DOMAIN buffer
         /\ Lookup(x) \in Held(scopes)
<1> DEFINE S == {i \in 1..Len(scopes) : x \in DOMAIN scopes[i]}
<1>1. scopes \in Seq(PartialFunctions(Names, DOMAIN cell))
  BY TypeParts DEF IsEnvironment
<1>2. Len(scopes) \in Nat /\ DOMAIN scopes = 1..Len(scopes)
  BY <1>1, LenProperties
<1>3. S \subseteq 1..Len(scopes) /\ S # {}
  BY <1>2 DEF Visible
<1>4. Max(S) \in S /\ \A m \in S : m <= Max(S)
  <2> HIDE DEF S
  <2> QED BY <1>2, <1>3, NonEmptyHasMax
<1>5. \E i \in DOMAIN scopes : x \in DOMAIN scopes[i] /\ \A j \in DOMAIN scopes : x \in DOMAIN scopes[j] => j <= i
  BY <1>2, <1>4
<1>6. PICK i \in DOMAIN scopes : x \in DOMAIN scopes[i] /\ Lookup(x) = scopes[i][x]
  <2> DEFINE P(i) == x \in DOMAIN scopes[i] /\ \A j \in DOMAIN scopes : x \in DOMAIN scopes[j] => j <= i
  <2>1. P(CHOOSE i \in DOMAIN scopes : P(i)) /\ (CHOOSE i \in DOMAIN scopes : P(i)) \in DOMAIN scopes
    BY <1>5
  <2>2. Lookup(x) = scopes[CHOOSE i \in DOMAIN scopes : P(i)][x]
    BY DEF Lookup
  <2> QED BY <2>1, <2>2
<1>7. scopes[i][x] \in Held(scopes) /\ Held(scopes) \subseteq DOMAIN cell
  BY <1>1, <1>2, <1>6, HeldCells
<1> QED BY <1>6, <1>7, TypeParts

\* The top frame, and those under it.
LEMMA FrameParts ==
  ASSUME TypeOK, NEW n \in 1..Len(frames)
  PROVE  /\ frames[n] \in FramesOf(cell, buffer)
         /\ frames[n].kind \in {"block", "loop", "call"}
         /\ IsEnvironment(frames[n].scopes, cell)
         /\ frames[n].temps \in Seq(DOMAIN buffer) /\ frames[n].items \in Seq(DOMAIN buffer)
         /\ Len(frames[n].temps) \in 0..MaxTemps
         /\ frames[n].kind = "call" => Len(frames[n].temps) <= MaxTemps - 1
         /\ SubSeq(frames, 1, n - 1) \in Seq(FramesOf(cell, buffer))
         /\ Len(SubSeq(frames, 1, n - 1)) = n - 1 /\ n - 1 <= MaxFrames
<1>1. frames \in Seq(FramesOf(cell, buffer)) /\ Len(frames) \in 0..MaxFrames /\ MaxTemps \in Nat \ {0}
      /\ MaxFrames \in Nat
  BY TypeParts
<1>2. frames[n] \in FramesOf(cell, buffer)
  BY <1>1, ElementOfSeq
<1>3. /\ frames[n].kind \in {"block", "loop", "call"}
      /\ frames[n].scopes \in Seq(PartialFunctions(Names, DOMAIN cell)) /\ frames[n].scopes # <<>>
      /\ frames[n].temps \in Seq(DOMAIN buffer) /\ frames[n].items \in Seq(DOMAIN buffer)
      /\ Len(frames[n].temps) <= IF frames[n].kind = "call" THEN MaxTemps - 1 ELSE MaxTemps
  BY <1>2 DEF FramesOf
<1>4. Len(frames[n].temps) \in Nat
  BY <1>3, LenProperties
<1>5. n - 1 \in 0..Len(frames)
  BY <1>1
<1>6. SubSeq(frames, 1, n - 1) \in Seq(FramesOf(cell, buffer)) /\ Len(SubSeq(frames, 1, n - 1)) = n - 1
  BY <1>1, <1>5, PrefixTypes
<1>7. /\ Len(frames[n].temps) \in 0..MaxTemps
      /\ frames[n].kind = "call" => Len(frames[n].temps) <= MaxTemps - 1
  BY <1>1, <1>3, <1>4
<1>8. n - 1 <= MaxFrames
  BY <1>1, <1>5
<1> QED BY <1>2, <1>3, <1>6, <1>7, <1>8 DEF IsEnvironment

\* A new frame keeps the scopes and operands of the statement it is in.
LEMMA NewFrame ==
  ASSUME TypeOK, Len(frames) < MaxFrames, NEW kind \in {"block", "loop", "call"},
         NEW kept \in Seq(DOMAIN buffer), Len(kept) <= MaxTemps, kind = "call" => Len(kept) <= MaxTemps - 1,
         NEW items \in Seq(DOMAIN buffer)
  PROVE  /\ Append(frames, Frame(kind, kept, items)) \in Seq(FramesOf(cell, buffer))
         /\ Len(Append(frames, Frame(kind, kept, items))) <= MaxFrames
<1>1. Frame(kind, kept, items) \in FramesOf(cell, buffer)
  BY TypeParts DEF Frame, FramesOf, IsEnvironment
<1>2. frames \in Seq(FramesOf(cell, buffer)) /\ Len(frames) \in 0..MaxFrames /\ MaxFrames \in Nat
  BY TypeParts
<1> QED BY <1>1, <1>2, AppendFacts

\* A scope is pushed.
LEMMA ScopePushed ==
  ASSUME NEW c, NEW scs, IsEnvironment(scs, c)
  PROVE  IsEnvironment(push_scope(scs), c)
<1>1. <<>> \in PartialFunctions(Names, DOMAIN c)
  <2>1. <<>> \in [{} -> DOMAIN c]
    OBVIOUS
  <2> QED BY <2>1, PartialFunctionFacts
<1>2. scs \in Seq(PartialFunctions(Names, DOMAIN c)) /\ Len(scs) \in Nat
  BY LenProperties DEF IsEnvironment
<1>3. /\ Append(scs, <<>>) \in Seq(PartialFunctions(Names, DOMAIN c))
      /\ Len(Append(scs, <<>>)) = Len(scs) + 1
  BY <1>1, <1>2, AppendFacts
<1>4. Append(scs, <<>>) # <<>>
  BY <1>1, <1>2, AppendProperties
<1> QED BY <1>3, <1>4 DEF push_scope, IsEnvironment

\* A store that does not change, under a program that is well formed.
LEMMA ReadingSettles ==
  ASSUME TypeOK, Commit(cell, buffer), outcome' = outcome,
         IsEnvironment(scopes', cell), captured' = <<>> \/ IsEnvironment(captured', cell),
         temps' \in Seq(DOMAIN buffer), Len(temps') <= MaxTemps,
         frames' \in Seq(FramesOf(cell, buffer)), Len(frames') <= MaxFrames
  PROVE  Settled(cell, buffer)
BY DEF Settled, TypeOK, IsProgram

\* An operand that is put on top of no more than there is room for.
LEMMA OperandFits ==
  ASSUME TypeOK, NEW ts \in Seq(DOMAIN buffer), Len(ts) < MaxTemps, NEW b \in DOMAIN buffer
  PROVE  Append(ts, b) \in Seq(DOMAIN buffer) /\ Len(Append(ts, b)) <= MaxTemps
<1>1. Len(ts) \in Nat /\ MaxTemps \in Nat
  BY LenProperties, TypeParts
<1>2. Append(ts, b) \in Seq(DOMAIN buffer) /\ Len(Append(ts, b)) = Len(ts) + 1
  BY AppendFacts
<1> QED BY <1>1, <1>2

\* Reading a name settles.
LEMMA IdentSettles ==
  ASSUME TypeOK, NEW x, Ident(x)
  PROVE  Settled(cell, buffer)
<1>1. /\ temps' = Append(temps, cell[Lookup(x)]) /\ Len(temps) < MaxTemps
      /\ UNCHANGED <<scopes, captured, frames, outcome>> /\ Commit(cell, buffer)
  BY DEF Ident, Operand
<1>2. cell[Lookup(x)] \in DOMAIN buffer
  BY LookupFacts DEF Ident
<1>3. temps' \in Seq(DOMAIN buffer) /\ Len(temps') <= MaxTemps
  BY <1>1, <1>2, TypeParts, OperandFits
<1> QED BY <1>1, <1>3, TypeParts, ReadingSettles

\* Reading an element settles.
LEMMA IndexSettles ==
  ASSUME TypeOK, NEW i, Index(i)
  PROVE  Settled(cell, buffer)
<1> DEFINE b == Last(temps)
<1>1. /\ temps # <<>> /\ i \in DOMAIN buffer[b]
      /\ temps' = Append(Front(temps), buffer[b][i])
      /\ UNCHANGED <<scopes, captured, frames, outcome>> /\ Commit(cell, buffer)
  BY DEF Index
<1>2. temps \in Seq(DOMAIN buffer) /\ Len(temps) \in 0..MaxTemps /\ MaxTemps \in Nat
  BY TypeParts
<1>3. Len(temps) \in Nat \ {0} /\ b \in DOMAIN buffer
  BY <1>1, <1>2, LastFacts
<1>4. buffer[b] \in Seq(DOMAIN buffer)
  BY <1>3, TypeParts DEF HoldsArrays
<1>5. buffer[b][i] \in DOMAIN buffer
  <2> HIDE DEF b
  <2>1. i \in 1..Len(buffer[b])
    BY <1>1, <1>4, LenProperties
  <2> QED BY <1>4, <2>1, ElementOfSeq
<1>6. Front(temps) \in Seq(DOMAIN buffer) /\ Len(Front(temps)) = Len(temps) - 1
  BY <1>1, <1>2, FrontTypes
<1>7. Len(Front(temps)) < MaxTemps
  BY <1>2, <1>3, <1>6
<1>8. temps' \in Seq(DOMAIN buffer) /\ Len(temps') <= MaxTemps
  <2> HIDE DEF b
  <2> QED BY <1>1, <1>5, <1>6, <1>7, OperandFits
<1> QED BY <1>1, <1>8, TypeParts, ReadingSettles

\* Entering a loop settles.
LEMMA ForInSettles ==
  ASSUME TypeOK, ForIn
  PROVE  Settled(cell, buffer)
<1>1. /\ Len(frames) < MaxFrames /\ Len(temps) = 1
      /\ frames' = Append(frames, Frame("loop", <<>>, buffer[temps[1]])) /\ temps' = <<>>
      /\ UNCHANGED <<scopes, captured, outcome>> /\ Commit(cell, buffer)
  BY DEF ForIn
<1>2. temps[1] \in DOMAIN buffer
  BY <1>1, TypeParts
<1>3. buffer[temps[1]] \in Seq(DOMAIN buffer)
  BY <1>2, TypeParts DEF HoldsArrays
<1>4. <<>> \in Seq(DOMAIN buffer) /\ Len(<<>>) = 0 /\ 0 <= MaxTemps
  BY EmptySeq, TypeParts
<1>5. frames' \in Seq(FramesOf(cell, buffer)) /\ Len(frames') <= MaxFrames
  BY <1>1, <1>3, <1>4, NewFrame
<1> QED BY <1>1, <1>4, <1>5, TypeParts, ReadingSettles

\* Entering a block settles.
LEMMA EnterBlockSettles ==
  ASSUME TypeOK, EnterBlock
  PROVE  Settled(cell, buffer)
<1>1. /\ Len(frames) < MaxFrames
      /\ frames' = Append(frames, Frame("block", temps, <<>>)) /\ temps' = <<>>
      /\ scopes' = push_scope(scopes)
      /\ UNCHANGED <<captured, outcome>> /\ Commit(cell, buffer)
  BY DEF EnterBlock
<1>2. <<>> \in Seq(DOMAIN buffer) /\ Len(<<>>) = 0 /\ 0 <= MaxTemps
  BY EmptySeq, TypeParts
<1>3. temps \in Seq(DOMAIN buffer) /\ Len(temps) <= MaxTemps
  BY TypeParts
<1>4. frames' \in Seq(FramesOf(cell, buffer)) /\ Len(frames') <= MaxFrames
  BY <1>1, <1>2, <1>3, NewFrame
<1>5. IsEnvironment(scopes', cell)
  BY <1>1, TypeParts, ScopePushed
<1> QED BY <1>1, <1>2, <1>4, <1>5, TypeParts, ReadingSettles

\* Declaring the function settles.
LEMMA DeclareFunSettles ==
  ASSUME TypeOK, DeclareFun
  PROVE  Settled(cell, buffer)
<1>1. captured' = scopes /\ UNCHANGED <<scopes, temps, frames, outcome>> /\ Commit(cell, buffer)
  BY DEF DeclareFun
<1> QED BY <1>1, TypeParts, ReadingSettles

\* Going back to a frame that has room for the value settles.
LEMMA LeaveSettles ==
  ASSUME TypeOK, NEW n \in 1..Len(frames), Leave(n), Len(frames[n].temps) + Len(temps) <= MaxTemps
  PROVE  Settled(cell, buffer)
<1>1. /\ scopes' = frames[n].scopes /\ temps' = frames[n].temps \o temps
      /\ frames' = SubSeq(frames, 1, n - 1)
      /\ UNCHANGED <<captured, outcome>> /\ Commit(cell, buffer)
  BY DEF Leave
<1>2. /\ temps \in Seq(DOMAIN buffer) /\ frames[n].temps \in Seq(DOMAIN buffer)
      /\ IsEnvironment(frames[n].scopes, cell)
      /\ SubSeq(frames, 1, n - 1) \in Seq(FramesOf(cell, buffer))
      /\ Len(SubSeq(frames, 1, n - 1)) <= MaxFrames
  BY TypeParts, FrameParts
<1>3. temps' \in Seq(DOMAIN buffer) /\ Len(temps') <= MaxTemps
  BY <1>1, <1>2, ConcatProperties
<1> QED BY <1>1, <1>2, <1>3, TypeParts, ReadingSettles

\* Leaving a block, a loop and a call.
LEMMA EndsSettle ==
  ASSUME TypeOK, EndBlock \/ EndLoop \/ Return
  PROVE  Settled(cell, buffer)
<1>1. /\ Len(frames) \in Nat /\ DOMAIN frames = 1..Len(frames)
      /\ temps \in Seq(DOMAIN buffer) /\ Len(temps) \in 0..MaxTemps /\ MaxTemps \in Nat
  BY TypeParts, LenProperties
<1>2. \A n \in 1..Len(frames) :
        /\ Len(frames[n].temps) \in 0..MaxTemps
        /\ frames[n].kind = "call" => Len(frames[n].temps) <= MaxTemps - 1
  BY FrameParts
<1>3. CASE EndBlock
  <2>1. frames # <<>> /\ Len(Last(frames).temps) + Len(temps) <= MaxTemps /\ Leave(Len(frames))
    BY <1>3 DEF EndBlock, Inside
  <2>2. Len(frames) \in 1..Len(frames) /\ Last(frames) = frames[Len(frames)]
    <3>1. Len(frames) # 0
      BY <2>1, TypeParts, EmptySeq
    <3> QED BY <1>1, <3>1 DEF Last
  <2> QED BY <2>1, <2>2, LeaveSettles
<1>4. CASE EndLoop
  <2>1. PICK n \in 1..Len(frames) : Leave(n)
    BY <1>1, <1>4 DEF EndLoop
  <2>2. Len(temps) = 0
    BY <1>4 DEF EndLoop
  <2>3. Len(frames[n].temps) + Len(temps) <= MaxTemps
    BY <1>1, <1>2, <2>2
  <2> QED BY <2>1, <2>3, LeaveSettles
<1>5. CASE Return
  <2>1. PICK n \in 1..Len(frames) : frames[n].kind = "call" /\ Leave(n)
    BY <1>1, <1>5 DEF Return
  <2>2. Len(temps) = 1
    BY <1>5 DEF Return
  <2>3. Len(frames[n].temps) + Len(temps) <= MaxTemps
    BY <1>1, <1>2, <2>1, <2>2
  <2> QED BY <2>1, <2>3, LeaveSettles
<1> QED BY <1>3, <1>4, <1>5

\* A buffer that is not in use can be had.
LEMMA NewBufferFacts ==
  ASSUME TypeOK, HasBuffer
  PROVE  NewBuffer \in Buffers /\ NewBuffer \notin DOMAIN buffer
<1>1. \E b \in Buffers : b \notin DOMAIN buffer
  BY TypeParts DEF HasBuffer
<1> QED BY <1>1 DEF NewBuffer

\* A new array settles, by way of the heap with its buffer.
LEMMA LiteralSettles ==
  ASSUME TypeOK, NEW k \in Nat, Literal(k)
  PROVE  \E elements : LET h == Override(buffer, Only(NewBuffer, elements)) IN
           Settled(cell, h) /\ NewBuffer \notin DOMAIN buffer
<1> DEFINE elements == SubSeq(temps, Len(temps) - k + 1, Len(temps))
           rest == SubSeq(temps, 1, Len(temps) - k)
           b == NewBuffer
           h == Override(buffer, Only(b, elements))
<1>1. /\ k <= Len(temps) /\ k <= MaxLen /\ Len(temps) - k < MaxTemps /\ HasBuffer
      /\ temps' = Append(rest, b)
      /\ UNCHANGED <<scopes, captured, frames, outcome>> /\ Commit(cell, h)
  BY DEF Literal
<1>2. b \in Buffers /\ b \notin DOMAIN buffer
  BY <1>1, NewBufferFacts
<1>3. temps \in Seq(DOMAIN buffer) /\ Len(temps) \in Nat /\ MaxTemps \in Nat /\ MaxLen \in Nat
  BY TypeParts
<1>4. rest \in Seq(DOMAIN buffer) /\ Len(rest) = Len(temps) - k
  <2>1. Len(temps) - k \in 0..Len(temps)
    BY <1>1, <1>3
  <2> QED BY <1>3, <2>1, PrefixTypes
<1>5. elements \in Seq(DOMAIN buffer) /\ Len(elements) = k
  <2>1. \A i \in (Len(temps) - k + 1)..Len(temps) : temps[i] \in DOMAIN buffer
    BY <1>1, <1>3, TypeParts
  <2>2. Len(temps) - k + 1 \in Int /\ Len(temps) \in Int
    BY <1>3
  <2>3. elements \in Seq(DOMAIN buffer)
        /\ Len(elements) = IF Len(temps) - k + 1 <= Len(temps)
                           THEN Len(temps) - (Len(temps) - k + 1) + 1 ELSE 0
    BY <2>1, <2>2, SubSeqProperties
  <2>4. k = IF Len(temps) - k + 1 <= Len(temps)
                           THEN Len(temps) - (Len(temps) - k + 1) + 1 ELSE 0
    BY <1>3
  <2> QED BY <2>3, <2>4
<1>6. DOMAIN h = DOMAIN buffer \cup {b} /\ h[b] = elements /\ \A d \in DOMAIN buffer : h[d] = buffer[d]
  <2>1. \A d \in DOMAIN buffer : d # b
    BY <1>2
  <2> HIDE DEF elements, b
  <2>2. /\ DOMAIN Override(buffer, Only(b, elements)) = DOMAIN buffer \cup {b}
        /\ Override(buffer, Only(b, elements))[b] = elements
        /\ \A d \in DOMAIN buffer : d # b => Override(buffer, Only(b, elements))[d] = buffer[d]
    BY DEF Override, Only
  <2> QED BY <2>1, <2>2
<1> HIDE DEF elements, rest, b, h
<1>7. DOMAIN buffer \subseteq DOMAIN h
  BY <1>6
<1>8. HoldsArrays(h)
  <2>1. \A d \in DOMAIN buffer : h[d] \in Seq(DOMAIN h) /\ Len(h[d]) <= MaxLen
    BY <1>6, <1>7, TypeParts, SeqMonotonic DEF HoldsArrays
  <2>2. h[b] \in Seq(DOMAIN h) /\ Len(h[b]) <= MaxLen
    BY <1>1, <1>5, <1>6, <1>7, SeqMonotonic
  <2>3. DOMAIN h \subseteq Buffers
    BY <1>2, <1>6, TypeParts
  <2> QED BY <1>6, <2>1, <2>2, <2>3 DEF HoldsArrays
<1>9. IsStore(cell, h)
  <2>1. cell \in [DOMAIN cell -> DOMAIN h] /\ DOMAIN cell \in SUBSET Cells
    BY <1>7, TypeParts
  <2> QED BY <1>8, <2>1, PartialFunctionFacts DEF IsStore
<1>10. IsProgram(cell, h, scopes, captured, temps, frames)
  BY <1>7, ProgramWidens DEF TypeOK
<1>11. temps' \in Seq(DOMAIN h) /\ Len(temps') <= MaxTemps
  <2>1. rest \in Seq(DOMAIN h) /\ b \in DOMAIN h
    BY <1>4, <1>6, <1>7, SeqMonotonic
  <2>2. Append(rest, b) \in Seq(DOMAIN h) /\ Len(Append(rest, b)) = Len(rest) + 1
    BY <2>1, AppendFacts
  <2> QED BY <1>1, <1>3, <1>4, <2>2
<1>12. IsProgram(cell, h, scopes', captured', temps', frames')
  BY <1>1, <1>10, <1>11 DEF IsProgram
<1>13. Settled(cell, h)
  BY <1>1, <1>9, <1>12 DEF Settled
<1> QED BY <1>2, <1>13 DEF h, b

------------------------------------------------------------------------------
(* Steps that bind.                                                        *)

\* The heap with a clone in it, and the cells with one that holds it.
WithClone(v) == Override(buffer, Clone(v).heap)
Holding(k, b) == Override(cell, Only(k, b))

\* A clone and what was there before keep to themselves.
LEMMA CloneFacts ==
  ASSUME TypeOK, NEW v \in DOMAIN buffer, HasRoom(v)
  PROVE  /\ \E copy : IsCopy(copy, Clone(v), buffer, v, Buffers \ DOMAIN buffer)
         /\ Clone(v).root \in DOMAIN Clone(v).heap
         /\ DOMAIN Clone(v).heap \subseteq Buffers \ DOMAIN buffer
         /\ HoldsArrays(WithClone(v))
         /\ DOMAIN WithClone(v) = DOMAIN buffer \cup DOMAIN Clone(v).heap
         /\ Agree(WithClone(v), buffer, DOMAIN buffer)
         /\ Agree(WithClone(v), Clone(v).heap, DOMAIN Clone(v).heap)
<1> DEFINE unused == Buffers \ DOMAIN buffer
           h == WithClone(v)
           g == Clone(v).heap
<1>1. HoldsArrays(buffer)
  BY TypeParts
<1>2. \E copy : IsCopy(copy, Clone(v), buffer, v, unused)
  BY <1>1, CloneIsACopy
<1>3. Clone(v).root \in DOMAIN g /\ DOMAIN g \subseteq unused /\ HoldsArrays(g)
  <2>1. unused \subseteq Buffers
    OBVIOUS
  <2> HIDE DEF unused
  <2> QED BY <1>1, <1>2, <2>1, CopiesAreStores
<1>4. /\ DOMAIN h = DOMAIN buffer \cup DOMAIN g
      /\ \A b \in DOMAIN g : h[b] = g[b] /\ \A d \in DOMAIN buffer \ DOMAIN g : h[d] = buffer[d]
  BY DEF WithClone, Override
<1>5. \A b \in DOMAIN buffer : h[b] = buffer[b]
  BY <1>3, <1>4
<1> HIDE DEF h, g
<1>6. Closed(buffer, DOMAIN buffer) /\ Closed(g, DOMAIN g)
  BY <1>1, <1>3, ArraysAreAHeap DEF IsHeap
<1>7. Agree(h, buffer, DOMAIN buffer) /\ Agree(h, g, DOMAIN g)
  BY <1>3, <1>4, <1>5, <1>6 DEF Agree, Closed
<1>8. HoldsArrays(h)
  <2>1. \A b \in DOMAIN g : h[b] \in Seq(DOMAIN h) /\ Len(h[b]) <= MaxLen
    BY <1>3, <1>4, SeqMonotonic DEF HoldsArrays
  <2>2. \A b \in DOMAIN buffer : h[b] \in Seq(DOMAIN h) /\ Len(h[b]) <= MaxLen
    BY <1>1, <1>4, <1>5, SeqMonotonic DEF HoldsArrays
  <2> QED BY <1>1, <1>3, <1>4, <2>1, <2>2 DEF HoldsArrays
<1> QED BY <1>2, <1>3, <1>4, <1>7, <1>8 DEF h, g

\* A store with a clone in one cell, and the program over it.
LEMMA HoldingSettles ==
  ASSUME TypeOK, NEW v \in DOMAIN buffer, HasRoom(v), NEW k \in Cells,
         Commit(Holding(k, Clone(v).root), WithClone(v)), outcome' = outcome,
         IsEnvironment(scopes', Holding(k, Clone(v).root)),
         captured' = captured,
         temps' = <<>>,
         frames' \in Seq(FramesOf(cell, buffer)), Len(frames') <= MaxFrames
  PROVE  Settled(Holding(k, Clone(v).root), WithClone(v))
<1> DEFINE c == Holding(k, Clone(v).root)
           h == WithClone(v)
<1>1. /\ DOMAIN c = DOMAIN cell \cup {k} /\ c[k] = Clone(v).root
      /\ \A d \in DOMAIN cell : d # k => c[d] = cell[d]
  BY DEF Holding, Override, Only
<1>2. DOMAIN buffer \subseteq DOMAIN h /\ Clone(v).root \in DOMAIN h /\ HoldsArrays(h)
  BY CloneFacts
<1>3. c \in [DOMAIN c -> DOMAIN h]
  <2>1. c = [x \in DOMAIN c |-> c[x]]
    BY DEF Holding, Override
  <2>2. \A x \in DOMAIN c : c[x] \in DOMAIN h
    <3>1. \A d \in DOMAIN cell : cell[d] \in DOMAIN h
      BY <1>2, TypeParts
    <3> HIDE DEF c, h
    <3> QED BY <1>1, <1>2, <3>1
  <2> HIDE DEF c, h
  <2> QED BY <2>1, <2>2
<1> HIDE DEF c, h
<1>4. IsStore(c, h)
  <2>1. DOMAIN c \in SUBSET Cells
    BY <1>1, TypeParts
  <2> QED BY <1>2, <1>3, <2>1, PartialFunctionFacts DEF IsStore
<1>5. DOMAIN cell \subseteq DOMAIN c
  BY <1>1
<1>6. captured = <<>> \/ IsEnvironment(captured, c)
  BY <1>5, TypeParts, EnvironmentWidens
<1>7. frames' \in Seq(FramesOf(c, h))
  BY <1>2, <1>5, FrameWidens, SeqMonotonic
<1>8. <<>> \in Seq(DOMAIN h) /\ Len(<<>>) <= MaxTemps
  BY EmptySeq, TypeParts
<1>9. IsEnvironment(scopes', c)
  BY DEF c
<1>10. IsProgram(c, h, scopes', captured', temps', frames')
  BY <1>6, <1>7, <1>8, <1>9 DEF IsProgram
<1> QED BY <1>4, <1>10 DEF Settled, c, h

\* The cell that is found is that of the innermost scope that has the name.
Found(scs, x) ==
  scs[CHOOSE i \in DOMAIN scs :
        x \in DOMAIN scs[i] /\ \A j \in DOMAIN scs : x \in DOMAIN scs[j] => j <= i][x]

\* The scope a name is found in is the innermost one that has it.
LEMMA InnermostIsFound ==
  ASSUME NEW scs, NEW x, NEW n \in Nat, DOMAIN scs \subseteq Nat, n \in DOMAIN scs, x \in DOMAIN scs[n],
         \A j \in DOMAIN scs : x \in DOMAIN scs[j] => j <= n
  PROVE  Found(scs, x) = scs[n][x]
<1> DEFINE P(i) == i \in DOMAIN scs /\ x \in DOMAIN scs[i] /\ \A j \in DOMAIN scs : x \in DOMAIN scs[j] => j <= i
<1>1. \A i : P(i) => i = n
  BY DEF P
<1>2. P(n)
  OBVIOUS
<1>3. (CHOOSE i \in DOMAIN scs :
         x \in DOMAIN scs[i] /\ \A j \in DOMAIN scs : x \in DOMAIN scs[j] => j <= i) = n
  BY <1>1, <1>2
<1> QED BY <1>3 DEF Found

\* A name is put in the top scope, and scopes without names above it.
Declared(scs, x, k, inner) == Append(Front(scs), Override(Last(scs), Only(x, k))) \o inner

\* What comes of it is an environment in which the name leads to that cell.
LEMMA DeclaredFacts ==
  ASSUME NEW c, NEW d, DOMAIN c \subseteq DOMAIN d, NEW k \in DOMAIN d,
         NEW scs, IsEnvironment(scs, c), NEW x \in Names, NEW inner \in {<<>>, BodyScope},
         NEW ds, ds = Declared(scs, x, k, inner)
  PROVE  /\ IsEnvironment(ds, d)
         /\ Found(ds, x) = k /\ k \in Held(ds)
<1> DEFINE S == PartialFunctions(Names, DOMAIN d)
           top == Override(Last(scs), Only(x, k))
           n == Len(scs)
<1>1. scs \in Seq(S) /\ scs # <<>>
  BY EnvironmentWidens DEF IsEnvironment
<1>2. n \in Nat \ {0} /\ Last(scs) \in S
  <2> HIDE DEF S
  <2> QED BY <1>1, LastFacts
<1>3. DOMAIN Last(scs) \subseteq Names /\ Last(scs) \in [DOMAIN Last(scs) -> DOMAIN d]
  BY <1>2, PartialFunctionFacts
<1>4. DOMAIN top = DOMAIN Last(scs) \cup {x} /\ top[x] = k
  BY DEF Override, Only
<1>5. top \in S
  <2>1. top \in [DOMAIN Last(scs) \cup {x} -> DOMAIN d]
    BY <1>3 DEF Override, Only
  <2>2. DOMAIN Last(scs) \cup {x} \in SUBSET Names
    BY <1>3
  <2> HIDE DEF top
  <2> QED BY <2>1, <2>2, PartialFunctionFacts
<1>6. inner \in Seq(S) /\ Len(inner) \in {0, 1} /\ \A i \in 1..Len(inner) : inner[i] = <<>>
  <2>1. <<>> \in S
    <3>1. <<>> \in [{} -> DOMAIN d]
      OBVIOUS
    <3> QED BY <3>1, PartialFunctionFacts
  <2>2. CASE inner = <<>>
    BY <2>2, EmptySeq
  <2>3. CASE inner = << <<>> >>
    <3> HIDE DEF S
    <3> QED BY <2>1, <2>3
  <2> QED BY <2>2, <2>3 DEF BodyScope
<1> HIDE DEF top, S
<1> DEFINE base == Append(Front(scs), top)
<1>7. base \in Seq(S) /\ Len(base) = n /\ base[n] = top
  BY <1>1, <1>5, ReplaceFacts
<1>8. ds = base \o inner
  BY DEF Declared, top
<1>9. /\ ds \in Seq(S) /\ Len(ds) = n + Len(inner)
      /\ \A i \in 1..n + Len(inner) : ds[i] = IF i <= n THEN base[i] ELSE inner[i - n]
  <2> HIDE DEF base, n
  <2>1. /\ base \o inner \in Seq(S) /\ Len(base \o inner) = Len(base) + Len(inner)
        /\ \A i \in 1..Len(base) + Len(inner) :
             (base \o inner)[i] = IF i <= Len(base) THEN base[i] ELSE inner[i - Len(base)]
    BY <1>6, <1>7, ConcatProperties
  <2> QED BY <1>7, <1>8, <2>1
<1> HIDE DEF base, n
<1>10. DOMAIN ds = 1..n + Len(inner) /\ n \in 1..n + Len(inner)
  BY <1>2, <1>6, <1>9, LenProperties
<1>11. ds[n] = top
  BY <1>2, <1>7, <1>9, <1>10
<1>12. \A j \in DOMAIN ds : x \in DOMAIN ds[j] => j <= n
  <2> SUFFICES ASSUME NEW j \in DOMAIN ds, j > n PROVE DOMAIN ds[j] = {}
    BY <1>2, <1>10
  <2>1. j \in 1..n + Len(inner) /\ j - n \in 1..Len(inner)
    BY <1>2, <1>6, <1>10
  <2>2. ds[j] = inner[j - n]
    BY <1>2, <1>9, <2>1
  <2>3. ds[j] = <<>>
    BY <1>6, <2>1, <2>2
  <2> QED BY <2>3
<1>13. DOMAIN ds \subseteq Nat /\ n \in Nat /\ x \in DOMAIN ds[n] /\ ds[n][x] = k
  BY <1>2, <1>4, <1>6, <1>10, <1>11
<1>14. ds # <<>>
  BY <1>2, <1>6, <1>9, EmptySeq
<1>15. IsEnvironment(ds, d)
  BY <1>9, <1>14 DEF IsEnvironment, S
<1>16. k \in Held(ds)
  BY <1>10, <1>13 DEF Held, Range
<1> QED BY <1>10, <1>12, <1>13, <1>15, <1>16, InnermostIsFound

\* The step gives cell `k`, to which `x` leads then, a clone of `v`.
Binding(x, v, k) ==
  /\ v \in DOMAIN buffer /\ HasRoom(v) /\ k \in Cells
  /\ Settled(Holding(k, Clone(v).root), WithClone(v))
  /\ Lookup(x)' = k /\ k \in Held(scopes')
  /\ Pending(temps', frames') \subseteq DOMAIN buffer
  /\ k \in DOMAIN cell => UNCHANGED <<scopes, captured, frames>>

\* A new cell is one that is not in use.
LEMMA NewCellFacts ==
  ASSUME TypeOK, HasCell
  PROVE  NewCell \in Cells /\ NewCell \notin DOMAIN cell
<1>1. \E c \in Cells : c \notin DOMAIN cell
  BY TypeParts DEF HasCell
<1> QED BY <1>1 DEF NewCell

\* A definition binds.
LEMMA DefineBinds ==
  ASSUME TypeOK, NEW scs, IsEnvironment(scs, cell), NEW x \in Names, NEW v \in DOMAIN buffer,
         NEW inner \in {<<>>, BodyScope}, define(scs, x, v, inner),
         outcome' = outcome, captured' = captured, temps' = <<>>,
         frames' \in Seq(FramesOf(cell, buffer)), Len(frames') <= MaxFrames
  PROVE  Binding(x, v, NewCell)
<1> DEFINE k == NewCell
           c == Holding(k, Clone(v).root)
<1>1. /\ HasCell /\ HasRoom(v) /\ scopes' = Declared(scs, x, k, inner)
      /\ Commit(c, WithClone(v))
  BY DEF define, Declared, Holding, WithClone
<1>2. k \in Cells /\ k \notin DOMAIN cell
  BY <1>1, NewCellFacts
<1>3. DOMAIN cell \subseteq DOMAIN c /\ k \in DOMAIN c
  BY DEF Holding, Override, Only
<1> HIDE DEF c, k
<1>4. IsEnvironment(scopes', c) /\ Lookup(x)' = k /\ k \in Held(scopes')
  <2>1. IsEnvironment(scopes', c) /\ Found(scopes', x) = k /\ k \in Held(scopes')
    BY <1>1, <1>3, DeclaredFacts
  <2>2. Lookup(x)' = Found(scopes', x)
    BY DEF Lookup, Found
  <2> QED BY <2>1, <2>2
<1>5. Settled(c, WithClone(v))
  BY <1>1, <1>2, <1>4, HoldingSettles DEF c
<1>6. Pending(temps', frames') \subseteq DOMAIN buffer
  BY EmptySeq, PendingBuffers
<1> QED BY <1>1, <1>2, <1>4, <1>5, <1>6 DEF Binding, c, k

\* An assignment binds.
LEMMA SetBinds ==
  ASSUME TypeOK, NEW x \in Visible, NEW v \in DOMAIN buffer, set(x, v),
         outcome' = outcome, UNCHANGED <<captured, frames>>, temps' = <<>>
  PROVE  Binding(x, v, Lookup(x))
<1> DEFINE k == Lookup(x)
           c == Holding(k, Clone(v).root)
<1>1. HasRoom(v) /\ UNCHANGED scopes /\ Commit(c, WithClone(v))
  BY DEF set, Holding, WithClone
<1>2. k \in Cells /\ k \in DOMAIN cell
  BY LookupFacts, TypeParts
<1>3. DOMAIN cell \subseteq DOMAIN c
  BY DEF Holding, Override
<1>4. IsEnvironment(scopes', c)
  <2> HIDE DEF c
  <2> QED BY <1>1, <1>3, TypeParts, EnvironmentWidens
<1>5. Lookup(x)' = k /\ k \in Held(scopes')
  BY <1>1, LookupFacts DEF Lookup
<1>6. frames' \in Seq(FramesOf(cell, buffer)) /\ Len(frames') <= MaxFrames
  BY TypeParts
<1> HIDE DEF k
<1>7. Settled(c, WithClone(v))
  BY <1>1, <1>2, <1>4, <1>6, HoldingSettles
<1>8. Pending(temps', frames') \subseteq DOMAIN buffer
  BY <1>6, EmptySeq, PendingBuffers
<1> QED BY <1>1, <1>2, <1>5, <1>7, <1>8 DEF Binding, k

\* `let` and an assignment bind their operand.
LEMMA StatementsBind ==
  ASSUME TypeOK, NEW x \in Names, NEW v, temps = <<v>>, Let(x) \/ Assign(x)
  PROVE  \E k : Binding(x, v, k)
<1>1. temps[1] = v /\ v \in DOMAIN buffer
  <2>1. Len(temps) = 1 /\ temps[1] = v /\ 1 \in 1..1
    OBVIOUS
  <2> QED BY <2>1, TypeParts
<1>2. frames \in Seq(FramesOf(cell, buffer)) /\ Len(frames) <= MaxFrames /\ IsEnvironment(scopes, cell)
  BY TypeParts
<1>3. CASE Let(x)
  <2>1. /\ define(scopes, x, v, <<>>) /\ temps' = <<>>
        /\ UNCHANGED <<captured, frames, outcome>>
    BY <1>1, <1>3 DEF Let
  <2>2. Binding(x, v, NewCell)
    BY <1>1, <1>2, <2>1, DefineBinds
  <2> QED BY <2>2
<1>4. CASE Assign(x)
  <2>1. x \in Visible /\ set(x, v) /\ temps' = <<>> /\ UNCHANGED <<captured, frames, outcome>>
    BY <1>1, <1>4 DEF Assign
  <2>2. Binding(x, v, Lookup(x))
    BY <1>1, <2>1, SetBinds
  <2> QED BY <2>2
<1> QED BY <1>3, <1>4

\* A pattern and a parameter bind theirs.
LEMMA BodiesBind ==
  ASSUME TypeOK, NEW x \in Names, temps # <<>>, MatchArm(x) \/ (x = Param /\ Call)
  PROVE  \E k : Binding(x, Last(temps), k)
<1> DEFINE v == Last(temps)
           kept == Front(temps)
<1>1. temps \in Seq(DOMAIN buffer) /\ Len(temps) \in 0..MaxTemps /\ MaxTemps \in Nat \ {0}
  BY TypeParts
<1>2. v \in DOMAIN buffer /\ Len(temps) \in Nat \ {0}
  BY <1>1, LastFacts
<1>3. kept \in Seq(DOMAIN buffer) /\ Len(kept) <= MaxTemps - 1 /\ Len(kept) <= MaxTemps
  <2>1. kept \in Seq(DOMAIN buffer) /\ Len(kept) = Len(temps) - 1
    BY <1>1, FrontTypes
  <2> HIDE DEF kept
  <2> QED BY <1>1, <2>1
<1>4. <<>> \in Seq(DOMAIN buffer)
  BY EmptySeq
<1> HIDE DEF kept, v
<1>5. CASE MatchArm(x)
  <2>1. /\ Len(frames) < MaxFrames /\ frames' = Append(frames, Frame("block", kept, <<>>))
        /\ temps' = <<>> /\ UNCHANGED <<captured, outcome>>
        /\ define(push_scope(scopes), x, v, BodyScope)
    BY <1>5 DEF MatchArm, kept, v
  <2>2. frames' \in Seq(FramesOf(cell, buffer)) /\ Len(frames') <= MaxFrames
    BY <1>3, <1>4, <2>1, NewFrame
  <2>3. IsEnvironment(push_scope(scopes), cell)
    BY TypeParts, ScopePushed
  <2>4. Binding(x, v, NewCell)
    BY <1>2, <2>1, <2>2, <2>3, DefineBinds
  <2> QED BY <2>4 DEF v
<1>6. CASE x = Param /\ Call
  <2>1. /\ Len(frames) < MaxFrames /\ frames' = Append(frames, Frame("call", kept, <<>>))
        /\ captured # <<>>
        /\ temps' = <<>> /\ UNCHANGED <<captured, outcome>>
        /\ define(push_scope(captured), x, v, BodyScope)
    BY <1>6 DEF Call, kept, v
  <2>2. frames' \in Seq(FramesOf(cell, buffer)) /\ Len(frames') <= MaxFrames
    BY <1>3, <1>4, <2>1, NewFrame
  <2>3. IsEnvironment(push_scope(captured), cell)
    BY <2>1, TypeParts, ScopePushed
  <2>4. Binding(x, v, NewCell)
    BY <1>2, <2>1, <2>2, <2>3, DefineBinds
  <2> QED BY <2>4 DEF v
<1> QED BY <1>5, <1>6

\* A loop binds its next item.
LEMMA LoopBinds ==
  ASSUME TypeOK, NEW x \in Names, NextItem(x)
  PROVE  \E k : Binding(x, Head(Last(frames).items), k)
<1> DEFINE n == Len(frames)
           loop == frames[n]
           v == Head(loop.items)
           less == [loop EXCEPT !.items = Tail(@)]
<1>1. frames # <<>> /\ frames \in Seq(FramesOf(cell, buffer)) /\ n \in 0..MaxFrames /\ MaxFrames \in Nat
  BY TypeParts DEF NextItem, Inside
<1>2. n \in 1..n
  BY <1>1, EmptySeq
<1>3. Last(frames) = loop
  BY DEF Last
<1>4. loop \in FramesOf(cell, buffer)
  BY <1>2, FrameParts
<1>5. /\ loop.items # <<>> /\ frames' = Append(Front(frames), less) /\ temps' = <<>>
      /\ UNCHANGED <<captured, outcome>>
      /\ define(push_scope(loop.scopes), x, v, BodyScope)
  BY <1>3 DEF NextItem
<1>6. v \in DOMAIN buffer /\ Tail(loop.items) \in Seq(DOMAIN buffer)
  <2>1. loop.items \in Seq(DOMAIN buffer)
    BY <1>2, FrameParts
  <2> HIDE DEF loop
  <2> QED BY <1>5, <2>1, HeadTailProperties
<1>7. less \in FramesOf(cell, buffer)
  <2> HIDE DEF loop
  <2> QED BY <1>4, <1>6 DEF FramesOf
<1>8. frames' \in Seq(FramesOf(cell, buffer)) /\ Len(frames') <= MaxFrames
  <2> HIDE DEF less
  <2>1. /\ Append(Front(frames), less) \in Seq(FramesOf(cell, buffer))
        /\ Len(Append(Front(frames), less)) = Len(frames)
    BY <1>1, <1>7, ReplaceFacts
  <2> QED BY <1>1, <1>5, <2>1
<1>9. IsEnvironment(push_scope(loop.scopes), cell)
  BY <1>2, FrameParts, ScopePushed
<1> HIDE DEF v, loop, less
<1>10. Binding(x, v, NewCell)
  BY <1>5, <1>6, <1>8, <1>9, DefineBinds
<1> QED BY <1>3, <1>10 DEF v

\* Whatever is bound, a clone of it is.
LEMMA BoundBinds ==
  ASSUME TypeOK, NEW x \in Names, NEW v, Bound(x, v)
  PROVE  \E k : Binding(x, v, k)
<1>1. CASE temps = <<v>> /\ (Let(x) \/ Assign(x))
  BY <1>1, StatementsBind
<1>2. CASE temps # <<>> /\ v = Last(temps) /\ (MatchArm(x) \/ (x = Param /\ Call))
  BY <1>2, BodiesBind
<1>3. CASE BindsItem /\ v = Head(Last(frames).items) /\ NextItem(x)
  BY <1>3, LoopBinds
<1> QED BY <1>1, <1>2, <1>3 DEF Bound

\* Every binding step binds something.
LEMMA BindsBind ==
  ASSUME TypeOK, Binds
  PROVE  \E x \in Names : \E v, k : Binding(x, v, k)
<1>1. PICK x \in Names : Let(x) \/ Assign(x) \/ MatchArm(x) \/ NextItem(x) \/ (x = Param /\ Call)
  BY DEF Binds
<1>2. CASE Let(x) \/ Assign(x)
  <2>1. temps \in Seq(DOMAIN buffer) /\ Len(temps) = 1
    BY <1>2, TypeParts DEF Let, Assign
  <2>2. temps = <<temps[1]>>
    BY <2>1
  <2> DEFINE v == temps[1]
  <2>3. temps = <<v>>
    BY <2>2
  <2> HIDE DEF v
  <2> QED BY <1>2, <2>3, StatementsBind
<1>3. CASE MatchArm(x) \/ (x = Param /\ Call)
  <2>1. temps # <<>>
    BY <1>3 DEF MatchArm, Call
  <2> QED BY <1>3, <2>1, BodiesBind
<1>4. CASE NextItem(x)
  BY <1>4, LoopBinds
<1> QED BY <1>1, <1>2, <1>3, <1>4

------------------------------------------------------------------------------
(* Steps that store.                                                       *)

\* Heap `h` is that of before, with `t` as an element of `b`.
Storing(h, b, t) ==
  /\ HoldsArrays(h) /\ DOMAIN h = DOMAIN buffer /\ b \in DOMAIN buffer /\ t \in DOMAIN buffer
  /\ Range(h[b]) \subseteq Range(buffer[b]) \cup {t}
  /\ \A d \in DOMAIN buffer : d # b => h[d] = buffer[d]

\* A store that changes one buffer.
LEMMA StoringSettles ==
  ASSUME TypeOK, NEW b \in DOMAIN buffer, NEW t \in DOMAIN buffer,
         NEW g \in Seq(DOMAIN buffer), Len(g) <= MaxLen, Range(g) \subseteq Range(buffer[b]) \cup {t},
         NEW h, h = [buffer EXCEPT ![b] = g], Commit(cell, h),
         temps' = <<>>, UNCHANGED <<scopes, captured, frames, outcome>>
  PROVE  Settled(cell, h) /\ Storing(h, b, t)
<1>1. DOMAIN h = DOMAIN buffer /\ h[b] = g /\ \A d \in DOMAIN buffer : d # b => h[d] = buffer[d]
  OBVIOUS
<1>2. HoldsArrays(h)
  BY <1>1, TypeParts DEF HoldsArrays
<1>3. Storing(h, b, t)
  BY <1>1, <1>2 DEF Storing
<1>4. IsStore(cell, h)
  <2>1. cell \in PartialFunctions(Cells, DOMAIN buffer)
    BY DEF TypeOK, IsStore
  <2> QED BY <1>1, <1>2, <2>1 DEF IsStore
<1>5. DOMAIN buffer \subseteq DOMAIN h /\ DOMAIN cell \subseteq DOMAIN cell
  BY <1>1
<1>6. IsProgram(cell, h, scopes, captured, temps, frames)
  BY <1>5, ProgramWidens DEF TypeOK
<1>7. <<>> \in Seq(DOMAIN h) /\ Len(<<>>) <= MaxTemps
  BY EmptySeq, TypeParts
<1>8. IsProgram(cell, h, scopes', captured', temps', frames')
  BY <1>6, <1>7 DEF IsProgram
<1> QED BY <1>3, <1>4, <1>8 DEF Settled

\* A store into an element and a push.
LEMMA ElementsSettle ==
  ASSUME TypeOK, (\E x \in Names, i \in 1..MaxLen : AssignIndex(x, i)) \/ ArrayPush
  PROVE  /\ \E h, b : Settled(cell, h) /\ Storing(h, b, Last(temps))
         /\ UNCHANGED <<scopes, captured, frames>>
<1>1. temps \in Seq(DOMAIN buffer) /\ Len(temps) \in Nat /\ MaxLen \in Nat
  BY TypeParts
<1>2. ASSUME NEW x \in Names, NEW i \in 1..MaxLen, AssignIndex(x, i)
      PROVE  \E h, b : Settled(cell, h) /\ Storing(h, b, Last(temps))
  <2> DEFINE b == cell[Lookup(x)]
             t == temps[1]
             g == [buffer[b] EXCEPT ![i] = t]
             h == [buffer EXCEPT ![b] = g]
  <2>1. /\ Len(temps) = 1 /\ x \in Visible /\ i \in DOMAIN buffer[b]
        /\ temps' = <<>> /\ UNCHANGED <<scopes, captured, frames, outcome>>
        /\ Commit(cell, [buffer EXCEPT ![b][i] = t])
    BY <1>2 DEF AssignIndex
  <2>2. Last(temps) = t /\ t \in DOMAIN buffer
    BY <1>1, <2>1, TypeParts DEF Last
  <2>3. b \in DOMAIN buffer
    BY <2>1, LookupFacts
  <2>4. Commit(cell, h)
    BY <2>1
  <2> HIDE DEF b, t
  <2>5. buffer[b] \in Seq(DOMAIN buffer) /\ Len(buffer[b]) <= MaxLen
    BY <2>3, TypeParts DEF HoldsArrays
  <2>6. i \in 1..Len(buffer[b]) /\ DOMAIN buffer[b] = 1..Len(buffer[b])
    BY <2>1, <2>5, LenProperties
  <2>7. /\ g \in Seq(DOMAIN buffer) /\ Len(g) = Len(buffer[b])
        /\ \A j \in 1..Len(buffer[b]) : g[j] = IF j = i THEN t ELSE buffer[b][j]
    BY <2>2, <2>5, <2>6, ExceptSeq
  <2> HIDE DEF g
  <2>8. Range(g) \subseteq Range(buffer[b]) \cup {t}
    <3>1. DOMAIN g = 1..Len(buffer[b])
      BY <2>7, LenProperties
    <3> QED BY <2>6, <2>7, <3>1 DEF Range
  <2>9. Settled(cell, h) /\ Storing(h, b, t)
    BY <2>1, <2>2, <2>3, <2>4, <2>5, <2>7, <2>8, StoringSettles
  <2> HIDE DEF h
  <2> QED BY <2>2, <2>9
<1>3. ASSUME ArrayPush
      PROVE  \E h, b : Settled(cell, h) /\ Storing(h, b, Last(temps))
  <2> DEFINE b == temps[1]
             t == temps[2]
             g == Append(buffer[b], t)
             h == [buffer EXCEPT ![b] = g]
  <2>1. /\ Len(temps) = 2 /\ Len(buffer[b]) < MaxLen
        /\ temps' = <<>> /\ UNCHANGED <<scopes, captured, frames, outcome>>
        /\ Commit(cell, [buffer EXCEPT ![b] = Append(@, t)])
    BY <1>3 DEF ArrayPush
  <2>2. Last(temps) = t /\ t \in DOMAIN buffer /\ b \in DOMAIN buffer
    BY <1>1, <2>1, TypeParts DEF Last
  <2>3. Commit(cell, h)
    BY <2>1
  <2> HIDE DEF b, t
  <2>4. buffer[b] \in Seq(DOMAIN buffer) /\ Len(buffer[b]) \in Nat
    BY <2>2, TypeParts, LenProperties DEF HoldsArrays
  <2>5. DOMAIN buffer[b] = 1..Len(buffer[b])
    BY <2>4, LenProperties
  <2>6. /\ g \in Seq(DOMAIN buffer) /\ Len(g) = Len(buffer[b]) + 1
        /\ g[Len(buffer[b]) + 1] = t
        /\ \A j \in 1..Len(buffer[b]) : g[j] = buffer[b][j]
    BY <2>2, <2>4, AppendFacts
  <2> HIDE DEF g
  <2>7. Range(g) \subseteq Range(buffer[b]) \cup {t}
    <3>1. DOMAIN g = 1..Len(buffer[b]) + 1
      BY <2>6, LenProperties
    <3>2. \A j \in DOMAIN g : j \in 1..Len(buffer[b]) \/ j = Len(buffer[b]) + 1
      BY <2>4, <3>1
    <3> QED BY <2>5, <2>6, <3>2 DEF Range
  <2>8. Len(g) <= MaxLen
    BY <1>1, <2>1, <2>4, <2>6
  <2>9. Settled(cell, h) /\ Storing(h, b, t)
    BY <2>1, <2>2, <2>3, <2>6, <2>7, <2>8, StoringSettles
  <2> HIDE DEF h
  <2> QED BY <2>2, <2>9
<1>4. UNCHANGED <<scopes, captured, frames>>
  BY DEF AssignIndex, ArrayPush
<1> QED BY <1>2, <1>3, <1>4

\* A store into a field.
LEMMA FieldSettles ==
  ASSUME TypeOK, NEW x \in Names, AssignField(x)
  PROVE  /\ Settled(Holding(Lookup(x), Last(temps)), buffer)
         /\ Lookup(x) \in DOMAIN cell /\ Last(temps) \in DOMAIN buffer
         /\ UNCHANGED <<scopes, captured, frames>>
<1> DEFINE k == Lookup(x)
           t == temps[1]
           c == Holding(k, t)
<1>1. /\ Len(temps) = 1 /\ x \in Visible /\ temps' = <<>>
      /\ UNCHANGED <<scopes, captured, frames, outcome>> /\ Commit(c, buffer)
  BY DEF AssignField, Holding
<1>2. Last(temps) = t /\ t \in DOMAIN buffer
  BY <1>1, TypeParts DEF Last
<1>3. k \in DOMAIN cell
  BY <1>1, LookupFacts
<1> HIDE DEF k, t
<1>4. DOMAIN c = DOMAIN cell /\ c \in [DOMAIN cell -> DOMAIN buffer]
  BY <1>2, <1>3, TypeParts DEF Holding, Override, Only
<1>5. IsStore(c, buffer)
  <2>1. DOMAIN cell \in SUBSET Cells /\ HoldsArrays(buffer)
    BY TypeParts
  <2> HIDE DEF c
  <2> QED BY <1>4, <2>1, PartialFunctionFacts DEF IsStore
<1>6. IsProgram(c, buffer, scopes, captured, temps, frames)
  <2>1. DOMAIN cell \subseteq DOMAIN c /\ DOMAIN buffer \subseteq DOMAIN buffer
    BY <1>4
  <2> HIDE DEF c
  <2> QED BY <2>1, ProgramWidens DEF TypeOK
<1>7. <<>> \in Seq(DOMAIN buffer) /\ Len(<<>>) <= MaxTemps
  BY EmptySeq, TypeParts
<1> HIDE DEF c
<1>8. IsProgram(c, buffer, scopes', captured', temps', frames')
  BY <1>1, <1>6, <1>7 DEF IsProgram
<1>9. Settled(c, buffer)
  BY <1>1, <1>5, <1>8 DEF Settled
<1> QED BY <1>1, <1>2, <1>3, <1>9 DEF c, k

------------------------------------------------------------------------------
(* Every step, and the invariant.                                          *)

\* The kinds of steps.
Idle == UNCHANGED <<scopes, cell, buffer, temps, captured, frames>> /\ outcome' \in {"running", "overflow"}
Reading(h) == Settled(cell, h) /\ Agree(h, buffer, DOMAIN buffer)
FieldStored(k) ==
  /\ Stores /\ k \in DOMAIN cell /\ Last(temps) \in DOMAIN buffer
  /\ Settled(Holding(k, Last(temps)), buffer) /\ UNCHANGED <<scopes, captured, frames>>
ElementStored(h, b) ==
  /\ Stores /\ Settled(cell, h) /\ Storing(h, b, Last(temps)) /\ UNCHANGED <<scopes, captured, frames>>

\* A step that is none of a binding and a store leaves all buffers as they are.
LEMMA OthersRead ==
  ASSUME TypeOK, Others
  PROVE  Idle \/ \E h : Reading(h)
<1>1. HoldsArrays(buffer)
  BY TypeParts
<1>2. Closed(buffer, DOMAIN buffer)
  BY <1>1, ArraysAreAHeap DEF IsHeap
<1>3. ASSUME Settled(cell, buffer)
      PROVE  Reading(buffer)
  BY <1>2, <1>3 DEF Reading, Agree
<1>4. ASSUME NEW k \in 0..MaxLen, Literal(k)
      PROVE  \E h : Reading(h)
  <2>1. k \in Nat
    BY TypeParts
  <2>2. PICK elements : LET h == Override(buffer, Only(NewBuffer, elements)) IN
                        Settled(cell, h) /\ NewBuffer \notin DOMAIN buffer
    BY <1>4, <2>1, LiteralSettles
  <2> DEFINE h == Override(buffer, Only(NewBuffer, elements))
  <2>3. Settled(cell, h) /\ NewBuffer \notin DOMAIN buffer
    BY <2>2
  <2>4. DOMAIN buffer \subseteq DOMAIN h /\ \A b \in DOMAIN buffer : h[b] = buffer[b]
    BY <2>3 DEF Override, Only
  <2> HIDE DEF h
  <2>5. Agree(h, buffer, DOMAIN buffer)
    BY <1>2, <2>4 DEF Agree, Closed
  <2> QED BY <2>3, <2>5 DEF Reading
<1>5. CASE Overflow
  BY <1>5 DEF Overflow, Idle
<1>6. CASE \E x \in Names : Ident(x)
  BY <1>3, <1>6, IdentSettles
<1>7. CASE \E i \in 1..MaxLen : Index(i)
  BY <1>3, <1>7, IndexSettles
<1>8. CASE ForIn \/ EnterBlock \/ EndBlock \/ EndLoop \/ Return \/ DeclareFun
  BY <1>3, <1>8, ForInSettles, EnterBlockSettles, EndsSettle, DeclareFunSettles
<1> QED BY <1>4, <1>5, <1>6, <1>7, <1>8 DEF Others

\* A store changes a cell, or a buffer.
LEMMA StoresStore ==
  ASSUME TypeOK, Stores
  PROVE  (\E k : FieldStored(k)) \/ \E h, b : ElementStored(h, b)
<1>1. CASE \E x \in Names : AssignField(x)
  <2>1. PICK x \in Names : AssignField(x)
    BY <1>1
  <2>2. FieldStored(Lookup(x))
    BY <2>1, FieldSettles DEF FieldStored
  <2> QED BY <2>2
<1>2. CASE (\E x \in Names, i \in 1..MaxLen : AssignIndex(x, i)) \/ ArrayPush
  BY <1>2, ElementsSettle DEF ElementStored
<1> QED BY <1>1, <1>2 DEF Stores

\* A step is of one of the kinds.
LEMMA StepKinds ==
  ASSUME TypeOK, [Next]_vars
  PROVE  \/ Idle
         \/ \E h : Reading(h)
         \/ \E x \in Names : \E v, k : Binding(x, v, k)
         \/ \E k : FieldStored(k)
         \/ \E h, b : ElementStored(h, b)
<1>1. CASE Binds
  BY <1>1, BindsBind
<1>2. CASE Stores
  BY <1>2, StoresStore
<1>3. CASE Others
  BY <1>3, OthersRead
<1>4. CASE UNCHANGED vars
  BY <1>4 DEF vars, Idle, TypeOK
<1> QED BY <1>1, <1>2, <1>3, <1>4 DEF Next

\* What is left after a step.
LEMMA SettledFacts ==
  ASSUME NEW c, NEW h, Settled(c, h)
  PROVE  /\ IsStore(cell', buffer')
         /\ IsProgram(cell', buffer', scopes', captured', temps', frames')
         /\ DOMAIN cell' = Live(scopes', captured', frames') /\ DOMAIN cell' \subseteq DOMAIN c
         /\ \A x \in DOMAIN cell' : cell'[x] = c[x]
         /\ Agree(buffer', h, DOMAIN buffer')
         /\ HoldsArrays(h) /\ HoldsArrays(buffer')
         /\ \A x \in DOMAIN cell' : cell'[x] \in DOMAIN buffer' /\ c[x] \in DOMAIN h
<1>1. Committed(c, h, scopes', captured', temps', frames', cell', buffer')
  BY DEF Settled, Commit, Committed
<1>2. IsStore(c, h) /\ IsProgram(c, h, scopes', captured', temps', frames')
  BY DEF Settled
<1>3. /\ IsStore(cell', buffer')
      /\ IsProgram(cell', buffer', scopes', captured', temps', frames')
      /\ DOMAIN cell' = Live(scopes', captured', frames') /\ DOMAIN cell' \subseteq DOMAIN c
      /\ \A x \in DOMAIN cell' : cell'[x] = c[x]
      /\ Agree(buffer', h, DOMAIN buffer')
  BY <1>1, <1>2, CommitFacts
<1>4. HoldsArrays(h) /\ HoldsArrays(buffer')
  BY <1>2, <1>3 DEF IsStore
<1>5. cell' \in [DOMAIN cell' -> DOMAIN buffer'] /\ c \in [DOMAIN c -> DOMAIN h]
  BY <1>2, <1>3, PartialFunctionFacts DEF IsStore
<1> QED BY <1>3, <1>4, <1>5

\* The program starts well formed.
LEMMA InitTypeOK ==
  ASSUME Init
  PROVE  TypeOK
<1>1. cell = <<>> /\ buffer = <<>> /\ scopes = << <<>> >> /\ captured = <<>> /\ temps = <<>>
      /\ frames = <<>> /\ outcome = "running"
  BY DEF Init
<1>2. IsStore(<<>>, <<>>)
  <2>1. DOMAIN <<>> = {} /\ <<>> \in [{} -> {}]
    OBVIOUS
  <2>2. <<>> \in PartialFunctions(Cells, {})
    BY <2>1, PartialFunctionFacts
  <2> QED BY <2>1, <2>2 DEF IsStore, HoldsArrays
<1>3. IsEnvironment(<< <<>> >>, <<>>)
  <2>1. <<>> \in PartialFunctions(Names, DOMAIN <<>>)
    <3>1. <<>> \in [{} -> DOMAIN <<>>]
      OBVIOUS
    <3> QED BY <3>1, PartialFunctionFacts
  <2> DEFINE S == PartialFunctions(Names, DOMAIN <<>>)
  <2> HIDE DEF S
  <2>2. << <<>> >> \in Seq(S)
    BY <2>1 DEF S
  <2> QED BY <2>2 DEF IsEnvironment, S
<1>4. \A S : <<>> \in Seq(S)
  BY EmptySeq
<1>5. Len(<<>>) <= MaxTemps /\ Len(<<>>) <= MaxFrames
  BY BoundsAssumption
<1> QED BY <1>1, <1>2, <1>3, <1>4, <1>5 DEF TypeOK, IsProgram

\* Every step leaves a well formed program.
LEMMA NextTypeOK ==
  ASSUME TypeOK, [Next]_vars
  PROVE  TypeOK'
<1>1. ASSUME NEW c, NEW h, Settled(c, h)
      PROVE  TypeOK'
  <2>1. outcome' = outcome
    BY <1>1 DEF Settled
  <2> QED BY <1>1, <2>1, SettledFacts DEF TypeOK
<1>2. CASE Idle
  BY <1>2 DEF Idle, TypeOK
<1>3. CASE \E h : Reading(h)
  BY <1>1, <1>3 DEF Reading
<1>4. CASE \E x \in Names : \E v, k : Binding(x, v, k)
  BY <1>1, <1>4 DEF Binding
<1>5. CASE \E k : FieldStored(k)
  BY <1>1, <1>5 DEF FieldStored
<1>6. CASE \E h, b : ElementStored(h, b)
  BY <1>1, <1>6 DEF ElementStored
<1> QED BY <1>2, <1>3, <1>4, <1>5, <1>6, StepKinds

\* No name, operand, loop item or element is left pointing to what was
\* dropped, and the value of every statement that is gone back to fits: the
\* reference counts keep what is needed, whatever the program does.
THEOREM StoreIsWellFormed == Spec => []TypeOK
<1>1. Init => TypeOK
  BY InitTypeOK
<1>2. TypeOK /\ [Next]_vars => TypeOK'
  BY NextTypeOK
<1> QED BY <1>1, <1>2, PTL DEF Spec

------------------------------------------------------------------------------
(* Aliasing.                                                               *)

\* What two cells lead to has nothing in common.
Apart(c, h) ==
  \A d, e \in DOMAIN c : d # e => ReachableIn(h, {c[d]}) \cap ReachableIn(h, {c[e]}) = {}

\* That is NoAliasing.
LEMMA ApartIsNoAliasing == NoAliasing <=> Apart(cell, buffer)
BY DEF NoAliasing, Aliased, Apart, Reachable

\* The buffers reached from one that stays in use.
LEMMA ReachOfOne ==
  ASSUME NEW h, HoldsArrays(h), NEW v \in DOMAIN h
  PROVE  /\ v \in ReachableIn(h, {v}) /\ Closed(h, ReachableIn(h, {v}))
         /\ \A S : Closed(h, S) /\ v \in S => ReachableIn(h, {v}) \subseteq S
         /\ ReachableIn(h, {v}) \subseteq DOMAIN h
<1>1. {v} \in SUBSET DOMAIN h /\ IsHeap(h)
  BY ArraysAreAHeap
<1>2. /\ {v} \subseteq ReachableIn(h, {v}) /\ Closed(h, ReachableIn(h, {v}))
      /\ \A S : Closed(h, S) /\ {v} \subseteq S => ReachableIn(h, {v}) \subseteq S
  BY <1>1, ReachableIsLeast
<1>3. \A S : v \in S <=> {v} \subseteq S
  OBVIOUS
<1> HIDE DEF ReachableIn
<1> QED BY <1>2, <1>3 DEF Closed

\* The same buffers are reached in heaps that agree.
LEMMA SameReach ==
  ASSUME NEW g, NEW h, HoldsArrays(g), HoldsArrays(h), NEW C, Agree(g, h, C), NEW v \in C
  PROVE  ReachableIn(g, {v}) = ReachableIn(h, {v})
<1>1. IsHeap(g) /\ IsHeap(h) /\ {v} \in SUBSET C
  BY ArraysAreAHeap
<1> QED BY <1>1, ReachableIsLocal

\* Dropping what is not needed brings no cells together.
LEMMA SettledApart ==
  ASSUME NEW c, NEW h, Settled(c, h), Apart(c, h)
  PROVE  Apart(cell', buffer')
<1>1. /\ DOMAIN cell' \subseteq DOMAIN c /\ \A x \in DOMAIN cell' : cell'[x] = c[x]
      /\ Agree(buffer', h, DOMAIN buffer') /\ HoldsArrays(h) /\ HoldsArrays(buffer')
      /\ \A x \in DOMAIN cell' : cell'[x] \in DOMAIN buffer'
  BY SettledFacts
<1>2. \A x \in DOMAIN cell' : ReachableIn(buffer', {cell'[x]}) = ReachableIn(h, {c[x]})
  <2> TAKE x \in DOMAIN cell'
  <2>1. ReachableIn(buffer', {cell'[x]}) = ReachableIn(h, {cell'[x]})
    BY <1>1, SameReach
  <2> QED BY <1>1, <2>1
<1> QED BY <1>1, <1>2 DEF Apart

\* Nor does reading.
LEMMA ReadingApart ==
  ASSUME TypeOK, Apart(cell, buffer), NEW h, Reading(h)
  PROVE  Apart(cell, h)
<1>1. HoldsArrays(h) /\ HoldsArrays(buffer) /\ Agree(h, buffer, DOMAIN buffer)
  BY TypeParts DEF Reading, Settled, IsStore
<1>2. \A x \in DOMAIN cell : cell[x] \in DOMAIN buffer
  BY TypeParts
<1>3. \A x \in DOMAIN cell : ReachableIn(h, {cell[x]}) = ReachableIn(buffer, {cell[x]})
  BY <1>1, <1>2, SameReach
<1> QED BY <1>3 DEF Apart

\* The cell that is bound leads to the clone, and all that was in use to
\* what it led to before.
OwnReach(v, k) ==
  /\ DOMAIN Holding(k, Clone(v).root) = DOMAIN cell \cup {k}
  /\ Holding(k, Clone(v).root)[k] = Clone(v).root
  /\ \A d \in DOMAIN cell : d # k => Holding(k, Clone(v).root)[d] = cell[d]
  /\ ReachableIn(WithClone(v), {Clone(v).root}) \cap DOMAIN buffer = {}
  /\ \A b \in DOMAIN buffer : ReachableIn(WithClone(v), {b}) = ReachableIn(buffer, {b})

\* A value that is bound reaches only what its binding owns.
LEMMA BindingReach ==
  ASSUME TypeOK, NEW x, NEW v, NEW k, Binding(x, v, k)
  PROVE  OwnReach(v, k)
<1>1. v \in DOMAIN buffer /\ HasRoom(v)
  BY DEF Binding
<1>2. /\ Clone(v).root \in DOMAIN Clone(v).heap
      /\ DOMAIN Clone(v).heap \subseteq Buffers \ DOMAIN buffer
      /\ HoldsArrays(WithClone(v))
      /\ DOMAIN WithClone(v) = DOMAIN buffer \cup DOMAIN Clone(v).heap
      /\ Agree(WithClone(v), buffer, DOMAIN buffer)
      /\ Agree(WithClone(v), Clone(v).heap, DOMAIN Clone(v).heap)
  BY <1>1, CloneFacts
<1>3. /\ DOMAIN Holding(k, Clone(v).root) = DOMAIN cell \cup {k}
      /\ Holding(k, Clone(v).root)[k] = Clone(v).root
      /\ \A d \in DOMAIN cell : d # k => Holding(k, Clone(v).root)[d] = cell[d]
  BY DEF Holding, Override, Only
<1>4. HoldsArrays(buffer)
  BY TypeParts
<1> DEFINE g == WithClone(v)
           S == DOMAIN Clone(v).heap
           r == Clone(v).root
<1> HIDE DEF g, S, r
<1>5. HoldsArrays(g) /\ r \in S /\ S \subseteq DOMAIN g /\ S \cap DOMAIN buffer = {} /\ Closed(g, S)
  BY <1>2 DEF g, S, r, Agree
<1>6. r \in DOMAIN g
  BY <1>5
<1>7. ReachableIn(g, {r}) \subseteq S
  BY <1>5, <1>6, ReachOfOne
<1>8. ReachableIn(g, {r}) \cap DOMAIN buffer = {}
  BY <1>5, <1>7
<1>9. Agree(g, buffer, DOMAIN buffer)
  BY <1>2 DEF g
<1>10. \A b \in DOMAIN buffer : ReachableIn(g, {b}) = ReachableIn(buffer, {b})
  <2> TAKE b \in DOMAIN buffer
  <2> QED BY <1>4, <1>5, <1>9, SameReach
<1> QED BY <1>3, <1>8, <1>10 DEF OwnReach, g, r

\* Binding brings no cells together.
LEMMA BindingApart ==
  ASSUME TypeOK, Apart(cell, buffer), NEW x, NEW v, NEW k, Binding(x, v, k)
  PROVE  Apart(Holding(k, Clone(v).root), WithClone(v))
<1> DEFINE c == Holding(k, Clone(v).root)
           g == WithClone(v)
           r == Clone(v).root
<1>1. /\ DOMAIN c = DOMAIN cell \cup {k} /\ c[k] = r
      /\ \A d \in DOMAIN cell : d # k => c[d] = cell[d]
      /\ ReachableIn(g, {r}) \cap DOMAIN buffer = {}
      /\ \A b \in DOMAIN buffer : ReachableIn(g, {b}) = ReachableIn(buffer, {b})
  <2>1. OwnReach(v, k)
    BY BindingReach
  <2> QED BY <2>1 DEF OwnReach
<1>2. \A b \in DOMAIN buffer : ReachableIn(buffer, {b}) \subseteq DOMAIN buffer
  <2> TAKE b \in DOMAIN buffer
  <2> QED BY TypeParts, ReachOfOne
<1>3. \A d \in DOMAIN cell : cell[d] \in DOMAIN buffer
  BY TypeParts
<1> HIDE DEF c, g, r
<1>4. \A d \in DOMAIN c : d # k => /\ ReachableIn(g, {c[d]}) = ReachableIn(buffer, {cell[d]})
                                  /\ ReachableIn(g, {c[d]}) \subseteq DOMAIN buffer
                                  /\ d \in DOMAIN cell
  BY <1>1, <1>2, <1>3
<1>5. ReachableIn(g, {c[k]}) \cap DOMAIN buffer = {}
  BY <1>1
<1>6. Apart(c, g)
  <2> SUFFICES ASSUME NEW d \in DOMAIN c, NEW e \in DOMAIN c, d # e
               PROVE  ReachableIn(g, {c[d]}) \cap ReachableIn(g, {c[e]}) = {}
    BY DEF Apart
  <2>1. CASE d = k
    BY <1>4, <1>5, <2>1
  <2>2. CASE e = k
    BY <1>4, <1>5, <2>2
  <2>3. CASE d # k /\ e # k
    BY <1>4, <2>3 DEF Apart
  <2> QED BY <2>1, <2>2, <2>3
<1> QED BY <1>6 DEF c, g, r

\* An operand that is fresh reaches nothing that a variable reaches.
LEMMA FreshIsApart ==
  ASSUME TypeOK, StoredIsFresh, Last(temps) \in DOMAIN buffer, NEW d \in DOMAIN cell
  PROVE  ReachableIn(buffer, {Last(temps)}) \cap ReachableIn(buffer, {cell[d]}) = {}
<1>1. Range(cell) \in SUBSET DOMAIN buffer /\ {cell[d]} \in SUBSET Range(cell)
  BY TypeParts DEF Range
<1>2. IsHeap(buffer)
  BY TypeParts, ArraysAreAHeap
<1>3. ReachableIn(buffer, {cell[d]}) \subseteq ReachableIn(buffer, Range(cell))
  BY <1>1, <1>2, ReachableGrows
<1> QED BY <1>3 DEF StoredIsFresh, Reachable

\* A store of a fresh operand into a field brings no cells together.
LEMMA FieldApart ==
  ASSUME TypeOK, Apart(cell, buffer), StoredIsFresh, NEW k, FieldStored(k)
  PROVE  Apart(Holding(k, Last(temps)), buffer)
<1> DEFINE t == Last(temps)
           c == Holding(k, t)
<1>1. k \in DOMAIN cell /\ t \in DOMAIN buffer
  BY DEF FieldStored
<1>2. DOMAIN c = DOMAIN cell /\ c[k] = t /\ \A d \in DOMAIN cell : d # k => c[d] = cell[d]
  BY <1>1 DEF Holding, Override, Only
<1>3. \A d \in DOMAIN cell : ReachableIn(buffer, {t}) \cap ReachableIn(buffer, {cell[d]}) = {}
  BY <1>1, FreshIsApart
<1> HIDE DEF c, t
<1>4. Apart(c, buffer)
  <2> SUFFICES ASSUME NEW d \in DOMAIN c, NEW e \in DOMAIN c, d # e
               PROVE  ReachableIn(buffer, {c[d]}) \cap ReachableIn(buffer, {c[e]}) = {}
    BY DEF Apart
  <2>1. CASE d = k
    BY <1>2, <1>3, <2>1
  <2>2. CASE e = k
    BY <1>2, <1>3, <2>2
  <2>3. CASE d # k /\ e # k
    BY <1>2, <2>3 DEF Apart
  <2> QED BY <2>1, <2>2, <2>3
<1> QED BY <1>4 DEF c, t

\* A store into a buffer adds what the operand reaches to what reaches the
\* buffer, and to nothing else.
LEMMA StoringReach ==
  ASSUME TypeOK, NEW h, NEW b, NEW t, Storing(h, b, t), NEW v \in DOMAIN buffer
  PROVE  /\ ReachableIn(h, {v}) \subseteq ReachableIn(buffer, {v}) \cup ReachableIn(buffer, {t})
         /\ b \notin ReachableIn(buffer, {v}) =>
              /\ Agree(h, buffer, ReachableIn(buffer, {v}))
              /\ ReachableIn(h, {v}) = ReachableIn(buffer, {v})
<1> DEFINE RV == ReachableIn(buffer, {v})
           RT == ReachableIn(buffer, {t})
<1>1. /\ HoldsArrays(buffer) /\ HoldsArrays(h) /\ DOMAIN h = DOMAIN buffer
      /\ b \in DOMAIN buffer /\ t \in DOMAIN buffer
      /\ Range(h[b]) \subseteq Range(buffer[b]) \cup {t}
      /\ \A d \in DOMAIN buffer : d # b => h[d] = buffer[d]
  BY TypeParts DEF Storing
<1>2. /\ v \in RV /\ Closed(buffer, RV) /\ RV \subseteq DOMAIN buffer
      /\ t \in RT /\ Closed(buffer, RT) /\ RT \subseteq DOMAIN buffer
  BY <1>1, ReachOfOne
<1> HIDE DEF RV, RT
<1>3. Closed(h, RV \cup RT)
  <2>1. \A d \in RV \cup RT : Range(buffer[d]) \subseteq RV \cup RT
    BY <1>2 DEF Closed
  <2>2. \A d \in RV \cup RT : Range(h[d]) \subseteq RV \cup RT
    <3> TAKE d \in RV \cup RT
    <3>1. CASE d = b
      BY <1>1, <1>2, <2>1, <3>1
    <3>2. CASE d # b
      <4>1. h[d] = buffer[d]
        BY <1>1, <1>2, <3>2
      <4> QED BY <2>1, <4>1
    <3> QED BY <3>1, <3>2
  <2> QED BY <1>1, <1>2, <2>2 DEF Closed
<1>4. v \in DOMAIN h /\ v \in RV \cup RT
  BY <1>1, <1>2
<1>5. ReachableIn(h, {v}) \subseteq RV \cup RT
  BY <1>1, <1>3, <1>4, ReachOfOne
<1>6. ASSUME b \notin RV
      PROVE  Agree(h, buffer, RV) /\ ReachableIn(h, {v}) = ReachableIn(buffer, {v})
  <2>1. \A d \in RV : h[d] = buffer[d]
    BY <1>1, <1>2, <1>6
  <2>2. Agree(h, buffer, RV)
    BY <1>1, <1>2, <2>1 DEF Agree, Closed
  <2> QED BY <1>1, <1>2, <2>2, SameReach
<1> QED BY <1>5, <1>6 DEF RV, RT

\* At most one of the cells leads to the buffer, and it alone gets the
\* operand.
LEMMA ElementApart ==
  ASSUME TypeOK, Apart(cell, buffer), StoredIsFresh, NEW h, NEW b, ElementStored(h, b)
  PROVE  Apart(cell, h)
<1> DEFINE t == Last(temps)
           R(d) == ReachableIn(buffer, {cell[d]})
           T == ReachableIn(buffer, {t})
<1>1. Storing(h, b, t) /\ t \in DOMAIN buffer
  BY DEF ElementStored, Storing
<1>2. \A d \in DOMAIN cell : cell[d] \in DOMAIN buffer
  BY TypeParts
<1>3. \A d \in DOMAIN cell :
        /\ ReachableIn(h, {cell[d]}) \subseteq R(d) \cup T
        /\ b \notin R(d) => ReachableIn(h, {cell[d]}) = R(d)
  BY <1>1, <1>2, StoringReach
<1>4. \A d \in DOMAIN cell : T \cap R(d) = {}
  BY <1>1, FreshIsApart
<1>5. \A d, e \in DOMAIN cell : d # e => R(d) \cap R(e) = {}
  BY DEF Apart
<1> HIDE DEF R, T
<1> SUFFICES ASSUME NEW d \in DOMAIN cell, NEW e \in DOMAIN cell, d # e
             PROVE  ReachableIn(h, {cell[d]}) \cap ReachableIn(h, {cell[e]}) = {}
  BY DEF Apart
<1>6. b \notin R(d) \/ b \notin R(e)
  BY <1>5
<1>7. CASE b \notin R(d)
  BY <1>3, <1>4, <1>5, <1>7
<1>8. CASE b \notin R(e)
  BY <1>3, <1>4, <1>5, <1>8
<1> QED BY <1>6, <1>7, <1>8

\* The kinds of steps of the programs that store only what is fresh.
LEMMA FreshStepKinds ==
  ASSUME TypeOK, [FreshNext]_vars
  PROVE  \/ Idle
         \/ \E h : Reading(h)
         \/ \E x \in Names : \E v, k : Binding(x, v, k)
         \/ StoredIsFresh /\ ((\E k : FieldStored(k)) \/ \E h, b : ElementStored(h, b))
<1>1. CASE Binds
  BY <1>1, BindsBind
<1>2. CASE Stores /\ StoredIsFresh
  BY <1>2, StoresStore
<1>3. CASE Others
  BY <1>3, OthersRead
<1>4. CASE UNCHANGED vars
  BY <1>4 DEF vars, Idle, TypeOK
<1> QED BY <1>1, <1>2, <1>3, <1>4 DEF FreshNext

\* The steps of these programs are steps.
LEMMA FreshStepsAreSteps == [FreshNext]_vars => [Next]_vars
BY DEF FreshNext, Next

\* No step of these programs brings two cells together.
LEMMA FreshStepsKeepApart ==
  ASSUME TypeOK, NoAliasing, [FreshNext]_vars
  PROVE  NoAliasing'
<1>1. Apart(cell, buffer)
  BY ApartIsNoAliasing
<1> SUFFICES Apart(cell', buffer')
  BY DEF NoAliasing, Aliased, Apart, Reachable
<1>2. ASSUME NEW c, NEW h, Settled(c, h), Apart(c, h)
      PROVE  Apart(cell', buffer')
  BY <1>2, SettledApart
<1>3. CASE Idle
  BY <1>1, <1>3 DEF Idle
<1>4. CASE \E h : Reading(h)
  <2>1. PICK h : Reading(h)
    BY <1>4
  <2>2. Settled(cell, h) /\ Apart(cell, h)
    BY <1>1, <2>1, ReadingApart DEF Reading
  <2> QED BY <1>2, <2>2
<1>5. CASE \E x \in Names : \E v, k : Binding(x, v, k)
  <2>1. PICK x, v, k : Binding(x, v, k)
    BY <1>5
  <2>2. Settled(Holding(k, Clone(v).root), WithClone(v))
    BY <2>1 DEF Binding
  <2>3. Apart(Holding(k, Clone(v).root), WithClone(v))
    BY <1>1, <2>1, BindingApart
  <2> QED BY <1>2, <2>2, <2>3
<1>6. CASE StoredIsFresh /\ \E k : FieldStored(k)
  <2>1. PICK k : FieldStored(k)
    BY <1>6
  <2>2. Settled(Holding(k, Last(temps)), buffer)
    BY <2>1 DEF FieldStored
  <2>3. Apart(Holding(k, Last(temps)), buffer)
    BY <1>1, <1>6, <2>1, FieldApart
  <2> QED BY <1>2, <2>2, <2>3
<1>7. CASE StoredIsFresh /\ \E h, b : ElementStored(h, b)
  <2>1. PICK h, b : ElementStored(h, b)
    BY <1>7
  <2>2. Settled(cell, h)
    BY <2>1 DEF ElementStored
  <2>3. Apart(cell, h)
    BY <1>1, <1>7, <2>1, ElementApart
  <2> QED BY <1>2, <2>2, <2>3
<1> QED BY <1>3, <1>4, <1>5, <1>6, <1>7, FreshStepKinds

\* The store of these programs is well formed too.
LEMMA FreshStoreIsWellFormed == FreshSpec => []TypeOK
<1>1. Init => TypeOK
  BY InitTypeOK
<1>2. TypeOK /\ [FreshNext]_vars => TypeOK'
  BY NextTypeOK, FreshStepsAreSteps
<1> QED BY <1>1, <1>2, PTL DEF FreshSpec

\* ADR-0007, Consequences, "the clone was made at bind time so no aliasing
\* exists": in the programs that store only literals, what is made of them
\* and results of calls that no variable of the function holds, two variables
\* never lead to one buffer.
THEOREM FreshProgramsHaveNoAliases == FreshSpec => []NoAliasing
<1>1. Init => NoAliasing
  BY DEF Init, NoAliasing, Aliased
<1>2. TypeOK /\ NoAliasing /\ [FreshNext]_vars => NoAliasing'
  BY FreshStepsKeepApart
<1>3. FreshSpec => []TypeOK
  BY FreshStoreIsWellFormed
<1> QED BY <1>1, <1>2, <1>3, PTL DEF FreshSpec

\* In all programs, a step after which two variables lead to one buffer and
\* before which none did is a store into a field, an element or by
\* array_push, of a value that a variable already leads to.
THEOREM OnlyStoresAlias == Spec => AliasesEnterByStores
<1>1. TypeOK /\ [Next]_vars => [~Aliased /\ Aliased' => Stores /\ ~StoredIsFresh]_vars
  <2> SUFFICES ASSUME TypeOK, [Next]_vars, ~Aliased, Aliased', ~(Stores /\ ~StoredIsFresh)
               PROVE  FALSE
    OBVIOUS
  <2>1. [FreshNext]_vars
    BY DEF Next, FreshNext
  <2>2. NoAliasing'
    BY <2>1, FreshStepsKeepApart DEF NoAliasing
  <2> QED BY <2>2 DEF NoAliasing
<1>2. Spec => []TypeOK
  BY StoreIsWellFormed
<1> QED BY <1>1, <1>2, PTL DEF Spec, AliasesEnterByStores

------------------------------------------------------------------------------
(* What a binding brings about, in every program.                          *)

\* What is read of the cells and heap after a step that settles.
LEMMA SettledReads ==
  ASSUME NEW c, NEW h, Settled(c, h)
  PROVE  /\ \A S \in SUBSET DOMAIN buffer' : ReachableIn(buffer', S) = ReachableIn(h, S)
         /\ \A b \in DOMAIN buffer' : UnfoldingIn(buffer', b) = UnfoldingIn(h, b)
<1>1. Agree(buffer', h, DOMAIN buffer') /\ HoldsArrays(h) /\ HoldsArrays(buffer')
  BY SettledFacts
<1>2. IsHeap(h) /\ IsHeap(buffer')
  BY <1>1, ArraysAreAHeap
<1>3. ASSUME NEW S \in SUBSET DOMAIN buffer'
      PROVE  ReachableIn(buffer', S) = ReachableIn(h, S)
  BY <1>1, <1>2, ReachableIsLocal
<1>4. ASSUME NEW b \in DOMAIN buffer'
      PROVE  UnfoldingIn(buffer', b) = UnfoldingIn(h, b)
  BY <1>1, UnfoldingIsLocal
<1> QED BY <1>3, <1>4

\* What is bound keeps to itself.
LEMMA BindingIsOwn ==
  ASSUME TypeOK, NEW x, NEW v, NEW k, Binding(x, v, k)
  PROVE  OnlyOwner(x)'
<1> DEFINE c == Holding(k, Clone(v).root)
           g == WithClone(v)
           r == Clone(v).root
           kept == Range(Keep(cell', DOMAIN cell' \ {k}))
           others == kept \cup Pending(temps', frames')
<1>1. /\ DOMAIN c = DOMAIN cell \cup {k} /\ c[k] = r
      /\ \A d \in DOMAIN cell : d # k => c[d] = cell[d]
      /\ ReachableIn(g, {r}) \cap DOMAIN buffer = {}
  <2>1. OwnReach(v, k)
    BY BindingReach
  <2> QED BY <2>1 DEF OwnReach
<1>2. Settled(c, g) /\ Lookup(x)' = k /\ k \in Held(scopes') /\ Pending(temps', frames') \subseteq DOMAIN buffer
      /\ v \in DOMAIN buffer /\ HasRoom(v)
  BY DEF Binding
<1>3. HoldsArrays(g) /\ Closed(g, DOMAIN buffer)
  BY <1>2, CloneFacts DEF Agree
<1> HIDE DEF c, g, r
<1>4. /\ DOMAIN cell' = Live(scopes', captured', frames') /\ DOMAIN cell' \subseteq DOMAIN c
      /\ \A y \in DOMAIN cell' : cell'[y] = c[y] /\ cell'[y] \in DOMAIN buffer'
      /\ IsProgram(cell', buffer', scopes', captured', temps', frames')
  BY <1>2, SettledFacts
<1>5. k \in DOMAIN cell'
  BY <1>2, <1>4 DEF Live
<1>6. cell'[k] = r /\ {r} \in SUBSET DOMAIN buffer'
  BY <1>1, <1>4, <1>5
<1>7. kept \subseteq DOMAIN buffer' /\ kept \subseteq DOMAIN buffer
  <2> SUFFICES ASSUME NEW y \in DOMAIN cell' \ {k}
               PROVE  cell'[y] \in DOMAIN buffer' /\ cell'[y] \in DOMAIN buffer
    BY DEF Keep, Range
  <2>1. y \in DOMAIN cell /\ cell'[y] = cell[y]
    BY <1>1, <1>4
  <2> QED BY <1>4, <2>1, TypeParts
<1>8. Pending(temps', frames') \subseteq DOMAIN buffer'
  <2>1. temps' \in Seq(DOMAIN buffer') /\ frames' \in Seq(FramesOf(cell', buffer'))
    BY <1>4 DEF IsProgram
  <2> QED BY <2>1, PendingBuffers
<1>9. others \in SUBSET DOMAIN buffer' /\ others \in SUBSET DOMAIN buffer
  BY <1>2, <1>7, <1>8
<1> HIDE DEF others
<1>10. ReachableIn(buffer', {r}) = ReachableIn(g, {r}) /\ ReachableIn(buffer', others) = ReachableIn(g, others)
  BY <1>2, <1>6, <1>9, SettledReads
<1>11. ReachableIn(g, others) \subseteq DOMAIN buffer
  BY <1>3, <1>9, ArraysAreAHeap, ReachableStaysIn
<1>12. ReachableIn(buffer', {r}) \cap ReachableIn(buffer', others) = {}
  BY <1>1, <1>10, <1>11
<1> QED BY <1>2, <1>6, <1>12 DEF OnlyOwner, Reachable, others

\* ADR-0007, "Every binding gets its own Rc": after a `let`, an assignment,
\* and the binding of a pattern, a loop variable and a parameter, nothing but
\* the variable leads to the buffers of its value, no other variable, operand
\* or loop item, whatever was stored where before.
THEOREM BindingsAreOwn == Spec => NewBindingsAreOwn
<1>1. TypeOK /\ [Next]_vars =>
        [\A x \in Names, v \in DOMAIN buffer : Bound(x, v) => OnlyOwner(x)']_vars
  <2> SUFFICES ASSUME TypeOK, [Next]_vars, NEW x \in Names, NEW v \in DOMAIN buffer, Bound(x, v)
               PROVE  OnlyOwner(x)'
    OBVIOUS
  <2>1. PICK k : Binding(x, v, k)
    BY BoundBinds
  <2> QED BY <2>1, BindingIsOwn
<1>2. Spec => []TypeOK
  BY StoreIsWellFormed
<1> QED BY <1>1, <1>2, PTL DEF Spec, NewBindingsAreOwn

\* The value of every other variable is what it was, and that of the variable
\* is what was bound.
LEMMA BindingCopies ==
  ASSUME TypeOK, NEW x, NEW v, NEW k, Binding(x, v, k)
  PROVE  /\ k \in DOMAIN cell'
         /\ PathsOf(UnfoldingIn(buffer', cell'[k])) = PathsOf(UnfoldingIn(buffer, v))
         /\ \A d \in DOMAIN cell' : d # k =>
              d \in DOMAIN cell /\ UnfoldingIn(buffer', cell'[d]) = UnfoldingIn(buffer, cell[d])
<1> DEFINE c == Holding(k, Clone(v).root)
           g == WithClone(v)
           r == Clone(v).root
<1>1. /\ DOMAIN c = DOMAIN cell \cup {k} /\ c[k] = r
      /\ \A d \in DOMAIN cell : d # k => c[d] = cell[d]
  <2>1. OwnReach(v, k)
    BY BindingReach
  <2> QED BY <2>1 DEF OwnReach
<1>2. Settled(c, g) /\ k \in Held(scopes') /\ v \in DOMAIN buffer /\ HasRoom(v)
  BY DEF Binding
<1>3. /\ HoldsArrays(g) /\ Agree(g, buffer, DOMAIN buffer)
      /\ Agree(g, Clone(v).heap, DOMAIN Clone(v).heap)
      /\ \E copy : IsCopy(copy, Clone(v), buffer, v, Buffers \ DOMAIN buffer)
  BY <1>2, CloneFacts
<1>4. HoldsArrays(buffer)
  BY TypeParts
<1>5. PathsOf(UnfoldingIn(g, r)) = PathsOf(UnfoldingIn(buffer, v))
  <2> HIDE DEF g
  <2> QED BY <1>2, <1>3, <1>4, CopiesHaveTheShape
<1> HIDE DEF c, g, r
<1>6. /\ DOMAIN cell' = Live(scopes', captured', frames') /\ DOMAIN cell' \subseteq DOMAIN c
      /\ \A y \in DOMAIN cell' : cell'[y] = c[y] /\ cell'[y] \in DOMAIN buffer'
  BY <1>2, SettledFacts
<1>7. k \in DOMAIN cell'
  BY <1>2, <1>6 DEF Live
<1>8. \A d \in DOMAIN cell' : UnfoldingIn(buffer', cell'[d]) = UnfoldingIn(g, c[d])
  BY <1>2, <1>6, SettledReads
<1>9. ASSUME NEW d \in DOMAIN cell', d # k
      PROVE  d \in DOMAIN cell /\ UnfoldingIn(buffer', cell'[d]) = UnfoldingIn(buffer, cell[d])
  <2>1. d \in DOMAIN cell /\ c[d] = cell[d]
    BY <1>1, <1>6, <1>9
  <2>2. cell[d] \in DOMAIN buffer
    BY <2>1, TypeParts
  <2>3. UnfoldingIn(g, cell[d]) = UnfoldingIn(buffer, cell[d])
    BY <1>3, <1>4, <2>2, UnfoldingIsLocal
  <2> QED BY <1>8, <2>1, <2>3
<1> QED BY <1>1, <1>5, <1>7, <1>8, <1>9

\* ADR-0007, "assigning an array to a new name produces an independent copy":
\* the variable that is bound has the value of the operand down to the last
\* leaf, and no other variable changes its value, in every program, the ones
\* whose stores make aliases included.
THEOREM BindingsAreCopies == Spec => BindingsCopyTheValue
<1>1. TypeOK /\ [Next]_vars =>
        [\A x \in Names, v \in DOMAIN buffer : Bound(x, v) =>
           /\ Shape(cell[Lookup(x)])' = Shape(v)
           /\ \A c \in DOMAIN cell \cap DOMAIN cell' :
                c # Lookup(x)' => Shape(cell[c])' = Shape(cell[c])]_vars
  <2> SUFFICES ASSUME TypeOK, [Next]_vars, NEW x \in Names, NEW v \in DOMAIN buffer, Bound(x, v)
               PROVE  /\ Shape(cell[Lookup(x)])' = Shape(v)
                      /\ \A c \in DOMAIN cell \cap DOMAIN cell' :
                           c # Lookup(x)' => Shape(cell[c])' = Shape(cell[c])
    OBVIOUS
  <2>1. PICK k : Binding(x, v, k)
    BY BoundBinds
  <2>2. /\ PathsOf(UnfoldingIn(buffer', cell'[k])) = PathsOf(UnfoldingIn(buffer, v))
        /\ \A d \in DOMAIN cell' : d # k => UnfoldingIn(buffer', cell'[d]) = UnfoldingIn(buffer, cell[d])
    BY <2>1, BindingCopies
  <2>3. Lookup(x)' = k
    BY <2>1 DEF Binding
  <2> QED BY <2>2, <2>3 DEF Shape, Unfolding
<1>2. Spec => []TypeOK
  BY StoreIsWellFormed
<1> QED BY <1>1, <1>2, PTL DEF Spec, BindingsCopyTheValue

------------------------------------------------------------------------------
(* Variables as independent values.                                        *)

\* The step leaves the value of a cell as it is.
Same(d) == UnfoldingIn(buffer', cell'[d]) = UnfoldingIn(buffer, cell[d])

Drops == DOMAIN cell' \subseteq DOMAIN cell /\ \A d \in DOMAIN cell' : Same(d)
Declares(k) ==
  /\ k \notin DOMAIN cell /\ k \in DOMAIN cell' /\ DOMAIN cell' \subseteq DOMAIN cell \cup {k}
  /\ \A d \in DOMAIN cell' : d # k => Same(d)
Changes(k) ==
  /\ k \in DOMAIN cell /\ DOMAIN cell' = DOMAIN cell
  /\ \A d \in DOMAIN cell : d # k => Same(d)

\* The cells in use are those that names lead to.
Needed == DOMAIN cell = Live(scopes, captured, frames)

\* A store into a buffer changes the one variable that leads to it.
LEMMA ElementChangesOne ==
  ASSUME TypeOK, NoAliasing, Needed, NEW h, NEW b, ElementStored(h, b)
  PROVE  Drops \/ \E k : Changes(k)
<1> DEFINE R(d) == ReachableIn(buffer, {cell[d]})
<1>1. Settled(cell, h) /\ Storing(h, b, Last(temps)) /\ UNCHANGED <<scopes, captured, frames>>
  BY DEF ElementStored
<1>2. DOMAIN cell' = DOMAIN cell
  BY <1>1, SettledFacts DEF Needed
<1>3. \A d \in DOMAIN cell : cell'[d] = cell[d] /\ cell'[d] \in DOMAIN buffer' /\ cell[d] \in DOMAIN buffer
  BY <1>1, <1>2, SettledFacts, TypeParts
<1>4. HoldsArrays(h) /\ HoldsArrays(buffer)
  BY <1>1, TypeParts DEF Storing
<1>5. ASSUME NEW d \in DOMAIN cell, b \notin R(d)
      PROVE  Same(d)
  <2>1. Agree(h, buffer, R(d))
    BY <1>1, <1>3, <1>5, StoringReach
  <2>2. cell[d] \in R(d)
    BY <1>3, <1>4, ReachOfOne
  <2>3. UnfoldingIn(h, cell[d]) = UnfoldingIn(buffer, cell[d])
    <3> HIDE DEF R
    <3> QED BY <1>4, <2>1, <2>2, UnfoldingIsLocal
  <2>4. UnfoldingIn(buffer', cell'[d]) = UnfoldingIn(h, cell'[d])
    BY <1>1, <1>3, SettledReads
  <2> QED BY <1>3, <2>3, <2>4 DEF Same
<1>6. \A d, e \in DOMAIN cell : d # e => R(d) \cap R(e) = {}
  BY ApartIsNoAliasing DEF Apart
<1> HIDE DEF R
<1>7. CASE \E k \in DOMAIN cell : b \in R(k)
  <2>1. PICK k \in DOMAIN cell : b \in R(k)
    BY <1>7
  <2>2. \A d \in DOMAIN cell : d # k => b \notin R(d)
    BY <1>6, <2>1
  <2>3. Changes(k)
    BY <1>2, <1>5, <2>1, <2>2 DEF Changes
  <2> QED BY <2>3
<1>8. CASE \A k \in DOMAIN cell : b \notin R(k)
  BY <1>2, <1>5, <1>8 DEF Drops
<1> QED BY <1>7, <1>8

\* A step brings in one variable, or changes one, or may drop some.
LEMMA OneChangesAtMost ==
  ASSUME TypeOK, NoAliasing, Needed, [FreshNext]_vars
  PROVE  Drops \/ \E k \in Cells : Declares(k) \/ Changes(k)
<1>1. CASE Idle
  BY <1>1 DEF Idle, Drops, Same
<1>2. CASE \E h : Reading(h)
  <2>1. PICK h : Reading(h)
    BY <1>2
  <2>2. Settled(cell, h) /\ Agree(h, buffer, DOMAIN buffer)
    BY <2>1 DEF Reading
  <2>3. DOMAIN cell' \subseteq DOMAIN cell /\ HoldsArrays(h) /\ HoldsArrays(buffer)
        /\ \A d \in DOMAIN cell' : cell'[d] = cell[d] /\ cell'[d] \in DOMAIN buffer'
    BY <2>2, SettledFacts, TypeParts
  <2>4. ASSUME NEW d \in DOMAIN cell'
        PROVE  Same(d)
    <3>1. cell[d] \in DOMAIN buffer /\ cell'[d] = cell[d] /\ cell'[d] \in DOMAIN buffer'
      BY <2>3, TypeParts
    <3>2. UnfoldingIn(buffer', cell'[d]) = UnfoldingIn(h, cell'[d])
      BY <2>2, <3>1, SettledReads
    <3>3. UnfoldingIn(h, cell[d]) = UnfoldingIn(buffer, cell[d])
      BY <2>2, <2>3, <3>1, UnfoldingIsLocal
    <3> QED BY <3>1, <3>2, <3>3 DEF Same
  <2> QED BY <2>3, <2>4 DEF Drops
<1>3. CASE \E x \in Names : \E v, k : Binding(x, v, k)
  <2>1. PICK x, v, k : Binding(x, v, k)
    BY <1>3
  <2>2. k \in DOMAIN cell' /\ \A d \in DOMAIN cell' : d # k => d \in DOMAIN cell /\ Same(d)
    BY <2>1, BindingCopies DEF Same
  <2>3. k \in Cells /\ (k \in DOMAIN cell => UNCHANGED <<scopes, captured, frames>>)
        /\ Settled(Holding(k, Clone(v).root), WithClone(v))
    BY <2>1 DEF Binding
  <2>4. CASE k \in DOMAIN cell
    <3>1. DOMAIN cell' = DOMAIN cell
      BY <2>3, <2>4, SettledFacts DEF Needed
    <3>2. Changes(k)
      BY <2>2, <2>4, <3>1 DEF Changes
    <3> QED BY <2>3, <3>2
  <2>5. CASE k \notin DOMAIN cell
    <3>1. Declares(k)
      BY <2>2, <2>5 DEF Declares
    <3> QED BY <2>3, <3>1
  <2> QED BY <2>4, <2>5
<1>4. CASE \E k : FieldStored(k)
  <2>1. PICK k : FieldStored(k)
    BY <1>4
  <2> DEFINE c == Holding(k, Last(temps))
  <2>2. k \in DOMAIN cell /\ Settled(c, buffer) /\ UNCHANGED <<scopes, captured, frames>>
    BY <2>1 DEF FieldStored
  <2>3. \A d \in DOMAIN cell : d # k => c[d] = cell[d]
    BY DEF Holding, Override, Only
  <2> HIDE DEF c
  <2>4. DOMAIN cell' = DOMAIN cell
    BY <2>2, SettledFacts DEF Needed
  <2>5. \A d \in DOMAIN cell' : cell'[d] = c[d] /\ cell'[d] \in DOMAIN buffer'
    BY <2>2, SettledFacts
  <2>6. \A d \in DOMAIN cell' : UnfoldingIn(buffer', cell'[d]) = UnfoldingIn(buffer, cell'[d])
    BY <2>2, <2>5, SettledReads
  <2>7. Changes(k)
    BY <2>2, <2>3, <2>4, <2>5, <2>6 DEF Changes, Same
  <2> QED BY <2>2, <2>7, TypeParts
<1>5. CASE StoredIsFresh /\ \E h, b : ElementStored(h, b)
  BY <1>5, ElementChangesOne, TypeParts DEF Changes
<1> QED BY <1>1, <1>2, <1>3, <1>4, <1>5, FreshStepKinds

\* No cell stays in use that no name leads to.
LEMMA StepsKeepNeeded ==
  ASSUME TypeOK, Needed, [Next]_vars
  PROVE  Needed'
<1>1. ASSUME NEW c, NEW h, Settled(c, h)
      PROVE  Needed'
  BY <1>1, SettledFacts DEF Needed
<1>2. CASE Idle
  BY <1>2 DEF Idle, Needed
<1>3. CASE \E h : Reading(h)
  BY <1>1, <1>3 DEF Reading
<1>4. CASE \E x \in Names : \E v, k : Binding(x, v, k)
  BY <1>1, <1>4 DEF Binding
<1>5. CASE \E k : FieldStored(k)
  BY <1>1, <1>5 DEF FieldStored
<1>6. CASE \E h, b : ElementStored(h, b)
  BY <1>1, <1>6 DEF ElementStored
<1> QED BY <1>2, <1>3, <1>4, <1>5, <1>6, StepKinds

\* docs/evaluator.md, "mutations to one do not affect the other": the programs
\* that store only what is fresh cannot tell the store from variables that
\* have values of their own.
THEOREM FreshProgramsHaveValues == FreshSpec => ImplementsValueSemantics
<1> DEFINE value == [c \in DOMAIN cell |-> Shape(cell[c])]
<1>1. Init => Needed
  BY DEF Init, Needed, Live, Held, Range
<1>2. TypeOK /\ Needed /\ [FreshNext]_vars => Needed'
  BY StepsKeepNeeded, FreshStepsAreSteps
<1>3. FreshSpec => []TypeOK /\ []NoAliasing
  BY FreshStoreIsWellFormed, FreshProgramsHaveNoAliases
<1>4. Init => Values!Init
  BY DEF Init, Values!Init
<1>5. TypeOK /\ NoAliasing /\ Needed /\ [FreshNext]_vars => [Values!Next]_value
  <2> SUFFICES ASSUME TypeOK, NoAliasing, Needed, [FreshNext]_vars
               PROVE  Values!Next
    OBVIOUS
  <2>1. DOMAIN value = DOMAIN cell /\ DOMAIN value' = DOMAIN cell'
    OBVIOUS
  <2>2. \A d \in DOMAIN cell \cap DOMAIN cell' : Same(d) => value'[d] = value[d]
    BY DEF Same, Shape, Unfolding
  <2>3. CASE Drops
    <3>1. Values!Drop
      BY <2>2, <2>3 DEF Drops, Values!Drop, Values!Unaffected
    <3> QED BY <3>1 DEF Values!Next
  <2>4. ASSUME NEW k \in Cells, Declares(k)
        PROVE  Values!Next
    <3>1. Values!Declare(k)
      BY <2>2, <2>4 DEF Declares, Values!Declare, Values!Unaffected
    <3> QED BY <3>1 DEF Values!Next
  <2>5. ASSUME NEW k \in Cells, Changes(k)
        PROVE  Values!Next
    <3>1. Values!Change(k)
      BY <2>2, <2>5 DEF Changes, Values!Change, Values!Unaffected
    <3> QED BY <3>1 DEF Values!Next
  <2> QED BY <2>3, <2>4, <2>5, OneChangesAtMost
<1> QED BY <1>1, <1>2, <1>3, <1>4, <1>5, PTL DEF FreshSpec, ImplementsValueSemantics, Values!Spec
==============================================================================
