------------------------ MODULE LexicalScopesProofs ------------------------
(***************************************************************************)
(* Proofs about LexicalScopes, for every set of programs.                  *)
(***************************************************************************)
EXTENDS LexicalScopes, SequenceFacts, TLAPS

------------------------------------------------------------------------------
(***************************************************************************)
(* The nodes of a program, and a walk through them.                        *)
(***************************************************************************)
IsTree(p) ==
  /\ Len(p) \in Nat
  /\ \A i \in 1..Len(p) : p[i].last \in Nat /\ i <= p[i].last /\ p[i].last <= Len(p)
  /\ \A i, k \in 1..Len(p) : Inside(p, k, i) => p[i].last <= p[k].last

\* The nodes of a program nest.
LEMMA ProgramIsTree ==
  ASSUME NEW p, IsProgram(p)
  PROVE  /\ IsTree(p) /\ DOMAIN p = 1..Len(p)
         /\ \A i \in 1..Len(p) : p[i] \in Node(Len(p))
<1>1. p \in Seq(Node(Len(p)))
  BY DEF IsProgram
<1>2. Len(p) \in Nat /\ DOMAIN p = 1..Len(p) /\ \A i \in 1..Len(p) : p[i] \in Node(Len(p))
  BY <1>1, LenProperties, ElementOfSeq
<1>3. \A i \in 1..Len(p) : p[i].last \in 1..Len(p) /\ p[i].last >= i
  BY <1>2 DEF IsProgram, Node
<1>4. \A i, k \in 1..Len(p) : Inside(p, k, i) => p[i].last <= p[k].last
  BY <1>2 DEF IsProgram, Around
<1> QED BY <1>2, <1>3, <1>4 DEF IsTree

\* C is the nodes that are entered and not left when x is the next node.
Walk(p, C, x) ==
  /\ C \subseteq 1..Len(p) /\ x \in 1..(Len(p) + 1)
  /\ \A i \in C : i < x /\ x <= p[i].last + 1 /\ Around(p, i) \subseteq C
  /\ \A i \in 1..Len(p) : i < x /\ x <= p[i].last => i \in C

\* Nothing is to be left before x.
Ready(p, C, x) == \A i \in C : x <= p[i].last

\* When the innermost node is not at its end, none is.
LEMMA ReadyFromTop ==
  ASSUME NEW p, IsTree(p), NEW C, NEW x, Walk(p, C, x),
         NEW t \in C, \A i \in C : i <= t, x <= p[t].last
  PROVE  Ready(p, C, x)
<1> SUFFICES ASSUME NEW i \in C, i # t PROVE x <= p[i].last
  BY DEF Ready
<1>1. i \in 1..Len(p) /\ t \in 1..Len(p) /\ x \in Nat /\ i < t /\ t < x /\ x <= p[i].last + 1
  BY DEF Walk
<1>2. Inside(p, i, t)
  BY <1>1 DEF IsTree, Inside
<1> QED BY <1>1, <1>2 DEF IsTree

\* The nodes around the next node are those that are open.
LEMMA AroundNext ==
  ASSUME NEW p, IsTree(p), NEW C, NEW x \in 1..Len(p), Walk(p, C, x), Ready(p, C, x)
  PROVE  Around(p, x) = C
BY DEF IsTree, Walk, Ready, Around, Inside

\* The next node is entered.
LEMMA WalkInto ==
  ASSUME NEW p, IsTree(p), NEW C, NEW x \in 1..Len(p), Walk(p, C, x), Ready(p, C, x)
  PROVE  Walk(p, C \cup {x}, x + 1)
<1>1. Around(p, x) = C
  BY AroundNext
<1> QED BY <1>1 DEF IsTree, Walk, Ready

\* The next node is passed over.
LEMMA WalkPast ==
  ASSUME NEW p, IsTree(p), NEW C, NEW x \in 1..Len(p), Walk(p, C, x), Ready(p, C, x)
  PROVE  Walk(p, C, p[x].last + 1)
<1> DEFINE y == p[x].last + 1
<1>1. Around(p, x) = C
  BY AroundNext
<1>2. y \in 1..(Len(p) + 1) /\ x < y
  BY DEF IsTree
<1>3. ASSUME NEW i \in C
      PROVE  i < y /\ y <= p[i].last + 1 /\ Around(p, i) \subseteq C
  <2>1. i \in 1..Len(p) /\ Inside(p, i, x) /\ i < x
    BY <1>1, <1>3 DEF Around, Walk
  <2> QED BY <2>1, <1>2 DEF IsTree, Walk
<1>4. ASSUME NEW i \in 1..Len(p), i < y, y <= p[i].last
      PROVE  i \in C
  <2>1. CASE i < x
    BY <1>4, <2>1 DEF IsTree, Walk
  <2>2. i # x
    BY <1>4 DEF IsTree
  <2>3. CASE x < i
    <3>1. Inside(p, x, i)
      BY <1>4, <2>3 DEF IsTree, Inside
    <3> QED BY <1>4, <3>1 DEF IsTree
  <2> QED BY <2>1, <2>2, <2>3
<1> QED BY <1>2, <1>3, <1>4 DEF Walk

\* The innermost node is left.
LEMMA WalkOut ==
  ASSUME NEW p, IsTree(p), NEW C, NEW x, Walk(p, C, x),
         NEW t \in C, \A i \in C : i <= t, p[t].last < x
  PROVE  Walk(p, C \ {t}, x)
<1>1. \A i \in C : i # t => t \notin Around(p, i)
  BY DEF Walk, Around, Inside
<1> QED BY <1>1 DEF IsTree, Walk

\* A node stands directly in one block.
LEMMA OneBlock ==
  ASSUME NEW p, IsTree(p), NEW i \in 1..Len(p), NEW b \in 0..Len(p), NEW c \in 0..Len(p),
         InBlock(p, b, i), InBlock(p, c, i)
  PROVE  b = c
BY DEF IsTree, InBlock, Inside

\* The next node stands directly in the innermost open one, and so does that
\* one in the one around it.
LEMMA BlockOfNext ==
  ASSUME NEW p, IsTree(p), NEW i \in 1..Len(p),
         NEW t \in {0} \cup Around(p, i), \A c \in Around(p, i) : c <= t
  PROVE  InBlock(p, t, i)
BY DEF IsTree, InBlock, Around, Inside

\* A node is around what stands in it.
LEMMA BlockIsAround ==
  ASSUME NEW p, IsTree(p), NEW i \in 1..Len(p), NEW b \in 0..Len(p), InBlock(p, b, i)
  PROVE  /\ b # 0 => b < i /\ b \in Around(p, i)
         /\ \A c \in Around(p, i) : c <= b
         /\ b = 0 => Around(p, i) = {}
BY DEF IsTree, InBlock, Around, Inside

\* What stands directly in an open node is left as soon as it is passed.
LEMMA LeftInBlock ==
  ASSUME NEW p, IsTree(p), NEW C, NEW x, Walk(p, C, x), Ready(p, C, x),
         NEW i \in 1..Len(p)
  PROVE  (i < x /\ i \notin C) <=> p[i].last < x
BY DEF IsTree, Walk, Ready
------------------------------------------------------------------------------
(***************************************************************************)
(* Scopes and the nodes they belong to.                                    *)
(***************************************************************************)
Bindings == UNION {[T -> Nat] : T \in SUBSET (Names \cup {"main"})}

Size(p, i) == IF p[i].kind = "block" THEN 1 ELSE 2

\* Of n scopes, the one of node b has the level lev[b]; those of K have as
\* many scopes as ScopesOf says.
Levels(p, S, K, n, lev) ==
  /\ lev \in [S -> 1..n]
  /\ \A b, c \in S : b < c => lev[b] < lev[c]
  /\ \A b, c \in S : c \in K /\ b < c /\ (\A d \in S : d <= b \/ c <= d) => lev[c] = lev[b] + Size(p, c)
  /\ \A b \in S : (\A c \in S : c <= b) => lev[b] = n

\* f binds the names of the declarations in E, each to the latest.
Holds(p, f, E, g) ==
  /\ DOMAIN f = {p[i].name : i \in E}
  /\ \A n \in DOMAIN f :
       /\ f[n] \in DOMAIN g /\ g[f[n]] \in E /\ p[g[f[n]]].name = n
       /\ \A i \in E : p[i].name = n => i <= g[f[n]]

Within(p, b, B) == {i \in B : InBlock(p, b, i)}

Filled(p, scs, S, lev, B, g) ==
  /\ \A k \in DOMAIN scs : (\A b \in S : lev[b] # k) => DOMAIN scs[k] = {}
  /\ \A b \in S : Holds(p, scs[lev[b]], Within(p, b, B), g)

\* The scopes are those of the nodes of S and hold the declarations of B,
\* through values that g takes to declarations.
Layered(p, scs, S, K, B, g) ==
  \E lev : Levels(p, S, K, Len(scs), lev) /\ Filled(p, scs, S, lev, B, g)

\* A node gets n scopes on top of the others.
PushedLevels(S, x, n, lev) == [b \in S \cup {x} |-> IF b = x THEN n ELSE lev[b]]
PoppedLevels(S, t, lev) == [b \in S \ {t} |-> lev[b]]

LEMMA LevelsPush ==
  ASSUME NEW p, NEW N \in Nat, NEW S, S \subseteq 0..N, NEW K, NEW n \in Nat, NEW lev,
         Levels(p, S, K, n, lev), NEW x \in 1..N, \A b \in S : b < x,
         NEW m \in 1..2, x \in K => m = Size(p, x)
  PROVE  Levels(p, S \cup {x}, K, n + m, PushedLevels(S, x, n + m, lev))
<1> DEFINE new == PushedLevels(S, x, n + m, lev)
<1>1. /\ lev \in [S -> 1..n] /\ x \notin S
      /\ \A b \in S : lev[b] \in 1..n /\ b \in Nat
  BY DEF Levels
<1>2. new[x] = n + m /\ \A b \in S : new[b] = lev[b]
  BY <1>1 DEF PushedLevels
<1>3. new \in [S \cup {x} -> 1..(n + m)]
  BY <1>1 DEF PushedLevels
<1> HIDE DEF new
<1>4. ASSUME NEW b \in S \cup {x}, NEW c \in S \cup {x}, b < c
      PROVE  b \in S /\ new[b] < new[c]
  <2>1. b \in S
    BY <1>1, <1>4
  <2>2. CASE c = x
    BY <2>1, <2>2, <1>1, <1>2
  <2>3. CASE c \in S
    BY <2>1, <2>3, <1>1, <1>2, <1>4 DEF Levels
  <2> QED BY <2>1, <2>2, <2>3
<1>5. ASSUME NEW b \in S \cup {x}, NEW c \in S \cup {x}, c \in K, b < c,
             \A d \in S \cup {x} : d <= b \/ c <= d
      PROVE  new[c] = new[b] + Size(p, c)
  <2>1. b \in S
    BY <1>4, <1>5
  <2>2. CASE c = x
    <3>1. \A d \in S : d <= b
      BY <2>2, <1>5, <1>1
    <3>2. lev[b] = n
      BY <2>1, <3>1 DEF Levels
    <3> QED BY <2>1, <2>2, <3>2, <1>2, <1>5
  <2>3. CASE c \in S
    <3>1. lev[c] = lev[b] + Size(p, c)
      BY <2>1, <2>3, <1>5 DEF Levels
    <3> QED BY <2>1, <2>3, <3>1, <1>2
  <2> QED BY <2>2, <2>3
<1>6. ASSUME NEW b \in S \cup {x}, \A c \in S \cup {x} : c <= b
      PROVE  new[b] = n + m
  <2>1. b = x
    BY <1>1, <1>6
  <2> QED BY <2>1, <1>2
<1> QED BY <1>3, <1>4, <1>5, <1>6 DEF Levels, new

\* The innermost of several nodes.
LEMMA TopOf ==
  ASSUME NEW N \in Nat, NEW S, S \subseteq 0..N, S # {}
  PROVE  \E t \in S : \A b \in S : b <= t
<1> DEFINE T == {b + 1 : b \in S}
<1>1. PICK s \in S : TRUE
  OBVIOUS
<1>2. T \subseteq 1..(N + 1) /\ s + 1 \in T /\ N + 1 \in Nat
  OBVIOUS
<1> HIDE DEF T
<1>3. Max(T) \in T /\ \A m \in T : m <= Max(T)
  <2>1. T # {}
    BY <1>2
  <2> QED BY <1>2, <2>1, NonEmptyHasMax
<1>4. PICK t \in S : Max(T) = t + 1
  BY <1>3 DEF T
<1>5. \A b \in S : b + 1 \in T
  BY DEF T
<1> QED BY <1>3, <1>4, <1>5

LEMMA LevelsPop ==
  ASSUME NEW p, NEW N \in Nat, NEW S, S \subseteq 0..N, NEW K, NEW n \in Nat, NEW lev,
         Levels(p, S, K, n, lev), NEW t \in S, \A b \in S : b <= t, t \in K, t # 0, 0 \in S
  PROVE  /\ Size(p, t) <= n
         /\ Levels(p, S \ {t}, K, n - Size(p, t), PoppedLevels(S, t, lev))
<1> DEFINE new == PoppedLevels(S, t, lev)
<1>1. PICK s \in S \ {t} : \A b \in S \ {t} : b <= s
  <2>1. S \ {t} \subseteq 0..N /\ S \ {t} # {}
    OBVIOUS
  <2> QED BY <2>1, TopOf
<1>2. lev \in [S -> 1..n] /\ \A b \in S : lev[b] \in 1..n /\ b \in Nat
  BY DEF Levels
<1>3. lev[t] = lev[s] + Size(p, t)
  <2>1. s < t /\ \A d \in S : d <= s \/ t <= d
    BY <1>1, <1>2
  <2> QED BY <2>1 DEF Levels
<1>4. lev[t] = n
  BY DEF Levels
<1>5. Size(p, t) \in 1..2
  BY DEF Size
<1>6. lev[s] = n - Size(p, t) /\ Size(p, t) <= n
  BY <1>2, <1>3, <1>4, <1>5
<1>7. \A b \in S \ {t} : lev[b] <= lev[s]
  <2> TAKE b \in S \ {t}
  <2>1. CASE b = s
    BY <2>1, <1>2
  <2>2. CASE b < s
    BY <2>2, <1>2 DEF Levels
  <2> QED BY <2>1, <2>2, <1>1, <1>2
<1>8. \A b \in S \ {t} : lev[b] \in 1..(n - Size(p, t))
  BY <1>2, <1>5, <1>6, <1>7
<1>9. new \in [S \ {t} -> 1..(n - Size(p, t))] /\ \A b \in S \ {t} : new[b] = lev[b]
  BY <1>8 DEF PoppedLevels
<1> HIDE DEF new
<1>10. \A b, c \in S \ {t} : b < c => new[b] < new[c]
  BY <1>9 DEF Levels
<1>11. ASSUME NEW b \in S \ {t}, NEW c \in S \ {t}, c \in K, b < c,
              \A d \in S \ {t} : d <= b \/ c <= d
       PROVE  new[c] = new[b] + Size(p, c)
  <2>1. \A d \in S : d <= b \/ c <= d
    BY <1>11, <1>2
  <2>2. lev[c] = lev[b] + Size(p, c)
    BY <1>11, <2>1 DEF Levels
  <2> QED BY <2>2, <1>9
<1>12. ASSUME NEW b \in S \ {t}, \A c \in S \ {t} : c <= b
       PROVE  new[b] = n - Size(p, t)
  <2>1. b = s
    BY <1>1, <1>2, <1>12
  <2> QED BY <2>1, <1>6, <1>9
<1> QED BY <1>6, <1>9, <1>10, <1>11, <1>12 DEF Levels, new

LEMMA LayeredPush ==
  ASSUME NEW p, NEW N \in Nat, NEW S, S \subseteq 0..N, NEW K, NEW B, NEW g,
         NEW scs \in Seq(Bindings), Layered(p, scs, S, K, B, g),
         NEW x \in 1..N, \A b \in S : b < x,
         NEW m \in 1..2, x \in K => m = Size(p, x),
         NEW new \in Seq(Bindings), Len(new) = Len(scs) + m,
         \A k \in 1..Len(scs) : new[k] = scs[k],
         m = 2 => DOMAIN new[Len(scs) + 1] = {},
         Holds(p, new[Len(scs) + m], Within(p, x, B), g)
  PROVE  Layered(p, new, S \cup {x}, K, B, g)
<1>1. PICK lev : Levels(p, S, K, Len(scs), lev) /\ Filled(p, scs, S, lev, B, g)
  BY DEF Layered
<1> DEFINE up == PushedLevels(S, x, Len(scs) + m, lev)
<1>2. Len(scs) \in Nat /\ DOMAIN scs = 1..Len(scs) /\ DOMAIN new = 1..(Len(scs) + m)
  BY LenProperties
<1>3. Levels(p, S \cup {x}, K, Len(scs) + m, up)
  BY <1>1, <1>2, LevelsPush
<1>4. /\ lev \in [S -> 1..Len(scs)] /\ x \notin S
      /\ up[x] = Len(scs) + m /\ \A b \in S : up[b] = lev[b] /\ lev[b] \in 1..Len(scs)
  <2>1. lev \in [S -> 1..Len(scs)]
    BY <1>1 DEF Levels
  <2>2. x \notin S
    OBVIOUS
  <2> QED BY <2>1, <2>2 DEF PushedLevels
<1> HIDE DEF up
<1>5. ASSUME NEW k \in DOMAIN new, \A b \in S \cup {x} : up[b] # k
      PROVE  DOMAIN new[k] = {}
  <2>1. k # Len(scs) + m
    BY <1>4, <1>5
  <2>2. CASE k \in 1..Len(scs)
    <3>1. \A b \in S : lev[b] # k
      BY <1>4, <1>5
    <3>2. DOMAIN scs[k] = {}
      BY <1>1, <1>2, <2>2, <3>1 DEF Filled
    <3> QED BY <2>2, <3>2
  <2>3. CASE k = Len(scs) + 1 /\ m = 2
    BY <2>3
  <2> QED BY <1>2, <2>1, <2>2, <2>3
<1>6. ASSUME NEW b \in S \cup {x}
      PROVE  Holds(p, new[up[b]], Within(p, b, B), g)
  <2>1. CASE b = x
    BY <2>1, <1>4
  <2>2. CASE b \in S
    BY <2>2, <1>1, <1>4 DEF Filled
  <2> QED BY <2>1, <2>2
<1> QED BY <1>3, <1>5, <1>6 DEF Layered, Filled

LEMMA LayeredPop ==
  ASSUME NEW p, NEW N \in Nat, NEW S, S \subseteq 0..N, NEW K, NEW B, NEW g,
         NEW scs \in Seq(Bindings), Layered(p, scs, S, K, B, g),
         NEW t \in S, \A b \in S : b <= t, t \in K, t # 0, 0 \in S
  PROVE  /\ pop(scs, Size(p, t)) \in Seq(Bindings)
         /\ Layered(p, pop(scs, Size(p, t)), S \ {t}, K, B, g)
<1>1. PICK lev : Levels(p, S, K, Len(scs), lev) /\ Filled(p, scs, S, lev, B, g)
  BY DEF Layered
<1> DEFINE down == PoppedLevels(S, t, lev)
           n == Len(scs) - Size(p, t)
           new == pop(scs, Size(p, t))
<1>2. Len(scs) \in Nat /\ DOMAIN scs = 1..Len(scs)
  BY LenProperties
<1>3. Size(p, t) <= Len(scs) /\ Levels(p, S \ {t}, K, n, down)
  BY <1>1, <1>2, LevelsPop
<1>4. n \in 0..Len(scs) /\ n \in Nat /\ n < Len(scs)
  BY <1>2, <1>3 DEF Size
<1>5. /\ new \in Seq(Bindings) /\ Len(new) = n /\ DOMAIN new = 1..n
      /\ \A k \in 1..n : new[k] = scs[k]
  <2>1. /\ SubSeq(scs, 1, n) \in Seq(Bindings) /\ Len(SubSeq(scs, 1, n)) = n
        /\ \A k \in 1..n : SubSeq(scs, 1, n)[k] = scs[k]
    BY <1>4, PrefixTypes
  <2> QED BY <2>1, LenProperties DEF pop
<1>6. \A b \in S \ {t} : down[b] = lev[b] /\ down[b] \in 1..n
  BY <1>3 DEF PoppedLevels, Levels
<1>7. lev[t] = Len(scs)
  BY <1>1 DEF Levels
<1> HIDE DEF down, new, n
<1>8. ASSUME NEW k \in DOMAIN new, \A b \in S \ {t} : down[b] # k
      PROVE  DOMAIN new[k] = {}
  <2>1. \A b \in S : lev[b] # k
    BY <1>4, <1>5, <1>6, <1>7, <1>8
  <2>2. k \in DOMAIN scs
    BY <1>2, <1>4, <1>5
  <2>3. DOMAIN scs[k] = {}
    BY <1>1, <2>1, <2>2 DEF Filled
  <2> QED BY <2>3, <1>5
<1>9. ASSUME NEW b \in S \ {t}
      PROVE  Holds(p, new[down[b]], Within(p, b, B), g)
  <2>1. Holds(p, scs[lev[b]], Within(p, b, B), g)
    BY <1>1 DEF Filled
  <2> QED BY <2>1, <1>5, <1>6
<1>10. Filled(p, new, S \ {t}, down, B, g)
  BY <1>8, <1>9 DEF Filled
<1>11. Levels(p, S \ {t}, K, Len(new), down)
  BY <1>3, <1>5 DEF n
<1>12. Layered(p, new, S \ {t}, K, B, g)
  BY <1>10, <1>11 DEF Layered
<1> QED BY <1>5, <1>12 DEF new

\* A declaration that stands directly in the innermost node is bound.
LEMMA LayeredBind ==
  ASSUME NEW p, IsTree(p), NEW S, S \subseteq 0..Len(p), NEW K, NEW B, NEW g,
         NEW scs \in Seq(Bindings), Layered(p, scs, S, K, B, g),
         NEW t \in S, \A b \in S : b <= t,
         NEW v \in DOMAIN g, v \in Nat, g[v] \in 1..Len(p), InBlock(p, t, g[v]),
         p[g[v]].name \in Names \cup {"main"},
         \A j \in Within(p, t, B) : p[j].name = p[g[v]].name => j <= g[v]
  PROVE  /\ bind(scs, p[g[v]].name, v) \in Seq(Bindings)
         /\ Layered(p, bind(scs, p[g[v]].name, v), S, K, B \cup {g[v]}, g)
<1> DEFINE i == g[v]
           name == p[i].name
           new == bind(scs, name, v)
           top == scs[Len(scs)]
           f == [n \in DOMAIN top \cup {name} |-> IF n = name THEN v ELSE top[n]]
<1>1. PICK lev : Levels(p, S, K, Len(scs), lev) /\ Filled(p, scs, S, lev, B, g)
  BY DEF Layered
<1>2. /\ lev \in [S -> 1..Len(scs)] /\ lev[t] = Len(scs) /\ Len(scs) \in Nat
      /\ Len(scs) \in 1..Len(scs)
  BY <1>1, LenProperties DEF Levels
<1>3. top \in Bindings
  BY <1>2, ElementOfSeq
<1>4. f \in Bindings
  <2>1. PICK T \in SUBSET (Names \cup {"main"}) : top \in [T -> Nat]
    BY <1>3 DEF Bindings
  <2>2. DOMAIN top = T /\ \A n \in T : top[n] \in Nat
    BY <2>1
  <2>3. T \cup {name} \in SUBSET (Names \cup {"main"})
    BY <2>1
  <2> HIDE DEF top, name, i
  <2>4. f \in [T \cup {name} -> Nat]
    BY <2>2
  <2> HIDE DEF f
  <2> QED BY <2>3, <2>4 DEF Bindings
<1>5. new = [scs EXCEPT ![Len(scs)] = f]
  BY DEF bind
<1>6. /\ new \in Seq(Bindings) /\ Len(new) = Len(scs) /\ DOMAIN new = 1..Len(scs)
      /\ DOMAIN scs = 1..Len(scs)
      /\ new[Len(scs)] = f /\ \A k \in 1..Len(scs) : k # Len(scs) => new[k] = scs[k]
  <2> HIDE DEF new, f
  <2>1. new \in Seq(Bindings) /\ Len(new) = Len(scs)
    BY <1>2, <1>4, <1>5, ExceptSeq
  <2>2. DOMAIN new = 1..Len(scs) /\ DOMAIN scs = 1..Len(scs)
    BY <2>1, LenProperties
  <2> QED BY <2>1, <2>2, <1>2, <1>5
<1>7. ASSUME NEW k \in DOMAIN new, \A b \in S : lev[b] # k
      PROVE  DOMAIN new[k] = {}
  <2>1. k # Len(scs)
    BY <1>2, <1>7
  <2>2. DOMAIN scs[k] = {}
    BY <1>1, <1>6, <1>7 DEF Filled
  <2> HIDE DEF new
  <2> QED BY <2>1, <2>2, <1>6, <1>7
<1>8. Holds(p, f, Within(p, t, B \cup {i}), g)
  <2>1. Holds(p, top, Within(p, t, B), g)
    BY <1>1, <1>2 DEF Filled
  <2>2. Within(p, t, B \cup {i}) = Within(p, t, B) \cup {i}
    BY DEF Within
  <2>3. DOMAIN f = DOMAIN top \cup {name} /\ f[name] = v
    OBVIOUS
  <2>4. \A n \in DOMAIN f : n # name => n \in DOMAIN top /\ f[n] = top[n]
    OBVIOUS
  <2> HIDE DEF f, top
  <2>5. DOMAIN f = {p[j].name : j \in Within(p, t, B) \cup {i}}
    BY <2>1, <2>3 DEF Holds
  <2>6. ASSUME NEW n \in DOMAIN f
        PROVE  /\ f[n] \in DOMAIN g /\ g[f[n]] \in Within(p, t, B) \cup {i} /\ p[g[f[n]]].name = n
               /\ \A j \in Within(p, t, B) \cup {i} : p[j].name = n => j <= g[f[n]]
    <3>1. CASE n = name
      BY <3>1, <2>3
    <3>2. CASE n # name
      BY <3>2, <2>1, <2>4 DEF Holds
    <3> QED BY <3>1, <3>2
  <2> QED BY <2>2, <2>5, <2>6 DEF Holds
<1>9. ASSUME NEW b \in S, b # t
      PROVE  Holds(p, new[lev[b]], Within(p, b, B \cup {i}), g)
  <2>1. Within(p, b, B \cup {i}) = Within(p, b, B)
    <3>1. ~InBlock(p, b, i)
      BY <1>9, OneBlock
    <3> QED BY <3>1 DEF Within
  <2>2. Holds(p, scs[lev[b]], Within(p, b, B), g)
    BY <1>1 DEF Filled
  <2>3. lev[b] \in 1..Len(scs) /\ lev[b] # Len(scs)
    <3>1. b < t /\ lev[b] < lev[t]
      BY <1>1, <1>9 DEF Levels
    <3> QED BY <3>1, <1>2
  <2> HIDE DEF new
  <2> QED BY <2>1, <2>2, <2>3, <1>6
<1>10. Filled(p, new, S, lev, B \cup {i}, g)
  <2> HIDE DEF new, f, i
  <2> QED BY <1>2, <1>6, <1>7, <1>8, <1>9 DEF Filled
<1>11. Layered(p, new, S, K, B \cup {i}, g)
  <2> HIDE DEF new, f, i
  <2> QED BY <1>1, <1>6, <1>10 DEF Layered
<1> QED BY <1>6, <1>11

\* Only the declarations that stand directly in a node of S matter, and new
\* values leave the earlier ones alone.
LEMMA LayeredSame ==
  ASSUME NEW p, NEW S, NEW K, NEW B, NEW g, NEW scs, Layered(p, scs, S, K, B, g),
         NEW D, \A b \in S : Within(p, b, D) = Within(p, b, B),
         NEW h, \A v \in DOMAIN g : v \in DOMAIN h /\ h[v] = g[v]
  PROVE  Layered(p, scs, S, K, D, h)
<1>1. PICK lev : Levels(p, S, K, Len(scs), lev) /\ Filled(p, scs, S, lev, B, g)
  BY DEF Layered
<1>2. ASSUME NEW b \in S
      PROVE  Holds(p, scs[lev[b]], Within(p, b, D), h)
  <2>1. Holds(p, scs[lev[b]], Within(p, b, B), g)
    BY <1>1 DEF Filled
  <2> QED BY <2>1 DEF Holds
<1> QED BY <1>1, <1>2 DEF Layered, Filled

\* Nothing of S declares the name, or what is found is the latest of the
\* innermost that does.
NotDeclared(p, S, B, n) == \A b \in S : \A i \in Within(p, b, B) : p[i].name # n
LatestIn(p, S, B, n, b, d) ==
  /\ d \in Within(p, b, B) /\ p[d].name = n
  /\ \A i \in Within(p, b, B) : p[i].name = n => i <= d
  /\ \A c \in S : b < c => \A i \in Within(p, c, B) : p[i].name # n

LEMMA LookupIn ==
  ASSUME NEW p, NEW N \in Nat, NEW S, S \subseteq 0..N, NEW K, NEW B, NEW g,
         NEW scs \in Seq(Bindings), Layered(p, scs, S, K, B, g), NEW n
  PROVE  \/ lookup(scs, n) = {} /\ NotDeclared(p, S, B, n)
         \/ \E b \in S, v \in DOMAIN g : lookup(scs, n) = {v} /\ LatestIn(p, S, B, n, b, g[v])
<1>1. PICK lev : Levels(p, S, K, Len(scs), lev) /\ Filled(p, scs, S, lev, B, g)
  BY DEF Layered
<1>2. /\ lev \in [S -> 1..Len(scs)] /\ Len(scs) \in Nat /\ DOMAIN scs = 1..Len(scs)
      /\ \A b \in S : lev[b] \in DOMAIN scs
  BY <1>1, LenProperties DEF Levels
<1> DEFINE levels == {k \in DOMAIN scs : n \in DOMAIN scs[k]}
<1>3. lookup(scs, n) = IF levels = {} THEN {} ELSE {scs[Max(levels)][n]}
  BY DEF lookup
<1>4. \A b \in S : (\E i \in Within(p, b, B) : p[i].name = n) => lev[b] \in levels
  BY <1>1, <1>2 DEF Filled, Holds
<1>5. levels \subseteq 1..Len(scs)
  BY <1>2
<1>6. \A k \in levels : n \in DOMAIN scs[k] /\ k \in DOMAIN scs
  OBVIOUS
<1> HIDE DEF levels
<1>7. CASE levels = {}
  <2>1. lookup(scs, n) = {}
    BY <1>3, <1>7
  <2> QED BY <2>1, <1>4, <1>7 DEF NotDeclared
<1>8. CASE levels # {}
  <2>1. Max(levels) \in levels /\ \A k \in levels : k <= Max(levels)
    BY <1>2, <1>5, <1>8, NonEmptyHasMax
  <2>2. PICK b \in S : lev[b] = Max(levels)
    BY <2>1, <1>1, <1>6 DEF Filled
  <2>3. Holds(p, scs[lev[b]], Within(p, b, B), g) /\ n \in DOMAIN scs[lev[b]]
    BY <2>1, <2>2, <1>1, <1>6 DEF Filled
  <2>4. lookup(scs, n) = {scs[lev[b]][n]}
    BY <2>2, <1>3, <1>8
  <2>5. ASSUME NEW c \in S, b < c
        PROVE  \A i \in Within(p, c, B) : p[i].name # n
    <3>1. lev[b] < lev[c] /\ lev[b] \in Nat /\ lev[c] \in Nat
      BY <2>5, <1>1, <1>2 DEF Levels
    <3>2. lev[c] \notin levels
      BY <3>1, <2>1, <2>2
    <3> QED BY <3>2, <1>4
  <2>6. LatestIn(p, S, B, n, b, g[scs[lev[b]][n]]) /\ scs[lev[b]][n] \in DOMAIN g
    BY <2>3, <2>5 DEF LatestIn, Holds
  <2> QED BY <2>4, <2>6
<1> QED BY <1>7, <1>8

------------------------------------------------------------------------------
(***************************************************************************)
(* Declarations and the meaning of a name.                                 *)
(***************************************************************************)
\* What stands directly in the same block stands in the same nodes.
LEMMA SameBlock ==
  ASSUME NEW p, IsTree(p), NEW i \in 1..Len(p), NEW j \in 1..Len(p), NEW b \in 0..Len(p),
         InBlock(p, b, i), InBlock(p, b, j)
  PROVE  Around(p, i) \subseteq Around(p, j)
<1> SUFFICES ASSUME NEW k \in Around(p, i) PROVE k \in Around(p, j)
  OBVIOUS
<1>1. k \in 1..Len(p) /\ k < i /\ i <= p[k].last /\ b # 0 /\ k <= b
  BY DEF Around, InBlock, Inside
<1>2. b \in 1..Len(p) /\ b < i /\ i <= p[b].last /\ b < j /\ j <= p[b].last
  BY <1>1 DEF InBlock, Inside
<1>3. CASE k = b
  BY <1>1, <1>2, <1>3 DEF Around, Inside
<1>4. CASE k < b
  <2>1. Inside(p, k, b)
    BY <1>1, <1>2, <1>4 DEF IsTree, Inside
  <2>2. p[b].last <= p[k].last
    BY <1>1, <1>2, <2>1 DEF IsTree
  <2> QED BY <1>1, <1>2, <1>4, <2>2 DEF IsTree, Around, Inside
<1> QED BY <1>1, <1>2, <1>3, <1>4

\* A name that a block declares as a function is declared once in it.
LEMMA OneName ==
  ASSUME NEW p, IsProgram(p), NEW i \in 1..Len(p), NEW j \in 1..Len(p), NEW b \in 0..Len(p),
         InBlock(p, b, i), InBlock(p, b, j), p[i].name = p[j].name,
         p[i].kind \in Declarations, p[j].kind \in Declarations,
         p[i].kind \in Functions \/ p[j].kind \in Functions
  PROVE  i = j
<1>1. IsTree(p) /\ DOMAIN p = 1..Len(p)
  BY ProgramIsTree
<1>2. Around(p, i) = Around(p, j)
  <2>1. Around(p, i) \subseteq Around(p, j)
    BY <1>1, SameBlock
  <2>2. Around(p, j) \subseteq Around(p, i)
    BY <1>1, SameBlock
  <2> QED BY <2>1, <2>2
<1>3. /\ {p[i].kind, p[j].kind} \subseteq Declarations /\ Functions \cap {p[i].kind, p[j].kind} # {}
      /\ {p[j].kind, p[i].kind} \subseteq Declarations /\ Functions \cap {p[j].kind, p[i].kind} # {}
  OBVIOUS
<1>4. ~(j < i)
  <2>1. j < i => j \in 1..(i - 1)
    BY <1>1 DEF IsTree
  <2> QED BY <1>1, <1>2, <1>3, <2>1 DEF IsProgram
<1>5. ~(i < j)
  <2>1. i < j => i \in 1..(j - 1)
    BY <1>1 DEF IsTree
  <2> QED BY <1>1, <1>2, <1>3, <2>1 DEF IsProgram
<1> QED BY <1>1, <1>4, <1>5 DEF IsTree

LEMMA MaxIs ==
  ASSUME NEW N \in Nat, NEW S, S \subseteq 0..N, S # {}
  PROVE  Max(S) \in S /\ \A b \in S : b <= Max(S)
<1>1. \E t \in S : \A b \in S : b <= t
  BY TopOf
<1>2. \E t \in S : \A b \in S : t >= b
  <2>1. PICK t \in S : \A b \in S : b <= t
    BY <1>1
  <2>2. \A b \in S : t >= b
    BY <2>1
  <2> QED BY <2>2
<1>3. Max(S) \in S /\ \A b \in S : Max(S) >= b
  BY <1>2 DEF Max
<1>4. \A b \in S : b \in Nat
  OBVIOUS
<1> QED BY <1>3, <1>4

\* The blocks a node stands in, the module included.
BlocksOf(x) == {0} \cup Around(program, x)
NothingShown(x) == \A b \in BlocksOf(x) : Shown(b, x, program[x].name) = {}
ShownBy(x, b, m) ==
  /\ b \in BlocksOf(x) /\ m \in Shown(b, x, program[x].name)
  /\ \A i \in Shown(b, x, program[x].name) : i <= m
  /\ \A c \in BlocksOf(x) : b < c => Shown(c, x, program[x].name) = {}

LEMMA MeaningIs ==
  ASSUME IsTree(program), NEW x \in Nodes
  PROVE  \/ Meaning(x) = {} /\ NothingShown(x)
         \/ \E b, m : Meaning(x) = {m} /\ ShownBy(x, b, m)
<1> DEFINE name == program[x].name
           blocks == {b \in {0} \cup {i \in Nodes : Inside(program, i, x)} : Shown(b, x, name) # {}}
<1>1. blocks = {b \in BlocksOf(x) : Shown(b, x, name) # {}}
  BY DEF BlocksOf, Around, Nodes
<1>2. Meaning(x) = IF blocks = {} THEN {} ELSE {Max(Shown(Max(blocks), x, name))}
  BY DEF Meaning
<1> HIDE DEF blocks
<1>3. CASE blocks = {}
  BY <1>1, <1>2, <1>3 DEF NothingShown
<1>4. CASE blocks # {}
  <2>1. Len(program) \in Nat /\ blocks \subseteq 0..Len(program)
    BY <1>1 DEF IsTree, BlocksOf, Around
  <2>2. Max(blocks) \in blocks /\ \A b \in blocks : b <= Max(blocks)
    BY <1>4, <2>1, MaxIs
  <2>3. Shown(Max(blocks), x, name) # {} /\ Shown(Max(blocks), x, name) \subseteq 0..Len(program)
    <3>1. Shown(Max(blocks), x, name) # {}
      BY <1>1, <2>2
    <3>2. Shown(Max(blocks), x, name) \subseteq Nodes
      BY DEF Shown
    <3> QED BY <2>1, <3>1, <3>2 DEF Nodes
  <2>4. PICK b : b = Max(blocks)
    OBVIOUS
  <2>5. PICK m : m = Max(Shown(b, x, name))
    OBVIOUS
  <2>6. m \in Shown(b, x, name) /\ \A i \in Shown(b, x, name) : i <= m
    BY <2>1, <2>3, <2>4, <2>5, MaxIs
  <2>7. \A c \in BlocksOf(x) : b < c => Shown(c, x, name) = {}
    <3> SUFFICES ASSUME NEW c \in BlocksOf(x), b < c, Shown(c, x, name) # {} PROVE FALSE
      OBVIOUS
    <3>1. c \in blocks /\ c \in Nat /\ b \in Nat
      BY <1>1, <2>1, <2>2, <2>4
    <3> QED BY <3>1, <2>2, <2>4
  <2>8. ShownBy(x, b, m)
    BY <1>1, <2>2, <2>4, <2>6, <2>7 DEF ShownBy
  <2>9. Meaning(x) = {m}
    BY <1>2, <1>4, <2>4, <2>5
  <2> QED BY <2>8, <2>9
<1> QED BY <1>3, <1>4

\* What the functions of a block are hoisted to.
LEMMA Hoisted ==
  ASSUME IsProgram(program), NEW b \in 0..Len(program), NEW kinds, kinds \subseteq Functions
  PROVE  /\ FunctionsOf(b, kinds) \in Bindings
         /\ Holds(program, FunctionsOf(b, kinds),
                  {i \in Nodes : InBlock(program, b, i) /\ program[i].kind \in kinds},
                  [i \in Nodes |-> i])
<1> DEFINE decls == {i \in Nodes : InBlock(program, b, i) /\ program[i].kind \in kinds}
           names == {program[i].name : i \in decls}
           f == [n \in names |-> CHOOSE i \in decls : program[i].name = n]
<1>1. FunctionsOf(b, kinds) = f
  BY DEF FunctionsOf
<1>2. /\ Len(program) \in Nat /\ DOMAIN program = 1..Len(program)
      /\ \A i \in Nodes : program[i] \in Node(Len(program))
  BY ProgramIsTree DEF IsTree, Nodes
<1>3. \A i \in decls : i \in Nodes /\ i \in Nat /\ program[i].name \in Names \cup {"main"}
  <2> TAKE i \in decls
  <2>1. i \in Nodes /\ program[i].kind # "block" /\ i \in 1..Len(program)
    BY DEF Functions, Nodes
  <2>2. program[i].name # NoName
    BY <2>1, <1>2 DEF IsProgram
  <2>3. program[i].name \in Names \cup {"main", NoName}
    BY <2>1, <1>2 DEF Node
  <2> QED BY <2>1, <2>2, <2>3, <1>2
<1>4. \A i, j \in decls : program[i].name = program[j].name => i = j
  BY OneName DEF Nodes, Declarations
<1> HIDE DEF decls
<1>5. \A n \in names : f[n] \in decls /\ program[f[n]].name = n
  OBVIOUS
<1>6. f \in [names -> Nat] /\ names \in SUBSET (Names \cup {"main"})
  BY <1>3, <1>5
<1>7. DOMAIN f = names
  OBVIOUS
<1> HIDE DEF f
<1>8. f \in Bindings
  BY <1>6 DEF Bindings
<1>9. Holds(program, f, decls, [i \in Nodes |-> i])
  <2>1. \A n \in names : f[n] \in Nodes /\ \A i \in decls : program[i].name = n => i = f[n]
    BY <1>3, <1>4, <1>5
  <2>2. \A n \in names : \A i \in decls : program[i].name = n => i <= f[n]
    BY <2>1, <1>3
  <2> QED BY <1>5, <1>7, <2>1, <2>2 DEF Holds
<1> QED BY <1>1, <1>8, <1>9 DEF decls

------------------------------------------------------------------------------
(***************************************************************************)
(* Inference.                                                              *)
(***************************************************************************)
Identity(p) == [i \in 1..Len(p) |-> i]

\* What inference has bound: the functions it hoists, and what it has left.
PolyBound(p, C, x) ==
  {i \in 1..Len(p) : p[i].kind = "fun" \/ (p[i].kind \in {"gen", "poly"} /\ i < x /\ i \notin C)}
MonoBound(p, C, x) ==
  {i \in 1..Len(p) : p[i].kind = "fun" \/ (p[i].kind = "let" /\ i < x /\ i \notin C)}

\* The nodes that are open form a path, the innermost last.
OpenPath(n, o) == o \in Seq(1..n) /\ \A j, k \in 1..Len(o) : j < k => o[j] < o[k]

LEMMA PathTop ==
  ASSUME NEW n \in Nat, NEW o, OpenPath(n, o), o # <<>>
  PROVE  /\ Last(o) \in Range(o) /\ \A i \in Range(o) : i <= Last(o)
         /\ Range(o) \subseteq 1..n
         /\ OpenPath(n, Front(o)) /\ Range(Front(o)) = Range(o) \ {Last(o)}
         /\ Len(Front(o)) = Len(o) - 1
<1>1. o \in Seq(1..n)
  BY DEF OpenPath
<1>2. Len(o) \in Nat \ {0} /\ Last(o) = o[Len(o)] /\ Last(o) \in Range(o)
  BY <1>1, LastFacts
<1>3. DOMAIN o = 1..Len(o) /\ \A k \in 1..Len(o) : o[k] \in 1..n
  BY <1>1, LenProperties, ElementOfSeq
<1>4. \A i \in Range(o) : i \in 1..n /\ \E k \in 1..Len(o) : i = o[k]
  BY <1>3 DEF Range
<1>5. \A k \in 1..Len(o) : k # Len(o) => o[k] < Last(o)
  BY <1>2 DEF OpenPath
<1>6. \A i \in Range(o) : i <= Last(o)
  <2> TAKE i \in Range(o)
  <2>1. PICK k \in 1..Len(o) : i = o[k]
    BY <1>4
  <2>2. i \in 1..n /\ Last(o) \in 1..n
    BY <1>2, <1>4
  <2> HIDE DEF Last
  <2>3. k = Len(o) => i = Last(o)
    BY <1>2, <2>1
  <2>4. k # Len(o) => i < Last(o)
    BY <1>5, <2>1
  <2> QED BY <2>2, <2>3, <2>4
<1>7. /\ Front(o) \in Seq(1..n) /\ Len(Front(o)) = Len(o) - 1
      /\ \A k \in 1..(Len(o) - 1) : Front(o)[k] = o[k]
  BY <1>1, FrontTypes
<1>8. DOMAIN Front(o) = 1..(Len(o) - 1)
  BY <1>7, LenProperties
<1> HIDE DEF Front, Last
<1>9. OpenPath(n, Front(o))
  <2>1. \A j \in 1..(Len(o) - 1) : j \in 1..Len(o)
    BY <1>2
  <2>2. \A j, k \in 1..(Len(o) - 1) : j < k => Front(o)[j] < Front(o)[k]
    BY <1>7, <2>1 DEF OpenPath
  <2> QED BY <1>7, <2>2 DEF OpenPath
<1>10. Range(Front(o)) = {o[k] : k \in 1..(Len(o) - 1)}
  BY <1>7, <1>8 DEF Range
<1>11. Range(o) = {o[k] : k \in 1..Len(o)}
  BY <1>3 DEF Range
<1>12. \A k \in 1..(Len(o) - 1) : k \in 1..Len(o) /\ o[k] # Last(o)
  <2> TAKE k \in 1..(Len(o) - 1)
  <2>1. k \in 1..Len(o) /\ k # Len(o)
    BY <1>2
  <2>2. o[k] < Last(o)
    BY <2>1, <1>5
  <2>3. o[k] \in 1..n
    BY <2>1, <1>3
  <2>4. Last(o) \in 1..n
    BY <1>2, <1>4
  <2> QED BY <2>1, <2>2, <2>3, <2>4
<1>13. \A k \in 1..Len(o) : o[k] # Last(o) => k \in 1..(Len(o) - 1)
  BY <1>2
<1>14. Range(Front(o)) = Range(o) \ {Last(o)}
  BY <1>10, <1>11, <1>12, <1>13
<1> QED BY <1>2, <1>4, <1>6, <1>7, <1>9, <1>14

LEMMA PathInto ==
  ASSUME NEW n \in Nat, NEW o, OpenPath(n, o), NEW x \in 1..n, \A i \in Range(o) : i < x
  PROVE  OpenPath(n, Append(o, x)) /\ Range(Append(o, x)) = Range(o) \cup {x}
<1>1. o \in Seq(1..n) /\ Len(o) \in Nat
  BY LenProperties DEF OpenPath
<1>2. /\ Append(o, x) \in Seq(1..n) /\ Len(Append(o, x)) = Len(o) + 1
      /\ Append(o, x)[Len(o) + 1] = x
      /\ \A k \in 1..Len(o) : Append(o, x)[k] = o[k]
  BY <1>1, AppendFacts
<1>3. DOMAIN o = 1..Len(o) /\ DOMAIN Append(o, x) = 1..(Len(o) + 1)
  BY <1>1, <1>2, LenProperties
<1>4. \A k \in 1..Len(o) : o[k] < x
  BY <1>3 DEF Range
<1>5. ASSUME NEW j \in 1..(Len(o) + 1), NEW k \in 1..(Len(o) + 1), j < k
      PROVE  Append(o, x)[j] < Append(o, x)[k]
  <2>1. j \in 1..Len(o)
    BY <1>1, <1>5
  <2>2. CASE k = Len(o) + 1
    BY <2>1, <2>2, <1>2, <1>4
  <2>3. CASE k \in 1..Len(o)
    BY <2>1, <2>3, <1>2, <1>5 DEF OpenPath
  <2> QED BY <2>2, <2>3, <1>1
<1>6. Range(Append(o, x)) = {Append(o, x)[k] : k \in 1..(Len(o) + 1)}
  BY <1>3 DEF Range
<1>7. Range(o) = {o[k] : k \in 1..Len(o)}
  BY <1>3 DEF Range
<1>8. Range(Append(o, x)) = Range(o) \cup {x}
  <2>1. \A k \in 1..(Len(o) + 1) : k \in 1..Len(o) \/ k = Len(o) + 1
    BY <1>1
  <2>2. Len(o) + 1 \in 1..(Len(o) + 1) /\ \A k \in 1..Len(o) : k \in 1..(Len(o) + 1)
    BY <1>1
  <2> QED BY <1>2, <1>6, <1>7, <2>1, <2>2
<1> QED BY <1>2, <1>5, <1>8 DEF OpenPath

LEMMA EmptyPath == ASSUME NEW n \in Nat PROVE OpenPath(n, <<>>) /\ Range(<<>>) = {}
<1>1. <<>> \in Seq(1..n) /\ Len(<<>>) = 0
  OBVIOUS
<1> QED BY <1>1 DEF OpenPath, Range

\* The innermost node stands directly in the node it is opened from.
LEMMA AroundTop ==
  ASSUME NEW p, IsTree(p), NEW C, NEW x, Walk(p, C, x), NEW t \in C, \A i \in C : i <= t
  PROVE  Around(p, t) = C \ {t}
<1>1. t \in 1..Len(p) /\ C \subseteq 1..Len(p)
  BY DEF Walk
<1>2. Around(p, t) \subseteq C \ {t}
  BY <1>1 DEF Walk, Around, Inside, IsTree
<1>3. ASSUME NEW i \in C \ {t} PROVE i \in Around(p, t)
  BY <1>1 DEF Walk, Around, Inside, IsTree
<1> QED BY <1>2, <1>3

\* What stands beside the innermost node and is passed stands before it.
LEMMA PassedBefore ==
  ASSUME NEW p, IsTree(p), NEW C, NEW x, Walk(p, C, x), NEW t \in C,
         NEW b \in 0..Len(p), InBlock(p, b, t),
         NEW j \in 1..Len(p), InBlock(p, b, j), j < x
  PROVE  j <= t
<1> SUFFICES ASSUME t < j PROVE FALSE
  BY DEF Walk
<1>1. t \in 1..Len(p) /\ x \in Nat /\ x <= p[t].last + 1 /\ p[t].last \in Nat
  BY DEF Walk, IsTree
<1>2. Inside(p, t, j)
  BY <1>1 DEF Inside
<1>3. b # 0 /\ t <= b
  BY <1>1, <1>2 DEF InBlock
<1>4. b < t
  BY <1>1, <1>3 DEF InBlock, Inside
<1> QED BY <1>1, <1>3, <1>4

\* What a pass finds under the name of a call is what the rule says, but for
\* the two cases of CheckedIsLexical, and is in any case visible there.
Visible(d, x) == \E b \in BlocksOf(x) : d \in Shown(b, x, program[x].name)
FoundWell(found, x) ==
  /\ found = {} \/ \E d : found = {d}
  /\ \A d \in found : Visible(d, x)
  /\ \/ found = Meaning(x)
     \/ \E m \in Meaning(x), d \in found : Kind(m) = "let" /\ Generalised(d)
     \/ \E m \in Meaning(x) : Kind(m) = "gen" /\ x <= program[m].last

\* What a block shows is what inference has bound, but for generic functions.
LEMMA ShownBound ==
  ASSUME IsTree(program), NEW C, NEW x \in Nodes, Walk(program, C, x), Ready(program, C, x),
         NEW b \in BlocksOf(x), NEW n
  PROVE  /\ \A i \in Within(program, b, PolyBound(program, C, x)) :
              program[i].name = n => i \in Shown(b, x, n) /\ Generalised(i)
         /\ \A i \in Within(program, b, MonoBound(program, C, x)) :
              program[i].name = n => i \in Shown(b, x, n)
         /\ \A i \in Shown(b, x, n) :
              \/ i \in Within(program, b, PolyBound(program, C, x))
              \/ i \in Within(program, b, MonoBound(program, C, x)) /\ Kind(i) = "let"
              \/ Kind(i) = "gen" /\ x <= program[i].last
<1>1. \A i \in Nodes : (i < x /\ i \notin C) <=> program[i].last < x
  BY LeftInBlock DEF Nodes
<1>2. ASSUME NEW i \in Within(program, b, PolyBound(program, C, x)), program[i].name = n
      PROVE  i \in Shown(b, x, n) /\ Generalised(i)
  <2>1. i \in Nodes /\ InBlock(program, b, i)
    BY DEF Within, PolyBound, Nodes
  <2>2. Kind(i) = "fun" \/ (Kind(i) \in {"gen", "poly"} /\ i < x /\ i \notin C)
    BY DEF Within, PolyBound, Kind
  <2>3. Kind(i) \in Functions \/ (Kind(i) = "poly" /\ program[i].last < x)
    BY <1>1, <2>1, <2>2 DEF Functions
  <2> QED BY <1>2, <2>1, <2>3 DEF Shown, Generalised, Kind, Closures
<1>3. ASSUME NEW i \in Within(program, b, MonoBound(program, C, x)), program[i].name = n
      PROVE  i \in Shown(b, x, n)
  <2>1. i \in Nodes /\ InBlock(program, b, i)
    BY DEF Within, MonoBound, Nodes
  <2>2. Kind(i) = "fun" \/ (Kind(i) = "let" /\ i < x /\ i \notin C)
    BY DEF Within, MonoBound, Kind
  <2>3. Kind(i) \in Functions \/ (Kind(i) = "let" /\ program[i].last < x)
    BY <1>1, <2>1, <2>2 DEF Functions
  <2> QED BY <1>3, <2>1, <2>3 DEF Shown, Kind, Closures
<1>4. ASSUME NEW i \in Shown(b, x, n)
      PROVE  \/ i \in Within(program, b, PolyBound(program, C, x))
             \/ i \in Within(program, b, MonoBound(program, C, x)) /\ Kind(i) = "let"
             \/ Kind(i) = "gen" /\ x <= program[i].last
  <2>1. i \in Nodes /\ InBlock(program, b, i) /\ i \in 1..Len(program)
    BY DEF Shown, Nodes
  <2>2. Kind(i) \in Functions \/ (Kind(i) \in Closures /\ program[i].last < x)
    BY DEF Shown, Kind
  <2>3. program[i].last \in Nat /\ x \in Nat
    BY <2>1 DEF IsTree, Nodes
  <2>4. CASE Kind(i) = "fun"
    BY <2>1, <2>4 DEF Within, PolyBound, Kind
  <2>5. CASE Kind(i) = "gen" /\ program[i].last < x
    BY <1>1, <2>1, <2>5 DEF Within, PolyBound, Kind
  <2>6. CASE Kind(i) = "gen" /\ ~(program[i].last < x)
    BY <2>3, <2>6
  <2>7. CASE Kind(i) = "poly" /\ program[i].last < x
    BY <1>1, <2>1, <2>7 DEF Within, PolyBound, Kind
  <2>8. CASE Kind(i) = "let" /\ program[i].last < x
    BY <1>1, <2>1, <2>8 DEF Within, MonoBound, Kind
  <2> QED BY <2>2, <2>4, <2>5, <2>6, <2>7, <2>8 DEF Functions, Closures
<1> QED BY <1>2, <1>3, <1>4

\* What inference finds at a call.
LEMMA CallFinds ==
  ASSUME IsTree(program), NEW C, NEW x \in Nodes, Walk(program, C, x), Ready(program, C, x),
         NEW poly \in Seq(Bindings), NEW mono \in Seq(Bindings),
         Layered(program, poly, {0} \cup C, Nodes, PolyBound(program, C, x), Identity(program)),
         Layered(program, mono, {0} \cup C, Nodes, MonoBound(program, C, x), Identity(program))
  PROVE  FoundWell(infer_lookup(poly, mono, program[x].name), x)
<1> DEFINE n == program[x].name
           S == {0} \cup C
           PB == PolyBound(program, C, x)
           MB == MonoBound(program, C, x)
           found == infer_lookup(poly, mono, n)
<1>1. S = BlocksOf(x) /\ S \subseteq 0..Len(program) /\ Len(program) \in Nat
  <2>1. x \in 1..Len(program) /\ Len(program) \in Nat /\ C \subseteq 1..Len(program)
    BY DEF Nodes, Walk, IsTree
  <2>2. Around(program, x) = C
    BY <2>1, AroundNext
  <2>3. {0} \cup C \subseteq 0..Len(program)
    BY <2>1
  <2> QED BY <2>1, <2>2, <2>3 DEF BlocksOf
<1>2. \A b \in S : \A i \in Within(program, b, PB) :
        program[i].name = n => i \in Shown(b, x, n) /\ Generalised(i)
  BY <1>1, ShownBound
<1>3. \A b \in S : \A i \in Within(program, b, MB) : program[i].name = n => i \in Shown(b, x, n)
  BY <1>1, ShownBound
<1>4. \A b \in S : \A i \in Shown(b, x, n) :
        \/ i \in Within(program, b, PB)
        \/ i \in Within(program, b, MB) /\ Kind(i) = "let"
        \/ Kind(i) = "gen" /\ x <= program[i].last
  BY <1>1, ShownBound
<1>5. \A b : \A i \in Shown(b, x, n) : program[i].name = n /\ i \in Nat /\ i \in Nodes
  BY DEF Shown, Nodes
<1>6. \/ lookup(poly, n) = {} /\ NotDeclared(program, S, PB, n)
      \/ \E b \in S, d \in Nodes : lookup(poly, n) = {d} /\ LatestIn(program, S, PB, n, b, d)
  <2>1. \/ lookup(poly, n) = {} /\ NotDeclared(program, S, PB, n)
        \/ \E b \in S, v \in DOMAIN Identity(program) :
             lookup(poly, n) = {v} /\ LatestIn(program, S, PB, n, b, Identity(program)[v])
    <3> HIDE DEF n, S, PB
    <3> QED BY <1>1, LookupIn DEF S, PB
  <2>2. DOMAIN Identity(program) = Nodes /\ \A v \in Nodes : Identity(program)[v] = v
    BY DEF Identity, Nodes
  <2> HIDE DEF n, S, PB
  <2> QED BY <2>1, <2>2
<1>7. \/ lookup(mono, n) = {} /\ NotDeclared(program, S, MB, n)
      \/ \E b \in S, d \in Nodes : lookup(mono, n) = {d} /\ LatestIn(program, S, MB, n, b, d)
  <2>1. \/ lookup(mono, n) = {} /\ NotDeclared(program, S, MB, n)
        \/ \E b \in S, v \in DOMAIN Identity(program) :
             lookup(mono, n) = {v} /\ LatestIn(program, S, MB, n, b, Identity(program)[v])
    <3> HIDE DEF n, S, MB
    <3> QED BY <1>1, LookupIn DEF S, MB
  <2>2. DOMAIN Identity(program) = Nodes /\ \A v \in Nodes : Identity(program)[v] = v
    BY DEF Identity, Nodes
  <2> HIDE DEF n, S, MB
  <2> QED BY <2>1, <2>2
<1>8. found = IF lookup(poly, n) # {} THEN lookup(poly, n) ELSE lookup(mono, n)
  BY DEF infer_lookup
<1>9. \/ Meaning(x) = {} /\ NothingShown(x)
      \/ \E b, m : Meaning(x) = {m} /\ ShownBy(x, b, m)
  BY MeaningIs
<1>10. \A b \in S : b \in Nat
  BY <1>1
<1>11. \A d, b : b \in S /\ d \in Shown(b, x, n) => Visible(d, x)
  BY <1>1 DEF Visible
<1> SUFFICES FoundWell(found, x)
  OBVIOUS
<1> HIDE DEF n, S, PB, MB, found
<1>12. CASE NotDeclared(program, S, PB, n) /\ found = {} /\ NotDeclared(program, S, MB, n)
  <2>1. ASSUME NEW b, NEW m, Meaning(x) = {m}, ShownBy(x, b, m)
        PROVE  \E k \in Meaning(x) : Kind(k) = "gen" /\ x <= program[k].last
    <3>1. b \in S /\ m \in Shown(b, x, n)
      BY <1>1, <2>1 DEF ShownBy, n
    <3>2. program[m].name = n
      BY <1>5, <3>1
    <3> QED BY <1>4, <1>12, <2>1, <3>1, <3>2 DEF NotDeclared
  <2>2. found = Meaning(x) \/ \E k \in Meaning(x) : Kind(k) = "gen" /\ x <= program[k].last
    BY <1>9, <1>12, <2>1
  <2> QED BY <1>12, <2>2 DEF FoundWell
<1>13. ASSUME NEW b \in S, NEW d \in Nodes, NEW E, found = {d}, LatestIn(program, S, E, n, b, d),
              \/ E = PB
              \/ E = MB /\ NotDeclared(program, S, PB, n)
       PROVE  FoundWell(found, x)
  <2>1. d \in Shown(b, x, n) /\ d \in Nat
    BY <1>2, <1>3, <1>5, <1>13 DEF LatestIn
  <2>2. Visible(d, x)
    BY <1>11, <2>1
  <2>3. PICK c, m : Meaning(x) = {m} /\ ShownBy(x, c, m)
    <3>1. ~NothingShown(x)
      BY <1>1, <2>1 DEF NothingShown, n
    <3> QED BY <1>9, <3>1
  <2>4. /\ c \in S /\ m \in Shown(c, x, n) /\ program[m].name = n /\ m \in Nat
        /\ \A i \in Shown(c, x, n) : i <= m
        /\ \A a \in S : c < a => Shown(a, x, n) = {}
    <3>1. ShownBy(x, c, m)
      BY <2>3
    <3>2. c \in S /\ m \in Shown(c, x, n) /\ \A i \in Shown(c, x, n) : i <= m
      BY <1>1, <3>1 DEF ShownBy, n
    <3>3. \A a \in S : c < a => Shown(a, x, n) = {}
      BY <1>1, <3>1 DEF ShownBy, n
    <3> QED BY <1>5, <3>2, <3>3
  <2>5. b <= c
    BY <1>10, <2>1, <2>4
  <2>6. CASE m \in Within(program, c, E)
    <3>1. ~(b < c)
      BY <1>13, <2>4, <2>6 DEF LatestIn
    <3>2. b = c
      BY <1>10, <2>4, <2>5, <3>1
    <3>3. m <= d /\ d <= m
      BY <1>13, <2>1, <2>4, <2>6, <3>2 DEF LatestIn
    <3>4. found = Meaning(x)
      BY <1>13, <2>1, <2>3, <2>4, <3>3
    <3> QED BY <1>13, <2>2, <3>4 DEF FoundWell
  <2>7. CASE Kind(m) = "gen" /\ x <= program[m].last
    BY <1>13, <2>2, <2>3, <2>7 DEF FoundWell
  <2>8. CASE E = PB /\ Kind(m) = "let"
    <3>1. Generalised(d)
      BY <1>2, <1>13, <2>8 DEF LatestIn
    <3> QED BY <1>13, <2>2, <2>3, <2>8, <3>1 DEF FoundWell
  <2>9. CASE m \notin Within(program, c, E) /\ ~(Kind(m) = "gen" /\ x <= program[m].last)
    <3>1. \/ m \in Within(program, c, PB)
          \/ m \in Within(program, c, MB) /\ Kind(m) = "let"
      BY <1>4, <2>4, <2>9
    <3>2. E = MB => m \notin Within(program, c, PB)
      BY <1>13, <2>4, <2>9 DEF NotDeclared
    <3>3. E = PB /\ Kind(m) = "let"
      BY <1>13, <2>9, <3>1, <3>2
    <3> QED BY <2>8, <3>3
  <2> QED BY <2>6, <2>7, <2>9
<1> QED BY <1>6, <1>7, <1>8, <1>12, <1>13

\* The program does not change.
LEMMA ProgramStays ==
  ASSUME program' = program
  PROVE  /\ Nodes' = Nodes /\ Calls' = Calls /\ DistinctNames' = DistinctNames
         /\ \A d : Kind(d)' = Kind(d) /\ Generalised(d)' = Generalised(d)
         /\ \A x : BlocksOf(x)' = BlocksOf(x) /\ Meaning(x)' = Meaning(x)
         /\ \A b, x, n : Shown(b, x, n)' = Shown(b, x, n)
         /\ \A x : LaterFunction(x)' = LaterFunction(x)
         /\ \A d, x : Visible(d, x)' = Visible(d, x)
         /\ \A f, x : FoundWell(f, x)' = FoundWell(f, x)
<1>1. Nodes' = Nodes
  BY DEF Nodes
<1>2. Calls' = Calls
  BY <1>1 DEF Calls
<1>3. \A d : Kind(d)' = Kind(d)
  BY DEF Kind
<1>4. \A d : Generalised(d)' = Generalised(d)
  BY <1>3 DEF Generalised
<1>5. \A x : BlocksOf(x)' = BlocksOf(x)
  BY DEF BlocksOf
<1>6. \A b, x, n : Shown(b, x, n)' = Shown(b, x, n)
  BY <1>1 DEF Shown
<1>7. \A x : Meaning(x)' = Meaning(x)
  BY <1>1, <1>6 DEF Meaning
<1>8. \A d, x : Visible(d, x)' = Visible(d, x)
  BY <1>5, <1>6 DEF Visible
<1>9. \A f, x : FoundWell(f, x)' = FoundWell(f, x)
  BY <1>3, <1>4, <1>7, <1>8 DEF FoundWell
<1>10. \A x : LaterFunction(x)' = LaterFunction(x)
  BY <1>3, <1>7 DEF LaterFunction
<1>11. DistinctNames' = DistinctNames
  BY <1>1, <1>3 DEF DistinctNames
<1> QED BY <1>1, <1>2, <1>3, <1>4, <1>5, <1>6, <1>7, <1>8, <1>9, <1>10, <1>11

\* While inference walks, its scopes hold what it has bound.
Inferring ==
  /\ OpenPath(Len(program), open) /\ Walk(program, Range(open), pc)
  /\ poly_env \in Seq(Bindings) /\ mono_env \in Seq(Bindings)
  /\ Layered(program, poly_env, {0} \cup Range(open), 1..Len(program),
             PolyBound(program, Range(open), pc), Identity(program))
  /\ Layered(program, mono_env, {0} \cup Range(open), 1..Len(program),
             MonoBound(program, Range(open), pc), Identity(program))

\* Inference has left node i.
HasLeft(i) == phase # "infer" \/ (i < pc /\ i \notin Range(open))

\* Every generalised name has a scheme of that name.
Schemes ==
  /\ \A n \in DOMAIN scheme_env :
       scheme_env[n] \in Nodes /\ program[scheme_env[n]].name = n /\ Generalised(scheme_env[n])
  /\ \A i \in Nodes : Generalised(i) /\ HasLeft(i) => program[i].name \in DOMAIN scheme_env
  /\ \A i \in Nodes : Kind(i) = "poly" /\ HasLeft(i) => i \in quantified

\* Every call that inference has passed is well found; one for which nothing
\* is found stops it.
Inferred ==
  /\ DOMAIN inferred = Calls
  /\ \A q \in Calls : q < pc \/ phase # "infer" =>
       /\ FoundWell(inferred[q], q)
       /\ inferred[q] = {} => phase = "infer" /\ outcome = "T0003"

InferInv ==
  /\ IsProgram(program)
  /\ phase = "infer" => Inferring
  /\ Schemes /\ Inferred

LEMMA InferStarts == Init => InferInv
<1> SUFFICES ASSUME Init PROVE InferInv
  OBVIOUS
<1>1. IsProgram(program)
  BY ProgramsAssumption DEF Init
<1>2. IsTree(program) /\ Len(program) \in Nat
  BY <1>1, ProgramIsTree DEF IsTree
<1>3. OpenPath(Len(program), open) /\ Range(open) = {}
  BY <1>2, EmptyPath DEF Init
<1>4. Walk(program, Range(open), pc)
  BY <1>2, <1>3 DEF Init, Walk
<1>5. /\ hoist_fun_decls(0) \in Bindings
      /\ Holds(program, hoist_fun_decls(0),
               {i \in Nodes : InBlock(program, 0, i) /\ program[i].kind = "fun"}, Identity(program))
  <2>1. {"fun"} \subseteq Functions /\ 0 \in 0..Len(program)
    BY <1>2 DEF Functions
  <2>2. /\ FunctionsOf(0, {"fun"}) \in Bindings
        /\ Holds(program, FunctionsOf(0, {"fun"}),
                 {i \in Nodes : InBlock(program, 0, i) /\ program[i].kind \in {"fun"}},
                 [i \in Nodes |-> i])
    BY <1>1, <2>1, Hoisted
  <2>3. {i \in Nodes : InBlock(program, 0, i) /\ program[i].kind \in {"fun"}}
          = {i \in Nodes : InBlock(program, 0, i) /\ program[i].kind = "fun"}
    OBVIOUS
  <2> QED BY <2>2, <2>3 DEF hoist_fun_decls, Identity, Nodes
<1>6. ASSUME NEW B, Within(program, 0, B) = {i \in Nodes : InBlock(program, 0, i) /\ program[i].kind = "fun"}
      PROVE  Layered(program, <<hoist_fun_decls(0)>>, {0}, 1..Len(program), B, Identity(program))
  <2> DEFINE lev == [b \in {0} |-> 1]
             scs == <<hoist_fun_decls(0)>>
  <2>1. Len(scs) = 1 /\ DOMAIN scs = 1..1 /\ scs[1] = hoist_fun_decls(0) /\ lev[0] = 1
    OBVIOUS
  <2>2. Levels(program, {0}, 1..Len(program), 1, lev)
    BY DEF Levels
  <2> HIDE DEF lev, scs
  <2>3. Filled(program, scs, {0}, lev, B, Identity(program))
    <3>1. Holds(program, scs[lev[0]], Within(program, 0, B), Identity(program))
      BY <2>1, <1>5, <1>6
    <3>2. \A k \in DOMAIN scs : k = lev[0]
      BY <2>1
    <3> QED BY <3>1, <3>2 DEF Filled
  <2> QED BY <2>1, <2>2, <2>3 DEF Layered, scs
<1>7. /\ Within(program, 0, PolyBound(program, {}, 1))
           = {i \in Nodes : InBlock(program, 0, i) /\ program[i].kind = "fun"}
      /\ Within(program, 0, MonoBound(program, {}, 1))
           = {i \in Nodes : InBlock(program, 0, i) /\ program[i].kind = "fun"}
  BY DEF Within, PolyBound, MonoBound, Nodes
<1>8. Inferring
  <2>1. <<hoist_fun_decls(0)>> \in Seq(Bindings)
    BY <1>5
  <2>2. {0} \cup Range(open) = {0}
    BY <1>3
  <2> QED BY <1>3, <1>4, <1>6, <1>7, <2>1, <2>2 DEF Inferring, Init
<1>9. Schemes /\ Inferred
  <2>1. \A i \in Nodes : ~HasLeft(i)
    BY <1>2 DEF HasLeft, Init, Nodes
  <2>2. DOMAIN scheme_env = {}
    BY DEF Init, NoBindings
  <2>3. \A q \in Calls : ~(q < pc \/ phase # "infer")
    BY <1>2 DEF Init, Calls, Nodes
  <2>4. DOMAIN inferred = Calls
    BY DEF Init
  <2> QED BY <2>1, <2>2, <2>3, <2>4 DEF Schemes, Inferred
<1> QED BY <1>1, <1>8, <1>9 DEF InferInv

LEMMA NoBindingsHold ==
  /\ NoBindings \in Bindings /\ DOMAIN NoBindings = {}
  /\ \A p, g : Holds(p, NoBindings, {}, g)
<1>1. NoBindings \in [{} -> Nat] /\ {} \in SUBSET (Names \cup {"main"})
  BY DEF NoBindings
<1>2. NoBindings \in Bindings
  BY <1>1 DEF Bindings
<1>3. DOMAIN NoBindings = {}
  BY DEF NoBindings
<1> QED BY <1>2, <1>3 DEF Holds

\* The scopes of a declaration, or the scope of a block, are put on the others.
LEMMA ScopesPushed ==
  ASSUME NEW scs \in Seq(Bindings), NEW f \in Bindings
  PROVE  /\ LET new == scs \o <<>> \o <<f>>
            IN  /\ new \in Seq(Bindings) /\ Len(new) = Len(scs) + 1
                /\ \A k \in 1..Len(scs) : new[k] = scs[k]
                /\ new[Len(scs) + 1] = f
         /\ LET new == scs \o <<NoBindings>> \o <<f>>
            IN  /\ new \in Seq(Bindings) /\ Len(new) = Len(scs) + 2
                /\ \A k \in 1..Len(scs) : new[k] = scs[k]
                /\ new[Len(scs) + 1] = NoBindings /\ new[Len(scs) + 2] = f
<1>1. Len(scs) \in Nat /\ NoBindings \in Bindings
  BY LenProperties, NoBindingsHold
<1>2. scs \o <<>> = scs
  BY ConcatEmptySeq
<1>3. /\ scs \o <<f>> \in Seq(Bindings) /\ Len(scs \o <<f>>) = Len(scs) + 1
      /\ \A k \in 1..Len(scs) : (scs \o <<f>>)[k] = scs[k]
      /\ (scs \o <<f>>)[Len(scs) + 1] = f
  <2>1. scs \o <<f>> = Append(scs, f)
    BY AppendIsConcat
  <2> QED BY <2>1, AppendFacts
<1>4. PICK mid : mid = scs \o <<NoBindings>>
  OBVIOUS
<1>5. /\ mid \in Seq(Bindings) /\ Len(mid) = Len(scs) + 1
      /\ \A k \in 1..Len(scs) : mid[k] = scs[k]
      /\ mid[Len(scs) + 1] = NoBindings
  <2>1. mid = Append(scs, NoBindings)
    BY <1>1, <1>4, AppendIsConcat
  <2> QED BY <1>1, <2>1, AppendFacts
<1>6. /\ mid \o <<f>> \in Seq(Bindings) /\ Len(mid \o <<f>>) = Len(mid) + 1
      /\ \A k \in 1..Len(mid) : (mid \o <<f>>)[k] = mid[k]
      /\ (mid \o <<f>>)[Len(mid) + 1] = f
  <2>1. mid \o <<f>> = Append(mid, f)
    BY <1>5, AppendIsConcat
  <2> QED BY <1>5, <2>1, AppendFacts
<1> HIDE DEF NoBindings
<1>7. /\ Len(mid \o <<f>>) = Len(scs) + 2
      /\ \A k \in 1..Len(scs) : (mid \o <<f>>)[k] = scs[k]
      /\ (mid \o <<f>>)[Len(scs) + 1] = NoBindings /\ (mid \o <<f>>)[Len(scs) + 2] = f
  <2>1. Len(scs) + 1 \in 1..Len(mid) /\ \A k \in 1..Len(scs) : k \in 1..Len(mid)
    BY <1>1, <1>5
  <2>2. Len(mid) + 1 = Len(scs) + 2
    BY <1>1, <1>5
  <2> QED BY <1>5, <1>6, <2>1, <2>2
<1> QED BY <1>2, <1>3, <1>4, <1>6, <1>7

\* What is bound does not change when a node is entered, or a call is passed.
LEMMA BoundStays ==
  ASSUME NEW p, IsTree(p), NEW C, NEW x \in 1..Len(p)
  PROVE  /\ PolyBound(p, C \cup {x}, x + 1) = PolyBound(p, C, x)
         /\ MonoBound(p, C \cup {x}, x + 1) = MonoBound(p, C, x)
         /\ p[x].kind = "call" =>
              /\ PolyBound(p, C, x + 1) = PolyBound(p, C, x)
              /\ MonoBound(p, C, x + 1) = MonoBound(p, C, x)
<1>1. Len(p) \in Nat /\ \A i \in 1..Len(p) : (i < x + 1 /\ i # x) <=> i < x
  BY DEF IsTree
<1>2. PolyBound(p, C \cup {x}, x + 1) = PolyBound(p, C, x)
  BY <1>1 DEF PolyBound
<1>3. MonoBound(p, C \cup {x}, x + 1) = MonoBound(p, C, x)
  BY <1>1 DEF MonoBound
<1>4. p[x].kind = "call" => PolyBound(p, C, x + 1) = PolyBound(p, C, x)
  BY <1>1 DEF PolyBound
<1>5. p[x].kind = "call" => MonoBound(p, C, x + 1) = MonoBound(p, C, x)
  BY <1>1 DEF MonoBound
<1> QED BY <1>2, <1>3, <1>4, <1>5

\* Nothing of the next node is bound before it is entered.
LEMMA NothingWithin ==
  ASSUME NEW p, IsTree(p), NEW C, NEW x \in 1..Len(p)
  PROVE  /\ Within(p, x, PolyBound(p, C, x)) = {i \in 1..Len(p) : InBlock(p, x, i) /\ p[i].kind = "fun"}
         /\ Within(p, x, MonoBound(p, C, x)) = {i \in 1..Len(p) : InBlock(p, x, i) /\ p[i].kind = "fun"}
<1>1. \A i \in 1..Len(p) : InBlock(p, x, i) => ~(i < x)
  BY DEF IsTree, InBlock, Inside
<1>2. Within(p, x, PolyBound(p, C, x)) = {i \in 1..Len(p) : InBlock(p, x, i) /\ p[i].kind = "fun"}
  BY <1>1 DEF Within, PolyBound
<1>3. Within(p, x, MonoBound(p, C, x)) = {i \in 1..Len(p) : InBlock(p, x, i) /\ p[i].kind = "fun"}
  BY <1>1 DEF Within, MonoBound
<1> QED BY <1>2, <1>3

\* The next node of a walk that is not at the end of a node.
LEMMA AtNext ==
  ASSUME IsTree(program), NEW C, Walk(program, C, pc), Range(open) \subseteq C,
         open # <<>> => Last(open) \in C /\ \A i \in C : i <= Last(open),
         open = <<>> => C = {}, ~AtEnd
  PROVE  Ready(program, C, pc)
<1>1. CASE open = <<>>
  BY <1>1 DEF Ready
<1>2. CASE open # <<>>
  <2>1. PICK t \in C : t = Last(open)
    BY <1>2
  <2>2. t \in 1..Len(program) /\ pc \in Nat /\ program[t].last \in Nat
    BY DEF Walk, IsTree
  <2>3. ~(pc > program[t].last)
    BY <1>2, <2>1 DEF AtEnd, Innermost
  <2>4. pc <= program[t].last
    BY <2>2, <2>3
  <2> QED BY <1>2, <2>1, <2>4, ReadyFromTop
<1> QED BY <1>1, <1>2

\* Where the next step of inference stands.
LEMMA InferenceAt ==
  ASSUME InferInv, phase = "infer"
  PROVE  /\ IsTree(program) /\ Len(program) \in Nat /\ pc \in 1..(Len(program) + 1)
         /\ Range(open) \subseteq 1..Len(program) /\ {0} \cup Range(open) \subseteq 0..Len(program)
         /\ ~AtEnd /\ pc <= Len(program) =>
              /\ pc \in Nodes /\ pc \in 1..Len(program) /\ Ready(program, Range(open), pc)
              /\ \A i \in Range(open) : i < pc
<1>1. /\ OpenPath(Len(program), open) /\ Walk(program, Range(open), pc)
      /\ IsTree(program) /\ Len(program) \in Nat
  BY ProgramIsTree DEF InferInv, Inferring, IsTree
<1>2. /\ pc \in 1..(Len(program) + 1) /\ Range(open) \subseteq 1..Len(program)
      /\ \A i \in Range(open) : i < pc
  BY <1>1 DEF Walk
<1>3. open = <<>> => Range(open) = {}
  BY <1>1, EmptyPath
<1>4. open # <<>> => Last(open) \in Range(open) /\ \A i \in Range(open) : i <= Last(open)
  BY <1>1, PathTop
<1>5. ~AtEnd => Ready(program, Range(open), pc)
  BY <1>1, <1>3, <1>4, AtNext
<1>6. pc <= Len(program) => pc \in 1..Len(program)
  BY <1>1, <1>2
<1>7. {0} \cup Range(open) \subseteq 0..Len(program)
  BY <1>1, <1>2
<1> QED BY <1>1, <1>2, <1>5, <1>6, <1>7 DEF Nodes

LEMMA InferEnterStep == InferInv /\ InferEnter => InferInv'
<1> SUFFICES ASSUME InferInv, InferEnter PROVE InferInv'
  OBVIOUS
<1> DEFINE C == Range(open)
           x == pc
           hoisted == hoist_fun_decls(pc)
<1>1. /\ phase = "infer" /\ ~AtEnd /\ pc <= Len(program) /\ program[pc].kind # "call"
      /\ program' = program /\ phase' = phase /\ outcome' = outcome /\ inferred' = inferred
      /\ quantified' = quantified /\ scheme_env' = scheme_env
      /\ open' = Append(open, pc) /\ pc' = pc + 1
  BY DEF InferEnter, Infers, Current
<1>2. /\ IsTree(program) /\ Len(program) \in Nat /\ {0} \cup C \subseteq 0..Len(program)
      /\ pc \in Nodes /\ pc \in 1..Len(program) /\ Ready(program, C, pc)
      /\ \A i \in C : i < pc
  BY <1>1, InferenceAt
<1>3. Inferring /\ IsProgram(program)
  BY <1>1 DEF InferInv
<1>4. OpenPath(Len(program), open') /\ Range(open') = C \cup {pc}
  BY <1>1, <1>2, <1>3, PathInto DEF Inferring
<1>5. Walk(program, C \cup {pc}, pc + 1)
  BY <1>2, <1>3, WalkInto DEF Inferring
<1>6. /\ PolyBound(program, C \cup {pc}, pc + 1) = PolyBound(program, C, pc)
      /\ MonoBound(program, C \cup {pc}, pc + 1) = MonoBound(program, C, pc)
  BY <1>2, BoundStays
<1>7. /\ hoisted \in Bindings
      /\ Holds(program, hoisted, {i \in 1..Len(program) : InBlock(program, pc, i) /\ program[i].kind = "fun"},
               Identity(program))
  <2>1. {"fun"} \subseteq Functions /\ pc \in 0..Len(program)
    BY <1>2 DEF Functions
  <2>2. /\ FunctionsOf(pc, {"fun"}) \in Bindings
        /\ Holds(program, FunctionsOf(pc, {"fun"}),
                 {i \in Nodes : InBlock(program, pc, i) /\ program[i].kind \in {"fun"}},
                 [i \in Nodes |-> i])
    BY <1>3, <2>1, Hoisted
  <2>3. {i \in Nodes : InBlock(program, pc, i) /\ program[i].kind \in {"fun"}}
          = {i \in 1..Len(program) : InBlock(program, pc, i) /\ program[i].kind = "fun"}
    BY DEF Nodes
  <2> QED BY <2>2, <2>3 DEF hoist_fun_decls, Identity, Nodes
<1>8. ASSUME NEW scs \in Seq(Bindings), NEW new, NEW B,
             new = scs \o (IF program[pc].kind = "block" THEN <<>> ELSE <<NoBindings>>) \o <<hoisted>>,
             Within(program, pc, B)
               = {i \in 1..Len(program) : InBlock(program, pc, i) /\ program[i].kind = "fun"},
             Layered(program, scs, {0} \cup C, 1..Len(program), B, Identity(program))
      PROVE  /\ new \in Seq(Bindings)
             /\ Layered(program, new, {0} \cup (C \cup {pc}), 1..Len(program), B, Identity(program))
  <2> DEFINE m == Size(program, pc)
  <2>1. m \in 1..2 /\ (m = 2 <=> program[pc].kind # "block")
    BY DEF Size
  <2>2. /\ new \in Seq(Bindings) /\ Len(new) = Len(scs) + m
        /\ \A k \in 1..Len(scs) : new[k] = scs[k]
        /\ m = 2 => DOMAIN new[Len(scs) + 1] = {}
        /\ new[Len(scs) + m] = hoisted
    <3> HIDE DEF hoisted
    <3>1. CASE program[pc].kind = "block"
      <4>1. new = scs \o <<>> \o <<hoisted>> /\ m = 1
        BY <1>8, <3>1 DEF Size
      <4> QED BY <4>1, <1>7, ScopesPushed
    <3>2. CASE program[pc].kind # "block"
      <4>1. new = scs \o <<NoBindings>> \o <<hoisted>> /\ m = 2
        BY <1>8, <3>2 DEF Size
      <4> QED BY <4>1, <1>7, ScopesPushed, NoBindingsHold
    <3> QED BY <3>1, <3>2
  <2>3. \A b \in {0} \cup C : b < pc
    BY <1>2
  <2>4. Holds(program, new[Len(scs) + m], Within(program, pc, B), Identity(program))
    BY <1>7, <1>8, <2>2
  <2>5. PICK S : S = {0} \cup C
    OBVIOUS
  <2>6. Layered(program, new, S \cup {pc}, 1..Len(program), B, Identity(program))
    <3>1. /\ S \subseteq 0..Len(program) /\ \A b \in S : b < pc
          /\ Layered(program, scs, S, 1..Len(program), B, Identity(program))
      BY <1>2, <1>8, <2>3, <2>5
    <3>2. m = Size(program, pc)
      OBVIOUS
    <3> HIDE DEF m
    <3> QED BY <1>2, <2>1, <2>2, <2>4, <3>1, <3>2, LayeredPush
  <2>7. S \cup {pc} = {0} \cup (C \cup {pc})
    BY <2>5
  <2> QED BY <2>2, <2>6, <2>7
<1>9. /\ poly_env' \in Seq(Bindings)
      /\ Layered(program, poly_env', {0} \cup (C \cup {pc}), 1..Len(program),
                 PolyBound(program, C, pc), Identity(program))
  <2>1. poly_env' = poly_env \o (IF program[pc].kind = "block" THEN <<>> ELSE <<NoBindings>>) \o <<hoisted>>
    BY DEF InferEnter, Current
  <2>2. Within(program, pc, PolyBound(program, C, pc))
          = {i \in 1..Len(program) : InBlock(program, pc, i) /\ program[i].kind = "fun"}
    BY <1>2, NothingWithin
  <2> HIDE DEF C, hoisted
  <2> QED BY <1>3, <1>8, <2>1, <2>2 DEF Inferring, C
<1>10. /\ mono_env' \in Seq(Bindings)
       /\ Layered(program, mono_env', {0} \cup (C \cup {pc}), 1..Len(program),
                  MonoBound(program, C, pc), Identity(program))
  <2>1. mono_env' = mono_env \o (IF program[pc].kind = "block" THEN <<>> ELSE <<NoBindings>>) \o <<hoisted>>
    BY DEF InferEnter, Current
  <2>2. Within(program, pc, MonoBound(program, C, pc))
          = {i \in 1..Len(program) : InBlock(program, pc, i) /\ program[i].kind = "fun"}
    BY <1>2, NothingWithin
  <2> HIDE DEF C, hoisted
  <2> QED BY <1>3, <1>8, <2>1, <2>2 DEF Inferring, C
<1>11. Inferring'
  BY <1>1, <1>4, <1>5, <1>6, <1>9, <1>10 DEF Inferring
<1>12. \A i \in Nodes : HasLeft(i)' <=> HasLeft(i)
  BY <1>1, <1>2, <1>4 DEF HasLeft, Nodes
<1>13. Schemes'
  BY <1>1, <1>12, ProgramStays DEF InferInv, Schemes
<1>14. Inferred'
  <2>1. \A q \in Calls : q < pc + 1 => q < pc
    BY <1>1, <1>2 DEF Calls, Nodes
  <2> QED BY <1>1, <2>1, ProgramStays DEF InferInv, Inferred
<1> QED BY <1>1, <1>3, <1>11, <1>13, <1>14 DEF InferInv

LEMMA InferCallStep == InferInv /\ InferCall => InferInv'
<1> SUFFICES ASSUME InferInv, InferCall PROVE InferInv'
  OBVIOUS
<1> DEFINE C == Range(open)
           found == infer_lookup(poly_env, mono_env, Current.name)
<1>1. /\ phase = "infer" /\ outcome = "running" /\ ~AtEnd /\ pc <= Len(program)
      /\ program[pc].kind = "call"
      /\ program' = program /\ phase' = phase
      /\ quantified' = quantified /\ scheme_env' = scheme_env
      /\ poly_env' = poly_env /\ mono_env' = mono_env
      /\ open' = open /\ pc' = pc + 1
      /\ inferred' = [inferred EXCEPT ![pc] = found]
      /\ outcome' = IF found = {} THEN "T0003" ELSE outcome
  BY DEF InferCall, Infers, Current
<1>2. /\ IsTree(program) /\ Len(program) \in Nat
      /\ pc \in Nodes /\ pc \in 1..Len(program) /\ Ready(program, C, pc)
  BY <1>1, InferenceAt
<1>3. Inferring /\ IsProgram(program)
  BY <1>1 DEF InferInv
<1>4. program[pc].last = pc
  BY <1>1, <1>2, <1>3, ProgramIsTree DEF IsProgram
<1>5. Walk(program, C, pc + 1)
  BY <1>2, <1>3, <1>4, WalkPast DEF Inferring
<1>6. /\ PolyBound(program, C, pc + 1) = PolyBound(program, C, pc)
      /\ MonoBound(program, C, pc + 1) = MonoBound(program, C, pc)
  BY <1>1, <1>2, BoundStays
<1>7. Inferring'
  BY <1>1, <1>3, <1>5, <1>6 DEF Inferring
<1>8. \A i \in Nodes : Generalised(i) => (HasLeft(i)' <=> HasLeft(i))
  <2> SUFFICES ASSUME NEW i \in Nodes, Generalised(i) PROVE HasLeft(i)' <=> HasLeft(i)
    OBVIOUS
  <2>1. i # pc
    BY <1>1 DEF Generalised, Kind, Functions
  <2>2. i < pc + 1 <=> i < pc
    BY <1>2, <2>1 DEF Nodes
  <2> QED BY <1>1, <2>2 DEF HasLeft
<1>9. Schemes'
  <2>1. \A i \in Nodes : Kind(i) = "poly" => Generalised(i)
    BY DEF Generalised
  <2> QED BY <1>1, <1>8, <2>1, ProgramStays DEF InferInv, Schemes
<1>10. FoundWell(found, pc)
  <2>1. 1..Len(program) = Nodes
    BY DEF Nodes
  <2> HIDE DEF C
  <2> QED BY <1>2, <1>3, <2>1, CallFinds DEF Inferring, Current, C
<1>11. Inferred'
  <2> HIDE DEF found
  <2>1. Calls' = Calls /\ DOMAIN inferred = Calls /\ DOMAIN inferred' = Calls /\ pc \in Calls
    BY <1>1, <1>2, ProgramStays DEF InferInv, Inferred, Calls
  <2>2. ASSUME NEW q \in Calls, q < pc + 1
        PROVE  FoundWell(inferred'[q], q) /\ (inferred'[q] = {} => outcome' = "T0003")
    <3>1. CASE q = pc
      BY <3>1, <1>1, <1>10, <2>1
    <3>2. CASE q # pc
      <4>1. q < pc
        BY <1>2, <2>2, <3>2 DEF Calls, Nodes
      <4>2. inferred'[q] = inferred[q]
        BY <1>1, <2>1, <3>2
      <4>3. FoundWell(inferred[q], q) /\ inferred[q] # {}
        BY <1>1, <4>1 DEF InferInv, Inferred
      <4> QED BY <4>2, <4>3
    <3> QED BY <3>1, <3>2
  <2>3. \A q \in Calls : FoundWell(inferred[q], q)' <=> FoundWell(inferred'[q], q)
    BY <1>1, ProgramStays
  <2> QED BY <1>1, <2>1, <2>2, <2>3 DEF Inferred
<1> QED BY <1>1, <1>3, <1>7, <1>9, <1>11 DEF InferInv

\* What a block that is left adds to what is bound.
LEMMA BoundLeaves ==
  ASSUME NEW p, NEW C, NEW x, NEW t \in C, t \in 1..Len(p), t < x
  PROVE  /\ PolyBound(p, C \ {t}, x)
              = PolyBound(p, C, x) \cup (IF p[t].kind \in Functions \cup {"poly"} THEN {t} ELSE {})
         /\ MonoBound(p, C \ {t}, x) = MonoBound(p, C, x) \cup (IF p[t].kind = "let" THEN {t} ELSE {})
<1>1. PolyBound(p, C \ {t}, x)
        = PolyBound(p, C, x) \cup (IF p[t].kind \in Functions \cup {"poly"} THEN {t} ELSE {})
  BY DEF PolyBound, Functions
<1>2. MonoBound(p, C \ {t}, x) = MonoBound(p, C, x) \cup (IF p[t].kind = "let" THEN {t} ELSE {})
  BY DEF MonoBound
<1> QED BY <1>1, <1>2

\* The name of a declaration.
LEMMA NameOf ==
  ASSUME NEW p, IsProgram(p), NEW i \in 1..Len(p), p[i].kind \in Declarations
  PROVE  p[i].name \in Names \cup {"main"}
<1>1. DOMAIN p = 1..Len(p) /\ p[i] \in Node(Len(p))
  BY ProgramIsTree
<1>2. p[i].name # NoName
  BY <1>1 DEF IsProgram, Declarations, Functions, Closures
<1>3. p[i].name \in Names \cup {"main", NoName}
  BY <1>1 DEF Node
<1> QED BY <1>2, <1>3

\* What is left is the latest of its name in its block.
LEMMA LeftIsLatest ==
  ASSUME NEW p, IsProgram(p), NEW C, NEW x, Walk(p, C, x), NEW t \in C,
         NEW b \in 0..Len(p), InBlock(p, b, t), p[t].kind \in Declarations,
         NEW B, \A j \in B : /\ j \in 1..Len(p) /\ p[j].kind \in Declarations
                             /\ p[j].kind \in Functions \/ j < x
  PROVE  \A j \in Within(p, b, B) : p[j].name = p[t].name => j <= t
<1> SUFFICES ASSUME NEW j \in Within(p, b, B), p[j].name = p[t].name PROVE j <= t
  OBVIOUS
<1>1. j \in B /\ j \in 1..Len(p) /\ InBlock(p, b, j) /\ t \in 1..Len(p) /\ IsTree(p)
  BY ProgramIsTree DEF Within, Walk
<1>2. CASE p[j].kind \in Functions
  <2>1. j = t
    BY <1>1, <1>2, OneName
  <2> QED BY <1>1, <2>1 DEF IsTree
<1>3. CASE j < x
  BY <1>1, <1>3, PassedBefore
<1> QED BY <1>1, <1>2, <1>3

\* The innermost node is left: its scopes are closed, and it stands directly
\* in the one that is innermost then.
LEMMA LeaveScopes ==
  ASSUME NEW p, IsTree(p), NEW C, NEW x, Walk(p, C, x), NEW t \in C, \A i \in C : i <= t,
         NEW K, t \in K, NEW B, NEW g,
         NEW scs \in Seq(Bindings), Layered(p, scs, {0} \cup C, K, B, g)
  PROVE  /\ pop(scs, Size(p, t)) \in Seq(Bindings)
         /\ Layered(p, pop(scs, Size(p, t)), {0} \cup (C \ {t}), K, B, g)
<1>1. PICK S : S = {0} \cup C
  OBVIOUS
<1>2. /\ S \subseteq 0..Len(p) /\ Len(p) \in Nat /\ t \in S /\ t # 0 /\ 0 \in S
      /\ \A b \in S : b <= t
  BY <1>1 DEF Walk, IsTree
<1>3. /\ pop(scs, Size(p, t)) \in Seq(Bindings)
      /\ Layered(p, pop(scs, Size(p, t)), S \ {t}, K, B, g)
  BY <1>1, <1>2, LayeredPop
<1>4. S \ {t} = {0} \cup (C \ {t})
  BY <1>1, <1>2
<1> QED BY <1>3, <1>4

\* Of the nodes of S, b is the one in which t stands directly.
HoldsTop(p, S, t, b) ==
  b \in S /\ InBlock(p, b, t) /\ b \in 0..Len(p) /\ \A c \in S : c <= b

LEMMA BlockOfTop ==
  ASSUME NEW p, IsTree(p), NEW C, NEW x, Walk(p, C, x), NEW t \in C, \A i \in C : i <= t
  PROVE  \E b : HoldsTop(p, {0} \cup (C \ {t}), t, b)
<1>1. Around(p, t) = C \ {t}
  BY AroundTop
<1>2. /\ Len(p) \in Nat /\ t \in 1..Len(p)
      /\ {0} \cup (C \ {t}) \subseteq 0..Len(p) /\ {0} \cup (C \ {t}) # {}
  BY DEF Walk, IsTree
<1>3. PICK b \in {0} \cup (C \ {t}) : \A c \in {0} \cup (C \ {t}) : c <= b
  BY <1>2, TopOf
<1>4. InBlock(p, b, t)
  BY <1>1, <1>2, <1>3, BlockOfNext
<1> QED BY <1>2, <1>3, <1>4 DEF HoldsTop

LEMMA InferLeaveStep == InferInv /\ InferLeave => InferInv'
<1> SUFFICES ASSUME InferInv, InferLeave PROVE InferInv'
  OBVIOUS
<1>1. PICK t, C, x, name, outer_mono, outer_poly :
        /\ t = Innermost /\ C = Range(open) /\ x = pc /\ name = program[t].name
        /\ outer_mono = pop(mono_env, Size(program, t))
        /\ outer_poly = pop(poly_env, Size(program, t))
  OBVIOUS
<1>2. /\ phase = "infer" /\ AtEnd /\ outcome = "running"
      /\ program' = program /\ phase' = phase /\ inferred' = inferred /\ outcome' = outcome
      /\ open' = Front(open) /\ pc' = x
      /\ (quantified \subseteq quantified' /\ (Kind(t) = "poly" => t \in quantified'))
      /\ mono_env' = IF Kind(t) = "let" THEN bind(outer_mono, name, t) ELSE outer_mono
      /\ poly_env' = IF Generalised(t) THEN bind(outer_poly, name, t) ELSE outer_poly
      /\ scheme_env' = IF Generalised(t) THEN with_scheme(t) ELSE scheme_env
  BY <1>1 DEF InferLeave, Infers, ScopesOf, Size, WithVariables, Kind, Generalised
<1>3. IsProgram(program) /\ Inferring /\ IsTree(program) /\ Len(program) \in Nat
  BY <1>2, ProgramIsTree DEF InferInv, IsTree
<1>4. /\ OpenPath(Len(program), open) /\ Walk(program, C, x) /\ open # <<>>
      /\ poly_env \in Seq(Bindings) /\ mono_env \in Seq(Bindings)
      /\ Layered(program, poly_env, {0} \cup C, 1..Len(program), PolyBound(program, C, x), Identity(program))
      /\ Layered(program, mono_env, {0} \cup C, 1..Len(program), MonoBound(program, C, x), Identity(program))
  BY <1>1, <1>2, <1>3 DEF Inferring, AtEnd
<1>5. /\ t \in C /\ \A i \in C : i <= t
      /\ C \subseteq 1..Len(program)
      /\ OpenPath(Len(program), Front(open)) /\ Range(Front(open)) = C \ {t}
  BY <1>1, <1>3, <1>4, PathTop DEF Innermost
<1>6. program[t].last < x /\ t < x /\ t \in 1..Len(program) /\ t \in Nat /\ x \in Nat
  <2>1. t \in 1..Len(program) /\ t < x /\ x \in Nat /\ program[t].last \in Nat
    BY <1>3, <1>4, <1>5 DEF Walk, IsTree
  <2>2. x > program[t].last
    BY <1>1, <1>2 DEF AtEnd
  <2> QED BY <2>1, <2>2
<1>7. Walk(program, C \ {t}, x)
  BY <1>3, <1>4, <1>5, <1>6, WalkOut
<1>8. PICK b : HoldsTop(program, {0} \cup (C \ {t}), t, b)
  BY <1>3, <1>4, <1>5, BlockOfTop
<1>9. {0} \cup (C \ {t}) \subseteq 0..Len(program)
  BY <1>3, <1>5
<1>10. ASSUME NEW scs \in Seq(Bindings), NEW B,
              \A j \in B : /\ j \in 1..Len(program) /\ program[j].kind \in Declarations
                           /\ program[j].kind \in Functions \/ j < x,
              Layered(program, scs, {0} \cup (C \ {t}), 1..Len(program), B, Identity(program)),
              Kind(t) \in Declarations
       PROVE  /\ bind(scs, name, t) \in Seq(Bindings)
              /\ Layered(program, bind(scs, name, t), {0} \cup (C \ {t}), 1..Len(program), B \cup {t},
                         Identity(program))
  <2>1. \A j \in Within(program, b, B) : program[j].name = program[t].name => j <= t
    BY <1>3, <1>4, <1>5, <1>8, <1>10, LeftIsLatest DEF Kind, HoldsTop
  <2>2. /\ t \in DOMAIN Identity(program) /\ Identity(program)[t] = t
        /\ program[t].name \in Names \cup {"main"}
    BY <1>3, <1>6, <1>10, NameOf DEF Identity, Kind
  <2>3. PICK S : S = {0} \cup (C \ {t})
    OBVIOUS
  <2>4. PICK g : g = Identity(program)
    OBVIOUS
  <2>5. /\ S \subseteq 0..Len(program) /\ b \in S /\ \A c \in S : c <= b
        /\ Layered(program, scs, S, 1..Len(program), B, g)
        /\ t \in DOMAIN g /\ g[t] = t /\ InBlock(program, b, g[t]) /\ g[t] \in 1..Len(program)
        /\ program[g[t]].name \in Names \cup {"main"}
        /\ \A j \in Within(program, b, B) : program[j].name = program[g[t]].name => j <= g[t]
    BY <1>6, <1>8, <1>9, <1>10, <2>1, <2>2, <2>3, <2>4 DEF HoldsTop
  <2>6. /\ bind(scs, program[g[t]].name, t) \in Seq(Bindings)
        /\ Layered(program, bind(scs, program[g[t]].name, t), S, 1..Len(program), B \cup {g[t]}, g)
    BY <1>3, <1>6, <2>5, LayeredBind
  <2> QED BY <1>1, <2>3, <2>4, <2>5, <2>6
<1>11. /\ outer_poly \in Seq(Bindings) /\ outer_mono \in Seq(Bindings)
       /\ Layered(program, outer_poly, {0} \cup (C \ {t}), 1..Len(program), PolyBound(program, C, x),
                  Identity(program))
       /\ Layered(program, outer_mono, {0} \cup (C \ {t}), 1..Len(program), MonoBound(program, C, x),
                  Identity(program))
  <2>1. t \in 1..Len(program)
    BY <1>6
  <2> QED BY <1>1, <1>3, <1>4, <1>5, <2>1, LeaveScopes
<1>12. /\ PolyBound(program, C \ {t}, x) = PolyBound(program, C, x) \cup (IF Generalised(t) THEN {t} ELSE {})
       /\ MonoBound(program, C \ {t}, x) = MonoBound(program, C, x) \cup (IF Kind(t) = "let" THEN {t} ELSE {})
  BY <1>5, <1>6, BoundLeaves DEF Kind, Generalised
<1>13. /\ poly_env' \in Seq(Bindings)
       /\ Layered(program, poly_env', {0} \cup (C \ {t}), 1..Len(program), PolyBound(program, C \ {t}, x),
                  Identity(program))
  <2>1. CASE Generalised(t)
    <3>1. \A j \in PolyBound(program, C, x) :
            /\ j \in 1..Len(program) /\ program[j].kind \in Declarations
            /\ program[j].kind \in Functions \/ j < x
      BY DEF PolyBound, Declarations, Functions, Closures
    <3>2. Kind(t) \in Declarations
      BY <2>1 DEF Generalised, Declarations, Functions, Closures
    <3>3. poly_env' = bind(outer_poly, name, t)
      BY <1>2, <2>1
    <3>4. PolyBound(program, C \ {t}, x) = PolyBound(program, C, x) \cup {t}
      BY <1>12, <2>1
    <3> QED BY <1>10, <1>11, <3>1, <3>2, <3>3, <3>4
  <2>2. CASE ~Generalised(t)
    BY <1>2, <1>11, <1>12, <2>2
  <2> QED BY <2>1, <2>2
<1>14. /\ mono_env' \in Seq(Bindings)
       /\ Layered(program, mono_env', {0} \cup (C \ {t}), 1..Len(program), MonoBound(program, C \ {t}, x),
                  Identity(program))
  <2>1. CASE Kind(t) = "let"
    <3>1. \A j \in MonoBound(program, C, x) :
            /\ j \in 1..Len(program) /\ program[j].kind \in Declarations
            /\ program[j].kind \in Functions \/ j < x
      BY DEF MonoBound, Declarations, Functions, Closures
    <3>2. Kind(t) \in Declarations
      BY <2>1 DEF Declarations, Functions, Closures
    <3>3. mono_env' = bind(outer_mono, name, t)
      BY <1>2, <2>1
    <3>4. MonoBound(program, C \ {t}, x) = MonoBound(program, C, x) \cup {t}
      BY <1>12, <2>1
    <3> QED BY <1>10, <1>11, <3>1, <3>2, <3>3, <3>4
  <2>2. CASE Kind(t) # "let"
    BY <1>2, <1>11, <1>12, <2>2
  <2> QED BY <2>1, <2>2
<1>15. Range(open') = C \ {t} /\ OpenPath(Len(program), open')
  BY <1>2, <1>5
<1>16. Inferring'
  BY <1>2, <1>7, <1>13, <1>14, <1>15 DEF Inferring
<1>17. \A i \in Nodes : HasLeft(i)' => HasLeft(i) \/ i = t
  BY <1>1, <1>2, <1>15 DEF HasLeft
<1>18. Schemes'
  <2>1. Schemes
    BY DEF InferInv
  <2>2. \A n \in DOMAIN scheme_env' :
          /\ scheme_env'[n] \in Nodes /\ program[scheme_env'[n]].name = n
          /\ Generalised(scheme_env'[n])
    BY <1>2, <1>6, <2>1 DEF Schemes, with_scheme, Nodes
  <2>3. DOMAIN scheme_env \subseteq DOMAIN scheme_env'
    BY <1>2 DEF with_scheme
  <2>4. Generalised(t) => program[t].name \in DOMAIN scheme_env'
    BY <1>2 DEF with_scheme
  <2>5. \A i \in Nodes : Generalised(i) /\ HasLeft(i)' => program[i].name \in DOMAIN scheme_env'
    BY <1>17, <2>1, <2>3, <2>4 DEF Schemes
  <2>6. \A i \in Nodes : Kind(i) = "poly" /\ HasLeft(i)' => i \in quantified'
    BY <1>2, <1>17, <2>1 DEF Schemes
  <2> QED BY <1>2, <2>2, <2>5, <2>6, ProgramStays DEF Schemes
<1>19. Inferred'
  BY <1>1, <1>2, ProgramStays DEF InferInv, Inferred
<1> QED BY <1>2, <1>3, <1>16, <1>18, <1>19 DEF InferInv

LEMMA InferDoneStep == InferInv /\ InferDone => InferInv'
<1> SUFFICES ASSUME InferInv, InferDone PROVE InferInv'
  OBVIOUS
<1>1. /\ phase = "infer" /\ outcome = "running" /\ open = <<>> /\ pc = Len(program) + 1
      /\ phase' = "construct" /\ program' = program /\ inferred' = inferred
      /\ quantified' = quantified /\ scheme_env' = scheme_env
  BY DEF InferDone, Infers, infer_vars
<1>2. \A i \in Nodes : i < pc /\ i \notin Range(open)
  <2>1. Len(program) \in Nat
    BY <1>1, InferenceAt
  <2>2. Range(open) = {}
    BY <1>1, <2>1, EmptyPath
  <2> QED BY <1>1, <2>1, <2>2 DEF Nodes
<1>3. Schemes'
  <2>1. \A i \in Nodes : HasLeft(i)
    BY <1>2 DEF HasLeft
  <2> QED BY <1>1, <2>1, ProgramStays DEF InferInv, Schemes
<1>4. Inferred'
  <2>1. \A q \in Calls : q < pc
    BY <1>2 DEF Calls
  <2> QED BY <1>1, <2>1, ProgramStays DEF InferInv, Inferred
<1> QED BY <1>1, <1>3, <1>4 DEF InferInv

\* What inference found stays once it is over.
LEMMA AfterInference ==
  ASSUME InferInv, phase # "infer", phase' # "infer", UNCHANGED <<program, infer_vars>>
  PROVE  InferInv'
<1>1. UNCHANGED <<program, inferred, quantified, scheme_env>>
  BY DEF infer_vars
<1>2. Schemes'
  BY <1>1, ProgramStays DEF InferInv, Schemes, HasLeft
<1>3. Inferred'
  BY <1>1, ProgramStays DEF InferInv, Inferred
<1> QED BY <1>1, <1>2, <1>3 DEF InferInv

LEMMA InferenceKept == InferInv /\ [Next]_vars => InferInv'
<1> SUFFICES ASSUME InferInv, [Next]_vars PROVE InferInv'
  OBVIOUS
<1>1. ASSUME phase # "infer", phase' # "infer", UNCHANGED <<program, infer_vars>>
      PROVE  InferInv'
  BY <1>1, AfterInference
<1>2. ASSUME UNCHANGED vars PROVE InferInv'
  <2>1. UNCHANGED <<program, phase, pc, open, poly_env, mono_env, inferred, quantified, scheme_env, outcome>>
    BY <1>2 DEF vars
  <2>2. Inferring => Inferring'
    BY <2>1 DEF Inferring
  <2>3. Schemes'
    BY <2>1, ProgramStays DEF InferInv, Schemes, HasLeft
  <2>4. Inferred'
    BY <2>1, ProgramStays DEF InferInv, Inferred
  <2> QED BY <2>1, <2>2, <2>3, <2>4 DEF InferInv
<1>3. CASE InferEnter
  BY <1>3, InferEnterStep
<1>4. CASE InferCall
  BY <1>4, InferCallStep
<1>5. CASE InferLeave
  BY <1>5, InferLeaveStep
<1>6. CASE InferDone
  BY <1>6, InferDoneStep
<1>7. CASE ConstructGeneric \/ ConstructEnter \/ ConstructCall \/ ConstructLeave
  BY <1>1, <1>7 DEF ConstructGeneric, ConstructEnter, ConstructCall, ConstructLeave, Constructs
<1>8. CASE RunMain
  BY <1>1, <1>8 DEF RunMain, Constructs
<1>9. CASE EvalBlock \/ EvalFun \/ EvalLet \/ EvalCall \/ EvalCallFails
  BY <1>1, <1>9 DEF EvalBlock, EvalFun, EvalLet, EvalCall, EvalCallFails, Evaluates
<1>10. CASE LeaveBlock \/ Return \/ MainReturns
  BY <1>1, <1>10 DEF LeaveBlock, Return, MainReturns, Evaluates
<1> QED BY <1>2, <1>3, <1>4, <1>5, <1>6, <1>7, <1>8, <1>9, <1>10 DEF Next

\* Of every set of programs, inference checks each call against the
\* declaration the rule of the language gives it, but for its two cases.
THEOREM InferenceIsLexical == Spec => []CheckedIsLexical
<1>1. InferInv => CheckedIsLexical
  <2> SUFFICES ASSUME InferInv, NEW q \in Calls, q < pc \/ phase # "infer"
               PROVE  \/ inferred[q] = Meaning(q)
                      \/ \E m \in Meaning(q), d \in inferred[q] : Kind(m) = "let" /\ Generalised(d)
                      \/ \E m \in Meaning(q) : Kind(m) = "gen" /\ q <= program[m].last
    BY DEF CheckedIsLexical
  <2> QED BY DEF InferInv, Inferred, FoundWell
<1> QED BY <1>1, InferStarts, InferenceKept, PTL DEF Spec

------------------------------------------------------------------------------
(***************************************************************************)
(* Construction.                                                           *)
(***************************************************************************)
\* The closures that construction has left or passed over.
ClosuresLeft(p, C, x) == {i \in 1..Len(p) : p[i].kind \in Closures /\ i < x /\ i \notin C}

\* The scopes are those of the nodes of S, and the name of each declaration
\* of B is in the scope of its block, unless it is known anyway.
Named(p, scs, S, K, B, known) ==
  \E lev : /\ Levels(p, S, K, Len(scs), lev)
           /\ \A b \in S : \A i \in Within(p, b, B) : p[i].name \in DOMAIN scs[lev[b]] \cup known

\* The names of a scope are those of the declarations they stand for.
OwnNames(p, f) ==
  \A n \in DOMAIN f :
    f[n] \in 1..Len(p) /\ p[f[n]].name = n /\ p[f[n]].kind \in Declarations

LEMMA NamedPush ==
  ASSUME NEW p, NEW N \in Nat, NEW S, S \subseteq 0..N, NEW K, NEW B, NEW known,
         NEW scs \in Seq(Bindings), Named(p, scs, S, K, B, known),
         NEW x \in 1..N, \A b \in S : b < x, Within(p, x, B) = {},
         NEW new \in Seq(Bindings), Len(new) = Len(scs) + Size(p, x),
         \A k \in 1..Len(scs) : new[k] = scs[k]
  PROVE  Named(p, new, S \cup {x}, K, B, known)
<1>1. PICK lev : /\ Levels(p, S, K, Len(scs), lev)
                 /\ \A b \in S : \A i \in Within(p, b, B) : p[i].name \in DOMAIN scs[lev[b]] \cup known
  BY DEF Named
<1> DEFINE m == Size(p, x)
           up == PushedLevels(S, x, Len(scs) + m, lev)
<1>2. m \in 1..2 /\ Len(scs) \in Nat
  BY LenProperties DEF Size
<1>3. Levels(p, S \cup {x}, K, Len(scs) + m, up)
  <2>1. x \in K => m = Size(p, x)
    OBVIOUS
  <2> HIDE DEF m
  <2> QED BY <1>1, <1>2, <2>1, LevelsPush
<1>4. \A b \in S : b # x
  OBVIOUS
<1>5. \A b \in S : up[b] = lev[b] /\ lev[b] \in 1..Len(scs)
  BY <1>1, <1>4 DEF Levels, PushedLevels
<1> HIDE DEF up
<1>6. ASSUME NEW b \in S \cup {x}, NEW i \in Within(p, b, B)
      PROVE  p[i].name \in DOMAIN new[up[b]] \cup known
  <2>1. b \in S
    BY <1>6
  <2> QED BY <2>1, <1>1, <1>5, <1>6
<1> QED BY <1>3, <1>6 DEF Named

\* What is left of the scopes when some are closed.
OuterOf(scs, outer) ==
  /\ outer \in Seq(Bindings) /\ Len(outer) <= Len(scs)
  /\ \A k \in 1..Len(outer) : outer[k] = scs[k]

LEMMA NamedPop ==
  ASSUME NEW p, NEW N \in Nat, NEW S, S \subseteq 0..N, NEW K, NEW B, NEW known,
         NEW scs \in Seq(Bindings), Named(p, scs, S, K, B, known),
         NEW t \in S, \A b \in S : b <= t, t \in K, t # 0, 0 \in S
  PROVE  /\ OuterOf(scs, pop(scs, Size(p, t)))
         /\ Named(p, pop(scs, Size(p, t)), S \ {t}, K, B, known)
<1>1. PICK lev : /\ Levels(p, S, K, Len(scs), lev)
                 /\ \A b \in S : \A i \in Within(p, b, B) : p[i].name \in DOMAIN scs[lev[b]] \cup known
  BY DEF Named
<1> DEFINE down == PoppedLevels(S, t, lev)
           n == Len(scs) - Size(p, t)
           outer == pop(scs, Size(p, t))
<1>2. Len(scs) \in Nat
  BY LenProperties
<1>3. Size(p, t) <= Len(scs) /\ Levels(p, S \ {t}, K, n, down)
  BY <1>1, <1>2, LevelsPop
<1>4. n \in 0..Len(scs) /\ n \in Nat /\ n <= Len(scs)
  BY <1>2, <1>3 DEF Size
<1>5. outer \in Seq(Bindings) /\ Len(outer) = n /\ \A k \in 1..n : outer[k] = scs[k]
  <2>1. /\ SubSeq(scs, 1, n) \in Seq(Bindings) /\ Len(SubSeq(scs, 1, n)) = n
        /\ \A k \in 1..n : SubSeq(scs, 1, n)[k] = scs[k]
    BY <1>4, PrefixTypes
  <2> QED BY <2>1 DEF pop
<1>6. \A b \in S \ {t} : down[b] = lev[b] /\ down[b] \in 1..n
  BY <1>3 DEF PoppedLevels, Levels
<1> HIDE DEF down, outer, n
<1>7. \A b \in S \ {t} : \A i \in Within(p, b, B) : p[i].name \in DOMAIN outer[down[b]] \cup known
  BY <1>1, <1>5, <1>6
<1>8. Named(p, outer, S \ {t}, K, B, known)
  BY <1>3, <1>5, <1>7 DEF Named, n
<1> QED BY <1>4, <1>5, <1>8 DEF outer, OuterOf

\* new is scs, with v under n in its innermost scope.
BoundIn(scs, n, v, new) ==
  /\ new \in Seq(Bindings) /\ Len(new) = Len(scs)
  /\ \A k \in 1..Len(scs) : k # Len(scs) => new[k] = scs[k]
  /\ DOMAIN new[Len(scs)] = DOMAIN scs[Len(scs)] \cup {n}
  /\ new[Len(scs)][n] = v
  /\ \A j \in DOMAIN scs[Len(scs)] : j # n => new[Len(scs)][j] = scs[Len(scs)][j]

LEMMA BindFacts ==
  ASSUME NEW scs \in Seq(Bindings), Len(scs) >= 1, NEW n \in Names \cup {"main"}, NEW v \in Nat
  PROVE  BoundIn(scs, n, v, bind(scs, n, v))
<1> DEFINE top == scs[Len(scs)]
           f == [j \in DOMAIN top \cup {n} |-> IF j = n THEN v ELSE top[j]]
           new == bind(scs, n, v)
<1>1. Len(scs) \in Nat /\ Len(scs) \in 1..Len(scs)
  BY LenProperties
<1>2. top \in Bindings
  BY <1>1, ElementOfSeq
<1>3. PICK T \in SUBSET (Names \cup {"main"}) : top \in [T -> Nat]
  BY <1>2 DEF Bindings
<1>4. DOMAIN top = T /\ \A j \in T : top[j] \in Nat
  BY <1>3
<1> HIDE DEF top
<1>5. f \in [T \cup {n} -> Nat] /\ T \cup {n} \in SUBSET (Names \cup {"main"})
  BY <1>4
<1>6. DOMAIN f = DOMAIN top \cup {n} /\ f[n] = v /\ \A j \in DOMAIN top : j # n => f[j] = top[j]
  OBVIOUS
<1>7. new = [scs EXCEPT ![Len(scs)] = f]
  BY DEF bind, top
<1> HIDE DEF f, new
<1>8. f \in Bindings
  BY <1>5 DEF Bindings
<1>9. /\ new \in Seq(Bindings) /\ Len(new) = Len(scs)
      /\ \A k \in 1..Len(scs) : new[k] = IF k = Len(scs) THEN f ELSE scs[k]
  BY <1>1, <1>7, <1>8, ExceptSeq
<1>10. new[Len(scs)] = f /\ \A k \in 1..Len(scs) : k # Len(scs) => new[k] = scs[k]
  BY <1>1, <1>9
<1> QED BY <1>6, <1>9, <1>10 DEF new, top, BoundIn

LEMMA NamedBind ==
  ASSUME NEW p, IsTree(p), NEW S, S \subseteq 0..Len(p), NEW K, NEW B, NEW known,
         NEW scs \in Seq(Bindings), Named(p, scs, S, K, B, known),
         NEW b \in S, \A c \in S : c <= b,
         NEW t \in 1..Len(p), InBlock(p, b, t), p[t].name \in Names \cup {"main"}
  PROVE  Len(scs) >= 1 /\ Named(p, bind(scs, p[t].name, t), S, K, B \cup {t}, known)
<1>1. PICK lev : /\ Levels(p, S, K, Len(scs), lev)
                 /\ \A c \in S : \A i \in Within(p, c, B) : p[i].name \in DOMAIN scs[lev[c]] \cup known
  BY DEF Named
<1>2. /\ lev \in [S -> 1..Len(scs)] /\ lev[b] = Len(scs) /\ Len(scs) \in Nat
      /\ Len(scs) >= 1 /\ \A c \in S : lev[c] \in 1..Len(scs)
  BY <1>1, LenProperties DEF Levels
<1>3. PICK new : new = bind(scs, p[t].name, t)
  OBVIOUS
<1>4. /\ Len(new) = Len(scs)
      /\ \A k \in 1..Len(scs) : k # Len(scs) => new[k] = scs[k]
      /\ DOMAIN new[Len(scs)] = DOMAIN scs[Len(scs)] \cup {p[t].name}
  <2>1. t \in Nat
    BY DEF IsTree
  <2>2. BoundIn(scs, p[t].name, t, new)
    BY <1>2, <1>3, <2>1, BindFacts
  <2> QED BY <2>2 DEF BoundIn
<1>5. \A k \in 1..Len(scs) : DOMAIN scs[k] \subseteq DOMAIN new[k]
  BY <1>4
<1>6. ASSUME NEW c \in S, NEW i \in Within(p, c, B \cup {t})
      PROVE  p[i].name \in DOMAIN new[lev[c]] \cup known
  <2>1. CASE i = t
    <3>1. c = b
      BY <1>6, <2>1, OneBlock DEF Within
    <3> QED BY <1>2, <1>4, <2>1, <3>1
  <2>2. CASE i # t
    <3>1. i \in Within(p, c, B)
      BY <1>6, <2>2 DEF Within
    <3> QED BY <1>1, <1>2, <1>5, <3>1
  <2> QED BY <2>1, <2>2
<1>7. Named(p, new, S, K, B \cup {t}, known)
  BY <1>1, <1>4, <1>6 DEF Named
<1> QED BY <1>2, <1>3, <1>7

\* While construction walks, every closure it has passed is bound in the
\* scope of its block, or its name has a scheme.
Constructing ==
  /\ OpenPath(Len(program), open) /\ Walk(program, Range(open), pc)
  /\ env \in Seq(Bindings)
  /\ \A k \in 1..Len(env) : OwnNames(program, env[k])
  /\ Named(program, env, {0} \cup Range(open), 1..Len(program),
           ClosuresLeft(program, Range(open), pc), DOMAIN scheme_env)
  /\ outcome # "T0003"

\* What construction finds has the name of the call.
Constructed ==
  /\ DOMAIN constructed = Calls
  /\ \A q \in Calls : \A d \in constructed[q] :
       d \in Nodes /\ program[d].name = program[q].name /\ Kind(d) \in Declarations

ConstructInv ==
  /\ phase = "construct" => Constructing
  /\ Constructed
  /\ outcome = "T0002" => ~DistinctNames

\* What stands beside or in front of the next node is bound as it was.
LEMMA ClosuresStay ==
  ASSUME NEW p, IsTree(p), NEW C, NEW x \in 1..Len(p)
  PROVE  /\ ClosuresLeft(p, C \cup {x}, x + 1) = ClosuresLeft(p, C, x)
         /\ Within(p, x, ClosuresLeft(p, C, x)) = {}
         /\ p[x].kind = "call" => ClosuresLeft(p, C, x + 1) = ClosuresLeft(p, C, x)
<1>1. Len(p) \in Nat /\ \A i \in 1..Len(p) : (i < x + 1 /\ i # x) <=> i < x
  BY DEF IsTree
<1>2. ClosuresLeft(p, C \cup {x}, x + 1) = ClosuresLeft(p, C, x)
  BY <1>1 DEF ClosuresLeft
<1>3. \A i \in 1..Len(p) : InBlock(p, x, i) => ~(i < x)
  BY DEF IsTree, InBlock, Inside
<1>4. Within(p, x, ClosuresLeft(p, C, x)) = {}
  BY <1>3 DEF Within, ClosuresLeft
<1>5. p[x].kind = "call" => ClosuresLeft(p, C, x + 1) = ClosuresLeft(p, C, x)
  BY <1>1 DEF ClosuresLeft, Closures
<1> QED BY <1>2, <1>4, <1>5

\* Where the next step of construction stands.
LEMMA ConstructionAt ==
  ASSUME IsProgram(program), Constructing
  PROVE  /\ IsTree(program) /\ Len(program) \in Nat /\ pc \in 1..(Len(program) + 1)
         /\ Range(open) \subseteq 1..Len(program) /\ {0} \cup Range(open) \subseteq 0..Len(program)
         /\ ~AtEnd /\ pc <= Len(program) =>
              /\ pc \in Nodes /\ pc \in 1..Len(program) /\ Ready(program, Range(open), pc)
              /\ \A i \in Range(open) : i < pc
              /\ BlocksOf(pc) = {0} \cup Range(open)
<1>1. /\ OpenPath(Len(program), open) /\ Walk(program, Range(open), pc)
      /\ IsTree(program) /\ Len(program) \in Nat
  BY ProgramIsTree DEF Constructing, IsTree
<1>2. /\ pc \in 1..(Len(program) + 1) /\ Range(open) \subseteq 1..Len(program)
      /\ \A i \in Range(open) : i < pc
  BY <1>1 DEF Walk
<1>3. open = <<>> => Range(open) = {}
  BY <1>1, EmptyPath
<1>4. open # <<>> => Last(open) \in Range(open) /\ \A i \in Range(open) : i <= Last(open)
  BY <1>1, PathTop
<1>5. ~AtEnd => Ready(program, Range(open), pc)
  BY <1>1, <1>3, <1>4, AtNext
<1>6. pc <= Len(program) => pc \in 1..Len(program)
  BY <1>1, <1>2
<1>7. {0} \cup Range(open) \subseteq 0..Len(program)
  BY <1>1, <1>2
<1>8. ~AtEnd /\ pc <= Len(program) => BlocksOf(pc) = {0} \cup Range(open)
  BY <1>1, <1>5, <1>6, AroundNext DEF BlocksOf
<1> QED BY <1>1, <1>2, <1>5, <1>6, <1>7, <1>8 DEF Nodes

\* A scheme has the name under which it is found.
LEMMA SchemeNames ==
  ASSUME InferInv, NEW n \in DOMAIN scheme_env
  PROVE  /\ scheme_env[n] \in Nodes /\ program[scheme_env[n]].name = n
         /\ Kind(scheme_env[n]) \in Declarations /\ n \in Names \cup {"main"}
<1>1. /\ scheme_env[n] \in 1..Len(program) /\ program[scheme_env[n]].name = n
      /\ Generalised(scheme_env[n]) /\ IsProgram(program)
  BY DEF InferInv, Schemes, Nodes
<1>2. Kind(scheme_env[n]) \in Declarations
  BY <1>1 DEF Generalised, Declarations, Functions, Closures
<1>3. n \in Names \cup {"main"}
  BY <1>1, <1>2, NameOf DEF Kind
<1> QED BY <1>1, <1>2, <1>3 DEF Nodes

\* The root scope of construction.
LEMMA ConstructStarts ==
  InferInv /\ InferDone => Constructing'
<1> SUFFICES ASSUME InferInv, InferDone PROVE Constructing'
  OBVIOUS
<1> DEFINE bound == {m \in DOMAIN scheme_env : scheme_env[m] \notin quantified}
           root == [n \in bound |-> scheme_env[n]]
<1>1. /\ outcome = "running" /\ open = <<>> /\ program' = program /\ open' = open
      /\ pc' = 1 /\ env' = <<root>> /\ outcome' = outcome /\ scheme_env' = scheme_env
      /\ phase = "infer"
  BY DEF InferDone, Infers, infer_vars
<1>2. IsTree(program) /\ Len(program) \in Nat
  BY <1>1, InferenceAt
<1>3. OpenPath(Len(program), open) /\ Range(open) = {}
  BY <1>1, <1>2, EmptyPath
<1>4. Walk(program, {}, 1)
  BY <1>2 DEF Walk
<1>5. root \in Bindings
  <2>1. bound \in SUBSET (Names \cup {"main"})
    BY SchemeNames
  <2>2. \A n \in bound : scheme_env[n] \in Nat
    BY SchemeNames DEF Nodes
  <2> HIDE DEF bound
  <2>3. root \in [bound -> Nat]
    BY <2>2
  <2> HIDE DEF root
  <2> QED BY <2>1, <2>3 DEF Bindings
<1>6. OwnNames(program, root)
  <2>1. \A n \in bound : /\ scheme_env[n] \in 1..Len(program) /\ program[scheme_env[n]].name = n
                         /\ program[scheme_env[n]].kind \in Declarations
    BY SchemeNames DEF Nodes, Kind
  <2> HIDE DEF bound
  <2> QED BY <2>1 DEF OwnNames
<1> HIDE DEF root
<1>7. PICK scs : scs = <<root>>
  OBVIOUS
<1>8. scs \in Seq(Bindings) /\ Len(scs) = 1 /\ scs[1] = root
  BY <1>5, <1>7
<1>9. Named(program, scs, {0}, 1..Len(program), {}, DOMAIN scheme_env)
  <2> DEFINE lev == [b \in {0} |-> 1]
  <2>1. Levels(program, {0}, 1..Len(program), Len(scs), lev)
    BY <1>8 DEF Levels
  <2>2. \A b \in {0} : Within(program, b, {}) = {}
    BY DEF Within
  <2> HIDE DEF lev
  <2> QED BY <2>1, <2>2 DEF Named
<1>10. ClosuresLeft(program, {}, 1) = {}
  BY <1>2 DEF ClosuresLeft
<1>11. {0} \cup Range(open) = {0}
  BY <1>3
<1>12. \A k \in 1..Len(scs) : OwnNames(program, scs[k])
  BY <1>6, <1>8
<1> QED BY <1>1, <1>3, <1>4, <1>7, <1>8, <1>9, <1>10, <1>11, <1>12 DEF Constructing

LEMMA ConstructGenericStep ==
  InferInv /\ ConstructInv /\ ConstructGeneric => Constructing'
<1> SUFFICES ASSUME InferInv, ConstructInv, ConstructGeneric PROVE Constructing'
  OBVIOUS
<1> DEFINE C == Range(open)
           p == program
           L == ClosuresLeft(program, C, pc)
           M == ClosuresLeft(program, C, program[pc].last + 1)
<1>1. /\ phase = "construct" /\ outcome = "running" /\ ~AtEnd /\ pc <= Len(program) /\ LeftGeneric(pc)
      /\ program' = program /\ open' = open /\ env' = env /\ scheme_env' = scheme_env
      /\ outcome' = outcome /\ pc' = program[pc].last + 1
  BY DEF ConstructGeneric, Constructs, Current, infer_vars, construct_vars
<1>2. Constructing /\ IsProgram(program)
  BY <1>1 DEF ConstructInv, InferInv
<1>3. /\ IsTree(program) /\ Len(program) \in Nat /\ {0} \cup C \subseteq 0..Len(program)
      /\ pc \in 1..Len(program) /\ Ready(program, C, pc)
      /\ \A i \in C : i < pc
  BY <1>1, <1>2, ConstructionAt
<1>4. Walk(program, C, program[pc].last + 1)
  BY <1>2, <1>3, WalkPast DEF Constructing
<1>5. ASSUME NEW b \in {0} \cup C, NEW i \in Within(program, b, M)
      PROVE  i \in Within(program, b, L) \/ i = pc
  <2>1. /\ i \in 1..Len(program) /\ program[i].kind \in Closures /\ i < program[pc].last + 1 /\ i \notin C
        /\ InBlock(program, b, i)
    BY DEF Within, ClosuresLeft
  <2>2. ~(pc < i)
    <3> SUFFICES ASSUME pc < i PROVE FALSE
      OBVIOUS
    <3>1. Inside(program, pc, i)
      BY <1>3, <2>1 DEF Inside, IsTree
    <3>2. b # 0 /\ pc <= b
      BY <1>3, <2>1, <3>1 DEF InBlock
    <3>3. b < pc /\ b \in Nat
      BY <1>3, <3>2
    <3> QED BY <1>3, <3>2, <3>3
  <2>3. i < pc \/ i = pc
    BY <1>3, <2>1, <2>2
  <2> QED BY <2>1, <2>3 DEF Within, ClosuresLeft
<1>6. program[pc].name \in DOMAIN scheme_env
  BY <1>1 DEF LeftGeneric
<1>7. Named(program, env, {0} \cup C, 1..Len(program), M, DOMAIN scheme_env)
  <2>1. Named(program, env, {0} \cup C, 1..Len(program), L, DOMAIN scheme_env)
    BY <1>2 DEF Constructing
  <2>2. PICK lev : /\ Levels(program, {0} \cup C, 1..Len(program), Len(env), lev)
                   /\ \A b \in {0} \cup C : \A i \in Within(program, b, L) :
                        program[i].name \in DOMAIN env[lev[b]] \cup DOMAIN scheme_env
    BY <2>1 DEF Named
  <2> HIDE DEF L, M, C
  <2>3. ASSUME NEW b \in {0} \cup C, NEW i \in Within(program, b, M)
        PROVE  program[i].name \in DOMAIN env[lev[b]] \cup DOMAIN scheme_env
    BY <1>5, <1>6, <2>2, <2>3
  <2> QED BY <2>2, <2>3 DEF Named
<1> QED BY <1>1, <1>2, <1>4, <1>7 DEF Constructing

LEMMA ConstructEnterStep ==
  InferInv /\ ConstructInv /\ ConstructEnter => Constructing' /\ (outcome' = "T0002" => ~DistinctNames)
<1> SUFFICES ASSUME InferInv, ConstructInv, ConstructEnter
             PROVE  Constructing' /\ (outcome' = "T0002" => ~DistinctNames)
  OBVIOUS
<1> DEFINE C == Range(open)
<1>1. /\ phase = "construct" /\ outcome = "running" /\ ~AtEnd /\ pc <= Len(program) /\ ~LeftGeneric(pc)
      /\ program' = program /\ scheme_env' = scheme_env
  BY DEF ConstructEnter, Constructs, Current, infer_vars
<1>2. Constructing /\ IsProgram(program)
  BY <1>1 DEF ConstructInv, InferInv
<1>3. /\ IsTree(program) /\ Len(program) \in Nat /\ {0} \cup C \subseteq 0..Len(program)
      /\ pc \in 1..Len(program) /\ pc \in Nodes /\ Ready(program, C, pc)
      /\ \A i \in C : i < pc
  BY <1>1, <1>2, ConstructionAt
<1>4. CASE program[pc].kind = "poly"
  <2>1. outcome' = "T0002" /\ env' = env /\ open' = open /\ pc' = pc
    BY <1>4 DEF ConstructEnter, Current
  <2>2. Constructing'
    BY <1>1, <1>2, <2>1 DEF Constructing
  <2>3. ~DistinctNames
    <3> SUFFICES ASSUME DistinctNames PROVE FALSE
      OBVIOUS
    <3>1. Generalised(pc) /\ HasLeft(pc) /\ Kind(pc) \in Declarations
      BY <1>1, <1>4 DEF Generalised, HasLeft, Kind, Declarations, Closures
    <3>2. program[pc].name \in DOMAIN scheme_env /\ pc \in quantified
      BY <1>3, <1>4, <3>1 DEF InferInv, Schemes, Kind
    <3>3. PICK d : d = scheme_env[program[pc].name]
      OBVIOUS
    <3>4. d \in Nodes /\ program[d].name = program[pc].name /\ Kind(d) \in Declarations
      BY <3>2, <3>3, SchemeNames
    <3>5. d = pc
      BY <1>3, <3>1, <3>4 DEF DistinctNames
    <3> QED BY <1>1, <3>1, <3>2, <3>3, <3>5 DEF LeftGeneric, Kind
  <2> QED BY <2>2, <2>3
<1>5. CASE program[pc].kind # "poly"
  <2> DEFINE m == Size(program, pc)
             more == [k \in 1..m |-> NoBindings]
  <2>1. /\ env' = env \o more /\ open' = Append(open, pc) /\ pc' = pc + 1 /\ outcome' = outcome
    BY <1>5 DEF ConstructEnter, Current, ScopesOf, Size
  <2>2. m \in 1..2 /\ env \in Seq(Bindings) /\ Len(env) \in Nat
    BY <1>2, LenProperties DEF Constructing, Size
  <2>3. more \in Seq(Bindings) /\ Len(more) = m /\ \A k \in 1..m : more[k] = NoBindings
    <3>1. more \in [1..m -> Bindings]
      BY NoBindingsHold
    <3> HIDE DEF more, m
    <3>2. more \in Seq(Bindings)
      BY <2>2, <3>1, SeqDef
    <3> QED BY <2>2, <3>1, <3>2, LenProperties DEF more
  <2> HIDE DEF more
  <2>4. PICK new : new = env \o more
    OBVIOUS
  <2>5. /\ new \in Seq(Bindings) /\ Len(new) = Len(env) + m
        /\ \A k \in 1..Len(env) : new[k] = env[k]
        /\ \A k \in 1..m : new[Len(env) + k] = NoBindings
    <3>1. new \in Seq(Bindings) /\ Len(new) = Len(env) + m
      BY <2>2, <2>3, <2>4, ConcatProperties
    <3>2. \A k \in 1..(Len(env) + m) : new[k] = IF k <= Len(env) THEN env[k] ELSE more[k - Len(env)]
      BY <2>2, <2>3, <2>4, ConcatProperties
    <3> HIDE DEF m
    <3>3. \A k \in 1..Len(env) : new[k] = env[k]
      BY <2>2, <3>2
    <3>4. ASSUME NEW k \in 1..m PROVE new[Len(env) + k] = NoBindings
      <4>1. /\ Len(env) + k \in 1..(Len(env) + m) /\ ~(Len(env) + k <= Len(env))
            /\ (Len(env) + k) - Len(env) = k
        BY <2>2
      <4> QED BY <2>3, <3>2, <4>1
    <3> QED BY <3>1, <3>3, <3>4
  <2>6. /\ ClosuresLeft(program, C \cup {pc}, pc + 1) = ClosuresLeft(program, C, pc)
        /\ Within(program, pc, ClosuresLeft(program, C, pc)) = {}
    BY <1>3, ClosuresStay
  <2>7. PICK S, B : S = {0} \cup C /\ B = ClosuresLeft(program, C, pc)
    OBVIOUS
  <2>8. Named(program, new, S \cup {pc}, 1..Len(program), B, DOMAIN scheme_env)
    <3>1. /\ S \subseteq 0..Len(program) /\ (\A b \in S : b < pc) /\ Within(program, pc, B) = {}
          /\ Named(program, env, S, 1..Len(program), B, DOMAIN scheme_env)
      BY <1>2, <1>3, <2>6, <2>7 DEF Constructing
    <3> QED BY <1>3, <2>2, <2>5, <3>1, NamedPush
  <2>9. S \cup {pc} = {0} \cup (C \cup {pc})
    BY <2>7
  <2>10. OpenPath(Len(program), open') /\ Range(open') = C \cup {pc}
    BY <1>2, <1>3, <2>1, PathInto DEF Constructing
  <2>11. Walk(program, C \cup {pc}, pc + 1)
    BY <1>2, <1>3, WalkInto DEF Constructing
  <2>12. ASSUME NEW k \in 1..Len(new) PROVE OwnNames(program, new[k])
    <3>1. CASE k \in 1..Len(env)
      BY <3>1, <1>2, <2>5 DEF Constructing
    <3>2. CASE k \notin 1..Len(env)
      <4>1. PICK j \in 1..m : k = Len(env) + j
        <5>1. k - Len(env) \in 1..m /\ k = Len(env) + (k - Len(env))
          BY <2>2, <2>5, <3>2
        <5> QED BY <5>1
      <4>2. new[k] = NoBindings
        BY <2>5, <4>1
      <4> QED BY <4>2, NoBindingsHold DEF OwnNames
    <3> QED BY <3>1, <3>2
  <2>13. Constructing'
    BY <1>1, <1>2, <2>1, <2>4, <2>5, <2>6, <2>7, <2>8, <2>9, <2>10, <2>11, <2>12 DEF Constructing
  <2> QED BY <1>1, <2>1, <2>13
<1> QED BY <1>4, <1>5

\* Construction finds a declaration of the name of every call that inference
\* has found something for.
LEMMA ConstructFinds ==
  ASSUME InferInv, Constructing, phase = "construct", ~AtEnd, pc <= Len(program), pc \in Calls
  PROVE  /\ construct_lookup(program[pc].name) # {}
         /\ \A d \in construct_lookup(program[pc].name) :
              d \in Nodes /\ program[d].name = program[pc].name /\ Kind(d) \in Declarations
<1> DEFINE n == program[pc].name
           C == Range(open)
<1>1. IsProgram(program)
  BY DEF InferInv
<1>2. /\ IsTree(program) /\ Len(program) \in Nat /\ {0} \cup C \subseteq 0..Len(program)
      /\ pc \in 1..Len(program) /\ Ready(program, C, pc)
      /\ BlocksOf(pc) = {0} \cup C
  BY <1>1, ConstructionAt
<1>3. env \in Seq(Bindings) /\ DOMAIN env = 1..Len(env) /\ Len(env) \in Nat
  BY LenProperties DEF Constructing
<1>4. PICK levels : levels = {k \in DOMAIN env : n \in DOMAIN env[k]}
  OBVIOUS
<1>5. lookup(env, n) = IF levels = {} THEN {} ELSE {env[Max(levels)][n]}
  BY <1>4 DEF lookup
<1>6. construct_lookup(n) = IF levels # {} THEN {env[Max(levels)][n]}
                            ELSE IF n \in DOMAIN scheme_env THEN {scheme_env[n]} ELSE {}
  BY <1>5 DEF construct_lookup
<1>7. levels # {} \/ n \in DOMAIN scheme_env
  <2>1. PICK d : d \in inferred[pc]
    BY DEF InferInv, Inferred
  <2>2. FoundWell(inferred[pc], pc)
    BY DEF InferInv, Inferred
  <2>3. PICK b \in BlocksOf(pc) : d \in Shown(b, pc, n)
    BY <2>1, <2>2 DEF FoundWell, Visible
  <2>4. /\ d \in Nodes /\ d \in 1..Len(program) /\ InBlock(program, b, d) /\ program[d].name = n
        /\ Kind(d) \in Functions \/ (Kind(d) \in Closures /\ program[d].last < pc)
    BY <2>3 DEF Shown, Kind, Nodes
  <2>5. CASE Generalised(d)
    BY <2>4, <2>5 DEF InferInv, Schemes, HasLeft
  <2>6. CASE ~Generalised(d)
    <3>1. Kind(d) \in Closures /\ program[d].last < pc
      BY <2>4, <2>6 DEF Generalised, Closures
    <3>2. d < pc /\ d \notin C
      BY <1>2, <2>4, <3>1, LeftInBlock DEF Constructing
    <3>3. d \in Within(program, b, ClosuresLeft(program, C, pc)) /\ b \in {0} \cup C
      BY <1>2, <2>4, <3>1, <3>2 DEF Within, ClosuresLeft, Kind
    <3>4. Named(program, env, {0} \cup C, 1..Len(program), ClosuresLeft(program, C, pc), DOMAIN scheme_env)
      BY DEF Constructing
    <3>5. PICK lev : /\ Levels(program, {0} \cup C, 1..Len(program), Len(env), lev)
                     /\ \A a \in {0} \cup C : \A i \in Within(program, a, ClosuresLeft(program, C, pc)) :
                          program[i].name \in DOMAIN env[lev[a]] \cup DOMAIN scheme_env
      BY <3>4 DEF Named
    <3>6. lev[b] \in DOMAIN env
      BY <1>3, <3>3, <3>5 DEF Levels
    <3> QED BY <1>4, <2>4, <3>3, <3>5, <3>6
  <2> QED BY <2>5, <2>6
<1>8. CASE levels # {}
  <2>1. Max(levels) \in levels
    <3>1. levels \subseteq 1..Len(env)
      BY <1>3, <1>4
    <3> QED BY <1>3, <1>8, <3>1, NonEmptyHasMax
  <2>2. PICK k : k = Max(levels)
    OBVIOUS
  <2>3. k \in 1..Len(env) /\ n \in DOMAIN env[k]
    BY <1>3, <1>4, <2>1, <2>2
  <2>4. OwnNames(program, env[k])
    BY <2>3 DEF Constructing
  <2>5. /\ env[k][n] \in Nodes /\ program[env[k][n]].name = n /\ Kind(env[k][n]) \in Declarations
    BY <2>3, <2>4 DEF OwnNames, Nodes, Kind
  <2>6. construct_lookup(n) = {env[k][n]}
    BY <1>6, <1>8, <2>2
  <2> QED BY <2>5, <2>6
<1>9. CASE levels = {}
  <2>1. n \in DOMAIN scheme_env
    BY <1>7, <1>9
  <2>2. construct_lookup(n) = {scheme_env[n]}
    BY <1>6, <1>9, <2>1
  <2>3. /\ scheme_env[n] \in Nodes /\ program[scheme_env[n]].name = n
        /\ Kind(scheme_env[n]) \in Declarations
    BY <2>1, SchemeNames
  <2> QED BY <2>2, <2>3
<1> QED BY <1>8, <1>9

LEMMA ConstructCallStep ==
  InferInv /\ ConstructInv /\ ConstructCall => Constructing' /\ Constructed' /\ outcome' = outcome
<1> SUFFICES ASSUME InferInv, ConstructInv, ConstructCall
             PROVE  Constructing' /\ Constructed' /\ outcome' = outcome
  OBVIOUS
<1> DEFINE C == Range(open)
           found == construct_lookup(program[pc].name)
<1>1. /\ phase = "construct" /\ outcome = "running" /\ ~AtEnd /\ pc <= Len(program)
      /\ program[pc].kind = "call"
      /\ program' = program /\ scheme_env' = scheme_env /\ open' = open /\ pc' = pc + 1 /\ env' = env
      /\ constructed' = [constructed EXCEPT ![pc] = found]
      /\ outcome' = IF found = {} THEN "T0003" ELSE outcome
  BY DEF ConstructCall, Constructs, Current, infer_vars
<1>2. Constructing /\ IsProgram(program) /\ Constructed
  BY <1>1 DEF ConstructInv, InferInv
<1>3. /\ IsTree(program) /\ pc \in 1..Len(program) /\ pc \in Nodes /\ Ready(program, C, pc)
  BY <1>1, <1>2, ConstructionAt
<1>4. pc \in Calls
  BY <1>1, <1>3 DEF Calls
<1>5. /\ found # {}
      /\ \A d \in found : d \in Nodes /\ program[d].name = program[pc].name /\ Kind(d) \in Declarations
  BY <1>1, <1>2, <1>4, ConstructFinds
<1>6. program[pc].last = pc
  BY <1>1, <1>2, <1>3, ProgramIsTree DEF IsProgram
<1>7. Walk(program, C, pc + 1)
  BY <1>2, <1>3, <1>6, WalkPast DEF Constructing
<1>8. ClosuresLeft(program, C, pc + 1) = ClosuresLeft(program, C, pc)
  BY <1>1, <1>3, ClosuresStay
<1>9. outcome' = outcome
  BY <1>1, <1>5
<1>10. Constructing'
  BY <1>1, <1>2, <1>7, <1>8, <1>9 DEF Constructing
<1> HIDE DEF found
<1>11. Constructed'
  <2>1. \A q \in Calls : constructed'[q] = IF q = pc THEN found ELSE constructed[q]
    BY <1>1, <1>2 DEF Constructed
  <2>2. \A q \in Calls : \A d \in constructed'[q] :
          d \in Nodes /\ program[d].name = program[q].name /\ Kind(d) \in Declarations
    BY <1>2, <1>5, <2>1 DEF Constructed
  <2> QED BY <1>1, <1>2, <2>2, ProgramStays DEF Constructed
<1> QED BY <1>9, <1>10, <1>11

LEMMA ConstructLeaveStep ==
  InferInv /\ ConstructInv /\ ConstructLeave => Constructing'
<1> SUFFICES ASSUME InferInv, ConstructInv, ConstructLeave PROVE Constructing'
  OBVIOUS
<1>1. PICK t, C, x, outer, B :
        /\ t = Innermost /\ C = Range(open) /\ x = pc
        /\ outer = pop(env, Size(program, t)) /\ B = ClosuresLeft(program, C, x)
  OBVIOUS
<1>2. /\ phase = "construct" /\ AtEnd
      /\ program' = program /\ outcome' = outcome /\ scheme_env' = scheme_env
      /\ open' = Front(open) /\ pc' = x
      /\ env' = IF Kind(t) \in Closures THEN bind(outer, program[t].name, t) ELSE outer
  BY <1>1 DEF ConstructLeave, Constructs, ScopesOf, Size, Kind, infer_vars
<1>3. IsProgram(program) /\ Constructing /\ IsTree(program) /\ Len(program) \in Nat
  BY <1>2, ProgramIsTree DEF InferInv, ConstructInv, IsTree
<1>4. /\ OpenPath(Len(program), open) /\ Walk(program, C, x) /\ open # <<>>
      /\ env \in Seq(Bindings) /\ outcome # "T0003"
      /\ \A k \in 1..Len(env) : OwnNames(program, env[k])
      /\ Named(program, env, {0} \cup C, 1..Len(program), B, DOMAIN scheme_env)
  BY <1>1, <1>2, <1>3 DEF Constructing, AtEnd
<1>5. /\ t \in C /\ \A i \in C : i <= t
      /\ C \subseteq 1..Len(program)
      /\ OpenPath(Len(program), Front(open)) /\ Range(Front(open)) = C \ {t}
  BY <1>1, <1>3, <1>4, PathTop DEF Innermost
<1>6. program[t].last < x /\ t < x /\ t \in 1..Len(program) /\ t \in Nat /\ x \in Nat
  <2>1. t \in 1..Len(program) /\ t < x /\ x \in Nat /\ program[t].last \in Nat
    BY <1>3, <1>4, <1>5 DEF Walk, IsTree
  <2>2. x > program[t].last
    BY <1>1, <1>2 DEF AtEnd
  <2> QED BY <2>1, <2>2
<1>7. Walk(program, C \ {t}, x)
  BY <1>3, <1>4, <1>5, <1>6, WalkOut
<1>8. PICK b : HoldsTop(program, {0} \cup (C \ {t}), t, b)
  BY <1>3, <1>4, <1>5, BlockOfTop
<1>9. PICK S : S = {0} \cup (C \ {t})
  OBVIOUS
<1>10. S \subseteq 0..Len(program)
  BY <1>3, <1>5, <1>9
<1>11. /\ outer \in Seq(Bindings)
       /\ \A k \in 1..Len(outer) : OwnNames(program, outer[k])
       /\ Named(program, outer, S, 1..Len(program), B, DOMAIN scheme_env)
  <2>1. PICK R : R = {0} \cup C
    OBVIOUS
  <2>2. /\ R \subseteq 0..Len(program) /\ t \in R /\ t # 0 /\ 0 \in R /\ t \in 1..Len(program)
        /\ \A c \in R : c <= t
        /\ Named(program, env, R, 1..Len(program), B, DOMAIN scheme_env)
    BY <1>3, <1>4, <1>5, <1>6, <2>1
  <2>3. /\ OuterOf(env, outer)
        /\ Named(program, outer, R \ {t}, 1..Len(program), B, DOMAIN scheme_env)
    BY <1>1, <1>3, <1>4, <2>2, NamedPop
  <2>4. R \ {t} = S
    BY <1>9, <2>1, <2>2
  <2>5. \A k \in 1..Len(outer) : k \in 1..Len(env)
    BY <1>4, <2>3, LenProperties DEF OuterOf
  <2> QED BY <1>4, <2>3, <2>4, <2>5 DEF OuterOf
<1>12. CASE Kind(t) \in Closures
  <2>1. PICK new : new = bind(outer, program[t].name, t)
    OBVIOUS
  <2>2. program[t].name \in Names \cup {"main"} /\ program[t].kind \in Declarations
    BY <1>3, <1>6, <1>12, NameOf DEF Kind, Declarations
  <2>3. Len(outer) >= 1 /\ Named(program, new, S, 1..Len(program), B \cup {t}, DOMAIN scheme_env)
    BY <1>3, <1>6, <1>8, <1>9, <1>10, <1>11, <2>1, <2>2, NamedBind DEF HoldsTop
  <2>4. BoundIn(outer, program[t].name, t, new)
    BY <1>6, <1>11, <2>1, <2>2, <2>3, BindFacts
  <2>5. ASSUME NEW k \in 1..Len(new) PROVE OwnNames(program, new[k])
    <3>1. k \in 1..Len(outer) /\ OwnNames(program, outer[k])
      BY <1>11, <2>4 DEF BoundIn
    <3>2. CASE k # Len(outer)
      BY <2>4, <3>1, <3>2 DEF BoundIn
    <3>3. CASE k = Len(outer)
      <4>1. /\ DOMAIN new[k] = DOMAIN outer[k] \cup {program[t].name} /\ new[k][program[t].name] = t
            /\ \A j \in DOMAIN outer[k] : j # program[t].name => new[k][j] = outer[k][j]
        BY <2>4, <3>3 DEF BoundIn
      <4> QED BY <1>6, <2>2, <3>1, <4>1 DEF OwnNames
    <3> QED BY <3>2, <3>3
  <2>6. ClosuresLeft(program, C \ {t}, x) = B \cup {t}
    BY <1>1, <1>5, <1>6, <1>12 DEF ClosuresLeft, Kind
  <2>7. env' = new /\ new \in Seq(Bindings)
    BY <1>2, <1>12, <2>1, <2>4 DEF BoundIn
  <2> QED BY <1>2, <1>4, <1>5, <1>7, <1>9, <2>3, <2>5, <2>6, <2>7 DEF Constructing
<1>13. CASE Kind(t) \notin Closures
  <2>1. ClosuresLeft(program, C \ {t}, x) = B
    BY <1>1, <1>5, <1>6, <1>13 DEF ClosuresLeft, Kind
  <2> QED BY <1>2, <1>4, <1>5, <1>7, <1>9, <1>11, <1>13, <2>1 DEF Constructing
<1> QED BY <1>12, <1>13

\* What construction found stays, and no closure fails, when it does not walk.
LEMMA ConstructQuiet ==
  ASSUME ConstructInv, UNCHANGED <<program, constructed>>,
         phase' = "construct" => Constructing',
         outcome' = "T0002" => outcome = "T0002" \/ ~DistinctNames
  PROVE  ConstructInv'
<1>1. Constructed'
  BY ProgramStays DEF ConstructInv, Constructed
<1>2. outcome' = "T0002" => ~DistinctNames'
  BY ProgramStays DEF ConstructInv
<1> QED BY <1>1, <1>2 DEF ConstructInv

LEMMA ConstructionKept == InferInv /\ ConstructInv /\ [Next]_vars => ConstructInv'
<1> SUFFICES ASSUME InferInv, ConstructInv, [Next]_vars PROVE ConstructInv'
  OBVIOUS
<1>1. CASE UNCHANGED vars
  <2>1. UNCHANGED <<program, phase, pc, open, scheme_env, env, constructed, outcome>>
    BY <1>1 DEF vars
  <2>2. Constructing => Constructing'
    BY <2>1 DEF Constructing
  <2> QED BY <2>1, <2>2, ConstructQuiet DEF ConstructInv
<1>2. CASE InferEnter \/ InferCall \/ InferLeave
  <2>1. UNCHANGED <<program, phase, constructed>> /\ phase = "infer"
    BY <1>2 DEF InferEnter, InferCall, InferLeave, Infers, construct_vars
  <2>2. outcome' \in {outcome, "T0003"}
    BY <1>2 DEF InferEnter, InferCall, InferLeave
  <2> QED BY <2>1, <2>2, ConstructQuiet
<1>3. CASE InferDone
  <2>1. UNCHANGED <<program, constructed, outcome>>
    BY <1>3 DEF InferDone
  <2> QED BY <1>3, <2>1, ConstructStarts, ConstructQuiet
<1>4. CASE ConstructGeneric
  <2>1. UNCHANGED <<program, constructed, outcome>>
    BY <1>4 DEF ConstructGeneric, construct_vars
  <2> QED BY <1>4, <2>1, ConstructGenericStep, ConstructQuiet
<1>5. CASE ConstructEnter
  <2>1. UNCHANGED <<program, constructed>>
    BY <1>5 DEF ConstructEnter
  <2> QED BY <1>5, <2>1, ConstructEnterStep, ConstructQuiet
<1>6. CASE ConstructCall
  <2>1. program' = program
    BY <1>6 DEF ConstructCall
  <2>2. Constructing' /\ Constructed' /\ outcome' = outcome
    BY <1>6, ConstructCallStep
  <2>3. outcome' = "T0002" => ~DistinctNames'
    BY <2>1, <2>2, ProgramStays DEF ConstructInv
  <2> QED BY <2>2, <2>3 DEF ConstructInv
<1>7. CASE ConstructLeave
  <2>1. UNCHANGED <<program, constructed, outcome>>
    BY <1>7 DEF ConstructLeave
  <2> QED BY <1>7, <2>1, ConstructLeaveStep, ConstructQuiet
<1>8. CASE RunMain
  <2>1. UNCHANGED <<program, constructed, outcome>> /\ phase' = "evaluate"
    BY <1>8 DEF RunMain, construct_vars
  <2> QED BY <2>1, ConstructQuiet
<1>9. CASE EvalBlock \/ EvalFun \/ EvalLet \/ EvalCall \/ LeaveBlock \/ Return
  <2>1. UNCHANGED <<program, constructed, outcome, phase>> /\ phase = "evaluate"
    BY <1>9 DEF EvalBlock, EvalFun, EvalLet, EvalCall, LeaveBlock, Return, Evaluates, construct_vars
  <2> QED BY <2>1, ConstructQuiet
<1>10. CASE EvalCallFails \/ MainReturns
  <2>1. UNCHANGED <<program, constructed>> /\ phase' # "construct" /\ outcome' # "T0002"
    BY <1>10 DEF EvalCallFails, MainReturns, Evaluates, construct_vars
  <2> QED BY <2>1, ConstructQuiet
<1> QED BY <1>1, <1>2, <1>3, <1>4, <1>5, <1>6, <1>7, <1>8, <1>9, <1>10 DEF Next

LEMMA ConstructInitially == Init => ConstructInv
<1> SUFFICES ASSUME Init PROVE ConstructInv
  OBVIOUS
<1>1. phase = "infer" /\ outcome = "running" /\ constructed = [i \in Calls |-> {}]
  BY DEF Init
<1> QED BY <1>1 DEF ConstructInv, Constructed

LEMMA CheckingInvariant == Spec => [](InferInv /\ ConstructInv)
BY InferStarts, ConstructInitially, InferenceKept, ConstructionKept, PTL DEF Spec

\* Of every set of programs, construction finds something for every call that
\* inference accepts, though it looks in other tables and in another order.
THEOREM ConstructionSucceeds == Spec => []ConstructionFollows
<1>1. ConstructInv => ConstructionFollows
  BY DEF ConstructInv, Constructing, ConstructionFollows
<1> QED BY <1>1, CheckingInvariant, PTL

------------------------------------------------------------------------------
(***************************************************************************)
(* Evaluation.                                                             *)
(***************************************************************************)
BlockNodes(p) == {i \in 1..Len(p) : p[i].kind = "block"}

\* What is bound around position x in a body whose open nodes are those of C:
\* the functions of the module, the functions evaluated, those that run
\* included, and the closures that are left.
EvalBound(p, C, x) ==
  {i \in 1..Len(p) : /\ p[i].kind \in Declarations
                     /\ InBlock(p, 0, i) \/ (i < x /\ (i \notin C \/ p[i].kind \in Functions))}

\* The nodes around a position of a body, the body of o[1].
OpenIn(p, o) == Around(p, o[1]) \cup Range(o)

\* A body runs at x: it is in the blocks o of o[1], in scopes of its own.
Frame(p, g, x, o, scs) ==
  /\ OpenPath(Len(p), o) /\ o # <<>>
  /\ \A k \in 2..Len(o) : o[k] \in BlockNodes(p)
  /\ Walk(p, OpenIn(p, o), x)
  /\ scs \in Seq(Bindings)
  /\ Layered(p, scs, {0} \cup OpenIn(p, o), BlockNodes(p), EvalBound(p, OpenIn(p, o), x), g)

\* A closure has captured what was bound where it stands; a function is
\* bound itself by then.
CaptureAt(p, d) == IF p[d].kind \in Functions THEN d + 1 ELSE d
Captures(p, g, d, scs) ==
  /\ d \in 1..Len(p) /\ p[d].kind \in Declarations
  /\ scs \in Seq(Bindings)
  /\ Layered(p, scs, {0} \cup Around(p, d), BlockNodes(p), EvalBound(p, Around(p, d), CaptureAt(p, d)), g)

\* The top of the open nodes, and the others.
LEMMA OpenInFacts ==
  ASSUME NEW p, IsTree(p), NEW o, OpenPath(Len(p), o), o # <<>>
  PROVE  /\ OpenIn(p, o) \subseteq 1..Len(p)
         /\ Last(o) \in OpenIn(p, o) /\ \A i \in OpenIn(p, o) : i <= Last(o)
         /\ Len(o) \in Nat \ {0} /\ o[1] \in 1..Len(p)
<1>1. Len(p) \in Nat /\ o \in Seq(1..Len(p))
  BY DEF IsTree, OpenPath
<1>2. /\ Last(o) \in Range(o) /\ \A i \in Range(o) : i <= Last(o)
      /\ Range(o) \subseteq 1..Len(p)
  BY <1>1, PathTop
<1>3. Len(o) \in Nat \ {0} /\ 1 \in 1..Len(o)
  BY <1>1, EmptySeq
<1>4. o[1] \in Range(o) /\ o[1] \in 1..Len(p)
  BY <1>1, <1>2, <1>3, SeqRange
<1>5. \A i \in Around(p, o[1]) : i \in 1..Len(p) /\ i < o[1]
  BY DEF Around, Inside
<1>6. \A i \in Around(p, o[1]) : i <= Last(o)
  <2> TAKE i \in Around(p, o[1])
  <2>1. i < o[1] /\ o[1] <= Last(o) /\ i \in Nat /\ o[1] \in Nat /\ Last(o) \in Nat
    BY <1>2, <1>4, <1>5
  <2> QED BY <2>1
<1> QED BY <1>2, <1>3, <1>4, <1>5, <1>6 DEF OpenIn

LEMMA OpenInPush ==
  ASSUME NEW p, IsTree(p), NEW o, OpenPath(Len(p), o), o # <<>>,
         NEW x \in 1..Len(p), \A i \in OpenIn(p, o) : i < x, x \in BlockNodes(p),
         \A k \in 2..Len(o) : o[k] \in BlockNodes(p)
  PROVE  /\ OpenPath(Len(p), Append(o, x)) /\ Append(o, x) # <<>>
         /\ OpenIn(p, Append(o, x)) = OpenIn(p, o) \cup {x}
         /\ \A k \in 2..Len(Append(o, x)) : Append(o, x)[k] \in BlockNodes(p)
<1>1. Len(p) \in Nat /\ o \in Seq(1..Len(p)) /\ \A i \in Range(o) : i < x
  BY DEF IsTree, OpenPath, OpenIn
<1>2. OpenPath(Len(p), Append(o, x)) /\ Range(Append(o, x)) = Range(o) \cup {x}
  BY <1>1, PathInto
<1>3. /\ Len(Append(o, x)) = Len(o) + 1 /\ Append(o, x)[Len(o) + 1] = x
      /\ \A k \in 1..Len(o) : Append(o, x)[k] = o[k]
  BY <1>1, AppendFacts
<1>4. Len(o) \in Nat \ {0}
  BY <1>1, EmptySeq
<1>5. Append(o, x)[1] = o[1]
  BY <1>3, <1>4
<1>6. OpenIn(p, Append(o, x)) = OpenIn(p, o) \cup {x}
  BY <1>2, <1>5 DEF OpenIn
<1>7. ASSUME NEW k \in 2..(Len(o) + 1) PROVE Append(o, x)[k] \in BlockNodes(p)
  <2>1. CASE k = Len(o) + 1
    BY <2>1, <1>3
  <2>2. CASE k # Len(o) + 1
    <3>1. k \in 2..Len(o) /\ k \in 1..Len(o)
      BY <1>4, <2>2
    <3> QED BY <3>1, <1>3
  <2> QED BY <2>1, <2>2
<1> QED BY <1>2, <1>3, <1>6, <1>7

LEMMA OpenInPop ==
  ASSUME NEW p, IsTree(p), NEW o, OpenPath(Len(p), o), Len(o) > 1,
         \A k \in 2..Len(o) : o[k] \in BlockNodes(p)
  PROVE  /\ OpenPath(Len(p), Front(o)) /\ Front(o) # <<>>
         /\ OpenIn(p, Front(o)) = OpenIn(p, o) \ {Last(o)}
         /\ Last(o) \in BlockNodes(p)
         /\ \A k \in 2..Len(Front(o)) : Front(o)[k] \in BlockNodes(p)
<1>1. Len(p) \in Nat /\ o \in Seq(1..Len(p)) /\ Len(o) \in Nat /\ o # <<>>
  BY LenProperties DEF IsTree, OpenPath
<1>2. /\ OpenPath(Len(p), Front(o)) /\ Range(Front(o)) = Range(o) \ {Last(o)}
      /\ Len(Front(o)) = Len(o) - 1
  BY <1>1, PathTop
<1>3. \A k \in 1..(Len(o) - 1) : Front(o)[k] = o[k]
  BY <1>1, FrontTypes
<1>4. Last(o) = o[Len(o)] /\ Len(o) \in 2..Len(o)
  BY <1>1 DEF Last
<1> HIDE DEF Front, Last
<1>5. Front(o)[1] = o[1]
  BY <1>1, <1>3
<1>6. Last(o) \notin Around(p, o[1])
  <2>1. o[1] < o[Len(o)]
    BY <1>1 DEF OpenPath
  <2>2. \A k \in 1..Len(o) : o[k] \in Nat
    BY <1>1, ElementOfSeq
  <2>3. o[1] \in Nat /\ o[Len(o)] \in Nat
    BY <1>1, <2>2
  <2> QED BY <1>4, <2>1, <2>3 DEF Around, Inside
<1>7. OpenIn(p, Front(o)) = OpenIn(p, o) \ {Last(o)}
  BY <1>2, <1>5, <1>6 DEF OpenIn
<1>8. Front(o) # <<>>
  <2>1. Len(<<>>) = 0
    OBVIOUS
  <2> QED BY <1>1, <1>2, <2>1
<1>9. \A k \in 2..(Len(o) - 1) : Front(o)[k] \in BlockNodes(p)
  <2> TAKE k \in 2..(Len(o) - 1)
  <2>1. k \in 1..(Len(o) - 1) /\ k \in 2..Len(o)
    BY <1>1
  <2> QED BY <1>3, <2>1
<1> QED BY <1>2, <1>4, <1>7, <1>8, <1>9

\* What is bound changes only by declarations.
LEMMA EvalBoundStays ==
  ASSUME NEW p, IsTree(p), NEW C, NEW x \in 1..Len(p), p[x].kind \notin Declarations
  PROVE  /\ EvalBound(p, C \cup {x}, x + 1) = EvalBound(p, C, x)
         /\ EvalBound(p, C, x + 1) = EvalBound(p, C, x)
         /\ Within(p, x, EvalBound(p, C, x)) = {}
<1>1. Len(p) \in Nat /\ \A i \in 1..Len(p) : i # x => (i < x + 1 <=> i < x)
  BY DEF IsTree
<1>2. \A i \in 1..Len(p) : p[i].kind \in Declarations => i # x
  OBVIOUS
<1>3. EvalBound(p, C \cup {x}, x + 1) = EvalBound(p, C, x)
  BY <1>1, <1>2 DEF EvalBound
<1>4. EvalBound(p, C, x + 1) = EvalBound(p, C, x)
  BY <1>1, <1>2 DEF EvalBound
<1>5. Within(p, x, EvalBound(p, C, x)) = {}
  <2>1. \A i \in 1..Len(p) : InBlock(p, x, i) => ~(i < x) /\ ~InBlock(p, 0, i)
    BY DEF IsTree, InBlock, Inside
  <2> QED BY <2>1 DEF Within, EvalBound
<1> QED BY <1>3, <1>4, <1>5

\* A longer list of cells changes nothing for those there are.
Extends(h, g) == \A v \in DOMAIN g : v \in DOMAIN h /\ h[v] = g[v]

LEMMA FrameExtends ==
  ASSUME NEW p, NEW g, NEW h, Extends(h, g)
  PROVE  /\ \A x, o, scs : Frame(p, g, x, o, scs) => Frame(p, h, x, o, scs)
         /\ \A d, scs : Captures(p, g, d, scs) => Captures(p, h, d, scs)
<1>1. ASSUME NEW scs, NEW S, NEW K, NEW B, Layered(p, scs, S, K, B, g)
      PROVE  Layered(p, scs, S, K, B, h)
  BY <1>1, LayeredSame DEF Extends
<1>2. \A x, o, scs : Frame(p, g, x, o, scs) => Frame(p, h, x, o, scs)
  BY <1>1 DEF Frame
<1>3. \A d, scs : Captures(p, g, d, scs) => Captures(p, h, d, scs)
  BY <1>1 DEF Captures
<1> QED BY <1>2, <1>3

\* A declaration of the module is a function.
LEMMA RootsAreFunctions ==
  ASSUME NEW p, IsProgram(p), NEW i \in 1..Len(p), InBlock(p, 0, i)
  PROVE  p[i].kind \in Functions /\ Around(p, i) = {}
<1>1. IsTree(p) /\ DOMAIN p = 1..Len(p) /\ 0 \in 0..Len(p)
  BY ProgramIsTree DEF IsTree
<1>2. Around(p, i) = {}
  BY <1>1, BlockIsAround
<1> QED BY <1>1, <1>2 DEF IsProgram

\* What a block shows at a call is what evaluation has bound, but for the
\* nested functions that come later.
LEMMA ShownEvaluated ==
  ASSUME IsProgram(program), NEW C, NEW x \in Nodes, Walk(program, C, x), Ready(program, C, x),
         Kind(x) = "call", NEW b \in BlocksOf(x), NEW n
  PROVE  /\ \A i \in Within(program, b, EvalBound(program, C, x)) :
              program[i].name = n => i \in Shown(b, x, n)
         /\ \A i \in Shown(b, x, n) :
              \/ i \in Within(program, b, EvalBound(program, C, x)) /\ program[i].name = n
              \/ Kind(i) \in Functions /\ i > x /\ ~InBlock(program, 0, i)
<1>0. IsTree(program)
  BY ProgramIsTree
<1>1. \A i \in Nodes : (i < x /\ i \notin C) <=> program[i].last < x
  BY <1>0, LeftInBlock DEF Nodes
<1>2. ASSUME NEW i \in Within(program, b, EvalBound(program, C, x)), program[i].name = n
      PROVE  i \in Shown(b, x, n)
  <2>1. i \in Nodes /\ InBlock(program, b, i) /\ Kind(i) \in Declarations
    BY DEF Within, EvalBound, Nodes, Kind
  <2>2. Kind(i) \in Functions \/ (i < x /\ i \notin C)
    BY RootsAreFunctions DEF Within, EvalBound, Kind
  <2>3. Kind(i) \in Functions \/ (Kind(i) \in Closures /\ program[i].last < x)
    BY <1>1, <2>1, <2>2 DEF Declarations
  <2> QED BY <1>2, <2>1, <2>3 DEF Shown, Kind
<1>3. ASSUME NEW i \in Shown(b, x, n)
      PROVE  \/ i \in Within(program, b, EvalBound(program, C, x)) /\ program[i].name = n
             \/ Kind(i) \in Functions /\ i > x /\ ~InBlock(program, 0, i)
  <2>1. i \in Nodes /\ InBlock(program, b, i) /\ i \in 1..Len(program) /\ program[i].name = n
    BY DEF Shown, Nodes
  <2>2. Kind(i) \in Functions \/ (Kind(i) \in Closures /\ program[i].last < x)
    BY DEF Shown, Kind
  <2>3. i \in Nat /\ x \in Nat
    BY <2>1 DEF Nodes
  <2>4. Kind(i) \in Declarations
    BY <2>2 DEF Declarations
  <2>5. i # x
    BY <2>4 DEF Declarations, Functions, Closures
  <2>6. CASE InBlock(program, 0, i)
    BY <2>1, <2>4, <2>6 DEF Within, EvalBound, Kind
  <2>7. CASE Kind(i) \in Closures /\ program[i].last < x
    BY <1>1, <2>1, <2>4, <2>7 DEF Within, EvalBound, Kind
  <2>8. CASE Kind(i) \in Functions /\ i < x
    BY <2>1, <2>4, <2>8 DEF Within, EvalBound, Kind
  <2>9. i < x \/ i > x
    BY <2>3, <2>5
  <2> QED BY <2>2, <2>6, <2>7, <2>8, <2>9
<1> QED BY <1>2, <1>3

\* What evaluation finds at a call is what the call means, or the call means
\* a nested function that comes later.
RunsRight(q, d) ==
  /\ d \in Nodes /\ program[d].name = program[q].name /\ Kind(d) \in Declarations
  /\ d \in Meaning(q) <=> ~LaterFunction(q)
Finds(found, g, x) ==
  \/ found = {} /\ LaterFunction(x)
  \/ \E v \in DOMAIN g : found = {v} /\ RunsRight(x, g[v])

LEMMA EvalFinds ==
  ASSUME IsProgram(program), NEW C, NEW x \in Nodes, Walk(program, C, x), Ready(program, C, x),
         Kind(x) = "call", Meaning(x) # {}, NEW g,
         NEW scs \in Seq(Bindings),
         Layered(program, scs, {0} \cup C, BlockNodes(program), EvalBound(program, C, x), g)
  PROVE  Finds(lookup(scs, program[x].name), g, x)
<1> DEFINE n == program[x].name
           B == EvalBound(program, C, x)
<1>1. /\ IsTree(program) /\ Len(program) \in Nat /\ x \in 1..Len(program)
      /\ {0} \cup C \subseteq 0..Len(program)
  BY ProgramIsTree DEF IsTree, Walk, Nodes
<1>2. BlocksOf(x) = {0} \cup C
  BY <1>1, AroundNext DEF BlocksOf
<1>3. PICK b0, m : Meaning(x) = {m} /\ ShownBy(x, b0, m)
  BY <1>1, MeaningIs
<1>4. /\ b0 \in BlocksOf(x) /\ m \in Shown(b0, x, n)
      /\ \A i \in Shown(b0, x, n) : i <= m
      /\ \A c \in BlocksOf(x) : b0 < c => Shown(c, x, n) = {}
  BY <1>3 DEF ShownBy
<1>5. ASSUME NEW b \in BlocksOf(x)
      PROVE  /\ \A i \in Within(program, b, B) : program[i].name = n => i \in Shown(b, x, n)
             /\ \A i \in Shown(b, x, n) :
                  \/ i \in Within(program, b, B) /\ program[i].name = n
                  \/ Kind(i) \in Functions /\ i > x /\ ~InBlock(program, 0, i)
  BY ShownEvaluated
<1>6. LaterFunction(x) <=> (Kind(m) \in Functions /\ m > x /\ ~InBlock(program, 0, m))
  BY <1>3 DEF LaterFunction
<1>7. PICK S : S = {0} \cup C
  OBVIOUS
<1>8. \/ lookup(scs, n) = {} /\ NotDeclared(program, S, B, n)
      \/ \E b \in S, v \in DOMAIN g : lookup(scs, n) = {v} /\ LatestIn(program, S, B, n, b, g[v])
  BY <1>1, <1>7, LookupIn
<1>9. CASE lookup(scs, n) = {} /\ NotDeclared(program, S, B, n)
  <2>1. \A i \in Within(program, b0, B) : program[i].name # n
    BY <1>2, <1>4, <1>7, <1>9 DEF NotDeclared
  <2>2. Kind(m) \in Functions /\ m > x /\ ~InBlock(program, 0, m)
    BY <1>4, <1>5, <2>1
  <2> QED BY <1>6, <1>9, <2>2 DEF Finds
<1>10. CASE \E b \in S, v \in DOMAIN g : lookup(scs, n) = {v} /\ LatestIn(program, S, B, n, b, g[v])
  <2>1. PICK b \in S, v \in DOMAIN g : lookup(scs, n) = {v} /\ LatestIn(program, S, B, n, b, g[v])
    BY <1>10
  <2>2. PICK d : d = g[v]
    OBVIOUS
  <2>3. /\ d \in Within(program, b, B) /\ program[d].name = n
        /\ \A i \in Within(program, b, B) : program[i].name = n => i <= d
        /\ \A c \in S : b < c => \A i \in Within(program, c, B) : program[i].name # n
    BY <2>1, <2>2 DEF LatestIn
  <2>4. d \in B /\ d \in 1..Len(program) /\ d \in Nodes /\ Kind(d) \in Declarations
    BY <2>3 DEF Within, EvalBound, Nodes, Kind
  <2>5. d \in Shown(b, x, n) /\ b \in BlocksOf(x)
    BY <1>2, <1>5, <1>7, <2>3
  <2>6. b \in Nat /\ b0 \in Nat /\ m \in Nat /\ d \in Nat
    <3>1. m \in 1..Len(program)
      BY <1>4 DEF Shown, Nodes
    <3> QED BY <1>1, <1>2, <1>4, <2>4, <2>5, <3>1
  <2>7. ASSUME LaterFunction(x) PROVE d # m
    <3>1. m > x /\ ~InBlock(program, 0, m)
      BY <1>6, <2>7
    <3>2. ~(m < x)
      BY <1>1, <2>6, <3>1
    <3>3. m \notin B
      BY <3>1, <3>2 DEF EvalBound
    <3> QED BY <2>4, <3>3
  <2>8. ASSUME ~LaterFunction(x) PROVE d = m
    <3>1. m \in Within(program, b0, B) /\ program[m].name = n
      BY <1>4, <1>5, <1>6, <2>8
    <3>2. ~(b < b0)
      BY <1>2, <1>4, <1>7, <2>3, <3>1
    <3>3. ~(b0 < b)
      BY <1>4, <2>5
    <3>4. b = b0
      BY <2>6, <3>2, <3>3
    <3>5. d <= m /\ m <= d
      BY <1>4, <2>3, <2>5, <3>1, <3>4
    <3> QED BY <2>6, <3>5
  <2>9. RunsRight(x, d)
    BY <1>3, <2>3, <2>4, <2>7, <2>8 DEF RunsRight
  <2> QED BY <2>1, <2>2, <2>9 DEF Finds
<1> QED BY <1>8, <1>9, <1>10

\* A declaration that is evaluated is bound from then on.
SameWithin(p, S, D, E) == \A b \in S : Within(p, b, D) = Within(p, b, E)

LEMMA BoundGrows ==
  ASSUME NEW p, IsTree(p), NEW C, NEW x \in 1..Len(p), Walk(p, C, x), Ready(p, C, x),
         p[x].kind \in Declarations
  PROVE  /\ EvalBound(p, C, x + 1) = EvalBound(p, C, x) \cup {x}
         /\ SameWithin(p, {0} \cup C, EvalBound(p, C, p[x].last + 1), EvalBound(p, C, x) \cup {x})
<1> DEFINE y == p[x].last + 1
<1>1. Len(p) \in Nat /\ p[x].last \in Nat /\ x <= p[x].last /\ x \notin C
  BY DEF IsTree, Walk
<1>2. \A i \in 1..Len(p) : i < x + 1 <=> i < x \/ i = x
  OBVIOUS
<1>3. EvalBound(p, C, x + 1) = EvalBound(p, C, x) \cup {x}
  BY <1>1, <1>2 DEF EvalBound
<1>4. ASSUME NEW b \in {0} \cup C, NEW i \in 1..Len(p), InBlock(p, b, i)
      PROVE  i \in EvalBound(p, C, y) <=> i \in EvalBound(p, C, x) \cup {x}
  <2>1. CASE i = x
    BY <1>1, <2>1 DEF EvalBound
  <2>2. CASE i < x
    <3>1. i < y
      BY <1>1, <2>2
    <3> QED BY <2>2, <3>1 DEF EvalBound
  <2>3. CASE i > x /\ i <= p[x].last
    <3>1. Inside(p, x, i)
      BY <2>3 DEF Inside
    <3>2. b # 0 /\ x <= b
      BY <1>4, <3>1 DEF InBlock
    <3>3. b < x
      BY <3>2 DEF Walk
    <3>4. b \in 1..Len(p)
      BY <3>2 DEF Walk
    <3> QED BY <3>2, <3>3, <3>4
  <2>4. CASE i > p[x].last
    <3>1. ~(i < y) /\ ~(i < x) /\ i # x
      BY <1>1, <2>4
    <3> QED BY <3>1 DEF EvalBound
  <2> QED BY <1>1, <2>1, <2>2, <2>3, <2>4
<1>5. \A b \in {0} \cup C : Within(p, b, EvalBound(p, C, y)) = Within(p, b, EvalBound(p, C, x) \cup {x})
  <2> TAKE b \in {0} \cup C
  <2>1. EvalBound(p, C, y) \subseteq 1..Len(p) /\ EvalBound(p, C, x) \cup {x} \subseteq 1..Len(p)
    BY DEF EvalBound
  <2> HIDE DEF y
  <2> QED BY <1>4, <2>1 DEF Within
<1> QED BY <1>3, <1>5 DEF SameWithin

\* The name of the next declaration is bound to a new cell in the innermost scope.
LEMMA Declared ==
  ASSUME NEW p, IsProgram(p), NEW C, NEW x \in 1..Len(p), Walk(p, C, x), Ready(p, C, x),
         p[x].kind \in Declarations,
         NEW g, NEW h, NEW v \in Nat, Extends(h, g), v \in DOMAIN h, h[v] = x,
         NEW scs \in Seq(Bindings),
         Layered(p, scs, {0} \cup C, BlockNodes(p), EvalBound(p, C, x), g)
  PROVE  /\ bind(scs, p[x].name, v) \in Seq(Bindings)
         /\ Layered(p, bind(scs, p[x].name, v), {0} \cup C, BlockNodes(p), EvalBound(p, C, x + 1), h)
         /\ Layered(p, bind(scs, p[x].name, v), {0} \cup C, BlockNodes(p),
                    EvalBound(p, C, p[x].last + 1), h)
<1> DEFINE B == EvalBound(p, C, x)
           new == bind(scs, p[x].name, v)
<1>1. IsTree(p) /\ Len(p) \in Nat
  BY ProgramIsTree DEF IsTree
<1>2. PICK S : S = {0} \cup C
  OBVIOUS
<1>3. S \subseteq 0..Len(p) /\ S # {} /\ Around(p, x) = C
  <2>1. Around(p, x) = C
    BY <1>1, AroundNext
  <2>2. S \subseteq 0..Len(p) /\ S # {}
    BY <1>1, <1>2 DEF Walk
  <2> QED BY <2>1, <2>2
<1>4. PICK t \in S : \A b \in S : b <= t
  BY <1>1, <1>3, TopOf
<1>5. InBlock(p, t, x) /\ t \in 0..Len(p)
  BY <1>1, <1>2, <1>3, <1>4, BlockOfNext
<1>6. Layered(p, scs, S, BlockNodes(p), B, h)
  BY <1>2, LayeredSame DEF Extends
<1>7. p[x].name \in Names \cup {"main"}
  BY NameOf
<1>8. \A j \in Within(p, t, B) : p[j].name = p[x].name => j <= x
  <2> SUFFICES ASSUME NEW j \in Within(p, t, B), p[j].name = p[x].name PROVE j <= x
    OBVIOUS
  <2>1. j \in 1..Len(p) /\ InBlock(p, t, j) /\ p[j].kind \in Declarations /\ (InBlock(p, 0, j) \/ j < x)
    BY DEF Within, EvalBound
  <2>2. CASE p[j].kind \in Functions
    <3>1. j = x
      BY <1>5, <2>1, <2>2, OneName
    <3> QED BY <3>1
  <2>3. CASE j < x
    BY <2>1, <2>3
  <2>4. CASE InBlock(p, 0, j)
    BY <2>1, <2>2, <2>4, RootsAreFunctions
  <2> QED BY <2>1, <2>3, <2>4
<1>9. new \in Seq(Bindings) /\ Layered(p, new, S, BlockNodes(p), B \cup {x}, h)
  <2>1. h[v] \in 1..Len(p) /\ InBlock(p, t, h[v]) /\ p[h[v]].name \in Names \cup {"main"}
    BY <1>5, <1>7
  <2>2. \A j \in Within(p, t, B) : p[j].name = p[h[v]].name => j <= h[v]
    BY <1>8
  <2>3. /\ bind(scs, p[h[v]].name, v) \in Seq(Bindings)
        /\ Layered(p, bind(scs, p[h[v]].name, v), S, BlockNodes(p), B \cup {h[v]}, h)
    <3> HIDE DEF B
    <3> QED BY <1>1, <1>3, <1>4, <1>6, <2>1, <2>2, LayeredBind
  <2> QED BY <2>3
<1>10. /\ EvalBound(p, C, x + 1) = B \cup {x}
       /\ \A b \in S : Within(p, b, EvalBound(p, C, p[x].last + 1)) = Within(p, b, B \cup {x})
  <2>1. /\ EvalBound(p, C, x + 1) = B \cup {x}
        /\ SameWithin(p, {0} \cup C, EvalBound(p, C, p[x].last + 1), B \cup {x})
    BY <1>1, BoundGrows
  <2> HIDE DEF B
  <2> QED BY <1>2, <2>1 DEF SameWithin
<1>11. Layered(p, new, S, BlockNodes(p), EvalBound(p, C, p[x].last + 1), h)
  <2> HIDE DEF new, B
  <2> QED BY <1>9, <1>10, LayeredSame
<1> QED BY <1>2, <1>9, <1>10, <1>11

\* The body of declaration d is entered.
LEMMA WalkBody ==
  ASSUME NEW p, IsTree(p), NEW d \in 1..Len(p)
  PROVE  Walk(p, Around(p, d) \cup {d}, d + 1)
<1>1. Len(p) \in Nat
  BY DEF IsTree
<1>2. ASSUME NEW i \in Around(p, d) \cup {d}
      PROVE  i < d + 1 /\ d + 1 <= p[i].last + 1 /\ Around(p, i) \subseteq Around(p, d) \cup {d}
  <2>0. \A k \in 1..Len(p) : p[k].last \in Nat
    BY DEF IsTree
  <2>1. i \in 1..Len(p) /\ i <= d /\ d <= p[i].last
    BY DEF Around, Inside, IsTree
  <2>2. ASSUME NEW k \in Around(p, i) PROVE k \in Around(p, d) \cup {d}
    <3>1. k \in 1..Len(p) /\ k < i /\ p[i].last <= p[k].last
      BY <2>1 DEF Around, Inside, IsTree
    <3> QED BY <2>1, <3>1 DEF Around, Inside, IsTree
  <2>3. Around(p, i) \subseteq Around(p, d) \cup {d}
    BY <2>2
  <2>4. i < d + 1 /\ d + 1 <= p[i].last + 1
    BY <2>0, <2>1
  <2> QED BY <2>3, <2>4
<1>3. \A i \in 1..Len(p) : i < d + 1 /\ d + 1 <= p[i].last => i \in Around(p, d) \cup {d}
  BY DEF Around, Inside, IsTree
<1>4. Around(p, d) \cup {d} \subseteq 1..Len(p) /\ d + 1 \in 1..(Len(p) + 1)
  BY <1>1 DEF Around
<1> QED BY <1>2, <1>3, <1>4 DEF Walk

\* A body starts in what its closure has captured, with empty scopes on top.
LEMMA BodyIn ==
  ASSUME NEW p, IsTree(p), NEW g, NEW d, NEW scs, Captures(p, g, d, scs),
         NEW m \in 1..2, NEW new \in Seq(Bindings), Len(new) = Len(scs) + m,
         \A k \in 1..Len(scs) : new[k] = scs[k],
         \A k \in 1..m : new[Len(scs) + k] = NoBindings
  PROVE  Frame(p, g, d + 1, <<d>>, new)
<1> DEFINE C == Around(p, d) \cup {d}
           B == EvalBound(p, Around(p, d), CaptureAt(p, d))
<1>1. /\ Len(p) \in Nat /\ d \in 1..Len(p) /\ p[d].kind \in Declarations /\ scs \in Seq(Bindings)
      /\ Layered(p, scs, {0} \cup Around(p, d), BlockNodes(p), B, g)
  BY DEF IsTree, Captures
<1>2. /\ OpenPath(Len(p), <<d>>) /\ Range(<<d>>) = {d} /\ <<d>> # <<>> /\ Len(<<d>>) = 1 /\ <<d>>[1] = d
  <2>1. <<d>> \in Seq(1..Len(p)) /\ Len(<<d>>) = 1 /\ <<d>>[1] = d /\ DOMAIN <<d>> = {1} /\ <<d>> # <<>>
    BY <1>1
  <2>2. Range(<<d>>) = {d}
    BY <2>1 DEF Range
  <2>3. OpenPath(Len(p), <<d>>)
    BY <2>1 DEF OpenPath
  <2> QED BY <2>1, <2>2, <2>3
<1>3. OpenIn(p, <<d>>) = C
  BY <1>2 DEF OpenIn
<1>4. Walk(p, C, d + 1)
  BY <1>1, WalkBody
<1>5. EvalBound(p, C, d + 1) = B
  <2>1. CASE p[d].kind \in Functions
    <3>1. B = EvalBound(p, Around(p, d), d + 1)
      BY <2>1 DEF CaptureAt
    <3> QED BY <2>1, <3>1 DEF EvalBound
  <2>2. CASE p[d].kind \notin Functions
    <3>1. B = EvalBound(p, Around(p, d), d)
      BY <2>2 DEF CaptureAt
    <3>2. \A i \in 1..Len(p) : i < d + 1 <=> i < d \/ i = d
      BY <1>1
    <3>3. d \in C
      OBVIOUS
    <3> QED BY <1>1, <2>2, <3>1, <3>2, <3>3 DEF EvalBound
  <2> QED BY <2>1, <2>2
<1>6. Within(p, d, B) = {}
  <2>1. \A i \in 1..Len(p) : InBlock(p, d, i) => ~(i < d + 1) /\ ~InBlock(p, 0, i)
    BY <1>1 DEF IsTree, InBlock, Inside
  <2> QED BY <1>5, <2>1 DEF Within, EvalBound
<1>7. new[Len(scs) + m] = NoBindings /\ new[Len(scs) + 1] = NoBindings
  OBVIOUS
<1>8. Layered(p, new, {0} \cup C, BlockNodes(p), B, g)
  <2>1. PICK S : S = {0} \cup Around(p, d)
    OBVIOUS
  <2>2. S \subseteq 0..Len(p) /\ (\A b \in S : b < d) /\ S \cup {d} = {0} \cup C
    BY <1>1, <2>1 DEF Around, Inside
  <2>3. d \notin BlockNodes(p)
    BY <1>1 DEF BlockNodes, Declarations, Functions, Closures
  <2>4. Holds(p, new[Len(scs) + m], Within(p, d, B), g) /\ DOMAIN new[Len(scs) + 1] = {}
    BY <1>6, <1>7, NoBindingsHold
  <2>5. Layered(p, new, S \cup {d}, BlockNodes(p), B, g)
    <3> HIDE DEF B
    <3> QED BY <1>1, <2>1, <2>2, <2>3, <2>4, LayeredPush
  <2> QED BY <2>2, <2>5
<1>9. \A k \in 2..Len(<<d>>) : <<d>>[k] \in BlockNodes(p)
  BY <1>2
<1> HIDE DEF C, B
<1> QED BY <1>2, <1>3, <1>4, <1>5, <1>8, <1>9 DEF Frame

LEMMA BodyFrame ==
  ASSUME NEW p, IsTree(p), NEW g, NEW d, NEW scs, Captures(p, g, d, scs)
  PROVE  Frame(p, g, d + 1, <<d>>, scs \o <<NoBindings, NoBindings>>)
<1> DEFINE new == scs \o <<NoBindings, NoBindings>>
<1>1. scs \in Seq(Bindings) /\ NoBindings \in Bindings
  BY NoBindingsHold DEF Captures
<1>2. PICK f : f = NoBindings
  OBVIOUS
<1>3. /\ new \in Seq(Bindings) /\ Len(new) = Len(scs) + 2
      /\ \A k \in 1..Len(scs) : new[k] = scs[k]
      /\ new[Len(scs) + 1] = NoBindings /\ new[Len(scs) + 2] = NoBindings
  BY <1>1, <1>2
<1> HIDE DEF new
<1>4. \A k \in 1..2 : new[Len(scs) + k] = NoBindings
  BY <1>3
<1>5. Frame(p, g, d + 1, <<d>>, new)
  <2>1. 2 \in 1..2
    OBVIOUS
  <2> QED BY <1>3, <1>4, <2>1, BodyIn
<1> QED BY <1>5 DEF new

\* A body that is not at the end of its innermost block is at a node.
LEMMA FrameReady ==
  ASSUME NEW p, IsTree(p), NEW g, NEW x, NEW o, NEW scs, Frame(p, g, x, o, scs),
         ~(x > p[Last(o)].last)
  PROVE  x \in 1..Len(p) /\ Ready(p, OpenIn(p, o), x) /\ \A i \in OpenIn(p, o) : i < x
<1>1. /\ OpenPath(Len(p), o) /\ o # <<>> /\ Walk(p, OpenIn(p, o), x)
  BY DEF Frame
<1>2. PICK C : C = OpenIn(p, o)
  OBVIOUS
<1>3. Last(o) \in C /\ \A i \in C : i <= Last(o)
  BY <1>1, <1>2, OpenInFacts
<1>4. PICK t \in C : t = Last(o)
  BY <1>3
<1>5. t \in 1..Len(p) /\ x \in 1..(Len(p) + 1) /\ p[t].last \in Nat /\ p[t].last <= Len(p) /\ Len(p) \in Nat
  BY <1>1, <1>2 DEF Walk, IsTree
<1>6. x <= p[t].last
  BY <1>4, <1>5
<1>7. Ready(p, C, x)
  BY <1>1, <1>2, <1>3, <1>4, <1>6, ReadyFromTop
<1>8. x \in 1..Len(p)
  BY <1>5, <1>6
<1>9. \A i \in C : i < x
  BY <1>1, <1>2 DEF Walk
<1> QED BY <1>2, <1>7, <1>8, <1>9

\* A block is entered.
LEMMA FrameEnters ==
  ASSUME NEW p, IsTree(p), NEW g, NEW x, NEW o, NEW scs, Frame(p, g, x, o, scs),
         ~(x > p[Last(o)].last), p[x].kind = "block"
  PROVE  Frame(p, g, x + 1, Append(o, x), Append(scs, NoBindings))
<1> DEFINE new == Append(scs, NoBindings)
<1>1. PICK C : C = OpenIn(p, o)
  OBVIOUS
<1>2. PICK B : B = EvalBound(p, C, x)
  OBVIOUS
<1>3. /\ OpenPath(Len(p), o) /\ o # <<>> /\ \A k \in 2..Len(o) : o[k] \in BlockNodes(p)
      /\ Walk(p, C, x) /\ scs \in Seq(Bindings)
      /\ Layered(p, scs, {0} \cup C, BlockNodes(p), B, g)
  BY <1>1, <1>2 DEF Frame
<1>4. x \in 1..Len(p) /\ Ready(p, C, x) /\ \A i \in C : i < x
  BY <1>1, FrameReady
<1>5. x \in BlockNodes(p) /\ p[x].kind \notin Declarations /\ Size(p, x) = 1
  BY <1>4 DEF BlockNodes, Declarations, Functions, Closures, Size
<1>6. /\ OpenPath(Len(p), Append(o, x)) /\ Append(o, x) # <<>>
      /\ OpenIn(p, Append(o, x)) = C \cup {x}
      /\ \A k \in 2..Len(Append(o, x)) : Append(o, x)[k] \in BlockNodes(p)
  BY <1>1, <1>3, <1>4, <1>5, OpenInPush
<1>7. Walk(p, C \cup {x}, x + 1)
  BY <1>3, <1>4, WalkInto
<1>8. EvalBound(p, C \cup {x}, x + 1) = B /\ Within(p, x, B) = {}
  BY <1>2, <1>4, <1>5, EvalBoundStays
<1>9. /\ new \in Seq(Bindings) /\ Len(new) = Len(scs) + 1 /\ new[Len(scs) + 1] = NoBindings
      /\ \A k \in 1..Len(scs) : new[k] = scs[k]
  BY <1>3, NoBindingsHold, AppendFacts
<1>10. Layered(p, new, {0} \cup (C \cup {x}), BlockNodes(p), B, g)
  <2>1. PICK S : S = {0} \cup C
    OBVIOUS
  <2>2. /\ S \subseteq 0..Len(p) /\ (\A b \in S : b < x) /\ S \cup {x} = {0} \cup (C \cup {x})
        /\ Len(p) \in Nat
    BY <1>3, <1>4, <2>1 DEF Walk, IsTree
  <2>3. Holds(p, new[Len(scs) + 1], Within(p, x, B), g) /\ 1 \in 1..2
    BY <1>8, <1>9, NoBindingsHold
  <2>4. Layered(p, new, S \cup {x}, BlockNodes(p), B, g)
    <3> HIDE DEF new
    <3> QED BY <1>3, <1>4, <1>5, <1>9, <2>1, <2>2, <2>3, LayeredPush
  <2> QED BY <2>2, <2>4
<1> HIDE DEF new
<1>11. Frame(p, g, x + 1, Append(o, x), new)
  BY <1>6, <1>7, <1>8, <1>9, <1>10 DEF Frame
<1> QED BY <1>11 DEF new

\* A block is left.
LEMMA FrameLeaves ==
  ASSUME NEW p, IsTree(p), NEW g, NEW x, NEW o, NEW scs, Frame(p, g, x, o, scs),
         x > p[Last(o)].last, Len(o) > 1
  PROVE  Frame(p, g, x, Front(o), pop(scs, 1))
<1>1. PICK C : C = OpenIn(p, o)
  OBVIOUS
<1>2. PICK B : B = EvalBound(p, C, x)
  OBVIOUS
<1>3. /\ OpenPath(Len(p), o) /\ o # <<>> /\ \A k \in 2..Len(o) : o[k] \in BlockNodes(p)
      /\ Walk(p, C, x) /\ scs \in Seq(Bindings)
      /\ Layered(p, scs, {0} \cup C, BlockNodes(p), B, g)
  BY <1>1, <1>2 DEF Frame
<1>4. /\ OpenPath(Len(p), Front(o)) /\ Front(o) # <<>>
      /\ OpenIn(p, Front(o)) = C \ {Last(o)}
      /\ Last(o) \in BlockNodes(p)
      /\ \A k \in 2..Len(Front(o)) : Front(o)[k] \in BlockNodes(p)
  BY <1>1, <1>3, OpenInPop
<1>5. PICK t : t = Last(o)
  OBVIOUS
<1>6. t \in C /\ (\A i \in C : i <= t) /\ t \in BlockNodes(p) /\ t \in 1..Len(p) /\ x \in 1..(Len(p) + 1)
  BY <1>1, <1>3, <1>4, <1>5, OpenInFacts DEF Walk
<1>7. p[t].last < x /\ Size(p, t) = 1
  BY <1>5, <1>6 DEF IsTree, Size, BlockNodes
<1>8. Walk(p, C \ {t}, x)
  BY <1>3, <1>6, <1>7, WalkOut
<1>9. EvalBound(p, C \ {t}, x) = B
  <2>1. \A i \in 1..Len(p) : p[i].kind \in Declarations => i # t
    BY <1>6 DEF BlockNodes, Declarations, Functions, Closures
  <2> QED BY <1>2, <2>1 DEF EvalBound
<1>10. /\ pop(scs, 1) \in Seq(Bindings)
       /\ Layered(p, pop(scs, 1), {0} \cup (C \ {t}), BlockNodes(p), B, g)
  <2>1. /\ pop(scs, Size(p, t)) \in Seq(Bindings)
        /\ Layered(p, pop(scs, Size(p, t)), {0} \cup (C \ {t}), BlockNodes(p), B, g)
    BY <1>3, <1>6, LeaveScopes
  <2> QED BY <1>7, <2>1
<1>11. OpenIn(p, Front(o)) = C \ {t}
  BY <1>4, <1>5
<1> HIDE DEF Front, pop
<1> QED BY <1>4, <1>8, <1>9, <1>10, <1>11 DEF Frame

\* A body goes on behind a call.
LEMMA FramePasses ==
  ASSUME NEW p, IsTree(p), NEW g, NEW x, NEW o, NEW scs, Frame(p, g, x, o, scs),
         ~(x > p[Last(o)].last), p[x].kind = "call", p[x].last = x
  PROVE  Frame(p, g, x + 1, o, scs)
<1>1. x \in 1..Len(p) /\ Ready(p, OpenIn(p, o), x)
  BY FrameReady
<1>2. Walk(p, OpenIn(p, o), x + 1)
  BY <1>1, WalkPast DEF Frame
<1>3. p[x].kind \notin Declarations
  BY DEF Declarations, Functions, Closures
<1>4. EvalBound(p, OpenIn(p, o), x + 1) = EvalBound(p, OpenIn(p, o), x)
  BY <1>1, <1>3, EvalBoundStays
<1> QED BY <1>2, <1>4 DEF Frame

\* A declaration is evaluated, and its closure is in a new cell.
LEMMA FrameDeclares ==
  ASSUME NEW p, IsProgram(p), NEW g, NEW x, NEW o, NEW scs, Frame(p, g, x, o, scs),
         ~(x > p[Last(o)].last), p[x].kind \in Declarations,
         NEW h, NEW v \in Nat, Extends(h, g), v \in DOMAIN h, h[v] = x
  PROVE  /\ x \in 1..Len(p)
         /\ Frame(p, h, p[x].last + 1, o, bind(scs, p[x].name, v))
         /\ bind(scs, p[x].name, v) \in Seq(Bindings)
         /\ p[x].kind \in Functions => Captures(p, h, x, bind(scs, p[x].name, v))
         /\ p[x].kind \notin Functions => Captures(p, h, x, scs)
<1> DEFINE new == bind(scs, p[x].name, v)
<1>0. IsTree(p)
  BY ProgramIsTree
<1>1. PICK C : C = OpenIn(p, o)
  OBVIOUS
<1>2. /\ OpenPath(Len(p), o) /\ o # <<>> /\ \A k \in 2..Len(o) : o[k] \in BlockNodes(p)
      /\ Walk(p, C, x) /\ scs \in Seq(Bindings)
      /\ Layered(p, scs, {0} \cup C, BlockNodes(p), EvalBound(p, C, x), g)
  BY <1>1 DEF Frame
<1>3. x \in 1..Len(p) /\ Ready(p, C, x)
  BY <1>0, <1>1, FrameReady
<1>4. Around(p, x) = C
  BY <1>0, <1>2, <1>3, AroundNext
<1>5. /\ new \in Seq(Bindings)
      /\ Layered(p, new, {0} \cup C, BlockNodes(p), EvalBound(p, C, x + 1), h)
      /\ Layered(p, new, {0} \cup C, BlockNodes(p), EvalBound(p, C, p[x].last + 1), h)
  BY <1>2, <1>3, Declared
<1>6. Walk(p, C, p[x].last + 1)
  BY <1>0, <1>2, <1>3, WalkPast
<1> HIDE DEF new
<1>7. Frame(p, h, p[x].last + 1, o, new)
  BY <1>1, <1>2, <1>5, <1>6 DEF Frame
<1>8. ASSUME p[x].kind \in Functions PROVE Captures(p, h, x, new)
  <2>1. CaptureAt(p, x) = x + 1
    BY <1>8 DEF CaptureAt
  <2> QED BY <1>3, <1>4, <1>5, <2>1 DEF Captures
<1>9. ASSUME p[x].kind \notin Functions PROVE Captures(p, h, x, scs)
  <2>1. CaptureAt(p, x) = x
    BY <1>9 DEF CaptureAt
  <2>2. Captures(p, g, x, scs)
    BY <1>2, <1>3, <1>4, <2>1 DEF Captures
  <2> QED BY <2>2, FrameExtends
<1> QED BY <1>3, <1>5, <1>7, <1>8, <1>9 DEF new

\* Every closure has captured its scopes, the body that runs and those that
\* wait for it are in theirs, and what is undefined is declared later.
Cell == [decl : Nat, captured : Seq(Bindings)]
Caller == [pc : Nat, open : Seq(Nat), scopes : Seq(Bindings)]
DeclOf(cs) == [c \in 1..Len(cs) |-> cs[c].decl]
Evaluating ==
  /\ cells \in Seq(Cell) /\ calls \in Seq(Caller)
  /\ \A c \in 1..Len(cells) : Captures(program, DeclOf(cells), cells[c].decl, cells[c].captured)
  /\ Frame(program, DeclOf(cells), pc, open, scopes)
  /\ \A k \in 1..Len(calls) :
       Frame(program, DeclOf(cells), calls[k].pc, calls[k].open, calls[k].scopes)
  /\ outcome = "R0003" => LaterFunction(pc)

\* Every call that ran, ran what it means.
Ran == \A r \in ran : \E q \in Calls, d \in Nodes : r = <<q, d>> /\ RunsRight(q, d)

EvalInv ==
  /\ phase \in {"evaluate", "done"} => Evaluating
  /\ phase # "evaluate" => outcome # "R0003"
  /\ phase \in {"infer", "construct"} => calls = <<>> /\ ran = {}
  /\ Ran

LEMMA RanStays ==
  ASSUME program' = program, Ran, ran' = ran
  PROVE  Ran'
<1>1. /\ Nodes' = Nodes /\ Calls' = Calls
      /\ \A d : Kind(d)' = Kind(d)
      /\ \A x : Meaning(x)' = Meaning(x)
      /\ \A x : LaterFunction(x)' = LaterFunction(x)
  BY ProgramStays
<1>2. \A q, d : RunsRight(q, d)' = RunsRight(q, d)
  BY <1>1 DEF RunsRight
<1> QED BY <1>1, <1>2 DEF Ran

\* A call of a program that inference has accepted means something.
LEMMA CallsMean ==
  ASSUME InferInv, phase # "infer", NEW q \in Calls
  PROVE  Meaning(q) # {}
<1>1. q \in Nodes /\ IsTree(program)
  BY ProgramIsTree DEF Calls, InferInv
<1>2. FoundWell(inferred[q], q) /\ inferred[q] # {}
  BY DEF InferInv, Inferred
<1>3. PICK d : Visible(d, q)
  BY <1>2 DEF FoundWell
<1>4. ~NothingShown(q)
  BY <1>3 DEF Visible, NothingShown
<1>5. CASE Meaning(q) = {} /\ NothingShown(q)
  BY <1>4, <1>5
<1>6. CASE \E b, m : Meaning(q) = {m} /\ ShownBy(q, b, m)
  BY <1>6
<1> QED BY <1>1, <1>5, <1>6, MeaningIs

\* Where the next step of evaluation stands.
LEMMA EvaluationAt ==
  ASSUME InferInv, EvalInv, Evaluates
  PROVE  /\ IsProgram(program) /\ IsTree(program) /\ Evaluating /\ Ran
         /\ phase = "evaluate" /\ outcome = "running"
         /\ Len(open) \in Nat /\ open # <<>> /\ OpenPath(Len(program), open)
         /\ AtEnd <=> pc > program[Last(open)].last
         /\ ~AtEnd => pc \in 1..Len(program) /\ pc \in Nodes
<1>1. IsProgram(program) /\ IsTree(program)
  BY ProgramIsTree DEF InferInv
<1>2. Evaluating /\ Ran /\ phase = "evaluate" /\ outcome = "running"
  BY DEF EvalInv, Evaluates
<1>3. Frame(program, DeclOf(cells), pc, open, scopes)
  BY <1>2 DEF Evaluating
<1>4. open # <<>> /\ OpenPath(Len(program), open) /\ Len(open) \in Nat
  BY <1>3, LenProperties DEF Frame, OpenPath
<1>5. AtEnd <=> pc > program[Last(open)].last
  BY <1>4 DEF AtEnd, Innermost
<1>6. ~AtEnd => pc \in 1..Len(program)
  BY <1>1, <1>3, <1>5, FrameReady
<1> QED BY <1>1, <1>2, <1>4, <1>5, <1>6 DEF Nodes

\* The body that runs is elsewhere in its scopes.
LEMMA EvaluatesOn ==
  ASSUME InferInv, EvalInv, Evaluates,
         Frame(program, DeclOf(cells), pc', open', scopes'),
         UNCHANGED <<program, phase, cells, calls, ran, outcome>>
  PROVE  EvalInv'
<1>1. Evaluating /\ Ran /\ phase = "evaluate" /\ outcome = "running"
  BY EvaluationAt
<1>2. Ran'
  BY <1>1, RanStays
<1>3. Evaluating'
  BY <1>1 DEF Evaluating
<1> QED BY <1>1, <1>2, <1>3 DEF EvalInv

LEMMA EvalBlockStep == InferInv /\ EvalInv /\ EvalBlock => EvalInv'
<1> SUFFICES ASSUME InferInv, EvalInv, EvalBlock PROVE EvalInv'
  OBVIOUS
<1>1. /\ Evaluates /\ ~AtEnd /\ program[pc].kind = "block"
      /\ scopes' = Append(scopes, NoBindings) /\ open' = Append(open, pc) /\ pc' = pc + 1
      /\ UNCHANGED <<program, phase, cells, calls, ran, outcome>>
  BY DEF EvalBlock, Current
<1>2. Frame(program, DeclOf(cells), pc, open, scopes) /\ IsTree(program) /\ ~(pc > program[Last(open)].last)
  BY <1>1, EvaluationAt DEF Evaluating
<1>3. Frame(program, DeclOf(cells), pc + 1, Append(open, pc), Append(scopes, NoBindings))
  BY <1>1, <1>2, FrameEnters
<1> QED BY <1>1, <1>3, EvaluatesOn

LEMMA LeaveBlockStep == InferInv /\ EvalInv /\ LeaveBlock => EvalInv'
<1> SUFFICES ASSUME InferInv, EvalInv, LeaveBlock PROVE EvalInv'
  OBVIOUS
<1>1. /\ Evaluates /\ AtEnd /\ Len(open) > 1
      /\ scopes' = pop(scopes, 1) /\ open' = Front(open)
      /\ UNCHANGED <<program, phase, pc, cells, calls, ran, outcome>>
  BY DEF LeaveBlock
<1>2. Frame(program, DeclOf(cells), pc, open, scopes) /\ IsTree(program) /\ pc > program[Last(open)].last
  BY <1>1, EvaluationAt DEF Evaluating
<1>3. Frame(program, DeclOf(cells), pc, Front(open), pop(scopes, 1))
  BY <1>1, <1>2, FrameLeaves
<1> HIDE DEF Front, pop
<1> QED BY <1>1, <1>3, EvaluatesOn

\* A declaration is evaluated.
LEMMA EvalDeclares ==
  ASSUME InferInv, EvalInv, Evaluates, ~AtEnd, program[pc].kind \in Declarations,
         NEW captured,
         program[pc].kind \in Functions => captured = bind(scopes, program[pc].name, NewCell),
         program[pc].kind \notin Functions => captured = scopes,
         scopes' = bind(scopes, program[pc].name, NewCell),
         cells' = Append(cells, [decl |-> pc, captured |-> captured]),
         pc' = program[pc].last + 1,
         UNCHANGED <<program, phase, open, calls, ran, outcome>>
  PROVE  EvalInv'
<1> DEFINE g == DeclOf(cells)
           cell == [decl |-> pc, captured |-> captured]
           new == Append(cells, cell)
           h == DeclOf(new)
<1>1. /\ IsProgram(program) /\ Evaluating /\ Ran /\ phase = "evaluate" /\ outcome = "running"
      /\ pc \in 1..Len(program) /\ ~(pc > program[Last(open)].last)
  BY EvaluationAt
<1>2. /\ cells \in Seq(Cell) /\ calls \in Seq(Caller)
      /\ \A c \in 1..Len(cells) : Captures(program, g, cells[c].decl, cells[c].captured)
      /\ Frame(program, g, pc, open, scopes)
      /\ \A k \in 1..Len(calls) : Frame(program, g, calls[k].pc, calls[k].open, calls[k].scopes)
  BY <1>1 DEF Evaluating
<1>3. Len(cells) \in Nat /\ NewCell = Len(cells) + 1 /\ NewCell \in Nat /\ pc \in Nat
  BY <1>1, <1>2, LenProperties DEF NewCell
<1>4. Len(new) = Len(cells) + 1 /\ new[NewCell] = cell /\ \A c \in 1..Len(cells) : new[c] = cells[c]
  <2> HIDE DEF cell
  <2> QED BY <1>2, <1>3, AppendProperties
<1>5. /\ DOMAIN h = 1..(Len(cells) + 1) /\ NewCell \in DOMAIN h /\ h[NewCell] = pc
      /\ \A c \in 1..Len(cells) : h[c] = cells[c].decl
  BY <1>3, <1>4 DEF DeclOf
<1>6. Extends(h, g)
  BY <1>3, <1>5 DEF Extends, DeclOf
<1> HIDE DEF g, h
<1>7. /\ Frame(program, h, program[pc].last + 1, open, bind(scopes, program[pc].name, NewCell))
      /\ bind(scopes, program[pc].name, NewCell) \in Seq(Bindings)
      /\ program[pc].kind \in Functions => Captures(program, h, pc, bind(scopes, program[pc].name, NewCell))
      /\ program[pc].kind \notin Functions => Captures(program, h, pc, scopes)
  BY <1>1, <1>2, <1>3, <1>5, <1>6, FrameDeclares
<1>8. /\ captured \in Seq(Bindings)
      /\ Captures(program, h, pc, captured)
  <2>1. scopes \in Seq(Bindings)
    BY <1>2 DEF Frame
  <2> QED BY <1>7, <2>1
<1>9. cell \in Cell /\ new \in Seq(Cell)
  <2>1. cell \in Cell
    BY <1>3, <1>8 DEF Cell
  <2> HIDE DEF cell
  <2> QED BY <1>2, <2>1, AppendProperties
<1>10. \A c \in 1..Len(new) : Captures(program, h, new[c].decl, new[c].captured)
  <2> TAKE c \in 1..Len(new)
  <2>1. CASE c = NewCell
    BY <1>4, <1>8, <2>1
  <2>2. CASE c \in 1..Len(cells)
    BY <1>2, <1>4, <1>6, <2>2, FrameExtends
  <2> QED BY <1>3, <1>4, <2>1, <2>2
<1>11. \A k \in 1..Len(calls) : Frame(program, h, calls[k].pc, calls[k].open, calls[k].scopes)
  BY <1>2, <1>6, FrameExtends
<1>12. Ran'
  BY <1>1, RanStays
<1>13. cells' = new /\ DeclOf(cells)' = h
  BY DEF h
<1> HIDE DEF new
<1>14. Evaluating'
  BY <1>1, <1>2, <1>7, <1>9, <1>10, <1>11, <1>13 DEF Evaluating
<1> QED BY <1>1, <1>12, <1>14 DEF EvalInv

LEMMA EvalFunStep == InferInv /\ EvalInv /\ EvalFun => EvalInv'
<1> SUFFICES ASSUME InferInv, EvalInv, EvalFun PROVE EvalInv'
  OBVIOUS
<1>1. /\ Evaluates /\ ~AtEnd /\ program[pc].kind \in Functions
      /\ scopes' = bind(scopes, program[pc].name, NewCell)
      /\ cells' = Append(cells, [decl |-> pc, captured |-> bind(scopes, program[pc].name, NewCell)])
      /\ pc' = program[pc].last + 1
      /\ UNCHANGED <<program, phase, open, calls, ran, outcome>>
  BY DEF EvalFun, Current
<1>2. program[pc].kind \in Declarations
  BY <1>1 DEF Declarations
<1> HIDE DEF bind
<1> QED BY <1>1, <1>2, EvalDeclares

LEMMA EvalLetStep == InferInv /\ EvalInv /\ EvalLet => EvalInv'
<1> SUFFICES ASSUME InferInv, EvalInv, EvalLet PROVE EvalInv'
  OBVIOUS
<1>1. /\ Evaluates /\ ~AtEnd /\ program[pc].kind \in Closures
      /\ scopes' = bind(scopes, program[pc].name, NewCell)
      /\ cells' = Append(cells, [decl |-> pc, captured |-> scopes])
      /\ pc' = program[pc].last + 1
      /\ UNCHANGED <<program, phase, open, calls, ran, outcome>>
  BY DEF EvalLet, Current
<1>2. program[pc].kind \in Declarations /\ program[pc].kind \notin Functions
  BY <1>1 DEF Declarations, Functions, Closures
<1> HIDE DEF bind
<1> QED BY <1>1, <1>2, EvalDeclares

\* What the next call finds.
LEMMA CallAt ==
  ASSUME InferInv, EvalInv, Evaluates, ~AtEnd, program[pc].kind = "call"
  PROVE  /\ Finds(lookup(scopes, program[pc].name), DeclOf(cells), pc)
         /\ pc \in Calls /\ program[pc].last = pc
<1>1. /\ IsProgram(program) /\ IsTree(program) /\ Evaluating /\ phase = "evaluate"
      /\ pc \in 1..Len(program) /\ pc \in Nodes /\ ~(pc > program[Last(open)].last)
  BY EvaluationAt
<1>2. PICK C : C = OpenIn(program, open)
  OBVIOUS
<1>3. Frame(program, DeclOf(cells), pc, open, scopes)
  BY <1>1 DEF Evaluating
<1>4. /\ Walk(program, C, pc) /\ scopes \in Seq(Bindings)
      /\ Layered(program, scopes, {0} \cup C, BlockNodes(program), EvalBound(program, C, pc), DeclOf(cells))
  BY <1>2, <1>3 DEF Frame
<1>5. Ready(program, C, pc)
  BY <1>1, <1>2, <1>3, FrameReady
<1>6. pc \in Calls /\ Kind(pc) = "call"
  BY <1>1 DEF Calls, Kind
<1>7. Meaning(pc) # {}
  BY <1>1, <1>6, CallsMean
<1>8. Finds(lookup(scopes, program[pc].name), DeclOf(cells), pc)
  BY <1>1, <1>4, <1>5, <1>6, <1>7, EvalFinds
<1>9. program[pc].last = pc
  BY <1>1, ProgramIsTree DEF IsProgram
<1> QED BY <1>6, <1>8, <1>9

LEMMA EvalCallStep == InferInv /\ EvalInv /\ EvalCall => EvalInv'
<1> SUFFICES ASSUME InferInv, EvalInv, EvalCall PROVE EvalInv'
  OBVIOUS
<1> DEFINE g == DeclOf(cells)
           caller == [pc |-> pc + 1, open |-> open, scopes |-> scopes]
           closure == cells[CHOOSE c \in Found : TRUE]
<1>1. /\ Evaluates /\ ~AtEnd /\ program[pc].kind = "call" /\ Found # {}
      /\ ran' = ran \cup {<<pc, closure.decl>>}
      /\ scopes' = closure.captured \o <<NoBindings, NoBindings>>
      /\ open' = <<closure.decl>> /\ pc' = closure.decl + 1
      /\ calls' = Append(calls, caller)
      /\ UNCHANGED <<program, phase, cells, outcome>>
  BY DEF EvalCall, Current, call_env
<1>2. /\ IsTree(program) /\ Evaluating /\ Ran /\ phase = "evaluate" /\ outcome = "running"
      /\ pc \in 1..Len(program) /\ ~(pc > program[Last(open)].last) /\ OpenPath(Len(program), open)
  BY <1>1, EvaluationAt
<1>3. /\ cells \in Seq(Cell) /\ calls \in Seq(Caller)
      /\ \A c \in 1..Len(cells) : Captures(program, g, cells[c].decl, cells[c].captured)
      /\ Frame(program, g, pc, open, scopes)
      /\ \A k \in 1..Len(calls) : Frame(program, g, calls[k].pc, calls[k].open, calls[k].scopes)
  BY <1>2 DEF Evaluating
<1>4. PICK v \in DOMAIN g : Found = {v} /\ RunsRight(pc, g[v])
  BY <1>1, CallAt DEF Finds, Found, Current
<1>5. v \in 1..Len(cells) /\ g[v] = cells[v].decl /\ closure = cells[v]
  <2>1. (CHOOSE c \in Found : TRUE) = v
    BY <1>4
  <2> QED BY <2>1 DEF DeclOf
<1> HIDE DEF g, closure
<1>6. PICK d : d = closure.decl
  OBVIOUS
<1>7. Captures(program, g, d, closure.captured) /\ RunsRight(pc, d)
  BY <1>3, <1>4, <1>5, <1>6
<1>8. Frame(program, g, d + 1, <<d>>, closure.captured \o <<NoBindings, NoBindings>>)
  BY <1>2, <1>7, BodyFrame
<1>9. pc \in Calls /\ program[pc].last = pc
  BY <1>1, CallAt
<1>10. Frame(program, g, pc + 1, open, scopes)
  BY <1>1, <1>2, <1>3, <1>9, FramePasses
<1>11. caller \in Caller
  <2>1. open \in Seq(1..Len(program))
    BY <1>2 DEF OpenPath
  <2>2. open \in Seq(Nat)
    <3>1. \A i \in 1..Len(open) : open[i] \in Nat
      BY <2>1, ElementOfSeq
    <3> QED BY <2>1, <3>1, SeqOfMembers
  <2>3. scopes \in Seq(Bindings) /\ pc + 1 \in Nat
    BY <1>2, <1>3 DEF Frame
  <2> QED BY <2>2, <2>3 DEF Caller
<1>12. /\ calls' \in Seq(Caller) /\ Len(calls') = Len(calls) + 1 /\ Len(calls) \in Nat
       /\ calls'[Len(calls) + 1] = caller
       /\ \A k \in 1..Len(calls) : calls'[k] = calls[k]
  <2> HIDE DEF caller
  <2> QED BY <1>1, <1>3, <1>11, AppendFacts, LenProperties
<1>13. ASSUME NEW k \in 1..Len(calls')
       PROVE  Frame(program, g, calls'[k].pc, calls'[k].open, calls'[k].scopes)
  <2>1. CASE k = Len(calls) + 1
    BY <1>10, <1>12, <2>1
  <2>2. CASE k \in 1..Len(calls)
    BY <1>3, <1>12, <2>2
  <2> QED BY <1>12, <2>1, <2>2
<1>14. DeclOf(cells)' = g /\ cells' = cells
  BY <1>1 DEF g
<1>15. Frame(program, g, d + 1, <<d>>, scopes') /\ open' = <<d>> /\ pc' = d + 1
  BY <1>1, <1>6, <1>8
<1>16. Evaluating'
  BY <1>1, <1>2, <1>3, <1>12, <1>13, <1>14, <1>15 DEF Evaluating
<1>17. Ran'
  <2>1. /\ Nodes' = Nodes /\ Calls' = Calls
        /\ \A e : Kind(e)' = Kind(e)
        /\ \A x : Meaning(x)' = Meaning(x)
        /\ \A x : LaterFunction(x)' = LaterFunction(x)
    BY <1>1, ProgramStays
  <2>2. \A q, e : RunsRight(q, e)' = RunsRight(q, e)
    BY <1>1, <2>1 DEF RunsRight
  <2>3. ran' = ran \cup {<<pc, d>>}
    BY <1>1, <1>6
  <2>4. d \in Nodes
    BY <1>7 DEF RunsRight
  <2>5. ASSUME NEW r \in ran'
        PROVE  \E q \in Calls, e \in Nodes : r = <<q, e>> /\ RunsRight(q, e)
    <3>1. CASE r \in ran
      BY <1>2, <3>1 DEF Ran
    <3>2. CASE r = <<pc, d>>
      BY <1>7, <1>9, <2>4, <3>2
    <3> QED BY <2>3, <3>1, <3>2
  <2> QED BY <2>1, <2>2, <2>5 DEF Ran
<1> QED BY <1>1, <1>2, <1>16, <1>17 DEF EvalInv

LEMMA EvalCallFailsStep == InferInv /\ EvalInv /\ EvalCallFails => EvalInv'
<1> SUFFICES ASSUME InferInv, EvalInv, EvalCallFails PROVE EvalInv'
  OBVIOUS
<1>1. /\ Evaluates /\ ~AtEnd /\ program[pc].kind = "call"
      /\ outcome' = "R0003" => Found = {}
      /\ UNCHANGED <<program, phase, pc, open, scopes, cells, calls, ran>>
  BY DEF EvalCallFails, Current, evaluate_vars
<1>2. Evaluating /\ Ran /\ phase = "evaluate"
  BY <1>1, EvaluationAt
<1>3. Finds(Found, DeclOf(cells), pc)
  BY <1>1, CallAt DEF Found, Current
<1>4. outcome' = "R0003" => LaterFunction(pc)
  BY <1>1, <1>3 DEF Finds
<1>5. LaterFunction(pc)' = LaterFunction(pc)
  <2>1. \A x : LaterFunction(x)' = LaterFunction(x)
    BY <1>1, ProgramStays
  <2> QED BY <1>1, <2>1
<1>6. Ran'
  BY <1>1, <1>2, RanStays
<1>7. Evaluating'
  BY <1>1, <1>2, <1>4, <1>5 DEF Evaluating
<1> QED BY <1>1, <1>2, <1>6, <1>7 DEF EvalInv

\* A body ends, and its caller goes on.
LEMMA ReturnStep == InferInv /\ EvalInv /\ Return => EvalInv'
<1> SUFFICES ASSUME InferInv, EvalInv, Return PROVE EvalInv'
  OBVIOUS
<1> DEFINE g == DeclOf(cells)
           n == Len(calls)
<1>1. /\ Evaluates /\ calls # <<>>
      /\ pc' = Last(calls).pc /\ open' = Last(calls).open /\ scopes' = Last(calls).scopes
      /\ calls' = Front(calls)
      /\ UNCHANGED <<program, phase, cells, ran, outcome>>
  BY DEF Return
<1>2. Evaluating /\ Ran /\ phase = "evaluate" /\ outcome = "running"
  BY <1>1, EvaluationAt
<1>3. /\ cells \in Seq(Cell) /\ calls \in Seq(Caller)
      /\ \A c \in 1..Len(cells) : Captures(program, g, cells[c].decl, cells[c].captured)
      /\ \A k \in 1..n : Frame(program, g, calls[k].pc, calls[k].open, calls[k].scopes)
  BY <1>2 DEF Evaluating
<1>4. n \in Nat \ {0} /\ Last(calls) = calls[n]
  BY <1>1, <1>3, LastFacts
<1>5. /\ Front(calls) \in Seq(Caller) /\ Len(Front(calls)) = n - 1
      /\ \A k \in 1..(n - 1) : Front(calls)[k] = calls[k]
  BY <1>1, <1>3, FrontTypes
<1> HIDE DEF Front, Last, g
<1>6. Frame(program, g, pc', open', scopes')
  <2>1. n \in 1..n
    BY <1>4
  <2> QED BY <1>1, <1>3, <1>4, <2>1
<1>7. ASSUME NEW k \in 1..Len(calls')
      PROVE  Frame(program, g, calls'[k].pc, calls'[k].open, calls'[k].scopes)
  <2>1. k \in 1..(n - 1) /\ k \in 1..n
    BY <1>1, <1>4, <1>5
  <2> QED BY <1>1, <1>3, <1>5, <2>1
<1>8. DeclOf(cells)' = g
  BY <1>1 DEF g
<1>9. Evaluating'
  BY <1>1, <1>2, <1>3, <1>5, <1>6, <1>7, <1>8 DEF Evaluating
<1>10. Ran'
  BY <1>1, <1>2, RanStays
<1> QED BY <1>1, <1>2, <1>9, <1>10 DEF EvalInv

LEMMA MainReturnsStep == InferInv /\ EvalInv /\ MainReturns => EvalInv'
<1> SUFFICES ASSUME InferInv, EvalInv, MainReturns PROVE EvalInv'
  OBVIOUS
<1>1. /\ Evaluates /\ phase' = "done" /\ outcome' = "ok"
      /\ UNCHANGED <<program, pc, open, scopes, cells, calls, ran>>
  BY DEF MainReturns, evaluate_vars
<1>2. Evaluating /\ Ran
  BY <1>1, EvaluationAt
<1>3. Ran'
  BY <1>1, <1>2, RanStays
<1>4. Evaluating'
  BY <1>1, <1>2 DEF Evaluating
<1> QED BY <1>1, <1>3, <1>4 DEF EvalInv

\* The passes before evaluation run nothing.
LEMMA EvalQuiet ==
  ASSUME EvalInv, phase \in {"infer", "construct"}, phase' \in {"infer", "construct"},
         outcome' # "R0003", UNCHANGED <<program, calls, ran>>
  PROVE  EvalInv'
<1>1. Ran'
  BY RanStays DEF EvalInv
<1> QED BY <1>1 DEF EvalInv

\* The order of a finite set lists every member.
LEMMA OrderFacts ==
  ASSUME NEW S, IsFiniteSet(S)
  PROVE  /\ Cardinality(S) \in Nat /\ SetToSeq(S) \in [1..Cardinality(S) -> S]
         /\ \A x \in S : \E c \in 1..Cardinality(S) : SetToSeq(S)[c] = x
<1> DEFINE n == Cardinality(S)
           f == SetToSeq(S)
<1>1. n \in Nat /\ ExistsBijection(1..n, S)
  BY FS_CardinalityType
<1>2. \E b \in [1..n -> S] : IsInjective(b)
  <2>1. PICK b : b \in Bijection(1..n, S)
    BY <1>1 DEF ExistsBijection
  <2>2. b \in Injection(1..n, S)
    BY <2>1 DEF Bijection
  <2> QED BY <2>2 DEF Injection
<1>3. f \in [1..n -> S] /\ IsInjective(f)
  BY <1>2 DEF SetToSeq
<1> HIDE DEF f
<1>4. f \in Injection(1..n, S)
  BY <1>3 DEF Injection
<1>5. Cardinality(1..n) = n
  BY <1>1, FS_Interval
<1>6. f \in Surjection(1..n, S)
  BY <1>4, <1>5, FS_Injection
<1>7. \A x \in S : \E c \in 1..n : f[c] = x
  BY <1>6 DEF Surjection
<1> QED BY <1>1, <1>3, <1>7 DEF f

\* The functions of the module.
Globals == {i \in Nodes : InBlock(program, 0, i) /\ program[i].kind \in Functions}

LEMMA GlobalFunctions ==
  ASSUME IsProgram(program)
  PROVE  /\ FunctionsOf(0, Functions) \in Bindings
         /\ Holds(program, FunctionsOf(0, Functions), Globals, [i \in Nodes |-> i])
         /\ {FunctionsOf(0, Functions)[n] : n \in DOMAIN FunctionsOf(0, Functions)} = Globals
         /\ IsFiniteSet(Globals) /\ Main \in Globals
         /\ \A d \in Globals : Around(program, d) = {} /\ program[d].kind \in Functions
         /\ \A C, x : Within(program, 0, EvalBound(program, C, x)) = Globals
<1> DEFINE funs == FunctionsOf(0, Functions)
<1>1. IsTree(program) /\ Len(program) \in Nat /\ DOMAIN program = 1..Len(program) /\ 0 \in 0..Len(program)
  BY ProgramIsTree DEF IsTree
<1>2. funs \in Bindings /\ Holds(program, funs, Globals, [i \in Nodes |-> i])
  BY <1>1, Hoisted DEF Globals
<1> HIDE DEF funs
<1>3. /\ DOMAIN funs = {program[i].name : i \in Globals}
      /\ \A n \in DOMAIN funs : funs[n] \in Globals /\ program[funs[n]].name = n
  BY <1>2 DEF Holds, Globals
<1>4. ASSUME NEW i \in Globals PROVE i \in {funs[n] : n \in DOMAIN funs}
  <2>1. PICK n \in DOMAIN funs : n = program[i].name
    BY <1>3
  <2>2. funs[n] \in Globals /\ program[funs[n]].name = program[i].name
    BY <1>3, <2>1
  <2>3. PICK j \in Globals : j = funs[n]
    BY <2>2
  <2>4. /\ i \in 1..Len(program) /\ j \in 1..Len(program)
        /\ InBlock(program, 0, i) /\ InBlock(program, 0, j)
        /\ program[i].kind \in Functions /\ program[j].kind \in Functions
        /\ program[i].name = program[j].name
    BY <2>2, <2>3 DEF Globals, Nodes
  <2>5. i = j
    BY <1>1, <2>4, OneName DEF Declarations
  <2> QED BY <2>3, <2>5
<1>5. {funs[n] : n \in DOMAIN funs} = Globals
  BY <1>3, <1>4
<1>6. IsFiniteSet(Globals)
  <2>1. IsFiniteSet(1..Len(program))
    BY <1>1, FS_Interval
  <2>2. Globals \subseteq 1..Len(program)
    BY DEF Globals, Nodes
  <2> QED BY <2>1, <2>2, FS_Subset
<1>7. Main \in Globals
  <2>1. \E i \in Nodes : program[i].name = "main"
    BY <1>1 DEF IsProgram, Nodes
  <2>2. Main \in 1..Len(program) /\ Main \in Nodes /\ program[Main].name = "main"
    BY <2>1 DEF Main, Nodes
  <2>3. program[Main].kind = "fun" /\ Around(program, Main) = {}
    BY <1>1, <2>2 DEF IsProgram
  <2>4. InBlock(program, 0, Main)
    BY <1>1, <2>2, <2>3, BlockOfNext
  <2> QED BY <2>2, <2>3, <2>4 DEF Globals, Functions
<1>8. \A d \in Globals : Around(program, d) = {} /\ program[d].kind \in Functions
  BY RootsAreFunctions DEF Globals, Nodes
<1>9. \A C, x : Within(program, 0, EvalBound(program, C, x)) = Globals
  <2> TAKE C, x
  <2>1. \A i \in 1..Len(program) : InBlock(program, 0, i) => program[i].kind \in Functions
    BY RootsAreFunctions
  <2> QED BY <2>1 DEF Within, EvalBound, Globals, Nodes, Declarations
<1> QED BY <1>2, <1>5, <1>6, <1>7, <1>8, <1>9 DEF funs

\* Construction ends, and main is run with the functions of the module.
LEMMA RunMainStep == InferInv /\ EvalInv /\ RunMain => EvalInv'
<1> SUFFICES ASSUME InferInv, EvalInv, RunMain PROVE EvalInv'
  OBVIOUS
<1> DEFINE funs == FunctionsOf(0, Functions)
           order == SetToSeq({funs[n] : n \in DOMAIN funs})
           N == Cardinality(Globals)
           G == [n \in DOMAIN funs |-> CHOOSE c \in DOMAIN order : order[c] = funs[n]]
           new == [c \in DOMAIN order |-> [decl |-> order[c], captured |-> <<G>>]]
           g == DeclOf(new)
<1>1. IsProgram(program) /\ IsTree(program)
  BY ProgramIsTree DEF InferInv
<1>2. /\ funs \in Bindings /\ Holds(program, funs, Globals, [i \in Nodes |-> i])
      /\ {funs[n] : n \in DOMAIN funs} = Globals
      /\ IsFiniteSet(Globals) /\ Main \in Globals
      /\ \A d \in Globals : Around(program, d) = {} /\ program[d].kind \in Functions
      /\ \A C, x : Within(program, 0, EvalBound(program, C, x)) = Globals
  BY <1>1, GlobalFunctions
<1>3. /\ cells' = new /\ scopes' = Append(<<G>>, NoBindings)
      /\ phase' = "evaluate" /\ open' = <<Main>> /\ pc' = Main + 1
      /\ phase = "construct" /\ outcome = "running"
      /\ UNCHANGED <<program, calls, ran, outcome>>
  BY DEF RunMain, Constructs
<1>4. /\ N \in Nat /\ order \in [1..N -> Globals] /\ DOMAIN order = 1..N
      /\ \A x \in Globals : \E c \in 1..N : order[c] = x
  <2>1. order = SetToSeq(Globals)
    BY <1>2
  <2> HIDE DEF order
  <2> QED BY <1>2, <2>1, OrderFacts
<1> HIDE DEF funs, order, N
<1>5. G \in Bindings /\ DOMAIN G = DOMAIN funs /\ \A n \in DOMAIN funs : G[n] \in 1..N /\ order[G[n]] = funs[n]
  <2>1. \A n \in DOMAIN funs : \E c \in DOMAIN order : order[c] = funs[n]
    BY <1>2, <1>4
  <2>2. \A n \in DOMAIN funs : G[n] \in 1..N /\ order[G[n]] = funs[n]
    BY <1>4, <2>1
  <2>3. DOMAIN funs \in SUBSET (Names \cup {"main"})
    BY <1>2 DEF Bindings
  <2>4. G \in [DOMAIN funs -> Nat]
    BY <1>4, <2>2
  <2> QED BY <2>2, <2>3, <2>4 DEF Bindings
<1> HIDE DEF G
<1>6. <<G>> \in Seq(Bindings) /\ Len(<<G>>) = 1 /\ <<G>>[1] = G /\ DOMAIN <<G>> = {1}
  BY <1>5
<1>7. /\ new \in Seq(Cell) /\ Len(new) = N
      /\ \A c \in 1..N : new[c].decl = order[c] /\ order[c] \in Globals /\ new[c].captured = <<G>>
  <2>1. Globals \subseteq Nat
    BY DEF Globals, Nodes
  <2>2. \A c \in 1..N : [decl |-> order[c], captured |-> <<G>>] \in Cell
    BY <1>4, <1>6, <2>1 DEF Cell
  <2>3. new \in [1..N -> Cell]
    BY <1>4, <2>2
  <2>4. \A c \in 1..N : new[c].decl = order[c] /\ order[c] \in Globals /\ new[c].captured = <<G>>
    BY <1>4
  <2> HIDE DEF new
  <2>5. new \in Seq(Cell) /\ Len(new) = N
    BY <1>4, <2>3, SeqDef, LenProperties
  <2> QED BY <2>4, <2>5
<1> HIDE DEF new
<1>8. DOMAIN g = 1..N /\ \A c \in 1..N : g[c] = order[c]
  BY <1>7 DEF DeclOf
<1> HIDE DEF g
<1>9. Holds(program, G, Globals, g)
  <2>1. /\ DOMAIN funs = {program[i].name : i \in Globals}
        /\ \A n \in DOMAIN funs : /\ funs[n] \in Globals /\ program[funs[n]].name = n
                                  /\ \A i \in Globals : program[i].name = n => i <= funs[n]
    BY <1>2 DEF Holds, Globals
  <2>2. \A n \in DOMAIN funs : G[n] \in DOMAIN g /\ g[G[n]] = funs[n]
    BY <1>5, <1>8
  <2> QED BY <1>5, <2>1, <2>2 DEF Holds
<1>10. ASSUME NEW B, Within(program, 0, B) = Globals
       PROVE  Layered(program, <<G>>, {0}, BlockNodes(program), B, g)
  <2> DEFINE lev == [b \in {0} |-> 1]
  <2>1. Levels(program, {0}, BlockNodes(program), 1, lev)
    BY DEF Levels
  <2>2. Filled(program, <<G>>, {0}, lev, B, g)
    BY <1>6, <1>9, <1>10 DEF Filled
  <2> QED BY <1>6, <2>1, <2>2 DEF Layered
<1>11. ASSUME NEW d \in Globals PROVE Captures(program, g, d, <<G>>)
  <2>1. d \in 1..Len(program) /\ program[d].kind \in Declarations /\ {0} \cup Around(program, d) = {0}
    BY <1>2 DEF Globals, Nodes, Declarations
  <2> QED BY <1>2, <1>6, <1>10, <2>1 DEF Captures
<1>12. Frame(program, g, Main + 1, <<Main>>, Append(<<G>>, NoBindings))
  <2> DEFINE scs == Append(<<G>>, NoBindings)
  <2>1. NoBindings \in Bindings
    BY NoBindingsHold
  <2>2. /\ scs \in Seq(Bindings) /\ Len(scs) = Len(<<G>>) + 1
        /\ \A k \in 1..Len(<<G>>) : scs[k] = <<G>>[k]
        /\ scs[Len(<<G>>) + 1] = NoBindings
    BY <1>6, <2>1, AppendFacts
  <2> HIDE DEF scs
  <2>3. 1 \in 1..2 /\ \A k \in 1..1 : scs[Len(<<G>>) + k] = NoBindings
    BY <2>2
  <2>4. Captures(program, g, Main, <<G>>)
    BY <1>2, <1>11
  <2>5. Frame(program, g, Main + 1, <<Main>>, scs)
    BY <1>1, <2>2, <2>3, <2>4, BodyIn
  <2> QED BY <2>5 DEF scs
<1>13. calls = <<>> /\ calls \in Seq(Caller) /\ Len(calls) = 0
  BY <1>3 DEF EvalInv
<1>14. DeclOf(cells)' = g
  BY <1>3 DEF g
<1>15. Evaluating'
  <2>1. cells' \in Seq(Cell) /\ calls' \in Seq(Caller)
    BY <1>3, <1>7, <1>13
  <2>2. \A c \in 1..Len(cells') : Captures(program', g, cells'[c].decl, cells'[c].captured)
    <3> TAKE c \in 1..Len(cells')
    <3>1. c \in 1..N
      BY <1>3, <1>7
    <3>2. new[c].decl \in Globals /\ new[c].captured = <<G>>
      BY <1>7, <3>1
    <3>3. Captures(program, g, new[c].decl, new[c].captured)
      BY <1>11, <3>2
    <3> QED BY <1>3, <3>3
  <2>3. Frame(program', g, pc', open', scopes')
    BY <1>3, <1>12
  <2>4. \A k \in 1..Len(calls') :
          Frame(program', g, calls'[k].pc, calls'[k].open, calls'[k].scopes)
    BY <1>3, <1>13
  <2>5. outcome' # "R0003"
    BY <1>3
  <2> QED BY <1>14, <2>1, <2>2, <2>3, <2>4, <2>5 DEF Evaluating
<1>16. Ran'
  BY <1>3, RanStays DEF EvalInv
<1> QED BY <1>3, <1>15, <1>16 DEF EvalInv

LEMMA EvalStarts == Init => EvalInv
<1> SUFFICES ASSUME Init PROVE EvalInv
  OBVIOUS
<1>1. phase = "infer" /\ outcome = "running" /\ calls = <<>> /\ ran = {}
  BY DEF Init
<1> QED BY <1>1 DEF EvalInv, Ran

LEMMA EvaluationKept == InferInv /\ EvalInv /\ [Next]_vars => EvalInv'
<1> SUFFICES ASSUME InferInv, EvalInv, [Next]_vars PROVE EvalInv'
  OBVIOUS
<1>1. CASE UNCHANGED vars
  <2>1. UNCHANGED <<program, phase, pc, open, scopes, cells, calls, ran, outcome>>
    BY <1>1 DEF vars
  <2>2. Ran'
    BY <2>1, RanStays DEF EvalInv
  <2>3. LaterFunction(pc)' = LaterFunction(pc)
    <3>1. \A x : LaterFunction(x)' = LaterFunction(x)
      BY <2>1, ProgramStays
    <3> QED BY <2>1, <3>1
  <2>4. Evaluating => Evaluating'
    BY <2>1, <2>3 DEF Evaluating
  <2> QED BY <2>1, <2>2, <2>4 DEF EvalInv
<1>2. CASE InferEnter \/ InferCall \/ InferLeave \/ InferDone
  <2>1. /\ UNCHANGED <<program, calls, ran>> /\ phase = "infer" /\ phase' \in {"infer", "construct"}
    BY <1>2 DEF InferEnter, InferCall, InferLeave, InferDone, Infers, evaluate_vars
  <2>2. outcome' \in {outcome, "T0003"}
    BY <1>2 DEF InferEnter, InferCall, InferLeave, InferDone
  <2>3. outcome' # "R0003"
    BY <2>1, <2>2 DEF EvalInv
  <2> QED BY <2>1, <2>3, EvalQuiet
<1>3. CASE ConstructGeneric \/ ConstructEnter \/ ConstructCall \/ ConstructLeave
  <2>1. /\ UNCHANGED <<program, calls, ran, phase>> /\ phase = "construct"
    BY <1>3 DEF ConstructGeneric, ConstructEnter, ConstructCall, ConstructLeave, Constructs, evaluate_vars
  <2>2. outcome' \in {outcome, "T0002", "T0003"}
    BY <1>3 DEF ConstructGeneric, ConstructEnter, ConstructCall, ConstructLeave
  <2>3. outcome' # "R0003"
    BY <2>1, <2>2 DEF EvalInv
  <2> QED BY <2>1, <2>3, EvalQuiet
<1>4. CASE RunMain
  BY <1>4, RunMainStep
<1>5. CASE EvalBlock \/ EvalFun \/ EvalLet
  BY <1>5, EvalBlockStep, EvalFunStep, EvalLetStep
<1>6. CASE EvalCall \/ EvalCallFails
  BY <1>6, EvalCallStep, EvalCallFailsStep
<1>7. CASE LeaveBlock \/ Return \/ MainReturns
  BY <1>7, LeaveBlockStep, ReturnStep, MainReturnsStep
<1> QED BY <1>1, <1>2, <1>3, <1>4, <1>5, <1>6, <1>7 DEF Next

LEMMA RunningInvariant == Spec => [](InferInv /\ ConstructInv /\ EvalInv)
BY InferStarts, ConstructInitially, EvalStarts, InferenceKept, ConstructionKept, EvaluationKept, PTL
   DEF Spec

\* Of every set of programs, a call runs the declaration it means where it is
\* written, whoever called the body it stands in, unless it means a nested
\* function that comes later; only such a function is undefined.
THEOREM EvaluationIsLexical == Spec => []DynamicIsLexical
<1>1. EvalInv => DynamicIsLexical
  <2> SUFFICES ASSUME EvalInv, phase \in {"evaluate", "done"}
               PROVE  /\ \A r \in ran : r[2] \in Meaning(r[1]) <=> ~LaterFunction(r[1])
                      /\ outcome = "R0003" => LaterFunction(pc)
    BY DEF DynamicIsLexical
  <2>1. ASSUME NEW r \in ran PROVE r[2] \in Meaning(r[1]) <=> ~LaterFunction(r[1])
    <3>1. PICK q \in Calls, d \in Nodes : r = <<q, d>> /\ RunsRight(q, d)
      BY DEF EvalInv, Ran
    <3>2. r[1] = q /\ r[2] = d
      BY <3>1
    <3> QED BY <3>1, <3>2 DEF RunsRight
  <2>2. outcome = "R0003" => LaterFunction(pc)
    BY DEF EvalInv, Evaluating
  <2> QED BY <2>1, <2>2
<1> QED BY <1>1, RunningInvariant, PTL

\* Of every set of programs in which no two declarations share a name, the
\* three passes agree: a call runs the declaration against which it was
\* inferred and constructed.
THEOREM PassesAgreeOnDistinctNames == Spec => []DistinctNamesAgree
<1>1. InferInv /\ ConstructInv /\ EvalInv => DistinctNamesAgree
  <2> SUFFICES ASSUME InferInv, ConstructInv, EvalInv, DistinctNames
               PROVE  /\ outcome # "T0002"
                      /\ \A r \in ran : inferred[r[1]] = {r[2]} /\ constructed[r[1]] \subseteq {r[2]}
    BY DEF DistinctNamesAgree
  <2>1. outcome # "T0002"
    BY DEF ConstructInv
  <2>2. ASSUME NEW r \in ran
        PROVE  inferred[r[1]] = {r[2]} /\ constructed[r[1]] \subseteq {r[2]}
    <3>1. PICK q \in Calls, d \in Nodes : r = <<q, d>> /\ RunsRight(q, d)
      BY DEF EvalInv, Ran
    <3>2. r[1] = q /\ r[2] = d
      BY <3>1
    <3>3. ASSUME NEW e \in Nodes, program[e].name = program[q].name, Kind(e) \in Declarations
          PROVE  e = d
      BY <3>1, <3>3 DEF RunsRight, DistinctNames
    <3>4. phase # "infer"
      BY DEF EvalInv
    <3>5. FoundWell(inferred[q], q) /\ inferred[q] # {}
      BY <3>4 DEF InferInv, Inferred
    <3>6. PICK e : inferred[q] = {e} /\ Visible(e, q)
      BY <3>5 DEF FoundWell
    <3>7. e \in Nodes /\ program[e].name = program[q].name /\ Kind(e) \in Declarations
      BY <3>6 DEF Visible, Shown, Kind, Declarations
    <3>8. inferred[q] = {d}
      BY <3>3, <3>6, <3>7
    <3>9. constructed[q] \subseteq {d}
      BY <3>3 DEF ConstructInv, Constructed
    <3> QED BY <3>2, <3>8, <3>9
  <2> QED BY <2>1, <2>2
<1> QED BY <1>1, RunningInvariant, PTL

------------------------------------------------------------------------------
(***************************************************************************)
(* The shape of the state.                                                 *)
(***************************************************************************)
\* What the walks of the three passes leave open: the tables that a pass no
\* longer uses, and the names of phases and outcomes.
Scoped(scs) ==
  /\ scs \in Seq(Bindings)
  /\ \A k \in 1..Len(scs) : DOMAIN scs[k] \subseteq Names \cup {"main"} /\ Range(scs[k]) \subseteq Nodes
Shape ==
  /\ phase \in {"infer", "construct", "evaluate", "done"}
  /\ outcome \in {"running", "ok", "too deep", "T0002", "T0003", "R0003"}
  /\ quantified \subseteq {i \in Nodes : program[i].kind \in {"gen", "poly"}}
  /\ Scoped(mono_env) /\ Scoped(poly_env) /\ Scoped(env)
  /\ Len(mono_env) = Len(poly_env)
  /\ phase \in {"infer", "construct"} => scopes = <<>>

LEMMA ScopedStays == ASSUME program' = program PROVE \A scs : Scoped(scs)' = Scoped(scs)
BY ProgramStays DEF Scoped

\* The values in scopes are those that g knows.
LEMMA LayeredRange ==
  ASSUME NEW p, NEW S, NEW K, NEW B, NEW g, NEW scs \in Seq(Bindings), Layered(p, scs, S, K, B, g)
  PROVE  \A k \in 1..Len(scs) : DOMAIN scs[k] \subseteq Names \cup {"main"} /\ Range(scs[k]) \subseteq DOMAIN g
<1>1. PICK lev : Levels(p, S, K, Len(scs), lev) /\ Filled(p, scs, S, lev, B, g)
  BY DEF Layered
<1> SUFFICES ASSUME NEW k \in 1..Len(scs)
             PROVE  DOMAIN scs[k] \subseteq Names \cup {"main"} /\ Range(scs[k]) \subseteq DOMAIN g
  OBVIOUS
<1>2. k \in DOMAIN scs /\ scs[k] \in Bindings
  BY LenProperties, ElementOfSeq
<1>3. DOMAIN scs[k] \subseteq Names \cup {"main"}
  BY <1>2 DEF Bindings
<1>4. \A n \in DOMAIN scs[k] : scs[k][n] \in DOMAIN g
  <2>1. CASE \A b \in S : lev[b] # k
    BY <1>1, <1>2, <2>1 DEF Filled
  <2>2. CASE \E b \in S : lev[b] = k
    BY <1>1, <2>2 DEF Filled, Holds
  <2> QED BY <2>1, <2>2
<1> QED BY <1>3, <1>4 DEF Range

LEMMA LayeredScoped ==
  ASSUME NEW S, NEW K, NEW B, NEW scs \in Seq(Bindings),
         Layered(program, scs, S, K, B, Identity(program))
  PROVE  Scoped(scs)
<1>1. DOMAIN Identity(program) = Nodes
  BY DEF Identity, Nodes
<1>2. \A k \in 1..Len(scs) :
        DOMAIN scs[k] \subseteq Names \cup {"main"} /\ Range(scs[k]) \subseteq DOMAIN Identity(program)
  BY LayeredRange
<1> QED BY <1>1, <1>2 DEF Scoped

\* While a pass walks, its scopes are those of its walk.
LEMMA WalksScoped ==
  /\ InferInv /\ phase = "infer" => Scoped(mono_env) /\ Scoped(poly_env)
  /\ ConstructInv /\ phase = "construct" => Scoped(env)
<1>1. ASSUME InferInv, phase = "infer" PROVE Scoped(mono_env) /\ Scoped(poly_env)
  BY <1>1, LayeredScoped DEF InferInv, Inferring
<1>2. ASSUME ConstructInv, phase = "construct" PROVE Scoped(env)
  <2>1. env \in Seq(Bindings) /\ \A k \in 1..Len(env) : OwnNames(program, env[k])
    BY <1>2 DEF ConstructInv, Constructing
  <2> SUFFICES ASSUME NEW k \in 1..Len(env)
               PROVE  DOMAIN env[k] \subseteq Names \cup {"main"} /\ Range(env[k]) \subseteq Nodes
    BY <2>1 DEF Scoped
  <2>2. env[k] \in Bindings
    BY <2>1, ElementOfSeq
  <2>3. DOMAIN env[k] \subseteq Names \cup {"main"}
    BY <2>2 DEF Bindings
  <2>4. Range(env[k]) \subseteq Nodes
    BY <2>1 DEF OwnNames, Range, Nodes
  <2> QED BY <2>3, <2>4
<1> QED BY <1>1, <1>2

\* Both environments of inference change by the same number of scopes.
LEMMA SameLength ==
  ASSUME InferInv, phase = "infer", Len(mono_env) = Len(poly_env),
         InferEnter \/ InferLeave
  PROVE  Len(mono_env') = Len(poly_env')
<1>1. mono_env \in Seq(Bindings) /\ poly_env \in Seq(Bindings) /\ Len(mono_env) \in Nat
  BY LenProperties DEF InferInv, Inferring
<1>2. CASE InferEnter
  <2>1. PICK f : f = hoist_fun_decls(pc)
    OBVIOUS
  <2>2. PICK params : params = IF Current.kind = "block" THEN <<>> ELSE <<NoBindings>>
    OBVIOUS
  <2>3. mono_env' = mono_env \o params \o <<f>> /\ poly_env' = poly_env \o params \o <<f>>
    BY <1>2, <2>1, <2>2 DEF InferEnter
  <2>4. PICK none : none = NoBindings /\ none \in Bindings
    BY NoBindingsHold
  <2>5. params \in Seq(Bindings \cup {f}) /\ <<f>> \in Seq(Bindings \cup {f}) /\ Len(params) \in Nat
    <3>1. PICK T : T = Bindings \cup {f}
      OBVIOUS
    <3>2. f \in T /\ none \in T
      BY <2>4, <3>1
    <3>3. <<f>> \in Seq(T) /\ <<none>> \in Seq(T) /\ Len(<<none>>) = 1
      BY <3>2
    <3>4. <<>> \in Seq(T) /\ Len(<<>>) = 0
      OBVIOUS
    <3>5. params = <<>> \/ params = <<none>>
      BY <2>2, <2>4
    <3> QED BY <3>1, <3>3, <3>4, <3>5
  <2>6. mono_env \in Seq(Bindings \cup {f}) /\ poly_env \in Seq(Bindings \cup {f})
    <3>1. \A i \in 1..Len(mono_env) : mono_env[i] \in Bindings \cup {f}
      BY <1>1, ElementOfSeq
    <3>2. \A i \in 1..Len(poly_env) : poly_env[i] \in Bindings \cup {f}
      BY <1>1, ElementOfSeq
    <3> QED BY <1>1, <3>1, <3>2, SeqOfMembers
  <2>7. /\ mono_env \o params \in Seq(Bindings \cup {f})
        /\ Len(mono_env \o params) = Len(mono_env) + Len(params)
        /\ poly_env \o params \in Seq(Bindings \cup {f})
        /\ Len(poly_env \o params) = Len(poly_env) + Len(params)
    BY <2>5, <2>6, ConcatProperties
  <2>8. PICK m, q : m = mono_env \o params /\ q = poly_env \o params
    OBVIOUS
  <2>9. /\ Len(m \o <<f>>) = Len(m) + Len(<<f>>)
        /\ Len(q \o <<f>>) = Len(q) + Len(<<f>>)
    BY <2>5, <2>7, <2>8, ConcatProperties
  <2> QED BY <2>3, <2>7, <2>8, <2>9
<1>3. CASE InferLeave
  <2> DEFINE i == Innermost
             outer_mono == pop(mono_env, ScopesOf(i))
             outer_poly == pop(poly_env, ScopesOf(i))
  <2>1. /\ mono_env' = IF program[i].kind = "let" THEN bind(outer_mono, program[i].name, i) ELSE outer_mono
        /\ \/ poly_env' = bind(outer_poly, program[i].name, i)
           \/ poly_env' = outer_poly
    BY <1>3 DEF InferLeave
  <2>2. Len(outer_mono) = Len(outer_poly)
    BY <1>1 DEF pop, ScopesOf
  <2>3. \A scs, n, v : Len(bind(scs, n, v)) = Len(scs)
    BY DEF bind
  <2> HIDE DEF outer_mono, outer_poly, i
  <2> QED BY <2>1, <2>2, <2>3
<1> QED BY <1>2, <1>3

LEMMA WalksScopedNext ==
  (/\ InferInv /\ phase = "infer" => Scoped(mono_env) /\ Scoped(poly_env)
   /\ ConstructInv /\ phase = "construct" => Scoped(env))'
BY WalksScoped, PTL

LEMMA ShapeStarts == Init => Shape
<1> SUFFICES ASSUME Init PROVE Shape
  OBVIOUS
<1>1. InferInv
  BY InferStarts
<1>2. Scoped(mono_env) /\ Scoped(poly_env)
  BY <1>1, WalksScoped DEF Init
<1>3. Scoped(env)
  BY DEF Init, Scoped
<1> QED BY <1>2, <1>3 DEF Init, Shape

LEMMA ShapeKept ==
  InferInv /\ InferInv' /\ ConstructInv' /\ Shape /\ [Next]_vars => Shape'
<1> SUFFICES ASSUME InferInv, InferInv', ConstructInv', Shape, [Next]_vars PROVE Shape'
  OBVIOUS
<1>1. UNCHANGED program
  BY DEF Next, vars, InferEnter, InferCall, InferLeave, InferDone, ConstructGeneric, ConstructEnter,
         ConstructCall, ConstructLeave, RunMain, EvalBlock, EvalFun, EvalLet, EvalCall, EvalCallFails,
         LeaveBlock, Return, MainReturns
<1>2. Nodes' = Nodes /\ \A scs : Scoped(scs)' = Scoped(scs)
  BY <1>1, ProgramStays, ScopedStays
<1>3. ASSUME UNCHANGED <<mono_env, poly_env>> \/ (phase' = "infer" /\ Len(mono_env') = Len(poly_env'))
      PROVE  Scoped(mono_env)' /\ Scoped(poly_env)' /\ Len(mono_env') = Len(poly_env')
  BY <1>1, <1>3, WalksScopedNext DEF Shape, Scoped, Nodes
<1>4. ASSUME UNCHANGED env \/ phase' = "construct"
      PROVE  Scoped(env)'
  BY <1>1, <1>4, WalksScopedNext DEF Shape, Scoped, Nodes
<1>5. ASSUME UNCHANGED quantified
      PROVE  (quantified \subseteq {i \in Nodes : program[i].kind \in {"gen", "poly"}})'
  BY <1>1, <1>2, <1>5 DEF Shape
<1>6. CASE UNCHANGED vars
  BY <1>3, <1>4, <1>5, <1>6 DEF vars, Shape
<1>7. CASE InferEnter
  <2>1. UNCHANGED <<phase, quantified, env, scopes, outcome>> /\ phase = "infer"
    BY <1>7 DEF InferEnter, Infers, construct_vars, evaluate_vars
  <2>2. Len(mono_env') = Len(poly_env')
    BY <1>7, <2>1, SameLength DEF Shape
  <2> QED BY <1>3, <1>4, <1>5, <2>1, <2>2 DEF Shape
<1>8. CASE InferCall
  <2>1. /\ UNCHANGED <<phase, mono_env, poly_env, quantified, env, scopes>>
        /\ outcome' \in {outcome, "T0003"}
    BY <1>8 DEF InferCall, construct_vars, evaluate_vars
  <2> QED BY <1>3, <1>4, <1>5, <2>1 DEF Shape
<1>9. CASE InferLeave
  <2>1. UNCHANGED <<phase, env, scopes, outcome>> /\ phase = "infer" /\ outcome = "running"
    BY <1>9 DEF InferLeave, Infers, construct_vars, evaluate_vars
  <2>2. Len(mono_env') = Len(poly_env')
    BY <1>9, <2>1, SameLength DEF Shape
  <2>3. (quantified \subseteq {i \in Nodes : program[i].kind \in {"gen", "poly"}})'
    <3>1. Innermost \in Nodes
      <4>1. OpenPath(Len(program), open) /\ open # <<>> /\ Len(program) \in Nat
        BY <1>9, <2>1, ProgramIsTree DEF InferLeave, AtEnd, InferInv, Inferring, IsTree
      <4> QED BY <4>1, PathTop DEF Innermost, Nodes
    <3>2. \/ quantified' = quantified
          \/ quantified' = quantified \cup {Innermost} /\ program[Innermost].kind \in {"gen", "poly"}
      <4>1. \A e : WithVariables(Innermost, e) => program[Innermost].kind \in {"gen", "poly"}
        BY DEF WithVariables
      <4>2. \E e : quantified' = IF WithVariables(Innermost, e) THEN quantified \cup {Innermost} ELSE quantified
        BY <1>9 DEF InferLeave
      <4> QED BY <4>1, <4>2
    <3> QED BY <1>1, <1>2, <3>1, <3>2 DEF Shape
  <2> QED BY <1>3, <1>4, <2>1, <2>2, <2>3 DEF Shape
<1>10. CASE InferDone
  <2>1. UNCHANGED <<mono_env, poly_env, quantified, scopes, outcome>> /\ phase = "infer" /\ phase' = "construct"
    BY <1>10 DEF InferDone, Infers, infer_vars, evaluate_vars
  <2> QED BY <1>3, <1>4, <1>5, <2>1 DEF Shape
<1>11. CASE ConstructGeneric \/ ConstructEnter \/ ConstructCall \/ ConstructLeave
  <2>1. /\ UNCHANGED <<phase, mono_env, poly_env, quantified, scopes>> /\ phase = "construct"
        /\ outcome' \in {outcome, "T0002", "T0003"}
    BY <1>11 DEF ConstructGeneric, ConstructEnter, ConstructCall, ConstructLeave, Constructs, infer_vars,
                 evaluate_vars
  <2> QED BY <1>3, <1>4, <1>5, <2>1 DEF Shape
<1>12. CASE RunMain
  <2>1. UNCHANGED <<mono_env, poly_env, quantified, env, outcome>> /\ phase' = "evaluate"
    BY <1>12 DEF RunMain, infer_vars, construct_vars
  <2> QED BY <1>3, <1>4, <1>5, <2>1 DEF Shape
<1>13. CASE EvalBlock \/ EvalFun \/ EvalLet \/ EvalCall \/ EvalCallFails \/ LeaveBlock \/ Return \/ MainReturns
  <2>1. /\ UNCHANGED <<mono_env, poly_env, quantified, env>> /\ phase' \in {"evaluate", "done"}
        /\ outcome' \in {outcome, "R0003", "too deep", "ok"}
    BY <1>13 DEF EvalBlock, EvalFun, EvalLet, EvalCall, EvalCallFails, LeaveBlock, Return, MainReturns,
                 Evaluates, infer_vars, construct_vars
  <2> QED BY <1>3, <1>4, <1>5, <2>1 DEF Shape
<1> QED BY <1>6, <1>7, <1>8, <1>9, <1>10, <1>11, <1>12, <1>13 DEF Next

\* Of every set of programs, the walks of the passes stay among the nodes of
\* the program, names lead to declarations and cells that there are, and the
\* two environments of inference grow together.
THEOREM TypeCorrect == Spec => []TypeOK
<1>1. InferInv /\ ConstructInv /\ EvalInv /\ Shape => TypeOK
  <2> SUFFICES ASSUME InferInv, ConstructInv, EvalInv, Shape PROVE TypeOK
    OBVIOUS
  <2>1. IsProgram(program) /\ Len(program) \in Nat
    BY ProgramIsTree DEF InferInv, IsTree
  <2>2. pc \in 1..(Len(program) + 1) /\ OpenPath(Len(program), open)
    <3>1. CASE phase = "infer"
      BY <3>1 DEF InferInv, Inferring, Walk
    <3>2. CASE phase = "construct"
      BY <3>2 DEF ConstructInv, Constructing, Walk
    <3>3. CASE phase \in {"evaluate", "done"}
      BY <3>3 DEF EvalInv, Evaluating, Frame, Walk
    <3> QED BY <3>1, <3>2, <3>3 DEF Shape
  <2>3. open \in Seq(Nodes)
    BY <2>2 DEF OpenPath, Nodes
  <2>4. ASSUME NEW scs \in {mono_env, poly_env, env}
        PROVE  \A k \in DOMAIN scs : DOMAIN scs[k] \subseteq Names \cup {"main"} /\ Range(scs[k]) \subseteq Nodes
    <3>1. Scoped(scs)
      BY DEF Shape
    <3> QED BY <3>1, LenProperties DEF Scoped
  <2>5. \A k \in DOMAIN scopes : Range(scopes[k]) \subseteq DOMAIN cells
    <3>1. CASE phase \in {"infer", "construct"}
      <4>1. scopes = <<>>
        BY <3>1 DEF Shape
      <4>2. DOMAIN scopes = {}
        BY <4>1
      <4> QED BY <4>2
    <3>2. CASE phase \in {"evaluate", "done"}
      <4>1. Evaluating
        BY <3>2 DEF EvalInv
      <4>2. PICK g : g = DeclOf(cells)
        OBVIOUS
      <4>3. PICK S, B : Layered(program, scopes, S, BlockNodes(program), B, g)
        BY <4>1, <4>2 DEF Evaluating, Frame
      <4>4. scopes \in Seq(Bindings) /\ cells \in Seq(Cell)
        BY <4>1 DEF Evaluating, Frame
      <4>5. \A k \in 1..Len(scopes) : Range(scopes[k]) \subseteq DOMAIN g
        BY <4>3, <4>4, LayeredRange
      <4>6. DOMAIN g = DOMAIN cells /\ DOMAIN scopes = 1..Len(scopes)
        BY <4>2, <4>4, LenProperties DEF DeclOf
      <4> QED BY <4>5, <4>6
    <3> QED BY <3>1, <3>2 DEF Shape
  <2> QED BY <2>1, <2>2, <2>3, <2>4, <2>5 DEF Shape, TypeOK
<1>2. Spec => []Shape
  BY InferenceKept, ConstructionKept, ShapeStarts, ShapeKept, RunningInvariant, PTL DEF Spec
<1> QED BY <1>1, <1>2, RunningInvariant, PTL
==============================================================================
