-------------------------- MODULE MCLexicalScopes --------------------------
(***************************************************************************)
(* All programs of a few nodes.  A list of nodes is first written with the *)
(* number of nodes inside each, so that lists can be put together.         *)
(***************************************************************************)
EXTENDS LexicalScopes

MCNames == {"f", "g"}

Holder(kind, name, n) == [kind |-> kind, name |-> name, size |-> n]
CallOf(name) == Holder("call", name, 0)

\* The lists that begin with a node holding a list of `inner`, or a call.
Begin(holders, inner, n, rest) ==
  {<<[h EXCEPT !.size = n]>> \o a \o b : h \in holders, a \in inner, b \in rest}
BeginCall(calls_, rest) == {<<c>> \o b : c \in calls_, b \in rest}

\* One name, every kind of declaration.
HoldersF == {Holder(k, "f", 0) : k \in Declarations} \cup {Holder("block", NoName, 0)}
CallsF == {CallOf("f")}
F0 == {<<>>}
F1 == Begin(HoldersF, F0, 0, F0) \cup BeginCall(CallsF, F0)
F2 == Begin(HoldersF, F0, 0, F1) \cup Begin(HoldersF, F1, 1, F0) \cup BeginCall(CallsF, F1)
F3 == Begin(HoldersF, F0, 0, F2) \cup Begin(HoldersF, F1, 1, F1) \cup Begin(HoldersF, F2, 2, F0)
        \cup BeginCall(CallsF, F2)
F4 == Begin(HoldersF, F0, 0, F3) \cup Begin(HoldersF, F1, 1, F2) \cup Begin(HoldersF, F2, 2, F1)
        \cup Begin(HoldersF, F3, 3, F0) \cup BeginCall(CallsF, F3)

\* Two names, functions and lets.
HoldersG == {Holder(k, n, 0) : k \in {"fun", "let"}, n \in MCNames} \cup {Holder("block", NoName, 0)}
CallsG == {CallOf(n) : n \in MCNames}
G1 == Begin(HoldersG, F0, 0, F0) \cup BeginCall(CallsG, F0)
G2 == Begin(HoldersG, F0, 0, G1) \cup Begin(HoldersG, G1, 1, F0) \cup BeginCall(CallsG, G1)
G3 == Begin(HoldersG, F0, 0, G2) \cup Begin(HoldersG, G1, 1, G1) \cup Begin(HoldersG, G2, 2, F0)
        \cup BeginCall(CallsG, G2)
\* Something is called, and no block is empty.
Telling(s) ==
  /\ \E i \in DOMAIN s : s[i].kind = "call"
  /\ \A i \in DOMAIN s : s[i].kind = "block" => s[i].size > 0

\* The module: functions before main, main, and functions after it.
Modules(befores, bodies, afters) ==
  {b \o <<Holder("main", "main", Len(s))>> \o s \o a : b \in befores, s \in bodies, a \in afters}
Numbered(s) ==
  [i \in DOMAIN s |-> [kind |-> IF s[i].kind = "main" THEN "fun" ELSE s[i].kind,
                       name |-> s[i].name, last |-> i + s[i].size]]

Global(kind, name) == <<Holder(kind, name, 0)>>
Shapes ==
  Modules({<<>>, Global("fun", "f"), Global("gen", "f")}, {s \in F1 \cup F2 \cup F3 : Telling(s)}, {<<>>})
  \cup
  Modules({<<>>}, {s \in F1 \cup F2 \cup F3 : Telling(s)}, {Global("fun", "f"), Global("gen", "f")})
  \cup
  Modules({<<>>, Global("fun", "f"), Global("gen", "f")}, {s \in F4 : Telling(s)}, {<<>>})
  \cup
  Modules({<<>>, Global("fun", "g")}, {s \in G3 : Telling(s)}, {<<>>})

MCPrograms == {p \in {Numbered(s) : s \in Shapes} : IsProgram(p)}
==============================================================================
