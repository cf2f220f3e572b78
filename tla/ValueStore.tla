----------------------------- MODULE ValueStore -----------------------------
(***************************************************************************)
(* Where the evaluator keeps values (src/metel-interpreter/src/evaluator). *)
(* An Environment is a stack of scopes that map names to cells; a cell     *)
(* holds a value; an array is a buffer that any number of values point to. *)
(* ADR-0007 makes arrays value types by cloning deeply where a name is     *)
(* bound, and nowhere else.                                                *)
(*                                                                         *)
(* The values are those of `struct Node { kids: Node[] }`, the smallest    *)
(* type with nested arrays: a Node is the buffer of its kids, and what can *)
(* be told of it is the shape of the tree.  One function `f(Param)`,       *)
(* declared in the outermost block, captures its environment there.        *)
(*                                                                         *)
(* eval_expr's recursion is made explicit: `temps` are the operands        *)
(* evaluated so far by the innermost statement, and `frames` the blocks,   *)
(* match arms, for-in loops and calls around it, with the scopes and       *)
(* operands to go back to.                                                 *)
(***************************************************************************)
EXTENDS Naturals, Sequences, FiniteSets, SequencesExt

CONSTANTS
  Names,       \* names of variables
  Param,       \* the parameter of f
  NumBuffers,  \* bound: buffers in use at a time
  NumCells,    \* bound: cells in use at a time
  MaxLen,      \* bound: elements of a buffer
  MaxTemps,    \* bound: operands of a statement
  MaxFrames    \* bound: nesting of blocks, loops and calls

ASSUME ParamAssumption == Param \in Names
ASSUME BoundsAssumption ==
  /\ {NumBuffers, NumCells, MaxLen, MaxTemps} \subseteq Nat \ {0}
  /\ MaxFrames \in Nat

VARIABLES
  scopes,   \* Environment::scopes, innermost last
  cell,     \* the cells in use and the values they hold
  buffer,   \* the buffers in use and their elements
  temps,    \* the operands evaluated so far
  captured, \* ClosureValue::captured of f; <<>> before f is declared
  frames,   \* what encloses the innermost statement, outermost first
  outcome   \* "running", or "overflow" once deep_clone_value does not return

vars == <<scopes, cell, buffer, temps, captured, frames, outcome>>

Buffers == 1..NumBuffers
Cells == 1..NumCells

PartialFunctions(S, T) == UNION {[D -> T] : D \in SUBSET S}
Keep(f, S) == [x \in DOMAIN f \cap S |-> f[x]]
Override(f, g) == [x \in DOMAIN f \cup DOMAIN g |-> IF x \in DOMAIN g THEN g[x] ELSE f[x]]
Only(x, v) == [n \in {x} |-> v]
------------------------------------------------------------------------------
(***************************************************************************)
(* The heap.                                                               *)
(***************************************************************************)
\* The buffers that can be reached from those of `roots` in heap `h`.
ReachableIn(h, roots) ==
  LET reach[n \in 0..NumBuffers] ==
        IF n = 0 THEN roots
        ELSE LET met == reach[n - 1] IN met \cup UNION {Range(h[b]) : b \in met}
  IN reach[NumBuffers]

Reachable(roots) == ReachableIn(buffer, roots)

\* The nodes of the tree a value unfolds to in heap `h`: the indices that
\* lead to a node, with the buffer found there.  A value that contains itself
\* has nodes deeper than there are buffers.
Below(h, u) == {<<Append(u[1], i), h[u[2]][i]>> : i \in DOMAIN h[u[2]]}
UnfoldingIn(h, v) ==
  LET nodes[n \in 0..NumBuffers] ==
        {<< <<>>, v >>} \cup IF n = 0 THEN {} ELSE UNION {Below(h, u) : u \in nodes[n - 1]}
  IN nodes[NumBuffers]

Unfolding(v) == UnfoldingIn(buffer, v)

Cyclic(v) == \E u \in Unfolding(v) : Len(u[1]) = NumBuffers

\* What a program can tell of a value.
PathsOf(part) == {u[1] : u \in part}
Shape(v) == PathsOf(Unfolding(v))

NewBuffer == CHOOSE b \in Buffers : b \notin DOMAIN buffer
HasBuffer == DOMAIN buffer # Buffers

\* A buffer of its own for every node of a part of an unfolding that is
\* closed under predecessors.
CopyOf(part) ==
  LET paths == PathsOf(part)
      copy == CHOOSE f \in [paths -> Buffers \ DOMAIN buffer] : IsInjective(f)
      kids(p) == {i \in 1..MaxLen : Append(p, i) \in paths}
  IN [root |-> copy[<<>>],
      heap |-> [b \in Range(copy) |-> LET p == CHOOSE p \in paths : copy[p] = b IN
                                      [i \in kids(p) |-> copy[Append(p, i)]]]]

\* Fault: the last element is not copied.
CloneShort(v) ==
  CopyOf({u \in Unfolding(v) : u[1] = <<>> \/ u[1][1] < Len(buffer[v])})

\* deep_clone_value: one that is shared is copied twice.
Clone(v) == CopyOf(Unfolding(v))

HasRoom(v) == Cardinality(Shape(v)) <= Cardinality(Buffers \ DOMAIN buffer)
NewCell == CHOOSE c \in Cells : c \notin DOMAIN cell
HasCell == DOMAIN cell # Cells

\* The cells that names lead to, and the buffers of what is being evaluated.
Held(scs) == UNION {Range(scs[i]) : i \in DOMAIN scs}
Live(scs, fun, fs) == Held(scs) \cup Held(fun) \cup UNION {Held(fs[i].scopes) : i \in DOMAIN fs}
Pending(ts, fs) ==
  Range(ts) \cup UNION {Range(fs[i].temps) \cup Range(fs[i].items) : i \in DOMAIN fs}

\* Fault: the operands of the statements around are not kept.
CommitWeak(c, h) ==
  /\ cell' = Keep(c, Live(scopes', captured', frames'))
  /\ buffer' = Keep(h, ReachableIn(h, Range(cell') \cup Range(temps')))

\* The reference counts: what no name, frame or operand leads to is dropped.
Commit(c, h) ==
  /\ cell' = Keep(c, Live(scopes', captured', frames'))
  /\ buffer' = Keep(h, ReachableIn(h, Range(cell') \cup Pending(temps', frames')))
------------------------------------------------------------------------------
(***************************************************************************)
(* Environment.                                                            *)
(***************************************************************************)
Visible == UNION {DOMAIN scopes[i] : i \in DOMAIN scopes}

\* get, get_rc and set search from the innermost scope outwards.
Lookup(x) ==
  scopes[CHOOSE i \in DOMAIN scopes :
           x \in DOMAIN scopes[i] /\ \A j \in DOMAIN scopes : x \in DOMAIN scopes[j] => j <= i][x]

\* Fault: the new cell holds the operand.
defineShared(scs, x, v, inner) ==
  /\ HasCell
  /\ scopes' = Append(Front(scs), Override(Last(scs), Only(x, NewCell))) \o inner
  /\ Commit(Override(cell, Only(NewCell, v)), buffer)

\* define, in the scope on top of `scs`: a new cell with a clone of `v`.
\* `inner` are the scopes pushed next.
define(scs, x, v, inner) ==
  /\ HasCell /\ HasRoom(v)
  /\ scopes' = Append(Front(scs), Override(Last(scs), Only(x, NewCell))) \o inner
  /\ LET clone == Clone(v) IN
     Commit(Override(cell, Only(NewCell, clone.root)), Override(buffer, clone.heap))

\* Fault: the cell gets the operand.
setShared(x, v) ==
  /\ UNCHANGED scopes
  /\ Commit(Override(cell, Only(Lookup(x), v)), buffer)

\* set: the cell keeps its name and gets a clone of `v`.
set(x, v) ==
  /\ HasRoom(v)
  /\ UNCHANGED scopes
  /\ LET clone == Clone(v) IN
     Commit(Override(cell, Only(Lookup(x), clone.root)), Override(buffer, clone.heap))

push_scope(scs) == Append(scs, <<>>)
BodyScope == << <<>> >>
------------------------------------------------------------------------------
(***************************************************************************)
(* Expressions.                                                            *)
(***************************************************************************)
Running == outcome = "running"
Frame(kind, pending, items) ==
  [kind |-> kind, scopes |-> scopes, temps |-> pending, items |-> items]
Inside(kind) == frames # <<>> /\ Last(frames).kind = kind

\* An operand is a shallow copy: it points to the buffers it was read from.
Operand(v) ==
  /\ Running
  /\ temps' = Append(temps, v)
  /\ UNCHANGED <<scopes, captured, frames, outcome>>
  /\ Commit(cell, buffer)

\* A name.
Ident(x) == x \in Visible /\ Len(temps) < MaxTemps /\ Operand(cell[Lookup(x)])

\* `e.kids[i]`, in bounds.
Index(i) ==
  /\ Running
  /\ temps # <<>> /\ i \in DOMAIN buffer[Last(temps)]
  /\ temps' = Append(Front(temps), buffer[Last(temps)][i])
  /\ UNCHANGED <<scopes, captured, frames, outcome>>
  /\ Commit(cell, buffer)

\* `Node { kids: [e1, .., ek] }`: the elements are the operands themselves.
Literal(k) ==
  /\ Running
  /\ k <= Len(temps) /\ k <= MaxLen /\ Len(temps) - k < MaxTemps
  /\ HasBuffer
  /\ LET elements == SubSeq(temps, Len(temps) - k + 1, Len(temps)) IN
     /\ temps' = Append(SubSeq(temps, 1, Len(temps) - k), NewBuffer)
     /\ UNCHANGED <<scopes, captured, frames, outcome>>
     /\ Commit(cell, Override(buffer, Only(NewBuffer, elements)))
------------------------------------------------------------------------------
(***************************************************************************)
(* Statements that bind: the value of their expression is cloned.          *)
(***************************************************************************)
\* `let x = e;` and `mut x = e;`
Let(x) ==
  /\ Running /\ Len(temps) = 1 /\ ~Cyclic(temps[1]) /\ x \notin DOMAIN Last(scopes)
  /\ temps' = <<>>
  /\ UNCHANGED <<captured, frames, outcome>>
  /\ define(scopes, x, temps[1], <<>>)

\* `x = e;`
Assign(x) ==
  /\ Running /\ Len(temps) = 1 /\ ~Cyclic(temps[1]) /\ x \in Visible
  /\ temps' = <<>>
  /\ UNCHANGED <<captured, frames, outcome>>
  /\ set(x, temps[1])

\* `match e { x => { .. } }`: the arm has a scope for its bindings, and its
\* body one more.
MatchArm(x) ==
  /\ Running /\ Len(frames) < MaxFrames
  /\ temps # <<>> /\ ~Cyclic(Last(temps))
  /\ frames' = Append(frames, Frame("block", Front(temps), <<>>))
  /\ temps' = <<>>
  /\ UNCHANGED <<captured, outcome>>
  /\ define(push_scope(scopes), x, Last(temps), BodyScope)

\* `f(e)`: the body runs in the captured environment, under a scope for the
\* parameter.
Call ==
  /\ Running /\ Len(frames) < MaxFrames /\ captured # <<>>
  /\ temps # <<>> /\ ~Cyclic(Last(temps))
  /\ frames' = Append(frames, Frame("call", Front(temps), <<>>))
  /\ temps' = <<>>
  /\ UNCHANGED <<captured, outcome>>
  /\ define(push_scope(captured), Param, Last(temps), BodyScope)

\* `for x in e.kids`: the items are read once, and keep pointing to what
\* they pointed to.
ForIn ==
  /\ Running /\ Len(frames) < MaxFrames /\ Len(temps) = 1
  /\ frames' = Append(frames, Frame("loop", <<>>, buffer[temps[1]]))
  /\ temps' = <<>>
  /\ UNCHANGED <<scopes, captured, outcome>>
  /\ Commit(cell, buffer)

\* The body is left, the first time not yet entered, and run for the next
\* item.
NextItem(x) ==
  /\ Running /\ Inside("loop") /\ temps = <<>>
  /\ LET loop == Last(frames) IN
     /\ loop.items # <<>> /\ ~Cyclic(Head(loop.items))
     /\ frames' = Append(Front(frames), [loop EXCEPT !.items = Tail(@)])
     /\ temps' = <<>>
     /\ UNCHANGED <<captured, outcome>>
     /\ define(push_scope(loop.scopes), x, Head(loop.items), BodyScope)

BindsOperand == Len(temps) = 1 \/ (temps # <<>> /\ Len(frames) < MaxFrames)
BindsItem == temps = <<>> /\ Inside("loop") /\ Last(frames).items # <<>>

\* deep_clone_value of a value that contains itself recurses until the
\* stack overflows.
Overflow ==
  /\ Running
  /\ (BindsOperand /\ Cyclic(Last(temps))) \/ (BindsItem /\ Cyclic(Head(Last(frames).items)))
  /\ outcome' = "overflow"
  /\ UNCHANGED <<scopes, cell, buffer, temps, captured, frames>>
------------------------------------------------------------------------------
(***************************************************************************)
(* Statements that store: the value is not cloned.                         *)
(***************************************************************************)
\* `x.kids = e;`
AssignField(x) ==
  /\ Running /\ Len(temps) = 1 /\ x \in Visible
  /\ temps' = <<>>
  /\ UNCHANGED <<scopes, captured, frames, outcome>>
  /\ Commit(Override(cell, Only(Lookup(x), temps[1])), buffer)

\* `x.kids[i] = e;`, in bounds.
AssignIndex(x, i) ==
  /\ Running /\ Len(temps) = 1 /\ x \in Visible
  /\ LET b == cell[Lookup(x)] IN
     /\ i \in DOMAIN buffer[b]
     /\ temps' = <<>>
     /\ UNCHANGED <<scopes, captured, frames, outcome>>
     /\ Commit(cell, [buffer EXCEPT ![b][i] = temps[1]])

\* `array_push(e1.kids, e2);`
ArrayPush ==
  /\ Running /\ Len(temps) = 2 /\ Len(buffer[temps[1]]) < MaxLen
  /\ temps' = <<>>
  /\ UNCHANGED <<scopes, captured, frames, outcome>>
  /\ Commit(cell, [buffer EXCEPT ![temps[1]] = Append(@, temps[2])])
------------------------------------------------------------------------------
(***************************************************************************)
(* Blocks, and the ends of things.                                         *)
(***************************************************************************)
\* eval_block on a block that is not the body of something.
EnterBlock ==
  /\ Running /\ Len(frames) < MaxFrames
  /\ frames' = Append(frames, Frame("block", temps, <<>>))
  /\ temps' = <<>>
  /\ scopes' = push_scope(scopes)
  /\ UNCHANGED <<captured, outcome>>
  /\ Commit(cell, buffer)

\* Back in frame `n` with the value of what is left, if it has one.
Leave(n) ==
  /\ scopes' = frames[n].scopes
  /\ temps' = frames[n].temps \o temps
  /\ frames' = SubSeq(frames, 1, n - 1)
  /\ UNCHANGED <<captured, outcome>>
  /\ Commit(cell, buffer)

EndBlock ==
  /\ Running /\ Inside("block") /\ Len(temps) <= 1
  /\ Len(Last(frames).temps) + Len(temps) <= MaxTemps
  /\ Leave(Len(frames))

\* The items are used up, or `break;`, out of the blocks around it.
EndLoop ==
  /\ Running /\ temps = <<>>
  /\ \E n \in DOMAIN frames :
       /\ frames[n].kind = "loop"
       /\ frames[n].items = <<>> \/ Len(scopes) > Len(frames[n].scopes)
       /\ \A k \in n + 1..Len(frames) : frames[k].kind = "block"
       /\ Leave(n)

\* `return e;`, or the tail of the body: out of the loops and blocks too.
Return ==
  /\ Running /\ Len(temps) = 1
  /\ \E n \in DOMAIN frames :
       /\ frames[n].kind = "call"
       /\ \A k \in n + 1..Len(frames) : frames[k].kind # "call"
       /\ Leave(n)

\* `fun f(Param) { .. }` in the outermost block.
DeclareFun ==
  /\ Running /\ frames = <<>> /\ temps = <<>> /\ captured = <<>>
  /\ captured' = scopes
  /\ UNCHANGED <<scopes, temps, frames, outcome>>
  /\ Commit(cell, buffer)
------------------------------------------------------------------------------
Init ==
  /\ scopes = << <<>> >>
  /\ cell = <<>>
  /\ buffer = <<>>
  /\ temps = <<>>
  /\ captured = <<>>
  /\ frames = <<>>
  /\ outcome = "running"

Binds == \E x \in Names : Let(x) \/ Assign(x) \/ MatchArm(x) \/ NextItem(x) \/ (x = Param /\ Call)

Stores ==
  \/ \E x \in Names : AssignField(x) \/ \E i \in 1..MaxLen : AssignIndex(x, i)
  \/ ArrayPush

Others ==
  \/ \E x \in Names : Ident(x)
  \/ \E i \in 1..MaxLen : Index(i)
  \/ \E k \in 0..MaxLen : Literal(k)
  \/ ForIn \/ EnterBlock \/ EndBlock \/ EndLoop \/ Return \/ DeclareFun \/ Overflow

Next == Binds \/ Stores \/ Others

Spec == Init /\ [][Next]_vars

\* The programs that store only what no variable holds: literals, what is
\* made of them, and results of calls that are not variables of f either.
StoredIsFresh == Reachable({Last(temps)}) \cap Reachable(Range(cell)) = {}
FreshNext == Binds \/ (Stores /\ StoredIsFresh) \/ Others
FreshSpec == Init /\ [][FreshNext]_vars
------------------------------------------------------------------------------
(***************************************************************************)
(* Properties.                                                             *)
(***************************************************************************)
\* Scopes over cells `c`, with one to declare in.
IsEnvironment(scs, c) == scs \in Seq(PartialFunctions(Names, DOMAIN c)) /\ scs # <<>>

FramesOf(c, h) ==
  {f \in [kind : {"block", "loop", "call"}, scopes : Seq(PartialFunctions(Names, DOMAIN c)),
          temps : Seq(DOMAIN h), items : Seq(DOMAIN h)] :
     f.scopes # <<>> /\ Len(f.temps) <= IF f.kind = "call" THEN MaxTemps - 1 ELSE MaxTemps}

HoldsArrays(h) ==
  /\ DOMAIN h \subseteq Buffers
  /\ \A b \in DOMAIN h : h[b] \in Seq(DOMAIN h) /\ Len(h[b]) <= MaxLen

IsStore(c, h) == c \in PartialFunctions(Cells, DOMAIN h) /\ HoldsArrays(h)

IsProgram(c, h, scs, fun, ts, fs) ==
  /\ IsEnvironment(scs, c) /\ (fun = <<>> \/ IsEnvironment(fun, c))
  /\ ts \in Seq(DOMAIN h) /\ Len(ts) <= MaxTemps
  /\ fs \in Seq(FramesOf(c, h)) /\ Len(fs) <= MaxFrames

\* Every name leads to a cell in use, every cell, operand and element to a
\* buffer in use, there is room for the operands of every statement to be
\* gone back to, and the bounds are kept.
TypeOK ==
  /\ IsStore(cell, buffer)
  /\ IsProgram(cell, buffer, scopes, captured, temps, frames)
  /\ outcome \in {"running", "overflow"}

\* Two variables lead to one buffer.
Aliased ==
  \E c, d \in DOMAIN cell : c # d /\ Reachable({cell[c]}) \cap Reachable({cell[d]}) # {}

\* Nothing but `x` leads to the buffers of its value.
OnlyOwner(x) ==
  LET c == Lookup(x)
      others == Range(Keep(cell, DOMAIN cell \ {c})) \cup Pending(temps, frames)
  IN Reachable({cell[c]}) \cap Reachable(others) = {}

\* The step binds `x` to value `v`.
Bound(x, v) ==
  \/ temps = <<v>> /\ (Let(x) \/ Assign(x))
  \/ temps # <<>> /\ v = Last(temps) /\ (MatchArm(x) \/ (x = Param /\ Call))
  \/ BindsItem /\ v = Head(Last(frames).items) /\ NextItem(x)

\* ADR-0007, "Every binding gets its own Rc": whatever was done to the heap
\* before, a `let`, an assignment, a pattern, a loop variable and a parameter
\* start with buffers nothing else leads to, neither another variable nor an
\* operand or loop item that is still to be used.
NewBindingsAreOwn ==
  [][\A x \in Names, v \in DOMAIN buffer : Bound(x, v) => OnlyOwner(x)']_vars

\* ADR-0007, the specification "requires value semantics: assigning an array
\* to a new name produces an independent copy": the variable that is bound
\* has the value of the operand down to the last leaf, and no other variable
\* changes its value.
BindingsCopyTheValue ==
  [][\A x \in Names, v \in DOMAIN buffer : Bound(x, v) =>
       /\ Shape(cell[Lookup(x)])' = Shape(v)
       /\ \A c \in DOMAIN cell \cap DOMAIN cell' :
            c # Lookup(x)' => Shape(cell[c])' = Shape(cell[c])]_vars

\* No step but a store of something a variable already holds makes two
\* variables lead to one buffer: not reading, binding, capturing, calling,
\* returning, nor iterating.
AliasesEnterByStores ==
  [][~Aliased /\ Aliased' => Stores /\ ~StoredIsFresh]_vars

\* ADR-0007, Consequences: "the clone was made at bind time so no aliasing
\* exists".  True of the programs of FreshSpec, and not of all.
NoAliasing == ~Aliased

\* docs/evaluator.md, "mutations to one do not affect the other": variables
\* are independent values, for the programs of FreshSpec.
Values == INSTANCE ValueSemantics WITH
  Variables <- Cells, value <- [c \in DOMAIN cell |-> Shape(cell[c])]
ImplementsValueSemantics == Values!Spec

\* docs/evaluator.md, "When env.define() or env.set() stores an array, it
\* calls deep_clone_value() to produce a fully independent copy".
ClonesAreProduced == outcome # "overflow"
==============================================================================
