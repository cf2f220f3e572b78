----------------------------- MODULE MCInference -----------------------------
(***************************************************************************)
(* Programs of a function f, which may call g, and main, which calls f, in *)
(* several orders, and with main's calls in a generic function.            *)
(***************************************************************************)
EXTENDS Inference, TLC

N(name) == [kind |-> "name", name |-> name]
One == [kind |-> "literal", type |-> int, value |-> "number"]
B(v) == [kind |-> "literal", type |-> bool, value |-> v]
List(es) == [kind |-> "array", elems |-> es]
Call(f, args) == [kind |-> "call", callee |-> f, args |-> args]
At(x) == [kind |-> "index", object |-> x]
Add(a, b) == [kind |-> "add", lhs |-> a, rhs |-> b]
And(a, b) == [kind |-> "and", lhs |-> a, rhs |-> b]
Block(lets, tail) == [lets |-> lets, tail |-> tail, returns |-> FALSE]
Body(tail) == Block(<<>>, tail)
Returning(x) == [lets |-> <<>>, tail |-> x, returns |-> TRUE]
If(c, then, else) == [kind |-> "if", cond |-> c, then |-> then, else |-> else]
Let(name, value) == [name |-> name, value |-> value]
Param(name, ann) == [name |-> name, ann |-> ann]
Closure(params, ret, body) == [kind |-> "closure", params |-> params, ret |-> ret, body |-> body]
Open(p, body) == Closure(<<Param(p, NotAnnotated)>>, NotAnnotated, body)
Decl(name, params, ret, body) == [name |-> name, params |-> params, ret |-> ret, body |-> body]

f == N("f")
g == N("g")
h == N("h")
x == N("x")

\* Bodies of f that call g.
CallingBodies ==
  { Body(Call(g, <<x>>)), Body(Call(g, <<Call(g, <<x>>)>>)), Body(Add(Call(g, <<x>>), One)),
    Body(If(Call(g, <<x>>), Body(x), Body(One))),
    Block(<<Let("h", Open("i", Body(Call(g, <<N("i")>>))))>>, Call(h, <<x>>)) }

FBodies ==
  { Body(x), Body(List(<<x>>)), Body(At(x)), Body(Add(x, One)), Body(Add(x, x)),
    Body(List(<<x, One>>)), Body(And(x, B("true"))),
    Body(Call(x, <<x>>)), Body(Call(x, <<One>>)), Body(Open("i", Body(x))),
    \* a closure over what is not known of x yet, at one type or two
    Block(<<Let("h", Open("i", Body(At(x))))>>, Call(h, <<One>>)),
    Block(<<Let("h", Open("i", Body(Call(x, <<N("i")>>))))>>, Call(h, <<One>>)),
    Block(<<Let("h", Open("i", Body(At(x)))), Let("a", Add(Call(h, <<One>>), One))>>,
          And(Call(h, <<One>>), B("true"))),
    Block(<<Let("h", Open("i", Body(x))), Let("a", Add(Call(h, <<One>>), One))>>,
          And(Call(h, <<One>>), B("true"))),
    Block(<<Let("h", Open("i", Body(List(<<x>>)))), Let("a", Add(At(Call(h, <<One>>)), One))>>,
          And(At(Call(h, <<One>>)), B("true"))),
    \* a closure of no type in particular, used at two; and with an argument too many
    Block(<<Let("h", Open("i", Body(N("i"))))>>, Call(Call(h, <<h>>), <<x>>)),
    Block(<<Let("h", Closure(<<Param("i", int)>>, int, Body(N("i"))))>>, Call(h, <<x, x>>)),
    \* closures with annotations
    Block(<<Let("h", Closure(<<Param("i", int)>>, int, Body(Add(N("i"), One))))>>,
          Add(Call(h, <<x>>), One)),
    Block(<<Let("h", Closure(<<Param("i", int)>>, NotAnnotated, Body(Add(N("i"), One))))>>,
          Add(Call(h, <<x>>), One)),
    Block(<<Let("h", Closure(<<Param("i", int)>>, NotAnnotated, Body(Add(N("i"), One))))>>,
          Call(h, <<x>>)),
    \* a branch that returns
    Block(<<Let("a", If(B("false"), Returning(B("true")), Body(x)))>>, And(N("a"), B("true"))),
    Block(<<Let("a", If(B("false"), Returning(B("true")), Body(x)))>>, N("a")),
    Block(<<Let("a", If(B("false"), Body(x), Returning(One)))>>, Add(N("a"), One)),
    Body(If(B("true"), Returning(x), Body(One))) }

GBodies ==
  LET y == N("y") IN { Body(y), Body(List(<<y>>)), Body(Add(y, One)), Body(B("true")), Body(At(y)) }

MainBodies ==
  { Body(Call(f, <<One>>)), Body(Add(Call(f, <<One>>), One)),
    Body(Call(f, <<B("true")>>)), Body(And(Call(f, <<B("true")>>), B("true"))),
    Body(And(Call(f, <<One>>), B("true"))), Body(And(B("true"), Call(f, <<One>>))),
    Body(Call(f, <<List(<<One>>)>>)), Body(Add(Call(f, <<List(<<B("true")>>)>>), One)),
    Body(At(Call(f, <<One>>))),
    Body(Call(Call(f, <<One>>), <<One>>)),
    Body(Call(f, <<Call(f, <<One>>)>>)), Block(<<Let("k", f)>>, Call(N("k"), <<One>>)),
    Body(If(B("true"), Body(Call(f, <<One>>)), Body(One))) }

F(ann, body) == Decl("f", <<Param("x", ann)>>, NotAnnotated, body)
G(body) == Decl("g", <<Param("y", NotAnnotated)>>, NotAnnotated, body)
Main(body) == Decl("main", <<>>, NotAnnotated, body)

\* What main does, in a function that is generic for no reason.
Wrapped(body) ==
  <<Decl("w", <<Param("u", NotAnnotated)>>, NotAnnotated, body),
    Main(Body(Call(N("w"), <<One>>)))>>

Anns == {NotAnnotated, int}

MCPrograms ==
  UNION {{<<F(ann, fb), Main(mb)>>, <<Main(mb), F(ann, fb)>>, <<F(ann, fb)>> \o Wrapped(mb)} :
           ann \in Anns, fb \in FBodies, mb \in MainBodies}
  \cup
  UNION {{<<F(ann, fb), G(gb), Main(mb)>>, <<Main(mb), F(ann, fb), G(gb)>>,
          <<G(gb), F(ann, fb), Main(mb)>>, <<F(ann, fb), G(gb)>> \o Wrapped(mb)} :
           ann \in Anns, fb \in CallingBodies, gb \in GBodies, mb \in MainBodies}
  \cup
  UNION {{<<F(ann, fb), G(gb), Main(Body(Call(f, <<g>>)))>>,
          <<G(gb), Main(Body(Call(f, <<g>>))), F(ann, fb)>>} :
           ann \in Anns, fb \in FBodies, gb \in GBodies}

=============================================================================
