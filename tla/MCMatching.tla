----------------------------- MODULE MCMatching -----------------------------
EXTENDS Matching, FiniteSetsExt, TLC

\* A program with an enum Result of its own, and an enum Knot without values.
MCEnums ==
  [Perhaps |-> [Some |-> [value |-> Type("T")], None |-> <<>>],
   Result |-> [Ok |-> [value |-> Type("T")], Err |-> [error |-> Type("E")], Later |-> <<>>],
   Shape |-> [Dot |-> <<>>, Line |-> [on |-> BoolType],
              Pair |-> [a |-> BoolType, b |-> BoolType]],
   Knot |-> [Tied |-> [to |-> Type("Knot")]],
   Rope |-> [Loose |-> <<>>, Tied |-> [to |-> Type("Knot")]]]
MCParams == [Perhaps |-> <<"T">>, Result |-> <<"T", "E">>, Shape |-> <<>>, Knot |-> <<>>, Rope |-> <<>>]
MCIntegers == {"0", "1", "2", "3"}

PerhapsBool == [con |-> "Perhaps", args |-> <<BoolType>>]
ResultType == [con |-> "Result", args |-> <<BoolType, IntType>>]
TupleType == [con |-> "Tuple", args |-> <<BoolType, PerhapsBool>>]

\* Round after round, values are made of those of the round before.
MCTypes == {BoolType, IntType, PerhapsBool, ResultType, TupleType, Type("Shape"), Type("Knot"), Type("Rope")}
RECURSIVE ValuesAfter(_)
ValuesAfter(n) ==
  [t \in MCTypes |-> IF n = 0 THEN {} ELSE LET before == ValuesAfter(n - 1) IN values(before, t)]
MCValues == ValuesAfter(3)

Wild == [kind |-> "wildcard"]
Var(x) == [kind |-> "binding", name |-> x]
Lit(l) == [kind |-> "literal", literal |-> l]
None == [kind |-> "none"]
Tuple(ps) == [kind |-> "tuple", elems |-> ps]
Variant(e, v, fs) ==
  [kind |-> "variant", enum |-> e, variant |-> v, fields |-> fs]

Menu(type, patterns) == [type |-> type, patterns |-> patterns]

\* the last pattern of some is one of another type
MCMenus ==
  {Menu(BoolType, {Lit("true"), Lit("false"), Var("x"), None}),
   Menu(IntType, {Lit("0"), Var("x"), Lit("true")}),
   Menu(PerhapsBool, {None, Variant("Perhaps", "None", {}),
                      Variant("Perhaps", "Some", {"value"}), Wild,
                      Variant("Result", "Ok", {})}),
   Menu(ResultType, {Variant("Result", "Ok", {"value"}),
                     Variant("Result", "Err", {"error"}),
                     Variant("Result", "Err", {}), Var("x")}),
   Menu(Type("Rope"), {Variant("Rope", "Loose", {}), Variant("Rope", "Tied", {"to"})}),
   Menu(Type("Shape"), {Variant("Shape", "Dot", {}),
                        Variant("Shape", "Line", {"on"}),
                        Variant("Shape", "Pair", {"a", "b"}),
                        Variant("Shape", "Pair", {"b"}), Wild}),
   Menu(TupleType, {Tuple(<<Var("x"), Var("y")>>),
                    Tuple(<<Var("x"), Var("x")>>),
                    Tuple(<<Lit("true"), Wild>>),
                    Tuple(<<Var("x"), Variant("Perhaps", "Some", {"value"})>>),
                    Tuple(<<Var("x")>>)})}

RECURSIVE SubPatterns(_), NestingOf(_)
SubPatterns(p) ==
  {p} \cup IF p.kind = "tuple" THEN UNION {SubPatterns(p.elems[i]) : i \in DOMAIN p.elems} ELSE {}
NestingOf(p) ==
  IF p.kind = "tuple" THEN 1 + Max({0} \cup {NestingOf(p.elems[i]) : i \in DOMAIN p.elems}) ELSE 0
MCNesting ==
  [p \in UNION {UNION {SubPatterns(q) : q \in menu.patterns} : menu \in MCMenus} |-> NestingOf(p)]
============================================================================
