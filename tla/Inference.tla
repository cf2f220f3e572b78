------------------------------ MODULE Inference ------------------------------
(***************************************************************************)
(* Functions without annotations through the passes of one module:         *)
(* inference collects constraints, solves and generalises as it goes       *)
(* (typechecker/inference.rs, typeinference/mod.rs), check_impl makes the  *)
(* schemes final (typechecker/mod.rs), construction types again, from the  *)
(* schemes, the bodies of the functions that are not generic               *)
(* (typechecker/construction.rs), and main runs (evaluator/mod.rs).        *)
(*                                                                         *)
(* A program is a list of functions.  A body is a block: closures and      *)
(* other values bound by let, then a value or a return.  Every name is     *)
(* declared once in the program (LexicalScopes looks at names that are     *)
(* not), and no function reaches itself, so that every run ends.           *)
(* Annotations are types without variables; NotAnnotated leaves one out.   *)
(***************************************************************************)
EXTENDS Unification

CONSTANT
  Programs  \* the programs, each a sequence of functions with main among them

NotAnnotated == Concrete("_")
int == Concrete("Int")
bool == Concrete("Bool")
unit == Concrete("Unit")

VARIABLES
  program,
  phase,    \* the pass
  pos,      \* the function it is at
  env,      \* inference: types and schemes of the names in scope
  ctx,      \* inference: what accumulates over the module
  schemes,  \* construction: the final scheme of every generalised name
  typed,    \* construction: the type of the body of each function it built
  outcome,
  result    \* what main returned, or the fault it ended with

vars == <<program, phase, pos, env, ctx, schemes, typed, outcome, result>>

Extend(f, x, y) == [n \in DOMAIN f \cup {x} |-> IF n = x THEN y ELSE f[n]]

\* f with each name bound to the type or value in its place; names without
\* one are left out, as zip does.
ExtendAll(f, names, xs) ==
  LET bound == {i \in DOMAIN names : i \in DOMAIN xs}
      place(n) == CHOOSE i \in bound : names[i] = n
      new == {names[i] : i \in bound}
  IN  [n \in DOMAIN f \cup new |-> IF n \in new THEN xs[place(n)] ELSE f[n]]

names(params) == [i \in DOMAIN params |-> params[i].name]

\* What is evaluated first, in order, where every operand is.
operands(x) ==
  CASE x.kind = "array" -> x.elems
    [] x.kind \in {"add", "and"} -> <<x.lhs, x.rhs>>
    [] x.kind = "index" -> <<x.object>>
    [] x.kind = "call" -> <<x.callee>> \o x.args
    [] OTHER -> <<>>

-----------------------------------------------------------------------------
(* Inference.  env has the types of mono_env, the schemes of poly_env and  *)
(* the return type of the function around; an inner scope is an extended   *)
(* env, which is dropped at its end.  ctx has the next type variable, the  *)
(* constraints, the functions generalised so far, and the first error.     *)
(* ctx.leaks is not in the code: the names generalised over a variable     *)
(* that is free in a type in scope only under the substitution of that     *)
(* moment, which env_free_vars is not put through.                         *)

ann_to_infer(ann, fresh) == IF ann = NotAnnotated THEN fresh ELSE ann

fresh_var(c) == [type |-> Var(c.next), ctx |-> [c EXCEPT !.next = @ + 1]]

\* The types of params and, last, of the result; all those without an
\* annotation get fresh variables.
signature(f, c) ==
  LET anns == Append([i \in DOMAIN f.params |-> f.params[i].ann], f.ret)
      missing(i) == Cardinality({j \in 1..i : anns[j] = NotAnnotated})
  IN  [types |-> [i \in DOMAIN anns |-> ann_to_infer(anns[i], Var(c.next + missing(i) - 1))],
       ctx   |-> [c EXCEPT !.next = @ + missing(Len(anns))]]

add_constraint(c, a, b) == [c EXCEPT !.constraints = Append(@, <<a, b>>)]

Failed(c, code) == IF c.error = "" THEN [c EXCEPT !.error = code] ELSE c

\* Fault: an opened body has no names around it.
env_free_vars_of_nothing(e) == {}

env_free_vars(e) == UNION {free_vars(e.mono[n]) : n \in DOMAIN e.mono}

lookup(name, e, c) ==
  IF name \in DOMAIN e.poly
  THEN [type |-> instantiate(e.poly[name], c.next),
        ctx  |-> [c EXCEPT !.next = @ + Cardinality(e.poly[name].quantified_vars)]]
  ELSE [type |-> e.mono[name], ctx |-> c]

bind_mono(e, name, t) == [e EXCEPT !.mono = Extend(@, name, t)]
bind_poly(e, name, scheme) == [e EXCEPT !.poly = Extend(@, name, scheme)]

\* The variables that a name in scope, other than name, stands for under
\* the substitution, and does not have in the type it is bound to.
StandInVariables(e, name, subst) ==
  LET others == DOMAIN e.mono \ {name}
  IN  UNION {free_vars(apply(subst, e.mono[n])) : n \in others}
        \ UNION {free_vars(e.mono[n]) : n \in others}

\* Solve what there is, and generalise t over what is not in env_fvs.
solve_and_generalize(name, t, env_fvs, e, c) ==
  LET as_scheme(scheme, subst) ==
        LET leaks == scheme.quantified_vars \cap StandInVariables(e, name, subst) # {}
        IN  [scheme |-> scheme,
             ctx    |-> IF leaks THEN [c EXCEPT !.leaks = @ \cup {name}] ELSE c]
      under(subst) == as_scheme(generalize(apply(subst, t), env_fvs), subst)
      solved_by(solved) ==
        IF solved = {} THEN [scheme |-> mono(t), ctx |-> Failed(c, "T0001")]
        ELSE under(CHOOSE s \in solved : TRUE)
  IN  solved_by(solve_constraints(c.constraints))

generalization(name, t, env_fvs) == [name |-> name, fun_ty |-> t, env_fvs |-> env_fvs]

RECURSIVE infer_expr(_, _, _), infer_block(_, _, _)

\* Fault: the body of a function may have any type.
returning_unchecked(f, types, body) ==
  [type |-> Fun(Front(types), Last(types)), ctx |-> body.ctx]

\* The type of a closure or function, from that of its body.
returning(f, types, body) ==
  [type |-> Fun(Front(types), Last(types)),
   ctx  |-> add_constraint(body.ctx, body.type, Last(types))]

\* The parameters are in scope in the body, and may be returned from.
infer_body(f, types, e, c) ==
  returning(f, types,
    infer_block(f.body, [e EXCEPT !.mono = ExtendAll(@, names(f.params), Front(types)),
                                  !.ret = Last(types)], c))

\* Expressions in order: the types of acc and theirs.
infer_all(es, e, acc) ==
  FoldLeft(LAMBDA a, x : LET typed_as(r) == [types |-> Append(a.types, r.type), ctx |-> r.ctx]
                         IN  typed_as(infer_expr(x, e, a.ctx)), acc, es)

\* The type of a call, before its result is known.
infer_call(types, c) ==
  LET callee == Head(types)
      ret == fresh_var(c)
      arity == IsFun(callee) => Len(callee.args) = Len(types)
  IN  [type |-> ret.type,
       ctx  |-> IF arity THEN add_constraint(ret.ctx, callee, Fun(Tail(types), ret.type))
                ELSE Failed(ret.ctx, "T0004")]

\* Every one of types is t.
constrain_all(c, types, t) == FoldLeft(LAMBDA d, u : add_constraint(d, u, t), c, types)

\* An expression from the types of its operands.  (Those of an array are
\* names and literals, and an index is the literal 0, so that they have no
\* constraints of their own.)
infer_operator(x, r) ==
  LET fresh == fresh_var(r.ctx) IN
  CASE x.kind = "array" ->
         [type |-> Array(Head(r.types)), ctx |-> constrain_all(r.ctx, Tail(r.types), Head(r.types))]
    [] x.kind = "call" -> infer_call(r.types, r.ctx)
    [] x.kind = "index" ->
         [type |-> fresh.type, ctx |-> add_constraint(fresh.ctx, r.types[1], Array(fresh.type))]
    [] x.kind = "add" -> [type |-> fresh.type, ctx |-> constrain_all(fresh.ctx, r.types, fresh.type)]
    [] x.kind = "and" -> [type |-> bool, ctx |-> constrain_all(r.ctx, r.types, bool)]

\* The branches of an if, one after the other, after its condition.
infer_if(x, e, cond) ==
  LET joined(then, else) ==
        [type |-> then.type, ctx |-> add_constraint(else.ctx, then.type, else.type)]
      with_else(then) == joined(then, infer_block(x.else, e, then.ctx))
  IN  with_else(infer_block(x.then, e, add_constraint(cond.ctx, cond.type, bool)))

infer_expr(x, e, c) ==
  CASE x.kind = "literal" -> [type |-> x.type, ctx |-> c]
    [] x.kind = "name" -> lookup(x.name, e, c)
    [] x.kind = "if" -> infer_if(x, e, infer_expr(x.cond, e, c))
    [] x.kind = "closure" ->
         LET s == signature(x, c) IN infer_body(x, s.types, e, s.ctx)
    [] OTHER -> infer_operator(x, infer_all(operands(x), e, [types |-> <<>>, ctx |-> c]))

\* A closure bound by let is generalised at once; value is what was inferred.
infer_let(d, e, value) ==
  LET bound(g) ==
        IF g.scheme.quantified_vars = {}
        THEN [env |-> bind_mono(e, d.name, value.type), ctx |-> g.ctx]
        ELSE [env |-> bind_poly(e, d.name, g.scheme),
              ctx |-> [g.ctx EXCEPT !.generalized =
                         Append(@, generalization(d.name, g.scheme.type, env_free_vars(e)))]]
  IN  IF d.value.kind # "closure"
      THEN [env |-> bind_mono(e, d.name, value.type), ctx |-> value.ctx]
      ELSE bound(solve_and_generalize(d.name, value.type, env_free_vars(e), e, value.ctx))

infer_lets(lets, e, c) ==
  FoldLeft(LAMBDA s, d : infer_let(d, s.env, infer_expr(d.value, s.env, s.ctx)),
           [env |-> e, ctx |-> c], lets)

\* The tail is in the scope of the lets.
infer_block(b, e, c) ==
  LET in_scope(s) == infer_expr(b.tail, s.env, s.ctx)
      ended(tail) ==
        IF b.returns THEN [type |-> Never, ctx |-> add_constraint(tail.ctx, tail.type, e.ret)]
        ELSE tail
  IN  ended(in_scope(infer_lets(b.lets, e, c)))

infer_fun_decl(f, e, c) ==
  LET s == signature(f, c)
      env_fvs == env_free_vars(e)
      bound(g, fun_ty) ==
        [env |-> bind_poly(e, f.name, g.scheme),
         ctx |-> [g.ctx EXCEPT !.generalized =
                    Append(@, generalization(f.name, fun_ty, env_fvs))]]
      generalized(body) ==
        LET pre_reg == lookup(f.name, e, body.ctx)
        IN  bound(solve_and_generalize(f.name, body.type, env_fvs, e,
                    add_constraint(pre_reg.ctx, pre_reg.type, body.type)), body.type)
  IN  generalized(infer_body(f, s.types, e, s.ctx))

\* Every function gets a variable, as a type and as a scheme.
hoisted(decls) ==
  LET index(n) == CHOOSE i \in DOMAIN decls : decls[i].name = n
      all == {decls[i].name : i \in DOMAIN decls}
  IN  [mono |-> [n \in all |-> Var(index(n))],
       poly |-> [n \in all |-> mono(Var(index(n)))],
       ret  |-> NotAnnotated]

-----------------------------------------------------------------------------
(* Construction.  types has the concrete types of the names in scope.      *)
(* A result is a type with the code of the first error, if any.            *)

Typed(t) == [type |-> t, code |-> ""]
Rejected(code) == [type |-> unit, code |-> code]

\* The first of the results that has an error, or r.
Unless(results, r) ==
  LET wrong == {i \in DOMAIN results : results[i].code # ""}
  IN  IF wrong = {} THEN r
      ELSE results[CHOOSE i \in wrong : \A j \in wrong : i <= j]

infer_type_to_type(t) == IF IsConcrete(t) THEN Typed(t) ELSE Rejected("T0002")

\* The scheme at the types of the arguments: its instance is unified with
\* them, and must leave nothing open.
instantiate_scheme_for_call(scheme, args) ==
  LET past == 1 + Max(free_vars(scheme.type) \cup {0})
      fun == instantiate(scheme, past)
      step(substs, i) ==
        UNION {{compose(s, u) : u \in unify(apply(s, fun.args[i]), args[i])} : s \in substs}
      n == IF Len(args) < Len(fun.args) THEN Len(args) ELSE Len(fun.args) - 1
      solved == FoldLeft(step, {NoBindings}, [i \in 1..n |-> i])
  IN  IF solved = {} THEN Rejected("T0001")
      ELSE infer_type_to_type(apply(CHOOSE s \in solved : TRUE, fun))

RECURSIVE construct_expr(_, _, _), construct_block(_, _, _)

arithmetic_type(lhs) ==
  IF lhs \in {int, Never} THEN Typed(lhs) ELSE Rejected("T0005")

\* An expression from what its operands are.
construct_operator(x, parts) ==
  Unless(parts,
    CASE x.kind = "array" -> Typed(Array(parts[1].type))
      [] x.kind = "index" ->
           IF parts[1].type.con = "Array" THEN Typed(parts[1].type.args[1]) ELSE Rejected("T0001")
      [] x.kind = "add" -> arithmetic_type(parts[1].type)
      [] x.kind = "and" -> Typed(bool))

call_type(args, callee) ==
  Unless(Append(args, callee),
    IF ~IsFun(callee.type) THEN Rejected("T0001")
    ELSE IF Len(callee.type.args) # Len(args) + 1 THEN Rejected("T0004")
    ELSE Typed(Last(callee.type.args)))

\* A name without a type has a scheme with variables.
construct_call(x, args, types, sch) ==
  LET by_scheme == /\ x.callee.kind = "name"
                   /\ x.callee.name \notin DOMAIN types
                   /\ x.callee.name \in DOMAIN sch
  IN  call_type(args,
        IF by_scheme
        THEN instantiate_scheme_for_call(sch[x.callee.name], [i \in DOMAIN args |-> args[i].type])
        ELSE construct_expr(x.callee, types, sch))

if_type(x, parts) ==
  Unless(parts, Typed(IF x.then.returns THEN unit ELSE parts[2].type))

construct_expr(x, types, sch) ==
  LET all(es) == [i \in DOMAIN es |-> construct_expr(es[i], types, sch)] IN
  CASE x.kind = "literal" -> Typed(x.type)
    [] x.kind = "name" ->
         IF x.name \in DOMAIN types THEN Typed(types[x.name]) ELSE Rejected("T0003")
    [] x.kind = "call" -> construct_call(x, all(x.args), types, sch)
    [] x.kind = "if" ->
         if_type(x, <<construct_expr(x.cond, types, sch), construct_block(x.then, types, sch),
                      construct_block(x.else, types, sch)>>)
    [] x.kind = "closure" ->
         LET params == [i \in DOMAIN x.params |->
                          IF x.params[i].ann = NotAnnotated THEN Rejected("T0002")
                          ELSE Typed(x.params[i].ann)]
             inner == ExtendAll(types, names(x.params), [i \in DOMAIN params |-> params[i].type])
         IN  Unless(Append(params, construct_block(x.body, inner, sch)),
               Typed(Fun([i \in DOMAIN params |-> params[i].type],
                         IF x.ret = NotAnnotated THEN unit ELSE x.ret)))
    [] OTHER -> construct_operator(x, all(operands(x)))

IsGeneric(name, sch) == name \in DOMAIN sch /\ sch[name].quantified_vars # {}

\* A closure with a generic scheme is kept as it is, and has no type.
construct_let(acc, d, value, sch) ==
  IF acc.code # "" \/ (d.value.kind = "closure" /\ IsGeneric(d.name, sch)) THEN acc
  ELSE [types |-> Extend(acc.types, d.name, value.type), code |-> value.code]

\* The type of the tail, which is also the type of a returned value.
construct_block(b, types, sch) ==
  LET tail(lets) == IF lets.code # "" THEN Rejected(lets.code)
                    ELSE construct_expr(b.tail, lets.types, sch)
  IN  tail(FoldLeft(LAMBDA acc, d :
                      construct_let(acc, d, construct_expr(d.value, acc.types, sch), sch),
                    [types |-> types, code |-> ""], b.lets))

\* Names whose schemes have no variables at all have their types from the
\* start.
concrete_env(sch) ==
  [n \in {n \in DOMAIN sch : ~IsGeneric(n, sch) /\ IsConcrete(sch[n].type)} |-> sch[n].type]

construct_fun_decl(f, sch) ==
  LET t == sch[f.name].type
      params == [i \in DOMAIN f.params |-> infer_type_to_type(t.args[i])]
      inner == ExtendAll(concrete_env(sch), names(f.params),
                         [i \in DOMAIN params |-> params[i].type])
  IN  Unless(params, construct_block(f.body, inner, sch))

-----------------------------------------------------------------------------
(* Evaluation.  A number is a value of its own, a closure has its          *)
(* environment, and generic says that construction left the code alone.    *)
(* A fault is the operation that met a value it has no case for.           *)

Value(v) == [is |-> "value", value |-> v]
Return(v) == [is |-> "return", value |-> v]
Fault(op, generic) == [is |-> "fault", op |-> op, generic |-> generic]

Literal(v) == [literal |-> v]
True == Literal("true")
False == Literal("false")
Number == Literal("number")

IsArray(v) == "elems" \in DOMAIN v
IsCallable(v) == "body" \in DOMAIN v

RECURSIVE eval_expr(_, _, _), eval_all(_, _, _, _), eval_block(_, _, _)

\* The values of es, or what one of them ended with.
eval_all(es, vals, locals, generic) ==
  IF es = <<>> THEN Value(vals)
  ELSE LET r == eval_expr(Head(es), locals, generic)
       IN  IF r.is = "fault" THEN r
           ELSE eval_all(Tail(es), Append(vals, r.value), locals, generic)

call_function(f, args) ==
  LET r == eval_block(f.body, ExtendAll(f.captured, names(f.params), args), f.generic)
  IN  IF r.is = "return" THEN Value(r.value) ELSE r

\* The functions of the module, seen from each other.
global(name) ==
  LET f == program[CHOOSE i \in DOMAIN program : program[i].name = name]
  IN  [params |-> f.params, body |-> f.body, captured |-> <<>>,
       generic |-> IsGeneric(name, schemes)]

eval_name(name, locals, generic) ==
  IF name \in DOMAIN locals THEN Value(locals[name])
  ELSE IF \E i \in DOMAIN program : program[i].name = name THEN Value(global(name))
  ELSE Fault("name", generic)

eval_operator(x, vals, generic) ==
  CASE x.kind = "array" -> Value([elems |-> vals])
    [] x.kind = "add" -> IF vals[1] = Number /\ vals[2] = Number THEN Value(Number)
                         ELSE Fault("add", generic)
    [] x.kind = "index" -> IF IsArray(vals[1]) THEN Value(Head(vals[1].elems))
                           ELSE Fault("index", generic)
    [] x.kind = "call" -> IF IsCallable(Head(vals)) THEN call_function(Head(vals), Tail(vals))
                          ELSE Fault("call", generic)

eval_expr(x, locals, generic) ==
  CASE x.kind = "literal" -> Value(IF x.type = int THEN Number ELSE Literal(x.value))
    [] x.kind = "name" -> eval_name(x.name, locals, generic)
    [] x.kind = "and" ->
         LET lhs == eval_expr(x.lhs, locals, generic)
         IN  IF lhs.is = "fault" \/ lhs.value = False THEN lhs
             ELSE IF lhs.value # True THEN Fault("and", generic)
             ELSE eval_expr(x.rhs, locals, generic)
    [] x.kind = "if" ->
         LET cond == eval_expr(x.cond, locals, generic)
         IN  IF cond.is # "value" THEN cond
             ELSE IF cond.value = True THEN eval_block(x.then, locals, generic)
             ELSE IF cond.value = False THEN eval_block(x.else, locals, generic)
             ELSE Fault("if", generic)
    [] x.kind = "closure" ->
         Value([params |-> x.params, body |-> x.body, captured |-> locals, generic |-> generic])
    [] OTHER ->
         LET vals == eval_all(operands(x), <<>>, locals, generic)
         IN  IF vals.is = "fault" THEN vals ELSE eval_operator(x, vals.value, generic)

\* A closure that construction kept generic is evaluated as it was parsed.
eval_let(acc, d, generic) ==
  LET r == eval_expr(d.value, acc.locals, generic)
      v == IF d.value.kind = "closure" /\ IsGeneric(d.name, schemes)
           THEN [r.value EXCEPT !.generic = TRUE] ELSE r.value
  IN  IF acc.ended # <<>> THEN acc
      ELSE IF r.is # "value" THEN [acc EXCEPT !.ended = <<r>>]
      ELSE [acc EXCEPT !.locals = Extend(@, d.name, v)]

eval_block(b, locals, generic) ==
  LET lets == FoldLeft(LAMBDA acc, d : eval_let(acc, d, generic),
                       [locals |-> locals, ended |-> <<>>], b.lets)
      tail == eval_expr(b.tail, lets.locals, generic)
  IN  IF lets.ended # <<>> THEN lets.ended[1]
      ELSE IF b.returns /\ tail.is = "value" THEN Return(tail.value)
      ELSE tail

-----------------------------------------------------------------------------
Current == program[pos]
In(p) == outcome = "running" /\ phase = p

NextFun(p) ==
  IF pos < Len(program) THEN pos' = pos + 1 /\ UNCHANGED phase
  ELSE pos' = 1 /\ phase' = p

End(how) == outcome' = how /\ UNCHANGED <<program, phase, pos>>

Init ==
  /\ program \in Programs
  /\ phase = "hoist"
  /\ pos = 1
  /\ env = hoisted(<<>>)
  /\ ctx = [next |-> 1, constraints |-> <<>>, generalized |-> <<>>, error |-> "", leaks |-> {}]
  /\ schemes = <<>>
  /\ typed = <<>>
  /\ outcome = "running"
  /\ result = Value(unit)

HoistFunDecls ==
  /\ In("hoist")
  /\ env' = hoisted(program)
  /\ ctx' = [ctx EXCEPT !.next = Len(program) + 1]
  /\ phase' = "infer"
  /\ UNCHANGED <<program, pos, schemes, typed, outcome, result>>

InferFunDecl ==
  LET r == infer_fun_decl(Current, env, ctx) IN
  /\ In("infer")
  /\ r.ctx.error = ""
  /\ env' = r.env
  /\ ctx' = r.ctx
  /\ NextFun("schemes")
  /\ UNCHANGED <<program, schemes, typed, outcome, result>>

InferFails ==
  LET r == infer_fun_decl(Current, env, ctx) IN
  /\ In("infer")
  /\ r.ctx.error # ""
  /\ ctx' = r.ctx
  /\ End(r.ctx.error)
  /\ UNCHANGED <<env, schemes, typed, result>>

Subst == CHOOSE s \in solve_constraints(ctx.constraints) : TRUE

\* Every generalised name again, under all the constraints; the last of a
\* name stays.
FinalSchemes ==
  /\ In("schemes")
  /\ schemes' = FoldLeft(LAMBDA sch, g :
                           Extend(sch, g.name, generalize(apply(Subst, g.fun_ty), g.env_fvs)),
                         <<>>, ctx.generalized)
  /\ phase' = "construct"
  /\ UNCHANGED <<program, pos, env, ctx, typed, outcome, result>>

\* The body of a generic function is kept as it is.
KeepGenericFun ==
  /\ In("construct")
  /\ IsGeneric(Current.name, schemes)
  /\ NextFun("run")
  /\ UNCHANGED <<program, env, ctx, schemes, typed, outcome, result>>

ConstructFunDecl ==
  LET body == construct_fun_decl(Current, schemes) IN
  /\ In("construct")
  /\ ~IsGeneric(Current.name, schemes)
  /\ body.code = ""
  /\ typed' = Extend(typed, Current.name, body.type)
  /\ NextFun("run")
  /\ UNCHANGED <<program, env, ctx, schemes, outcome, result>>

ConstructFails ==
  LET body == construct_fun_decl(Current, schemes) IN
  /\ In("construct")
  /\ ~IsGeneric(Current.name, schemes)
  /\ body.code # ""
  /\ End(body.code)
  /\ UNCHANGED <<env, ctx, schemes, typed, result>>

RunMain ==
  /\ In("run")
  /\ result' = call_function(global("main"), <<>>)
  /\ End(IF result'.is = "fault" THEN "fault" ELSE "done")
  /\ UNCHANGED <<env, ctx, schemes, typed>>

Done == outcome # "running" /\ UNCHANGED vars

Next ==
  \/ HoistFunDecls \/ InferFunDecl \/ InferFails \/ FinalSchemes
  \/ KeepGenericFun \/ ConstructFunDecl \/ ConstructFails \/ RunMain
  \/ Done

Spec == Init /\ [][Next]_vars

-----------------------------------------------------------------------------
(* What the passes promise.                                                *)

RECURSIVE Expressions(_), BlockExpressions(_)
Expressions(x) ==
  {x} \cup UNION {Expressions(operands(x)[i]) : i \in DOMAIN operands(x)}
      \cup (IF x.kind = "if"
            THEN Expressions(x.cond) \cup BlockExpressions(x.then) \cup BlockExpressions(x.else)
            ELSE IF x.kind = "closure" THEN BlockExpressions(x.body) ELSE {})
BlockExpressions(b) ==
  Expressions(b.tail) \cup UNION {Expressions(b.lets[i].value) : i \in DOMAIN b.lets}

\* An if whose first branch returns has the type Never, which goes with
\* every type, even when the other branch has a value.
HidesItsValue(x) == x.kind = "if" /\ x.then.returns /\ ~x.else.returns

SomeValueIsHidden ==
  \E i \in DOMAIN program : \E x \in BlockExpressions(program[i].body) : HidesItsValue(x)

\* Type variables are open: in a generic body, or in what main leaves open.
RECURSIVE HasType(_, _)
HasType(v, t) ==
  \/ IsVar(t) \/ t = Never
  \/ t = int /\ v = Number
  \/ t = bool /\ v \in {True, False}
  \/ /\ ~IsVar(t) /\ t.con = "Array" /\ IsArray(v)
     /\ \A i \in DOMAIN v.elems : HasType(v.elems[i], t.args[1])
  \/ ~IsVar(t) /\ IsFun(t) /\ IsCallable(v) /\ Len(v.params) = Len(t.args) - 1

\* A variable is quantified that a name in scope stands for, or Never has
\* covered a value.
TypesAreLoose == ctx.leaks # {} \/ SomeValueIsHidden

(* A program that passes both passes does not meet a value its operations  *)
(* have no case for, in checked or in generic code, and what main returns  *)
(* is of the type its scheme says, except: where types are loose; and by   *)
(* `+`, of which inference asks no numbers and construction only in the    *)
(* bodies that are not generic.                                            *)
CheckedProgramsRun ==
  \/ TypesAreLoose
  \/ /\ outcome = "fault" => result.op = "add" /\ result.generic
     /\ outcome = "done" => HasType(result.value, Last(schemes["main"].type.args))

-----------------------------------------------------------------------------
(* Types without variables, the simple way: the types an expression may    *)
(* have when every name has one type from Ground.                          *)

Ground ==
  {int, bool} \cup {Array(t) : t \in {int, bool}} \cup {Fun(<<int>>, t) : t \in {int, bool}}

Annotated(ann, ts) == IF ann = NotAnnotated THEN ts ELSE ts \cap {ann}

RECURSIVE GroundTypes(_, _, _), GroundBody(_, _, _), GroundScopes(_, _, _)

\* The ways to give the lets of a block types.
GroundScopes(lets, types, ret) ==
  IF lets = <<>> THEN {types}
  ELSE UNION {GroundScopes(Tail(lets), Extend(types, Head(lets).name, t), ret) :
                t \in GroundTypes(Head(lets).value, types, ret)}

\* The types of a block that may return ret; a return has every type.
GroundBody(b, types, ret) ==
  UNION {LET ts == GroundTypes(b.tail, scope, ret)
         IN  IF ~b.returns THEN ts ELSE IF ret \in ts THEN Ground ELSE {} :
           scope \in GroundScopes(b.lets, types, ret)}

MayReturn(b) ==
  b.returns \/ \E x \in BlockExpressions(b) : x.kind = "if" /\ (x.then.returns \/ x.else.returns)

GroundFun(f, types) ==
  LET params == {ps \in [DOMAIN f.params -> Ground] :
                   \A i \in DOMAIN ps : ps[i] \in Annotated(f.params[i].ann, Ground)}
      results(ps, ret) == GroundBody(f.body, ExtendAll(types, names(f.params), ps), ret)
  IN  UNION {{Fun(ps, r) : r \in Annotated(f.ret,
                IF MayReturn(f.body) THEN {r \in Ground : r \in results(ps, r)}
                ELSE results(ps, unit))} : ps \in params}

GroundTypes(x, types, ret) ==
  LET of(y) == GroundTypes(y, types, ret) IN
  CASE x.kind = "literal" -> {x.type}
    [] x.kind = "name" -> {types[x.name]}
    [] x.kind = "array" ->
         {Array(t) : t \in {t \in of(x.elems[1]) : \A i \in DOMAIN x.elems : t \in of(x.elems[i])}}
    [] x.kind = "index" -> {t.args[1] : t \in {t \in of(x.object) : t.con = "Array"}}
    [] x.kind = "add" -> of(x.lhs) \cap of(x.rhs) \cap {int}
    [] x.kind = "and" -> IF bool \in of(x.lhs) /\ bool \in of(x.rhs) THEN {bool} ELSE {}
    [] x.kind = "if" ->
         IF bool \in of(x.cond)
         THEN GroundBody(x.then, types, ret) \cap GroundBody(x.else, types, ret) ELSE {}
    [] x.kind = "closure" -> GroundFun(x, types)
    [] x.kind = "call" ->
         {Last(t.args) : t \in {t \in of(x.callee) :
            /\ IsFun(t) /\ Len(t.args) = Len(x.args) + 1
            /\ \A i \in DOMAIN x.args : t.args[i] \in of(x.args[i])}}

CalledBy(f) ==
  {x.name : x \in {x \in BlockExpressions(f.body) : x.kind = "name"}}
    \cap {program[i].name : i \in DOMAIN program}

\* The ways to give the functions types, those that are called first.
RECURSIVE GroundPrograms(_, _)
GroundPrograms(left, types) ==
  IF left = {} THEN {types}
  ELSE LET i == CHOOSE i \in left : CalledBy(program[i]) \subseteq DOMAIN types
       IN  UNION {GroundPrograms(left \ {i}, Extend(types, program[i].name, t)) :
                    t \in GroundFun(program[i], types)}

(* Inference turns a program down only if no simple types fit it: the      *)
(* order of the functions, the generalisation of some before others are    *)
(* known, and the order of the constraints reject nothing by themselves.   *)
RejectedHaveNoTypes ==
  outcome \in {"T0001", "T0004"} /\ phase = "infer" =>
    GroundPrograms(DOMAIN program, <<>>) = {}

(* The substitution solves every constraint it was made from, up to Never. *)
RECURSIVE Agree(_, _)
Agree(a, b) ==
  \/ a = b \/ a = Never \/ b = Never
  \/ /\ ~IsVar(a) /\ ~IsVar(b) /\ a.con = b.con /\ Len(a.args) = Len(b.args)
     /\ \A i \in DOMAIN a.args : Agree(a.args[i], b.args[i])

SolutionSolves ==
  phase = "schemes" =>
    \A c \in Range(ctx.constraints) : Agree(apply(Subst, c[1]), apply(Subst, c[2]))

\* Construction takes the result type that a closure leaves out for unit.
SomeResultIsLeftOut ==
  \E i \in DOMAIN program : \E x \in BlockExpressions(program[i].body) :
    x.kind = "closure" /\ x.ret = NotAnnotated

(* Construction, which looks at the source again, gives each body the type *)
(* that inference gave the function, and finds no new mismatch of types  *)
(* or of arity, except in programs with a closure that leaves its result   *)
(* type out, or with loose types.                                          *)
PassesAgree ==
  \/ SomeResultIsLeftOut
  \/ TypesAreLoose
  \/ /\ \A n \in DOMAIN typed : Agree(typed[n], Last(schemes[n].type.args))
     /\ phase = "construct" => outcome \notin {"T0001", "T0004"}

(* What the code says of itself and does not do.                           *)

(* The evaluator's operations meet no value they have no case for: each of *)
(* the errors they keep for it says "typechecker should have caught this"  *)
(* (evaluator/lvalue.rs:167, evaluator/mod.rs:1189 and others).            *)
TypecheckerCaughtIt == outcome # "fault"

(* No variable is quantified that is still being solved in the types in    *)
(* scope: "those must not be captured" (typeinference/mod.rs:392).         *)
NothingBeingSolvedIsCaptured == ctx.leaks = {}
=============================================================================
