----------------------------- MODULE Unification -----------------------------
(***************************************************************************)
(* The types of inference and their unification (typeinference/mod.rs).    *)
(*                                                                         *)
(* A type is a variable or a constructor with arguments: Concrete types    *)
(* and Never have none, Fun has its parameters and then its result, Tuple, *)
(* Array and Named their components.  A substitution is a function from    *)
(* some variables to types.  An operation that may fail returns a set:     *)
(* empty, or with its one result.                                          *)
(***************************************************************************)
EXTENDS Naturals, Sequences, FiniteSets, SequencesExt

Var(v) == [var |-> v]
Term(con, args) == [con |-> con, args |-> args]
Concrete(con) == Term(con, <<>>)
Never == Concrete("Never")
Array(t) == Term("Array", <<t>>)
Fun(params, ret) == Term("Fun", Append(params, ret))

IsVar(t) == "var" \in DOMAIN t
IsFun(t) == ~IsVar(t) /\ t.con = "Fun"

RECURSIVE free_vars(_)
free_vars(t) ==
  IF IsVar(t) THEN {t.var} ELSE UNION {free_vars(t.args[i]) : i \in DOMAIN t.args}

occurs_in(v, t) == v \in free_vars(t)

NoBindings == [v \in {} |-> Never]
Bind(v, t) == [u \in {v} |-> t]

\* A bound variable is chased through the bindings.
RECURSIVE apply(_, _)
apply(subst, t) ==
  IF ~IsVar(t)
  THEN [t EXCEPT !.args = [i \in DOMAIN t.args |-> apply(subst, t.args[i])]]
  ELSE IF t.var \in DOMAIN subst THEN apply(subst, subst[t.var]) ELSE t

\* First subst, then other: subst wins where both bind a variable.
compose(subst, other) ==
  [v \in DOMAIN subst \cup DOMAIN other |->
     IF v \in DOMAIN subst THEN apply(other, subst[v]) ELSE other[v]]

\* Fault: a variable does not unify with itself.
bind_var_occurs_first(v, t) == IF occurs_in(v, t) THEN {} ELSE {Bind(v, t)}

bind_var(v, t) ==
  IF t = Var(v) THEN {NoBindings}
  ELSE IF occurs_in(v, t) THEN {} ELSE {Bind(v, t)}

\* Never goes with every type and binds nothing.  Components are unified in
\* order, under what the ones before them have bound.
RECURSIVE unify(_, _)
unify(a, b) ==
  LET step(substs, i) ==
        UNION {{compose(s, u) : u \in unify(apply(s, a.args[i]), apply(s, b.args[i]))} :
                 s \in substs}
  IN  IF a = Never \/ b = Never THEN {NoBindings}
      ELSE IF IsVar(a) THEN bind_var(a.var, b)
      ELSE IF IsVar(b) THEN bind_var(b.var, a)
      ELSE IF a.con # b.con \/ Len(a.args) # Len(b.args) THEN {}
      ELSE FoldLeftDomain(step, {NoBindings}, a.args)

\* Fault: the types are unified as they were recorded.
solve_each_alone(constraints) ==
  LET step(substs, c) == UNION {{compose(s, u) : u \in unify(c[1], c[2])} : s \in substs}
  IN  FoldLeft(step, {NoBindings}, constraints)

\* The constraints, pairs of types, in the order they were recorded.
solve_constraints(constraints) ==
  LET step(substs, c) ==
        UNION {{compose(s, u) : u \in unify(apply(s, c[1]), apply(s, c[2]))} : s \in substs}
  IN  FoldLeft(step, {NoBindings}, constraints)

generalize(t, env_fvs) == [quantified_vars |-> free_vars(t) \ env_fvs, type |-> t]

mono(t) == [quantified_vars |-> {}, type |-> t]

\* The quantified variables, smallest first, become the variables next,
\* next + 1, and so on.
instantiate(scheme, next) ==
  apply([v \in scheme.quantified_vars |->
           Var(next + Cardinality({u \in scheme.quantified_vars : u < v}))],
        scheme.type)

IsConcrete(t) == free_vars(t) = {}
=============================================================================
