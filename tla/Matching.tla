------------------------------ MODULE Matching ------------------------------
(***************************************************************************)
(* One match expression through the passes: inference gives every pattern  *)
(* the type of the scrutinee, construction binds the variables of the      *)
(* patterns and judges whether the arms cover the type, evaluation tries   *)
(* the arms in turn (typechecker/inference.rs, construction.rs,            *)
(* evaluator/pattern.rs, evaluator/mod.rs).                                *)
(*                                                                         *)
(* A type is a constructor and its arguments.  A value is a literal, a     *)
(* tuple of values, or a variant of an enum with values for fields.        *)
(* Patterns are those of the grammar: only tuples hold patterns, fields    *)
(* are bound by their names.  Bodies of arms, and Never, whose expressions *)
(* have no value to match, are left out.                                   *)
(***************************************************************************)
EXTENDS Naturals, Sequences, FiniteSets

CONSTANTS
  Enums,    \* enum -> variant -> field -> type, or a parameter of the enum
  Params,   \* enum -> its type parameters
  Integers, \* bound: the values of Int
  Values,   \* type -> its values, for every type there is
  Nesting,  \* pattern -> how deep tuples nest in it, for every pattern there is
  Menus,    \* the types matched on, each with the patterns tried
  MaxArms   \* bound: arms of a match

Types == DOMAIN Values
AllValues == UNION {Values[t] : t \in Types}
Patterns == DOMAIN Nesting

VARIABLES
  match,    \* the expression: type of the scrutinee, arms, in a generic body
  phase,    \* the pass
  pos,      \* the arm it is at
  locals,   \* types construction bound to the variables of each arm
  scrutinee,\* a set: empty, or the value
  bindings, \* what the taken arm starts with
  outcome

vars == <<match, phase, pos, locals, scrutinee, bindings, outcome>>

Type(con) == [con |-> con, args |-> <<>>]
BoolType == Type("Bool")
IntType == Type("Int")

literals(t) == IF t = BoolType THEN {"true", "false"}
               ELSE IF t = IntType THEN Integers ELSE {}

(* Types of the fields of a variant, with the arguments of t for the       *)
(* parameters of the enum.                                                 *)
variants(t) == DOMAIN Enums[t.con]

field_types(t, variant) ==
  [f \in DOMAIN Enums[t.con][variant] |->
     LET declared == Enums[t.con][variant][f] IN
     IF \E i \in DOMAIN Params[t.con] : Params[t.con][i] = declared.con
     THEN t.args[CHOOSE i \in DOMAIN Params[t.con] :
                   Params[t.con][i] = declared.con]
     ELSE declared]

(* Values that expressions of type t produce, from those V has for its     *)
(* parts.  infer_enum_variant_literal looks at the fields a literal gives  *)
(* and asks for no others; the grammar wants one if there are any.  The    *)
(* literal None is one of the enum Perhaps, also of one declared anew.     *)
given_fields(fields) ==
  IF fields = {} THEN {{}} ELSE (SUBSET fields) \ {{}}

Picks(S) == {f \in [DOMAIN S -> UNION {S[i] : i \in DOMAIN S}] :
                 \A i \in DOMAIN S : f[i] \in S[i]}

variant_values(V, t, variant) ==
  UNION {{[enum |-> t.con, variant |-> variant, fields |-> fs] :
            fs \in Picks([f \in given |-> V[field_types(t, variant)[f]]])} :
         given \in given_fields(DOMAIN Enums[t.con][variant])}

built_values(V, t) == UNION {variant_values(V, t, variant) : variant \in variants(t)}

NoneValue == [enum |-> "Perhaps", variant |-> "None", fields |-> <<>>]

values(V, t) ==
  IF t.con = "Tuple"
  THEN {[elems |-> vs] : vs \in Picks([i \in DOMAIN t.args |-> V[t.args[i]]])}
  ELSE IF t.con \in DOMAIN Enums
  THEN built_values(V, t)
         \cup (IF t.con = "Perhaps" /\ Len(t.args) = 1 THEN {NoneValue} ELSE {})
  ELSE {[literal |-> l] : l \in literals(t)}

IsType(t) ==
  /\ t.args \in Seq(Types)
  /\ \/ t.con = "Tuple"
     \/ t.con \in DOMAIN Enums /\ \A variant \in variants(t) :
          \A f \in DOMAIN Enums[t.con][variant] : field_types(t, variant)[f] \in Types
     \/ t \in {BoolType, IntType}

IsPattern(p) ==
  \/ p.kind \in {"wildcard", "binding", "literal", "none", "variant"}
  \/ /\ p.kind = "tuple" /\ p.elems \in Seq(Patterns)
     /\ \A i \in DOMAIN p.elems : Nesting[p.elems[i]] < Nesting[p]

ASSUME EnumsAssumption ==
  {"Perhaps", "Result"} \subseteq DOMAIN Enums /\ {"Tuple", "Bool", "Int"} \cap DOMAIN Enums = {}
ASSUME TypesAssumption == \A t \in Types : IsType(t) /\ Values[t] = values(Values, t)
ASSUME PatternsAssumption ==
  Nesting \in [Patterns -> Nat] /\ \A p \in Patterns : IsPattern(p)
ASSUME ArmsAssumption == MaxArms \in Nat \ {0}
\* There are more integers than a match has arms.
ASSUME IntegersAssumption == IsFiniteSet(Integers) => Cardinality(Integers) > MaxArms
ASSUME MenusAssumption ==
  \A menu \in Menus : menu.type \in Types /\ menu.patterns \subseteq Patterns

----------------------------------------------------------------------------
(* Inference: the constraints of a pattern have a solution.                *)

infer_pattern[p \in Patterns] == [t \in Types |->
  \/ p.kind \in {"wildcard", "binding"}
  \/ p.kind = "literal" /\ p.literal \in literals(t)
  \/ p.kind = "none" /\ t.con = "Perhaps" /\ Len(t.args) = 1
  \/ /\ p.kind = "variant" /\ p.enum = t.con
     /\ t.con \in DOMAIN Enums /\ p.variant \in variants(t)
     /\ p.fields \subseteq DOMAIN Enums[p.enum][p.variant]
  \/ /\ p.kind = "tuple" /\ t.con = "Tuple"
     /\ Len(p.elems) = Len(t.args)
     /\ \A i \in DOMAIN p.elems : infer_pattern[p.elems[i]][t.args[i]]]

\* The types a pattern may be matched on.
TypesOf(p) == {t \in Types : infer_pattern[p][t]}

(* Construction: the variables of a pattern and their types; of two with   *)
(* one name the later stays.                                               *)

Joined(fs) ==
  [x \in UNION {DOMAIN fs[i] : i \in DOMAIN fs} |->
     LET last == CHOOSE i \in DOMAIN fs :
                   x \in DOMAIN fs[i] /\ \A j \in DOMAIN fs : x \in DOMAIN fs[j] => j <= i
     IN fs[last][x]]

NoBindings == [x \in {} |-> BoolType]

\* Fault: fields that the pattern leaves out are bound too.
bind_all_fields(variant, fields, t) == field_types(t, variant)

bind_enum_variant_fields(variant, fields, t) ==
  [f \in fields |-> field_types(t, variant)[f]]

construct_pattern_bindings[p \in Patterns] == [t \in TypesOf(p) |->
  CASE p.kind = "binding" -> [x \in {p.name} |-> t]
    [] p.kind = "variant" -> bind_enum_variant_fields(p.variant, p.fields, t)
    [] p.kind = "tuple" ->
         Joined([i \in DOMAIN p.elems |-> construct_pattern_bindings[p.elems[i]][t.args[i]]])
    [] OTHER -> NoBindings]

is_catch_all_pattern[p \in Patterns] ==
  \/ p.kind \in {"wildcard", "binding"}
  \/ p.kind = "tuple" /\ \A i \in DOMAIN p.elems : is_catch_all_pattern[p.elems[i]]

\* Fault: the pattern None is forgotten.
covers_only_by_path(p, enum, variant) ==
  p.kind = "variant" /\ p.enum = enum /\ p.variant = variant

pattern_covers_variant(p, enum, variant) ==
  \/ p.kind = "none" /\ enum = "Perhaps" /\ variant = "None"
  \/ p.kind = "variant" /\ p.enum = enum /\ p.variant = variant

is_bool_literal_pattern(p, literal) ==
  p.kind = "literal" /\ p.literal = literal

\* Fault: an arm counts though its guard may fail.
with_guarded(arms) == {arms[i].pattern : i \in DOMAIN arms}

unguarded(arms) == {arms[i].pattern : i \in {j \in DOMAIN arms : ~arms[j].guarded}}

\* The check knows these enums of std::core by heart.
checked_variants(t) ==
  IF t.con = "Perhaps" THEN {"Some", "None"}
  ELSE IF t.con = "Result" THEN {"Ok", "Err"} ELSE variants(t)

check_match_exhaustiveness(arms, t) ==
  \/ \E p \in unguarded(arms) : is_catch_all_pattern[p]
  \/ t = BoolType /\ \A l \in {"true", "false"} :
       \E p \in unguarded(arms) : is_bool_literal_pattern(p, l)
  \/ t.con \in DOMAIN Enums /\ \A variant \in checked_variants(t) :
       \E p \in unguarded(arms) : pattern_covers_variant(p, t.con, variant)

(* Evaluation.                                                             *)

match_pattern[p \in Patterns] == [v \in AllValues |->
  \/ p.kind \in {"wildcard", "binding"}
  \/ p.kind = "literal" /\ v = [literal |-> p.literal]
  \/ /\ p.kind = "none"
     /\ "enum" \in DOMAIN v /\ v.enum = "Perhaps" /\ v.variant = "None"
  \/ /\ p.kind = "variant" /\ "enum" \in DOMAIN v
     /\ v.enum = p.enum /\ v.variant = p.variant
     /\ p.fields \subseteq DOMAIN v.fields
  \/ /\ p.kind = "tuple" /\ "elems" \in DOMAIN v
     /\ Len(v.elems) = Len(p.elems)
     /\ \A i \in DOMAIN p.elems : match_pattern[p.elems[i]][v.elems[i]]]

matched_bindings[p \in Patterns] == [v \in {w \in AllValues : match_pattern[p][w]} |->
  CASE p.kind = "binding" -> [x \in {p.name} |-> v]
    [] p.kind = "variant" -> [f \in p.fields |-> v.fields[f]]
    [] p.kind = "tuple" ->
         Joined([i \in DOMAIN p.elems |-> matched_bindings[p.elems[i]][v.elems[i]]])
    [] OTHER -> NoBindings]

----------------------------------------------------------------------------
Arm == match.arms[pos]
Value == CHOOSE v \in scrutinee : TRUE

In(p) == outcome = "running" /\ phase = p
AtArm(p) == In(p) /\ pos <= Len(match.arms)
PastArms(p) == In(p) /\ pos > Len(match.arms)

NextArm ==
  pos' = pos + 1 /\ UNCHANGED <<match, phase, scrutinee, bindings, outcome>>

Pass(p) ==
  /\ phase' = p
  /\ pos' = 1
  /\ UNCHANGED <<match, locals, scrutinee, bindings, outcome>>

End(how) ==
  outcome' = how /\ UNCHANGED <<match, phase, pos, locals, scrutinee, bindings>>

(* An expression in the body of a generic function or closure, or in       *)
(* another body: any arms of one entry of Menus.                           *)
Arms(menu, n) == [1..n -> [pattern : menu.patterns, guarded : BOOLEAN]]

Init ==
  /\ \E menu \in Menus, n \in 1..MaxArms, generic \in BOOLEAN :
       \E arms \in Arms(menu, n) :
         match = [type |-> menu.type, arms |-> arms, generic |-> generic]
  /\ phase = "infer"
  /\ pos = 1
  /\ locals = <<>>
  /\ scrutinee = {}
  /\ bindings = NoBindings
  /\ outcome = "running"

InferArm ==
  /\ AtArm("infer")
  /\ infer_pattern[Arm.pattern][match.type]
  /\ NextArm /\ UNCHANGED locals

InferFails ==
  /\ AtArm("infer")
  /\ ~infer_pattern[Arm.pattern][match.type]
  /\ End("type error")

\* construct_fun_decl and construct_decl keep the body of a generic function
\* or closure as it is
InferDone ==
  PastArms("infer") /\ Pass(IF match.generic THEN "evaluate" ELSE "construct")

ConstructArm ==
  /\ AtArm("construct")
  /\ locals' = Append(locals,
                      construct_pattern_bindings[Arm.pattern][match.type])
  /\ NextArm

ConstructDone ==
  /\ PastArms("construct")
  /\ check_match_exhaustiveness(match.arms, match.type)
  /\ Pass("evaluate")

NonExhaustive ==
  /\ PastArms("construct")
  /\ ~check_match_exhaustiveness(match.arms, match.type)
  /\ End("T0008")

EvalScrutinee ==
  /\ In("evaluate") /\ scrutinee = {}
  /\ \E v \in Values[match.type] : scrutinee' = {v}
  /\ UNCHANGED <<match, phase, pos, locals, bindings, outcome>>

Tries == AtArm("evaluate") /\ scrutinee # {}

\* the pattern does not match
SkipArm ==
  /\ Tries
  /\ ~match_pattern[Arm.pattern][Value]
  /\ NextArm /\ UNCHANGED locals

GuardFails ==
  /\ Tries
  /\ match_pattern[Arm.pattern][Value]
  /\ Arm.guarded
  /\ NextArm /\ UNCHANGED locals

TakeArm ==
  /\ Tries
  /\ match_pattern[Arm.pattern][Value]
  /\ bindings' = matched_bindings[Arm.pattern][Value]
  /\ outcome' = "arm"
  /\ UNCHANGED <<match, phase, pos, locals, scrutinee>>

NoArmMatches ==
  PastArms("evaluate") /\ scrutinee # {} /\ End("R0006")

Done == outcome # "running" /\ UNCHANGED vars

Next ==
  \/ InferArm \/ InferFails \/ InferDone
  \/ ConstructArm \/ ConstructDone \/ NonExhaustive
  \/ EvalScrutinee \/ SkipArm \/ GuardFails \/ TakeArm \/ NoArmMatches
  \/ Done

Spec == Init /\ [][Next]_vars

----------------------------------------------------------------------------
(* The reference: the set of values a pattern stands for, built from the   *)
(* values of its type.                                                     *)

Denotes[p \in Patterns] == [t \in TypesOf(p) |->
  CASE p.kind = "tuple" ->
         {v \in Values[t] : \A i \in DOMAIN p.elems :
                              v.elems[i] \in Denotes[p.elems[i]][t.args[i]]}
    [] p.kind = "literal" -> {[literal |-> p.literal]}
    [] p.kind = "none" -> {v \in Values[t] : v.variant = "None"}
    [] p.kind = "variant" ->
         {v \in Values[t] : v.variant = p.variant /\ p.fields \subseteq DOMAIN v.fields}
    [] OTHER -> Values[t]]

Stands(arm, v) == v \in Denotes[arm.pattern][match.type]

\* A value has all the fields of its variant.
Whole(v) == "enum" \in DOMAIN v => DOMAIN v.fields = DOMAIN Enums[v.enum][v.variant]

Covered(v) == \E i \in DOMAIN match.arms : ~match.arms[i].guarded /\ Stands(match.arms[i], v)

\* A program's own enum Perhaps or Result, which replaces the one of std::core
\* (typechecker/registry.rs:132), has a variant the check does not ask for, or
\* has none that it asks for.
Unasked(t) == t.con \in DOMAIN Enums /\ ~(variants(t) \subseteq checked_variants(t))
Unknown(t) == t.con \in DOMAIN Enums /\ ~(checked_variants(t) \subseteq variants(t))

\* A variant is never built, since a field of it has a type without values.
NeverBuilt(t) ==
  t.con \in DOMAIN Enums /\ \E variant \in variants(t) :
    \E f \in DOMAIN Enums[t.con][variant] : Values[field_types(t, variant)[f]] = {}

(* A match that construction accepted has an arm for every value whose     *)
(* fields are all there, whichever guards fail (check_match_exhaustiveness *)
(* against match_pattern) -- unless the enum is one the check thinks it    *)
(* knows.                                                                  *)
AcceptedMatchesSucceed ==
  outcome = "R0006" => match.generic \/ ~Whole(Value) \/ Unasked(match.type)

(* T0008 is only reported where a value is missed; of tuples, only where   *)
(* no arm takes all of them (docs/typechecker.md:252-259).                 *)
RejectedMatchesMiss ==
  outcome = "T0008" =>
    \/ \E v \in Values[match.type] : Whole(v) /\ ~Covered(v)
    \/ match.type.con = "Tuple" \/ Unknown(match.type) \/ NeverBuilt(match.type)

(* The taken arm is the first that the value belongs to and no guard keeps *)
(* it from.  Outside of generic bodies it starts with the variables that   *)
(* construction bound for it, each with a value of the type it was checked *)
(* with: the two walks over the pattern, construct_pattern_bindings and    *)
(* match_pattern, agree.                                                   *)
TakenArmIsRight ==
  outcome = "arm" =>
    /\ Stands(Arm, Value)
    /\ \A i \in 1..pos - 1 : match.arms[i].guarded \/ ~Stands(match.arms[i], Value)
    /\ ~match.generic =>
         /\ DOMAIN bindings = DOMAIN locals[pos]
         /\ \A x \in DOMAIN bindings : bindings[x] \in Values[locals[pos][x]]

(* docs/evaluator.md:165: the exhaustiveness check "is the static          *)
(* guarantee that this panic is unreachable for well-typed programs".      *)
(* Bodies of generic functions are not constructed and so not checked.     *)
MatchesSucceed == outcome # "R0006"

(* The same where the check is made: an enum literal may leave fields out, *)
(* and a pattern that binds them does not match it; and an enum called     *)
(* Result may have more variants than the check asks for.                  *)
CheckedMatchesSucceed == outcome = "R0006" => match.generic
============================================================================
