---------------------------- MODULE MatchingProofs ----------------------------
(***************************************************************************)
(* What holds of a match for every set of enums, types, patterns and arms: *)
(* the check of its arms and the arms themselves agree on the values, and  *)
(* the two walks over a pattern on its variables.                          *)
(***************************************************************************)
EXTENDS Matching, SequenceFacts

------------------------------------------------------------------------------
(* Recursion over patterns.                                                *)

\* What holds of a pattern when it holds of those nested in it holds of all.
LEMMA NestingInduction ==
  ASSUME NEW S,
         \A p \in Patterns :
           (\A q \in Patterns : Nesting[q] < Nesting[p] => q \in S) => p \in S
  PROVE  Patterns \subseteq S
<1> DEFINE T == {n \in Nat : \A p \in Patterns : Nesting[p] < n => p \in S}
<1>1. \A p \in Patterns : Nesting[p] \in Nat
  BY PatternsAssumption
<1>2. 0 \in T
  BY <1>1
<1>3. ASSUME NEW n \in Nat, n \in T PROVE n + 1 \in T
  <2>1. ASSUME NEW p \in Patterns, Nesting[p] < n + 1 PROVE p \in S
    <3>1. \A q \in Patterns : Nesting[q] < Nesting[p] => q \in S
      BY <1>1, <1>3, <2>1
    <3> QED BY <3>1
  <2> QED BY <2>1
<1> HIDE DEF T
<1>4. Nat \subseteq T
  BY <1>2, <1>3, NatSetInduction
<1>5. ASSUME NEW p \in Patterns PROVE p \in S
  <2>1. Nesting[p] + 1 \in T /\ Nesting[p] < Nesting[p] + 1
    BY <1>1, <1>4
  <2> QED BY <2>1 DEF T
<1> QED BY <1>5

\* What the kinds of patterns are, and the patterns in a tuple.
LEMMA PatternFacts ==
  ASSUME NEW p \in Patterns
  PROVE  /\ p.kind \in {"wildcard", "binding", "literal", "none", "variant", "tuple"}
         /\ p.kind = "tuple" =>
              /\ p.elems \in Seq(Patterns) /\ DOMAIN p.elems = 1..Len(p.elems)
              /\ \A i \in DOMAIN p.elems :
                   p.elems[i] \in Patterns /\ Nesting[p.elems[i]] < Nesting[p]
<1>1. IsPattern(p)
  BY PatternsAssumption
<1>2. CASE p.kind = "tuple"
  <2>1. p.elems \in Seq(Patterns) /\ \A i \in DOMAIN p.elems : Nesting[p.elems[i]] < Nesting[p]
    BY <1>1, <1>2 DEF IsPattern
  <2>2. DOMAIN p.elems = 1..Len(p.elems) /\ \A i \in 1..Len(p.elems) : p.elems[i] \in Patterns
    BY <2>1, ElementOfSeq, LenProperties
  <2> QED BY <1>2, <2>1, <2>2
<1> QED BY <1>1, <1>2 DEF IsPattern

(* The recursive functions over patterns are what their definitions say:   *)
(* such functions exist, as what they are at a pattern rests on the        *)
(* patterns in it.                                                         *)

\* What inference says of a pattern, when g is what it says of those in it.
infers(g, p, t) ==
  \/ p.kind \in {"wildcard", "binding"}
  \/ p.kind = "literal" /\ p.literal \in literals(t)
  \/ p.kind = "none" /\ t.con = "Perhaps" /\ Len(t.args) = 1
  \/ /\ p.kind = "variant" /\ p.enum = t.con
     /\ t.con \in DOMAIN Enums /\ p.variant \in variants(t)
     /\ p.fields \subseteq DOMAIN Enums[p.enum][p.variant]
  \/ /\ p.kind = "tuple" /\ t.con = "Tuple"
     /\ Len(p.elems) = Len(t.args)
     /\ \A i \in DOMAIN p.elems : g[p.elems[i]][t.args[i]]

LEMMA infer_patternIs ==
  infer_pattern = [p \in Patterns |-> [t \in Types |-> infers(infer_pattern, p, t)]]
<1> DEFINE
    R == [p \in Patterns |-> [Types -> BOOLEAN]]
    W == Sections(Patterns, R)
    F == [g \in W |-> [p \in Patterns |-> [t \in Types |-> infers(g, p, t)]]]
<1>1. [p \in Patterns |-> [t \in Types |-> TRUE]] \in W
  BY DEF Sections
<1>2. ASSUME NEW g \in W PROVE F[g] \in W
  <2>1. ASSUME NEW p \in Patterns, NEW t \in Types PROVE infers(g, p, t) \in BOOLEAN
    BY DEF infers
  <2>2. \A p \in Patterns : F[g][p] \in R[p]
    BY <2>1
  <2> QED BY <2>2 DEF Sections
<1>3. Descends(F, Patterns, R, Nesting)
  <2>1. ASSUME NEW g \in W, NEW h \in W, NEW p \in Patterns,
               \A s \in Patterns : Nesting[s] < Nesting[p] => g[s] = h[s]
        PROVE  F[g][p] = F[h][p]
    <3>1. ASSUME NEW t \in Types PROVE infers(g, p, t) = infers(h, p, t)
      <4>1. CASE p.kind = "tuple"
        <5>1. \A i \in DOMAIN p.elems : g[p.elems[i]] = h[p.elems[i]]
          BY <2>1, <4>1, PatternFacts
        <5> QED BY <4>1, <5>1 DEF infers
      <4> QED BY <4>1 DEF infers
    <3> QED BY <3>1
  <2> QED BY <2>1 DEF Descends
<1>4. Nesting \in [Patterns -> Nat]
  BY PatternsAssumption
<1>5. F \in [W -> W]
  BY <1>2
<1>6. \E f \in W : f = F[f]
  <2> HIDE DEF F, R
  <2> QED BY <1>1, <1>3, <1>4, <1>5, RankedRecursion
<1>7. \E f : f = [p \in Patterns |-> [t \in Types |-> infers(f, p, t)]]
  BY <1>6
<1> HIDE DEF F, R
<1> QED BY <1>7 DEF infer_pattern, infers

LEMMA is_catch_all_patternIs ==
  is_catch_all_pattern = [p \in Patterns |->
    \/ p.kind \in {"wildcard", "binding"}
    \/ p.kind = "tuple" /\ \A i \in DOMAIN p.elems : is_catch_all_pattern[p.elems[i]]]
<1> DEFINE Body(g, p) ==
      \/ p.kind \in {"wildcard", "binding"}
      \/ p.kind = "tuple" /\ \A i \in DOMAIN p.elems : g[p.elems[i]]
    R == [p \in Patterns |-> BOOLEAN]
    W == Sections(Patterns, R)
    F == [g \in W |-> [p \in Patterns |-> Body(g, p)]]
<1>1. [p \in Patterns |-> TRUE] \in W
  BY DEF Sections
<1>2. ASSUME NEW g \in W PROVE F[g] \in W
  <2>1. \A p \in Patterns : F[g][p] \in R[p]
    OBVIOUS
  <2> QED BY <2>1 DEF Sections
<1>3. Descends(F, Patterns, R, Nesting)
  <2>1. ASSUME NEW g \in W, NEW h \in W, NEW p \in Patterns,
               \A s \in Patterns : Nesting[s] < Nesting[p] => g[s] = h[s]
        PROVE  F[g][p] = F[h][p]
    <3>1. CASE p.kind = "tuple"
      <4>1. \A i \in DOMAIN p.elems : g[p.elems[i]] = h[p.elems[i]]
        BY <2>1, <3>1, PatternFacts
      <4> QED BY <3>1, <4>1
    <3> QED BY <3>1
  <2> QED BY <2>1 DEF Descends
<1>4. Nesting \in [Patterns -> Nat]
  BY PatternsAssumption
<1>5. F \in [W -> W]
  BY <1>2
<1>6. \E f \in W : f = F[f]
  <2> HIDE DEF F, R
  <2> QED BY <1>1, <1>3, <1>4, <1>5, RankedRecursion
<1>7. \E f : f = [p \in Patterns |-> Body(f, p)]
  <2> HIDE DEF Body
  <2> QED BY <1>6
<1> QED BY <1>7 DEF is_catch_all_pattern

\* What matching says of a pattern, when g is what it says of those in it.
matches(g, p, v) ==
  \/ p.kind \in {"wildcard", "binding"}
  \/ p.kind = "literal" /\ v = [literal |-> p.literal]
  \/ /\ p.kind = "none"
     /\ "enum" \in DOMAIN v /\ v.enum = "Perhaps" /\ v.variant = "None"
  \/ /\ p.kind = "variant" /\ "enum" \in DOMAIN v
     /\ v.enum = p.enum /\ v.variant = p.variant
     /\ p.fields \subseteq DOMAIN v.fields
  \/ /\ p.kind = "tuple" /\ "elems" \in DOMAIN v
     /\ Len(v.elems) = Len(p.elems)
     /\ \A i \in DOMAIN p.elems : g[p.elems[i]][v.elems[i]]

LEMMA match_patternIs ==
  match_pattern = [p \in Patterns |-> [v \in AllValues |-> matches(match_pattern, p, v)]]
<1> DEFINE
    R == [p \in Patterns |-> [AllValues -> BOOLEAN]]
    W == Sections(Patterns, R)
    F == [g \in W |-> [p \in Patterns |-> [v \in AllValues |-> matches(g, p, v)]]]
<1>1. [p \in Patterns |-> [v \in AllValues |-> TRUE]] \in W
  BY DEF Sections
<1>2. ASSUME NEW g \in W PROVE F[g] \in W
  <2>1. ASSUME NEW p \in Patterns, NEW v \in AllValues PROVE matches(g, p, v) \in BOOLEAN
    BY DEF matches
  <2>2. \A p \in Patterns : F[g][p] \in R[p]
    BY <2>1
  <2> QED BY <2>2 DEF Sections
<1>3. Descends(F, Patterns, R, Nesting)
  <2>1. ASSUME NEW g \in W, NEW h \in W, NEW p \in Patterns,
               \A s \in Patterns : Nesting[s] < Nesting[p] => g[s] = h[s]
        PROVE  F[g][p] = F[h][p]
    <3>1. ASSUME NEW v \in AllValues PROVE matches(g, p, v) = matches(h, p, v)
      <4>1. CASE p.kind = "tuple"
        <5>1. \A i \in DOMAIN p.elems : g[p.elems[i]] = h[p.elems[i]]
          BY <2>1, <4>1, PatternFacts
        <5> QED BY <4>1, <5>1 DEF matches
      <4> QED BY <4>1 DEF matches
    <3> QED BY <3>1
  <2> QED BY <2>1 DEF Descends
<1>4. Nesting \in [Patterns -> Nat]
  BY PatternsAssumption
<1>5. F \in [W -> W]
  BY <1>2
<1>6. \E f \in W : f = F[f]
  <2> HIDE DEF F, R
  <2> QED BY <1>1, <1>3, <1>4, <1>5, RankedRecursion
<1>7. \E f : f = [p \in Patterns |-> [v \in AllValues |-> matches(f, p, v)]]
  BY <1>6
<1> HIDE DEF F, R
<1> QED BY <1>7 DEF match_pattern, matches

\* Inference, kind by kind.
LEMMA InferFacts ==
  ASSUME NEW p \in Patterns, NEW t \in Types
  PROVE  /\ infer_pattern[p][t] \in BOOLEAN
         /\ p.kind \in {"wildcard", "binding"} => infer_pattern[p][t]
         /\ p.kind = "literal" => (infer_pattern[p][t] <=> p.literal \in literals(t))
         /\ p.kind = "none" => (infer_pattern[p][t] <=> t.con = "Perhaps" /\ Len(t.args) = 1)
         /\ p.kind = "variant" =>
              (infer_pattern[p][t] <=>
                 /\ p.enum = t.con
                 /\ t.con \in DOMAIN Enums /\ p.variant \in variants(t)
                 /\ p.fields \subseteq DOMAIN Enums[p.enum][p.variant])
         /\ p.kind = "tuple" =>
              (infer_pattern[p][t] <=>
                 /\ t.con = "Tuple"
                 /\ Len(p.elems) = Len(t.args)
                 /\ \A i \in DOMAIN p.elems : infer_pattern[p.elems[i]][t.args[i]])
<1>1. infer_pattern[p][t] = infers(infer_pattern, p, t)
  BY infer_patternIs
<1> QED BY <1>1, PatternFacts DEF infers

\* Matching, kind by kind.
LEMMA MatchFacts ==
  ASSUME NEW p \in Patterns, NEW v \in AllValues
  PROVE  /\ match_pattern[p][v] \in BOOLEAN
         /\ p.kind \in {"wildcard", "binding"} => match_pattern[p][v]
         /\ p.kind = "literal" => (match_pattern[p][v] <=> v = [literal |-> p.literal])
         /\ p.kind = "none" =>
              (match_pattern[p][v] <=>
                 "enum" \in DOMAIN v /\ v.enum = "Perhaps" /\ v.variant = "None")
         /\ p.kind = "variant" =>
              (match_pattern[p][v] <=>
                 /\ "enum" \in DOMAIN v
                 /\ v.enum = p.enum /\ v.variant = p.variant
                 /\ p.fields \subseteq DOMAIN v.fields)
         /\ p.kind = "tuple" =>
              (match_pattern[p][v] <=>
                 /\ "elems" \in DOMAIN v
                 /\ Len(v.elems) = Len(p.elems)
                 /\ \A i \in DOMAIN p.elems : match_pattern[p.elems[i]][v.elems[i]])
<1>1. match_pattern[p][v] = matches(match_pattern, p, v)
  BY match_patternIs
<1> QED BY <1>1, PatternFacts DEF matches

LEMMA CatchAllFacts ==
  ASSUME NEW p \in Patterns
  PROVE  /\ is_catch_all_pattern[p] \in BOOLEAN
         /\ p.kind = "wildcard" => is_catch_all_pattern[p]
         /\ p.kind = "binding" => is_catch_all_pattern[p]
         /\ p.kind = "tuple" =>
              (is_catch_all_pattern[p] <=>
                 \A i \in DOMAIN p.elems : is_catch_all_pattern[p.elems[i]])
         /\ p.kind \in {"literal", "none", "variant"} => ~is_catch_all_pattern[p]
<1>1. CASE p.kind = "tuple"
  BY <1>1, is_catch_all_patternIs
<1>2. CASE p.kind # "tuple"
  BY <1>2, is_catch_all_patternIs
<1> QED BY <1>1, <1>2

------------------------------------------------------------------------------
(* Types and values.                                                       *)

\* What the types are.
LEMMA TypeFacts ==
  ASSUME NEW t \in Types
  PROVE  /\ t.args \in Seq(Types) /\ DOMAIN t.args = 1..Len(t.args)
         /\ \A i \in DOMAIN t.args : t.args[i] \in Types
         /\ t.con = "Tuple" \/ t.con \in DOMAIN Enums \/ t = BoolType \/ t = IntType
         /\ t.con = "Tuple" => t.con \notin DOMAIN Enums /\ t # BoolType /\ t # IntType
         /\ t.con \in DOMAIN Enums =>
              /\ t # BoolType /\ t # IntType
              /\ \A variant \in variants(t) : \A f \in DOMAIN Enums[t.con][variant] :
                   field_types(t, variant)[f] \in Types
<1>1. IsType(t)
  BY TypesAssumption
<1>2. t.args \in Seq(Types)
  BY <1>1 DEF IsType
<1>3. DOMAIN t.args = 1..Len(t.args) /\ \A i \in 1..Len(t.args) : t.args[i] \in Types
  BY <1>2, ElementOfSeq, LenProperties
<1>4. "Tuple" \notin DOMAIN Enums /\ "Bool" \notin DOMAIN Enums /\ "Int" \notin DOMAIN Enums
  BY EnumsAssumption
<1>5. BoolType.con = "Bool" /\ IntType.con = "Int"
  BY DEF BoolType, IntType, Type
<1> QED BY <1>1, <1>2, <1>3, <1>4, <1>5 DEF IsType

\* The kinds of values.
IsTuple(v, t) ==
  /\ DOMAIN v = {"elems"} /\ DOMAIN v.elems = DOMAIN t.args
  /\ Len(v.elems) = Len(t.args)
  /\ \A i \in DOMAIN t.args : v.elems[i] \in Values[t.args[i]]

IsBuilt(v, t) ==
  /\ DOMAIN v = {"enum", "variant", "fields"} /\ v.enum = t.con
  /\ v.variant \in variants(t)
  /\ DOMAIN v.fields \subseteq DOMAIN Enums[t.con][v.variant]
  /\ \A f \in DOMAIN v.fields : v.fields[f] \in Values[field_types(t, v.variant)[f]]

IsLiteral(v, t) == \E l \in literals(t) : v = [literal |-> l]

\* The values of a tuple, of an enum and of the other types.
LEMMA TupleValues ==
  ASSUME NEW t \in Types, t.con = "Tuple", NEW v \in Values[t]
  PROVE  IsTuple(v, t)
<1>1. Values[t] = values(Values, t)
  BY TypesAssumption
<1>2. PICK vs \in Picks([i \in DOMAIN t.args |-> Values[t.args[i]]]) : v = [elems |-> vs]
  BY <1>1 DEF values
<1>3. DOMAIN vs = DOMAIN t.args /\ \A i \in DOMAIN t.args : vs[i] \in Values[t.args[i]]
  BY <1>2 DEF Picks
<1>4. DOMAIN t.args = 1..Len(t.args) /\ Len(t.args) \in Nat
  BY TypeFacts, LenProperties
<1>5. Len(vs) = Len(t.args)
  BY <1>3, <1>4
<1>6. DOMAIN v = {"elems"} /\ v.elems = vs
  BY <1>2
<1> QED BY <1>3, <1>5, <1>6 DEF IsTuple

LEMMA ValuesOfEnum ==
  ASSUME NEW t \in Types, t.con \in DOMAIN Enums
  PROVE  Values[t] = built_values(Values, t) \cup (IF t.con = "Perhaps" /\ Len(t.args) = 1 THEN {NoneValue} ELSE {})
<1>1. Values[t] = values(Values, t) /\ t.con # "Tuple"
  BY TypesAssumption, TypeFacts
<1> QED BY <1>1 DEF values

LEMMA EnumValues ==
  ASSUME NEW t \in Types, t.con \in DOMAIN Enums, NEW v \in Values[t]
  PROVE  \/ IsBuilt(v, t)
         \/ v = NoneValue /\ t.con = "Perhaps" /\ Len(t.args) = 1
<1>1. Values[t] = values(Values, t) /\ t.con # "Tuple"
  BY TypesAssumption, TypeFacts
<1>2. CASE v = NoneValue /\ t.con = "Perhaps" /\ Len(t.args) = 1
  BY <1>2
<1>3. CASE v \in UNION {variant_values(Values, t, variant) : variant \in variants(t)}
  <2>1. PICK variant \in variants(t) : v \in variant_values(Values, t, variant)
    BY <1>3
  <2>2. PICK given \in given_fields(DOMAIN Enums[t.con][variant]) :
          v \in {[enum |-> t.con, variant |-> variant, fields |-> fs] :
                   fs \in Picks([f \in given |-> Values[field_types(t, variant)[f]]])}
    BY <2>1, Zenon DEF variant_values
  <2>3. PICK fs \in Picks([f \in given |-> Values[field_types(t, variant)[f]]]) :
          v = [enum |-> t.con, variant |-> variant, fields |-> fs]
    BY <2>2
  <2>4. DOMAIN fs = given /\ \A f \in given : fs[f] \in Values[field_types(t, variant)[f]]
    BY <2>3 DEF Picks
  <2>5. given \subseteq DOMAIN Enums[t.con][variant]
    BY <2>2 DEF given_fields
  <2>6. DOMAIN v = {"enum", "variant", "fields"} /\ v.enum = t.con /\ v.variant = variant /\ v.fields = fs
    BY <2>3
  <2> QED BY <2>1, <2>4, <2>5, <2>6 DEF IsBuilt
<1>4. v \in UNION {variant_values(Values, t, variant) : variant \in variants(t)}
      \/ (v = NoneValue /\ t.con = "Perhaps" /\ Len(t.args) = 1)
  <2>1. Values[t] = built_values(Values, t) \cup (IF t.con = "Perhaps" /\ Len(t.args) = 1 THEN {NoneValue} ELSE {})
    BY ValuesOfEnum
  <2>2. v \in built_values(Values, t) \/ (v = NoneValue /\ t.con = "Perhaps" /\ Len(t.args) = 1)
    BY <2>1
  <2> QED BY <2>2 DEF built_values
<1> QED BY <1>2, <1>3, <1>4

\* A value with all its fields is one of the type when the fields have values.
LEMMA BuiltValues ==
  ASSUME NEW t \in Types, t.con \in DOMAIN Enums, NEW variant \in variants(t),
         NEW fs, fs \in Picks([f \in DOMAIN Enums[t.con][variant] |-> Values[field_types(t, variant)[f]]])
  PROVE  [enum |-> t.con, variant |-> variant, fields |-> fs] \in Values[t]
<1>1. Values[t] = values(Values, t) /\ t.con # "Tuple"
  BY TypesAssumption, TypeFacts
<1>2. DOMAIN Enums[t.con][variant] \in given_fields(DOMAIN Enums[t.con][variant])
  <2> DEFINE fields == DOMAIN Enums[t.con][variant]
  <2>1. CASE fields = {}
    BY <2>1 DEF given_fields
  <2>2. CASE fields # {}
    <3>1. \A S : S # {} => S \in (SUBSET S) \ {{}}
      BY Zenon
    <3> QED BY <2>2, <3>1, Zenon DEF given_fields
  <2> QED BY <2>1, <2>2
<1>3. [enum |-> t.con, variant |-> variant, fields |-> fs] \in variant_values(Values, t, variant)
  <2> DEFINE made(given) ==
        {[enum |-> t.con, variant |-> variant, fields |-> gs] :
           gs \in Picks([f \in given |-> Values[field_types(t, variant)[f]]])}
  <2>1. [enum |-> t.con, variant |-> variant, fields |-> fs] \in made(DOMAIN Enums[t.con][variant])
    OBVIOUS
  <2>2. variant_values(Values, t, variant) = UNION {made(given) : given \in given_fields(DOMAIN Enums[t.con][variant])}
    BY Zenon DEF variant_values
  <2> HIDE DEF made
  <2> QED BY <1>2, <2>1, <2>2
<1>4. variant_values(Values, t, variant) \subseteq built_values(Values, t)
  BY Zenon DEF built_values
<1>5. built_values(Values, t) \subseteq Values[t]
  BY ValuesOfEnum
<1> QED BY <1>3, <1>4, <1>5

LEMMA LiteralValues ==
  ASSUME NEW t \in Types, t = BoolType \/ t = IntType
  PROVE  Values[t] = {[literal |-> l] : l \in literals(t)}
<1>1. Values[t] = values(Values, t) /\ t.con # "Tuple" /\ t.con \notin DOMAIN Enums
  BY TypesAssumption, TypeFacts
<1> QED BY <1>1 DEF values

\* Only enums have values that name one, only tuples values with elements.
LEMMA ValueFacts ==
  ASSUME NEW t \in Types, NEW v \in Values[t]
  PROVE  /\ v \in AllValues
         /\ t.con \in DOMAIN Enums => DOMAIN v = {"enum", "variant", "fields"} /\ v.enum = t.con
         /\ t.con = "Tuple" => DOMAIN v = {"elems"}
         /\ t \in {BoolType, IntType} => DOMAIN v = {"literal"} /\ v.literal \in literals(t)
<1>1. v \in AllValues
  BY DEF AllValues
<1>2. CASE t.con \in DOMAIN Enums
  <2>1. DOMAIN NoneValue = {"enum", "variant", "fields"} /\ NoneValue.enum = "Perhaps"
    BY DEF NoneValue
  <2> QED BY <1>1, <1>2, <2>1, EnumValues, TypeFacts DEF IsBuilt
<1>3. CASE t.con = "Tuple"
  BY <1>1, <1>3, TupleValues, TypeFacts DEF IsTuple
<1>4. CASE t = BoolType \/ t = IntType
  <2>1. v \in {[literal |-> l] : l \in literals(t)}
    BY <1>4, LiteralValues
  <2>2. PICK l \in literals(t) : v = [literal |-> l]
    BY <2>1
  <2> QED BY <1>1, <1>4, <2>2, TypeFacts
<1> QED BY <1>2, <1>3, <1>4, TypeFacts

\* And every value is one of a type.
LEMMA SomeType ==
  ASSUME NEW v \in AllValues
  PROVE  \E t \in Types : v \in Values[t]
BY DEF AllValues

------------------------------------------------------------------------------
(* Bindings.                                                               *)

\* The last of fs that has x.
IsLastWith(fs, x, i) ==
  /\ i \in DOMAIN fs /\ x \in DOMAIN fs[i]
  /\ \A j \in DOMAIN fs : x \in DOMAIN fs[j] => j <= i

\* What joining gives: every variable, as the last that has it has it.
IsJoined(n, fs) ==
  /\ DOMAIN Joined(fs) = UNION {DOMAIN fs[i] : i \in 1..n}
  /\ \A x \in DOMAIN Joined(fs) :
       \E i \in 1..n : IsLastWith(fs, x, i) /\ Joined(fs)[x] = fs[i][x]

LEMMA JoinedFacts ==
  ASSUME NEW n \in Nat, NEW fs, DOMAIN fs = 1..n
  PROVE  IsJoined(n, fs)
<1>1. DOMAIN Joined(fs) = UNION {DOMAIN fs[i] : i \in 1..n}
  BY DEF Joined
<1>2. ASSUME NEW x \in DOMAIN Joined(fs)
      PROVE  \E i \in 1..n : IsLastWith(fs, x, i) /\ Joined(fs)[x] = fs[i][x]
  <2> DEFINE S == {i \in 1..n : x \in DOMAIN fs[i]}
             last == CHOOSE i \in DOMAIN fs :
                       x \in DOMAIN fs[i] /\ \A j \in DOMAIN fs : x \in DOMAIN fs[j] => j <= i
  <2>1. S \subseteq 1..n /\ S # {}
    BY <1>1
  <2>2. Max(S) \in S /\ \A m \in S : m <= Max(S)
    <3> HIDE DEF S
    <3> QED BY <2>1, NonEmptyHasMax
  <2>3. \E i \in DOMAIN fs :
          x \in DOMAIN fs[i] /\ \A j \in DOMAIN fs : x \in DOMAIN fs[j] => j <= i
    BY <2>2
  <2>4. /\ last \in DOMAIN fs /\ x \in DOMAIN fs[last]
        /\ \A j \in DOMAIN fs : x \in DOMAIN fs[j] => j <= last
    <3> HIDE DEF S
    <3> QED BY <2>3, Zenon
  <2>5. IsLastWith(fs, x, last)
    BY <2>4, Zenon DEF IsLastWith
  <2>6. Joined(fs)[x] = fs[last][x]
    BY <1>1 DEF Joined
  <2> HIDE DEF last
  <2> QED BY <2>4, <2>5, <2>6
<1> QED BY <1>1, <1>2 DEF IsJoined

\* Variables of patterns, and functions from some of them to D.
Variables ==
  {p.name : p \in {q \in Patterns : q.kind = "binding"}}
    \cup UNION {p.fields : p \in {q \in Patterns : q.kind = "variant"}}

BindingsTo(D) == UNION {[X -> D] : X \in SUBSET Variables}

LEMMA BindingsFacts ==
  ASSUME NEW D
  PROVE  /\ \A f \in BindingsTo(D) : DOMAIN f \subseteq Variables /\ \A x \in DOMAIN f : f[x] \in D
         /\ \A X \in SUBSET Variables : \A f \in [X -> D] : f \in BindingsTo(D)
         /\ NoBindings \in BindingsTo(D)
<1>1. \A f \in BindingsTo(D) : DOMAIN f \subseteq Variables /\ \A x \in DOMAIN f : f[x] \in D
  BY DEF BindingsTo
<1>2. \A X \in SUBSET Variables : \A f \in [X -> D] : f \in BindingsTo(D)
  BY DEF BindingsTo
<1>3. NoBindings \in [{} -> D]
  BY DEF NoBindings
<1> QED BY <1>1, <1>2, <1>3

LEMMA JoinedBindings ==
  ASSUME NEW D, NEW n \in Nat, NEW fs \in [1..n -> BindingsTo(D)]
  PROVE  Joined(fs) \in BindingsTo(D)
<1>1. /\ DOMAIN Joined(fs) = UNION {DOMAIN fs[i] : i \in 1..n}
      /\ \A x \in DOMAIN Joined(fs) :
           \E i \in 1..n : IsLastWith(fs, x, i) /\ Joined(fs)[x] = fs[i][x]
  <2>1. IsJoined(n, fs)
    BY JoinedFacts
  <2> QED BY <2>1 DEF IsJoined
<1>2. \A i \in 1..n : DOMAIN fs[i] \subseteq Variables /\ \A x \in DOMAIN fs[i] : fs[i][x] \in D
  BY BindingsFacts
<1>3. DOMAIN Joined(fs) \in SUBSET Variables
  BY <1>1, <1>2
<1>4. ASSUME NEW x \in DOMAIN Joined(fs) PROVE Joined(fs)[x] \in D
  <2>1. PICK i \in 1..n : IsLastWith(fs, x, i) /\ Joined(fs)[x] = fs[i][x]
    BY <1>1
  <2> QED BY <1>2, <2>1 DEF IsLastWith
<1>5. Joined(fs) = [x \in DOMAIN Joined(fs) |-> Joined(fs)[x]]
  BY DEF Joined
<1>6. Joined(fs) \in [DOMAIN Joined(fs) -> D]
  BY <1>4, <1>5
<1> QED BY <1>3, <1>6, BindingsFacts

LEMMA PatternVariables ==
  ASSUME NEW p \in Patterns
  PROVE  /\ p.kind = "binding" => p.name \in Variables
         /\ p.kind = "variant" => p.fields \subseteq Variables
BY DEF Variables

\* The types of the parts of a pattern.
LEMMA PartTypes ==
  ASSUME NEW p \in Patterns, NEW t \in TypesOf(p)
  PROVE  /\ t \in Types /\ infer_pattern[p][t]
         /\ p.kind = "tuple" =>
              \A i \in DOMAIN p.elems :
                i \in DOMAIN t.args /\ t.args[i] \in Types /\ t.args[i] \in TypesOf(p.elems[i])
         /\ p.kind = "variant" =>
              /\ t.con \in DOMAIN Enums /\ p.variant \in variants(t)
              /\ p.fields \subseteq DOMAIN Enums[t.con][p.variant]
              /\ \A f \in p.fields : field_types(t, p.variant)[f] \in Types
<1>1. t \in Types /\ infer_pattern[p][t]
  BY DEF TypesOf
<1>2. CASE p.kind = "tuple"
  <2>1. Len(p.elems) = Len(t.args) /\ \A i \in DOMAIN p.elems : infer_pattern[p.elems[i]][t.args[i]]
    BY <1>1, <1>2, InferFacts
  <2>2. DOMAIN p.elems = 1..Len(p.elems)
    BY <1>2, PatternFacts
  <2>3. DOMAIN t.args = 1..Len(t.args) /\ \A i \in DOMAIN t.args : t.args[i] \in Types
    BY <1>1, TypeFacts
  <2> QED BY <1>1, <1>2, <2>1, <2>2, <2>3 DEF TypesOf
<1>3. CASE p.kind = "variant"
  <2>1. /\ p.enum = t.con /\ t.con \in DOMAIN Enums /\ p.variant \in variants(t)
        /\ p.fields \subseteq DOMAIN Enums[p.enum][p.variant]
    BY <1>1, <1>3, InferFacts
  <2> QED BY <1>1, <1>3, <2>1, TypeFacts
<1> QED BY <1>1, <1>2, <1>3

\* What construction binds for a pattern, when g is what it binds for those in it.
binds(g, p, t) ==
  CASE p.kind = "binding" -> [x \in {p.name} |-> t]
    [] p.kind = "variant" -> bind_enum_variant_fields(p.variant, p.fields, t)
    [] p.kind = "tuple" -> Joined([i \in DOMAIN p.elems |-> g[p.elems[i]][t.args[i]]])
    [] OTHER -> NoBindings

LEMMA bindsFacts ==
  ASSUME NEW g, NEW p \in Patterns, NEW t
  PROVE  /\ p.kind = "binding" => binds(g, p, t) = [x \in {p.name} |-> t]
         /\ p.kind = "variant" => binds(g, p, t) = [f \in p.fields |-> field_types(t, p.variant)[f]]
         /\ p.kind = "tuple" => binds(g, p, t) = Joined([i \in DOMAIN p.elems |-> g[p.elems[i]][t.args[i]]])
         /\ p.kind \in {"wildcard", "literal", "none"} => binds(g, p, t) = NoBindings
<1>1. CASE p.kind = "binding"
  BY <1>1 DEF binds
<1>2. CASE p.kind = "variant"
  BY <1>2 DEF binds, bind_enum_variant_fields
<1>3. CASE p.kind = "tuple"
  BY <1>3 DEF binds
<1>4. CASE p.kind \in {"wildcard", "literal", "none"}
  BY <1>4 DEF binds
<1> QED BY <1>1, <1>2, <1>3, <1>4, PatternFacts

LEMMA construct_pattern_bindingsIs ==
  construct_pattern_bindings =
    [p \in Patterns |-> [t \in TypesOf(p) |-> binds(construct_pattern_bindings, p, t)]]
<1> DEFINE
    R == [p \in Patterns |-> [TypesOf(p) -> BindingsTo(Types)]]
    W == Sections(Patterns, R)
    F == [g \in W |-> [p \in Patterns |-> [t \in TypesOf(p) |-> binds(g, p, t)]]]
<1>1. [p \in Patterns |-> [t \in TypesOf(p) |-> NoBindings]] \in W
  BY BindingsFacts DEF Sections
<1>2. ASSUME NEW g \in W PROVE F[g] \in W
  <2>0. \A q \in Patterns : g[q] \in [TypesOf(q) -> BindingsTo(Types)]
    BY DEF Sections
  <2>1. ASSUME NEW p \in Patterns, NEW t \in TypesOf(p) PROVE binds(g, p, t) \in BindingsTo(Types)
    <3>1. CASE p.kind = "binding"
      <4>1. {p.name} \in SUBSET Variables /\ [x \in {p.name} |-> t] \in [{p.name} -> Types]
        BY <3>1, PatternVariables, PartTypes
      <4> QED BY <3>1, <4>1, bindsFacts, BindingsFacts
    <3>2. CASE p.kind = "variant"
      <4>1. p.fields \in SUBSET Variables
        BY <3>2, PatternVariables
      <4>2. \A f \in p.fields : field_types(t, p.variant)[f] \in Types
        BY <3>2, PartTypes
      <4>3. [f \in p.fields |-> field_types(t, p.variant)[f]] \in [p.fields -> Types]
        BY <4>2
      <4> QED BY <3>2, <4>1, <4>3, bindsFacts, BindingsFacts
    <3>3. CASE p.kind = "tuple"
      <4> DEFINE fs == [i \in DOMAIN p.elems |-> g[p.elems[i]][t.args[i]]]
      <4>1. p.elems \in Seq(Patterns) /\ DOMAIN p.elems = 1..Len(p.elems) /\ Len(p.elems) \in Nat
        BY <3>3, PatternFacts, LenProperties
      <4>2. ASSUME NEW i \in DOMAIN p.elems PROVE g[p.elems[i]][t.args[i]] \in BindingsTo(Types)
        <5>1. p.elems[i] \in Patterns
          BY <3>3, PatternFacts
        <5>2. t.args[i] \in TypesOf(p.elems[i])
          BY <3>3, PartTypes
        <5> QED BY <2>0, <5>1, <5>2
      <4>3. fs \in [1..Len(p.elems) -> BindingsTo(Types)]
        BY <4>1, <4>2
      <4>4. Joined(fs) \in BindingsTo(Types)
        <5> HIDE DEF fs
        <5> QED BY <4>1, <4>3, JoinedBindings
      <4>5. binds(g, p, t) = Joined(fs)
        BY <3>3 DEF binds
      <4> HIDE DEF fs
      <4> QED BY <4>4, <4>5
    <3>4. CASE p.kind \in {"wildcard", "literal", "none"}
      BY <3>4, bindsFacts, BindingsFacts
    <3> QED BY <3>1, <3>2, <3>3, <3>4, PatternFacts
  <2>2. \A p \in Patterns : F[g][p] \in R[p]
    BY <2>1
  <2> QED BY <2>2 DEF Sections
<1>3. Descends(F, Patterns, R, Nesting)
  <2>1. ASSUME NEW g \in W, NEW h \in W, NEW p \in Patterns,
               \A s \in Patterns : Nesting[s] < Nesting[p] => g[s] = h[s]
        PROVE  F[g][p] = F[h][p]
    <3>1. ASSUME NEW t \in TypesOf(p) PROVE binds(g, p, t) = binds(h, p, t)
      <4>1. CASE p.kind = "tuple"
        <5>1. \A i \in DOMAIN p.elems : g[p.elems[i]] = h[p.elems[i]]
          BY <2>1, <4>1, PatternFacts
        <5>2. [i \in DOMAIN p.elems |-> g[p.elems[i]][t.args[i]]]
                = [i \in DOMAIN p.elems |-> h[p.elems[i]][t.args[i]]]
          BY <5>1
        <5>3. /\ binds(g, p, t) = Joined([i \in DOMAIN p.elems |-> g[p.elems[i]][t.args[i]]])
              /\ binds(h, p, t) = Joined([i \in DOMAIN p.elems |-> h[p.elems[i]][t.args[i]]])
          BY <4>1 DEF binds
        <5> QED BY <5>2, <5>3, Zenon
      <4>2. CASE p.kind # "tuple"
        <5>1. p.kind = "binding" \/ p.kind = "variant" \/ p.kind \in {"wildcard", "literal", "none"}
          BY <4>2, PatternFacts
        <5>2. CASE p.kind = "binding"
          BY <5>2 DEF binds
        <5>3. CASE p.kind = "variant"
          BY <5>3 DEF binds
        <5>4. CASE p.kind \in {"wildcard", "literal", "none"}
          BY <5>4 DEF binds
        <5> QED BY <5>1, <5>2, <5>3, <5>4
      <4> QED BY <4>1, <4>2
    <3> QED BY <3>1
  <2> QED BY <2>1 DEF Descends
<1>4. Nesting \in [Patterns -> Nat]
  BY PatternsAssumption
<1>5. F \in [W -> W]
  BY <1>2
<1>6. \E f \in W : f = F[f]
  <2> HIDE DEF F, R
  <2> QED BY <1>1, <1>3, <1>4, <1>5, RankedRecursion
<1>7. \E f : f = [p \in Patterns |-> [t \in TypesOf(p) |-> binds(f, p, t)]]
  BY <1>6
<1> HIDE DEF F, R
<1> QED BY <1>7 DEF construct_pattern_bindings, binds

\* The values that match a pattern, and their parts.
MatchesOf(p) == {v \in AllValues : match_pattern[p][v]}

LEMMA PartValues ==
  ASSUME NEW p \in Patterns, NEW v \in MatchesOf(p)
  PROVE  /\ v \in AllValues /\ match_pattern[p][v]
         /\ p.kind = "tuple" => \A i \in DOMAIN p.elems : v.elems[i] \in MatchesOf(p.elems[i])
         /\ p.kind = "variant" => \A f \in p.fields : f \in DOMAIN v.fields /\ v.fields[f] \in AllValues
<1>1. v \in AllValues /\ match_pattern[p][v]
  BY DEF MatchesOf
<1>2. PICK t \in Types : v \in Values[t]
  BY <1>1, SomeType
<1>3. CASE p.kind = "tuple"
  <2>1. /\ "elems" \in DOMAIN v /\ Len(v.elems) = Len(p.elems)
        /\ \A i \in DOMAIN p.elems : match_pattern[p.elems[i]][v.elems[i]]
    BY <1>1, <1>3, MatchFacts
  <2>2. t.con = "Tuple"
    BY <1>2, <2>1, ValueFacts, TypeFacts
  <2>3. IsTuple(v, t)
    BY <1>2, <2>2, TupleValues
  <2>4. DOMAIN p.elems = DOMAIN t.args
    BY <1>3, <2>1, <2>3, PatternFacts, TypeFacts DEF IsTuple
  <2>5. \A i \in DOMAIN p.elems : v.elems[i] \in AllValues
    BY <2>3, <2>4, TypeFacts, ValueFacts DEF IsTuple
  <2> QED BY <1>1, <1>3, <2>1, <2>5 DEF MatchesOf
<1>4. CASE p.kind = "variant"
  <2>1. "enum" \in DOMAIN v /\ p.fields \subseteq DOMAIN v.fields
    BY <1>1, <1>4, MatchFacts
  <2>2. t.con \in DOMAIN Enums
    BY <1>2, <2>1, ValueFacts, TypeFacts
  <2>3. ASSUME NEW f \in DOMAIN v.fields PROVE v.fields[f] \in AllValues
    <3>1. DOMAIN NoneValue.fields = {}
      BY DEF NoneValue
    <3>2. IsBuilt(v, t)
      BY <1>2, <2>2, <2>3, <3>1, EnumValues
    <3>3. v.fields[f] \in Values[field_types(t, v.variant)[f]] /\ field_types(t, v.variant)[f] \in Types
      BY <2>2, <2>3, <3>2, TypeFacts DEF IsBuilt
    <3> QED BY <3>3, ValueFacts
  <2> QED BY <1>1, <1>4, <2>1, <2>3
<1> QED BY <1>1, <1>3, <1>4

\* What matching binds for a pattern, when g is what it binds for those in it.
takes(g, p, v) ==
  CASE p.kind = "binding" -> [x \in {p.name} |-> v]
    [] p.kind = "variant" -> [f \in p.fields |-> v.fields[f]]
    [] p.kind = "tuple" -> Joined([i \in DOMAIN p.elems |-> g[p.elems[i]][v.elems[i]]])
    [] OTHER -> NoBindings

LEMMA takesFacts ==
  ASSUME NEW g, NEW p \in Patterns, NEW v
  PROVE  /\ p.kind = "binding" => takes(g, p, v) = [x \in {p.name} |-> v]
         /\ p.kind = "variant" => takes(g, p, v) = [f \in p.fields |-> v.fields[f]]
         /\ p.kind = "tuple" => takes(g, p, v) = Joined([i \in DOMAIN p.elems |-> g[p.elems[i]][v.elems[i]]])
         /\ p.kind \in {"wildcard", "literal", "none"} => takes(g, p, v) = NoBindings
<1>1. CASE p.kind = "binding"
  BY <1>1 DEF takes
<1>2. CASE p.kind = "variant"
  BY <1>2 DEF takes
<1>3. CASE p.kind = "tuple"
  BY <1>3 DEF takes
<1>4. CASE p.kind \in {"wildcard", "literal", "none"}
  BY <1>4 DEF takes
<1> QED BY <1>1, <1>2, <1>3, <1>4, PatternFacts

LEMMA matched_bindingsIs ==
  matched_bindings =
    [p \in Patterns |-> [v \in MatchesOf(p) |-> takes(matched_bindings, p, v)]]
<1> DEFINE
    R == [p \in Patterns |-> [MatchesOf(p) -> BindingsTo(AllValues)]]
    W == Sections(Patterns, R)
    F == [g \in W |-> [p \in Patterns |-> [v \in MatchesOf(p) |-> takes(g, p, v)]]]
<1>1. [p \in Patterns |-> [v \in MatchesOf(p) |-> NoBindings]] \in W
  BY BindingsFacts DEF Sections
<1>2. ASSUME NEW g \in W PROVE F[g] \in W
  <2>0. \A q \in Patterns : g[q] \in [MatchesOf(q) -> BindingsTo(AllValues)]
    BY DEF Sections
  <2>1. ASSUME NEW p \in Patterns, NEW v \in MatchesOf(p) PROVE takes(g, p, v) \in BindingsTo(AllValues)
    <3>1. CASE p.kind = "binding"
      <4>1. {p.name} \in SUBSET Variables /\ [x \in {p.name} |-> v] \in [{p.name} -> AllValues]
        BY <3>1, PatternVariables, PartValues
      <4> QED BY <3>1, <4>1, takesFacts, BindingsFacts
    <3>2. CASE p.kind = "variant"
      <4>1. p.fields \in SUBSET Variables
        BY <3>2, PatternVariables
      <4>2. \A f \in p.fields : v.fields[f] \in AllValues
        BY <3>2, PartValues
      <4>3. [f \in p.fields |-> v.fields[f]] \in [p.fields -> AllValues]
        BY <4>2
      <4> QED BY <3>2, <4>1, <4>3, takesFacts, BindingsFacts
    <3>3. CASE p.kind = "tuple"
      <4> DEFINE fs == [i \in DOMAIN p.elems |-> g[p.elems[i]][v.elems[i]]]
      <4>1. p.elems \in Seq(Patterns) /\ DOMAIN p.elems = 1..Len(p.elems) /\ Len(p.elems) \in Nat
        BY <3>3, PatternFacts, LenProperties
      <4>2. ASSUME NEW i \in DOMAIN p.elems PROVE g[p.elems[i]][v.elems[i]] \in BindingsTo(AllValues)
        <5>1. p.elems[i] \in Patterns
          BY <3>3, PatternFacts
        <5>2. v.elems[i] \in MatchesOf(p.elems[i])
          BY <3>3, PartValues
        <5> QED BY <2>0, <5>1, <5>2
      <4>3. fs \in [1..Len(p.elems) -> BindingsTo(AllValues)]
        BY <4>1, <4>2
      <4>4. Joined(fs) \in BindingsTo(AllValues)
        <5> HIDE DEF fs
        <5> QED BY <4>1, <4>3, JoinedBindings
      <4>5. takes(g, p, v) = Joined(fs)
        BY <3>3 DEF takes
      <4> HIDE DEF fs
      <4> QED BY <4>4, <4>5
    <3>4. CASE p.kind \in {"wildcard", "literal", "none"}
      BY <3>4, takesFacts, BindingsFacts
    <3> QED BY <3>1, <3>2, <3>3, <3>4, PatternFacts
  <2>2. \A p \in Patterns : F[g][p] \in R[p]
    BY <2>1
  <2> QED BY <2>2 DEF Sections
<1>3. Descends(F, Patterns, R, Nesting)
  <2>1. ASSUME NEW g \in W, NEW h \in W, NEW p \in Patterns,
               \A s \in Patterns : Nesting[s] < Nesting[p] => g[s] = h[s]
        PROVE  F[g][p] = F[h][p]
    <3>1. ASSUME NEW v \in MatchesOf(p) PROVE takes(g, p, v) = takes(h, p, v)
      <4>1. CASE p.kind = "tuple"
        <5>1. \A i \in DOMAIN p.elems : g[p.elems[i]] = h[p.elems[i]]
          BY <2>1, <4>1, PatternFacts
        <5>2. [i \in DOMAIN p.elems |-> g[p.elems[i]][v.elems[i]]]
                = [i \in DOMAIN p.elems |-> h[p.elems[i]][v.elems[i]]]
          BY <5>1
        <5>3. /\ takes(g, p, v) = Joined([i \in DOMAIN p.elems |-> g[p.elems[i]][v.elems[i]]])
              /\ takes(h, p, v) = Joined([i \in DOMAIN p.elems |-> h[p.elems[i]][v.elems[i]]])
          BY <4>1 DEF takes
        <5> QED BY <5>2, <5>3, Zenon
      <4>2. CASE p.kind # "tuple"
        <5>1. p.kind = "binding" \/ p.kind = "variant" \/ p.kind \in {"wildcard", "literal", "none"}
          BY <4>2, PatternFacts
        <5>2. CASE p.kind = "binding"
          BY <5>2 DEF takes
        <5>3. CASE p.kind = "variant"
          BY <5>3 DEF takes
        <5>4. CASE p.kind \in {"wildcard", "literal", "none"}
          BY <5>4 DEF takes
        <5> QED BY <5>1, <5>2, <5>3, <5>4
      <4> QED BY <4>1, <4>2
    <3> QED BY <3>1
  <2> QED BY <2>1 DEF Descends
<1>4. Nesting \in [Patterns -> Nat]
  BY PatternsAssumption
<1>5. F \in [W -> W]
  BY <1>2
<1>6. \E f \in W : f = F[f]
  <2> HIDE DEF F, R
  <2> QED BY <1>1, <1>3, <1>4, <1>5, RankedRecursion
<1>7. \E f : f = [p \in Patterns |-> [v \in MatchesOf(p) |-> takes(f, p, v)]]
  BY <1>6
<1> HIDE DEF F, R
<1> QED BY <1>7 DEF matched_bindings, takes, MatchesOf

\* What a pattern stands for, when g is what those in it stand for.
stands(g, p, t) ==
  CASE p.kind = "tuple" ->
         {v \in Values[t] : \A i \in DOMAIN p.elems : v.elems[i] \in g[p.elems[i]][t.args[i]]}
    [] p.kind = "literal" -> {[literal |-> p.literal]}
    [] p.kind = "none" -> {v \in Values[t] : v.variant = "None"}
    [] p.kind = "variant" ->
         {v \in Values[t] : v.variant = p.variant /\ p.fields \subseteq DOMAIN v.fields}
    [] OTHER -> Values[t]

LEMMA standsFacts ==
  ASSUME NEW g, NEW p \in Patterns, NEW t
  PROVE  /\ p.kind = "tuple" => stands(g, p, t) =
              {v \in Values[t] : \A i \in DOMAIN p.elems : v.elems[i] \in g[p.elems[i]][t.args[i]]}
         /\ p.kind = "literal" => stands(g, p, t) = {[literal |-> p.literal]}
         /\ p.kind = "none" => stands(g, p, t) = {v \in Values[t] : v.variant = "None"}
         /\ p.kind = "variant" => stands(g, p, t) =
              {v \in Values[t] : v.variant = p.variant /\ p.fields \subseteq DOMAIN v.fields}
         /\ p.kind \in {"wildcard", "binding"} => stands(g, p, t) = Values[t]
<1>1. CASE p.kind = "tuple"
  BY <1>1 DEF stands
<1>2. CASE p.kind = "literal"
  BY <1>2 DEF stands
<1>3. CASE p.kind = "none"
  BY <1>3 DEF stands
<1>4. CASE p.kind = "variant"
  BY <1>4 DEF stands
<1>5. CASE p.kind \in {"wildcard", "binding"}
  BY <1>5 DEF stands
<1> QED BY <1>1, <1>2, <1>3, <1>4, <1>5, PatternFacts

LEMMA DenotesIs ==
  Denotes = [p \in Patterns |-> [t \in TypesOf(p) |-> stands(Denotes, p, t)]]
<1> DEFINE
    R == [p \in Patterns |-> [TypesOf(p) -> SUBSET AllValues]]
    W == Sections(Patterns, R)
    F == [g \in W |-> [p \in Patterns |-> [t \in TypesOf(p) |-> stands(g, p, t)]]]
<1>1. [p \in Patterns |-> [t \in TypesOf(p) |-> {}]] \in W
  BY DEF Sections
<1>2. ASSUME NEW g \in W PROVE F[g] \in W
  <2>1. ASSUME NEW p \in Patterns, NEW t \in TypesOf(p) PROVE stands(g, p, t) \in SUBSET AllValues
    <3>1. t \in Types /\ infer_pattern[p][t] /\ Values[t] \subseteq AllValues
      BY PartTypes DEF AllValues
    <3>2. CASE p.kind = "literal"
      <4>1. p.literal \in literals(t)
        BY <3>1, <3>2, InferFacts
      <4>2. t = BoolType \/ t = IntType
        BY <4>1 DEF literals
      <4>3. [literal |-> p.literal] \in Values[t]
        BY <3>1, <4>1, <4>2, LiteralValues
      <4>4. stands(g, p, t) = {[literal |-> p.literal]}
        BY <3>2 DEF stands
      <4> QED BY <3>1, <4>3, <4>4
    <3>3. CASE p.kind = "tuple"
      <4>1. stands(g, p, t) =
              {v \in Values[t] : \A i \in DOMAIN p.elems : v.elems[i] \in g[p.elems[i]][t.args[i]]}
        BY <3>3 DEF stands
      <4>2. stands(g, p, t) \subseteq Values[t]
        BY <4>1
      <4> QED BY <3>1, <4>2
    <3>4. CASE p.kind = "none"
      <4>1. stands(g, p, t) \subseteq Values[t]
        BY <3>4 DEF stands
      <4> QED BY <3>1, <4>1
    <3>5. CASE p.kind = "variant"
      <4>1. stands(g, p, t) \subseteq Values[t]
        BY <3>5 DEF stands
      <4> QED BY <3>1, <4>1
    <3>6. CASE p.kind \in {"wildcard", "binding"}
      <4>1. stands(g, p, t) \subseteq Values[t]
        BY <3>6 DEF stands
      <4> QED BY <3>1, <4>1
    <3> QED BY <3>2, <3>3, <3>4, <3>5, <3>6, PatternFacts
  <2>2. \A p \in Patterns : F[g][p] \in R[p]
    BY <2>1
  <2> QED BY <2>2 DEF Sections
<1>3. Descends(F, Patterns, R, Nesting)
  <2>1. ASSUME NEW g \in W, NEW h \in W, NEW p \in Patterns,
               \A s \in Patterns : Nesting[s] < Nesting[p] => g[s] = h[s]
        PROVE  F[g][p] = F[h][p]
    <3>1. ASSUME NEW t \in TypesOf(p) PROVE stands(g, p, t) = stands(h, p, t)
      <4>1. CASE p.kind = "tuple"
        <5>1. \A i \in DOMAIN p.elems : g[p.elems[i]] = h[p.elems[i]]
          BY <2>1, <4>1, PatternFacts
        <5> DEFINE parts(k, v) == \A i \in DOMAIN p.elems : v.elems[i] \in k[p.elems[i]][t.args[i]]
        <5>2. \A v \in Values[t] : parts(g, v) <=> parts(h, v)
          BY <5>1
        <5>3. /\ stands(g, p, t) = {v \in Values[t] : parts(g, v)}
              /\ stands(h, p, t) = {v \in Values[t] : parts(h, v)}
          BY <4>1 DEF stands
        <5> HIDE DEF parts
        <5> QED BY <5>2, <5>3
      <4>2. CASE p.kind # "tuple"
        <5>1. p.kind \in {"literal", "none", "variant"} \/ p.kind \in {"wildcard", "binding"}
          BY <4>2, PatternFacts
        <5>2. CASE p.kind = "literal"
          BY <5>2 DEF stands
        <5>3. CASE p.kind = "none"
          BY <5>3 DEF stands
        <5>4. CASE p.kind = "variant"
          BY <5>4 DEF stands
        <5>5. CASE p.kind \in {"wildcard", "binding"}
          BY <5>5 DEF stands
        <5> QED BY <5>1, <5>2, <5>3, <5>4, <5>5
      <4> QED BY <4>1, <4>2
    <3> QED BY <3>1
  <2> QED BY <2>1 DEF Descends
<1>4. Nesting \in [Patterns -> Nat]
  BY PatternsAssumption
<1>5. F \in [W -> W]
  BY <1>2
<1>6. \E f \in W : f = F[f]
  <2> HIDE DEF F, R
  <2> QED BY <1>1, <1>3, <1>4, <1>5, RankedRecursion
<1>7. \E f : f = [p \in Patterns |-> [t \in TypesOf(p) |-> stands(f, p, t)]]
  BY <1>6
<1> HIDE DEF F, R
<1> QED BY <1>7 DEF Denotes, stands

------------------------------------------------------------------------------
(* The walks over a pattern agree.                                         *)

\* The parts of a tuple that a tuple pattern may meet.
LEMMA TupleParts ==
  ASSUME NEW p \in Patterns, p.kind = "tuple", NEW t \in TypesOf(p), NEW v \in Values[t]
  PROVE  /\ DOMAIN v = {"elems"} /\ Len(v.elems) = Len(p.elems)
         /\ DOMAIN p.elems = 1..Len(p.elems) /\ Len(p.elems) \in Nat
         /\ \A i \in DOMAIN p.elems :
              /\ p.elems[i] \in Patterns /\ Nesting[p.elems[i]] < Nesting[p]
              /\ t.args[i] \in TypesOf(p.elems[i]) /\ v.elems[i] \in Values[t.args[i]]
<1>1. t \in Types /\ infer_pattern[p][t]
  BY PartTypes
<1>2. t.con = "Tuple" /\ Len(p.elems) = Len(t.args)
  BY <1>1, InferFacts
<1>3. IsTuple(v, t)
  BY <1>1, <1>2, TupleValues
<1>4. /\ DOMAIN p.elems = 1..Len(p.elems) /\ Len(p.elems) \in Nat
      /\ \A i \in DOMAIN p.elems : p.elems[i] \in Patterns /\ Nesting[p.elems[i]] < Nesting[p]
  BY PatternFacts, LenProperties
<1>5. \A i \in DOMAIN p.elems : i \in DOMAIN t.args /\ t.args[i] \in TypesOf(p.elems[i])
  BY PartTypes
<1> QED BY <1>2, <1>3, <1>4, <1>5 DEF IsTuple

\* Matching takes the values that the pattern stands for.
LEMMA MatchesAreDenoted ==
  ASSUME NEW p \in Patterns, NEW t \in TypesOf(p), NEW v \in Values[t]
  PROVE  match_pattern[p][v] <=> v \in Denotes[p][t]
<1> DEFINE S == {q \in Patterns : \A s \in TypesOf(q) : \A w \in Values[s] :
                                    match_pattern[q][w] <=> w \in Denotes[q][s]}
<1>1. ASSUME NEW q \in Patterns, \A r \in Patterns : Nesting[r] < Nesting[q] => r \in S,
             NEW s \in TypesOf(q), NEW w \in Values[s]
      PROVE  match_pattern[q][w] <=> w \in Denotes[q][s]
  <2>1. s \in Types /\ infer_pattern[q][s]
    BY PartTypes
  <2>2. w \in AllValues
    BY <2>1, ValueFacts
  <2>3. Denotes[q][s] = stands(Denotes, q, s)
    BY DenotesIs
  <2>4. CASE q.kind = "tuple"
    <3>1. /\ DOMAIN w = {"elems"} /\ Len(w.elems) = Len(q.elems)
          /\ \A i \in DOMAIN q.elems :
               /\ q.elems[i] \in Patterns /\ Nesting[q.elems[i]] < Nesting[q]
               /\ s.args[i] \in TypesOf(q.elems[i]) /\ w.elems[i] \in Values[s.args[i]]
      BY <2>4, TupleParts
    <3>2. \A i \in DOMAIN q.elems :
            match_pattern[q.elems[i]][w.elems[i]] <=> w.elems[i] \in Denotes[q.elems[i]][s.args[i]]
      BY <1>1, <3>1
    <3>3. match_pattern[q][w] <=> \A i \in DOMAIN q.elems : match_pattern[q.elems[i]][w.elems[i]]
      BY <2>2, <2>4, <3>1, MatchFacts
    <3>4. Denotes[q][s] =
            {u \in Values[s] : \A i \in DOMAIN q.elems : u.elems[i] \in Denotes[q.elems[i]][s.args[i]]}
      BY <2>3, <2>4, standsFacts
    <3>5. w \in Denotes[q][s] <=>
            \A i \in DOMAIN q.elems : w.elems[i] \in Denotes[q.elems[i]][s.args[i]]
      BY <3>4
    <3> QED BY <3>2, <3>3, <3>5, Zenon
  <2>5. CASE q.kind = "literal"
    <3>1. match_pattern[q][w] <=> w = [literal |-> q.literal]
      BY <2>2, <2>5, MatchFacts
    <3>2. Denotes[q][s] = {[literal |-> q.literal]}
      BY <2>3, <2>5, standsFacts
    <3> QED BY <3>1, <3>2
  <2>6. CASE q.kind = "none"
    <3>1. s.con = "Perhaps" /\ s.con \in DOMAIN Enums
      BY <2>1, <2>6, InferFacts, EnumsAssumption
    <3>2. DOMAIN w = {"enum", "variant", "fields"} /\ w.enum = s.con
      BY <2>1, <3>1, ValueFacts
    <3>3. match_pattern[q][w] <=> w.variant = "None"
      BY <2>2, <2>6, <3>1, <3>2, MatchFacts
    <3>4. Denotes[q][s] = {u \in Values[s] : u.variant = "None"}
      BY <2>3, <2>6, standsFacts
    <3> QED BY <3>3, <3>4
  <2>7. CASE q.kind = "variant"
    <3>1. q.enum = s.con /\ s.con \in DOMAIN Enums
      BY <2>1, <2>7, InferFacts
    <3>2. DOMAIN w = {"enum", "variant", "fields"} /\ w.enum = s.con
      BY <2>1, <3>1, ValueFacts
    <3>3. match_pattern[q][w] <=> w.variant = q.variant /\ q.fields \subseteq DOMAIN w.fields
      BY <2>2, <2>7, <3>1, <3>2, MatchFacts
    <3>4. Denotes[q][s] = {u \in Values[s] : u.variant = q.variant /\ q.fields \subseteq DOMAIN u.fields}
      BY <2>3, <2>7, standsFacts
    <3> QED BY <3>3, <3>4
  <2>8. CASE q.kind \in {"wildcard", "binding"}
    <3>1. match_pattern[q][w]
      BY <2>2, <2>8, MatchFacts
    <3>2. Denotes[q][s] = Values[s]
      BY <2>3, <2>8, standsFacts
    <3> QED BY <3>1, <3>2
  <2> QED BY <2>4, <2>5, <2>6, <2>7, <2>8, PatternFacts
<1>2. \A q \in Patterns : (\A r \in Patterns : Nesting[r] < Nesting[q] => r \in S) => q \in S
  BY <1>1
<1> HIDE DEF S
<1>3. Patterns \subseteq S
  BY <1>2, NestingInduction
<1> QED BY <1>3 DEF S

\* A pattern that the check takes for one that matches everything does.
LEMMA CatchAllMatches ==
  ASSUME NEW p \in Patterns, is_catch_all_pattern[p], NEW t \in TypesOf(p), NEW v \in Values[t]
  PROVE  match_pattern[p][v]
<1> DEFINE S == {q \in Patterns : is_catch_all_pattern[q] =>
                   \A s \in TypesOf(q) : \A w \in Values[s] : match_pattern[q][w]}
<1>1. ASSUME NEW q \in Patterns, \A r \in Patterns : Nesting[r] < Nesting[q] => r \in S,
             is_catch_all_pattern[q], NEW s \in TypesOf(q), NEW w \in Values[s]
      PROVE  match_pattern[q][w]
  <2>1. s \in Types /\ w \in AllValues
    BY PartTypes, ValueFacts
  <2>2. CASE q.kind = "tuple"
    <3>1. /\ DOMAIN w = {"elems"} /\ Len(w.elems) = Len(q.elems)
          /\ \A i \in DOMAIN q.elems :
               /\ q.elems[i] \in Patterns /\ Nesting[q.elems[i]] < Nesting[q]
               /\ s.args[i] \in TypesOf(q.elems[i]) /\ w.elems[i] \in Values[s.args[i]]
      BY <2>2, TupleParts
    <3>2. \A i \in DOMAIN q.elems : is_catch_all_pattern[q.elems[i]]
      BY <1>1, <2>2, CatchAllFacts
    <3>3. \A i \in DOMAIN q.elems : match_pattern[q.elems[i]][w.elems[i]]
      BY <1>1, <3>1, <3>2
    <3> QED BY <2>1, <2>2, <3>1, <3>3, MatchFacts
  <2>3. CASE q.kind \in {"wildcard", "binding"}
    BY <2>1, <2>3, MatchFacts
  <2> QED BY <1>1, <2>2, <2>3, CatchAllFacts, PatternFacts
<1>2. \A q \in Patterns : (\A r \in Patterns : Nesting[r] < Nesting[q] => r \in S) => q \in S
  BY <1>1
<1> HIDE DEF S
<1>3. Patterns \subseteq S
  BY <1>2, NestingInduction
<1> QED BY <1>3 DEF S

\* What a pattern binds when it matches are the variables that construction
\* bound, each with a value of its type.
Fits(found, bound) ==
  /\ DOMAIN found = DOMAIN bound
  /\ \A x \in DOMAIN found : found[x] \in Values[bound[x]]

LEMMA JoinedFits ==
  ASSUME NEW n \in Nat, NEW fs, NEW gs, DOMAIN fs = 1..n, DOMAIN gs = 1..n,
         \A i \in 1..n : Fits(fs[i], gs[i])
  PROVE  Fits(Joined(fs), Joined(gs))
<1>1. IsJoined(n, fs) /\ IsJoined(n, gs)
  BY JoinedFacts
<1>2. \A i \in 1..n : DOMAIN fs[i] = DOMAIN gs[i]
  BY DEF Fits
<1>3. DOMAIN Joined(fs) = DOMAIN Joined(gs)
  BY <1>1, <1>2 DEF IsJoined
<1>4. ASSUME NEW x \in DOMAIN Joined(fs) PROVE Joined(fs)[x] \in Values[Joined(gs)[x]]
  <2>1. PICK i \in 1..n : IsLastWith(fs, x, i) /\ Joined(fs)[x] = fs[i][x]
    BY <1>1 DEF IsJoined
  <2>2. PICK j \in 1..n : IsLastWith(gs, x, j) /\ Joined(gs)[x] = gs[j][x]
    BY <1>1, <1>3 DEF IsJoined
  <2>3. i <= j /\ j <= i
    BY <1>2, <2>1, <2>2 DEF IsLastWith
  <2>4. i = j
    BY <2>3
  <2> QED BY <2>1, <2>2, <2>4 DEF IsLastWith, Fits
<1> QED BY <1>3, <1>4 DEF Fits

LEMMA WalksAgree ==
  ASSUME NEW p \in Patterns, NEW t \in TypesOf(p), NEW v \in Values[t], match_pattern[p][v]
  PROVE  Fits(matched_bindings[p][v], construct_pattern_bindings[p][t])
<1> DEFINE S == {q \in Patterns : \A s \in TypesOf(q) : \A w \in Values[s] : match_pattern[q][w] =>
                                    Fits(matched_bindings[q][w], construct_pattern_bindings[q][s])}
<1>1. ASSUME NEW q \in Patterns, \A r \in Patterns : Nesting[r] < Nesting[q] => r \in S,
             NEW s \in TypesOf(q), NEW w \in Values[s], match_pattern[q][w]
      PROVE  Fits(matched_bindings[q][w], construct_pattern_bindings[q][s])
  <2>1. s \in Types /\ infer_pattern[q][s] /\ w \in AllValues
    BY PartTypes, ValueFacts
  <2>2. w \in MatchesOf(q)
    BY <1>1, <2>1 DEF MatchesOf
  <2>3. matched_bindings[q][w] = takes(matched_bindings, q, w)
    BY <2>2, matched_bindingsIs
  <2>4. construct_pattern_bindings[q][s] = binds(construct_pattern_bindings, q, s)
    BY construct_pattern_bindingsIs
  <2>5. CASE q.kind = "tuple"
    <3> DEFINE fs == [i \in DOMAIN q.elems |-> matched_bindings[q.elems[i]][w.elems[i]]]
               gs == [i \in DOMAIN q.elems |-> construct_pattern_bindings[q.elems[i]][s.args[i]]]
    <3>1. /\ DOMAIN w = {"elems"} /\ Len(w.elems) = Len(q.elems)
          /\ DOMAIN q.elems = 1..Len(q.elems) /\ Len(q.elems) \in Nat
          /\ \A i \in DOMAIN q.elems :
               /\ q.elems[i] \in Patterns /\ Nesting[q.elems[i]] < Nesting[q]
               /\ s.args[i] \in TypesOf(q.elems[i]) /\ w.elems[i] \in Values[s.args[i]]
      BY <2>5, TupleParts
    <3>2. \A i \in DOMAIN q.elems : match_pattern[q.elems[i]][w.elems[i]]
      BY <1>1, <2>1, <2>5, MatchFacts
    <3>3. \A i \in DOMAIN q.elems :
            Fits(matched_bindings[q.elems[i]][w.elems[i]], construct_pattern_bindings[q.elems[i]][s.args[i]])
      BY <1>1, <3>1, <3>2
    <3>4. takes(matched_bindings, q, w) = Joined(fs)
      BY <2>5 DEF takes
    <3>5. binds(construct_pattern_bindings, q, s) = Joined(gs)
      BY <2>5 DEF binds
    <3>6. /\ DOMAIN fs = 1..Len(q.elems) /\ DOMAIN gs = 1..Len(q.elems)
          /\ \A i \in 1..Len(q.elems) : Fits(fs[i], gs[i])
      BY <3>1, <3>3
    <3>7. Fits(Joined(fs), Joined(gs))
      <4> HIDE DEF fs, gs
      <4> QED BY <3>1, <3>6, JoinedFits
    <3> HIDE DEF fs, gs
    <3> QED BY <2>3, <2>4, <3>4, <3>5, <3>7
  <2>6. CASE q.kind = "binding"
    <3>1. takes(matched_bindings, q, w) = [x \in {q.name} |-> w]
      BY <2>6 DEF takes
    <3>0. binds(construct_pattern_bindings, q, s) = [x \in {q.name} |-> s]
      BY <2>6 DEF binds, bind_enum_variant_fields
    <3> QED BY <2>3, <2>4, <3>0, <3>1 DEF Fits
  <2>7. CASE q.kind = "variant"
    <3>1. takes(matched_bindings, q, w) = [f \in q.fields |-> w.fields[f]]
      BY <2>7 DEF takes
    <3>0. binds(construct_pattern_bindings, q, s) = [f \in q.fields |-> field_types(s, q.variant)[f]]
      BY <2>7 DEF binds, bind_enum_variant_fields
    <3>2. q.enum = s.con /\ s.con \in DOMAIN Enums
      BY <2>1, <2>7, InferFacts
    <3>3. w.variant = q.variant /\ q.fields \subseteq DOMAIN w.fields
      BY <1>1, <2>1, <2>7, MatchFacts
    <3>4. ASSUME NEW f \in q.fields PROVE w.fields[f] \in Values[field_types(s, q.variant)[f]]
      <4>1. DOMAIN NoneValue.fields = {}
        BY DEF NoneValue
      <4>2. IsBuilt(w, s)
        BY <2>1, <3>2, <3>3, <4>1, EnumValues
      <4> QED BY <3>3, <4>2 DEF IsBuilt
    <3> QED BY <2>3, <2>4, <3>0, <3>1, <3>4 DEF Fits
  <2>8. CASE q.kind \in {"wildcard", "literal", "none"}
    <3>1. takes(matched_bindings, q, w) = NoBindings
      BY <2>8 DEF takes
    <3>0. binds(construct_pattern_bindings, q, s) = NoBindings
      BY <2>8 DEF binds, bind_enum_variant_fields
    <3> QED BY <2>3, <2>4, <3>0, <3>1 DEF Fits, NoBindings
  <2> QED BY <2>5, <2>6, <2>7, <2>8, PatternFacts
<1>2. \A q \in Patterns : (\A r \in Patterns : Nesting[r] < Nesting[q] => r \in S) => q \in S
  BY <1>1
<1> HIDE DEF S
<1>3. Patterns \subseteq S
  BY <1>2, NestingInduction
<1> QED BY <1>3 DEF S

------------------------------------------------------------------------------
(* The check of the arms.                                                  *)

\* Arms whose patterns inference accepted for t.
Accepted(arms, t) ==
  /\ t \in Types
  /\ DOMAIN arms = 1..Len(arms) /\ Len(arms) \in 0..MaxArms
  /\ \A i \in DOMAIN arms :
       /\ arms[i].pattern \in Patterns /\ arms[i].guarded \in BOOLEAN
       /\ t \in TypesOf(arms[i].pattern)

\* A pattern without a guard is that of an arm.
LEMMA UnguardedFacts ==
  ASSUME NEW arms, NEW t, Accepted(arms, t)
  PROVE  /\ \A p \in unguarded(arms) :
              /\ p \in Patterns /\ t \in TypesOf(p)
              /\ \E i \in DOMAIN arms : ~arms[i].guarded /\ arms[i].pattern = p
         /\ \A i \in DOMAIN arms : arms[i].guarded \/ arms[i].pattern \in unguarded(arms)
BY DEF Accepted, unguarded

\* A pattern that covers the variant of a whole value matches it.
LEMMA CoveringMatches ==
  ASSUME NEW t \in Types, t.con \in DOMAIN Enums, NEW v \in Values[t], Whole(v),
         NEW p \in Patterns, t \in TypesOf(p), pattern_covers_variant(p, t.con, v.variant)
  PROVE  match_pattern[p][v]
<1>1. v \in AllValues /\ DOMAIN v = {"enum", "variant", "fields"} /\ v.enum = t.con
  BY ValueFacts
<1>2. CASE p.kind = "none" /\ t.con = "Perhaps" /\ v.variant = "None"
  BY <1>1, <1>2, MatchFacts
<1>3. CASE p.kind = "variant" /\ p.enum = t.con /\ p.variant = v.variant
  <2>1. p.fields \subseteq DOMAIN Enums[p.enum][p.variant]
    BY <1>3, PartTypes
  <2>2. DOMAIN v.fields = DOMAIN Enums[v.enum][v.variant]
    BY <1>1 DEF Whole
  <2> QED BY <1>1, <1>3, <2>1, <2>2, MatchFacts
<1> QED BY <1>2, <1>3 DEF pattern_covers_variant

\* Of the arms that the check accepts, one without a guard matches.
LEMMA CheckedCovers ==
  ASSUME NEW arms, NEW t, Accepted(arms, t), check_match_exhaustiveness(arms, t),
         ~Unasked(t), NEW v \in Values[t], Whole(v)
  PROVE  \E i \in DOMAIN arms : ~arms[i].guarded /\ match_pattern[arms[i].pattern][v]
<1>0. t \in Types
  BY DEF Accepted
<1>1. ASSUME NEW p \in unguarded(arms), match_pattern[p][v]
      PROVE  \E i \in DOMAIN arms : ~arms[i].guarded /\ match_pattern[arms[i].pattern][v]
  BY <1>1, UnguardedFacts
<1>2. CASE \E p \in unguarded(arms) : is_catch_all_pattern[p]
  <2>1. PICK p \in unguarded(arms) : is_catch_all_pattern[p]
    BY <1>2
  <2>2. p \in Patterns /\ t \in TypesOf(p)
    BY UnguardedFacts
  <2> QED BY <1>1, <2>1, <2>2, CatchAllMatches
<1>3. CASE t = BoolType /\ \A l \in {"true", "false"} :
             \E p \in unguarded(arms) : is_bool_literal_pattern(p, l)
  <2>1. PICK l \in {"true", "false"} : v = [literal |-> l]
    BY <1>0, <1>3, LiteralValues DEF literals
  <2>2. PICK p \in unguarded(arms) : is_bool_literal_pattern(p, l)
    BY <1>3
  <2>3. p \in Patterns /\ v \in AllValues
    BY <1>0, UnguardedFacts, ValueFacts
  <2>4. match_pattern[p][v]
    BY <2>1, <2>2, <2>3, MatchFacts DEF is_bool_literal_pattern
  <2> QED BY <1>1, <2>4
<1>4. CASE t.con \in DOMAIN Enums /\ \A variant \in checked_variants(t) :
             \E p \in unguarded(arms) : pattern_covers_variant(p, t.con, variant)
  <2>1. variants(t) \subseteq checked_variants(t)
    BY <1>4 DEF Unasked
  <2>2. NoneValue.variant = "None"
    BY DEF NoneValue
  <2>3. v.variant \in checked_variants(t)
    <3>1. CASE IsBuilt(v, t)
      BY <2>1, <3>1 DEF IsBuilt
    <3>2. CASE v = NoneValue /\ t.con = "Perhaps"
      BY <2>2, <3>2 DEF checked_variants
    <3> QED BY <1>0, <1>4, <3>1, <3>2, EnumValues
  <2>4. PICK p \in unguarded(arms) : pattern_covers_variant(p, t.con, v.variant)
    BY <1>4, <2>3
  <2>5. p \in Patterns /\ t \in TypesOf(p)
    BY UnguardedFacts
  <2>6. match_pattern[p][v]
    BY <1>0, <1>4, <2>4, <2>5, CoveringMatches
  <2> QED BY <1>1, <2>6
<1> QED BY <1>2, <1>3, <1>4 DEF check_match_exhaustiveness

\* No match has arms for all integers.
LEMMA IntegerLeft ==
  ASSUME NEW n \in 0..MaxArms, NEW f
  PROVE  \E l \in Integers : \A k \in 1..n : f[k] # l
<1> SUFFICES ASSUME \A l \in Integers : \E k \in 1..n : f[k] = l PROVE FALSE
  OBVIOUS
<1> DEFINE g == [l \in Integers |-> CHOOSE k \in 1..n : f[k] = l]
<1>1. \A l \in Integers : g[l] \in 1..n /\ f[g[l]] = l
  OBVIOUS
<1>2. g \in Injection(Integers, 1..n)
  <2>1. g \in [Integers -> 1..n]
    BY <1>1
  <2>2. \A a, b \in Integers : g[a] = g[b] => a = b
    BY <1>1
  <2> HIDE DEF g
  <2> QED BY <2>1, <2>2 DEF Injection, IsInjective
<1>3. n \in Nat /\ n <= MaxArms /\ MaxArms \in Nat
  BY ArmsAssumption
<1>4. IsFiniteSet(1..n) /\ Cardinality(1..n) = n
  BY <1>3, FS_Interval
<1>5. IsFiniteSet(Integers) /\ Cardinality(Integers) <= n
  <2> HIDE DEF g
  <2> QED BY <1>2, <1>4, FS_Injection
<1> QED BY <1>3, <1>5, IntegersAssumption, FS_CardinalityType

\* Of the values of a type that is no tuple, one has no arm when the check
\* refuses the arms.
LEMMA UncheckedMisses ==
  ASSUME NEW arms, NEW t, Accepted(arms, t), ~check_match_exhaustiveness(arms, t),
         t.con # "Tuple", ~Unknown(t), ~NeverBuilt(t)
  PROVE  \E v \in Values[t] : Whole(v) /\ \A p \in unguarded(arms) : ~match_pattern[p][v]
<1>0. t \in Types
  BY DEF Accepted
<1>1. ASSUME NEW p \in unguarded(arms)
      PROVE  /\ p \in Patterns /\ t \in TypesOf(p) /\ infer_pattern[p][t]
             /\ p.kind \in {"literal", "none", "variant"}
  <2>1. p \in Patterns /\ t \in TypesOf(p)
    BY UnguardedFacts
  <2>2. ~is_catch_all_pattern[p]
    BY DEF check_match_exhaustiveness
  <2>3. p.kind \notin {"wildcard", "binding"}
    BY <2>1, <2>2, CatchAllFacts
  <2>4. p.kind # "tuple"
    BY <1>0, <2>1, PartTypes, InferFacts
  <2> QED BY <2>1, <2>3, <2>4, PatternFacts, PartTypes
<1>2. ASSUME t = BoolType \/ t = IntType, NEW l \in literals(t),
             \A p \in unguarded(arms) : ~is_bool_literal_pattern(p, l)
      PROVE  \E v \in Values[t] : Whole(v) /\ \A p \in unguarded(arms) : ~match_pattern[p][v]
  <2> DEFINE v == [literal |-> l]
  <2>1. v \in Values[t]
    BY <1>0, <1>2, LiteralValues
  <2>2. DOMAIN v = {"literal"} /\ v.literal = l
    OBVIOUS
  <2>3. Whole(v)
    BY <2>2 DEF Whole
  <2>4. ASSUME NEW p \in unguarded(arms) PROVE ~match_pattern[p][v]
    <3>1. v \in AllValues
      BY <1>0, <2>1, ValueFacts
    <3>2. CASE p.kind = "literal"
      BY <1>1, <1>2, <2>2, <3>1, <3>2, MatchFacts DEF is_bool_literal_pattern
    <3>3. CASE p.kind \in {"none", "variant"}
      BY <1>1, <2>2, <3>1, <3>3, MatchFacts
    <3> QED BY <1>1, <3>2, <3>3
  <2> HIDE DEF v
  <2> QED BY <2>1, <2>3, <2>4
<1>3. CASE t = BoolType
  <2>1. PICK l \in {"true", "false"} : \A p \in unguarded(arms) : ~is_bool_literal_pattern(p, l)
    BY <1>3 DEF check_match_exhaustiveness
  <2> QED BY <1>2, <1>3, <2>1 DEF literals
<1>4. CASE t = IntType
  <2>1. Len(arms) \in 0..MaxArms /\ DOMAIN arms = 1..Len(arms)
    BY DEF Accepted
  <2>2. PICK l \in Integers : \A k \in 1..Len(arms) : [i \in DOMAIN arms |-> arms[i].pattern.literal][k] # l
    BY <2>1, IntegerLeft
  <2>3. \A p \in unguarded(arms) : p.literal # l
    BY <2>1, <2>2, UnguardedFacts
  <2>4. IntType # BoolType
    BY DEF IntType, BoolType, Type
  <2> QED BY <1>2, <1>4, <2>3, <2>4 DEF literals, is_bool_literal_pattern
<1>5. CASE t.con \in DOMAIN Enums
  <2>1. PICK variant \in checked_variants(t) :
          \A p \in unguarded(arms) : ~pattern_covers_variant(p, t.con, variant)
    BY <1>5 DEF check_match_exhaustiveness
  <2>2. variant \in variants(t)
    BY <1>5 DEF Unknown
  <2> DEFINE S == [f \in DOMAIN Enums[t.con][variant] |-> Values[field_types(t, variant)[f]]]
             fs == [f \in DOMAIN Enums[t.con][variant] |-> CHOOSE w \in S[f] : TRUE]
             v == [enum |-> t.con, variant |-> variant, fields |-> fs]
  <2>3. \A f \in DOMAIN Enums[t.con][variant] : S[f] # {}
    BY <1>5, <2>2 DEF NeverBuilt
  <2>4. \A f \in DOMAIN S : fs[f] \in S[f]
    BY <2>3
  <2>5. DOMAIN fs = DOMAIN Enums[t.con][variant] /\ DOMAIN S = DOMAIN Enums[t.con][variant]
    OBVIOUS
  <2>6. fs \in Picks(S)
    <3>1. fs \in [DOMAIN S -> UNION {S[i] : i \in DOMAIN S}]
      BY <2>4
    <3> QED BY <2>4, <3>1 DEF Picks
  <2>7. v \in Values[t]
    <3> HIDE DEF fs
    <3> QED BY <1>0, <1>5, <2>2, <2>6, BuiltValues
  <2>8. DOMAIN v = {"enum", "variant", "fields"} /\ v.enum = t.con /\ v.variant = variant /\ v.fields = fs
    OBVIOUS
  <2> HIDE DEF v, fs, S
  <2>9. Whole(v)
    BY <2>5, <2>8 DEF Whole
  <2>10. ASSUME NEW p \in unguarded(arms) PROVE ~match_pattern[p][v]
    <3>1. v \in AllValues
      BY <1>0, <2>7, ValueFacts
    <3>2. CASE p.kind = "literal"
      <4>1. v # [literal |-> p.literal]
        <5>1. DOMAIN [literal |-> p.literal] = {"literal"}
          OBVIOUS
        <5> QED BY <2>8, <5>1
      <4> QED BY <1>1, <3>1, <3>2, <4>1, MatchFacts
    <3>3. CASE p.kind \in {"none", "variant"}
      BY <1>1, <2>1, <2>8, <3>1, <3>3, MatchFacts DEF pattern_covers_variant
    <3> QED BY <1>1, <3>2, <3>3
  <2> QED BY <2>7, <2>9, <2>10
<1> QED BY <1>0, <1>3, <1>4, <1>5, TypeFacts

------------------------------------------------------------------------------
(* The state machine.                                                      *)

Tried(i) == match.arms[i].guarded \/ ~match_pattern[match.arms[i].pattern][Value]

Locals == UNION {{construct_pattern_bindings[p][t] : t \in Types} : p \in Patterns}

MatchOK ==
  /\ match.type \in Types /\ match.generic \in BOOLEAN
  /\ DOMAIN match.arms = 1..Len(match.arms) /\ Len(match.arms) \in 0..MaxArms
  /\ \A i \in DOMAIN match.arms :
       match.arms[i].pattern \in Patterns /\ match.arms[i].guarded \in BOOLEAN

StateOK ==
  /\ phase \in {"infer", "construct", "evaluate"} /\ pos \in 1..Len(match.arms) + 1
  /\ locals \in Seq(Locals)
  /\ scrutinee \subseteq Values[match.type] /\ (scrutinee = {} \/ scrutinee = {Value})
  /\ outcome \in {"running", "type error", "T0008", "arm", "R0006"}

\* Inference was at all arms before.
ArmsInferred ==
  \A i \in DOMAIN match.arms :
    (phase = "infer" => i < pos) => match.type \in TypesOf(match.arms[i].pattern)

\* Construction was, but for the bodies of generic functions.
ArmsConstructed ==
  /\ phase = "infer" => locals = <<>>
  /\ ~match.generic /\ phase # "infer" =>
       /\ Len(locals) = (IF phase = "construct" THEN pos - 1 ELSE Len(match.arms))
       /\ \A i \in 1..Len(locals) :
            locals[i] = construct_pattern_bindings[match.arms[i].pattern][match.type]

ConstructionIsForChecked ==
  /\ phase = "construct" => ~match.generic
  /\ phase = "evaluate" /\ ~match.generic => check_match_exhaustiveness(match.arms, match.type)

\* Evaluation passed over all arms before.
ArmsTried ==
  phase = "evaluate" =>
    /\ scrutinee = {} => pos = 1
    /\ \A i \in 1..pos - 1 : i \in DOMAIN match.arms => Tried(i)

OutcomeOK ==
  /\ outcome = "T0008" =>
       /\ phase = "construct" /\ ~check_match_exhaustiveness(match.arms, match.type)
  /\ outcome = "R0006" => phase = "evaluate" /\ scrutinee # {} /\ pos > Len(match.arms)
  /\ outcome = "arm" =>
       /\ phase = "evaluate" /\ scrutinee # {} /\ pos \in DOMAIN match.arms
       /\ match_pattern[Arm.pattern][Value]
       /\ bindings = matched_bindings[Arm.pattern][Value]

IndInv ==
  /\ MatchOK /\ StateOK
  /\ ArmsInferred /\ ArmsConstructed /\ ConstructionIsForChecked /\ ArmsTried
  /\ OutcomeOK

\* A match begins with what inference has not seen.
LEMMA InitIndInv == Init => IndInv
<1> SUFFICES ASSUME Init PROVE IndInv
  OBVIOUS
<1>1. PICK menu \in Menus, n \in 1..MaxArms, generic \in BOOLEAN :
        \E arms \in Arms(menu, n) :
          match = [type |-> menu.type, arms |-> arms, generic |-> generic]
  BY DEF Init
<1>2. PICK arms \in Arms(menu, n) : match = [type |-> menu.type, arms |-> arms, generic |-> generic]
  BY <1>1
<1>3. menu.type \in Types /\ menu.patterns \subseteq Patterns
  BY MenusAssumption
<1>4. n \in Nat /\ n \in 0..MaxArms /\ DOMAIN arms = 1..n
  BY ArmsAssumption DEF Arms
<1>5. Len(arms) = n
  BY <1>4
<1>6. \A i \in 1..n : arms[i].pattern \in menu.patterns /\ arms[i].guarded \in BOOLEAN
  BY DEF Arms
<1>7. match.type = menu.type /\ match.arms = arms /\ match.generic = generic
  BY <1>2
<1>8. MatchOK
  BY <1>3, <1>4, <1>5, <1>6, <1>7 DEF MatchOK
<1>9. StateOK
  BY <1>4, <1>5, <1>7, EmptySeq DEF Init, StateOK
<1> QED BY <1>4, <1>7, <1>8, <1>9 DEF
      Init, IndInv, ArmsInferred, ArmsConstructed, ConstructionIsForChecked, ArmsTried, OutcomeOK

\* The arm that a pass is at.
LEMMA ArmFacts ==
  ASSUME MatchOK, StateOK, pos <= Len(match.arms)
  PROVE  /\ pos \in DOMAIN match.arms /\ pos \in Nat \ {0} /\ Len(match.arms) \in Nat
         /\ Arm = match.arms[pos] /\ Arm.pattern \in Patterns /\ Arm.guarded \in BOOLEAN
<1>1. pos \in 1..Len(match.arms) + 1
  BY DEF StateOK
<1>2. /\ DOMAIN match.arms = 1..Len(match.arms) /\ Len(match.arms) \in Nat
      /\ \A i \in DOMAIN match.arms :
           match.arms[i].pattern \in Patterns /\ match.arms[i].guarded \in BOOLEAN
  BY ArmsAssumption DEF MatchOK
<1>3. pos \in DOMAIN match.arms /\ pos \in Nat \ {0}
  BY <1>1, <1>2
<1> QED BY <1>2, <1>3 DEF Arm

\* Inference keeps it.
LEMMA InferIndInv == IndInv /\ (InferArm \/ InferFails \/ InferDone) => IndInv'
<1> SUFFICES ASSUME IndInv, InferArm \/ InferFails \/ InferDone PROVE IndInv'
  OBVIOUS
<1> USE DEF IndInv
<1>1. CASE InferArm
  <2>1. /\ match' = match /\ phase' = phase /\ scrutinee' = scrutinee /\ bindings' = bindings
        /\ outcome' = outcome /\ locals' = locals /\ pos' = pos + 1
        /\ phase = "infer" /\ outcome = "running" /\ pos <= Len(match.arms)
        /\ infer_pattern[Arm.pattern][match.type]
    BY <1>1 DEF InferArm, AtArm, In, NextArm
  <2>2. /\ pos \in DOMAIN match.arms /\ pos \in Nat \ {0} /\ Len(match.arms) \in Nat
        /\ Arm = match.arms[pos]
    BY <2>1, ArmFacts
  <2>3. MatchOK'
    BY <2>1 DEF MatchOK
  <2>4. StateOK'
    BY <2>1, <2>2 DEF StateOK, Value
  <2>5. ArmsInferred'
    <3>1. match.type \in TypesOf(match.arms[pos].pattern)
      BY <2>1, <2>2 DEF TypesOf, MatchOK
    <3>2. ASSUME NEW i \in DOMAIN match.arms, i < pos + 1
          PROVE  match.type \in TypesOf(match.arms[i].pattern)
      <4>1. i \in 1..Len(match.arms)
        BY DEF MatchOK
      <4>2. i < pos \/ i = pos
        BY <2>2, <3>2, <4>1
      <4> QED BY <2>1, <3>1, <4>2 DEF ArmsInferred
    <3> QED BY <2>1, <3>2 DEF ArmsInferred
  <2>6. ArmsConstructed'
    BY <2>1 DEF ArmsConstructed
  <2>7. ConstructionIsForChecked' /\ ArmsTried' /\ OutcomeOK'
    BY <2>1 DEF ConstructionIsForChecked, ArmsTried, OutcomeOK
  <2> QED BY <2>3, <2>4, <2>5, <2>6, <2>7
<1>2. CASE InferFails
  <2>1. /\ match' = match /\ phase' = phase /\ scrutinee' = scrutinee /\ bindings' = bindings
        /\ outcome' = "type error" /\ locals' = locals /\ pos' = pos /\ phase = "infer"
    BY <1>2 DEF InferFails, AtArm, In, End
  <2>2. MatchOK' /\ StateOK'
    BY <2>1 DEF MatchOK, StateOK, Value
  <2>3. ArmsInferred' /\ ArmsConstructed'
    BY <2>1 DEF ArmsInferred, ArmsConstructed
  <2>4. ConstructionIsForChecked' /\ ArmsTried' /\ OutcomeOK'
    BY <2>1 DEF ConstructionIsForChecked, ArmsTried, OutcomeOK
  <2> QED BY <2>2, <2>3, <2>4
<1>3. CASE InferDone
  <2>1. /\ match' = match /\ scrutinee' = scrutinee /\ bindings' = bindings
        /\ outcome' = outcome /\ locals' = locals /\ pos' = 1
        /\ phase' = (IF match.generic THEN "evaluate" ELSE "construct")
        /\ phase = "infer" /\ outcome = "running" /\ pos > Len(match.arms)
    BY <1>3 DEF InferDone, PastArms, In, Pass
  <2>2. MatchOK'
    BY <2>1 DEF MatchOK
  <2>3. StateOK'
    <3>1. 1 \in 1..Len(match.arms) + 1
      BY DEF MatchOK
    <3> QED BY <2>1, <3>1 DEF StateOK, Value
  <2>4. ArmsInferred'
    <3>1. \A i \in DOMAIN match.arms : i < pos
      BY <2>1 DEF MatchOK, StateOK
    <3> QED BY <2>1, <3>1 DEF ArmsInferred
  <2>5. ArmsConstructed'
    BY <2>1 DEF ArmsConstructed, MatchOK
  <2>6. ConstructionIsForChecked' /\ OutcomeOK'
    BY <2>1 DEF ConstructionIsForChecked, OutcomeOK, MatchOK
  <2>7. ArmsTried'
    BY <2>1 DEF ArmsTried
  <2> QED BY <2>2, <2>3, <2>4, <2>5, <2>6, <2>7
<1> QED BY <1>1, <1>2, <1>3

\* Construction keeps it.
LEMMA ConstructIndInv == IndInv /\ (ConstructArm \/ ConstructDone \/ NonExhaustive) => IndInv'
<1> SUFFICES ASSUME IndInv, ConstructArm \/ ConstructDone \/ NonExhaustive PROVE IndInv'
  OBVIOUS
<1> USE DEF IndInv
<1>1. CASE ConstructArm
  <2>1. /\ match' = match /\ phase' = phase /\ scrutinee' = scrutinee /\ bindings' = bindings
        /\ outcome' = outcome /\ pos' = pos + 1
        /\ locals' = Append(locals, construct_pattern_bindings[Arm.pattern][match.type])
        /\ phase = "construct" /\ outcome = "running" /\ pos <= Len(match.arms)
    BY <1>1 DEF ConstructArm, AtArm, In, NextArm
  <2>2. /\ pos \in DOMAIN match.arms /\ pos \in Nat \ {0} /\ Len(match.arms) \in Nat
        /\ Arm = match.arms[pos] /\ Arm.pattern \in Patterns
    BY <2>1, ArmFacts
  <2>3. construct_pattern_bindings[Arm.pattern][match.type] \in Locals /\ locals \in Seq(Locals)
    <3>1. match.type \in Types
      BY DEF MatchOK
    <3>2. construct_pattern_bindings[Arm.pattern][match.type] \in Locals
      <4>1. \A p \in Patterns, t \in Types : construct_pattern_bindings[p][t] \in Locals
        BY DEF Locals
      <4> QED BY <2>2, <3>1, <4>1
    <3>3. locals \in Seq(Locals)
      BY DEF StateOK
    <3> QED BY <3>2, <3>3
  <2>4. /\ locals' \in Seq(Locals) /\ Len(locals') = Len(locals) + 1
        /\ locals'[Len(locals) + 1] = construct_pattern_bindings[Arm.pattern][match.type]
        /\ \A i \in 1..Len(locals) : locals'[i] = locals[i]
    BY <2>1, <2>3, AppendFacts
  <2>5. ~match.generic /\ Len(locals) = pos - 1
    BY <2>1 DEF ArmsConstructed, ConstructionIsForChecked
  <2>6. MatchOK'
    BY <2>1 DEF MatchOK
  <2>7. StateOK'
    BY <2>1, <2>2, <2>4 DEF StateOK, Value
  <2>8. ArmsInferred'
    BY <2>1 DEF ArmsInferred
  <2>9. ArmsConstructed'
    <3>1. Len(locals') = pos' - 1
      BY <2>1, <2>2, <2>4, <2>5
    <3>2. ASSUME NEW i \in 1..Len(locals')
          PROVE  locals'[i] = construct_pattern_bindings[match.arms[i].pattern][match.type]
      <4>1. i \in 1..Len(locals) \/ i = pos
        BY <2>2, <2>4, <2>5
      <4>2. locals'[pos] = construct_pattern_bindings[Arm.pattern][match.type]
        BY <2>2, <2>4, <2>5
      <4>3. CASE i \in 1..Len(locals)
        BY <2>1, <2>4, <2>5, <4>3 DEF ArmsConstructed
      <4> QED BY <2>2, <4>1, <4>2, <4>3
    <3> QED BY <2>1, <3>1, <3>2 DEF ArmsConstructed
  <2>10. ConstructionIsForChecked' /\ ArmsTried' /\ OutcomeOK'
    BY <2>1 DEF ConstructionIsForChecked, ArmsTried, OutcomeOK
  <2> QED BY <2>6, <2>7, <2>8, <2>9, <2>10
<1>2. CASE ConstructDone
  <2>1. /\ match' = match /\ scrutinee' = scrutinee /\ bindings' = bindings
        /\ outcome' = outcome /\ locals' = locals /\ pos' = 1 /\ phase' = "evaluate"
        /\ phase = "construct" /\ outcome = "running" /\ pos > Len(match.arms)
        /\ check_match_exhaustiveness(match.arms, match.type)
    BY <1>2 DEF ConstructDone, PastArms, In, Pass
  <2>2. MatchOK'
    BY <2>1 DEF MatchOK
  <2>3. StateOK'
    <3>1. 1 \in 1..Len(match.arms) + 1
      BY DEF MatchOK
    <3> QED BY <2>1, <3>1 DEF StateOK, Value
  <2>4. ArmsInferred'
    BY <2>1 DEF ArmsInferred
  <2>5. ArmsConstructed'
    <3>1. pos - 1 = Len(match.arms)
      BY <2>1 DEF MatchOK, StateOK
    <3> QED BY <2>1, <3>1 DEF ArmsConstructed
  <2>6. ConstructionIsForChecked' /\ OutcomeOK'
    BY <2>1 DEF ConstructionIsForChecked, OutcomeOK
  <2>7. ArmsTried'
    BY <2>1 DEF ArmsTried
  <2> QED BY <2>2, <2>3, <2>4, <2>5, <2>6, <2>7
<1>3. CASE NonExhaustive
  <2>1. /\ match' = match /\ phase' = phase /\ scrutinee' = scrutinee /\ bindings' = bindings
        /\ outcome' = "T0008" /\ locals' = locals /\ pos' = pos /\ phase = "construct"
        /\ ~check_match_exhaustiveness(match.arms, match.type)
    BY <1>3 DEF NonExhaustive, PastArms, In, End
  <2>2. MatchOK' /\ StateOK'
    BY <2>1 DEF MatchOK, StateOK, Value
  <2>3. ArmsInferred' /\ ArmsConstructed'
    BY <2>1 DEF ArmsInferred, ArmsConstructed
  <2>4. ConstructionIsForChecked' /\ ArmsTried' /\ OutcomeOK'
    BY <2>1 DEF ConstructionIsForChecked, ArmsTried, OutcomeOK
  <2> QED BY <2>2, <2>3, <2>4
<1> QED BY <1>1, <1>2, <1>3

\* Evaluation keeps it.
LEMMA EvaluateIndInv ==
  IndInv /\ (EvalScrutinee \/ SkipArm \/ GuardFails \/ TakeArm \/ NoArmMatches) => IndInv'
<1> SUFFICES ASSUME IndInv, EvalScrutinee \/ SkipArm \/ GuardFails \/ TakeArm \/ NoArmMatches
             PROVE  IndInv'
  OBVIOUS
<1> USE DEF IndInv
<1>1. CASE EvalScrutinee
  <2>1. /\ match' = match /\ phase' = phase /\ bindings' = bindings
        /\ outcome' = outcome /\ locals' = locals /\ pos' = pos
        /\ phase = "evaluate" /\ outcome = "running" /\ scrutinee = {}
    BY <1>1 DEF EvalScrutinee, In
  <2>2. PICK v \in Values[match.type] : scrutinee' = {v}
    BY <1>1 DEF EvalScrutinee
  <2>3. scrutinee' # {} /\ Value' = v
    BY <2>2 DEF Value
  <2>4. MatchOK' /\ StateOK'
    BY <2>1, <2>2, <2>3 DEF MatchOK, StateOK
  <2>5. ArmsInferred' /\ ArmsConstructed' /\ ConstructionIsForChecked' /\ OutcomeOK'
    BY <2>1 DEF ArmsInferred, ArmsConstructed, ConstructionIsForChecked, OutcomeOK
  <2>6. ArmsTried'
    BY <2>1, <2>3 DEF ArmsTried
  <2> QED BY <2>4, <2>5, <2>6
<1>2. CASE SkipArm \/ GuardFails
  <2>1. /\ match' = match /\ phase' = phase /\ scrutinee' = scrutinee /\ bindings' = bindings
        /\ outcome' = outcome /\ locals' = locals /\ pos' = pos + 1
        /\ phase = "evaluate" /\ outcome = "running" /\ pos <= Len(match.arms) /\ scrutinee # {}
        /\ Arm.guarded \/ ~match_pattern[Arm.pattern][Value]
    BY <1>2 DEF SkipArm, GuardFails, Tries, AtArm, In, NextArm
  <2>2. /\ pos \in DOMAIN match.arms /\ pos \in Nat \ {0} /\ Len(match.arms) \in Nat
        /\ Arm = match.arms[pos]
    BY <2>1, ArmFacts
  <2>3. MatchOK' /\ Value' = Value
    BY <2>1 DEF MatchOK, Value
  <2>4. StateOK'
    BY <2>1, <2>2, <2>3 DEF StateOK
  <2>5. ArmsInferred' /\ ArmsConstructed' /\ ConstructionIsForChecked' /\ OutcomeOK'
    BY <2>1 DEF ArmsInferred, ArmsConstructed, ConstructionIsForChecked, OutcomeOK
  <2>6. ArmsTried'
    <3>1. Tried(pos)
      BY <2>1, <2>2 DEF Tried
    <3>2. ASSUME NEW i \in 1..pos PROVE i \in DOMAIN match.arms => Tried(i)
      <4>1. i \in 1..pos - 1 \/ i = pos
        BY <2>2
      <4> QED BY <2>1, <3>1, <4>1 DEF ArmsTried
    <3>3. (pos + 1) - 1 = pos
      BY <2>2
    <3>4. \A i \in 1..pos : i \in DOMAIN match.arms => Tried(i)'
      BY <2>1, <2>3, <3>2 DEF Tried
    <3> QED BY <2>1, <3>3, <3>4 DEF ArmsTried
  <2> QED BY <2>3, <2>4, <2>5, <2>6
<1>3. CASE TakeArm
  <2>1. /\ match' = match /\ phase' = phase /\ scrutinee' = scrutinee
        /\ bindings' = matched_bindings[Arm.pattern][Value]
        /\ outcome' = "arm" /\ locals' = locals /\ pos' = pos
        /\ phase = "evaluate" /\ outcome = "running" /\ pos <= Len(match.arms) /\ scrutinee # {}
        /\ match_pattern[Arm.pattern][Value]
    BY <1>3 DEF TakeArm, Tries, AtArm, In
  <2>2. pos \in DOMAIN match.arms
    BY <2>1, ArmFacts
  <2>3. Value' = Value /\ Arm' = Arm
    BY <2>1 DEF Value, Arm
  <2>4. MatchOK' /\ StateOK'
    BY <2>1, <2>3 DEF MatchOK, StateOK
  <2>5. ArmsInferred' /\ ArmsConstructed' /\ ConstructionIsForChecked'
    BY <2>1 DEF ArmsInferred, ArmsConstructed, ConstructionIsForChecked
  <2>6. ArmsTried'
    BY <2>1, <2>3 DEF ArmsTried, Tried
  <2>7. OutcomeOK'
    BY <2>1, <2>2, <2>3 DEF OutcomeOK
  <2> QED BY <2>4, <2>5, <2>6, <2>7
<1>4. CASE NoArmMatches
  <2>1. /\ match' = match /\ phase' = phase /\ scrutinee' = scrutinee /\ bindings' = bindings
        /\ outcome' = "R0006" /\ locals' = locals /\ pos' = pos
        /\ phase = "evaluate" /\ pos > Len(match.arms) /\ scrutinee # {}
    BY <1>4 DEF NoArmMatches, PastArms, In, End
  <2>2. Value' = Value
    BY <2>1 DEF Value
  <2>3. MatchOK' /\ StateOK'
    BY <2>1, <2>2 DEF MatchOK, StateOK
  <2>4. ArmsInferred' /\ ArmsConstructed' /\ ConstructionIsForChecked' /\ OutcomeOK'
    BY <2>1 DEF ArmsInferred, ArmsConstructed, ConstructionIsForChecked, OutcomeOK
  <2>5. ArmsTried'
    BY <2>1, <2>2 DEF ArmsTried, Tried
  <2> QED BY <2>3, <2>4, <2>5
<1> QED BY <1>1, <1>2, <1>3, <1>4

LEMMA Invariance == Spec => []IndInv
<1>1. IndInv /\ UNCHANGED vars => IndInv'
  <2> SUFFICES ASSUME IndInv, UNCHANGED vars PROVE IndInv'
    OBVIOUS
  <2>1. /\ match' = match /\ phase' = phase /\ scrutinee' = scrutinee /\ bindings' = bindings
        /\ outcome' = outcome /\ locals' = locals /\ pos' = pos
    BY DEF vars
  <2>2. Value' = Value /\ Arm' = Arm
    BY <2>1 DEF Value, Arm
  <2>3. MatchOK' /\ StateOK' /\ ArmsInferred' /\ ArmsConstructed'
    BY <2>1, <2>2 DEF IndInv, MatchOK, StateOK, ArmsInferred, ArmsConstructed
  <2>4. ConstructionIsForChecked' /\ ArmsTried' /\ OutcomeOK'
    BY <2>1, <2>2 DEF IndInv, ConstructionIsForChecked, ArmsTried, Tried, OutcomeOK
  <2> QED BY <2>3, <2>4 DEF IndInv
<1>2. IndInv /\ [Next]_vars => IndInv'
  BY <1>1, InferIndInv, ConstructIndInv, EvaluateIndInv DEF Next, Done
<1> QED BY <1>2, InitIndInv, PTL DEF Spec

------------------------------------------------------------------------------
(* The theorems.                                                           *)

\* The arms of a match that inference went over are typed.
LEMMA ArmsAreAccepted ==
  ASSUME IndInv, phase # "infer"
  PROVE  Accepted(match.arms, match.type)
BY DEF IndInv, MatchOK, ArmsInferred, Accepted

\* The value is one of the type.
LEMMA ValueIsTyped ==
  ASSUME IndInv, scrutinee # {}
  PROVE  Value \in Values[match.type]
BY DEF IndInv, StateOK

\* A match that construction accepted has an arm for every whole value, for
\* whatever enums, values and guards (check_match_exhaustiveness).
THEOREM ChecksAreEnough == Spec => []AcceptedMatchesSucceed
<1>1. IndInv => AcceptedMatchesSucceed
  <2> SUFFICES ASSUME IndInv, outcome = "R0006", ~match.generic, Whole(Value), ~Unasked(match.type)
               PROVE  FALSE
    BY DEF AcceptedMatchesSucceed, IndInv, MatchOK
  <2>1. phase = "evaluate" /\ scrutinee # {} /\ pos > Len(match.arms)
    BY DEF IndInv, OutcomeOK
  <2>2. check_match_exhaustiveness(match.arms, match.type)
    BY <2>1 DEF IndInv, ConstructionIsForChecked
  <2>3. Accepted(match.arms, match.type) /\ Value \in Values[match.type]
    BY <2>1, ArmsAreAccepted, ValueIsTyped
  <2>4. PICK i \in DOMAIN match.arms :
          ~match.arms[i].guarded /\ match_pattern[match.arms[i].pattern][Value]
    BY <2>2, <2>3, CheckedCovers
  <2>5. i \in 1..pos - 1
    BY <2>1 DEF IndInv, MatchOK, StateOK
  <2>6. Tried(i)
    BY <2>1, <2>5 DEF IndInv, ArmsTried
  <2> QED BY <2>4, <2>6 DEF Tried
<1> QED BY <1>1, Invariance, PTL

\* T0008 is only reported where a value is missed, whatever the enums and
\* values (check_match_exhaustiveness).
THEOREM ChecksAreNeeded == Spec => []RejectedMatchesMiss
<1>1. IndInv => RejectedMatchesMiss
  <2> SUFFICES ASSUME IndInv, outcome = "T0008", match.type.con # "Tuple",
                      ~Unknown(match.type), ~NeverBuilt(match.type)
               PROVE  \E v \in Values[match.type] : Whole(v) /\ ~Covered(v)
    BY DEF RejectedMatchesMiss
  <2>1. phase # "infer" /\ ~check_match_exhaustiveness(match.arms, match.type)
    BY DEF IndInv, OutcomeOK
  <2>2. Accepted(match.arms, match.type)
    BY <2>1, ArmsAreAccepted
  <2>3. PICK v \in Values[match.type] : Whole(v) /\ \A p \in unguarded(match.arms) : ~match_pattern[p][v]
    BY <2>1, <2>2, UncheckedMisses
  <2>4. ASSUME NEW i \in DOMAIN match.arms, ~match.arms[i].guarded, Stands(match.arms[i], v)
        PROVE  FALSE
    <3>1. match.arms[i].pattern \in Patterns /\ match.type \in TypesOf(match.arms[i].pattern)
      BY <2>2 DEF Accepted
    <3>2. match.arms[i].pattern \in unguarded(match.arms)
      BY <2>2, <2>4, UnguardedFacts
    <3> QED BY <2>3, <2>4, <3>1, <3>2, MatchesAreDenoted DEF Stands
  <2> QED BY <2>3, <2>4 DEF Covered
<1> QED BY <1>1, Invariance, PTL

\* The first arm that the value belongs to and whose guard holds is taken, with
\* the variables and types construction gave it (construct_pattern_bindings,
\* match_pattern).
THEOREM TheRightArmIsTaken == Spec => []TakenArmIsRight
<1>1. IndInv => TakenArmIsRight
  <2> SUFFICES ASSUME IndInv, outcome = "arm" PROVE TakenArmIsRight
    BY DEF TakenArmIsRight
  <2>1. /\ phase = "evaluate" /\ scrutinee # {} /\ pos \in DOMAIN match.arms
        /\ match_pattern[Arm.pattern][Value] /\ bindings = matched_bindings[Arm.pattern][Value]
    BY DEF IndInv, OutcomeOK
  <2>2. Accepted(match.arms, match.type) /\ Value \in Values[match.type]
    BY <2>1, ArmsAreAccepted, ValueIsTyped
  <2>3. ASSUME NEW i \in DOMAIN match.arms
        PROVE  /\ match.arms[i].pattern \in Patterns /\ match.type \in TypesOf(match.arms[i].pattern)
               /\ match_pattern[match.arms[i].pattern][Value] <=> Stands(match.arms[i], Value)
    <3>1. match.arms[i].pattern \in Patterns /\ match.type \in TypesOf(match.arms[i].pattern)
      BY <2>2 DEF Accepted
    <3> QED BY <2>2, <3>1, MatchesAreDenoted DEF Stands
  <2>4. Stands(Arm, Value)
    BY <2>1, <2>3 DEF Arm
  <2>5. ASSUME NEW i \in 1..pos - 1 PROVE match.arms[i].guarded \/ ~Stands(match.arms[i], Value)
    <3>1. i \in DOMAIN match.arms
      BY <2>1 DEF IndInv, MatchOK
    <3>2. Tried(i)
      BY <2>1, <3>1 DEF IndInv, ArmsTried
    <3> QED BY <2>3, <3>1, <3>2 DEF Tried
  <2>6. ASSUME ~match.generic
        PROVE  /\ DOMAIN bindings = DOMAIN locals[pos]
               /\ \A x \in DOMAIN bindings : bindings[x] \in Values[locals[pos][x]]
    <3>1. Fits(matched_bindings[Arm.pattern][Value], construct_pattern_bindings[Arm.pattern][match.type])
      BY <2>1, <2>2, <2>3, WalksAgree DEF Arm
    <3>2. locals[pos] = construct_pattern_bindings[Arm.pattern][match.type]
      <4>1. Len(locals) = Len(match.arms) /\ pos \in 1..Len(match.arms)
        BY <2>1, <2>6 DEF IndInv, MatchOK, ArmsConstructed
      <4> QED BY <2>1, <2>6, <4>1 DEF IndInv, ArmsConstructed, Arm
    <3> QED BY <2>1, <3>1, <3>2 DEF Fits
  <2> QED BY <2>4, <2>5, <2>6 DEF TakenArmIsRight
<1> QED BY <1>1, Invariance, PTL
==============================================================================
