--------------------------- MODULE PathNormalizer ---------------------------
(***************************************************************************)
(* path_normalizer::normalize between the name resolver and the checker:   *)
(* `?` becomes a match on Result, and a path through a module becomes the  *)
(* bare name the checker looks up.  The scopes, exports and types are      *)
(* those Linking makes of a program; one expression in the body of a       *)
(* function of some module goes through the three passes.                  *)
(*                                                                         *)
(* The code normalizes every module before it checks the first.  What it   *)
(* does to a module depends on its scope only, so here it is done to the   *)
(* module that is about to be checked.                                     *)
(***************************************************************************)
EXTENDS Linking

CONSTANTS
  Expressions,  \* what may be written in a function body
  Locals,       \* sets of local variables it may be written under; no local
                \* function, and no closure whose type has variables
  Variants      \* the variants of every enum a program declares

VARIABLES
  pass,      \* of the expression: "none", "desugar", "normalize", "infer" or "end"
  source,    \* the expression as parsed
  locals,    \* the local variables around it
  declared,  \* the generic functions of the module that stand before it
  expr,      \* the expression now
  result     \* of inference

expression_vars == <<pass, source, locals, declared, expr, result>>

Keywords == {"root", "self", "super"}
Segments == Names \cup Keywords \cup Range(Core)

(* An expression is the sequence of its nodes, each after its parts, the   *)
(* whole at the end.  An identifier is a path of one segment.  An Op is    *)
(* any expression all of whose operands, conditions, blocks and arguments  *)
(* are visited in order.                                                   *)
Path(segments) == [is |-> "Path", segments |-> segments, parts |-> <<>>]
ResolvedPath(resolved) == [is |-> "ResolvedPath", resolved |-> resolved, parts |-> <<>>]
Op(parts) == [is |-> "Op", parts |-> parts]
Assign(parts) == [is |-> "Assign", parts |-> parts]  \* the target's object and index, and the value
StructLiteral(path, parts) == [is |-> "StructLiteral", path |-> path, parts |-> parts]
PropagateError(parts) == [is |-> "PropagateError", parts |-> parts]
Match(path, parts) == [is |-> "Match", path |-> path, parts |-> parts]
Panic(parts) == [is |-> "Panic", parts |-> parts]  \* an unreachable!() was reached

Nodes ==
  [is : {"Path"}, segments : Seq(Segments) \ {<<>>}, parts : {<<>>}]
    \cup [is : {"Op", "Assign"}, parts : Seq(Nat)]
    \cup [is : {"StructLiteral"}, path : Seq(Segments) \ {<<>>}, parts : Seq(Nat)]
    \cup [is : {"PropagateError"}, parts : Seq(Nat)]

IsExpression(e) ==
  /\ e \in Seq(Nodes) /\ e # <<>>
  /\ \A i \in 1..Len(e) :
       /\ Range(e[i].parts) \subseteq 1..i - 1 /\ IsInjective(e[i].parts)
       /\ e[i].is \in {"Assign", "PropagateError"} => e[i].parts # <<>>
  /\ \A i \in 1..Len(e) - 1 : \E owner \in 1..Len(e) :
       \A j \in 1..Len(e) : i \in Range(e[j].parts) <=> j = owner

ASSUME ExpressionsAssumption == \A e \in Expressions : IsExpression(e)

\* The nodes that the rewriting passes come to: they do not go into the
\* target of an assignment.
walked(node) == IF node.is = "Assign" THEN {Last(node.parts)} ELSE Range(node.parts)

visited(e) ==
  LET reached[i \in DOMAIN e] ==
        i = Len(e) \/ \E owner \in DOMAIN e : i \in walked(e[owner]) /\ reached[owner]
  IN  {i \in DOMAIN e : reached[i]}

-----------------------------------------------------------------------------
(* The desugaring of `?`: match e { Result::Ok { value } => value,         *)
(* Result::Err { error } => return Result::Err { error: error } }.  The    *)
(* path of a Match is that of the literal in its second arm.               *)

make_question_mark_match(parts) == Match(<<"Result", "Err">>, parts)

\* Fault: a `?` on a `?` is left alone.
desugar_outermost(e) ==
  LET under_try(i) == \E owner \in DOMAIN e : e[owner].is = "PropagateError" /\ i \in Range(e[owner].parts)
  IN  [i \in DOMAIN e |-> IF i \in visited(e) /\ e[i].is = "PropagateError" /\ ~under_try(i)
                          THEN make_question_mark_match(e[i].parts) ELSE e[i]]

desugar_expr(e) ==
  [i \in DOMAIN e |-> IF i \in visited(e) /\ e[i].is = "PropagateError"
                      THEN make_question_mark_match(e[i].parts) ELSE e[i]]

-----------------------------------------------------------------------------
(* Normalization.                                                          *)

\* Every scope starts with a glob import of std::core.
all_globs(m) == {Core} \cup Range(globs(m))

first_segments(paths) == {Head(p) : p \in paths \ {<<>>}}

is_known_prefix(segment) == segment \in first_segments(Paths \cup all_globs(Current))

\* Fault: an import is found under the name it was given here.
resolved_by_local_name(segments, order) ==
  LET found == SelectSeq(order, LAMBDA l : l = Last(segments))
  IN  IF found = <<>> THEN Last(segments) ELSE Head(found)

\* An import of an item called like the last segment -- after a keyword any,
\* otherwise one from the right top-level module.
fits(binding, segments) ==
  /\ binding.name = Last(segments)
  /\ \/ Head(segments) \in Keywords
     \/ binding.module # <<>> /\ Head(binding.module) = Head(segments)

\* The bare name for a path through a module: the local name of an import
\* that fits, or else the last segment.  The imports are met in the order of
\* a hash map.
resolved_name(segments, order) ==
  LET found == {k \in DOMAIN order : fits(explicit(Current)[order[k]], segments)}
  IN  IF found = {} THEN Last(segments) ELSE order[Min(found)]

leads_through_module(segments) ==
  Len(segments) >= 2 /\ (Head(segments) \in Keywords \/ is_known_prefix(Head(segments)))

\* Fault: the first module that fits is cut off.
shortest_prefix(path) ==
  LET prefixes == {n \in 0..Len(path) - 1 : SubSeq(path, 1, n) \in all_globs(Current)}
  IN  IF Len(path) >= 2 /\ prefixes # {} THEN SubSeq(path, Min(prefixes) + 1, Len(path)) ELSE path

\* The longest glob-imported module a literal's path starts with is cut off.
try_normalize_struct_path(path) ==
  LET prefixes == {n \in 0..Len(path) - 1 : SubSeq(path, 1, n) \in all_globs(Current)}
  IN  IF Len(path) >= 2 /\ is_known_prefix(Head(path)) /\ prefixes # {}
      THEN SubSeq(path, Max(prefixes) + 1, Len(path))
      ELSE path

normalize_node(node, order) ==
  CASE node.is = "Path" /\ leads_through_module(node.segments) ->
         ResolvedPath(resolved_name(node.segments, order))
    [] node.is \in {"StructLiteral", "Match"} ->
         [node EXCEPT !.path = try_normalize_struct_path(@)]
    [] node.is = "PropagateError" -> Panic(node.parts)
    [] OTHER -> node

normalize_expr(e, order) ==
  [i \in DOMAIN e |-> IF i \in visited(e) THEN normalize_node(e[i], order) ELSE e[i]]

-----------------------------------------------------------------------------
(* Inference, as far as names go: how it ends, the node it ends at if that *)
(* is an error, and what the nodes looked up before then mean.             *)

Ok(means) == [ends |-> "ok", at |-> 0, means |-> means]
Err(i, code) == [ends |-> code, at |-> i, means |-> {}]
Local(name) == [local |-> name]

\* Functions, builtins and imports are found before the variables around the
\* name, and those before the lets of the module.
names_in_scope(vs) ==
  poly_env(Current, declared, build_import_schemes(Current))
    ?? [n \in vs |-> Local(n)] ?? [n \in Current.lets |-> Origin(Current.path, n)]

lookup(name, vs, i) ==
  IF name \in DOMAIN names_in_scope(vs) THEN Ok({<<i, names_in_scope(vs)[name]>>}) ELSE Err(i, "T0003")

\* The registry holds the types and methods of every module checked so far,
\* under their bare names; the latest of a name counts.
latest(S) == Modules[Max(S)].path
types_named(n) == {i \in 1..pos : n \in Modules[i].types}
enums_named(n) == IF n \in DOMAIN Variants THEN types_named(n) ELSE {}
structs_named(n) == types_named(n) \ enums_named(n)
methods_named(key) == {i \in 1..pos : key \in Modules[i].methods}

core_variants == ("Result" :> {"Ok", "Err"}) @@ ("Perhaps" :> {"Some", "None"})
UnitVariants == {"None", "Unit"}

variants(n) ==
  IF enums_named(n) # {} THEN Variants[n]
  ELSE IF n \in DOMAIN core_variants THEN core_variants[n] ELSE {}

Member(type, name) == type \o "::" \o name

variant_of(type, v) ==
  Origin(IF enums_named(type) = {} THEN Core ELSE latest(enums_named(type)), Member(type, v))

\* A path that was left alone: a method, or a variant without fields.
infer_path(segments, i) ==
  LET type == segments[1]
      methods == methods_named(Member(type, segments[2]))
  IN  IF Len(segments) = 2 /\ methods # {}
      THEN Ok({<<i, Origin(latest(methods), Member(type, segments[2]))>>})
      ELSE IF Len(segments) = 2 /\ segments[2] \in variants(type) \cap UnitVariants
      THEN Ok({<<i, variant_of(type, segments[2])>>})
      ELSE Err(i, "T0003")

\* Two segments are a variant, any other number the struct that is last.
infer_literal_path(path, i) ==
  IF Len(path) = 2
  THEN IF path[2] \in variants(path[1]) \ UnitVariants
       THEN Ok({<<i, variant_of(path[1], path[2])>>}) ELSE Err(i, "T0003")
  ELSE IF structs_named(Last(path)) # {}
       THEN Ok({<<i, Origin(latest(structs_named(Last(path))), Last(path))>>}) ELSE Err(i, "T0003")

infer_node(node, vs, i) ==
  CASE node.is = "Path" /\ Len(node.segments) = 1 -> lookup(node.segments[1], vs, i)
    [] node.is = "Path" /\ Len(node.segments) > 1 -> infer_path(node.segments, i)
    [] node.is = "ResolvedPath" -> lookup(node.resolved, vs, i)
    [] node.is = "StructLiteral" -> infer_literal_path(node.path, i)
    [] node.is = "Match" ->
         IF {"Ok", "Err"} \subseteq variants("Result") THEN infer_literal_path(node.path, i)
         ELSE Err(i, "T0003")
    [] node.is \in {"PropagateError", "Panic"} -> Err(i, "crash")
    [] OTHER -> Ok({})

\* One after the other, up to the first error.
in_order(results) ==
  LET failed == {k \in DOMAIN results : results[k].ends # "ok"}
  IN  IF failed = {} THEN Ok(UNION {results[k].means : k \in DOMAIN results})
      ELSE [results[Min(failed)] EXCEPT !.means = UNION {results[k].means : k \in 1..Min(failed)}]

\* The path of a literal comes before its fields, and a `?` that is left is
\* not gone into.
infer_expr(e, vs) ==
  LET infer[i \in DOMAIN e] ==
        LET parts == [k \in DOMAIN e[i].parts |-> infer[e[i].parts[k]]]
            node == <<infer_node(e[i], vs, i)>>
        IN  in_order(IF e[i].is \in {"StructLiteral", "PropagateError", "Panic"} THEN node \o parts ELSE parts \o node)
  IN  infer[Len(e)]

-----------------------------------------------------------------------------
NormalizerInit ==
  /\ Init
  /\ pass = "none"
  /\ source = <<>> /\ expr = <<>>
  /\ locals = {} /\ declared = {}
  /\ result = Ok({})

Link ==
  /\ pass = "none" /\ phase # "eval"
  /\ Next
  /\ UNCHANGED expression_vars

\* The imports of the module are in order, and its expression comes up.
Choose ==
  /\ pass = "none" /\ Running("check")
  /\ ~missing_annotation(Current) /\ ~glob_conflict(Current) /\ import_errors(Current) = {}
  /\ source' \in Expressions /\ expr' = source'
  /\ locals' \in Locals /\ declared' \in SUBSET Current.generic
  /\ pass' = "desugar"
  /\ UNCHANGED <<vars, result>>

Desugar ==
  /\ pass = "desugar"
  /\ expr' = desugar_expr(expr)
  /\ pass' = "normalize"
  /\ UNCHANGED <<vars, source, locals, declared, result>>

Normalize ==
  /\ pass = "normalize"
  /\ \E order \in SetToSeqs(DOMAIN explicit(Current)) : expr' = normalize_expr(expr, order)
  /\ pass' = "infer"
  /\ UNCHANGED <<vars, source, locals, declared, result>>

Infer ==
  /\ pass = "infer"
  /\ result' = infer_expr(expr, locals)
  /\ pass' = "end"
  /\ UNCHANGED <<vars, source, locals, declared, expr>>

NormalizerNext == Link \/ Choose \/ Desugar \/ Normalize \/ Infer

NormalizerSpec == NormalizerInit /\ [][NormalizerNext]_<<vars, expression_vars>>

-----------------------------------------------------------------------------
(***************************************************************************)
(* Correctness.                                                            *)
(***************************************************************************)
Inferred == pass = "end"

\* The nodes in the target of an assignment.
InTarget(e) ==
  LET inside[i \in DOMAIN e] ==
        \E owner \in DOMAIN e :
          /\ i \in Range(e[owner].parts)
          /\ inside[owner] \/ (e[owner].is = "Assign" /\ i # Last(e[owner].parts))
  IN  {i \in DOMAIN e : inside[i]}

Tries == {i \in DOMAIN source : source[i].is = "PropagateError"}

(* A `?` passes an Err of std::core on, however deep it is nested and      *)
(* whatever it is part of -- unless it is in the target of an assignment,  *)
(* which no pass before inference visits and inference panics on; a module *)
(* checked so far has an enum called Result, which the match that replaces *)
(* the `?` then takes for the one of std::core; or a module called Result  *)
(* is imported with `*`, which is cut off the path in the match.           *)
TriesPropagate ==
  Inferred =>
    /\ result.ends = "crash" => Tries \cap InTarget(source) # {}
    /\ Tries \cap InTarget(source) # {} => result.ends # "ok"
    /\ result.ends = "ok" => \A i \in Tries :
         <<i, Origin(Core, Member("Result", "Err"))>> \in result.means
           <=> enums_named("Result") = {} /\ <<"Result">> \notin all_globs(Current)

root_of(segment) ==
  CASE segment = "root" -> "Root" [] segment = "self" -> "Self" [] segment = "super" -> "Super"
    [] segment = "std" -> "Std" [] OTHER -> "Name"

\* The module that an import from path::{..} is from.
ModuleOf(path) ==
  LET root == root_of(Head(path))
  IN  base_of([root |-> root, segs |-> IF root = "Name" THEN path ELSE Tail(path)], Current.path)

IsModule(path) == path # <<>> /\ ModuleOf(path) \in Paths \cup {Core}

\* What the last segment names in the module before it.
ItemAt(path) ==
  LET m == ModuleOf(Front(path))
      n == Last(path)
  IN  IF m \in DOMAIN exports /\ n \in DOMAIN exports[m] THEN exports[m][n] ELSE Origin(m, n)

\* The names a path may come down to, those of them bound here, and those
\* that mean the item.
Called(path) ==
  {Last(path)} \cup {l \in DOMAIN explicit(Current) : explicit(Current)[l].name = Last(path)}
Bound(path) == Called(path) \cap (DOMAIN explicit(Current) \cup DOMAIN names_in_scope(locals))
Entries(path) ==
  {l \in Called(path) \cap DOMAIN names_in_scope(locals) : names_in_scope(locals)[l] = ItemAt(path)}

\* Something else goes by the last name, or the path is that of a member of
\* a type as well.
HasRivals(path) ==
  \/ Bound(path) # Entries(path)
  \/ /\ Len(path) = 2
     /\ \/ methods_named(Member(path[1], path[2])) # {}
        \/ path[2] \in variants(path[1]) \cap UnitVariants

\* The module has the name itself, or imports the item from where the path
\* says it is.
IsImported(path) ==
  \/ Last(path) \in DOMAIN names_in_scope(locals)
  \/ \E l \in DOMAIN explicit(Current) :
       explicit(Current)[l].name = Last(path) /\ explicit(Current)[l].module = ModuleOf(Front(path))

(* A path through a module means the item it names or nothing, unless      *)
(* something else goes by the last name, and it means the item when the    *)
(* module imports or declares the item.  It must begin with a keyword or   *)
(* with the first segment of the module's path from the root.              *)
QualifiedPathsMeanTheirItems ==
  Inferred => \A i \in DOMAIN source \ InTarget(source) :
    LET path == source[i].segments IN
    source[i].is = "Path" /\ IsModule(Front(path)) /\ ~HasRivals(path) =>
      /\ \A mean \in result.means : mean[1] = i => mean[2] = ItemAt(path)
      /\ result.ends = "ok" => Entries(path) # {}
      /\ IsImported(path) /\ Head(path) \in Keywords \cup first_segments({ModuleOf(Front(path))})
           => result.at # i

\* The module and the type in the path of a literal: a variant E::V if E is
\* an enum, a struct T otherwise.
EnumNames == DOMAIN Variants \cup DOMAIN core_variants
IsVariantPath(path) == Len(path) > 2 /\ path[Len(path) - 1] \in EnumNames
PrefixOf(path) == IF IsVariantPath(path) THEN Front(Front(path)) ELSE Front(path)
TypeIn(path) == IF IsVariantPath(path) THEN path[Len(path) - 1] ELSE Last(path)

\* The modules so far with a type of the name; std::core has its enums.
Declaring(type) ==
  {Modules[i].path : i \in types_named(type)} \cup (IF type \in DOMAIN core_variants THEN {Core} ELSE {})

\* What else the segments may be taken for: a struct called like the variant,
\* an enum called like the module.
IsAmbiguous(path) ==
  IF IsVariantPath(path) THEN structs_named(Last(path)) # {} ELSE Len(path) = 2 /\ Head(path) \in EnumNames

\* There is something to build, in a module imported with `*` under that
\* path; a module called like the enum is not.
IsBuildable(path) ==
  /\ PrefixOf(path) \in all_globs(Current)
  /\ IF IsVariantPath(path)
     THEN Last(path) \in variants(TypeIn(path)) \ UnitVariants /\ Front(path) \notin all_globs(Current)
     ELSE TypeIn(path) \notin EnumNames

(* A struct or variant literal under the path of a module builds the type  *)
(* of that module, or is rejected, when no other module checked so far     *)
(* has a type of the name and no segment can be taken for something else;  *)
(* and it is not rejected when the module is imported with `*` under that  *)
(* very path.                                                              *)
QualifiedLiteralsBuildTheirTypes ==
  Inferred => \A i \in DOMAIN source \ InTarget(source) :
    LET path == source[i].path
        type == TypeIn(path)
        m == ModuleOf(PrefixOf(path))
    IN  /\ source[i].is = "StructLiteral" /\ Len(path) > 1
        /\ IsModule(PrefixOf(path)) /\ Declaring(type) = {m} /\ ~IsAmbiguous(path)
        => /\ \A mean \in result.means : mean[1] = i =>
                mean[2] = Origin(m, IF IsVariantPath(path) THEN Member(type, Last(path)) ELSE type)
           /\ IsBuildable(path) => result.at # i

(* "`Expr::PropagateError` no longer exists after normalization"           *)
(* (docs/public/changelog.md:16), as inference asserts where it would      *)
(* meet one (typechecker/inference.rs:671).                                *)
NoTryIsLeft == result.ends # "crash"

(* "Fully-qualified paths valid in type and expression position without a  *)
(* preceding `import`" (docs/public/changelog.md:84): the path of a public *)
(* function of a checked module means the function.                        *)
QualifiedPathsAreValid ==
  Inferred => \A i \in DOMAIN source :
    LET path == source[i].segments IN
    /\ source[i].is = "Path" /\ IsModule(Front(path))
    /\ ModuleOf(Front(path)) \in DOMAIN exports /\ Last(path) \in DOMAIN exports[ModuleOf(Front(path))]
    => result.at # i
=============================================================================
