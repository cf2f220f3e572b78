--------------------------- MODULE LexicalScopes ---------------------------
(***************************************************************************)
(* What a name means.  Three passes resolve the names of a module, each    *)
(* with scopes of its own: inference (typechecker/inference.rs with        *)
(* InferContext), construction (typechecker/construction.rs with           *)
(* ConstructCtx), and the evaluator (Environment).  The language has one   *)
(* rule (docs/public/spec/declarations.md): scopes are lexical, let is     *)
(* visible from its declaration on, functions in all of their block.       *)
(*                                                                         *)
(* A program is the list of its nodes in textual order.  A node is a       *)
(* declaration, a block or a call; `last` is the last node inside it, so   *)
(* that node i contains node j when i < j <= last.  Every declaration is   *)
(* of a function from Int to Int, so that no call is a type error; what is *)
(* kept of a type or a value is the declaration it comes from.             *)
(*   fun   fun f(x: Int) -> Int { .. }                                     *)
(*   gen   fun f<T>(x: T) -> T { .. }                                      *)
(*   let   let f = fun(x: Int) -> Int { .. };                              *)
(*   poly  let f = fun(x) { .. x };       (generalised by inference)       *)
(*   call  f(1);                                                           *)
(* Parameters, loop variables and patterns bind like a let at the start of *)
(* a block.                                                                *)
(***************************************************************************)
EXTENDS Naturals, Sequences, FiniteSets, SequencesExt

CONSTANTS
  Names,     \* names of functions
  Programs,  \* the programs to run
  MaxDepth   \* bound: calls in progress

Functions == {"fun", "gen"}
Closures == {"let", "poly"}
Declarations == Functions \cup Closures
NoName == "{}"

Node(len) ==
  [kind : Declarations \cup {"block", "call"}, name : Names \cup {"main", NoName}, last : 1..len]

Inside(p, i, j) == i < j /\ j <= p[i].last
\* Node i stands directly in the block of node b; 0 is the module.
InBlock(p, b, i) ==
  /\ b = 0 \/ Inside(p, b, i)
  /\ \A j \in 1..Len(p) : Inside(p, j, i) => b # 0 /\ j <= b

\* A name that a block declares as a function is declared once in it.  The
\* lets of a module are the subject of Linking.
Around(p, i) == {k \in 1..Len(p) : Inside(p, k, i)}
IsProgram(p) ==
  /\ p \in Seq(Node(Len(p)))
  /\ \E m \in DOMAIN p : \A i \in DOMAIN p : (p[i].name = "main") <=> (i = m)
  /\ \A i \in DOMAIN p :
       /\ p[i].last >= i /\ (p[i].kind = "call" => p[i].last = i)
       /\ (p[i].kind = "block") <=> (p[i].name = NoName)
       /\ p[i].name = "main" => p[i].kind = "fun"
       /\ Around(p, i) = {} => p[i].kind \in Functions
       /\ p[i].name = "main" => Around(p, i) = {}
       /\ \A k \in Around(p, i) : p[i].last <= p[k].last
       /\ \A j \in 1..(i - 1) :
            /\ p[i].name = p[j].name /\ {p[i].kind, p[j].kind} \subseteq Declarations
            /\ Functions \cap {p[i].kind, p[j].kind} # {}
            => Around(p, i) # Around(p, j)

ASSUME ProgramsAssumption == \A p \in Programs : IsProgram(p)
ASSUME DepthAssumption == MaxDepth \in Nat

VARIABLES
  program,      \* the nodes of the module
  phase,        \* "infer", "construct", "evaluate" or "done"
  pc,           \* the next node
  open,         \* the nodes being walked, innermost last
  mono_env,     \* InferContext::mono_env
  poly_env,     \* InferContext::poly_env
  inferred,     \* per call, the declaration inference finds
  quantified,   \* the declarations whose scheme has type variables
  scheme_env,   \* the schemes of functions, by name (check_impl)
  env,          \* ConstructCtx::env
  constructed,  \* per call, the declaration construction finds
  scopes,       \* Environment::scopes, from names to cells
  cells,        \* the closure in every cell, and the node that declares it
  calls,        \* the callers of the function that runs
  ran,          \* pairs of a call that ran and the declaration it ran
  outcome       \* "running", "ok", "too deep", or the code of an error

vars == <<program, phase, pc, open, mono_env, poly_env, inferred, quantified, scheme_env, env,
          constructed, scopes, cells, calls, ran, outcome>>
infer_vars == <<mono_env, poly_env, inferred, quantified, scheme_env>>
construct_vars == <<env, constructed>>
evaluate_vars == <<scopes, cells, calls, ran>>

Nodes == 1..Len(program)
Calls == {i \in Nodes : program[i].kind = "call"}
Main == CHOOSE i \in Nodes : program[i].name = "main"
Current == program[pc]
Innermost == Last(open)
AtEnd == open # <<>> /\ pc > program[Innermost].last

\* Scopes, innermost last.  What is found is a set with at most one member.
NoBindings == [n \in {} |-> 0]
bind(scs, name, v) ==
  [scs EXCEPT ![Len(scs)] = [n \in DOMAIN @ \cup {name} |-> IF n = name THEN v ELSE @[n]]]
lookup(scs, name) ==
  LET levels == {k \in DOMAIN scs : name \in DOMAIN scs[k]}
  IN  IF levels = {} THEN {} ELSE {scs[Max(levels)][name]}
\* What is left when n scopes are closed.
pop(scs, n) == SubSeq(scs, 1, Len(scs) - n)

\* The functions declared directly in block b, by name.
FunctionsOf(b, kinds) ==
  LET decls == {i \in Nodes : InBlock(program, b, i) /\ program[i].kind \in kinds}
  IN  [n \in {program[i].name : i \in decls} |-> CHOOSE i \in decls : program[i].name = n]

\* Fault: only the functions of the module are hoisted.
hoist_at_root(b) == IF b = 0 THEN FunctionsOf(0, {"fun"}) ELSE NoBindings

\* hoist_fun_decls skips generic functions.
hoist_fun_decls(b) == FunctionsOf(b, {"fun"})

\* A declaration opens a scope for its parameters and one for its body.
ScopesOf(i) == IF program[i].kind = "block" THEN 1 ELSE 2
------------------------------------------------------------------------------
(***************************************************************************)
(* Inference: infer_program, infer_decl, infer_fun_decl, infer_block.      *)
(***************************************************************************)
Infers == phase = "infer" /\ outcome = "running" /\ pc <= Len(program) + 1

\* A block or the body of a function or closure is entered: its functions
\* are hoisted into both environments.
InferEnter ==
  /\ Infers /\ ~AtEnd /\ pc <= Len(program)
  /\ Current.kind # "call"
  /\ LET params == IF Current.kind = "block" THEN <<>> ELSE <<NoBindings>> IN
     /\ mono_env' = mono_env \o params \o <<hoist_fun_decls(pc)>>
     /\ poly_env' = poly_env \o params \o <<hoist_fun_decls(pc)>>
  /\ open' = Append(open, pc)
  /\ pc' = pc + 1
  /\ UNCHANGED <<program, phase, inferred, quantified, scheme_env, construct_vars, evaluate_vars,
                 outcome>>

\* InferContext::lookup: generalised names come first, whatever the level.
infer_lookup(poly, mono, name) ==
  IF lookup(poly, name) # {} THEN lookup(poly, name) ELSE lookup(mono, name)

InferCall ==
  /\ Infers /\ ~AtEnd /\ pc <= Len(program)
  /\ Current.kind = "call"
  /\ LET found == infer_lookup(poly_env, mono_env, Current.name) IN
     /\ inferred' = [inferred EXCEPT ![pc] = found]
     /\ outcome' = IF found = {} THEN "T0003" ELSE outcome
  /\ pc' = pc + 1
  /\ UNCHANGED <<program, phase, open, mono_env, poly_env, quantified, scheme_env, construct_vars,
                 evaluate_vars>>

\* Fault: only the functions of the module get a scheme.
with_root_scheme(i) ==
  IF ~InBlock(program, 0, i) THEN scheme_env
  ELSE [n \in DOMAIN scheme_env \cup {program[i].name} |->
          IF n = program[i].name THEN i ELSE scheme_env[n]]

\* What is generalised enters scheme_env by its name; the last one stays.
with_scheme(i) ==
  [n \in DOMAIN scheme_env \cup {program[i].name} |->
     IF n = program[i].name THEN i ELSE scheme_env[n]]

\* Fault: closures are not generalised.
WithVariablesIfDeclared(i, earlier) == program[i].kind = "gen" /\ earlier \subseteq quantified

\* A function has the type of what its name already stands for, so that a
\* generic one keeps its variables only if that has some, or does not exist.
WithVariables(i, earlier) ==
  \/ program[i].kind = "poly"
  \/ program[i].kind = "gen" /\ earlier \subseteq quantified

\* The innermost node is left.  A declaration binds its name around it.
InferLeave ==
  /\ Infers /\ AtEnd
  /\ LET i == Innermost
         name == program[i].name
         outer_mono == pop(mono_env, ScopesOf(i))
         outer_poly == pop(poly_env, ScopesOf(i))
         earlier == infer_lookup(outer_poly, outer_mono, name)
         generalised == program[i].kind \in Functions \cup {"poly"}
     IN
     /\ quantified' = IF WithVariables(i, earlier) THEN quantified \cup {i} ELSE quantified
     /\ mono_env' = IF program[i].kind = "let" THEN bind(outer_mono, name, i) ELSE outer_mono
     /\ poly_env' = IF generalised THEN bind(outer_poly, name, i) ELSE outer_poly
     /\ scheme_env' = IF generalised THEN with_scheme(i) ELSE scheme_env
  /\ open' = Front(open)
  /\ UNCHANGED <<program, phase, pc, inferred, construct_vars, evaluate_vars, outcome>>

\* ConstructCtx::new: every scheme without variables is bound in the root scope.
InferDone ==
  /\ Infers /\ open = <<>> /\ pc = Len(program) + 1
  /\ phase' = "construct"
  /\ pc' = 1
  /\ env' = <<[n \in {m \in DOMAIN scheme_env : scheme_env[m] \notin quantified} |-> scheme_env[n]]>>
  /\ UNCHANGED <<program, open, infer_vars, constructed, evaluate_vars, outcome>>
------------------------------------------------------------------------------
(***************************************************************************)
(* Construction: construct_program, construct_decl, construct_fun_decl,    *)
(* construct_block, construct_call.                                        *)
(***************************************************************************)
Constructs == phase = "construct" /\ outcome = "running"

\* Whether the scheme found under the name of node i is generic: its body is
\* then left to the untyped evaluator, and a let is not bound.
LeftGeneric(i) ==
  /\ program[i].kind \in Declarations
  /\ program[i].name \in DOMAIN scheme_env
  /\ scheme_env[program[i].name] \in quantified

ConstructGeneric ==
  /\ Constructs /\ ~AtEnd /\ pc <= Len(program)
  /\ LeftGeneric(pc)
  /\ pc' = Current.last + 1
  /\ UNCHANGED <<program, phase, open, infer_vars, construct_vars, evaluate_vars, outcome>>

\* A closure needs its parameters annotated.
ConstructEnter ==
  /\ Constructs /\ ~AtEnd /\ pc <= Len(program)
  /\ Current.kind # "call" /\ ~LeftGeneric(pc)
  /\ IF Current.kind = "poly"
     THEN outcome' = "T0002" /\ UNCHANGED <<env, open, pc>>
     ELSE /\ env' = env \o [k \in 1..ScopesOf(pc) |-> NoBindings]
          /\ open' = Append(open, pc)
          /\ pc' = pc + 1
          /\ UNCHANGED outcome
  /\ UNCHANGED <<program, phase, infer_vars, constructed, evaluate_vars>>

\* The scopes are asked first, then the schemes by name.
construct_lookup(name) ==
  IF lookup(env, name) # {} THEN lookup(env, name)
  ELSE IF name \in DOMAIN scheme_env THEN {scheme_env[name]} ELSE {}

ConstructCall ==
  /\ Constructs /\ ~AtEnd /\ pc <= Len(program)
  /\ Current.kind = "call"
  /\ constructed' = [constructed EXCEPT ![pc] = construct_lookup(Current.name)]
  /\ outcome' = IF construct_lookup(Current.name) = {} THEN "T0003" ELSE outcome
  /\ pc' = pc + 1
  /\ UNCHANGED <<program, phase, open, infer_vars, env, evaluate_vars>>

ConstructLeave ==
  /\ Constructs /\ AtEnd
  /\ LET outer == pop(env, ScopesOf(Innermost)) IN
     env' = IF program[Innermost].kind \in Closures
            THEN bind(outer, program[Innermost].name, Innermost) ELSE outer
  /\ open' = Front(open)
  /\ UNCHANGED <<program, phase, pc, infer_vars, constructed, evaluate_vars, outcome>>

\* run_passes declares the functions of the module before any of them
\* captures the environment; run_main then evaluates the body of main.
RunMain ==
  /\ Constructs /\ open = <<>> /\ pc = Len(program) + 1
  /\ LET funs == FunctionsOf(0, Functions)
         order == SetToSeq({funs[n] : n \in DOMAIN funs})
         globals == <<[n \in DOMAIN funs |-> CHOOSE c \in DOMAIN order : order[c] = funs[n]]>>
     IN
     /\ cells' = [c \in DOMAIN order |-> [decl |-> order[c], captured |-> globals]]
     /\ scopes' = Append(globals, NoBindings)
  /\ phase' = "evaluate"
  /\ open' = <<Main>>
  /\ pc' = Main + 1
  /\ UNCHANGED <<program, infer_vars, construct_vars, calls, ran, outcome>>
------------------------------------------------------------------------------
(***************************************************************************)
(* Evaluation: eval_block, eval_decl, call_function.                       *)
(***************************************************************************)
Evaluates == phase = "evaluate" /\ outcome = "running"

EvalBlock ==
  /\ Evaluates /\ ~AtEnd
  /\ Current.kind = "block"
  /\ scopes' = Append(scopes, NoBindings)
  /\ open' = Append(open, pc)
  /\ pc' = pc + 1
  /\ UNCHANGED <<program, phase, infer_vars, construct_vars, cells, calls, ran, outcome>>

NewCell == Len(cells) + 1

\* The function is defined first, so that what it captures holds itself.
EvalFun ==
  /\ Evaluates /\ ~AtEnd
  /\ Current.kind \in Functions
  /\ LET defined == bind(scopes, Current.name, NewCell) IN
     /\ scopes' = defined
     /\ cells' = Append(cells, [decl |-> pc, captured |-> defined])
  /\ pc' = Current.last + 1
  /\ UNCHANGED <<program, phase, open, infer_vars, construct_vars, calls, ran, outcome>>

\* A closure captures the environment before its name is defined.
EvalLet ==
  /\ Evaluates /\ ~AtEnd
  /\ Current.kind \in Closures
  /\ scopes' = bind(scopes, Current.name, NewCell)
  /\ cells' = Append(cells, [decl |-> pc, captured |-> scopes])
  /\ pc' = Current.last + 1
  /\ UNCHANGED <<program, phase, open, infer_vars, construct_vars, calls, ran, outcome>>

Found == lookup(scopes, Current.name)

\* Fault: the body runs in the scopes of the caller.
call_env_of_caller(closure) == scopes \o <<NoBindings, NoBindings>>

\* The body runs where the closure was made, below a scope for the parameters.
call_env(closure) == closure.captured \o <<NoBindings, NoBindings>>

EvalCall ==
  /\ Evaluates /\ ~AtEnd
  /\ Current.kind = "call"
  /\ Found # {} /\ Len(calls) < MaxDepth
  /\ LET closure == cells[CHOOSE c \in Found : TRUE] IN
     /\ ran' = ran \cup {<<pc, closure.decl>>}
     /\ scopes' = call_env(closure)
     /\ open' = <<closure.decl>>
     /\ pc' = closure.decl + 1
  /\ calls' = Append(calls, [pc |-> pc + 1, open |-> open, scopes |-> scopes])
  /\ UNCHANGED <<program, phase, infer_vars, construct_vars, cells, outcome>>

\* The variable is undefined, or the model stops to follow the recursion.
EvalCallFails ==
  /\ Evaluates /\ ~AtEnd
  /\ Current.kind = "call"
  /\ \/ Found = {} /\ outcome' = "R0003"
     \/ Found # {} /\ Len(calls) = MaxDepth /\ outcome' = "too deep"
  /\ UNCHANGED <<program, phase, pc, open, infer_vars, construct_vars, evaluate_vars>>

LeaveBlock ==
  /\ Evaluates /\ AtEnd /\ Len(open) > 1
  /\ scopes' = pop(scopes, 1)
  /\ open' = Front(open)
  /\ UNCHANGED <<program, phase, pc, infer_vars, construct_vars, cells, calls, ran, outcome>>

Return ==
  /\ Evaluates /\ AtEnd /\ Len(open) = 1 /\ calls # <<>>
  /\ LET caller == Last(calls) IN
     pc' = caller.pc /\ open' = caller.open /\ scopes' = caller.scopes
  /\ calls' = Front(calls)
  /\ UNCHANGED <<program, phase, infer_vars, construct_vars, cells, ran, outcome>>

MainReturns ==
  /\ Evaluates /\ AtEnd /\ Len(open) = 1 /\ calls = <<>>
  /\ phase' = "done"
  /\ outcome' = "ok"
  /\ UNCHANGED <<program, pc, open, infer_vars, construct_vars, evaluate_vars>>
------------------------------------------------------------------------------
Init ==
  /\ program \in Programs
  /\ phase = "infer" /\ pc = 1 /\ open = <<>>
  /\ mono_env = <<hoist_fun_decls(0)>> /\ poly_env = <<hoist_fun_decls(0)>>
  /\ inferred = [i \in Calls |-> {}]
  /\ quantified = {} /\ scheme_env = NoBindings
  /\ env = <<>>
  /\ constructed = [i \in Calls |-> {}]
  /\ scopes = <<>> /\ cells = <<>> /\ calls = <<>> /\ ran = {}
  /\ outcome = "running"

Next ==
  \/ InferEnter \/ InferCall \/ InferLeave \/ InferDone
  \/ ConstructGeneric \/ ConstructEnter \/ ConstructCall \/ ConstructLeave
  \/ RunMain
  \/ EvalBlock \/ EvalFun \/ EvalLet \/ EvalCall \/ EvalCallFails
  \/ LeaveBlock \/ Return \/ MainReturns

Spec == Init /\ [][Next]_vars
------------------------------------------------------------------------------
(***************************************************************************)
(* The rule of the language.                                               *)
(***************************************************************************)
\* The declarations of `name` that block b shows to node p.
Shown(b, p, name) ==
  LET decls == {i \in Nodes : InBlock(program, b, i) /\ program[i].name = name}
  IN  {i \in decls : program[i].kind \in Functions}
        \cup {i \in decls : program[i].kind \in Closures /\ program[i].last < p}

\* The innermost block that shows one, and there the latest.
Meaning(p) ==
  LET name == program[p].name
      blocks == {b \in {0} \cup {i \in Nodes : Inside(program, i, p)} : Shown(b, p, name) # {}}
  IN  IF blocks = {} THEN {} ELSE {Max(Shown(Max(blocks), p, name))}

Kind(d) == program[d].kind
Generalised(d) == Kind(d) \in Functions \cup {"poly"}

\* A hoisted function of a nested block that stands after the call.
LaterFunction(p) ==
  \E d \in Meaning(p) : Kind(d) \in Functions /\ d > p /\ ~InBlock(program, 0, d)

DistinctNames ==
  \A i, j \in Nodes :
    Kind(i) \in Declarations /\ Kind(j) \in Declarations /\ program[i].name = program[j].name
    => i = j

\* The state has the shape the Rust types give it, names lead to declarations
\* and cells there are, and the two environments of inference grow together.
TypeOK ==
  /\ IsProgram(program)
  /\ phase \in {"infer", "construct", "evaluate", "done"}
  /\ pc \in 1..(Len(program) + 1) /\ open \in Seq(Nodes)
  /\ \A scs \in {mono_env, poly_env, env} :
       \A k \in DOMAIN scs : DOMAIN scs[k] \subseteq Names \cup {"main"} /\ Range(scs[k]) \subseteq Nodes
  /\ Len(mono_env) = Len(poly_env)
  /\ quantified \subseteq {i \in Nodes : program[i].kind \in {"gen", "poly"}}
  /\ \A k \in DOMAIN scopes : Range(scopes[k]) \subseteq DOMAIN cells
  /\ outcome \in {"running", "ok", "too deep", "T0002", "T0003", "R0003"}

\* Inference finds what the rule says, but for two cases: it looks for
\* generalised names in all scopes first, and does not hoist generic functions.
CheckedIsLexical ==
  phase # "infer" \/ outcome = "T0003" =>
    \A p \in {q \in Calls : q < pc \/ phase # "infer"} :
      \/ inferred[p] = Meaning(p)
      \/ \E m \in Meaning(p), d \in inferred[p] : Kind(m) = "let" /\ Generalised(d)
      \/ \E m \in Meaning(p) : Kind(m) = "gen" /\ p <= program[m].last

\* Construction gives every call a type for which inference found one.
ConstructionFollows == phase = "construct" => outcome # "T0003"

\* A call that runs reaches the declaration its name means where it is
\* written, whoever the caller is, unless it means a nested function that
\* comes later in the text.  Only such a function can be undefined.
DynamicIsLexical ==
  phase \in {"evaluate", "done"} =>
    /\ \A r \in ran : r[2] \in Meaning(r[1]) <=> ~LaterFunction(r[1])
    /\ outcome = "R0003" => LaterFunction(pc)

\* When no two declarations share a name, the three passes agree on every
\* call: it runs the declaration against which it was inferred and constructed.
DistinctNamesAgree ==
  DistinctNames =>
    /\ outcome # "T0002"
    /\ \A r \in ran : inferred[r[1]] = {r[2]} /\ constructed[r[1]] \subseteq {r[2]}

\* declarations.md: "All `fun` declarations in a block are mutually visible to
\* each other and to all other statements in that block, regardless of
\* declaration order."  A program that was checked finds its functions.
HoistedFunctionsRun == outcome # "R0003"

\* declarations.md: "Inner scopes can shadow outer variables."  A call in the
\* scope of a let is checked against the closure of that let.
InnerNamesShadow ==
  phase # "infer" =>
    \A p \in Calls, m \in Nodes : Kind(m) \in Closures /\ Meaning(p) = {m} => inferred[p] = {m}
==============================================================================
