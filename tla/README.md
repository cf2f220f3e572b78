# Verification of the Metel interpreter in TLA+

Metel is a small statically typed language with modules, arrays and structs as
values, closures and generics. The program of this repository
(`src/metel-interpreter`, about 10,000 lines of Rust) is its tree-walking
interpreter. It is sequential and single-threaded, reads files once, and keeps
no state after it ends. What makes it hard is not concurrency but agreement:
eight passes keep tables of their own about the same names (logical paths,
public surfaces, scopes, schemes, environments, heap cells), and a program is
only run as it was checked when these tables agree, for every graph of modules
and every sequence of steps. That is what the modules here state and check.

Paths below are relative to `src/metel-interpreter/` unless they begin with `docs/`.

## 1. The system

`main.rs:44-66` runs the passes in a row and stops at the first error:

    module_loader::load_root -> name_resolver::resolve -> path_normalizer::normalize
      -> typechecker::check_graph -> evaluator::evaluate_graph

| Component | State | Operations | Hands over |
|---|---|---|---|
| parser (`src/parser`, `grammar.pest`) | none | text to syntax tree | a `Program` to the loader |
| module loader (`src/module_loader.rs`) | call stack of `load_module`, `visited`/`file_to_path`, `path_aliases`, `modules` | `load_root`, `load_module`, search for a module's file | `ModuleGraph`: modules dependencies first, aliases |
| name resolver (`src/name_resolver.rs`) | `pub_surface`, one `ModuleScope` per module | collect exports, resolve imports, canonical paths | `ResolvedNames` |
| path normalizer and `?` (`src/path_normalizer.rs`) | none | rewrite qualified paths to bare names, `?` to a match | `NormalizedModuleGraph` |
| graph checker (`src/typechecker/mod.rs`) | `GlobalExports`, `type_context`, `imported_names` | build import schemes, check a module, filter what it exports | `TypedModuleGraph` |
| registry (`typechecker/registry.rs`) | type definitions, core schemes | register types, methods, builtins | to inference and construction |
| inference (`typechecker/inference.rs`, `src/typeinference`) | scopes of types and schemes, constraints, substitution | constraints from the tree, unification, generalisation | a substitution and schemes |
| construction (`typechecker/construction.rs`, `conversions.rs`) | scopes of concrete types, return and break types | typed tree, exhaustiveness of matches | `TypedDecl`s |
| graph evaluation (`src/evaluator/mod.rs:232-375`) | one `Environment` per module | seed imports, declare functions, register aliases, run lets, run `main` | |
| evaluator (`evaluator/mod.rs`, `call.rs`, `lvalue.rs`, `pattern.rs`, `builtins.rs`) | scopes of shared cells, shared array buffers, call stack, signals | expressions, statements, calls, assignment | output |
| errors, display, syntax trees, types | data | | |

### What is hard, and the properties it calls for

* *Graphs of files.* Diamonds, cycles, symbolic links and several logical paths
  for one file. The loader must come to an end, load every file reached once,
  put dependencies first, and report cycles that exist. It goes by files and
  the name resolver by paths, and each computes for itself where an import leads.
* *Three tables of names.* What the resolver records, the checker exports and
  the evaluator binds are computed by different code with different precedence
  (core, globs, explicit imports, own declarations). A call that was checked
  against one declaration must run that one; private names must stay private;
  one module's environment must not be changed by another.
* *Values over a shared heap.* Variables are cells that closures share, arrays
  are reference-counted buffers, and value semantics is recovered by cloning
  deeply "where a name is bound" (ADR-0007). Every kind of store, argument,
  loop variable and pattern variable is a chance to share by mistake.
* *Scopes, signals, numbers, matches.* Lexical scopes are walked by three
  passes; return, break and continue are values that pass through every
  expression; integers are 64 bits; exhaustiveness is judged on patterns.
* *Two passes over types.* Inference solves constraints and generalises while it
  walks; construction types the same source again without its variables, and
  leaves generic bodies alone, which a second copy of the evaluator then runs
  without types. What both let through must run.
* *Paths rewritten to bare names.* The passes after the normalizer look up
  strings; a qualified path must still mean the item it named.

No component has threads, messages, timeouts, retries or persistent state, so
there are no properties about them. `PROJECT.json` lists the hazards line by
line with the properties that cover each.

## 2. The modules

| Module | Models | Role |
|---|---|---|
| `LoadOrder` | what loading promises | abstract specification: a graph emitted in dependency order, or one of the errors |
| `ModulePaths` | `canonical_path`, `absolute_base`, `process_tree` of `name_resolver.rs` | how the resolver computes a path; operators that `ModuleLoader` and `Linking` share |
| `ModuleLoader` | `module_loader.rs`; what the resolver makes of an import, with `ModulePaths` | detailed specification, implements `LoadOrder` |
| `ModuleLoaderProofs` | | theorems about `ModuleLoader`, checked by TLAPS |
| `SequenceFacts` | | lemmas about stacks, positions, numbers, steps taken one after another and recursive functions, which the proofs share |
| `MCModuleLoader` | | small file systems for TLC |
| `Linking` | `name_resolver.rs`, `typechecker/mod.rs`, `evaluator/mod.rs:232-375` | composes the three passes that link modules |
| `LinkingProofs` | | theorems about `Linking` and `PathNormalizer` |
| `MCLinking` | | small module graphs for TLC |
| `ValueSemantics` | what ADR-0007 promises | abstract specification: variables hold trees, a step changes one variable |
| `ValueStore` | `evaluator/mod.rs`, `call.rs`, `builtins.rs` | detailed specification of environments and heap, implements `ValueSemantics` under a condition |
| `ValueStoreProofs` | | what is reachable in a heap and that a clone has room; theorems about `ValueStore` |
| `MCValueStore` | | bounds and a canonical view for TLC |
| `LexicalScopes` | `typechecker/inference.rs`, `construction.rs`, `typeinference/mod.rs`, `evaluator/mod.rs`, `call.rs` | which declaration a name means to three passes |
| `LexicalScopesProofs` | | theorems about `LexicalScopes` |
| `MCLexicalScopes` | | all programs of a few nodes for TLC |
| `ControlFlow` | `evaluator/mod.rs`, `call.rs`, the `?` of `path_normalizer.rs`, `with_stack` of `error/mod.rs` | jumps, scopes and errors in both copies of the evaluator |
| `ControlFlowProofs` | | theorems about `ControlFlow` |
| `MCControlFlow` | | the bound for TLC |
| `Matching` | a match in `typechecker/inference.rs`, `construction.rs`, `evaluator/pattern.rs`, `evaluator/mod.rs` | which arm a value takes, and whether the check for exhaustiveness foresees it |
| `MatchingProofs` | | theorems about `Matching` |
| `MCMatching` | | enums, types and patterns for TLC |
| `Unification` | types, substitutions, `unify`, `solve_constraints`, `generalize`, `instantiate` of `typeinference/mod.rs` | the operators of inference, no state |
| `Inference` | `typechecker/inference.rs`, `construction.rs`, `InferContext`, the order of `check_impl`, the evaluation of functions | programs without annotations through inference, construction and a run |
| `MCInference` | | the programs for TLC |
| `Operators` | operators and casts of `typechecker/inference.rs`, `construction.rs`, `evaluator/lvalue.rs`, `evaluator/mod.rs`, `builtins.rs` | one operator on any types and values through three passes |
| `OperatorsProofs` | | theorems about `Operators` |
| `MCOperators` | | the user's `From` implementations for TLC |
| `PathNormalizer` | `path_normalizer.rs`, the registry's tables by name | composed with `Linking`: an expression is rewritten with the scopes of a linked program and looked up |
| `MCPathNormalizer` | | programs and expressions for TLC |

Definitions keep the names of the source. An operator or action with the
comment "Fault:" is not part of the system: it is a variant a plausible bug
would produce, and shows that a property can fail.

### ModuleLoader

A *disk* is what the file system looks like to the loader: which paths name a
file (two paths may name one, as a symbolic link does), and for each file its
list of imports or the fact that it cannot be read or parsed. The disk is
chosen by `Init` and never changes. The recursion of `load_module` is the
variable `stack`: a frame is a call in progress, with the position in its loop
over imports. The actions are the paths through the loop body:

| Action | Code |
|---|---|
| `LoadRoot`, `LoadRootFails` | `load_root`, 28-34, with the checks at the start of `load_module` |
| `SkipImport` | no module to load (`std::`, an empty path), 157-166 |
| `MissingModule` | no file for the import, 196-211 |
| `DetectCycle` | the file is on the call stack, 73-83 |
| `Revisit` | the file was loaded before; another path becomes an alias, 85-94 |
| `UnreadableModule` | reading or parsing fails, 96-103 |
| `Descend` | the recursive call, 105-112 |
| `Finish` | `visited`, `file_to_path` and `modules` get the file, 115-121 |

`child_module_path` follows the *module*, `search_dir` the *directory*, as in
the code; the longest prefix of the import that names a file wins.

`ImportsReachTheirFiles` compares this with the other way of computing the path
of an import, that of the name resolver: it starts from the path under which
the importing module was recorded, takes all segments before the item, and
replaces aliased prefixes at every level (`process_tree` of `ModulePaths`; the
resolver runs when loading has ended, on the alias table as it is then).
An import leads to the file the loader found unless one of four things is in
the way, each a conjunct of the property. A *proper* prefix of the path is an alias
(`GoesThroughAlias`): the loader does not follow aliases and records
`right::base::sub` where the resolver asks for `left::base::sub`, which the run
`loader_nested_alias` shows. Two files are called the same (`CalledFiles`,
section 6). Only a prefix of the path is a file (`IsWhole`), as when
`import a::b::x` finds `a.mtl` alone. Or one of the two takes the last name for a
module and the other for an item (`is_handle`, `IsModuleFile`).

`LoadOrder` knows a graph of dependencies only. Its `Next` may emit a file that
is not emitted yet and whose dependencies all are, ends when the root is
emitted, or may fail for a reason that the graph has (a cycle among files not
emitted, a dangling import, an unreadable file, `super` in the root). It does
not say that only files the root needs are emitted. `Order == INSTANCE LoadOrder WITH ...` at the end
of `ModuleLoader` gives the refinement mapping.

### Linking

One state machine, pass after pass; `phase` and `pos` say which pass is at
which module. A scheme and a runtime value are abstracted to their *origin*,
the declaration they were made from; agreement of checker and evaluator is then
equality of origins. A module is a record of its path, its import and export
leaves (groups flattened), what it declares (`funs`, `types`, `lets`,
`methods`, `nested` functions, unannotated `bare` and `generic` ones), what is
`pub`, and the names its functions mention up to the generic functions (`early`)
and after them (`uses`).

The checker has two tables of schemes. `scheme_env` is what construction works
with. `poly_env` is what inference finds under a name first, at all levels;
its parameter `declared` says which generic functions inference has come past,
since those are not hoisted: until then an import or a builtin of
the name is what a call finds, and then the function's type is unified with it
(`GenericClash` when they do not fit; which of the two happens depends on types
and is left open). `OwnDeclarationsWin` and `BothPassesAgree` are about both
tables and every choice of `declared`.

| Action | Code |
|---|---|
| `CollectSurface` | `resolve`: the public declarations of a module, in load order |
| `ReExport`, `ReExportHidden` | `resolve`: its re-exports, in load order again; one whose name the source does not show is an error |
| `ResolveScope`, `ImportConflict` | `resolve`: the scope of a module, with tiers of globs and explicit imports |
| `CheckModule` | one iteration of `check_graph`: import schemes, own and core schemes, exports, imported names |
| `MissingAnnotation`, `GlobConflict`, `ImportRejected`, `UndefinedName`, `GenericClash` | the errors of that iteration, in its order |
| `EvalModule` | one iteration of `evaluate_graph` with `run_passes` |
| `RunMain` | `run_main` |

Where the code iterates a `HashMap` and the order matters (registration of
aliases, which failing import is reported), the action chooses. `f ?? g` is what
inserting the entries of `g` into the map `f` leaves.

### ValueStore

`scopes` is a stack of maps from names to cells, `cell` maps cells to values,
`buffer` maps buffers to their elements. The values are those of
`struct Node { kids: Node[] }`, the smallest type in which arrays nest: a
`Node` is the buffer of its kids, and what a program can tell of it is the
shape of a tree. Recursion of `eval_expr` is explicit: `temps` are the operands
evaluated so far, `frames` the enclosing blocks, loops, match arms and calls.
A program is any sequence of steps that the bounds admit: literals, reads,
field and index reads, `let`, assignment to a variable, a field, an element,
`array_push`, blocks, `for`-`in`, match arms, declaring and calling a function.
A clone of a cyclic value ends in the outcome "overflow".

`Spec` lets the program store anything it read. `FreshSpec` restricts the three
stores that do not clone (field, element, push) to values no variable holds.
ADR-0007's guarantee holds for exactly these programs: `NoAliasing` and
`ImplementsValueSemantics` pass under `FreshSpec`, and `NoAliasing` is violated
under `Spec`.

### LexicalScopes

Inside one module three passes resolve names, each with scopes of its own. A
program is the list of its declarations, blocks and calls in textual order; the
state is a walk over that list, three times. `infer` keeps `mono_env` and
`poly_env` of `InferContext` and hoists functions; `construct` keeps the `env`
of `ConstructCtx` and the flat table `scheme_env` that inference leaves;
`evaluate` keeps scopes of cells, closures with the scopes they captured, and
the callers. Each pass records, per call, the declaration it finds. `Meaning`
is the rule of the language, stated without any of the three tables.

| Action | Code |
|---|---|
| `InferEnter`, `InferCall`, `InferLeave` | `infer_block` with `hoist_fun_decls`, names in `infer_expr`, the end of `infer_fun_decl` and of `Decl::Let` |
| `InferDone` | `check_impl` hands `scheme_env` to `ConstructCtx::new` |
| `ConstructGeneric`, `ConstructEnter`, `ConstructCall`, `ConstructLeave` | `construct_decl`, `construct_fun_decl`, closures, `construct_call` |
| `RunMain` | `run_passes`, `run_main` |
| `EvalBlock`, `EvalFun`, `EvalLet`, `EvalCall`, `EvalCallFails`, `LeaveBlock`, `Return`, `MainReturns` | `eval_block`, `eval_decl`, `call_function` |

All functions are from Int to Int, so that a wrong declaration is never caught
as a type error and what remains is which one was found. `CheckedIsLexical` and
`DynamicIsLexical` say exactly where inference and evaluation leave the rule;
`DistinctNamesAgree` says that a program whose names differ is run as it was
checked. Every function is bound under its name in `poly_env`, which is
searched first at all levels, so that a `let` never shadows an outer function
for inference; functions are hoisted by inference and not by the evaluator.
Section 6 has both.

### ControlFlow

`eval_expr` and its relatives call each other along the syntax tree and return
a `Signal`: a value, or a return, break or continue on its way. `frames` is that
recursion, one frame for each construct in progress with the position in it
that is being evaluated; `signal` is what the innermost position just got
("eval": it is being evaluated). `depth` counts the scopes pushed on the
environment of the running function, `call_stack` and `error_stack` are
`CALL_STACK` and the stack of a panic. Values are left out, so that every
program is a path of the machine, and one bound, `MaxFrames`, makes it finite:
loops may run forever.

The tables `typed_*` and `untyped_*` say, for the two copies of the evaluator,
what a position does with a jump: pass it on, handle it (a loop body), drop it
(init and step expressions of a `for`), or unwrap it with `into_value`, which
panics. The actions are the constructs: what each enters, in which order, and
how many scopes it pushes and pops. `call_function` and
`call_function_mut_self` turn a return into a value, attach the call stack to an
error and pop their frame. `PropagateError` is the `match` that `e?` is rewritten
to. The history variable `jump` remembers where a jump belongs to and whether
its way is clear of positions that need a value, `NeedsValue`, which is stated
apart from the tables; the properties compare it with where the jump ends.

### Matching

One match expression on its way through the passes; `phase` and `pos` say which
pass is at which arm. Types are a constructor with arguments, values are
literals, tuples and variants with fields, and patterns those of the grammar:
only tuples hold patterns, and a field is bound by its own name. The operators
are the functions of the code, and keep its cases. Those that walk over a
pattern are recursive functions over the patterns there are, the domain of the constant
`Nesting`; the constant `Values` has the types and their values. The
assumptions tie both to the code: what a type holds is what its expressions
produce (`values`), and a tuple nests deeper than the patterns in it.

| Action | Code |
|---|---|
| `InferArm`, `InferFails` | `infer_pattern` for an arm, in `infer_match`; that its constraints have a solution is decided at once |
| `InferDone` | the body of a generic function or closure is kept as it is, `construct_fun_decl` |
| `ConstructArm` | `construct_pattern_bindings` for an arm, in `construct_match` |
| `ConstructDone`, `NonExhaustive` | `check_match_exhaustiveness` |
| `EvalScrutinee`, `SkipArm`, `GuardFails`, `TakeArm`, `NoArmMatches` | the loop over arms, alike in `eval_expr` and `eval_untyped_expr` |

`EvalScrutinee` takes any value that expressions of the type produce. These
include variants with a field left out, since `infer_enum_variant_literal` does
not ask for the missing ones; `Whole` tells them apart. A program may declare an
enum over `Perhaps` or `Result`, whose variants the check for exhaustiveness knows by
heart: `Unasked` and `Unknown` say that it has one more or one less, and
`NeverBuilt` that a field of some variant has a type without values. The
properties compare the code with `Denotes`, the set of values a pattern stands for.

### Inference and Unification

A type is a variable or a constructor with arguments. `Unification` has the
substitutions and the functions on types, case by case as in the code: `bind_var`
with its occurs check, `unify` in which `Never` goes with every type and binds
nothing, `solve_constraints` in order, `generalize`, `instantiate`. An operation
that may fail returns the set of its results, empty or with one.

`Inference` takes a program, a list of functions in textual order, through
`check_impl` and a run of `main`. Bodies are names, literals, calls, closures,
arrays, indexing, `+`, `&&`, `if` and `return`; annotations may be left out.

| Action | Code |
|---|---|
| `HoistFunDecls` | `hoist_fun_decls`: a fresh type for each function |
| `InferFunDecl`, `InferFails` | `infer_fun_decl`: constraints of the body, solving and generalising at its end; the first error |
| `FinalSchemes` | `check_impl`: the final substitution of the schemes of functions and closures |
| `ConstructFunDecl`, `KeepGenericFun`, `ConstructFails` | `construct_fun_decl`: types again from the schemes, or a generic body kept as it is |
| `RunMain` | `run_main`; calls, operators and indexing of the evaluator, with a fault where it has no case |

Each `infer_*` and `construct_*` operator is the function of that name. `ctx`
holds what `InferContext` accumulates; its field `leaks` is a history variable
for the property about generalisation. `RejectedHaveNoTypes` compares inference
with `GroundTypes`, the types an expression can have when every name has one
simple type, found by search and not by unification. `CheckedProgramsRun` says
that what both passes accept meets no missing case in the evaluator and gives a
value of its type, and names the two ways in which the code falls short: `+` in a generic
body, and *loose* types. These are a variable generalised although a parameter
stands for it (`env_free_vars` is not put through the substitution), and an `if`
whose first branch returns, so that the whole has the type `Never` and the value
of the other branch is not looked at.

### Operators

One operation -- an operator, an assigning operator, a cast or an index -- with
the types of its operands, in a checked or a generic body, with the interpreter
built with overflow checks or without. `Infer`, `Construct` and `Eval` are the
three passes. Integers have `Width` bits; the operators compute with all
of them. A float is known to be one and no more.
`OperatorsKeepTheirPromises` lists in `Unsupported` and `Unconverted` exactly
what the checker lets through and the evaluator has no case for or answers with another type:
arithmetic on non-numbers in generic bodies, `<` on strings (which construction
admits), `==` on arrays, structs and enums, assigning operators on non-numbers, casts to
numbers of what has no `From` entry, casts of enums.

### PathNormalizer

`Link` takes a step of `Linking`; when the imports of a module have been checked
and its body comes up, `Choose` picks an expression and the local variables
around it, and `Desugar`, `Normalize` and `Infer` are the rewriting of `?`, the
rewriting of paths, and the lookup of what is left, in the environment
of inference and in the flat tables of the registry. That environment
(`names_in_scope`) is searched as `InferContext::lookup` does: functions, builtins and
imports (`poly_env`) before the variables around the name, and the lets of
the module last; `Choose` also picks which generic functions are declared by then. The
order of a `HashMap` of imports is chosen in `Normalize`. The
code normalizes all modules before it checks one; as the rewriting of a module reads
only its own scope, the model does it when the module is checked.

An expression is the sequence of its nodes, each after its parts. Blocks, calls,
conditions, loops and operators are one kind of node (`Op`): the passes visit their parts in
order and do nothing else that names depend on. `walked` is what the two rewriting walks go into, which is all
parts but the target of an assignment, and `visited` what they reach from the root.
The result of `Infer` is how inference ends, the node it ends at if that is an error, and
for the nodes before it the declaration each name was taken for; the
properties compare these with the item a path names in the module graph. What they
leave out is what the code does otherwise: a `?` in a module that imports a
module called `Result` with `*` loses the `Result` of its match; a
literal `h::E::V` in a module that does not import `h` with `*` keeps three segments
and is looked up as a struct `V`; a local variable, a function, a builtin or an import called like
the last segment of a path takes its place (with a let `y` and `import h::y`, `self::y` is `h::y`).

## 3. The runs

Each passing run finishes within three minutes with two workers.

| Run | Instance | States | Shows |
|---|---|---|---|
| `loader` | trees of four files, a symbolic link, diamonds of five files, an absent root; each file has imports from a menu of its own, up to three | 56,020 | order, uniqueness, imports that the resolver takes to the file the loader found, cycles, termination, refinement of `LoadOrder` |
| `linking` | 8,120 programs of two or three modules, names `x`, `y`, `T`, `print`, `h`, with generic functions before and after their declaration | 75,053 | own declarations win in both passes of the checker, in exports and environments; the two passes find the same schemes; imports are public where they are declared, environments are isolated, functions imported from their module by name or glob are bound, a call runs what it was checked against but for builtins and names that are mixed |
| `store` | `Spec`: 3 buffers, 2 cells, 2 operands, 1 frame | 241,369 | a binding starts with buffers of its own; aliases enter by the three stores only |
| `store_fresh` | `FreshSpec`: 5 buffers, 3 cells, 1 frame | 395,322 | no aliasing; a binding copies a value down to its leaves; refinement of `ValueSemantics` |
| `lexical` | 7,556 programs of up to four nodes in `main`, with and without a global function, one name or two | 151,907 | inference and evaluation follow the lexical rule but for the exceptions stated, construction finds what inference found, and the three agree when names are distinct |
| `control` | all nestings of up to five constructs, typed and untyped | 1,533,294 | a jump with a clear way ends in its own construct, scopes and call stack are balanced on every way out, an error names the calls it was raised in, only blocked jumps fail |
| `matches` | all matches of up to three arms, guarded or not, on seven types made of eight, from five patterns or fewer each; in a generic body and outside; enums with a variant never built and an enum `Result` of the program's own | 172,674 | an accepted match has an arm for every whole value, a rejected one misses a value, the arm taken is the first that stands for the value, with the variables and types it was checked with |
| `inference` | 4,952 programs of a function `f`, perhaps `g`, and `main`, in several orders, `main`'s calls also in a generic function | 29,317 | what is accepted runs, what is rejected has no simple types, the substitution solves the constraints, construction agrees with inference |
| `operators` | every operation on every pair of eight types and all integers of four bits | 31,852 | internal errors and values of another type come up exactly where named; integers are exact, or the documented panic or wrap |
| `paths` | an expression in any function of 394 programs of two or three modules, below each other or next to each other, with lets and generic functions beside imports of their name | 574,211 | what `?`, qualified paths and qualified literals mean once they are bare names |

The runs `captured_variable` and `loader_nested_alias` each check one sentence
of the source or its documents and end in a counterexample; see section 6.

**Bounds and why they are enough.** Most properties of `ModuleLoader`, `Linking`,
`ValueStore`, `ControlFlow`, `Operators`, `Matching` and `PathNormalizer` are also proved without any bound
(section 4), and their runs show that the properties are met by states that
matter and can fail. *Loader:* a diamond needs four files, a
cycle through a visited file three, a name conflict between paths a directory
with one file in it; all are there. Every file declares a list of imports from a
menu of its own (`MCModuleLoader`), not every possible list: what the menus have is
each root, each kind of end (item, module, glob) and each condition a child can be in. A longer list of
imports repeats the loop body on a file in one of the same conditions (absent,
on the stack, visited, new), and there are several files in each. *Linking:* the passes treat one module at a time and look
at another one only through one import, so that helper, facade and importer
are the longest chain in which a table could be wrong in a new way: declared,
re-exported under another name, imported under a third. The three names tell apart a wanted
declaration, a competing one and a type. *Store:* sharing is a relation
of two variables and one buffer; two cells are enough to create it and a third
holds the parameter or loop variable; five buffers are a
tree and its clone while a third value is in use. Arrays have one element, so that
a tree is a chain; that a clone copies a value held twice twice (`CopyOf`) is left to
the theorems, which have no such bound (`BindingsAreCopies`). `NumBuffers`, `NumCells`,
`MaxLen`, `MaxTemps` and `MaxFrames` are bounds of the model, tested in the
guards, and unreachable cells and buffers are dropped (`Commit`), as reference
counting does. Addresses mean nothing to a program, so the configurations use
`VIEW CanonicalView`, which renumbers cells and buffers in the order in which
they are met. *Scopes:* to be resolved wrongly, a name needs two declarations, a
block between them and a call; four nodes in `main` and a global function hold
all of that in every arrangement. `MaxDepth` bounds the calls in progress, so
that recursion ends in the outcome "too deep"; two calls are a caller and a
callee with scopes of their own. *Control flow:* what a frame does with a signal
depends on nothing but its own position and the copy of the evaluator, so that
a jump needs its construct, a frame it passes and the place it is raised at;
with five frames there are a program, a caller with a loop, a callee and two
constructs in it, in every combination. *Matching:* the longest list of variants has
three, so three arms are enough to cover a type, to leave one variant out and
to put a guard or a catch-all at every place. `Integers` has more numbers than a
match has arms, as 64 bits do. *Inference:* a type goes wrong when two
uses meet in one variable; the bodies of `MCInference` use a parameter, a closure
and a function once and twice, at one type and at two, before and after the
function is known, with and without a branch that returns. Four bodies of closures over
a parameter not yet known are what generalisation is about. *Operators:* `Width`
is 4; signed arithmetic has its edges (the smallest number, -1, 0, the largest) at any
width above 1, and a debug and a release build are both taken. *Paths:* a
path names a module, an item and, for variants and methods, a type; the helper is
imported from by name, under another name and with `*`, and the third module lies
beside or below it, so that first segments collide.

**Fairness.** `ModuleLoader` assumes `WF_vars(Next)`: the loader is one
sequential function that does not wait for anything, so it takes a step as long
as it has one. Only `Terminates` uses it. The other modules state no
liveness: passes are loops over lists, and a program may run forever.
`CHECK_DEADLOCK FALSE` is set because the interpreter ends; `ControlFlow` has the
step `Ended` instead, so that its run also shows that no jump is left without
a construct that does something with it.

## 4. What is proved

TLAPS checks every theorem below, to the last leaf and for every value of the
constants that the named assumptions of the modules admit. TLC evaluates those
assumptions on the instances of section 3, so they are met.

| Module | For every | Assumption |
|---|---|---|
| `ModuleLoaderProofs` | set of names, root argument and set of disks | path names are sequences of names; every entry leads to a file with a finite list of imports (`DisksAssumption`) |
| `LinkingProofs` | set of module graphs, of any number of modules; set of expressions, of any number of nodes; variants of enums; local variables | a list of modules with distinct paths, none of them `std::core`; in each only functions and types are public, and a name is of one kind (`ProgramsAssumption`); names contain the builtins (`NamesAssumption`); an expression is a tree, its root last (`ExpressionsAssumption`) |
| `ValueStoreProofs` | set of names, number of cells, buffers, operands, frames, length of arrays | the bounds are numbers (`BoundsAssumption`) |
| `LexicalScopesProofs` | set of programs, of any number of nodes and names; depth of calls | nodes nest; there is one `main`; outermost declarations are functions; a name a block declares as a function is declared once in it (`ProgramsAssumption`, `DepthAssumption`) |
| `ControlFlowProofs` | depth of nesting | `MaxFrames` is a positive number |
| `OperatorsProofs` | width of integers above one bit, set of `From` implementations | `WidthAssumption` |
| `MatchingProofs` | set of enums, types and patterns, number of arms | `Perhaps` and `Result` are declared, by std::core or over it; each type has the values its expressions produce; what a tuple pattern holds nests less deep; there are more integers than arms (`EnumsAssumption`, `TypesAssumption`, `PatternsAssumption`, `MenusAssumption`, `ArmsAssumption`, `IntegersAssumption`) |

Where a theorem states a property of a run it stands beside it.

| Theorem | Property of a run | Says |
|---|---|---|
| **`ModuleLoaderProofs`** | | |
| `TypeCorrect`, `SearchInvariant` | `TypeOK` | the inductive invariants |
| `DependenciesFirst` | `TopologicalOrder` | modules come out after everything they import |
| `NoFileTwice` | `LoadedOnce` | no file is loaded twice or while it is being loaded |
| `ReportedCyclesExist` | `CycleIsReal` | a program is rejected for a cycle only if it has one |
| `ImportsReach` | `ImportsReachTheirFiles` | the path the resolver computes for an import is that of the module made of the file the loader found, but for the four cases the property names |
| `Implements` | `ImplementsLoadOrder` | the loader refines `LoadOrder` |
| **`LinkingProofs`** | | |
| `TypeCorrect`, `LinkInvariant` | | the inductive invariants |
| `LocalsWin` | `OwnDeclarationsWin` | own declarations win in inference once they are hoisted or declared, in construction, exports and environments |
| `PassesShareSchemes` | `BothPassesAgree` | what inference finds among functions, builtins and imports is what construction finds |
| `OnlyPublicNames` | `ImportsArePublic` | what is imported is public where it is, through any chain of facades |
| `NothingLeaks` | `EnvironmentsIsolated` | an environment holds only what the imports of its module bring in |
| `ImportsHaveValues` | `DirectImportsBound` | what is imported from the declaring module has a value when functions capture the environment |
| `CallsAreChecked` | `CallsReachCheckedFunctions` | the function a name stands for when it is called is the one whose scheme the checker used for the name |
| `TriesAreReplaced` | `TriesPropagate` | a `?` builds the `Err` of `std::core`, however deep it is nested, unless it is in the target of an assignment or an enum or module is called `Result` |
| `PathsLeadToItems` | `QualifiedPathsMeanTheirItems` | a path through a module means the item it names, in whatever order imports are met, unless something else goes by its last name |
| `LiteralsLeadToTypes` | `QualifiedLiteralsBuildTheirTypes` | a literal under the path of a module builds the type of that module |
| **`ValueStoreProofs`** | | |
| `StoreIsWellFormed` | `TypeOK` | nothing in use points to what was dropped |
| `BindingsAreOwn` | `NewBindingsAreOwn` | after a binding nothing but the variable leads to the buffers of its value |
| `BindingsAreCopies` | `BindingsCopyTheValue` | a binding copies down to the last leaf and changes no other variable |
| `OnlyStoresAlias` | `AliasesEnterByStores` | two variables come to share only by a store of what a variable leads to |
| `FreshProgramsHaveNoAliases` | `NoAliasing` of `FreshSpec` | programs that store fresh values only have no aliases |
| `FreshProgramsHaveValues` | `ImplementsValueSemantics` of `FreshSpec` | and refine `ValueSemantics` |
| **`LexicalScopesProofs`** | | |
| `RunningInvariant`, `TypeCorrect` | | the inductive invariants; `TypeOK` |
| `InferenceIsLexical` | `CheckedIsLexical` | inference finds what a name means where it is written, but for the two cases the property names |
| `ConstructionSucceeds` | `ConstructionFollows` | construction finds something wherever inference did |
| `EvaluationIsLexical` | `DynamicIsLexical` | a call runs the declaration it means, whoever called the body it stands in, unless that is a nested function further down |
| `PassesAgreeOnDistinctNames` | `DistinctNamesAgree` | the three passes agree when no name is declared twice |
| **`ControlFlowProofs`** | | |
| `Invariance` | | the inductive invariant |
| `ScopesAreBalanced` | `ScopesBalanced` | scopes are balanced on every way out |
| `StackIsTheCalls` | `StackMatchesCalls` | `CALL_STACK` lists the calls in progress |
| `TraceIsWhereItFailed` | `ErrorNamesItsCalls` | the trace of an error is that of the place it was raised at |
| `ClearJumpsSucceed` | `OnlyBlockedJumpsFail` | only a jump that meets a position needing a value, or belongs to nothing, breaks a program |
| `ClearJumpsLand` | `JumpsLand` | any other ends its own construct |
| **`OperatorsProofs`** | | |
| `OperatorInvariant` | | the inductive invariant |
| `ArithmeticIsExact` | `IntegersAreExact` | the exact result, one wrap, or a panic |
| `PromisesAreKept` | `OperatorsKeepTheirPromises` | internal errors and wrong types exactly where named |
| **`MatchingProofs`** | | |
| `Invariance` | | the inductive invariant |
| `ChecksAreEnough` | `AcceptedMatchesSucceed` | an accepted match has an arm for every whole value, but for the enums named |
| `ChecksAreNeeded` | `RejectedMatchesMiss` | a rejected match misses a whole value, but for tuples and the enums named |
| `TheRightArmIsTaken` | `TakenArmIsRight` | the first arm that stands for the value, with the variables it was checked with |

*Loader.* `TopologicalOrder` alone is not inductive: when a module is
finished nothing in it says that its imports were loaded. `SearchInv` adds what
depth-first search maintains: the files on the stack are distinct and not
loaded; `visited` is exactly the set of loaded files; each frame but the last
is waiting for the next one, which is the import just before its position;
every import before a frame's position, except the one in progress, is loaded.
`Finish` then has all imports of its file loaded, which is the order, and the
rest of the invariant for the frame below. `LoadedOnce` follows from
distinctness. For `CycleIsReal` consecutive frames import each other, so
the segment from the repeated file to the top is a cycle. `ImportsReachTheirFiles`
needs `PathInv`: every import that was passed leads to a file whose path is recorded or to a frame, and
an alias leads to the path of a file that some import passed calls by that
alias (`AliasesLead`, `NamedFrom`). The rest is about paths. When the loader found a file for the
whole path, it and the resolver build the same path before aliases
are looked at (`ChildPathIs`, `TreePathIs`), and only the whole of it can be an alias
(`TreeWithoutAliases`, `CanonicalPath`); as one file only is called so, an alias
leads to the path of that file (`AliasOfFile`), and without one the path is the
file's own. The refinement needs `FrameInv`: the outermost
call is that for the root, and the files in progress can be read and the imports
they have passed all exist, so that loading ends when the root is emitted and each
error is one that the graph has. Each step of the loader is a
step of `LoadOrder` (`Finish` emits, the errors fail) or stutters.

*Linking.* The properties speak of several tables, and each is filled from
others by a pass that treats one module at a time. `LinkInv` says, pass by pass,
which modules have been treated (`Passes`), and what every table holds of these:
a surface is the public declarations and re-exports (`Surfaces`), a scope has the
names of the imports (`Scopes`), an export is *sourced*, that is, its origin
exports it under its own name (`Exports`), a module's own schemes are its own and
an imported one is sourced in an earlier module, with the record the evaluator
will look it up by (`CheckedTables`), and an environment has each of these
(`Environments`). That exports are sourced is what makes chains of facades work:
the evaluator looks where the checker found the scheme, and that module stands before
the importer, since only checked modules have exports; nothing is assumed of the order of modules. `DirectImportsBound` leaves out what the code does not bind: re-exports under
a name of their own, renamed builtins, and what a module that imports itself by
a glob gets by another one (section 6).

`BothPassesAgree` and `CallsReachCheckedFunctions` need a second invariant, `CallsInv`. It says how the scheme of a
name and the record the evaluator looks it up by were chosen together (`SchemeTables`), and
that an environment is what its functions captured, the lets, and the aliases that fell back
(`Layers`). What a module captures under an imported name is then a value of an earlier
module under a name that module exports, and has the exported scheme since the
property holds of that module. The chain breaks where two tables choose differently, and
`UnmixedNames` names the three places: a nested function called like an import, an explicit
import without a scheme beside a glob's function of that name, and an exported name of a
builtin. The run has programs of each (`MixedHelpers` and the like in `MCLinking`), without any of
the conditions the property fails in it, and section 6 shows what these programs do. Where an
alias fell back (`NoAliasFellBack`), the order of a hash map decides its value.

*Paths.* `NormalizerInv` adds to `LinkInv` which passes have rewritten the expression
(`PassInv`): at the end, `expr` is what both make of the source under some order of the imports, and
`result` is what inference makes of that. The rest is about the walks. Desugaring and
normalization visit exactly the nodes that are in no target of an assignment
(`UnvisitedAreInTargets`), and a node is rewritten by itself and keeps its parts, so the
rewritten expression is the source with each visited node replaced (`NormalizedIs`).
Inference looks at every node before the first error and attributes what it finds to the
node it found it at (`Judges`); each property is then about one node and the name or path it comes down to
(`TryVerdict`, `PathVerdict`, `LiteralVerdict`). For these the proof needs of the linked program only that
the checked modules so far are among the modules of the graph and that `std::core` is not, so
that a declared type never passes for one of `std::core`. TLC checked `PassInv` on the
instance of the run before it was proved.

*Store.* `TypeOK` is inductive: it says that every name leads to a cell in use and every
cell, operand, loop item and element to a buffer in use, that each statement
still to be gone back to has room for its value, and which part of a frame holds
what. The lemmas it rests on say that `ReachableIn`, defined as as many
steps as there are buffers, is the least closed set over its roots, and that a
clone finds as many free buffers as it needs, leads to none of the old ones,
and looks the same. From them `BindingsCopyTheValue`, `NewBindingsAreOwn` and
`AliasesEnterByStores` follow of any single step from a state of `TypeOK`. `NoAliasing`
is inductive for `FreshSpec` together with `TypeOK`, since what is stored is led to by no
variable; the refinement needs in addition that no cell is kept that no name leads to (`Needed`),
so that a step drops exactly the variables that end.

*Names.* Each pass keeps a stack of scopes, and the properties speak of
positions in the text. The invariants of the three passes (`InferInv`,
`ConstructInv`, `EvalInv`) connect the two in the same way. The open nodes and the
next one are a `Walk` of the tree. The scopes are those of the open nodes: each node has a
level, in their order (`Levels`), and the scope of a node holds, under each
name, the latest of the declarations directly in it that the pass has bound (`Filled`;
`Layered` is both). What differs is the set that is bound: for inference `PolyBound` and `MonoBound`,
the functions hoisted and the nodes left; for construction `ClosuresLeft`; for
evaluation `EvalBound`, the functions of the module and what the body has
passed. A closure has captured what was bound where it stands (`Captures`), and the body
that runs, like each that waits for it, is in the scopes of its own place in
the text (`Frame`). That is why the caller does not matter, though cells are shared and a
captured scope never changes. A lookup finds the latest declaration of the innermost
node that binds the name, the rule finds the latest of the innermost that shows it (`MeaningIs`),
and the two differ by what a pass has not bound yet, which is what the exceptions of the properties
name. That `EvalInv` holds was checked by TLC on the programs of the run first.

*Control flow.* Thirty actions change a stack of frames in few ways: they stay
in the innermost construct, begin one in it, move it to its next position, leave it, or
begin or end a call. `StepKinds` proves that of each action, with what it may do to signal and
scopes, and the invariant is proved of the kinds. `IInv` adds to the properties
where frames may stand in each other (`Placed`), that no more scopes are popped than were pushed on
the way of an error (`ScopesThere`), and that a jump in flight with a clear way
still has, above its construct, only frames that pass it on (`Homed`, `ClearWay`):
without the last, nothing says at a function's end that its return is its own.

*Operators.* The invariant relates the phase to what earlier passes found: what is
evaluated was admitted by inference and, outside generic bodies, by construction, and its
operands have the types of the operation. Each kind of operation then keeps its
promise by a lemma of its own. Exactness rests on arithmetic: a product or sum of two
numbers in range lies within one wrap or is further away (`WrapsOnce`), truncated
division is exact (`DivisionIsExact`), and powers of two double, which is
proved by counting subsets.

*Matching.* Four functions of the code walk over a pattern, each with something else beside
it: its type (`infer_pattern`), its type for the variables
(`construct_pattern_bindings`), nothing (`is_catch_all_pattern`), a value
(`match_pattern`). The lemmas say what they have to do with each other for every pattern that
inference admits, by induction on how deep it nests: `match_pattern`
succeeds on exactly the values `Denotes` has (`MatchesAreDenoted`), always if the
pattern is a catch-all (`CatchAllMatches`), and binds then the variables
construction bound, to values of their types, also when a name occurs twice (`WalksAgree`).
From these follow what `check_match_exhaustiveness` promises of a list of arms
(`CheckedCovers`) and what it means that it fails (`UncheckedMisses`; a match on
integers leaves one out, as it has fewer arms). The
invariant carries both to the end of a run: the arms a pass is past were inferred, bound
or tried without success, and only checked arms are evaluated outside of
generic bodies. The conditions `Unasked`, `Unknown` and `NeverBuilt` are those without which the
proof does not go through; the run has a match of an enum with one variant more than is asked for, and
one of an enum with a variant never built, in which a property fails without them.

**Recursion over data.** Induction with an operator as a parameter is out of the
provers' reach, and a recursive function is for them a `CHOOSE` of which nothing
is known. `NatSetInduction` and `NestingInduction` state induction for a set instead.
`Steps` and `Iteration` give what a recursive function over the numbers `0..n` does; the
proofs about reachability and clones use these. `RankedRecursion` shows that a function exists
which takes at each argument the value its body has there, when the body looks only at
arguments of a lower rank; for every walk over patterns
(`match_patternIs`) and over expressions (`VisitedIs`, `InTargetIs`, `InferIs`) a lemma applies it.

**Only model-checked.**

* `Terminates`: liveness.
* `Inference` with `Unification`: walks over types and programs, which are
  `RECURSIVE` operators.

## 5. What is not modelled, and why

The parser, formatting of values and error wording are pure functions of text.
`Linking` and `LexicalScopes` abstract types to which declaration a scheme comes
from; types proper are in `Inference`, which leaves out loops, assignments,
methods, fields and annotated generics: their constraints are made by the same
`unify` from tables of the registry, and would take a model of declarations the
size of the others together. Names are distinct in a program of
`Inference`, since `LexicalScopes` has those that are not, and no function reaches
itself, so that each program has one result. Parameters, loop variables and
patterns bind names like a `let` at the start of a block and have no nodes of
their own in `LexicalScopes`. In `ValueStore`, structs with several fields, enums,
numbers, match guards, user-defined iterators and the untyped copy of the
evaluator for generic bodies are left out; they reach the store through the
same operations. `ControlFlow` has their jumps and scopes and leaves out
internal errors, which `Inference` and `Operators` have. `Matching` has no
bodies of arms and no scrutinee of type `Never`, which has no value, and takes
the type of the scrutinee as known; variants inside variants and fields whose type is built from
a parameter of the enum (`T[]`) are left out. `Operators` leaves out what a float
operation computes, which is Rust's. `PathNormalizer` has no patterns (their paths are not
rewritten) and no types in annotations. The other builtins than `array_push` and
the conversions of numbers are pure or print.

## 6. Where code and documents disagree

The runs that TLC ends with a counterexample:

| Run | Property | Where | What |
|---|---|---|---|
| `captured_variable` | `NothingBeingSolvedIsCaptured` | `src/typeinference/mod.rs:749` | a closure is generalised over a variable that stands for the type of a parameter around it, as the types in scope are not put through the substitution first |
| `loader_nested_alias` | `ImportPathsKnown` | `src/module_loader.rs:124` | in a diamond over `base.mtl`, whatever one side imports from below `base` is looked up in a module that was never loaded: the loader records `right::base::sub`, the resolver asks for `left::base::sub` |

The sentences they refute are quoted in `PROJECT.json`, at "findings". The
following properties were met on the way: each states a sentence of the
documents or the source at the place given, and TLC refutes it. They are not
among the runs of `PROJECT.json`, which are kept to a few. The configuration
`<module>_Documents.cfg` has them all, and

    tlc -continue -config MCLinking_Documents.cfg MCLinking

reports each of them. `MCValueStore` and `MCLexicalScopes` have a configuration
for each property (`MCValueStore_NoAliasing.cfg`).

| Module and property | Where | What the code does | The sentence |
|---|---|---|---|
| `MCModuleLoader`: `PathsIdentifyModules` | `src/module_loader.rs:111` | two different files can be loaded under one module path | `metel-interpreter/docs/decisions/adr-0031-diamond-dependency-path-aliases.md:36` |
| `MCModuleLoader`: `NoAliasChains` | `src/module_loader.rs:90` | an alias can lead to a path that is itself an alias | `metel-interpreter/docs/decisions/adr-0031-diamond-dependency-path-aliases.md:47` |
| `MCLinking`: `ReExportsAreBound` | `src/typechecker/mod.rs:229` | a re-exported function type-checks in the importer and has no value there | `docs/public/spec/modules.md:101` |
| `MCLinking`: `ExportsArePublic` | `src/typechecker/mod.rs:409` | re-exporting under the name of a private function exports the private function | `docs/public/spec/modules.md:147` |
| `MCLinking`: `ForeignTypesArePublic` | `src/typechecker/mod.rs:197` | the private types of every module checked before are known to the checker of a module | `docs/public/spec/modules.md:147` |
| `MCLinking`: `MethodsAreBound` | `src/evaluator/mod.rs:247` | a method of an imported type type-checks in the importer and has no value there | `docs/public/spec/modules.md:62` |
| `MCLinking`: `NestedFunctionsStayInside` | `src/typechecker/mod.rs:489` | the exported scheme of a public function is the one of a nested function of the same name | `docs/public/spec/modules.md:147` |
| `MCLinking`: `ConflictsAreReferenced` | `src/typechecker/mod.rs:275` | T0011 is reported for a name nobody mentions | `docs/public/spec/modules.md:143` |
| `MCLinking`: `ImportSourcesExist` | `src/typechecker/mod.rs:344` | an explicit import from a module that does not exist is accepted | `docs/decisions/adr-0024-t0009-detection-in-typechecker-not-name-resolver.md:35` |
| `MCLinking`: `HandlesAreImportable` | `src/typechecker/mod.rs:302` | importing a module handle is rejected as an undefined name | `docs/public/spec/modules.md:88` |
| `MCLinking`: `ShadowedCoreNamesAgree` | `src/typechecker/mod.rs:475` | an imported or local function called like a builtin is checked as the builtin and run as itself | `docs/public/spec/modules.md:124` |
| `MCLinking`: `ReExportsHaveSchemes` | `src/typechecker/mod.rs:420` | a re-export from a module that is loaded later exports nothing | `docs/public/spec/modules.md:110` |
| `MCLinking`: `OwnDeclarationsShadowImports` | `src/typechecker/inference.rs:29` | a call before the declaration of a generic function is checked against an import of the same name, and a top-level let never shadows an import | `metel-interpreter/src/typechecker/inference.rs:32` |
| `MCLinking`: `OwnNamesAreAccessible` | `src/evaluator/mod.rs:312` | a function does not see the top-level lets of its module | `docs/public/spec/modules.md:161` |
| `MCLinking`: `ExplicitImportsBeatGlobs` | `src/typechecker/mod.rs:304` | a user's function called like a builtin, imported under another name, gets the type of a glob's function of that name and runs as itself | `docs/public/spec/modules.md:141` |
| `MCLinking`: `RenamedImportsAreBound` | `src/evaluator/mod.rs:336` | a builtin imported under another name type-checks and has no value in the functions of the module | `docs/public/spec/modules.md:84` |
| `MCValueStore`: `NoAliasing` | `src/evaluator/mod.rs:1415` | two variables come to share a buffer | `metel-interpreter/docs/decisions/adr-0007-array-value-semantics-via-deep-clone.md:37` |
| `MCValueStore`: `ClonesAreProduced` | `src/evaluator/mod.rs:85` | a value that contains itself is built, and the next binding of it does not end | `metel-interpreter/docs/evaluator.md:47` |
| `MCLexicalScopes`: `HoistedFunctionsRun` | `src/evaluator/mod.rs:424` | a forward reference to a function of a nested block type-checks and is undefined when it runs | `docs/public/spec/declarations.md:32` |
| `MCLexicalScopes`: `InnerNamesShadow` | `src/typeinference/mod.rs:718` | a call in the scope of a `let` is checked against an outer function of the same name | `docs/public/spec/declarations.md:28` |
| `MCControlFlow`: `ArgumentsDoNotDiverge` | `src/evaluator/mod.rs:1487` | a return inside an argument or a field of a literal, as in `f(g()?)`, ends the interpreter with a Rust panic | `metel-interpreter/docs/evaluator.md:84` |
| `MCControlFlow`: `JumpsStayInTheirFunction` | `src/evaluator/call.rs:30` | a break outside any loop type-checks, and ends a loop of the function's caller | `metel-interpreter/docs/decisions/adr-0006-evaluator-runtime-design.md:84` |
| `MCControlFlow`: `ReturnsAreNotDropped` | `src/evaluator/mod.rs:520` | the return of `?` in the init or step expression of a `for` is dropped | `docs/public/spec/functions.md:70` |
| `MCMatching`: `MatchesSucceed` | `src/typechecker/construction.rs:241` | a match in a generic function is never checked for exhaustiveness, as in `fun f<T>(x: T, b: Bool) -> Int { match b { true => 1 } }`, and ends with R0006 | `metel-interpreter/docs/evaluator.md:165` |
| `MCMatching`: `CheckedMatchesSucceed` | `src/typechecker/inference.rs:853` | an enum literal may leave fields out, and a pattern that binds them does not match its value; an enum `Result` of the program's own is asked for `Ok` and `Err` only | `metel-interpreter/docs/evaluator.md:165` |
| `MCInference`: `TypecheckerCaughtIt` | `src/evaluator/lvalue.rs:167` | `+` on values that are no numbers passes in a generic body and is an internal error when it runs | `src/evaluator/lvalue.rs:167` |
| `MCOperators`: `ReleaseBuildsWrap` | `src/evaluator/lvalue.rs:107` | the smallest integer divided by -1 is a Rust panic in every build | `docs/internal/rfcs/rfc-0013-integer-overflow.md:16` |
| `MCOperators`: `CastsConvert` | `src/evaluator/mod.rs:1224` | a cast of an enum value gives the value back, whatever it is cast to | `docs/public/spec/types.md:178` |
| `MCPathNormalizer`: `NoTryIsLeft` | `src/path_normalizer.rs:413` | `a[f()?] = v` keeps its `?`, and inference ends in a Rust panic | `docs/public/changelog.md:16` |
| `MCPathNormalizer`: `QualifiedPathsAreValid` | `src/path_normalizer.rs:304` | a fully qualified path to a function that is not imported is undefined | `docs/public/changelog.md:84` |

## 7. Plan

Done: the modules of section 2 with their runs, and the proofs of section 4.

Every property of a passing run is a theorem, but `Terminates` and those of
`Inference`. Left:

1. `Inference`: as for `Matching` and `PathNormalizer`, its walks over types and programs would
   become recursive functions over sets fixed by constants. A theorem about `SolutionSolves` would
   need that unification ends, for which its substitutions have to be shown acyclic.
2. Properties of section 6 together with the condition under which they hold,
   in the way `CallsReachCheckedFunctions` names three places where the tables of the
   checker and the evaluator choose differently; `ReExportsAreBound` comes first.
