------------------------------ MODULE Linking ------------------------------
(***************************************************************************)
(* From a loaded module graph to a running program: name_resolver::resolve *)
(* fixes what every module exports and imports, typechecker::check_graph   *)
(* gives every module the type schemes its imports lead to, and            *)
(* evaluator::evaluate_graph gives it the values.  The three keep tables   *)
(* of their own, and a program works when the tables agree.                *)
(*                                                                         *)
(* A type scheme and a runtime value are abstracted to their origin: the   *)
(* declaration they were made from.  An import or export tree is the       *)
(* sequence of its leaves.  The program is chosen by the initial state.    *)
(***************************************************************************)
EXTENDS ModulePaths, FiniteSets

CONSTANTS
  Names,     \* identifiers; "*" is the glob leaf and not one of them
  CoreFuns,  \* the functions of std::core (StdPrelude)
  Programs   \* the programs to link

Glob == "*"
Core == <<"std", "core">>
CoreTypes == {"Perhaps", "Result", "Display", "Iterable", "From"}

\* An import or export leaf `root::segs::name as as`.
Leaf == [root : PathRoots, segs : Seq(Names), name : Names \cup {Glob}, as : Names \cup {Glob}]

\* What a module declares.  `generic` functions have type parameters, `bare`
\* ones lack an annotation, `nested` ones are declared in the body of a later
\* function, and `methods` are the `Type::method` keys of its impl blocks.
\* `early` are the names its bodies mention up to the generic functions,
\* theirs included, `uses` those mentioned after them.  Its lets stand before
\* its functions, and their types have no variables.
Module ==
  [path : Seq(Names), imports : Seq(Leaf), exports : Seq(Leaf), pub : SUBSET Names,
   funs : SUBSET Names, types : SUBSET Names, lets : SUBSET Names, methods : SUBSET Names,
   generic : SUBSET Names, bare : SUBSET Names, nested : SUBSET Names,
   early : SUBSET Names, uses : SUBSET Names]

IsProgram(p) ==
  /\ p.modules \in Seq(Module) /\ p.modules # <<>>
  /\ DOMAIN p.path_aliases \subseteq Seq(Names)
  /\ \A a \in DOMAIN p.path_aliases : p.path_aliases[a] \in Seq(Names)
  /\ \A i, j \in 1..Len(p.modules) : p.modules[i].path = p.modules[j].path => i = j
  /\ \A i \in 1..Len(p.modules) :
       LET m == p.modules[i] IN
       /\ m.path # Core
       /\ m.pub \subseteq m.funs \cup m.types /\ m.generic \subseteq m.funs
       /\ m.funs \cap m.lets = {} /\ m.types \cap (m.funs \cup m.lets) = {}
       /\ \A e \in Range(m.imports) \cup Range(m.exports) :
            (e.root = "Name" => e.segs # <<>>) /\ (e.name = Glob <=> e.as = Glob)

ASSUME NamesAssumption == CoreFuns \cup CoreTypes \subseteq Names /\ Glob \notin Names
ASSUME ProgramsAssumption == \A p \in Programs : IsProgram(p)

VARIABLES
  program,      \* the module graph, dependencies first, and its path aliases
  phase,        \* the pass that is running
  pos,          \* the module it is at
  pub_surface,  \* ResolvedNames::pub_surface
  scopes,       \* ResolvedNames::scopes
  exports,      \* GlobalExports: the schemes every checked module exports
  type_context, \* the types and methods of the modules checked so far
  checked,      \* per checked module, its schemes and its TypedModule tables
  closures,     \* per evaluated module, the environment its functions captured
  envs,         \* per evaluated module, its final environment
  outcome       \* "running", "ok", or the code of the error

vars == <<program, phase, pos, pub_surface, scopes, exports, type_context,
          checked, closures, envs, outcome>>

resolver_vars == <<pub_surface, scopes>>
checker_vars == <<exports, type_context, checked>>
evaluator_vars == <<closures, envs>>

Modules == program.modules
Current == Modules[pos]
Paths == {Modules[i].path : i \in 1..Len(Modules)}
ModuleAt(path) == CHOOSE m \in Range(Modules) : m.path = path

\* The declaration `name` of module `path`.
Origin(path, name) == [module |-> path, name |-> name, nested |-> FALSE]
Nested(path, name) == [module |-> path, name |-> name, nested |-> TRUE]

\* HashMap::insert: the entries of f, and those of g for the other keys.
f ?? g == [k \in DOMAIN f \cup DOMAIN g |-> IF k \in DOMAIN f THEN f[k] ELSE g[k]]
Entry(key, value) == [k \in {key} |-> value]

core_bindings == [n \in CoreFuns |-> Origin(Core, n)]
------------------------------------------------------------------------------
(***************************************************************************)
(* What a leaf names.                                                      *)
(***************************************************************************)
base_of(leaf, current) == process_tree(leaf, current, program.path_aliases)

\* A leaf that names a loaded module is a handle, every other one an item.
binding_of(leaf, current) ==
  LET base == base_of(leaf, current)
      candidate == Append(base, leaf.name)
  IN  IF candidate \in Paths
      THEN [module |-> candidate, name |-> leaf.name, kind |-> "Module"]
      ELSE [module |-> base, name |-> leaf.name, kind |-> "Item"]

------------------------------------------------------------------------------
(***************************************************************************)
(* name_resolver::resolve.                                                 *)
(***************************************************************************)
surface_of(path) == IF path \in DOMAIN pub_surface THEN pub_surface[path] ELSE {}

\* The names the export leaf makes public, and what each stands for.
exported_names(leaf, current) ==
  IF leaf.name = Glob THEN surface_of(base_of(leaf, current)) ELSE {leaf.as}

export_binding(leaf, current, name) ==
  IF leaf.name = Glob
  THEN [module |-> base_of(leaf, current), name |-> name, kind |-> "Item"]
  ELSE binding_of(leaf, current)

\* Later leaves replace earlier ones.
collect_re_exports(m) ==
  LET names(i) == exported_names(m.exports[i], m.path)
      last(n) == Max({i \in 1..Len(m.exports) : n \in names(i)})
  IN  [n \in UNION {names(i) : i \in 1..Len(m.exports)} |->
         export_binding(m.exports[last(n)], m.path, n)]

\* An item that its (loaded) module does not make public cannot be re-exported.
re_exports_hidden_item(m) ==
  \E leaf \in Range(m.exports) :
    LET b == binding_of(leaf, m.path) IN
    /\ leaf.name # Glob
    /\ b.kind = "Item"
    /\ b.module \in DOMAIN pub_surface
    /\ leaf.name \notin pub_surface[b.module]

item_leaves(m) == {i \in 1..Len(m.imports) : m.imports[i].name # Glob}

import_conflict(m) ==
  \E i, j \in item_leaves(m) : i < j /\ m.imports[i].as = m.imports[j].as

resolve_module(m) ==
  LET leaf(local) == CHOOSE l \in {m.imports[i] : i \in item_leaves(m)} : l.as = local
  IN  [explicit   |-> [local \in {m.imports[i].as : i \in item_leaves(m)} |->
                         binding_of(leaf(local), m.path)],
       globs      |-> [i \in DOMAIN m.imports \ item_leaves(m) |-> base_of(m.imports[i], m.path)],
       re_exports |-> collect_re_exports(m)]

Fail(code) ==
  /\ outcome' = code
  /\ UNCHANGED <<program, phase, pos, resolver_vars, checker_vars, evaluator_vars>>

\* The loop of a pass goes on to the next module, or the next pass begins.
Advance(next_phase) ==
  /\ IF pos < Len(Modules) THEN pos' = pos + 1 /\ phase' = phase
                           ELSE pos' = 1 /\ phase' = next_phase
  /\ UNCHANGED <<program, outcome>>

Running(p) == outcome = "running" /\ phase = p

Init ==
  /\ program \in Programs
  /\ phase = "surface" /\ pos = 1
  /\ pub_surface = <<>> /\ scopes = <<>>
  /\ exports = Entry(Core, core_bindings)
  /\ type_context = {} /\ checked = <<>>
  /\ closures = <<>> /\ envs = <<>>
  /\ outcome = "running"

\* First pass: the public declarations of every module.
CollectSurface ==
  /\ Running("surface")
  /\ pub_surface' = [p \in Paths |-> ModuleAt(p).pub]
  /\ phase' = "reexport"
  /\ UNCHANGED <<program, pos, scopes, checker_vars, evaluator_vars, outcome>>

\* Second pass: the re-exported names join the surface, in load order.
ReExport ==
  /\ Running("reexport")
  /\ ~re_exports_hidden_item(Current)
  /\ pub_surface' = [pub_surface EXCEPT ![Current.path] =
                       @ \cup DOMAIN collect_re_exports(Current)]
  /\ Advance("scope")
  /\ UNCHANGED <<scopes, checker_vars, evaluator_vars>>

ReExportHidden ==
  /\ outcome = "running" /\ phase \in {"reexport", "scope"}
  /\ re_exports_hidden_item(Current)
  /\ Fail("T0009")

\* Third pass: the scope of every module; std::core joins the surface last.
ResolveScope ==
  /\ Running("scope")
  /\ ~re_exports_hidden_item(Current)
  /\ ~import_conflict(Current)
  /\ scopes' = Entry(Current.path, resolve_module(Current)) ?? scopes
  /\ pub_surface' = IF pos < Len(Modules) THEN pub_surface
                    ELSE Entry(Core, CoreTypes) ?? pub_surface
  /\ Advance("check")
  /\ UNCHANGED <<checker_vars, evaluator_vars>>

ImportConflict ==
  /\ Running("scope")
  /\ ~re_exports_hidden_item(Current)
  /\ import_conflict(Current)
  /\ Fail("T0011")

------------------------------------------------------------------------------
(***************************************************************************)
(* typechecker::check_graph.                                               *)
(***************************************************************************)
has_scheme(b) == b.module \in DOMAIN exports /\ b.name \in DOMAIN exports[b.module]

explicit(m) == scopes[m.path].explicit
globs(m) == scopes[m.path].globs

\* The `import path::*` leaves that give the name `n`, when `ex` is exported.
globs_giving(m, n, ex) ==
  {i \in DOMAIN globs(m) : globs(m)[i] \in DOMAIN ex /\ n \in DOMAIN ex[globs(m)[i]]}

glob_names(m, ex) ==
  UNION {DOMAIN ex[p] : p \in Range(globs(m)) \cap DOMAIN ex}

\* Two globs of the same tier export the same name; the one of tier Std,
\* for std::core, is alone in its tier.
glob_conflict(m) ==
  \E n \in glob_names(m, exports) : \E i, j \in globs_giving(m, n, exports) : i # j

\* Explicit imports come before globs, and globs before std::core.
build_import_schemes(m) ==
  LET with_scheme == {l \in DOMAIN explicit(m) : has_scheme(explicit(m)[l])}
      scheme(b) == exports[b.module][b.name]
  IN  [l \in with_scheme |-> scheme(explicit(m)[l])]
        ?? [n \in glob_names(m, exports) |->
              exports[globs(m)[Max(globs_giving(m, n, exports))]][n]]
        ?? exports[Core]

decl_exists(m, name) == name \in m.funs \cup m.types \cup m.lets

\* Fault: only what does not exist at all is rejected.
import_errors_only_missing(m) ==
  {"T0003" : b \in {b \in Range(explicit(m)) :
                       ~has_scheme(b) /\ b.module \in Paths /\ ~decl_exists(ModuleAt(b.module), b.name)}}

\* The codes of the explicit imports that lead to nothing: an item without
\* a scheme must be public (a type), or come from outside of the graph.
import_errors(m) ==
  {IF decl_exists(ModuleAt(b.module), b.name) THEN "T0009" ELSE "T0003" :
     b \in {b \in Range(explicit(m)) :
              /\ ~has_scheme(b)
              /\ b.name \notin surface_of(b.module)
              /\ b.module \in Paths}}

missing_annotation(m) == m.pub \cap m.bare # {}

\* Fault: the functions are hoisted before the imports are seeded.
poly_env_hoisted_first(m, declared, imports) ==
  core_bindings ?? imports ?? [n \in (m.funs \ m.generic) \cup declared |-> Origin(m.path, n)]

\* InferContext::poly_env when inference has come past the generic functions
\* `declared`: those and the hoisted ones, builtins, and what m imports.
poly_env(m, declared, imports) ==
  [n \in (m.funs \ m.generic) \cup declared |-> Origin(m.path, n)] ?? core_bindings ?? imports

\* What a name means to inference: poly_env is searched before the lets.
inference_env(m, declared, imports) ==
  poly_env(m, declared, imports) ?? [n \in m.lets |-> Origin(m.path, n)]

finds_names(m, names, declared) ==
  names \subseteq DOMAIN inference_env(m, declared, build_import_schemes(m))

local_schemes(m) ==
  [n \in m.funs \cup m.nested |->
     IF n \in m.nested THEN Nested(m.path, n) ELSE Origin(m.path, n)]

\* Fault: imports are inserted over the names defined locally (ADR-0022).
scheme_env_imports_first(m) ==
  core_bindings ?? build_import_schemes(m) ?? local_schemes(m)

\* The schemes construction works with: the builtins replace local
\* functions, and imports fill in what is left.
scheme_env(m) == core_bindings ?? local_schemes(m) ?? build_import_schemes(m)

\* What m exports: its own entries for the names of its surface, and for
\* the re-exported names without one the scheme of their source.
filter_pub_schemes(m) ==
  LET surface == surface_of(m.path)
      own == (DOMAIN scheme_env(m) \ CoreFuns) \cap surface
      re == scopes[m.path].re_exports
      pulled == {l \in (DOMAIN re \cap surface) \ own : has_scheme(re[l])}
  IN  [n \in own |-> scheme_env(m)[n]]
        ?? [l \in pulled |-> exports[re[l].module][re[l].name]]

\* Fault: the canonical name is lost when an import is renamed.
imported_names_by_local_name(m, ex) ==
  [l \in {l \in DOMAIN explicit(m) : explicit(m)[l].kind = "Item"} |->
     [module |-> explicit(m)[l].module, name |-> l]]

\* Fault: globs replace explicit imports.
imported_names_globs_first(m, ex) ==
  [n \in glob_names(m, ex) |-> [module |-> globs(m)[Max(globs_giving(m, n, ex))], name |-> n]]
    ?? [l \in DOMAIN explicit(m) |-> [module |-> explicit(m)[l].module, name |-> explicit(m)[l].name]]

\* TypedModule::imported_names, from the exports with those of m itself.
imported_names(m, ex) ==
  LET items == {l \in DOMAIN explicit(m) : explicit(m)[l].kind = "Item"}
  IN  [l \in items |-> [module |-> explicit(m)[l].module, name |-> explicit(m)[l].name]]
        ?? [n \in glob_names(m, ex) |->
              [module |-> globs(m)[Max(globs_giving(m, n, ex))], name |-> n]]
        ?? [n \in CoreFuns |-> [module |-> Core, name |-> n]]

\* TypedModule::import_aliases.
import_aliases(m) ==
  [l \in {l \in DOMAIN explicit(m) : explicit(m)[l].name # l} |-> explicit(m)[l].name]

MissingAnnotation ==
  /\ Running("check")
  /\ missing_annotation(Current)
  /\ Fail("T0010")

GlobConflict ==
  /\ Running("check")
  /\ ~missing_annotation(Current)
  /\ glob_conflict(Current)
  /\ Fail("T0011")

\* The explicit imports are a hash map: any failing one may come first.
ImportRejected ==
  /\ Running("check")
  /\ ~missing_annotation(Current) /\ ~glob_conflict(Current)
  /\ \E code \in import_errors(Current) : Fail(code)

UndefinedName ==
  /\ Running("check")
  /\ ~missing_annotation(Current) /\ ~glob_conflict(Current)
  /\ import_errors(Current) = {}
  /\ ~finds_names(Current, Current.early, {}) \/ ~finds_names(Current, Current.uses, Current.generic)
  /\ Fail("T0003")

\* A generic function is not hoisted: when it comes to be declared, its type
\* is unified with that of a builtin or import of its name.
GenericClash ==
  /\ Running("check")
  /\ ~missing_annotation(Current) /\ ~glob_conflict(Current)
  /\ import_errors(Current) = {}
  /\ finds_names(Current, Current.early, {})
  /\ Current.generic \cap (CoreFuns \cup DOMAIN build_import_schemes(Current)) # {}
  /\ Fail("T0001")

CheckModule ==
  LET m == Current
      with_m == Entry(m.path, filter_pub_schemes(m)) ?? exports
  IN  /\ Running("check")
      /\ ~missing_annotation(m) /\ ~glob_conflict(m)
      /\ import_errors(m) = {}
      /\ finds_names(m, m.early, {}) /\ finds_names(m, m.uses, m.generic)
      /\ exports' = with_m
      /\ type_context' = type_context \cup {Origin(m.path, t) : t \in m.types \cup m.methods}
      /\ checked' = Entry(m.path, [imported       |-> build_import_schemes(m),
                                   schemes        |-> scheme_env(m),
                                   imported_names |-> imported_names(m, with_m),
                                   import_aliases |-> import_aliases(m),
                                   types          |-> type_context']) ?? checked
      /\ Advance("eval")
      /\ UNCHANGED <<resolver_vars, evaluator_vars>>

------------------------------------------------------------------------------
(***************************************************************************)
(* evaluator::evaluate_graph.                                              *)
(***************************************************************************)
\* Fault: every name of every module is merged in, as before ADR-0029.
seeded_flat(m) ==
  LET names == UNION {DOMAIN envs[p] : p \in DOMAIN envs}
  IN  [n \in names |-> envs[CHOOSE p \in DOMAIN envs : n \in DOMAIN envs[p]][n]] ?? core_bindings

\* The values the environment of m starts with: builtins, then what its
\* imports have in the environments of the modules evaluated before.
seeded(m) ==
  LET imports == checked[m.path].imported_names
      found == {n \in DOMAIN imports :
                  /\ imports[n].module \in DOMAIN envs
                  /\ imports[n].name \in DOMAIN envs[imports[n].module]}
  IN  [n \in found |-> envs[imports[n].module][imports[n].name]] ?? core_bindings

declared_values(m, names) == [n \in names |-> Origin(m.path, n)]

\* Passes 1a and 1b: functions and methods replace what was seeded, and
\* every closure captures this environment.
captured(m) == declared_values(m, m.funs \cup m.methods) ?? seeded(m)

\* An alias without a value takes the one of its source name, in the
\* order of a hash map.
register_aliases(m, order) ==
  LET canonical == checked[m.path].import_aliases
      env[i \in 0..Len(order)] ==
        IF i = 0 THEN captured(m)
        ELSE IF canonical[order[i]] \in DOMAIN env[i - 1]
        THEN env[i - 1] ?? Entry(order[i], env[i - 1][canonical[order[i]]])
        ELSE env[i - 1]
  IN  env[Len(order)]

\* Pass 2 adds the lets.
EvalModule ==
  LET m == Current IN
  /\ Running("eval")
  /\ closures' = Entry(m.path, captured(m)) ?? closures
  /\ \E order \in SetToSeqs(DOMAIN checked[m.path].import_aliases) :
       envs' = Entry(m.path, declared_values(m, m.lets) ?? register_aliases(m, order)) ?? envs
  /\ Advance("main")
  /\ UNCHANGED <<resolver_vars, checker_vars>>

root_env == envs[Last(Modules).path]

IsFunction(origin) ==
  origin.module = Core \/ origin.name \in ModuleAt(origin.module).funs

\* run_main: `main` must be a function in the last module's environment, and
\* not a builtin.
RunMain ==
  /\ Running("main")
  /\ outcome' = IF "main" \notin DOMAIN root_env THEN "R0001"
                ELSE IF root_env["main"].module = Core \/ ~IsFunction(root_env["main"]) THEN "R0002"
                ELSE "ok"
  /\ UNCHANGED <<program, phase, pos, resolver_vars, checker_vars, evaluator_vars>>

Next ==
  \/ CollectSurface \/ ReExport \/ ReExportHidden \/ ResolveScope \/ ImportConflict
  \/ MissingAnnotation \/ GlobConflict \/ ImportRejected \/ UndefinedName \/ GenericClash
  \/ CheckModule \/ EvalModule \/ RunMain

Spec == Init /\ [][Next]_vars

------------------------------------------------------------------------------
(***************************************************************************)
(* Correctness.                                                            *)
(***************************************************************************)
Done == outcome # "running"

Origins == [module : Paths \cup {Core}, name : Names, nested : BOOLEAN]
IsTable(f, S) == DOMAIN f \subseteq Names /\ \A n \in DOMAIN f : f[n] \in S

\* The tables have the shape of their Rust types.
TypeOK ==
  /\ IsProgram(program)
  /\ phase \in {"surface", "reexport", "scope", "check", "eval", "main"}
  /\ pos \in 1..Len(Modules)
  /\ DOMAIN pub_surface \subseteq Paths \cup {Core}
  /\ \A p \in DOMAIN pub_surface : pub_surface[p] \subseteq Names
  /\ DOMAIN scopes \subseteq Paths
  /\ DOMAIN exports \subseteq Paths \cup {Core}
  /\ \A p \in DOMAIN exports : IsTable(exports[p], Origins)
  /\ type_context \subseteq Origins
  /\ DOMAIN checked = DOMAIN exports \ {Core}
  /\ DOMAIN envs = DOMAIN closures /\ DOMAIN envs \subseteq DOMAIN checked
  /\ \A p \in DOMAIN envs : IsTable(envs[p], Origins) /\ IsTable(closures[p], Origins)
  /\ outcome \in {"running", "ok", "T0001", "T0003", "T0009", "T0010", "T0011", "R0001", "R0002"}

\* ADR-0022 and ADR-0029: whatever a module imports or re-exports under the
\* name of one of its own functions, construction, its importers and its
\* runtime environment keep to the function -- and so does inference, which
\* does so for a generic function only from its declaration on (see
\* OwnDeclarationsShadowImports).
OwnDeclarationsWin ==
  \A p \in DOMAIN checked :
    LET m == ModuleAt(p) IN
    /\ \A n \in m.funs \ (CoreFuns \cup m.nested) :
         /\ checked[p].schemes[n] = Origin(p, n)
         /\ n \in m.pub => n \in DOMAIN exports[p] /\ exports[p][n] = Origin(p, n)
    /\ \A declared \in SUBSET m.generic : \A n \in (m.funs \ m.generic) \cup declared :
         inference_env(m, declared, checked[p].imported)[n] = Origin(p, n)
    /\ p \in DOMAIN envs =>
         \A n \in m.funs \cup m.lets \cup m.methods : envs[p][n] = Origin(p, n)

\* ADR-0022, "`imported_schemes` must be seeded into BOTH": a name that
\* inference finds among functions, builtins and imports has the same type in
\* construction -- but for a function under a builtin's name, a generic one
\* before its declaration, and the name of a nested one.
BothPassesAgree ==
  \A p \in DOMAIN checked :
    LET m == ModuleAt(p) IN
    \A declared \in SUBSET m.generic :
      LET inferred == poly_env(m, declared, checked[p].imported) IN
      \A n \in DOMAIN inferred \ (m.nested \cup (m.funs \cap CoreFuns) \cup (m.generic \ declared)) :
        n \in DOMAIN checked[p].schemes /\ checked[p].schemes[n] = inferred[n]

\* ADR-0024: the resolver lets every import through, so the checker must
\* not: a module that was checked imports from loaded modules only names
\* they make public, and through any chain of facades and globs it gets a
\* function that is public where it is declared -- or one that its module
\* covers by a re-export of the same name (see ExportsArePublic).
ImportsArePublic ==
  \A p \in DOMAIN checked :
    /\ \A b \in Range(scopes[p].explicit) :
         b.module \in Paths => b.name \in pub_surface[b.module]
    /\ \A o \in Range(checked[p].imported) :
         o.module # Core =>
           o.name \in ModuleAt(o.module).pub \cup DOMAIN scopes[o.module].re_exports

\* ADR-0029, "Each module's environment contains only its own declarations
\* plus explicitly imported names": a value of another module is there under
\* a name some import of the module brings in.
EnvironmentsIsolated ==
  \A p \in DOMAIN envs : \A n \in DOMAIN envs[p] :
    envs[p][n].module \notin {p, Core} =>
      \/ n \in DOMAIN scopes[p].explicit
      \/ \E g \in Range(scopes[p].globs) : g \in DOMAIN exports /\ n \in DOMAIN exports[g]

\* The import l of module p is the item, or comes from the module, that
\* declares its function.
ImportedByName(p, l) ==
  LET o == checked[p].imported[l] IN
  /\ l \in DOMAIN scopes[p].explicit
  /\ scopes[p].explicit[l] = [module |-> o.module, name |-> o.name, kind |-> "Item"]
  /\ o.module # Core \/ l = o.name

ImportedByGlob(p, l) ==
  LET o == checked[p].imported[l] IN
  /\ l \notin DOMAIN scopes[p].explicit /\ l = o.name
  /\ o.module \in Range(scopes[p].globs) /\ p \notin Range(scopes[p].globs)

\* A function imported from the module that declares it, by name or by glob,
\* has a value under its local name in the environment the importer's
\* functions capture -- but for a renamed builtin, and for what a module that
\* imports itself by a glob gets by another one (see RenamedImportsAreBound).
DirectImportsBound ==
  \A p \in DOMAIN closures : \A l \in DOMAIN checked[p].imported :
    /\ ~checked[p].imported[l].nested
    /\ ImportedByName(p, l) \/ ImportedByGlob(p, l)
    => l \in DOMAIN closures[p]

\* The environments where no alias took the value of its source name.
NoAliasFellBack ==
  \A p \in DOMAIN envs :
    DOMAIN checked[p].import_aliases \cap DOMAIN envs[p]
      \subseteq DOMAIN closures[p] \cup ModuleAt(p).lets

\* The module declares the function n, or imports one under that name.
Brings(p, n) ==
  \/ n \in ModuleAt(p).funs \cup DOMAIN scopes[p].explicit
  \/ \E g \in Range(scopes[p].globs) : g \in DOMAIN exports /\ n \in DOMAIN exports[g]

\* A name of module p that is typed in one way has no value from another: a
\* nested function is not called like an import, an explicit import of a
\* typed name is what gives the type, and a builtin's name is not exported.
UnmixedNames(p) ==
  LET m == ModuleAt(p) IN
  /\ \A n \in m.nested \ m.funs : ~Brings(p, n)
  /\ \A l \in DOMAIN scopes[p].explicit \ (m.funs \cup CoreFuns) :
       l \in DOMAIN checked[p].schemes \cup DOMAIN exports[p] =>
         LET b == scopes[p].explicit[l] IN
         /\ b.kind = "Item" /\ has_scheme(b)
         /\ l \in DOMAIN checked[p].imported /\ checked[p].imported[l] = exports[b.module][b.name]
  /\ DOMAIN exports[p] \cap CoreFuns = {}

\* When a function is called by a name, it is the one whose scheme the
\* checker used for that name, through any renaming, glob and facade --
\* unless the scheme is that of a builtin the module has a function for, or
\* of a function nested in a body (see ShadowedCoreNamesAgree and
\* NestedFunctionsStayInside).  Aliases that fell back are looked at apart.
CallsReachCheckedFunctions ==
  NoAliasFellBack /\ (\A p \in DOMAIN closures : UnmixedNames(p)) =>
    \A p \in DOMAIN closures :
      \A n \in DOMAIN closures[p] \cap DOMAIN checked[p].schemes :
        LET scheme == checked[p].schemes[n] IN
        IsFunction(closures[p][n]) =>
          \/ closures[p][n] = [scheme EXCEPT !.nested = FALSE]
          \/ scheme.module = Core /\ n \in CoreFuns /\ Brings(p, n)

------------------------------------------------------------------------------
(***************************************************************************)
(* What the documents say, and the code does not do.                       *)
(***************************************************************************)
\* docs/public/spec/modules.md, "Re-exported names are indistinguishable from
\* names defined directly in the re-exporting module": what the checker
\* lets a module call has a value when the module runs.
ReExportsAreBound ==
  \A p \in DOMAIN closures :
    DOMAIN checked[p].imported \subseteq DOMAIN closures[p]

\* modules.md, "`import path::Name as Alias;` imports `Name` under `Alias`":
\* also when it is a builtin, which is in the environment of no module.
RenamedImportsAreBound ==
  \A p \in DOMAIN closures : \A l \in DOMAIN checked[p].imported \cap DOMAIN scopes[p].explicit :
    LET b == scopes[p].explicit[l] IN
    checked[p].imported[l] = Origin(b.module, b.name) => l \in DOMAIN closures[p]

\* modules.md, "A declaration is accessible from outside its module only if
\* it is annotated with `pub`": functions.
ExportsArePublic ==
  \A p \in DOMAIN exports : \A n \in DOMAIN exports[p] :
    LET o == exports[p][n] IN
    o.module # Core /\ ~o.nested => o.name \in ModuleAt(o.module).pub

\* The same sentence: structs, enums and aspects.
ForeignTypesArePublic ==
  \A p \in DOMAIN checked : \A t \in checked[p].types :
    t.module # p /\ t.name \in ModuleAt(t.module).types
      => t.name \in ModuleAt(t.module).pub

\* The same sentence: functions declared inside a body.
NestedFunctionsStayInside ==
  \A p \in DOMAIN exports : \A n \in DOMAIN exports[p] : ~exports[p][n].nested

\* modules.md, "Fully-qualified paths are valid anywhere a name is expected",
\* with the method call `root::parser::Token::new()` as its example: a
\* method the checker lets a module call has a value when the module runs.
MethodsAreBound ==
  \A p \in DOMAIN closures : \A t \in checked[p].types :
    t.name \in ModuleAt(t.module).methods => t.name \in DOMAIN closures[p]

\* modules.md and ADR-0026, "Two `User` globs exporting the same name are a
\* conflict error (T0011) only if that name is actually referenced".
ConflictsAreReferenced ==
  outcome = "T0011" /\ phase = "check" =>
    \E n \in Current.uses : Cardinality(globs_giving(Current, n, exports)) > 1

\* ADR-0024, "Name does not exist -> T0003": a checked module imports only
\* from modules that exist.
ImportSourcesExist ==
  \A p \in DOMAIN checked : \A b \in Range(scopes[p].explicit) :
    b.module \in Paths \cup {Core}

\* modules.md, "`import path::module;` imports `module` as a module handle":
\* importing handles alone is no error.
HandlesAreImportable ==
  outcome = "T0003" /\ phase = "check" /\ Current.uses = {} =>
    \E b \in Range(explicit(Current)) : b.kind = "Item" /\ ~has_scheme(b)

\* modules.md, "Within a module, all names defined in that module are
\* accessible without qualification, including private names".
OwnNamesAreAccessible ==
  \A p \in DOMAIN closures : ModuleAt(p).uses \cap ModuleAt(p).lets \subseteq DOMAIN closures[p]

\* inference.rs:32, "Also bind in poly_env so user declarations shadow any
\* imported binding": whatever inference has come to, the functions and lets
\* of a module are what it finds under their names.
OwnDeclarationsShadowImports ==
  \A p \in DOMAIN checked :
    LET m == ModuleAt(p) IN
    \A n \in m.funs \cup m.lets :
      n \in DOMAIN checked[p].imported \ CoreFuns =>
        inference_env(m, {}, checked[p].imported)[n] = Origin(p, n)

\* modules.md, "If a local declaration or explicit import shadows a
\* `std::core` name, the local binding wins silently".
ShadowedCoreNamesAgree ==
  \A p \in DOMAIN closures : \A n \in CoreFuns : closures[p][n] = checked[p].schemes[n]

\* modules.md, "Explicit imports beat all glob imports": the name of an import
\* of a public function has no type that a glob gives it.
ExplicitImportsBeatGlobs ==
  \A p \in DOMAIN checked : \A l \in DOMAIN scopes[p].explicit \ CoreFuns :
    LET b == scopes[p].explicit[l] IN
    /\ b.kind = "Item" /\ b.module \in Paths \ {p}
    /\ b.name \in ModuleAt(b.module).funs \cap ModuleAt(b.module).pub
    => l \notin DOMAIN checked[p].imported \/ checked[p].imported[l].module = b.module

\* modules.md, "`export` declarations are processed after the module graph
\* is fully loaded": the order of loading does not decide what they export.
ReExportsHaveSchemes ==
  phase = "eval" =>
    \A p \in Paths : \A l \in DOMAIN scopes[p].re_exports :
      LET b == scopes[p].re_exports[l] IN
      has_scheme(b) => l \in DOMAIN exports[p]
==============================================================================
