--------------------------- MODULE LinkingProofs ---------------------------
(***************************************************************************)
(* What a linked program keeps, for every program: a module's own          *)
(* declarations win, its imports are public, its environment holds nothing *)
(* it did not ask for, and what it imports from the declaring module has a *)
(* value when its functions capture their environment.  And what a path    *)
(* written in the body of a function means, for every expression: the last *)
(* third of the module follows the expression through PathNormalizer.      *)
(*                                                                         *)
(* The inductive invariant says how far each pass is (Passes), and what    *)
(* every table holds of the modules its pass has treated; of an expression *)
(* it says which passes have rewritten it (PassInv).                       *)
(***************************************************************************)
EXTENDS PathNormalizer, SequenceFacts

\* The modules up to position k, and those a pass has treated: `later` are
\* the phases that come after it.
Seen(k) == {Modules[i].path : i \in 1..k}
Treated(during, later) ==
  IF phase = during THEN Seen(pos - 1) ELSE IF phase \in later THEN Paths ELSE {}

Extended == Treated("reexport", {"scope", "check", "eval", "main"})
Resolved == Treated("scope", {"check", "eval", "main"})
Checked == Treated("check", {"eval", "main"})
Evaluated == Treated("eval", {"main"})

\* Module q is loaded before module p.
Before(q, p) ==
  \E i, j \in 1..Len(Modules) : i < j /\ Modules[i].path = q /\ Modules[j].path = p

Passes ==
  /\ IsProgram(program)
  /\ phase \in {"surface", "reexport", "scope", "check", "eval", "main"}
  /\ pos \in 1..Len(Modules)
  /\ DOMAIN pub_surface = IF phase = "surface" THEN {}
                          ELSE IF phase \in {"reexport", "scope"} THEN Paths
                          ELSE Paths \cup {Core}
  /\ DOMAIN scopes = Resolved
  /\ DOMAIN exports = Checked \cup {Core} /\ DOMAIN checked = Checked
  /\ DOMAIN closures = Evaluated /\ DOMAIN envs = Evaluated
  /\ outcome \in {"running", "ok", "T0001", "T0003", "T0009", "T0010", "T0011", "R0001", "R0002"}

\* A surface holds the public declarations, and beyond them what the module
\* re-exports.
Surfaces ==
  /\ \A p \in DOMAIN pub_surface : pub_surface[p] \subseteq Names
  /\ \A p \in DOMAIN pub_surface \ {Core} : ModuleAt(p).pub \subseteq pub_surface[p]
  /\ phase \in {"reexport", "scope"} =>
       \A m \in Range(Modules) :
         pub_surface[m.path] \subseteq
           m.pub \cup (IF m.path \in Extended THEN DOMAIN collect_re_exports(m) ELSE {})

ScopeOf(p) ==
  /\ DOMAIN scopes[p].explicit \subseteq Names /\ IsFiniteSet(DOMAIN scopes[p].explicit)
  /\ DOMAIN scopes[p].globs \subseteq 1..Len(ModuleAt(p).imports)
  /\ pub_surface[p] \subseteq ModuleAt(p).pub \cup DOMAIN scopes[p].re_exports

Scopes == \A p \in Resolved : ScopeOf(p)

\* A scheme comes from a function its module exports under its own name.
Sourced(o) ==
  /\ o \in Origins
  /\ o.module \in DOMAIN exports /\ o.name \in DOMAIN exports[o.module]
  /\ exports[o.module][o.name] = o
  /\ o.module # Core /\ ~o.nested => o.name \in ModuleAt(o.module).funs

ExportsOf(q) ==
  /\ DOMAIN exports[q] \subseteq Names
  /\ q # Core => DOMAIN exports[q] \subseteq pub_surface[q]
  /\ \A n \in DOMAIN exports[q] : Sourced(exports[q][n])

Exports ==
  /\ exports[Core] = core_bindings
  /\ \A q \in DOMAIN exports : ExportsOf(q)
  /\ type_context \subseteq Origins

\* The first half of OwnDeclarationsWin and ImportsArePublic for one module.
OwnSchemes(p) ==
  \A n \in ModuleAt(p).funs \ (CoreFuns \cup ModuleAt(p).nested) :
    /\ checked[p].schemes[n] = Origin(p, n)
    /\ n \in ModuleAt(p).pub => n \in DOMAIN exports[p] /\ exports[p][n] = Origin(p, n)

PublicImports(p) ==
  \A b \in Range(scopes[p].explicit) : b.module \in Paths => b.name \in pub_surface[b.module]

\* An import of the module p brings in the name n.
BroughtIn(p, n) ==
  \/ n \in DOMAIN scopes[p].explicit
  \/ \E g \in Range(scopes[p].globs) : g \in DOMAIN exports /\ n \in DOMAIN exports[g]

\* What is imported was exported by an earlier module, and the evaluator
\* will look where the checker found it.
ImportsOf(p) ==
  LET c == checked[p] IN
  /\ \A l \in DOMAIN c.imported :
       /\ Sourced(c.imported[l])
       /\ c.imported[l].module # Core => Before(c.imported[l].module, p)
       /\ ~c.imported[l].nested /\ (ImportedByName(p, l) \/ ImportedByGlob(p, l)) =>
            \/ l \in CoreFuns
            \/ /\ c.imported[l].module # Core
               /\ l \in DOMAIN c.imported_names
               /\ c.imported_names[l] = [module |-> c.imported[l].module, name |-> c.imported[l].name]
  /\ \A n \in DOMAIN c.imported_names :
       n \in Names /\ (BroughtIn(p, n) \/ c.imported_names[n].module = Core)
  /\ DOMAIN c.import_aliases \subseteq DOMAIN scopes[p].explicit

CheckedTables == \A p \in Checked : OwnSchemes(p) /\ PublicImports(p) /\ ImportsOf(p)

EnvironmentOf(p) ==
  LET m == ModuleAt(p) IN
  /\ IsTable(closures[p], Origins) /\ IsTable(envs[p], Origins)
  /\ \A n \in m.funs \cup m.lets \cup m.methods : n \in DOMAIN envs[p] /\ envs[p][n] = Origin(p, n)
  /\ \A n \in DOMAIN envs[p] : envs[p][n].module \in {p, Core} \/ BroughtIn(p, n)
  /\ \A l \in DOMAIN checked[p].imported :
       ~checked[p].imported[l].nested /\ (ImportedByName(p, l) \/ ImportedByGlob(p, l))
         => l \in DOMAIN closures[p]

Environments == \A p \in Evaluated : EnvironmentOf(p)

LinkInv == Passes /\ Surfaces /\ Scopes /\ Exports /\ CheckedTables /\ Environments
------------------------------------------------------------------------------
(***************************************************************************)
(* The program and the passes over it.                                     *)
(***************************************************************************)
\* A position that a path has, and the module there.
LEMMA ModulesOfPaths ==
  ASSUME IsProgram(program)
  PROVE  /\ Len(Modules) \in Nat \ {0} /\ DOMAIN Modules = 1..Len(Modules)
         /\ Core \notin Paths
         /\ \A i \in 1..Len(Modules) :
              /\ Modules[i] \in Module /\ Modules[i].path \in Paths
              /\ ModuleAt(Modules[i].path) = Modules[i]
         /\ \A i, j \in 1..Len(Modules) : Modules[i].path = Modules[j].path => i = j
<1>1. Modules \in Seq(Module) /\ Modules # <<>>
  BY DEF IsProgram, Modules
<1>2. Len(Modules) \in Nat \ {0} /\ DOMAIN Modules = 1..Len(Modules)
  BY <1>1, LenProperties, EmptySeq
<1>3. \A i, j \in 1..Len(Modules) : Modules[i].path = Modules[j].path => i = j
  BY DEF IsProgram, Modules
<1>4. Core \notin Paths
  BY DEF IsProgram, Modules, Paths
<1>5. ASSUME NEW i \in 1..Len(Modules)
      PROVE  /\ Modules[i] \in Module /\ Modules[i].path \in Paths
             /\ ModuleAt(Modules[i].path) = Modules[i]
  <2>1. Modules[i] \in Module /\ Modules[i].path \in Paths
    BY <1>1, <1>5, ElementOfSeq DEF Paths
  <2>2. Modules[i] \in Range(Modules)
    BY <1>2, <1>5 DEF Range
  <2>3. \A m \in Range(Modules) : m.path = Modules[i].path => m = Modules[i]
    BY <1>2, <1>3, <1>5 DEF Range
  <2>4. ModuleAt(Modules[i].path) = Modules[i]
    BY <2>2, <2>3 DEF ModuleAt
  <2> QED BY <2>1, <2>4
<1> QED BY <1>2, <1>3, <1>4, <1>5

\* What a module of the program declares.
LEMMA Declarations ==
  ASSUME IsProgram(program), NEW p \in Paths
  PROVE  LET m == ModuleAt(p) IN
         /\ m \in Module /\ m.path = p
         /\ m.pub \subseteq m.funs \cup m.types
         /\ m.funs \cap m.lets = {} /\ m.types \cap m.funs = {}
         /\ m.funs \subseteq Names /\ m.lets \subseteq Names /\ m.types \subseteq Names
         /\ m.methods \subseteq Names /\ m.nested \subseteq Names /\ m.pub \subseteq Names
         /\ m.generic \subseteq m.funs
<1>1. PICK i \in 1..Len(Modules) : Modules[i].path = p
  BY DEF Paths
<1>2. Modules[i] \in Module /\ ModuleAt(p) = Modules[i]
  BY <1>1, ModulesOfPaths
<1>3. /\ Modules[i].pub \subseteq Modules[i].funs \cup Modules[i].types
      /\ Modules[i].generic \subseteq Modules[i].funs
      /\ Modules[i].funs \cap Modules[i].lets = {} /\ Modules[i].types \cap Modules[i].funs = {}
  <2>1. LET m == Modules[i] IN
        /\ m.pub \subseteq m.funs \cup m.types /\ m.generic \subseteq m.funs
        /\ m.funs \cap m.lets = {} /\ m.types \cap (m.funs \cup m.lets) = {}
    BY <1>1 DEF IsProgram, Modules
  <2> QED BY <2>1
<1>4. LET m == Modules[i] IN
      /\ m.funs \in SUBSET Names /\ m.lets \in SUBSET Names /\ m.types \in SUBSET Names
      /\ m.methods \in SUBSET Names /\ m.nested \in SUBSET Names /\ m.pub \in SUBSET Names
  BY <1>2 DEF Module
<1> QED BY <1>1, <1>2, <1>3, <1>4

\* The import and export leaves of a module.
LEMMA LeavesOf ==
  ASSUME IsProgram(program), NEW p \in Paths
  PROVE  LET m == ModuleAt(p) IN
         /\ m.imports \in Seq(Leaf) /\ m.exports \in Seq(Leaf)
         /\ \A i \in 1..Len(m.imports) : m.imports[i].name # Glob => m.imports[i].as \in Names
         /\ \A i \in 1..Len(m.exports) : m.exports[i].name # Glob => m.exports[i].as \in Names
<1>1. PICK i \in 1..Len(Modules) : Modules[i].path = p
  BY DEF Paths
<1> DEFINE m == Modules[i]
<1>2. m \in Module /\ ModuleAt(p) = m
  BY <1>1, ModulesOfPaths
<1>3. m.imports \in Seq(Leaf) /\ m.exports \in Seq(Leaf)
  BY <1>2 DEF Module
<1>4. \A e \in Range(m.imports) \cup Range(m.exports) : e.name = Glob <=> e.as = Glob
  BY <1>1 DEF IsProgram, Modules
<1> HIDE DEF m
<1>5. ASSUME NEW s \in Seq(Leaf), Range(s) \subseteq Range(m.imports) \cup Range(m.exports),
             NEW k \in 1..Len(s), s[k].name # Glob
      PROVE  s[k].as \in Names
  <2>1. s[k] \in Leaf /\ s[k] \in Range(s)
    BY <1>5, ElementOfSeq, SeqRange
  <2>2. s[k].as \in Names \cup {Glob}
    BY <2>1 DEF Leaf
  <2>3. s[k].as # Glob
    BY <1>4, <1>5, <2>1
  <2> QED BY <2>2, <2>3
<1> QED BY <1>2, <1>3, <1>5

\* The modules up to a position.
LEMMA SeenFacts ==
  ASSUME IsProgram(program)
  PROVE  /\ Seen(0) = {} /\ Seen(Len(Modules)) = Paths
         /\ \A k \in 1..Len(Modules) :
              /\ Seen(k) = Seen(k - 1) \cup {Modules[k].path}
              /\ Modules[k].path \notin Seen(k - 1) /\ Seen(k - 1) \subseteq Paths
<1>1. Seen(0) = {} /\ Seen(Len(Modules)) = Paths
  BY DEF Seen, Paths
<1>2. ASSUME NEW k \in 1..Len(Modules)
      PROVE  /\ Seen(k) = Seen(k - 1) \cup {Modules[k].path}
             /\ Modules[k].path \notin Seen(k - 1) /\ Seen(k - 1) \subseteq Paths
  <2>1. Len(Modules) \in Nat
    BY ModulesOfPaths
  <2>2. 1..k = (1..k - 1) \cup {k} /\ k \notin 1..k - 1 /\ 1..k - 1 \subseteq 1..Len(Modules)
    BY <2>1
  <2>3. \A i \in 1..k - 1 : Modules[i].path # Modules[k].path
    BY <2>2, ModulesOfPaths
  <2>4. Seen(k) = Seen(k - 1) \cup {Modules[k].path}
    BY <2>2 DEF Seen
  <2> QED BY <2>2, <2>3, <2>4 DEF Seen, Paths
<1> QED BY <1>1, <1>2

\* The program does not change.
LEMMA ProgramStays ==
  ASSUME program' = program
  PROVE  /\ Modules' = Modules /\ Paths' = Paths /\ Origins' = Origins
         /\ \A p : ModuleAt(p)' = ModuleAt(p)
         /\ \A k : Seen(k)' = Seen(k)
         /\ \A q, p : Before(q, p)' = Before(q, p)
         /\ IsProgram(program) => IsProgram(program)'
<1>1. Modules' = Modules
  BY DEF Modules
<1>2. Paths' = Paths
  BY <1>1 DEF Paths
<1>3. Origins' = Origins
  BY <1>2 DEF Origins
<1>4. \A p : ModuleAt(p)' = ModuleAt(p)
  BY <1>1 DEF ModuleAt
<1>5. \A k : Seen(k)' = Seen(k)
  BY <1>1 DEF Seen
<1>6. \A q, p : Before(q, p)' = Before(q, p)
  BY <1>1 DEF Before
<1>7. IsProgram(program) => IsProgram(program)'
  OBVIOUS
<1> QED BY <1>1, <1>2, <1>3, <1>4, <1>5, <1>6, <1>7

\* A pass treats the current module, which it has not treated before, and
\* the others treat none.
LEMMA PassMoves ==
  ASSUME Passes, NEW next, Advance(next),
         <<phase, next>> \in {<<"reexport", "scope">>, <<"scope", "check">>,
                              <<"check", "eval">>, <<"eval", "main">>}
  PROVE  /\ program' = program /\ outcome' = outcome /\ pos' \in 1..Len(Modules)
         /\ Current.path \in Paths /\ ModuleAt(Current.path) = Current
         /\ phase' = IF pos < Len(Modules) THEN phase ELSE next
         /\ Extended' = Extended \cup (IF phase = "reexport" THEN {Current.path} ELSE {})
         /\ Resolved' = Resolved \cup (IF phase = "scope" THEN {Current.path} ELSE {})
         /\ Checked' = Checked \cup (IF phase = "check" THEN {Current.path} ELSE {})
         /\ Evaluated' = Evaluated \cup (IF phase = "eval" THEN {Current.path} ELSE {})
         /\ phase = "reexport" => Current.path \notin Extended
         /\ phase = "scope" => Current.path \notin Resolved /\ Extended = Paths
         /\ phase = "check" => Current.path \notin Checked /\ Resolved = Paths
         /\ phase = "eval" => Current.path \notin Evaluated /\ Checked = Paths /\ Resolved = Paths
         /\ Extended \subseteq Paths /\ Resolved \subseteq Paths
         /\ Checked \subseteq Resolved /\ Evaluated \subseteq Checked
<1>1. IsProgram(program) /\ pos \in 1..Len(Modules) /\ Len(Modules) \in Nat \ {0}
  BY ModulesOfPaths DEF Passes
<1>2. /\ program' = program /\ outcome' = outcome
      /\ IF pos < Len(Modules) THEN pos' = pos + 1 /\ phase' = phase
                               ELSE pos' = 1 /\ phase' = next
  BY DEF Advance
<1>3. Paths' = Paths /\ \A k : Seen(k)' = Seen(k)
  BY <1>2, ProgramStays
<1>4. Current.path \in Paths /\ ModuleAt(Current.path) = Current
  BY <1>1, ModulesOfPaths DEF Current
<1>5. /\ Seen(0) = {} /\ Seen(Len(Modules)) = Paths
      /\ Seen(pos) = Seen(pos - 1) \cup {Current.path}
      /\ Current.path \notin Seen(pos - 1) /\ Seen(pos - 1) \subseteq Paths
  BY <1>1, SeenFacts DEF Current
<1>6. pos' \in 1..Len(Modules)
  BY <1>1, <1>2
<1>7. IF pos < Len(Modules) THEN Seen(pos - 1)' = Seen(pos) ELSE Seen(pos - 1)' = {} /\ Seen(pos) = Paths
  <2>1. Seen(pos - 1)' = Seen(pos' - 1)
    BY <1>2 DEF Seen, Modules
  <2>2. CASE pos < Len(Modules)
    <3>1. pos' - 1 = pos
      BY <1>1, <1>2, <2>2
    <3> QED BY <2>1, <2>2, <3>1
  <2>3. CASE ~(pos < Len(Modules))
    <3>1. pos' - 1 = 0 /\ pos = Len(Modules)
      BY <1>1, <1>2, <2>3
    <3> QED BY <1>5, <2>1, <2>3, <3>1
  <2> QED BY <2>2, <2>3
<1> DEFINE S == Seen(pos - 1)
           T == Seen(pos - 1)'
<1>8. \A during, later : Treated(during, later) =
        IF phase = during THEN S ELSE IF phase \in later THEN Paths ELSE {}
  BY DEF Treated
<1>9. \A during, later : Treated(during, later)' =
        IF phase' = during THEN T ELSE IF phase' \in later THEN Paths ELSE {}
  BY <1>3 DEF Treated
<1>10. IF pos < Len(Modules) THEN T = S \cup {Current.path} /\ phase' = phase
       ELSE T = {} /\ Paths = S \cup {Current.path} /\ phase' = next
  BY <1>2, <1>5, <1>7
<1>11. S \subseteq Paths /\ Current.path \notin S
  BY <1>5
<1> HIDE DEF S, T
<1>12. /\ Extended' = Extended \cup (IF phase = "reexport" THEN {Current.path} ELSE {})
       /\ phase = "reexport" => Current.path \notin Extended
       /\ phase = "scope" => Extended = Paths
       /\ Extended \subseteq Paths
  BY <1>8, <1>9, <1>10, <1>11 DEF Extended
<1>13. /\ Resolved' = Resolved \cup (IF phase = "scope" THEN {Current.path} ELSE {})
       /\ phase = "scope" => Current.path \notin Resolved
       /\ phase \in {"check", "eval"} => Resolved = Paths
       /\ Resolved \subseteq Paths
  BY <1>8, <1>9, <1>10, <1>11 DEF Resolved
<1>14. /\ Checked' = Checked \cup (IF phase = "check" THEN {Current.path} ELSE {})
       /\ phase = "check" => Current.path \notin Checked
       /\ phase = "eval" => Checked = Paths
       /\ Checked \subseteq Resolved
  BY <1>8, <1>9, <1>10, <1>11 DEF Checked, Resolved
<1>15. /\ Evaluated' = Evaluated \cup (IF phase = "eval" THEN {Current.path} ELSE {})
       /\ phase = "eval" => Current.path \notin Evaluated
       /\ Evaluated \subseteq Checked
  BY <1>8, <1>9, <1>10, <1>11 DEF Evaluated, Checked
<1> QED BY <1>2, <1>4, <1>6, <1>12, <1>13, <1>14, <1>15

\* What the passes have treated when none of them moves.
LEMMA PassesStay ==
  ASSUME UNCHANGED <<program, phase, pos>>
  PROVE  /\ Extended' = Extended /\ Resolved' = Resolved
         /\ Checked' = Checked /\ Evaluated' = Evaluated
<1>1. Paths' = Paths /\ \A k : Seen(k)' = Seen(k)
  BY ProgramStays
<1>2. \A during, later : Treated(during, later)' = Treated(during, later)
  BY <1>1 DEF Treated
<1> QED BY <1>2 DEF Extended, Resolved, Checked, Evaluated

\* What every state between the passes gives.
LEMMA TreatedAreLoaded ==
  ASSUME Passes
  PROVE  /\ Extended \subseteq Paths /\ Resolved \subseteq Paths
         /\ Checked \subseteq Resolved /\ Evaluated \subseteq Checked
         /\ Core \notin Paths
<1>1. IsProgram(program) /\ pos \in 1..Len(Modules)
  BY DEF Passes
<1>2. Core \notin Paths /\ Seen(pos - 1) \subseteq Paths
  BY <1>1, ModulesOfPaths, SeenFacts
<1>3. \A during, later : Treated(during, later) =
        IF phase = during THEN Seen(pos - 1) ELSE IF phase \in later THEN Paths ELSE {}
  BY DEF Treated
<1> QED BY <1>2, <1>3 DEF Extended, Resolved, Checked, Evaluated

\* What a module re-exports grows with the surfaces.
LEMMA ReExportsGrow ==
  ASSUME program' = program, NEW m,
         \A p : surface_of(p) \subseteq surface_of(p)'
  PROVE  DOMAIN collect_re_exports(m) \subseteq DOMAIN collect_re_exports(m)'
<1>1. \A leaf, current : base_of(leaf, current)' = base_of(leaf, current)
  BY DEF base_of
<1>2. ASSUME NEW leaf, NEW current
      PROVE  exported_names(leaf, current) \subseteq exported_names(leaf, current)'
  <2>1. surface_of(base_of(leaf, current)) \subseteq surface_of(base_of(leaf, current))'
    BY <1>1 DEF surface_of
  <2> QED BY <2>1 DEF exported_names
<1>3. DOMAIN collect_re_exports(m)' =
        UNION {exported_names(m.exports[i], m.path)' : i \in 1..Len(m.exports)}
  BY DEF collect_re_exports
<1>4. DOMAIN collect_re_exports(m) =
        UNION {exported_names(m.exports[i], m.path) : i \in 1..Len(m.exports)}
  BY DEF collect_re_exports
<1> QED BY <1>2, <1>3, <1>4

\* What a module re-exports are names.
LEMMA ReExportsAreNames ==
  ASSUME IsProgram(program), NEW p \in Paths,
         \A q \in DOMAIN pub_surface : pub_surface[q] \subseteq Names
  PROVE  DOMAIN collect_re_exports(ModuleAt(p)) \subseteq Names
<1> DEFINE m == ModuleAt(p)
<1>1. \A i \in 1..Len(m.exports) : m.exports[i].name # Glob => m.exports[i].as \in Names
  BY LeavesOf
<1>2. \A q : surface_of(q) \subseteq Names
  BY DEF surface_of
<1>3. \A i \in 1..Len(m.exports) : exported_names(m.exports[i], m.path) \subseteq Names
  BY <1>1, <1>2 DEF exported_names
<1> HIDE DEF m
<1>4. DOMAIN collect_re_exports(m) \subseteq Names
  <2>1. DOMAIN collect_re_exports(m) =
          UNION {exported_names(m.exports[i], m.path) : i \in 1..Len(m.exports)}
    BY DEF collect_re_exports
  <2> QED BY <1>3, <2>1
<1> QED BY <1>4 DEF m

------------------------------------------------------------------------------
(***************************************************************************)
(* Steps that leave a table alone.                                         *)
(***************************************************************************)
\* The surfaces, when no pass of the resolver touches them.
LEMMA SurfacesStay ==
  ASSUME Surfaces, UNCHANGED <<program, pub_surface>>,
         phase' \in {"reexport", "scope"} => phase \in {"reexport", "scope"} /\ Extended' = Extended
  PROVE  Surfaces'
<1>1. Modules' = Modules /\ \A p : ModuleAt(p)' = ModuleAt(p)
  BY ProgramStays
<1>2. \A p : surface_of(p)' = surface_of(p)
  BY DEF surface_of
<1>3. \A m : DOMAIN collect_re_exports(m) \subseteq DOMAIN collect_re_exports(m)'
  BY <1>2, ReExportsGrow
<1>4. ASSUME phase' \in {"reexport", "scope"}, NEW m \in Range(Modules)
      PROVE  pub_surface[m.path] \subseteq m.pub \cup
               (IF m.path \in Extended' THEN DOMAIN collect_re_exports(m)' ELSE {})
  <2>1. pub_surface[m.path] \subseteq m.pub \cup
          (IF m.path \in Extended THEN DOMAIN collect_re_exports(m) ELSE {})
    BY <1>4 DEF Surfaces
  <2> QED BY <1>3, <1>4, <2>1
<1> QED BY <1>1, <1>4 DEF Surfaces

\* The scopes, when no module is resolved.
LEMMA ScopesStay ==
  ASSUME Scopes, UNCHANGED <<program, pub_surface, scopes>>, Resolved' = Resolved
  PROVE  Scopes'
<1>1. \A p : ModuleAt(p)' = ModuleAt(p)
  BY ProgramStays
<1> QED BY <1>1 DEF Scopes, ScopeOf

\* The exports, when no module is checked.
LEMMA ExportsStay ==
  ASSUME Exports, UNCHANGED <<program, exports, type_context>>,
         \A q \in DOMAIN exports \ {Core} : pub_surface'[q] = pub_surface[q]
  PROVE  Exports'
<1>1. Origins' = Origins /\ \A p : ModuleAt(p)' = ModuleAt(p)
  BY ProgramStays
<1>2. \A o : Sourced(o) => Sourced(o)'
  BY <1>1 DEF Sourced
<1>3. ASSUME NEW q \in DOMAIN exports
      PROVE  ExportsOf(q)'
  <2>1. ExportsOf(q)
    BY DEF Exports
  <2>2. \A n \in DOMAIN exports[q] : Sourced(exports[q][n])'
    <3> TAKE n \in DOMAIN exports[q]
    <3>1. Sourced(exports[q][n])
      BY <2>1 DEF ExportsOf
    <3> QED BY <1>1, <3>1 DEF Sourced
  <2> QED BY <2>1, <2>2 DEF ExportsOf
<1> QED BY <1>1, <1>3 DEF Exports

\* The exports of the modules before do not change; those of one may join.
Grown == /\ DOMAIN exports \subseteq DOMAIN exports'
         /\ \A q \in DOMAIN exports : exports'[q] = exports[q]

\* What a module brings in stays so while exports only grow.
LEMMA BroughtInStays ==
  ASSUME NEW p, scopes'[p] = scopes[p], Grown
  PROVE  \A n : BroughtIn(p, n) => BroughtIn(p, n)'
BY DEF BroughtIn, Grown, Range

\* How a module imports a name depends on its own scope and table.
LEMMA ImportedStays ==
  ASSUME NEW p, scopes'[p] = scopes[p], checked'[p] = checked[p]
  PROVE  \A l : /\ ImportedByName(p, l)' = ImportedByName(p, l)
                /\ ImportedByGlob(p, l)' = ImportedByGlob(p, l)
<1>1. \A l : ImportedByName(p, l)' = ImportedByName(p, l)
  BY DEF ImportedByName
<1>2. \A l : ImportedByGlob(p, l)' = ImportedByGlob(p, l)
  BY DEF ImportedByGlob, Range
<1> QED BY <1>1, <1>2

\* The tables of a checked module, while others are checked or evaluated.
LEMMA CheckedTableStays ==
  ASSUME NEW p \in DOMAIN exports, program' = program, Grown, pub_surface' = pub_surface,
         scopes'[p] = scopes[p], checked'[p] = checked[p],
         OwnSchemes(p), PublicImports(p), ImportsOf(p)
  PROVE  (OwnSchemes(p) /\ PublicImports(p) /\ ImportsOf(p))'
<1>1. /\ Paths' = Paths /\ \A q : ModuleAt(q)' = ModuleAt(q)
      /\ \A q, r : Before(q, r)' = Before(q, r)
  BY ProgramStays
<1>2. OwnSchemes(p)'
  BY <1>1 DEF OwnSchemes, Grown
<1>3. PublicImports(p)'
  BY <1>1 DEF PublicImports, Range
<1>4. ASSUME NEW l \in DOMAIN checked[p].imported
      PROVE  /\ Sourced(checked[p].imported[l])'
             /\ checked[p].imported[l].module # Core => Before(checked[p].imported[l].module, p)
  <2>1. /\ Sourced(checked[p].imported[l])
        /\ checked[p].imported[l].module # Core => Before(checked[p].imported[l].module, p)
    BY DEF ImportsOf
  <2>2. Origins' = Origins
    BY ProgramStays
  <2> QED BY <1>1, <2>1, <2>2 DEF Sourced, Grown
<1>5. ASSUME NEW l \in DOMAIN checked[p].imported,
             ~checked[p].imported[l].nested, (ImportedByName(p, l) \/ ImportedByGlob(p, l))'
      PROVE  \/ l \in CoreFuns
             \/ /\ checked[p].imported[l].module # Core
                /\ l \in DOMAIN checked[p].imported_names
                /\ checked[p].imported_names[l] =
                     [module |-> checked[p].imported[l].module, name |-> checked[p].imported[l].name]
  <2>1. ImportedByName(p, l) \/ ImportedByGlob(p, l)
    BY <1>5, ImportedStays
  <2> QED BY <1>5, <2>1 DEF ImportsOf
<1>6. ASSUME NEW n \in DOMAIN checked[p].imported_names
      PROVE  n \in Names /\ (BroughtIn(p, n)' \/ checked[p].imported_names[n].module = Core)
  <2>1. n \in Names /\ (BroughtIn(p, n) \/ checked[p].imported_names[n].module = Core)
    BY DEF ImportsOf
  <2> QED BY <2>1, BroughtInStays
<1>7. DOMAIN checked[p].import_aliases \subseteq DOMAIN scopes[p].explicit
  BY DEF ImportsOf
<1>8. ImportsOf(p)'
  <2>1. \A l \in DOMAIN checked'[p].imported :
          /\ Sourced(checked[p].imported[l])'
          /\ checked'[p].imported[l].module # Core => Before(checked[p].imported[l].module, p)'
    <3> TAKE l \in DOMAIN checked'[p].imported
    <3>1. Before(checked[p].imported[l].module, p)' = Before(checked[p].imported[l].module, p)
      <4>1. Modules' = Modules
        BY ProgramStays
      <4> QED BY <4>1 DEF Before
    <3> QED BY <1>4, <3>1
  <2> QED BY <1>5, <1>6, <1>7, <2>1 DEF ImportsOf
<1> QED BY <1>2, <1>3, <1>8

\* The environment of a module, while others are evaluated.
LEMMA EnvironmentStays ==
  ASSUME NEW p, program' = program, Grown,
         scopes'[p] = scopes[p], checked'[p] = checked[p],
         closures'[p] = closures[p], envs'[p] = envs[p], EnvironmentOf(p)
  PROVE  EnvironmentOf(p)'
<1>1. Origins' = Origins /\ \A q : ModuleAt(q)' = ModuleAt(q)
  BY ProgramStays
<1>2. IsTable(closures[p], Origins) /\ IsTable(envs[p], Origins)
  BY DEF EnvironmentOf
<1>3. \A n \in DOMAIN envs[p] : envs[p][n].module \in {p, Core} \/ BroughtIn(p, n)'
  BY BroughtInStays DEF EnvironmentOf
<1>4. \A l \in DOMAIN checked[p].imported :
        ~checked[p].imported[l].nested /\ (ImportedByName(p, l) \/ ImportedByGlob(p, l))'
          => l \in DOMAIN closures[p]
  BY ImportedStays DEF EnvironmentOf
<1> QED BY <1>1, <1>2, <1>3, <1>4 DEF EnvironmentOf, IsTable

------------------------------------------------------------------------------
(***************************************************************************)
(* The initial state and the steps of the passes.                          *)
(***************************************************************************)
Outcomes == {"running", "ok", "T0001", "T0003", "T0009", "T0010", "T0011", "R0001", "R0002"}

\* No pass has treated a module at the start, and std::core is exported.
LEMMA Starts == Init => LinkInv
<1> SUFFICES ASSUME Init PROVE LinkInv
  OBVIOUS
<1>1. IsProgram(program) /\ phase = "surface" /\ pos = 1 /\ outcome = "running"
  BY ProgramsAssumption DEF Init
<1>2. 1 \in 1..Len(Modules) /\ Core \notin Paths
  BY <1>1, ModulesOfPaths
<1>3. Extended = {} /\ Resolved = {} /\ Checked = {} /\ Evaluated = {}
  BY <1>1 DEF Extended, Resolved, Checked, Evaluated, Treated
<1>4. DOMAIN exports = {Core} /\ exports[Core] = core_bindings
  BY DEF Init, Entry
<1>5. /\ DOMAIN pub_surface = {} /\ DOMAIN scopes = {} /\ DOMAIN checked = {}
      /\ DOMAIN closures = {} /\ DOMAIN envs = {} /\ type_context = {}
  BY DEF Init
<1>6. Passes
  BY <1>1, <1>2, <1>3, <1>4, <1>5 DEF Passes
<1>7. Surfaces
  BY <1>1, <1>5 DEF Surfaces
<1>8. Exports
  <2>1. DOMAIN core_bindings = CoreFuns /\ CoreFuns \subseteq Names
    BY NamesAssumption DEF core_bindings
  <2>2. ASSUME NEW n \in CoreFuns
        PROVE  Sourced(core_bindings[n])
    <3>1. core_bindings[n] = [module |-> Core, name |-> n, nested |-> FALSE]
      BY DEF core_bindings, Origin
    <3>2. core_bindings[n] \in Origins
      BY <2>1, <3>1 DEF Origins
    <3> QED BY <1>4, <2>1, <3>1, <3>2 DEF Sourced
  <2>3. ExportsOf(Core)
    BY <1>4, <2>1, <2>2 DEF ExportsOf
  <2> QED BY <1>4, <1>5, <2>3 DEF Exports
<1>9. Scopes /\ CheckedTables /\ Environments
  BY <1>3 DEF Scopes, CheckedTables, Environments
<1> QED BY <1>6, <1>7, <1>8, <1>9 DEF LinkInv

\* A step that changes no table: an error, main, or none.
LEMMA QuietStep ==
  ASSUME LinkInv, outcome' \in Outcomes,
         UNCHANGED <<program, phase, pos, resolver_vars, checker_vars, evaluator_vars>>
  PROVE  LinkInv'
<1>1. /\ UNCHANGED <<program, phase, pos, pub_surface, scopes, exports, type_context>>
      /\ UNCHANGED <<checked, closures, envs>>
  BY DEF resolver_vars, checker_vars, evaluator_vars
<1>2. /\ Extended' = Extended /\ Resolved' = Resolved
      /\ Checked' = Checked /\ Evaluated' = Evaluated
  BY <1>1, PassesStay
<1>3. Modules' = Modules /\ Paths' = Paths
  BY <1>1, ProgramStays
<1>4. Passes'
  BY <1>1, <1>2, <1>3 DEF LinkInv, Passes, Outcomes
<1>5. Surfaces'
  BY <1>1, <1>2, SurfacesStay DEF LinkInv
<1>6. Scopes'
  BY <1>1, <1>2, ScopesStay DEF LinkInv
<1>7. Exports'
  BY <1>1, ExportsStay DEF LinkInv
<1>8. Grown
  BY <1>1 DEF Grown
<1>9. CheckedTables'
  <2>1. ASSUME NEW p \in Checked
        PROVE  (OwnSchemes(p) /\ PublicImports(p) /\ ImportsOf(p))'
    <3>1. p \in DOMAIN exports
      BY <2>1 DEF LinkInv, Passes
    <3>2. OwnSchemes(p) /\ PublicImports(p) /\ ImportsOf(p)
      BY <2>1 DEF LinkInv, CheckedTables
    <3> QED BY <1>1, <1>8, <3>1, <3>2, CheckedTableStays
  <2> QED BY <1>2, <2>1 DEF CheckedTables
<1>10. Environments'
  <2>1. ASSUME NEW p \in Evaluated
        PROVE  EnvironmentOf(p)'
    <3>1. EnvironmentOf(p)
      BY <2>1 DEF LinkInv, Environments
    <3> QED BY <1>1, <1>8, <3>1, EnvironmentStays
  <2> QED BY <1>2, <2>1 DEF Environments
<1> QED BY <1>4, <1>5, <1>6, <1>7, <1>9, <1>10 DEF LinkInv

\* First pass.
LEMMA CollectSurfaceStep == LinkInv /\ CollectSurface => LinkInv'
<1> SUFFICES ASSUME LinkInv, CollectSurface PROVE LinkInv'
  OBVIOUS
<1>1. /\ phase = "surface" /\ phase' = "reexport" /\ outcome' = outcome
      /\ UNCHANGED <<program, pos, scopes, exports, type_context, checked, closures, envs>>
      /\ pub_surface' = [p \in Paths |-> ModuleAt(p).pub]
  BY DEF CollectSurface, Running, checker_vars, evaluator_vars
<1>2. Passes /\ IsProgram(program) /\ pos \in 1..Len(Modules)
  BY DEF LinkInv, Passes
<1>3. Modules' = Modules /\ Paths' = Paths /\ (\A p : ModuleAt(p)' = ModuleAt(p)) /\ \A k : Seen(k)' = Seen(k)
  BY <1>1, ProgramStays
<1>4. /\ Resolved = {} /\ Checked = {} /\ Evaluated = {}
      /\ Resolved' = {} /\ Checked' = {} /\ Evaluated' = {}
  BY <1>1, <1>3 DEF Resolved, Checked, Evaluated, Treated
<1>5. Passes'
  BY <1>1, <1>2, <1>3, <1>4 DEF Passes
<1>6. Surfaces'
  <2>1. \A p \in Paths : ModuleAt(p).pub \subseteq Names
    BY <1>2, Declarations
  <2>2. ASSUME NEW m \in Range(Modules)
        PROVE  m.path \in Paths /\ ModuleAt(m.path) = m
    <3>1. PICK i \in DOMAIN Modules : m = Modules[i]
      BY DEF Range
    <3> QED BY <1>2, <3>1, ModulesOfPaths
  <2>3. \A p \in DOMAIN pub_surface' : pub_surface'[p] \subseteq Names
    BY <1>1, <2>1
  <2>4. \A p \in DOMAIN pub_surface' \ {Core} : ModuleAt(p)'.pub \subseteq pub_surface'[p]
    BY <1>1, <1>3
  <2>5. \A m \in Range(Modules) : pub_surface'[m.path] \subseteq m.pub
    BY <1>1, <2>2
  <2> QED BY <1>3, <2>3, <2>4, <2>5 DEF Surfaces
<1>7. Exports'
  <2>1. DOMAIN exports = {Core}
    BY <1>2, <1>4 DEF Passes
  <2> QED BY <1>1, <2>1, ExportsStay DEF LinkInv
<1>8. Scopes' /\ CheckedTables' /\ Environments'
  BY <1>4 DEF Scopes, CheckedTables, Environments
<1> QED BY <1>5, <1>6, <1>7, <1>8 DEF LinkInv

\* The current module and its place.
LEMMA CurrentModule ==
  ASSUME Passes
  PROVE  /\ IsProgram(program) /\ pos \in 1..Len(Modules)
         /\ Current \in Module /\ Current \in Range(Modules)
         /\ Current.path \in Paths /\ ModuleAt(Current.path) = Current
         /\ \A m \in Range(Modules) : m.path \in Paths /\ ModuleAt(m.path) = m
<1>1. IsProgram(program) /\ pos \in 1..Len(Modules)
  BY DEF Passes
<1>2. Current \in Range(Modules)
  BY <1>1, ModulesOfPaths DEF Current, Range
<1>3. ASSUME NEW m \in Range(Modules)
      PROVE  m \in Module /\ m.path \in Paths /\ ModuleAt(m.path) = m
  <2>1. PICK i \in DOMAIN Modules : m = Modules[i]
    BY DEF Range
  <2> QED BY <1>1, <2>1, ModulesOfPaths
<1> QED BY <1>1, <1>2, <1>3

\* Second pass: the surfaces grow, and what the modules re-export with them.
LEMMA ReExportStep == LinkInv /\ ReExport => LinkInv'
<1> SUFFICES ASSUME LinkInv, ReExport PROVE LinkInv'
  OBVIOUS
<1>1. /\ phase = "reexport" /\ Advance("scope")
      /\ UNCHANGED <<scopes, exports, type_context, checked, closures, envs>>
      /\ pub_surface' = [pub_surface EXCEPT ![Current.path] =
                           pub_surface[Current.path] \cup DOMAIN collect_re_exports(Current)]
  BY DEF ReExport, Running, checker_vars, evaluator_vars
<1>2. Passes /\ Surfaces
  BY DEF LinkInv
<1>3. /\ IsProgram(program) /\ pos \in 1..Len(Modules) /\ Current \in Range(Modules)
      /\ Current.path \in Paths /\ ModuleAt(Current.path) = Current
      /\ \A m \in Range(Modules) : m.path \in Paths /\ ModuleAt(m.path) = m
  BY <1>2, CurrentModule
<1>4. /\ program' = program /\ outcome' = outcome /\ pos' \in 1..Len(Modules)
      /\ phase' \in {"reexport", "scope"}
      /\ Extended' = Extended \cup {Current.path}
  BY <1>1, <1>2, PassMoves
<1>5. /\ Resolved = {} /\ Checked = {} /\ Evaluated = {}
      /\ Resolved' = {} /\ Checked' = {} /\ Evaluated' = {}
  <2>1. /\ Resolved' = Resolved /\ Checked' = Checked /\ Evaluated' = Evaluated
    BY <1>1, <1>2, PassMoves
  <2> QED BY <1>1, <2>1 DEF Resolved, Checked, Evaluated, Treated
<1>6. Modules' = Modules /\ Paths' = Paths /\ \A p : ModuleAt(p)' = ModuleAt(p)
  BY <1>4, ProgramStays
<1>7. DOMAIN pub_surface = Paths /\ DOMAIN pub_surface' = Paths
  BY <1>1, <1>2 DEF Passes
<1>8. Passes'
  BY <1>1, <1>2, <1>4, <1>5, <1>6, <1>7 DEF Passes
<1> DEFINE added == DOMAIN collect_re_exports(Current)
<1>9. \A p \in Paths : pub_surface'[p] =
        pub_surface[p] \cup (IF p = Current.path THEN added ELSE {})
  BY <1>1, <1>7
<1>10. added \subseteq Names
  BY <1>2, <1>3, ReExportsAreNames DEF Surfaces
<1>11. \A m : DOMAIN collect_re_exports(m) \subseteq DOMAIN collect_re_exports(m)'
  <2>1. \A p : surface_of(p) \subseteq surface_of(p)'
    BY <1>7, <1>9 DEF surface_of
  <2> QED BY <1>4, <2>1, ReExportsGrow
<1>12. Surfaces'
  <2>1. \A p \in Paths : pub_surface'[p] \subseteq Names
    BY <1>2, <1>7, <1>9, <1>10 DEF Surfaces
  <2>2. \A p \in Paths \ {Core} : ModuleAt(p).pub \subseteq pub_surface'[p]
    BY <1>2, <1>7, <1>9 DEF Surfaces
  <2>3. ASSUME NEW m \in Range(Modules)
        PROVE  pub_surface'[m.path] \subseteq m.pub \cup
                 (IF m.path \in Extended' THEN DOMAIN collect_re_exports(m)' ELSE {})
    <3>1. pub_surface[m.path] \subseteq m.pub \cup
            (IF m.path \in Extended THEN DOMAIN collect_re_exports(m) ELSE {})
      BY <1>1, <1>2 DEF Surfaces
    <3>2. m.path = Current.path => added = DOMAIN collect_re_exports(m)
      <4>1. m.path = Current.path => m = Current
        BY <1>3
      <4> QED BY <4>1
    <3>3. DOMAIN collect_re_exports(m) \subseteq DOMAIN collect_re_exports(m)'
      BY <1>11
    <3> HIDE DEF added
    <3> QED BY <1>3, <1>4, <1>9, <3>1, <3>2, <3>3
  <2> QED BY <1>6, <1>7, <2>1, <2>2, <2>3 DEF Surfaces
<1>13. Exports'
  <2>1. DOMAIN exports = {Core}
    BY <1>2, <1>5 DEF Passes
  <2> QED BY <1>1, <1>4, <2>1, ExportsStay DEF LinkInv
<1>14. Scopes' /\ CheckedTables' /\ Environments'
  BY <1>5 DEF Scopes, CheckedTables, Environments
<1> QED BY <1>8, <1>12, <1>13, <1>14 DEF LinkInv

\* A finite set of things makes finitely many.
LEMMA FiniteImage ==
  ASSUME NEW f, IsFiniteSet(DOMAIN f)
  PROVE  IsFiniteSet(Range(f))
<1> DEFINE S == DOMAIN f
           T == {f[x] : x \in S}
           g == [x \in S |-> f[x]]
<1>1. g \in [S -> T] /\ \A t \in T : \E s \in S : g[s] = t
  OBVIOUS
<1>2. g \in Surjection(S, T)
  BY <1>1 DEF Surjection
<1>3. IsFiniteSet(T)
  BY <1>2, FS_Surjection
<1> QED BY <1>3 DEF Range

\* What the scope of a module holds.
LEMMA ScopeOfCurrent ==
  ASSUME IsProgram(program), NEW p \in Paths
  PROVE  LET m == ModuleAt(p) IN
         /\ DOMAIN resolve_module(m).explicit \subseteq Names
         /\ IsFiniteSet(DOMAIN resolve_module(m).explicit)
         /\ DOMAIN resolve_module(m).globs \subseteq 1..Len(m.imports)
         /\ resolve_module(m).re_exports = collect_re_exports(m)
<1> DEFINE m == ModuleAt(p)
           local_names == [i \in item_leaves(m) |-> m.imports[i].as]
<1>1. /\ m.imports \in Seq(Leaf)
      /\ \A i \in 1..Len(m.imports) : m.imports[i].name # Glob => m.imports[i].as \in Names
  BY LeavesOf
<1>2. Len(m.imports) \in Nat /\ DOMAIN m.imports = 1..Len(m.imports)
  BY <1>1, LenProperties
<1>3. item_leaves(m) \subseteq 1..Len(m.imports)
  BY DEF item_leaves
<1>4. IsFiniteSet(item_leaves(m))
  <2>1. IsFiniteSet(1..Len(m.imports))
    BY <1>2, FS_Interval
  <2>2. item_leaves(m) \in SUBSET (1..Len(m.imports))
    BY <1>3
  <2> HIDE DEF m
  <2> QED BY <2>1, <2>2, FS_Subset
<1>5. DOMAIN resolve_module(m).explicit = Range(local_names)
  <2>1. DOMAIN resolve_module(m).explicit = {m.imports[i].as : i \in item_leaves(m)}
    BY DEF resolve_module
  <2>2. Range(local_names) = {m.imports[i].as : i \in item_leaves(m)}
    BY DEF Range
  <2> QED BY <2>1, <2>2
<1>6. IsFiniteSet(Range(local_names))
  BY <1>4, FiniteImage
<1>7. Range(local_names) \subseteq Names
  BY <1>1 DEF Range, item_leaves
<1>8. DOMAIN resolve_module(m).globs \subseteq 1..Len(m.imports)
  BY <1>2 DEF resolve_module
<1>9. resolve_module(m).re_exports = collect_re_exports(m)
  BY DEF resolve_module
<1> HIDE DEF m, local_names
<1> QED BY <1>5, <1>6, <1>7, <1>8, <1>9 DEF m

\* Third pass: the scope of the current module.
LEMMA ResolveScopeStep == LinkInv /\ ResolveScope => LinkInv'
<1> SUFFICES ASSUME LinkInv, ResolveScope PROVE LinkInv'
  OBVIOUS
<1> DEFINE path == Current.path
<1>1. /\ phase = "scope" /\ Advance("check")
      /\ UNCHANGED <<exports, type_context, checked, closures, envs>>
      /\ scopes' = Entry(path, resolve_module(Current)) ?? scopes
      /\ pub_surface' = IF pos < Len(Modules) THEN pub_surface
                        ELSE Entry(Core, CoreTypes) ?? pub_surface
  BY DEF ResolveScope, Running, checker_vars, evaluator_vars
<1>2. Passes /\ Surfaces /\ Scopes
  BY DEF LinkInv
<1>3. /\ IsProgram(program) /\ pos \in 1..Len(Modules) /\ Current \in Range(Modules)
      /\ path \in Paths /\ ModuleAt(path) = Current
  BY <1>2, CurrentModule
<1>4. /\ program' = program /\ outcome' = outcome /\ pos' \in 1..Len(Modules)
      /\ phase' = IF pos < Len(Modules) THEN "scope" ELSE "check"
      /\ Extended' = Extended /\ Extended = Paths
      /\ Resolved' = Resolved \cup {path} /\ path \notin Resolved /\ Resolved \subseteq Paths
  BY <1>1, <1>2, PassMoves
<1>5. /\ Checked = {} /\ Evaluated = {} /\ Checked' = {} /\ Evaluated' = {}
  <2>1. /\ Checked' = Checked /\ Evaluated' = Evaluated
    BY <1>1, <1>2, PassMoves
  <2> QED BY <1>1, <2>1 DEF Checked, Evaluated, Treated
<1>6. Modules' = Modules /\ Paths' = Paths /\ \A p : ModuleAt(p)' = ModuleAt(p)
  BY <1>4, ProgramStays
<1>7. DOMAIN pub_surface = Paths /\ DOMAIN scopes = Resolved /\ Core \notin Paths
  BY <1>1, <1>2, <1>3, ModulesOfPaths DEF Passes
<1>8. /\ DOMAIN scopes' = Resolved'
      /\ scopes'[path] = resolve_module(Current)
      /\ \A p \in Resolved : scopes'[p] = scopes[p]
  BY <1>1, <1>4, <1>7 DEF ??, Entry
<1>9. /\ DOMAIN pub_surface' = IF phase' = "scope" THEN Paths ELSE Paths \cup {Core}
      /\ \A p \in Paths : pub_surface'[p] = pub_surface[p]
      /\ phase' = "check" => pub_surface'[Core] = CoreTypes
  BY <1>1, <1>4, <1>7 DEF ??, Entry
<1>10. Passes'
  BY <1>1, <1>2, <1>4, <1>5, <1>6, <1>8, <1>9 DEF Passes
<1>11. Surfaces'
  <2>1. CASE phase' = "scope"
    <3>1. pub_surface' = pub_surface
      BY <1>1, <1>4, <2>1
    <3> QED BY <1>1, <1>2, <1>4, <2>1, <3>1, SurfacesStay
  <2>2. CASE phase' = "check"
    BY <1>2, <1>6, <1>7, <1>9, <2>2, NamesAssumption DEF Surfaces
  <2> QED BY <1>4, <2>1, <2>2
<1>12. Scopes'
  <2>1. ASSUME NEW p \in Resolved
        PROVE  ScopeOf(p)'
    <3>1. ScopeOf(p) /\ p \in Paths
      BY <1>2, <1>4, <2>1 DEF Scopes
    <3> QED BY <1>6, <1>8, <1>9, <2>1, <3>1 DEF ScopeOf
  <2>2. ASSUME NEW p \in Resolved', p \notin Resolved
        PROVE  ScopeOf(p)'
    <3>1. p = path /\ ModuleAt(p) = Current
      BY <1>3, <1>4, <2>2
    <3>2. pub_surface[p] \subseteq ModuleAt(p).pub \cup DOMAIN collect_re_exports(Current)
      BY <1>1, <1>2, <1>3, <1>4, <3>1 DEF Surfaces
    <3>3. /\ DOMAIN resolve_module(Current).explicit \subseteq Names
          /\ IsFiniteSet(DOMAIN resolve_module(Current).explicit)
          /\ DOMAIN resolve_module(Current).globs \subseteq 1..Len(ModuleAt(p).imports)
          /\ resolve_module(Current).re_exports = collect_re_exports(Current)
      BY <1>3, <3>1, ScopeOfCurrent
    <3>4. scopes'[p] = resolve_module(Current) /\ pub_surface'[p] = pub_surface[p]
      BY <1>3, <1>8, <1>9, <3>1
    <3> QED BY <1>6, <3>2, <3>3, <3>4 DEF ScopeOf
  <2> QED BY <2>1, <2>2 DEF Scopes
<1>13. Exports'
  <2>1. DOMAIN exports = {Core}
    BY <1>2, <1>5 DEF Passes
  <2> QED BY <1>1, <1>4, <2>1, ExportsStay DEF LinkInv
<1>14. CheckedTables' /\ Environments'
  BY <1>5 DEF CheckedTables, Environments
<1> QED BY <1>10, <1>11, <1>12, <1>13, <1>14 DEF LinkInv

------------------------------------------------------------------------------
(***************************************************************************)
(* The type checker.                                                       *)
(***************************************************************************)
\* A name a glob gives comes from a last one that gives it.
LEMMA GlobFacts ==
  ASSUME NEW m, NEW k \in Nat, DOMAIN globs(m) \subseteq 1..k, NEW ex, NEW n
  PROVE  /\ n \in glob_names(m, ex) <=> globs_giving(m, n, ex) # {}
         /\ n \in glob_names(m, ex) => Max(globs_giving(m, n, ex)) \in globs_giving(m, n, ex)
         /\ \A i \in globs_giving(m, n, ex) :
              /\ globs(m)[i] \in Range(globs(m)) /\ globs(m)[i] \in DOMAIN ex
              /\ n \in DOMAIN ex[globs(m)[i]]
<1>1. n \in glob_names(m, ex) <=> globs_giving(m, n, ex) # {}
  BY DEF glob_names, globs_giving, Range
<1>2. globs_giving(m, n, ex) \subseteq 1..k
  BY DEF globs_giving
<1>3. globs_giving(m, n, ex) # {} => Max(globs_giving(m, n, ex)) \in globs_giving(m, n, ex)
  <2> DEFINE S == globs_giving(m, n, ex)
  <2>1. S \subseteq 1..k
    BY <1>2
  <2> HIDE DEF S
  <2>2. S # {} => Max(S) \in S
    BY <2>1, NonEmptyHasMax
  <2> QED BY <2>2 DEF S
<1> QED BY <1>1, <1>3 DEF globs_giving, Range

\* What the checker knows of the module it is at.
AtModule(p) ==
  /\ p \in Paths /\ ModuleAt(p).path = p
  /\ ScopeOf(p) /\ Exports /\ Core \in DOMAIN exports /\ p \in DOMAIN pub_surface
  /\ Len(ModuleAt(p).imports) \in Nat
  /\ \A q \in DOMAIN pub_surface : pub_surface[q] \subseteq Names

\* Where the schemes a module imports come from.
LEMMA ImportSchemes ==
  ASSUME NEW p, AtModule(p), NEW l \in DOMAIN build_import_schemes(ModuleAt(p))
  PROVE  LET m == ModuleAt(p)
             o == build_import_schemes(m)[l] IN
         /\ l \in Names /\ Sourced(o)
         /\ \/ /\ l \in DOMAIN explicit(m) /\ has_scheme(explicit(m)[l])
               /\ o = exports[explicit(m)[l].module][explicit(m)[l].name]
            \/ \E i \in globs_giving(m, l, exports) : o = exports[globs(m)[i]][l]
            \/ l \in CoreFuns /\ o = Origin(Core, l)
<1> DEFINE m == ModuleAt(p)
           with_scheme == {x \in DOMAIN explicit(m) : has_scheme(explicit(m)[x])}
           o == build_import_schemes(m)[l]
<1>1. m.path = p /\ ScopeOf(p) /\ Exports /\ Len(m.imports) \in Nat
  BY DEF AtModule
<1>2. /\ exports[Core] = core_bindings /\ DOMAIN core_bindings = CoreFuns
      /\ Core \in DOMAIN exports => ExportsOf(Core)
      /\ \A q \in DOMAIN exports : ExportsOf(q)
  BY <1>1 DEF Exports, core_bindings
<1>3. DOMAIN explicit(m) \subseteq Names /\ DOMAIN globs(m) \subseteq 1..Len(m.imports)
  BY <1>1 DEF ScopeOf, explicit, globs
<1> HIDE DEF m
<1>4. /\ DOMAIN build_import_schemes(m) = with_scheme \cup glob_names(m, exports) \cup CoreFuns
      /\ l \in with_scheme => o = exports[explicit(m)[l].module][explicit(m)[l].name]
      /\ l \notin with_scheme /\ l \in glob_names(m, exports) =>
           o = exports[globs(m)[Max(globs_giving(m, l, exports))]][l]
      /\ l \notin with_scheme /\ l \notin glob_names(m, exports) => o = core_bindings[l]
  <2> DEFINE x == [i \in with_scheme |-> exports[explicit(m)[i].module][explicit(m)[i].name]]
             g == [n \in glob_names(m, exports) |->
                     exports[globs(m)[Max(globs_giving(m, n, exports))]][n]]
  <2>1. build_import_schemes(m) = x ?? g ?? core_bindings
    BY <1>2 DEF build_import_schemes
  <2>2. DOMAIN x = with_scheme /\ DOMAIN g = glob_names(m, exports)
    OBVIOUS
  <2>3. /\ l \in with_scheme => x[l] = exports[explicit(m)[l].module][explicit(m)[l].name]
        /\ l \in glob_names(m, exports) =>
             g[l] = exports[globs(m)[Max(globs_giving(m, l, exports))]][l]
    OBVIOUS
  <2>4. l \in DOMAIN build_import_schemes(m)
    BY DEF m
  <2> HIDE DEF x, g, with_scheme
  <2> QED BY <1>2, <2>1, <2>2, <2>3, <2>4 DEF ??
<1>5. l \in with_scheme \cup glob_names(m, exports) \cup CoreFuns
  BY <1>4 DEF m
<1>6. CASE l \in with_scheme
  <2>1. has_scheme(explicit(m)[l]) /\ l \in Names
    BY <1>3, <1>6
  <2>2. Sourced(o)
    BY <1>2, <1>4, <1>6, <2>1 DEF has_scheme, ExportsOf
  <2> QED BY <1>4, <1>6, <2>1, <2>2 DEF m
<1>7. CASE l \notin with_scheme /\ l \in glob_names(m, exports)
  <2> DEFINE i == Max(globs_giving(m, l, exports))
  <2>1. /\ i \in globs_giving(m, l, exports) /\ globs(m)[i] \in DOMAIN exports
        /\ l \in DOMAIN exports[globs(m)[i]]
    BY <1>1, <1>3, <1>7, GlobFacts DEF m
  <2>2. o = exports[globs(m)[i]][l]
    BY <1>4, <1>7
  <2> HIDE DEF i, o
  <2>3. Sourced(o) /\ l \in Names
    BY <1>2, <2>1, <2>2 DEF ExportsOf
  <2> QED BY <2>1, <2>2, <2>3 DEF m, o
<1>8. CASE l \notin with_scheme /\ l \notin glob_names(m, exports)
  <2>1. l \in CoreFuns /\ o = core_bindings[l] /\ core_bindings[l] = Origin(Core, l)
    BY <1>4, <1>5, <1>8 DEF core_bindings
  <2>2. l \in Names /\ Sourced(o)
    <3>1. Origin(Core, l) = [module |-> Core, name |-> l, nested |-> FALSE] /\ l \in Names
      BY <2>1, NamesAssumption DEF Origin
    <3>2. Origin(Core, l) \in Origins
      BY <3>1 DEF Origins
    <3>3. Core \in DOMAIN exports
      BY <1>1 DEF AtModule
    <3> QED BY <1>2, <2>1, <3>1, <3>2, <3>3 DEF Sourced
  <2> QED BY <2>1, <2>2 DEF m
<1> QED BY <1>6, <1>7, <1>8

\* The schemes of a module: builtins, then its own, then what it imports.
LEMMA SchemesOf ==
  ASSUME NEW p, AtModule(p)
  PROVE  LET m == ModuleAt(p) IN
         /\ DOMAIN scheme_env(m) = CoreFuns \cup m.funs \cup m.nested \cup DOMAIN build_import_schemes(m)
         /\ \A n \in CoreFuns : scheme_env(m)[n] = Origin(Core, n)
         /\ \A n \in (m.funs \cup m.nested) \ CoreFuns :
              scheme_env(m)[n] = IF n \in m.nested THEN Nested(p, n) ELSE Origin(p, n)
         /\ \A n \in DOMAIN build_import_schemes(m) \ (CoreFuns \cup m.funs \cup m.nested) :
              scheme_env(m)[n] = build_import_schemes(m)[n]
<1> DEFINE m == ModuleAt(p)
           local == local_schemes(m)
<1>1. m.path = p
  BY DEF AtModule
<1> HIDE DEF m
<1>2. DOMAIN core_bindings = CoreFuns /\ \A n \in CoreFuns : core_bindings[n] = Origin(Core, n)
  BY DEF core_bindings
<1>3. /\ DOMAIN local = m.funs \cup m.nested
      /\ \A n \in m.funs \cup m.nested :
           local[n] = IF n \in m.nested THEN Nested(p, n) ELSE Origin(p, n)
  BY <1>1 DEF local_schemes
<1>4. scheme_env(m) = core_bindings ?? local ?? build_import_schemes(m)
  BY DEF scheme_env
<1> HIDE DEF local
<1>5. DOMAIN scheme_env(m) = CoreFuns \cup m.funs \cup m.nested \cup DOMAIN build_import_schemes(m)
  BY <1>2, <1>3, <1>4 DEF ??
<1>6. \A n \in (m.funs \cup m.nested) \ CoreFuns : scheme_env(m)[n] = local[n]
  BY <1>2, <1>3, <1>4 DEF ??
<1>7. \A n \in DOMAIN build_import_schemes(m) \ (CoreFuns \cup m.funs \cup m.nested) :
        scheme_env(m)[n] = build_import_schemes(m)[n]
  BY <1>2, <1>3, <1>4 DEF ??
<1>8. \A n \in CoreFuns : scheme_env(m)[n] = core_bindings[n]
  BY <1>2, <1>4 DEF ??
<1> QED BY <1>2, <1>3, <1>5, <1>6, <1>7, <1>8 DEF m

\* What a module exports: names of its surface, with the scheme of its own
\* function, of one it imports, or of one it re-exports.
LEMMA ExportsOfCurrent ==
  ASSUME NEW p, AtModule(p)
  PROVE  LET m == ModuleAt(p)
             f == filter_pub_schemes(m) IN
         /\ DOMAIN f \subseteq pub_surface[p]
         /\ (DOMAIN scheme_env(m) \ CoreFuns) \cap pub_surface[p] \subseteq DOMAIN f
         /\ \A n \in DOMAIN f :
              \/ n \in DOMAIN scheme_env(m) \ CoreFuns /\ f[n] = scheme_env(m)[n]
              \/ Sourced(f[n])
         /\ \A n \in (DOMAIN scheme_env(m) \ CoreFuns) \cap pub_surface[p] : f[n] = scheme_env(m)[n]
<1> DEFINE m == ModuleAt(p)
           f == filter_pub_schemes(m)
           own == (DOMAIN scheme_env(m) \ CoreFuns) \cap pub_surface[p]
           re == scopes[p].re_exports
           pulled == {l \in (DOMAIN re \cap pub_surface[p]) \ own : has_scheme(re[l])}
           x == [n \in own |-> scheme_env(m)[n]]
           y == [l \in pulled |-> exports[re[l].module][re[l].name]]
<1>1. /\ m.path = p /\ surface_of(p) = pub_surface[p]
      /\ \A q \in DOMAIN exports : ExportsOf(q)
  BY DEF AtModule, surface_of, Exports
<1> HIDE DEF m
<1>2. f = x ?? y
  BY <1>1 DEF filter_pub_schemes
<1>3. DOMAIN x = own /\ DOMAIN y = pulled /\ \A n \in own : x[n] = scheme_env(m)[n]
  OBVIOUS
<1>4. own \subseteq pub_surface[p] /\ pulled \subseteq pub_surface[p]
  OBVIOUS
<1>5. \A l \in pulled : Sourced(y[l])
  <2> TAKE l \in pulled
  <2>1. /\ re[l].module \in DOMAIN exports /\ re[l].name \in DOMAIN exports[re[l].module]
        /\ y[l] = exports[re[l].module][re[l].name]
    BY DEF has_scheme
  <2> HIDE DEF y, re, pulled
  <2>2. ExportsOf(re[l].module)
    BY <1>1, <2>1
  <2> QED BY <2>1, <2>2 DEF ExportsOf
<1> HIDE DEF x, y, pulled
<1>6. DOMAIN f = own \cup pulled
  BY <1>2, <1>3 DEF ??
<1>7. /\ \A n \in own : f[n] = scheme_env(m)[n]
      /\ \A n \in pulled \ own : f[n] = y[n]
  BY <1>2, <1>3 DEF ??
<1>8. \A n \in DOMAIN f : (n \in DOMAIN scheme_env(m) \ CoreFuns /\ f[n] = scheme_env(m)[n]) \/ Sourced(f[n])
  BY <1>5, <1>6, <1>7
<1> HIDE DEF f
<1> QED BY <1>4, <1>6, <1>7, <1>8 DEF m, f

\* A table t that leads from what the module m imports to where it is.
LeadsToImports(t, m, ex) ==
  LET items == {l \in DOMAIN explicit(m) : explicit(m)[l].kind = "Item"} IN
  /\ DOMAIN t = items \cup glob_names(m, ex) \cup CoreFuns
  /\ \A l \in items : t[l] = [module |-> explicit(m)[l].module, name |-> explicit(m)[l].name]
  /\ \A n \in glob_names(m, ex) \ items :
       \E i \in globs_giving(m, n, ex) : t[n] = [module |-> globs(m)[i], name |-> n]
  /\ \A n \in CoreFuns \ (items \cup glob_names(m, ex)) : t[n].module = Core

\* The checker records where the evaluator will find what a module imports.
LEMMA ImportedNames ==
  ASSUME NEW p, AtModule(p), NEW ex
  PROVE  LeadsToImports(imported_names(ModuleAt(p), ex), ModuleAt(p), ex)
<1> DEFINE m == ModuleAt(p)
           t == imported_names(m, ex)
           items == {l \in DOMAIN explicit(m) : explicit(m)[l].kind = "Item"}
           x == [l \in items |-> [module |-> explicit(m)[l].module, name |-> explicit(m)[l].name]]
           g == [n \in glob_names(m, ex) |-> [module |-> globs(m)[Max(globs_giving(m, n, ex))], name |-> n]]
           c == [n \in CoreFuns |-> [module |-> Core, name |-> n]]
<1>1. Len(m.imports) \in Nat /\ DOMAIN globs(m) \subseteq 1..Len(m.imports)
  BY DEF AtModule, ScopeOf, globs
<1> HIDE DEF m
<1>2. t = x ?? g ?? c
  BY DEF imported_names
<1>3. /\ DOMAIN x = items /\ DOMAIN g = glob_names(m, ex) /\ DOMAIN c = CoreFuns
      /\ \A n \in glob_names(m, ex) : g[n] = [module |-> globs(m)[Max(globs_giving(m, n, ex))], name |-> n]
      /\ \A l \in items : x[l] = [module |-> explicit(m)[l].module, name |-> explicit(m)[l].name]
      /\ \A n \in CoreFuns : c[n].module = Core
  OBVIOUS
<1> HIDE DEF x, g, c, t
<1>4. DOMAIN t = items \cup glob_names(m, ex) \cup CoreFuns
  BY <1>2, <1>3 DEF ??
<1>5. /\ \A l \in items : t[l] = x[l]
      /\ \A n \in glob_names(m, ex) \ items : t[n] = g[n]
      /\ \A n \in CoreFuns \ (items \cup glob_names(m, ex)) : t[n] = c[n]
  BY <1>2, <1>3 DEF ??
<1>6. \A n \in glob_names(m, ex) : Max(globs_giving(m, n, ex)) \in globs_giving(m, n, ex)
  BY <1>1, GlobFacts
<1> QED BY <1>3, <1>4, <1>5, <1>6 DEF t, m, LeadsToImports

\* The checker treats the current module.
LEMMA CheckModuleStep == LinkInv /\ CheckModule => LinkInv'
<1> SUFFICES ASSUME LinkInv, CheckModule PROVE LinkInv'
  OBVIOUS
<1> PICK m, p, f, ex, entry :
      /\ m = Current /\ p = Current.path
      /\ f = filter_pub_schemes(Current) /\ ex = exports'
      /\ entry = [imported       |-> build_import_schemes(Current),
                  schemes        |-> scheme_env(Current),
                  imported_names |-> imported_names(Current, exports'),
                  import_aliases |-> import_aliases(Current),
                  types          |-> type_context']
  OBVIOUS
<1>1. /\ phase = "check" /\ Advance("eval")
      /\ UNCHANGED <<pub_surface, scopes, closures, envs>>
      /\ ~glob_conflict(m) /\ import_errors(m) = {}
      /\ exports' = Entry(p, f) ?? exports /\ m.path = p
      /\ type_context' = type_context \cup {Origin(p, t) : t \in m.types \cup m.methods}
      /\ checked' = Entry(p, entry) ?? checked
  BY DEF CheckModule, Running, resolver_vars, evaluator_vars
<1>2. Passes /\ Surfaces /\ Scopes /\ Exports /\ CheckedTables
  BY DEF LinkInv
<1>3. /\ IsProgram(program) /\ pos \in 1..Len(Modules)
      /\ p \in Paths /\ ModuleAt(p) = m
  BY <1>2, CurrentModule
<1>4. /\ program' = program /\ outcome' = outcome /\ pos' \in 1..Len(Modules)
      /\ phase' \in {"check", "eval"}
      /\ Resolved' = Resolved /\ Resolved = Paths /\ Evaluated \subseteq Checked
      /\ Checked' = Checked \cup {p} /\ p \notin Checked
  BY <1>1, <1>2, PassMoves
<1>5. Evaluated = {} /\ Evaluated' = {}
  <2>1. Evaluated' = Evaluated
    BY <1>1, <1>2, PassMoves
  <2> QED BY <1>1, <2>1 DEF Evaluated, Treated
<1>6. /\ Modules' = Modules /\ Paths' = Paths /\ Origins' = Origins
      /\ \A q : ModuleAt(q)' = ModuleAt(q)
  BY <1>4, ProgramStays
<1>7. /\ DOMAIN pub_surface = Paths \cup {Core} /\ DOMAIN scopes = Paths
      /\ DOMAIN exports = Checked \cup {Core} /\ DOMAIN checked = Checked
      /\ Core \notin Paths /\ p # Core
  BY <1>1, <1>2, <1>3, <1>4, ModulesOfPaths DEF Passes
<1>8. AtModule(p)
  <2>1. Len(m.imports) \in Nat
    BY <1>3, LeavesOf, LenProperties
  <2> QED BY <1>1, <1>2, <1>3, <1>4, <1>7, <2>1 DEF AtModule, Scopes, Surfaces
<1>9. /\ DOMAIN exports' = Checked' \cup {Core} /\ exports'[p] = f
      /\ \A q \in DOMAIN exports : exports'[q] = exports[q]
  BY <1>1, <1>4, <1>7 DEF ??, Entry
<1>10. /\ DOMAIN checked' = Checked' /\ checked'[p] = entry
       /\ \A q \in Checked : checked'[q] = checked[q]
  BY <1>1, <1>4, <1>7 DEF ??, Entry
<1>11. Grown
  BY <1>7, <1>9, <1>4 DEF Grown
<1>12. Passes'
  <2>1. /\ phase' \in {"check", "eval"} /\ pos' \in 1..Len(Modules) /\ IsProgram(program)'
        /\ DOMAIN pub_surface' = Paths \cup {Core} /\ DOMAIN scopes' = Resolved'
        /\ DOMAIN closures' = Evaluated' /\ DOMAIN envs' = Evaluated'
        /\ outcome' \in Outcomes
    BY <1>1, <1>2, <1>3, <1>4, <1>5, <1>7 DEF Passes, Outcomes
  <2> QED BY <1>6, <1>9, <1>10, <2>1 DEF Passes, Outcomes
<1>13. Surfaces'
  BY <1>1, <1>2, <1>4, SurfacesStay
<1>14. Scopes'
  BY <1>1, <1>2, <1>4, ScopesStay
<1>schemes. /\ \A n \in (m.funs \cup m.nested) \ CoreFuns :
                 scheme_env(m)[n] = IF n \in m.nested THEN Nested(p, n) ELSE Origin(p, n)
            /\ \A n \in DOMAIN scheme_env(m) \ (CoreFuns \cup m.funs \cup m.nested) :
                 /\ n \in DOMAIN build_import_schemes(m)
                 /\ scheme_env(m)[n] = build_import_schemes(m)[n]
            /\ m.funs \subseteq DOMAIN scheme_env(m)
  <2>1. LET mm == ModuleAt(p) IN
        /\ DOMAIN scheme_env(mm) = CoreFuns \cup mm.funs \cup mm.nested \cup DOMAIN build_import_schemes(mm)
        /\ \A n \in (mm.funs \cup mm.nested) \ CoreFuns :
              scheme_env(mm)[n] = IF n \in mm.nested THEN Nested(p, n) ELSE Origin(p, n)
        /\ \A n \in DOMAIN build_import_schemes(mm) \ (CoreFuns \cup mm.funs \cup mm.nested) :
              scheme_env(mm)[n] = build_import_schemes(mm)[n]
    BY <1>8, SchemesOf
  <2> QED BY <1>3, <2>1
<1>15. ASSUME NEW n \in DOMAIN f
       PROVE  n \in pub_surface[p] /\ Sourced(f[n])'
  <2>1. n \in pub_surface[p]
    BY <1>3, <1>8, ExportsOfCurrent
  <2> SUFFICES Sourced(f[n])'
    BY <2>1
  <2>2. CASE Sourced(f[n])
    BY <1>4, <1>6, <1>11, <2>2 DEF Sourced, Grown
  <2>3. CASE n \in DOMAIN scheme_env(m) \ CoreFuns /\ f[n] = scheme_env(m)[n]
    <3>1. CASE n \in m.funs \cup m.nested
      <4>1. f[n] = IF n \in m.nested THEN Nested(p, n) ELSE Origin(p, n)
        BY <1>schemes, <2>3, <3>1
      <4>2. n \in Names
        BY <1>3, <3>1, Declarations
      <4>3. /\ f[n] \in Origins /\ f[n].module = p /\ f[n].name = n
            /\ f[n].nested \/ n \in m.funs
        BY <1>3, <3>1, <4>1, <4>2 DEF Origins, Origin, Nested
      <4> QED BY <1>3, <1>4, <1>6, <1>9, <1>15, <4>3 DEF Sourced
    <3>2. CASE n \notin m.funs \cup m.nested
      <4>1. n \in DOMAIN build_import_schemes(m) /\ f[n] = build_import_schemes(m)[n]
        BY <1>schemes, <2>3, <3>2
      <4>2. Sourced(f[n])
        BY <1>3, <1>8, <4>1, ImportSchemes
      <4> QED BY <2>2, <4>2
    <3> QED BY <3>1, <3>2
  <2>4. \/ n \in DOMAIN scheme_env(m) \ CoreFuns /\ f[n] = scheme_env(m)[n]
        \/ Sourced(f[n])
    BY <1>3, <1>8, <1>15, ExportsOfCurrent
  <2> QED BY <2>1, <2>2, <2>3, <2>4
<1>16. Exports'
  <2>1. ASSUME NEW q \in DOMAIN exports
        PROVE  ExportsOf(q)'
    <3>1. ExportsOf(q)
      BY <1>2, <2>1 DEF Exports
    <3>2. ASSUME NEW n \in DOMAIN exports[q]
          PROVE  Sourced(exports[q][n])'
      <4>1. Sourced(exports[q][n])
        BY <3>1, <3>2 DEF ExportsOf
      <4> QED BY <1>4, <1>6, <1>11, <4>1 DEF Sourced, Grown
    <3>3. exports'[q] = exports[q]
      BY <1>9, <2>1
    <3>4. \A n \in DOMAIN exports'[q] : Sourced(exports[q][n])' 
      BY <3>2, <3>3
    <3> QED BY <1>1, <3>1, <3>3, <3>4 DEF ExportsOf, Sourced
  <2>2. ExportsOf(p)'
    <3>1. pub_surface[p] \subseteq Names
      BY <1>8 DEF AtModule
    <3> QED BY <1>1, <1>9, <1>15, <3>1 DEF ExportsOf, Sourced
  <2>3. type_context' \subseteq Origins
    <3>1. m.types \cup m.methods \subseteq Names
      BY <1>3, Declarations
    <3>2. \A t \in m.types \cup m.methods : Origin(p, t) \in Origins
      BY <1>3, <3>1 DEF Origin, Origins
    <3> QED BY <1>1, <1>2, <3>2 DEF Exports
  <2>4. exports'[Core] = core_bindings
    BY <1>2, <1>7, <1>9 DEF Exports
  <2> QED BY <1>4, <1>6, <1>7, <1>9, <2>1, <2>2, <2>3, <2>4 DEF Exports, core_bindings, Origin
<1>17. OwnSchemes(p)'
  <2>1. ASSUME NEW n \in m.funs \ (CoreFuns \cup m.nested)
        PROVE  /\ entry.schemes[n] = Origin(p, n)
               /\ n \in m.pub => n \in DOMAIN f /\ f[n] = Origin(p, n)
    <3>1. entry.schemes = scheme_env(m)
      OBVIOUS
    <3>2. scheme_env(m)[n] = Origin(p, n) /\ n \in DOMAIN scheme_env(m) \ CoreFuns
      BY <1>schemes, <2>1
    <3>3. m.pub \subseteq pub_surface[p]
      BY <1>2, <1>3, <1>7 DEF Surfaces
    <3>4. LET mm == ModuleAt(p) IN
          /\ (DOMAIN scheme_env(mm) \ CoreFuns) \cap pub_surface[p] \subseteq DOMAIN filter_pub_schemes(mm)
          /\ \A x \in (DOMAIN scheme_env(mm) \ CoreFuns) \cap pub_surface[p] :
               filter_pub_schemes(mm)[x] = scheme_env(mm)[x]
      BY <1>8, ExportsOfCurrent
    <3>5. /\ (DOMAIN scheme_env(m) \ CoreFuns) \cap pub_surface[p] \subseteq DOMAIN f
          /\ \A x \in (DOMAIN scheme_env(m) \ CoreFuns) \cap pub_surface[p] : f[x] = scheme_env(m)[x]
      BY <1>3, <3>4
    <3> QED BY <3>1, <3>2, <3>3, <3>5
  <2> QED BY <1>3, <1>6, <1>9, <1>10, <2>1 DEF OwnSchemes, Origin
<1> DEFINE explicit_m == scopes[p].explicit
<1>18. explicit(m) = explicit_m /\ globs(m) = scopes[p].globs
  BY <1>1 DEF explicit, globs
<1>19. PublicImports(p)'
  <2>1. ASSUME NEW b \in Range(explicit_m), b.module \in Paths
        PROVE  b.name \in pub_surface[b.module]
    <3>1. CASE has_scheme(b)
      <4>1. b.module \in DOMAIN exports /\ b.name \in DOMAIN exports[b.module] /\ b.module # Core
        BY <1>7, <2>1, <3>1 DEF has_scheme
      <4>2. ExportsOf(b.module)
        BY <1>2, <4>1 DEF Exports
      <4> QED BY <4>1, <4>2 DEF ExportsOf
    <3>2. CASE ~has_scheme(b)
      <4>1. b.name \in surface_of(b.module)
        <5> SUFFICES ASSUME b.name \notin surface_of(b.module) PROVE FALSE
          OBVIOUS
        <5>1. b \in Range(explicit(m))
          BY <1>18, <2>1
        <5>2. import_errors(m) # {}
          BY <2>1, <3>2, <5>1 DEF import_errors
        <5> QED BY <1>1, <5>2
      <4> QED BY <1>7, <2>1, <4>1 DEF surface_of
    <3> QED BY <3>1, <3>2
  <2> HIDE DEF explicit_m
  <2>2. explicit_m = scopes'[p].explicit
    BY <1>1 DEF explicit_m
  <2> QED BY <1>1, <1>6, <2>1, <2>2 DEF PublicImports
<1>20. ASSUME NEW l \in DOMAIN entry.imported
       PROVE  /\ Sourced(entry.imported[l])
              /\ entry.imported[l].module # Core => Before(entry.imported[l].module, p)
              /\ \/ l \in DOMAIN explicit_m
                 \/ \E i \in globs_giving(m, l, exports) : entry.imported[l] = exports[globs(m)[i]][l]
                 \/ l \in CoreFuns
  <2>1. entry.imported = build_import_schemes(m) /\ l \in DOMAIN build_import_schemes(ModuleAt(p))
    BY <1>3
  <2>2. LET o == build_import_schemes(ModuleAt(p))[l] IN
        /\ Sourced(o)
        /\ \/ l \in DOMAIN explicit(ModuleAt(p))
           \/ \E i \in globs_giving(ModuleAt(p), l, exports) : o = exports[globs(ModuleAt(p))[i]][l]
           \/ l \in CoreFuns
    BY <1>8, <2>1, ImportSchemes
  <2>3. Sourced(entry.imported[l])
    BY <1>3, <2>1, <2>2
  <2>4. ASSUME entry.imported[l].module # Core
        PROVE  Before(entry.imported[l].module, p)
    <3>1. entry.imported[l].module \in Checked
      BY <1>7, <2>3, <2>4 DEF Sourced
    <3>2. PICK i \in 1..pos - 1 : Modules[i].path = entry.imported[l].module
      BY <1>1, <3>1 DEF Checked, Treated, Seen
    <3>3. i \in 1..Len(Modules) /\ i < pos /\ Modules[pos].path = p
      BY <1>3, ModulesOfPaths DEF Current
    <3> QED BY <1>3, <3>2, <3>3 DEF Before
  <2>5. \/ l \in DOMAIN explicit_m
        \/ \E i \in globs_giving(m, l, exports) : entry.imported[l] = exports[globs(m)[i]][l]
        \/ l \in CoreFuns
    BY <1>3, <1>18, <2>1, <2>2
  <2> QED BY <2>3, <2>4, <2>5
<1>21. LET t == entry.imported_names
           items == {l \in DOMAIN explicit_m : explicit_m[l].kind = "Item"} IN
       /\ DOMAIN t = items \cup glob_names(m, ex) \cup CoreFuns
       /\ \A l \in items : t[l] = [module |-> explicit_m[l].module, name |-> explicit_m[l].name]
       /\ \A n \in glob_names(m, ex) \ items :
            \E i \in globs_giving(m, n, ex) : t[n] = [module |-> globs(m)[i], name |-> n]
       /\ \A n \in CoreFuns \ (items \cup glob_names(m, ex)) : t[n].module = Core
  <2>1. LeadsToImports(imported_names(ModuleAt(p), ex), ModuleAt(p), ex)
    BY <1>8, ImportedNames
  <2>2. LeadsToImports(entry.imported_names, m, ex)
    <3>1. entry.imported_names = imported_names(m, ex) /\ m = ModuleAt(p)
      BY <1>3
    <3> QED BY <2>1, <3>1
  <2> QED BY <1>18, <2>2 DEF LeadsToImports
<1>22. \A x, n :
         /\ n \in glob_names(m, x) <=> globs_giving(m, n, x) # {}
         /\ \A i \in globs_giving(m, n, x) :
              /\ globs(m)[i] \in Range(globs(m)) /\ globs(m)[i] \in DOMAIN x
              /\ n \in DOMAIN x[globs(m)[i]]
  <2>1. Len(m.imports) \in Nat /\ DOMAIN globs(m) \subseteq 1..Len(m.imports)
    BY <1>3, <1>8, <1>18 DEF AtModule, ScopeOf
  <2> QED BY <2>1, GlobFacts
<1> HIDE DEF explicit_m
<1>23. ASSUME NEW l \in DOMAIN entry.imported, ~entry.imported[l].nested,
              (ImportedByName(p, l) \/ ImportedByGlob(p, l))'
       PROVE  \/ l \in CoreFuns
              \/ /\ entry.imported[l].module # Core
                 /\ l \in DOMAIN entry.imported_names
                 /\ entry.imported_names[l] =
                      [module |-> entry.imported[l].module, name |-> entry.imported[l].name]
  <2> PICK o : o = entry.imported[l]
    OBVIOUS
  <2> SUFFICES ASSUME l \notin CoreFuns
               PROVE  /\ o.module # Core /\ l \in DOMAIN entry.imported_names
                      /\ entry.imported_names[l] = [module |-> o.module, name |-> o.name]
    OBVIOUS
  <2>1. /\ o.module \in DOMAIN exports /\ o.name \in DOMAIN exports[o.module]
        /\ o.module = Core => o.name \in CoreFuns
    <3>1. Sourced(o)
      BY <1>20
    <3>2. exports[Core] = core_bindings /\ DOMAIN core_bindings = CoreFuns
      BY <1>2 DEF Exports, core_bindings
    <3> QED BY <3>1, <3>2 DEF Sourced
  <2>2. CASE ImportedByName(p, l)'
    <3>1. /\ l \in DOMAIN explicit_m
          /\ explicit_m[l] = [module |-> o.module, name |-> o.name, kind |-> "Item"]
          /\ o.module # Core \/ l = o.name
      BY <1>1, <1>10, <2>2 DEF ImportedByName, explicit_m
    <3>2. explicit_m[l].kind = "Item" /\ explicit_m[l].module = o.module /\ explicit_m[l].name = o.name
      BY <3>1
    <3>3. o.module # Core
      BY <2>1, <3>1
    <3> QED BY <1>21, <3>1, <3>2, <3>3
  <2>3. CASE ImportedByGlob(p, l)'
    <3>1. /\ l \notin DOMAIN explicit_m /\ l = o.name
          /\ o.module \in Range(globs(m)) /\ p \notin Range(globs(m))
      BY <1>1, <1>10, <1>18, <2>3 DEF ImportedByGlob, explicit_m
    <3>2. o.module # Core
      BY <2>1, <3>1
    <3>3. \A i, j \in globs_giving(m, l, exports) : i = j
      <4>1. globs_giving(m, l, exports) # {} => l \in glob_names(m, exports)
        BY <1>22
      <4> QED BY <1>1, <4>1 DEF glob_conflict
    <3>4. PICK j \in globs_giving(m, l, exports) : globs(m)[j] = o.module
      <4>1. PICK j \in DOMAIN globs(m) : globs(m)[j] = o.module
        BY <3>1 DEF Range
      <4>2. j \in globs_giving(m, l, exports)
        BY <2>1, <3>1, <4>1 DEF globs_giving
      <4> QED BY <4>1, <4>2
    <3>5. globs_giving(m, l, ex) = globs_giving(m, l, exports)
      <4>1. \A i \in DOMAIN globs(m) : globs(m)[i] # p
        BY <3>1 DEF Range
      <4>2. \A q : q # p => /\ q \in DOMAIN ex <=> q \in DOMAIN exports
                            /\ q \in DOMAIN ex => ex[q] = exports[q]
        BY <1>4, <1>7, <1>9
      <4> QED BY <4>1, <4>2 DEF globs_giving
    <3>6. l \in glob_names(m, ex)
      BY <1>22, <3>4, <3>5
    <3>7. PICK i \in globs_giving(m, l, ex) :
            entry.imported_names[l] = [module |-> globs(m)[i], name |-> l]
      BY <1>21, <3>1, <3>6
    <3>8. globs(m)[i] = o.module
      BY <3>3, <3>4, <3>5
    <3>9. l \in DOMAIN entry.imported_names
      BY <1>21, <3>6
    <3> QED BY <3>1, <3>2, <3>7, <3>8, <3>9
  <2> QED BY <1>23, <2>2, <2>3
<1>24. ASSUME NEW n \in DOMAIN entry.imported_names
       PROVE  n \in Names /\ (BroughtIn(p, n)' \/ entry.imported_names[n].module = Core)
  <2>1. CASE n \in DOMAIN explicit_m
    <3>1. DOMAIN explicit_m \subseteq Names
      BY <1>8 DEF AtModule, ScopeOf, explicit_m
    <3> QED BY <1>1, <2>1, <3>1 DEF BroughtIn, explicit_m
  <2>2. CASE n \in glob_names(m, ex)
    <3>1. PICK g \in Range(globs(m)) : g \in DOMAIN exports' /\ n \in DOMAIN exports'[g]
      BY <1>22, <2>2
    <3>2. DOMAIN exports'[g] \subseteq Names
      BY <1>16, <3>1 DEF Exports, ExportsOf
    <3> QED BY <1>1, <1>18, <3>1, <3>2 DEF BroughtIn
  <2>3. CASE n \notin DOMAIN explicit_m /\ n \notin glob_names(m, ex)
    BY <1>21, <2>3, NamesAssumption
  <2> QED BY <2>1, <2>2, <2>3
<1>25. ImportsOf(p)'
  <2>1. ASSUME NEW l \in DOMAIN entry.imported
        PROVE  /\ Sourced(entry.imported[l])'
               /\ entry.imported[l].module # Core => Before(entry.imported[l].module, p)
    <3>1. Sourced(entry.imported[l])
      BY <1>20, <2>1
    <3>2. Sourced(entry.imported[l])'
      BY <1>4, <1>6, <1>11, <3>1 DEF Sourced, Grown
    <3> QED BY <1>20, <2>1, <3>2
  <2>2. DOMAIN entry.import_aliases \subseteq DOMAIN explicit_m
    <3>1. entry.import_aliases = import_aliases(m)
      OBVIOUS
    <3> QED BY <1>18, <3>1 DEF import_aliases
  <2>3. scopes'[p].explicit = explicit_m
    BY <1>1 DEF explicit_m
  <2>4. \A q, r : Before(q, r)' = Before(q, r)
    BY <1>4, ProgramStays
  <2>5. checked'[p] = entry
    BY <1>10
  <2>6. \A l \in DOMAIN entry.imported :
          /\ Sourced(entry.imported[l])'
          /\ entry.imported[l].module # Core => Before(entry.imported[l].module, p)'
    BY <2>1, <2>4
  <2> QED BY <1>23, <1>24, <2>2, <2>3, <2>5, <2>6 DEF ImportsOf, Before, Sourced
<1>26. CheckedTables'
  <2>1. ASSUME NEW q \in Checked
        PROVE  (OwnSchemes(q) /\ PublicImports(q) /\ ImportsOf(q))'
    <3>1. OwnSchemes(q) /\ PublicImports(q) /\ ImportsOf(q) /\ q \in DOMAIN exports
      BY <1>2, <1>7, <2>1 DEF CheckedTables
    <3> QED BY <1>1, <1>4, <1>10, <1>11, <2>1, <3>1, CheckedTableStays
  <2> QED BY <1>4, <1>17, <1>19, <1>25, <2>1 DEF CheckedTables
<1>27. Environments'
  BY <1>5 DEF Environments
<1> QED BY <1>12, <1>13, <1>14, <1>16, <1>26, <1>27 DEF LinkInv

------------------------------------------------------------------------------
(***************************************************************************)
(* The evaluator.                                                          *)
(***************************************************************************)
\* An environment of the module p, with its declarations `own`.
IsEnvironment(env, p, own) ==
  /\ IsTable(env, Origins)
  /\ \A n \in own : n \in DOMAIN env /\ env[n] = Origin(p, n)
  /\ \A n \in DOMAIN env : env[n].module \in {p, Core} \/ BroughtIn(p, n)

\* The module whose turn it is finds what it imports in the environments
\* before it.
BindsImports(env, p) ==
  \A l \in DOMAIN checked[p].imported :
    ~checked[p].imported[l].nested /\ (ImportedByName(p, l) \/ ImportedByGlob(p, l))
      => l \in DOMAIN env

\* The imports of module p that have a value in the environment of another.
Found(p) ==
  LET imports == checked[p].imported_names IN
  {n \in DOMAIN imports : /\ imports[n].module \in DOMAIN envs
                          /\ imports[n].name \in DOMAIN envs[imports[n].module]}

\* What the functions of a module capture, name by name.
CapturedBy(f, m) ==
  LET p == m.path
      imports == checked[m.path].imported_names
      own == m.funs \cup m.methods IN
  /\ DOMAIN f = own \cup Found(p) \cup CoreFuns
  /\ \A n \in own : f[n] = Origin(p, n)
  /\ \A n \in Found(p) \ own : f[n] = envs[imports[n].module][imports[n].name]
  /\ \A n \in CoreFuns \ (Found(p) \cup own) : f[n] = Origin(Core, n)

LEMMA CapturedForm == ASSUME NEW m PROVE CapturedBy(captured(m), m)
<1> DEFINE p == m.path
           imports == checked[p].imported_names
           brought == [n \in Found(p) |-> envs[imports[n].module][imports[n].name]]
           own == declared_values(m, m.funs \cup m.methods)
<1>1. /\ captured(m) = own ?? seeded(m)
      /\ seeded(m) = brought ?? core_bindings
  BY DEF captured, seeded, Found
<1>2. /\ DOMAIN own = m.funs \cup m.methods
      /\ \A n \in m.funs \cup m.methods : own[n] = Origin(p, n)
      /\ DOMAIN brought = Found(p)
      /\ \A n \in Found(p) : brought[n] = envs[imports[n].module][imports[n].name]
      /\ DOMAIN core_bindings = CoreFuns
      /\ \A n \in CoreFuns : core_bindings[n] = Origin(Core, n)
  BY DEF declared_values, core_bindings
<1> HIDE DEF brought, own
<1> QED BY <1>1, <1>2 DEF ??, CapturedBy

\* The environment that the functions of the current module capture.
LEMMA Captured ==
  ASSUME LinkInv, phase = "eval"
  PROVE  /\ IsEnvironment(captured(Current), Current.path, Current.funs \cup Current.methods)
         /\ BindsImports(captured(Current), Current.path)
<1>0. PICK m, p, imports, found :
      /\ m = Current /\ p = Current.path /\ imports = checked[p].imported_names
      /\ found = {n \in DOMAIN imports :
                    /\ imports[n].module \in DOMAIN envs
                    /\ imports[n].name \in DOMAIN envs[imports[n].module]}
  OBVIOUS
<1>1. Passes /\ CheckedTables /\ Environments
  BY DEF LinkInv
<1>2. /\ IsProgram(program) /\ pos \in 1..Len(Modules) /\ m \in Module
      /\ p \in Paths /\ ModuleAt(p) = m
  BY <1>0, <1>1, CurrentModule
<1>3. /\ Checked = Paths /\ Evaluated = Seen(pos - 1) /\ DOMAIN envs = Evaluated
      /\ Evaluated \subseteq Checked /\ Core \notin Paths
  BY <1>1, TreatedAreLoaded DEF Checked, Evaluated, Treated, Passes
<1>4. ImportsOf(p)
  BY <1>1, <1>2, <1>3 DEF CheckedTables
<1>5. \A q \in Evaluated : EnvironmentOf(q)
  BY <1>1 DEF Environments
<1>8. /\ DOMAIN captured(m) = m.funs \cup m.methods \cup found \cup CoreFuns
      /\ \A n \in m.funs \cup m.methods : captured(m)[n] = Origin(p, n)
      /\ \A n \in found \ (m.funs \cup m.methods) :
           captured(m)[n] = envs[imports[n].module][imports[n].name]
      /\ \A n \in CoreFuns \ (found \cup m.funs \cup m.methods) : captured(m)[n] = Origin(Core, n)
  <2>1. m.path = p /\ imports = checked[m.path].imported_names /\ found = Found(p)
    BY <1>0 DEF Found
  <2> QED BY <2>1, CapturedForm DEF CapturedBy
<1>9. m.funs \cup m.methods \subseteq Names /\ CoreFuns \subseteq Names
  BY <1>2, Declarations, NamesAssumption
<1>10. ASSUME NEW n \in found
       PROVE  /\ n \in Names /\ BroughtIn(p, n)
              /\ envs[imports[n].module][imports[n].name] \in Origins
  <2>1. imports[n].module \in Evaluated /\ imports[n].module # Core
    BY <1>0, <1>3, <1>10
  <2>2. n \in Names /\ BroughtIn(p, n)
    <3>1. \A x \in DOMAIN imports : x \in Names /\ (BroughtIn(p, x) \/ imports[x].module = Core)
      <4>1. imports = checked[p].imported_names
        BY <1>0
      <4> QED BY <1>4, <4>1 DEF ImportsOf
    <3>2. n \in DOMAIN imports
      BY <1>0, <1>10
    <3> QED BY <2>1, <3>1, <3>2
  <2>3. EnvironmentOf(imports[n].module)
    BY <1>5, <2>1
  <2>4. imports[n].name \in DOMAIN envs[imports[n].module]
    BY <1>0, <1>10
  <2> QED BY <2>2, <2>3, <2>4 DEF EnvironmentOf, IsTable
<1>11. ASSUME NEW n \in Names, NEW q \in {p, Core}
       PROVE  Origin(q, n) \in Origins /\ Origin(q, n).module = q
  BY <1>2, <1>11 DEF Origin, Origins
<1>12. IsEnvironment(captured(m), p, m.funs \cup m.methods)
  <2>1. ASSUME NEW n \in DOMAIN captured(m)
        PROVE  /\ n \in Names /\ captured(m)[n] \in Origins
               /\ captured(m)[n].module \in {p, Core} \/ BroughtIn(p, n)
    <3>1. CASE n \in m.funs \cup m.methods
      BY <1>8, <1>9, <1>11, <3>1
    <3>2. CASE n \in found \ (m.funs \cup m.methods)
      BY <1>8, <1>10, <3>2
    <3>3. CASE n \in CoreFuns \ (found \cup m.funs \cup m.methods)
      BY <1>8, <1>9, <1>11, <3>3
    <3> QED BY <1>8, <3>1, <3>2, <3>3
  <2> QED BY <1>8, <2>1 DEF IsEnvironment, IsTable
<1>13. BindsImports(captured(m), p)
  <2>1. ASSUME NEW l \in DOMAIN checked[p].imported, ~checked[p].imported[l].nested,
               ImportedByName(p, l) \/ ImportedByGlob(p, l)
        PROVE  l \in found \cup CoreFuns
    <3>0. PICK o : o = checked[p].imported[l]
      OBVIOUS
    <3> SUFFICES ASSUME l \notin CoreFuns PROVE l \in found
      OBVIOUS
    <3>1. /\ Sourced(o) /\ Before(o.module, p) /\ o.module # Core
          /\ l \in DOMAIN imports /\ imports[l] = [module |-> o.module, name |-> o.name]
      BY <1>0, <1>4, <2>1, <3>0 DEF ImportsOf
    <3>2. o.module \in Evaluated
      <4>1. PICK i, j \in 1..Len(Modules) : i < j /\ Modules[i].path = o.module /\ Modules[j].path = p
        BY <3>1 DEF Before
      <4>2. j = pos
        BY <1>0, <1>2, <4>1, ModulesOfPaths DEF Current
      <4>3. i \in 1..pos - 1
        BY <1>2, <4>1, <4>2
      <4> QED BY <1>3, <4>1, <4>3 DEF Seen
    <3>3. o.name \in ModuleAt(o.module).funs
      BY <2>1, <3>0, <3>1 DEF Sourced
    <3>4. EnvironmentOf(o.module)
      BY <1>5, <3>2
    <3>5. o.name \in DOMAIN envs[o.module]
      BY <3>3, <3>4 DEF EnvironmentOf
    <3>6. imports[l].module = o.module /\ imports[l].name = o.name
      BY <3>1
    <3> QED BY <1>0, <1>3, <3>1, <3>2, <3>5, <3>6
  <2> QED BY <1>8, <2>1 DEF BindsImports
<1> QED BY <1>0, <1>12, <1>13

\* The environment where the alias `alias` of the name `original` is registered.
WithAlias(f, alias, original) ==
  IF original \in DOMAIN f THEN f ?? Entry(alias, f[original]) ELSE f
Registers(D, alias, original) == [f \in D |-> WithAlias(f, alias, original)]

\* The environment f has what g has, and beyond it names of A only.
Extends(f, g, A) ==
  /\ DOMAIN f \subseteq DOMAIN g \cup A
  /\ \A n \in DOMAIN g : n \in DOMAIN f /\ f[n] = g[n]

\* Registering the aliases adds names that the imports bring in, in whatever
\* order it is done.
LEMMA Registered ==
  ASSUME NEW m, NEW p, NEW own, NEW A, A = DOMAIN checked[m.path].import_aliases,
         IsFiniteSet(A), A \subseteq Names, \A l \in A : BroughtIn(p, l),
         IsEnvironment(captured(m), p, own), NEW order \in SetToSeqs(A)
  PROVE  /\ IsEnvironment(register_aliases(m, order), p, own)
         /\ Extends(register_aliases(m, order), captured(m), A)
<1>0. PICK canonical : canonical = checked[m.path].import_aliases
  OBVIOUS
<1> DEFINE D == {f \in UNION {[S -> Origins] : S \in SUBSET Names} :
                  IsEnvironment(f, p, own) /\ Extends(f, captured(m), A)}
           N == Len(order)
           step == [i \in 1..N |-> Registers(D, order[i], canonical[order[i]])]
           Is(e) == e = [i \in 0..N |->
                           IF i = 0 THEN captured(m)
                           ELSE WithAlias(e[i - 1], order[i], canonical[order[i]])]
           env == CHOOSE e : Is(e)
<1>1. N \in Nat /\ \A i \in 1..N : order[i] \in A
  <2>1. Cardinality(A) \in Nat
    BY FS_CardinalityType
  <2>2. order \in [1..Cardinality(A) -> A]
    BY DEF SetToSeqs
  <2>3. order \in Seq(A) /\ Len(order) = Cardinality(A)
    BY <2>1, <2>2, SeqDef, LenProperties
  <2> QED BY <2>1, <2>2, <2>3
<1>2. \A f : f \in D <=> /\ IsEnvironment(f, p, own) /\ Extends(f, captured(m), A)
                        /\ f \in [DOMAIN f -> Origins]
  BY DEF IsEnvironment, IsTable
<1>3. captured(m) \in D
  <2>1. captured(m) \in [DOMAIN captured(m) -> Origins]
    BY DEF IsEnvironment, IsTable, captured, ??
  <2>2. Extends(captured(m), captured(m), A)
    BY DEF Extends
  <2> QED BY <1>2, <2>1, <2>2
<1>4. ASSUME NEW f \in D, NEW alias \in A, NEW original
      PROVE  WithAlias(f, alias, original) \in D
  <2> SUFFICES ASSUME original \in DOMAIN f PROVE f ?? Entry(alias, f[original]) \in D
    BY DEF WithAlias
  <2> DEFINE g == f ?? Entry(alias, f[original])
  <2>1. IsEnvironment(f, p, own) /\ Extends(f, captured(m), A) /\ f \in [DOMAIN f -> Origins]
    BY <1>2
  <2>2. /\ DOMAIN g = DOMAIN f \cup {alias} /\ g \in [DOMAIN g -> Origins]
        /\ \A n \in DOMAIN f : g[n] = f[n]
        /\ \A n \in DOMAIN g : g[n] \in Origins
    BY <2>1 DEF ??, Entry
  <2> HIDE DEF g
  <2>3. IsEnvironment(g, p, own)
    BY <2>1, <2>2 DEF IsEnvironment, IsTable
  <2>4. Extends(g, captured(m), A)
    BY <2>1, <2>2 DEF Extends
  <2>5. g \in D
    <3> HIDE DEF D
    <3> QED BY <1>2, <2>2, <2>3, <2>4
  <2> QED BY <2>5 DEF g
<1> HIDE DEF D
<1>5. step \in [1..N -> [D -> D]]
  <2>1. ASSUME NEW i \in 1..N
        PROVE  Registers(D, order[i], canonical[order[i]]) \in [D -> D]
    <3>1. order[i] \in A
      BY <1>1
    <3> QED BY <1>4, <3>1 DEF Registers
  <2> HIDE DEF N
  <2> QED BY <2>1
<1>6. PICK e \in [0..N -> D] : e[0] = captured(m) /\ \A i \in 1..N : e[i] = step[i][e[i - 1]]
  <2>1. \E e : StepsOf(e, D, captured(m), step, N)
    <3> HIDE DEF N, step
    <3> QED BY <1>1, <1>3, <1>5, Steps
  <2> QED BY <2>1 DEF StepsOf
<1>7. \A i \in 1..N : e[i] = WithAlias(e[i - 1], order[i], canonical[order[i]])
  <2>1. \A i \in 1..N : i - 1 \in 0..N /\ e[i - 1] \in D
    BY <1>1, <1>6
  <2>2. ASSUME NEW i \in 1..N, NEW f \in D
        PROVE  step[i][f] = WithAlias(f, order[i], canonical[order[i]])
    BY DEF Registers
  <2> HIDE DEF step, N
  <2> QED BY <1>6, <2>1, <2>2
<1>8. Is(e)
  <2>1. \A i \in 0..N : i = 0 \/ i \in 1..N
    BY <1>1
  <2> HIDE DEF N
  <2> QED BY <1>6, <1>7, <2>1
<1>9. Is(env)
  <2> HIDE DEF Is
  <2> QED BY <1>8
<1>10. register_aliases(m, order) = env[N]
  BY <1>0 DEF register_aliases, WithAlias
<1> HIDE DEF env
<1>11. /\ env[0] = captured(m)
       /\ \A i \in 1..N : env[i] = WithAlias(env[i - 1], order[i], canonical[order[i]])
  <2>1. 0 \in 0..N /\ \A i \in 1..N : i \in 0..N /\ i # 0
    BY <1>1
  <2> HIDE DEF N
  <2> QED BY <1>9, <2>1
<1> DEFINE T == {i \in Nat : i \in 0..N => env[i] \in D}
<1>12. Nat \subseteq T
  <2>1. 0 \in T
    BY <1>3, <1>11
  <2>2. ASSUME NEW i \in Nat, i \in T PROVE i + 1 \in T
    <3> SUFFICES ASSUME i + 1 \in 0..N PROVE env[i + 1] \in D
      OBVIOUS
    <3>1. i \in 0..N /\ i + 1 \in 1..N /\ (i + 1) - 1 = i
      BY <1>1
    <3>2. env[i] \in D /\ order[i + 1] \in A
      BY <1>1, <2>2, <3>1
    <3>3. env[i + 1] = WithAlias(env[i], order[i + 1], canonical[order[i + 1]])
      BY <1>11, <3>1
    <3> HIDE DEF N
    <3> QED BY <1>4, <3>2, <3>3
  <2> HIDE DEF T
  <2> QED BY <2>1, <2>2, NatSetInduction
<1>13. N \in T /\ N \in 0..N
  BY <1>1, <1>12
<1>14. env[N] \in D
  BY <1>13
<1> QED BY <1>2, <1>10, <1>14

\* The aliases of the current module.
LEMMA AliasesRegistered ==
  ASSUME LinkInv, phase = "eval",
         NEW order \in SetToSeqs(DOMAIN checked[Current.path].import_aliases)
  PROVE  LET m == Current
             A == DOMAIN checked[Current.path].import_aliases IN
         /\ IsEnvironment(register_aliases(m, order), m.path, m.funs \cup m.methods)
         /\ Extends(register_aliases(m, order), captured(m), A)
<1> PICK m, p, A : m = Current /\ p = Current.path /\ A = DOMAIN checked[p].import_aliases
  OBVIOUS
<1>1. Passes /\ Scopes /\ CheckedTables
  BY DEF LinkInv
<1>2. p \in Paths /\ m.path = p /\ Checked = Paths /\ Resolved = Paths
  BY <1>1, CurrentModule DEF Checked, Resolved, Treated
<1>3. A \subseteq DOMAIN scopes[p].explicit
  BY <1>1, <1>2 DEF CheckedTables, ImportsOf
<1>4. DOMAIN scopes[p].explicit \subseteq Names /\ IsFiniteSet(DOMAIN scopes[p].explicit)
  BY <1>1, <1>2 DEF Scopes, ScopeOf
<1>5. IsFiniteSet(A) /\ A \subseteq Names
  BY <1>3, <1>4, FS_Subset
<1>6. \A l \in A : BroughtIn(p, l)
  BY <1>3 DEF BroughtIn
<1>7. A = DOMAIN checked[m.path].import_aliases /\ order \in SetToSeqs(A)
  BY <1>2
<1>8. IsEnvironment(captured(m), p, m.funs \cup m.methods)
  BY Captured
<1>9. /\ IsEnvironment(register_aliases(m, order), p, m.funs \cup m.methods)
      /\ Extends(register_aliases(m, order), captured(m), A)
  BY <1>5, <1>6, <1>7, <1>8, Registered
<1> QED BY <1>2, <1>9

\* The evaluator treats the current module.
LEMMA EvalModuleStep == LinkInv /\ EvalModule => LinkInv'
<1> SUFFICES ASSUME LinkInv, EvalModule PROVE LinkInv'
  OBVIOUS
<1> PICK order \in SetToSeqs(DOMAIN checked[Current.path].import_aliases) :
      envs' = Entry(Current.path, declared_values(Current, Current.lets) ?? register_aliases(Current, order))
                ?? envs
  BY DEF EvalModule
<1>0. PICK m, p, A :
        m = Current /\ p = Current.path /\ A = DOMAIN checked[p].import_aliases
  OBVIOUS
<1>1. /\ phase = "eval" /\ Advance("main")
      /\ UNCHANGED <<pub_surface, scopes, exports, type_context, checked>>
      /\ closures' = Entry(p, captured(m)) ?? closures
      /\ m.path = p /\ order \in SetToSeqs(A)
      /\ envs' = Entry(p, declared_values(m, m.lets) ?? register_aliases(m, order)) ?? envs
  BY <1>0 DEF EvalModule, Running, resolver_vars, checker_vars
<1>2. Passes /\ Surfaces /\ Scopes /\ Exports /\ CheckedTables /\ Environments
  BY DEF LinkInv
<1>3. /\ IsProgram(program) /\ pos \in 1..Len(Modules)
      /\ p \in Paths /\ ModuleAt(p) = m
  BY <1>0, <1>2, CurrentModule
<1>4. /\ program' = program /\ outcome' = outcome /\ pos' \in 1..Len(Modules)
      /\ phase' \in {"eval", "main"}
      /\ Resolved' = Resolved /\ Checked' = Checked /\ Resolved = Paths /\ Checked = Paths
      /\ Evaluated' = Evaluated \cup {p} /\ p \notin Evaluated
  BY <1>0, <1>1, <1>2, PassMoves
<1>5. /\ Modules' = Modules /\ Paths' = Paths /\ Origins' = Origins
      /\ \A q : ModuleAt(q)' = ModuleAt(q)
  BY <1>4, ProgramStays
<1>6. /\ DOMAIN pub_surface = Paths \cup {Core} /\ DOMAIN scopes = Paths
      /\ DOMAIN exports = Checked \cup {Core} /\ DOMAIN checked = Checked
      /\ DOMAIN closures = Evaluated /\ DOMAIN envs = Evaluated
  BY <1>1, <1>2, <1>4 DEF Passes
<1> PICK env : env = declared_values(m, m.lets) ?? register_aliases(m, order)
  OBVIOUS
<1>7. /\ DOMAIN envs' = Evaluated' /\ envs'[p] = env
      /\ DOMAIN closures' = Evaluated' /\ closures'[p] = captured(m)
      /\ \A q \in Evaluated : envs'[q] = envs[q] /\ closures'[q] = closures[q]
  BY <1>0, <1>1, <1>4, <1>6 DEF ??, Entry
<1>8. Passes'
  <2>1. outcome' \in Outcomes /\ IsProgram(program)' /\ Core \notin Paths
    BY <1>2, <1>3, <1>4, ModulesOfPaths DEF Passes, Outcomes
  <2> QED BY <1>1, <1>4, <1>5, <1>6, <1>7, <2>1 DEF Passes, Outcomes
<1>9. Surfaces'
  BY <1>1, <1>2, <1>4, SurfacesStay
<1>10. Scopes'
  BY <1>1, <1>2, <1>4, ScopesStay
<1>11. Exports'
  BY <1>1, <1>2, <1>4, ExportsStay
<1>12. Grown
  BY <1>1 DEF Grown
<1>13. CheckedTables'
  <2>1. ASSUME NEW q \in Checked
        PROVE  (OwnSchemes(q) /\ PublicImports(q) /\ ImportsOf(q))'
    <3>1. OwnSchemes(q) /\ PublicImports(q) /\ ImportsOf(q) /\ q \in DOMAIN exports
      BY <1>2, <1>6, <2>1 DEF CheckedTables
    <3> QED BY <1>1, <1>4, <1>12, <3>1, CheckedTableStays
  <2> QED BY <1>4, <2>1 DEF CheckedTables
<1>14. IsEnvironment(captured(m), p, m.funs \cup m.methods) /\ BindsImports(captured(m), p)
  BY <1>0, <1>1, Captured
<1>15. IsEnvironment(register_aliases(m, order), p, m.funs \cup m.methods)
  BY <1>0, <1>1, AliasesRegistered
<1>16. IsEnvironment(env, p, m.funs \cup m.lets \cup m.methods)
  <2> PICK reg, lets : reg = register_aliases(m, order) /\ lets = declared_values(m, m.lets)
    OBVIOUS
  <2>1. DOMAIN lets = m.lets /\ \A n \in m.lets : lets[n] = Origin(p, n)
    BY <1>1 DEF declared_values
  <2>2. /\ DOMAIN env = m.lets \cup DOMAIN reg
        /\ \A n \in m.lets : env[n] = Origin(p, n)
        /\ \A n \in DOMAIN reg \ m.lets : env[n] = reg[n]
    BY <2>1 DEF ??
  <2>3. m.lets \subseteq Names
    BY <1>3, Declarations
  <2>4. \A n \in m.lets : Origin(p, n) \in Origins /\ Origin(p, n).module = p
    BY <1>3, <2>3 DEF Origin, Origins
  <2>5. /\ DOMAIN reg \subseteq Names /\ \A n \in DOMAIN reg : reg[n] \in Origins
        /\ \A n \in m.funs \cup m.methods : n \in DOMAIN reg /\ reg[n] = Origin(p, n)
        /\ \A n \in DOMAIN reg : reg[n].module \in {p, Core} \/ BroughtIn(p, n)
    BY <1>15 DEF IsEnvironment, IsTable
  <2>6. ASSUME NEW n \in DOMAIN env
        PROVE  /\ n \in Names /\ env[n] \in Origins
               /\ env[n].module \in {p, Core} \/ BroughtIn(p, n)
    <3>1. CASE n \in m.lets
      BY <2>2, <2>3, <2>4, <3>1
    <3>2. CASE n \in DOMAIN reg \ m.lets
      BY <2>2, <2>5, <3>2
    <3> QED BY <2>2, <3>1, <3>2
  <2>7. \A n \in m.funs \cup m.lets \cup m.methods : n \in DOMAIN env /\ env[n] = Origin(p, n)
    BY <2>2, <2>5
  <2> QED BY <2>6, <2>7 DEF IsEnvironment, IsTable
<1>17. EnvironmentOf(p)'
  <2>1. \A n : BroughtIn(p, n)' <=> BroughtIn(p, n)
    BY <1>1 DEF BroughtIn, Range
  <2>2. \A l : /\ ImportedByName(p, l)' = ImportedByName(p, l)
               /\ ImportedByGlob(p, l)' = ImportedByGlob(p, l)
    BY <1>1, ImportedStays
  <2>3. IsTable(captured(m), Origins) /\ IsTable(env, Origins)
    BY <1>14, <1>16 DEF IsEnvironment
  <2>4. IsTable(closures[p], Origins)' /\ IsTable(envs[p], Origins)'
    BY <1>5, <1>7, <2>3 DEF IsTable
  <2>5. \A n \in m.funs \cup m.lets \cup m.methods : n \in DOMAIN envs'[p] /\ envs'[p][n] = Origin(p, n)
    BY <1>7, <1>16 DEF IsEnvironment
  <2>6. \A n \in DOMAIN envs'[p] : envs'[p][n].module \in {p, Core} \/ BroughtIn(p, n)'
    BY <1>7, <1>16, <2>1 DEF IsEnvironment
  <2>7. \A l \in DOMAIN checked'[p].imported :
          ~checked'[p].imported[l].nested /\ (ImportedByName(p, l) \/ ImportedByGlob(p, l))'
            => l \in DOMAIN closures'[p]
    BY <1>1, <1>7, <1>14, <2>2 DEF BindsImports
  <2> QED BY <1>3, <1>5, <2>4, <2>5, <2>6, <2>7 DEF EnvironmentOf, Origin
<1>18. Environments'
  <2>1. ASSUME NEW q \in Evaluated
        PROVE  EnvironmentOf(q)'
    <3>1. EnvironmentOf(q)
      BY <1>2, <2>1 DEF Environments
    <3> QED BY <1>1, <1>4, <1>7, <1>12, <2>1, <3>1, EnvironmentStays
  <2> QED BY <1>4, <1>17, <2>1 DEF Environments
<1> QED BY <1>8, <1>9, <1>10, <1>11, <1>13, <1>18 DEF LinkInv

------------------------------------------------------------------------------
(***************************************************************************)
(* The theorems.                                                           *)
(***************************************************************************)
\* Every step keeps the invariant.
LEMMA Invariance == LinkInv /\ [Next]_vars => LinkInv'
<1> SUFFICES ASSUME LinkInv, [Next]_vars PROVE LinkInv'
  OBVIOUS
<1>1. CASE CollectSurface
  BY <1>1, CollectSurfaceStep
<1>2. CASE ReExport
  BY <1>2, ReExportStep
<1>3. CASE ResolveScope
  BY <1>3, ResolveScopeStep
<1>4. CASE CheckModule
  BY <1>4, CheckModuleStep
<1>5. CASE EvalModule
  BY <1>5, EvalModuleStep
<1>6. ASSUME NEW code \in {"T0001", "T0003", "T0009", "T0010", "T0011"}, Fail(code)
      PROVE  LinkInv'
  BY <1>6, QuietStep DEF Fail, Outcomes
<1>7. CASE ReExportHidden
  BY <1>6, <1>7 DEF ReExportHidden
<1>8. CASE ImportConflict
  BY <1>6, <1>8 DEF ImportConflict
<1>9. CASE MissingAnnotation
  BY <1>6, <1>9 DEF MissingAnnotation
<1>10. CASE GlobConflict
  BY <1>6, <1>10 DEF GlobConflict
<1>11. CASE ImportRejected
  <2>1. PICK code \in import_errors(Current) : Fail(code)
    BY <1>11 DEF ImportRejected
  <2>2. code \in {"T0003", "T0009"}
    BY <2>1 DEF import_errors
  <2> QED BY <1>6, <2>1, <2>2
<1>12. CASE UndefinedName
  BY <1>6, <1>12 DEF UndefinedName
<1>13. CASE GenericClash
  BY <1>6, <1>13 DEF GenericClash
<1>14. CASE RunMain
  <2>1. /\ outcome' \in Outcomes
        /\ UNCHANGED <<program, phase, pos, resolver_vars, checker_vars, evaluator_vars>>
    BY <1>14 DEF RunMain, Outcomes
  <2> QED BY <2>1, QuietStep
<1>15. CASE UNCHANGED vars
  <2>1. /\ outcome' \in Outcomes
        /\ UNCHANGED <<program, phase, pos, resolver_vars, checker_vars, evaluator_vars>>
    BY <1>15 DEF vars, resolver_vars, checker_vars, evaluator_vars, LinkInv, Passes, Outcomes
  <2> QED BY <2>1, QuietStep
<1> QED BY <1>1, <1>2, <1>3, <1>4, <1>5, <1>7, <1>8, <1>9, <1>10, <1>11, <1>12, <1>13, <1>14, <1>15 DEF Next

\* The invariant holds in every state of every program.
THEOREM LinkInvariant == Spec => []LinkInv
BY Starts, Invariance, PTL DEF Spec

\* The tables of the resolver, the checker and the evaluator keep their
\* shape and grow together: a module has an environment only when it has
\* been checked, and a name in a table always leads to a declaration.
THEOREM TypeCorrect == Spec => []TypeOK
<1>1. LinkInv => TypeOK
  <2> SUFFICES ASSUME LinkInv PROVE TypeOK
    OBVIOUS
  <2>1. Passes /\ Surfaces /\ Exports /\ Environments
    BY DEF LinkInv
  <2>2. /\ Resolved \subseteq Paths /\ Checked \subseteq Resolved /\ Evaluated \subseteq Checked
        /\ Core \notin Paths
    BY <2>1, TreatedAreLoaded
  <2>3. \A p \in DOMAIN exports : IsTable(exports[p], Origins)
    BY <2>1 DEF Exports, ExportsOf, Sourced, IsTable
  <2>4. \A p \in DOMAIN envs : IsTable(envs[p], Origins) /\ IsTable(closures[p], Origins)
    BY <2>1 DEF Environments, EnvironmentOf, Passes
  <2>5. DOMAIN checked = DOMAIN exports \ {Core}
    BY <2>1, <2>2 DEF Passes
  <2>6. DOMAIN pub_surface \subseteq Paths \cup {Core}
    BY <2>1 DEF Passes
  <2> QED BY <2>1, <2>2, <2>3, <2>4, <2>5, <2>6 DEF TypeOK, Passes, Surfaces, Exports
<1> QED BY <1>1, LinkInvariant, PTL

\* Whatever a module imports or re-exports under the name of one of its own
\* functions, construction, its exports and its environment keep to the
\* function, and so does inference, wherever it has come to, for every
\* function it has hoisted or declared (`scheme_env`, `poly_env`,
\* `filter_pub_schemes`, and the order in which evaluate_graph fills an
\* environment).  What inference takes a generic function's name for before
\* its declaration is another question (OwnDeclarationsShadowImports).
THEOREM LocalsWin == Spec => []OwnDeclarationsWin
<1>1. LinkInv => OwnDeclarationsWin
  <2> SUFFICES ASSUME LinkInv PROVE OwnDeclarationsWin
    OBVIOUS
  <2>1. DOMAIN checked = Checked /\ DOMAIN envs = Evaluated
    BY DEF LinkInv, Passes
  <2>2. \A p \in Checked : OwnSchemes(p)
    BY DEF LinkInv, CheckedTables
  <2>3. \A p \in Evaluated : \A n \in ModuleAt(p).funs \cup ModuleAt(p).lets \cup ModuleAt(p).methods :
          envs[p][n] = Origin(p, n)
    BY DEF LinkInv, Environments, EnvironmentOf
  <2>4. \A p \in Checked : ModuleAt(p).path = p
    BY TreatedAreLoaded, Declarations DEF LinkInv, Passes
  <2>5. ASSUME NEW p \in Checked, NEW passed \in SUBSET ModuleAt(p).generic,
               NEW n \in (ModuleAt(p).funs \ ModuleAt(p).generic) \cup passed
        PROVE  inference_env(ModuleAt(p), passed, checked[p].imported)[n] = Origin(p, n)
    <3>1. poly_env(ModuleAt(p), passed, checked[p].imported)[n] = Origin(p, n)
      BY <2>4, <2>5 DEF poly_env, ??
    <3>2. n \in DOMAIN poly_env(ModuleAt(p), passed, checked[p].imported)
      BY <2>5 DEF poly_env, ??
    <3> QED BY <3>1, <3>2 DEF inference_env, ??
  <2> QED BY <2>1, <2>2, <2>3, <2>5 DEF OwnDeclarationsWin, OwnSchemes
<1> QED BY <1>1, LinkInvariant, PTL

\* A module that was checked imports only what is public where it is, or
\* what a facade in between re-exports (`collect_import_schemes`).
THEOREM OnlyPublicNames == Spec => []ImportsArePublic
<1>1. LinkInv => ImportsArePublic
  <2> SUFFICES ASSUME LinkInv, NEW p \in DOMAIN checked
               PROVE  /\ PublicImports(p)
                      /\ \A o \in Range(checked[p].imported) :
                           o.module # Core =>
                             o.name \in ModuleAt(o.module).pub \cup DOMAIN scopes[o.module].re_exports
    BY DEF ImportsArePublic, PublicImports
  <2>1. Passes /\ p \in Checked /\ PublicImports(p) /\ ImportsOf(p)
    BY DEF LinkInv, Passes, CheckedTables
  <2>2. ASSUME NEW o \in Range(checked[p].imported), o.module # Core
        PROVE  o.name \in ModuleAt(o.module).pub \cup DOMAIN scopes[o.module].re_exports
    <3>1. Sourced(o)
      BY <2>1 DEF ImportsOf, Range
    <3>2. o.module \in Checked /\ o.module \in DOMAIN exports /\ o.name \in DOMAIN exports[o.module]
      BY <2>1, <2>2, <3>1 DEF Sourced, Passes
    <3>3. o.name \in pub_surface[o.module]
      BY <2>2, <3>2 DEF LinkInv, Exports, ExportsOf
    <3>4. ScopeOf(o.module)
      BY <2>1, <3>2, TreatedAreLoaded DEF LinkInv, Scopes
    <3> QED BY <3>3, <3>4 DEF ScopeOf
  <2> QED BY <2>1, <2>2
<1> QED BY <1>1, LinkInvariant, PTL

\* The environment of a module holds values of other modules only under
\* names that its imports bring in (the end of the shared flat environment).
THEOREM NothingLeaks == Spec => []EnvironmentsIsolated
<1>1. LinkInv => EnvironmentsIsolated
  <2> SUFFICES ASSUME LinkInv PROVE EnvironmentsIsolated
    OBVIOUS
  <2>1. DOMAIN envs = Evaluated
    BY DEF LinkInv, Passes
  <2>2. \A p \in Evaluated : \A n \in DOMAIN envs[p] :
          envs[p][n].module \in {p, Core} \/ BroughtIn(p, n)
    BY DEF LinkInv, Environments, EnvironmentOf
  <2> QED BY <2>1, <2>2 DEF EnvironmentsIsolated, BroughtIn
<1> QED BY <1>1, LinkInvariant, PTL

\* What the checker lets a module import from the declaring module, by name
\* or by glob, has a value in the environment its functions capture: the
\* dependencies of a module are evaluated before it, and the evaluator
\* looks where the checker found the scheme.
THEOREM ImportsHaveValues == Spec => []DirectImportsBound
<1>1. LinkInv => DirectImportsBound
  <2> SUFFICES ASSUME LinkInv PROVE DirectImportsBound
    OBVIOUS
  <2>1. DOMAIN closures = Evaluated
    BY DEF LinkInv, Passes
  <2>2. \A p \in Evaluated : \A l \in DOMAIN checked[p].imported :
          ~checked[p].imported[l].nested /\ (ImportedByName(p, l) \/ ImportedByGlob(p, l))
            => l \in DOMAIN closures[p]
    BY DEF LinkInv, Environments, EnvironmentOf
  <2> QED BY <2>1, <2>2 DEF DirectImportsBound
<1> QED BY <1>1, LinkInvariant, PTL

------------------------------------------------------------------------------
(***************************************************************************)
(* Calls: the scheme and the value a module has under one name.            *)
(***************************************************************************)
\* The schemes of the checked module p, and what it exports of them.
SchemesFrom(p) ==
  LET m == ModuleAt(p)
      c == checked[p] IN
  /\ DOMAIN c.schemes = CoreFuns \cup m.funs \cup m.nested \cup DOMAIN c.imported
  /\ \A n \in CoreFuns : c.schemes[n] = Origin(Core, n)
  /\ \A n \in (m.funs \cup m.nested) \ CoreFuns : c.schemes[n] \in {Origin(p, n), Nested(p, n)}
  /\ \A n \in DOMAIN c.imported \ (CoreFuns \cup m.funs \cup m.nested) : c.schemes[n] = c.imported[n]
  /\ \A n \in (DOMAIN exports[p] \cap DOMAIN c.schemes) \ CoreFuns : exports[p][n] = c.schemes[n]

\* The name n is imported explicitly, as an item.
ItemOf(p, n) == n \in DOMAIN scopes[p].explicit /\ scopes[p].explicit[n].kind = "Item"

\* The glob of another module g gives the name n its scheme.
GivesScheme(p, g, n) ==
  /\ g \in Range(scopes[p].globs) /\ g \in DOMAIN exports /\ n \in DOMAIN exports[g]
  /\ n \in DOMAIN checked[p].imported
  /\ n \notin DOMAIN scopes[p].explicit => checked[p].imported[n] = exports[g][n]

\* Where the evaluator looks for what p imports under the name n.
LooksFor(p, n) ==
  LET t == checked[p].imported_names[n] IN
  \/ /\ ItemOf(p, n)
     /\ t = [module |-> scopes[p].explicit[n].module, name |-> scopes[p].explicit[n].name]
  \/ ~ItemOf(p, n) /\ t.name = n /\ (t.module = p \/ GivesScheme(p, t.module, n))
  \/ t.module = Core

SchemeTable(p) == SchemesFrom(p) /\ \A n \in DOMAIN checked[p].imported_names : LooksFor(p, n)
SchemeTables == \A p \in Checked : SchemeTable(p)

\* The tables of a module stay when others are checked or evaluated.
LEMMA SchemeTableStays ==
  ASSUME NEW p \in DOMAIN exports, program' = program, Grown,
         scopes'[p] = scopes[p], checked'[p] = checked[p], SchemeTable(p)
  PROVE  SchemeTable(p)'
<1>1. \A q : ModuleAt(q)' = ModuleAt(q)
  BY ProgramStays
<1>2. exports'[p] = exports[p]
  BY DEF Grown
<1>3. SchemesFrom(p)'
  BY <1>1, <1>2 DEF SchemeTable, SchemesFrom, Origin, Nested
<1>4. ASSUME NEW n \in DOMAIN checked[p].imported_names
      PROVE  LooksFor(p, n)'
  <2>1. LooksFor(p, n)
    BY DEF SchemeTable
  <2>2. ItemOf(p, n)' = ItemOf(p, n)
    BY DEF ItemOf
  <2>3. \A g : GivesScheme(p, g, n) => GivesScheme(p, g, n)'
    BY DEF GivesScheme, Grown, Range
  <2>4. PICK t : t = checked[p].imported_names[n] /\ t = checked'[p].imported_names[n]
    OBVIOUS
  <2>5. GivesScheme(p, t.module, n) => GivesScheme(p, t.module, n)'
    BY <2>3
  <2>6. GivesScheme(p, t.module, n)' => GivesScheme(p, checked[p].imported_names[n].module, n)'
    BY <2>4
  <2> QED BY <2>1, <2>2, <2>4, <2>5, <2>6 DEF LooksFor
<1> QED BY <1>3, <1>4 DEF SchemeTable

\* The scheme a glob gives.
LEMMA GlobSchemes ==
  ASSUME NEW p, AtModule(p), NEW n \in glob_names(ModuleAt(p), exports)
  PROVE  LET m == ModuleAt(p) IN
         /\ n \in DOMAIN build_import_schemes(m)
         /\ n \notin DOMAIN explicit(m) =>
              build_import_schemes(m)[n] = exports[globs(m)[Max(globs_giving(m, n, exports))]][n]
<1> DEFINE m == ModuleAt(p)
           with_scheme == {x \in DOMAIN explicit(m) : has_scheme(explicit(m)[x])}
           x == [i \in with_scheme |-> exports[explicit(m)[i].module][explicit(m)[i].name]]
           g == [k \in glob_names(m, exports) |->
                   exports[globs(m)[Max(globs_giving(m, k, exports))]][k]]
<1> HIDE DEF m
<1>1. build_import_schemes(m) = x ?? g ?? exports[Core]
  BY DEF build_import_schemes
<1>2. DOMAIN x = with_scheme /\ DOMAIN g = glob_names(m, exports) /\ with_scheme \subseteq DOMAIN explicit(m)
  OBVIOUS
<1>3. n \in glob_names(m, exports)
  BY DEF m
<1>4. g[n] = exports[globs(m)[Max(globs_giving(m, n, exports))]][n]
  BY <1>3
<1> HIDE DEF x, g, with_scheme
<1> QED BY <1>1, <1>2, <1>3, <1>4 DEF ??, m

\* Checking a module makes its tables.
LEMMA CheckTables == LinkInv /\ SchemeTables /\ CheckModule => SchemeTables'
<1> SUFFICES ASSUME LinkInv, SchemeTables, CheckModule PROVE SchemeTables'
  OBVIOUS
<1> PICK m, p, entry :
      /\ m = Current /\ p = Current.path
      /\ entry = [imported       |-> build_import_schemes(Current),
                  schemes        |-> scheme_env(Current),
                  imported_names |-> imported_names(Current, exports'),
                  import_aliases |-> import_aliases(Current),
                  types          |-> type_context']
  OBVIOUS
<1>1. /\ phase = "check" /\ Advance("eval") /\ scopes' = scopes
      /\ ~glob_conflict(m) /\ m.path = p
      /\ exports' = Entry(p, filter_pub_schemes(m)) ?? exports
      /\ checked' = Entry(p, entry) ?? checked
  BY DEF CheckModule, Running, resolver_vars
<1>2. Passes /\ Surfaces /\ Scopes /\ Exports
  BY DEF LinkInv
<1>3. /\ IsProgram(program) /\ p \in Paths /\ ModuleAt(p) = m
  BY <1>2, CurrentModule
<1>4. /\ program' = program /\ Resolved = Paths
      /\ Checked' = Checked \cup {p} /\ p \notin Checked
  BY <1>1, <1>2, PassMoves
<1>5. /\ DOMAIN pub_surface = Paths \cup {Core}
      /\ DOMAIN exports = Checked \cup {Core} /\ DOMAIN checked = Checked
      /\ Core \notin Paths /\ p # Core
  BY <1>1, <1>2, <1>3, <1>4, ModulesOfPaths DEF Passes
<1>6. AtModule(p)
  <2>1. Len(m.imports) \in Nat
    BY <1>3, LeavesOf, LenProperties
  <2> QED BY <1>1, <1>2, <1>3, <1>4, <1>5, <2>1 DEF AtModule, Scopes, Surfaces
<1>7. /\ exports'[p] = filter_pub_schemes(m)
      /\ DOMAIN exports' = Checked' \cup {Core}
      /\ \A q \in DOMAIN exports : exports'[q] = exports[q]
  BY <1>1, <1>4, <1>5 DEF ??, Entry
<1>8. checked'[p] = entry /\ \A q \in Checked : checked'[q] = checked[q]
  BY <1>1, <1>4, <1>5 DEF ??, Entry
<1>9. Grown /\ \A q : ModuleAt(q)' = ModuleAt(q)
  BY <1>4, <1>5, <1>7, ProgramStays DEF Grown
<1>10. ASSUME NEW q \in Checked
       PROVE  SchemeTable(q)'
  BY <1>1, <1>4, <1>5, <1>8, <1>9, SchemeTableStays DEF SchemeTables
<1>11. /\ entry.imported = build_import_schemes(m) /\ entry.schemes = scheme_env(m)
       /\ entry.imported_names = imported_names(m, exports')
  OBVIOUS
<1>12. SchemesFrom(p)'
  <2>1. LET mm == ModuleAt(p) IN
        /\ DOMAIN scheme_env(mm) = CoreFuns \cup mm.funs \cup mm.nested \cup DOMAIN build_import_schemes(mm)
        /\ \A n \in CoreFuns : scheme_env(mm)[n] = Origin(Core, n)
        /\ \A n \in (mm.funs \cup mm.nested) \ CoreFuns :
              scheme_env(mm)[n] = IF n \in mm.nested THEN Nested(p, n) ELSE Origin(p, n)
        /\ \A n \in DOMAIN build_import_schemes(mm) \ (CoreFuns \cup mm.funs \cup mm.nested) :
              scheme_env(mm)[n] = build_import_schemes(mm)[n]
    BY <1>6, SchemesOf
  <2>2. LET mm == ModuleAt(p)
            f == filter_pub_schemes(mm) IN
        /\ DOMAIN f \subseteq pub_surface[p]
        /\ \A n \in (DOMAIN scheme_env(mm) \ CoreFuns) \cap pub_surface[p] : f[n] = scheme_env(mm)[n]
    BY <1>6, ExportsOfCurrent
  <2> PICK e, s, i : e = exports'[p] /\ s = entry.schemes /\ i = entry.imported
    OBVIOUS
  <2>3. /\ DOMAIN s = CoreFuns \cup m.funs \cup m.nested \cup DOMAIN i
        /\ \A n \in CoreFuns : s[n] = Origin(Core, n)
        /\ \A n \in (m.funs \cup m.nested) \ CoreFuns : s[n] \in {Origin(p, n), Nested(p, n)}
        /\ \A n \in DOMAIN i \ (CoreFuns \cup m.funs \cup m.nested) : s[n] = i[n]
    BY <1>3, <1>11, <2>1
  <2>4. \A n \in (DOMAIN e \cap DOMAIN s) \ CoreFuns : e[n] = s[n]
    BY <1>3, <1>7, <1>11, <2>2
  <2> QED BY <1>3, <1>8, <1>9, <2>3, <2>4 DEF SchemesFrom, Origin, Nested
<1>13. ASSUME NEW n \in DOMAIN entry.imported_names
       PROVE  LooksFor(p, n)'
  <2>1. LeadsToImports(entry.imported_names, m, exports')
    BY <1>3, <1>6, <1>11, ImportedNames
  <2>2. explicit(m) = scopes[p].explicit /\ globs(m) = scopes[p].globs
    BY <1>1 DEF explicit, globs
  <2>3. ItemOf(p, n)' <=> n \in {l \in DOMAIN explicit(m) : explicit(m)[l].kind = "Item"}
    BY <1>1, <2>2 DEF ItemOf
  <2> PICK t : t = entry.imported_names[n]
    OBVIOUS
  <2>4. checked'[p].imported_names[n] = t /\ checked'[p].imported = build_import_schemes(m)
    BY <1>8, <1>11
  <2>5. CASE ItemOf(p, n)'
    <3>1. t = [module |-> explicit(m)[n].module, name |-> explicit(m)[n].name]
      BY <2>1, <2>3, <2>5 DEF LeadsToImports
    <3> QED BY <1>1, <2>2, <2>4, <2>5, <3>1 DEF LooksFor
  <2>6. CASE ~ItemOf(p, n)' /\ n \in glob_names(m, exports')
    <3>1. PICK i \in globs_giving(m, n, exports') : t = [module |-> globs(m)[i], name |-> n]
      BY <2>1, <2>3, <2>6 DEF LeadsToImports
    <3>2. PICK g : g = globs(m)[i]
      OBVIOUS
    <3>3. /\ i \in DOMAIN globs(m) /\ g \in DOMAIN exports' /\ n \in DOMAIN exports'[g]
          /\ t.module = g /\ t.name = n
      BY <3>1, <3>2 DEF globs_giving
    <3>4. ASSUME g # p
          PROVE  GivesScheme(p, g, n)'
      <4>1. g \in DOMAIN exports /\ exports'[g] = exports[g]
        BY <1>4, <1>5, <1>7, <3>3, <3>4
      <4>2. i \in globs_giving(m, n, exports)
        BY <3>2, <3>3, <4>1 DEF globs_giving
      <4>3. DOMAIN globs(m) \subseteq 1..Len(m.imports) /\ Len(m.imports) \in Nat
        BY <1>3, <1>6, <2>2 DEF AtModule, ScopeOf
      <4>4. /\ n \in glob_names(m, exports)
            /\ Max(globs_giving(m, n, exports)) \in globs_giving(m, n, exports)
        BY <4>2, <4>3, GlobFacts
      <4>5. Max(globs_giving(m, n, exports)) = i
        BY <1>1, <4>2, <4>4 DEF glob_conflict
      <4>6. /\ n \in DOMAIN build_import_schemes(m)
            /\ n \notin DOMAIN explicit(m) => build_import_schemes(m)[n] = exports[g][n]
        BY <1>3, <1>6, <3>2, <4>4, <4>5, GlobSchemes
      <4>7. g \in Range(globs(m))
        BY <3>2, <3>3 DEF Range
      <4> QED BY <1>1, <2>2, <2>4, <3>3, <4>1, <4>6, <4>7 DEF GivesScheme
    <3>5. GivesScheme(p, g, n)' => GivesScheme(p, checked[p].imported_names[n].module, n)'
      BY <2>4, <3>3
    <3> QED BY <2>4, <2>6, <3>3, <3>4, <3>5 DEF LooksFor
  <2>7. CASE ~ItemOf(p, n)' /\ n \notin glob_names(m, exports')
    <3>1. t.module = Core
      BY <2>1, <2>3, <2>7 DEF LeadsToImports
    <3> QED BY <2>4, <3>1 DEF LooksFor
  <2> QED BY <2>5, <2>6, <2>7
<1>14. SchemeTable(p)'
  BY <1>8, <1>12, <1>13 DEF SchemeTable
<1> QED BY <1>4, <1>10, <1>14 DEF SchemeTables

\* The environment of the evaluated module p: what its functions captured,
\* its lets and its aliases.  What they captured beside declarations and
\* builtins is from the environments of other modules.
LayersOf(p) ==
  LET m == ModuleAt(p) IN
  /\ DOMAIN envs[p] \subseteq DOMAIN closures[p] \cup m.lets \cup DOMAIN checked[p].import_aliases
  /\ \A n \in DOMAIN closures[p] \ m.lets : n \in DOMAIN envs[p] /\ envs[p][n] = closures[p][n]
  /\ \A n \in DOMAIN closures[p] \ (m.funs \cup m.methods \cup CoreFuns) :
       /\ n \in DOMAIN checked[p].imported_names
       /\ checked[p].imported_names[n].module \in Paths \ {p}

Layers == \A p \in Evaluated : LayersOf(p)

CallsInv == SchemeTables /\ Layers /\ CallsReachCheckedFunctions

\* The programs that CallsReachCheckedFunctions is about.
Straight == NoAliasFellBack /\ \A p \in DOMAIN closures : UnmixedNames(p)

\* What stands under a name has the scheme s.
HasScheme(o, s) == o = [s EXCEPT !.nested = FALSE]

LEMMA OwnScheme ==
  ASSUME NEW p, NEW n
  PROVE  HasScheme(Origin(p, n), Origin(p, n)) /\ HasScheme(Origin(p, n), Nested(p, n))
<1>1. ASSUME NEW b, NEW c
      PROVE  [[module |-> p, name |-> n, nested |-> c] EXCEPT !.nested = b]
               = [module |-> p, name |-> n, nested |-> b]
  OBVIOUS
<1> QED BY <1>1 DEF HasScheme, Origin, Nested

\* A function of another kind of declaration is none.
LEMMA OnlyFunctions ==
  ASSUME IsProgram(program), NEW p \in Paths, NEW n
  PROVE  IsFunction(Origin(p, n)) => n \in ModuleAt(p).funs
<1>1. p # Core
  BY ModulesOfPaths
<1> QED BY <1>1 DEF IsFunction, Origin

\* What a module exports and has a function for, the function has the
\* exported scheme.
LEMMA ExportedValues ==
  ASSUME LinkInv, CallsInv, Straight, NEW q \in Evaluated,
         NEW k \in DOMAIN envs[q] \cap DOMAIN exports[q], IsFunction(envs[q][k])
  PROVE  HasScheme(envs[q][k], exports[q][k])
<1> PICK m, c : m = ModuleAt(q) /\ c = checked[q]
  OBVIOUS
<1>1. Passes /\ IsProgram(program)
  BY DEF LinkInv, Passes
<1>2. q \in Paths /\ q \in Checked /\ DOMAIN closures = Evaluated /\ DOMAIN envs = Evaluated
  BY <1>1, TreatedAreLoaded DEF Passes
<1>3. m.funs \cap m.lets = {} /\ m.funs \cup m.lets \cup m.methods \subseteq Names
  BY <1>1, <1>2, Declarations
<1>4. EnvironmentOf(q) /\ LayersOf(q) /\ SchemeTable(q) /\ UnmixedNames(q)
  BY <1>2 DEF LinkInv, Environments, CallsInv, Layers, SchemeTables, Straight
<1>5. k \notin CoreFuns
  BY <1>4 DEF UnmixedNames
<1>6. k \notin m.lets
  <2> SUFFICES ASSUME k \in m.lets PROVE FALSE
    OBVIOUS
  <2>1. envs[q][k] = Origin(q, k)
    BY <1>4 DEF EnvironmentOf
  <2>2. k \in m.funs
    BY <1>1, <1>2, <2>1, OnlyFunctions
  <2> QED BY <1>3, <2>2
<1>7. k \in DOMAIN closures[q] /\ envs[q][k] = closures[q][k]
  <2>1. k \in DOMAIN closures[q] \cup m.lets
    <3>1. DOMAIN c.import_aliases \cap DOMAIN envs[q] \subseteq DOMAIN closures[q] \cup m.lets
      BY <1>2 DEF Straight, NoAliasFellBack
    <3> QED BY <1>4, <3>1 DEF LayersOf
  <2> QED BY <1>4, <1>6, <2>1 DEF LayersOf
<1>8. CASE k \in DOMAIN c.schemes
  <2>1. exports[q][k] = c.schemes[k]
    BY <1>4, <1>5, <1>8 DEF SchemeTable, SchemesFrom
  <2>2. CallsReachCheckedFunctions /\ Straight
    BY DEF CallsInv
  <2>3. closures[q][k] = [c.schemes[k] EXCEPT !.nested = FALSE]
    BY <1>2, <1>5, <1>7, <1>8, <2>2 DEF CallsReachCheckedFunctions, Straight
  <2> QED BY <1>7, <2>1, <2>3 DEF HasScheme
<1>9. CASE k \notin DOMAIN c.schemes
  <2>1. k \notin m.funs /\ k \notin DOMAIN c.imported
    BY <1>4, <1>9 DEF SchemeTable, SchemesFrom
  <2>2. k \notin m.methods
    <3> SUFFICES ASSUME k \in m.methods PROVE FALSE
      OBVIOUS
    <3>1. envs[q][k] = Origin(q, k)
      BY <1>4 DEF EnvironmentOf
    <3> QED BY <1>1, <1>2, <2>1, <3>1, OnlyFunctions
  <2>3. k \in DOMAIN c.imported_names /\ c.imported_names[k].module \in Paths \ {q}
    BY <1>4, <1>5, <1>7, <2>1, <2>2 DEF LayersOf
  <2>4. LooksFor(q, k)
    BY <1>4, <2>3 DEF SchemeTable
  <2>5. c.imported_names[k].module \notin {Core, q}
    BY <1>1, <2>3, ModulesOfPaths
  <2>6. ~ItemOf(q, k)
    <3> SUFFICES ASSUME k \in DOMAIN scopes[q].explicit, scopes[q].explicit[k].kind = "Item"
                 PROVE  FALSE
      BY DEF ItemOf
    <3>1. k \in DOMAIN c.imported
      BY <1>4, <1>5, <2>1 DEF UnmixedNames
    <3> QED BY <2>1, <3>1
  <2>7. GivesScheme(q, c.imported_names[k].module, k)
    BY <2>4, <2>5, <2>6 DEF LooksFor
  <2> QED BY <2>1, <2>7 DEF GivesScheme
<1> QED BY <1>8, <1>9

\* Under the names of module p, the environment f has what the checker typed.
TypedCalls(p, f) ==
  \A n \in DOMAIN f \cap DOMAIN checked[p].schemes :
    IsFunction(f[n]) =>
      \/ HasScheme(f[n], checked[p].schemes[n])
      \/ checked[p].schemes[n].module = Core /\ n \in CoreFuns /\ Brings(p, n)

\* What is captured under a name that an import brings in is typed.
LEMMA FoundCalls ==
  ASSUME LinkInv, CallsInv, Straight, NEW p \in Paths, Checked = Paths, UnmixedNames(p),
         NEW n \in Found(p) \cap DOMAIN checked[p].schemes, n \notin ModuleAt(p).funs,
         p \notin Evaluated,
         NEW t, t = checked[p].imported_names[n], NEW s, s = checked[p].schemes[n],
         NEW v, v = envs[t.module][t.name], IsFunction(v)
  PROVE  HasScheme(v, s) \/ (s.module = Core /\ n \in CoreFuns /\ Brings(p, n))
<1> PICK m, c, b : m = ModuleAt(p) /\ c = checked[p] /\ b = scopes[p].explicit[n]
  OBVIOUS
<1>1. Passes /\ IsProgram(program) /\ DOMAIN envs = Evaluated /\ Core \notin Paths
      /\ Evaluated \subseteq Paths
  BY ModulesOfPaths, TreatedAreLoaded, Zenon DEF LinkInv, Passes
<1>2. SchemeTable(p)
  BY Zenon DEF CallsInv, SchemeTables
<1>3. /\ n \in DOMAIN c.imported_names /\ t.module \in Evaluated
      /\ t.name \in DOMAIN envs[t.module] /\ t.module \notin {p, Core}
  BY <1>1, Zenon DEF Found
<1>4. \/ ItemOf(p, n) /\ t.module = b.module /\ t.name = b.name
      \/ ~ItemOf(p, n) /\ t.name = n /\ GivesScheme(p, t.module, n)
  <2>1. LooksFor(p, n)
    BY <1>2, <1>3, Zenon DEF SchemeTable
  <2>2. \/ ItemOf(p, n) /\ t = [module |-> b.module, name |-> b.name]
        \/ ~ItemOf(p, n) /\ t.name = n /\ (t.module = p \/ GivesScheme(p, t.module, n))
        \/ t.module = Core
    BY <2>1, Zenon DEF LooksFor
  <2>3. t.module # p /\ t.module # Core
    BY <1>3, Zenon
  <2>4. ASSUME t = [module |-> b.module, name |-> b.name]
        PROVE  t.module = b.module /\ t.name = b.name
    BY <2>4, SMTT(20)
  <2> QED BY <2>2, <2>3, <2>4, Zenon
<1>5. Brings(p, n)
  BY <1>4, Zenon DEF Brings, ItemOf, GivesScheme
<1>6. CASE n \in CoreFuns
  <2>1. s = Origin(Core, n)
    BY <1>2, <1>6, Zenon DEF SchemeTable, SchemesFrom
  <2>2. s.module = Core
    BY <2>1, SMTT(20) DEF Origin
  <2> QED BY <1>5, <1>6, <2>2, Zenon
<1>7. CASE n \notin CoreFuns
  <2>1. n \notin m.nested
    BY <1>5, Zenon DEF UnmixedNames
  <2>2. n \in DOMAIN c.imported /\ s = c.imported[n]
    BY <1>2, <1>7, <2>1, Zenon DEF SchemeTable, SchemesFrom
  <2>3. ASSUME n \in DOMAIN scopes[p].explicit
        PROVE  b.kind = "Item" /\ has_scheme(b) /\ c.imported[n] = exports[b.module][b.name]
    BY <1>7, <2>3, Zenon DEF UnmixedNames
  <2>4. t.name \in DOMAIN exports[t.module] /\ c.imported[n] = exports[t.module][t.name]
    <3>1. CASE ItemOf(p, n)
      BY <1>4, <2>3, <3>1, Zenon DEF ItemOf, has_scheme
    <3>2. CASE ~ItemOf(p, n)
      <4>1. n \notin DOMAIN scopes[p].explicit
        BY <2>3, <3>2, Zenon DEF ItemOf
      <4> QED BY <1>4, <3>2, <4>1, Zenon DEF GivesScheme
    <3> QED BY <3>1, <3>2, Zenon
  <2>5. HasScheme(v, exports[t.module][t.name])
    BY <1>3, <2>4, ExportedValues, Zenon
  <2> QED BY <2>2, <2>4, <2>5, Zenon
<1> QED BY <1>6, <1>7, Zenon

\* What the functions of the current module capture is what it was checked
\* against, and comes from modules evaluated before.
LEMMA CapturedCalls ==
  ASSUME LinkInv, CallsInv, phase = "eval"
  PROVE  LET m == Current
             p == Current.path IN
         /\ Straight /\ UnmixedNames(p) => TypedCalls(p, captured(m))
         /\ \A n \in DOMAIN captured(m) \ (m.funs \cup m.methods \cup CoreFuns) :
              /\ n \in DOMAIN checked[p].imported_names
              /\ checked[p].imported_names[n].module \in Paths \ {p}
<1> PICK m, p, f : m = Current /\ p = Current.path /\ f = captured(Current)
  OBVIOUS
<1>1. Passes /\ IsProgram(program)
  BY DEF LinkInv, Passes
<1>2. p \in Paths /\ ModuleAt(p) = m /\ m.path = p /\ pos \in 1..Len(Modules)
  BY <1>1, CurrentModule DEF Passes
<1>3. /\ Checked = Paths /\ Evaluated = Seen(pos - 1) /\ DOMAIN envs = Evaluated
      /\ Evaluated \subseteq Paths /\ p \notin Evaluated
  <2>1. Checked = Paths /\ Evaluated = Seen(pos - 1) /\ Evaluated \subseteq Paths
    BY <1>1, TreatedAreLoaded DEF Checked, Evaluated, Treated
  <2>2. p \notin Seen(pos - 1)
    BY <1>1, <1>2, SeenFacts DEF Current
  <2> QED BY <1>1, <2>1, <2>2 DEF Passes
<1> PICK imports : imports = checked[p].imported_names
  OBVIOUS
<1>4. /\ DOMAIN f = m.funs \cup m.methods \cup Found(p) \cup CoreFuns
      /\ \A n \in m.funs \cup m.methods : f[n] = Origin(p, n)
      /\ \A n \in Found(p) \ (m.funs \cup m.methods) :
           f[n] = envs[imports[n].module][imports[n].name]
      /\ \A n \in CoreFuns \ (Found(p) \cup m.funs \cup m.methods) : f[n] = Origin(Core, n)
  <2>1. m.path = p /\ imports = checked[m.path].imported_names /\ f = captured(m)
    BY <1>2
  <2>2. CapturedBy(f, m)
    BY <2>1, CapturedForm
  <2> QED BY <2>1, <2>2 DEF CapturedBy
<1>5. ASSUME NEW n \in DOMAIN f \ (m.funs \cup m.methods \cup CoreFuns)
      PROVE  n \in DOMAIN imports /\ imports[n].module \in Paths \ {p}
  BY <1>3, <1>4, Zenon DEF Found
<1>6. ASSUME Straight, UnmixedNames(p), NEW n \in DOMAIN f \cap DOMAIN checked[p].schemes,
             IsFunction(f[n])
      PROVE  \/ HasScheme(f[n], checked[p].schemes[n])
             \/ checked[p].schemes[n].module = Core /\ n \in CoreFuns /\ Brings(p, n)
  <2>1. SchemeTable(p)
    BY <1>2, <1>3 DEF CallsInv, SchemeTables
  <2>2. CASE n \in m.funs
    <3>1. f[n] = Origin(p, n)
      BY <1>4, <2>2
    <3>2. CASE n \in CoreFuns
      <4>1. checked[p].schemes[n] = Origin(Core, n)
        BY <2>1, <3>2 DEF SchemeTable, SchemesFrom
      <4> QED BY <1>2, <2>2, <3>2, <4>1 DEF Origin, Brings
    <3>3. CASE n \notin CoreFuns
      <4>1. checked[p].schemes[n] \in {Origin(p, n), Nested(p, n)}
        BY <1>2, <2>1, <2>2, <3>3 DEF SchemeTable, SchemesFrom
      <4> QED BY <3>1, <4>1, OwnScheme
    <3> QED BY <3>2, <3>3
  <2>3. CASE n \in m.methods \ m.funs
    <3>1. f[n] = Origin(p, n)
      BY <1>4, <2>3, Zenon
    <3> QED BY <1>1, <1>2, <1>6, <2>3, <3>1, OnlyFunctions
  <2>4. CASE n \in Found(p) \ (m.funs \cup m.methods)
    <3>1. f[n] = envs[imports[n].module][imports[n].name]
      BY <1>4, <2>4, Zenon
    <3> QED BY <1>2, <1>3, <1>6, <2>4, <3>1, FoundCalls, Zenon
  <2>5. CASE n \in CoreFuns \ (Found(p) \cup m.funs \cup m.methods)
    <3>1. f[n] = Origin(Core, n) /\ checked[p].schemes[n] = Origin(Core, n)
      BY <1>4, <2>1, <2>5, Zenon DEF SchemeTable, SchemesFrom
    <3> QED BY <3>1, OwnScheme
  <2> QED BY <1>4, <2>2, <2>3, <2>4, <2>5
<1>7. Straight /\ UnmixedNames(p) => TypedCalls(p, f)
  BY <1>6 DEF TypedCalls
<1> QED BY <1>5, <1>7

\* Evaluating a module keeps it.
LEMMA EvalCalls == LinkInv /\ CallsInv /\ EvalModule => CallsInv'
<1> SUFFICES ASSUME LinkInv, CallsInv, EvalModule PROVE CallsInv'
  OBVIOUS
<1> PICK order \in SetToSeqs(DOMAIN checked[Current.path].import_aliases) :
      envs' = Entry(Current.path, declared_values(Current, Current.lets) ?? register_aliases(Current, order))
                ?? envs
  BY DEF EvalModule
<1>0. PICK m, p, A, f, reg, lets :
        /\ m = Current /\ p = Current.path /\ A = DOMAIN checked[p].import_aliases
        /\ f = captured(Current) /\ reg = register_aliases(Current, order)
        /\ lets = declared_values(Current, Current.lets)
  OBVIOUS
<1>1. /\ phase = "eval" /\ Advance("main")
      /\ UNCHANGED <<pub_surface, scopes, exports, type_context, checked>>
      /\ closures' = Entry(p, f) ?? closures /\ envs' = Entry(p, lets ?? reg) ?? envs
      /\ m.path = p
  BY <1>0 DEF EvalModule, Running, resolver_vars, checker_vars
<1>2. Passes /\ SchemeTables /\ Layers
  BY DEF LinkInv, CallsInv
<1>3. p \in Paths /\ ModuleAt(p) = m
  BY <1>0, <1>2, CurrentModule
<1>4. /\ program' = program /\ Checked' = Checked /\ Checked = Paths
      /\ Evaluated' = Evaluated \cup {p} /\ p \notin Evaluated
      /\ DOMAIN envs = Evaluated /\ DOMAIN closures = Evaluated
      /\ Evaluated \subseteq Paths /\ DOMAIN exports = Checked \cup {Core}
  <2>1. /\ program' = program /\ Checked' = Checked /\ Checked = Paths
        /\ Evaluated' = Evaluated \cup {p} /\ p \notin Evaluated
    BY <1>0, <1>1, <1>2, PassMoves
  <2> QED BY <1>2, <2>1, TreatedAreLoaded DEF Passes
<1>5. Modules' = Modules /\ Paths' = Paths /\ \A q : ModuleAt(q)' = ModuleAt(q)
  BY <1>4, ProgramStays
<1>6. /\ DOMAIN envs' = Evaluated' /\ envs'[p] = lets ?? reg
      /\ DOMAIN closures' = Evaluated' /\ closures'[p] = f
      /\ \A q \in Evaluated : envs'[q] = envs[q] /\ closures'[q] = closures[q]
  BY <1>1, <1>4 DEF ??, Entry
<1>7. SchemeTables'
  <2>1. Grown
    BY <1>1 DEF Grown
  <2>2. ASSUME NEW q \in Checked PROVE SchemeTable(q)'
    BY <1>1, <1>2, <1>4, <2>1, <2>2, SchemeTableStays DEF SchemeTables
  <2> QED BY <1>4, <2>2 DEF SchemeTables
<1>8. /\ Straight /\ UnmixedNames(p) => TypedCalls(p, f)
      /\ \A n \in DOMAIN f \ (m.funs \cup m.methods \cup CoreFuns) :
           /\ n \in DOMAIN checked[p].imported_names
           /\ checked[p].imported_names[n].module \in Paths \ {p}
  BY <1>0, <1>1, CapturedCalls
<1>9. Layers'
  <2>1. ASSUME NEW q \in Evaluated PROVE LayersOf(q)'
    <3>1. LayersOf(q)
      BY <1>2 DEF Layers
    <3> QED BY <1>1, <1>5, <1>6, <3>1 DEF LayersOf
  <2>2. LayersOf(p)'
    <3>1. Extends(reg, f, A)
      BY <1>0, <1>1, AliasesRegistered
    <3>2. DOMAIN lets = m.lets
      BY <1>0 DEF declared_values
    <3>3. PICK env : env = lets ?? reg
      OBVIOUS
    <3>4. /\ DOMAIN env \subseteq DOMAIN f \cup m.lets \cup A
          /\ \A n \in DOMAIN f \ m.lets : n \in DOMAIN env /\ env[n] = f[n]
      BY <3>1, <3>2, <3>3 DEF ??, Extends
    <3>5. envs'[p] = env /\ closures'[p] = f /\ checked' = checked /\ ModuleAt(p)' = m
      BY <1>1, <1>3, <1>5, <1>6, <3>3
    <3> QED BY <1>0, <1>5, <1>8, <3>4, <3>5 DEF LayersOf
  <2> QED BY <1>4, <2>1, <2>2 DEF Layers
<1>10. CallsReachCheckedFunctions'
  <2> SUFFICES ASSUME NoAliasFellBack', \A q \in DOMAIN closures' : UnmixedNames(q)'
               PROVE  (\A q \in DOMAIN closures : TypedCalls(q, closures[q]))'
    BY DEF CallsReachCheckedFunctions, TypedCalls, HasScheme
  <2>1. \A q : UnmixedNames(q)' <=> UnmixedNames(q)
    BY <1>1, <1>5 DEF UnmixedNames, Brings, Range, has_scheme
  <2>2. /\ \A q, n : Brings(q, n)' <=> Brings(q, n)
        /\ \A o : IsFunction(o)' <=> IsFunction(o)
    BY <1>1, <1>5 DEF Brings, Range, IsFunction
  <2>3. NoAliasFellBack
    BY <1>1, <1>4, <1>5, <1>6 DEF NoAliasFellBack
  <2>4. Straight /\ UnmixedNames(p)
    BY <1>4, <1>6, <2>1, <2>3 DEF Straight
  <2>5. ASSUME NEW q \in Evaluated PROVE TypedCalls(q, closures[q])
    BY <1>4, <2>4 DEF CallsInv, Straight, CallsReachCheckedFunctions, TypedCalls, HasScheme
  <2>6. \A q \in DOMAIN closures' : TypedCalls(q, closures'[q])
    BY <1>4, <1>6, <1>8, <2>4, <2>5
  <2>7. ASSUME NEW q \in DOMAIN closures', TypedCalls(q, closures'[q])
        PROVE  TypedCalls(q, closures[q])'
    BY <1>1, <2>2, <2>7 DEF TypedCalls, HasScheme
  <2> QED BY <2>6, <2>7
<1> QED BY <1>7, <1>9, <1>10 DEF CallsInv

\* Before the first module is checked there is nothing to say.
LEMMA EarlyCalls ==
  ASSUME Checked' = {}, Evaluated' = {}, Passes'
  PROVE  CallsInv'
<1>1. DOMAIN closures' = {}
  BY DEF Passes
<1> QED BY <1>1 DEF CallsInv, SchemeTables, Layers, CallsReachCheckedFunctions

LEMMA CallsStart == Init => CallsInv
<1> SUFFICES ASSUME Init PROVE CallsInv
  OBVIOUS
<1>1. Checked = {} /\ Evaluated = {}
  BY DEF Init, Checked, Evaluated, Treated
<1>2. DOMAIN closures = {}
  BY DEF Init
<1> QED BY <1>1, <1>2 DEF CallsInv, SchemeTables, Layers, CallsReachCheckedFunctions

\* A step that leaves the tables and the phase alone.
LEMMA QuietCalls ==
  ASSUME CallsInv, UNCHANGED <<program, phase, pos, resolver_vars, checker_vars, evaluator_vars>>
  PROVE  CallsInv'
<1>1. UNCHANGED <<program, phase, pos, scopes, exports, checked, closures, envs>>
  BY DEF resolver_vars, checker_vars, evaluator_vars
<1>2. Checked' = Checked /\ Evaluated' = Evaluated
  BY <1>1, PassesStay
<1>3. Modules' = Modules /\ Paths' = Paths /\ \A q : ModuleAt(q)' = ModuleAt(q)
  BY <1>1, ProgramStays
<1>4. SchemeTables'
  BY <1>1, <1>2, <1>3, SMTT(20)
     DEF CallsInv, SchemeTables, SchemeTable, SchemesFrom, LooksFor, ItemOf, GivesScheme, Range,
         Origin, Nested
<1>5. Layers'
  BY <1>1, <1>2, <1>3 DEF CallsInv, Layers, LayersOf
<1>6. CallsReachCheckedFunctions'
  <2>1. /\ \A q, n : Brings(q, n)' <=> Brings(q, n)
        /\ \A o : IsFunction(o)' <=> IsFunction(o)
    BY <1>1, <1>3 DEF Brings, Range, IsFunction
  <2>2. \A q : UnmixedNames(q)' <=> UnmixedNames(q)
    BY <1>1, <1>3 DEF UnmixedNames, Brings, Range, has_scheme
  <2>3. NoAliasFellBack' <=> NoAliasFellBack
    BY <1>1, <1>3 DEF NoAliasFellBack
  <2> QED BY <1>1, <2>1, <2>2, <2>3 DEF CallsInv, CallsReachCheckedFunctions
<1> QED BY <1>4, <1>5, <1>6 DEF CallsInv

\* Every step keeps it.
LEMMA CallsKept == LinkInv /\ LinkInv' /\ CallsInv /\ [Next]_vars => CallsInv'
<1> SUFFICES ASSUME LinkInv, LinkInv', CallsInv, [Next]_vars PROVE CallsInv'
  OBVIOUS
<1>0. Passes /\ Passes'
  BY DEF LinkInv
<1>1. CASE CollectSurface
  <2>1. phase' = "reexport"
    BY <1>1 DEF CollectSurface
  <2>2. Checked' = {} /\ Evaluated' = {}
    BY <2>1 DEF Checked, Evaluated, Treated
  <2> QED BY <1>0, <2>2, EarlyCalls
<1>2. CASE ReExport
  <2>1. phase = "reexport" /\ Advance("scope")
    BY <1>2 DEF ReExport, Running
  <2>2. Checked = {} /\ Evaluated = {}
    BY <2>1 DEF Checked, Evaluated, Treated
  <2>3. Checked' = {} /\ Evaluated' = {}
    BY <1>0, <2>1, <2>2, PassMoves
  <2> QED BY <1>0, <2>3, EarlyCalls
<1>3. CASE ResolveScope
  <2>1. phase = "scope" /\ Advance("check")
    BY <1>3 DEF ResolveScope, Running
  <2>2. Checked = {} /\ Evaluated = {}
    BY <2>1 DEF Checked, Evaluated, Treated
  <2>3. Checked' = {} /\ Evaluated' = {}
    BY <1>0, <2>1, <2>2, PassMoves
  <2> QED BY <1>0, <2>3, EarlyCalls
<1>4. CASE CheckModule
  <2>1. phase = "check" /\ Advance("eval")
    BY <1>4 DEF CheckModule, Running
  <2>2. Evaluated = {}
    BY <2>1 DEF Evaluated, Treated
  <2>3. Evaluated' = {}
    BY <1>0, <2>1, <2>2, PassMoves
  <2>4. DOMAIN closures' = {}
    BY <1>0, <2>3 DEF Passes
  <2>5. SchemeTables'
    BY <1>4, CheckTables DEF CallsInv
  <2> QED BY <2>3, <2>4, <2>5 DEF CallsInv, Layers, CallsReachCheckedFunctions
<1>5. CASE EvalModule
  BY <1>5, EvalCalls
<1>6. CASE UNCHANGED <<program, phase, pos, resolver_vars, checker_vars, evaluator_vars>>
  BY <1>6, QuietCalls
<1>7. CASE \/ ReExportHidden \/ ImportConflict \/ MissingAnnotation \/ GlobConflict
           \/ ImportRejected \/ UndefinedName \/ GenericClash
  BY <1>6, <1>7
     DEF ReExportHidden, ImportConflict, MissingAnnotation, GlobConflict, ImportRejected,
         UndefinedName, GenericClash, Fail
<1>8. CASE RunMain
  BY <1>6, <1>8 DEF RunMain
<1>9. CASE UNCHANGED vars
  BY <1>6, <1>9 DEF vars, resolver_vars, checker_vars, evaluator_vars
<1> QED BY <1>1, <1>2, <1>3, <1>4, <1>5, <1>7, <1>8, <1>9 DEF Next

\* The function a name stands for in the environment that the functions of
\* a module capture is the one whose scheme the checker used for the name
\* (`build_import_schemes` and `imported_names` on one side, `evaluate_graph`
\* on the other): whatever the chain of facades, globs and renamings is, as
\* long as no alias fell back and no name is typed in one way and bound in
\* another.
THEOREM CallsAreChecked == Spec => []CallsReachCheckedFunctions
<1>1. LinkInv /\ CallsInv /\ [Next]_vars => (LinkInv /\ CallsInv)'
  BY Invariance, CallsKept
<1>2. Init => LinkInv /\ CallsInv
  BY Starts, CallsStart
<1>3. LinkInv /\ CallsInv => CallsReachCheckedFunctions
  BY DEF CallsInv
<1> QED BY <1>1, <1>2, <1>3, PTL DEF Spec

\* What inference finds under a name among functions, builtins and imports
\* is what construction finds there, for every program and whatever
\* function inference has come to: the imports are seeded into both, and in
\* both a function of the module goes before them (`check_impl`'s
\* seeding, `hoist_fun_decls`, `infer_fun_decl` and the `scheme_env`).
THEOREM PassesShareSchemes == Spec => []BothPassesAgree
<1>1. LinkInv /\ CallsInv /\ [Next]_vars => (LinkInv /\ CallsInv)'
  BY Invariance, CallsKept
<1>2. Init => LinkInv /\ CallsInv
  BY Starts, CallsStart
<1>3. LinkInv /\ CallsInv => BothPassesAgree
  <2> SUFFICES ASSUME LinkInv, CallsInv, NEW p \in DOMAIN checked,
                      NEW passed \in SUBSET ModuleAt(p).generic,
                      NEW n \in DOMAIN poly_env(ModuleAt(p), passed, checked[p].imported),
                      n \notin ModuleAt(p).nested,
                      n \notin ModuleAt(p).funs \cap CoreFuns,
                      n \notin ModuleAt(p).generic \ passed
               PROVE  /\ n \in DOMAIN checked[p].schemes
                      /\ checked[p].schemes[n] = poly_env(ModuleAt(p), passed, checked[p].imported)[n]
    BY DEF BothPassesAgree
  <2> DEFINE m == ModuleAt(p)
             imports == checked[p].imported
             own == (m.funs \ m.generic) \cup passed
  <2>1. p \in Checked /\ p \in Paths /\ IsProgram(program)
    BY TreatedAreLoaded DEF LinkInv, Passes
  <2>2. m.path = p /\ m.generic \subseteq m.funs
    BY <2>1, Declarations
  <2>3. OwnSchemes(p) /\ SchemesFrom(p)
    BY <2>1 DEF LinkInv, CheckedTables, CallsInv, SchemeTables, SchemeTable
  <2>4. own \subseteq m.funs /\ (n \in m.funs => n \in own)
    BY <2>2
  <2>5. /\ DOMAIN poly_env(m, passed, imports) = own \cup CoreFuns \cup DOMAIN imports
        /\ n \in own => poly_env(m, passed, imports)[n] = Origin(p, n)
        /\ n \in CoreFuns \ own => poly_env(m, passed, imports)[n] = Origin(Core, n)
        /\ n \in DOMAIN imports \ (own \cup CoreFuns) => poly_env(m, passed, imports)[n] = imports[n]
    BY <2>2 DEF poly_env, core_bindings, ??
  <2>6. CASE n \in own
    BY <2>3, <2>4, <2>5, <2>6 DEF OwnSchemes, SchemesFrom
  <2>7. CASE n \in CoreFuns \ own
    BY <2>3, <2>5, <2>7 DEF SchemesFrom
  <2>8. CASE n \in DOMAIN imports \ (own \cup CoreFuns)
    BY <2>3, <2>4, <2>5, <2>8 DEF SchemesFrom
  <2> QED BY <2>5, <2>6, <2>7, <2>8
<1> QED BY <1>1, <1>2, <1>3, PTL DEF Spec
------------------------------------------------------------------------------
(***************************************************************************)
(* PathNormalizer: the tree of an expression.                              *)
(***************************************************************************)
\* A node of an expression as it is written.
LEMMA NodeKinds ==
  ASSUME NEW node \in Nodes
  PROVE  /\ node.is \in {"Path", "Op", "Assign", "StructLiteral", "PropagateError"}
         /\ node.parts \in Seq(Nat)
         /\ node.is = "Path" => node.segments \in Seq(Segments) \ {<<>>} /\ node.parts = <<>>
         /\ node.is = "StructLiteral" => node.path \in Seq(Segments) \ {<<>>}
<1>1. <<>> \in Seq(Nat)
  BY EmptySeq
<1> QED BY <1>1 DEF Nodes

\* What the passes rely on: the parts of a node come before it.
IsTree(e) ==
  /\ Len(e) \in Nat \ {0} /\ DOMAIN e = 1..Len(e)
  /\ \A i \in 1..Len(e) : e[i].parts \in Seq(1..i - 1) /\ walked(e[i]) \subseteq Range(e[i].parts)

LEMMA ExpressionFacts ==
  ASSUME NEW e, IsExpression(e)
  PROVE  /\ IsTree(e)
         /\ \A i \in 1..Len(e) :
              /\ e[i] \in Nodes
              /\ e[i].is = "Assign" => Last(e[i].parts) \in Range(e[i].parts)
<1>1. e \in Seq(Nodes) /\ e # <<>>
  BY DEF IsExpression
<1>2. Len(e) \in Nat \ {0} /\ DOMAIN e = 1..Len(e) /\ \A i \in 1..Len(e) : e[i] \in Nodes
  BY <1>1, LenProperties, EmptySeq, ElementOfSeq
<1>3. ASSUME NEW i \in 1..Len(e)
      PROVE  /\ e[i].parts \in Seq(1..i - 1) /\ walked(e[i]) \subseteq Range(e[i].parts)
             /\ e[i].is = "Assign" => Last(e[i].parts) \in Range(e[i].parts)
  <2>1. e[i].parts \in Seq(Nat)
    BY <1>2, NodeKinds
  <2>2. /\ Range(e[i].parts) \subseteq 1..i - 1
        /\ e[i].is = "Assign" => e[i].parts # <<>>
    BY DEF IsExpression
  <2>3. e[i].parts \in Seq(1..i - 1)
    BY <2>1, <2>2, SeqRange
  <2>4. e[i].is = "Assign" => Last(e[i].parts) \in Range(e[i].parts)
    BY <2>1, <2>2, LastFacts
  <2>5. walked(e[i]) \subseteq Range(e[i].parts)
    BY <2>4 DEF walked
  <2> QED BY <2>3, <2>4, <2>5
<1> QED BY <1>2, <1>3 DEF IsTree

\* The set S holds the last of n nodes, and of the others those to which
\* `next` leads from one of them.
IsReached(S, n, next) ==
  /\ S \subseteq 1..n
  /\ \A i \in 1..n : i \in S <=> i = n \/ \E owner \in 1..n : i \in next[owner] /\ owner \in S

\* There is one such set.
LEMMA ReachedOnce ==
  ASSUME NEW n \in Nat, NEW next, \A i \in 1..n : next[i] \subseteq 1..i - 1,
         NEW S, IsReached(S, n, next), NEW T, IsReached(T, n, next)
  PROVE  S = T
<1> DEFINE U == {k \in Nat : \A i \in 1..n : n - i <= k => (i \in S <=> i \in T)}
<1>1. /\ S \subseteq 1..n /\ T \subseteq 1..n
      /\ \A i \in 1..n : i \in S <=> i = n \/ \E owner \in 1..n : i \in next[owner] /\ owner \in S
      /\ \A i \in 1..n : i \in T <=> i = n \/ \E owner \in 1..n : i \in next[owner] /\ owner \in T
  BY DEF IsReached
<1>2. 0 \in U
  <2>1. ASSUME NEW i \in 1..n, n - i <= 0 PROVE i = n
    BY <2>1
  <2> QED BY <1>1, <2>1
<1>3. ASSUME NEW k \in Nat, k \in U PROVE k + 1 \in U
  <2> SUFFICES ASSUME NEW i \in 1..n, n - i <= k + 1 PROVE i \in S <=> i \in T
    OBVIOUS
  <2>1. ASSUME NEW owner \in 1..n, i \in next[owner] PROVE owner \in S <=> owner \in T
    <3>1. i \in 1..owner - 1
      BY <2>1
    <3>2. n - owner <= k
      BY <3>1
    <3> QED BY <1>3, <3>2
  <2> QED BY <1>1, <2>1
<1> HIDE DEF U
<1>4. Nat \subseteq U
  BY <1>2, <1>3, NatSetInduction
<1>5. ASSUME NEW i \in 1..n PROVE i \in S <=> i \in T
  <2>1. n - i \in Nat /\ n - i <= n - i
    OBVIOUS
  <2>2. n - i \in U
    BY <1>4, <2>1
  <2> QED BY <2>1, <2>2 DEF U
<1> QED BY <1>1, <1>5

\* The nodes that a node leads the passes to.
walks(e) == [i \in DOMAIN e |-> walked(e[i])]

\* The body of the recursive function that says which nodes are reached.
reached_body(e, g, i) ==
  i = Len(e) \/ \E owner \in DOMAIN e : i \in walked(e[owner]) /\ g[owner]

LEMMA VisitedIs ==
  ASSUME NEW e, IsTree(e)
  PROVE  IsReached(visited(e), Len(e), walks(e))
<1> DEFINE n == Len(e)
           T == 1..n
           R == [i \in T |-> BOOLEAN]
           rank == [i \in T |-> n - i]
           W == Sections(T, R)
           F == [g \in W |-> [i \in T |-> reached_body(e, g, i)]]
           Is(f) == f = [i \in DOMAIN e |-> reached_body(e, f, i)]
           reached == CHOOSE f : Is(f)
<1>1. /\ n \in Nat \ {0} /\ DOMAIN e = T
      /\ \A i \in T : walked(e[i]) \subseteq 1..i - 1
  <2>1. ASSUME NEW i \in T PROVE Range(e[i].parts) \subseteq 1..i - 1
    BY SeqRange DEF IsTree
  <2> QED BY <2>1 DEF IsTree
<1>2. \A g : g \in W <=> g \in [T -> BOOLEAN]
  BY <1>1 DEF Sections
<1>3. F \in [W -> W]
  <2>1. ASSUME NEW g \in W PROVE [i \in T |-> reached_body(e, g, i)] \in [T -> BOOLEAN]
    BY DEF reached_body
  <2> HIDE DEF W, T
  <2> QED BY <1>2, <2>1
<1>4. rank \in [T -> Nat]
  BY <1>1
<1>5. [i \in T |-> TRUE] \in W
  BY <1>2
<1>6. Descends(F, T, R, rank)
  <2> SUFFICES ASSUME NEW g \in W, NEW h \in W, NEW i \in T,
                      \A j \in T : rank[j] < rank[i] => g[j] = h[j]
               PROVE  F[g][i] = F[h][i]
    BY DEF Descends
  <2>1. ASSUME NEW owner \in T, i \in walked(e[owner]) PROVE g[owner] = h[owner]
    <3>1. i \in 1..owner - 1
      BY <1>1, <2>1
    <3>2. rank[owner] < rank[i]
      BY <1>1, <3>1
    <3> QED BY <3>2
  <2>2. F[g][i] = reached_body(e, g, i) /\ F[h][i] = reached_body(e, h, i)
    OBVIOUS
  <2>3. reached_body(e, g, i) = reached_body(e, h, i)
    BY <1>1, <2>1, Zenon DEF reached_body
  <2> HIDE DEF F
  <2> QED BY <2>2, <2>3
<1>7. \E f : Is(f)
  <2>1. \E f \in W : f = F[f]
    <3> HIDE DEF F, R, rank, T, W
    <3> QED BY <1>3, <1>4, <1>5, <1>6, RankedRecursion DEF W
  <2>2. PICK f \in W : f = F[f]
    BY <2>1
  <2>3. F[f] = [i \in T |-> reached_body(e, f, i)]
    OBVIOUS
  <2> HIDE DEF F, W
  <2> QED BY <1>1, <2>2, <2>3
<1>8. Is(reached)
  <2> HIDE DEF Is
  <2> QED BY <1>7
<1>9. visited(e) = {i \in DOMAIN e : reached[i]}
  BY DEF visited, reached_body
<1> HIDE DEF reached
<1>10. \A i \in T : reached[i] <=> reached_body(e, reached, i)
  BY <1>1, <1>8
<1>11. ASSUME NEW i \in T
       PROVE  i \in visited(e) <=> i = n \/ \E owner \in T : i \in walks(e)[owner] /\ owner \in visited(e)
  <2>1. \A owner \in T : walks(e)[owner] = walked(e[owner])
    BY <1>1 DEF walks
  <2> QED BY <1>1, <1>9, <1>10, <2>1, Zenon DEF reached_body
<1>12. visited(e) \subseteq T
  BY <1>1, <1>9
<1> QED BY <1>11, <1>12 DEF IsReached

\* The body of the recursive function that says which nodes are in a target.
inside_body(e, g, i) ==
  \E owner \in DOMAIN e :
    /\ i \in Range(e[owner].parts)
    /\ g[owner] \/ (e[owner].is = "Assign" /\ i # Last(e[owner].parts))

LEMMA InTargetIs ==
  ASSUME NEW e, IsTree(e)
  PROVE  /\ InTarget(e) \subseteq 1..Len(e)
         /\ \A i \in 1..Len(e) : i \in InTarget(e) <=>
              \E owner \in 1..Len(e) :
                /\ i \in Range(e[owner].parts)
                /\ owner \in InTarget(e) \/ (e[owner].is = "Assign" /\ i # Last(e[owner].parts))
<1> DEFINE n == Len(e)
           T == 1..n
           R == [i \in T |-> BOOLEAN]
           rank == [i \in T |-> n - i]
           W == Sections(T, R)
           F == [g \in W |-> [i \in T |-> inside_body(e, g, i)]]
           Is(f) == f = [i \in DOMAIN e |-> inside_body(e, f, i)]
           inside == CHOOSE f : Is(f)
<1>1. /\ n \in Nat \ {0} /\ DOMAIN e = T
      /\ \A i \in T : Range(e[i].parts) \subseteq 1..i - 1
  <2>1. ASSUME NEW i \in T PROVE Range(e[i].parts) \subseteq 1..i - 1
    BY SeqRange DEF IsTree
  <2> QED BY <2>1 DEF IsTree
<1>2. \A g : g \in W <=> g \in [T -> BOOLEAN]
  BY <1>1 DEF Sections
<1>3. F \in [W -> W]
  <2>1. ASSUME NEW g \in W PROVE [i \in T |-> inside_body(e, g, i)] \in [T -> BOOLEAN]
    BY DEF inside_body
  <2> HIDE DEF W, T
  <2> QED BY <1>2, <2>1
<1>4. rank \in [T -> Nat]
  BY <1>1
<1>5. [i \in T |-> TRUE] \in W
  BY <1>2
<1>6. Descends(F, T, R, rank)
  <2> SUFFICES ASSUME NEW g \in W, NEW h \in W, NEW i \in T,
                      \A j \in T : rank[j] < rank[i] => g[j] = h[j]
               PROVE  F[g][i] = F[h][i]
    BY DEF Descends
  <2>1. ASSUME NEW owner \in T, i \in Range(e[owner].parts) PROVE g[owner] = h[owner]
    <3>1. i \in 1..owner - 1
      BY <1>1, <2>1
    <3>2. rank[owner] < rank[i]
      BY <1>1, <3>1
    <3> QED BY <3>2
  <2>2. F[g][i] = inside_body(e, g, i) /\ F[h][i] = inside_body(e, h, i)
    OBVIOUS
  <2>3. inside_body(e, g, i) = inside_body(e, h, i)
    BY <1>1, <2>1 DEF inside_body
  <2> HIDE DEF F
  <2> QED BY <2>2, <2>3
<1>7. \E f : Is(f)
  <2>1. \E f \in W : f = F[f]
    <3> HIDE DEF F, R, rank, T, W
    <3> QED BY <1>3, <1>4, <1>5, <1>6, RankedRecursion DEF W
  <2>2. PICK f \in W : f = F[f]
    BY <2>1
  <2>3. F[f] = [i \in T |-> inside_body(e, f, i)]
    OBVIOUS
  <2> HIDE DEF F, W
  <2> QED BY <1>1, <2>2, <2>3
<1>8. Is(inside)
  <2> HIDE DEF Is
  <2> QED BY <1>7
<1>9. InTarget(e) = {i \in DOMAIN e : inside[i]}
  BY DEF InTarget, inside_body
<1> HIDE DEF inside
<1>10. \A i \in T : inside[i] <=> inside_body(e, inside, i)
  BY <1>1, <1>8
<1>11. ASSUME NEW i \in T
       PROVE  i \in InTarget(e) <=>
                \E owner \in T :
                  /\ i \in Range(e[owner].parts)
                  /\ owner \in InTarget(e) \/ (e[owner].is = "Assign" /\ i # Last(e[owner].parts))
  BY <1>1, <1>9, <1>10 DEF inside_body
<1>12. InTarget(e) \subseteq T
  BY <1>1, <1>9
<1> QED BY <1>11, <1>12

\* The passes come to every node of an expression but those in the target
\* of an assignment.
LEMMA UnvisitedAreInTargets ==
  ASSUME NEW e, IsExpression(e)
  PROVE  visited(e) = (1..Len(e)) \ InTarget(e)
<1> DEFINE n == Len(e)
           S == (1..n) \ InTarget(e)
<1>1. /\ IsTree(e) /\ n \in Nat \ {0} /\ DOMAIN e = 1..n
      /\ \A i \in 1..n : /\ e[i] \in Nodes
                         /\ e[i].is = "Assign" => Last(e[i].parts) \in Range(e[i].parts)
  BY ExpressionFacts DEF IsTree
<1>n. n \in Nat
  BY <1>1
<1>2. \A i \in 1..n : Range(e[i].parts) \subseteq 1..i - 1
  BY DEF IsExpression
<1>3. \A i \in 1..n - 1 : \E owner \in 1..n : \A j \in 1..n : i \in Range(e[j].parts) <=> j = owner
  BY DEF IsExpression
<1>4. \A i \in 1..n : i \in InTarget(e) <=>
        \E owner \in 1..n :
          /\ i \in Range(e[owner].parts)
          /\ owner \in InTarget(e) \/ (e[owner].is = "Assign" /\ i # Last(e[owner].parts))
  BY <1>1, InTargetIs
<1>5. \A i \in 1..n : walks(e)[i] = IF e[i].is = "Assign" THEN {Last(e[i].parts)} ELSE Range(e[i].parts)
  BY <1>1 DEF walks, walked
<1>6. ASSUME NEW i \in 1..n
      PROVE  i \in S <=> i = n \/ \E owner \in 1..n : i \in walks(e)[owner] /\ owner \in S
  <2>1. CASE i = n
    <3>1. \A owner \in 1..n : i \notin Range(e[owner].parts)
      BY <1>1, <1>2, <2>1
    <3> QED BY <1>4, <2>1, <3>1
  <2>2. CASE i # n
    <3>1. i \in 1..n - 1
      <4> HIDE DEF S, n
      <4> QED BY <1>n, <2>2
    <3>2. PICK owner \in 1..n : \A j \in 1..n : i \in Range(e[j].parts) <=> j = owner
      BY <1>3, <3>1
    <3>3. i \in InTarget(e) <=> owner \in InTarget(e) \/ (e[owner].is = "Assign" /\ i # Last(e[owner].parts))
      BY <1>4, <3>2
    <3>4. \A j \in 1..n : i \in walks(e)[j] => j = owner
      BY <1>1, <1>5, <3>2
    <3>5. i \in walks(e)[owner] <=> ~(e[owner].is = "Assign" /\ i # Last(e[owner].parts))
      BY <1>5, <3>2
    <3> QED BY <2>2, <3>3, <3>4, <3>5
  <2> QED BY <2>1, <2>2
<1>7. IsReached(S, n, walks(e))
  BY <1>6 DEF IsReached
<1>8. IsReached(visited(e), n, walks(e))
  BY <1>1, VisitedIs
<1>9. \A i \in 1..n : walks(e)[i] \subseteq 1..i - 1
  BY <1>1, <1>2, <1>5
<1> HIDE DEF S
<1>10. visited(e) = S
  BY <1>1, <1>7, <1>8, <1>9, ReachedOnce
<1> QED BY <1>10 DEF S

\* Two expressions whose nodes lead the passes to the same ones.
LEMMA SameVisited ==
  ASSUME NEW d, IsTree(d), NEW e, IsTree(e), Len(d) = Len(e),
         \A i \in 1..Len(e) : walked(d[i]) = walked(e[i])
  PROVE  visited(d) = visited(e)
<1>1. Len(e) \in Nat /\ DOMAIN e = 1..Len(e) /\ DOMAIN d = 1..Len(e)
  BY DEF IsTree
<1>2. \A i \in 1..Len(e) : walks(d)[i] = walks(e)[i] /\ walks(e)[i] \subseteq 1..i - 1
  <2> SUFFICES ASSUME NEW i \in 1..Len(e) PROVE walked(e[i]) \subseteq 1..i - 1
    BY <1>1 DEF walks
  <2> QED BY SeqRange DEF IsTree
<1>3. IsReached(visited(e), Len(e), walks(e)) /\ IsReached(visited(d), Len(e), walks(d))
  BY VisitedIs
<1>4. IsReached(visited(d), Len(e), walks(e))
  BY <1>2, <1>3 DEF IsReached
<1> QED BY <1>1, <1>2, <1>3, <1>4, ReachedOnce
------------------------------------------------------------------------------
(***************************************************************************)
(* Inference of an expression.                                             *)
(***************************************************************************)
\* A non-empty set of positions has a least element, and Min finds it.
LEMMA NonEmptyHasMin ==
  ASSUME NEW n \in Nat, NEW S, S \subseteq 1..n, S # {}
  PROVE  Min(S) \in S /\ \A m \in S : Min(S) <= m
<1>1. S \subseteq Nat
  OBVIOUS
<1>2. PICK x \in S : \A y \in S : ~ (<<y, x>> \in OpToRel(<, Nat))
  BY <1>1, NatLessThanWellFounded, WFMin, Zenon
<1>3. \A y \in S : ~(y < x)
  BY <1>1, <1>2 DEF OpToRel
<1>4. \A y \in S : x <= y
  BY <1>1, <1>3
<1> QED BY <1>4 DEF Min

\* What inference may say of an expression whose names have meanings in M.
Verdicts(M) == [ends : {"ok", "T0003", "crash"}, at : Nat, means : SUBSET M]

\* What r says when it is put together from S.
Combines(r, S) ==
  /\ r.ends = "ok" => r.at = 0 /\ \A s \in S : s.ends = "ok" /\ s.means \subseteq r.means
  /\ r.ends # "ok" => \E s \in S : s.ends = r.ends /\ s.at = r.at
  /\ \A m \in r.means : \E s \in S : m \in s.means

MeansUpTo(results, K) == UNION {results[k].means : k \in K}

LEMMA InOrder ==
  ASSUME NEW M, NEW results \in Seq(Verdicts(M))
  PROVE  in_order(results) \in Verdicts(M) /\ Combines(in_order(results), Range(results))
<1> DEFINE failed == {k \in DOMAIN results : results[k].ends # "ok"}
           n == Len(results)
<1>1. n \in Nat /\ DOMAIN results = 1..n
  BY LenProperties
<1>2. \A k \in 1..n : /\ results[k] \in Verdicts(M) /\ results[k] \in Range(results)
                      /\ results[k].means \subseteq M
  <2>1. \A k \in 1..n : results[k] \in Verdicts(M) /\ results[k] \in Range(results)
    <3> HIDE DEF failed
    <3> QED BY <1>1, ElementOfSeq, SeqRange
  <2>2. \A v \in Verdicts(M) : v.means \subseteq M
    BY DEF Verdicts
  <2> QED BY <2>1, <2>2
<1>3. ASSUME NEW K \in SUBSET (1..n)
      PROVE  /\ MeansUpTo(results, K) \subseteq M
             /\ \A m \in MeansUpTo(results, K) : \E k \in K : m \in results[k].means
             /\ \A k \in K : results[k].means \subseteq MeansUpTo(results, K)
  BY <1>2 DEF MeansUpTo
<1>4. CASE failed = {}
  <2>1. in_order(results) = Ok(MeansUpTo(results, 1..n))
    BY <1>1, <1>4 DEF in_order, MeansUpTo
  <2>2. \A k \in 1..n : results[k].ends = "ok"
    BY <1>1, <1>4
  <2>3. \A s \in Range(results) : \E k \in 1..n : s = results[k]
    BY <1>1 DEF Range
  <2>4. PICK means : means = MeansUpTo(results, 1..n)
    OBVIOUS
  <2>5. /\ means \subseteq M
        /\ \A m \in means : \E k \in 1..n : m \in results[k].means
        /\ \A k \in 1..n : results[k].means \subseteq means
    BY <1>3, <2>4
  <2>6. Ok(means) \in Verdicts(M)
    BY <2>5 DEF Ok, Verdicts
  <2>7. Combines(Ok(means), Range(results))
    <3>1. \A s \in Range(results) : s.ends = "ok" /\ s.means \subseteq means
      BY <2>2, <2>3, <2>5
    <3>2. \A m \in means : \E s \in Range(results) : m \in s.means
      BY <1>2, <2>5
    <3> QED BY <3>1, <3>2 DEF Combines, Ok
  <2> QED BY <2>1, <2>4, <2>6, <2>7
<1>5. CASE failed # {}
  <2>1. PICK k : k = Min(failed)
    OBVIOUS
  <2>2. k \in failed
    <3>1. failed \subseteq 1..n
      BY <1>1
    <3> HIDE DEF failed, n
    <3> QED BY <1>1, <1>5, <2>1, <3>1, NonEmptyHasMin
  <2>3. k \in 1..n /\ results[k].ends # "ok" /\ 1..k \in SUBSET (1..n)
    BY <1>1, <2>2
  <2>4. PICK means : means = MeansUpTo(results, 1..k)
    OBVIOUS
  <2>5. in_order(results) = [results[k] EXCEPT !.means = means]
    BY <1>5, <2>1, <2>4 DEF in_order, MeansUpTo
  <2>6. means \subseteq M /\ \A m \in means : \E j \in 1..k : m \in results[j].means
    BY <1>3, <2>3, <2>4
  <2>7. results[k] \in Verdicts(M) /\ results[k] \in Range(results)
    BY <1>2, <2>3
  <2>8. PICK r : r = [results[k] EXCEPT !.means = means]
    OBVIOUS
  <2>9. /\ r \in Verdicts(M) /\ r.means = means
        /\ r.ends = results[k].ends /\ r.at = results[k].at
    BY <2>6, <2>7, <2>8 DEF Verdicts
  <2>10. \A m \in means : \E s \in Range(results) : m \in s.means
    BY <1>2, <2>3, <2>6
  <2>11. Combines(r, Range(results))
    BY <2>3, <2>7, <2>9, <2>10 DEF Combines
  <2> QED BY <2>5, <2>8, <2>9, <2>11
<1> QED BY <1>4, <1>5

\* What inference says of a node alone, by what the node is.
LEMMA NodeCases ==
  ASSUME NEW node, NEW vs, NEW i
  PROVE  /\ node.is = "Path" /\ Len(node.segments) = 1 =>
              infer_node(node, vs, i) = lookup(node.segments[1], vs, i)
         /\ node.is = "Path" /\ Len(node.segments) > 1 =>
              infer_node(node, vs, i) = infer_path(node.segments, i)
         /\ node.is = "ResolvedPath" => infer_node(node, vs, i) = lookup(node.resolved, vs, i)
         /\ node.is = "StructLiteral" => infer_node(node, vs, i) = infer_literal_path(node.path, i)
         /\ node.is = "Match" =>
              infer_node(node, vs, i) =
                IF {"Ok", "Err"} \subseteq variants("Result") THEN infer_literal_path(node.path, i)
                ELSE Err(i, "T0003")
         /\ node.is \in {"PropagateError", "Panic"} => infer_node(node, vs, i) = Err(i, "crash")
         /\ \/ node.is \notin {"Path", "ResolvedPath", "StructLiteral", "Match", "PropagateError", "Panic"}
            \/ node.is = "Path" /\ ~(Len(node.segments) = 1) /\ ~(Len(node.segments) > 1)
            => infer_node(node, vs, i) = Ok({})
<1>1. CASE node.is = "Path" /\ Len(node.segments) = 1
  BY <1>1 DEF infer_node
<1>2. CASE node.is = "Path" /\ Len(node.segments) > 1 /\ ~(Len(node.segments) = 1)
  BY <1>2 DEF infer_node
<1>3. CASE node.is = "Path" /\ ~(Len(node.segments) = 1) /\ ~(Len(node.segments) > 1)
  BY <1>3 DEF infer_node
<1>4. CASE node.is = "ResolvedPath"
  BY <1>4 DEF infer_node
<1>5. CASE node.is = "StructLiteral"
  BY <1>5 DEF infer_node
<1>6. CASE node.is = "Match"
  BY <1>6 DEF infer_node
<1>7. CASE node.is \in {"PropagateError", "Panic"}
  BY <1>7 DEF infer_node
<1>8. CASE node.is \notin {"Path", "ResolvedPath", "StructLiteral", "Match", "PropagateError", "Panic"}
  BY <1>8 DEF infer_node
<1> QED BY <1>1, <1>2, <1>3, <1>4, <1>5, <1>6, <1>7, <1>8

\* Inference finds one meaning of a node, or none, or it fails there.
MayBe(r, i) == r \in {Err(i, "T0003"), Err(i, "crash"), Ok({})} \/ \E o : r = Ok({<<i, o>>})

LEMMA NodeVerdict == ASSUME NEW node, NEW vs, NEW i PROVE MayBe(infer_node(node, vs, i), i)
<1>1. ASSUME NEW name PROVE MayBe(lookup(name, vs, i), i)
  BY DEF lookup, MayBe
<1>2. ASSUME NEW segments PROVE MayBe(infer_path(segments, i), i)
  BY DEF infer_path, MayBe
<1>3. ASSUME NEW path PROVE MayBe(infer_literal_path(path, i), i)
  BY DEF infer_literal_path, MayBe
<1>4. MayBe(Err(i, "T0003"), i) /\ MayBe(Err(i, "crash"), i) /\ MayBe(Ok({}), i)
  BY DEF MayBe
<1> QED BY <1>1, <1>2, <1>3, <1>4, NodeCases

\* What is in one of two sequences is in one after the other.
LEMMA RangeOfBoth ==
  ASSUME NEW S, NEW s \in Seq(S), NEW t \in Seq(S)
  PROVE  s \o t \in Seq(S) /\ Range(s \o t) = Range(s) \cup Range(t)
<1> DEFINE m == Len(s)
           n == Len(t)
<1>1. /\ m \in Nat /\ n \in Nat /\ DOMAIN s = 1..m /\ DOMAIN t = 1..n
      /\ s \o t \in Seq(S) /\ DOMAIN (s \o t) = 1..m + n
      /\ \A k \in 1..m + n : (s \o t)[k] = IF k <= m THEN s[k] ELSE t[k - m]
  <2>1. s \o t \in Seq(S) /\ Len(s \o t) = m + n
    BY ConcatProperties
  <2> QED BY <2>1, ConcatProperties, LenProperties
<1> HIDE DEF m, n
<1>2. \A k \in 1..m : k \in 1..m + n /\ (s \o t)[k] = s[k]
  BY <1>1
<1>3. \A k \in 1..n : m + k \in 1..m + n /\ (s \o t)[m + k] = t[k]
  <2> TAKE k \in 1..n
  <2>1. m + k \in 1..m + n /\ ~(m + k <= m) /\ (m + k) - m = k
    BY <1>1
  <2> QED BY <1>1, <2>1
<1>4. \A k \in 1..m + n : k \in 1..m \/ k - m \in 1..n
  BY <1>1
<1>5. \A k \in 1..m + n : k \notin 1..m => (s \o t)[k] = t[k - m]
  BY <1>1
<1>6. Range(s \o t) \subseteq Range(s) \cup Range(t)
  BY <1>1, <1>2, <1>4, <1>5 DEF Range
<1>7. Range(s) \subseteq Range(s \o t)
  BY <1>1, <1>2 DEF Range
<1>8. Range(t) \subseteq Range(s \o t)
  BY <1>1, <1>3 DEF Range
<1> QED BY <1>1, <1>6, <1>7, <1>8

\* The verdicts that inference combines at a node: those of its parts, and
\* of the node alone.
part_verdicts(x, g, i) == [k \in DOMAIN x[i].parts |-> g[x[i].parts[k]]]
Line(x, vs, g, i) ==
  IF x[i].is \in {"StructLiteral", "PropagateError", "Panic"} THEN <<infer_node(x[i], vs, i)>> \o part_verdicts(x, g, i)
  ELSE part_verdicts(x, g, i) \o <<infer_node(x[i], vs, i)>>

\* What such a line of verdicts holds.
HoldsParts(line, x, vs, g, i, M) ==
  /\ line \in Seq(Verdicts(M))
  /\ Range(line) = {infer_node(x[i], vs, i)} \cup {g[j] : j \in Range(x[i].parts)}

LEMMA LineFacts ==
  ASSUME NEW M, NEW x, IsTree(x), NEW vs, NEW i \in 1..Len(x),
         infer_node(x[i], vs, i) \in Verdicts(M),
         NEW g, \A j \in 1..i - 1 : g[j] \in Verdicts(M)
  PROVE  HoldsParts(Line(x, vs, g, i), x, vs, g, i, M)
<1> PICK own, V : own = infer_node(x[i], vs, i) /\ V = Verdicts(M)
  OBVIOUS
<1> DEFINE parts == x[i].parts
           ps == part_verdicts(x, g, i)
           node == <<own>>
<1>1. parts \in Seq(1..i - 1)
  BY DEF IsTree
<1>2. Len(parts) \in Nat /\ DOMAIN parts = 1..Len(parts) /\ \A k \in 1..Len(parts) : parts[k] \in 1..i - 1
  <2> HIDE DEF parts
  <2> QED BY <1>1, LenProperties, ElementOfSeq
<1>3. ps \in Seq(V) /\ Range(ps) = {g[j] : j \in Range(parts)}
  <2>1. ps \in [1..Len(parts) -> V]
    BY <1>2 DEF part_verdicts
  <2>2. ps \in Seq(V)
    BY <1>2, <2>1, SeqDef
  <2>3. Range(ps) = {g[j] : j \in Range(parts)}
    BY DEF Range, part_verdicts
  <2> QED BY <2>2, <2>3
<1>4. node \in Seq(V) /\ Range(node) = {own}
  BY DEF Range
<1>5. node \o ps \in Seq(V) /\ Range(node \o ps) = {own} \cup {g[j] : j \in Range(parts)}
  <2> HIDE DEF node, ps, parts
  <2> QED BY <1>3, <1>4, RangeOfBoth
<1>6. ps \o node \in Seq(V) /\ Range(ps \o node) = {own} \cup {g[j] : j \in Range(parts)}
  <2> HIDE DEF node, ps, parts
  <2> QED BY <1>3, <1>4, RangeOfBoth
<1>7. Line(x, vs, g, i) = IF x[i].is \in {"StructLiteral", "PropagateError", "Panic"} THEN node \o ps ELSE ps \o node
  BY DEF Line
<1> HIDE DEF node, ps
<1> QED BY <1>5, <1>6, <1>7 DEF HoldsParts

\* The verdicts f are those of inference.
AreInferred(f, x, vs, M) ==
  /\ f \in [1..Len(x) -> Verdicts(M)]
  /\ \A i \in 1..Len(x) : f[i] = in_order(Line(x, vs, f, i))

MeansIn(x, vs) == UNION {infer_node(x[i], vs, i).means : i \in 1..Len(x)}

LEMMA InferIs ==
  ASSUME NEW x, IsTree(x), NEW vs
  PROVE  \E f : AreInferred(f, x, vs, MeansIn(x, vs)) /\ infer_expr(x, vs) = f[Len(x)]
<1> DEFINE n == Len(x)
           T == 1..n
           M == MeansIn(x, vs)
           V == Verdicts(M)
           R == [i \in T |-> V]
           rank == [i \in T |-> i]
           W == Sections(T, R)
           F == [g \in W |-> [i \in T |-> in_order(Line(x, vs, g, i))]]
           Is(f) == f = [i \in DOMAIN x |-> in_order(Line(x, vs, f, i))]
           infer == CHOOSE f : Is(f)
<1>1. /\ n \in Nat \ {0} /\ DOMAIN x = T
      /\ \A i \in T : Range(x[i].parts) \subseteq 1..i - 1
  <2>1. ASSUME NEW i \in T PROVE Range(x[i].parts) \subseteq 1..i - 1
    BY SeqRange DEF IsTree
  <2> QED BY <2>1 DEF IsTree
<1>2. \A i \in T : infer_node(x[i], vs, i) \in V
  <2> TAKE i \in T
  <2>1. PICK r : r = infer_node(x[i], vs, i)
    OBVIOUS
  <2>2. r.means \subseteq M
    BY <2>1 DEF MeansIn
  <2>3. i \in Nat
    BY <1>1
  <2>4. MayBe(r, i)
    BY <2>1, NodeVerdict
  <2>5. r \in Verdicts(M)
    <3> HIDE DEF M
    <3> QED BY <2>2, <2>3, <2>4 DEF MayBe, Verdicts, Ok, Err
  <2> QED BY <2>1, <2>5
<1>3. \A g : g \in W <=> g \in [T -> V]
  <2> HIDE DEF V
  <2> QED BY <1>1 DEF Sections
<1>4. ASSUME NEW g \in [T -> V], NEW i \in T
      PROVE  in_order(Line(x, vs, g, i)) \in V
  <2>1. \A j \in 1..i - 1 : g[j] \in V
    BY <1>1
  <2>2. infer_node(x[i], vs, i) \in V /\ i \in 1..Len(x)
    BY <1>2
  <2>3. HoldsParts(Line(x, vs, g, i), x, vs, g, i, M)
    <3> HIDE DEF M, T, n
    <3> QED BY <2>1, <2>2, LineFacts DEF V
  <2> QED BY <2>3, InOrder DEF HoldsParts
<1> HIDE DEF V
<1>5. F \in [W -> W]
  <2>1. ASSUME NEW g \in W PROVE [i \in T |-> in_order(Line(x, vs, g, i))] \in [T -> V]
    BY <1>3, <1>4
  <2> HIDE DEF W, T
  <2> QED BY <1>3, <2>1
<1>6. rank \in [T -> Nat]
  BY <1>1
<1>7. \E start : start \in W
  <2>1. 1 \in T
    BY <1>1
  <2>2. PICK v : v \in V
    BY <1>2, <2>1
  <2>3. [i \in T |-> v] \in [T -> V]
    BY <2>2
  <2> HIDE DEF W
  <2> QED BY <1>3, <2>3
<1>8. Descends(F, T, R, rank)
  <2> SUFFICES ASSUME NEW g \in W, NEW h \in W, NEW i \in T,
                      \A j \in T : rank[j] < rank[i] => g[j] = h[j]
               PROVE  F[g][i] = F[h][i]
    BY DEF Descends
  <2>1. ASSUME NEW k \in DOMAIN x[i].parts PROVE g[x[i].parts[k]] = h[x[i].parts[k]]
    <3>1. x[i].parts[k] \in 1..i - 1
      BY <1>1, <2>1 DEF Range
    <3>2. x[i].parts[k] \in T /\ rank[x[i].parts[k]] < rank[i]
      BY <1>1, <3>1
    <3> QED BY <3>2
  <2>2. part_verdicts(x, g, i) = part_verdicts(x, h, i)
    BY <2>1 DEF part_verdicts
  <2>3. F[g][i] = in_order(Line(x, vs, g, i)) /\ F[h][i] = in_order(Line(x, vs, h, i))
    OBVIOUS
  <2> HIDE DEF F
  <2> QED BY <2>2, <2>3 DEF Line
<1>9. \E f : Is(f)
  <2>1. \E f \in W : f = F[f]
    <3> HIDE DEF F, R, rank, T, W
    <3> QED BY <1>5, <1>6, <1>7, <1>8, RankedRecursion DEF W
  <2>2. PICK f \in W : f = F[f]
    BY <2>1
  <2>3. F[f] = [i \in T |-> in_order(Line(x, vs, f, i))]
    OBVIOUS
  <2> HIDE DEF F, W
  <2> QED BY <1>1, <2>2, <2>3
<1>10. Is(infer)
  <2> HIDE DEF Is
  <2> QED BY <1>9
<1>11. infer_expr(x, vs) = infer[n]
  BY DEF infer_expr, Line, part_verdicts
<1> HIDE DEF infer
<1>12. infer = [i \in T |-> in_order(Line(x, vs, infer, i))]
  BY <1>1, <1>10
<1> DEFINE U == {k \in Nat : \A i \in T : i <= k => infer[i] \in V}
<1>13. 0 \in U
  BY <1>1
<1>14. ASSUME NEW k \in Nat, k \in U PROVE k + 1 \in U
  <2> SUFFICES ASSUME NEW i \in T, i <= k + 1 PROVE infer[i] \in V
    OBVIOUS
  <2>1. \A j \in 1..i - 1 : infer[j] \in Verdicts(M)
    <3>1. \A j \in 1..i - 1 : j \in T /\ j <= k
      BY <1>1
    <3> QED BY <1>14, <3>1 DEF V
  <2>2. infer_node(x[i], vs, i) \in Verdicts(M) /\ i \in 1..Len(x)
    BY <1>2 DEF V
  <2>3. HoldsParts(Line(x, vs, infer, i), x, vs, infer, i, M)
    <3> HIDE DEF M, T, n
    <3> QED BY <2>1, <2>2, LineFacts
  <2>4. in_order(Line(x, vs, infer, i)) \in Verdicts(M)
    <3> HIDE DEF M
    <3> QED BY <2>3, InOrder DEF HoldsParts
  <2> QED BY <1>12, <2>4 DEF V
<1>15. Nat \subseteq U
  <2> HIDE DEF U
  <2> QED BY <1>13, <1>14, NatSetInduction
<1>16. \A i \in T : infer[i] \in V
  <2>1. n \in U /\ \A i \in T : i <= n
    BY <1>1, <1>15
  <2> QED BY <2>1
<1>17. AreInferred(infer, x, vs, M)
  <2> HIDE DEF M
  <2>1. infer \in [T -> V] /\ \A i \in T : infer[i] = in_order(Line(x, vs, infer, i))
    BY <1>12, <1>16
  <2> QED BY <2>1 DEF AreInferred, V
<1> HIDE DEF M
<1> QED BY <1>11, <1>17 DEF M

\* How the verdict r on an expression comes from those on its nodes alone.
Judges(r, x, vs) ==
  /\ r.ends = "ok" =>
       /\ r.at = 0
       /\ \A i \in 1..Len(x) :
            infer_node(x[i], vs, i).ends = "ok" /\ infer_node(x[i], vs, i).means \subseteq r.means
  /\ r.ends # "ok" => r.at \in 1..Len(x) /\ infer_node(x[r.at], vs, r.at).ends = r.ends
  /\ \A m \in r.means : m[1] \in 1..Len(x) /\ m \in infer_node(x[m[1]], vs, m[1]).means

LEMMA InferenceJudges ==
  ASSUME NEW x, IsTree(x), NEW vs,
         \A i \in 1..Len(x) - 1 : \E owner \in 1..Len(x) : i \in Range(x[owner].parts)
  PROVE  Judges(infer_expr(x, vs), x, vs)
<1> DEFINE n == Len(x)
           own(i) == infer_node(x[i], vs, i)
           M == MeansIn(x, vs)
<1>1. PICK f : AreInferred(f, x, vs, M) /\ infer_expr(x, vs) = f[n]
  BY InferIs
<1>2. n \in Nat \ {0} /\ \A i \in 1..n : Range(x[i].parts) \subseteq 1..i - 1
  <2>1. ASSUME NEW i \in 1..n PROVE Range(x[i].parts) \subseteq 1..i - 1
    BY SeqRange DEF IsTree
  <2> QED BY <2>1 DEF IsTree
<1>3. \A i \in 1..n : MayBe(own(i), i)
  BY NodeVerdict
<1>4. ASSUME NEW i \in 1..n
      PROVE  /\ own(i).ends # "ok" => own(i).at = i
             /\ \A m \in own(i).means : m[1] = i
  <2>1. PICK r : r = own(i)
    OBVIOUS
  <2>2. MayBe(r, i)
    BY <1>3, <2>1
  <2>3. (r.ends # "ok" => r.at = i) /\ \A m \in r.means : m[1] = i
    BY <2>2 DEF MayBe, Ok, Err
  <2> QED BY <2>1, <2>3
<1>5. \A i \in 1..n : own(i) \in Verdicts(M)
  <2> TAKE i \in 1..n
  <2>1. PICK r : r = own(i)
    OBVIOUS
  <2>2. r.means \subseteq M
    BY <2>1 DEF MeansIn
  <2>3. i \in Nat
    BY <1>2
  <2>4. MayBe(r, i)
    BY <1>3, <2>1
  <2>5. r \in Verdicts(M)
    <3> HIDE DEF M
    <3> QED BY <2>2, <2>3, <2>4 DEF MayBe, Verdicts, Ok, Err
  <2> QED BY <2>1, <2>5
<1> HIDE DEF M
<1>6. f \in [1..n -> Verdicts(M)] /\ \A i \in 1..n : f[i] = in_order(Line(x, vs, f, i))
  BY <1>1 DEF AreInferred
<1>7. ASSUME NEW i \in 1..n PROVE Combines(f[i], {own(i)} \cup {f[j] : j \in Range(x[i].parts)})
  <2>1. \A j \in 1..i - 1 : f[j] \in Verdicts(M)
    BY <1>2, <1>6
  <2>2. own(i) \in Verdicts(M)
    BY <1>5
  <2>3. HoldsParts(Line(x, vs, f, i), x, vs, f, i, M)
    BY <2>1, <2>2, LineFacts
  <2>4. Combines(in_order(Line(x, vs, f, i)), Range(Line(x, vs, f, i)))
    BY <2>3, InOrder DEF HoldsParts
  <2> QED BY <1>6, <2>3, <2>4 DEF HoldsParts
<1> HIDE DEF own
<1>8. ASSUME NEW i \in 1..n
      PROVE  /\ f[i].ends = "ok" =>
                  /\ f[i].at = 0 /\ own(i).ends = "ok" /\ own(i).means \subseteq f[i].means
                  /\ \A j \in Range(x[i].parts) : f[j].ends = "ok" /\ f[j].means \subseteq f[i].means
             /\ f[i].ends # "ok" =>
                  \/ own(i).ends = f[i].ends /\ own(i).at = f[i].at
                  \/ \E j \in Range(x[i].parts) : f[j].ends = f[i].ends /\ f[j].at = f[i].at
             /\ \A m \in f[i].means : m \in own(i).means \/ \E j \in Range(x[i].parts) : m \in f[j].means
  BY <1>7 DEF Combines
<1> DEFINE Good(i) == /\ f[i].ends # "ok" => f[i].at \in 1..n /\ own(f[i].at).ends = f[i].ends
                      /\ \A m \in f[i].means : m[1] \in 1..n /\ m \in own(m[1]).means
           Ups == {k \in Nat : \A i \in 1..n : i <= k => Good(i)}
           Downs == {k \in Nat : \A i \in 1..n : n - i <= k =>
                                   f[i].ends = "ok" /\ f[i].means \subseteq f[n].means}
<1>9. Nat \subseteq Ups
  <2>1. 0 \in Ups
    BY <1>2
  <2>2. ASSUME NEW k \in Nat, k \in Ups PROVE k + 1 \in Ups
    <3> SUFFICES ASSUME NEW i \in 1..n, i <= k + 1 PROVE Good(i)
      OBVIOUS
    <3>1. ASSUME NEW j \in Range(x[i].parts) PROVE Good(j)
      <4>1. j \in 1..i - 1
        BY <1>2, <3>1
      <4>2. j \in 1..n /\ j <= k
        BY <1>2, <4>1
      <4> QED BY <2>2, <4>2
    <3>2. f[i].ends # "ok" => f[i].at \in 1..n /\ own(f[i].at).ends = f[i].ends
      BY <1>4, <1>8, <3>1 DEF own
    <3>3. \A m \in f[i].means : m[1] \in 1..n /\ m \in own(m[1]).means
      BY <1>4, <1>8, <3>1 DEF own
    <3> QED BY <3>2, <3>3
  <2> HIDE DEF Ups
  <2> QED BY <2>1, <2>2, NatSetInduction
<1>10. n \in 1..n /\ Good(n)
  <2>1. n \in Nat /\ n \in 1..n /\ n <= n
    BY <1>2
  <2>2. n \in Ups
    <3> HIDE DEF Ups, n
    <3> QED BY <1>9, <2>1
  <2> HIDE DEF Good
  <2> QED BY <2>1, <2>2
<1>11. ASSUME f[n].ends = "ok"
       PROVE  \A i \in 1..n : own(i).ends = "ok" /\ own(i).means \subseteq f[n].means
  <2>1. 0 \in Downs
    <3>1. \A i \in 1..n : n - i <= 0 => i = n
      BY <1>2
    <3> QED BY <1>11, <3>1
  <2>2. ASSUME NEW k \in Nat, k \in Downs PROVE k + 1 \in Downs
    <3> SUFFICES ASSUME NEW i \in 1..n, n - i <= k + 1
                 PROVE  f[i].ends = "ok" /\ f[i].means \subseteq f[n].means
      OBVIOUS
    <3>1. CASE i = n
      BY <1>11, <3>1
    <3>2. CASE i # n
      <4>1. i \in 1..n - 1
        BY <1>2, <3>2
      <4>2. PICK owner \in 1..n : i \in Range(x[owner].parts)
        BY <4>1
      <4>3. i \in 1..owner - 1
        BY <1>2, <4>2
      <4>4. n - owner <= k
        BY <1>2, <4>3
      <4>5. f[owner].ends = "ok" /\ f[owner].means \subseteq f[n].means
        BY <2>2, <4>4
      <4>6. f[i].ends = "ok" /\ f[i].means \subseteq f[owner].means
        BY <1>8, <4>2, <4>5
      <4> QED BY <4>5, <4>6
    <3> QED BY <3>1, <3>2
  <2>3. Nat \subseteq Downs
    <3> HIDE DEF Downs
    <3> QED BY <2>1, <2>2, NatSetInduction
  <2> TAKE i \in 1..n
  <2>4. n - i \in Nat /\ n - i <= n - i
    BY <1>2
  <2>5. n - i \in Downs
    <3> HIDE DEF Downs, n
    <3> QED BY <2>3, <2>4
  <2>6. f[i].ends = "ok" /\ f[i].means \subseteq f[n].means
    BY <2>4, <2>5
  <2> QED BY <1>8, <2>6
<1>12. f[n].ends = "ok" => f[n].at = 0
  BY <1>8, <1>10
<1> QED BY <1>1, <1>10, <1>11, <1>12 DEF Judges, own
------------------------------------------------------------------------------
(***************************************************************************)
(* The expression that inference gets.                                     *)
(***************************************************************************)
normalized(e, order) == normalize_expr(desugar_expr(e), order)

\* What becomes of a node that the passes come to.
Rewritten(node, order) ==
  CASE node.is = "Path" /\ leads_through_module(node.segments) ->
         ResolvedPath(resolved_name(node.segments, order))
    [] node.is = "StructLiteral" -> [node EXCEPT !.path = try_normalize_struct_path(@)]
    [] node.is = "PropagateError" -> Match(try_normalize_struct_path(<<"Result", "Err">>), node.parts)
    [] OTHER -> node

LEMMA RewrittenNode ==
  ASSUME NEW node \in Nodes, NEW order
  PROVE  normalize_node(IF node.is = "PropagateError" THEN make_question_mark_match(node.parts) ELSE node, order)
           = Rewritten(node, order)
<1>0. node.is \in {"Path", "Op", "Assign", "StructLiteral", "PropagateError"}
  BY NodeKinds
<1>1. CASE node.is = "PropagateError"
  <2>1. PICK p : p = try_normalize_struct_path(<<"Result", "Err">>)
    OBVIOUS
  <2>2. PICK m : m = Match(<<"Result", "Err">>, node.parts)
    OBVIOUS
  <2>3. m.is = "Match" /\ m.path = <<"Result", "Err">> /\ m.parts = node.parts
    BY <2>2 DEF Match
  <2>4. normalize_node(m, order) = [m EXCEPT !.path = p]
    BY <2>1, <2>3 DEF normalize_node
  <2>5. [m EXCEPT !.path = p] = Match(p, node.parts)
    BY <2>2 DEF Match
  <2>6. Rewritten(node, order) = Match(p, node.parts)
    BY <1>1, <2>1 DEF Rewritten
  <2> QED BY <1>1, <2>2, <2>4, <2>5, <2>6 DEF make_question_mark_match
<1>2. CASE node.is = "Path" /\ leads_through_module(node.segments)
  BY <1>2 DEF normalize_node, Rewritten
<1>3. CASE node.is = "Path" /\ ~leads_through_module(node.segments)
  BY <1>3 DEF normalize_node, Rewritten
<1>4. CASE node.is = "StructLiteral"
  BY <1>4 DEF normalize_node, Rewritten
<1>5. CASE node.is \in {"Op", "Assign"}
  BY <1>5 DEF normalize_node, Rewritten
<1> QED BY <1>0, <1>1, <1>2, <1>3, <1>4, <1>5

\* What a node was is seen from what it became, as far as the walk goes.
LEMMA RewrittenKeeps ==
  ASSUME NEW node \in Nodes, NEW order
  PROVE  LET d == IF node.is = "PropagateError" THEN make_question_mark_match(node.parts) ELSE node
             x == Rewritten(node, order) IN
         /\ d.parts = node.parts /\ walked(d) = walked(node)
         /\ x.parts = node.parts /\ walked(x) = walked(node)
<1>0. /\ node.is \in {"Path", "Op", "Assign", "StructLiteral", "PropagateError"}
      /\ node.is = "Path" => node.parts = <<>>
  BY NodeKinds
<1>1. CASE node.is = "PropagateError"
  BY <1>1 DEF Rewritten, make_question_mark_match, Match, walked
<1>2. CASE node.is = "Path" /\ leads_through_module(node.segments)
  BY <1>0, <1>2 DEF Rewritten, ResolvedPath, walked
<1>3. CASE node.is = "Path" /\ ~leads_through_module(node.segments)
  BY <1>3 DEF Rewritten
<1>4. CASE node.is = "StructLiteral"
  <2>1. Rewritten(node, order) = [node EXCEPT !.path = try_normalize_struct_path(@)]
    BY <1>4 DEF Rewritten
  <2>2. [node EXCEPT !.path = try_normalize_struct_path(@)].parts = node.parts
    BY <1>4 DEF Nodes
  <2>3. [node EXCEPT !.path = try_normalize_struct_path(@)].is = node.is
    BY <1>4 DEF Nodes
  <2> QED BY <1>4, <2>1, <2>2, <2>3 DEF walked
<1>5. CASE node.is \in {"Op", "Assign"}
  BY <1>5 DEF Rewritten
<1> QED BY <1>0, <1>1, <1>2, <1>3, <1>4, <1>5

\* A tree whose nodes have the parts, and lead to the nodes, of those of e.
LEMMA SameShape ==
  ASSUME NEW e, IsTree(e), NEW x, DOMAIN x = DOMAIN e, x = [i \in DOMAIN x |-> x[i]],
         \A i \in DOMAIN e : x[i].parts = e[i].parts /\ walked(x[i]) = walked(e[i])
  PROVE  IsTree(x) /\ Len(x) = Len(e)
<1>1. Len(e) \in Nat \ {0} /\ DOMAIN e = 1..Len(e)
  BY DEF IsTree
<1>2. Len(x) = Len(e)
  <2>1. x \in [1..Len(e) -> Range(x)]
    BY <1>1 DEF Range
  <2>2. x \in Seq(Range(x))
    BY <1>1, <2>1, SeqDef
  <2> QED BY <1>1, <2>2, LenProperties
<1> QED BY <1>1, <1>2 DEF IsTree

LEMMA NormalizedIs ==
  ASSUME NEW e, IsExpression(e), NEW order
  PROVE  LET x == normalized(e, order) IN
         /\ IsTree(x) /\ Len(x) = Len(e)
         /\ \A i \in 1..Len(e) - 1 : \E owner \in 1..Len(e) : i \in Range(x[owner].parts)
         /\ \A i \in 1..Len(e) : x[i] = IF i \in InTarget(e) THEN e[i] ELSE Rewritten(e[i], order)
<1> DEFINE n == Len(e)
           was(i) == e[i].is = "PropagateError"
           desugared(i) == IF was(i) THEN make_question_mark_match(e[i].parts) ELSE e[i]
<1>1. PICK d : d = desugar_expr(e)
  OBVIOUS
<1>2. PICK x : x = normalize_expr(d, order)
  OBVIOUS
<1>3. /\ IsTree(e) /\ n \in Nat \ {0} /\ DOMAIN e = 1..n /\ \A i \in 1..n : e[i] \in Nodes
  BY ExpressionFacts DEF IsTree
<1>4. d = [i \in 1..n |-> IF i \in visited(e) THEN desugared(i) ELSE e[i]]
  BY <1>1, <1>3 DEF desugar_expr
<1>5. /\ DOMAIN d = DOMAIN e /\ d = [i \in DOMAIN d |-> d[i]]
      /\ \A i \in 1..n : d[i] = IF i \in visited(e) THEN desugared(i) ELSE e[i]
  BY <1>3, <1>4
<1>6. \A i \in 1..n : d[i].parts = e[i].parts /\ walked(d[i]) = walked(e[i])
  BY <1>3, <1>5, RewrittenKeeps
<1>7. IsTree(d) /\ Len(d) = n
  BY <1>3, <1>5, <1>6, SameShape
<1>8. visited(d) = visited(e)
  BY <1>3, <1>6, <1>7, SameVisited
<1>9. x = [i \in 1..n |-> IF i \in visited(e) THEN normalize_node(d[i], order) ELSE d[i]]
  BY <1>2, <1>3, <1>5, <1>8 DEF normalize_expr
<1>10. /\ DOMAIN x = DOMAIN e /\ x = [i \in DOMAIN x |-> x[i]]
       /\ \A i \in 1..n : x[i] = IF i \in visited(e) THEN normalize_node(d[i], order) ELSE d[i]
  BY <1>3, <1>9
<1>11. \A i \in 1..n : x[i] = IF i \in visited(e) THEN Rewritten(e[i], order) ELSE e[i]
  BY <1>3, <1>5, <1>10, RewrittenNode
<1>12. \A i \in 1..n : x[i].parts = e[i].parts /\ walked(x[i]) = walked(e[i])
  BY <1>3, <1>11, RewrittenKeeps
<1>13. IsTree(x) /\ Len(x) = n
  BY <1>3, <1>10, <1>12, SameShape
<1>14. \A i \in 1..n - 1 : \E owner \in 1..n : i \in Range(e[owner].parts)
  BY DEF IsExpression
<1>15. \A i \in 1..n - 1 : \E owner \in 1..n : i \in Range(x[owner].parts)
  BY <1>12, <1>14
<1>16. visited(e) = (1..n) \ InTarget(e)
  BY UnvisitedAreInTargets
<1>17. \A i \in 1..n : x[i] = IF i \in InTarget(e) THEN e[i] ELSE Rewritten(e[i], order)
  BY <1>11, <1>16
<1> QED BY <1>1, <1>2, <1>13, <1>15, <1>17 DEF normalized

\* Every element of a finite set is somewhere in every order of it.
LEMMA OrdersAreComplete ==
  ASSUME NEW S, IsFiniteSet(S), NEW order \in SetToSeqs(S)
  PROVE  /\ Cardinality(S) \in Nat /\ DOMAIN order = 1..Cardinality(S)
         /\ \A k \in DOMAIN order : order[k] \in S
         /\ \A s \in S : \E k \in DOMAIN order : order[k] = s
<1> DEFINE n == Cardinality(S)
<1>1. n \in Nat
  BY FS_CardinalityType
<1>2. order \in [1..n -> S] /\ \A i, j \in 1..n : i # j => order[i] # order[j]
  BY DEF SetToSeqs
<1>3. order \in Injection(1..n, S)
  BY <1>2 DEF Injection, IsInjective
<1>4. IsFiniteSet(1..n) /\ Cardinality(1..n) = n
  BY <1>1, FS_Interval
<1>5. order \in Surjection(1..n, S)
  BY <1>3, <1>4, FS_Injection
<1> QED BY <1>1, <1>2, <1>5 DEF Surjection

\* The bare name for a path is that of an import that fits, if there is one.
LEMMA ResolvedNameIs ==
  ASSUME IsFiniteSet(DOMAIN explicit(Current)), NEW order \in SetToSeqs(DOMAIN explicit(Current)),
         NEW segments
  PROVE  \/ /\ resolved_name(segments, order) \in DOMAIN explicit(Current)
            /\ fits(explicit(Current)[resolved_name(segments, order)], segments)
         \/ /\ resolved_name(segments, order) = Last(segments)
            /\ \A l \in DOMAIN explicit(Current) : ~fits(explicit(Current)[l], segments)
<1> PICK D, ex : D = DOMAIN explicit(Current) /\ ex = explicit(Current)
  OBVIOUS
<1> DEFINE found == {k \in DOMAIN order : fits(ex[order[k]], segments)}
<1>1. /\ Cardinality(D) \in Nat /\ DOMAIN order = 1..Cardinality(D)
      /\ \A k \in DOMAIN order : order[k] \in D
      /\ \A s \in D : \E k \in DOMAIN order : order[k] = s
  BY OrdersAreComplete
<1>2. resolved_name(segments, order) = IF found = {} THEN Last(segments) ELSE order[Min(found)]
  BY DEF resolved_name
<1>3. CASE found = {}
  <2>1. \A l \in D : ~fits(ex[l], segments)
    BY <1>1, <1>3
  <2> QED BY <1>2, <1>3, <2>1
<1>4. CASE found # {}
  <2>1. found \subseteq 1..Cardinality(D)
    BY <1>1
  <2>2. Min(found) \in found
    <3> HIDE DEF found
    <3> QED BY <1>1, <1>4, <2>1, NonEmptyHasMin
  <2>3. PICK k : k = Min(found)
    OBVIOUS
  <2>4. k \in DOMAIN order /\ fits(ex[order[k]], segments)
    BY <2>2, <2>3
  <2>5. order[k] \in D
    BY <1>1, <2>4
  <2> HIDE DEF found
  <2> QED BY <1>2, <1>4, <2>3, <2>4, <2>5
<1> QED BY <1>3, <1>4

\* A set of positions and 0 has a greatest element too.
LEMMA NonEmptyHasMaxFromZero ==
  ASSUME NEW n \in Nat, NEW S, S \subseteq 0..n, S # {}
  PROVE  Max(S) \in S /\ \A m \in S : m <= Max(S)
<1>1. CASE S \subseteq {0}
  <2>1. 0 \in S /\ \A x \in S : x = 0
    BY <1>1
  <2>2. \A y \in S : 0 >= y
    BY <2>1
  <2> QED BY <2>1, <2>2 DEF Max
<1>2. CASE ~(S \subseteq {0})
  <2> DEFINE P == S \ {0}
  <2>1. P \subseteq 1..n /\ P # {}
    BY <1>2
  <2>2. PICK x : x = Max(P)
    OBVIOUS
  <2>3. x \in P /\ \A m \in P : m <= x
    <3> HIDE DEF P
    <3> QED BY <2>1, <2>2, NonEmptyHasMax
  <2>4. x \in S /\ \A m \in S : x >= m
    BY <2>3
  <2> QED BY <2>4 DEF Max
<1> QED BY <1>1, <1>2

\* A module that is known, or imported with `*`, makes its first segment known.
LEMMA KnownPrefix ==
  ASSUME NEW path \in Paths \cup all_globs(Current), path # <<>>
  PROVE  is_known_prefix(Head(path))
BY DEF is_known_prefix, first_segments

\* The first n segments of a path are those of a module imported with `*`.
StartsWithGlob(path, n) == SubSeq(path, 1, n) \in all_globs(Current)

\* What is left of a literal's path, and what was cut off it.
IsCut(path, n) ==
  /\ try_normalize_struct_path(path) = SubSeq(path, n + 1, Len(path))
  /\ n > 0 => StartsWithGlob(path, n)
  /\ is_known_prefix(Head(path)) =>
       \A m \in 1..Len(path) - 1 : StartsWithGlob(path, m) => m <= n

LEMMA LiteralPathIs ==
  ASSUME NEW S, NEW path \in Seq(S), Len(path) >= 2
  PROVE  \E n \in 0..Len(path) - 1 : IsCut(path, n)
<1> DEFINE L == Len(path)
           prefixes == {n \in 0..L - 1 : StartsWithGlob(path, n)}
<1>1. L \in Nat /\ L - 1 \in Nat
  BY LenProperties
<1>2. SubSeq(path, 0 + 1, L) = path
  BY SubSeqProperties, SubSeqFull
<1>3. try_normalize_struct_path(path) =
        IF is_known_prefix(Head(path)) /\ prefixes # {} THEN SubSeq(path, Max(prefixes) + 1, L) ELSE path
  BY DEF try_normalize_struct_path, StartsWithGlob
<1>4. CASE ~(is_known_prefix(Head(path)) /\ prefixes # {})
  <2>1. 0 \in 0..L - 1 /\ try_normalize_struct_path(path) = SubSeq(path, 0 + 1, L)
    BY <1>1, <1>2, <1>3, <1>4
  <2>2. is_known_prefix(Head(path)) => \A m \in 1..L - 1 : ~StartsWithGlob(path, m)
    BY <1>1, <1>4
  <2> QED BY <2>1, <2>2 DEF IsCut
<1>5. CASE is_known_prefix(Head(path)) /\ prefixes # {}
  <2>1. PICK n : n = Max(prefixes)
    OBVIOUS
  <2>2. n \in prefixes /\ \A m \in prefixes : m <= n
    <3>1. prefixes \subseteq 0..L - 1
      OBVIOUS
    <3> HIDE DEF prefixes, L
    <3> QED BY <1>1, <1>5, <2>1, <3>1, NonEmptyHasMaxFromZero
  <2>3. n \in 0..L - 1 /\ StartsWithGlob(path, n)
    BY <2>2
  <2>4. \A m \in 1..L - 1 : StartsWithGlob(path, m) => m <= n
    BY <1>1, <2>2
  <2>5. try_normalize_struct_path(path) = SubSeq(path, n + 1, L)
    BY <1>3, <1>5, <2>1
  <2> QED BY <2>3, <2>4, <2>5 DEF IsCut
<1> QED BY <1>4, <1>5

\* The segments of a path from position n + 1 on.
IsRest(p, path, n) ==
  /\ Len(p) = Len(path) - n /\ p # <<>>
  /\ \A k \in 1..Len(path) - n : p[k] = path[n + k]
  /\ Last(p) = Last(path)

LEMMA SuffixFacts ==
  ASSUME NEW S, NEW path \in Seq(S), NEW n \in 0..Len(path) - 1
  PROVE  IsRest(SubSeq(path, n + 1, Len(path)), path, n)
<1>0. PICK p : p = SubSeq(path, n + 1, Len(path))
  OBVIOUS
<1> DEFINE L == Len(path)
<1>1. L \in Nat
  BY LenProperties
<1>2. n + 1 \in 1..L /\ n \in Nat
  BY <1>1
<1>3. /\ p \in Seq(S) /\ Len(p) = L - n
      /\ \A k \in 1..L - n : p[k] = path[n + k]
  <2>1. /\ \A i \in n + 1..L : path[i] \in S
        /\ L - (n + 1) + 1 = L - n
        /\ \A k \in 1..L - n : n + 1 + k - 1 = n + k
    BY <1>1, <1>2, ElementOfSeq
  <2> QED BY <1>0, <1>1, <1>2, <2>1, SubSeqProperties
<1>4. L - n \in 1..L - n /\ n + (L - n) = L
  BY <1>1, <1>2
<1>5. p # <<>>
  <2>1. L - n # 0
    BY <1>1, <1>2
  <2> QED BY <1>3, <2>1, EmptySeq
<1>6. Last(p) = Last(path)
  <2>1. p[L - n] = path[n + (L - n)]
    BY <1>3, <1>4
  <2> QED BY <1>3, <1>4, <2>1 DEF Last
<1> QED BY <1>0, <1>3, <1>5, <1>6 DEF IsRest
------------------------------------------------------------------------------
(***************************************************************************)
(* What inference finds at the nodes that the properties speak of.         *)
(***************************************************************************)
\* The latest of some modules checked so far.
LEMMA LatestIs ==
  ASSUME Passes, NEW S, S \subseteq 1..pos, S # {}
  PROVE  /\ \E k \in S : latest(S) = Modules[k].path
         /\ latest(S) \in Paths /\ latest(S) # Core
<1>1. pos \in 1..Len(Modules) /\ IsProgram(program)
  BY DEF Passes
<1>2. Len(Modules) \in Nat /\ Core \notin Paths /\ \A i \in 1..Len(Modules) : Modules[i].path \in Paths
  BY <1>1, ModulesOfPaths
<1>3. pos \in Nat /\ \A k \in 1..pos : k \in 1..Len(Modules)
  BY <1>1, <1>2
<1>4. Max(S) \in S
  BY <1>3, NonEmptyHasMax
<1>5. Max(S) \in 1..Len(Modules)
  BY <1>3, <1>4
<1> QED BY <1>2, <1>4, <1>5 DEF latest

\* The modules that have types and methods of a name.
LEMMA NamedSoFar ==
  ASSUME NEW n
  PROVE  /\ types_named(n) \subseteq 1..pos /\ methods_named(n) \subseteq 1..pos
         /\ enums_named(n) \subseteq types_named(n)
         /\ structs_named(n) \subseteq types_named(n)
         /\ n \notin DOMAIN Variants => enums_named(n) = {} /\ structs_named(n) = types_named(n)
         /\ enums_named(n) # {} => enums_named(n) = types_named(n)
BY DEF types_named, methods_named, enums_named, structs_named

LEMMA SameOrigin ==
  ASSUME NEW p, NEW n, NEW q, NEW m, Origin(p, n) = Origin(q, m)
  PROVE  p = q /\ n = m
<1>1. Origin(p, n).module = p /\ Origin(q, m).module = q /\ Origin(p, n).name = n /\ Origin(q, m).name = m
  BY DEF Origin
<1> QED BY <1>1

\* A verdict that gives a node one meaning, and one that gives it none.
LEMMA SingleMeaning ==
  ASSUME NEW r, NEW i, NEW o, r = Ok({<<i, o>>})
  PROVE  /\ r.ends = "ok" /\ <<i, o>> \in r.means
         /\ \A m \in r.means : m[2] = o
         /\ \A p : <<i, p>> \in r.means => p = o
BY DEF Ok

LEMMA NoMeaning ==
  ASSUME NEW r, NEW i, r = Err(i, "T0003")
  PROVE  r.ends = "T0003" /\ r.means = {}
BY DEF Err

\* Result::Err of std::core.
CoreErr == Origin(Core, Member("Result", "Err"))

\* A `?` that was replaced builds the Err of std::core, or its match has
\* another meaning or none.
PassesErrOn(r, i) ==
  /\ r.ends # "crash"
  /\ r.ends = "ok" =>
       (<<i, CoreErr>> \in r.means
          <=> enums_named("Result") = {} /\ <<"Result">> \notin all_globs(Current))

LEMMA TryVerdict ==
  ASSUME Passes, NEW node, node.is = "PropagateError", NEW order, NEW vs, NEW i
  PROVE  PassesErrOn(infer_node(Rewritten(node, order), vs, i), i)
<1> DEFINE q == <<"Result", "Err">>
           S == {"Result", "Err"}
<1>1. PICK p : p = try_normalize_struct_path(q)
  OBVIOUS
<1>2. q \in Seq(S) /\ Len(q) = 2 /\ q[1] = "Result" /\ q[2] = "Err" /\ Head(q) = "Result" /\ Last(q) = "Err"
  BY DEF Last
<1>3. SubSeq(q, 1, 1) = <<"Result">>
  <2>1. /\ SubSeq(q, 1, 1) \in Seq(S) /\ Len(SubSeq(q, 1, 1)) = 1
        /\ \A k \in 1..1 : SubSeq(q, 1, 1)[k] = q[k]
    <3>1. 1 \in 0..Len(q)
      BY <1>2
    <3> HIDE DEF q
    <3> QED BY <1>2, <3>1, PrefixTypes
  <2>2. <<"Result">> \in Seq(S) /\ Len(<<"Result">>) = 1 /\ \A k \in 1..1 : <<"Result">>[k] = q[k]
    OBVIOUS
  <2> HIDE DEF q, S
  <2> QED BY <2>1, <2>2, SeqEqual
<1> HIDE DEF q, S
<1>4. PICK n \in 0..Len(q) - 1 : IsCut(q, n)
  <2>1. Len(q) >= 2
    BY <1>2
  <2> QED BY <1>2, <2>1, LiteralPathIs
<1>5. n \in 0..1 /\ Len(q) - 1 = 1
  BY <1>2, <1>4
<1>6. StartsWithGlob(q, 1) <=> <<"Result">> \in all_globs(Current)
  BY <1>3 DEF StartsWithGlob
<1>7. n = 1 <=> <<"Result">> \in all_globs(Current)
  <2>1. ASSUME n = 1 PROVE <<"Result">> \in all_globs(Current)
    BY <1>4, <1>6, <2>1 DEF IsCut
  <2>2. ASSUME <<"Result">> \in all_globs(Current) PROVE n = 1
    <3>1. <<"Result">> # <<>> /\ Head(<<"Result">>) = "Result"
      OBVIOUS
    <3>2. is_known_prefix(Head(q))
      BY <1>2, <2>2, <3>1, KnownPrefix
    <3>3. 1 <= n
      <4>1. 1 \in 1..Len(q) - 1
        BY <1>5
      <4> QED BY <1>4, <1>6, <2>2, <3>2, <4>1 DEF IsCut
    <3> QED BY <1>5, <3>3
  <2> QED BY <2>1, <2>2
<1>8. /\ Len(p) = Len(q) - n /\ p # <<>> /\ Last(p) = Last(q)
      /\ \A k \in 1..Len(q) - n : p[k] = q[n + k]
  <2>1. p = SubSeq(q, n + 1, Len(q))
    BY <1>1, <1>4 DEF IsCut
  <2>2. IsRest(p, q, n)
    BY <1>2, <1>4, <2>1, SuffixFacts
  <2> QED BY <2>2 DEF IsRest
<1>9. PICK x : x = Rewritten(node, order)
  OBVIOUS
<1>10. x.is = "Match" /\ x.path = p
  BY <1>1, <1>9 DEF Rewritten, Match, q
<1>11. PICK r : r = infer_node(x, vs, i)
  OBVIOUS
<1>12. r = Err(i, "T0003") \/ r = infer_literal_path(p, i)
  BY <1>10, <1>11, NodeCases
<1> SUFFICES PassesErrOn(r, i)
  BY <1>9, <1>11
<1>13. CASE r = Err(i, "T0003")
  BY <1>13, NoMeaning DEF PassesErrOn
<1>14. CASE r = infer_literal_path(p, i) /\ n = 0
  <2>1. Len(p) = 2 /\ p[1] = "Result" /\ p[2] = "Err"
    <3>1. Len(q) - n = 2 /\ n + 1 = 1 /\ n + 2 = 2 /\ 1 \in 1..2 /\ 2 \in 1..2
      BY <1>2, <1>14
    <3> QED BY <1>2, <1>8, <3>1
  <2>2. r = Err(i, "T0003") \/ r = Ok({<<i, variant_of("Result", "Err")>>})
    BY <1>14, <2>1 DEF infer_literal_path
  <2>3. variant_of("Result", "Err") = CoreErr <=> enums_named("Result") = {}
    <3>1. CASE enums_named("Result") = {}
      BY <3>1 DEF variant_of, CoreErr
    <3>2. CASE enums_named("Result") # {}
      <4>1. variant_of("Result", "Err") = Origin(latest(enums_named("Result")), Member("Result", "Err"))
        BY <3>2 DEF variant_of
      <4>2. latest(enums_named("Result")) # Core
        BY <3>2, NamedSoFar, LatestIs
      <4> QED BY <3>2, <4>1, <4>2, SameOrigin DEF CoreErr
    <3> QED BY <3>1, <3>2
  <2>4. <<"Result">> \notin all_globs(Current)
    BY <1>7, <1>14
  <2>5. CASE r = Ok({<<i, variant_of("Result", "Err")>>})
    <3>0. PICK o : o = variant_of("Result", "Err")
      OBVIOUS
    <3>1. r.ends = "ok" /\ (<<i, CoreErr>> \in r.means <=> CoreErr = o)
      BY <2>5, <3>0, SingleMeaning
    <3> QED BY <2>3, <2>4, <3>0, <3>1 DEF PassesErrOn
  <2> QED BY <1>13, <2>2, <2>5
<1>15. CASE r = infer_literal_path(p, i) /\ n # 0
  <2>1. n = 1 /\ Len(p) = 1 /\ <<"Result">> \in all_globs(Current) /\ Last(p) = "Err"
    BY <1>2, <1>5, <1>7, <1>8, <1>15
  <2>2. PICK T : T = structs_named("Err")
    OBVIOUS
  <2>3. r = Err(i, "T0003") \/ (T # {} /\ r = Ok({<<i, Origin(latest(T), "Err")>>}))
    BY <1>15, <2>1, <2>2 DEF infer_literal_path
  <2>4. CASE T # {} /\ r = Ok({<<i, Origin(latest(T), "Err")>>})
    <3>1. T \subseteq 1..pos
      BY <2>2, NamedSoFar
    <3>2. latest(T) # Core
      BY <2>4, <3>1, LatestIs
    <3>3. Origin(latest(T), "Err") # CoreErr
      BY <3>2, SameOrigin DEF CoreErr
    <3>4. r.ends = "ok" /\ <<i, CoreErr>> \notin r.means
      <4>1. PICK o : o = Origin(latest(T), "Err")
        OBVIOUS
      <4> QED BY <2>4, <3>3, <4>1, SingleMeaning
    <3> QED BY <2>1, <3>4 DEF PassesErrOn
  <2> QED BY <1>13, <2>3, <2>4
<1> QED BY <1>12, <1>13, <1>14, <1>15

\* A path through a module means the item at its end, or nothing; and it
\* means the item when the module has it under a name that leads there.
MeansItem(r, path) ==
  /\ \A m \in r.means : m[2] = ItemAt(path)
  /\ r.ends = "ok" => Entries(path) # {}
  /\ IsImported(path) /\ Head(path) \in Keywords \cup first_segments({ModuleOf(Front(path))})
       => r.ends = "ok"

LEMMA PathVerdict ==
  ASSUME IsFiniteSet(DOMAIN explicit(Current)), NEW order \in SetToSeqs(DOMAIN explicit(Current)),
         NEW node \in Nodes, node.is = "Path", NEW path, path = node.segments,
         IsModule(Front(path)), ~HasRivals(path), NEW i
  PROVE  MeansItem(infer_node(Rewritten(node, order), locals, i), path)
<1>1. path \in Seq(Segments) /\ path # <<>>
  BY NodeKinds
<1>2. Len(path) \in Nat /\ Len(path) > 1
  <2>1. Len(path) \in Nat \ {0} /\ Front(path) \in Seq(Segments) /\ Len(Front(path)) = Len(path) - 1
    BY <1>1, EmptySeq, FrontTypes
  <2>2. Front(path) # <<>>
    BY DEF IsModule
  <2>3. Len(Front(path)) # 0
    BY <2>1, <2>2, EmptySeq
  <2>4. \A k \in Nat \ {0} : k - 1 # 0 => k \in Nat /\ k > 1
    OBVIOUS
  <2> QED BY <2>1, <2>3, <2>4
<1>3. /\ Bound(path) = Entries(path)
      /\ Len(path) = 2 => methods_named(Member(path[1], path[2])) = {}
      /\ Len(path) = 2 => path[2] \notin variants(path[1]) \cap UnitVariants
  BY DEF HasRivals
<1>4. PICK x, r : x = Rewritten(node, order) /\ r = infer_node(x, locals, i)
  OBVIOUS
<1> SUFFICES MeansItem(r, path)
  BY <1>4
<1>5. PICK head : head = Head(path)
  OBVIOUS
<1>6. leads_through_module(path) <=> head \in Keywords \/ is_known_prefix(head)
  BY <1>2, <1>5 DEF leads_through_module
<1>7. CASE leads_through_module(path)
  <2>1. PICK name : name = resolved_name(path, order)
    OBVIOUS
  <2>2. x.is = "ResolvedPath" /\ x.resolved = name
    BY <1>4, <1>7, <2>1 DEF Rewritten, ResolvedPath
  <2>3. r = lookup(name, locals, i)
    BY <1>4, <2>2, NodeCases
  <2>4. \/ name \in DOMAIN explicit(Current) /\ fits(explicit(Current)[name], path)
        \/ name = Last(path) /\ \A l \in DOMAIN explicit(Current) : ~fits(explicit(Current)[l], path)
    BY <2>1, ResolvedNameIs
  <2>5. name \in Called(path)
    BY <2>4 DEF Called, fits
  <2>6. name \in DOMAIN names_in_scope(locals) \cup DOMAIN explicit(Current) <=> name \in Entries(path)
    BY <1>3, <2>5 DEF Bound
  <2>7. CASE name \in DOMAIN names_in_scope(locals)
    <3>1. name \in Entries(path) /\ names_in_scope(locals)[name] = ItemAt(path)
      BY <2>6, <2>7 DEF Entries
    <3>2. r = Ok({<<i, ItemAt(path)>>})
      BY <2>3, <2>7, <3>1 DEF lookup
    <3>3. PICK o : o = ItemAt(path)
      OBVIOUS
    <3>4. r.ends = "ok" /\ \A m \in r.means : m[2] = o
      BY <3>2, <3>3, SingleMeaning
    <3> QED BY <3>1, <3>3, <3>4 DEF MeansItem
  <2>8. CASE name \notin DOMAIN names_in_scope(locals)
    <3>1. r = Err(i, "T0003")
      BY <2>3, <2>8 DEF lookup
    <3>2. r.ends = "T0003" /\ r.means = {}
      BY <3>1, NoMeaning
    <3>3. name \notin DOMAIN explicit(Current)
      BY <2>6, <2>8 DEF Entries
    <3>4. ASSUME IsImported(path), head \in Keywords \cup first_segments({ModuleOf(Front(path))})
          PROVE  FALSE
      <4>1. name = Last(path) /\ \A l \in DOMAIN explicit(Current) : ~fits(explicit(Current)[l], path)
        BY <2>4, <3>3
      <4>2. PICK l \in DOMAIN explicit(Current) :
              explicit(Current)[l].name = Last(path) /\ explicit(Current)[l].module = ModuleOf(Front(path))
        BY <2>8, <3>4, <4>1 DEF IsImported
      <4>3. head \in Keywords \/ (ModuleOf(Front(path)) # <<>> /\ Head(ModuleOf(Front(path))) = head)
        BY <3>4 DEF first_segments
      <4>4. fits(explicit(Current)[l], path)
        BY <1>5, <4>2, <4>3 DEF fits
      <4> QED BY <4>1, <4>4
    <3> QED BY <1>5, <3>2, <3>4 DEF MeansItem
  <2> QED BY <2>7, <2>8
<1>8. CASE ~leads_through_module(path)
  <2>1. x = node
    BY <1>4, <1>8 DEF Rewritten
  <2>2. r = infer_path(path, i)
    BY <1>2, <1>4, <2>1, NodeCases
  <2>3. r = Err(i, "T0003")
    BY <1>3, <2>2 DEF infer_path
  <2>4. r.ends = "T0003" /\ r.means = {}
    BY <2>3, NoMeaning
  <2>5. head \notin Keywords \cup first_segments({ModuleOf(Front(path))})
    <3>1. ModuleOf(Front(path)) \in Paths \cup all_globs(Current)
      BY DEF IsModule, all_globs
    <3>2. ASSUME head \in first_segments({ModuleOf(Front(path))}) PROVE FALSE
      <4>1. ModuleOf(Front(path)) # <<>> /\ head = Head(ModuleOf(Front(path)))
        BY <3>2 DEF first_segments
      <4>2. is_known_prefix(head)
        BY <3>1, <4>1, KnownPrefix
      <4> QED BY <1>6, <1>8, <4>2
    <3> QED BY <1>6, <1>8, <3>2
  <2> QED BY <1>5, <2>4, <2>5 DEF MeansItem
<1> QED BY <1>7, <1>8

\* A path without its last segment and without its last two.
LEMMA FrontsArePrefixes ==
  ASSUME NEW S, NEW path \in Seq(S), Len(path) > 1
  PROVE  /\ Front(path) = SubSeq(path, 1, Len(path) - 1)
         /\ Front(Front(path)) = SubSeq(path, 1, Len(path) - 2)
<1> DEFINE L == Len(path)
           front == Front(path)
<1>1. L \in Nat /\ L > 1 /\ L - 1 \in Nat /\ L - 2 \in Nat /\ L # 0 /\ L - 1 # 0
  <2>1. \A k \in Nat : k > 1 => k - 1 \in Nat /\ k - 2 \in Nat /\ k # 0 /\ k - 1 # 0
    OBVIOUS
  <2>2. L \in Nat /\ L > 1
    BY LenProperties
  <2> QED BY <2>1, <2>2
<1>2. L - 2 \in 0..L /\ L - 1 - 1 = L - 2 /\ \A i \in 1..L - 2 : i \in 1..L - 1
  BY <1>1
<1>3. /\ SubSeq(path, 1, L - 2) \in Seq(S) /\ Len(SubSeq(path, 1, L - 2)) = L - 2
      /\ \A i \in 1..L - 2 : SubSeq(path, 1, L - 2)[i] = path[i]
  BY <1>2, PrefixTypes
<1>4. front \in Seq(S) /\ Len(front) = L - 1 /\ \A i \in 1..L - 1 : front[i] = path[i]
  BY <1>1, EmptySeq, FrontTypes
<1>5. Front(front) \in Seq(S) /\ Len(Front(front)) = L - 2 /\ \A i \in 1..L - 2 : Front(front)[i] = front[i]
  <2>1. front # <<>>
    BY <1>1, <1>4, EmptySeq
  <2>2. /\ Front(front) \in Seq(S) /\ Len(Front(front)) = Len(front) - 1
        /\ \A i \in 1..Len(front) - 1 : Front(front)[i] = front[i]
    <3> HIDE DEF front
    <3> QED BY <1>4, <2>1, FrontTypes
  <2> QED BY <1>2, <1>4, <2>2
<1>6. \A i \in 1..L - 2 : Front(front)[i] = SubSeq(path, 1, L - 2)[i]
  BY <1>2, <1>3, <1>4, <1>5
<1>7. Front(front) = SubSeq(path, 1, L - 2)
  <2> HIDE DEF front, L
  <2> QED BY <1>3, <1>5, <1>6, SeqEqual
<1> QED BY <1>7 DEF Front

\* A path that starts with a module imported with `*` loses at least that.
LEMMA CutReaches ==
  ASSUME NEW S, NEW path \in Seq(S), NEW k \in 1..Len(path) - 1, StartsWithGlob(path, k),
         NEW n, IsCut(path, n)
  PROVE  k <= n
<1>1. Len(path) \in Nat
  BY LenProperties
<1>2. k \in 0..Len(path) /\ k # 0 /\ 1 \in 1..k
  BY <1>1
<1>3. PICK q : q = SubSeq(path, 1, k)
  OBVIOUS
<1>4. q \in Seq(S) /\ Len(q) = k /\ q[1] = path[1]
  BY <1>2, <1>3, PrefixTypes
<1>5. q # <<>>
  BY <1>2, <1>4, EmptySeq
<1>6. path # <<>>
  BY <1>1, EmptySeq
<1>7. Head(q) = Head(path)
  BY <1>4, <1>5, <1>6
<1>8. is_known_prefix(Head(path))
  BY <1>3, <1>5, <1>7, KnownPrefix DEF StartsWithGlob
<1> QED BY <1>8 DEF IsCut

\* What a literal under the path of a module builds.
TypeBuilt(path) ==
  Origin(ModuleOf(PrefixOf(path)),
         IF IsVariantPath(path) THEN Member(TypeIn(path), Last(path)) ELSE TypeIn(path))

BuildsItsType(r, path) ==
  /\ \A mean \in r.means : mean[2] = TypeBuilt(path)
  /\ IsBuildable(path) => r.ends = "ok"

\* The type it names is that of the module it names, and nothing else.
NamesOneType(path) == Declaring(TypeIn(path)) = {ModuleOf(PrefixOf(path))} /\ ~IsAmbiguous(path)

LEMMA LiteralMeaning ==
  ASSUME Passes, NEW path \in Seq(Segments), Len(path) > 1, NamesOneType(path), NEW i
  PROVE  BuildsItsType(infer_literal_path(try_normalize_struct_path(path), i), path)
<1> DEFINE L == Len(path)
<1>1. path # <<>>
  BY EmptySeq
<1>2. L \in Nat /\ L > 1 /\ L >= 2 /\ L - 1 \in 1..L - 1
  BY LenProperties
<1>3. PICK n \in 0..L - 1 : IsCut(path, n)
  BY <1>2, LiteralPathIs
<1>4. PICK p : p = SubSeq(path, n + 1, L)
  OBVIOUS
<1>5. /\ Len(p) = L - n /\ Last(p) = Last(path)
      /\ \A k \in 1..L - n : p[k] = path[n + k]
  <2>1. IsRest(p, path, n)
    BY <1>4, SuffixFacts
  <2> QED BY <2>1 DEF IsRest
<1>6. PICK r : r = infer_literal_path(p, i)
  OBVIOUS
<1> SUFFICES BuildsItsType(r, path)
  BY <1>3, <1>4, <1>6 DEF IsCut
<1>7. Last(path) = path[L] /\ Head(path) = path[1]
  BY <1>1 DEF Last
<1>8. Len(p) = 2 => n = L - 2 /\ p[1] = path[L - 1] /\ p[2] = Last(path)
  <2>1. ASSUME Len(p) = 2 PROVE n = L - 2 /\ n + 1 = L - 1 /\ n + 2 = L /\ 1 \in 1..L - n /\ 2 \in 1..L - n
    <3>1. n \in Nat /\ L \in Nat
      BY <1>2
    <3>2. L - n = 2
      BY <1>5, <2>1
    <3> HIDE DEF L
    <3> QED BY <3>1, <3>2
  <2> QED BY <1>5, <1>7, <2>1
<1>9. PICK type, m : type = TypeIn(path) /\ m = ModuleOf(PrefixOf(path))
  OBVIOUS
<1>10. Declaring(type) = {m} /\ ~IsAmbiguous(path)
  BY <1>9 DEF NamesOneType
<1>11. \A S : S \subseteq types_named(type) /\ S # {} => latest(S) = m
  <2>1. SUFFICES ASSUME NEW S, S \subseteq types_named(type), S # {} PROVE latest(S) = m
    OBVIOUS
  <2>2. S \subseteq 1..pos
    BY <2>1, NamedSoFar
  <2>3. PICK k \in S : latest(S) = Modules[k].path
    BY <2>1, <2>2, LatestIs
  <2>4. Modules[k].path \in Declaring(type)
    BY <2>1, <2>3 DEF Declaring
  <2> QED BY <1>10, <2>3, <2>4
<1>12. CASE IsVariantPath(path)
  <2>1. L > 2 /\ type = path[L - 1] /\ PrefixOf(path) = Front(Front(path)) /\ structs_named(Last(path)) = {}
    BY <1>9, <1>10, <1>12 DEF IsVariantPath, TypeIn, PrefixOf, IsAmbiguous
  <2>2. PICK built : built = Origin(m, Member(type, Last(path)))
    OBVIOUS
  <2>3. TypeBuilt(path) = built
    BY <1>9, <1>12, <2>2 DEF TypeBuilt
  <2>4. CASE Len(p) = 2
    <3>1. p[1] = type /\ p[2] = Last(path)
      BY <1>8, <2>1, <2>4
    <3>2. r = IF Last(path) \in variants(type) \ UnitVariants
              THEN Ok({<<i, variant_of(type, Last(path))>>}) ELSE Err(i, "T0003")
      BY <1>6, <2>4, <3>1 DEF infer_literal_path
    <3>3. CASE Last(path) \in variants(type) \ UnitVariants
      <4>1. variant_of(type, Last(path)) = built
        <5>1. CASE enums_named(type) = {}
          <6>1. type \in DOMAIN core_variants
            BY <3>3, <5>1 DEF variants
          <6>2. Core \in Declaring(type)
            BY <6>1 DEF Declaring
          <6>3. m = Core
            BY <1>10, <6>2
          <6> QED BY <2>2, <5>1, <6>3 DEF variant_of
        <5>2. CASE enums_named(type) # {}
          <6>1. latest(enums_named(type)) = m
            BY <1>11, <5>2, NamedSoFar
          <6> QED BY <2>2, <5>2, <6>1 DEF variant_of
        <5> QED BY <5>1, <5>2
      <4>2. r = Ok({<<i, built>>})
        BY <3>2, <3>3, <4>1
      <4> QED BY <2>3, <4>2, SingleMeaning DEF BuildsItsType
    <3>4. CASE Last(path) \notin variants(type) \ UnitVariants
      <4>1. r.means = {}
        BY <3>2, <3>4, NoMeaning
      <4>2. ~IsBuildable(path)
        BY <1>9, <1>12, <3>4 DEF IsBuildable
      <4> QED BY <4>1, <4>2 DEF BuildsItsType
    <3> QED BY <3>3, <3>4
  <2>5. CASE Len(p) # 2
    <3>1. r = Err(i, "T0003")
      BY <1>5, <1>6, <2>1, <2>5 DEF infer_literal_path
    <3>2. ASSUME IsBuildable(path) PROVE FALSE
      <4>1. StartsWithGlob(path, L - 2) /\ ~StartsWithGlob(path, L - 1)
        BY <1>2, <1>12, <2>1, <3>2, FrontsArePrefixes DEF IsBuildable, StartsWithGlob
      <4>2. L - 2 <= n
        <5>1. L - 2 \in 1..L - 1
          BY <1>2, <2>1
        <5> QED BY <1>3, <4>1, <5>1, CutReaches
      <4>3. n # L - 1
        <5>1. n = L - 1 => n > 0
          BY <1>2
        <5> QED BY <1>3, <4>1, <5>1 DEF IsCut
      <4>4. L - n = 2
        <5>1. n \in Int /\ n >= L - 2 /\ n <= L - 1 /\ n # L - 1 /\ L \in Int
          BY <1>2, <1>3, <4>2, <4>3
        <5> QED BY <5>1
      <4> QED BY <1>5, <2>5, <4>4
    <3> QED BY <3>1, <3>2, NoMeaning DEF BuildsItsType
  <2> QED BY <2>4, <2>5
<1>13. CASE ~IsVariantPath(path)
  <2>1. type = Last(path) /\ PrefixOf(path) = Front(path) /\ ~(L = 2 /\ Head(path) \in EnumNames)
    BY <1>9, <1>10, <1>13 DEF TypeIn, PrefixOf, IsAmbiguous
  <2>2. PICK built : built = Origin(m, type)
    OBVIOUS
  <2>3. TypeBuilt(path) = built
    BY <1>9, <1>13, <2>2 DEF TypeBuilt
  <2>4. IsBuildable(path) => n = L - 1 /\ Len(p) = 1
    <3>1. SUFFICES ASSUME IsBuildable(path) PROVE n = L - 1 /\ Len(p) = 1
      OBVIOUS
    <3>2. StartsWithGlob(path, L - 1)
      BY <1>2, <2>1, <3>1, FrontsArePrefixes DEF IsBuildable, StartsWithGlob
    <3>3. L - 1 <= n
      BY <1>2, <1>3, <3>2, CutReaches
    <3>4. n = L - 1 /\ L - n = 1
      BY <1>2, <1>3, <3>3
    <3> QED BY <1>5, <3>4
  <2>5. CASE Len(p) = 2
    <3>1. path[L - 1] \notin EnumNames
      <4>1. CASE L = 2
        BY <1>7, <2>1, <4>1
      <4>2. CASE L # 2
        <5>1. \A k \in Nat : k > 1 /\ k # 2 => k > 2
          OBVIOUS
        <5>2. L > 2
          BY <1>2, <4>2, <5>1
        <5> QED BY <1>13, <5>2 DEF IsVariantPath
      <4> QED BY <4>1, <4>2
    <3>2. variants(path[L - 1]) = {}
      BY <3>1, NamedSoFar DEF variants, EnumNames
    <3>3. r = Err(i, "T0003")
      BY <1>6, <1>8, <2>5, <3>2 DEF infer_literal_path
    <3> QED BY <2>4, <2>5, <3>3, NoMeaning DEF BuildsItsType
  <2>6. CASE Len(p) # 2
    <3>1. PICK T : T = structs_named(type)
      OBVIOUS
    <3>2. r = IF T # {} THEN Ok({<<i, Origin(latest(T), type)>>}) ELSE Err(i, "T0003")
      BY <1>5, <1>6, <2>1, <2>6, <3>1 DEF infer_literal_path
    <3>3. CASE T # {}
      <4>1. latest(T) = m
        BY <1>11, <3>1, <3>3, NamedSoFar
      <4>2. r = Ok({<<i, built>>})
        BY <2>2, <3>2, <3>3, <4>1
      <4> QED BY <2>3, <4>2, SingleMeaning DEF BuildsItsType
    <3>4. CASE T = {}
      <4>1. r.means = {}
        BY <3>2, <3>4, NoMeaning
      <4>2. ASSUME IsBuildable(path) PROVE FALSE
        <5>1. type \notin EnumNames
          BY <1>9, <1>13, <4>2 DEF IsBuildable
        <5>2. types_named(type) = {}
          BY <3>1, <3>4, <5>1, NamedSoFar DEF EnumNames
        <5>3. Declaring(type) = {}
          BY <5>1, <5>2 DEF Declaring, EnumNames
        <5> QED BY <1>10, <5>3
      <4> QED BY <4>1, <4>2 DEF BuildsItsType
    <3> QED BY <3>3, <3>4
  <2> QED BY <2>5, <2>6
<1> QED BY <1>12, <1>13

LEMMA LiteralVerdict ==
  ASSUME Passes, NEW node \in Nodes, node.is = "StructLiteral", NEW path, path = node.path, Len(path) > 1,
         NamesOneType(path), NEW order, NEW vs, NEW i
  PROVE  BuildsItsType(infer_node(Rewritten(node, order), vs, i), path)
<1>1. path \in Seq(Segments)
  BY NodeKinds
<1>2. PICK x, r : x = Rewritten(node, order) /\ r = infer_node(x, vs, i)
  OBVIOUS
<1>3. PICK p : p = try_normalize_struct_path(path)
  OBVIOUS
<1>4. x = [node EXCEPT !.path = p]
  BY <1>2, <1>3 DEF Rewritten
<1>5. x.is = "StructLiteral" /\ x.path = p
  BY <1>4 DEF Nodes
<1>6. r = infer_literal_path(p, i)
  BY <1>2, <1>5, NodeCases
<1>7. BuildsItsType(r, path)
  BY <1>1, <1>3, <1>6, LiteralMeaning
<1> QED BY <1>2, <1>7
------------------------------------------------------------------------------
(***************************************************************************)
(* The passes over the expression.                                         *)
(***************************************************************************)
\* Before its first pass the expression is as it was parsed, and each pass
\* has made of it what the pass makes of the source.
PassInv ==
  /\ pass \in {"none", "desugar", "normalize", "infer", "end"}
  /\ pass # "none" => phase = "check" /\ source \in Expressions
  /\ pass = "desugar" => expr = source
  /\ pass = "normalize" => expr = desugar_expr(source)
  /\ pass \in {"infer", "end"} =>
       \E order \in SetToSeqs(DOMAIN explicit(Current)) : expr = normalized(source, order)
  /\ pass = "end" => result = infer_expr(expr, locals)

NormalizerInv == LinkInv /\ PassInv

\* What the passes make of an expression depends on the scopes, the exports
\* and the modules so far, and the passes leave those alone.
LEMMA PassesRead ==
  ASSUME UNCHANGED vars
  PROVE  /\ SetToSeqs(DOMAIN explicit(Current))' = SetToSeqs(DOMAIN explicit(Current))
         /\ UNCHANGED source => \A order : normalized(source, order)' = normalized(source, order)
         /\ UNCHANGED <<expr, locals, declared>> => infer_expr(expr, locals)' = infer_expr(expr, locals)
<1>1. program' = program /\ scopes' = scopes /\ pos' = pos /\ exports' = exports
  BY DEF vars
<1>2. SetToSeqs(DOMAIN explicit(Current))' = SetToSeqs(DOMAIN explicit(Current))
  BY <1>1 DEF explicit, Current, Modules
<1>3. ASSUME UNCHANGED source, NEW order PROVE normalized(source, order)' = normalized(source, order)
  BY <1>1, <1>3
  DEF normalized, normalize_expr, normalize_node, leads_through_module, resolved_name, fits, explicit, Current,
      Modules, try_normalize_struct_path, is_known_prefix, first_segments, all_globs, globs, Paths
<1>4. ASSUME UNCHANGED <<expr, locals, declared>> PROVE infer_expr(expr, locals)' = infer_expr(expr, locals)
  BY <1>1, <1>4
  DEF infer_expr, infer_node, infer_path, infer_literal_path, lookup, names_in_scope, poly_env, core_bindings, Local,
      Origin, build_import_schemes, has_scheme, glob_names, globs_giving, variant_of, variants, enums_named, types_named, structs_named,
      methods_named, latest, explicit, Current, Modules, globs
<1> QED BY <1>2, <1>3, <1>4

LEMMA PassesStart == NormalizerInit => NormalizerInv
BY Starts DEF NormalizerInit, NormalizerInv, PassInv

LEMMA PassesKept == NormalizerInv /\ [NormalizerNext]_<<vars, expression_vars>> => NormalizerInv'
<1> SUFFICES ASSUME NormalizerInv, [NormalizerNext]_<<vars, expression_vars>> PROVE NormalizerInv'
  OBVIOUS
<1>1. LinkInv /\ PassInv
  BY DEF NormalizerInv
<1>2. [Next]_vars
  BY DEF NormalizerNext, Link, Choose, Desugar, Normalize, Infer
<1>3. LinkInv'
  BY <1>1, <1>2, Invariance
<1>4. PassInv'
  <2>1. CASE Link
    BY <2>1 DEF Link, expression_vars, PassInv
  <2>2. CASE Choose
    <3>1. phase' = phase /\ phase = "check"
      BY <2>2 DEF Choose, vars, Running
    <3> QED BY <2>2, <3>1 DEF Choose, PassInv
  <2>3. CASE Desugar
    <3>1. phase' = phase /\ source' = source /\ expr = source /\ pass' = "normalize" /\ expr' = desugar_expr(expr)
      BY <1>1, <2>3 DEF Desugar, vars, PassInv
    <3>2. phase = "check" /\ source \in Expressions
      BY <1>1, <2>3 DEF Desugar, PassInv
    <3>3. (desugar_expr(source))' = desugar_expr(source)
      BY <3>1
    <3> QED BY <3>1, <3>2, <3>3 DEF PassInv
  <2>4. CASE Normalize
    <3>1. UNCHANGED vars /\ source' = source /\ pass' = "infer"
      BY <2>4 DEF Normalize
    <3>2. phase = "check" /\ source \in Expressions /\ expr = desugar_expr(source)
      BY <1>1, <2>4 DEF Normalize, PassInv
    <3>3. PICK order \in SetToSeqs(DOMAIN explicit(Current)) : expr' = normalize_expr(expr, order)
      BY <2>4 DEF Normalize
    <3>4. expr' = normalized(source, order)
      BY <3>2, <3>3 DEF normalized
    <3>5. expr' = normalized(source, order)' /\ order \in SetToSeqs(DOMAIN explicit(Current))'
      BY <3>1, <3>3, <3>4, PassesRead
    <3>6. phase' = phase
      BY <3>1 DEF vars
    <3> QED BY <3>1, <3>2, <3>5, <3>6 DEF PassInv
  <2>5. CASE Infer
    <3>1. UNCHANGED vars /\ source' = source /\ expr' = expr /\ locals' = locals /\ declared' = declared
          /\ pass' = "end" /\ result' = infer_expr(expr, locals)
      BY <2>5 DEF Infer
    <3>2. phase = "check" /\ source \in Expressions
      BY <1>1, <2>5 DEF Infer, PassInv
    <3>3. PICK order \in SetToSeqs(DOMAIN explicit(Current)) : expr = normalized(source, order)
      BY <1>1, <2>5 DEF Infer, PassInv
    <3>4. expr' = normalized(source, order)' /\ order \in SetToSeqs(DOMAIN explicit(Current))'
      BY <3>1, <3>3, PassesRead
    <3>5. result' = infer_expr(expr, locals)'
      BY <3>1, PassesRead
    <3>6. phase' = phase
      BY <3>1 DEF vars
    <3> QED BY <3>1, <3>2, <3>4, <3>5, <3>6 DEF PassInv
  <2>6. CASE UNCHANGED <<vars, expression_vars>>
    <3>1. /\ UNCHANGED vars /\ source' = source /\ expr' = expr /\ locals' = locals /\ declared' = declared
          /\ pass' = pass /\ result' = result /\ phase' = phase
      BY <2>6 DEF expression_vars, vars
    <3>2. ASSUME pass \in {"infer", "end"}
          PROVE  (\E order \in SetToSeqs(DOMAIN explicit(Current)) : expr = normalized(source, order))'
      <4>1. PICK order \in SetToSeqs(DOMAIN explicit(Current)) : expr = normalized(source, order)
        BY <1>1, <3>2 DEF PassInv
      <4>2. expr' = normalized(source, order)' /\ order \in SetToSeqs(DOMAIN explicit(Current))'
        BY <3>1, <4>1, PassesRead
      <4> QED BY <4>2
    <3>3. pass = "end" => result' = infer_expr(expr, locals)'
      BY <1>1, <3>1, PassesRead DEF PassInv
    <3>4. (desugar_expr(source))' = desugar_expr(source)
      BY <3>1
    <3> QED BY <1>1, <3>1, <3>2, <3>3, <3>4 DEF PassInv
  <2> QED BY <2>1, <2>2, <2>3, <2>4, <2>5, <2>6 DEF NormalizerNext
<1> QED BY <1>3, <1>4 DEF NormalizerInv

\* Only a `?` that is left, or an unreachable!() reached, stops inference.
LEMMA Crashes ==
  ASSUME NEW node, NEW vs, NEW i, infer_node(node, vs, i).ends = "crash"
  PROVE  node.is \in {"PropagateError", "Panic"}
<1>1. ASSUME NEW name PROVE lookup(name, vs, i).ends # "crash"
  BY DEF lookup, Ok, Err
<1>2. ASSUME NEW segments PROVE infer_path(segments, i).ends # "crash"
  BY DEF infer_path, Ok, Err
<1>3. ASSUME NEW path PROVE infer_literal_path(path, i).ends # "crash"
  BY DEF infer_literal_path, Ok, Err
<1>4. Err(i, "T0003").ends # "crash" /\ Ok({}).ends # "crash"
  BY DEF Ok, Err
<1> QED BY <1>1, <1>2, <1>3, <1>4, NodeCases

\* No pass leaves a node that stops inference where it comes.
LEMMA RewrittenIsSound ==
  ASSUME NEW node \in Nodes, NEW order
  PROVE  Rewritten(node, order).is \notin {"PropagateError", "Panic"}
<1>0. node.is \in {"Path", "Op", "Assign", "StructLiteral", "PropagateError"}
  BY NodeKinds
<1>1. CASE node.is = "PropagateError"
  BY <1>1 DEF Rewritten, Match
<1>2. CASE node.is = "Path" /\ leads_through_module(node.segments)
  BY <1>2 DEF Rewritten, ResolvedPath
<1>3. CASE node.is = "Path" /\ ~leads_through_module(node.segments)
  BY <1>3 DEF Rewritten
<1>4. CASE node.is = "StructLiteral"
  <2>1. PICK p : p = try_normalize_struct_path(node.path)
    OBVIOUS
  <2>2. Rewritten(node, order) = [node EXCEPT !.path = p]
    BY <1>4, <2>1 DEF Rewritten
  <2>3. [node EXCEPT !.path = p].is = node.is
    BY <1>4 DEF Nodes
  <2> QED BY <1>4, <2>2, <2>3
<1>5. CASE node.is \in {"Op", "Assign"}
  BY <1>5 DEF Rewritten
<1> QED BY <1>0, <1>1, <1>2, <1>3, <1>4, <1>5

\* The verdict on a node that the passes come to.
VerdictAt(order, i) == infer_node(Rewritten(source[i], order), locals, i)

\* What the verdict on the expression says of a node.
Reflects(v, i) ==
  /\ result.ends = "ok" => v.ends = "ok" /\ \A m : m \in v.means => m \in result.means
  /\ result.at = i => v.ends = result.ends /\ v.ends # "ok"
  /\ \A m \in result.means : m[1] = i => m \in v.means

\* How the verdict on the expression comes from those on the nodes of its
\* source.
JudgedUnder(order) ==
  /\ \A i \in (DOMAIN source) \ InTarget(source) : Reflects(VerdictAt(order, i), i)
  /\ \A i \in InTarget(source) : Reflects(infer_node(source[i], locals, i), i)
  /\ result.ends # "ok" => result.at \in DOMAIN source

LEMMA Judged ==
  ASSUME NormalizerInv, Inferred
  PROVE  /\ Passes /\ IsFiniteSet(DOMAIN explicit(Current))
         /\ InTarget(source) \subseteq DOMAIN source
         /\ \A i \in DOMAIN source : source[i] \in Nodes
         /\ \E order \in SetToSeqs(DOMAIN explicit(Current)) : JudgedUnder(order)
<1>1. Passes /\ Scopes /\ PassInv /\ pass = "end"
  BY DEF NormalizerInv, LinkInv, Inferred
<1>2. phase = "check" /\ source \in Expressions /\ result = infer_expr(expr, locals)
  BY <1>1 DEF PassInv
<1>3. PICK order \in SetToSeqs(DOMAIN explicit(Current)) : expr = normalized(source, order)
  BY <1>1 DEF PassInv
<1>4. IsFiniteSet(DOMAIN explicit(Current))
  <2>1. Current.path \in Paths /\ Resolved = Paths
    BY <1>1, <1>2, CurrentModule DEF Resolved, Treated
  <2> QED BY <1>1, <2>1 DEF Scopes, ScopeOf, explicit
<1>5. IsExpression(source)
  BY <1>2, ExpressionsAssumption
<1> DEFINE n == Len(source)
<1>6. /\ DOMAIN source = 1..n /\ n \in Nat \ {0} /\ IsTree(source)
      /\ \A i \in 1..n : source[i] \in Nodes
  BY <1>5, ExpressionFacts DEF IsTree
<1>7. InTarget(source) \subseteq 1..n
  BY <1>6, InTargetIs
<1>8. PICK x : x = normalized(source, order)
  OBVIOUS
<1>9. /\ IsTree(x) /\ Len(x) = n
      /\ \A i \in 1..n - 1 : \E owner \in 1..n : i \in Range(x[owner].parts)
      /\ \A i \in 1..n : x[i] = IF i \in InTarget(source) THEN source[i] ELSE Rewritten(source[i], order)
  BY <1>5, <1>8, NormalizedIs
<1>10. Judges(result, x, locals)
  <2>1. Judges(infer_expr(x, locals), x, locals)
    BY <1>9, InferenceJudges
  <2> QED BY <1>2, <1>3, <1>8, <2>1
<1>11. ASSUME NEW i \in 1..n PROVE Reflects(infer_node(x[i], locals, i), i)
  <2>1. PICK v : v = infer_node(x[i], locals, i)
    OBVIOUS
  <2>2. result.ends = "ok" => result.at = 0 /\ v.ends = "ok" /\ v.means \subseteq result.means
    BY <1>9, <1>10, <2>1 DEF Judges
  <2>3. result.ends # "ok" /\ result.at = i => v.ends = result.ends
    BY <1>10, <2>1 DEF Judges
  <2>4. \A m \in result.means : m[1] = i => m \in v.means
    BY <1>10, <2>1 DEF Judges
  <2>5. i # 0
    BY <1>6
  <2> QED BY <2>1, <2>2, <2>3, <2>4, <2>5 DEF Reflects
<1>12. ASSUME NEW i \in (DOMAIN source) \ InTarget(source) PROVE Reflects(VerdictAt(order, i), i)
  BY <1>6, <1>9, <1>11, <1>12 DEF VerdictAt
<1>13. ASSUME NEW i \in InTarget(source) PROVE Reflects(infer_node(source[i], locals, i), i)
  BY <1>7, <1>9, <1>11, <1>13
<1>14. result.ends # "ok" => result.at \in DOMAIN source
  BY <1>6, <1>9, <1>10 DEF Judges
<1> QED BY <1>1, <1>3, <1>4, <1>6, <1>7, <1>12, <1>13, <1>14 DEF JudgedUnder

LEMMA TriesJudged == ASSUME NormalizerInv PROVE TriesPropagate
<1> SUFFICES ASSUME Inferred
             PROVE  /\ result.ends = "crash" => Tries \cap InTarget(source) # {}
                    /\ Tries \cap InTarget(source) # {} => result.ends # "ok"
                    /\ result.ends = "ok" => \A i \in Tries :
                         <<i, CoreErr>> \in result.means
                           <=> enums_named("Result") = {} /\ <<"Result">> \notin all_globs(Current)
  BY DEF TriesPropagate, CoreErr
<1>1. PICK order \in SetToSeqs(DOMAIN explicit(Current)) : JudgedUnder(order)
  BY Judged
<1>2. Passes /\ InTarget(source) \subseteq DOMAIN source /\ \A i \in DOMAIN source : source[i] \in Nodes
  BY Judged
<1>3. ASSUME result.ends = "crash" PROVE Tries \cap InTarget(source) # {}
  <2>1. PICK i \in DOMAIN source : i = result.at
    BY <1>1, <1>3 DEF JudgedUnder
  <2>2. CASE i \in InTarget(source)
    <3>1. infer_node(source[i], locals, i).ends = "crash"
      BY <1>1, <1>3, <2>1, <2>2 DEF JudgedUnder, Reflects
    <3>2. source[i].is \in {"PropagateError", "Panic"}
      BY <3>1, Crashes
    <3>3. source[i].is = "PropagateError"
      BY <1>2, <3>2, NodeKinds
    <3> QED BY <2>2, <3>3 DEF Tries
  <2>3. CASE i \notin InTarget(source)
    <3>1. VerdictAt(order, i).ends = "crash"
      BY <1>1, <1>3, <2>1, <2>3 DEF JudgedUnder, Reflects
    <3>2. Rewritten(source[i], order).is \in {"PropagateError", "Panic"}
      BY <3>1, Crashes DEF VerdictAt
    <3> QED BY <1>2, <3>2, RewrittenIsSound
  <2> QED BY <2>2, <2>3
<1>4. ASSUME Tries \cap InTarget(source) # {} PROVE result.ends # "ok"
  <2>1. PICK i \in InTarget(source) : source[i].is = "PropagateError"
    BY <1>4 DEF Tries
  <2>2. infer_node(source[i], locals, i) = Err(i, "crash")
    BY <2>1, NodeCases
  <2>3. infer_node(source[i], locals, i).ends = "crash"
    BY <2>2 DEF Err
  <2> QED BY <1>1, <2>3 DEF JudgedUnder, Reflects
<1>5. ASSUME result.ends = "ok", NEW i \in Tries
      PROVE  <<i, CoreErr>> \in result.means
               <=> enums_named("Result") = {} /\ <<"Result">> \notin all_globs(Current)
  <2>1. i \in DOMAIN source /\ source[i].is = "PropagateError" /\ i \notin InTarget(source)
    BY <1>4, <1>5 DEF Tries
  <2>2. PICK v : v = VerdictAt(order, i)
    OBVIOUS
  <2>3. Reflects(v, i)
    BY <1>1, <2>1, <2>2 DEF JudgedUnder
  <2>4. PassesErrOn(v, i)
    BY <1>2, <2>1, <2>2, TryVerdict DEF VerdictAt
  <2>5. <<i, CoreErr>> \in result.means <=> <<i, CoreErr>> \in v.means
    <3>1. <<i, CoreErr>>[1] = i
      OBVIOUS
    <3>2. PICK mean : mean = <<i, CoreErr>>
      OBVIOUS
    <3> QED BY <1>5, <2>3, <3>1, <3>2 DEF Reflects
  <2> QED BY <1>5, <2>3, <2>4, <2>5 DEF PassesErrOn, Reflects
<1> QED BY <1>3, <1>4, <1>5

LEMMA PathsJudged == ASSUME NormalizerInv PROVE QualifiedPathsMeanTheirItems
<1> SUFFICES ASSUME Inferred, NEW i \in (DOMAIN source) \ InTarget(source), NEW path, path = source[i].segments,
                    source[i].is = "Path", IsModule(Front(path)), ~HasRivals(path)
             PROVE  /\ \A mean \in result.means : mean[1] = i => mean[2] = ItemAt(path)
                    /\ result.ends = "ok" => Entries(path) # {}
                    /\ IsImported(path) /\ Head(path) \in Keywords \cup first_segments({ModuleOf(Front(path))})
                         => result.at # i
  BY DEF QualifiedPathsMeanTheirItems
<1>1. PICK order \in SetToSeqs(DOMAIN explicit(Current)) : JudgedUnder(order)
  BY Judged
<1>2. IsFiniteSet(DOMAIN explicit(Current)) /\ \A k \in DOMAIN source : source[k] \in Nodes
  BY Judged
<1>3. PICK v : v = VerdictAt(order, i)
  OBVIOUS
<1>4. Reflects(v, i)
  BY <1>1, <1>3 DEF JudgedUnder
<1>5. MeansItem(v, path)
  <2>1. PICK node \in Nodes : node = source[i]
    BY <1>2
  <2>2. MeansItem(infer_node(Rewritten(node, order), locals, i), path)
    BY <1>2, <2>1, PathVerdict
  <2> QED BY <1>3, <2>1, <2>2 DEF VerdictAt
<1> QED BY <1>4, <1>5 DEF Reflects, MeansItem

LEMMA LiteralsJudged == ASSUME NormalizerInv PROVE QualifiedLiteralsBuildTheirTypes
<1> SUFFICES ASSUME Inferred, NEW i \in (DOMAIN source) \ InTarget(source), NEW path, path = source[i].path,
                    source[i].is = "StructLiteral", Len(path) > 1, NamesOneType(path)
             PROVE  /\ \A mean \in result.means : mean[1] = i => mean[2] = TypeBuilt(path)
                    /\ IsBuildable(path) => result.at # i
  BY DEF QualifiedLiteralsBuildTheirTypes, NamesOneType, TypeBuilt
<1>1. PICK order \in SetToSeqs(DOMAIN explicit(Current)) : JudgedUnder(order)
  BY Judged
<1>2. Passes /\ \A k \in DOMAIN source : source[k] \in Nodes
  BY Judged
<1>3. PICK v : v = VerdictAt(order, i)
  OBVIOUS
<1>4. Reflects(v, i)
  BY <1>1, <1>3 DEF JudgedUnder
<1>5. BuildsItsType(v, path)
  <2>1. PICK node \in Nodes : node = source[i]
    BY <1>2
  <2>2. BuildsItsType(infer_node(Rewritten(node, order), locals, i), path)
    BY <1>2, <2>1, LiteralVerdict
  <2> QED BY <1>3, <2>1, <2>2 DEF VerdictAt
<1> QED BY <1>4, <1>5 DEF Reflects, BuildsItsType

\* A `?` passes an Err of std::core on, however deep it is nested and
\* whatever it is part of: desugaring, normalization and inference agree on
\* what they visit, and nothing but the target of an assignment, an enum
\* called Result or a module of that name imported with `*` comes between.
THEOREM TriesAreReplaced == NormalizerSpec => []TriesPropagate
<1>1. NormalizerInv => TriesPropagate
  BY TriesJudged
<1> QED BY <1>1, PassesStart, PassesKept, PTL DEF NormalizerSpec

\* A path through a module means the item it names, in whatever order the
\* imports of the scope are met, unless something else goes by a name it may
\* come down to.
THEOREM PathsLeadToItems == NormalizerSpec => []QualifiedPathsMeanTheirItems
<1>1. NormalizerInv => QualifiedPathsMeanTheirItems
  BY PathsJudged
<1> QED BY <1>1, PassesStart, PassesKept, PTL DEF NormalizerSpec

\* A literal under the path of a module builds the type of that module, with
\* any number of segments in the path and any modules imported with `*`.
THEOREM LiteralsLeadToTypes == NormalizerSpec => []QualifiedLiteralsBuildTheirTypes
<1>1. NormalizerInv => QualifiedLiteralsBuildTheirTypes
  BY LiteralsJudged
<1> QED BY <1>1, PassesStart, PassesKept, PTL DEF NormalizerSpec
==============================================================================
