---------------------------- MODULE ModuleLoader ----------------------------
(***************************************************************************)
(* The module loader (src/metel-interpreter/src/module_loader.rs): the     *)
(* depth-first walk that turns a root file into the ordered list of        *)
(* modules every later pass iterates over, with the alias table for files  *)
(* reached under several logical paths.                                    *)
(*                                                                         *)
(* A `.mtl` file is named by the sequence of its path components without   *)
(* the extension; a module path is a sequence of names too.  The disk is   *)
(* chosen by the initial state and does not change while the loader runs.  *)
(* The recursion of `load_module` is the sequence `stack`: one frame per   *)
(* call in progress, holding the parameters of the call and the position   *)
(* of its loop over the imports.                                           *)
(***************************************************************************)
EXTENDS ModulePaths

CONSTANTS
  Names,       \* components of paths
  RootArg,     \* the path given on the command line
  Unreadable,  \* the text of a file that cannot be read or does not parse
  Disks        \* the file systems the loader may meet

\* An import: the names of its path, the one after the root `Name` included.
\* The last of them is the name imported (an `item`, which may be a module),
\* or the import ends in a glob or a group of names.
ImportDecl ==
  {imp \in [root : PathRoots, segs : Seq(Names), item : BOOLEAN] :
     /\ imp.item => imp.segs # <<>>
     /\ imp.root = "Name" => Len(imp.segs) > IF imp.item THEN 1 ELSE 0}

\* A disk: the existing `.mtl` paths with the physical file each denotes
\* (they differ for a symbolic link), and the imports each file declares.
IsDisk(d) ==
  /\ DOMAIN d.entry \subseteq Seq(Names)
  /\ DOMAIN d.source \subseteq Seq(Names)
  /\ \A p \in DOMAIN d.entry : d.entry[p] \in DOMAIN d.source
  /\ \A f \in DOMAIN d.source : d.source[f] = Unreadable \/ d.source[f] \in Seq(ImportDecl)

ASSUME DisksAssumption == \A d \in Disks : IsDisk(d)
ASSUME UnreadableAssumption == Unreadable \notin Seq(ImportDecl)

VARIABLES
  disk,          \* the file system
  stack,         \* the calls of load_module in progress, outermost first
  file_to_path,  \* visited files with the module path of their first visit
  path_aliases,  \* alternative module path -> canonical module path
  modules,       \* the modules loaded so far, in post-order
  outcome        \* "start", "running", "ok", or why load_root returned Err

vars == <<disk, stack, file_to_path, path_aliases, modules, outcome>>

Failures == {"no_root", "unreadable", "super", "missing", "cycle"}
------------------------------------------------------------------------------
(***************************************************************************)
(* From an import declaration to a file and a module path.                 *)
(***************************************************************************)
Files == DOMAIN disk.source
Frame == [file : Files, path : Seq(Names), next : Nat \ {0}]
LoadedModule == [path : Seq(Names), file : Files]

Imports(f) == IF disk.source[f] = Unreadable THEN <<>> ELSE disk.source[f]
RootFile == disk.entry[RootArg]

parent_dir(f) == Front(f)
root_dir == parent_dir(RootFile)

\* The directory an import of `f` is searched in.
search_dir(f, root) ==
  CASE root = "Root"  -> root_dir
    [] root = "Super" -> IF parent_dir(f) = root_dir THEN root_dir ELSE Front(parent_dir(f))
    [] OTHER          -> parent_dir(f)

\* The lengths of the prefixes of `segs` that name a file under `dir`.
candidates(dir, segs) ==
  {n \in 1..Len(segs) : dir \o SubSeq(segs, 1, n) \in DOMAIN disk.entry}

\* The longest matching prefix wins.
find_module_file(dir, segs) == Max(candidates(dir, segs))

NoModule(imp) == imp.root = "Std" \/ imp.segs = <<>>
Dangling(f, imp) == ~NoModule(imp) /\ candidates(search_dir(f, imp.root), imp.segs) = {}
NamesModule(f, imp) == ~NoModule(imp) /\ ~Dangling(f, imp)

mod_segs(f, imp) ==
  SubSeq(imp.segs, 1, find_module_file(search_dir(f, imp.root), imp.segs))

child_file(f, imp) == disk.entry[search_dir(f, imp.root) \o mod_segs(f, imp)]

child_module_path(parent, root, segs) ==
  CASE root = "Root"  -> segs
    [] root = "Super" -> Front(parent) \o segs
    [] OTHER          -> parent \o segs

Paths == {modules[i].path : i \in 1..Len(modules)}

\* What the name resolver makes of the import, when all modules are loaded:
\* the module an item, a glob or a group is from, or the one an item is.
base_segs(imp) == IF imp.item THEN Front(imp.segs) ELSE imp.segs

resolved_base(m, imp) ==
  process_tree([root |-> imp.root, segs |-> base_segs(imp)], m.path, path_aliases)

is_handle(m, imp) == imp.item /\ Append(resolved_base(m, imp), Last(imp.segs)) \in Paths

resolved_module(m, imp) ==
  IF is_handle(m, imp) THEN Append(resolved_base(m, imp), Last(imp.segs)) ELSE resolved_base(m, imp)

------------------------------------------------------------------------------
(***************************************************************************)
(* load_module.                                                            *)
(***************************************************************************)
Top == stack[Len(stack)]
CurrentImport == Imports(Top.file)[Top.next]
Child == child_file(Top.file, CurrentImport)
ChildPath ==
  child_module_path(Top.path, CurrentImport.root, mod_segs(Top.file, CurrentImport))

\* Fault: a finished module counts as one still being loaded.
OnStackOrVisited(f) ==
  f \in DOMAIN file_to_path \/ \E i \in 1..Len(stack) : stack[i].file = f

OnStack(f) == \E i \in 1..Len(stack) : stack[i].file = f
\* Fault: files are not recognised when they are met again.
VisitedNever(f) == FALSE

Visited(f) == f \in DOMAIN file_to_path

\* validate_super_root: `super::` is invalid from the root module.  Only the
\* root has the empty module path, so the calls for children always pass it.
super_root_ok(f) == \A i \in 1..Len(Imports(f)) : Imports(f)[i].root # "Super"

\* The loop over the imports of the innermost call goes on to the next one.
Advanced == [stack EXCEPT ![Len(stack)].next = @ + 1]
\* Fault: the loop starts one position before the first import.
EnterOffByOne(frames, f, path) ==
  Append(frames, [file |-> f, path |-> path, next |-> 0])

Enter(frames, f, path) == Append(frames, [file |-> f, path |-> path, next |-> 1])

Fail(reason) ==
  /\ outcome' = reason
  /\ UNCHANGED <<disk, stack, file_to_path, path_aliases, modules>>

Init ==
  /\ disk \in Disks
  /\ stack = <<>>
  /\ file_to_path = <<>>
  /\ path_aliases = <<>>
  /\ modules = <<>>
  /\ outcome = "start"

\* load_root: canonicalize the argument and call load_module on it.
LoadRoot ==
  /\ outcome = "start"
  /\ RootArg \in DOMAIN disk.entry
  /\ disk.source[RootFile] # Unreadable
  /\ super_root_ok(RootFile)
  /\ stack' = Enter(<<>>, RootFile, <<>>)
  /\ outcome' = "running"
  /\ UNCHANGED <<disk, file_to_path, path_aliases, modules>>

LoadRootFails ==
  /\ outcome = "start"
  /\ \/ RootArg \notin DOMAIN disk.entry /\ Fail("no_root")
     \/ /\ RootArg \in DOMAIN disk.entry
        /\ disk.source[RootFile] = Unreadable
        /\ Fail("unreadable")
     \/ /\ RootArg \in DOMAIN disk.entry
        /\ disk.source[RootFile] # Unreadable
        /\ ~super_root_ok(RootFile)
        /\ Fail("super")

Scanning == outcome = "running" /\ Top.next <= Len(Imports(Top.file))
ScanningChild == Scanning /\ NamesModule(Top.file, CurrentImport)

\* Fault: an import without a module is looked at again and again.
SkipImportStuck ==
  /\ Scanning
  /\ NoModule(CurrentImport)
  /\ UNCHANGED vars

\* `std::` imports and trees without a segment load nothing.
SkipImport ==
  /\ Scanning
  /\ NoModule(CurrentImport)
  /\ stack' = Advanced
  /\ UNCHANGED <<disk, file_to_path, path_aliases, modules, outcome>>

\* Fault: an import that cannot be found is silently passed over.
MissingModuleIgnored ==
  /\ Scanning
  /\ Dangling(Top.file, CurrentImport)
  /\ stack' = Advanced
  /\ UNCHANGED <<disk, file_to_path, path_aliases, modules, outcome>>

MissingModule ==
  /\ Scanning
  /\ Dangling(Top.file, CurrentImport)
  /\ Fail("missing")

DetectCycle ==
  /\ ScanningChild
  /\ OnStack(Child)
  /\ Fail("cycle")

\* Fault: the other name is dropped, as before v0.6.3 (ADR-0031).
aliases_dropped == path_aliases

\* The other logical path of a visited file becomes an alias of its first.
aliases_with_child ==
  IF file_to_path[Child] = ChildPath THEN path_aliases
  ELSE [p \in DOMAIN path_aliases \cup {ChildPath} |->
          IF p = ChildPath THEN file_to_path[Child] ELSE path_aliases[p]]

\* A file loaded before: only its other name is recorded.
Revisit ==
  /\ ScanningChild
  /\ ~OnStack(Child)
  /\ Visited(Child)
  /\ path_aliases' = aliases_with_child
  /\ stack' = Advanced
  /\ UNCHANGED <<disk, file_to_path, modules, outcome>>

UnreadableModule ==
  /\ ScanningChild
  /\ ~OnStack(Child)
  /\ ~Visited(Child)
  /\ disk.source[Child] = Unreadable
  /\ Fail("unreadable")

Descend ==
  /\ ScanningChild
  /\ ~OnStack(Child)
  /\ ~Visited(Child)
  /\ disk.source[Child] # Unreadable
  /\ stack' = Enter(Advanced, Child, ChildPath)
  /\ UNCHANGED <<disk, file_to_path, path_aliases, modules, outcome>>

\* Fault: a module is put in front of what it imports.
push_front(m) == <<m>> \o modules
push(m) == Append(modules, m)

\* When the call for the root returns, load_root hands the graph over.
outcome_on_return == IF Len(stack) = 1 THEN "ok" ELSE "running"

\* All imports done: the module is complete; for the root, so is load_root.
Finish ==
  /\ outcome = "running"
  /\ Top.next > Len(Imports(Top.file))
  /\ file_to_path' = [f \in DOMAIN file_to_path \cup {Top.file} |->
                        IF f = Top.file THEN Top.path ELSE file_to_path[f]]
  /\ modules' = push([path |-> Top.path, file |-> Top.file])
  /\ stack' = Front(stack)
  /\ outcome' = outcome_on_return
  /\ UNCHANGED <<disk, path_aliases>>

Done == outcome \in {"ok"} \cup Failures

Next ==
  \/ LoadRoot \/ LoadRootFails
  \/ SkipImport \/ MissingModule \/ DetectCycle \/ Revisit
  \/ UnreadableModule \/ Descend \/ Finish

Spec == Init /\ [][Next]_vars

\* The loader is one sequential function: it never pauses on its own.
FairSpec == Spec /\ WF_vars(Next)

------------------------------------------------------------------------------
(***************************************************************************)
(* Correctness.                                                            *)
(***************************************************************************)
Deps(f) == {child_file(f, Imports(f)[i]) :
              i \in {j \in 1..Len(Imports(f)) : NamesModule(f, Imports(f)[j])}}

Loaded == {modules[i].file : i \in 1..Len(modules)}
LoadedBefore(n) == {modules[i].file : i \in 1..(n - 1)}

\* The state has the shape the Rust types give it (Loader, load_module).
TypeOK ==
  /\ IsDisk(disk)
  /\ stack \in Seq(Frame)
  /\ DOMAIN file_to_path \subseteq Files
  /\ \A f \in DOMAIN file_to_path : file_to_path[f] \in Seq(Names)
  /\ DOMAIN path_aliases \subseteq Seq(Names)
  /\ \A p \in DOMAIN path_aliases : path_aliases[p] \in Seq(Names)
  /\ modules \in Seq(LoadedModule)
  /\ outcome \in {"start", "running", "ok"} \cup Failures
  /\ outcome = "running" => stack # <<>>

\* Modules come out dependencies first: whatever a module imports was loaded
\* before it.  check_graph and evaluate_graph process them in this order.
TopologicalOrder ==
  \A n \in 1..Len(modules) : Deps(modules[n].file) \subseteq LoadedBefore(n)

\* A physical file is loaded at most once, however many paths lead to it,
\* and the files being loaded are pairwise different and not loaded yet.
LoadedOnce ==
  /\ \A m, n \in 1..Len(modules) : modules[m].file = modules[n].file => m = n
  /\ \A i, j \in 1..Len(stack) : stack[i].file = stack[j].file => i = j
  /\ \A i \in 1..Len(stack) : stack[i].file \notin Loaded

\* The imports of a loaded module that lead to a file, and its path then.
FileImports(m) ==
  {Imports(m.file)[i] : i \in {i \in 1..Len(Imports(m.file)) : NamesModule(m.file, Imports(m.file)[i])}}
ImportPath(m, imp) == child_module_path(m.path, imp.root, mod_segs(m.file, imp))

\* The files that are called p when loading ends.
CalledFiles(p) ==
  {f \in Loaded : file_to_path[f] = p}
    \cup UNION {{child_file(m.file, imp) : imp \in {imp \in FileImports(m) : ImportPath(m, imp) = p}} :
                 m \in {modules[i] : i \in 1..Len(modules)}}

\* The file is the one for all of the path before the item, or for the item.
IsWhole(m, imp) == Len(mod_segs(m.file, imp)) >= Len(base_segs(imp))
IsModuleFile(m, imp) == imp.item /\ mod_segs(m.file, imp) = imp.segs

GoesThroughAlias(p) == \E n \in 1..Len(p) - 1 : SubSeq(p, 1, n) \in DOMAIN path_aliases

\* The loader goes by files and the name resolver by paths, each in its own
\* way (ADR-0023, ADR-0031): the path the resolver computes for an import is
\* that of the module made of the file the loader found, under whatever name
\* the file was met first -- unless a module on the way has another name (see
\* ImportPathsKnown), two files are called the same (PathsIdentifyModules),
\* only the beginning of the path is a file, or a name is a module for one of
\* the two and an item for the other.
ImportsReachTheirFiles ==
  outcome = "ok" =>
    \A m \in {modules[i] : i \in 1..Len(modules)} : \A imp \in FileImports(m) :
      LET f == child_file(m.file, imp)
          p == ImportPath(m, imp)
      IN  /\ ~GoesThroughAlias(p) /\ CalledFiles(p) = {f}
          /\ IsWhole(m, imp) /\ (is_handle(m, imp) <=> IsModuleFile(m, imp))
          => resolved_module(m, imp) = file_to_path[f]

\* A reported cycle is one: the frames from the repeated file to the top
\* import each other, and the top imports the repeated file again.
CycleIsReal ==
  outcome = "cycle" =>
    \E i \in 1..Len(stack) :
      /\ stack[i].file \in Deps(Top.file)
      /\ \A j \in i..(Len(stack) - 1) : stack[j + 1].file \in Deps(stack[j].file)

\* The loader always comes to an end, whatever the graph.
Terminates == <>Done

\* ADR-0031, "This handles direct aliases [..] and nested sub-module aliases":
\* what is imported from a file is looked up in a module that was loaded.
ImportPathsKnown ==
  outcome = "ok" =>
    \A m \in {modules[i] : i \in 1..Len(modules)} : \A imp \in FileImports(m) :
      IsWhole(m, imp) /\ ~IsModuleFile(m, imp) => resolved_module(m, imp) \in Paths

\* ADR-0031, "Logical paths are the identity used throughout the type
\* checker, evaluator, and import system": no two modules share one.
PathsIdentifyModules ==
  \A m, n \in 1..Len(modules) : modules[m].path = modules[n].path => m = n

\* ADR-0031, "an alias cannot point to another alias".
NoAliasChains ==
  \A p \in DOMAIN path_aliases : path_aliases[p] \notin DOMAIN path_aliases

------------------------------------------------------------------------------
\* The promise to the later passes, under the mapping to the import graph.
Graph ==
  [root      |-> IF RootArg \in DOMAIN disk.entry THEN RootFile ELSE RootArg,
   exists    |-> RootArg \in DOMAIN disk.entry,
   deps      |-> [f \in Files |-> Deps(f)],
   broken    |-> {f \in Files : disk.source[f] = Unreadable},
   dangling  |-> {f \in Files :
                    \E i \in 1..Len(Imports(f)) : Dangling(f, Imports(f)[i])},
   superRoot |-> RootArg \in DOMAIN disk.entry /\ ~super_root_ok(RootFile)]

LoadedFiles == [n \in 1..Len(modules) |-> modules[n].file]

Order == INSTANCE LoadOrder WITH
  graph   <- Graph,
  emitted <- LoadedFiles,
  outcome <- outcome

\* The loader implements the abstract specification of loading.
ImplementsLoadOrder == Order!Spec
==============================================================================
