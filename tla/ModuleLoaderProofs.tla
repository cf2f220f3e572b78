------------------------- MODULE ModuleLoaderProofs -------------------------
(***************************************************************************)
(* What holds of the module loader on every file system, however large:    *)
(* type correctness, the search invariant from which the order of the      *)
(* modules, single loading and the truth of a reported cycle follow, and   *)
(* the paths, by which the name resolver comes to the loader's files.      *)
(***************************************************************************)
EXTENDS ModuleLoader, SequenceFacts, TLAPS

------------------------------------------------------------------------------
(* Lemmas about the operators that turn an import into a file.             *)

\* What the file system of a well-typed state contains.
LEMMA DiskTypes ==
  ASSUME TypeOK
  PROVE  /\ Files \subseteq Seq(Names)
         /\ \A p \in DOMAIN disk.entry : disk.entry[p] \in Files
         /\ \A f \in Files : Imports(f) \in Seq(ImportDecl)
<1>1. IsDisk(disk)
  BY DisksAssumption DEF TypeOK
<1>2. <<>> \in Seq(ImportDecl)
  BY EmptySeq
<1> QED BY <1>1, <1>2 DEF IsDisk, Files, Imports

\* An import that names a module is resolved to an existing file, and to a
\* sequence of names that is never empty.
LEMMA ChildTypes ==
  ASSUME TypeOK, NEW f \in Files, NEW imp \in ImportDecl, NamesModule(f, imp)
  PROVE  /\ child_file(f, imp) \in Files
         /\ mod_segs(f, imp) \in Seq(Names)
<1> DEFINE dir == search_dir(f, imp.root)
           S == candidates(dir, imp.segs)
<1>1. imp.segs \in Seq(Names) /\ Len(imp.segs) \in Nat
  BY LenProperties DEF ImportDecl
<1>2. S \subseteq 1..Len(imp.segs) /\ S # {}
  BY DEF candidates, NamesModule, Dangling
<1>3. Max(S) \in S
  <2> HIDE DEF S
  <2> QED BY <1>1, <1>2, NonEmptyHasMax
<1>4. mod_segs(f, imp) = SubSeq(imp.segs, 1, Max(S))
  BY DEF mod_segs, find_module_file
<1>5. dir \o mod_segs(f, imp) \in DOMAIN disk.entry
  BY <1>3, <1>4 DEF candidates
<1>6. Max(S) \in 1..Len(imp.segs)
  BY <1>2, <1>3
<1>7. mod_segs(f, imp) \in Seq(Names)
  <2> HIDE DEF S
  <2> QED BY <1>1, <1>4, <1>6, SubSeqProperties
<1> QED BY <1>5, <1>7, DiskTypes DEF child_file

\* The logical path of an imported module is a path.
LEMMA ChildPathType ==
  ASSUME NEW parent \in Seq(Names), NEW root, NEW segs \in Seq(Names)
  PROVE  child_module_path(parent, root, segs) \in Seq(Names)
<1>1. Front(parent) \in Seq(Names)
  BY SubSeqProperties, LenProperties DEF Front
<1> QED BY <1>1, ConcatProperties DEF child_module_path

\* While the loader runs there is an innermost call, and while it scans, the
\* import it looks at is one.
LEMMA TopTypes ==
  ASSUME TypeOK, outcome = "running"
  PROVE  /\ Len(stack) \in Nat \ {0}
         /\ Top \in Frame
         /\ Scanning => CurrentImport \in ImportDecl
<1>1. stack \in Seq(Frame) /\ stack # <<>>
  BY DEF TypeOK
<1>2. Len(stack) \in Nat \ {0}
  BY <1>1, EmptySeq, LenProperties
<1>3. Top \in Frame
  BY <1>1, <1>2, ElementOfSeq DEF Top
<1>4. ASSUME Scanning PROVE CurrentImport \in ImportDecl
  <2>1. Imports(Top.file) \in Seq(ImportDecl)
    BY <1>3, DiskTypes DEF Frame
  <2>2. Top.next \in 1..Len(Imports(Top.file))
    BY <1>3, <1>4, <2>1, LenProperties DEF Scanning, Frame
  <2> QED BY <2>1, <2>2, ElementOfSeq DEF CurrentImport
<1> QED BY <1>2, <1>3, <1>4

\* Going on to the next import keeps the calls in progress.
LEMMA AdvancedTypes ==
  ASSUME TypeOK, outcome = "running"
  PROVE  /\ Advanced \in Seq(Frame)
         /\ Len(Advanced) = Len(stack)
         /\ Advanced # <<>>
         /\ \A i \in 1..Len(stack) :
              /\ Advanced[i].file = stack[i].file
              /\ Advanced[i].path = stack[i].path
              /\ Advanced[i].next = IF i = Len(stack) THEN stack[i].next + 1
                                    ELSE stack[i].next
<1>1. stack \in Seq(Frame) /\ Len(stack) \in Nat \ {0} /\ Top \in Frame
  BY TopTypes DEF TypeOK
<1> DEFINE top == [Top EXCEPT !.next = @ + 1]
<1>2. top \in Frame
  <2>1. Top.file \in Files /\ Top.path \in Seq(Names) /\ Top.next + 1 \in Nat \ {0}
    BY <1>1 DEF Frame
  <2>2. \A n \in Nat \ {0} : [Top EXCEPT !.next = n] \in Frame
    <3> DEFINE N == Nat \ {0}
               P == Seq(Names)
    <3>1. Top \in [file : Files, path : P, next : N]
      BY <1>1 DEF Frame
    <3> HIDE DEF N, P
    <3>2. \A n \in N : [Top EXCEPT !.next = n] \in [file : Files, path : P, next : N]
      BY <3>1
    <3> QED BY <3>2 DEF Frame, N, P
  <2> QED BY <2>1, <2>2
<1>3. Advanced = [stack EXCEPT ![Len(stack)] = top]
  BY <1>1 DEF Advanced, Top
<1>4. \A i \in 1..Len(stack) : stack[i] \in Frame
  BY <1>1, ElementOfSeq
<1>5. Advanced \in Seq(Frame) /\ Len(Advanced) = Len(stack)
  <2> HIDE DEF top
  <2> QED BY <1>1, <1>2, <1>3, ExceptSeq
<1>6. \A i \in 1..Len(stack) : Advanced[i] = IF i = Len(stack) THEN top ELSE stack[i]
  <2> HIDE DEF top
  <2> QED BY <1>1, <1>3, LenProperties
<1> QED BY <1>1, <1>4, <1>5, <1>6, EmptySeq DEF Frame, Top

------------------------------------------------------------------------------
(* Type correctness.                                                       *)
\* Every reachable state has the shape the Rust types give it.
THEOREM TypeCorrect == Spec => []TypeOK
<1>1. Init => TypeOK
  BY DisksAssumption, EmptySeq DEF Init, TypeOK
<1>2. TypeOK /\ [Next]_vars => TypeOK'
  <2> SUFFICES ASSUME TypeOK, [Next]_vars PROVE TypeOK'
    OBVIOUS
  <2> USE DEF Files, Frame, LoadedModule
  <2>1. CASE LoadRoot
    <3>1. RootFile \in Files
      BY <2>1, DiskTypes DEF LoadRoot, RootFile
    <3>2. stack' \in Seq(Frame)' /\ stack' # <<>>
      BY <2>1, <3>1, EmptySeq, AppendProperties DEF LoadRoot, Enter
    <3> QED BY <2>1, <3>2 DEF LoadRoot, TypeOK
  <2>2. CASE LoadRootFails
    BY <2>2 DEF LoadRootFails, Fail, Failures, TypeOK
  <2>3. CASE SkipImport
    BY <2>3, AdvancedTypes DEF SkipImport, Scanning, TypeOK
  <2>4. CASE MissingModule
    BY <2>4 DEF MissingModule, Fail, Failures, TypeOK
  <2>5. CASE DetectCycle
    BY <2>5 DEF DetectCycle, Fail, Failures, TypeOK
  <2>6. CASE Revisit
    <3>1. outcome = "running" /\ ScanningChild /\ Scanning /\ Child \in DOMAIN file_to_path
      BY <2>6 DEF Revisit, ScanningChild, Scanning, Visited
    <3>2. CurrentImport \in ImportDecl /\ Top \in Frame
      BY <3>1, TopTypes
    <3>3. ChildPath \in Seq(Names)
      BY <3>1, <3>2, ChildTypes, ChildPathType DEF ScanningChild, ChildPath
    <3>4. file_to_path[Child] \in Seq(Names)
      BY <3>1 DEF TypeOK
    <3>5. /\ DOMAIN path_aliases' \subseteq Seq(Names)
          /\ \A p \in DOMAIN path_aliases' : path_aliases'[p] \in Seq(Names)
      BY <2>6, <3>3, <3>4 DEF Revisit, aliases_with_child, TypeOK
    <3> QED BY <2>6, <3>1, <3>5, AdvancedTypes DEF Revisit, TypeOK
  <2>7. CASE UnreadableModule
    BY <2>7 DEF UnreadableModule, Fail, Failures, TypeOK
  <2>8. CASE Descend
    <3>1. outcome = "running" /\ ScanningChild /\ Scanning
      BY <2>8 DEF Descend, ScanningChild, Scanning
    <3>2. CurrentImport \in ImportDecl /\ Top \in Frame
      BY <3>1, TopTypes
    <3>3. Child \in Files /\ ChildPath \in Seq(Names)
      BY <3>1, <3>2, ChildTypes, ChildPathType DEF ScanningChild, Child, ChildPath
    <3>4. Advanced \in Seq(Frame)
      BY <3>1, AdvancedTypes
    <3> DEFINE frame == [file |-> Child, path |-> ChildPath, next |-> 1]
    <3>5. frame \in Frame
      BY <3>3
    <3>6. stack' = Append(Advanced, frame)
      BY <2>8 DEF Descend, Enter
    <3>7. stack' \in Seq(Frame) /\ stack' # <<>>
      <4> HIDE DEF frame
      <4> QED BY <3>4, <3>5, <3>6, AppendProperties
    <3> QED BY <2>8, <3>7 DEF Descend, TypeOK
  <2>9. CASE Finish
    <3>1. outcome = "running" /\ Len(stack) \in Nat \ {0} /\ Top \in Frame
      BY <2>9, TopTypes DEF Finish
    <3>2. modules' \in Seq(LoadedModule)
      BY <2>9, <3>1, AppendProperties DEF Finish, push, TypeOK
    <3>3. stack' \in Seq(Frame) /\ Len(stack') = Len(stack) - 1
      <4> HIDE DEF Frame
      <4>1. stack \in Seq(Frame) /\ stack # <<>> /\ stack' = Front(stack)
        BY <2>9, <3>1 DEF Finish, TypeOK
      <4> QED BY <4>1, FrontTypes
    <3>4. outcome' = "running" => stack' # <<>>
      BY <2>9, <3>1, <3>3, EmptySeq DEF Finish, outcome_on_return
    <3>5. /\ DOMAIN file_to_path' \subseteq Files
          /\ \A f \in DOMAIN file_to_path' : file_to_path'[f] \in Seq(Names)
      BY <2>9, <3>1 DEF Finish, TypeOK
    <3> QED BY <2>9, <3>2, <3>3, <3>4, <3>5 DEF Finish, outcome_on_return, TypeOK
  <2>10. CASE UNCHANGED vars
    BY <2>10 DEF vars, TypeOK
  <2> QED BY <2>1, <2>2, <2>3, <2>4, <2>5, <2>6, <2>7, <2>8, <2>9, <2>10 DEF Next
<1> QED BY <1>1, <1>2, PTL DEF Spec

------------------------------------------------------------------------------
(***************************************************************************)
(* The search invariant.  <<f, k, g>> is an edge when the k-th import of f *)
(* names the module in file g.  Each call in progress but the innermost    *)
(* waits for the import just before its position, whose file is the next   *)
(* call's (Chain); the file of every other import it has passed is loaded  *)
(* (Scanned).  Without these two the order of `modules` is not inductive.  *)
(***************************************************************************)
Edges ==
  {e \in Files \X Nat \X Files :
     /\ e[2] \in 1..Len(Imports(e[1]))
     /\ NamesModule(e[1], Imports(e[1])[e[2]])
     /\ e[3] = child_file(e[1], Imports(e[1])[e[2]])}

Chain ==
  \A i \in 1..(Len(stack) - 1) :
    <<stack[i].file, stack[i].next - 1, stack[i + 1].file>> \in Edges

Scanned ==
  \A i \in 1..Len(stack), k \in Nat, g \in Files :
    (/\ <<stack[i].file, k, g>> \in Edges
     /\ k < stack[i].next
     /\ i < Len(stack) => k # stack[i].next - 1) => g \in Loaded

Ordered ==
  \A n \in 1..Len(modules), k \in Nat, g \in Files :
    <<modules[n].file, k, g>> \in Edges => g \in LoadedBefore(n)

SearchInv ==
  /\ outcome = "start" => stack = <<>> /\ modules = <<>>
  /\ DOMAIN file_to_path = Loaded
  /\ Chain
  /\ Scanned
  /\ LoadedOnce
  /\ Ordered

\* The imports between files depend on the disk alone.
LEMMA EdgesUnchanged == disk' = disk => Edges' = Edges /\ Files' = Files
  BY DEF Edges, Files, Imports, NamesModule, Dangling, NoModule, candidates, search_dir,
         root_dir, RootFile, child_file, mod_segs, find_module_file

\* Edges are exactly the dependencies the correctness properties speak of.
LEMMA EdgesAreDeps ==
  ASSUME TypeOK, NEW f \in Files
  PROVE  \A g : g \in Deps(f) <=> g \in Files /\ \E k \in Nat : <<f, k, g>> \in Edges
<1>1. Imports(f) \in Seq(ImportDecl) /\ Len(Imports(f)) \in Nat
  BY DiskTypes, LenProperties
<1>2. \A k \in 1..Len(Imports(f)) : k \in Nat /\ Imports(f)[k] \in ImportDecl
  BY <1>1, ElementOfSeq
<1>3. \A k \in 1..Len(Imports(f)) :
        NamesModule(f, Imports(f)[k]) => child_file(f, Imports(f)[k]) \in Files
  BY <1>2, ChildTypes
<1> QED BY <1>2, <1>3 DEF Deps, Edges

\* The imports of the file being scanned that lead to a file.
LEMMA TopEdges ==
  ASSUME TypeOK, Scanning
  PROVE  /\ \A g \in Files : <<Top.file, Top.next, g>> \in Edges =>
                                NamesModule(Top.file, CurrentImport) /\ g = Child
         /\ NamesModule(Top.file, CurrentImport) =>
               Child \in Files /\ <<Top.file, Top.next, Child>> \in Edges
<1>1. outcome = "running"
  BY DEF Scanning
<1>2. Top \in Frame /\ CurrentImport \in ImportDecl
  BY <1>1, TopTypes
<1>3. Top.file \in Files /\ Top.next \in Nat \ {0}
  BY <1>2 DEF Frame
<1>4. Len(Imports(Top.file)) \in Nat
  BY <1>3, DiskTypes, LenProperties
<1>5. Top.next \in 1..Len(Imports(Top.file))
  BY <1>3, <1>4 DEF Scanning
<1>6. NamesModule(Top.file, CurrentImport) => Child \in Files
  BY <1>2, <1>3, ChildTypes DEF Child
<1> QED BY <1>3, <1>5, <1>6 DEF Edges, CurrentImport, Child

\* Nothing is loaded and nothing is scanned at the start.
LEMMA SearchInvInit == Init => SearchInv
  BY DEF Init, SearchInv, Chain, Scanned, LoadedOnce, Ordered, Loaded

\* A step that only ends the run with an error.
LEMMA SearchInvFail ==
  ASSUME SearchInv, UNCHANGED <<disk, stack, file_to_path, modules>>, outcome' # "start"
  PROVE  SearchInv'
<1>1. Loaded' = Loaded /\ Edges' = Edges /\ Files' = Files
  BY EdgesUnchanged DEF Loaded
<1> QED BY <1>1 DEF SearchInv, Chain, Scanned, LoadedOnce, Ordered, LoadedBefore

\* Passing an import that names no module, or one that is loaded already.
LEMMA SearchInvAdvance ==
  ASSUME TypeOK, SearchInv, Scanning,
         NamesModule(Top.file, CurrentImport) => Child \in Loaded,
         stack' = Advanced, UNCHANGED <<disk, file_to_path, modules, outcome>>
  PROVE  SearchInv'
<1>1. Loaded' = Loaded /\ Edges' = Edges /\ Files' = Files
  BY EdgesUnchanged DEF Loaded
<1>2. outcome = "running" /\ Len(stack) \in Nat \ {0}
  BY TopTypes DEF Scanning
<1>3. /\ Len(stack') = Len(stack)
      /\ \A i \in 1..Len(stack) :
           /\ stack'[i].file = stack[i].file
           /\ stack'[i].next = IF i = Len(stack) THEN stack[i].next + 1 ELSE stack[i].next
  BY <1>2, AdvancedTypes
<1>4. Chain'
  <2> SUFFICES ASSUME NEW i \in 1..(Len(stack) - 1)
               PROVE  <<stack'[i].file, stack'[i].next - 1, stack'[i + 1].file>> \in Edges
    BY <1>1, <1>3 DEF Chain
  <2>1. i \in 1..Len(stack) /\ i + 1 \in 1..Len(stack) /\ i # Len(stack)
    BY <1>2
  <2> QED BY <2>1, <1>3 DEF SearchInv, Chain
<1>5. Scanned'
  <2> SUFFICES ASSUME NEW i \in 1..Len(stack), NEW k \in Nat, NEW g \in Files,
                      <<stack[i].file, k, g>> \in Edges, k < stack'[i].next,
                      i < Len(stack) => k # stack'[i].next - 1
               PROVE  g \in Loaded
    BY <1>1, <1>3 DEF Scanned
  <2>1. CASE i < Len(stack)
    BY <2>1, <1>2, <1>3 DEF SearchInv, Scanned
  <2>2. CASE i = Len(stack)
    <3>1. stack[i] = Top /\ Top.next \in Nat /\ k < Top.next + 1
      BY <2>2, <1>2, <1>3, TopTypes DEF Top, Frame
    <3>2. CASE k = Top.next
      BY <3>1, <3>2, TopEdges
    <3>3. CASE k < Top.next
      BY <3>1, <3>3, <2>2 DEF SearchInv, Scanned
    <3> QED BY <3>1, <3>2, <3>3
  <2> QED BY <2>1, <2>2, <1>2
<1>6. LoadedOnce'
  BY <1>1, <1>2, <1>3 DEF SearchInv, LoadedOnce
<1>7. Ordered'
  BY <1>1 DEF SearchInv, Ordered, LoadedBefore
<1> QED BY <1>1, <1>2, <1>4, <1>5, <1>6, <1>7 DEF SearchInv

\* Entering a file that is neither loaded nor being loaded.
LEMMA SearchInvDescend ==
  ASSUME TypeOK, SearchInv, Descend
  PROVE  SearchInv'
<1>1. Loaded' = Loaded /\ Edges' = Edges /\ Files' = Files
  BY EdgesUnchanged DEF Descend, Loaded
<1>2. Scanning /\ NamesModule(Top.file, CurrentImport) /\ outcome = "running"
  BY DEF Descend, ScanningChild, Scanning
<1>3. Child \in Files /\ <<Top.file, Top.next, Child>> \in Edges
  BY <1>2, TopEdges
<1>4. Len(stack) \in Nat \ {0} /\ Top.next \in Nat \ {0}
  BY <1>2, TopTypes DEF Frame
<1> DEFINE n == Len(stack)
           frame == [file |-> Child, path |-> ChildPath, next |-> 1]
<1>5. /\ Len(stack') = n + 1
      /\ stack'[n + 1] = frame
      /\ \A i \in 1..n : stack'[i] = Advanced[i]
  <2>1. Advanced \in Seq(Frame) /\ Len(Advanced) = n
    BY <1>2, AdvancedTypes
  <2>2. stack' = Append(Advanced, frame)
    BY DEF Descend, Enter
  <2> HIDE DEF frame
  <2> QED BY <2>1, <2>2, AppendProperties
<1>6. \A i \in 1..n :
        /\ stack'[i].file = stack[i].file
        /\ stack'[i].next = IF i = n THEN stack[i].next + 1 ELSE stack[i].next
  BY <1>2, <1>5, AdvancedTypes
<1>7. stack'[n + 1].file = Child /\ stack'[n + 1].next = 1
  BY <1>5
<1>8. Child \notin Loaded /\ \A i \in 1..n : stack[i].file # Child
  BY DEF Descend, OnStack, Visited, SearchInv
<1> HIDE DEF n, frame
<1>9. n \in Nat \ {0} /\ Len(stack) = n /\ stack[n] = Top
  BY <1>4 DEF n, Top
<1>10. Chain'
  <2> SUFFICES ASSUME NEW i \in 1..n
               PROVE  <<stack'[i].file, stack'[i].next - 1, stack'[i + 1].file>> \in Edges
    BY <1>1, <1>5, <1>9 DEF Chain
  <2>1. CASE i < n
    BY <2>1, <1>6, <1>9 DEF SearchInv, Chain
  <2>2. CASE i = n
    BY <2>2, <1>3, <1>4, <1>6, <1>7, <1>9
  <2> QED BY <2>1, <2>2, <1>9
<1>11. Scanned'
  <2> SUFFICES ASSUME NEW i \in 1..(n + 1), NEW k \in Nat, NEW g \in Files,
                      <<stack'[i].file, k, g>> \in Edges, k < stack'[i].next,
                      i < n + 1 => k # stack'[i].next - 1
               PROVE  g \in Loaded
    BY <1>1, <1>5 DEF Scanned
  <2>1. CASE i < n
    BY <2>1, <1>6, <1>9 DEF SearchInv, Scanned
  <2>2. CASE i = n
    <3>1. k < Top.next
      BY <2>2, <1>4, <1>6, <1>9
    <3> QED BY <3>1, <2>2, <1>6, <1>9 DEF SearchInv, Scanned
  <2>3. CASE i = n + 1
    <3>1. k = 0
      BY <2>3, <1>7
    <3> QED BY <3>1 DEF Edges
  <2> QED BY <2>1, <2>2, <2>3, <1>9
<1>12. LoadedOnce'
  <2>1. \A i \in 1..(n + 1) : stack'[i].file = IF i = n + 1 THEN Child ELSE stack[i].file
    BY <1>6, <1>7, <1>9
  <2>2. UNCHANGED modules
    BY DEF Descend
  <2> QED BY <2>1, <2>2, <1>1, <1>5, <1>8, <1>9 DEF SearchInv, LoadedOnce
<1>13. Ordered'
  BY <1>1 DEF Descend, SearchInv, Ordered, LoadedBefore
<1> QED BY <1>1, <1>2, <1>10, <1>11, <1>12, <1>13 DEF SearchInv, Descend

\* The innermost call returns: its file is loaded, behind all it imports.
LEMMA SearchInvFinish ==
  ASSUME TypeOK, SearchInv, Finish
  PROVE  SearchInv'
<1> DEFINE n == Len(stack)
           m == Len(modules)
           mod == [path |-> Top.path, file |-> Top.file]
<1>1. Edges' = Edges /\ Files' = Files
  BY EdgesUnchanged DEF Finish
<1>2. /\ outcome = "running" /\ n \in Nat \ {0} /\ Top \in Frame
      /\ stack \in Seq(Frame) /\ stack # <<>>
  BY TopTypes DEF Finish, TypeOK
<1>3. /\ Len(stack') = n - 1
      /\ \A i \in 1..(n - 1) : stack'[i] = stack[i]
  BY <1>2, FrontTypes DEF Finish
<1>4. /\ m \in Nat /\ Len(modules') = m + 1
      /\ modules'[m + 1] = mod
      /\ \A i \in 1..m : modules'[i] = modules[i]
  <2>1. modules' = Append(modules, mod) /\ modules \in Seq(LoadedModule)
    BY DEF Finish, push, TypeOK
  <2>2. mod \in LoadedModule
    BY <1>2 DEF Frame, LoadedModule
  <2> HIDE DEF mod
  <2> QED BY <2>1, <2>2, AppendProperties, LenProperties
<1>5. modules'[m + 1].file = Top.file
  BY <1>4
<1> HIDE DEF n, m, mod
<1>6. n \in Nat \ {0} /\ Len(stack) = n /\ stack[n] = Top /\ Len(modules) = m
  BY <1>2 DEF n, m, Top
<1>7. Loaded' = Loaded \cup {Top.file}
  BY <1>4, <1>5, <1>6 DEF Loaded
<1>8. \A k \in Nat, g \in Files : <<Top.file, k, g>> \in Edges => g \in Loaded
  <2> SUFFICES ASSUME NEW k \in Nat, NEW g \in Files, <<Top.file, k, g>> \in Edges
               PROVE  g \in Loaded
    OBVIOUS
  <2>1. Top.file \in Files /\ Top.next \in Nat
    BY <1>2 DEF Frame
  <2>2. k \in 1..Len(Imports(Top.file)) /\ Len(Imports(Top.file)) \in Nat
    BY <2>1, DiskTypes, LenProperties DEF Edges
  <2>3. k < Top.next
    BY <2>1, <2>2 DEF Finish
  <2> QED BY <2>3, <1>6 DEF SearchInv, Scanned
<1>9. DOMAIN file_to_path' = Loaded'
  BY <1>7 DEF Finish, SearchInv
<1>10. Chain'
  BY <1>1, <1>3, <1>6 DEF SearchInv, Chain
<1>11. Scanned'
  <2> SUFFICES ASSUME NEW i \in 1..(n - 1), NEW k \in Nat, NEW g \in Files,
                      <<stack[i].file, k, g>> \in Edges, k < stack[i].next,
                      i < n - 1 => k # stack[i].next - 1
               PROVE  g \in Loaded \cup {Top.file}
    BY <1>1, <1>3, <1>7 DEF Scanned
  <2>1. CASE k # stack[i].next - 1
    BY <2>1, <1>6 DEF SearchInv, Scanned
  <2>2. CASE k = stack[i].next - 1
    <3>1. i = n - 1 /\ i \in 1..(Len(stack) - 1) /\ stack[i + 1].file = Top.file
      BY <2>2, <1>6
    <3>2. <<stack[i].file, k, Top.file>> \in Edges
      BY <3>1, <2>2 DEF SearchInv, Chain
    <3>3. g = Top.file
      BY <3>2 DEF Edges
    <3> QED BY <3>3
  <2> QED BY <2>1, <2>2
<1>12. Top.file \notin Loaded /\ \A i \in 1..(n - 1) : stack[i].file # Top.file
  <2>1. \A i \in 1..(n - 1) : i \in 1..n /\ n \in 1..n /\ i # n
    BY <1>6
  <2> QED BY <2>1, <1>6 DEF SearchInv, LoadedOnce
<1>13. LoadedOnce'
  <2>1. \A i \in 1..(m + 1) : modules'[i].file = IF i = m + 1 THEN Top.file ELSE modules[i].file
    BY <1>4, <1>5
  <2>2. \A i \in 1..m : modules[i].file # Top.file
    BY <1>6, <1>12 DEF Loaded
  <2>3. \A i \in 1..(n - 1) : i \in 1..n
    BY <1>6
  <2> QED BY <2>1, <2>2, <2>3, <1>3, <1>4, <1>6, <1>7, <1>12 DEF SearchInv, LoadedOnce
<1>14. Ordered'
  <2>1. \A j \in 1..(m + 1) : LoadedBefore(j)' = LoadedBefore(j)
    BY <1>4, <1>6 DEF LoadedBefore
  <2>2. LoadedBefore(m + 1) = Loaded
    BY <1>4, <1>6 DEF LoadedBefore, Loaded
  <2> SUFFICES ASSUME NEW j \in 1..(m + 1), NEW k \in Nat, NEW g \in Files,
                      <<modules'[j].file, k, g>> \in Edges
               PROVE  g \in LoadedBefore(j)
    BY <1>1, <1>4, <2>1 DEF Ordered
  <2>3. CASE j = m + 1
    BY <2>2, <2>3, <1>5, <1>8
  <2>4. CASE j \in 1..m
    BY <2>4, <1>4, <1>6 DEF SearchInv, Ordered
  <2> QED BY <2>3, <2>4, <1>4
<1>15. outcome' # "start"
  BY DEF Finish, outcome_on_return
<1> QED BY <1>9, <1>10, <1>11, <1>13, <1>14, <1>15 DEF SearchInv

\* Every step of the loader keeps the search invariant.
LEMMA SearchInvNext == TypeOK /\ SearchInv /\ [Next]_vars => SearchInv'
<1> SUFFICES ASSUME TypeOK, SearchInv, [Next]_vars PROVE SearchInv'
  OBVIOUS
<1>1. CASE LoadRoot
  <2>1. Len(stack') = 1 /\ stack'[1].next = 1
    <3>1. stack' = <<[file |-> RootFile, path |-> <<>>, next |-> 1]>>
      BY <1>1 DEF LoadRoot, Enter
    <3> QED BY <3>1
  <2>2. modules = <<>> /\ UNCHANGED <<modules, file_to_path>> /\ outcome' # "start"
    BY <1>1 DEF LoadRoot, SearchInv
  <2>3. Edges' = Edges /\ Loaded' = Loaded /\ Loaded = {}
    BY <1>1, <2>2, EdgesUnchanged DEF LoadRoot, Loaded
  <2>4. Chain'
    BY <2>1 DEF Chain
  <2>5. Scanned'
    BY <2>1, <2>3 DEF Scanned, Edges
  <2>6. LoadedOnce' /\ Ordered'
    BY <2>1, <2>2, <2>3 DEF LoadedOnce, Ordered
  <2> QED BY <2>2, <2>3, <2>4, <2>5, <2>6 DEF SearchInv
<1>2. CASE LoadRootFails \/ MissingModule \/ DetectCycle \/ UnreadableModule
  BY <1>2, SearchInvFail DEF LoadRootFails, MissingModule, DetectCycle, UnreadableModule, Fail
<1>3. CASE SkipImport
  BY <1>3, SearchInvAdvance DEF SkipImport, NamesModule
<1>4. CASE Revisit
  BY <1>4, SearchInvAdvance DEF Revisit, ScanningChild, Visited, SearchInv
<1>5. CASE Descend
  BY <1>5, SearchInvDescend
<1>6. CASE Finish
  BY <1>6, SearchInvFinish
<1>7. CASE UNCHANGED vars
  <2>1. Loaded' = Loaded /\ Edges' = Edges /\ Files' = Files
    BY <1>7, EdgesUnchanged DEF vars, Loaded
  <2> QED BY <1>7, <2>1
        DEF vars, SearchInv, Chain, Scanned, LoadedOnce, Ordered, LoadedBefore
<1> QED BY <1>1, <1>2, <1>3, <1>4, <1>5, <1>6, <1>7 DEF Next

\* The depth-first search of the loader (`load_module_recursive`): the files
\* being scanned are a chain of imports, and what is loaded was scanned.
THEOREM SearchInvariant == Spec => []SearchInv
BY SearchInvInit, SearchInvNext, TypeCorrect, PTL DEF Spec

------------------------------------------------------------------------------
(* What follows from it.                                                   *)
\* On every file system, modules come out after everything they import:
\* the order check_graph and evaluate_graph rely on.
THEOREM DependenciesFirst == Spec => []TopologicalOrder
<1>1. TypeOK /\ SearchInv => TopologicalOrder
  <2> SUFFICES ASSUME TypeOK, SearchInv, NEW n \in 1..Len(modules),
                      NEW g \in Deps(modules[n].file)
               PROVE  g \in LoadedBefore(n)
    BY DEF TopologicalOrder
  <2>1. modules[n].file \in Files
    <3>1. modules[n] \in LoadedModule
      BY ElementOfSeq DEF TypeOK
    <3> QED BY <3>1 DEF LoadedModule
  <2>2. g \in Files /\ \E k \in Nat : <<modules[n].file, k, g>> \in Edges
    BY <2>1, EdgesAreDeps
  <2> QED BY <2>2 DEF SearchInv, Ordered
<1> QED BY <1>1, TypeCorrect, SearchInvariant, PTL

\* No file is loaded twice or loaded while it is being loaded.
THEOREM NoFileTwice == Spec => []LoadedOnce
<1>1. SearchInv => LoadedOnce
  BY DEF SearchInv
<1> QED BY <1>1, SearchInvariant, PTL

\* When the loader reports a cycle, the innermost call imports a file that
\* is still being loaded.
CycleInv ==
  outcome = "cycle" =>
    \E i \in 1..Len(stack), k \in Nat : <<Top.file, k, stack[i].file>> \in Edges

\* A program is rejected for a circular import only if it has one.
THEOREM ReportedCyclesExist == Spec => []CycleIsReal
<1>1. Init => CycleInv
  BY DEF Init, CycleInv
<1>2. TypeOK /\ CycleInv /\ [Next]_vars => CycleInv'
  <2> SUFFICES ASSUME TypeOK, CycleInv, [Next]_vars, outcome' = "cycle"
               PROVE  \E i \in 1..Len(stack), k \in Nat :
                        <<Top.file, k, stack[i].file>> \in Edges /\ UNCHANGED <<disk, stack>>
    <3>1. disk' = disk => Edges' = Edges
      BY EdgesUnchanged
    <3>2. stack' = stack => Top' = Top
      BY DEF Top
    <3> QED BY <3>1, <3>2 DEF CycleInv
  <2>1. CASE DetectCycle
    <3>1. Scanning /\ NamesModule(Top.file, CurrentImport)
      BY <2>1 DEF DetectCycle, ScanningChild
    <3>2. <<Top.file, Top.next, Child>> \in Edges /\ Top.next \in Nat
      BY <3>1, TopEdges, TopTypes DEF Scanning, Frame
    <3>3. PICK i \in 1..Len(stack) : stack[i].file = Child
      BY <2>1 DEF DetectCycle, OnStack
    <3> QED BY <2>1, <3>2, <3>3 DEF DetectCycle, Fail
  <2>2. CASE UNCHANGED vars
    BY <2>2 DEF vars, CycleInv
  <2>3. CASE LoadRoot \/ LoadRootFails \/ SkipImport \/ MissingModule \/ Revisit
             \/ UnreadableModule \/ Descend \/ Finish
    BY <2>3 DEF LoadRoot, LoadRootFails, SkipImport, MissingModule, Revisit,
         UnreadableModule, Descend, Finish, Fail, Scanning, ScanningChild, outcome_on_return
  <2> QED BY <2>1, <2>2, <2>3 DEF Next
<1>3. TypeOK /\ SearchInv /\ CycleInv => CycleIsReal
  <2> SUFFICES ASSUME TypeOK, SearchInv, CycleInv, outcome = "cycle" PROVE CycleIsReal
    BY DEF CycleIsReal
  <2>1. PICK i \in 1..Len(stack), k \in Nat : <<Top.file, k, stack[i].file>> \in Edges
    BY DEF CycleInv
  <2>2. \A f, h : (\E q \in Nat : <<f, q, h>> \in Edges) => h \in Deps(f)
    <3> SUFFICES ASSUME NEW f, NEW h, NEW q \in Nat, <<f, q, h>> \in Edges
                 PROVE  h \in Deps(f)
      OBVIOUS
    <3>1. f \in Files /\ h \in Files
      BY DEF Edges
    <3> QED BY <3>1, EdgesAreDeps
  <2>3. ASSUME NEW j \in i..(Len(stack) - 1)
        PROVE  stack[j + 1].file \in Deps(stack[j].file)
    <3>1. j \in 1..(Len(stack) - 1)
      BY LenProperties DEF TypeOK
    <3>2. <<stack[j].file, stack[j].next - 1, stack[j + 1].file>> \in Edges
      BY <3>1 DEF SearchInv, Chain
    <3>3. stack[j].next - 1 \in Nat
      BY <3>2 DEF Edges
    <3> QED BY <2>2, <3>2, <3>3
  <2> QED BY <2>1, <2>2, <2>3 DEF CycleIsReal
<1>4. Spec => []CycleInv
  BY <1>1, <1>2, TypeCorrect, PTL DEF Spec
<1> QED BY <1>3, <1>4, TypeCorrect, SearchInvariant, PTL

------------------------------------------------------------------------------
(***************************************************************************)
(* Refinement of LoadOrder.  The mapping needs to know, beside the search  *)
(* invariant, that the outermost call is the root's and that the calls in  *)
(* progress belong to readable files whose passed imports all exist.       *)
(***************************************************************************)
Holes ==
  {e \in Files \X Nat :
     e[2] \in 1..Len(Imports(e[1])) /\ Dangling(e[1], Imports(e[1])[e[2]])}

FrameInv ==
  /\ stack # <<>> => RootArg \in DOMAIN disk.entry /\ stack[1].file = RootFile
  /\ \A i \in 1..Len(stack) : disk.source[stack[i].file] # Unreadable
  /\ \A i \in 1..Len(stack), k \in Nat :
       k < stack[i].next => <<stack[i].file, k>> \notin Holes

\* The graph of the imports depends on the disk alone.
LEMMA GraphFixed ==
  disk' = disk => Holes' = Holes /\ Graph' = Graph /\ RootFile' = RootFile
  BY DEF Holes, Graph, Deps, Files, Imports, NamesModule, Dangling, NoModule, candidates,
         search_dir, root_dir, RootFile, child_file, mod_segs, find_module_file, super_root_ok

\* The import being scanned leads to nothing exactly when it is a hole.
LEMMA TopHole ==
  ASSUME TypeOK, Scanning
  PROVE  <<Top.file, Top.next>> \in Holes <=> Dangling(Top.file, CurrentImport)
<1>1. Top \in Frame /\ outcome = "running"
  BY TopTypes DEF Scanning
<1>2. Top.file \in Files /\ Top.next \in Nat \ {0} /\ Len(Imports(Top.file)) \in Nat
  BY <1>1, DiskTypes, LenProperties DEF Frame
<1>3. Top.next \in 1..Len(Imports(Top.file))
  BY <1>2 DEF Scanning
<1> QED BY <1>2, <1>3 DEF Holes, CurrentImport

\* Every step keeps what the scan has left behind free of holes.
LEMMA FrameInvNext == TypeOK /\ FrameInv /\ [Next]_vars => FrameInv'
<1> SUFFICES ASSUME TypeOK, FrameInv, [Next]_vars PROVE FrameInv'
  OBVIOUS
<1>1. CASE LoadRoot
  <2>1. stack' = <<[file |-> RootFile, path |-> <<>>, next |-> 1]>> /\ UNCHANGED disk
    BY <1>1 DEF LoadRoot, Enter
  <2>2. Len(stack') = 1 /\ stack'[1].file = RootFile /\ stack'[1].next = 1
    BY <2>1
  <2>3. \A k \in Nat : k < 1 => <<RootFile, k>> \notin Holes
    BY DEF Holes
  <2> QED BY <1>1, <2>1, <2>2, <2>3, GraphFixed DEF LoadRoot, FrameInv
<1>2. CASE UNCHANGED <<disk, stack>>
  BY <1>2, GraphFixed DEF FrameInv
<1>3. ASSUME Scanning, ~Dangling(Top.file, CurrentImport), stack' = Advanced, disk' = disk
      PROVE  FrameInv'
  <2>1. Len(stack) \in Nat \ {0} /\ Top.next \in Nat
    BY <1>3, TopTypes DEF Scanning, Frame
  <2>2. /\ Len(stack') = Len(stack) /\ stack # <<>>
        /\ \A i \in 1..Len(stack) :
             /\ stack'[i].file = stack[i].file
             /\ stack'[i].next = IF i = Len(stack) THEN stack[i].next + 1 ELSE stack[i].next
    BY <1>3, AdvancedTypes DEF Scanning, TypeOK
  <2>3. ASSUME NEW i \in 1..Len(stack), NEW k \in Nat, k < stack'[i].next
        PROVE  <<stack[i].file, k>> \notin Holes
    <3>1. CASE k < stack[i].next
      BY <3>1 DEF FrameInv
    <3>2. CASE i = Len(stack) /\ k = Top.next
      BY <3>2, <1>3, TopHole DEF Top
    <3> QED BY <3>1, <3>2, <2>1, <2>2, <2>3 DEF Top
  <2> QED BY <1>3, <2>1, <2>2, <2>3, GraphFixed DEF FrameInv
<1>4. CASE Descend
  <2>1. Scanning /\ ~Dangling(Top.file, CurrentImport) /\ disk' = disk
    BY <1>4 DEF Descend, ScanningChild, NamesModule
  <2>2. Len(stack) \in Nat \ {0} /\ Top.next \in Nat /\ stack # <<>>
    BY <2>1, TopTypes DEF Scanning, Frame, TypeOK
  <2> DEFINE n == Len(stack)
             frame == [file |-> Child, path |-> ChildPath, next |-> 1]
  <2>3. /\ Len(stack') = n + 1
        /\ stack'[n + 1] = frame
        /\ \A i \in 1..n : stack'[i] = Advanced[i]
    <3>1. Advanced \in Seq(Frame) /\ Len(Advanced) = n
      BY <2>1, AdvancedTypes DEF Scanning
    <3>2. stack' = Append(Advanced, frame)
      BY <1>4 DEF Descend, Enter
    <3> HIDE DEF frame
    <3> QED BY <3>1, <3>2, AppendProperties
  <2>4. \A i \in 1..n :
          /\ stack'[i].file = stack[i].file
          /\ stack'[i].next = IF i = n THEN stack[i].next + 1 ELSE stack[i].next
    BY <2>1, <2>3, AdvancedTypes DEF Scanning
  <2>5. stack'[n + 1].file = Child /\ stack'[n + 1].next = 1
    BY <2>3
  <2>6. ASSUME NEW i \in 1..(n + 1), NEW k \in Nat, k < stack'[i].next
        PROVE  <<stack'[i].file, k>> \notin Holes
    <3>1. CASE i \in 1..n /\ k < stack[i].next
      BY <3>1, <2>4 DEF FrameInv
    <3>2. CASE i = n /\ k = Top.next
      BY <3>2, <2>1, <2>2, <2>4, TopHole DEF Top
    <3>3. CASE i = n + 1
      BY <3>3, <2>5, <2>6 DEF Holes
    <3> QED BY <3>1, <3>2, <3>3, <2>2, <2>4, <2>6 DEF Top
  <2> HIDE DEF n, frame
  <2>7. \A i \in 1..(n + 1) : disk.source[stack'[i].file] # Unreadable
    BY <1>4, <2>2, <2>4, <2>5 DEF Descend, FrameInv, n
  <2>8. stack'[1].file = stack[1].file
    BY <2>2, <2>4 DEF n
  <2> QED BY <2>1, <2>2, <2>3, <2>6, <2>7, <2>8, GraphFixed DEF FrameInv
<1>5. CASE Finish
  <2>1. stack \in Seq(Frame) /\ stack # <<>> /\ Len(stack) \in Nat \ {0}
    BY <1>5, TopTypes DEF Finish, TypeOK
  <2>2. /\ stack' \in Seq(Frame)
        /\ Len(stack') = Len(stack) - 1
        /\ \A i \in 1..(Len(stack) - 1) : stack'[i] = stack[i]
    BY <1>5, <2>1, FrontTypes DEF Finish
  <2>3. stack' # <<>> => Len(stack') # 0
    BY <2>2, EmptySeq
  <2> QED BY <1>5, <2>1, <2>2, <2>3, GraphFixed DEF Finish, FrameInv
<1>6. CASE SkipImport \/ Revisit
  BY <1>6, <1>3 DEF SkipImport, Revisit, ScanningChild, Dangling, NamesModule
<1> QED BY <1>1, <1>2, <1>4, <1>5, <1>6
      DEF Next, vars, LoadRootFails, MissingModule, DetectCycle, UnreadableModule, Fail

\* The imports that the files on the stack are past lead somewhere.
LEMMA FrameInvariant == Spec => []FrameInv
<1>1. Init => FrameInv
  BY DEF Init, FrameInv
<1> QED BY <1>1, FrameInvNext, TypeCorrect, PTL DEF Spec

\* The abstract output is the sequence of the loaded files.
LEMMA OutputIsSeq ==
  ASSUME modules \in Seq(LoadedModule)
  PROVE  /\ LoadedFiles \in Seq(Files)
         /\ Len(LoadedFiles) = Len(modules)
         /\ \A n \in 1..Len(modules) : LoadedFiles[n] = modules[n].file
<1>1. Len(modules) \in Nat
  BY LenProperties
<1>2. \A n \in 1..Len(modules) : modules[n].file \in Files
  <2>1. \A n \in 1..Len(modules) : modules[n] \in LoadedModule
    BY ElementOfSeq
  <2> QED BY <2>1 DEF LoadedModule
<1>3. LoadedFiles \in [1..Len(modules) -> Files]
  BY <1>2 DEF LoadedFiles
<1>4. LoadedFiles \in Seq(Files)
  BY <1>1, <1>3, IsASeq DEF LoadedFiles
<1> QED BY <1>1, <1>3, <1>4, LenProperties DEF LoadedFiles

\* The modules put out are those loaded.
LEMMA EmittedIsLoaded == TypeOK => Order!Emitted = Loaded
  BY OutputIsSeq DEF TypeOK, Order!Emitted, Loaded

\* A step that changes neither the disk nor the modules changes no output.
LEMMA OutputStable == UNCHANGED <<disk, modules>> => UNCHANGED <<Graph, LoadedFiles>>
  BY GraphFixed DEF LoadedFiles

\* Rejecting: the loader's error is a reason the abstract specification knows.
LEMMA FailImplements ==
  ASSUME NEW reason \in Failures, outcome \in {"start", "running"}, Fail(reason),
         Order!Justified(reason)
  PROVE  Order!Next
<1>1. UNCHANGED <<Graph, LoadedFiles>> /\ outcome' = reason
  BY OutputStable DEF Fail
<1> QED BY <1>1 DEF Order!Next, Order!Reject, Failures

\* A call that found its own file below it on the stack closes a cycle of
\* files none of which is loaded.
LEMMA StackCycle ==
  ASSUME TypeOK, SearchInv, Scanning, NamesModule(Top.file, CurrentImport), OnStack(Child)
  PROVE  Order!Justified("cycle")
<1>1. Len(stack) \in Nat \ {0} /\ Top \in Frame /\ stack \in Seq(Frame)
  BY TopTypes DEF Scanning, TypeOK
<1>2. PICK i \in 1..Len(stack) : stack[i].file = Child
  BY DEF OnStack
<1> DEFINE n == Len(stack)
           C == {stack[j].file : j \in i..n}
<1>3. \A j \in i..n : j \in 1..n /\ stack[j] \in Frame /\ stack[j].file \in Files \ Loaded
  <2> SUFFICES ASSUME NEW j \in i..n
               PROVE  j \in 1..n /\ stack[j] \in Frame /\ stack[j].file \in Files \ Loaded
    OBVIOUS
  <2>1. j \in 1..n
    BY <1>1, <1>2
  <2>2. stack[j] \in Frame
    BY <2>1, <1>1, ElementOfSeq
  <2> QED BY <2>1, <2>2 DEF Frame, SearchInv, LoadedOnce
<1>4. \A f, k, h : <<f, k, h>> \in Edges => h \in Deps(f) /\ f \in Files
  <2> SUFFICES ASSUME NEW f, NEW k, NEW h, <<f, k, h>> \in Edges
               PROVE  h \in Deps(f) /\ f \in Files
    OBVIOUS
  <2>1. f \in Files /\ k \in Nat /\ h \in Files
    BY DEF Edges
  <2> QED BY <2>1, EdgesAreDeps
<1>5. \A j \in i..n : Deps(stack[j].file) \cap C # {}
  <2> SUFFICES ASSUME NEW j \in i..n PROVE Deps(stack[j].file) \cap C # {}
    OBVIOUS
  <2>1. CASE j = n
    <3>1. <<Top.file, Top.next, Child>> \in Edges
      BY TopEdges
    <3>2. Child \in C
      BY <1>1, <1>2
    <3>3. Child \in Deps(stack[j].file)
      BY <3>1, <1>4, <2>1 DEF Top
    <3> QED BY <3>2, <3>3
  <2>2. CASE j # n
    <3>1. j \in 1..(Len(stack) - 1) /\ j + 1 \in i..n
      BY <1>1, <1>2, <2>2
    <3>2. <<stack[j].file, stack[j].next - 1, stack[j + 1].file>> \in Edges
      BY <3>1 DEF SearchInv, Chain
    <3>3. stack[j + 1].file \in Deps(stack[j].file)
      BY <3>2, <1>4
    <3>4. stack[j + 1].file \in C
      BY <3>1
    <3> QED BY <3>3, <3>4
  <2> QED BY <2>1, <2>2
<1>6. C # {} /\ C \subseteq Files \ Loaded
  BY <1>1, <1>2, <1>3
<1>7. DOMAIN Graph.deps = Files /\ \A f \in Files : Graph.deps[f] = Deps(f)
  BY DEF Graph
<1>8. \A f \in C : Graph.deps[f] \cap C # {}
  BY <1>5, <1>6, <1>7
<1>9. C \in SUBSET (DOMAIN Graph.deps \ Order!Emitted)
  BY <1>6, <1>7, EmittedIsLoaded
<1> HIDE DEF C
<1> QED BY <1>6, <1>8, <1>9 DEF Order!Justified, Order!Cyclic

\* Returning from a call emits its file.
LEMMA FinishImplements ==
  ASSUME TypeOK, TypeOK', SearchInv, FrameInv, Finish
  PROVE  Order!Next
<1>1. /\ outcome = "running" /\ Len(stack) \in Nat \ {0} /\ Top \in Frame
      /\ stack # <<>> /\ Top = stack[Len(stack)]
  BY TopTypes DEF Finish, TypeOK, Top
<1>2. Top.file \in Files /\ Top.next \in Nat /\ Len(Imports(Top.file)) \in Nat
  BY <1>1, DiskTypes, LenProperties DEF Frame
<1>3. Top.file \notin Loaded /\ disk.source[Top.file] # Unreadable
  BY <1>1 DEF SearchInv, LoadedOnce, FrameInv
<1>4. ASSUME NEW k \in 1..Len(Imports(Top.file)) PROVE ~Dangling(Top.file, Imports(Top.file)[k])
  <2>1. k \in Nat /\ k < Top.next
    BY <1>2 DEF Finish
  <2>2. <<Top.file, k>> \notin Holes
    BY <1>1, <2>1 DEF FrameInv
  <2> QED BY <1>2, <2>1, <2>2 DEF Holes
<1>5. Deps(Top.file) \subseteq Loaded
  <2> SUFFICES ASSUME NEW g \in Deps(Top.file) PROVE g \in Loaded
    OBVIOUS
  <2>1. PICK k \in Nat : g \in Files /\ <<Top.file, k, g>> \in Edges
    BY <1>2, EdgesAreDeps
  <2>2. k \in 1..Len(Imports(Top.file))
    BY <2>1 DEF Edges
  <2>3. k < Top.next
    BY <1>2, <2>2 DEF Finish
  <2> QED BY <1>1, <2>1, <2>3 DEF SearchInv, Scanned
<1>6. (Len(stack) = 1) <=> (Top.file = RootFile)
  BY <1>1 DEF FrameInv, SearchInv, LoadedOnce
<1>7. LoadedFiles' = Append(LoadedFiles, Top.file)
  <2> DEFINE mod == [path |-> Top.path, file |-> Top.file]
             n == Len(modules)
  <2>1. modules \in Seq(LoadedModule) /\ modules' = Append(modules, mod) /\ mod \in LoadedModule
    BY <1>1 DEF TypeOK, Finish, push, Frame, LoadedModule
  <2>2. mod.file = Top.file
    OBVIOUS
  <2> HIDE DEF mod
  <2>3. /\ n \in Nat /\ Len(modules') = n + 1 /\ modules'[n + 1] = mod
        /\ \A i \in 1..n : modules'[i] = modules[i]
    BY <2>1, AppendProperties, LenProperties
  <2>4. /\ LoadedFiles \in Seq(Files) /\ Len(LoadedFiles) = n
        /\ \A i \in 1..n : LoadedFiles[i] = modules[i].file
    BY <2>1, OutputIsSeq
  <2>5. LoadedFiles' = [i \in 1..(n + 1) |-> modules'[i].file]
    BY <2>3 DEF LoadedFiles
  <2>6. /\ Append(LoadedFiles, Top.file) \in Seq(Files)
        /\ Len(Append(LoadedFiles, Top.file)) = n + 1
        /\ \A i \in 1..n : Append(LoadedFiles, Top.file)[i] = LoadedFiles[i]
        /\ Append(LoadedFiles, Top.file)[n + 1] = Top.file
    BY <1>2, <2>3, <2>4, AppendProperties
  <2>7. \A i \in 1..(n + 1) : LoadedFiles'[i] = Append(LoadedFiles, Top.file)[i]
    BY <2>2, <2>3, <2>4, <2>5, <2>6
  <2>8. LoadedFiles' \in Seq(Files) /\ Len(LoadedFiles') = n + 1
    <3>1. \A i \in 1..(n + 1) : modules'[i].file \in Files
      BY <1>2, <2>2, <2>3, <2>4, <2>6, <2>7, ElementOfSeq
    <3>2. LoadedFiles' \in [1..(n + 1) -> Files]
      BY <2>5, <3>1
    <3>3. LoadedFiles' \in Seq(Files)
      BY <2>3, <2>5, <3>1, IsASeq
    <3> QED BY <2>3, <3>2, <3>3, LenProperties
  <2> HIDE DEF n
  <2> QED BY <2>3, <2>6, <2>7, <2>8, SeqEqual
<1>8. Graph' = Graph
  BY GraphFixed DEF Finish
<1>9. /\ Graph.root = RootFile
      /\ Top.file \notin Graph.broken /\ Top.file \notin Graph.dangling
      /\ Top.file \in DOMAIN Graph.deps /\ Graph.deps[Top.file] = Deps(Top.file)
  BY <1>1, <1>2, <1>3, <1>4 DEF Graph, FrameInv
<1>10. outcome' = IF Top.file = Graph.root THEN "ok" ELSE "running"
  BY <1>6, <1>9 DEF Finish, outcome_on_return
<1>11. Order!Emit(Top.file)
  BY <1>1, <1>3, <1>5, <1>7, <1>8, <1>9, <1>10, EmittedIsLoaded DEF Order!Emit
<1> QED BY <1>9, <1>11 DEF Order!Next

\* On every file system the loader implements LoadOrder: it emits each file
\* after its imports, ends with the root, and rejects only for a reason that
\* exists.
THEOREM Implements == Spec => ImplementsLoadOrder
<1>1. Init /\ TypeOK => Order!Init
  <2> SUFFICES ASSUME Init, TypeOK PROVE Order!Init
    OBVIOUS
  <2>1. LoadedFiles \in Seq(Files) /\ Len(LoadedFiles) = 0
    BY OutputIsSeq DEF Init, TypeOK
  <2>2. LoadedFiles = <<>>
    BY <2>1, EmptySeq
  <2> QED BY <2>2 DEF Init, Order!Init
<1>2. TypeOK /\ TypeOK' /\ SearchInv /\ FrameInv /\ [Next]_vars => [Order!Next]_(Order!vars)
  <2> SUFFICES ASSUME TypeOK, TypeOK', SearchInv, FrameInv, [Next]_vars
               PROVE  Order!Next \/ UNCHANGED Order!vars
    OBVIOUS
  <2>1. CASE LoadRoot
    <3>1. UNCHANGED <<Graph, LoadedFiles>>
      BY <2>1, OutputStable DEF LoadRoot
    <3> QED BY <2>1, <3>1 DEF LoadRoot, Order!Next, Order!Begin
  <2>2. CASE LoadRootFails
    <3>1. ASSUME RootArg \notin DOMAIN disk.entry, Fail("no_root") PROVE Order!Next
      <4>1. Order!Justified("no_root")
        BY <3>1 DEF Order!Justified, Graph
      <4> QED BY <4>1, <3>1, <2>2, FailImplements DEF LoadRootFails, Failures
    <3>2. ASSUME RootArg \in DOMAIN disk.entry, disk.source[RootFile] = Unreadable,
                 Fail("unreadable")
          PROVE  Order!Next
      <4>1. RootFile \in Files
        BY <3>2, DiskTypes DEF RootFile
      <4>2. RootFile \in Graph.broken
        BY <3>2, <4>1 DEF Graph
      <4>3. Order!Justified("unreadable")
        BY <4>2 DEF Order!Justified
      <4> QED BY <4>3, <3>2, <2>2, FailImplements DEF LoadRootFails, Failures
    <3>3. ASSUME RootArg \in DOMAIN disk.entry, ~super_root_ok(RootFile), Fail("super")
          PROVE  Order!Next
      <4>1. Order!Justified("super")
        BY <3>3 DEF Order!Justified, Graph
      <4> QED BY <4>1, <3>3, <2>2, FailImplements DEF LoadRootFails, Failures
    <3> QED BY <2>2, <3>1, <3>2, <3>3 DEF LoadRootFails
  <2>3. CASE MissingModule
    <3>1. Scanning /\ outcome = "running" /\ Dangling(Top.file, CurrentImport)
      BY <2>3 DEF MissingModule, Scanning
    <3>2. Top.file \in Files /\ Top.next \in Nat \ {0} /\ Len(Imports(Top.file)) \in Nat
      BY <3>1, TopTypes, DiskTypes, LenProperties DEF Frame
    <3>3. Top.next \in 1..Len(Imports(Top.file))
      BY <3>1, <3>2 DEF Scanning
    <3>4. Top.file \in Graph.dangling
      BY <3>1, <3>2, <3>3 DEF Graph, CurrentImport
    <3>5. Order!Justified("missing")
      BY <3>4 DEF Order!Justified
    <3> QED BY <2>3, <3>1, <3>5, FailImplements DEF MissingModule, Failures
  <2>4. CASE UnreadableModule
    <3>1. outcome = "running" /\ Child \in Files /\ disk.source[Child] = Unreadable
      BY <2>4, TopEdges DEF UnreadableModule, ScanningChild, Scanning
    <3>2. Child \in Graph.broken
      BY <3>1 DEF Graph
    <3>3. Order!Justified("unreadable")
      BY <3>2 DEF Order!Justified
    <3> QED BY <2>4, <3>1, <3>3, FailImplements DEF UnreadableModule, Failures
  <2>5. CASE DetectCycle
    <3>1. outcome = "running" /\ Order!Justified("cycle")
      BY <2>5, StackCycle DEF DetectCycle, ScanningChild, Scanning
    <3> QED BY <2>5, <3>1, FailImplements DEF DetectCycle, Failures
  <2>6. CASE Finish
    BY <2>6, FinishImplements
  <2>7. CASE SkipImport \/ Revisit \/ Descend \/ UNCHANGED vars
    <3>1. UNCHANGED <<disk, modules, outcome>>
      BY <2>7 DEF SkipImport, Revisit, Descend, vars
    <3> QED BY <3>1, OutputStable DEF Order!vars
  <2> QED BY <2>1, <2>2, <2>3, <2>4, <2>5, <2>6, <2>7 DEF Next
<1> QED BY <1>1, <1>2, TypeCorrect, SearchInvariant, FrameInvariant, PTL
      DEF Spec, ImplementsLoadOrder, Order!Spec

------------------------------------------------------------------------------
(***************************************************************************)
(* Module paths.  Each call in progress has the path that the import its   *)
(* caller waits for gives it (Entered), which is the path its file will be *)
(* recorded under; the other imports it has passed, and all imports of     *)
(* loaded modules, have a path that is known already or an alias that      *)
(* leads to one.  ImportsReach then compares these paths with those the    *)
(* resolver computes from the canonical path of the importing module.      *)
(***************************************************************************)
\* The path the k-th import of `f` at `path` gives the file it leads to.
EdgePath(f, path, k) ==
  child_module_path(path, Imports(f)[k].root, mod_segs(f, Imports(f)[k]))

\* Path `p` leads to file `g`, or is an alias.
Known(recorded, aliases, g, p) ==
  p \in DOMAIN aliases \/ (g \in DOMAIN recorded /\ p = recorded[g])

Recorded ==
  \A n \in 1..Len(modules) :
    modules[n].file \in DOMAIN file_to_path /\ modules[n].path = file_to_path[modules[n].file]

Entered ==
  \A i \in 1..(Len(stack) - 1) :
    stack[i + 1].path = EdgePath(stack[i].file, stack[i].path, stack[i].next - 1)

LoadedPathsKnown ==
  \A n \in 1..Len(modules), k \in Nat, g \in Files :
    <<modules[n].file, k, g>> \in Edges =>
      Known(file_to_path, path_aliases, g, EdgePath(modules[n].file, modules[n].path, k))

ScannedPathsKnown ==
  \A i \in 1..Len(stack), k \in Nat, g \in Files :
    (/\ <<stack[i].file, k, g>> \in Edges
     /\ k < stack[i].next
     /\ i < Len(stack) => k # stack[i].next - 1) =>
      Known(file_to_path, path_aliases, g, EdgePath(stack[i].file, stack[i].path, k))

\* Some import that was passed gives the file `g` the path `p`.
NamedFrom(p, g) ==
  \/ \E n \in 1..Len(modules), k \in Nat :
       <<modules[n].file, k, g>> \in Edges /\ EdgePath(modules[n].file, modules[n].path, k) = p
  \/ \E i \in 1..Len(stack), k \in Nat :
       /\ k < stack[i].next /\ <<stack[i].file, k, g>> \in Edges
       /\ EdgePath(stack[i].file, stack[i].path, k) = p

AliasesLead ==
  \A p \in DOMAIN path_aliases : \E g \in DOMAIN file_to_path :
    path_aliases[p] = file_to_path[g] /\ NamedFrom(p, g)

PathInv ==
  /\ outcome = "start" => stack = <<>> /\ modules = <<>>
  /\ outcome = "ok" => stack = <<>>
  /\ Recorded
  /\ Entered
  /\ LoadedPathsKnown
  /\ ScannedPathsKnown
  /\ AliasesLead

\* The paths that imports have depend on the disk alone.
LEMMA ImportPathsFixed ==
  ASSUME disk' = disk
  PROVE  /\ Edges' = Edges /\ Files' = Files
         /\ \A f, path, k : EdgePath(f, path, k)' = EdgePath(f, path, k)
<1>1. Edges' = Edges /\ Files' = Files
  BY EdgesUnchanged
<1>2. ASSUME NEW f, NEW path, NEW k
      PROVE  EdgePath(f, path, k)' = EdgePath(f, path, k)
  BY DEF EdgePath, Imports, child_module_path, mod_segs, find_module_file, candidates, search_dir,
         root_dir, RootFile, parent_dir
<1> QED BY <1>1, <1>2

\* What is known stays known when more is recorded.
LEMMA KnownGrows ==
  ASSUME NEW r, NEW a, NEW s, NEW b, DOMAIN a \subseteq DOMAIN b,
         DOMAIN r \subseteq DOMAIN s, \A f \in DOMAIN r : s[f] = r[f]
  PROVE  \A g, p : Known(r, a, g, p) => Known(s, b, g, p)
BY DEF Known

\* An import that was passed stays passed as long as the calls go on.
LEMMA NamedFromStays ==
  ASSUME UNCHANGED <<disk, modules>>, 1..Len(stack) \subseteq 1..Len(stack'),
         \A i \in 1..Len(stack) :
           /\ stack'[i].file = stack[i].file /\ stack'[i].path = stack[i].path
           /\ \A k \in Nat : k < stack[i].next => k < stack'[i].next
  PROVE  \A p, g : NamedFrom(p, g) => NamedFrom(p, g)'
<1> SUFFICES ASSUME NEW p, NEW g, NamedFrom(p, g) PROVE NamedFrom(p, g)'
  OBVIOUS
<1>1. Edges' = Edges /\ \A f, path, k : EdgePath(f, path, k)' = EdgePath(f, path, k)
  BY ImportPathsFixed
<1>2. CASE \E n \in 1..Len(modules), k \in Nat :
             <<modules[n].file, k, g>> \in Edges /\ EdgePath(modules[n].file, modules[n].path, k) = p
  BY <1>1, <1>2 DEF NamedFrom
<1>3. CASE \E i \in 1..Len(stack), k \in Nat :
             /\ k < stack[i].next /\ <<stack[i].file, k, g>> \in Edges
             /\ EdgePath(stack[i].file, stack[i].path, k) = p
  BY <1>1, <1>3 DEF NamedFrom
<1> QED BY <1>2, <1>3 DEF NamedFrom

\* A step that only ends the run with an error.
LEMMA PathInvFail ==
  ASSUME PathInv, UNCHANGED <<disk, stack, file_to_path, path_aliases, modules>>,
         outcome' = outcome \/ outcome' \notin {"start", "ok"}
  PROVE  PathInv'
<1>1. Edges' = Edges /\ Files' = Files /\ \A f, path, k : EdgePath(f, path, k)' = EdgePath(f, path, k)
  BY ImportPathsFixed
<1>2. Recorded' /\ Entered' /\ LoadedPathsKnown' /\ ScannedPathsKnown'
  BY <1>1 DEF PathInv, Recorded, Entered, LoadedPathsKnown, ScannedPathsKnown
<1>3. AliasesLead'
  <2>1. \A p, g : NamedFrom(p, g) => NamedFrom(p, g)'
    BY NamedFromStays
  <2> QED BY <2>1 DEF PathInv, AliasesLead
<1> QED BY <1>2, <1>3 DEF PathInv

\* Passing an import that names no module, or one whose path is known then.
LEMMA PathInvAdvance ==
  ASSUME TypeOK, PathInv, Scanning,
         NamesModule(Top.file, CurrentImport) => Known(file_to_path, path_aliases', Child, ChildPath),
         DOMAIN path_aliases \subseteq DOMAIN path_aliases',
         \A p \in DOMAIN path_aliases' :
           \/ p \in DOMAIN path_aliases /\ path_aliases'[p] = path_aliases[p]
           \/ /\ NamesModule(Top.file, CurrentImport) /\ p = ChildPath
              /\ Child \in DOMAIN file_to_path /\ path_aliases'[p] = file_to_path[Child],
         stack' = Advanced, UNCHANGED <<disk, file_to_path, modules, outcome>>
  PROVE  PathInv'
<1>1. Edges' = Edges /\ Files' = Files /\ \A f, path, k : EdgePath(f, path, k)' = EdgePath(f, path, k)
  BY ImportPathsFixed
<1>2. outcome = "running" /\ Len(stack) \in Nat \ {0}
  BY TopTypes DEF Scanning
<1>3. /\ Len(stack') = Len(stack)
      /\ \A i \in 1..Len(stack) :
           /\ stack'[i].file = stack[i].file /\ stack'[i].path = stack[i].path
           /\ stack'[i].next = IF i = Len(stack) THEN stack[i].next + 1 ELSE stack[i].next
  BY <1>2, AdvancedTypes
<1>4. \A g, p : Known(file_to_path, path_aliases, g, p) => Known(file_to_path', path_aliases', g, p)
  BY KnownGrows
<1>5. Entered'
  <2> SUFFICES ASSUME NEW i \in 1..(Len(stack) - 1)
               PROVE  stack'[i + 1].path = EdgePath(stack'[i].file, stack'[i].path, stack'[i].next - 1)
    BY <1>1, <1>3 DEF Entered
  <2>1. i \in 1..Len(stack) /\ i + 1 \in 1..Len(stack) /\ i # Len(stack)
    BY <1>2
  <2> QED BY <2>1, <1>3 DEF PathInv, Entered
<1>6. ScannedPathsKnown'
  <2> SUFFICES ASSUME NEW i \in 1..Len(stack), NEW k \in Nat, NEW g \in Files,
                      <<stack[i].file, k, g>> \in Edges, k < stack'[i].next,
                      i < Len(stack) => k # stack'[i].next - 1
               PROVE  Known(file_to_path', path_aliases', g, EdgePath(stack[i].file, stack[i].path, k))
    BY <1>1, <1>3 DEF ScannedPathsKnown
  <2>1. CASE i < Len(stack)
    BY <2>1, <1>2, <1>3, <1>4 DEF PathInv, ScannedPathsKnown
  <2>2. CASE i = Len(stack)
    <3>1. stack[i] = Top /\ Top.next \in Nat /\ k < Top.next + 1
      BY <2>2, <1>2, <1>3, TopTypes DEF Top, Frame
    <3>2. CASE k = Top.next
      <4>1. NamesModule(Top.file, CurrentImport) /\ g = Child
        BY <3>1, <3>2, TopEdges
      <4>2. EdgePath(Top.file, Top.path, Top.next) = ChildPath
        BY DEF EdgePath, ChildPath, CurrentImport
      <4> QED BY <3>1, <3>2, <4>1, <4>2
    <3>3. CASE k < Top.next
      BY <3>1, <3>3, <2>2, <1>4 DEF PathInv, ScannedPathsKnown
    <3> QED BY <3>1, <3>2, <3>3
  <2> QED BY <2>1, <2>2, <1>2
<1>7. LoadedPathsKnown' /\ Recorded'
  BY <1>1, <1>4 DEF PathInv, LoadedPathsKnown, Recorded
<1>8. AliasesLead'
  <2>1. \A p, g : NamedFrom(p, g) => NamedFrom(p, g)'
    <3>1. \A i \in 1..Len(stack), k \in Nat : k < stack[i].next => k < stack'[i].next
      <4> TAKE i \in 1..Len(stack), k \in Nat
      <4>1. stack[i].next \in Nat
        <5>1. stack[i] \in Frame
          BY ElementOfSeq DEF TypeOK
        <5> QED BY <5>1 DEF Frame
      <4>2. stack'[i].next = stack[i].next + 1 \/ stack'[i].next = stack[i].next
        BY <1>3
      <4> QED BY <4>1, <4>2
    <3> QED BY <1>3, <3>1, NamedFromStays
  <2>2. ASSUME NamesModule(Top.file, CurrentImport), NEW p, p = ChildPath, NEW g, g = Child
        PROVE  NamedFrom(p, g)'
    <3> DEFINE n == Len(stack)
    <3>1. /\ n \in 1..Len(stack') /\ Top = stack[n] /\ Top.next \in Nat
          /\ stack'[n].file = Top.file /\ stack'[n].path = Top.path /\ stack'[n].next = Top.next + 1
      BY <1>2, <1>3, TopTypes DEF Top, Frame
    <3>2. <<Top.file, Top.next, Child>> \in Edges
      BY <2>2, TopEdges
    <3>3. EdgePath(Top.file, Top.path, Top.next) = ChildPath
      BY DEF EdgePath, ChildPath, CurrentImport
    <3> HIDE DEF n
    <3>4. Top.next < stack'[n].next
      BY <3>1
    <3> QED BY <1>1, <2>2, <3>1, <3>2, <3>3, <3>4 DEF NamedFrom
  <2> QED BY <2>1, <2>2 DEF PathInv, AliasesLead
<1> QED BY <1>2, <1>5, <1>6, <1>7, <1>8 DEF PathInv

\* The other path of a file becomes an alias of the one it is recorded under.
LEMMA PathInvRevisit ==
  ASSUME TypeOK, PathInv, Revisit
  PROVE  PathInv'
<1>1. Scanning /\ Child \in DOMAIN file_to_path /\ stack' = Advanced
      /\ path_aliases' = aliases_with_child /\ UNCHANGED <<disk, file_to_path, modules, outcome>>
  BY DEF Revisit, ScanningChild, Scanning, Visited
<1>2. DOMAIN path_aliases \subseteq DOMAIN path_aliases'
      /\ Known(file_to_path, path_aliases', Child, ChildPath)
  BY <1>1 DEF aliases_with_child, Known
<1>3. \A p \in DOMAIN path_aliases' :
        \/ p \in DOMAIN path_aliases /\ path_aliases'[p] = path_aliases[p]
        \/ p = ChildPath /\ path_aliases'[p] = file_to_path[Child]
  BY <1>1 DEF aliases_with_child
<1> QED BY <1>1, <1>2, <1>3, PathInvAdvance DEF Revisit, ScanningChild

\* A file is entered under the path of the import that leads to it.
LEMMA PathInvDescend ==
  ASSUME TypeOK, PathInv, Descend
  PROVE  PathInv'
<1>1. Edges' = Edges /\ Files' = Files /\ \A f, path, k : EdgePath(f, path, k)' = EdgePath(f, path, k)
  BY ImportPathsFixed DEF Descend
<1>2. Scanning /\ outcome = "running" /\ UNCHANGED <<disk, file_to_path, path_aliases, modules, outcome>>
  BY DEF Descend, ScanningChild, Scanning
<1>3. Len(stack) \in Nat \ {0} /\ Top.next \in Nat \ {0}
  BY <1>2, TopTypes DEF Frame
<1> DEFINE n == Len(stack)
           frame == [file |-> Child, path |-> ChildPath, next |-> 1]
<1>4. /\ Len(stack') = n + 1
      /\ stack'[n + 1] = frame
      /\ \A i \in 1..n : stack'[i] = Advanced[i]
  <2>1. Advanced \in Seq(Frame) /\ Len(Advanced) = n
    BY <1>2, AdvancedTypes
  <2>2. stack' = Append(Advanced, frame)
    BY DEF Descend, Enter
  <2> HIDE DEF frame
  <2> QED BY <2>1, <2>2, AppendProperties
<1>5. \A i \in 1..n :
        /\ stack'[i].file = stack[i].file /\ stack'[i].path = stack[i].path
        /\ stack'[i].next = IF i = n THEN stack[i].next + 1 ELSE stack[i].next
  BY <1>2, <1>4, AdvancedTypes
<1>6. stack'[n + 1].path = ChildPath /\ stack'[n + 1].next = 1
  BY <1>4
<1> HIDE DEF n, frame
<1>7. n \in Nat \ {0} /\ Len(stack) = n /\ stack[n] = Top
  BY <1>3 DEF n, Top
<1>8. Entered'
  <2> SUFFICES ASSUME NEW i \in 1..n
               PROVE  stack'[i + 1].path = EdgePath(stack'[i].file, stack'[i].path, stack'[i].next - 1)
    BY <1>1, <1>4, <1>7 DEF Entered
  <2>1. CASE i < n
    BY <2>1, <1>5, <1>7 DEF PathInv, Entered
  <2>2. CASE i = n
    <3>1. stack'[i].next - 1 = Top.next
      BY <2>2, <1>3, <1>5, <1>7
    <3>2. EdgePath(Top.file, Top.path, Top.next) = ChildPath
      BY DEF EdgePath, ChildPath, CurrentImport
    <3> QED BY <2>2, <3>1, <3>2, <1>5, <1>6, <1>7
  <2> QED BY <2>1, <2>2, <1>7
<1>9. ScannedPathsKnown'
  <2> SUFFICES ASSUME NEW i \in 1..(n + 1), NEW k \in Nat, NEW g \in Files,
                      <<stack'[i].file, k, g>> \in Edges, k < stack'[i].next,
                      i < n + 1 => k # stack'[i].next - 1
               PROVE  Known(file_to_path, path_aliases, g, EdgePath(stack'[i].file, stack'[i].path, k))
    BY <1>1, <1>2, <1>4 DEF ScannedPathsKnown
  <2>1. CASE i < n
    BY <2>1, <1>5, <1>7 DEF PathInv, ScannedPathsKnown
  <2>2. CASE i = n
    <3>1. k < Top.next
      BY <2>2, <1>3, <1>5, <1>7
    <3> QED BY <3>1, <2>2, <1>5, <1>7 DEF PathInv, ScannedPathsKnown
  <2>3. CASE i = n + 1
    <3>1. k = 0
      BY <2>3, <1>6
    <3> QED BY <3>1 DEF Edges
  <2> QED BY <2>1, <2>2, <2>3, <1>7
<1>10. LoadedPathsKnown' /\ Recorded'
  BY <1>1, <1>2 DEF PathInv, LoadedPathsKnown, Recorded
<1>11. AliasesLead'
  <2>1. \A i \in 1..n, k \in Nat : k < stack[i].next => k < stack'[i].next
    <3> TAKE i \in 1..n, k \in Nat
    <3>1. stack[i].next \in Nat
      <4>1. stack[i] \in Frame
        BY <1>7, ElementOfSeq DEF TypeOK
      <4> QED BY <4>1 DEF Frame
    <3>2. stack'[i].next = stack[i].next + 1 \/ stack'[i].next = stack[i].next
      BY <1>5
    <3> QED BY <3>1, <3>2
  <2>2. 1..Len(stack) \subseteq 1..Len(stack')
    BY <1>4, <1>7
  <2>3. \A p, g : NamedFrom(p, g) => NamedFrom(p, g)'
    BY <1>2, <1>5, <1>7, <2>1, <2>2, NamedFromStays
  <2> QED BY <1>2, <2>3 DEF PathInv, AliasesLead
<1> QED BY <1>2, <1>8, <1>9, <1>10, <1>11 DEF PathInv

\* The file of the innermost call is recorded under the path it was entered
\* with, which the import its caller waits for has.
LEMMA PathInvFinish ==
  ASSUME TypeOK, SearchInv, PathInv, Finish
  PROVE  PathInv'
<1> DEFINE n == Len(stack)
           m == Len(modules)
           mod == [path |-> Top.path, file |-> Top.file]
<1>1. Edges' = Edges /\ Files' = Files /\ \A f, path, k : EdgePath(f, path, k)' = EdgePath(f, path, k)
  BY ImportPathsFixed DEF Finish
<1>2. /\ outcome = "running" /\ n \in Nat \ {0} /\ Top \in Frame
      /\ stack \in Seq(Frame) /\ stack # <<>>
  BY TopTypes DEF Finish, TypeOK
<1>3. /\ Len(stack') = n - 1
      /\ \A i \in 1..(n - 1) : stack'[i] = stack[i]
  BY <1>2, FrontTypes DEF Finish
<1>4. /\ m \in Nat /\ Len(modules') = m + 1
      /\ modules'[m + 1] = mod
      /\ \A i \in 1..m : modules'[i] = modules[i]
  <2>1. modules' = Append(modules, mod) /\ modules \in Seq(LoadedModule)
    BY DEF Finish, push, TypeOK
  <2>2. mod \in LoadedModule
    BY <1>2 DEF Frame, LoadedModule
  <2> HIDE DEF mod
  <2> QED BY <2>1, <2>2, AppendProperties, LenProperties
<1>5. modules'[m + 1].file = Top.file /\ modules'[m + 1].path = Top.path
  BY <1>4
<1> HIDE DEF n, m, mod
<1>6. n \in Nat \ {0} /\ Len(stack) = n /\ stack[n] = Top /\ Len(modules) = m
  BY <1>2 DEF n, m, Top
<1>7. Top.file \notin DOMAIN file_to_path
  BY <1>6 DEF SearchInv, LoadedOnce
<1>8. /\ Top.file \in DOMAIN file_to_path' /\ file_to_path'[Top.file] = Top.path
      /\ DOMAIN file_to_path \subseteq DOMAIN file_to_path'
      /\ \A f \in DOMAIN file_to_path : file_to_path'[f] = file_to_path[f]
      /\ path_aliases' = path_aliases
  BY <1>7 DEF Finish
<1>9. \A g, p : Known(file_to_path, path_aliases, g, p) => Known(file_to_path', path_aliases', g, p)
  BY <1>8, KnownGrows
<1>10. ASSUME NEW k \in Nat, NEW g \in Files, <<Top.file, k, g>> \in Edges
       PROVE  Known(file_to_path, path_aliases, g, EdgePath(Top.file, Top.path, k))
  <2>1. Top.file \in Files /\ Top.next \in Nat
    BY <1>2 DEF Frame
  <2>2. k \in 1..Len(Imports(Top.file)) /\ Len(Imports(Top.file)) \in Nat
    BY <1>10, <2>1, DiskTypes, LenProperties DEF Edges
  <2>3. k < Top.next
    BY <2>1, <2>2 DEF Finish
  <2> QED BY <1>6, <1>10, <2>3 DEF PathInv, ScannedPathsKnown
<1>11. Recorded'
  <2> SUFFICES ASSUME NEW j \in 1..(m + 1)
               PROVE  /\ modules'[j].file \in DOMAIN file_to_path'
                      /\ modules'[j].path = file_to_path'[modules'[j].file]
    BY <1>4 DEF Recorded
  <2>1. CASE j = m + 1
    BY <2>1, <1>5, <1>8
  <2>2. CASE j \in 1..m
    BY <2>2, <1>4, <1>6, <1>8 DEF PathInv, Recorded
  <2> QED BY <2>1, <2>2, <1>4
<1>12. Entered'
  BY <1>1, <1>3, <1>6 DEF PathInv, Entered
<1>13. LoadedPathsKnown'
  <2> SUFFICES ASSUME NEW j \in 1..(m + 1), NEW k \in Nat, NEW g \in Files,
                      <<modules'[j].file, k, g>> \in Edges
               PROVE  Known(file_to_path', path_aliases', g, EdgePath(modules'[j].file, modules'[j].path, k))
    BY <1>1, <1>4 DEF LoadedPathsKnown
  <2>1. CASE j = m + 1
    BY <2>1, <1>5, <1>9, <1>10
  <2>2. CASE j \in 1..m
    BY <2>2, <1>4, <1>6, <1>9 DEF PathInv, LoadedPathsKnown
  <2> QED BY <2>1, <2>2, <1>4
<1>14. ScannedPathsKnown'
  <2> SUFFICES ASSUME NEW i \in 1..(n - 1), NEW k \in Nat, NEW g \in Files,
                      <<stack[i].file, k, g>> \in Edges, k < stack[i].next,
                      i < n - 1 => k # stack[i].next - 1
               PROVE  Known(file_to_path', path_aliases', g, EdgePath(stack[i].file, stack[i].path, k))
    BY <1>1, <1>3, <1>6 DEF ScannedPathsKnown
  <2>1. CASE k # stack[i].next - 1
    BY <2>1, <1>6, <1>9 DEF PathInv, ScannedPathsKnown
  <2>2. CASE k = stack[i].next - 1
    <3>1. i = n - 1 /\ i \in 1..(Len(stack) - 1) /\ stack[i + 1] = Top
      BY <2>2, <1>6
    <3>2. <<stack[i].file, k, Top.file>> \in Edges
      BY <3>1, <2>2 DEF SearchInv, Chain
    <3>3. g = Top.file
      BY <3>2 DEF Edges
    <3>4. Top.path = EdgePath(stack[i].file, stack[i].path, k)
      BY <2>2, <3>1 DEF PathInv, Entered
    <3> QED BY <1>8, <3>3, <3>4 DEF Known
  <2> QED BY <2>1, <2>2
<1>15. AliasesLead'
  <2>1. ASSUME NEW p, NEW g, NamedFrom(p, g) PROVE NamedFrom(p, g)'
    <3>1. CASE \E j \in 1..m, k \in Nat :
                 <<modules[j].file, k, g>> \in Edges /\ EdgePath(modules[j].file, modules[j].path, k) = p
      <4>1. 1..m \subseteq 1..(m + 1)
        BY <1>4
      <4> QED BY <3>1, <4>1, <1>1, <1>4 DEF NamedFrom
    <3>2. ASSUME NEW i \in 1..n, NEW k \in Nat, k < stack[i].next, <<stack[i].file, k, g>> \in Edges,
                 EdgePath(stack[i].file, stack[i].path, k) = p
          PROVE  NamedFrom(p, g)'
      <4>1. CASE i = n
        <5>1. m + 1 \in 1..Len(modules')
          BY <1>4
        <5>2. <<modules'[m + 1].file, k, g>> \in Edges
              /\ EdgePath(modules'[m + 1].file, modules'[m + 1].path, k) = p
          BY <1>5, <1>6, <3>2, <4>1
        <5> QED BY <1>1, <5>1, <5>2 DEF NamedFrom
      <4>2. CASE i # n
        <5>1. i \in 1..Len(stack') /\ stack'[i] = stack[i]
          BY <1>3, <1>6, <4>2
        <5> QED BY <1>1, <3>2, <5>1 DEF NamedFrom
      <4> QED BY <4>1, <4>2
    <3> QED BY <1>6, <2>1, <3>1, <3>2 DEF NamedFrom
  <2> QED BY <1>8, <2>1 DEF PathInv, AliasesLead
<1>16. outcome' # "start" /\ (outcome' = "ok" => stack' = <<>>)
  <2>1. stack' \in Seq(Frame)
    BY <1>2, FrontTypes DEF Finish
  <2>2. outcome' = "ok" => Len(stack') = 0
    BY <1>3, <1>6 DEF Finish, outcome_on_return
  <2> QED BY <2>1, <2>2, EmptySeq DEF Finish, outcome_on_return
<1> QED BY <1>11, <1>12, <1>13, <1>14, <1>15, <1>16 DEF PathInv

\* The invariant of the paths holds throughout.
LEMMA PathInvariant == Spec => []PathInv
<1>1. Init => PathInv
  BY DEF Init, PathInv, Recorded, Entered, LoadedPathsKnown, ScannedPathsKnown, AliasesLead
<1>2. TypeOK /\ SearchInv /\ PathInv /\ [Next]_vars => PathInv'
  <2> SUFFICES ASSUME TypeOK, SearchInv, PathInv, [Next]_vars PROVE PathInv'
    OBVIOUS
  <2>1. CASE LoadRoot
    <3>1. Len(stack') = 1 /\ stack'[1].next = 1
      <4>1. stack' = <<[file |-> RootFile, path |-> <<>>, next |-> 1]>>
        BY <2>1 DEF LoadRoot, Enter
      <4> QED BY <4>1
    <3>2. /\ stack = <<>> /\ modules = <<>> /\ UNCHANGED <<disk, modules, file_to_path, path_aliases>>
          /\ outcome' = "running"
      BY <2>1 DEF LoadRoot, PathInv
    <3>3. Recorded' /\ Entered' /\ LoadedPathsKnown'
      BY <3>1, <3>2 DEF PathInv, Recorded, Entered, LoadedPathsKnown
    <3>4. Edges' = Edges
      BY <2>1, EdgesUnchanged DEF LoadRoot
    <3>5. ScannedPathsKnown'
      BY <3>1, <3>4 DEF ScannedPathsKnown, Edges
    <3>6. AliasesLead'
      <4>1. \A p, g : ~NamedFrom(p, g)
        BY <3>2 DEF NamedFrom
      <4> QED BY <3>2, <4>1 DEF PathInv, AliasesLead
    <3> QED BY <3>2, <3>3, <3>5, <3>6 DEF PathInv
  <2>2. CASE LoadRootFails \/ MissingModule \/ DetectCycle \/ UnreadableModule
    BY <2>2, PathInvFail DEF LoadRootFails, MissingModule, DetectCycle, UnreadableModule, Fail
  <2>3. CASE SkipImport
    <3>1. Scanning /\ stack' = Advanced /\ ~NamesModule(Top.file, CurrentImport)
          /\ UNCHANGED <<disk, file_to_path, path_aliases, modules, outcome>>
      BY <2>3 DEF SkipImport, NamesModule
    <3> QED BY <3>1, PathInvAdvance
  <2>4. CASE Revisit
    BY <2>4, PathInvRevisit
  <2>5. CASE Descend
    BY <2>5, PathInvDescend
  <2>6. CASE Finish
    BY <2>6, PathInvFinish
  <2>7. CASE UNCHANGED vars
    BY <2>7, PathInvFail DEF vars
  <2> QED BY <2>1, <2>2, <2>3, <2>4, <2>5, <2>6, <2>7 DEF Next
<1> QED BY <1>1, <1>2, TypeCorrect, SearchInvariant, PTL DEF Spec

\* A path no beginning of which is an alias is canonical.
LEMMA CanonicalPath ==
  ASSUME NEW path \in Seq(Names), NEW aliases,
         \A n \in 1..Len(path) : SubSeq(path, 1, n) \notin DOMAIN aliases
  PROVE  canonical_path(path, aliases) = path
BY DEF canonical_path, aliased_prefixes

\* Dereferencing at every level of a path comes to dereferencing once, when no
\* beginning of the path is an alias.
LEMMA TreeWithoutAliases ==
  ASSUME NEW leaf, NEW current, NEW aliases, NEW q \in Seq(Names),
         absolute_base(leaf, current) \in Seq(Names), tree_segments(leaf) \in Seq(Names),
         q = absolute_base(leaf, current) \o tree_segments(leaf),
         \A n \in 1..Len(q) - 1 : SubSeq(q, 1, n) \notin DOMAIN aliases
  PROVE  process_tree(leaf, current, aliases) = canonical_path(q, aliases)
<1> DEFINE a == absolute_base(leaf, current)
           t == tree_segments(leaf)
           N == Len(t)
           P(n) == SubSeq(q, 1, Len(a) + n)
           Is(f) == f = [n \in 0..N |-> canonical_path(IF n = 0 THEN a ELSE Append(f[n - 1], t[n]), aliases)]
           base[n \in 0..N] == canonical_path(IF n = 0 THEN a ELSE Append(base[n - 1], t[n]), aliases)
           e == [n \in 0..N |-> canonical_path(P(n), aliases)]
<1>1. /\ Len(a) \in Nat /\ N \in Nat /\ Len(q) = Len(a) + N
      /\ \A i \in 1..Len(a) : q[i] = a[i]
      /\ \A i \in 1..N : q[Len(a) + i] = t[i] /\ t[i] \in Names
  BY LenProperties, ConcatProperties, ElementOfSeq
<1>2. \A n \in 0..N : /\ P(n) \in Seq(Names) /\ Len(P(n)) = Len(a) + n
                      /\ \A i \in 1..Len(a) + n : P(n)[i] = q[i]
  <2> SUFFICES ASSUME NEW n \in 0..N
               PROVE  /\ P(n) \in Seq(Names) /\ Len(P(n)) = Len(a) + n
                      /\ \A i \in 1..Len(a) + n : P(n)[i] = q[i]
    OBVIOUS
  <2>1. Len(a) + n \in 0..Len(q)
    BY <1>1
  <2> QED BY <2>1, PrefixTypes
<1>3. P(0) = a /\ P(N) = q
  <2>1. Len(P(0)) = Len(a) /\ \A i \in 1..Len(a) : P(0)[i] = a[i]
    BY <1>1, <1>2
  <2>2. Len(P(N)) = Len(q) /\ \A i \in 1..Len(q) : P(N)[i] = q[i]
    BY <1>1, <1>2
  <2>3. P(0) \in Seq(Names) /\ P(N) \in Seq(Names) /\ a \in Seq(Names)
    BY <1>1, <1>2
  <2> HIDE DEF P, a
  <2> QED BY <2>1, <2>2, <2>3, SeqEqual
<1>4. ASSUME NEW n \in 1..N PROVE Append(P(n - 1), t[n]) = P(n)
  <2>1. n - 1 \in 0..N /\ n \in 0..N /\ Len(a) + (n - 1) + 1 = Len(a) + n /\ t[n] \in Names
    BY <1>1
  <2>2. /\ P(n - 1) \in Seq(Names) /\ Len(P(n - 1)) = Len(a) + (n - 1)
        /\ P(n) \in Seq(Names) /\ Len(P(n)) = Len(a) + n
    BY <1>2, <2>1
  <2> DEFINE s == Append(P(n - 1), t[n])
  <2>3. /\ s \in Seq(Names) /\ Len(s) = Len(a) + n /\ s[Len(a) + n] = t[n]
        /\ \A i \in 1..Len(a) + (n - 1) : s[i] = P(n - 1)[i]
    <3> HIDE DEF P, a
    <3> QED BY <2>1, <2>2, AppendFacts
  <2>4. \A i \in 1..Len(a) + n : s[i] = P(n)[i]
    <3> TAKE i \in 1..Len(a) + n
    <3>1. CASE i = Len(a) + n
      <4>1. s[i] = t[n]
        <5> HIDE DEF s, a, t
        <5> QED BY <3>1, <2>3
      <4>2. q[i] = t[n]
        <5> HIDE DEF N, a, t
        <5> QED BY <3>1, <1>1
      <4>3. P(n)[i] = q[i]
        BY <1>2, <2>1
      <4> HIDE DEF s, P
      <4> QED BY <4>1, <4>2, <4>3
    <3>2. CASE i \in 1..Len(a) + (n - 1)
      <4>1. s[i] = P(n - 1)[i]
        <5> HIDE DEF s, a, P
        <5> QED BY <3>2, <2>3
      <4>2. P(n - 1)[i] = q[i] /\ P(n)[i] = q[i]
        BY <3>2, <1>2, <2>1
      <4> HIDE DEF s, P
      <4> QED BY <4>1, <4>2
    <3>3. n \in Nat \ {0} /\ Len(a) \in Nat
      BY <1>1
    <3> HIDE DEF s, P, a, t, N
    <3> QED BY <3>1, <3>2, <3>3
  <2> HIDE DEF s, P, a
  <2> QED BY <2>2, <2>3, <2>4, SeqEqual DEF s
<1>5. ASSUME NEW n \in 0..N, n # N PROVE canonical_path(P(n), aliases) = P(n)
  <2>1. ASSUME NEW k \in 1..Len(P(n)) PROVE SubSeq(P(n), 1, k) \notin DOMAIN aliases
    <3>1. k \in 1..Len(q) - 1 /\ k \in 0..Len(q) /\ k \in 0..Len(P(n)) /\ k <= Len(q)
      BY <1>1, <1>2, <1>5
    <3>2. \A i \in 1..k : P(n)[i] = q[i]
      BY <1>1, <1>2, <3>1
    <3>3. P(n) \in Seq(Names)
      BY <1>2
    <3>4. SubSeq(P(n), 1, k) = SubSeq(q, 1, k)
      <4> HIDE DEF P, a
      <4> QED BY <3>1, <3>2, <3>3, SamePrefix
    <3> QED BY <3>1, <3>4
  <2>2. P(n) \in Seq(Names)
    BY <1>2
  <2> HIDE DEF P, a
  <2> QED BY <2>1, <2>2, CanonicalPath
<1>6. \A n \in 1..N : e[n] = canonical_path(Append(e[n - 1], t[n]), aliases)
  <2> TAKE n \in 1..N
  <2>1. n - 1 \in 0..N /\ n - 1 # N /\ n \in 0..N
    BY <1>1
  <2> HIDE DEF P, a
  <2> QED BY <2>1, <1>4, <1>5
<1>7. e[0] = canonical_path(a, aliases) /\ e[N] = canonical_path(q, aliases)
  <2>1. 0 \in 0..N /\ N \in 0..N
    BY <1>1
  <2> HIDE DEF P, a, N
  <2> QED BY <1>3, <2>1
<1>8. Is(e)
  <2>1. \A n \in 0..N : n = 0 \/ n \in 1..N
    BY <1>1
  <2>2. \A n \in 0..N : e[n] = canonical_path(IF n = 0 THEN a ELSE Append(e[n - 1], t[n]), aliases)
    <3> HIDE DEF e, a, N
    <3> QED BY <1>6, <1>7, <2>1
  <2> HIDE DEF a, N, P
  <2> QED BY <2>2
<1>9. Is(base)
  <2>1. \E f : f = [n \in 0..N |-> canonical_path(IF n = 0 THEN a ELSE Append(f[n - 1], t[n]), aliases)]
    <3> HIDE DEF e, a, t, N
    <3> QED BY <1>8
  <2> HIDE DEF a, t, N, e, P
  <2> QED BY <2>1, Zenon
<1>10. process_tree(leaf, current, aliases) = base[N]
  BY DEF process_tree
<1> HIDE DEF base
<1>11. /\ base[0] = canonical_path(a, aliases)
       /\ \A n \in 1..N : base[n] = canonical_path(Append(base[n - 1], t[n]), aliases)
  <2>1. 0 \in 0..N /\ \A n \in 1..N : n \in 0..N /\ n # 0
    BY <1>1
  <2> HIDE DEF a, N
  <2> QED BY <1>9, <2>1
<1> HIDE DEF e, a, P
<1> DEFINE T == {n \in Nat : n \in 0..N => base[n] = e[n]}
<1>12. Nat \subseteq T
  <2>1. 0 \in T
    BY <1>7, <1>11
  <2>2. ASSUME NEW n \in Nat, n \in T PROVE n + 1 \in T
    <3> SUFFICES ASSUME n + 1 \in 0..N PROVE base[n + 1] = e[n + 1]
      OBVIOUS
    <3>1. n \in 0..N /\ n + 1 \in 1..N /\ (n + 1) - 1 = n
      BY <1>1
    <3>2. base[n] = e[n]
      BY <2>2, <3>1
    <3> HIDE DEF N
    <3> QED BY <1>6, <1>11, <3>1, <3>2
  <2> HIDE DEF T
  <2> QED BY <2>1, <2>2, NatSetInduction
<1> QED BY <1>1, <1>7, <1>10, <1>12

\* What a path is appended to.
Start(path, root) ==
  CASE root = "Root" -> <<>> [] root = "Super" -> Front(path) [] OTHER -> path

\* The loader appends the segments to where the root of the import starts ...
LEMMA ChildPathIs ==
  ASSUME NEW path \in Seq(Names), NEW root, NEW segs \in Seq(Names)
  PROVE  /\ Start(path, root) \in Seq(Names)
         /\ child_module_path(path, root, segs) = Start(path, root) \o segs
<1>1. Front(path) \in Seq(Names)
  BY SubSeqProperties, LenProperties DEF Front
<1>2. <<>> \in Seq(Names) /\ <<>> \o segs = segs
  BY EmptySeq, ConcatEmptySeq
<1> QED BY <1>1, <1>2 DEF Start, child_module_path

\* ... and so does the name resolver, which takes the first of them for the
\* root when the import has no other.
LEMMA TreePathIs ==
  ASSUME NEW path \in Seq(Names), NEW root \in PathRoots, root # "Std", NEW segs \in Seq(Names),
         root = "Name" => segs # <<>>
  PROVE  LET leaf == [root |-> root, segs |-> segs]
         IN  /\ absolute_base(leaf, path) \in Seq(Names) /\ tree_segments(leaf) \in Seq(Names)
             /\ absolute_base(leaf, path) \o tree_segments(leaf) = Start(path, root) \o segs
<1> DEFINE leaf == [root |-> root, segs |-> segs]
<1>1. leaf.root = root /\ leaf.segs = segs
  OBVIOUS
<1> HIDE DEF leaf
<1>2. Front(path) \in Seq(Names) /\ <<>> \in Seq(Names)
  BY SubSeqProperties, LenProperties, EmptySeq DEF Front
<1>3. path = <<>> => Front(path) = <<>>
  <2>1. Len(path) \in Nat /\ (path = <<>> => Len(path) = 0)
    BY LenProperties, EmptySeq
  <2> QED BY <2>1, SubSeqEmpty DEF Front
<1>4. CASE root # "Name"
  <2>1. tree_segments(leaf) = segs
    BY <1>1, <1>4 DEF tree_segments
  <2>2. absolute_base(leaf, path) = Start(path, root)
    BY <1>1, <1>3, <1>4 DEF absolute_base, Start, PathRoots
  <2> QED BY <2>1, <2>2, <1>2 DEF Start, leaf
<1>5. CASE root = "Name"
  <2>1. Head(segs) \in Names /\ Tail(segs) \in Seq(Names) /\ segs \in Seq(Names) /\ segs # <<>>
    BY <1>5, HeadTailProperties
  <2>2. absolute_base(leaf, path) = Append(path, Head(segs)) /\ tree_segments(leaf) = Tail(segs)
        /\ Start(path, root) = path
    BY <1>1, <1>5 DEF absolute_base, tree_segments, Start
  <2>3. <<Head(segs)>> \in Seq(Names) /\ segs = <<Head(segs)>> \o Tail(segs)
    <3>1. Len(segs) \in Nat \ {0}
      BY <2>1, EmptySeq
    <3>2. segs = SubSeq(segs, 1, Len(segs)) /\ Tail(segs) = SubSeq(segs, 2, Len(segs))
      BY <2>1, SubSeqFull, TailIsSubSeq
    <3>3. SubSeq(segs, 1, Len(segs)) = <<segs[1]>> \o SubSeq(segs, 1 + 1, Len(segs))
      BY <3>1, SubSeqRecursiveFirst
    <3> QED BY <2>1, <3>1, <3>2, <3>3
  <2>4. Append(path, Head(segs)) = path \o <<Head(segs)>> /\ Append(path, Head(segs)) \in Seq(Names)
    BY <2>1, AppendIsConcat, AppendProperties
  <2>5. (path \o <<Head(segs)>>) \o Tail(segs) = path \o (<<Head(segs)>> \o Tail(segs))
    BY <2>1, <2>3, ConcatAssociative
  <2> QED BY <2>1, <2>2, <2>3, <2>4, <2>5 DEF leaf
<1> QED BY <1>4, <1>5

\* The segments of an import that leads to a file, and those of the file.
LEMMA SegmentsFound ==
  ASSUME TypeOK, NEW f \in Files, NEW imp \in ImportDecl, NamesModule(f, imp)
  PROVE  /\ imp.root \in PathRoots /\ imp.root # "Std" /\ imp.item \in BOOLEAN
         /\ base_segs(imp) \in Seq(Names) /\ (imp.root = "Name" => base_segs(imp) # <<>>)
         /\ imp.item => /\ imp.segs = Append(base_segs(imp), Last(imp.segs))
                        /\ Last(imp.segs) \in Names
         /\ mod_segs(f, imp) # <<>>
         /\ Len(mod_segs(f, imp)) >= Len(base_segs(imp)) =>
              mod_segs(f, imp) = base_segs(imp) \/ (imp.item /\ mod_segs(f, imp) = imp.segs)
<1> DEFINE S == candidates(search_dir(f, imp.root), imp.segs)
           K == Max(S)
<1>1. /\ imp.root \in PathRoots /\ imp.segs \in Seq(Names) /\ imp.item \in BOOLEAN
      /\ imp.item => imp.segs # <<>>
      /\ imp.root = "Name" => Len(imp.segs) > IF imp.item THEN 1 ELSE 0
      /\ imp.root # "Std" /\ imp.segs # <<>>
  BY DEF ImportDecl, NamesModule, NoModule
<1>2. Len(imp.segs) \in Nat \ {0}
  BY <1>1, EmptySeq
<1>3. S \subseteq 1..Len(imp.segs) /\ S # {}
  BY DEF candidates, NamesModule, Dangling
<1>4. K \in 1..Len(imp.segs)
  <2> HIDE DEF S
  <2> QED BY <1>2, <1>3, NonEmptyHasMax
<1>5. mod_segs(f, imp) = SubSeq(imp.segs, 1, K)
  BY DEF mod_segs, find_module_file
<1> HIDE DEF K
<1>6. /\ Front(imp.segs) \in Seq(Names) /\ Len(Front(imp.segs)) = Len(imp.segs) - 1
      /\ \A i \in 1..(Len(imp.segs) - 1) : Front(imp.segs)[i] = imp.segs[i]
  BY <1>1, FrontTypes
<1>7. Len(SubSeq(imp.segs, 1, K)) = K /\ SubSeq(imp.segs, 1, K) \in Seq(Names)
  BY <1>1, <1>2, <1>4, PrefixTypes
<1>8. base_segs(imp) \in Seq(Names) /\ Len(base_segs(imp)) = Len(imp.segs) - IF imp.item THEN 1 ELSE 0
  BY <1>1, <1>2, <1>6 DEF base_segs
<1>9. imp.root = "Name" => base_segs(imp) # <<>>
  BY <1>1, <1>2, <1>8, EmptySeq
<1>10. mod_segs(f, imp) # <<>>
  BY <1>4, <1>5, <1>7, EmptySeq
<1>11. Last(imp.segs) \in Names /\ Last(imp.segs) = imp.segs[Len(imp.segs)]
  BY <1>1, LastFacts
<1>12. imp.segs = Append(Front(imp.segs), Last(imp.segs))
  <2> DEFINE t == Append(Front(imp.segs), Last(imp.segs))
  <2>1. /\ t \in Seq(Names) /\ Len(t) = Len(imp.segs) /\ t[Len(imp.segs)] = Last(imp.segs)
        /\ \A i \in 1..(Len(imp.segs) - 1) : t[i] = imp.segs[i]
    BY <1>1, <1>11, ReplaceFacts
  <2>2. \A i \in 1..Len(imp.segs) : i = Len(imp.segs) \/ i \in 1..(Len(imp.segs) - 1)
    BY <1>2
  <2> HIDE DEF t
  <2>3. imp.segs = t
    BY <1>1, <1>11, <2>1, <2>2, SeqEqual
  <2> QED BY <2>3 DEF t
<1>13. ASSUME K >= Len(base_segs(imp))
       PROVE  mod_segs(f, imp) = base_segs(imp) \/ (imp.item /\ mod_segs(f, imp) = imp.segs)
  <2>1. SubSeq(imp.segs, 1, Len(imp.segs)) = imp.segs
    BY <1>1, SubSeqFull
  <2>2. CASE K = Len(imp.segs)
    BY <1>1, <1>5, <2>1, <2>2 DEF base_segs
  <2>3. CASE K # Len(imp.segs)
    <3>1. imp.item /\ K = Len(imp.segs) - 1
      <4>1. Len(imp.segs) \in Nat /\ K \in Nat /\ K < Len(imp.segs)
        BY <1>2, <1>4, <2>3
      <4>2. Len(base_segs(imp)) = IF imp.item THEN Len(imp.segs) - 1 ELSE Len(imp.segs)
        BY <1>1, <1>2, <1>8
      <4> QED BY <1>13, <4>1, <4>2
    <3> QED BY <1>5, <3>1 DEF base_segs, Front
  <2> QED BY <2>2, <2>3
<1> QED BY <1>1, <1>5, <1>7, <1>8, <1>9, <1>10, <1>11, <1>12, <1>13 DEF base_segs

\* The path of an import of a loaded module, with its aliases dereferenced, is
\* the one the file it leads to is recorded under.
LEMMA AliasOfFile ==
  ASSUME TypeOK, SearchInv, PathInv, outcome = "ok", NEW f \in Files, NEW p \in Seq(Names), p # <<>>,
         Known(file_to_path, path_aliases, f, p), ~GoesThroughAlias(p), CalledFiles(p) = {f}
  PROVE  canonical_path(p, path_aliases) = file_to_path[f]
<1>1. Len(p) \in Nat \ {0}
  BY EmptySeq
<1>2. SubSeq(p, 1, Len(p)) = p
  BY SubSeqFull
<1>3. \A n \in 1..Len(p) : n \in 1..Len(p) - 1 \/ n = Len(p)
  BY <1>1
<1>4. CASE p \in DOMAIN path_aliases
  <2>1. PICK g \in DOMAIN file_to_path : path_aliases[p] = file_to_path[g] /\ NamedFrom(p, g)
    BY <1>4 DEF PathInv, AliasesLead
  <2>2. stack = <<>> /\ Len(stack) = 0
    BY EmptySeq DEF PathInv
  <2>3. PICK n \in 1..Len(modules), k \in Nat :
          <<modules[n].file, k, g>> \in Edges /\ EdgePath(modules[n].file, modules[n].path, k) = p
    BY <2>1, <2>2 DEF NamedFrom
  <2>4. g \in CalledFiles(p)
    <3> DEFINE m == modules[n]
               imp == Imports(m.file)[k]
    <3>1. imp \in FileImports(m) /\ ImportPath(m, imp) = p /\ g = child_file(m.file, imp)
      BY <2>3 DEF Edges, FileImports, ImportPath, EdgePath
    <3>2. m \in {modules[i] : i \in 1..Len(modules)}
      OBVIOUS
    <3> HIDE DEF m, imp
    <3> QED BY <3>1, <3>2 DEF CalledFiles
  <2>5. path_aliases[p] = file_to_path[f] /\ path_aliases[p] \in Seq(Names)
    BY <1>4, <2>1, <2>4 DEF TypeOK
  <2>6. aliased_prefixes(p, path_aliases) = {Len(p)}
    <3>1. Len(p) \in 1..Len(p)
      BY <1>1
    <3>2. \A d \in 1..Len(p) : SubSeq(p, 1, d) \in DOMAIN path_aliases <=> d = Len(p)
      BY <1>2, <1>3, <1>4 DEF GoesThroughAlias
    <3> QED BY <3>1, <3>2 DEF aliased_prefixes
  <2>7. Max({Len(p)}) = Len(p)
    <3>1. {Len(p)} \subseteq 1..Len(p) /\ {Len(p)} # {} /\ Len(p) \in Nat
      BY <1>1
    <3>2. Max({Len(p)}) \in {Len(p)}
      BY <3>1, NonEmptyHasMax
    <3> QED BY <3>2
  <2>8. SubSeq(p, Len(p) + 1, Len(p)) = <<>>
    BY <1>1, SubSeqEmpty
  <2>9. path_aliases[p] \o <<>> = path_aliases[p]
    BY <2>5, ConcatEmptySeq
  <2> QED BY <1>2, <2>5, <2>6, <2>7, <2>8, <2>9 DEF canonical_path
<1>5. CASE p \notin DOMAIN path_aliases
  <2>1. \A n \in 1..Len(p) : SubSeq(p, 1, n) \notin DOMAIN path_aliases
    BY <1>2, <1>3, <1>5 DEF GoesThroughAlias
  <2>2. canonical_path(p, path_aliases) = p
    BY <2>1, CanonicalPath
  <2> QED BY <1>5, <2>2 DEF Known
<1> QED BY <1>4, <1>5

\* Once a program is loaded, the path the name resolver computes for an import
\* is that of the module made of the file the loader found, whatever the file
\* was called first, however many directories, links and diamonds there are:
\* with the exceptions that the property names.
THEOREM ImportsReach == Spec => []ImportsReachTheirFiles
<1>1. TypeOK /\ SearchInv /\ PathInv => ImportsReachTheirFiles
  <2> SUFFICES ASSUME TypeOK, SearchInv, PathInv, outcome = "ok",
                      NEW n \in 1..Len(modules), NEW m, m = modules[n], NEW imp \in FileImports(m),
                      NEW f, f = child_file(m.file, imp), NEW p, p = ImportPath(m, imp),
                      ~GoesThroughAlias(p), CalledFiles(p) = {f}, IsWhole(m, imp),
                      is_handle(m, imp) <=> IsModuleFile(m, imp)
               PROVE  resolved_module(m, imp) = file_to_path[f]
    BY DEF ImportsReachTheirFiles
  <2>1. m.file \in Files /\ m.path \in Seq(Names)
    <3>1. m \in LoadedModule
      BY ElementOfSeq DEF TypeOK
    <3> QED BY <3>1 DEF LoadedModule
  <2>2. PICK i \in 1..Len(Imports(m.file)) : imp = Imports(m.file)[i] /\ NamesModule(m.file, imp)
    BY DEF FileImports
  <2>3. imp \in ImportDecl /\ i \in Nat
    BY <2>1, <2>2, DiskTypes, ElementOfSeq
  <2>4. f \in Files /\ mod_segs(m.file, imp) \in Seq(Names)
    BY <2>1, <2>2, <2>3, ChildTypes
  <2>5. <<m.file, i, f>> \in Edges /\ EdgePath(m.file, m.path, i) = p
    BY <2>1, <2>2, <2>3, <2>4 DEF Edges, EdgePath, ImportPath
  <2>6. Known(file_to_path, path_aliases, f, p)
    BY <2>3, <2>4, <2>5 DEF PathInv, LoadedPathsKnown
  <2> DEFINE A == Start(m.path, imp.root)
             b == base_segs(imp)
             q == A \o b
             leaf == [root |-> imp.root, segs |-> b]
  <2>7. /\ imp.root \in PathRoots /\ imp.root # "Std" /\ b \in Seq(Names)
        /\ (imp.root = "Name" => b # <<>>) /\ mod_segs(m.file, imp) # <<>>
    BY <2>1, <2>2, <2>3, SegmentsFound
  <2>8. A \in Seq(Names) /\ p = A \o mod_segs(m.file, imp)
    BY <2>1, <2>4, ChildPathIs DEF ImportPath
  <2>9. q \in Seq(Names) /\ p \in Seq(Names) /\ p # <<>>
    BY <2>4, <2>7, <2>8, ConcatProperties, ConcatEqualIffEmpty
  <2>10. canonical_path(p, path_aliases) = file_to_path[f]
    BY <2>4, <2>6, <2>9, AliasOfFile
  <2>11. /\ absolute_base(leaf, m.path) \in Seq(Names) /\ tree_segments(leaf) \in Seq(Names)
         /\ q = absolute_base(leaf, m.path) \o tree_segments(leaf)
    BY <2>1, <2>7, TreePathIs
  <2>12. ASSUME \A k \in 1..Len(q) - 1 : SubSeq(q, 1, k) \notin DOMAIN path_aliases
         PROVE  resolved_base(m, imp) = canonical_path(q, path_aliases)
    <3>1. process_tree(leaf, m.path, path_aliases) = canonical_path(q, path_aliases)
      <4> HIDE DEF q, leaf
      <4> QED BY <2>9, <2>11, <2>12, TreeWithoutAliases
    <3> QED BY <3>1 DEF resolved_base
  <2>13. CASE ~IsModuleFile(m, imp)
    <3>1. mod_segs(m.file, imp) = b
      BY <2>1, <2>2, <2>3, <2>13, SegmentsFound DEF IsWhole, IsModuleFile
    <3>2. p = q
      BY <2>8, <3>1
    <3> QED BY <2>10, <2>12, <2>13, <3>2 DEF GoesThroughAlias, resolved_module
  <2>14. CASE IsModuleFile(m, imp)
    <3> DEFINE x == Last(imp.segs)
    <3>1. mod_segs(m.file, imp) = imp.segs /\ imp.segs = Append(b, x) /\ x \in Names
      BY <2>1, <2>2, <2>3, <2>14, SegmentsFound DEF IsModuleFile
    <3>2. p = Append(q, x)
      <4>1. <<x>> \in Seq(Names) /\ Append(b, x) = b \o <<x>> /\ Append(q, x) = q \o <<x>>
        BY <2>7, <2>9, <3>1, AppendIsConcat
      <4>2. (A \o b) \o <<x>> = A \o (b \o <<x>>)
        <5> DEFINE u == <<x>>
        <5>1. A \in Seq(Names) /\ b \in Seq(Names) /\ u \in Seq(Names)
          BY <2>7, <2>8, <4>1
        <5> HIDE DEF u, A, b
        <5>2. (A \o b) \o u = A \o (b \o u)
          BY <5>1, ConcatAssociative
        <5> QED BY <5>2 DEF u
      <4> QED BY <2>8, <3>1, <4>1, <4>2
    <3> HIDE DEF x, q
    <3>3. Len(p) = Len(q) + 1 /\ Len(q) \in Nat /\ \A k \in 1..Len(q) : p[k] = q[k]
      BY <2>9, <3>1, <3>2, AppendFacts, LenProperties
    <3>4. \A k \in 1..Len(q) : SubSeq(q, 1, k) \notin DOMAIN path_aliases
      <4> TAKE k \in 1..Len(q)
      <4>1. k \in 0..Len(q) /\ k <= Len(p) /\ k \in 1..Len(p) - 1 /\ \A j \in 1..k : p[j] = q[j]
        BY <3>3
      <4>2. SubSeq(p, 1, k) = SubSeq(q, 1, k)
        BY <2>9, <4>1, SamePrefix
      <4> QED BY <4>1, <4>2 DEF GoesThroughAlias
    <3>5. canonical_path(q, path_aliases) = q
      BY <2>9, <3>4, CanonicalPath
    <3>6. resolved_base(m, imp) = q
      <4>1. \A k \in 1..Len(q) - 1 : k \in 1..Len(q)
        BY <3>3
      <4> QED BY <2>12, <3>4, <3>5, <4>1
    <3>7. resolved_module(m, imp) = p /\ p \in Paths
      BY <2>14, <3>2, <3>6 DEF resolved_module, is_handle, x
    <3>8. PICK j \in 1..Len(modules) : modules[j].path = p
      BY <3>7 DEF Paths
    <3>9. modules[j].file \in Loaded /\ file_to_path[modules[j].file] = p
      BY <3>8 DEF Loaded, PathInv, Recorded
    <3>10. modules[j].file \in CalledFiles(p)
      BY <3>9 DEF CalledFiles
    <3> QED BY <3>7, <3>9, <3>10
  <2> QED BY <2>13, <2>14
<1> QED BY <1>1, TypeCorrect, SearchInvariant, PathInvariant, PTL
==============================================================================
