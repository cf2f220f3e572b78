------------------------------ MODULE LoadOrder ------------------------------
(***************************************************************************)
(* What loading a program promises to the passes behind it, without the    *)
(* depth-first search that delivers it.  The import graph is fixed; files  *)
(* are emitted one at a time, each after everything it imports, until the  *)
(* root itself is emitted, or loading is rejected for a reason that really *)
(* exists in the graph.  ModuleLoader implements this specification.       *)
(***************************************************************************)
EXTENDS Sequences, Naturals

VARIABLES
  graph,     \* [root, exists, deps, broken, dangling, superRoot]; never changes
  emitted,   \* the files emitted so far, in order
  outcome    \* "start", "running", "ok", or the reason of the rejection

vars == <<graph, emitted, outcome>>

Emitted == {emitted[i] : i \in 1..Len(emitted)}

Init ==
  /\ emitted = <<>>
  /\ outcome = "start"

Begin ==
  /\ outcome = "start"
  /\ outcome' = "running"
  /\ UNCHANGED <<graph, emitted>>

Emit(f) ==
  /\ outcome = "running"
  /\ f \notin Emitted
  /\ f \notin graph.broken
  /\ f \notin graph.dangling
  /\ graph.deps[f] \subseteq Emitted
  /\ emitted' = Append(emitted, f)
  /\ outcome' = IF f = graph.root THEN "ok" ELSE "running"
  /\ UNCHANGED graph

\* A set of files each of which imports a file of the set holds a cycle.
Cyclic(C) == C # {} /\ \A f \in C : graph.deps[f] \cap C # {}

Justified(reason) ==
  \/ reason = "no_root"    /\ ~graph.exists
  \/ reason = "unreadable" /\ graph.broken # {}
  \/ reason = "super"      /\ graph.superRoot
  \/ reason = "missing"    /\ graph.dangling # {}
  \/ reason = "cycle"      /\ \E C \in SUBSET (DOMAIN graph.deps \ Emitted) : Cyclic(C)

Reject(reason) ==
  /\ outcome \in {"start", "running"}
  /\ Justified(reason)
  /\ outcome' = reason
  /\ UNCHANGED <<graph, emitted>>

Next ==
  \/ Begin
  \/ \E f \in DOMAIN graph.deps : Emit(f)
  \/ \E reason \in {"no_root", "unreadable", "super", "missing", "cycle"} : Reject(reason)

Spec == Init /\ [][Next]_vars
==============================================================================
