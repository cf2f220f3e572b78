--------------------------- MODULE ValueSemantics ---------------------------
(***************************************************************************)
(* What ADR-0007 promises of variables, with no word about where values    *)
(* are kept: every variable has a value of its own, so that a step of the  *)
(* program brings in one variable or changes one, and may drop others that *)
(* go out of scope.                                                        *)
(***************************************************************************)
CONSTANT Variables

VARIABLE value  \* the variables in use, and the value of each

Unaffected(vs) ==
  \A v \in (DOMAIN value \cap DOMAIN value') \ vs : value'[v] = value[v]

Init == DOMAIN value = {}

Declare(v) ==
  /\ v \notin DOMAIN value
  /\ v \in DOMAIN value' /\ DOMAIN value' \subseteq DOMAIN value \cup {v}
  /\ Unaffected({})

Change(v) ==
  /\ v \in DOMAIN value
  /\ DOMAIN value' = DOMAIN value
  /\ Unaffected({v})

Drop ==
  /\ DOMAIN value' \subseteq DOMAIN value
  /\ Unaffected({})

Next == Drop \/ \E v \in Variables : Declare(v) \/ Change(v)

Spec == Init /\ [][Next]_value
==============================================================================
