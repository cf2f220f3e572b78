---------------------------- MODULE ModulePaths -----------------------------
(***************************************************************************)
(* How the name resolver computes the path of a module from an import or   *)
(* export (src/metel-interpreter/src/name_resolver.rs).  `leaf` holds the  *)
(* root and the segments before the name, glob or group at its end.        *)
(***************************************************************************)
EXTENDS Naturals, Sequences, SequencesExt

PathRoots == {"Std", "Root", "Super", "Self", "Name"}

aliased_prefixes(path, aliases) ==
  {n \in 1..Len(path) : SubSeq(path, 1, n) \in DOMAIN aliases}

\* The longest aliased prefix is replaced, once.
canonical_path(path, aliases) ==
  LET prefixes == aliased_prefixes(path, aliases)
  IN  IF prefixes = {} THEN path
      ELSE aliases[SubSeq(path, 1, Max(prefixes))] \o SubSeq(path, Max(prefixes) + 1, Len(path))

absolute_base(leaf, current) ==
  CASE leaf.root = "Root"  -> <<>>
    [] leaf.root = "Std"   -> <<"std">>
    [] leaf.root = "Self"  -> current
    [] leaf.root = "Super" -> IF current = <<>> THEN <<>> ELSE Front(current)
    [] leaf.root = "Name"  -> Append(current, Head(leaf.segs))

tree_segments(leaf) == IF leaf.root = "Name" THEN Tail(leaf.segs) ELSE leaf.segs

\* Every level of the tree dereferences aliases again.
process_tree(leaf, current, aliases) ==
  LET segs == tree_segments(leaf)
      base[n \in 0..Len(segs)] ==
        canonical_path(IF n = 0 THEN absolute_base(leaf, current) ELSE Append(base[n - 1], segs[n]), aliases)
  IN  base[Len(segs)]
=============================================================================
