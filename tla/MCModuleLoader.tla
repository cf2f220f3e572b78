--------------------------- MODULE MCModuleLoader ---------------------------
(***************************************************************************)
(* Small file systems for the module loader: a file beside a directory of  *)
(* its name, a symbolic link, and a diamond.  Every file declares imports  *)
(* from a menu of its own, few enough to enumerate and such that cycles    *)
(* (of one file too), dangling imports, unreadable files, `super::` in the *)
(* root, two paths to one file, and modules imported by name all occur.    *)
(***************************************************************************)
EXTENDS ModuleLoader, TLC

MCNames == {"main", "a", "b", "c", "x", "y"}
MCRootArg == <<"main">>

Main == <<"main">>
A == <<"a">>
B == <<"b">>
C == <<"c">>
AB == <<"a", "b">>

CX == <<"c", "x">>

\* `path::*`, and `path` for what its last segment names.
Import(r, s) == [root |-> r, segs |-> s, item |-> FALSE]
Item(r, s) == [root |-> r, segs |-> s, item |-> TRUE]
UpTo(menu, n) == BoundedSeq(menu, n)

Entry(paths) == [p \in paths |-> p]
Texts(main, a, b, ab) ==
  {(Main :> m) @@ (A :> x) @@ (B :> y) @@ (AB :> z) : m \in main, x \in a, y \in b, z \in ab}

\* Four files; a/b is reached by its own path only from main and from b.
TreeDisks ==
  {[entry |-> Entry({Main, A, B, AB}), source |-> t] :
     t \in Texts(
       UpTo({Import("Name", A), Import("Name", B), Import("Self", AB)}, 2)
         \cup {<<Import("Root", <<>>), Import("Name", A)>>,
               <<Import("Name", <<"a", "b", "x">>), Import("Name", B), Import("Name", A)>>,
               <<Import("Super", B)>>, <<Import("Name", <<"x">>)>>, Unreadable},
       UpTo({Import("Name", B), Import("Root", B), Import("Root", AB)}, 2)
         \cup {<<Import("Name", A)>>, Unreadable},
       UpTo({Import("Root", A), Import("Super", AB)}, 1) \cup {Unreadable},
       UpTo({Import("Super", B), Import("Std", <<"x">>), Import("Self", <<"b">>)}, 1)
         \cup {<<Import("Name", <<"x">>)>>})}

\* c is a symbolic link to b: the same physical file under two names.
LinkDisks ==
  {[entry |-> Entry({Main, A, B}) @@ (C :> B), source |-> (Main :> m) @@ (A :> x) @@ (B :> y)] :
     m \in UpTo({Import("Name", A), Import("Name", B), Import("Name", C)}, 3),
     x \in UpTo({Import("Name", C), Import("Root", B)}, 2),
     y \in UpTo({Import("Root", A), Import("Super", C), Import("Std", <<>>)}, 1)}

\* a and b both import c, or c/x, or the item y of either.
DiamondDisks ==
  {[entry |-> Entry({Main, A, B, C, CX}),
    source |-> (Main :> m) @@ (A :> x) @@ (B :> y) @@ (C :> z) @@ (CX :> <<>>)] :
     m \in {<<Import("Name", A), Import("Name", B)>>, <<Item("Self", B), Item("Root", A)>>},
     x \in UpTo({Import("Name", C), Item("Name", CX), Item("Name", <<"c", "y">>)}, 2),
     y \in UpTo({Import("Name", C), Item("Name", CX), Import("Name", CX), Item("Root", <<"c", "x", "y">>)}, 2),
     z \in {<<>>, <<Import("Name", CX)>>, <<Import("Root", CX)>>}}

\* b imports c/x as a part of c, which was loaded for a.
NestedDisks ==
  {[entry |-> Entry({Main, A, B, C, CX}),
    source |-> (Main :> <<Import("Name", A), Import("Name", B)>>) @@ (A :> <<Import("Name", C)>>)
                 @@ (B :> <<Import("Name", C), Import("Name", CX)>>) @@ (C :> <<>>) @@ (CX :> <<>>)]}

\* The file named on the command line does not exist.
NoRootDisk == [entry |-> Entry({A}), source |-> (A :> <<>>)]

MCDisks == TreeDisks \cup LinkDisks \cup DiamondDisks \cup {NoRootDisk}
==============================================================================
