----------------------------- MODULE MCLinking -----------------------------
(***************************************************************************)
(* Small programs for the linker: a helper `h`, a facade `f` over it and   *)
(* the root, in the order the loader gives them.  The names x and y are    *)
(* what they declare, import, rename and re-export.                        *)
(***************************************************************************)
EXTENDS Linking

MCNames == {"h", "f", "x", "y", "T", "T::m", "print", "main", "std", "core", "gone"} \cup CoreTypes
MCCoreFuns == {"print"}

H == <<"h">>
F == <<"f">>
Root == <<>>

Item(root, segs, name) == [root |-> root, segs |-> segs, name |-> name, as |-> name]
Renamed(root, segs, name, as) == [root |-> root, segs |-> segs, name |-> name, as |-> as]
Star(root, segs) == Item(root, segs, Glob)

\* A module declares what the record says, and nothing else.
Mod(path, record) ==
  record @@ [path |-> path, imports |-> <<>>, exports |-> <<>>, pub |-> {}, funs |-> {},
             types |-> {}, lets |-> {}, methods |-> {}, generic |-> {}, bare |-> {}, nested |-> {},
             early |-> {}, uses |-> {}]

\* The programs the loader makes of a helper, a facade and a root.  It puts
\* them in this order under these paths when the root imports the helper
\* first, or the facade does, by its path from the root.  A path relative to
\* the facade is then an alias.  A facade that is not imported is not loaded.
Loads(leaf, file) == Head(Append(leaf.segs, leaf.name)) = file

Loadable(f, r) ==
  /\ \E i \in 1..Len(r.imports) : Loads(r.imports[i], "f")
  /\ \/ Loads(r.imports[1], "h")
     \/ f.imports # <<>> /\ f.imports[1].root = "Root" /\ Loads(f.imports[1], "h")

Aliases(f) ==
  IF \E i \in 1..Len(f.imports) : f.imports[i].root = "Name" /\ Loads(f.imports[i], "h")
  THEN (<<"f", "h">> :> H) ELSE <<>>

Graph(helpers, facades, roots) ==
  {[modules |-> <<h, f, r>>, path_aliases |-> Aliases(f)] : <<h, f, r>> \in
     {t \in helpers \X facades \X roots : Loadable(t[2], t[3])}}
  \cup
  {[modules |-> <<h, r>>, path_aliases |-> <<>>] : <<h, r>> \in
     {t \in helpers \X roots : \A i \in 1..Len(t[2].imports) : Loads(t[2].imports[i], "h")}}

PlainHelper == Mod(H, [funs |-> {"x", "y"}, pub |-> {"x", "y"}])
\* Helpers: all public; y private, with a function nested under its name;
\* a let for x; a shadowed builtin; a type; a public function without an annotation.
Helpers ==
  {PlainHelper,
   Mod(H, [funs |-> {"x", "y"}, pub |-> {"x"}, nested |-> {"x"}]),
   Mod(H, [funs |-> {"y", "print"}, pub |-> {"y", "print"}, lets |-> {"x"}]),
   Mod(H, [funs |-> {"x"}, types |-> {"T"}, methods |-> {"T::m"}, pub |-> {"x", "T"}]),
   Mod(H, [funs |-> {"x", "y"}, pub |-> {"x"}, bare |-> {"x", "y"}])}

\* Facades: the same functions of their own or none, and every way to
\* import and re-export the ones of the helper.
Facades ==
  {Mod(F, own @@ [imports |-> i, exports |-> e, uses |-> {"x"}]) :
     own \in {[funs |-> {"y"}], [funs |-> {"x"}, pub |-> {"x"}, lets |-> {"y"}]},
     i \in {<<>>, <<Item("Root", H, "x")>>, <<Renamed("Name", H, "x", "y")>>, <<Star("Root", H)>>,
            <<Item("Root", H, "x"), Renamed("Name", H, "x", "y")>>},
     e \in {<<>>, <<Renamed("Root", H, "x", "y")>>,
            <<Star("Name", H), Renamed("Root", H, "y", "x")>>}}

Roots ==
  {Mod(Root, [funs |-> {"main", "x"}, uses |-> {"x", "y", "print"}, imports |-> i]) :
     i \in {<<Star("Self", F)>>, <<Renamed("Name", F, "x", "y")>>, <<Item("Root", F, "y")>>}}
  \cup
  {Mod(Root, own @@ [imports |-> i]) :
     own \in {[funs |-> {"main"}], [funs |-> {"main"}, uses |-> {"x"}]},
     i \in BoundedSeq({Item("Name", F, "x"), Renamed("Root", F, "y", "x"), Star("Name", F),
                       Star("Root", H), Renamed("Name", H, "y", "x"), Renamed("Name", H, "T", "y")}, 2)}
  \cup
  {Mod(Root, [lets |-> {"main"}, imports |-> <<Star("Self", F)>>]),
   Mod(Root, [funs |-> {"y"}, imports |-> <<Renamed("Name", F, "x", "main"), Item("Std", <<"core">>, "print")>>]),
   Mod(Root, [funs |-> {"y"}, imports |-> <<Item("Name", F, "x"), Star("Name", H)>>]),
   Mod(Root, [funs |-> {"y"}, imports |-> <<Star("Self", F), Star("Self", Root), Renamed("Std", <<"core">>, "print", "main")>>])}

\* Modules in which a name has more than one meaning: a nested function, a
\* handle, a builtin or an import without a scheme is called like an import.
MixedHelpers ==
  {Mod(H, [funs |-> {"y", "print"}, pub |-> {"y", "print"}]),
   Mod(H, [funs |-> {"h", "x", "y"}, pub |-> {"h", "x", "y"}])}
MixedFacades ==
  {Mod(F, own @@ [imports |-> i, exports |-> e]) :
     own \in {[funs |-> {"y"}, pub |-> {"y"}], [nested |-> {"x"}], [funs |-> {"h", "print"}, pub |-> {"h", "print"}]},
     i \in {<<>>, <<Star("Root", H)>>, <<Renamed("Root", H, "print", "x")>>},
     e \in {<<>>, <<Renamed("Root", H, "y", "print")>>, <<Renamed("Root", H, "y", "x")>>}}
MixedRoots ==
  LET imports == {Item("Name", F, "x"), Star("Root", H), Renamed("Name", F, "print", "y"),
                  Renamed("Name", H, "print", "y"), Item("Root", <<>>, "h"), Item("Root", F, "y")}
  IN  {Mod(Root, own @@ [funs |-> {"main"}, imports |-> i]) :
         own \in {[nested |-> {}], [nested |-> {"x"}]},
         i \in {<<l, Star("Name", F)>> : l \in imports} \cup {<<l>> : l \in imports}}

\* Generic functions, called before and after they are declared, with and
\* without an import or a builtin of their name; lets beside an import.
GenericFacades ==
  {Mod(F, own @@ [funs |-> {"x", "y", "print"}, pub |-> {"x"}, generic |-> g, imports |-> i]) :
     g \in {{"x"}, {"x", "y"}, {"print"}},
     own \in {[uses |-> {"x"}], [early |-> {"x"}], [early |-> {"y"}, uses |-> {"y", "gone"}]},
     i \in {<<>>, <<Item("Root", H, "x")>>, <<Star("Root", H)>>}}
  \cup
  {Mod(F, [funs |-> {"y"}, pub |-> {"y"}, lets |-> {"x"}, uses |-> {"x"}, imports |-> <<Item("Root", H, "x")>>])}
GenericRoots ==
  {Mod(Root, [funs |-> {"main"}, uses |-> {"x"}, imports |-> <<l, Item("Name", F, n)>>]) :
     l \in {Renamed("Root", H, "x", "y"), Star("Root", H)}, n \in {"x", "y"}}

MCPrograms ==
  Graph(Helpers, Facades, Roots) \cup Graph(MixedHelpers, MixedFacades, MixedRoots)
    \cup Graph({PlainHelper}, GenericFacades, GenericRoots)

------------------------------------------------------------------------------
(***************************************************************************)
(* The programs that contradict a document.                                *)
(***************************************************************************)
Main(imports, uses) == {Mod(Root, [funs |-> {"main"}, imports |-> imports, uses |-> uses])}

\* The facade renames what it re-exports.
RenamingFacade == Graph({PlainHelper},
  {Mod(F, [imports |-> <<Item("Root", H, "x")>>, exports |-> <<Renamed("Root", H, "x", "y")>>])},
  Main(<<Item("Name", F, "y")>>, {"y"}))

\* The facade has a private function under the name it re-exports.
CoveringFacade == Graph({PlainHelper},
  {Mod(F, [funs |-> {"y"}, imports |-> <<Item("Root", H, "x")>>,
           exports |-> <<Renamed("Root", H, "x", "y")>>])},
  Main(<<Item("Name", F, "y")>>, {}))

\* The helper has a private type; a public type has a method.
PrivateType ==
  Graph({Mod(H, [types |-> {"T"}, funs |-> {"x"}, pub |-> {"x"}])}, {},
        Main(<<Item("Name", H, "x")>>, {}))
PublicMethod ==
  Graph({Mod(H, [types |-> {"T"}, pub |-> {"T"}, methods |-> {"T::m"}])}, {},
        Main(<<Item("Name", H, "T")>>, {}))

\* A function in the body of a later one has the name of a public one.
NestedName ==
  Graph({Mod(H, [funs |-> {"x", "y"}, pub |-> {"x"}, nested |-> {"x"}])}, {},
        Main(<<Item("Name", H, "x")>>, {}))

\* Two globs give the name y, and the root mentions x only.
UnusedConflict ==
  Graph({PlainHelper}, {Mod(F, [funs |-> {"y"}, pub |-> {"y"}])},
        Main(<<Star("Name", H), Star("Name", F)>>, {"x"}))

\* An import from inside of a file that is no directory.
GoneModule == Graph({PlainHelper}, {}, Main(<<Item("Name", <<"h", "gone">>, "x")>>, {}))

\* A module is imported as a handle.
HandleImport == Graph({PlainHelper}, {}, Main(<<Item("Root", <<>>, "h")>>, {}))

\* A function uses a top-level let.
UsedLet ==
  Graph({Mod(H, [funs |-> {"y"}, pub |-> {"y"}, lets |-> {"x"}, uses |-> {"x"}])}, {},
        Main(<<Item("Name", H, "y")>>, {"y"}))

\* A user's print is imported explicitly.
UserPrint ==
  Graph({Mod(H, [funs |-> {"print"}, pub |-> {"print"}])}, {},
        Main(<<Item("Name", H, "print")>>, {"print"}))

\* The helper, loaded first, re-exports a function of the facade.
EarlyExport ==
  Graph({Mod(H, [exports |-> <<Item("Root", F, "y")>>])}, {Mod(F, [funs |-> {"y"}, pub |-> {"y"}])},
        Main(<<Item("Name", H, "y"), Renamed("Name", F, "y", "x")>>, {}))

\* A builtin is imported under another name.
RenamedBuiltin ==
  {[modules |-> <<r>>, path_aliases |-> <<>>] :
     r \in Main(<<Renamed("Std", <<"core">>, "print", "x")>>, {"x"})}

\* The root imports a function called like a builtin under a name that a glob
\* gives as well.
RenamedPrint ==
  Graph({Mod(H, [funs |-> {"print"}, pub |-> {"print"}])}, {Mod(F, [funs |-> {"y"}, pub |-> {"y"}])},
        Main(<<Renamed("Name", H, "print", "y"), Star("Name", F)>>, {"y"}))

\* A let, and a function with type parameters, are called like an import.
ShadowedImport ==
  Graph({PlainHelper},
        {Mod(F, own @@ [imports |-> <<Item("Root", H, "x")>>]) :
           own \in {[lets |-> {"x"}], [funs |-> {"x"}, generic |-> {"x"}]}},
        Main(<<Item("Root", <<>>, "f")>>, {}))

\* What refutes the sentences of the documents, one after another.
Documented ==
  RenamingFacade \cup CoveringFacade \cup PrivateType \cup PublicMethod \cup NestedName
    \cup UnusedConflict \cup GoneModule \cup HandleImport \cup UsedLet \cup UserPrint
    \cup EarlyExport \cup RenamedBuiltin \cup RenamedPrint \cup ShadowedImport
==============================================================================
