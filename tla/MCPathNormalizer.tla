-------------------------- MODULE MCPathNormalizer --------------------------
(***************************************************************************)
(* A root, a helper `h` and a module `k` that is next to the helper, or    *)
(* below it under a path from the root; and what may be written in them.   *)
(***************************************************************************)
EXTENDS PathNormalizer

MCNames == {"h", "k", "x", "y", "z", "T", "E", "Result", "T::m", "print", "main", "m", "V", "Unit", "None", "Ok", "Err"} \cup CoreTypes
MCCoreFuns == {"print"}
MCVariants == ("E" :> {"V", "Unit"}) @@ ("Result" :> {"Ok", "Err"})

H == <<"h">>
Item(root, segs, name) == [root |-> root, segs |-> segs, name |-> name, as |-> name]
Renamed(root, segs, name, as) == [root |-> root, segs |-> segs, name |-> name, as |-> as]
Star(root, segs) == Item(root, segs, Glob)

Mod(path, record) ==
  record @@ [path |-> path, imports |-> <<>>, exports |-> <<>>, pub |-> {}, funs |-> {},
             types |-> {}, lets |-> {}, methods |-> {}, generic |-> {}, bare |-> {}, nested |-> {},
             early |-> {}, uses |-> {}]

Ks(path) == {Mod(path, [funs |-> {"x"}, types |-> t, pub |-> {"x"} \cup t]) : t \in {{"E"}, {"Result"}}}

\* The helper imports from k by a path from the root or from itself.
Hs(k, leaves) ==
  {Mod(H, own @@ [imports |-> <<leaf>>]) : leaf \in leaves,
     own \in {[funs |-> {"x"}, pub |-> {"x"}, exports |-> <<Renamed("Root", k, "x", "y")>>],
              [funs |-> {"y"}, types |-> {"T"}, methods |-> {"T::m"}, pub |-> {"y", "T"}]}}

Beside == {Item("Root", <<"k">>, "x"), Renamed("Root", <<"k">>, "x", "z"), Star("Root", <<"k">>)}
Below == {Item("Name", <<"k">>, "x"), Renamed("Self", <<"k">>, "x", "z"), Star("Name", <<"k">>)}

RootImports(k) ==
  {<<leaf>> : leaf \in {Item("Name", H, "x"), Item("Name", H, "T"), Star("Name", H)}}
    \cup {<<Renamed("Name", H, "x", "z"), Item("Root", k, "x")>>,
          <<Renamed("Name", H, "x", "y"), Renamed("Root", k, "x", "z")>>,
          <<Star("Root", H), Star("Root", k)>>, <<Star("Root", H), Renamed("Root", k, "x", "z")>>,
          <<Item("Root", <<>>, "h"), Item("Name", H, "y")>>}

Roots(k) ==
  {Mod(<<>>, own @@ [imports |-> i]) : i \in RootImports(k),
     own \in {[funs |-> {"main"}], [funs |-> {"main", "x"}, types |-> {"T"}]}}

\* Two things of one name: a type beside a function, a function beside the
\* local name of an import, a facade, structs called like variants, and modules
\* called like enums.
Struct(path, name) == Mod(path, [types |-> {name}, pub |-> {name}])
Fun(path, name) == Mod(path, [funs |-> {name}, pub |-> {name}])
Main(imports) == Mod(<<>>, [funs |-> {"main"}, imports |-> imports])
Enum(path) == Mod(path, [funs |-> {"x"}, types |-> {"E"}, pub |-> {"x", "E"}])

MixedModules ==
  {<<Struct(<<"k">>, "x"), Fun(H, "x"), Main(<<Renamed("Name", H, "x", "z"), Renamed("Root", <<"k">>, "x", "y")>>)>>,
   <<Fun(H, "x"), Mod(<<>>, [funs |-> {"main", "y"}, imports |-> <<Renamed("Name", H, "x", "y")>>])>>,
   <<Fun(<<"k">>, "x"), Mod(H, [exports |-> <<Item("Root", <<"k">>, "x")>>]), Main(<<Renamed("Name", H, "x", "z")>>)>>,
   <<Struct(<<"Result">>, "Err"), Fun(H, "x"), Main(<<Star("Name", <<"Result">>), Item("Name", H, "x")>>)>>,
   <<Struct(<<"k">>, "V"), Enum(H), Main(<<Item("Name", H, "x")>>)>>,
   <<Fun(<<"h", "E">>, "y"), Enum(H), Main(<<Star("Name", H), Star("Name", <<"h", "E">>)>>)>>,
   <<Struct(<<"E">>, "T"), Enum(H), Main(<<Star("Name", H), Star("Name", <<"E">>)>>)>>}

\* A let and functions with type parameters, beside an import of their name.
SharedNames ==
  {<<Fun(H, "y"), Mod(<<>>, [funs |-> {"main"}, lets |-> {"x", "y"}, imports |-> <<Item("Name", H, "y")>>])>>,
   <<Fun(H, "x"), Mod(<<>>, [funs |-> {"main", "x", "y"}, generic |-> {"x", "y"}, imports |-> <<Item("Name", H, "x")>>])>>,
   <<Fun(H, "x"), Mod(<<>>, [funs |-> {"main", "x"}, generic |-> {"x"}, imports |-> <<Renamed("Name", H, "x", "y")>>])>>}

MCPrograms ==
  [modules : Ks(<<"k">>) \X Hs(<<"k">>, Beside) \X Roots(<<"k">>), path_aliases : {<<>>}]
    \cup [modules : Ks(<<"h", "k">>) \X Hs(<<"h", "k">>, Below) \X Roots(<<"h", "k">>), path_aliases : {<<>>}]
    \cup [modules : MixedModules \cup SharedNames, path_aliases : {<<>>}]

X == Path(<<"x">>)
HX == Path(<<"h", "x">>)

Roads == {<<>>, <<"root">>, <<"self">>, <<"super">>, <<"h">>, <<"k">>, <<"h", "k">>, <<"root", "h">>,
             <<"root", "k">>, <<"root", "h", "k">>, <<"self", "h">>, <<"self", "k">>}
ItemPaths == {Append(p, n) : p \in Roads, n \in {"x", "y"}}
Members == {<<"E", "x">>, <<"T", "m">>, <<"E", "Unit">>, <<"h", "T", "m">>, <<"h", "T", "x">>, <<"Perhaps", "None">>,
            <<"std", "core", "Perhaps", "None">>, <<"std", "core", "print">>}
LiteralPaths == {p \o s : p \in Roads, s \in {<<"T">>, <<"E", "V">>}}
   \cup {<<"E", "T">>, <<"k", "E">>, <<"h", "k", "E">>, <<"k", "E", "Unit">>, <<"Result", "Ok">>, <<"std", "core", "Result", "Ok">>}

MCExpressions ==
  {<<Path(p)>> : p \in ItemPaths \cup Members}
    \cup {<<X, StructLiteral(p, <<1>>)>> : p \in LiteralPaths}
    \cup {<<X, PropagateError(<<1>>)>>, <<X, PropagateError(<<1>>), PropagateError(<<2>>)>>,
          <<X, HX, PropagateError(<<2>>), Op(<<1, 3>>)>>,
          <<X, PropagateError(<<1>>), StructLiteral(<<"T">>, <<2>>)>>,
          <<X, X, PropagateError(<<2>>), X, Assign(<<1, 3, 4>>)>>,
          <<X, X, PropagateError(<<2>>), Assign(<<1, 3>>)>>,
          <<X, PropagateError(<<1>>), X, Assign(<<2, 3>>), PropagateError(<<4>>)>>,
          <<HX, X, HX, Assign(<<1, 2, 3>>)>>}

MCLocals == {{}, {"x"}}
=============================================================================
