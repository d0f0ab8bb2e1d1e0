------------------------------ MODULE MCImports ------------------------------
(* A program that imports a library, which may import a base. *)
EXTENDS Imports

Lib == <<"lib">>
Base == <<"base">>
F == <<"f">>
G == <<"g">>
N == <<"n">>
T == <<"t">>

An(kind, name) == Item(kind, name, <<>>, <<>>, <<>>)
Def(name, uses) == Item("function", name, <<>>, <<>>, uses)

MCItems ==
  {An("namespace", N), An("end", <<>>), An("global", G), An("type", T), An("enumeration", <<"e", "a">>),
   Def(F, <<>>), Def(<<"x">>, <<F>>), Def(<<"y">>, <<N \o F, G>>), Def(<<"z">>, <<<<"e", "a">>>>),
   Item("function", <<"p">>, T, G, <<G>>)}

MainTexts ==
  {i \o t : i \in {<<>>, <<An("import", Lib)>>, <<An("import", Base), An("import", Lib)>>,
                   <<An("import", Lib), An("import", Lib)>>, <<An("import", <<"missing">>)>>},
            t \in UNION {[1 .. n -> MCItems] : n \in 0 .. 3}}

Public == An("visibility", <<"external">>)
InN(t) == <<An("namespace", N)>> \o t \o <<An("end", <<>>)>>

LibTexts ==
  {<<Public, Def(F, <<>>), An("type", T)>>, <<An("import", Base), Public>> \o InN(<<Def(F, <<G>>)>>),
   <<An("import", Base), Def(<<"h">>, <<F>>)>>}
BaseTexts == {<<Public, An("global", G), An("enumeration", <<"e", "a">>)>>, <<Def(F, <<N \o F>>)>>}

MCMain == "main"
MCPrograms ==
  {"main" :> m @@ "lib" :> l @@ "base" :> b : m \in MainTexts, l \in LibTexts, b \in BaseTexts}
=============================================================================
