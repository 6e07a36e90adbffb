------------------------------ MODULE MCRouting ------------------------------
\* Routing for TLC: tables over a few masks that share prefixes.
EXTENDS Routing

P(name) == [param |-> TRUE, name |-> name]
S(name) == [param |-> FALSE, name |-> name]

Route(method, mask) == [method |-> method, mask |-> mask]

Masks == {
  <<S("")>>,                            \* /
  <<S("a")>>,                           \* /a
  <<S("a"), S("")>>,                    \* /a/
  <<P("x")>>,                           \* /:x
  <<S("a"), P("x")>>,                   \* /a/:x
  <<S("a"), P("x"), S("b")>>,           \* /a/:x/b
  <<S("a"), S("b")>>,                   \* /a/b
  <<S("a"), S("b"), P("y")>>,           \* /a/b/:y
  <<S("a"), P("x"), P("y")>>,           \* /a/:x/:y
  <<P("x"), S("b"), S("")>>,            \* /:x/b/
  <<S("a"), P("x"), P("x")>>            \* /a/:x/:x
}

PairsOfRoutes ==
  {<<Route(m1, k1), Route(m2, k2)>> :
     m1 \in Methods, m2 \in Methods, k1 \in Masks, k2 \in Masks}

\* Several masks behind one pattern and one behind a longer pattern.
LongTables == {
  <<Route("GET", <<S("a"), P("x"), S("b")>>), Route("GET", <<S("a"), P("x"), P("y")>>),
    Route("GET", <<S("a"), S("b"), P("y")>>), Route("POST", <<S("a"), P("x")>>)>>,
  <<Route("GET", <<S("a"), P("x"), P("y")>>), Route("GET", <<S("a"), P("x"), S("b")>>),
    Route("GET", <<S("a"), P("x")>>), Route("GET", <<S("a"), S("")>>)>>
}

AllTables == PairsOfRoutes \cup LongTables

MethodsDef == {"GET", "POST"}

ValuesDef == {<<"v">>, <<"b">>, <<"">>, <<"..">>, <<"a", "v">>}

PathsDef == UNION {[1 .. n -> {"a", "b", "v", ""}] : n \in 1 .. 3}

OneTable == {<<Route("GET", <<S("a"), P("x")>>), Route("GET", <<S("a"), S("")>>)>>}
==============================================================================
