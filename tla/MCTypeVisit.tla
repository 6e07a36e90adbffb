---------------------------- MODULE MCTypeVisit ----------------------------
\* TypeVisit for TLC: every graph of three types, and some about one feature.
EXTENDS TypeVisit

Part(key, type) ==
  [key |-> key, type |-> type, ptr |-> FALSE, embedded |-> FALSE, tags |-> {"json"}]
NodeOf(kind, named, parts) ==
  [kind |-> kind, name |-> IF named THEN <<"T">> ELSE <<>>, doc |-> TRUE, parts |-> parts]
Leaf(kind) == NodeOf(kind, kind \notin {"scalar", "other"}, <<>>)

\* Every type that has a name gets one of its own.
Job(graph, roots) ==
  [graph |-> [t \in DOMAIN graph |->
                [graph[t] EXCEPT !.name = IF @ = <<>> THEN <<>> ELSE <<t>>]],
   roots |-> roots]

\* Structs of one or two fields, slices and maps, with and without a name, over
\* three types and an enum.
Targets == {"T1", "T2", "T3", "Enum"}
Shapes ==
  {NodeOf("struct", TRUE, <<Part("a", t), Part("b", u)>>) : t, u \in Targets}
  \cup {NodeOf("struct", named, <<Part("a", t)>>) : named \in BOOLEAN, t \in Targets}
  \cup {NodeOf("slice", named, <<Part("", t)>>) : named \in BOOLEAN, t \in Targets}
  \cup {NodeOf("map", TRUE, <<Part("", "Text"), Part("", t)>>) : t \in Targets}

\* Go has no type without a name that refers to itself through such types only.
UnnamedCycle(g) ==
  \E S \in SUBSET {"T1", "T2", "T3"} :
    S # {} /\ \A t \in S :
      g[t].name = <<>> /\ \E i \in DOMAIN g[t].parts : g[t].parts[i].type \in S

Graph(a, b, c) ==
  [t \in {"T1", "T2", "T3", "Enum", "Text"} |->
     CASE t = "T1" -> a [] t = "T2" -> b [] t = "T3" -> c
       [] t = "Enum" -> Leaf("enum") [] t = "Text" -> Leaf("scalar")]

Graphs == {g \in {Graph(a, b, c) : a, b, c \in Shapes} :
             g["T1"].kind = "struct" /\ g["T1"].name # <<>> /\ ~UnnamedCycle(g)}

\* One struct with two fields of every sort of type, with every sort of tags.
TagSets == {{}, {"json"}, {"query"}, {"json-"}, {"json-", "query"}, {"json", "ts"}, {"json", "ts-"}}
Leaves == {"Enum", "Date", "Raw", "Any", "Sub", "Sub2"}
Field(key, type, embedded, tags) ==
  [Part(key, type) EXCEPT !.embedded = embedded, !.tags = tags]

FieldGraph(p, q) ==
  [t \in {"Top", "Sub", "Sub2", "Inner", "Enum", "Date", "Raw", "Any"} |->
     CASE t = "Top" -> NodeOf("struct", TRUE, <<p, q>>)
       [] t = "Sub" -> NodeOf("struct", TRUE, <<Part("a", "Top"), Field("b", "Sub2", TRUE, {})>>)
       [] t = "Sub2" -> NodeOf("struct", FALSE, <<Part("a", "Inner"), Part("b", "Enum")>>)
       [] t = "Inner" -> NodeOf("struct", FALSE, <<Part("a", "Date")>>)
       [] t = "Enum" -> Leaf("enum") [] t = "Date" -> Leaf("date")
       [] t = "Raw" -> Leaf("raw") [] t = "Any" -> Leaf("other")]

FieldGraphs ==
  {FieldGraph(Field("a", t, e, s), Field("b", u, d, {"json"})) :
     t, u \in Leaves, e, d \in BOOLEAN, s \in TagSets}

\* Pointers in containers, containers that go/doc does not list.
ElemGraphs ==
  {[t \in {"Top", "List", "Enum", "Sub"} |->
      CASE t = "Top" -> NodeOf("struct", TRUE, <<Part("a", "List"), Part("b", u)>>)
        [] t = "List" -> [NodeOf("slice", named, <<[Part("", v) EXCEPT !.ptr = ptr]>>)
                            EXCEPT !.doc = doc]
        [] t = "Enum" -> Leaf("enum")
        [] t = "Sub" -> NodeOf("struct", TRUE, <<Part("a", "List")>>)] :
     u \in {"Enum", "Sub"}, v \in {"Enum", "Sub"}, named, ptr, doc \in BOOLEAN}

\* Structs without a name in one another, in a slice, and as the type of two fields.
NameGraphs ==
  {[t \in {"Top", "P", "Q", "R", "S", "Text"} |->
      CASE t = "Top" -> NodeOf("struct", TRUE, <<Part("a", "P"), Part("b", u)>>)
        [] t = "P" -> NodeOf("struct", FALSE, <<Part("x", "R")>>)
        [] t = "Q" -> NodeOf(kind, named, <<Part("x", "S")>>)
        [] t = "R" -> NodeOf("struct", FALSE, <<Part("y", v)>>)
        [] t = "S" -> NodeOf("struct", FALSE, <<Part("z", "Text")>>)
        [] t = "Text" -> Leaf("scalar")] :
     kind \in {"struct", "slice"}, named \in BOOLEAN, u \in {"P", "Q", "R"}, v \in {"Q", "S", "Text"}}

\* Structs without a name that are fields of one with a name, and of others in a map.
SharedGraph ==
  [t \in {"Top", "P", "Q", "V", "W", "L", "Text", "Any"} |->
     CASE t = "Top" -> NodeOf("struct", TRUE, <<Part("a", "P"), Part("b", "Q"), Part("l", "L")>>)
       [] t = "P" -> NodeOf("struct", FALSE, <<Part("y", "Text")>>)
       [] t = "Q" -> NodeOf("struct", FALSE, <<Part("z", "Any")>>)
       [] t = "L" -> NodeOf("map", FALSE, <<Part("", "V"), Part("", "W")>>)
       [] t = "V" -> NodeOf("struct", FALSE, <<Part("x", "P")>>)
       [] t = "W" -> NodeOf("struct", FALSE, <<Part("x", "Q")>>)
       [] t = "Text" -> Leaf("scalar") [] t = "Any" -> Leaf("other")]

\* Two structs with names, each with a field of the same key whose struct has none.
TwinGraph ==
  [t \in {"Top", "Other", "P", "Q", "Text"} |->
     CASE t = "Top" -> NodeOf("struct", TRUE, <<Part("a", "P"), Part("b", "Other")>>)
       [] t = "Other" -> NodeOf("struct", TRUE, <<Part("a", "Q")>>)
       [] t = "P" -> NodeOf("struct", FALSE, <<Part("y", "Text")>>)
       [] t = "Q" -> NodeOf("struct", FALSE, <<Part("z", "Text")>>)
       [] t = "Text" -> Leaf("scalar")]

\* A struct with the name that "Top" gives to its field, or with that of "Top".
Clashes ==
  {[Job(g, <<"Top">>) EXCEPT !.graph["Q"].name = name] :
     g \in {h \in NameGraphs : h["Q"].kind = "struct" /\ h["Q"].name # <<>>},
     name \in {<<"Top">>, <<"Top", "a">>}}

AllJobs ==
  {Job(g, roots) : g \in Graphs, roots \in {<<"T1">>, <<"T2", "T1">>}}
  \cup {Job(g, <<"Top">>) : g \in FieldGraphs}
  \cup {Job(g, <<"Top">>) : g \in NameGraphs \cup {SharedGraph, TwinGraph}} \cup Clashes
  \cup {Job(g, roots) : g \in ElemGraphs, roots \in {<<"Sub", "Top">>, <<"Enum", "Top">>}}
=============================================================================
