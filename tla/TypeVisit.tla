------------------------------ MODULE TypeVisit ------------------------------
(***************************************************************************)
(* typegen: Parser.visitType walks the types of requests and responses and *)
(* marks those that need a definition, and the printers of TypeScript and  *)
(* OpenAPI look the marked types up by name.  visitType calls itself; here *)
(* its calls are frames on a stack.                                        *)
(*                                                                         *)
(* A graph gives each type its kind, its name, whether go/doc finds its    *)
(* declaration, and its parts: the fields of a struct, the element of a    *)
(* slice or an array, the key and the element of a map.  A name is the     *)
(* last element of the package's path with the type's own name, cut at     *)
(* each "_"; it is empty for a type without a name.                        *)
(* kind "raw" is json.RawMessage, which api2.CustomParse skips, "enum" a   *)
(* named number or string, "other" what typegen has no case for.           *)
(***************************************************************************)
EXTENDS Naturals, Sequences, FiniteSets

CONSTANTS
  Jobs,     \* [graph, roots]: what a generator is run on
  MaxStack  \* visitType calls that fit on a goroutine's stack

Kinds == {"struct", "slice", "map", "enum", "date", "raw", "scalar", "other"}
Containers == {"slice", "map"}
Tags == {"json", "json-", "header", "query", "ts", "ts-"}

PartOf(types) ==
  [type : types, key : STRING, ptr : BOOLEAN, embedded : BOOLEAN, tags : SUBSET Tags]

ASSUME JobsAssumption ==
  \A j \in Jobs :
    /\ IsFiniteSet(DOMAIN j.graph)
    /\ j.roots \in Seq(DOMAIN j.graph)
    /\ \A t \in DOMAIN j.graph :
         LET n == j.graph[t]
         IN  /\ n.kind \in Kinds /\ n.name \in Seq(STRING) /\ n.doc \in BOOLEAN
             /\ n.parts \in Seq(PartOf(DOMAIN j.graph))
             /\ n.kind = "slice" => Len(n.parts) = 1
             /\ n.kind = "map" => Len(n.parts) = 2
             /\ n.kind = "enum" => n.name # <<>>
             /\ n.kind \notin Containers \cup {"struct"} => n.parts = <<>>

\* A stack that holds every walk that ends: between two marks of a struct no
\* container is entered twice.
ASSUME MaxStackAssumption ==
  \A j \in Jobs :
    LET some(kinds) == Cardinality({t \in DOMAIN j.graph : j.graph[t].kind \in kinds}) + 1
    IN  MaxStack >= some({"struct"}) * some(Containers)

VARIABLES
  job,     \* the member of Jobs
  todo,    \* roots still to be parsed
  stack,   \* the calls of visitType, innermost first: [type, ptr, next, back]
  seen,    \* Parser.seen: [name, values] of each type that is marked
  order,   \* Parser.visitOrder
  status   \* "running", "done", "overflow" or "panic"

vars == <<job, todo, stack, seen, order, status>>

Init ==
  /\ job \in Jobs
  /\ todo = job.roots
  /\ stack = <<>>
  /\ seen = <<>>
  /\ order = <<>>
  /\ status = "running"

----------------------------------------------------------------------------
(* Struct tags *)

Ignored(p) == p.tags \cap {"json-", "ts-"} # {}
NoInfo(p) == ~Ignored(p) /\ p.tags \cap {"json", "header", "query"} = {}

\* ParseStructTag: a field that gets a line in the record of its struct.
Recorded(p) == ~Ignored(p) /\ (NoInfo(p) => p.embedded)

\* Its type is visited, unless the tag says what it is in TypeScript.
Followed(p) == Recorded(p) /\ "ts" \notin p.tags

----------------------------------------------------------------------------
(* Parser *)

Node(t) == job.graph[t]
Named(t) == Node(t).name # <<>>
top == Head(stack)
part == Node(top.type).parts[top.next]
Running == status = "running" /\ stack # <<>>
Entering(kinds) == Running /\ top.next = 0 /\ Node(top.type).kind \in kinds
Looping(kinds) ==
  /\ Running /\ ~top.back
  /\ top.next \in DOMAIN Node(top.type).parts
  /\ Node(top.type).kind \in kinds

Frame(t, ptr) == [type |-> t, ptr |-> ptr, next |-> 0, back |-> FALSE]
SetTop(next, back) == stack' = <<[top EXCEPT !.next = next, !.back = back]>> \o Tail(stack)
Return == stack' = Tail(stack)

\* A call that does not fit on the stack ends the process.
Call(t, ptr) ==
  IF Len(stack) < MaxStack
  THEN /\ stack' = <<Frame(t, ptr), [top EXCEPT !.back = TRUE]>> \o Tail(stack)
       /\ UNCHANGED <<job, todo, seen, order, status>>
  ELSE /\ status' = "overflow"
       /\ UNCHANGED <<job, todo, stack, seen, order>>

markVisit(t, values) ==
  /\ seen' = [u \in DOMAIN seen \cup {t} |->
                IF u = t THEN [name |-> Node(t).name, values |-> values] ELSE seen[u]]
  /\ order' = Append(order, t)

\* Parse and ParseRaw: one root after the other.
ParseRoot ==
  /\ status = "running" /\ stack = <<>> /\ todo # <<>>
  /\ stack' = <<Frame(Head(todo), FALSE)>>
  /\ todo' = Tail(todo)
  /\ UNCHANGED <<job, seen, order, status>>

ParseDone ==
  /\ status = "running" /\ stack = <<>> /\ todo = <<>>
  /\ status' = "done"
  /\ UNCHANGED <<job, todo, stack, seen, order>>

\* Mutant: a struct is not asked whether it was visited.
IsVisited_NotForStructs ==
  /\ Entering(Kinds) /\ top.type \in DOMAIN seen
  /\ IF Node(top.type).kind = "struct" THEN SetTop(1, FALSE) ELSE Return
  /\ UNCHANGED <<job, todo, seen, order, status>>

IsVisited ==
  /\ Entering(Kinds) /\ top.type \in DOMAIN seen
  /\ Return
  /\ UNCHANGED <<job, todo, seen, order, status>>

\* CustomParse skips json.RawMessage; dates and what is left have no case.
VisitOther ==
  /\ Entering({"raw", "date", "scalar", "other"})
  /\ Return
  /\ UNCHANGED <<job, todo, seen, order, status>>

\* A struct is marked before its fields are visited.
EnterStruct ==
  /\ Entering({"struct"}) /\ top.type \notin DOMAIN seen
  /\ markVisit(top.type, "none")
  /\ SetTop(1, FALSE)
  /\ UNCHANGED <<job, todo, status>>

EnterContainer ==
  /\ Entering(Containers) /\ top.type \notin DOMAIN seen
  /\ SetTop(1, FALSE)
  /\ UNCHANGED <<job, todo, seen, order, status>>

VisitEnum ==
  /\ Entering({"enum"}) /\ top.type \notin DOMAIN seen
  /\ ~top.ptr
  /\ markVisit(top.type, "all")
  /\ Return
  /\ UNCHANGED <<job, todo, status>>

\* getTypedEnumValues gets the pointer type, which has no package and no
\* constants: go/packages gives it nothing, or nothing to take the first of.
VisitEnumPointer ==
  /\ Entering({"enum"}) /\ top.type \notin DOMAIN seen
  /\ top.ptr
  /\ markVisit(top.type, "lost")
  /\ \/ Return /\ UNCHANGED status
     \/ status' = "panic" /\ UNCHANGED stack
  /\ UNCHANGED <<job, todo>>

\* Ignored, without a name for JSON, query or header, or with a type for TypeScript.
SkipField ==
  /\ Looping({"struct"}) /\ ~Followed(part)
  /\ SetTop(top.next + 1, FALSE)
  /\ UNCHANGED <<job, todo, seen, order, status>>

\* Mutant: an embedded struct without a tag is skipped like any other field.
VisitField_Tagged ==
  /\ Looping({"struct"}) /\ Followed(part)
  /\ IF NoInfo(part) THEN SetTop(top.next + 1, FALSE) /\ UNCHANGED <<job, todo, seen, order, status>>
     ELSE Call(part.type, FALSE)

\* The field's type is visited without its pointers.
VisitField ==
  /\ Looping({"struct"}) /\ Followed(part)
  /\ Call(part.type, FALSE)

\* The key and the element of a container are visited as they are.
VisitElem ==
  /\ Looping(Containers)
  /\ Call(part.type, part.ptr)

\* Mutant: the name is that of the field, without the struct's.
SetName_KeyOnly(t) == seen' = [seen EXCEPT ![t].name = <<part.key>>]

\* record.Name + "_" + field.Key: the struct may be anonymous itself, and have no
\* name yet.
SetName(t) == seen' = [seen EXCEPT ![t].name = seen[top.type].name \o <<part.key>>]

\* visitType has returned to the loop over the fields, or over key and element.
FieldVisited ==
  /\ Running /\ top.back
  /\ IF /\ Node(top.type).kind = "struct"
        /\ Node(part.type).kind = "struct" /\ ~Named(part.type)
     THEN SetName(part.type)
     ELSE UNCHANGED seen
  /\ SetTop(top.next + 1, FALSE)
  /\ UNCHANGED <<job, todo, order, status>>

AtEnd(kinds) ==
  /\ Running /\ top.next > Len(Node(top.type).parts)
  /\ Node(top.type).kind \in kinds /\ top.next # 0

LeaveStruct ==
  /\ AtEnd({"struct"})
  /\ Return
  /\ UNCHANGED <<job, todo, seen, order, status>>

\* A container with a name is marked after what it holds; getDoc(t).Doc is read
\* though getDoc returns nil for a type that go/doc does not list.
LeaveContainer ==
  /\ AtEnd(Containers)
  /\ IF ~Named(top.type) THEN Return /\ UNCHANGED <<seen, order, status>>
     ELSE IF Node(top.type).doc
     THEN markVisit(top.type, "none") /\ Return /\ UNCHANGED status
     ELSE status' = "panic" /\ UNCHANGED <<stack, seen, order>>
  /\ UNCHANGED <<job, todo>>

Next ==
  \/ ParseRoot \/ ParseDone \/ IsVisited \/ VisitOther
  \/ EnterStruct \/ SkipField \/ VisitField \/ FieldVisited \/ LeaveStruct
  \/ EnterContainer \/ VisitElem \/ LeaveContainer
  \/ VisitEnum \/ VisitEnumPointer

\* One goroutine that runs.
Safety == Init /\ [][Next]_vars
Spec == Safety /\ WF_vars(Next)

----------------------------------------------------------------------------
(* The printers *)

Parts(t) == {Node(t).parts[i] : i \in DOMAIN Node(t).parts}

\* What visitType visits next from a type.
Next1(t) ==
  {p.type : p \in {q \in Parts(t) : Node(t).kind = "struct" => Followed(q)}}

\* What a walk from S along the types of some kinds comes to.
Reach(S, kinds) ==
  LET within[n \in 0 .. Cardinality(DOMAIN job.graph)] ==
        IF n = 0 THEN S
        ELSE within[n - 1] \cup
             UNION {Next1(t) : t \in {u \in within[n - 1] : Node(u).kind \in kinds}}
  IN  within[Cardinality(DOMAIN job.graph)]

\* typeToString and typeToSwagger unfold containers and ask for the name of
\* every struct and enum they come to.
NamesIn(t) == {u \in Reach({t}, Containers) : Node(u).kind \in {"struct", "enum"}}

Embedded(t) == {p.type : p \in {q \in Parts(t) : q.embedded /\ Followed(q)}}
Fields(t) == {p.type : p \in {q \in Parts(t) : ~q.embedded /\ Followed(q)}}

\* The types that PrintTsTypes and PrintSwagger call GetVisited(t).RefName() for:
\* an embedded type whatever it is.
LookedUp ==
  UNION {IF Node(t).kind = "struct" THEN Embedded(t) \cup UNION {NamesIn(u) : u \in Fields(t)}
         ELSE NamesIn(t) : t \in DOMAIN seen}

----------------------------------------------------------------------------
(* Properties *)

Reachable == Reach({job.roots[i] : i \in DOMAIN job.roots}, Kinds)
OnCycle(t, kinds) == Node(t).kind \in kinds /\ t \in Reach(Next1(t), kinds)
NeedsDefinition(t) ==
  Node(t).kind \in {"struct", "enum"} \/ (Node(t).kind \in Containers /\ Named(t))

\* An enum that the walk may first meet through a pointer in a container.
MetByPointer(t) ==
  \E u \in Reachable : \E p \in Parts(u) :
    Node(u).kind \in Containers /\ p.ptr /\ p.type = t

\* A walk that ends has marked exactly the types that can be reached and need a
\* definition, an enum with its values, and each name the printers ask for is there:
\* GetVisited does not return nil (typescript.printer.go:119, 138, 185,
\* swagger.printer.go:94, 111), unless what is embedded is no struct of its own.
FindsEveryType ==
  status = "done" =>
    /\ DOMAIN seen = {t \in Reachable : NeedsDefinition(t)}
    /\ \A t \in DOMAIN seen :
         Node(t).kind = "enum" /\ ~MetByPointer(t) => seen[t].values = "all"
    /\ \A t \in LookedUp \ DOMAIN seen :
         ~NeedsDefinition(t) /\ \E u \in DOMAIN seen : t \in Embedded(u)

\* The structs with a field of this type.
Owners(t) == {u \in Reachable : Node(u).kind = "struct" /\ t \in Next1(u)}

\* A struct without a name that is the type of no field, or of a field of another
\* struct without a name.
Homeless(t) ==
  /\ Node(t).kind = "struct" /\ ~Named(t)
  /\ Owners(t) = {} \/ \E u \in Owners(t) : ~Named(u)

\* No two types of a program have the same name in packages whose paths end alike,
\* and none has a "_"; no struct has two fields called "_".
PlainNames ==
  /\ \A t, u \in DOMAIN job.graph :
       /\ Len(Node(t).name) <= 1
       /\ Named(t) /\ Node(t).name = Node(u).name => t = u
  /\ \A t \in DOMAIN job.graph : Node(t).kind = "struct" =>
       \A p, q \in Parts(t) : p.key = q.key => p = q

\* Each definition is written once (typescript.printer.go:111-114), and under a name
\* of its own: PrintSwagger keeps one schema of a name (swagger.printer.go:15-18).
\* The exceptions: a named container on a cycle is marked again for each turn, two
\* homeless structs may share a name, and RefName tells neither a/x.T from b/x.T nor
\* the struct T_a from the one in the field a of T.
DefinedOnce ==
  status = "done" =>
    /\ \A i, j \in DOMAIN order :
         order[i] = order[j] /\ i # j => OnCycle(order[i], Kinds) /\ Node(order[i]).kind \in Containers
    /\ PlainNames => \A t, u \in DOMAIN seen :
         seen[t].name = seen[u].name /\ t # u => Homeless(t) \/ Homeless(u)

\* visitType returns, however the types refer to each other, unless a container
\* holds itself with no struct between; it panics only for a named container that
\* go/doc does not list and for an enum behind a pointer in a container.
VisitEnds ==
  <>(\/ status = "done"
     \/ status = "overflow" /\ \E t \in Reachable : OnCycle(t, Containers)
     \/ status = "panic" /\ \E t \in Reachable :
           \/ Node(t).kind \in Containers /\ Named(t) /\ ~Node(t).doc
           \/ Node(t).kind = "enum" /\ MetByPointer(t))
==============================================================================
