-------------------------- MODULE TypeVisit_proofs --------------------------
(***************************************************************************)
(* Proofs, for graphs of types of any size and shape, of what TypeVisit    *)
(* says of a walk that ends: it found every type, and wrote each once.     *)
(***************************************************************************)
EXTENDS TypeVisit, Induction, SequenceTheorems

-----------------------------------------------------------------------------
(* The graph of a job *)

Types(j) == DOMAIN j.graph
To(j, t, k) == j.graph[t].parts[k].type
IsStruct(j, t) == j.graph[t].kind = "struct"
IsContainer(j, t) == j.graph[t].kind \in Containers
IsNameless(j, t) == IsStruct(j, t) /\ j.graph[t].name = <<>>
Needs(j, t) ==
  j.graph[t].kind \in {"struct", "enum"} \/ (IsContainer(j, t) /\ j.graph[t].name # <<>>)

\* The parts that visitType goes to.
Steps(j, t) ==
  {k \in DOMAIN j.graph[t].parts : IsStruct(j, t) => Followed(j.graph[t].parts[k])}

IsClosed(j, X) == \A t \in X : \A k \in Steps(j, t) : To(j, t, k) \in X

\* Every closed set with the roots has t.
Reached(j, t) ==
  \A X \in SUBSET Types(j) :
    IsClosed(j, X) /\ (\A i \in DOMAIN j.roots : j.roots[i] \in X) => t \in X

\* Every closed set with what u goes to has t.
Leads(j, u, t) ==
  \A X \in SUBSET Types(j) :
    IsClosed(j, X) /\ (\A k \in Steps(j, u) : To(j, u, k) \in X) => t \in X

\* A container that is reached holds pointers to t.
Pointed(j, t) ==
  \E u \in Types(j) :
    /\ Reached(j, u) /\ IsContainer(j, u)
    /\ \E k \in DOMAIN j.graph[u].parts : j.graph[u].parts[k].ptr /\ To(j, u, k) = t

\* All that is in t, in the containers in it and so on, and needs a definition,
\* is in S.
Covers(j, S, t) ==
  \E X \in SUBSET Types(j) :
    /\ t \in X
    /\ \A u \in X : IsContainer(j, u) => \A k \in Steps(j, u) : To(j, u, k) \in X
    /\ \A u \in X : Needs(j, u) => u \in S

\* Part k of t was visited, and FieldVisited has followed.
Finished(j, s, t, k) ==
  /\ Covers(j, DOMAIN s, To(j, t, k))
  /\ IsStruct(j, t) /\ IsNameless(j, To(j, t, k)) =>
       To(j, t, k) \in DOMAIN s /\ s[To(j, t, k)].name # <<>>

\* n is made of the name of a struct in S and that of its field of type t, if the
\* struct has a name.
ByOwner(j, S, t, n) ==
  \E u \in S : \E k \in Steps(j, u) :
    /\ IsStruct(j, u) /\ To(j, u, k) = t
    /\ j.graph[u].name # <<>> => n = j.graph[u].name \o <<j.graph[u].parts[k].key>>

Grows(s, r) ==
  /\ DOMAIN s \subseteq DOMAIN r
  /\ \A t \in DOMAIN s : s[t].name # <<>> => r[t].name # <<>>

-----------------------------------------------------------------------------
(* The invariant *)

Frames(j) == [type : Types(j), ptr : BOOLEAN, next : Nat, back : BOOLEAN]
Records == [name : Seq(STRING), values : {"none", "all", "lost"}]

TypeOK ==
  /\ job \in Jobs
  /\ todo \in Seq(Types(job))
  /\ stack \in Seq(Frames(job))
  /\ DOMAIN seen \subseteq Types(job) /\ seen \in [DOMAIN seen -> Records]
  /\ order \in Seq(DOMAIN seen)
  /\ status \in {"running", "done", "overflow", "panic"}

\* A call on the stack is at a part of its type, and waits for the call above it.
StackInv ==
  /\ \A i \in DOMAIN stack :
       LET f == stack[i] IN
       /\ f.next \in 0 .. Len(job.graph[f.type].parts) + 1
       /\ f.next # 0 => IsContainer(job, f.type) \/ IsStruct(job, f.type)
       /\ f.next # 0 /\ IsStruct(job, f.type) => f.type \in DOMAIN seen
       /\ f.back => f.next \in Steps(job, f.type)
       /\ i # 1 => f.back /\ stack[i - 1].type = To(job, f.type, f.next)
       /\ Reached(job, f.type)
       /\ f.ptr => Pointed(job, f.type)
  /\ \A i, j \in DOMAIN stack : i < j => Leads(job, stack[j].type, stack[i].type)

\* Each root was visited, is being visited, or will be.
RootInv ==
  /\ \A i \in DOMAIN todo : Reached(job, todo[i])
  /\ \A i \in DOMAIN job.roots :
       \/ Covers(job, DOMAIN seen, job.roots[i])
       \/ \E k \in DOMAIN todo : todo[k] = job.roots[i]
       \/ stack # <<>> /\ stack[Len(stack)].type = job.roots[i]

\* The parts before the one that a call is at were visited, and all parts of
\* what is marked, unless it is a struct with a call on the stack.
VisitInv ==
  /\ \A t \in DOMAIN seen : Reached(job, t) /\ Needs(job, t)
  /\ \A i \in DOMAIN stack : \A k \in Steps(job, stack[i].type) :
       k < stack[i].next => Finished(job, seen, stack[i].type, k)
  /\ stack # <<>> => (stack[1].back => Covers(job, DOMAIN seen, To(job, stack[1].type, stack[1].next)))
  /\ \A t \in DOMAIN seen :
       \/ IsStruct(job, t) /\ \E i \in DOMAIN stack : stack[i].type = t /\ stack[i].next # 0
       \/ \A k \in Steps(job, t) : Finished(job, seen, t, k)
  /\ status = "done" => stack = <<>> /\ todo = <<>>

\* What is marked twice is a container on a cycle.
OrderInv ==
  /\ \A i, j \in DOMAIN order : order[i] = order[j] /\ i # j =>
       IsContainer(job, order[i]) /\ Leads(job, order[i], order[i])
  /\ \A i \in DOMAIN stack :
       stack[i].next # 0 /\ IsContainer(job, stack[i].type) /\ stack[i].type \in DOMAIN seen =>
         Leads(job, stack[i].type, stack[i].type)

\* A name is the type's own, or made of that of a struct with a field of this type.
NameInv ==
  \A t \in DOMAIN seen :
    /\ job.graph[t].kind = "enum" /\ seen[t].values # "all" => Pointed(job, t)
    /\ job.graph[t].name # <<>> => seen[t].name = job.graph[t].name
    /\ job.graph[t].name = <<>> /\ seen[t].name # <<>> =>
         ByOwner(job, DOMAIN seen, t, seen[t].name)

IInv ==
  /\ TypeOK
  /\ StackInv
  /\ RootInv
  /\ VisitInv
  /\ OrderInv
  /\ NameInv

-----------------------------------------------------------------------------
(* Lemmas about graphs *)

\* What the assumption on the jobs says of the parts that are visited.
LEMMA GraphFacts ==
  ASSUME NEW j \in Jobs, NEW t \in Types(j)
  PROVE  /\ j.graph[t].parts \in Seq(PartOf(Types(j)))
         /\ Steps(j, t) \subseteq DOMAIN j.graph[t].parts
         /\ \A k \in DOMAIN j.graph[t].parts : To(j, t, k) \in Types(j)
         /\ IsContainer(j, t) => Steps(j, t) = DOMAIN j.graph[t].parts /\ ~IsStruct(j, t)
         /\ ~IsContainer(j, t) /\ ~IsStruct(j, t) => Steps(j, t) = {}
         /\ Needs(j, t) => IsStruct(j, t) \/ j.graph[t].name # <<>>
         /\ j.graph[t].kind \in Kinds /\ j.graph[t].name \in Seq(STRING)
<1>1. /\ j.graph[t].parts \in Seq(PartOf(Types(j)))
      /\ j.graph[t].kind \notin Containers \cup {"struct"} => j.graph[t].parts = <<>>
      /\ j.graph[t].kind = "enum" => j.graph[t].name # <<>>
      /\ j.graph[t].kind \in Kinds /\ j.graph[t].name \in Seq(STRING)
  BY JobsAssumption DEF Types
<1>2. \A k \in DOMAIN j.graph[t].parts : To(j, t, k) \in Types(j)
  <2> SUFFICES ASSUME NEW k \in DOMAIN j.graph[t].parts PROVE To(j, t, k) \in Types(j)
    OBVIOUS
  <2>1. j.graph[t].parts[k] \in PartOf(Types(j))
    BY <1>1
  <2> QED
    BY <2>1 DEF To, PartOf
<1>3. ~IsContainer(j, t) /\ ~IsStruct(j, t) => j.graph[t].parts = <<>>
  BY <1>1 DEF IsContainer, IsStruct
<1>4. IsContainer(j, t) => ~IsStruct(j, t)
  BY DEF IsContainer, IsStruct, Containers
<1> QED
  BY <1>1, <1>2, <1>3, <1>4 DEF Steps, Needs, IsStruct

\* A type that is no container is covered as soon as it is marked.
LEMMA CoverLeaf ==
  ASSUME NEW j \in Jobs, NEW S, NEW t \in Types(j), ~IsContainer(j, t), Needs(j, t) => t \in S
  PROVE  Covers(j, S, t)
<1>1. {t} \in SUBSET Types(j)
  OBVIOUS
<1> QED
  BY <1>1 DEF Covers

\* A container is covered when its parts are and it is marked itself.
LEMMA CoverContainer ==
  ASSUME NEW j \in Jobs, NEW S, NEW t \in Types(j),
         Needs(j, t) => t \in S,
         \A k \in Steps(j, t) : Covers(j, S, To(j, t, k))
  PROVE  Covers(j, S, t)
<1> DEFINE C == {u \in Types(j) : Covers(j, S, u)}
<1>1. ASSUME NEW u \in C, IsContainer(j, u), NEW k \in Steps(j, u) PROVE To(j, u, k) \in C
  <2>1. PICK X \in SUBSET Types(j) :
          /\ u \in X
          /\ \A v \in X : IsContainer(j, v) => \A l \in Steps(j, v) : To(j, v, l) \in X
          /\ \A v \in X : Needs(j, v) => v \in S
    BY DEF Covers
  <2>2. To(j, u, k) \in X
    BY <1>1, <2>1
  <2> QED
    BY <2>1, <2>2 DEF Covers
<1>2. ASSUME NEW u \in C, Needs(j, u) PROVE u \in S
  BY <1>2 DEF Covers
<1>3. \A k \in Steps(j, t) : To(j, t, k) \in C
  BY GraphFacts
<1>4. {t} \cup C \in SUBSET Types(j)
  OBVIOUS
<1> HIDE DEF C
<1> QED
  BY <1>1, <1>2, <1>3, <1>4 DEF Covers

\* What it means to be covered, the other way round.
LEMMA CoverMeans ==
  ASSUME NEW j, NEW S, NEW t, Covers(j, S, t)
  PROVE  /\ Needs(j, t) => t \in S
         /\ IsContainer(j, t) => \A k \in Steps(j, t) : Covers(j, S, To(j, t, k))
<1>1. PICK X \in SUBSET Types(j) :
          /\ t \in X
          /\ \A v \in X : IsContainer(j, v) => \A l \in Steps(j, v) : To(j, v, l) \in X
          /\ \A v \in X : Needs(j, v) => v \in S
  BY DEF Covers
<1> QED
  BY <1>1 DEF Covers

\* Marking more types leaves covered what was.
LEMMA CoverGrows ==
  ASSUME NEW j, NEW S, NEW T, S \subseteq T, NEW t, Covers(j, S, t)
  PROVE  Covers(j, T, t)
<1>1. PICK X \in SUBSET Types(j) :
          /\ t \in X
          /\ \A v \in X : IsContainer(j, v) => \A l \in Steps(j, v) : To(j, v, l) \in X
          /\ \A v \in X : Needs(j, v) => v \in S
  BY DEF Covers
<1>2. \A v \in X : Needs(j, v) => v \in T
  BY <1>1
<1> QED
  BY <1>1, <1>2 DEF Covers

\* What was visited stays so while more types are marked and named.
LEMMA FinishedStays ==
  ASSUME NEW j, NEW s, NEW r, Grows(s, r), NEW t, NEW k, Finished(j, s, t, k)
  PROVE  Finished(j, r, t, k)
BY CoverGrows DEF Finished, Grows

\* A name made of an owner's stays one while more types are marked.
LEMMA ByOwnerStays ==
  ASSUME NEW j, NEW S, NEW T, S \subseteq T, NEW t, NEW n, ByOwner(j, S, t, n)
  PROVE  ByOwner(j, T, t, n)
BY DEF ByOwner

\* The parts of what is reached are reached, and so on.
LEMMA ReachedStep ==
  ASSUME NEW j, NEW t, Reached(j, t), NEW k \in Steps(j, t)
  PROVE  Reached(j, To(j, t, k))
BY DEF Reached, IsClosed

\* A type leads to what its parts are, and a path goes on to the next part.
LEMMA LeadsStep ==
  ASSUME NEW j, NEW t, NEW k \in Steps(j, t)
  PROVE  /\ Leads(j, t, To(j, t, k))
         /\ \A u : Leads(j, u, t) => Leads(j, u, To(j, t, k))
BY DEF Leads, IsClosed

\* What a container that is reached points to is met by pointer.
LEMMA PointedStep ==
  ASSUME NEW j \in Jobs, NEW t \in Types(j), Reached(j, t), IsContainer(j, t), NEW k \in Steps(j, t),
         j.graph[t].parts[k].ptr
  PROVE  Pointed(j, To(j, t, k))
BY GraphFacts DEF Pointed

-----------------------------------------------------------------------------
(* Lemmas about the stack *)

\* Return takes the innermost call off the stack and leaves the others in place.
LEMMA StackTail ==
  ASSUME NEW S, NEW s \in Seq(S), s # <<>>
  PROVE  /\ Tail(s) \in Seq(S) /\ DOMAIN Tail(s) = 1 .. Len(s) - 1
         /\ \A i \in DOMAIN Tail(s) : i + 1 \in DOMAIN s /\ Tail(s)[i] = s[i + 1]
         /\ Head(s) \in S /\ Head(s) = s[1] /\ 1 \in DOMAIN s /\ Len(s) \in DOMAIN s
         /\ Tail(s) # <<>> => Tail(s)[Len(Tail(s))] = s[Len(s)]
         /\ Tail(s) = <<>> => Len(s) = 1
<1>1. /\ Tail(s) \in Seq(S) /\ Len(Tail(s)) = Len(s) - 1 /\ Len(s) \in Nat \ {0}
      /\ \A i \in 1 .. Len(s) - 1 : Tail(s)[i] = s[i + 1]
  OBVIOUS
<1>2. DOMAIN Tail(s) = 1 .. Len(s) - 1 /\ DOMAIN s = 1 .. Len(s)
  BY <1>1
<1>3. Head(s) \in S /\ Head(s) = s[1]
  OBVIOUS
<1>4. Tail(s) # <<>> => Len(s) - 1 \in 1 .. Len(s) - 1
  BY <1>1
<1>5. Tail(s) = <<>> => Len(s) = 1
  <2>1. \A r \in Seq(S) : r = <<>> => Len(r) = 0
    OBVIOUS
  <2>2. Tail(s) = <<>> => Len(Tail(s)) = 0
    BY <1>1, <2>1
  <2> DEFINE n == Len(Tail(s))
  <2>3. n = Len(s) - 1 /\ Len(s) \in Nat
    BY <1>1
  <2> HIDE DEF n
  <2> QED
    BY <2>2, <2>3 DEF n
<1> QED
  BY <1>1, <1>2, <1>3, <1>4, <1>5

\* SetTop changes the innermost call only.
LEMMA StackTop ==
  ASSUME NEW S, NEW s \in Seq(S), s # <<>>, NEW x \in S
  PROVE  LET r == <<x>> \o Tail(s) IN
         /\ r \in Seq(S) /\ DOMAIN r = DOMAIN s /\ Len(r) = Len(s) /\ r # <<>>
         /\ r[1] = x /\ \A i \in DOMAIN s : i # 1 => r[i] = s[i]
<1>1. Tail(s) \in Seq(S) /\ Len(Tail(s)) = Len(s) - 1 /\ \A i \in 1 .. Len(s) - 1 : Tail(s)[i] = s[i + 1]
  OBVIOUS
<1> DEFINE r == <<x>> \o Tail(s)
<1>2. r \in Seq(S) /\ Len(r) = Len(s) /\ r[1] = x
  BY <1>1
<1>3. \A i \in 2 .. Len(s) : r[i] = Tail(s)[i - 1]
  BY <1>1
<1> QED
  BY <1>1, <1>2, <1>3

\* Call puts a call on top of the one that made it.
LEMMA StackPush ==
  ASSUME NEW S, NEW s \in Seq(S), s # <<>>, NEW x \in S, NEW y \in S
  PROVE  LET r == <<y, x>> \o Tail(s) IN
         /\ r \in Seq(S) /\ DOMAIN r = 1 .. Len(s) + 1 /\ Len(r) = Len(s) + 1 /\ r # <<>>
         /\ r[1] = y /\ r[2] = x
         /\ \A i \in DOMAIN r : i \notin {1, 2} => i - 1 \in DOMAIN s /\ r[i] = s[i - 1]
<1>1. Tail(s) \in Seq(S) /\ Len(Tail(s)) = Len(s) - 1 /\ \A i \in 1 .. Len(s) - 1 : Tail(s)[i] = s[i + 1]
  OBVIOUS
<1> DEFINE r == <<y, x>> \o Tail(s)
<1>2. r \in Seq(S) /\ Len(r) = Len(s) + 1 /\ r[1] = y /\ r[2] = x
  BY <1>1
<1>3. \A i \in 3 .. Len(s) + 1 : r[i] = Tail(s)[i - 2]
  BY <1>1
<1> QED
  BY <1>1, <1>2, <1>3

-----------------------------------------------------------------------------
(* A call returns, goes on with its next part, or calls *)

\* The call on top of the stack.
LEMMA TopFacts ==
  ASSUME IInv, stack # <<>>
  PROVE  /\ 1 \in DOMAIN stack /\ top = stack[1] /\ top \in Frames(job)
         /\ top.type \in Types(job) /\ Reached(job, top.type)
         /\ Len(stack) \in DOMAIN stack
<1>1. stack \in Seq(Frames(job))
  BY DEF IInv, TypeOK
<1>2. 1 \in DOMAIN stack /\ top = stack[1] /\ top \in Frames(job) /\ Len(stack) \in DOMAIN stack
  BY <1>1, StackTail DEF top
<1> QED
  BY <1>2 DEF IInv, StackInv, Frames

\* visitType returns.
LEMMA ReturnKeeps ==
  ASSUME IInv, Running, Return, UNCHANGED <<job, todo, status>>,
         Grows(seen, seen'),
         \A t \in DOMAIN seen' : t \in DOMAIN seen \/ t = top.type,
         top.type \in DOMAIN seen' => Needs(job, top.type),
         Covers(job, DOMAIN seen', top.type),
         top.type \in DOMAIN seen' /\ (top.type \notin DOMAIN seen \/ top.next # 0) =>
           \A k \in Steps(job, top.type) : Finished(job, seen', top.type, k)
  PROVE  StackInv' /\ RootInv' /\ VisitInv'
<1>1. /\ stack # <<>> /\ stack \in Seq(Frames(job)) /\ stack' = Tail(stack)
      /\ job' = job /\ todo' = todo /\ status' = status /\ status = "running"
      /\ DOMAIN seen \subseteq DOMAIN seen'
  BY DEF Running, Return, IInv, TypeOK, Grows
<1>2. /\ DOMAIN stack' = 1 .. Len(stack) - 1 /\ DOMAIN stack = 1 .. Len(stack) /\ Len(stack) \in Nat
      /\ \A i \in DOMAIN stack' : i + 1 \in DOMAIN stack /\ stack'[i] = stack[i + 1]
      /\ stack' # <<>> => stack'[Len(stack')] = stack[Len(stack)]
      /\ stack' = <<>> => Len(stack) = 1
      /\ stack' # <<>> => 1 \in DOMAIN stack'
  BY <1>1, StackTail
<1>3. top = stack[1] /\ Reached(job, top.type)
  BY <1>1, TopFacts
<1>4. \A t : Covers(job, DOMAIN seen, t) => Covers(job, DOMAIN seen', t)
  BY <1>1, CoverGrows
<1>5. \A t, k : Finished(job, seen, t, k) => Finished(job, seen', t, k)
  BY FinishedStays
<1>6. StackInv'
  <2>1. ASSUME NEW i \in DOMAIN stack'
        PROVE  LET f == stack'[i] IN
               /\ f.next \in 0 .. Len(job.graph[f.type].parts) + 1
               /\ f.next # 0 => IsContainer(job, f.type) \/ IsStruct(job, f.type)
               /\ f.next # 0 /\ IsStruct(job, f.type) => f.type \in DOMAIN seen'
               /\ f.back => f.next \in Steps(job, f.type)
               /\ i # 1 => f.back /\ stack'[i - 1].type = To(job, f.type, f.next)
               /\ Reached(job, f.type)
               /\ f.ptr => Pointed(job, f.type)
    <3>1. i + 1 \in DOMAIN stack /\ i + 1 # 1 /\ (i + 1) - 1 = i /\ stack'[i] = stack[i + 1]
      BY <1>2
    <3>2. i # 1 => stack'[i - 1] = stack[i]
      BY <1>2
    <3> QED
      BY <3>1, <3>2, <1>1 DEF IInv, StackInv
  <2>2. ASSUME NEW i \in DOMAIN stack', NEW k \in DOMAIN stack', i < k
        PROVE  Leads(job, stack'[k].type, stack'[i].type)
    <3>1. i + 1 \in DOMAIN stack /\ k + 1 \in DOMAIN stack /\ i + 1 < k + 1
      BY <1>2, <2>2
    <3> QED
      BY <3>1, <1>2 DEF IInv, StackInv
  <2> QED
    BY <2>1, <2>2, <1>1 DEF StackInv
<1>7. RootInv'
  <2>1. ASSUME NEW i \in DOMAIN job.roots
        PROVE  \/ Covers(job, DOMAIN seen', job.roots[i])
               \/ \E k \in DOMAIN todo : todo[k] = job.roots[i]
               \/ stack' # <<>> /\ stack'[Len(stack')].type = job.roots[i]
    <3>1. CASE Covers(job, DOMAIN seen, job.roots[i]) \/ \E k \in DOMAIN todo : todo[k] = job.roots[i]
      BY <3>1, <1>4
    <3>2. CASE stack[Len(stack)].type = job.roots[i]
      BY <3>2, <1>2, <1>3
    <3> QED
      BY <3>1, <3>2 DEF IInv, RootInv
  <2> QED
    BY <2>1, <1>1 DEF IInv, RootInv
<1>8. VisitInv'
  <2>1. \A t \in DOMAIN seen' : Reached(job, t) /\ Needs(job, t)
    BY <1>3 DEF IInv, VisitInv
  <2>2. ASSUME NEW i \in DOMAIN stack', NEW k \in Steps(job, stack'[i].type), k < stack'[i].next
        PROVE  Finished(job, seen', stack'[i].type, k)
    BY <2>2, <1>2, <1>5 DEF IInv, VisitInv
  <2>3. stack' # <<>> => Covers(job, DOMAIN seen', To(job, stack'[1].type, stack'[1].next))
    <3> SUFFICES ASSUME stack' # <<>>
                 PROVE  Covers(job, DOMAIN seen', To(job, stack'[1].type, stack'[1].next))
      OBVIOUS
    <3>1. 2 \in DOMAIN stack /\ stack'[1] = stack[2] /\ 2 # 1 /\ 2 - 1 = 1
      BY <1>2
    <3>2. stack[1].type = To(job, stack[2].type, stack[2].next)
      BY <3>1 DEF IInv, StackInv
    <3> QED
      BY <3>1, <3>2, <1>3
  <2>4. ASSUME NEW t \in DOMAIN seen'
        PROVE  \/ IsStruct(job, t) /\ \E i \in DOMAIN stack' : stack'[i].type = t /\ stack'[i].next # 0
               \/ \A k \in Steps(job, t) : Finished(job, seen', t, k)
    <3>1. CASE t \in DOMAIN seen /\ \A k \in Steps(job, t) : Finished(job, seen, t, k)
      BY <3>1, <1>5
    <3>2. CASE /\ t \in DOMAIN seen /\ IsStruct(job, t)
               /\ \E i \in DOMAIN stack : stack[i].type = t /\ stack[i].next # 0
      <4>1. PICK i \in DOMAIN stack : stack[i].type = t /\ stack[i].next # 0
        BY <3>2
      <4>2. CASE i = 1
        BY <4>1, <4>2, <1>3
      <4>3. CASE i # 1
        <5>1. i - 1 \in DOMAIN stack' /\ (i - 1) + 1 = i
          BY <1>2, <4>3
        <5>2. stack'[i - 1] = stack[i]
          BY <5>1, <1>2
        <5> QED
          BY <5>1, <5>2, <4>1, <3>2
      <4> QED
        BY <4>2, <4>3
    <3>3. CASE t \notin DOMAIN seen
      BY <3>3
    <3> QED
      BY <3>1, <3>2, <3>3 DEF IInv, VisitInv
  <2>5. status' # "done"
    BY <1>1
  <2> QED
    BY <2>1, <2>2, <2>3, <2>4, <2>5, <1>1 DEF VisitInv
<1> QED
  BY <1>6, <1>7, <1>8

\* visitType goes on to part n of its type.
LEMMA TopKeeps ==
  ASSUME IInv, Running, NEW n, SetTop(n, FALSE), UNCHANGED <<job, todo, status>>,
         Grows(seen, seen'),
         \A t \in DOMAIN seen' : t \in DOMAIN seen \/ t = top.type,
         top.type \in DOMAIN seen' => Needs(job, top.type),
         n \in 1 .. Len(job.graph[top.type].parts) + 1,
         \/ IsStruct(job, top.type) /\ top.type \in DOMAIN seen'
         \/ IsContainer(job, top.type) /\ (top.type \in DOMAIN seen' => top.type \in DOMAIN seen),
         \A k \in Steps(job, top.type) : k < n => Finished(job, seen', top.type, k)
  PROVE  StackInv' /\ RootInv' /\ VisitInv'
<1> DEFINE x == [top EXCEPT !.next = n, !.back = FALSE]
<1>1. /\ stack # <<>> /\ stack \in Seq(Frames(job)) /\ stack' = <<x>> \o Tail(stack)
      /\ job' = job /\ todo' = todo /\ status' = status /\ status = "running"
      /\ DOMAIN seen \subseteq DOMAIN seen'
  BY DEF Running, SetTop, IInv, TypeOK, Grows
<1>2. /\ 1 \in DOMAIN stack /\ top = stack[1] /\ top \in Frames(job) /\ Reached(job, top.type)
      /\ Len(stack) \in DOMAIN stack
  BY <1>1, TopFacts
<1>3. /\ x \in Frames(job) /\ x.type = top.type /\ x.ptr = top.ptr /\ x.next = n /\ x.back = FALSE
      /\ n # 0
  <2>1. n \in Nat /\ n # 0
    OBVIOUS
  <2> QED
    BY <1>2, <2>1 DEF Frames
<1> HIDE DEF x
<1>4. /\ DOMAIN stack' = DOMAIN stack /\ Len(stack') = Len(stack) /\ stack' # <<>>
      /\ stack'[1] = x /\ \A i \in DOMAIN stack : i # 1 => stack'[i] = stack[i]
  BY <1>1, <1>3, StackTop
<1>5. \A i \in DOMAIN stack : stack'[i].type = stack[i].type /\ stack'[i].ptr = stack[i].ptr
  BY <1>2, <1>3, <1>4
<1>6. \A t : Covers(job, DOMAIN seen, t) => Covers(job, DOMAIN seen', t)
  BY <1>1, CoverGrows
<1>7. \A t, k : Finished(job, seen, t, k) => Finished(job, seen', t, k)
  BY FinishedStays
<1>8. StackInv'
  <2>1. ASSUME NEW i \in DOMAIN stack
        PROVE  LET f == stack'[i] IN
               /\ f.next \in 0 .. Len(job.graph[f.type].parts) + 1
               /\ f.next # 0 => IsContainer(job, f.type) \/ IsStruct(job, f.type)
               /\ f.next # 0 /\ IsStruct(job, f.type) => f.type \in DOMAIN seen'
               /\ f.back => f.next \in Steps(job, f.type)
               /\ i # 1 => f.back /\ stack'[i - 1].type = To(job, f.type, f.next)
               /\ Reached(job, f.type)
               /\ f.ptr => Pointed(job, f.type)
    <3>1. CASE i = 1
      <4>1. n \in 0 .. Len(job.graph[top.type].parts) + 1
        BY <1>3
      <4>2. top.ptr => Pointed(job, top.type)
        BY <1>2 DEF IInv, StackInv
      <4> QED
        BY <3>1, <4>1, <4>2, <1>2, <1>3, <1>4 DEF IsContainer, IsStruct, Containers
    <3>2. CASE i # 1
      <4>1. i - 1 \in DOMAIN stack
        BY <1>1, <3>2
      <4>2. stack'[i] = stack[i] /\ stack'[i - 1].type = stack[i - 1].type
        BY <4>1, <1>4, <1>5, <3>2
      <4> QED
        BY <3>2, <4>2, <1>1 DEF IInv, StackInv
    <3> QED
      BY <3>1, <3>2
  <2>2. ASSUME NEW i \in DOMAIN stack, NEW k \in DOMAIN stack, i < k
        PROVE  Leads(job, stack'[k].type, stack'[i].type)
    BY <2>2, <1>5 DEF IInv, StackInv
  <2> QED
    BY <2>1, <2>2, <1>1, <1>4 DEF StackInv
<1>9. RootInv'
  <2>1. stack'[Len(stack')].type = stack[Len(stack)].type
    BY <1>2, <1>4, <1>5
  <2> QED
    BY <2>1, <1>1, <1>4, <1>6 DEF IInv, RootInv
<1>10. VisitInv'
  <2>1. \A t \in DOMAIN seen' : Reached(job, t) /\ Needs(job, t)
    BY <1>2 DEF IInv, VisitInv
  <2>2. ASSUME NEW i \in DOMAIN stack, NEW k \in Steps(job, stack'[i].type), k < stack'[i].next
        PROVE  Finished(job, seen', stack'[i].type, k)
    <3>1. CASE i = 1
      BY <2>2, <3>1, <1>3, <1>4
    <3>2. CASE i # 1
      BY <2>2, <3>2, <1>4, <1>7 DEF IInv, VisitInv
    <3> QED
      BY <3>1, <3>2
  <2>3. stack'[1].back = FALSE
    BY <1>3, <1>4
  <2>4. ASSUME NEW t \in DOMAIN seen'
        PROVE  \/ IsStruct(job, t) /\ \E i \in DOMAIN stack : stack'[i].type = t /\ stack'[i].next # 0
               \/ \A k \in Steps(job, t) : Finished(job, seen', t, k)
    <3>1. CASE t \in DOMAIN seen /\ \A k \in Steps(job, t) : Finished(job, seen, t, k)
      BY <3>1, <1>7
    <3>2. CASE /\ t \in DOMAIN seen /\ IsStruct(job, t)
               /\ \E i \in DOMAIN stack : stack[i].type = t /\ stack[i].next # 0
      BY <3>2, <1>2, <1>3, <1>4
    <3>3. CASE t \notin DOMAIN seen
      BY <3>3, <1>2, <1>3, <1>4
    <3> QED
      BY <3>1, <3>2, <3>3 DEF IInv, VisitInv
  <2>5. \A t \in DOMAIN seen' :
          \/ IsStruct(job', t) /\ \E i \in DOMAIN stack' : stack'[i].type = t /\ stack'[i].next # 0
          \/ \A k \in Steps(job', t) : Finished(job', seen', t, k)
    BY <2>4, <1>1, <1>4
  <2>6. status' # "done"
    BY <1>1
  <2>7. \A i \in DOMAIN stack' : \A k \in Steps(job', stack'[i].type) :
          k < stack'[i].next => Finished(job', seen', stack'[i].type, k)
    BY <2>2, <1>1, <1>4
  <2> QED
    BY <2>1, <2>3, <2>5, <2>6, <2>7, <1>1 DEF VisitInv
<1> QED
  BY <1>8, <1>9, <1>10

\* visitType calls itself for a part of its type.
LEMMA CallKeeps ==
  ASSUME IInv, Running, NEW p \in BOOLEAN, top.next \in Steps(job, top.type), ~top.back,
         stack' = <<Frame(To(job, top.type, top.next), p), [top EXCEPT !.back = TRUE]>> \o Tail(stack),
         UNCHANGED <<job, todo, status, seen>>,
         p => Pointed(job, To(job, top.type, top.next))
  PROVE  StackInv' /\ RootInv' /\ VisitInv' /\ stack' \in Seq(Frames(job))
<1> DEFINE x == [top EXCEPT !.back = TRUE]
           y == Frame(To(job, top.type, top.next), p)
<1>1. /\ stack # <<>> /\ stack \in Seq(Frames(job)) /\ stack' = <<y, x>> \o Tail(stack)
      /\ job' = job /\ todo' = todo /\ status' = status /\ status = "running" /\ seen' = seen
      /\ job \in Jobs
  BY DEF Running, IInv, TypeOK
<1>2. /\ 1 \in DOMAIN stack /\ top = stack[1] /\ top \in Frames(job) /\ Reached(job, top.type)
      /\ Len(stack) \in DOMAIN stack /\ top.type \in Types(job)
  BY <1>1, TopFacts
<1>3. x \in Frames(job) /\ x.type = top.type /\ x.ptr = top.ptr /\ x.next = top.next /\ x.back = TRUE
  BY <1>2 DEF Frames
<1>4. To(job, top.type, top.next) \in Types(job)
  BY <1>1, <1>2, GraphFacts
<1>5. /\ y \in Frames(job) /\ y.type = To(job, top.type, top.next) /\ y.ptr = p
      /\ y.next = 0 /\ y.back = FALSE
  BY <1>4 DEF Frames, Frame
<1> HIDE DEF x, y
<1>6. /\ stack' \in Seq(Frames(job)) /\ DOMAIN stack' = 1 .. Len(stack) + 1
      /\ Len(stack') = Len(stack) + 1 /\ stack' # <<>>
      /\ stack'[1] = y /\ stack'[2] = x /\ DOMAIN stack = 1 .. Len(stack) /\ Len(stack) \in Nat
      /\ \A i \in DOMAIN stack' : i \notin {1, 2} => i - 1 \in DOMAIN stack /\ stack'[i] = stack[i - 1]
  <2> DEFINE r == <<y, x>> \o Tail(stack)
             S == Frames(job)
  <2>1. stack \in Seq(S) /\ stack # <<>> /\ x \in S /\ y \in S
    BY <1>1, <1>3, <1>5
  <2>2. DOMAIN stack = 1 .. Len(stack) /\ Len(stack) \in Nat
    BY <1>1
  <2> HIDE DEF S
  <2>3. /\ r \in Seq(S) /\ DOMAIN r = 1 .. Len(stack) + 1 /\ Len(r) = Len(stack) + 1 /\ r # <<>>
        /\ r[1] = y /\ r[2] = x
        /\ \A i \in DOMAIN r : i \notin {1, 2} => i - 1 \in DOMAIN stack /\ r[i] = stack[i - 1]
    BY <2>1, StackPush
  <2> HIDE DEF r
  <2> QED
    BY <2>2, <2>3, <1>1 DEF r, S
<1>7. \A i \in DOMAIN stack' : i # 1 =>
        /\ i - 1 \in DOMAIN stack
        /\ stack'[i].type = stack[i - 1].type /\ stack'[i].ptr = stack[i - 1].ptr
        /\ stack'[i].next = stack[i - 1].next
  <2> SUFFICES ASSUME NEW i \in DOMAIN stack', i # 1
               PROVE  /\ i - 1 \in DOMAIN stack
                      /\ stack'[i].type = stack[i - 1].type /\ stack'[i].ptr = stack[i - 1].ptr
                      /\ stack'[i].next = stack[i - 1].next
    OBVIOUS
  <2>1. CASE i = 2
    <3>1. i - 1 = 1
      BY <2>1
    <3> QED
      BY <2>1, <3>1, <1>2, <1>3, <1>6
  <2>2. CASE i # 2
    BY <2>2, <1>6
  <2> QED
    BY <2>1, <2>2
<1>8. StackInv'
  <2>1. ASSUME NEW i \in DOMAIN stack'
        PROVE  LET f == stack'[i] IN
               /\ f.next \in 0 .. Len(job.graph[f.type].parts) + 1
               /\ f.next # 0 => IsContainer(job, f.type) \/ IsStruct(job, f.type)
               /\ f.next # 0 /\ IsStruct(job, f.type) => f.type \in DOMAIN seen
               /\ f.back => f.next \in Steps(job, f.type)
               /\ i # 1 => f.back /\ stack'[i - 1].type = To(job, f.type, f.next)
               /\ Reached(job, f.type)
               /\ f.ptr => Pointed(job, f.type)
    <3>1. CASE i = 1
      <4>1. Reached(job, y.type)
        BY <1>2, <1>5, ReachedStep
      <4>2. Len(job.graph[y.type].parts) \in Nat
        BY <1>1, <1>4, <1>5, GraphFacts
      <4>3. 0 \in 0 .. Len(job.graph[y.type].parts) + 1
        BY <4>2
      <4> QED
        BY <3>1, <4>1, <4>3, <1>5, <1>6
    <3>2. CASE i = 2
      <4>1. i - 1 = 1
        BY <3>2
      <4>2. /\ top.next \in 0 .. Len(job.graph[top.type].parts) + 1
            /\ top.next # 0 => IsContainer(job, top.type) \/ IsStruct(job, top.type)
            /\ top.next # 0 /\ IsStruct(job, top.type) => top.type \in DOMAIN seen
            /\ top.ptr => Pointed(job, top.type)
        BY <1>2 DEF IInv, StackInv
      <4>3. stack'[i] = x /\ stack'[i - 1] = y
        BY <3>2, <4>1, <1>6
      <4> QED
        BY <4>2, <4>3, <1>2, <1>3, <1>5
    <3>3. CASE i \notin {1, 2}
      <4>1. i - 1 \in DOMAIN stack /\ i - 1 # 1 /\ i - 1 \in DOMAIN stack' /\ i - 1 # 0
        BY <3>3, <1>6
      <4>2. stack'[i] = stack[i - 1] /\ stack'[i - 1].type = stack[(i - 1) - 1].type
        BY <3>3, <4>1, <1>6, <1>7
      <4> QED
        BY <4>1, <4>2 DEF IInv, StackInv
    <3> QED
      BY <3>1, <3>2, <3>3
  <2>2. ASSUME NEW i \in DOMAIN stack', NEW k \in DOMAIN stack', i < k
        PROVE  Leads(job, stack'[k].type, stack'[i].type)
    <3>1. k # 1 /\ k - 1 \in DOMAIN stack /\ stack'[k].type = stack[k - 1].type
      <4>1. k # 1
        BY <2>2, <1>6
      <4> QED
        BY <4>1, <1>7
    <3>2. CASE i = 1
      <4>1. CASE k = 2
        <5>1. Leads(job, top.type, To(job, top.type, top.next))
          BY LeadsStep
        <5> QED
          BY <3>2, <4>1, <5>1, <1>3, <1>5, <1>6
      <4>2. CASE k # 2
        <5>1. 1 < k - 1
          BY <3>1, <4>2, <1>6
        <5>2. Leads(job, stack[k - 1].type, top.type)
          BY <5>1, <3>1, <1>2 DEF IInv, StackInv
        <5> QED
          BY <5>2, <3>1, <3>2, <1>5, <1>6, LeadsStep
      <4> QED
        BY <4>1, <4>2
    <3>3. CASE i # 1
      <4>1. i - 1 \in DOMAIN stack /\ stack'[i].type = stack[i - 1].type
        BY <3>3, <1>7
      <4>2. i - 1 < k - 1
        BY <2>2, <1>6
      <4> QED
        BY <3>1, <4>1, <4>2 DEF IInv, StackInv
    <3> QED
      BY <3>2, <3>3
  <2> QED
    BY <2>1, <2>2, <1>1, <1>6 DEF StackInv
<1>9. RootInv'
  <2>1. stack'[Len(stack')].type = stack[Len(stack)].type
    <3>1. Len(stack) + 1 \in DOMAIN stack' /\ Len(stack) + 1 # 1 /\ (Len(stack) + 1) - 1 = Len(stack)
      BY <1>2, <1>6
    <3> QED
      BY <3>1, <1>6, <1>7
  <2> QED
    BY <2>1, <1>1, <1>6 DEF IInv, RootInv
<1>10. VisitInv'
  <2>1. \A t \in DOMAIN seen : Reached(job, t) /\ Needs(job, t)
    BY DEF IInv, VisitInv
  <2>2. ASSUME NEW i \in DOMAIN stack', NEW k \in Steps(job, stack'[i].type), k < stack'[i].next
        PROVE  Finished(job, seen, stack'[i].type, k)
    <3>1. CASE i = 1
      <4>1. k \in Nat
        <5>1. y.type \in Types(job)
          BY <1>4, <1>5
        <5>2. Steps(job, y.type) \subseteq DOMAIN job.graph[y.type].parts
          BY <5>1, <1>1, GraphFacts
        <5>3. job.graph[y.type].parts \in Seq(PartOf(Types(job)))
          BY <5>1, <1>1, GraphFacts
        <5>4. k \in DOMAIN job.graph[y.type].parts
          BY <5>2, <3>1, <1>6
        <5> QED
          BY <5>3, <5>4
      <4> QED
        BY <2>2, <3>1, <4>1, <1>5, <1>6
    <3>2. CASE i # 1
      BY <2>2, <3>2, <1>7 DEF IInv, VisitInv
    <3> QED
      BY <3>1, <3>2
  <2>3. stack'[1].back = FALSE
    BY <1>5, <1>6
  <2>4. ASSUME NEW t \in DOMAIN seen
        PROVE  \/ IsStruct(job, t) /\ \E i \in DOMAIN stack' : stack'[i].type = t /\ stack'[i].next # 0
               \/ \A k \in Steps(job, t) : Finished(job, seen, t, k)
    <3>1. CASE \A k \in Steps(job, t) : Finished(job, seen, t, k)
      BY <3>1
    <3>2. CASE IsStruct(job, t) /\ \E i \in DOMAIN stack : stack[i].type = t /\ stack[i].next # 0
      <4>1. PICK i \in DOMAIN stack : stack[i].type = t /\ stack[i].next # 0
        BY <3>2
      <4>2. i + 1 \in DOMAIN stack' /\ i + 1 # 1 /\ (i + 1) - 1 = i
        BY <1>6
      <4> QED
        BY <4>1, <4>2, <3>2, <1>7
    <3> QED
      BY <3>1, <3>2 DEF IInv, VisitInv
  <2>5. status' # "done"
    BY <1>1
  <2> QED
    BY <2>1, <2>2, <2>3, <2>4, <2>5, <1>1 DEF VisitInv
<1> QED
  BY <1>6, <1>8, <1>9, <1>10

\* The process ends inside a call; the type of the call may be marked before.
LEMMA StopKeeps ==
  ASSUME IInv, Running, UNCHANGED <<job, todo, stack>>, status' \in {"overflow", "panic"},
         Grows(seen, seen'),
         \A t \in DOMAIN seen' :
           t \in DOMAIN seen \/ (t = top.type /\ Steps(job, t) = {} /\ Needs(job, t))
  PROVE  StackInv' /\ RootInv' /\ VisitInv'
<1>1. /\ job' = job /\ todo' = todo /\ stack' = stack /\ status' # "done" /\ stack # <<>>
      /\ DOMAIN seen \subseteq DOMAIN seen'
  BY DEF Running, Grows
<1>2. \A t : Covers(job, DOMAIN seen, t) => Covers(job, DOMAIN seen', t)
  BY <1>1, CoverGrows
<1>3. \A t, k : Finished(job, seen, t, k) => Finished(job, seen', t, k)
  BY FinishedStays
<1>4. Reached(job, top.type)
  BY <1>1, TopFacts
<1>5. StackInv'
  BY <1>1 DEF IInv, StackInv
<1>6. RootInv'
  BY <1>1, <1>2 DEF IInv, RootInv
<1>7. VisitInv'
  <2>1. \A t \in DOMAIN seen' : Reached(job, t) /\ Needs(job, t)
    BY <1>4 DEF IInv, VisitInv
  <2>2. \A i \in DOMAIN stack : \A k \in Steps(job, stack[i].type) :
          k < stack[i].next => Finished(job, seen', stack[i].type, k)
    BY <1>3 DEF IInv, VisitInv
  <2>3. stack[1].back => Covers(job, DOMAIN seen', To(job, stack[1].type, stack[1].next))
    BY <1>1, <1>2 DEF IInv, VisitInv
  <2>4. \A t \in DOMAIN seen' :
          \/ IsStruct(job, t) /\ \E i \in DOMAIN stack : stack[i].type = t /\ stack[i].next # 0
          \/ \A k \in Steps(job, t) : Finished(job, seen', t, k)
    BY <1>3 DEF IInv, VisitInv
  <2> QED
    BY <2>1, <2>2, <2>3, <2>4, <1>1 DEF VisitInv
<1> QED
  BY <1>5, <1>6, <1>7

-----------------------------------------------------------------------------
(* What is marked, and its name *)

\* OrderInv stays if what is marked twice is a container on a cycle.
LEMMA OrderKeeps ==
  ASSUME IInv, job' = job,
         \/ order' = order /\ DOMAIN seen' = DOMAIN seen
         \/ /\ order' = Append(order, top.type) /\ DOMAIN seen' = DOMAIN seen \cup {top.type}
            /\ \/ top.type \notin DOMAIN seen
               \/ IsContainer(job, top.type) /\ Leads(job, top.type, top.type),
         \A i \in DOMAIN stack' :
           stack'[i].next # 0 /\ IsContainer(job, stack'[i].type) /\ stack'[i].type \in DOMAIN seen' =>
             \/ Leads(job, stack'[i].type, stack'[i].type)
             \/ \E k \in DOMAIN stack : /\ stack[k].type = stack'[i].type /\ stack[k].next # 0
                                        /\ stack[k].type \in DOMAIN seen
  PROVE  OrderInv'
<1>1. order \in Seq(DOMAIN seen)
  BY DEF IInv, TypeOK
<1>2. ASSUME NEW i \in DOMAIN order', NEW k \in DOMAIN order', order'[i] = order'[k], i # k
      PROVE  IsContainer(job, order'[i]) /\ Leads(job, order'[i], order'[i])
  <2>1. CASE order' = order
    BY <1>2, <2>1 DEF IInv, OrderInv
  <2>2. CASE /\ order' = Append(order, top.type)
             /\ \/ top.type \notin DOMAIN seen
                \/ IsContainer(job, top.type) /\ Leads(job, top.type, top.type)
    <3>1. /\ i \in DOMAIN order => order'[i] = order[i] /\ order[i] \in DOMAIN seen
          /\ i \notin DOMAIN order => order'[i] = top.type /\ i = Len(order) + 1
      BY <1>1, <2>2
    <3>2. /\ k \in DOMAIN order => order'[k] = order[k] /\ order[k] \in DOMAIN seen
          /\ k \notin DOMAIN order => order'[k] = top.type /\ k = Len(order) + 1
      BY <1>1, <2>2
    <3>3. CASE i \in DOMAIN order /\ k \in DOMAIN order
      BY <1>2, <3>1, <3>2, <3>3 DEF IInv, OrderInv
    <3>4. CASE ~(i \in DOMAIN order /\ k \in DOMAIN order)
      BY <1>2, <2>2, <3>1, <3>2, <3>4
    <3> QED
      BY <3>3, <3>4
  <2> QED
    BY <2>1, <2>2
<1>3. ASSUME NEW i \in DOMAIN stack', stack'[i].next # 0, IsContainer(job, stack'[i].type),
             stack'[i].type \in DOMAIN seen'
      PROVE  Leads(job, stack'[i].type, stack'[i].type)
  BY <1>3 DEF IInv, OrderInv
<1> QED
  BY <1>2, <1>3 DEF OrderInv

\* A type is marked: its own name is put down.
LEMMA MarkKeeps ==
  ASSUME IInv, job' = job, NEW t \in Types(job), NEW v \in {"none", "all", "lost"}, markVisit(t, v),
         t \notin DOMAIN seen \/ job.graph[t].name # <<>>,
         job.graph[t].kind = "enum" => v = "all" \/ Pointed(job, t)
  PROVE  /\ DOMAIN seen' = DOMAIN seen \cup {t} /\ DOMAIN seen' \subseteq Types(job)
         /\ seen' \in [DOMAIN seen' -> Records]
         /\ order' = Append(order, t) /\ order' \in Seq(DOMAIN seen')
         /\ Grows(seen, seen')
         /\ NameInv'
<1>1. /\ seen \in [DOMAIN seen -> Records] /\ DOMAIN seen \subseteq Types(job) /\ job \in Jobs
      /\ order \in Seq(DOMAIN seen)
  BY DEF IInv, TypeOK
<1>2. /\ DOMAIN seen' = DOMAIN seen \cup {t} /\ order' = Append(order, t)
      /\ seen'[t] = [name |-> job.graph[t].name, values |-> v]
      /\ \A u \in DOMAIN seen : u # t => seen'[u] = seen[u]
      /\ seen' = [u \in DOMAIN seen' |-> seen'[u]]
  BY DEF markVisit, Node
<1>3. job.graph[t].name \in Seq(STRING)
  BY <1>1, GraphFacts
<1>4. seen'[t] \in Records /\ seen'[t].name = job.graph[t].name /\ seen'[t].values = v
  BY <1>2, <1>3 DEF Records
<1>5. \A u \in DOMAIN seen' : seen'[u] \in Records
  BY <1>1, <1>2, <1>4
<1>6. Grows(seen, seen')
  BY <1>2, <1>4 DEF Grows
<1>7. order' \in Seq(DOMAIN seen')
  BY <1>1, <1>2
<1>8. NameInv'
  <2>1. ASSUME NEW u \in DOMAIN seen'
        PROVE  /\ job.graph[u].kind = "enum" /\ seen'[u].values # "all" => Pointed(job, u)
               /\ job.graph[u].name # <<>> => seen'[u].name = job.graph[u].name
               /\ job.graph[u].name = <<>> /\ seen'[u].name # <<>> =>
                    ByOwner(job, DOMAIN seen', u, seen'[u].name)
    <3>1. CASE u = t
      BY <3>1, <1>4
    <3>2. CASE u # t
      <4>1. u \in DOMAIN seen /\ seen'[u] = seen[u]
        BY <3>2, <1>2
      <4>2. seen[u].name # <<>> /\ job.graph[u].name = <<>> => ByOwner(job, DOMAIN seen', u, seen[u].name)
        BY <4>1, <1>2, ByOwnerStays DEF IInv, NameInv
      <4> QED
        BY <4>1, <4>2 DEF IInv, NameInv
    <3> QED
      BY <3>1, <3>2
  <2> QED
    BY <2>1 DEF NameInv
<1> QED
  BY <1>1, <1>2, <1>5, <1>6, <1>7, <1>8

\* A struct without a name gets one from the struct and the field it is in.
LEMMA NameKeeps ==
  ASSUME IInv, Running, job' = job, NEW k \in Steps(job, top.type), top.next = k,
         IsStruct(job, top.type), top.type \in DOMAIN seen,
         To(job, top.type, k) \in DOMAIN seen, IsNameless(job, To(job, top.type, k)),
         seen' = [seen EXCEPT ![To(job, top.type, k)].name =
                    seen[top.type].name \o <<job.graph[top.type].parts[k].key>>]
  PROVE  /\ DOMAIN seen' = DOMAIN seen /\ seen' \in [DOMAIN seen' -> Records]
         /\ Grows(seen, seen')
         /\ seen'[To(job, top.type, k)].name # <<>>
         /\ NameInv'
<1> DEFINE t == To(job, top.type, k)
           n == seen[top.type].name
           c == job.graph[top.type].parts[k].key
<1>1. seen \in [DOMAIN seen -> Records] /\ job \in Jobs /\ top.type \in Types(job)
  BY DEF IInv, TypeOK
<1>2. n \in Seq(STRING) /\ c \in STRING
  <2>1. job.graph[top.type].parts \in Seq(PartOf(Types(job))) /\ k \in DOMAIN job.graph[top.type].parts
    BY <1>1, GraphFacts
  <2>2. job.graph[top.type].parts[k] \in PartOf(Types(job))
    BY <2>1
  <2> QED
    BY <2>2, <1>1 DEF PartOf, Records
<1>3. n \o <<c>> \in Seq(STRING) /\ n \o <<c>> # <<>>
  <2> HIDE DEF n, c
  <2>1. <<c>> \in Seq(STRING) /\ Len(<<c>>) = 1
    BY <1>2
  <2>2. n \o <<c>> \in Seq(STRING) /\ Len(n \o <<c>>) = Len(n) + 1 /\ Len(n) \in Nat
    BY <1>2, <2>1
  <2> QED
    BY <2>2
<1> HIDE DEF n, c
<1>4. t \in DOMAIN seen /\ seen[t] \in Records
  BY <1>1
<1>5. /\ DOMAIN seen' = DOMAIN seen /\ seen' = [u \in DOMAIN seen' |-> seen'[u]]
      /\ \A u \in DOMAIN seen : u # t => seen'[u] = seen[u]
      /\ seen'[t] = [seen[t] EXCEPT !.name = n \o <<c>>]
  BY <1>1 DEF n, c
<1>6. seen'[t] \in Records /\ seen'[t].name = n \o <<c>> /\ seen'[t].values = seen[t].values
  BY <1>3, <1>4, <1>5 DEF Records
<1>7. Grows(seen, seen')
  BY <1>3, <1>5, <1>6 DEF Grows
<1>8. \A u \in DOMAIN seen' : seen'[u] \in Records
  BY <1>1, <1>5, <1>6
<1>9. NameInv'
  <2>1. ASSUME NEW u \in DOMAIN seen
        PROVE  /\ job.graph[u].kind = "enum" /\ seen'[u].values # "all" => Pointed(job, u)
               /\ job.graph[u].name # <<>> => seen'[u].name = job.graph[u].name
               /\ job.graph[u].name = <<>> /\ seen'[u].name # <<>> =>
                    ByOwner(job, DOMAIN seen', u, seen'[u].name)
    <3>1. CASE u = t
      <4>1. job.graph[t].name = <<>>
        BY DEF IsNameless
      <4>2. job.graph[top.type].name # <<>> => n = job.graph[top.type].name
        BY DEF IInv, NameInv, n
      <4>3. job.graph[t].kind = "enum" /\ seen'[t].values # "all" => Pointed(job, t)
        BY <1>4, <1>6 DEF IInv, NameInv
      <4>4. ByOwner(job, DOMAIN seen, t, n \o <<c>>)
        BY <4>2 DEF ByOwner, c
      <4> QED
        BY <3>1, <4>1, <4>3, <4>4, <1>5, <1>6
    <3>2. CASE u # t
      BY <3>2, <1>5 DEF IInv, NameInv
    <3> QED
      BY <3>1, <3>2
  <2> QED
    BY <2>1, <1>5 DEF NameInv
<1> QED
  BY <1>3, <1>5, <1>6, <1>7, <1>8, <1>9

-----------------------------------------------------------------------------
(* Every step keeps the invariant *)

\* The steps after which nothing but the stack has changed.
LEMMA QuietKeeps ==
  ASSUME IInv, UNCHANGED <<job, todo, seen, order>>, stack' \in Seq(Frames(job)),
         status' \in {"running", "done", "overflow", "panic"},
         StackInv', RootInv', VisitInv',
         \A i \in DOMAIN stack' :
           \/ stack'[i].next = 0 \/ stack'[i].type \notin DOMAIN seen
           \/ \E k \in DOMAIN stack : stack[k].type = stack'[i].type /\ stack[k].next # 0
  PROVE  IInv'
<1>1. TypeOK'
  BY DEF IInv, TypeOK
<1>2. OrderInv'
  BY OrderKeeps
<1>3. NameInv'
  BY DEF IInv, NameInv
<1> QED
  BY <1>1, <1>2, <1>3 DEF IInv

\* IsVisited and VisitOther keep the invariant: what they return from is covered,
\* being marked, with its parts if it is a container, or needing no mark.
LEMMA VisitedKeeps ==
  ASSUME IInv, IsVisited \/ VisitOther
  PROVE  IInv'
<1>1. /\ Running /\ Return /\ top.next = 0 /\ UNCHANGED <<job, todo, seen, order, status>>
      /\ stack # <<>> /\ stack \in Seq(Frames(job)) /\ job \in Jobs
  BY DEF IsVisited, VisitOther, Entering, Running, IInv, TypeOK
<1>2. top.type \in Types(job) /\ top \in Frames(job)
  BY <1>1, TopFacts
<1>3. Covers(job, DOMAIN seen, top.type)
  <2>1. CASE IsVisited
    <3>1. top.type \in DOMAIN seen
      BY <2>1 DEF IsVisited
    <3>2. CASE IsContainer(job, top.type)
      <4>1. \A k \in Steps(job, top.type) : Finished(job, seen, top.type, k)
        BY <3>1, <3>2, <1>1, <1>2, GraphFacts DEF IInv, VisitInv
      <4> QED
        BY <4>1, <3>1, <1>1, <1>2, CoverContainer DEF Finished
    <3>3. CASE ~IsContainer(job, top.type)
      BY <3>1, <3>3, <1>1, <1>2, CoverLeaf
    <3> QED
      BY <3>2, <3>3
  <2>2. CASE VisitOther
    <3>1. ~IsContainer(job, top.type) /\ ~Needs(job, top.type)
      BY <2>2 DEF VisitOther, Entering, Node, IsContainer, Containers, Needs
    <3> QED
      BY <3>1, <1>1, <1>2, CoverLeaf
  <2> QED
    BY <2>1, <2>2
<1>4. top.type \in DOMAIN seen => Needs(job, top.type)
  BY DEF IInv, VisitInv
<1>5. Grows(seen, seen') /\ seen' = seen
  BY <1>1 DEF Grows
<1>6. StackInv' /\ RootInv' /\ VisitInv'
  BY <1>1, <1>3, <1>4, <1>5, ReturnKeeps
<1>7. /\ stack' \in Seq(Frames(job))
      /\ \A i \in DOMAIN stack' : i + 1 \in DOMAIN stack /\ stack'[i] = stack[i + 1]
  BY <1>1, StackTail DEF Return
<1>8. \A i \in DOMAIN stack' :
        \/ stack'[i].next = 0 \/ stack'[i].type \notin DOMAIN seen
        \/ \E k \in DOMAIN stack : stack[k].type = stack'[i].type /\ stack[k].next # 0
  BY <1>7
<1>9. status' \in {"running", "done", "overflow", "panic"}
  BY <1>1 DEF IInv, TypeOK
<1> QED
  BY <1>1, <1>6, <1>7, <1>8, <1>9, QuietKeeps

\* The stack after SetTop.
LEMMA TopTyped ==
  ASSUME IInv, Running, NEW n \in Nat, NEW b \in BOOLEAN, SetTop(n, b)
  PROVE  /\ stack' \in Seq(Frames(job)) /\ DOMAIN stack' = DOMAIN stack
         /\ stack'[1].type = top.type /\ stack'[1].next = n
         /\ \A i \in DOMAIN stack : i # 1 => stack'[i] = stack[i]
<1> DEFINE x == [top EXCEPT !.next = n, !.back = b]
<1>1. stack # <<>> /\ stack \in Seq(Frames(job)) /\ stack' = <<x>> \o Tail(stack)
  BY DEF Running, SetTop, IInv, TypeOK
<1>2. top \in Frames(job)
  BY <1>1, TopFacts
<1>3. x \in Frames(job) /\ x.type = top.type /\ x.next = n
  BY <1>2 DEF Frames
<1> HIDE DEF x
<1> QED
  BY <1>1, <1>3, StackTop

\* Marking a struct before its fields are visited keeps the invariant: it is on the
\* stack until they are.
LEMMA EnterStructKeeps ==
  ASSUME IInv, EnterStruct
  PROVE  IInv'
<1>1. /\ Running /\ SetTop(1, FALSE) /\ UNCHANGED <<job, todo, status>> /\ markVisit(top.type, "none")
      /\ top.type \notin DOMAIN seen /\ IsStruct(job, top.type) /\ stack # <<>> /\ job \in Jobs
  BY DEF EnterStruct, Entering, Running, Node, IsStruct, IInv, TypeOK
<1>2. top.type \in Types(job) /\ 1 \in DOMAIN stack
  BY <1>1, TopFacts
<1>3. job.graph[top.type].kind # "enum" /\ Needs(job, top.type) /\ ~IsContainer(job, top.type)
  BY <1>1 DEF IsStruct, Needs, IsContainer, Containers
<1>4. /\ DOMAIN seen' = DOMAIN seen \cup {top.type} /\ DOMAIN seen' \subseteq Types(job)
      /\ seen' \in [DOMAIN seen' -> Records] /\ Grows(seen, seen')
      /\ order' = Append(order, top.type) /\ order' \in Seq(DOMAIN seen') /\ NameInv'
  BY <1>1, <1>2, <1>3, MarkKeeps
<1>5. /\ Len(job.graph[top.type].parts) \in Nat
      /\ \A k \in Steps(job, top.type) : k \in Nat /\ ~(k < 1)
  <2>1. /\ job.graph[top.type].parts \in Seq(PartOf(Types(job)))
        /\ Steps(job, top.type) \subseteq DOMAIN job.graph[top.type].parts
    BY <1>1, <1>2, GraphFacts
  <2>2. \A k \in DOMAIN job.graph[top.type].parts : k \in Nat /\ ~(k < 1)
    BY <2>1
  <2> QED
    BY <2>1, <2>2
<1>6. 1 \in 1 .. Len(job.graph[top.type].parts) + 1
  BY <1>5
<1>7. StackInv' /\ RootInv' /\ VisitInv'
  BY <1>1, <1>3, <1>4, <1>5, <1>6, TopKeeps
<1>8. /\ stack' \in Seq(Frames(job)) /\ DOMAIN stack' = DOMAIN stack
      /\ stack'[1].type = top.type
      /\ \A i \in DOMAIN stack : i # 1 => stack'[i] = stack[i]
  BY <1>1, TopTyped
<1>9. TypeOK'
  BY <1>1, <1>4, <1>8 DEF IInv, TypeOK
<1>10. OrderInv'
  <2>1. \A i \in DOMAIN stack' :
          stack'[i].next # 0 /\ IsContainer(job, stack'[i].type) /\ stack'[i].type \in DOMAIN seen' =>
             \E k \in DOMAIN stack : /\ stack[k].type = stack'[i].type /\ stack[k].next # 0
                                     /\ stack[k].type \in DOMAIN seen
    BY <1>3, <1>4, <1>8
  <2> QED
    BY <2>1, <1>1, <1>4, OrderKeeps
<1> QED
  BY <1>4, <1>7, <1>9, <1>10 DEF IInv

\* Starting on the parts of a container keeps the invariant.
LEMMA EnterContainerKeeps ==
  ASSUME IInv, EnterContainer
  PROVE  IInv'
<1>1. /\ Running /\ SetTop(1, FALSE) /\ UNCHANGED <<job, todo, seen, order, status>>
      /\ top.type \notin DOMAIN seen /\ IsContainer(job, top.type) /\ stack # <<>> /\ job \in Jobs
  BY DEF EnterContainer, Entering, Running, Node, IsContainer, IInv, TypeOK
<1>2. top.type \in Types(job) /\ 1 \in DOMAIN stack
  BY <1>1, TopFacts
<1>3. Grows(seen, seen') /\ seen' = seen
  BY <1>1 DEF Grows
<1>4. /\ Len(job.graph[top.type].parts) \in Nat
      /\ \A k \in Steps(job, top.type) : k \in Nat /\ ~(k < 1)
  <2>1. /\ job.graph[top.type].parts \in Seq(PartOf(Types(job)))
        /\ Steps(job, top.type) \subseteq DOMAIN job.graph[top.type].parts
    BY <1>1, <1>2, GraphFacts
  <2>2. \A k \in DOMAIN job.graph[top.type].parts : k \in Nat /\ ~(k < 1)
    BY <2>1
  <2> QED
    BY <2>1, <2>2
<1>5. 1 \in 1 .. Len(job.graph[top.type].parts) + 1
  BY <1>4
<1>6. StackInv' /\ RootInv' /\ VisitInv'
  BY <1>1, <1>3, <1>4, <1>5, TopKeeps
<1>7. /\ stack' \in Seq(Frames(job)) /\ DOMAIN stack' = DOMAIN stack
      /\ stack'[1].type = top.type
      /\ \A i \in DOMAIN stack : i # 1 => stack'[i] = stack[i]
  BY <1>1, TopTyped
<1>8. \A i \in DOMAIN stack' :
        \/ stack'[i].next = 0 \/ stack'[i].type \notin DOMAIN seen
        \/ \E k \in DOMAIN stack : stack[k].type = stack'[i].type /\ stack[k].next # 0
  BY <1>1, <1>7
<1>9. status' \in {"running", "done", "overflow", "panic"}
  BY <1>1 DEF IInv, TypeOK
<1> QED
  BY <1>1, <1>6, <1>7, <1>8, <1>9, QuietKeeps

\* The part that a loop is at.
LEMMA PartFacts ==
  ASSUME IInv, Running, top.next \in DOMAIN Node(top.type).parts
  PROVE  /\ job \in Jobs /\ top.type \in Types(job) /\ Reached(job, top.type)
         /\ part = job.graph[top.type].parts[top.next] /\ part \in PartOf(Types(job))
         /\ part.type = To(job, top.type, top.next) /\ part.type \in Types(job)
         /\ top.next \in Nat \ {0}
         /\ top.next + 1 \in 1 .. Len(job.graph[top.type].parts) + 1
         /\ IsContainer(job, top.type) \/ (IsStruct(job, top.type) /\ top.type \in DOMAIN seen)
         /\ \A k \in Steps(job, top.type) :
              k < top.next + 1 /\ k # top.next => Finished(job, seen, top.type, k)
<1>1. job \in Jobs /\ top.type \in Types(job) /\ Reached(job, top.type) /\ 1 \in DOMAIN stack
      /\ top = stack[1]
  BY TopFacts DEF Running, IInv, TypeOK
<1>2. /\ job.graph[top.type].parts \in Seq(PartOf(Types(job)))
      /\ Steps(job, top.type) \subseteq DOMAIN job.graph[top.type].parts
  BY <1>1, GraphFacts
<1>3. top.next \in DOMAIN job.graph[top.type].parts
  BY DEF Node
<1>4. job.graph[top.type].parts[top.next] \in PartOf(Types(job))
  BY <1>2, <1>3
<1>5. top.next \in Nat \ {0} /\ top.next + 1 \in 1 .. Len(job.graph[top.type].parts) + 1
  <2> DEFINE n == top.next
             l == Len(job.graph[top.type].parts)
  <2>1. l \in Nat /\ DOMAIN job.graph[top.type].parts = 1 .. l
    BY <1>2
  <2> HIDE DEF n, l
  <2>2. n \in 1 .. l
    BY <2>1, <1>3 DEF n
  <2>3. n \in Nat \ {0} /\ n + 1 \in 1 .. l + 1
    BY <2>1, <2>2
  <2> QED
    BY <2>3 DEF n, l
<1>6. part = job.graph[top.type].parts[top.next]
  BY DEF part, Node
<1>7. IsContainer(job, top.type) \/ (IsStruct(job, top.type) /\ top.type \in DOMAIN seen)
  BY <1>1, <1>5 DEF IInv, StackInv
<1>8. ASSUME NEW k \in Steps(job, top.type), k < top.next + 1, k # top.next
      PROVE  Finished(job, seen, top.type, k)
  <2>1. k \in Nat
    BY <1>2
  <2>2. k < top.next
    BY <2>1, <1>5, <1>8
  <2> QED
    BY <2>2, <1>1 DEF IInv, VisitInv
<1> QED
  BY <1>1, <1>4, <1>5, <1>6, <1>7, <1>8 DEF To, PartOf

\* A field that is not followed keeps the invariant: it is no step of its struct.
LEMMA SkipFieldKeeps ==
  ASSUME IInv, SkipField
  PROVE  IInv'
<1>1. /\ Running /\ SetTop(top.next + 1, FALSE) /\ UNCHANGED <<job, todo, seen, order, status>>
      /\ top.next \in DOMAIN Node(top.type).parts /\ IsStruct(job, top.type) /\ ~Followed(part)
      /\ stack # <<>>
  BY DEF SkipField, Looping, Running, Node, IsStruct
<1>2. /\ top.next + 1 \in 1 .. Len(job.graph[top.type].parts) + 1 /\ top.next \in Nat \ {0}
      /\ part = job.graph[top.type].parts[top.next]
      /\ top.type \in DOMAIN seen
      /\ \A k \in Steps(job, top.type) :
           k < top.next + 1 /\ k # top.next => Finished(job, seen, top.type, k)
  BY <1>1, PartFacts DEF IsContainer, IsStruct, Containers
<1>3. top.next \notin Steps(job, top.type)
  BY <1>1, <1>2 DEF Steps
<1>4. Grows(seen, seen') /\ seen' = seen /\ Needs(job, top.type)
  BY <1>1 DEF Grows, Needs, IsStruct
<1>5. \A k \in Steps(job, top.type) : k < top.next + 1 => Finished(job, seen', top.type, k)
  BY <1>2, <1>3, <1>4
<1>6. StackInv' /\ RootInv' /\ VisitInv'
  BY <1>1, <1>2, <1>4, <1>5, TopKeeps
<1>7. top.next + 1 \in Nat
  BY <1>2
<1>8. /\ stack' \in Seq(Frames(job)) /\ DOMAIN stack' = DOMAIN stack
      /\ stack'[1].type = top.type
      /\ \A i \in DOMAIN stack : i # 1 => stack'[i] = stack[i]
  BY <1>1, <1>7, TopTyped
<1>9. top = stack[1] /\ 1 \in DOMAIN stack
  BY <1>1, TopFacts
<1>10. \A i \in DOMAIN stack' :
        \/ stack'[i].next = 0 \/ stack'[i].type \notin DOMAIN seen
        \/ \E k \in DOMAIN stack : stack[k].type = stack'[i].type /\ stack[k].next # 0
  BY <1>2, <1>8, <1>9
<1>11. status' \in {"running", "done", "overflow", "panic"}
  BY <1>1 DEF IInv, TypeOK
<1> QED
  BY <1>1, <1>6, <1>8, <1>10, <1>11, QuietKeeps

\* A call fits on the stack, or the process ends.
LEMMA CallDone ==
  ASSUME IInv, Running, NEW p \in BOOLEAN, Call(part.type, p), ~top.back,
         top.next \in Steps(job, top.type), top.next \in DOMAIN Node(top.type).parts,
         p => Pointed(job, part.type)
  PROVE  IInv'
<1>1. stack # <<>> /\ stack \in Seq(Frames(job))
  BY DEF Running, IInv, TypeOK
<1>2. part.type = To(job, top.type, top.next)
  BY PartFacts
<1>3. CASE Len(stack) < MaxStack
  <2>1. /\ stack' = <<Frame(To(job, top.type, top.next), p), [top EXCEPT !.back = TRUE]>> \o Tail(stack)
        /\ UNCHANGED <<job, todo, seen, order, status>>
    BY <1>2, <1>3 DEF Call
  <2>2. StackInv' /\ RootInv' /\ VisitInv' /\ stack' \in Seq(Frames(job))
    BY <2>1, <1>2, CallKeeps
  <2>3. \A i \in DOMAIN stack' :
          stack'[i].next = 0 \/ \E k \in DOMAIN stack : stack[k].type = stack'[i].type /\ stack[k].next # 0
    <3> DEFINE x == [top EXCEPT !.back = TRUE]
               y == Frame(To(job, top.type, top.next), p)
               r == <<y, x>> \o Tail(stack)
               S == Frames(job)
    <3>1. top = stack[1] /\ 1 \in DOMAIN stack /\ top \in Frames(job)
      BY <1>1, TopFacts
    <3>2. x \in S /\ x.type = top.type /\ x.next = top.next
      BY <3>1 DEF Frames
    <3>3. y \in S /\ y.next = 0
      BY <1>2, PartFacts DEF Frames, Frame
    <3> HIDE DEF x, y, S
    <3>4. stack \in Seq(S)
      BY <1>1 DEF S
    <3>5. /\ r[1] = y /\ r[2] = x
          /\ \A i \in DOMAIN r : i \notin {1, 2} => i - 1 \in DOMAIN stack /\ r[i] = stack[i - 1]
      BY <1>1, <3>2, <3>3, <3>4, StackPush
    <3> HIDE DEF r
    <3>6. stack' = r
      BY <2>1 DEF x, y, r
    <3> QED
      BY <3>1, <3>2, <3>3, <3>5, <3>6
  <2>4. status' \in {"running", "done", "overflow", "panic"}
    BY <2>1 DEF IInv, TypeOK
  <2> QED
    BY <2>1, <2>2, <2>3, <2>4, QuietKeeps
<1>4. CASE ~(Len(stack) < MaxStack)
  <2>1. status' = "overflow" /\ UNCHANGED <<job, todo, stack, seen, order>>
    BY <1>4 DEF Call
  <2>2. Grows(seen, seen') /\ seen' = seen
    BY <2>1 DEF Grows
  <2>3. StackInv' /\ RootInv' /\ VisitInv'
    BY <2>1, <2>2, StopKeeps
  <2> QED
    BY <1>1, <2>1, <2>3, QuietKeeps
<1> QED
  BY <1>3, <1>4

\* Visiting a field, a key or an element keeps the invariant: it is a step of the
\* type on top, so it is reached.
LEMMA VisitPartKeeps ==
  ASSUME IInv, VisitField \/ VisitElem
  PROVE  IInv'
<1>1. CASE VisitField
  <2>1. /\ Running /\ ~top.back /\ Call(part.type, FALSE)
        /\ top.next \in DOMAIN Node(top.type).parts /\ Followed(part)
    BY <1>1 DEF VisitField, Looping
  <2>2. top.next \in Steps(job, top.type)
    BY <2>1 DEF Steps, part, Node
  <2> QED
    BY <2>1, <2>2, CallDone
<1>2. CASE VisitElem
  <2>1. /\ Running /\ ~top.back /\ Call(part.type, part.ptr)
        /\ top.next \in DOMAIN Node(top.type).parts /\ IsContainer(job, top.type)
    BY <1>2 DEF VisitElem, Looping, Node, IsContainer
  <2>2. /\ job \in Jobs /\ top.type \in Types(job) /\ Reached(job, top.type)
        /\ part = job.graph[top.type].parts[top.next] /\ part.ptr \in BOOLEAN
        /\ part.type = To(job, top.type, top.next)
    BY <2>1, PartFacts DEF PartOf
  <2>3. top.next \in Steps(job, top.type)
    BY <2>1, <2>2, GraphFacts DEF Node
  <2>4. part.ptr => Pointed(job, part.type)
    BY <2>1, <2>2, <2>3, PointedStep
  <2> QED
    BY <2>1, <2>2, <2>3, <2>4, CallDone
<1> QED
  BY <1>1, <1>2

\* Going on to the next part keeps the invariant: what was visited is covered, and a
\* struct without a name got one from a struct with one.
LEMMA FieldVisitedKeeps ==
  ASSUME IInv, FieldVisited
  PROVE  IInv'
<1>1. /\ Running /\ top.back /\ SetTop(top.next + 1, FALSE) /\ UNCHANGED <<job, todo, order, status>>
      /\ stack # <<>>
  BY DEF FieldVisited, Running
<1>2. /\ top = stack[1] /\ 1 \in DOMAIN stack /\ top.type \in Types(job) /\ job \in Jobs
  BY <1>1, TopFacts DEF IInv, TypeOK
<1>3. /\ top.next \in Steps(job, top.type)
      /\ Covers(job, DOMAIN seen, To(job, top.type, top.next))
  BY <1>1, <1>2 DEF IInv, StackInv, VisitInv
<1>4. top.next \in DOMAIN Node(top.type).parts
  BY <1>2, <1>3, GraphFacts DEF Node
<1>5. /\ top.next + 1 \in 1 .. Len(job.graph[top.type].parts) + 1 /\ top.next \in Nat \ {0}
      /\ part = job.graph[top.type].parts[top.next] /\ part.type = To(job, top.type, top.next)
      /\ IsContainer(job, top.type) \/ (IsStruct(job, top.type) /\ top.type \in DOMAIN seen)
      /\ \A k \in Steps(job, top.type) :
           k < top.next + 1 /\ k # top.next => Finished(job, seen, top.type, k)
  BY <1>1, <1>4, PartFacts
<1>6. /\ DOMAIN seen' = DOMAIN seen /\ Grows(seen, seen') /\ seen' \in [DOMAIN seen' -> Records]
      /\ Finished(job, seen', top.type, top.next) /\ NameInv'
  <2>1. CASE IsStruct(job, top.type) /\ IsNameless(job, part.type)
    <3>1. part.type \in DOMAIN seen
      BY <2>1, <1>3, <1>5, CoverMeans DEF IsNameless, IsStruct, Needs
    <3>2. seen' = [seen EXCEPT ![part.type].name =
                     seen[top.type].name \o <<job.graph[top.type].parts[top.next].key>>]
      BY <2>1, <1>5 DEF FieldVisited, SetName, Named, Node, IsStruct, IsNameless
    <3>3. top.type \in DOMAIN seen
      BY <2>1, <1>5 DEF IsStruct, IsContainer, Containers
    <3>4. /\ DOMAIN seen' = DOMAIN seen /\ seen' \in [DOMAIN seen' -> Records]
          /\ Grows(seen, seen') /\ seen'[part.type].name # <<>> /\ NameInv'
      BY <2>1, <3>1, <3>2, <3>3, <1>1, <1>3, <1>5, NameKeeps
    <3> QED
      BY <3>1, <3>4, <1>3, <1>5 DEF Finished
  <2>2. CASE ~(IsStruct(job, top.type) /\ IsNameless(job, part.type))
    <3>1. seen' = seen
      BY <2>2, <1>5 DEF FieldVisited, Named, Node, IsStruct, IsNameless
    <3>2. Finished(job, seen, top.type, top.next)
      BY <2>2, <1>3, <1>5 DEF Finished
    <3> QED
      BY <3>1, <3>2, <1>1 DEF Grows, IInv, TypeOK, NameInv
  <2> QED
    BY <2>1, <2>2
<1>7. \A k \in Steps(job, top.type) : k < top.next + 1 => Finished(job, seen', top.type, k)
  BY <1>5, <1>6, FinishedStays
<1>8. top.type \in DOMAIN seen' => Needs(job, top.type)
  BY <1>6 DEF IInv, VisitInv
<1>9. \/ IsStruct(job, top.type) /\ top.type \in DOMAIN seen'
      \/ IsContainer(job, top.type) /\ (top.type \in DOMAIN seen' => top.type \in DOMAIN seen)
  BY <1>5, <1>6
<1>10. StackInv' /\ RootInv' /\ VisitInv'
  <2>1. \A t \in DOMAIN seen' : t \in DOMAIN seen \/ t = top.type
    BY <1>6
  <2> QED
    BY <2>1, <1>1, <1>5, <1>6, <1>7, <1>8, <1>9, TopKeeps
<1>11. /\ stack' \in Seq(Frames(job)) /\ DOMAIN stack' = DOMAIN stack
       /\ stack'[1].type = top.type
       /\ \A i \in DOMAIN stack : i # 1 => stack'[i] = stack[i]
  <2>1. top.next + 1 \in Nat
    BY <1>5
  <2> QED
    BY <2>1, <1>1, TopTyped
<1>12. TypeOK'
  BY <1>1, <1>6, <1>11 DEF IInv, TypeOK
<1>13. OrderInv'
  <2>1. \A i \in DOMAIN stack' :
          stack'[i].next # 0 /\ IsContainer(job, stack'[i].type) /\ stack'[i].type \in DOMAIN seen' =>
             \E k \in DOMAIN stack : /\ stack[k].type = stack'[i].type /\ stack[k].next # 0
                                     /\ stack[k].type \in DOMAIN seen
    BY <1>2, <1>5, <1>6, <1>11
  <2> QED
    BY <2>1, <1>1, <1>6, OrderKeeps
<1> QED
  BY <1>6, <1>10, <1>12, <1>13 DEF IInv

\* At the end of its loop a call has finished every part.
LEMMA EndFacts ==
  ASSUME IInv, Running, top.next > Len(Node(top.type).parts), top.next # 0
  PROVE  /\ \A k \in Steps(job, top.type) : Finished(job, seen, top.type, k)
         /\ job \in Jobs /\ top.type \in Types(job) /\ top = stack[1] /\ 1 \in DOMAIN stack
         /\ stack # <<>> /\ stack \in Seq(Frames(job)) /\ Reached(job, top.type)
         /\ IsContainer(job, top.type) \/ (IsStruct(job, top.type) /\ top.type \in DOMAIN seen)
<1>1. /\ job \in Jobs /\ stack # <<>> /\ stack \in Seq(Frames(job))
      /\ top.type \in Types(job) /\ top = stack[1] /\ 1 \in DOMAIN stack /\ Reached(job, top.type)
  BY TopFacts DEF Running, IInv, TypeOK
<1>2. /\ job.graph[top.type].parts \in Seq(PartOf(Types(job)))
      /\ Steps(job, top.type) \subseteq DOMAIN job.graph[top.type].parts
  BY <1>1, GraphFacts
<1>3. top.next \in 0 .. Len(job.graph[top.type].parts) + 1
  BY <1>1 DEF IInv, StackInv
<1>4. ASSUME NEW k \in Steps(job, top.type) PROVE k < top.next
  <2>1. k \in 1 .. Len(job.graph[top.type].parts) /\ Len(job.graph[top.type].parts) \in Nat
    BY <1>2
  <2>2. top.next > Len(job.graph[top.type].parts)
    BY DEF Node
  <2> QED
    BY <2>1, <2>2, <1>3
<1> QED
  BY <1>1, <1>4 DEF IInv, StackInv, VisitInv

\* Leaving a struct keeps the invariant: all of its fields are visited.
LEMMA LeaveStructKeeps ==
  ASSUME IInv, LeaveStruct
  PROVE  IInv'
<1>1. /\ Running /\ Return /\ UNCHANGED <<job, todo, seen, order, status>>
      /\ top.next > Len(Node(top.type).parts) /\ top.next # 0 /\ IsStruct(job, top.type)
  BY DEF LeaveStruct, AtEnd, Node, IsStruct
<1>2. /\ \A k \in Steps(job, top.type) : Finished(job, seen, top.type, k)
      /\ job \in Jobs /\ top.type \in Types(job) /\ stack # <<>> /\ stack \in Seq(Frames(job))
      /\ IsContainer(job, top.type) \/ (IsStruct(job, top.type) /\ top.type \in DOMAIN seen)
  BY <1>1, EndFacts
<1>3. ~IsContainer(job, top.type) /\ Needs(job, top.type) /\ top.type \in DOMAIN seen
  BY <1>1, <1>2 DEF IsStruct, IsContainer, Containers, Needs
<1>4. Covers(job, DOMAIN seen, top.type)
  BY <1>2, <1>3, CoverLeaf
<1>5. Grows(seen, seen') /\ seen' = seen
  BY <1>1 DEF Grows
<1>6. StackInv' /\ RootInv' /\ VisitInv'
  BY <1>1, <1>2, <1>3, <1>4, <1>5, ReturnKeeps
<1>7. /\ stack' \in Seq(Frames(job))
      /\ \A i \in DOMAIN stack' : i + 1 \in DOMAIN stack /\ stack'[i] = stack[i + 1]
  BY <1>1, <1>2, StackTail DEF Return
<1>8. \A i \in DOMAIN stack' :
        \/ stack'[i].next = 0 \/ stack'[i].type \notin DOMAIN seen
        \/ \E k \in DOMAIN stack : stack[k].type = stack'[i].type /\ stack[k].next # 0
  BY <1>7
<1>9. status' \in {"running", "done", "overflow", "panic"}
  BY <1>1 DEF IInv, TypeOK
<1> QED
  BY <1>1, <1>6, <1>7, <1>8, <1>9, QuietKeeps

\* The stack after a call that marks its type has returned.
LEMMA MarkReturns ==
  ASSUME IInv, Running, Return, UNCHANGED <<job, todo, status>>,
         NEW v \in {"none", "all", "lost"}, markVisit(top.type, v),
         ~IsStruct(job, top.type), Needs(job, top.type),
         \/ top.type \notin DOMAIN seen
         \/ IsContainer(job, top.type) /\ Leads(job, top.type, top.type),
         job.graph[top.type].kind = "enum" => v = "all" \/ Pointed(job, top.type),
         \A k \in Steps(job, top.type) : Finished(job, seen, top.type, k)
  PROVE  IInv'
<1>1. stack # <<>> /\ stack \in Seq(Frames(job)) /\ job' = job /\ job \in Jobs
  BY DEF Running, IInv, TypeOK
<1>2. top.type \in Types(job) /\ top = stack[1] /\ 1 \in DOMAIN stack
  BY <1>1, TopFacts
<1>3. job.graph[top.type].name # <<>>
  BY <1>1, <1>2, GraphFacts
<1>4. /\ DOMAIN seen' = DOMAIN seen \cup {top.type} /\ DOMAIN seen' \subseteq Types(job)
      /\ seen' \in [DOMAIN seen' -> Records] /\ Grows(seen, seen')
      /\ order' = Append(order, top.type) /\ order' \in Seq(DOMAIN seen') /\ NameInv'
  BY <1>1, <1>2, <1>3, MarkKeeps
<1>5. \A k \in Steps(job, top.type) : Finished(job, seen', top.type, k)
  BY <1>4, FinishedStays
<1>6. Covers(job, DOMAIN seen', top.type)
  BY <1>1, <1>2, <1>4, <1>5, CoverContainer DEF Finished
<1>7. StackInv' /\ RootInv' /\ VisitInv'
  BY <1>1, <1>4, <1>5, <1>6, ReturnKeeps
<1>8. /\ stack' \in Seq(Frames(job)) /\ DOMAIN stack' = 1 .. Len(stack) - 1
      /\ \A i \in DOMAIN stack' : i + 1 \in DOMAIN stack /\ stack'[i] = stack[i + 1]
  BY <1>1, StackTail DEF Return
<1>9. TypeOK'
  BY <1>1, <1>4, <1>8 DEF IInv, TypeOK
<1>10. OrderInv'
  <2>1. ASSUME NEW i \in DOMAIN stack', stack'[i].next # 0, IsContainer(job, stack'[i].type),
               stack'[i].type \in DOMAIN seen'
        PROVE  \/ Leads(job, stack'[i].type, stack'[i].type)
               \/ \E k \in DOMAIN stack : /\ stack[k].type = stack'[i].type /\ stack[k].next # 0
                                          /\ stack[k].type \in DOMAIN seen
    <3>1. i + 1 \in DOMAIN stack /\ 1 < i + 1 /\ stack'[i] = stack[i + 1]
      BY <1>8
    <3>2. Leads(job, stack[i + 1].type, top.type)
      BY <3>1, <1>2 DEF IInv, StackInv
    <3> QED
      BY <2>1, <3>1, <3>2, <1>4
  <2> QED
    BY <2>1, <1>1, <1>4, OrderKeeps
<1> QED
  BY <1>4, <1>7, <1>9, <1>10 DEF IInv

\* Leaving a container keeps the invariant: with a name it is marked, the second time
\* only if it was entered while it was being visited.
LEMMA LeaveContainerKeeps ==
  ASSUME IInv, LeaveContainer
  PROVE  IInv'
<1>1. /\ Running /\ UNCHANGED <<job, todo>> /\ IsContainer(job, top.type)
      /\ top.next > Len(Node(top.type).parts) /\ top.next # 0
  BY DEF LeaveContainer, AtEnd, Node, IsContainer
<1>2. /\ \A k \in Steps(job, top.type) : Finished(job, seen, top.type, k)
      /\ job \in Jobs /\ top.type \in Types(job) /\ stack # <<>> /\ stack \in Seq(Frames(job))
      /\ top = stack[1] /\ 1 \in DOMAIN stack
  BY <1>1, EndFacts
<1>3. ~IsStruct(job, top.type) /\ job.graph[top.type].kind # "enum"
  BY <1>1 DEF IsContainer, IsStruct, Containers
<1>4. CASE ~Named(top.type)
  <2>1. Return /\ UNCHANGED <<job, todo, seen, order, status>>
    BY <1>1, <1>4 DEF LeaveContainer
  <2>2. ~Needs(job, top.type) /\ top.type \notin DOMAIN seen
    BY <1>3, <1>4 DEF IInv, VisitInv, Needs, Named, Node, IsStruct
  <2>3. Covers(job, DOMAIN seen, top.type)
    BY <2>2, <1>2, CoverContainer DEF Finished
  <2>4. Grows(seen, seen') /\ seen' = seen
    BY <2>1 DEF Grows
  <2>5. StackInv' /\ RootInv' /\ VisitInv'
    BY <2>1, <2>2, <2>3, <2>4, <1>1, ReturnKeeps
  <2>6. /\ stack' \in Seq(Frames(job))
        /\ \A i \in DOMAIN stack' : i + 1 \in DOMAIN stack /\ stack'[i] = stack[i + 1]
    BY <2>1, <1>2, StackTail DEF Return
  <2>7. \A i \in DOMAIN stack' :
          \/ stack'[i].next = 0 \/ stack'[i].type \notin DOMAIN seen
          \/ \E k \in DOMAIN stack : stack[k].type = stack'[i].type /\ stack[k].next # 0
    BY <2>6
  <2>8. status' \in {"running", "done", "overflow", "panic"}
    BY <2>1 DEF IInv, TypeOK
  <2> QED
    BY <2>1, <2>5, <2>6, <2>7, <2>8, QuietKeeps
<1>5. CASE Named(top.type) /\ Node(top.type).doc
  <2>1. Return /\ markVisit(top.type, "none") /\ UNCHANGED <<job, todo, status>>
    BY <1>1, <1>5 DEF LeaveContainer
  <2>2. Needs(job, top.type)
    BY <1>1, <1>5 DEF Needs, Named, Node
  <2>3. top.type \in DOMAIN seen => Leads(job, top.type, top.type)
    BY <1>1, <1>2 DEF IInv, OrderInv
  <2> QED
    BY <2>1, <2>2, <2>3, <1>1, <1>2, <1>3, MarkReturns
<1>6. CASE Named(top.type) /\ ~Node(top.type).doc
  <2>1. status' = "panic" /\ UNCHANGED <<job, todo, stack, seen, order>>
    BY <1>1, <1>6 DEF LeaveContainer
  <2>2. Grows(seen, seen') /\ seen' = seen
    BY <2>1 DEF Grows
  <2>3. StackInv' /\ RootInv' /\ VisitInv'
    BY <2>1, <2>2, <1>1, StopKeeps
  <2> QED
    BY <1>2, <2>1, <2>3, QuietKeeps
<1> QED
  BY <1>4, <1>5, <1>6

\* Marking an enum keeps the invariant: its values are lost only behind a pointer.
LEMMA EnumKeeps ==
  ASSUME IInv, VisitEnum \/ VisitEnumPointer
  PROVE  IInv'
<1>1. /\ Running /\ UNCHANGED <<job, todo>> /\ job.graph[top.type].kind = "enum"
      /\ top.type \notin DOMAIN seen /\ stack # <<>> /\ stack \in Seq(Frames(job)) /\ job \in Jobs
  BY DEF VisitEnum, VisitEnumPointer, Entering, Running, Node, IInv, TypeOK
<1>2. /\ ~IsStruct(job, top.type) /\ ~IsContainer(job, top.type) /\ Needs(job, top.type)
  BY <1>1 DEF IsContainer, IsStruct, Containers, Needs
<1>3. top.type \in Types(job) /\ 1 \in DOMAIN stack /\ top = stack[1]
  BY <1>1, TopFacts
<1>4. Steps(job, top.type) = {} /\ job.graph[top.type].name # <<>>
  BY <1>1, <1>2, <1>3, GraphFacts
<1>5. top.ptr => Pointed(job, top.type)
  BY <1>3 DEF IInv, StackInv
<1>6. CASE VisitEnum
  <2>1. Return /\ markVisit(top.type, "all") /\ UNCHANGED <<job, todo, status>>
    BY <1>6 DEF VisitEnum
  <2> QED
    BY <2>1, <1>1, <1>2, <1>4, MarkReturns
<1>7. CASE VisitEnumPointer /\ Return /\ UNCHANGED status
  <2>1. markVisit(top.type, "lost") /\ top.ptr
    BY <1>7 DEF VisitEnumPointer
  <2> QED
    BY <2>1, <1>1, <1>2, <1>4, <1>5, <1>7, MarkReturns
<1>8. CASE VisitEnumPointer /\ status' = "panic" /\ UNCHANGED stack
  <2>1. markVisit(top.type, "lost") /\ top.ptr
    BY <1>8 DEF VisitEnumPointer
  <2>2. /\ DOMAIN seen' = DOMAIN seen \cup {top.type} /\ DOMAIN seen' \subseteq Types(job)
        /\ seen' \in [DOMAIN seen' -> Records] /\ Grows(seen, seen')
        /\ order' = Append(order, top.type) /\ order' \in Seq(DOMAIN seen') /\ NameInv'
    BY <2>1, <1>1, <1>3, <1>4, <1>5, MarkKeeps
  <2>3. StackInv' /\ RootInv' /\ VisitInv'
    BY <2>2, <1>1, <1>2, <1>4, <1>8, StopKeeps
  <2>4. TypeOK'
    BY <2>2, <1>1, <1>8 DEF IInv, TypeOK
  <2>5. OrderInv'
    <3>1. \A i \in DOMAIN stack' :
            stack'[i].next # 0 /\ IsContainer(job, stack'[i].type) /\ stack'[i].type \in DOMAIN seen' =>
               \E k \in DOMAIN stack : /\ stack[k].type = stack'[i].type /\ stack[k].next # 0
                                       /\ stack[k].type \in DOMAIN seen
      BY <2>2, <1>2, <1>8
    <3> QED
      BY <3>1, <2>2, <1>1, OrderKeeps
  <2> QED
    BY <2>2, <2>3, <2>4, <2>5 DEF IInv
<1> QED
  BY <1>6, <1>7, <1>8 DEF VisitEnumPointer

\* Starting on a root keeps the invariant.
LEMMA ParseRootKeeps ==
  ASSUME IInv, ParseRoot
  PROVE  IInv'
<1>1. /\ status = "running" /\ stack = <<>> /\ todo # <<>> /\ UNCHANGED <<job, seen, order, status>>
      /\ stack' = <<Frame(Head(todo), FALSE)>> /\ todo' = Tail(todo)
      /\ todo \in Seq(Types(job)) /\ job \in Jobs
  BY DEF ParseRoot, IInv, TypeOK
<1> DEFINE T == Types(job)
           y == Frame(Head(todo), FALSE)
<1>2. /\ Tail(todo) \in Seq(T) /\ Head(todo) \in T /\ Head(todo) = todo[1] /\ 1 \in DOMAIN todo
      /\ \A i \in DOMAIN Tail(todo) : i + 1 \in DOMAIN todo /\ Tail(todo)[i] = todo[i + 1]
      /\ DOMAIN Tail(todo) = 1 .. Len(todo) - 1 /\ DOMAIN todo = 1 .. Len(todo) /\ Len(todo) \in Nat
  <2>1. todo \in Seq(T) /\ todo # <<>> /\ DOMAIN todo = 1 .. Len(todo) /\ Len(todo) \in Nat
    BY <1>1
  <2> HIDE DEF T
  <2> QED
    BY <2>1, StackTail
<1>3. y \in Frames(job) /\ y.type = Head(todo) /\ y.ptr = FALSE /\ y.next = 0 /\ y.back = FALSE
  BY <1>2 DEF Frame, Frames
<1> HIDE DEF y
<1>4. stack' = <<y>>
  BY <1>1 DEF y
<1>5. stack' \in Seq(Frames(job)) /\ DOMAIN stack' = {1} /\ stack'[1] = y /\ Len(stack') = 1
  BY <1>3, <1>4
<1>6. Reached(job, y.type)
  BY <1>2, <1>3 DEF IInv, RootInv
<1>7. TypeOK'
  BY <1>1, <1>2, <1>5 DEF IInv, TypeOK
<1>8. job.graph[y.type].parts \in Seq(PartOf(T)) /\ Steps(job, y.type) \subseteq DOMAIN job.graph[y.type].parts
  BY <1>1, <1>2, <1>3, GraphFacts
<1>9. 0 \in 0 .. Len(job.graph[y.type].parts) + 1 /\ \A k \in Steps(job, y.type) : ~(k < 0)
  <2>1. Len(job.graph[y.type].parts) \in Nat /\ \A k \in DOMAIN job.graph[y.type].parts : ~(k < 0)
    BY <1>8
  <2> QED
    BY <2>1, <1>8
<1>10. StackInv'
  <2>1. \A i, k \in DOMAIN stack' : ~(i < k)
    BY <1>5
  <2> QED
    BY <2>1, <1>1, <1>3, <1>5, <1>6, <1>9 DEF StackInv
<1>11. RootInv'
  <2>1. ASSUME NEW i \in DOMAIN job.roots
        PROVE  \/ Covers(job, DOMAIN seen, job.roots[i])
               \/ \E k \in DOMAIN todo' : todo'[k] = job.roots[i]
               \/ stack'[Len(stack')].type = job.roots[i]
    <3>1. CASE \E k \in DOMAIN todo : todo[k] = job.roots[i]
      <4>1. PICK k \in DOMAIN todo : todo[k] = job.roots[i]
        BY <3>1
      <4>2. CASE k = 1
        BY <4>1, <4>2, <1>2, <1>3, <1>5
      <4>3. CASE k # 1
        <5>1. k - 1 \in DOMAIN todo' /\ (k - 1) + 1 = k
          BY <4>3, <1>1, <1>2
        <5> QED
          BY <5>1, <4>1, <1>1, <1>2
      <4> QED
        BY <4>2, <4>3
    <3>2. CASE Covers(job, DOMAIN seen, job.roots[i])
      BY <3>2
    <3> QED
      BY <3>1, <3>2, <1>1 DEF IInv, RootInv
  <2>2. \A i \in DOMAIN todo' : Reached(job, todo'[i])
    BY <1>1, <1>2 DEF IInv, RootInv
  <2>3. stack' # <<>> /\ job' = job /\ seen' = seen
    BY <1>1, <1>5
  <2> QED
    BY <2>1, <2>2, <2>3 DEF RootInv
<1>12. VisitInv'
  <2>1. \A t \in DOMAIN seen : \A k \in Steps(job, t) : Finished(job, seen, t, k)
    BY <1>1 DEF IInv, VisitInv
  <2> QED
    BY <2>1, <1>1, <1>3, <1>5, <1>9 DEF IInv, VisitInv
<1>13. OrderInv'
  BY <1>1, <1>3, <1>5 DEF IInv, OrderInv
<1>14. NameInv'
  BY <1>1 DEF IInv, NameInv
<1> QED
  BY <1>7, <1>10, <1>11, <1>12, <1>13, <1>14 DEF IInv

\* Stopping keeps the invariant.
LEMMA ParseDoneKeeps ==
  ASSUME IInv, ParseDone
  PROVE  IInv'
<1>1. /\ stack = <<>> /\ todo = <<>> /\ UNCHANGED <<job, todo, stack, seen, order>> /\ status' = "done"
  BY DEF ParseDone
<1>2. StackInv' /\ RootInv' /\ VisitInv'
  BY <1>1 DEF IInv, StackInv, RootInv, VisitInv
<1>3. TypeOK' /\ OrderInv' /\ NameInv'
  BY <1>1 DEF IInv, TypeOK, OrderInv, NameInv
<1> QED
  BY <1>2, <1>3 DEF IInv

\* The invariant holds before the first root.
LEMMA Initially == Init => IInv
<1> SUFFICES ASSUME Init PROVE IInv
  OBVIOUS
<1>1. /\ job \in Jobs /\ todo = job.roots /\ stack = <<>> /\ seen = <<>> /\ order = <<>>
      /\ status = "running" /\ todo \in Seq(Types(job))
  BY JobsAssumption DEF Init, Types
<1>2. DOMAIN seen = {} /\ DOMAIN stack = {} /\ DOMAIN order = {}
  BY <1>1
<1>3. TypeOK
  <2>1. seen \in [DOMAIN seen -> Records]
    BY <1>1, <1>2
  <2>2. stack \in Seq(Frames(job)) /\ order \in Seq(DOMAIN seen)
    BY <1>1
  <2> QED
    BY <2>1, <2>2, <1>1, <1>2 DEF TypeOK
<1>4. StackInv
  BY <1>2 DEF StackInv
<1>5. RootInv
  BY <1>1 DEF RootInv, Reached
<1>6. VisitInv /\ OrderInv /\ NameInv
  BY <1>1, <1>2 DEF VisitInv, OrderInv, NameInv
<1> QED
  BY <1>3, <1>4, <1>5, <1>6 DEF IInv

\* A step that changes nothing keeps the invariant.
LEMMA Stuttering == IInv /\ UNCHANGED vars => IInv'
BY DEF IInv, TypeOK, StackInv, RootInv, VisitInv, OrderInv, NameInv, vars

\* IInv is inductive.
THEOREM Invariance == Safety => []IInv
<1>1. IInv /\ [Next]_vars => IInv'
  BY ParseRootKeeps, ParseDoneKeeps, VisitedKeeps, EnterStructKeeps, SkipFieldKeeps, VisitPartKeeps,
     FieldVisitedKeeps, LeaveStructKeeps, EnterContainerKeeps, LeaveContainerKeeps, EnumKeeps,
     Stuttering DEF Next
<1> QED
  BY <1>1, Initially, PTL DEF Safety

-----------------------------------------------------------------------------
(* Reach *)

\* Next1 is what visitType goes to.
LEMMA NextSteps ==
  ASSUME job \in Jobs, NEW t \in Types(job)
  PROVE  Next1(t) = {To(job, t, k) : k \in Steps(job, t)} /\ Next1(t) \subseteq Types(job)
<1>1. Steps(job, t) \subseteq DOMAIN job.graph[t].parts
      /\ \A k \in DOMAIN job.graph[t].parts : To(job, t, k) \in Types(job)
  BY GraphFacts
<1>2. Next1(t) = {To(job, t, k) : k \in Steps(job, t)}
  BY DEF Next1, Parts, Node, Steps, To, IsStruct
<1> QED
  BY <1>1, <1>2

\* The recursion of Reach, which stops after as many rounds as there are types,
\* comes to the least set that has S and what its members of these kinds go to.
LEMMA ReachIsLeast ==
  ASSUME job \in Jobs, NEW S \in SUBSET Types(job), NEW kinds
  PROVE  /\ S \subseteq Reach(S, kinds) /\ Reach(S, kinds) \subseteq Types(job)
         /\ \A t \in Reach(S, kinds) : Node(t).kind \in kinds => Next1(t) \subseteq Reach(S, kinds)
         /\ \A X : /\ S \subseteq X
                   /\ \A t \in X \cap Types(job) : Node(t).kind \in kinds => Next1(t) \subseteq X
                   => Reach(S, kinds) \subseteq X
<1> DEFINE T == Types(job)
           N == Cardinality(DOMAIN job.graph)
           Grow(W) == W \cup UNION {Next1(t) : t \in {u \in W : Node(u).kind \in kinds}}
           Is(f) == f = [n \in 0 .. N |-> IF n = 0 THEN S
                          ELSE f[n - 1] \cup
                               UNION {Next1(t) : t \in {u \in f[n - 1] : Node(u).kind \in kinds}}]
           step == [n \in Nat |-> [W \in SUBSET T |-> Grow(W)]]
           w == CHOOSE f : Is(f)
<1>1. IsFiniteSet(T) /\ N = Cardinality(T) /\ N \in Nat
  BY JobsAssumption, FS_CardinalityType DEF Types
<1>2. \A t \in T : Next1(t) \subseteq T
  BY NextSteps
<1>3. \A W \in SUBSET T : Grow(W) \in SUBSET T /\ W \subseteq Grow(W)
  BY <1>2
<1>4. Reach(S, kinds) = w[N]
  BY DEF Reach
<1>5. \E f : Is(f)
  <2>1. step \in [Nat -> [SUBSET T -> SUBSET T]]
    <3> HIDE DEF Grow, T
    <3> QED
      BY <1>3
  <2>2. \E f \in [0 .. N -> SUBSET T] : IsRecursion(f, S, step, N)
    <3> DEFINE P == SUBSET T
    <3>1. S \in P /\ step \in [Nat -> [P -> P]] /\ N \in Nat
      BY <1>1, <2>1
    <3> HIDE DEF step, T, N, P
    <3>2. \E f \in [0 .. N -> P] : IsRecursion(f, S, step, N)
      BY <3>1, Recursion
    <3> QED
      BY <3>2 DEF P
  <2>3. PICK f \in [0 .. N -> SUBSET T] : IsRecursion(f, S, step, N)
    BY <2>2
  <2>4. ASSUME NEW n \in 1 .. N PROVE f[n] = Grow(f[n - 1])
    <3>1. n - 1 \in Nat /\ n - 1 \in 0 .. N
      BY <1>1
    <3>2. f[n - 1] \in SUBSET T
      BY <2>3, <3>1
    <3>3. step[n - 1][f[n - 1]] = Grow(f[n - 1])
      <4> HIDE DEF Grow, T
      <4> QED
        BY <3>1, <3>2
    <3> HIDE DEF step, Grow
    <3> QED
      BY <2>3, <3>3 DEF IsRecursion
  <2>5. f[0] = S
    BY <2>3 DEF IsRecursion
  <2>6. \A n \in 0 .. N : n # 0 => n \in 1 .. N
    BY <1>1
  <2>7. \A n \in 0 .. N : f[n] = IF n = 0 THEN S ELSE Grow(f[n - 1])
    <3> HIDE DEF Grow, N
    <3> QED
      BY <2>4, <2>5, <2>6
  <2>8. f = [n \in 0 .. N |-> f[n]]
    BY <2>3
  <2>9. f = [n \in 0 .. N |-> IF n = 0 THEN S ELSE Grow(f[n - 1])]
    <3> HIDE DEF Grow, N
    <3> QED
      BY <2>7, <2>8
  <2> QED
    BY <2>9
<1>6. Is(w)
  <2> HIDE DEF Is
  <2> QED
    BY <1>5
<1>7. w[0] = S /\ \A n \in 1 .. N : w[n] = Grow(w[n - 1])
  <2>1. w = [n \in 0 .. N |-> IF n = 0 THEN S ELSE Grow(w[n - 1])]
    BY <1>6
  <2>2. 0 \in 0 .. N /\ \A n \in 1 .. N : n \in 0 .. N /\ n # 0
    BY <1>1
  <2> HIDE DEF w, Grow, N
  <2> QED
    BY <2>1, <2>2
<1> HIDE DEF w, Is, step, N
<1>8. ASSUME NEW P \in SUBSET Nat, 0 \in P, \A n \in P : n + 1 <= N => n + 1 \in P
      PROVE  N \in P
  <2> DEFINE Q == {n \in Nat : n <= N => n \in P}
  <2>1. 0 \in Q
    BY <1>8
  <2>2. ASSUME NEW n \in Q PROVE n + 1 \in Q
    <3>1. n \in Nat /\ (n + 1 <= N => n <= N)
      BY <1>1
    <3> QED
      BY <3>1, <1>8
  <2>3. \A n \in Nat : n \in Q
    <3> HIDE DEF Q
    <3>1. Q \in SUBSET Nat
      BY DEF Q
    <3> QED
      BY <2>1, <2>2, <3>1, UpTo
  <2> QED
    BY <2>3, <1>1
<1>9. \A n \in Nat : n + 1 <= N => w[n + 1] = Grow(w[n])
  <2> SUFFICES ASSUME NEW n \in Nat, n + 1 <= N PROVE w[n + 1] = Grow(w[n])
    OBVIOUS
  <2>1. n + 1 \in 1 .. N /\ (n + 1) - 1 = n
    BY <1>1
  <2> HIDE DEF Grow
  <2> QED
    BY <2>1, <1>7
<1>10. S \subseteq w[N] /\ w[N] \in SUBSET T /\ (Grow(w[N]) = w[N] \/ Cardinality(w[N]) >= N)
  <2> DEFINE P == {n \in Nat : /\ S \subseteq w[n] /\ w[n] \in SUBSET T
                               /\ Grow(w[n]) = w[n] \/ Cardinality(w[n]) >= n}
  <2>1. 0 \in P
    <3>1. IsFiniteSet(S)
      BY <1>1, FS_Subset
    <3>2. Cardinality(S) >= 0
      BY <3>1, FS_CardinalityType
    <3> HIDE DEF Grow
    <3> QED
      BY <3>2, <1>7
  <2>2. ASSUME NEW n \in P, n + 1 <= N PROVE n + 1 \in P
    <3> HIDE DEF Grow, T
    <3>1. n \in Nat /\ w[n + 1] = Grow(w[n]) /\ w[n] \in SUBSET T /\ S \subseteq w[n]
      BY <1>9, <2>2
    <3>2. w[n + 1] \in SUBSET T /\ w[n] \subseteq w[n + 1]
      BY <3>1, <1>3
    <3>3. CASE Grow(w[n]) = w[n]
      <4>1. w[n + 1] = w[n]
        BY <3>1, <3>3
      <4> QED
        BY <3>1, <3>3, <4>1
    <3>4. CASE Grow(w[n]) # w[n] /\ Cardinality(w[n]) >= n
      <4>1. IsFiniteSet(w[n + 1]) /\ IsFiniteSet(w[n])
        BY <3>2, <1>1, FS_Subset
      <4>2. Cardinality(w[n]) <= Cardinality(w[n + 1]) /\ Cardinality(w[n]) # Cardinality(w[n + 1])
        BY <3>1, <3>2, <3>4, <4>1, FS_Subset
      <4>3. Cardinality(w[n]) \in Nat /\ Cardinality(w[n + 1]) \in Nat
        BY <4>1, FS_CardinalityType
      <4>4. Cardinality(w[n + 1]) >= n + 1
        BY <3>1, <3>4, <4>2, <4>3
      <4> QED
        BY <3>1, <3>2, <4>4
    <3> QED
      BY <3>3, <3>4
  <2> HIDE DEF P
  <2>3. P \in SUBSET Nat
    BY DEF P
  <2>4. N \in P
    BY <1>8, <2>1, <2>2, <2>3
  <2> QED
    BY <2>4 DEF P
<1>11. Grow(w[N]) = w[N]
  <2>1. CASE Cardinality(w[N]) >= N
    <3> HIDE DEF Grow, T
    <3>1. IsFiniteSet(w[N])
      BY <1>1, <1>10, FS_Subset
    <3>2. Cardinality(w[N]) <= Cardinality(T) /\ Cardinality(w[N]) \in Nat /\ Cardinality(T) \in Nat
      BY <1>1, <1>10, <3>1, FS_Subset, FS_CardinalityType
    <3>3. Cardinality(w[N]) = Cardinality(T)
      BY <3>2, <2>1, <1>1
    <3>4. w[N] = T
      BY <3>3, <1>1, <1>10, FS_Subset
    <3> QED
      BY <3>4, <1>3
  <2> QED
    BY <2>1, <1>10
<1>12. ASSUME NEW X, S \subseteq X,
              \A t \in X \cap T : Node(t).kind \in kinds => Next1(t) \subseteq X
       PROVE  w[N] \subseteq X
  <2> DEFINE P == {n \in Nat : w[n] \subseteq X /\ w[n] \in SUBSET T}
  <2>1. 0 \in P
    BY <1>7, <1>12
  <2>2. ASSUME NEW n \in P, n + 1 <= N PROVE n + 1 \in P
    <3>1. w[n + 1] = Grow(w[n]) /\ w[n] \in SUBSET T /\ n + 1 \in Nat
      BY <1>9, <2>2
    <3>2. Grow(w[n]) \in SUBSET T
      BY <3>1, <1>3
    <3>3. Grow(w[n]) \subseteq X
      BY <3>1, <1>12
    <3> HIDE DEF Grow
    <3> QED
      BY <3>1, <3>2, <3>3
  <2> HIDE DEF P
  <2>3. P \in SUBSET Nat
    BY DEF P
  <2>4. N \in P
    BY <1>8, <2>1, <2>2, <2>3
  <2> QED
    BY <2>4 DEF P
<1>13. \A t \in w[N] : Node(t).kind \in kinds => Next1(t) \subseteq w[N]
  BY <1>11
<1> QED
  BY <1>4, <1>10, <1>12, <1>13

-----------------------------------------------------------------------------
(* What the properties say of paths in the graph *)

Roots == {job.roots[i] : i \in DOMAIN job.roots}

\* The walk reaches what Reachable says.
LEMMA ReachableTypes ==
  ASSUME job \in Jobs
  PROVE  /\ Reachable \subseteq Types(job)
         /\ \A t \in Types(job) : t \in Reachable <=> Reached(job, t)
<1>1. job.roots \in Seq(Types(job)) /\ Roots \subseteq Types(job) /\ Reachable = Reach(Roots, Kinds)
  BY JobsAssumption DEF Roots, Reachable, Types
<1>2. \A t \in Types(job) : Node(t).kind \in Kinds
  BY GraphFacts DEF Node
<1>3. Roots \subseteq Reachable /\ Reachable \in SUBSET Types(job)
  BY <1>1, ReachIsLeast
<1>4. \A t \in Reachable : Next1(t) \subseteq Reachable
  BY <1>1, <1>2, <1>3, ReachIsLeast
<1>5. IsClosed(job, Reachable) /\ \A i \in DOMAIN job.roots : job.roots[i] \in Reachable
  BY <1>3, <1>4, NextSteps DEF IsClosed, Roots
<1>6. ASSUME NEW t \in Types(job), Reached(job, t) PROVE t \in Reachable
  BY <1>3, <1>5, <1>6 DEF Reached
<1>7. ASSUME NEW t \in Reachable, NEW X \in SUBSET Types(job), IsClosed(job, X),
             \A i \in DOMAIN job.roots : job.roots[i] \in X
      PROVE  t \in X
  <2>1. Roots \subseteq X
    BY <1>7 DEF Roots
  <2>2. \A u \in X : Next1(u) \subseteq X
    BY <1>7, NextSteps DEF IsClosed
  <2>3. Reachable \subseteq X
    BY <1>1, <2>1, <2>2, ReachIsLeast
  <2> QED
    BY <2>3
<1> QED
  BY <1>3, <1>6, <1>7 DEF Reached

\* A type that leads to itself is on a cycle.
LEMMA Cycles ==
  ASSUME job \in Jobs, NEW t \in Types(job), Leads(job, t, t)
  PROVE  OnCycle(t, Kinds)
<1> DEFINE R == Reach(Next1(t), Kinds)
<1>1. \A u \in Types(job) : Node(u).kind \in Kinds
  BY GraphFacts DEF Node
<1>2. /\ Next1(t) \subseteq R /\ R \in SUBSET Types(job)
      /\ \A u \in R : Node(u).kind \in Kinds => Next1(u) \subseteq R
  BY NextSteps, ReachIsLeast
<1> HIDE DEF R
<1>3. IsClosed(job, R) /\ \A k \in Steps(job, t) : To(job, t, k) \in R
  BY <1>1, <1>2, NextSteps DEF IsClosed
<1>4. t \in R
  BY <1>2, <1>3 DEF Leads
<1> QED
  BY <1>1, <1>4 DEF OnCycle, R

\* An enum without its values was met through a pointer.
LEMMA Pointers ==
  ASSUME job \in Jobs, NEW t \in Types(job), Pointed(job, t)
  PROVE  MetByPointer(t)
<1>1. PICK u \in Types(job) :
        /\ Reached(job, u) /\ IsContainer(job, u)
        /\ \E k \in DOMAIN job.graph[u].parts : job.graph[u].parts[k].ptr /\ To(job, u, k) = t
  BY DEF Pointed
<1>2. u \in Reachable
  BY <1>1, ReachableTypes
<1> QED
  BY <1>1, <1>2 DEF MetByPointer, Parts, Node, To, IsContainer

\* A type that is covered is one whose names are all marked.
LEMMA CoverNames ==
  ASSUME job \in Jobs, NEW t \in Types(job), NEW S, Covers(job, S, t)
  PROVE  NamesIn(t) \subseteq S
<1> DEFINE C == {u \in Types(job) : Covers(job, S, u)}
<1>1. \A u \in C : Node(u).kind \in Containers => Next1(u) \subseteq C
  BY CoverMeans, NextSteps DEF IsContainer, Node
<1>2. {t} \in SUBSET Types(job) /\ {t} \subseteq C
  OBVIOUS
<1> HIDE DEF C
<1>3. Reach({t}, Containers) \subseteq C
  BY <1>1, <1>2, ReachIsLeast
<1>4. \A u \in C : Needs(job, u) => u \in S
  BY CoverMeans DEF C
<1> QED
  BY <1>3, <1>4 DEF NamesIn, Needs, Node

-----------------------------------------------------------------------------
(* The theorems *)

\* When the walk is done all that it came to was visited.
LEMMA DoneVisited ==
  ASSUME IInv, status = "done"
  PROVE  /\ job \in Jobs
         /\ \A t \in DOMAIN seen : \A k \in Steps(job, t) : Finished(job, seen, t, k)
         /\ \A t \in Types(job) : Reached(job, t) => Covers(job, DOMAIN seen, t)
<1>1. job \in Jobs /\ stack = <<>> /\ todo = <<>> /\ DOMAIN seen \subseteq Types(job)
  BY DEF IInv, TypeOK, VisitInv
<1>2. DOMAIN stack = {} /\ DOMAIN todo = {}
  BY <1>1
<1>3. \A t \in DOMAIN seen : \A k \in Steps(job, t) : Finished(job, seen, t, k)
  BY <1>2 DEF IInv, VisitInv
<1>4. \A i \in DOMAIN job.roots : Covers(job, DOMAIN seen, job.roots[i])
  BY <1>1, <1>2 DEF IInv, RootInv
<1> DEFINE C == {t \in Types(job) : Covers(job, DOMAIN seen, t)}
<1>5. \A i \in DOMAIN job.roots : job.roots[i] \in C
  BY <1>1, <1>4, JobsAssumption DEF Types
<1>6. ASSUME NEW t \in C, NEW k \in Steps(job, t) PROVE To(job, t, k) \in C
  <2>1. t \in Types(job) /\ Covers(job, DOMAIN seen, t) /\ To(job, t, k) \in Types(job)
    BY <1>1, GraphFacts
  <2>2. CASE IsContainer(job, t)
    BY <2>1, <2>2, CoverMeans
  <2>3. CASE IsStruct(job, t)
    <3>1. t \in DOMAIN seen
      BY <2>1, <2>3, CoverMeans DEF Needs, IsStruct
    <3> QED
      BY <1>3, <2>1, <3>1 DEF Finished
  <2>4. CASE ~IsContainer(job, t) /\ ~IsStruct(job, t)
    BY <1>1, <2>1, <2>4, GraphFacts
  <2> QED
    BY <2>2, <2>3, <2>4
<1> HIDE DEF C
<1>7. C \in SUBSET Types(job) /\ IsClosed(job, C)
  BY <1>6 DEF IsClosed, C
<1>8. \A t \in Types(job) : Reached(job, t) => t \in C
  BY <1>5, <1>7 DEF Reached
<1> QED
  BY <1>1, <1>3, <1>8 DEF C

\* A walk that ends has marked exactly the types that can be reached and need a
\* definition, an enum with its values, and what the printers look up is there.
THEOREM EveryTypeFound == Safety => []FindsEveryType
<1>1. ASSUME IInv PROVE FindsEveryType
  <2> SUFFICES ASSUME status = "done"
      PROVE  /\ DOMAIN seen = {t \in Reachable : NeedsDefinition(t)}
             /\ \A t \in DOMAIN seen :
                  Node(t).kind = "enum" /\ ~MetByPointer(t) => seen[t].values = "all"
             /\ \A t \in LookedUp \ DOMAIN seen :
                  ~NeedsDefinition(t) /\ \E u \in DOMAIN seen : t \in Embedded(u)
    BY DEF FindsEveryType
  <2>1. /\ job \in Jobs
        /\ \A t \in DOMAIN seen : \A k \in Steps(job, t) : Finished(job, seen, t, k)
        /\ \A t \in Types(job) : Reached(job, t) => Covers(job, DOMAIN seen, t)
    BY <1>1, DoneVisited
  <2>2. \A t : NeedsDefinition(t) <=> Needs(job, t)
    BY DEF NeedsDefinition, Needs, Node, Named, IsContainer
  <2>3. DOMAIN seen \subseteq Types(job) /\ \A t \in DOMAIN seen : Reached(job, t) /\ Needs(job, t)
    BY <1>1 DEF IInv, TypeOK, VisitInv
  <2>4. DOMAIN seen = {t \in Reachable : NeedsDefinition(t)}
    BY <2>1, <2>2, <2>3, ReachableTypes, CoverMeans
  <2>5. \A t \in DOMAIN seen :
          Node(t).kind = "enum" /\ ~MetByPointer(t) => seen[t].values = "all"
    BY <1>1, <2>1, <2>3, Pointers DEF IInv, NameInv, Node
  <2>6. ASSUME NEW t \in DOMAIN seen, NEW p \in Parts(t), IsStruct(job, t) => Followed(p)
        PROVE  p.type \in Types(job) /\ Covers(job, DOMAIN seen, p.type)
    <3>1. PICK k \in Steps(job, t) : To(job, t, k) = p.type
      BY <2>6 DEF Parts, Steps, To, Node
    <3> QED
      BY <2>1, <2>3, <3>1, GraphFacts DEF Finished
  <2>7. ASSUME NEW t \in LookedUp, t \notin DOMAIN seen
        PROVE  ~NeedsDefinition(t) /\ \E u \in DOMAIN seen : t \in Embedded(u)
    <3>1. PICK u \in DOMAIN seen :
            t \in IF Node(u).kind = "struct" THEN Embedded(u) \cup UNION {NamesIn(v) : v \in Fields(u)}
                  ELSE NamesIn(u)
      BY <2>7 DEF LookedUp
    <3>2. NamesIn(u) \subseteq DOMAIN seen
      BY <2>1, <2>3, CoverNames
    <3>3. \A v \in Fields(u) : IsStruct(job, u) => NamesIn(v) \subseteq DOMAIN seen
      BY <2>1, <2>6, CoverNames DEF Fields
    <3>4. t \in Embedded(u) /\ IsStruct(job, u)
      BY <2>7, <3>1, <3>2, <3>3 DEF IsStruct, Node
    <3>5. Covers(job, DOMAIN seen, t)
      BY <2>6, <3>4 DEF Embedded
    <3>6. ~Needs(job, t)
      BY <2>7, <3>5, CoverMeans
    <3> QED
      BY <2>2, <3>4, <3>6
  <2> QED
    BY <2>4, <2>5, <2>7
<1> QED
  BY <1>1, Invariance, PTL

\* The name of a struct that has none of its own and is not homeless: those of its
\* owner and of the field.
LEMMA OwnersName ==
  ASSUME IInv, status = "done", NEW t \in DOMAIN seen, ~Named(t), ~Homeless(t)
  PROVE  \E u \in Types(job) : \E p \in Parts(u) :
           /\ Node(u).kind = "struct" /\ Named(u) /\ p.type = t
           /\ seen[t].name = Node(u).name \o <<p.key>>
<1>1. /\ job \in Jobs
      /\ \A v \in DOMAIN seen : \A k \in Steps(job, v) : Finished(job, seen, v, k)
      /\ \A v \in Types(job) : Reached(job, v) => Covers(job, DOMAIN seen, v)
  BY DoneVisited
<1>2. DOMAIN seen \subseteq Types(job) /\ \A v \in DOMAIN seen : Reached(job, v) /\ Needs(job, v)
  BY DEF IInv, TypeOK, VisitInv
<1>3. IsNameless(job, t) /\ Node(t).kind = "struct" /\ job.graph[t].name = <<>>
  BY <1>1, <1>2, GraphFacts DEF Named, IsNameless, IsStruct, Node
<1>4. Owners(t) # {} /\ \A u \in Owners(t) : Named(u)
  BY <1>3 DEF Homeless
<1>5. PICK u \in Reachable : Node(u).kind = "struct" /\ t \in Next1(u)
  BY <1>4 DEF Owners
<1>6. u \in Types(job) /\ Reached(job, u) /\ IsStruct(job, u)
  BY <1>1, <1>5, ReachableTypes DEF IsStruct, Node
<1>7. PICK k \in Steps(job, u) : To(job, u, k) = t
  BY <1>1, <1>5, <1>6, NextSteps
<1>8. u \in DOMAIN seen
  BY <1>1, <1>6, CoverMeans DEF Needs, IsStruct
<1>9. seen[t].name # <<>>
  BY <1>1, <1>3, <1>6, <1>7, <1>8 DEF Finished
<1>10. ByOwner(job, DOMAIN seen, t, seen[t].name)
  BY <1>3, <1>9 DEF IInv, NameInv
<1>11. PICK v \in DOMAIN seen : \E l \in Steps(job, v) :
         /\ IsStruct(job, v) /\ To(job, v, l) = t
         /\ job.graph[v].name # <<>> =>
              seen[t].name = job.graph[v].name \o <<job.graph[v].parts[l].key>>
  BY <1>10 DEF ByOwner
<1>12. PICK l \in Steps(job, v) :
         /\ IsStruct(job, v) /\ To(job, v, l) = t
         /\ job.graph[v].name # <<>> =>
              seen[t].name = job.graph[v].name \o <<job.graph[v].parts[l].key>>
  BY <1>11
<1>13. v \in Types(job) /\ v \in Reachable /\ t \in Next1(v)
  BY <1>1, <1>2, <1>12, ReachableTypes, NextSteps
<1>14. v \in Owners(t) /\ Named(v)
  BY <1>4, <1>12, <1>13 DEF Owners, IsStruct, Node
<1>15. l \in DOMAIN job.graph[v].parts
  BY <1>12 DEF Steps
<1> QED
  BY <1>12, <1>13, <1>14, <1>15 DEF Named, Node, Parts, To, IsStruct

\* A name with one more.
LEMMA TwoNames ==
  ASSUME NEW S, NEW n \in Seq(S), NEW m \in Seq(S), Len(n) = 1, Len(m) = 1
  PROVE  Len(n \o m) = 2 /\ (n \o m)[1] = n[1] /\ (n \o m)[2] = m[1]
<1>1. /\ Len(n \o m) = Len(n) + Len(m)
      /\ \A i \in 1 .. Len(n) + Len(m) :
           (n \o m)[i] = IF i <= Len(n) THEN n[i] ELSE m[i - Len(n)]
  BY ConcatProperties
<1> QED
  BY <1>1

\* What is written twice is a container on a cycle, and no two definitions have one
\* name but for homeless structs.
THEOREM EachDefinedOnce == Safety => []DefinedOnce
<1>1. ASSUME IInv PROVE DefinedOnce
  <2> SUFFICES ASSUME status = "done" PROVE
        /\ \A i, j \in DOMAIN order :
             order[i] = order[j] /\ i # j => OnCycle(order[i], Kinds) /\ Node(order[i]).kind \in Containers
        /\ PlainNames => \A t, u \in DOMAIN seen :
             seen[t].name = seen[u].name /\ t # u => Homeless(t) \/ Homeless(u)
    BY DEF DefinedOnce
  <2>1. job \in Jobs /\ DOMAIN seen \subseteq Types(job) /\ order \in Seq(DOMAIN seen)
    BY <1>1 DEF IInv, TypeOK
  <2>2. ASSUME NEW i \in DOMAIN order, NEW j \in DOMAIN order, order[i] = order[j], i # j
        PROVE  OnCycle(order[i], Kinds) /\ Node(order[i]).kind \in Containers
    <3>1. order[i] \in Types(job)
      BY <2>1
    <3>2. IsContainer(job, order[i]) /\ Leads(job, order[i], order[i])
      BY <1>1, <2>2 DEF IInv, OrderInv
    <3> QED
      BY <2>1, <3>1, <3>2, Cycles DEF IsContainer, Node
  <2>3. ASSUME PlainNames, NEW t \in DOMAIN seen, NEW u \in DOMAIN seen,
               seen[t].name = seen[u].name, ~Homeless(t), ~Homeless(u)
        PROVE  t = u
    <3>1. \A v \in DOMAIN seen : Named(v) => seen[v].name = Node(v).name
      BY <1>1 DEF IInv, NameInv, Named, Node
    <3>2. \A v \in Types(job) : Node(v).name \in Seq(STRING) /\ Len(Node(v).name) <= 1
      BY <2>1, <2>3, GraphFacts DEF PlainNames, Node, Types
    <3>3. \A v \in Types(job), key \in STRING : Named(v) =>
            /\ Len(Node(v).name \o <<key>>) = 2
            /\ (Node(v).name \o <<key>>)[1] = Node(v).name[1]
            /\ (Node(v).name \o <<key>>)[2] = key
            /\ Node(v).name = <<Node(v).name[1]>>
      <4> SUFFICES ASSUME NEW v \in Types(job), NEW key \in STRING, Named(v)
          PROVE  /\ Len(Node(v).name \o <<key>>) = 2
                 /\ (Node(v).name \o <<key>>)[1] = Node(v).name[1]
                 /\ (Node(v).name \o <<key>>)[2] = key
                 /\ Node(v).name = <<Node(v).name[1]>>
        OBVIOUS
      <4> DEFINE n == Node(v).name
      <4>1. n \in Seq(STRING) /\ Len(n) <= 1 /\ n # <<>>
        BY <3>2 DEF Named
      <4> HIDE DEF n
      <4>2. Len(n) = 1
        <5>1. Len(n) \in Nat /\ Len(n) # 0
          BY <4>1
        <5> QED
          BY <4>1, <5>1
      <4>3. n = <<n[1]>>
        BY <4>1, <4>2
      <4>4. Len(n \o <<key>>) = 2 /\ (n \o <<key>>)[1] = n[1] /\ (n \o <<key>>)[2] = key
        <5> DEFINE m == <<key>>
        <5>1. m \in Seq(STRING) /\ Len(m) = 1 /\ m[1] = key
          OBVIOUS
        <5>2. n \in Seq(STRING)
          BY <4>1
        <5> HIDE DEF m
        <5>3. Len(n \o m) = 2 /\ (n \o m)[1] = n[1] /\ (n \o m)[2] = m[1]
          BY <4>2, <5>1, <5>2, TwoNames
        <5> QED
          BY <5>1, <5>3 DEF m
      <4> QED
        BY <4>3, <4>4 DEF n
    <3>4. \A v \in Types(job) : \A p \in Parts(v) : p.key \in STRING
      <4> SUFFICES ASSUME NEW v \in Types(job), NEW k \in DOMAIN job.graph[v].parts
          PROVE  job.graph[v].parts[k].key \in STRING
        BY DEF Parts, Node
      <4>1. job.graph[v].parts \in Seq(PartOf(Types(job)))
        BY <2>1, GraphFacts
      <4>2. job.graph[v].parts[k] \in PartOf(Types(job))
        BY <4>1
      <4> QED
        BY <4>2 DEF PartOf
    <3>5. ASSUME NEW v \in DOMAIN seen, ~Named(v), ~Homeless(v)
          PROVE  \E w \in Types(job) : \E p \in Parts(w) :
                   /\ Node(w).kind = "struct" /\ Named(w) /\ p.type = v
                   /\ seen[v].name = Node(w).name \o <<p.key>>
      BY <1>1, <3>5, OwnersName
    <3>6. CASE Named(t) /\ Named(u)
      BY <2>1, <2>3, <3>1, <3>6 DEF PlainNames, Types
    <3>7. CASE Named(t) /\ ~Named(u)
      <4>1. PICK w \in Types(job) : \E p \in Parts(w) :
                   /\ Named(w) /\ seen[u].name = Node(w).name \o <<p.key>>
        BY <2>3, <3>5, <3>7
      <4>2. Len(seen[u].name) = 2
        <5>1. PICK p \in Parts(w) : seen[u].name = Node(w).name \o <<p.key>>
          BY <4>1
        <5>2. p.key \in STRING
          BY <3>4
        <5>3. Len(Node(w).name \o <<p.key>>) = 2
          BY <3>3, <4>1, <5>2
        <5> QED
          BY <5>1, <5>3
      <4>3. Len(seen[t].name) <= 1
        BY <2>1, <3>1, <3>2, <3>7
      <4> QED
        BY <2>3, <4>2, <4>3
    <3>8. CASE ~Named(t) /\ Named(u)
      <4>1. PICK w \in Types(job) : \E p \in Parts(w) :
                   /\ Named(w) /\ seen[t].name = Node(w).name \o <<p.key>>
        BY <2>3, <3>5, <3>8
      <4>2. Len(seen[t].name) = 2
        <5>1. PICK p \in Parts(w) : seen[t].name = Node(w).name \o <<p.key>>
          BY <4>1
        <5>2. p.key \in STRING
          BY <3>4
        <5>3. Len(Node(w).name \o <<p.key>>) = 2
          BY <3>3, <4>1, <5>2
        <5> QED
          BY <5>1, <5>3
      <4>3. Len(seen[u].name) <= 1
        BY <2>1, <3>1, <3>2, <3>8
      <4> QED
        BY <2>3, <4>2, <4>3
    <3>9. CASE ~Named(t) /\ ~Named(u)
      <4>1. PICK w \in Types(job) : \E p \in Parts(w) :
                   /\ Node(w).kind = "struct" /\ Named(w) /\ p.type = t
                   /\ seen[t].name = Node(w).name \o <<p.key>>
        BY <2>3, <3>5, <3>9
      <4>2. PICK p \in Parts(w) : p.type = t /\ seen[t].name = Node(w).name \o <<p.key>>
        BY <4>1
      <4>3. PICK x \in Types(job) : \E q \in Parts(x) :
                   /\ Node(x).kind = "struct" /\ Named(x) /\ q.type = u
                   /\ seen[u].name = Node(x).name \o <<q.key>>
        BY <2>3, <3>5, <3>9
      <4>4. PICK q \in Parts(x) : q.type = u /\ seen[u].name = Node(x).name \o <<q.key>>
        BY <4>3
      <4>5. p.key \in STRING /\ q.key \in STRING
        BY <3>4
      <4>6. Node(w).name[1] = Node(x).name[1] /\ p.key = q.key
        <5>1. /\ (Node(w).name \o <<p.key>>)[1] = Node(w).name[1]
              /\ (Node(w).name \o <<p.key>>)[2] = p.key
          BY <3>3, <4>1, <4>5
        <5>2. /\ (Node(x).name \o <<q.key>>)[1] = Node(x).name[1]
              /\ (Node(x).name \o <<q.key>>)[2] = q.key
          BY <3>3, <4>3, <4>5
        <5>3. Node(w).name \o <<p.key>> = Node(x).name \o <<q.key>>
          BY <2>3, <4>2, <4>4
        <5> QED
          BY <5>1, <5>2, <5>3
      <4>7. Node(w).name = Node(x).name
        BY <3>3, <4>1, <4>3, <4>5, <4>6
      <4>8. w = x
        BY <2>3, <4>1, <4>7 DEF PlainNames, Types
      <4>9. p = q
        BY <2>3, <4>1, <4>6, <4>8 DEF PlainNames, Types
      <4> QED
        BY <4>2, <4>4, <4>9
    <3> QED
      BY <3>6, <3>7, <3>8, <3>9
  <2> QED
    BY <2>2, <2>3
<1> QED
  BY <1>1, Invariance, PTL

\* TypeOK is part of it.
THEOREM TypeCorrect == Safety => []TypeOK
BY Invariance, PTL DEF IInv
=============================================================================
