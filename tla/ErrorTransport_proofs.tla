------------------------ MODULE ErrorTransport_proofs ------------------------
(***************************************************************************)
(* Proofs, for errors of any number of links, any types and any registries *)
(* of the two sides, of the properties of ErrorTransport.                  *)
(***************************************************************************)
EXTENDS ErrorTransport, Induction

ErrorMaps == [Keys -> Types \cup {NoType}]

\* What a handler may return, and what the two sides are.
Inputs ==
  /\ err \in Seq(Links) /\ err # <<>>
  /\ \A i \in DOMAIN err : err[i].type = "CodeError" => err[i].code \in 400 .. 599
  /\ reg.server \in ErrorMaps /\ reg.client \in ErrorMaps
  /\ fault = "none" \/ fault \in Faults

\* What has been sent is made of the error and the registry of the server.
AnswerInv ==
  /\ stage = "handler" => answer = NoAnswer
  /\ answer.body \in {"none", "message"}
  /\ answer.body = "none" => answer.key = NoKey
  /\ answer.body = "message" =>
       /\ answer.status = FinalStatus(errorToCode(err))
       /\ \E m \in Message(err, reg.server) :
            answer.key = m[1] /\ answer.type = m[2] /\ answer.detail = m[3]

\* What Call returned is made of the answer and the registry of the client.
ResultInv ==
  /\ stage # "returned" => result.kind = "none"
  /\ result.kind = "nil" => answer.body = "message" /\ IsSuccess(answer.status)
  /\ result.kind = "typed" =>
       /\ CanRead /\ ~IsSuccess(answer.status)
       /\ answer.key # NoKey
       /\ result.type = reg.client[answer.key] /\ result.type # NoType
       /\ result.type = answer.type => result.detail = answer.detail
  /\ stage = "returned" /\ CanRead /\ ~IsSuccess(answer.status)
     /\ answer.key # NoKey /\ answer.type # NoType
     /\ reg.client[answer.key] = answer.type =>
       result = [kind |-> "typed", type |-> answer.type, detail |-> answer.detail]

IInv == Inputs /\ AnswerInv /\ ResultInv

-----------------------------------------------------------------------------
(* errorToCode and detectErrorType *)

\* Link k is the first one registered at or after link i, and errors.Unwrap
\* gets there.
Finds(e, registry, i, k) ==
  /\ k \in i .. Len(e)
  /\ KeysOf(registry, e[k].type) # {}
  /\ \A j \in i .. k - 1 : KeysOf(registry, e[j].type) = {} /\ e[j].type # "joinError"

\* detectErrorType returns the outermost registered link of the chain, 0 if the
\* chain has none: its recursion, which ends, looks at one link after the other.
LEMMA Detects ==
  ASSUME NEW e \in Seq(Links), NEW registry
  PROVE  LET i == detectErrorType(e, registry) IN
           \/ i = 0 /\ \A k \in DOMAIN e : ~IsOutermost(e, k, registry)
           \/ i \in DOMAIN e /\ IsOutermost(e, i, registry)
<1> DEFINE N == Len(e)
           Has(i) == KeysOf(registry, e[i].type) # {}
           Joins(i) == e[i].type = "joinError"
           At(i, later) == IF Has(i) THEN i ELSE IF Joins(i) THEN 0 ELSE later
           Is(f) == f = [i \in 1 .. N + 1 |-> IF i > N THEN 0
                                              ELSE IF Has(i) THEN i
                                              ELSE IF Joins(i) THEN 0
                                              ELSE f[i + 1]]
           step == [n \in Nat |-> [later \in Nat |-> IF n < N THEN At(N - n, later) ELSE 0]]
<1>1. N \in Nat /\ DOMAIN e = 1 .. N
  OBVIOUS
<1>2. \E f : Is(f)
  <2> HIDE DEF Has, Joins, N
  <2>1. step \in [Nat -> [Nat -> Nat]]
    BY <1>1
  <2>2. PICK g \in [0 .. N -> Nat] : IsRecursion(g, 0, step, N)
    <3> HIDE DEF step
    <3> QED
      BY <1>1, <2>1, Recursion
  <2>3. g[0] = 0 /\ \A n \in 1 .. N : g[n] = At(N - (n - 1), g[n - 1])
    <3> SUFFICES ASSUME NEW n \in 1 .. N PROVE g[n] = At(N - (n - 1), g[n - 1])
      BY <2>2 DEF IsRecursion
    <3>1. n - 1 \in Nat /\ n - 1 < N /\ g[n - 1] \in Nat
      BY <1>1, <2>2
    <3>2. step[n - 1][g[n - 1]] = At(N - (n - 1), g[n - 1])
      BY <3>1
    <3> HIDE DEF step, At
    <3> QED
      BY <2>2, <3>2 DEF IsRecursion
  <2> DEFINE f == [i \in 1 .. N + 1 |-> g[N + 1 - i]]
  <2>4. ASSUME NEW i \in 1 .. N + 1
        PROVE  f[i] = IF i > N THEN 0 ELSE At(i, f[i + 1])
    <3>1. CASE i > N
      <4>1. N + 1 - i = 0
        BY <1>1, <3>1
      <4> QED
        BY <4>1, <2>3, <3>1
    <3>2. CASE ~(i > N)
      <4>1. /\ N + 1 - i \in 1 .. N /\ N - ((N + 1 - i) - 1) = i
            /\ i + 1 \in 1 .. N + 1 /\ N + 1 - (i + 1) = (N + 1 - i) - 1
        BY <1>1, <3>2
      <4>2. f[i] = g[N + 1 - i] /\ f[i + 1] = g[(N + 1 - i) - 1]
        BY <4>1
      <4> HIDE DEF f, At
      <4> QED
        BY <4>1, <4>2, <2>3, <3>2
    <3> QED
      BY <3>1, <3>2
  <2>5. Is(f)
    BY <2>4
  <2> QED
    BY <2>5
<1> DEFINE from == CHOOSE f : Is(f)
<1>3. detectErrorType(e, registry) = from[1]
  BY DEF detectErrorType
<1>4. Is(from)
  <2> HIDE DEF Is
  <2> QED
    BY <1>2
<1>5. \A i \in 1 .. N + 1 : from[i] = IF i > N THEN 0 ELSE At(i, from[i + 1])
  <2> HIDE DEF Has, Joins, N, from
  <2> QED
    BY <1>1, <1>4
<1> HIDE DEF from, Is, step
<1> DEFINE Right(i) == \/ from[i] = 0 /\ \A k \in i .. N : ~Finds(e, registry, i, k)
                       \/ Finds(e, registry, i, from[i])
           P == {n \in Nat : n <= N => Right(N + 1 - n)}
<1>6. 0 \in P
  <2>1. from[N + 1] = 0 /\ (N + 1) .. N = {}
    BY <1>1, <1>5
  <2>2. Right(N + 1)
    BY <2>1
  <2>3. N + 1 - 0 = N + 1
    BY <1>1
  <2> QED
    BY <2>2, <2>3
<1>7. ASSUME NEW n \in P PROVE n + 1 \in P
  <2> SUFFICES ASSUME n + 1 <= N PROVE Right(N + 1 - (n + 1))
    OBVIOUS
  <2> DEFINE i == N - n
  <2>1. /\ n \in Nat /\ n <= N /\ i \in 1 .. N /\ i \in 1 .. N + 1 /\ ~(i > N)
        /\ N + 1 - (n + 1) = i /\ N + 1 - n = i + 1
    <3>1. n \in Nat
      OBVIOUS
    <3> HIDE DEF P, Right, N
    <3> QED
      BY <1>1, <3>1
  <2>2. Right(i + 1)
    BY <2>1
  <2>3. from[i] = At(i, from[i + 1])
    BY <2>1, <1>5
  <2> HIDE DEF N, i
  <2>4. CASE Has(i)
    <3>1. from[i] = i
      BY <2>3, <2>4
    <3>2. Finds(e, registry, i, i)
      <4>1. i .. i - 1 = {} /\ i \in i .. Len(e)
        BY <1>1, <2>1 DEF N
      <4> QED
        BY <4>1, <2>4 DEF Finds
    <3> QED
      BY <3>1, <3>2, <2>1
  <2>5. CASE ~Has(i) /\ Joins(i)
    <3>1. from[i] = 0
      BY <2>3, <2>5
    <3>2. ASSUME NEW k \in i .. N PROVE ~Finds(e, registry, i, k)
      <4>1. CASE k = i
        BY <4>1, <2>5 DEF Finds
      <4>2. CASE k # i
        <5>1. i \in i .. k - 1
          BY <4>2, <1>1, <2>1
        <5> QED
          BY <5>1, <2>5 DEF Finds
      <4> QED
        BY <4>1, <4>2
    <3> QED
      BY <3>1, <3>2, <2>1
  <2>6. CASE ~Has(i) /\ ~Joins(i)
    <3>1. from[i] = from[i + 1]
      BY <2>3, <2>6
    <3>2. ASSUME NEW k \in i + 1 .. N
          PROVE  Finds(e, registry, i, k) <=> Finds(e, registry, i + 1, k)
      <4>1. /\ k \in i .. Len(e) /\ k \in i + 1 .. Len(e)
            /\ i .. k - 1 = {i} \cup (i + 1 .. k - 1)
        BY <1>1, <2>1 DEF N
      <4> QED
        BY <4>1, <2>6 DEF Finds
    <3>3. ~Finds(e, registry, i, i)
      BY <2>6 DEF Finds
    <3>4. i .. N = {i} \cup (i + 1 .. N)
      BY <1>1, <2>1
    <3>5. CASE from[i + 1] = 0 /\ \A k \in i + 1 .. N : ~Finds(e, registry, i + 1, k)
      BY <3>1, <3>2, <3>3, <3>4, <3>5, <2>1
    <3>6. CASE Finds(e, registry, i + 1, from[i + 1])
      <4>1. from[i + 1] \in i + 1 .. N
        BY <3>6 DEF Finds, N
      <4>2. Finds(e, registry, i, from[i])
        BY <4>1, <3>1, <3>2, <3>6
      <4> QED
        BY <4>2, <2>1
    <3> QED
      BY <3>5, <3>6, <2>2
  <2> QED
    BY <2>4, <2>5, <2>6
<1>8. Right(1)
  <2>1. \A n \in Nat : n \in P
    <3> HIDE DEF P
    <3>1. P \in SUBSET Nat
      BY DEF P
    <3> QED
      BY <1>6, <1>7, <3>1, UpTo
  <2>2. N \in P /\ N + 1 - N = 1 /\ N <= N
    BY <1>1, <2>1
  <2> HIDE DEF Right, N
  <2> QED
    BY <2>2
<1>9. ASSUME NEW k \in 1 .. N
      PROVE  Finds(e, registry, 1, k) <=> IsOutermost(e, k, registry)
  BY <1>1 DEF Finds, IsOutermost, Chain
<1>10. CASE from[1] = 0 /\ \A k \in 1 .. N : ~Finds(e, registry, 1, k)
  BY <1>1, <1>3, <1>9, <1>10
<1>11. CASE Finds(e, registry, 1, from[1])
  <2>1. from[1] \in 1 .. N
    BY <1>11 DEF Finds
  <2> QED
    BY <1>1, <1>3, <1>9, <1>11, <2>1
<1> QED
  BY <1>8, <1>10, <1>11

\* A chain has one outermost registered link.
LEMMA OneOutermost ==
  ASSUME NEW e \in Seq(Links), NEW registry,
         NEW i \in DOMAIN e, NEW k \in DOMAIN e,
         IsOutermost(e, i, registry), IsOutermost(e, k, registry)
  PROVE  i = k
<1>1. i \in Nat /\ k \in Nat /\ 1 <= i /\ 1 <= k
  OBVIOUS
<1>2. ~(i < k)
  <2>1. i < k => i \in 1 .. k - 1
    BY <1>1
  <2> QED
    BY <2>1 DEF IsOutermost
<1>3. ~(k < i)
  <2>1. k < i => k \in 1 .. i - 1
    BY <1>1
  <2> QED
    BY <2>1 DEF IsOutermost
<1> QED
  BY <1>1, <1>2, <1>3

\* A message with a code is about the outermost registered link of the chain.
LEMMA MessageMeans ==
  ASSUME NEW e \in Seq(Links), NEW registry \in ErrorMaps,
         NEW m \in Message(e, registry), m[1] # NoKey
  PROVE  \E i \in DOMAIN e :
           /\ IsOutermost(e, i, registry)
           /\ m[1] \in Keys /\ registry[m[1]] = e[i].type
           /\ m[2] = e[i].type /\ e[i].type \in Types
           /\ m[3] = IF e[i].type \in Hidden THEN "zero" ELSE e[i].detail
<1> DEFINE i == detectErrorType(e, registry)
<1>1. ~(i = 0 \/ e[i].type \in Unencodable)
  BY DEF Message
<1>2. i \in DOMAIN e /\ IsOutermost(e, i, registry)
  BY <1>1, Detects
<1>3. PICK k \in KeysOf(registry, e[i].type) :
        m = IF k = NoKey THEN <<NoKey, NoType, "zero">>
            ELSE <<k, e[i].type, IF e[i].type \in Hidden THEN "zero" ELSE e[i].detail>>
  BY <1>1 DEF Message
<1>4. m = <<k, e[i].type, IF e[i].type \in Hidden THEN "zero" ELSE e[i].detail>>
  BY <1>3
<1> HIDE DEF i
<1>5. k \in Keys /\ registry[k] = e[i].type /\ e[i].type \in Types
  <2>1. e[i] \in Links
    BY <1>2
  <2> QED
    BY <2>1 DEF KeysOf, Links
<1> QED
  BY <1>2, <1>4, <1>5

\* The outermost registered link is sent with a code, if its detail encodes.
LEMMA MessageOf ==
  ASSUME NEW e \in Seq(Links), NEW registry \in ErrorMaps,
         NEW m \in Message(e, registry),
         NEW i \in DOMAIN e, IsOutermost(e, i, registry),
         NoKey \notin KeysOf(registry, e[i].type), e[i].type \notin Unencodable
  PROVE  m[1] # NoKey
<1>1. detectErrorType(e, registry) = i
  BY Detects, OneOutermost
<1>2. i # 0
  OBVIOUS
<1> QED
  BY <1>1, <1>2 DEF Message

\* Without a JSON syntax error the first link with an HttpCode gives the status.
LEMMA FirstCode ==
  ASSUME NEW e \in Seq(Links), NEW i \in DOMAIN e,
         e[i].type \in Coded, \A j \in 1 .. i - 1 : e[j].type \notin Coded,
         \A j \in DOMAIN e : e[j].type # "SyntaxError"
  PROVE  errorToCode(e) = e[i].code
<1> DEFINE coded == {j \in DOMAIN e : e[j].type \in Coded}
           First(k) == k \in coded /\ \A j \in coded : k <= j
<1>1. First(i)
  <2>1. \A j \in DOMAIN e : j < i => j \in 1 .. i - 1
    OBVIOUS
  <2> QED
    BY <2>1
<1>2. \A k : First(k) => k = i
  BY <1>1
<1>3. (CHOOSE k \in coded : \A j \in coded : k <= j) = i
  BY <1>1, <1>2
<1> QED
  BY <1>1, <1>3 DEF errorToCode

\* A status below 400 is that of such a link.
LEMMA FewCodes ==
  ASSUME NEW e \in Seq(Links), errorToCode(e) < 400
  PROVE  \E i \in DOMAIN e :
           /\ e[i].type \in Coded /\ e[i].code = errorToCode(e)
           /\ \A j \in 1 .. i - 1 : e[j].type \notin Coded
<1> DEFINE coded == {j \in DOMAIN e : e[j].type \in Coded}
<1>1. (\A j \in DOMAIN e : e[j].type # "SyntaxError") /\ coded # {}
  BY DEF errorToCode
<1>2. PICK i \in coded : \A j \in coded : i <= j
  <2>1. coded \in SUBSET Nat
    OBVIOUS
  <2> HIDE DEF coded
  <2> QED
    BY <1>1, <2>1, LeastNat
<1>3. \A j \in 1 .. i - 1 : e[j].type \notin Coded
  <2>1. \A j \in 1 .. i - 1 : j \in DOMAIN e /\ ~(i <= j)
    OBVIOUS
  <2> QED
    BY <1>2, <2>1
<1>4. errorToCode(e) = e[i].code
  BY <1>1, <1>3, FirstCode
<1> QED
  BY <1>3, <1>4

-----------------------------------------------------------------------------
(* The invariant *)

\* Each constructor of package errors gives a status of 400 or more.
LEMMA CodesAreErrors ==
  \A name \in DOMAIN Constructor : HTTPStatusFromCode[Constructor[name]] \in 400 .. 599
BY DEF Constructor, HTTPStatusFromCode

\* The initial states satisfy the invariant.
LEMMA Initially ==
  ASSUME Init
  PROVE  IInv
<1>1. err \in Seq(Links) /\ err # <<>>
  <2>1. ParseFailure \in Seq(Links) /\ ParseFailure # <<>>
    BY TypesAssumption DEF ParseFailure, Links
  <2> QED
    BY <2>1, ErrorsAssumption DEF Init
<1>2. \A i \in DOMAIN err : err[i].type = "CodeError" => err[i].code \in 400 .. 599
  <2>1. CASE err = ParseFailure
    BY <2>1 DEF ParseFailure
  <2>2. CASE err \in Errors
    <3> SUFFICES ASSUME NEW i \in DOMAIN err, err[i].type = "CodeError"
                 PROVE  err[i].code \in 400 .. 599
      OBVIOUS
    <3>1. PICK name \in DOMAIN Constructor : err[i].code = HTTPStatusFromCode[Constructor[name]]
      BY <2>2, ErrorsAssumption
    <3> QED
      BY <3>1, CodesAreErrors
  <2> QED
    BY <2>1, <2>2 DEF Init
<1>3. reg.server \in ErrorMaps /\ reg.client \in ErrorMaps
  BY RegistriesAssumption DEF Init, ErrorMaps
<1>4. AnswerInv /\ ResultInv
  BY DEF Init, AnswerInv, ResultInv, NoAnswer, Plain
<1> QED
  BY <1>1, <1>2, <1>3, <1>4 DEF Init, IInv, Inputs

\* Every step keeps the invariant.
LEMMA Kept ==
  ASSUME IInv, [Next]_vars
  PROVE  IInv'
<1> USE DEF IInv
<1>1. Inputs'
  <2>1. UNCHANGED <<err, reg, fault>>
    BY DEF Next, EncodeError, EncodeErrorPanics, DecodeSuccess, DecodeTyped, DecodePlain,
       DecodeFails, Return, vars, NoAnswer
  <2> QED
    BY <2>1 DEF Inputs
<1>2. CASE EncodeError
  <2>1. PICK m \in Message(err, reg.server) :
          answer' = IF RefusesBody(errorToCode(err))
                    THEN [NoAnswer EXCEPT !.status = errorToCode(err)]
                    ELSE [status |-> FinalStatus(errorToCode(err)), body |-> "message",
                          key |-> m[1], type |-> m[2], detail |-> m[3]]
    BY <1>2 DEF EncodeError
  <2>2. stage' = "sent" /\ UNCHANGED <<err, reg, fault, result>> /\ result.kind = "none"
    BY <1>2 DEF EncodeError, ResultInv
  <2>3. AnswerInv'
    <3>1. CASE RefusesBody(errorToCode(err))
      BY <2>1, <2>2, <3>1 DEF AnswerInv, NoAnswer
    <3>2. CASE ~RefusesBody(errorToCode(err))
      BY <2>1, <2>2, <3>2 DEF AnswerInv
    <3> QED
      BY <3>1, <3>2
  <2> QED
    BY <1>1, <2>2, <2>3 DEF ResultInv
<1>3. CASE EncodeErrorPanics
  BY <1>1, <1>3 DEF EncodeErrorPanics, AnswerInv, ResultInv, CanRead, NoAnswer, Plain
<1>4. ASSUME stage = "sent", stage' = "returned", UNCHANGED <<err, reg, fault, answer>>
      PROVE  AnswerInv'
  BY <1>4 DEF AnswerInv
<1>5. CASE DecodeSuccess
  BY <1>1, <1>4, <1>5 DEF DecodeSuccess, Return, Plain, ResultInv, CanRead
<1>6. CASE DecodeTyped
  <2> DEFINE type == reg.client[answer.key]
             typed(detail) == [kind |-> "typed", type |-> type, detail |-> detail]
  <2>1. /\ stage = "sent" /\ stage' = "returned" /\ UNCHANGED <<err, reg, fault, answer>>
        /\ ~IsSuccess(answer.status) /\ CanRead /\ answer.key # NoKey /\ type # NoType
        /\ \/ type = answer.type /\ result' = typed(answer.detail)
           \/ type # answer.type /\ (result' = Plain("plain") \/ \E d : result' = typed(d))
    BY <1>6 DEF DecodeTyped, Return
  <2>2. CanRead'
    BY <2>1 DEF CanRead
  <2>3. ResultInv'
    BY <2>1, <2>2 DEF ResultInv, Plain, IsSuccess
  <2> QED
    BY <1>1, <1>4, <2>1, <2>3
<1>7. CASE DecodePlain \/ DecodeFails
  <2>1. /\ stage = "sent" /\ stage' = "returned" /\ UNCHANGED <<err, reg, fault, answer>>
        /\ result' = Plain("plain")
        /\ CanRead /\ answer.key # NoKey => reg.client[answer.key] = NoType
    BY <1>7 DEF DecodePlain, DecodeFails, Return
  <2>2. ResultInv'
    BY <2>1 DEF ResultInv, Plain, CanRead
  <2> QED
    BY <1>1, <1>4, <2>1, <2>2
<1>8. CASE UNCHANGED vars
  BY <1>1, <1>8 DEF vars, AnswerInv, ResultInv, CanRead
<1> QED
  BY <1>2, <1>3, <1>5, <1>6, <1>7, <1>8 DEF Next

\* IInv holds in every state: an answer is made of the error that the handler
\* returned, and the result of the answer (json_transport.go, errors.go).
THEOREM Invariance == Spec => []IInv
<1>1. Init => IInv
  BY Initially
<1>2. IInv /\ [Next]_vars => IInv'
  BY Kept
<1> QED
  BY <1>1, <1>2, PTL DEF Spec

-----------------------------------------------------------------------------
(* The properties *)

\* The caller gets the outermost registered error of any chain, of its type and with
\* its detail (README.md:119-123).
THEOREM TypedErrors == Spec => []TypedErrorArrives
<1>1. ASSUME IInv, NEW i \in DOMAIN err,
             stage = "returned", fault = "none",
             reg.client = reg.server, IsOutermost(err, i, reg.server),
             NoKey \notin KeysOf(reg.server, err[i].type),
             err[i].type \notin Unencodable,
             answer.body = "message", ~IsSuccess(answer.status)
      PROVE  result = [kind |-> "typed", type |-> err[i].type,
                       detail |-> IF err[i].type \in Hidden THEN "zero" ELSE err[i].detail]
  <2>1. err \in Seq(Links) /\ reg.server \in ErrorMaps
    BY <1>1 DEF IInv, Inputs
  <2>2. PICK m \in Message(err, reg.server) :
          answer.key = m[1] /\ answer.type = m[2] /\ answer.detail = m[3]
    BY <1>1 DEF IInv, AnswerInv
  <2>3. m[1] # NoKey
    BY <1>1, <2>1, MessageOf
  <2>4. PICK k \in DOMAIN err :
          /\ IsOutermost(err, k, reg.server)
          /\ m[1] \in Keys /\ reg.server[m[1]] = err[k].type
          /\ m[2] = err[k].type /\ err[k].type \in Types
          /\ m[3] = IF err[k].type \in Hidden THEN "zero" ELSE err[k].detail
    BY <2>1, <2>3, MessageMeans
  <2>5. k = i
    BY <1>1, <2>1, <2>4, OneOutermost
  <2>6. answer.key # NoKey /\ answer.type # NoType /\ reg.client[answer.key] = answer.type
    BY <1>1, <2>2, <2>3, <2>4, TypesAssumption
  <2>7. result = [kind |-> "typed", type |-> answer.type, detail |-> answer.detail]
    BY <1>1, <2>6 DEF IInv, ResultInv, CanRead
  <2> QED
    BY <2>2, <2>4, <2>5, <2>7
<1>2. IInv => TypedErrorArrives
  BY <1>1 DEF TypedErrorArrives
<1> QED
  BY <1>2, Invariance, PTL

\* A typed error is one that the handler returned, if the two registries agree on the
\* keys they share.
THEOREM NoInvention == Spec => []NothingInvented
<1>1. ASSUME IInv, result.kind = "typed",
             \A k \in Keys : reg.client[k] \in {NoType, reg.server[k]}
      PROVE  /\ fault = "none"
             /\ \E i \in DOMAIN err :
                  /\ IsOutermost(err, i, reg.server)
                  /\ result.type = err[i].type
                  /\ result.detail \in {err[i].detail, "zero"}
  <2>1. err \in Seq(Links) /\ reg.server \in ErrorMaps
    BY <1>1 DEF IInv, Inputs
  <2>2. /\ fault = "none" /\ answer.body = "message" /\ answer.key # NoKey
        /\ result.type = reg.client[answer.key] /\ result.type # NoType
        /\ result.type = answer.type => result.detail = answer.detail
    BY <1>1 DEF IInv, ResultInv, CanRead
  <2>3. PICK m \in Message(err, reg.server) :
          answer.key = m[1] /\ answer.type = m[2] /\ answer.detail = m[3]
    BY <1>1, <2>2 DEF IInv, AnswerInv
  <2>4. PICK i \in DOMAIN err :
          /\ IsOutermost(err, i, reg.server)
          /\ m[1] \in Keys /\ reg.server[m[1]] = err[i].type
          /\ m[2] = err[i].type /\ err[i].type \in Types
          /\ m[3] = IF err[i].type \in Hidden THEN "zero" ELSE err[i].detail
    BY <2>1, <2>2, <2>3, MessageMeans
  <2>5. result.type = err[i].type
    BY <1>1, <2>2, <2>3, <2>4
  <2> QED
    BY <2>2, <2>3, <2>4, <2>5
<1>2. IInv => NothingInvented
  BY <1>1 DEF NothingInvented
<1> QED
  BY <1>2, Invariance, PTL

\* The status is that of the outermost error with an HttpCode, and a call succeeds only
\* by such a code (README.md:117-118).
THEOREM Statuses == Spec => []StatusIsTheErrors
<1>1. ASSUME IInv, NEW i \in DOMAIN err,
             answer.body = "message", err[i].type \in Coded,
             \A j \in 1 .. i - 1 : err[j].type \notin Coded,
             \A j \in DOMAIN err : err[j].type # "SyntaxError"
      PROVE  answer.status = FinalStatus(err[i].code)
  <2>1. err \in Seq(Links) /\ answer.status = FinalStatus(errorToCode(err))
    BY <1>1 DEF IInv, Inputs, AnswerInv
  <2> QED
    BY <1>1, <2>1, FirstCode
<1>2. ASSUME IInv, result.kind = "nil"
      PROVE  \E i \in DOMAIN err :
               /\ err[i].type \in Coded \ {"CodeError"} /\ err[i].code \in 100 .. 299
               /\ \A j \in 1 .. i - 1 : err[j].type \notin Coded
  <2>1. /\ err \in Seq(Links)
        /\ \A i \in DOMAIN err : err[i].type = "CodeError" => err[i].code \in 400 .. 599
        /\ FinalStatus(errorToCode(err)) \in 200 .. 299
    BY <1>2 DEF IInv, Inputs, AnswerInv, ResultInv, IsSuccess
  <2>2. errorToCode(err) \in 100 .. 299
    BY <2>1 DEF FinalStatus
  <2>3. PICK i \in DOMAIN err :
          /\ err[i].type \in Coded /\ err[i].code = errorToCode(err)
          /\ \A j \in 1 .. i - 1 : err[j].type \notin Coded
    <3>1. errorToCode(err) < 400
      BY <2>2
    <3> QED
      BY <2>1, <3>1, FewCodes
  <2>4. err[i].type # "CodeError"
    <3> DEFINE code == err[i].code
    <3>1. code \in 100 .. 299
      BY <2>2, <2>3
    <3>2. err[i].type = "CodeError" => code \in 400 .. 599
      BY <2>1
    <3> HIDE DEF code
    <3>3. code < 400
      BY <3>1
    <3>4. ~(code \in 400 .. 599)
      BY <3>3
    <3> QED
      BY <3>2, <3>4
  <2> QED
    BY <2>2, <2>3, <2>4
<1>3. IInv => StatusIsTheErrors
  BY <1>1, <1>2 DEF StatusIsTheErrors
<1> QED
  BY <1>3, Invariance, PTL
==============================================================================
