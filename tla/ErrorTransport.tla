--------------------------- MODULE ErrorTransport ---------------------------
(***************************************************************************)
(* An error on its way from a handler to the caller of Client.Call: which  *)
(* status it gets (errorToCode), which of the errors that it wraps is sent *)
(* with its detail (detectErrorType, jsonError), what net/http makes of    *)
(* the status, and what the client reads back (DecodeResponseAndError,     *)
(* RawDecodeError).  The two sides may be of different versions: each has  *)
(* a map JsonTransport.Errors of its own.                                  *)
(*                                                                         *)
(* An error is the sequence of its links, outermost first, in the order in *)
(* which errors.As visits them: [type, code, detail], where code is what   *)
(* HttpCode() returns.  A link of type "joinError" wraps several errors    *)
(* (errors.Join, two %w): errors.Unwrap returns nil for it.                *)
(***************************************************************************)
EXTENDS Naturals, Sequences

CONSTANTS
  Types,       \* the Go types of links
  Coded,       \* those with an HttpCode method
  Hidden,      \* those whose fields are not exported: JSON loses them
  Unencodable, \* those that encoding/json refuses
  Keys,        \* the keys of JsonTransport.Errors
  Registries,  \* JsonTransport.Errors of both sides: [server, client]
  Errors,      \* what a handler may return
  Faults       \* what may happen to an answer: "cut", "replaced"

\* In a registry: a key that is not there.  In a message: no "code".
NoType == "-"
NoKey == ""

ASSUME TypesAssumption ==
  /\ {"SyntaxError", "joinError", "CodeError", "httpError"} \subseteq Types
  /\ NoType \notin Types
  /\ {"CodeError", "httpError"} \subseteq Coded /\ Coded \subseteq Types
  /\ "CodeError" \in Hidden /\ Hidden \subseteq Types
  /\ Unencodable \subseteq Types

ASSUME RegistriesAssumption ==
  Registries \subseteq [server : [Keys -> Types \cup {NoType}],
                        client : [Keys -> Types \cup {NoType}]]

ASSUME FaultsAssumption == Faults \subseteq {"cut", "replaced"}

----------------------------------------------------------------------------
(* Package errors *)

\* The code that each constructor gives to makeError.
Constructor ==
  [name \in {"Canceled", "Unknown", "InvalidArgument", "DeadlineExceeded", "NotFound",
             "AlreadyExists", "PermissionDenied", "ResourceExhausted", "FailedPrecondition",
             "Aborted", "OutOfRange", "Unimplemented", "Internal", "Unavailable", "DataLoss",
             "Unauthenticated"} |-> name]

\* runtime.HTTPStatusFromCode of grpc-gateway.
HTTPStatusFromCode ==
  [OK |-> 200, Canceled |-> 499, Unknown |-> 500, InvalidArgument |-> 400,
   DeadlineExceeded |-> 504, NotFound |-> 404, AlreadyExists |-> 409,
   PermissionDenied |-> 403, ResourceExhausted |-> 429, FailedPrecondition |-> 400,
   Aborted |-> 409, OutOfRange |-> 400, Unimplemented |-> 501, Internal |-> 500,
   Unavailable |-> 503, DataLoss |-> 500, Unauthenticated |-> 401]

\* A CodeError in front of the error that fmt.Errorf made of its arguments.
makeError(name, inner) ==
  <<[type |-> "CodeError", code |-> HTTPStatusFromCode[Constructor[name]], detail |-> "set"]>>
    \o inner

Links == [type : Types, code : Nat \ {101}, detail : {"zero", "set"}]

\* Only the constructors make a CodeError: its fields are not exported, and
\* without them it panics when jsonError asks for its text.
ASSUME ErrorsAssumption ==
  \A e \in Errors :
    /\ e \in Seq(Links) /\ e # <<>>
    /\ \A i \in DOMAIN e : e[i].type = "CodeError" =>
         \E name \in DOMAIN Constructor : e[i].code = HTTPStatusFromCode[Constructor[name]]

\* What newHTTPHandler sends when DecodeRequest fails, the cause as a text only.
ParseFailure == <<[type |-> "httpError", code |-> 400, detail |-> "set"]>>

----------------------------------------------------------------------------
VARIABLES
  err,     \* what the handler returned
  reg,     \* both registries
  fault,   \* what happens to the answer: "none" or a member of Faults
  stage,   \* "handler", "sent", "returned"
  answer,  \* [status, body, key, type, detail]
  result   \* of Call: [kind, type, detail], kind "none", "nil", "plain" or "typed"

vars == <<err, reg, fault, stage, answer, result>>

NoAnswer == [status |-> 0, body |-> "none", key |-> NoKey, type |-> NoType, detail |-> "zero"]
Plain(kind) == [kind |-> kind, type |-> NoType, detail |-> "zero"]

Init ==
  /\ err = ParseFailure \/ err \in Errors
  /\ reg \in Registries
  /\ fault = "none" \/ fault \in Faults
  /\ stage = "handler"
  /\ answer = NoAnswer
  /\ result = Plain("none")

----------------------------------------------------------------------------
(* The server *)

\* Mutant: the innermost status wins.
errorToCode_Innermost(e) ==
  LET coded == {i \in DOMAIN e : e[i].type \in Coded}
  IN  IF \E i \in DOMAIN e : e[i].type = "SyntaxError" THEN 400
      ELSE IF coded = {} THEN 500
      ELSE e[CHOOSE i \in coded : \A j \in coded : j <= i].code

\* errors.As twice: a *json.SyntaxError anywhere, else the first HttpError.
errorToCode(e) ==
  LET coded == {i \in DOMAIN e : e[i].type \in Coded}
  IN  IF \E i \in DOMAIN e : e[i].type = "SyntaxError" THEN 400
      ELSE IF coded = {} THEN 500
      ELSE e[CHOOSE i \in coded : \A j \in coded : i <= j].code

KeysOf(registry, type) == {k \in Keys : registry[k] = type}

\* Mutant: only the error itself is compared.
detectErrorType_Outermost(e, registry) ==
  IF KeysOf(registry, e[1].type) # {} THEN 1 ELSE 0

\* The first link whose type is registered, with errors.Unwrap from one to the
\* next; 0 if there is none.
detectErrorType(e, registry) ==
  LET from[i \in 1 .. Len(e) + 1] ==
        IF i > Len(e) THEN 0
        ELSE IF KeysOf(registry, e[i].type) # {} THEN i
        ELSE IF e[i].type = "joinError" THEN 0
        ELSE from[i + 1]
  IN  from[1]

\* errorMessage of jsonError: [key, type of detail, detail].  The map is ranged
\* over in any order; an empty key, and a detail that does not encode, count as
\* no type.
Message(e, registry) ==
  LET i == detectErrorType(e, registry)
  IN  IF i = 0 \/ e[i].type \in Unencodable THEN {<<NoKey, NoType, "zero">>}
      ELSE {IF k = NoKey THEN <<NoKey, NoType, "zero">>
            ELSE <<k, e[i].type, IF e[i].type \in Hidden THEN "zero" ELSE e[i].detail>> :
              k \in KeysOf(registry, e[i].type)}

\* WriteHeader of net/http: an informational status is followed by a 200 when
\* the body comes, and 204 and 304 refuse a body.
FinalStatus(code) == IF code \in 100 .. 199 THEN 200 ELSE code
RefusesBody(code) == code \in {204, 304}

\* RawEncodeError: errorToCode, then jsonError.
EncodeError ==
  LET code == errorToCode(err)
  IN  /\ stage = "handler"
      /\ code \in 100 .. 999
      /\ \E m \in Message(err, reg.server) :
           answer' = IF RefusesBody(code) THEN [NoAnswer EXCEPT !.status = code]
                     ELSE [status |-> FinalStatus(code), body |-> "message",
                           key |-> m[1], type |-> m[2], detail |-> m[3]]
      /\ stage' = "sent"
      /\ UNCHANGED <<err, reg, fault, result>>

\* WriteHeader panics: the connection is closed and Do returns an error.
EncodeErrorPanics ==
  /\ stage = "handler"
  /\ errorToCode(err) \notin 100 .. 999
  /\ result' = Plain("plain")
  /\ stage' = "returned"
  /\ UNCHANGED <<err, reg, fault, answer>>

----------------------------------------------------------------------------
(* The client *)

Return(res) ==
  /\ result' = res
  /\ stage' = "returned"
  /\ UNCHANGED <<err, reg, fault, answer>>

IsSuccess(status) == status \in 200 .. 299

\* A 2xx: the message is decoded as a response with JSON fields, of which it has
\* none; without a body that is an io.EOF.
DecodeSuccess ==
  /\ stage = "sent" /\ fault # "replaced"
  /\ IsSuccess(answer.status)
  /\ Return(IF answer.body = "message" /\ fault = "none" THEN Plain("nil") ELSE Plain("plain"))

\* All of a message: neither cut by the connection or the limit, nor the page
\* of a proxy, nor empty.
CanRead == fault = "none" /\ answer.body = "message"

\* The code is a key of the client: the detail becomes an object of the type the
\* client has there.  If that is not the server's type, which of its fields are
\* filled, or whether it fails, depends on their names.
DecodeTyped ==
  /\ stage = "sent" /\ ~IsSuccess(answer.status)
  /\ CanRead
  /\ answer.key # NoKey
  /\ LET type == reg.client[answer.key]
         typed(detail) == [kind |-> "typed", type |-> type, detail |-> detail]
     IN  /\ type # NoType
         /\ IF type = answer.type THEN Return(typed(answer.detail))
            ELSE \/ Return(Plain("plain"))
                 \/ \E detail \in {"zero", "set"} : Return(typed(detail))

\* Mutant: a code that the client does not know is looked up among its types.
DecodePlain_ByType ==
  /\ stage = "sent" /\ ~IsSuccess(answer.status)
  /\ CanRead
  /\ answer.key # NoKey => reg.client[answer.key] = NoType
  /\ \/ Return(Plain("plain"))
     \/ \E k \in Keys : reg.client[k] # NoType
          /\ Return([kind |-> "typed", type |-> reg.client[k], detail |-> "zero"])

\* No code, or one the client does not know: an error with the message.
DecodePlain ==
  /\ stage = "sent" /\ ~IsSuccess(answer.status)
  /\ CanRead
  /\ answer.key # NoKey => reg.client[answer.key] = NoType
  /\ Return(Plain("plain"))

\* What was received is not an errorMessage.
DecodeFails ==
  /\ stage = "sent" /\ (fault = "replaced" \/ ~IsSuccess(answer.status))
  /\ ~CanRead
  /\ Return(Plain("plain"))

Next ==
  \/ EncodeError \/ EncodeErrorPanics
  \/ DecodeSuccess \/ DecodeTyped \/ DecodePlain \/ DecodeFails

Spec == Init /\ [][Next]_vars

----------------------------------------------------------------------------
(* Properties *)

\* What errors.Unwrap reaches from the error itself.
Chain(e) == {i \in DOMAIN e : \A j \in 1 .. i - 1 : e[j].type # "joinError"}

\* The outermost registered link of a chain, as the server's registry has it.
IsOutermost(e, i, registry) ==
  /\ i \in Chain(e)
  /\ KeysOf(registry, e[i].type) # {}
  /\ \A j \in 1 .. i - 1 : KeysOf(registry, e[j].type) = {}

\* The caller gets the outermost error of the chain whose type is registered, of
\* that type and with its detail, whatever wraps it and however many types and
\* keys are registered (README.md:119-123), if client and server have the same
\* map, the status leaves room for a body and is no success, and the detail has
\* a JSON form.  Behind an error that wraps several there is no chain.
TypedErrorArrives ==
  \A i \in DOMAIN err :
    /\ stage = "returned" /\ fault = "none"
    /\ reg.client = reg.server /\ IsOutermost(err, i, reg.server)
    /\ NoKey \notin KeysOf(reg.server, err[i].type)
    /\ err[i].type \notin Unencodable
    /\ answer.body = "message" /\ ~IsSuccess(answer.status)
    => result = [kind |-> "typed", type |-> err[i].type,
                 detail |-> IF err[i].type \in Hidden THEN "zero" ELSE err[i].detail]

\* A typed error is one that the handler returned, as its outermost registered
\* link, and no proxy, no cut answer and no other version of the client makes one
\* up, as long as no key means one type here and another one there.
NothingInvented ==
  result.kind = "typed"
  /\ (\A k \in Keys : reg.client[k] \in {NoType, reg.server[k]}) =>
    /\ fault = "none"
    /\ \E i \in DOMAIN err :
         /\ IsOutermost(err, i, reg.server)
         /\ result.type = err[i].type
         /\ result.detail \in {err[i].detail, "zero"}

\* The status is that of the outermost error with an HttpCode (README.md:117-118),
\* save that a JSON syntax error inside makes it a 400, and the call succeeds only
\* if that code is a success or informational, which no CodeError has.
StatusIsTheErrors ==
  /\ \A i \in DOMAIN err :
       /\ answer.body = "message"
       /\ err[i].type \in Coded /\ \A j \in 1 .. i - 1 : err[j].type \notin Coded
       /\ \A j \in DOMAIN err : err[j].type # "SyntaxError"
       => answer.status = FinalStatus(err[i].code)
  /\ result.kind = "nil" =>
       \E i \in DOMAIN err :
         /\ err[i].type \in Coded \ {"CodeError"} /\ err[i].code \in 100 .. 299
         /\ \A j \in 1 .. i - 1 : err[j].type \notin Coded
=============================================================================
