--------------------------- MODULE RpcCall_proofs ---------------------------
(***************************************************************************)
(* Proofs, for any set of calls over any stack of HTTP clients and any set *)
(* of faults, of the safety properties of RpcCall, and that it closes as   *)
(* AbstractClosing says.                                                   *)
(***************************************************************************)
EXTENDS RpcCall, TLAPS

\* The client that Client.Close reaches is a ClosingClient.
OutermostCloses == job.client # <<>> /\ Head(job.client) = "closing"

\* What the server has sent, by where its handler is.
ServerInv ==
  /\ srv \in {"idle", "decode", "handler", "encode"} =>
       header = "none" /\ payload = "none" /\ ~encoded
  /\ srv \in {"idle", "decode", "handler"} => ~handled
  /\ srv \in {"encode", "body"} => handled
  /\ srv = "body" => ~encoded
  /\ complete <=> srv = "done"
  /\ complete => header # "none"
  /\ handled => job.outcome = "ok" /\ payload \notin {"error", "typedError"}
  /\ encoded <=> payload = "response"
  /\ encoded => handled
  /\ srv \in {"finish", "done"} => handled \/ payload \in {"error", "typedError"}
  /\ payload = "partial" => job.res = "stream"
  /\ payload \in {"error", "typedError"} => header # "none"
  /\ payload = "typedError" => job.outcome = "registered"

\* Without a status field the status line tells whether the handler responded.
StatusInv ==
  ~job.status =>
    /\ handled => header \in {"none", "2xx"}
    /\ ~handled /\ job.outcome # "coded2xx" => header \in {"none", "error"}

\* What the client has, by where Call is.
ClientInv ==
  /\ cli \in {"encode", "do"} => srv = "idle"
  /\ cli \in {"encode", "do", "await"} => resBody = "none"
  /\ cli \in {"unwind", "decode", "close"} => header # "none" /\ resBody \in {"open", "memory"}
  /\ resBody = "memory" => complete
  /\ cli \in {"encode", "do", "await", "unwind", "decode"} => response = "zero"
  /\ conn = "open" => srv # "idle"

\* Where the call is among the layers, and what the closer knows of it.
LayerInv ==
  /\ layer > 0 => cli \in {"do", "await", "unwind"}
  /\ Inside => admission = "in"
  /\ admission = "refused" => cli = "returned"
  /\ admission = "in" /\ cli \in {"encode", "do"} => Inside
  /\ closer = "waiting" => OutermostCloses
  /\ closer = "returned" /\ OutermostCloses => ~Inside
  /\ closer # "none" => "close" \in faults

\* Nothing goes wrong in a call that no fault touches.
QuietInv ==
  Touching = {} =>
    /\ conn # "broken"
    /\ admission # "refused"
    /\ srv \notin {"idle", "decode", "handler"} => (handled <=> job.outcome = "ok")
    /\ srv \in {"finish", "done"} =>
         /\ job.outcome = "ok" <=> payload = "response"
         /\ job.outcome = "registered" <=> payload = "typedError"
    /\ job.outcome = "coded2xx" => header \in {"none", "2xx"}
    /\ cli \in {"close", "returned"} =>
         /\ result = Verdict
         /\ result = "nil" /\ job.outcome = "ok" =>
              response = IF job.res = "stream" THEN "reader" ELSE "filled"

\* The inductive invariant: what the parts of the call know of each other, and the
\* properties that it is about.
IInv ==
  /\ TypeOK
  /\ ServerInv
  /\ StatusInv
  /\ ClientInv
  /\ LayerInv
  /\ QuietInv
  /\ ErrorsReachCaller
  /\ AnswerIsGenuine
  /\ BodyReleased

----------------------------------------------------------------------------
(* The invariant is inductive: one lemma for each part of Next *)

\* What it means that no fault touches the call.
LEMMA Untouched ==
  ASSUME Touching = {}
  PROVE  /\ faults \cap {"encodeRequest", "network", "decodeRequest", "limit"} = {}
         /\ "encodeResponse" \in faults \/ "reader" \in faults => job.outcome # "ok"
         /\ "decodeResponse" \in faults =>
              job.outcome # "ok" /\ ~job.status /\ job.outcome # "coded2xx"
         /\ "log" \in faults => ~Has("debug")
         /\ "close" \in faults => ~OutermostCloses
<1> DEFINE Handlers == IF job.outcome = "ok" THEN {}
                       ELSE IF job.status \/ job.outcome = "coded2xx" THEN {"encodeResponse", "reader"}
                       ELSE {"encodeResponse", "reader", "decodeResponse"}
<1>1. Handlers \subseteq {"encodeResponse", "reader", "decodeResponse"}
  OBVIOUS
<1>2. \A f \in faults : f \in Handlers \/ (f = "log" /\ ~Has("debug")) \/ (f = "close" /\ ~OutermostCloses)
  BY DEF Touching, OutermostCloses
<1>3. job.outcome = "ok" => Handlers = {}
  OBVIOUS
<1>4. job.status \/ job.outcome = "coded2xx" => "decodeResponse" \notin Handlers
  OBVIOUS
<1> HIDE DEF Handlers
<1> QED
  BY <1>1, <1>2, <1>3, <1>4

\* EncodeRequest, done or failed, keeps the invariant: the server has not begun.
LEMMA RequestInv ==
  ASSUME IInv,
         EncodeRequest \/ EncodeRequestFails
  PROVE  IInv'
<1>1. TypeOK'
  BY DEF IInv, TypeOK, EncodeRequest, EncodeRequestFails, inVars, srvVars
<1>2. ServerInv'
  BY DEF IInv, ServerInv, EncodeRequest, EncodeRequestFails, inVars, srvVars
<1>3. StatusInv'
  BY DEF IInv, StatusInv, EncodeRequest, EncodeRequestFails, inVars, srvVars
<1>4. ClientInv'
  BY DEF IInv, ClientInv, EncodeRequest, EncodeRequestFails, srvVars
<1>5. LayerInv'
  BY DEF IInv, LayerInv, EncodeRequest, EncodeRequestFails, inVars, OutermostCloses, Inside
<1>6. QuietInv'
  BY DEF IInv, QuietInv, EncodeRequest, EncodeRequestFails, inVars, srvVars, Has, Touching
<1>7. ErrorsReachCaller'
  BY DEF ErrorsReachCaller, EncodeRequest, EncodeRequestFails
<1>8. AnswerIsGenuine'
  BY DEF IInv, TypeOK, AnswerIsGenuine, EncodeRequest, EncodeRequestFails
<1>9. BodyReleased'
  BY DEF IInv, ClientInv, BodyReleased, EncodeRequest, EncodeRequestFails
<1> QED
  BY <1>1, <1>2, <1>3, <1>4, <1>5, <1>6, <1>7, <1>8, <1>9 DEF IInv

\* So does going in through the layers: a ClosingClient lets the call in or refuses it,
\* which only a closing one does; a DebugClient logs it or fails.
LEMMA LayersInInv ==
  ASSUME IInv,
         EnterClosing \/ DoRejected \/ LogRequest \/ LogRequestFails
  PROVE  IInv'
<1>1. TypeOK'
  BY DEF IInv, TypeOK, EnterClosing, DoRejected, LogRequest, LogRequestFails, inVars, srvVars,
     ReturnError, AtLayer
<1>2. ServerInv'
  BY DEF IInv, ServerInv, EnterClosing, DoRejected, LogRequest, LogRequestFails, inVars, srvVars
<1>3. StatusInv'
  BY DEF IInv, StatusInv, EnterClosing, DoRejected, LogRequest, LogRequestFails, inVars, srvVars
<1>4. ClientInv'
  BY DEF IInv, ClientInv, EnterClosing, DoRejected, LogRequest, LogRequestFails, srvVars,
     ReturnError
<1>5. LayerInv'
  BY DEF IInv, TypeOK, LayerInv, EnterClosing, DoRejected, LogRequest, LogRequestFails, inVars,
     ReturnError, AtLayer, Refuses, IsClosing, OutermostCloses, Inside
<1>6. QuietInv'
  BY DEF IInv, TypeOK, LayerInv, QuietInv, EnterClosing, DoRejected, LogRequest,
     LogRequestFails, inVars, srvVars, AtLayer, Refuses, IsClosing, Has, Touching
<1>7. ErrorsReachCaller'
  BY DEF ErrorsReachCaller, EnterClosing, DoRejected, LogRequest, LogRequestFails, ReturnError,
     AtLayer
<1>8. AnswerIsGenuine'
  BY DEF IInv, AnswerIsGenuine, EnterClosing, DoRejected, LogRequest, LogRequestFails, inVars,
     srvVars, ReturnError
<1>9. BodyReleased'
  BY DEF IInv, ClientInv, BodyReleased, EnterClosing, DoRejected, LogRequest, LogRequestFails,
     AtLayer
<1> QED
  BY <1>1, <1>2, <1>3, <1>4, <1>5, <1>6, <1>7, <1>8, <1>9 DEF IInv

\* So do the steps of the transport: an error of its own is an error of Call, and an
\* answer it hands over has a status line.
LEMMA TransportInv ==
  ASSUME IInv,
         Do \/ DoUnreachable \/ TransportClosesRequest \/ Respond \/ DoFails
  PROVE  IInv'
<1>1. TypeOK'
  BY DEF IInv, TypeOK, Do, DoUnreachable, TransportClosesRequest, Respond, DoFails, inVars,
     srvVars, ReturnError, ClosedByTransport, AtTransport
<1>2. ServerInv'
  BY DEF IInv, ServerInv, ClientInv, Do, DoUnreachable, TransportClosesRequest, Respond,
     DoFails, inVars, srvVars, AtTransport
<1>3. StatusInv'
  BY DEF IInv, StatusInv, Do, DoUnreachable, TransportClosesRequest, Respond, DoFails, inVars,
     srvVars
<1>4. ClientInv'
  BY DEF IInv, ClientInv, Do, DoUnreachable, TransportClosesRequest, Respond, DoFails, srvVars,
     ReturnError, AtTransport
<1>5. LayerInv'
  BY DEF IInv, LayerInv, Do, DoUnreachable, TransportClosesRequest, Respond, DoFails, inVars,
     ReturnError, AtTransport, OutermostCloses, Inside
<1>6. QuietInv'
  BY DEF IInv, QuietInv, Do, DoUnreachable, TransportClosesRequest, Respond, DoFails, inVars,
     srvVars, Has, Verdict, Touching
<1>7. ErrorsReachCaller'
  BY DEF IInv, ErrorsReachCaller, Do, DoUnreachable, TransportClosesRequest, Respond, DoFails,
     inVars, srvVars, ReturnError
<1>8. AnswerIsGenuine'
  BY DEF IInv, AnswerIsGenuine, Do, DoUnreachable, TransportClosesRequest, Respond, DoFails,
     inVars, srvVars, ReturnError
<1>9. BodyReleased'
  BY DEF IInv, ClientInv, BodyReleased, Do, DoUnreachable, TransportClosesRequest, Respond,
     DoFails, inVars, AtTransport
<1> QED
  BY <1>1, <1>2, <1>3, <1>4, <1>5, <1>6, <1>7, <1>8, <1>9 DEF IInv

\* So does coming back through the layers: the copy that a DebugClient makes is of a
\* whole answer, and when it drops the answer it has closed it.
LEMMA LayersOutInv ==
  ASSUME IInv,
         LeaveClosing \/ LogResponse \/ LogResponseFails \/ DoReturns
  PROVE  IInv'
<1>1. TypeOK'
  BY DEF IInv, TypeOK, LeaveClosing, LogResponse, LogResponseFails, DoReturns, inVars, srvVars,
     ReturnError, BackIn
<1>2. ServerInv'
  BY DEF IInv, ServerInv, LeaveClosing, LogResponse, LogResponseFails, DoReturns, inVars,
     srvVars
<1>3. StatusInv'
  BY DEF IInv, StatusInv, LeaveClosing, LogResponse, LogResponseFails, DoReturns, inVars,
     srvVars
<1>4. ClientInv'
  BY DEF IInv, ClientInv, LeaveClosing, LogResponse, LogResponseFails, DoReturns, srvVars,
     ReturnError, CanReadAll, BackIn
<1>5. LayerInv'
  BY DEF IInv, TypeOK, LayerInv, LeaveClosing, LogResponse, LogResponseFails, DoReturns, inVars,
     ReturnError, BackIn, OutermostCloses, Inside
<1>6. QuietInv'
  BY DEF IInv, TypeOK, QuietInv, LeaveClosing, LogResponse, LogResponseFails, DoReturns, inVars,
     srvVars, BackIn, Has, Touching
<1>7. ErrorsReachCaller'
  BY DEF IInv, ErrorsReachCaller, LeaveClosing, LogResponse, LogResponseFails, DoReturns,
     inVars, srvVars, ReturnError
<1>8. AnswerIsGenuine'
  BY DEF IInv, AnswerIsGenuine, LeaveClosing, LogResponse, LogResponseFails, DoReturns, inVars,
     srvVars, ReturnError
<1>9. BodyReleased'
  BY DEF IInv, BodyReleased, LeaveClosing, LogResponse, LogResponseFails, DoReturns, inVars
<1> QED
  BY <1>1, <1>2, <1>3, <1>4, <1>5, <1>6, <1>7, <1>8, <1>9 DEF IInv

\* So does Client.Close, before and after its wait.
LEMMA CloseInv ==
  ASSUME IInv,
         CloseStart \/ CloseWait
  PROVE  IInv'
<1>1. TypeOK'
  BY DEF IInv, TypeOK, CloseStart, CloseWait, srvVars
<1>2. ServerInv'
  BY DEF IInv, ServerInv, CloseStart, CloseWait, srvVars
<1>3. StatusInv'
  BY DEF IInv, StatusInv, CloseStart, CloseWait, srvVars
<1>4. ClientInv'
  BY DEF IInv, ClientInv, CloseStart, CloseWait, srvVars
<1>5. LayerInv'
  BY DEF IInv, LayerInv, CloseStart, CloseWait, OutermostCloses, Inside
<1>6. QuietInv'
  BY DEF IInv, QuietInv, CloseStart, CloseWait, srvVars, Has, Verdict, Touching
<1>7. ErrorsReachCaller'
  BY DEF IInv, ErrorsReachCaller, CloseStart, CloseWait, srvVars
<1>8. AnswerIsGenuine'
  BY DEF IInv, AnswerIsGenuine, CloseStart, CloseWait, srvVars
<1>9. BodyReleased'
  BY DEF IInv, BodyReleased, CloseStart, CloseWait
<1> QED
  BY <1>1, <1>2, <1>3, <1>4, <1>5, <1>6, <1>7, <1>8, <1>9 DEF IInv

\* So do the server's steps up to what the handler returns.
LEMMA HandlerInv ==
  ASSUME IInv,
         DecodeRequest \/ DecodeRequestFails \/ HandlerResponds \/ HandlerErrs
  PROVE  IInv'
<1>1. TypeOK'
  BY DEF IInv, TypeOK, DecodeRequest, DecodeRequestFails, HandlerResponds, HandlerErrs, inVars
<1>2. ServerInv'
  BY DEF IInv, ServerInv, DecodeRequest, DecodeRequestFails, HandlerResponds, HandlerErrs,
     inVars
<1>3. StatusInv'
  BY DEF IInv, ServerInv, StatusInv, DecodeRequest, DecodeRequestFails, HandlerResponds,
     HandlerErrs, inVars
<1>4. ClientInv'
  BY DEF IInv, ClientInv, DecodeRequest, DecodeRequestFails, HandlerResponds, HandlerErrs
<1>5. LayerInv'
  BY DEF IInv, LayerInv, DecodeRequest, DecodeRequestFails, HandlerResponds, HandlerErrs,
     inVars, OutermostCloses, Inside
<1>6. QuietInv'
  BY DEF IInv, ServerInv, QuietInv, DecodeRequest, DecodeRequestFails, HandlerResponds,
     HandlerErrs, inVars, Has, Verdict, Touching
<1>7. ErrorsReachCaller'
  BY DEF IInv, ErrorsReachCaller, DecodeRequest, DecodeRequestFails, HandlerResponds,
     HandlerErrs, inVars
<1>8. AnswerIsGenuine'
  BY DEF IInv, ServerInv, AnswerIsGenuine, DecodeRequest, DecodeRequestFails, HandlerResponds,
     HandlerErrs, inVars
<1>9. BodyReleased'
  BY DEF IInv, BodyReleased, DecodeRequest, DecodeRequestFails, HandlerResponds, HandlerErrs,
     inVars
<1> QED
  BY <1>1, <1>2, <1>3, <1>4, <1>5, <1>6, <1>7, <1>8, <1>9 DEF IInv

\* So do the steps that write the answer: only EncodeBody makes a whole response, and no
\* step after an error adds to it.
LEMMA EncodeInv ==
  ASSUME IInv,
         EncodeFields \/ EncodeFieldsFail \/ EncodeBody \/ CopySome \/ EncodeBodyFails \/ FinishResponse
  PROVE  IInv'
<1>1. TypeOK'
  BY DEF IInv, TypeOK, EncodeFields, EncodeFieldsFail, EncodeBody, CopySome, EncodeBodyFails,
     FinishResponse, Started, inVars
<1>2. ServerInv'
  BY DEF IInv, ServerInv, EncodeFields, EncodeFieldsFail, EncodeBody, CopySome, EncodeBodyFails,
     FinishResponse, inVars, Started
<1>3. StatusInv'
  <2>1. CASE EncodeFields
    BY <2>1 DEF IInv, StatusInv, EncodeFields, inVars
  <2>2. CASE EncodeFieldsFail
    BY <2>2 DEF IInv, ServerInv, StatusInv, EncodeFieldsFail
  <2>3. CASE EncodeBody
    BY <2>3 DEF IInv, ServerInv, StatusInv, EncodeBody, Started, inVars
  <2>4. CASE CopySome
    BY <2>4 DEF IInv, ServerInv, StatusInv, CopySome, Started, inVars
  <2>5. CASE EncodeBodyFails
    BY <2>5 DEF IInv, StatusInv, EncodeBodyFails, inVars
  <2>6. CASE FinishResponse
    BY <2>6 DEF IInv, ServerInv, StatusInv, FinishResponse, Started, inVars
  <2> QED
    BY <2>1, <2>2, <2>3, <2>4, <2>5, <2>6
<1>4. ClientInv'
  BY DEF IInv, ClientInv, EncodeFields, EncodeFieldsFail, EncodeBody, CopySome, EncodeBodyFails,
     FinishResponse, Started
<1>5. LayerInv'
  BY DEF IInv, LayerInv, EncodeFields, EncodeFieldsFail, EncodeBody, CopySome, EncodeBodyFails,
     FinishResponse, inVars, OutermostCloses, Inside
<1>6. QuietInv'
  BY DEF IInv, ServerInv, QuietInv, EncodeFields, EncodeFieldsFail, EncodeBody, CopySome,
     EncodeBodyFails, FinishResponse, inVars, Started, Has, Verdict, Touching
<1>7. ErrorsReachCaller'
  BY DEF IInv, ErrorsReachCaller, EncodeFields, EncodeFieldsFail, EncodeBody, CopySome,
     EncodeBodyFails, FinishResponse, inVars
<1>8. AnswerIsGenuine'
  BY DEF IInv, ServerInv, AnswerIsGenuine, EncodeFields, EncodeFieldsFail, EncodeBody, CopySome,
     EncodeBodyFails, FinishResponse, inVars
<1>9. BodyReleased'
  BY DEF IInv, BodyReleased, EncodeFields, EncodeFieldsFail, EncodeBody, CopySome,
     EncodeBodyFails, FinishResponse, inVars
<1> QED
  BY <1>1, <1>2, <1>3, <1>4, <1>5, <1>6, <1>7, <1>8, <1>9 DEF IInv

\* So do the ways to decode an answer.  Here the verdict of Call is made: what the client
\* reads was sent as the status line and the payload say.
LEMMA DecodeInv ==
  ASSUME IInv,
         DecodeStream \/ DecodeJson \/ DecodeProtobuf \/ DecodeBodyless \/ DecodeError
  PROVE  IInv'
<1>1. TypeOK'
  BY DEF IInv, TypeOK, DecodeStream, DecodeJson, DecodeProtobuf, DecodeBodyless, DecodeError,
     inVars, srvVars, FinishDecode
<1>2. ServerInv'
  BY DEF IInv, ServerInv, DecodeStream, DecodeJson, DecodeProtobuf, DecodeBodyless, DecodeError,
     inVars, srvVars, FinishDecode
<1>3. StatusInv'
  BY DEF IInv, StatusInv, DecodeStream, DecodeJson, DecodeProtobuf, DecodeBodyless, DecodeError,
     inVars, srvVars, FinishDecode
<1>4. ClientInv'
  BY DEF IInv, ClientInv, DecodeStream, DecodeJson, DecodeProtobuf, DecodeBodyless, DecodeError,
     srvVars, FinishDecode
<1>5. LayerInv'
  BY DEF IInv, LayerInv, DecodeStream, DecodeJson, DecodeProtobuf, DecodeBodyless, DecodeError,
     inVars, FinishDecode, OutermostCloses, Inside
<1>6. QuietInv'
  <2> SUFFICES ASSUME Touching' = {}
               PROVE  /\ result' = Verdict'
                      /\ result' = "nil" /\ job'.outcome = "ok" =>
                           response' = IF job'.res = "stream" THEN "reader" ELSE "filled"
    BY DEF IInv, QuietInv, Touching, FinishDecode, DecodeStream, DecodeJson, DecodeProtobuf,
       DecodeBodyless, DecodeError, inVars, srvVars, Has
  <2>0. Touching = {} /\ job' = job
    BY DEF Touching, FinishDecode, DecodeStream, DecodeJson, DecodeProtobuf, DecodeBodyless,
       DecodeError, inVars, Has
  <2>1. CASE DecodeStream
    BY <2>0, <2>1, Untouched DEF IInv, ServerInv, StatusInv, DecodeStream, FinishDecode,
       IsSuccess, Verdict
  <2>2. CASE DecodeJson
    BY <2>0, <2>2, Untouched DEF IInv, ServerInv, StatusInv, ClientInv, QuietInv, DecodeJson,
       FinishDecode, IsSuccess, CanReadAll, CanFailRead, Verdict
  <2>3. CASE DecodeProtobuf
    BY <2>0, <2>3, Untouched DEF IInv, ServerInv, StatusInv, ClientInv, QuietInv,
       DecodeProtobuf, FinishDecode, IsSuccess, CanReadAll, CanFailRead, Verdict
  <2>4. CASE DecodeBodyless
    BY <2>0, <2>4, Untouched DEF IInv, ServerInv, StatusInv, ClientInv, QuietInv,
       DecodeBodyless, FinishDecode, IsSuccess, CanReadAll, CanFailRead, Verdict
  <2>5. CASE DecodeError
    BY <2>0, <2>5, Untouched DEF IInv, ServerInv, StatusInv, ClientInv, QuietInv, DecodeError,
       FinishDecode, IsSuccess, CanReadAll, CanFailRead, Verdict
  <2> QED
    BY <2>1, <2>2, <2>3, <2>4, <2>5
<1>7. ErrorsReachCaller'
  BY DEF IInv, StatusInv, ErrorsReachCaller, DecodeStream, DecodeJson, DecodeProtobuf,
     DecodeBodyless, DecodeError, inVars, srvVars, FinishDecode, IsSuccess
<1>8. AnswerIsGenuine'
  BY DEF IInv, TypeOK, ServerInv, StatusInv, ClientInv, AnswerIsGenuine, DecodeStream,
     DecodeJson, DecodeProtobuf, DecodeBodyless, DecodeError, inVars, srvVars, FinishDecode,
     IsSuccess, CanReadAll
<1>9. BodyReleased'
  BY DEF BodyReleased, DecodeStream, DecodeJson, DecodeProtobuf, DecodeBodyless, DecodeError,
     FinishDecode
<1> QED
  BY <1>1, <1>2, <1>3, <1>4, <1>5, <1>6, <1>7, <1>8, <1>9 DEF IInv

\* So do closing the body, closing the stream and a connection that breaks.
LEMMA EnvironmentInv ==
  ASSUME IInv,
         CloseBody \/ CallerClosesStream \/ Breaks
  PROVE  IInv'
<1>1. TypeOK'
  BY DEF IInv, TypeOK, CloseBody, CallerClosesStream, Breaks, inVars, srvVars
<1>2. ServerInv'
  BY DEF IInv, ServerInv, CloseBody, CallerClosesStream, Breaks, inVars, srvVars
<1>3. StatusInv'
  BY DEF IInv, StatusInv, CloseBody, CallerClosesStream, Breaks, inVars, srvVars
<1>4. ClientInv'
  BY DEF IInv, ClientInv, CloseBody, CallerClosesStream, Breaks, srvVars
<1>5. LayerInv'
  BY DEF IInv, LayerInv, CloseBody, CallerClosesStream, Breaks, inVars, OutermostCloses, Inside
<1>6. QuietInv'
  BY DEF IInv, QuietInv, CloseBody, CallerClosesStream, Breaks, inVars, srvVars, Has, Verdict,
     Touching
<1>7. ErrorsReachCaller'
  BY DEF IInv, ErrorsReachCaller, CloseBody, CallerClosesStream, Breaks, inVars, srvVars
<1>8. AnswerIsGenuine'
  BY DEF IInv, AnswerIsGenuine, CloseBody, CallerClosesStream, Breaks, inVars, srvVars
<1>9. BodyReleased'
  BY DEF BodyReleased, CloseBody, CallerClosesStream, Breaks, inVars
<1> QED
  BY <1>1, <1>2, <1>3, <1>4, <1>5, <1>6, <1>7, <1>8, <1>9 DEF IInv

\* A call that has not begun satisfies the invariant.
LEMMA InitInv == Init => IInv
<1> SUFFICES ASSUME Init PROVE IInv
  OBVIOUS
<1>1. TypeOK
  <2>1. job \in Jobs /\ layer \in 0 .. Len(job.client)
    BY JobsAssumption DEF Init
  <2>2. faults \subseteq Faults
    BY DEF Init
  <2>3. reqReader \in {"none", "open", "closed"}
    BY DEF Init
  <2>4. complete \in BOOLEAN /\ handled \in BOOLEAN /\ encoded \in BOOLEAN
    BY DEF Init
  <2>5. layer > 0 => cli \in {"do", "await", "unwind"}
    BY DEF Init
  <2> QED
    BY <2>4 DEF Init, TypeOK
<1>2. ServerInv /\ StatusInv /\ ClientInv
  BY DEF Init, ServerInv, StatusInv, ClientInv
<1>3. LayerInv
  BY DEF Init, LayerInv, Inside
<1>4. QuietInv /\ ErrorsReachCaller /\ AnswerIsGenuine /\ BodyReleased
  BY DEF Init, QuietInv, ErrorsReachCaller, AnswerIsGenuine, BodyReleased
<1> QED
  BY <1>1, <1>2, <1>3, <1>4 DEF IInv

\* A step that changes nothing keeps the invariant.
LEMMA StutterInv == IInv /\ UNCHANGED vars => IInv'
<1> SUFFICES ASSUME IInv, UNCHANGED vars PROVE IInv'
  OBVIOUS
<1> USE DEF vars, inVars, srvVars
<1>1. TypeOK' /\ ServerInv' /\ StatusInv' /\ ClientInv'
  BY DEF IInv, TypeOK, ServerInv, StatusInv, ClientInv
<1>2. LayerInv'
  BY DEF IInv, LayerInv, Inside, OutermostCloses
<1>3. QuietInv'
  BY DEF IInv, QuietInv, Touching, Has, Verdict
<1>4. ErrorsReachCaller' /\ AnswerIsGenuine' /\ BodyReleased'
  BY DEF IInv, ErrorsReachCaller, AnswerIsGenuine, BodyReleased
<1> QED
  BY <1>1, <1>2, <1>3, <1>4 DEF IInv

\* IInv is inductive.
THEOREM Invariance == Safety => []IInv
<1>1. IInv /\ [Next]_vars => IInv'
  BY StutterInv, RequestInv, LayersInInv, TransportInv, LayersOutInv, CloseInv, HandlerInv,
     EncodeInv, DecodeInv, EnvironmentInv DEF Next, ClientStep, ServerStep
<1> QED
  BY <1>1, InitInv, PTL DEF Safety

----------------------------------------------------------------------------
(* The safety properties *)

\* Every variable keeps its type, and Call has a result exactly after it decoded or failed.
THEOREM TypeCorrect == Safety => []TypeOK
  BY Invariance, PTL DEF IInv

\* Call tells what the handler did, when no fault touches the call.
THEOREM HandlerAnswered == Safety => []AnswersTheHandler
<1>1. IInv => AnswersTheHandler
  BY DEF IInv, QuietInv, AnswersTheHandler
<1> QED
  BY <1>1, Invariance, PTL

\* No fault turns an error into a success (json_transport.go:278-283).
THEOREM ErrorsArrive == Safety => []ErrorsReachCaller
  BY Invariance, PTL DEF IInv

\* No fault invents a registered error, and a JSON response that Call returns is whole.
THEOREM AnswersAreGenuine == Safety => []AnswerIsGenuine
  BY Invariance, PTL DEF IInv

\* Call leaves no response body open, save the stream it gives to the caller.
THEOREM BodiesReleased == Safety => []BodyReleased
  BY Invariance, PTL DEF IInv

----------------------------------------------------------------------------
(* Closing *)

\* On the way in, a call begins in the atomic client, is refused by it, or does nothing
\* that it can see.
LEMMA LayersInImplement ==
  ASSUME IInv, EncodeRequest \/ EncodeRequestFails \/ EnterClosing \/ DoRejected \/ LogRequest
  PROVE  [Abs!ANext]_(Abs!avars)
<1>1. CASE EnterClosing
  <2>1. Inside' /\ absPhase' = absPhase
    BY <1>1 DEF IInv, TypeOK, EnterClosing, AtLayer, Inside, absPhase, IsClosing
  <2>2. CASE Inside
    BY <1>1, <2>1, <2>2 DEF absStatus, Abs!avars
  <2>3. CASE ~Inside
    <3>1. absStatus["call"] = "idle" /\ absStatus' = [absStatus EXCEPT !["call"] = "active"]
      BY <1>1, <2>1, <2>3 DEF IInv, LayerInv, absStatus, EnterClosing, AtLayer
    <3>2. absPhase = "open"
      BY <1>1, <2>3 DEF IInv, TypeOK, EnterClosing, Refuses, IsClosing, Inside, absPhase
    <3> QED
      BY <2>1, <3>1, <3>2 DEF Abs!ANext, Abs!Begin
  <2> QED
    BY <2>2, <2>3
<1>2. CASE DoRejected
  <2>1. ~Inside /\ ~Inside' /\ absPhase' = absPhase /\ absPhase # "open"
    BY <1>2 DEF DoRejected, Refuses, ReturnError, Inside, absPhase, IsClosing
  <2>2. absStatus["call"] = "idle" /\ absStatus' = [absStatus EXCEPT !["call"] = "refused"]
    BY <1>2, <2>1 DEF IInv, LayerInv, absStatus, DoRejected, AtLayer
  <2> QED
    BY <2>1, <2>2 DEF Abs!ANext, Abs!Refuse
<1>3. CASE EncodeRequest \/ EncodeRequestFails \/ LogRequest
  <2>1. (Inside' <=> Inside) /\ admission' = admission
    BY <1>3 DEF IInv, TypeOK, EncodeRequest, EncodeRequestFails, LogRequest, AtLayer, inVars,
       Inside
  <2>2. absPhase' = absPhase
    BY <1>3 DEF absPhase, IsClosing, EncodeRequest, EncodeRequestFails, LogRequest, inVars
  <2> QED
    BY <2>1, <2>2 DEF absStatus, Abs!avars
<1> QED
  BY <1>1, <1>2, <1>3

\* A call leaves the ClosingClient, or a step does not concern it.
LEMMA LayersOutImplement ==
  ASSUME IInv, UNCHANGED <<job, closer, admission>>,
         layer' = layer \/ layer' = 0 \/ (layer' = layer - 1 /\ layer > 0)
  PROVE  [Abs!ANext]_(Abs!avars)
<1>1. Inside' => Inside
  BY DEF IInv, TypeOK, Inside
<1>2. absPhase' = absPhase
  BY DEF absPhase, IsClosing
<1>3. CASE Inside' <=> Inside
  BY <1>2, <1>3 DEF absStatus, Abs!avars
<1>4. CASE Inside /\ ~Inside'
  <2>1. absStatus["call"] = "active" /\ absStatus' = [absStatus EXCEPT !["call"] = "ended"]
    BY <1>4 DEF IInv, LayerInv, absStatus
  <2> QED
    BY <1>2, <2>1 DEF Abs!ANext, Abs!End
<1> QED
  BY <1>1, <1>3, <1>4

\* Client.Close starts and finishes the atomic Close if a ClosingClient is the outermost
\* layer, and otherwise does nothing that the atomic client can see.
LEMMA CloseImplements ==
  ASSUME IInv, CloseStart \/ CloseWait
  PROVE  [Abs!ANext]_(Abs!avars)
<1>1. absStatus' = absStatus
  BY DEF absStatus, Inside, CloseStart, CloseWait
<1>2. CASE ~OutermostCloses
  <2>1. absPhase = "open" /\ absPhase' = "open"
    BY <1>2 DEF OutermostCloses, absPhase, IsClosing, CloseStart, CloseWait
  <2> QED
    BY <1>1, <2>1 DEF Abs!avars
<1>3. CASE OutermostCloses /\ CloseStart
  <2>1. absPhase = "open" /\ absPhase' = "closing"
    BY <1>3 DEF OutermostCloses, absPhase, IsClosing, CloseStart
  <2> QED
    BY <1>1, <2>1 DEF Abs!ANext, Abs!StartClose
<1>4. CASE OutermostCloses /\ CloseWait
  <2>1. absPhase = "closing" /\ absPhase' = "closed" /\ absStatus["call"] # "active"
    BY <1>4 DEF OutermostCloses, absPhase, absStatus, IsClosing, CloseWait
  <2> QED
    BY <1>1, <2>1 DEF Abs!ANext, Abs!FinishClose
<1> QED
  BY <1>2, <1>3, <1>4

\* A stack of HTTP clients, wherever a ClosingClient is in it, closes as AbstractClosing
\* says: Close returns when no call is inside, and none gets in afterwards.
THEOREM ClosingHolds == Safety => CloseWaits
<1>1. Init => Abs!AInit
  BY DEF Init, Abs!AInit, absStatus, absPhase, IsClosing, Inside
<1>2. IInv /\ [Next]_vars => [Abs!ANext]_(Abs!avars)
  <2> SUFFICES ASSUME IInv, [Next]_vars PROVE [Abs!ANext]_(Abs!avars)
    OBVIOUS
  <2>1. CASE EncodeRequest \/ EncodeRequestFails \/ EnterClosing \/ DoRejected \/ LogRequest
    BY <2>1, LayersInImplement
  <2>2. CASE CloseStart \/ CloseWait
    BY <2>2, CloseImplements
  <2>3. CASE \/ UNCHANGED vars
             \/ LogRequestFails \/ Do \/ DoUnreachable \/ Respond \/ DoFails
             \/ LeaveClosing \/ LogResponse \/ LogResponseFails \/ DoReturns
             \/ DecodeStream \/ DecodeJson \/ DecodeProtobuf \/ DecodeBodyless \/ DecodeError
             \/ CloseBody \/ ServerStep
             \/ TransportClosesRequest \/ CallerClosesStream \/ Breaks
    <3>1. /\ UNCHANGED <<job, closer, admission>>
          /\ layer' = layer \/ layer' = 0 \/ (layer' = layer - 1 /\ layer > 0)
      BY <2>3 DEF vars, inVars, LogRequestFails, Do, DoUnreachable, Respond, DoFails,
         LeaveClosing, LogResponse, LogResponseFails, DoReturns, DecodeStream, DecodeJson,
         DecodeProtobuf, DecodeBodyless, DecodeError, CloseBody, ServerStep, DecodeRequest,
         DecodeRequestFails, HandlerResponds, HandlerErrs, EncodeFields, EncodeFieldsFail,
         EncodeBody, CopySome, EncodeBodyFails, FinishResponse, TransportClosesRequest,
         CallerClosesStream, Breaks, ReturnError, FinishDecode, BackIn
    <3> QED
      BY <3>1, LayersOutImplement
  <2> QED
    BY <2>1, <2>2, <2>3 DEF Next, ClientStep
<1> QED
  BY <1>1, <1>2, Invariance, PTL DEF Safety, CloseWaits, Abs!ASafety
=============================================================================
