------------------------------- MODULE RpcCall -------------------------------
(***************************************************************************)
(* One call through JsonTransport: Client.Call, the HTTP clients under it, *)
(* the handler that newHTTPHandler makes, and the way back, with a         *)
(* Client.Close that may come at any moment.  Control is kept in full,     *)
(* with every early return; of the data only what decides how a call ends  *)
(* is left: the status line, whether the body is a response, an error      *)
(* message, a part of a response or nothing, and who owns and who closes   *)
(* the three bodies and readers.                                           *)
(*                                                                         *)
(* net/http (transport, server, closing of request bodies) and the handler *)
(* with its response reader are the environment.                           *)
(***************************************************************************)
EXTENDS Naturals, Sequences, FiniteSets

CONSTANTS
  Jobs,      \* the calls: [req, res, status, client, outcome], see below
  Faults,    \* what may happen: "encodeRequest", "network", "decodeRequest",
             \* "encodeResponse", "reader", "decodeResponse", "limit", "log", "close"
  MaxFaults  \* how many of them may happen to one call

(***************************************************************************)
(* req: the request is an is_stream field ("stream") or a buffer.          *)
(* res: the response type is a JSON body ("json"), a protobuf body         *)
(* ("protobuf"), an is_stream field ("stream") or has header and cookie    *)
(* fields only ("bodyless").                                               *)
(* status: the response type has a use_as_status field.                    *)
(* client: the layers over net/http's client, outermost first: "closing"   *)
(* is a ClosingClient, whose inner steps are in ClosingClient.tla, "debug" *)
(* a DebugClient.                                                          *)
(* outcome: the handler returns a response ("ok"), an error of a type in   *)
(* JsonTransport.Errors, maybe wrapped ("registered"), one whose HttpCode  *)
(* ends as a 2xx, because it is one or because it is informational and     *)
(* net/http sends a 200 after it ("coded2xx"), or any other ("other").     *)
(***************************************************************************)
ASSUME JobsAssumption ==
  Jobs \subseteq [req : {"buffer", "stream"}, res : {"json", "protobuf", "stream", "bodyless"},
                  status : BOOLEAN, client : Seq({"closing", "debug"}),
                  outcome : {"ok", "registered", "coded2xx", "other"}]

ASSUME MaxFaultsAssumption == MaxFaults \in Nat

ASSUME FaultsAssumption ==
  Faults \subseteq {"encodeRequest", "network", "decodeRequest", "encodeResponse", "reader",
                    "decodeResponse", "limit", "log", "close"}

VARIABLES
  job,        \* the member of Jobs that this call is
  faults,     \* the faults it may meet
  cli,        \* where Call is
  layer,      \* layers of job.client whose Do it is in
  admission,  \* what a ClosingClient said to the call: "none", "in" or "refused"
  closer,     \* Client.Close of another goroutine: "none", "waiting", "returned"
  srv,        \* where the server's handler is
  conn,       \* "none", "open" or "broken"
  reqReader,  \* the caller's stream: "none", "open" or "closed"
  srvReader,  \* the handler's response stream: "none", "open" or "closed"
  header,     \* final status line sent: "none", "2xx" or "error"
  payload,    \* body sent: "none", "response", "partial", "error", "typedError"
  complete,   \* net/http ended the response
  resBody,    \* the client's response body: "none", "open", "closed", or a copy
              \* in memory, the original being closed: "memory"
  handled,    \* the handler returned a response
  encoded,    \* EncodeResponse returned nil
  result,     \* of Call: "none", "nil", "registered" or "error"
  response    \* of Call: "zero", "filled" or "reader"

srvVars == <<srv, srvReader, header, payload, complete, handled, encoded>>
inVars == <<job, faults, closer, admission>>
vars == <<inVars, cli, layer, conn, reqReader, resBody, result, response, srvVars>>

TypeOK ==
  /\ job \in Jobs
  /\ faults \subseteq Faults
  /\ cli \in {"encode", "do", "await", "unwind", "decode", "close", "returned"}
  /\ admission \in {"none", "in", "refused"}
  /\ layer \in 0 .. Len(job.client)
  /\ layer > 0 => cli \in {"do", "await", "unwind"}
  /\ closer \in {"none", "waiting", "returned"}
  /\ srv \in {"idle", "decode", "handler", "encode", "body", "finish", "done"}
  /\ conn \in {"none", "open", "broken"}
  /\ reqReader \in {"none", "open", "closed"}
  /\ srvReader \in {"none", "open", "closed"}
  /\ header \in {"none", "2xx", "error"}
  /\ payload \in {"none", "response", "partial", "error", "typedError"}
  /\ complete \in BOOLEAN
  /\ resBody \in {"none", "open", "memory", "closed"}
  /\ handled \in BOOLEAN /\ encoded \in BOOLEAN
  /\ result \in {"none", "nil", "registered", "error"}
  /\ result = "none" <=> cli \in {"encode", "do", "await", "unwind", "decode"}
  /\ response \in {"zero", "filled", "reader"}

Init ==
  /\ job \in Jobs
  /\ faults \in {f \in SUBSET Faults : Cardinality(f) <= MaxFaults}
  /\ cli = "encode" /\ layer = 0 /\ admission = "none" /\ closer = "none"
  /\ srv = "idle" /\ conn = "none"
  /\ reqReader = (IF job.req = "stream" THEN "open" ELSE "none")
  /\ srvReader = "none" /\ header = "none" /\ payload = "none"
  /\ complete = FALSE /\ resBody = "none"
  /\ handled = FALSE /\ encoded = FALSE
  /\ result = "none" /\ response = "zero"

----------------------------------------------------------------------------
(* Client.Call, up to the answer *)

\* EncodeRequest: writeQueryHeaderCookie ends by handing the stream over as
\* the body, or by encoding the body into a buffer.
EncodeRequest ==
  /\ cli = "encode"
  /\ cli' = "do"
  /\ UNCHANGED <<inVars, layer, conn, reqReader, resBody, result, response, srvVars>>

\* A field does not marshal, or the body does not: an error before that.
EncodeRequestFails ==
  /\ "encodeRequest" \in faults
  /\ cli = "encode"
  /\ result' = "error"
  /\ cli' = "returned"
  /\ UNCHANGED <<inVars, layer, conn, reqReader, resBody, response, srvVars>>

\* A body can be read to its end, or the connection, the context or the limit
\* of MaxBytesReader cuts it.
CanReadAll == resBody = "memory" \/ (complete /\ conn = "open")
CanFailRead == (resBody # "memory" /\ conn = "broken") \/ "limit" \in faults

(* c.client.Do(req), from the outermost layer to net/http's client and back *)

Has(l) == \E i \in DOMAIN job.client : job.client[i] = l
Inside == \E i \in 1 .. layer : job.client[i] = "closing"
AtLayer(l) == cli = "do" /\ layer < Len(job.client) /\ job.client[layer + 1] = l
AtTransport == cli = "do" /\ layer = Len(job.client)
BackIn(l) == cli = "unwind" /\ layer > 0 /\ job.client[layer] = l

\* An error goes up through all the layers, and out of Call.
ReturnError ==
  /\ result' = "error"
  /\ cli' = "returned"
  /\ layer' = 0

\* Client.Close reached the ClosingClient, which must then be the outermost layer.
IsClosing == closer # "none" /\ job.client # <<>> /\ Head(job.client) = "closing"

\* Only the outermost layer was told to close: it closes the ones below after
\* waiting, and then no call is at one of them.
Refuses == IsClosing /\ layer = 0

EnterClosing ==
  /\ AtLayer("closing") /\ ~Refuses
  /\ layer' = layer + 1
  /\ admission' = "in"
  /\ UNCHANGED <<job, faults, closer, cli, conn, reqReader, resBody, result, response, srvVars>>

\* Mutant: the rejection is no error.
DoRejected_NoError ==
  /\ AtLayer("closing") /\ Refuses
  /\ cli' = "returned"
  /\ layer' = 0
  /\ admission' = "refused"
  /\ UNCHANGED <<job, faults, closer, conn, reqReader, resBody, result, response, srvVars>>

\* closing_client.go:38-42: "api2 client is closing".
DoRejected ==
  /\ AtLayer("closing") /\ Refuses
  /\ ReturnError
  /\ admission' = "refused"
  /\ UNCHANGED <<job, faults, closer, conn, reqReader, resBody, response, srvVars>>

\* http2curl reads the whole body and puts a copy in its place; nobody closes
\* the original.
LogRequest ==
  /\ AtLayer("debug")
  /\ layer' = layer + 1
  /\ UNCHANGED <<inVars, cli, conn, reqReader, resBody, result, response, srvVars>>

LogRequestFails ==
  /\ AtLayer("debug") /\ "log" \in faults
  /\ ReturnError
  /\ UNCHANGED <<inVars, conn, reqReader, resBody, response, srvVars>>

\* The transport connects and sends.
Do ==
  /\ AtTransport
  /\ conn = "none"
  /\ conn' = "open"
  /\ srv' = "decode"
  /\ cli' = "await"
  /\ UNCHANGED <<inVars, layer, reqReader, resBody, result, response, srvReader, header,
                 payload, complete, handled, encoded>>

\* The transport closes the body it was given, which is the caller's stream
\* unless a DebugClient has put a copy there.
ClosedByTransport == IF reqReader = "open" /\ ~Has("debug") THEN "closed" ELSE reqReader

\* The transport cannot connect, or the context has ended already; like any end
\* of it, it closes the request body.
DoUnreachable ==
  /\ AtTransport
  /\ "network" \in faults \/ conn = "broken"
  /\ reqReader' = ClosedByTransport
  /\ ReturnError
  /\ UNCHANGED <<inVars, conn, resBody, response, srvVars>>

\* The transport has sent the request, or given up: it closes the body.
TransportClosesRequest ==
  /\ srv # "idle"
  /\ ClosedByTransport # reqReader
  /\ reqReader' = ClosedByTransport
  /\ UNCHANGED <<inVars, cli, layer, conn, resBody, result, response, srvVars>>

\* Headers arrive.
Respond ==
  /\ cli = "await"
  /\ conn = "open" /\ header # "none"
  /\ resBody' = "open"
  /\ cli' = "unwind"
  /\ UNCHANGED <<inVars, layer, conn, reqReader, result, response, srvVars>>

\* Mutant: an error counts only when nothing of the answer has come.
DoFails_BeforeHeader ==
  /\ cli = "await"
  /\ conn = "broken" /\ header = "none"
  /\ ReturnError
  /\ UNCHANGED <<inVars, conn, reqReader, resBody, response, srvVars>>

DoFails ==
  /\ cli = "await"
  /\ conn = "broken"
  /\ ReturnError
  /\ UNCHANGED <<inVars, conn, reqReader, resBody, response, srvVars>>

\* The deferred functions of ClosingClient.Do; the body stays readable.
LeaveClosing ==
  /\ BackIn("closing")
  /\ layer' = layer - 1
  /\ UNCHANGED <<inVars, cli, conn, reqReader, resBody, result, response, srvVars>>

\* DumpResponse reads the whole body, whatever its size, closes it and puts a
\* copy in its place.
LogResponse ==
  /\ BackIn("debug")
  /\ CanReadAll
  /\ resBody' = "memory"
  /\ layer' = layer - 1
  /\ UNCHANGED <<inVars, cli, conn, reqReader, result, response, srvVars>>

\* The body fails to be read, which releases it, or the log fails afterwards: the
\* answer is dropped.
LogResponseFails ==
  /\ BackIn("debug")
  /\ conn = "broken" \/ (CanReadAll /\ "log" \in faults)
  /\ resBody' = "closed"
  /\ ReturnError
  /\ UNCHANGED <<inVars, conn, reqReader, response, srvVars>>

\* client.Do has returned; res.Body becomes a MaxBytesReader.
DoReturns ==
  /\ cli = "unwind" /\ layer = 0
  /\ cli' = "decode"
  /\ UNCHANGED <<inVars, layer, conn, reqReader, resBody, result, response, srvVars>>

----------------------------------------------------------------------------
(* Client.Close *)

\* CloseIdleConnections, then Close if the HTTP client has it: a DebugClient and
\* net/http's client have none.  ClosingClient.Close cancels the call inside.
CloseStart ==
  /\ "close" \in faults
  /\ closer = "none"
  /\ IF job.client # <<>> /\ Head(job.client) = "closing"
     THEN closer' = "waiting" /\ conn' = IF Inside THEN "broken" ELSE conn
     ELSE closer' = "returned" /\ UNCHANGED conn
  /\ UNCHANGED <<job, faults, admission, cli, layer, reqReader, resBody, result, response,
                 srvVars>>

\* Mutant: Close cancels and returns.
CloseWait_Not ==
  /\ closer = "waiting"
  /\ closer' = "returned"
  /\ UNCHANGED <<job, faults, admission, cli, layer, conn, reqReader, resBody, result, response,
                 srvVars>>

CloseWait ==
  /\ closer = "waiting" /\ ~Inside
  /\ closer' = "returned"
  /\ UNCHANGED <<job, faults, admission, cli, layer, conn, reqReader, resBody, result, response,
                 srvVars>>

----------------------------------------------------------------------------
(* newHTTPHandler and JsonTransport on the server *)

DecodeRequest ==
  /\ srv = "decode"
  /\ srv' = "handler"
  /\ UNCHANGED <<inVars, cli, layer, conn, reqReader, resBody, result, response, srvReader,
                 header, payload, complete, handled, encoded>>

\* A malformed request: EncodeError with 400, the handler is not called.
DecodeRequestFails ==
  /\ srv = "decode"
  /\ "decodeRequest" \in faults \/ conn = "broken"
  /\ header' = "error"
  /\ payload' = "error"
  /\ srv' = "finish"
  /\ UNCHANGED <<inVars, cli, layer, conn, reqReader, resBody, result, response, srvReader,
                 complete, handled, encoded>>

HandlerResponds ==
  /\ srv = "handler"
  /\ job.outcome = "ok"
  /\ handled' = TRUE
  /\ srvReader' = IF job.res = "stream" THEN "open" ELSE "none"
  /\ srv' = "encode"
  /\ UNCHANGED <<inVars, cli, layer, conn, reqReader, resBody, result, response, header,
                 payload, complete, encoded>>

\* Mutant: the message is written before WriteHeader.
HandlerErrs_Implicit200 ==
  /\ srv = "handler"
  /\ job.outcome # "ok"
  /\ header' = "2xx"
  /\ payload' = IF job.outcome = "registered" THEN "typedError" ELSE "error"
  /\ srv' = "finish"
  /\ UNCHANGED <<inVars, cli, layer, conn, reqReader, resBody, result, response, srvReader,
                 complete, handled, encoded>>

\* EncodeError: errorToCode, and jsonError with the registered type if any.
HandlerErrs ==
  /\ srv = "handler"
  /\ job.outcome # "ok"
  /\ header' = IF job.outcome = "coded2xx" THEN "2xx" ELSE "error"
  /\ payload' = IF job.outcome = "registered" THEN "typedError" ELSE "error"
  /\ srv' = "finish"
  /\ UNCHANGED <<inVars, cli, layer, conn, reqReader, resBody, result, response, srvReader,
                 complete, handled, encoded>>

\* A header or a cookie does not marshal (json_transport.go:465-494): nothing
\* was written, and newHTTPHandler only logs the error.
EncodeFieldsFail ==
  /\ "encodeResponse" \in faults
  /\ srv = "encode"
  /\ srv' = "finish"
  /\ UNCHANGED <<inVars, cli, layer, conn, reqReader, resBody, result, response, srvReader,
                 header, payload, complete, handled, encoded>>

\* Headers are set; with a status field WriteHeader sends them, maybe with a
\* status that is an error.
EncodeFields ==
  /\ srv = "encode"
  /\ IF job.status THEN header' \in {"2xx", "error"} ELSE UNCHANGED header
  /\ srv' = "body"
  /\ UNCHANGED <<inVars, cli, layer, conn, reqReader, resBody, result, response, srvReader,
                 payload, complete, handled, encoded>>

Started == IF header = "none" THEN "2xx" ELSE header

\* The body is encoded, or io.Copy comes to the end and the reader is closed.
EncodeBody ==
  /\ srv = "body"
  /\ header' = Started
  /\ payload' = "response"
  /\ srvReader' = IF srvReader = "open" THEN "closed" ELSE srvReader
  /\ encoded' = TRUE
  /\ srv' = "finish"
  /\ UNCHANGED <<inVars, cli, layer, conn, reqReader, resBody, result, response, complete,
                 handled>>

\* The first bytes of a stream reach the client while io.Copy goes on.
CopySome ==
  /\ srv = "body"
  /\ job.res = "stream"
  /\ payload = "none"
  /\ header' = Started
  /\ payload' = "partial"
  /\ UNCHANGED <<inVars, cli, layer, conn, reqReader, resBody, result, response, srv, srvReader,
                 complete, handled, encoded>>

\* Mutant: the reader is closed after a successful io.Copy only.
EncodeBodyFails_NoClose ==
  /\ srv = "body"
  /\ job.res = "stream" /\ ("reader" \in faults \/ conn = "broken")
  /\ srv' = "finish"
  /\ UNCHANGED <<inVars, cli, layer, conn, reqReader, resBody, result, response, srvReader,
                 header, payload, complete, handled, encoded>>

\* The body does not marshal and nothing of it is written; or io.Copy fails, on
\* the reader or on the connection, and the reader is closed all the same.
EncodeBodyFails ==
  /\ srv = "body"
  /\ \/ job.res = "stream" /\ ("reader" \in faults \/ conn = "broken")
     \/ job.res \in {"json", "protobuf"} /\ "encodeResponse" \in faults
     \/ job.res # "stream" /\ conn = "broken"
  /\ srvReader' = IF srvReader = "open" THEN "closed" ELSE srvReader
  /\ srv' = "finish"
  /\ UNCHANGED <<inVars, cli, layer, conn, reqReader, resBody, result, response, header,
                 payload, complete, handled, encoded>>

\* The handler function returned: an answer without a status line is a 200.
FinishResponse ==
  /\ srv = "finish"
  /\ header' = Started
  /\ complete' = TRUE
  /\ srv' = "done"
  /\ UNCHANGED <<inVars, cli, layer, conn, reqReader, resBody, result, response, srvReader,
                 payload, handled, encoded>>

----------------------------------------------------------------------------
(* DecodeResponseAndError, and what Call does with the body *)

\* Mutant: the status field makes no difference.
IsSuccess_2xxOnly == header = "2xx"

\* Any status when the response has a status field, else a 2xx.
IsSuccess == job.status \/ header = "2xx"

FinishDecode(res) ==
  /\ result' = res
  /\ cli' = "close"
  /\ UNCHANGED <<inVars, layer, conn, reqReader, resBody, srvVars>>

\* readQueryHeaderCookie of a stream: the body becomes the field, unread.
DecodeStream ==
  /\ cli = "decode"
  /\ IsSuccess /\ job.res = "stream"
  /\ response' = "reader"
  /\ \/ FinishDecode("nil")
     \/ "decodeResponse" \in faults /\ FinishDecode("error")

\* Mutant: an empty body is an empty response.
DecodeJson_EmptyOk ==
  /\ cli = "decode"
  /\ IsSuccess /\ job.res = "json"
  /\ CanReadAll
  /\ response' = IF payload = "response" THEN "filled" ELSE "zero"
  /\ FinishDecode("nil")

\* json.Decode and the drain: io.EOF if there is no body.  An error message is
\* a JSON object too, with none of the fields of the response.
DecodeJson ==
  /\ cli = "decode"
  /\ IsSuccess /\ job.res = "json"
  /\ \/ /\ CanReadAll /\ payload # "none"
        /\ response' = IF payload = "response" THEN "filled" ELSE "zero"
        /\ FinishDecode("nil")
     \/ /\ \/ CanReadAll /\ payload = "none"
           \/ CanFailRead
           \/ "decodeResponse" \in faults
        /\ UNCHANGED response
        /\ FinishDecode("error")

\* io.ReadAll and proto.Unmarshal: no bytes are an empty message, and JSON is
\* no message.
DecodeProtobuf ==
  /\ cli = "decode"
  /\ IsSuccess /\ job.res = "protobuf"
  /\ \/ /\ CanReadAll /\ payload \in {"none", "response"}
        /\ response' = IF payload = "response" THEN "filled" ELSE "zero"
        /\ FinishDecode("nil")
     \/ /\ \/ CanReadAll /\ payload \notin {"none", "response"}
           \/ CanFailRead
           \/ "decodeResponse" \in faults
        /\ UNCHANGED response
        /\ FinishDecode("error")

\* Without JSON fields the body is only drained; the fields are in headers.
DecodeBodyless ==
  /\ cli = "decode"
  /\ IsSuccess /\ job.res = "bodyless"
  /\ \/ /\ CanReadAll
        /\ response' = IF encoded THEN "filled" ELSE "zero"
        /\ FinishDecode("nil")
     \/ /\ CanFailRead \/ "decodeResponse" \in faults
        /\ UNCHANGED response
        /\ FinishDecode("error")

\* Mutant: an error of io.ReadAll is ignored.
DecodeError_Partial ==
  /\ cli = "decode"
  /\ ~IsSuccess
  /\ UNCHANGED response
  /\ FinishDecode(IF payload = "typedError" THEN "registered" ELSE "error")

\* RawDecodeError: the error of a registered type, or a text.
DecodeError ==
  /\ cli = "decode"
  /\ ~IsSuccess
  /\ UNCHANGED response
  /\ \/ CanReadAll /\ FinishDecode(IF payload = "typedError" THEN "registered" ELSE "error")
     \/ CanFailRead /\ FinishDecode("error")

\* Mutant: the body is closed after a success only.
CloseBody_OnNil ==
  /\ cli = "close"
  /\ resBody' = IF job.res = "stream" \/ result # "nil" THEN resBody ELSE "closed"
  /\ cli' = "returned"
  /\ UNCHANGED <<inVars, layer, conn, reqReader, result, response, srvVars>>

\* The deferred function: the body is closed unless the response type streams.
CloseBody ==
  /\ cli = "close"
  /\ resBody' = IF job.res = "stream" THEN resBody ELSE "closed"
  /\ cli' = "returned"
  /\ UNCHANGED <<inVars, layer, conn, reqReader, result, response, srvVars>>

----------------------------------------------------------------------------
(* The rest of the environment *)

\* The caller got a reader: it reads the stream and closes it.
CallerClosesStream ==
  /\ cli = "returned"
  /\ response = "reader" /\ resBody \in {"open", "memory"}
  /\ resBody' = "closed"
  /\ UNCHANGED <<inVars, cli, layer, conn, reqReader, result, response, srvVars>>

\* The connection breaks, or the context of the call ends.
Breaks ==
  /\ "network" \in faults
  /\ conn = "open" /\ cli # "returned"
  /\ conn' = "broken"
  /\ UNCHANGED <<inVars, cli, layer, reqReader, resBody, result, response, srvVars>>

ClientStep ==
  \/ EncodeRequest \/ EncodeRequestFails
  \/ EnterClosing \/ DoRejected \/ LogRequest \/ LogRequestFails
  \/ Do \/ DoUnreachable \/ Respond \/ DoFails
  \/ LeaveClosing \/ LogResponse \/ LogResponseFails \/ DoReturns
  \/ DecodeStream \/ DecodeJson \/ DecodeProtobuf \/ DecodeBodyless \/ DecodeError \/ CloseBody

ServerStep ==
  \/ DecodeRequest \/ DecodeRequestFails \/ HandlerResponds \/ HandlerErrs
  \/ EncodeFields \/ EncodeFieldsFail \/ EncodeBody \/ CopySome \/ EncodeBodyFails
  \/ FinishResponse

Next ==
  \/ ClientStep \/ ServerStep \/ CloseStart \/ CloseWait
  \/ TransportClosesRequest \/ CallerClosesStream \/ Breaks

(***************************************************************************)
(* The goroutines of Call, of Close and of the handler run, and the        *)
(* transport closes the request bodies it was given.  The caller need not  *)
(* close anything.                                                         *)
(***************************************************************************)
Safety == Init /\ [][Next]_vars

Spec ==
  /\ Safety
  /\ WF_vars(ClientStep)
  /\ WF_vars(ServerStep)
  /\ WF_vars(CloseWait)
  /\ WF_vars(TransportClosesRequest)

----------------------------------------------------------------------------
(* Properties *)

\* The faults that can touch a call like this one.  An error of the handler is
\* sent by EncodeError and read by DecodeError, whatever the response type.
Touching ==
  faults \ ((IF job.outcome = "ok" THEN {}
             ELSE IF job.status \/ job.outcome = "coded2xx" THEN {"encodeResponse", "reader"}
             ELSE {"encodeResponse", "reader", "decodeResponse"})
            \cup (IF Has("debug") THEN {} ELSE {"log"})
            \cup (IF job.client # <<>> /\ Head(job.client) = "closing" THEN {} ELSE {"close"}))

\* What Call should return when nothing goes wrong on the way.
Verdict ==
  IF job.outcome = "ok" THEN "nil"
  ELSE IF job.status \/ job.outcome = "coded2xx"
    THEN IF job.res = "protobuf" THEN "error" ELSE "nil"
  ELSE IF job.outcome = "registered" THEN "registered" ELSE "error"

\* Call tells what the handler did: with no fault that touches it, it returns
\* the response, the registered error as its own type, or an error, as the
\* handler did.  The two ways an error turns into a success are those of the
\* code: a status field in the response (README.md:76), and an HttpCode that ends
\* as a 2xx, which an informational one does too (json_transport.go:278).
AnswersTheHandler ==
  cli = "returned" /\ Touching = {} =>
    /\ result = Verdict
    /\ result = "nil" /\ job.outcome = "ok" =>
         response = IF job.res = "stream" THEN "reader" ELSE "filled"

\* No fault turns an error into a success: a call whose handler failed, or whose
\* handler was never called, does not return nil (server.go:150-173,
\* json_transport.go:278-283), unless its HttpCode ends as a 2xx.
ErrorsReachCaller ==
  cli \in {"close", "returned"} /\ ~job.status /\ job.outcome # "coded2xx" /\ ~handled =>
    result # "nil"

\* What Call returns is whole.  No fault invents a registered error, or returns
\* one that lost a part; and a JSON response is all there when Call returns nil: a
\* handler that answered and an EncodeResponse that failed, which the server only
\* logs as the answer goes out as a 200, is an error for the client.
AnswerIsGenuine ==
  /\ result = "registered" => job.outcome = "registered" /\ payload = "typedError" /\ complete
  /\ result = "nil" /\ job.res = "json" /\ ~job.status /\ job.outcome # "coded2xx" =>
       encoded /\ response = "filled"

\* Whatever Call returns, it leaves no response body open, save the stream
\* that it gives to the caller (client.go:135-142).
BodyReleased ==
  cli = "returned" /\ job.res # "stream" => resBody # "open"

\* Call returns, however the handler, the connection and the bodies end, and a
\* Close that waits for it does too.
CallReturns ==
  /\ <>(cli = "returned")
  /\ (closer = "waiting") ~> (closer = "returned")

absStatus ==
  [c \in {"call"} |-> IF Inside THEN "active"
                      ELSE IF admission = "in" THEN "ended"
                      ELSE IF admission = "refused" THEN "refused" ELSE "idle"]

absPhase ==
  IF ~IsClosing THEN "open" ELSE IF closer = "returned" THEN "closed" ELSE "closing"

Abs == INSTANCE AbstractClosing WITH Calls <- {"call"}, status <- absStatus, phase <- absPhase

\* A ClosingClient in the stack is the atomic one of AbstractClosing, which
\* ClosingClient.tla implements, wherever it stands: Client.Close returns only when
\* no call is inside it, also if a DebugClient below still reads an answer
\* (closing_client.go:85, debug_client.go:47), and none gets in afterwards.  On top of
\* it a DebugClient hides its Close (client.go:157): then it stays open.
CloseWaits == Abs!ASafety

\* Once the header fields are out, the handler's reader is closed, also when
\* reading it or writing to the client fails: the goroutine that feeds a pipe is
\* released (json_transport.go:551).  It rests on a caller that reads the stream, as
\* README.md:108-109 asks: a connection that is full holds nothing up here.
HandlerReaderReleased ==
  (srvReader = "open" /\ srv = "body") ~> (srvReader = "closed")

(* What the documentation says and the code does not do *)

\* README.md:101-102: the stream of a request "will be read and closed by the
\* library", and README.md:107 of the one that the handler returns: "The library
\* will use it to generate HTTP response's body and close it."
\* ClosingClient.Do may return before net/http has the request; a header or cookie
\* field of the response that does not encode returns before its body.
StreamsClosed ==
  /\ (reqReader = "open") ~> (reqReader = "closed")
  /\ (srvReader = "open") ~> (srvReader = "closed")

\* README.md:108-109: "your code must read from that reader the entire response
\* and then close it".  There must be a reader: after an error status the body
\* of a stream response is open and nobody holds it (json_transport.go:261).
OpenBodyHasOwner ==
  cli = "returned" /\ resBody = "open" => response = "reader"
==============================================================================
