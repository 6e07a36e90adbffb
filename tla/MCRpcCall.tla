------------------------------ MODULE MCRpcCall ------------------------------
\* RpcCall for TLC: every kind of call, or the calls that a question is about.
EXTENDS RpcCall

AllFaults == {"encodeRequest", "network", "decodeRequest", "encodeResponse", "reader",
              "decodeResponse", "limit", "log", "close"}

CallsOver(clients) ==
  [req : {"buffer", "stream"}, res : {"json", "protobuf", "stream", "bodyless"},
   status : BOOLEAN, client : clients, outcome : {"ok", "registered", "coded2xx", "other"}]

\* Calls without a status field.
PlainJobs == {j \in CallsOver({<<>>}) : ~j.status}

\* Every call over net/http's client, and the main ones over every stack of layers.
AllJobs ==
  CallsOver({<<>>})
  \cup {j \in CallsOver({<<"closing">>, <<"debug">>, <<"closing", "debug">>, <<"debug", "closing">>,
                         <<"closing", "closing">>}) :
          ~j.status /\ j.res \in {"json", "stream"} /\ j.outcome \in {"ok", "registered"}}

\* Both sides stream; the request goes over a ClosingClient.
StreamJobs ==
  {j \in CallsOver({<<"closing">>}) : j.req = "stream" /\ j.res = "stream" /\ j.outcome = "ok"}
==============================================================================
