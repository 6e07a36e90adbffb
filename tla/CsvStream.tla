------------------------------ MODULE CsvStream ------------------------------
(***************************************************************************)
(* csv.go: a CSV file streamed from a handler to the caller of Call, both  *)
(* ends of CsvTransport and what lies between them.                        *)
(*                                                                         *)
(*   producer --Rows--> csvEncodeResponse --connection-->                  *)
(*                          csvDecodeResponse --Rows--> consumer           *)
(*                                                                         *)
(* The producer (a goroutine of the handler), the consumer (a goroutine of *)
(* the caller), the connection, encoding/csv and the two contexts are the  *)
(* environment; the encoder and the decoder are the code.  What is sent    *)
(* are lines, a line being what the CSV reader takes for one record: its   *)
(* position and what the CSV writer and reader make of it:                 *)
(*   "plain"  comes out as it went in                                      *)
(*   "cr"     loses a carriage return: in a field to the writer, at the    *)
(*            end of a line to the reader                                  *)
(*   "short"  has another number of fields than a plain row                *)
(*   "blank"  is one empty field, or none: an empty line, which the reader *)
(*            skips                                                        *)
(*   "quote"  has a quote where none may be, so that the reader refuses    *)
(*            it: a line of an error's text, never one of the writer       *)
(***************************************************************************)
EXTENDS Naturals, Sequences, SequencesExt

CONSTANTS
  Jobs,       \* the calls: [failed, code, header, rows, interactive, flusher, srvCap, cliCap]
  WireCap,    \* lines the connection holds before a write blocks
  BodyLimit,  \* lines that MaxBytesReader lets through
  Faults      \* what may happen: "cancel", "shutdown", "break", "stop"

Kinds == {"plain", "cr", "short", "blank", "quote"}

(***************************************************************************)
(* The handler returned a CsvResponse, or it failed: it returned an error, *)
(* or its request did not decode.  header and rows are those of the file,  *)
(* or the first line of the error's text and the lines after it.  code is  *)
(* CsvResponse.HttpCode or the HttpCode() of the error (400 if it has      *)
(* none); 101 hands the connection over and is left out.                   *)
(* An interactive producer sends a row only after the one before it was    *)
(* consumed (test/csv_test.go, TestSlowCSV).  flusher: the ResponseWriter  *)
(* is an http.Flusher.  srvCap and cliCap are the capacities of the Rows   *)
(* channels that the handler and the caller have made.                     *)
(***************************************************************************)
ASSUME JobsAssumption ==
  /\ Jobs \subseteq [failed : BOOLEAN, code : Nat \ {101}, header : Kinds, rows : Seq(Kinds),
                      interactive : BOOLEAN, flusher : BOOLEAN, srvCap : Nat, cliCap : Nat]
  /\ \A j \in Jobs :
       ~j.failed => j.header # "quote" /\ \A i \in 1 .. Len(j.rows) : j.rows[i] # "quote"

ASSUME BoundsAssumption ==
  /\ WireCap \in Nat \ {0}
  /\ BodyLimit \in Nat
  /\ Faults \subseteq {"cancel", "shutdown", "break", "stop"}

VARIABLES
  job,        \* the member of Jobs that this call is
  sent,       \* rows the producer has sent
  srvCh,      \* buffer of the server's channel
  srvClosed,  \* the producer closed it
  enc,        \* where csvEncodeResponse is
  cur,        \* record in the encoder's hands
  pending,    \* lines written to the ResponseWriter, not flushed
  encResult,  \* "none", "nil", "error" or "panic"
  status,     \* status code the client can see, 0 before there is one
  wire,       \* lines in the connection
  conn,       \* "open", "eof" (response complete) or "broken"
  srvDone,    \* the server's context is done
  cliDone,    \* the client's context is done
  cli,        \* where Call is
  rec,        \* record in the decoder's hands
  width,      \* FieldsPerRecord of the reader, 0 before the first record
  nread,      \* lines the client has read
  callResult, \* "none", "nil" or "error"
  cliCh,      \* buffer of the client's channel
  cliClosed,  \* the decoder closed it
  con,        \* the consumer: "recv", "work", "stopped" or "done"
  got         \* rows the consumer has received

srvVars == <<sent, srvCh, srvClosed, enc, cur, pending, encResult>>
cliVars == <<cli, rec, width, nread, callResult, cliCh, cliClosed, con, got>>
netVars == <<status, wire, conn>>
ctxVars == <<srvDone, cliDone>>
vars == <<job, srvVars, netVars, ctxVars, cliVars>>

Line(i, k) == [id |-> i, kind |-> k]
HeaderLine == Line(0, job.header)

\* Line i of what call j sends: the header and the rows of its file, or the lines of
\* the text of its error.
BodyLine(j, i) == Line(i, IF i = 0 THEN j.header ELSE j.rows[i])

Row(i) == Line(i, job.rows[i])
NoRow == Line(0, "blank")

\* The number of fields, 0 for a line that the reader refuses.
Width(l) ==
  IF l.kind = "quote" THEN 0 ELSE IF l.kind = "short" THEN 1 ELSE 2

\* What the reader returns for a line: the carriage return is lost.
Parsed(l) == IF l.kind = "cr" THEN Line(l.id, "plain") ELSE l

Lines == [id : Nat, kind : Kinds]

TypeOK ==
  /\ job \in Jobs
  /\ sent \in 0 .. Len(job.rows)
  /\ srvCh \in Seq(Lines)
  /\ srvClosed \in BOOLEAN
  /\ enc \in {"start", "csvHeader", "flush", "recv", "check", "drain", "finish", "done"}
  /\ cur \in Lines
  /\ pending \in Seq(Lines)
  /\ encResult \in {"none", "nil", "error", "panic"}
  /\ status \in Nat
  /\ wire \in Seq(Lines) /\ Len(wire) <= WireCap
  /\ conn \in {"open", "eof", "broken"}
  /\ srvDone \in BOOLEAN
  /\ cliDone \in BOOLEAN
  /\ cli \in {"await", "csvHeader", "check", "read", "send", "decodeError",
              "closeRows", "closeBody", "returned"}
  /\ rec \in Lines
  /\ width \in 0 .. 2
  /\ nread \in 0 .. BodyLimit
  /\ callResult \in {"none", "nil", "error"}
  /\ cliCh \in Seq(Lines)
  /\ cliClosed \in BOOLEAN
  /\ con \in {"recv", "work", "stopped", "done"}
  /\ got \in Seq(Lines)

Init ==
  /\ job \in Jobs
  /\ sent = 0 /\ srvCh = <<>> /\ srvClosed = FALSE
  /\ enc = "start" /\ cur = NoRow /\ pending = <<>> /\ encResult = "none"
  /\ status = 0 /\ wire = <<>> /\ conn = "open"
  /\ srvDone = FALSE /\ cliDone = FALSE
  /\ cli = "await" /\ rec = NoRow /\ width = 0 /\ nread = 0
  /\ callResult = "none" /\ cliCh = <<>> /\ cliClosed = FALSE
  /\ con = "recv" /\ got = <<>>

\* A send on a channel goes through: there is room, or a receiver waits.
CanSend(ch, cap, receiving) == Len(ch) < cap \/ (receiving /\ ch = <<>>)

----------------------------------------------------------------------------
(* The handler's producer goroutine *)

Producing == ~job.failed /\ ~srvClosed

ProducerSend ==
  /\ Producing
  /\ sent < Len(job.rows)
  /\ job.interactive => Len(got) = sent
  /\ CanSend(srvCh, job.srvCap, enc \in {"recv", "drain"})
  /\ srvCh' = Append(srvCh, Row(sent + 1))
  /\ sent' = sent + 1
  /\ UNCHANGED <<job, srvClosed, enc, cur, pending, encResult, netVars, ctxVars, cliVars>>

ProducerClose ==
  /\ Producing
  /\ sent = Len(job.rows)
  /\ srvClosed' = TRUE
  /\ UNCHANGED <<job, sent, srvCh, enc, cur, pending, encResult, netVars, ctxVars, cliVars>>

----------------------------------------------------------------------------
(* csvEncodeResponse and csvEncodeError; the deferred drain is "drain", and *)
(* "finish" is net/http ending the response after the handler returned.     *)

FinishEncode(result) ==
  /\ encResult' = result
  /\ enc' = "drain"

\* What net/http takes for a status; with any other code WriteHeader panics.
IsStatus(code) == code \in 100 .. 999

\* The status of the response: an informational one goes out by itself, and the
\* first write, or the end of the handler, sends a 200.
StatusLine == IF job.code \in 100 .. 199 THEN 200 ELSE job.code

\* net/http refuses to write a body after these (http.ErrBodyNotAllowed).
BodyAllowed == StatusLine \notin {204, 304}

\* w.WriteHeader(res.HttpCode)
EncStart ==
  /\ enc = "start"
  /\ ~job.failed /\ IsStatus(job.code)
  /\ enc' = "csvHeader"
  /\ UNCHANGED <<job, sent, srvCh, srvClosed, cur, pending, encResult, netVars, ctxVars, cliVars>>

EncStartPanic ==
  /\ enc = "start"
  /\ ~job.failed /\ ~IsStatus(job.code)
  /\ FinishEncode("panic")
  /\ UNCHANGED <<job, sent, srvCh, srvClosed, cur, pending, netVars, ctxVars, cliVars>>

\* err.Error(), and the line feed that http.Error adds
Text == [i \in 1 .. Len(job.rows) + 1 |-> BodyLine(job, i - 1)]

\* csvEncodeError: http.Error(w, err.Error(), code) writes the text, line by line,
\* whatever the code; it does not look at the error of the write.
EncError ==
  /\ enc = "start"
  /\ job.failed /\ IsStatus(job.code)
  /\ pending' = IF BodyAllowed THEN Text ELSE <<>>
  /\ encResult' = "nil"
  /\ enc' = "finish"
  /\ UNCHANGED <<job, sent, srvCh, srvClosed, cur, netVars, ctxVars, cliVars>>

\* There is nothing to drain.
EncErrorPanic ==
  /\ enc = "start"
  /\ job.failed /\ ~IsStatus(job.code)
  /\ encResult' = "panic"
  /\ enc' = "finish"
  /\ UNCHANGED <<job, sent, srvCh, srvClosed, cur, pending, netVars, ctxVars, cliVars>>

EncCsvHeader ==
  /\ enc = "csvHeader"
  /\ pending' = Append(pending, HeaderLine)
  /\ enc' = "flush"
  /\ UNCHANGED <<job, sent, srvCh, srvClosed, cur, encResult, netVars, ctxVars, cliVars>>

PutOnWire ==
  /\ pending # <<>> /\ conn = "open" /\ Len(wire) < WireCap
  /\ wire' = Append(wire, Head(pending))
  /\ pending' = Tail(pending)
  /\ status' = StatusLine
  /\ UNCHANGED conn

\* Flush: with an http.Flusher, everything written reaches the connection
\* first; without one, as much as overflows the server's buffer.
EncFlush ==
  /\ enc = "flush"
  /\ BodyAllowed
  /\ PutOnWire
  /\ UNCHANGED <<job, sent, srvCh, srvClosed, enc, cur, encResult, ctxVars, cliVars>>

\* Mutant: no Flush of the ResponseWriter.
EncFlushed_Buffered ==
  /\ enc = "flush"
  /\ BodyAllowed /\ conn = "open"
  /\ enc' = "recv"
  /\ UNCHANGED <<job, sent, srvCh, srvClosed, cur, pending, encResult, netVars, ctxVars, cliVars>>

EncFlushed ==
  /\ enc = "flush"
  /\ BodyAllowed /\ conn = "open"
  /\ job.flusher => pending = <<>>
  /\ enc' = "recv"
  /\ UNCHANGED <<job, sent, srvCh, srvClosed, cur, pending, encResult, netVars, ctxVars, cliVars>>

\* csvWriter.Error(): a body is not allowed, or the connection is gone, which
\* a write need not notice.
EncFlushError ==
  /\ enc = "flush"
  /\ ~BodyAllowed \/ conn = "broken"
  /\ pending' = <<>>
  /\ \/ FinishEncode("error")
     \/ BodyAllowed /\ enc' = "recv" /\ UNCHANGED encResult
  /\ UNCHANGED <<job, sent, srvCh, srvClosed, cur, netVars, ctxVars, cliVars>>

\* for record := range res.Rows
EncRecv ==
  /\ enc = "recv"
  /\ srvCh # <<>>
  /\ cur' = Head(srvCh)
  /\ srvCh' = Tail(srvCh)
  /\ enc' = "check"
  /\ UNCHANGED <<job, sent, srvClosed, pending, encResult, netVars, ctxVars, cliVars>>

EncRecvClosed ==
  /\ enc = "recv"
  /\ srvCh = <<>> /\ srvClosed
  /\ FinishEncode("nil")
  /\ UNCHANGED <<job, sent, srvCh, srvClosed, cur, pending, netVars, ctxVars, cliVars>>

\* ctx.Err(), then csvWriter.Write(record)
EncWrite ==
  /\ enc = "check"
  /\ ~srvDone
  /\ pending' = Append(pending, cur)
  /\ enc' = "flush"
  /\ UNCHANGED <<job, sent, srvCh, srvClosed, cur, encResult, netVars, ctxVars, cliVars>>

EncContextDone ==
  /\ enc = "check"
  /\ srvDone
  /\ FinishEncode("error")
  /\ UNCHANGED <<job, sent, srvCh, srvClosed, cur, pending, netVars, ctxVars, cliVars>>

EncDrain ==
  /\ enc = "drain"
  /\ srvCh # <<>>
  /\ srvCh' = Tail(srvCh)
  /\ UNCHANGED <<job, sent, srvClosed, enc, cur, pending, encResult, netVars, ctxVars, cliVars>>

\* Mutant: no deferred drain.
EncDrained_AtOnce ==
  /\ enc = "drain"
  /\ enc' = "finish"
  /\ UNCHANGED <<job, sent, srvCh, srvClosed, cur, pending, encResult, netVars, ctxVars, cliVars>>

EncDrained ==
  /\ enc = "drain"
  /\ srvCh = <<>> /\ srvClosed
  /\ enc' = "finish"
  /\ UNCHANGED <<job, sent, srvCh, srvClosed, cur, pending, encResult, netVars, ctxVars, cliVars>>

\* The handler returned, with or without an error that newHTTPHandler only
\* logs: net/http sends what is left and ends the response as complete.
FinishFlush ==
  /\ enc = "finish"
  /\ encResult # "panic"
  /\ PutOnWire
  /\ UNCHANGED <<job, sent, srvCh, srvClosed, enc, cur, encResult, ctxVars, cliVars>>

FinishResponse ==
  /\ enc = "finish"
  /\ encResult # "panic"
  /\ pending = <<>> /\ conn = "open"
  /\ status' = StatusLine
  /\ conn' = "eof"
  /\ enc' = "done"
  /\ UNCHANGED <<job, sent, srvCh, srvClosed, cur, pending, encResult, wire, ctxVars, cliVars>>

\* The handler panicked, or there is no connection left.
FinishBroken ==
  /\ enc = "finish"
  /\ encResult = "panic" \/ conn = "broken"
  /\ conn' = "broken"
  /\ enc' = "done"
  /\ UNCHANGED <<job, sent, srvCh, srvClosed, cur, pending, encResult, status, wire, ctxVars, cliVars>>

----------------------------------------------------------------------------
(* Call, csvDecodeResponse and csvDecodeError *)

\* JsonTransport.DecodeResponseAndError: a CsvResponse has no status field.
IsSuccess(code) == code \in 200 .. 299

\* Mutant: no look at the status.
Respond_AnyStatus ==
  /\ cli = "await"
  /\ status # 0
  /\ cli' = "csvHeader"
  /\ UNCHANGED <<job, srvVars, netVars, ctxVars, rec, width, nread, callResult,
                 cliCh, cliClosed, con, got>>

Respond ==
  /\ cli = "await"
  /\ status # 0
  /\ cli' = IF IsSuccess(status) THEN "csvHeader" ELSE "decodeError"
  /\ UNCHANGED <<job, srvVars, netVars, ctxVars, rec, width, nread, callResult,
                 cliCh, cliClosed, con, got>>

\* c.client.Do fails: Call returns before any decoder runs.
DoFails ==
  /\ cli = "await"
  /\ conn = "broken" \/ cliDone
  /\ callResult' = "error"
  /\ cli' = "returned"
  /\ UNCHANGED <<job, srvVars, netVars, ctxVars, rec, width, nread, cliCh, cliClosed, con, got>>

\* Mutant: the body is not limited.
ReadLine_Unlimited ==
  /\ wire # <<>>
  /\ wire' = Tail(wire)
  /\ nread' = nread + 1
  /\ UNCHANGED <<status, conn>>

\* The next line of the body.
ReadLine ==
  /\ wire # <<>> /\ nread < BodyLimit
  /\ wire' = Tail(wire)
  /\ nread' = nread + 1
  /\ UNCHANGED <<status, conn>>

\* The connection or the context ended, or MaxBytesReader refuses more.
ReadError == conn = "broken" \/ cliDone \/ (nread = BodyLimit /\ wire # <<>>)

ReadEOF == conn = "eof" /\ wire = <<>>

FinishDecode(result) ==
  /\ callResult' = result
  /\ cli' = "closeRows"

SkipBlank ==
  /\ cli \in {"csvHeader", "read"}
  /\ wire # <<>> /\ Head(wire).kind = "blank"
  /\ ReadLine
  /\ UNCHANGED <<job, srvVars, ctxVars, cli, rec, width, callResult, cliCh, cliClosed, con, got>>

\* csvHeader, err := csvReader.Read(): the first record fixes the width.
DecHeader ==
  /\ cli = "csvHeader"
  /\ wire # <<>> /\ Head(wire).kind # "blank"
  /\ ReadLine
  /\ width' = Width(Head(wire))
  /\ IF Width(Head(wire)) # 0 THEN cli' = "check" /\ UNCHANGED callResult ELSE FinishDecode("error")
  /\ UNCHANGED <<job, srvVars, ctxVars, rec, cliCh, cliClosed, con, got>>

\* io.EOF instead of a header is an error like any other.
DecHeaderFails ==
  /\ cli = "csvHeader"
  /\ ReadError \/ ReadEOF
  /\ FinishDecode("error")
  /\ UNCHANGED <<job, srvVars, netVars, ctxVars, rec, width, nread, cliCh, cliClosed, con, got>>

DecCheck ==
  /\ cli = "check"
  /\ IF cliDone THEN FinishDecode("error") ELSE cli' = "read" /\ UNCHANGED callResult
  /\ UNCHANGED <<job, srvVars, netVars, ctxVars, rec, width, nread, cliCh, cliClosed, con, got>>

DecRead ==
  /\ cli = "read"
  /\ wire # <<>> /\ Head(wire).kind # "blank"
  /\ ReadLine
  /\ IF Width(Head(wire)) = width
       THEN rec' = Parsed(Head(wire)) /\ cli' = "send" /\ UNCHANGED callResult
       ELSE FinishDecode("error") /\ UNCHANGED rec
  /\ UNCHANGED <<job, srvVars, ctxVars, width, cliCh, cliClosed, con, got>>

\* Mutant: any error ends the file.
DecReadEnds_AnyError ==
  /\ cli = "read"
  /\ ReadEOF \/ ReadError
  /\ FinishDecode("nil")
  /\ UNCHANGED <<job, srvVars, netVars, ctxVars, rec, width, nread, cliCh, cliClosed, con, got>>

\* Mutant: after an error that is not io.EOF the loop goes on.
DecReadEnds_EofOnly ==
  /\ cli = "read"
  /\ ReadEOF /\ FinishDecode("nil")
  /\ UNCHANGED <<job, srvVars, netVars, ctxVars, rec, width, nread, cliCh, cliClosed, con, got>>

DecReadEnds ==
  /\ cli = "read"
  /\ \/ ReadEOF /\ FinishDecode("nil")
     \/ ReadError /\ FinishDecode("error")
  /\ UNCHANGED <<job, srvVars, netVars, ctxVars, rec, width, nread, cliCh, cliClosed, con, got>>

\* Mutant: a row nobody waits for is dropped.
DecSend_OrDrop ==
  /\ cli = "send"
  /\ cliCh' = IF CanSend(cliCh, job.cliCap, con = "recv") THEN Append(cliCh, rec) ELSE cliCh
  /\ cli' = "check"
  /\ UNCHANGED <<job, srvVars, netVars, ctxVars, rec, width, nread, callResult, cliClosed, con, got>>

\* res.Rows <- record: nothing else can wake it.
DecSend ==
  /\ cli = "send"
  /\ CanSend(cliCh, job.cliCap, con = "recv")
  /\ cliCh' = Append(cliCh, rec)
  /\ cli' = "check"
  /\ UNCHANGED <<job, srvVars, netVars, ctxVars, rec, width, nread, callResult, cliClosed, con, got>>

\* Mutant: the channel is closed at the end of the file only.
DecCloseRows_OnNil ==
  /\ cli = "closeRows"
  /\ cliClosed' = (callResult = "nil")
  /\ cli' = "closeBody"
  /\ UNCHANGED <<job, srvVars, netVars, ctxVars, rec, width, nread, callResult, cliCh, con, got>>

\* The deferred close(res.Rows).
DecCloseRows ==
  /\ cli = "closeRows"
  /\ cliClosed' = TRUE
  /\ cli' = "closeBody"
  /\ UNCHANGED <<job, srvVars, netVars, ctxVars, rec, width, nread, callResult, cliCh, con, got>>

\* csvDecodeError: io.ReadAll(res.Body), and an error whatever it finds.
DecError ==
  /\ cli = "decodeError"
  /\ \/ ReadLine /\ UNCHANGED <<cli, callResult>>
     \/ /\ ReadEOF \/ ReadError
        /\ callResult' = "error"
        /\ cli' = "closeBody"
        /\ UNCHANGED <<netVars, nread>>
  /\ UNCHANGED <<job, srvVars, ctxVars, rec, width, cliCh, cliClosed, con, got>>

\* Mutant: the body is not closed.
CloseBody_Forgotten ==
  /\ cli = "closeBody"
  /\ cli' = "returned"
  /\ UNCHANGED <<job, srvVars, netVars, ctxVars, rec, width, nread, callResult, cliCh,
                 cliClosed, con, got>>

\* The deferred res.Body.Close() in Call drops a connection not read to the end.
CloseBody ==
  /\ cli = "closeBody"
  /\ conn' = IF conn = "open" THEN "broken" ELSE conn
  /\ cli' = "returned"
  /\ UNCHANGED <<job, srvVars, status, wire, ctxVars, rec, width, nread, callResult,
                 cliCh, cliClosed, con, got>>

----------------------------------------------------------------------------
(* The caller's consumer goroutine: for row := range res.Rows *)

ConsumerRecv ==
  /\ con = "recv"
  /\ cliCh # <<>>
  /\ got' = Append(got, Head(cliCh))
  /\ cliCh' = Tail(cliCh)
  /\ con' = "work"
  /\ UNCHANGED <<job, srvVars, netVars, ctxVars, cli, rec, width, nread, callResult, cliClosed>>

ConsumerNext ==
  /\ con = "work"
  /\ con' = "recv"
  /\ UNCHANGED <<job, srvVars, netVars, ctxVars, cli, rec, width, nread, callResult,
                 cliCh, cliClosed, got>>

ConsumerDone ==
  /\ con = "recv"
  /\ cliCh = <<>> /\ cliClosed
  /\ con' = "done"
  /\ UNCHANGED <<job, srvVars, netVars, ctxVars, cli, rec, width, nread, callResult,
                 cliCh, cliClosed, got>>

\* It breaks out of the loop.
ConsumerStops ==
  /\ "stop" \in Faults
  /\ con = "work"
  /\ con' = "stopped"
  /\ UNCHANGED <<job, srvVars, netVars, ctxVars, cli, rec, width, nread, callResult,
                 cliCh, cliClosed, got>>

----------------------------------------------------------------------------
(* Contexts and connection *)

Break == conn' = IF conn = "open" THEN "broken" ELSE conn

\* The caller cancels the context of Call: its transport drops the connection.
ClientCancels ==
  /\ "cancel" \in Faults
  /\ ~cliDone /\ cli # "returned"
  /\ cliDone' = TRUE
  /\ Break
  /\ UNCHANGED <<job, srvVars, status, wire, srvDone, cliVars>>

NetworkBreaks ==
  /\ "break" \in Faults
  /\ conn = "open"
  /\ Break
  /\ UNCHANGED <<job, srvVars, status, wire, ctxVars, cliVars>>

\* net/http cancels the context of the handler when the connection is gone.
ServerNotices ==
  /\ conn = "broken"
  /\ ~srvDone
  /\ srvDone' = TRUE
  /\ UNCHANGED <<job, srvVars, netVars, cliDone, cliVars>>

\* The server's context ends for a reason of the server's own.
ServerShutdown ==
  /\ "shutdown" \in Faults
  /\ ~srvDone
  /\ srvDone' = TRUE
  /\ UNCHANGED <<job, srvVars, netVars, cliDone, cliVars>>

----------------------------------------------------------------------------

Producer == ProducerSend \/ ProducerClose

Encoder ==
  \/ EncStart \/ EncStartPanic \/ EncError \/ EncErrorPanic \/ EncCsvHeader
  \/ EncFlush \/ EncFlushed \/ EncFlushError
  \/ EncRecv \/ EncRecvClosed \/ EncWrite \/ EncContextDone
  \/ EncDrain \/ EncDrained
  \/ FinishFlush \/ FinishResponse \/ FinishBroken

Decoder ==
  \/ Respond \/ DoFails
  \/ SkipBlank \/ DecHeader \/ DecHeaderFails
  \/ DecCheck \/ DecRead \/ DecReadEnds \/ DecSend
  \/ DecCloseRows \/ DecError \/ CloseBody

Consumer == ConsumerRecv \/ ConsumerNext \/ ConsumerDone

Environment == ConsumerStops \/ ClientCancels \/ NetworkBreaks \/ ServerShutdown

Next == Producer \/ Encoder \/ Decoder \/ Consumer \/ ServerNotices \/ Environment

(***************************************************************************)
(* Every goroutine that can run does, and a server notices that its        *)
(* connection is gone.  Nothing makes the consumer stop, the caller cancel *)
(* or the network break.                                                   *)
(***************************************************************************)
Fairness ==
  /\ WF_vars(Producer)
  /\ WF_vars(Encoder)
  /\ WF_vars(Decoder)
  /\ WF_vars(Consumer)
  /\ WF_vars(ServerNotices)

Safety == Init /\ [][Next]_vars

Spec == Safety /\ Fairness

----------------------------------------------------------------------------
(* Properties *)

\* The records a CSV reader finds in the first n lines of that: an empty
\* line is none.
RecordsAmong(j) ==
  LET among[n \in 0 .. Len(j.rows) + 1] ==
        IF n = 0 THEN <<>>
        ELSE IF BodyLine(j, n - 1).kind = "blank" THEN among[n - 1]
        ELSE Append(among[n - 1], BodyLine(j, n - 1))
  IN among

\* All of them: the first one is the header.
Records == RecordsAmong(job)[Len(job.rows) + 1]

\* What the reader makes of the records after the first.
RowsOfBody == [i \in 1 .. Len(Records) - 1 |-> Parsed(Records[i + 1])]

\* Everything the decoder has sent on the client's channel.
Delivered == got \o cliCh

\* The error of the handler has a code that ends as a 2xx with a body: nothing
\* tells the client that its text is not a file.
PassesForFile == job.failed /\ IsSuccess(StatusLine) /\ BodyAllowed

\* csv.go:62-76, 106-129: whatever fails, the consumer gets a prefix of the rows
\* that were sent: none lost between two others, repeated or out of order.  They are
\* those of a file, unless the error of the handler passes for one: then they are
\* the lines of its text after the first.
DeliveredIsPrefix ==
  /\ IsPrefix(Delivered, RowsOfBody)
  /\ job.failed /\ Delivered # <<>> => PassesForFile

\* csv.go:106-129: when Call returns nil the handler returned a file, or an error
\* that passes for one; and if the encoder did not fail all of it was delivered, and
\* the reader took each record, all of one width.
CompleteOnNil ==
  callResult = "nil" =>
    /\ job.failed => PassesForFile
    /\ encResult = "nil" =>
         /\ Delivered = RowsOfBody
         /\ \A i \in 1 .. Len(Records) : Width(Records[i]) = Width(Records[1]) /\ Width(Records[i]) # 0

\* csv.go:31-35: when the handler is over its producer is too: the drain let
\* it send all its rows and close the channel.
ProducerOutlived ==
  enc \in {"finish", "done"} /\ ~job.failed
    => srvClosed /\ srvCh = <<>> /\ sent = Len(job.rows)

\* csv.go:31-35, 62-76: the handler ends, and with it its producer, unless a
\* consumer that stopped keeps the connection full; it does end when the
\* connection is gone, whatever the consumer does.
HandlerEnds ==
  /\ ~job.interactive ~> enc = "done" \/ con = "stopped"
  /\ ~job.interactive /\ conn = "broken" ~> enc = "done"

\* csv.go:81-119, client.go:100-152: Call returns, unless the consumer stopped.
CallReturns ==
  ~job.interactive ~> cli = "returned" \/ con = "stopped"

\* csv.go:88: a consumer whose response reached the decoder comes to the end of
\* its range loop, however the download ends.
ConsumerEnds ==
  cli = "csvHeader" /\ ~job.interactive ~> con \in {"done", "stopped"}

\* csv.go:54-57, 69-72 (test/csv_test.go, TestSlowCSV): a row reaches the
\* consumer although the producer sends nothing after it, when the
\* ResponseWriter can flush and nothing ends the call.
InteractiveDelivery ==
  \A n \in 1 .. 2 :
    job.interactive /\ job.flusher /\ sent >= n
      ~> Len(got) >= n \/ con = "stopped" \/ cliDone \/ srvDone \/ conn = "broken"

\* csv.go:22-24 "The transport downloads the file and writes rows to the channel
\* and closes it before returning."
RowsClosedOnReturn == cli = "returned" => cliClosed

\* csv.go:22-24 again, and test/csv_test.go:189-193: after a nil error every
\* row of the file has been written to the channel.
NilMeansDownloaded ==
  callResult = "nil" => Len(Delivered) = Len(SelectSeq(job.rows, LAMBDA k : k # "blank"))
==============================================================================
