-------------------------- MODULE CsvStream_proofs --------------------------
(***************************************************************************)
(* Proofs, for files and texts of any length, any status codes, faults and *)
(* buffer sizes, of the safety properties of CsvStream.                    *)
(***************************************************************************)
EXTENDS CsvStream, Induction, SequenceTheorems

Broken == conn = "broken"

\* The producer, the channel and the way csvEncodeResponse went.
ServerInv ==
  /\ srvClosed => sent = Len(job.rows)
  /\ enc \in {"finish", "done"} /\ ~job.failed => srvClosed /\ srvCh = <<>>
  /\ encResult = "none" <=> enc \in {"start", "csvHeader", "flush", "recv", "check"}
  /\ job.failed => enc \in {"start", "finish", "done"} /\ sent = 0
  /\ ~BodyAllowed /\ ~job.failed => enc \notin {"recv", "check"} /\ encResult # "nil"
  /\ conn = "eof" => enc = "done" /\ pending = <<>>
  /\ status # 0 => status = StatusLine

\* What the channel and the encoder hold are the next rows of the file.
ChannelInv ==
  /\ Len(srvCh) <= sent
  /\ \A i \in 1 .. Len(srvCh) : srvCh[i] = Row(sent - Len(srvCh) + i)
  /\ enc \in {"start", "csvHeader"} => Len(srvCh) = sent
  /\ enc = "check" => Len(srvCh) < sent /\ cur = Row(sent - Len(srvCh))

\* The connection holds the lines that follow those the client has read, and
\* the ResponseWriter those that follow them, until the connection breaks.
WireInv ==
  /\ nread + Len(wire) <= Len(job.rows) + 1
  /\ \A i \in 1 .. Len(wire) : wire[i] = BodyLine(job, nread + i - 1)
  /\ enc \in {"start", "csvHeader"} \/ (job.failed /\ ~BodyAllowed) =>
       nread = 0 /\ wire = <<>> /\ pending = <<>>

Sent == nread + Len(wire) + Len(pending)

PendingInv ==
  ~Broken =>
    /\ Sent <= Len(job.rows) + 1
    /\ \A i \in 1 .. Len(pending) : pending[i] = BodyLine(job, nread + Len(wire) + i - 1)
    /\ enc \in {"flush", "recv"} => Sent = sent - Len(srvCh) + 1
    /\ enc = "check" => Sent = sent - Len(srvCh)
    /\ encResult = "nil" /\ (job.failed => BodyAllowed) => Sent = Len(job.rows) + 1

\* The records among the lines that the client has read.
Read == RecordsAmong(job)[nread]

\* The consumer has been given the records after the header, the last one read
\* apart while the decoder holds it.
DeliveryInv ==
  /\ \A i \in 1 .. Len(Delivered) : i + 1 <= Len(Read) /\ Delivered[i] = Parsed(Read[i + 1])
  /\ cli \in {"await", "csvHeader", "decodeError"} => got = <<>> /\ cliCh = <<>>
  /\ cli = "await" => nread = 0
  /\ cli = "csvHeader" => Read = <<>>
  /\ cli \in {"check", "read"} => Len(Read) = Len(Delivered) + 1
  /\ cli = "send" => Len(Read) = Len(Delivered) + 2 /\ rec = Parsed(Read[Len(Read)])
  /\ callResult = "nil" => Len(Read) = Len(Delivered) + 1

\* What Call knows when it reports the end of the file.
DecoderInv ==
  /\ callResult # "none" => cli \in {"closeRows", "closeBody", "returned"}
  /\ callResult = "nil" => conn = "eof" /\ wire = <<>>
  /\ cli \in {"csvHeader", "check", "read", "send"} \/ callResult = "nil" => IsSuccess(status)
  /\ cli \in {"check", "read", "send"} \/ callResult = "nil" =>
       width # 0 /\ \A i \in 1 .. Len(Read) : Width(Read[i]) = width

\* A consumer is given something only of a response with a success.
SuccessInv == got # <<>> \/ cliCh # <<>> => IsSuccess(status)

IInv ==
  /\ TypeOK
  /\ ServerInv
  /\ ChannelInv
  /\ WireInv
  /\ PendingInv
  /\ DeliveryInv
  /\ DecoderInv
  /\ SuccessInv

-----------------------------------------------------------------------------
(* What is sent and the records in it *)

\* A line of what a call sends: the first one or one of the others.
LEMMA BodyLineType ==
  ASSUME NEW j \in Jobs, NEW i \in 0 .. Len(j.rows)
  PROVE  BodyLine(j, i) \in Lines
<1>1. j.header \in Kinds /\ j.rows \in Seq(Kinds)
  BY JobsAssumption DEF Kinds
<1>2. i # 0 => j.rows[i] \in Kinds
  BY <1>1
<1> QED
  BY <1>1, <1>2 DEF BodyLine, Line, Lines

\* The recursive definition of RecordsAmong does define a function.
LEMMA RecordsDefined ==
  ASSUME NEW j \in Jobs
  PROVE  /\ RecordsAmong(j) \in [0 .. Len(j.rows) + 1 -> Seq(Lines)]
         /\ RecordsAmong(j)[0] = <<>>
         /\ \A n \in 1 .. Len(j.rows) + 1 :
              RecordsAmong(j)[n] =
                IF BodyLine(j, n - 1).kind = "blank" THEN RecordsAmong(j)[n - 1]
                ELSE Append(RecordsAmong(j)[n - 1], BodyLine(j, n - 1))
<1> DEFINE N == Len(j.rows) + 1
           OneMore(n, s) == IF BodyLine(j, n).kind = "blank" THEN s ELSE Append(s, BodyLine(j, n))
           step == [n \in Nat |-> [s \in Seq(Lines) |-> IF n < N THEN OneMore(n, s) ELSE s]]
           Is(f) == f = [n \in 0 .. N |-> IF n = 0 THEN <<>>
                           ELSE IF BodyLine(j, n - 1).kind = "blank" THEN f[n - 1]
                           ELSE Append(f[n - 1], BodyLine(j, n - 1))]
<1>1. N \in Nat /\ N = Len(j.rows) + 1
  BY JobsAssumption
<1>2. \A n \in Nat : n < N => BodyLine(j, n) \in Lines
  BY <1>1, BodyLineType
<1>3. step \in [Nat -> [Seq(Lines) -> Seq(Lines)]]
  <2>1. \A n \in Nat, s \in Seq(Lines) : n < N => OneMore(n, s) \in Seq(Lines)
    BY <1>2
  <2> HIDE DEF OneMore, N
  <2> QED
    BY <2>1
<1>4. PICK f \in [0 .. N -> Seq(Lines)] :
        f[0] = <<>> /\ \A n \in 1 .. N : f[n] = step[n - 1][f[n - 1]]
  <2> DEFINE S == Seq(Lines)
             first == <<>>
  <2>1. first \in S /\ step \in [Nat -> [S -> S]] /\ N \in Nat
    BY <1>1, <1>3
  <2> HIDE DEF step, N, S, first
  <2>2. \E f \in [0 .. N -> S] : IsRecursion(f, first, step, N)
    BY <2>1, Recursion
  <2> QED
    BY <2>2 DEF S, first, IsRecursion
<1>5. \A n \in 1 .. N : f[n] = OneMore(n - 1, f[n - 1])
  <2> SUFFICES ASSUME NEW n \in 1 .. N PROVE f[n] = OneMore(n - 1, f[n - 1])
    OBVIOUS
  <2> HIDE DEF OneMore, N
  <2>1. n - 1 \in Nat /\ n - 1 < N /\ f[n - 1] \in Seq(Lines)
    BY <1>1, <1>4
  <2> QED
    BY <2>1, <1>4
<1>6. Is(f)
  <2> HIDE DEF N
  <2>1. \A n \in 0 .. N : n # 0 => n \in 1 .. N
    BY <1>1
  <2> QED
    BY <2>1, <1>4, <1>5
<1>7. RecordsAmong(j) = CHOOSE g : Is(g)
  BY DEF RecordsAmong
<1>8. Is(RecordsAmong(j))
  <2> HIDE DEF Is
  <2> QED
    BY <1>6, <1>7
<1> DEFINE R == RecordsAmong(j)
<1>9. R[0] = <<>>
  BY <1>1, <1>8
<1>10. ASSUME NEW n \in 1 .. N PROVE R[n] = OneMore(n - 1, R[n - 1])
  <2>1. n \in 0 .. N /\ n # 0
    BY <1>1
  <2> HIDE DEF N, R
  <2> QED
    BY <2>1, <1>8 DEF R
<1>11. R \in [0 .. N -> Seq(Lines)]
  <2> DEFINE P == {n \in Nat : n <= N => R[n] \in Seq(Lines)}
  <2>1. 0 \in P
    <3>1. <<>> \in Seq(Lines)
      OBVIOUS
    <3> QED
      BY <3>1, <1>9
  <2>2. ASSUME NEW n \in P PROVE n + 1 \in P
    <3> SUFFICES ASSUME n + 1 <= N PROVE R[n + 1] \in Seq(Lines)
      OBVIOUS
    <3>1. n \in Nat /\ n < N /\ n + 1 \in 1 .. N /\ (n + 1) - 1 = n
      BY <1>1
    <3>2. R[n] \in Seq(Lines) /\ BodyLine(j, n) \in Lines
      BY <3>1, <1>2
    <3>3. R[n + 1] = OneMore(n, R[n])
      BY <3>1, <1>10
    <3> QED
      BY <3>2, <3>3
  <2>3. \A n \in Nat : n \in P
    <3> HIDE DEF P
    <3>1. P \in SUBSET Nat
      BY DEF P
    <3> QED
      BY <2>1, <2>2, <3>1, UpTo
  <2>4. \A n \in 0 .. N : R[n] \in Seq(Lines)
    BY <2>3, <1>1
  <2>5. R = [n \in 0 .. N |-> R[n]]
    BY <1>8
  <2> QED
    BY <2>4, <2>5
<1> QED
  BY <1>1, <1>9, <1>10, <1>11

\* More lines only add records: those of the first m lines stay as they are.
LEMMA RecordsGrow ==
  ASSUME NEW j \in Jobs,
         NEW m \in 0 .. Len(j.rows) + 1, NEW n \in m .. Len(j.rows) + 1
  PROVE  LET R == RecordsAmong(j) IN
           /\ Len(R[m]) <= Len(R[n])
           /\ \A i \in 1 .. Len(R[m]) : R[n][i] = R[m][i]
<1> DEFINE N == Len(j.rows) + 1
           R == RecordsAmong(j)
           Extends(k) == /\ Len(R[m]) <= Len(R[k])
                         /\ \A i \in 1 .. Len(R[m]) : R[k][i] = R[m][i]
           P == {k \in Nat : k \in m .. N => Extends(k)}
<1>1. N \in Nat /\ m \in Nat /\ m <= N /\ n \in Nat
  BY JobsAssumption
<1>2. /\ \A k \in 0 .. N : R[k] \in Seq(Lines)
      /\ \A k \in 1 .. N : R[k] = IF BodyLine(j, k - 1).kind = "blank" THEN R[k - 1]
                                  ELSE Append(R[k - 1], BodyLine(j, k - 1))
  BY RecordsDefined
<1>3. Extends(m)
  BY <1>1, <1>2
<1> HIDE DEF R, N
<1>4. 0 \in P
  BY <1>1, <1>3
<1>5. ASSUME NEW k \in P PROVE k + 1 \in P
  <2> SUFFICES ASSUME k + 1 \in m .. N PROVE Extends(k + 1)
    BY <1>1
  <2>1. CASE k + 1 = m
    BY <2>1, <1>3
  <2>2. CASE k + 1 # m
    <3>1. k \in m .. N /\ k + 1 \in 1 .. N /\ (k + 1) - 1 = k /\ k \in 0 .. N
      BY <1>1, <2>2
    <3>2. Extends(k) /\ R[k] \in Seq(Lines)
      BY <3>1, <1>2
    <3>3. CASE BodyLine(j, k).kind = "blank"
      BY <3>1, <3>2, <3>3, <1>2
    <3>4. CASE BodyLine(j, k).kind # "blank"
      <4>1. R[k + 1] = Append(R[k], BodyLine(j, k)) /\ BodyLine(j, k) \in Lines
        <5>1. k \in 0 .. Len(j.rows)
          BY <3>1, JobsAssumption DEF N
        <5> QED
          BY <3>1, <3>4, <1>2, <5>1, BodyLineType
      <4>2. /\ Len(R[k + 1]) = Len(R[k]) + 1
            /\ \A i \in 1 .. Len(R[k]) : R[k + 1][i] = R[k][i]
        BY <4>1, <3>2, AppendProperties
      <4>3. Len(R[m]) \in Nat /\ Len(R[k]) \in Nat
        BY <1>1, <1>2, <3>1
      <4>4. Len(R[m]) <= Len(R[k + 1])
        BY <4>2, <4>3, <3>2
      <4>5. ASSUME NEW i \in 1 .. Len(R[m]) PROVE R[k + 1][i] = R[m][i]
        <5>1. i \in 1 .. Len(R[k]) /\ R[k][i] = R[m][i]
          <6> HIDE DEF R
          <6> QED
            BY <4>3, <3>2
        <5> QED
          BY <4>2, <5>1
      <4> HIDE DEF R
      <4> QED
        BY <4>4, <4>5
    <3> QED
      BY <3>3, <3>4
  <2> QED
    BY <2>1, <2>2
<1>6. n \in P
  <2> HIDE DEF P
  <2>1. P \in SUBSET Nat
    BY DEF P
  <2> QED
    BY <1>1, <1>4, <1>5, <2>1, UpTo
<1> QED
  BY <1>6, <1>1 DEF N, R

-----------------------------------------------------------------------------
(* Sequences, and the steps that move a line *)

\* What Tail leaves of a sequence.
LEMMA TailFacts ==
  ASSUME NEW S, NEW s \in Seq(S), s # <<>>
  PROVE  /\ Head(s) \in S /\ Head(s) = s[1]
         /\ Tail(s) \in Seq(S)
         /\ Len(Tail(s)) = Len(s) - 1 /\ Len(s) >= 1
         /\ \A i \in 1 .. Len(s) - 1 : Tail(s)[i] = s[i + 1]
OBVIOUS

\* A line that moves from the front of one queue to the end of another stays in
\* its place among all lines.
LEMMA MoveHead ==
  ASSUME NEW S, NEW s \in Seq(S), NEW t \in Seq(S), t # <<>>
  PROVE  Append(s, Head(t)) \o Tail(t) = s \o t
OBVIOUS

\* What is appended to the last queue is appended to all lines.
LEMMA AppendLater ==
  ASSUME NEW S, NEW s \in Seq(S), NEW t \in Seq(S), NEW e \in S
  PROVE  s \o Append(t, e) = Append(s \o t, e)
OBVIOUS

\* What the assumption on the calls says of the one in hand.
LEMMA JobTyped ==
  ASSUME job \in Jobs
  PROVE  /\ job.rows \in Seq(Kinds) /\ Len(job.rows) \in Nat
         /\ job.header \in Kinds
         /\ \A i \in 1 .. Len(job.rows) : job.rows[i] \in Kinds
         /\ job.failed \in BOOLEAN /\ StatusLine \in Nat
<1>1. /\ job.rows \in Seq(Kinds) /\ job.header \in Kinds
      /\ job.failed \in BOOLEAN /\ job.code \in Nat
  BY JobsAssumption
<1>2. StatusLine \in Nat
  BY <1>1 DEF StatusLine
<1> QED
  BY <1>1, <1>2

\* The text of an error is a sequence of lines.
LEMMA TextFacts ==
  ASSUME job \in Jobs
  PROVE  /\ Text \in Seq(Lines) /\ Len(Text) = Len(job.rows) + 1
         /\ \A i \in 1 .. Len(Text) : Text[i] = BodyLine(job, i - 1)
<1> DEFINE n == Len(job.rows) + 1
<1>1. n \in Nat
  BY JobTyped
<1>2. \A i \in 1 .. n : BodyLine(job, i - 1) \in Lines
  <2>1. \A i \in 1 .. n : i - 1 \in 0 .. Len(job.rows)
    BY JobTyped
  <2> QED
    BY <2>1, BodyLineType
<1>3. Text = [i \in 1 .. n |-> BodyLine(job, i - 1)]
  BY DEF Text
<1> HIDE DEF n
<1>4. Text \in [1 .. n -> Lines]
  BY <1>2, <1>3
<1>5. Text \in Seq(Lines) /\ Len(Text) = n
  BY <1>1, <1>4
<1>6. \A i \in 1 .. n : Text[i] = BodyLine(job, i - 1)
  BY <1>3
<1> QED
  BY <1>5, <1>6 DEF n

\* The call and its code stay.
LEMMA JobKept ==
  ASSUME Next
  PROVE  job' = job /\ StatusLine' = StatusLine /\ BodyAllowed' = BodyAllowed
<1>1. ASSUME Producer \/ Encoder PROVE job' = job
  BY <1>1 DEF Producer, ProducerSend, ProducerClose, Encoder, EncStart, EncStartPanic, EncError,
     EncErrorPanic, EncCsvHeader, EncFlush, EncFlushed, EncFlushError, EncRecv, EncRecvClosed,
     EncWrite, EncContextDone, EncDrain, EncDrained, FinishFlush, FinishResponse, FinishBroken
<1>2. ASSUME Decoder PROVE job' = job
  BY <1>2 DEF Decoder, Respond, DoFails, SkipBlank, DecHeader, DecHeaderFails, DecCheck, DecRead,
     DecReadEnds, DecSend, DecCloseRows, DecError, CloseBody
<1>3. ASSUME Consumer \/ ServerNotices \/ Environment PROVE job' = job
  BY <1>3 DEF Consumer, ConsumerRecv, ConsumerNext, ConsumerDone, ServerNotices, Environment,
     ConsumerStops, ClientCancels, NetworkBreaks, ServerShutdown
<1>4. job' = job
  BY <1>1, <1>2, <1>3 DEF Next
<1> QED
  BY <1>4 DEF StatusLine, BodyAllowed

\* A line goes from the ResponseWriter to the connection.
LEMMA PutOnWireMoves ==
  ASSUME IInv, PutOnWire
  PROVE  /\ ~Broken
         /\ pending[1] = BodyLine(job, nread + Len(wire))
         /\ pending[1] \in Lines
         /\ wire \in Seq(Lines) /\ pending \in Seq(Lines) /\ nread \in Nat
         /\ wire' \in Seq(Lines) /\ pending' \in Seq(Lines)
         /\ Len(wire') = Len(wire) + 1
         /\ Len(pending') = Len(pending) - 1 /\ Len(pending) >= 1
         /\ \A i \in 1 .. Len(wire) : wire'[i] = wire[i]
         /\ wire'[Len(wire) + 1] = pending[1]
         /\ \A i \in 1 .. Len(pending) - 1 : pending'[i] = pending[i + 1]
<1>1. /\ ~Broken /\ pending # <<>>
      /\ wire' = Append(wire, Head(pending)) /\ pending' = Tail(pending)
      /\ wire \in Seq(Lines) /\ pending \in Seq(Lines) /\ nread \in Nat
  BY BoundsAssumption DEF IInv, TypeOK, PutOnWire, Broken
<1>2. /\ Head(pending) \in Lines /\ Head(pending) = pending[1]
      /\ pending' \in Seq(Lines)
      /\ Len(pending') = Len(pending) - 1 /\ Len(pending) >= 1
      /\ \A i \in 1 .. Len(pending) - 1 : pending'[i] = pending[i + 1]
  BY <1>1, TailFacts
<1>3. /\ wire' \in Seq(Lines)
      /\ Len(wire') = Len(wire) + 1
      /\ \A i \in 1 .. Len(wire) : wire'[i] = wire[i]
      /\ wire'[Len(wire) + 1] = pending[1]
  BY <1>1, <1>2, AppendProperties
<1>4. pending[1] = BodyLine(job, nread + Len(wire) + 1 - 1)
  BY <1>1, <1>2 DEF IInv, PendingInv
<1>5. nread + Len(wire) + 1 - 1 = nread + Len(wire)
  BY <1>1
<1> QED
  BY <1>1, <1>2, <1>3, <1>4, <1>5

\* The client takes a line from the connection.
LEMMA ReadLineMoves ==
  ASSUME IInv, ReadLine
  PROVE  /\ Head(wire) = BodyLine(job, nread)
         /\ Head(wire) \in Lines
         /\ nread \in 0 .. Len(job.rows)
         /\ nread' = nread + 1
         /\ wire \in Seq(Lines) /\ wire' \in Seq(Lines)
         /\ Len(wire') = Len(wire) - 1 /\ Len(wire) >= 1
         /\ \A i \in 1 .. Len(wire) - 1 : wire'[i] = wire[i + 1]
         /\ conn' = conn /\ status' = status
<1>1. /\ wire # <<>> /\ wire \in Seq(Lines) /\ nread \in Nat /\ Len(job.rows) \in Nat
      /\ wire' = Tail(wire) /\ nread' = nread + 1 /\ conn' = conn /\ status' = status
  BY BoundsAssumption, JobTyped DEF IInv, TypeOK, ReadLine
<1>2. /\ Head(wire) \in Lines /\ Head(wire) = wire[1]
      /\ wire' \in Seq(Lines)
      /\ Len(wire') = Len(wire) - 1 /\ Len(wire) >= 1
      /\ \A i \in 1 .. Len(wire) - 1 : wire'[i] = wire[i + 1]
  BY <1>1, TailFacts
<1>3. wire[1] = BodyLine(job, nread + 1 - 1) /\ nread + Len(wire) <= Len(job.rows) + 1
  BY <1>1, <1>2 DEF IInv, WireInv
<1>4. nread + 1 - 1 = nread /\ nread \in 0 .. Len(job.rows)
  BY <1>1, <1>2, <1>3
<1> QED
  BY <1>1, <1>2, <1>3, <1>4

\* The lines on the connection stay the next ones to be read.
LEMMA WireKept ==
  ASSUME IInv, Next
  PROVE  WireInv'
<1> USE JobTyped DEF IInv
<1>1. nread \in Nat /\ wire \in Seq(Lines) /\ pending \in Seq(Lines) /\ Len(job.rows) \in Nat
  BY BoundsAssumption DEF TypeOK
<1>0. BodyAllowed' = BodyAllowed
  BY JobKept
\* Nothing is written where nothing may be.
<1> DEFINE Silent == enc \in {"start", "csvHeader"} \/ (job.failed /\ ~BodyAllowed)
<1>2. ASSUME UNCHANGED <<job, nread, wire>>,
             Silent' => Silent /\ pending' = pending
      PROVE  WireInv'
  BY <1>2 DEF WireInv
<1>3. ASSUME PutOnWire, UNCHANGED <<job, nread, enc>>
      PROVE  WireInv'
  <2>1. ~Silent /\ ~Silent'
    BY <1>0, <1>3 DEF WireInv, PutOnWire
  <2>2. ASSUME NEW i \in 1 .. Len(wire')
        PROVE  wire'[i] = BodyLine(job, nread + i - 1)
    <3>1. i \in 1 .. Len(wire) \/ i = Len(wire) + 1
      BY <1>1, <1>3, PutOnWireMoves
    <3>2. nread + (Len(wire) + 1) - 1 = nread + Len(wire)
      BY <1>1
    <3> QED
      BY <3>1, <3>2, <1>3, PutOnWireMoves DEF WireInv
  <2>3. nread + Len(wire') <= Len(job.rows) + 1
    BY <1>1, <1>3, PutOnWireMoves DEF PendingInv, Sent
  <2> QED
    BY <1>3, <2>1, <2>2, <2>3 DEF WireInv
<1>4. ASSUME ReadLine, UNCHANGED <<job, enc>>
      PROVE  WireInv'
  <2>1. ~Silent /\ ~Silent'
    BY <1>0, <1>4 DEF WireInv, ReadLine
  <2>2. ASSUME NEW i \in 1 .. Len(wire')
        PROVE  wire'[i] = BodyLine(job, nread' + i - 1)
    <3>1. i \in 1 .. Len(wire) - 1 /\ i + 1 \in 1 .. Len(wire)
      BY <1>1, <1>4, ReadLineMoves
    <3>2. nread' + i - 1 = nread + (i + 1) - 1
      BY <1>1, <1>4, ReadLineMoves
    <3> QED
      BY <3>1, <3>2, <1>4, ReadLineMoves DEF WireInv
  <2>3. nread' + Len(wire') <= Len(job.rows) + 1
    BY <1>1, <1>4, ReadLineMoves DEF WireInv
  <2> QED
    BY <1>4, <2>1, <2>2, <2>3 DEF WireInv
<1>5. CASE Producer
  BY <1>0, <1>5, <1>2 DEF Producer, ProducerSend, ProducerClose, netVars, cliVars
<1>6. CASE Encoder
  <2>1. CASE EncFlush \/ FinishFlush
    BY <2>1, <1>3 DEF EncFlush, FinishFlush, cliVars
  <2>2. CASE EncStart \/ EncStartPanic \/ EncError \/ EncErrorPanic \/ EncCsvHeader
    BY <1>0, <2>2, <1>2 DEF EncStart, EncStartPanic, EncError, EncErrorPanic, EncCsvHeader,
       FinishEncode, netVars, cliVars, ServerInv, WireInv
  <2>3. CASE EncFlushed \/ EncFlushError \/ EncRecv \/ EncRecvClosed \/ EncWrite \/ EncContextDone
    <3>1. /\ UNCHANGED <<job, nread, wire>>
          /\ enc \in {"flush", "recv", "check"} /\ enc' \notin {"start", "csvHeader"}
      BY <2>3 DEF EncFlushed, EncFlushError, EncRecv, EncRecvClosed, EncWrite,
         EncContextDone, FinishEncode, netVars, cliVars
    <3>2. ~job.failed
      BY <3>1 DEF ServerInv
    <3> QED
      BY <3>1, <3>2, <1>2
  <2>4. CASE EncDrain \/ EncDrained \/ FinishResponse \/ FinishBroken
    BY <1>0, <2>4, <1>2 DEF EncDrain, EncDrained, FinishResponse, FinishBroken, netVars, cliVars
  <2> QED
    BY <1>6, <2>1, <2>2, <2>3, <2>4 DEF Encoder
<1>7. CASE Decoder
  <2>1. CASE SkipBlank \/ DecHeader \/ DecRead
    BY <2>1, <1>4 DEF SkipBlank, DecHeader, DecRead, srvVars
  <2>2. CASE DecError
    BY <1>0, <2>2, <1>2, <1>4 DEF DecError, srvVars, netVars
  <2>3. CASE \/ Respond \/ DoFails \/ DecHeaderFails \/ DecCheck \/ DecReadEnds
             \/ DecSend \/ DecCloseRows \/ CloseBody
    BY <1>0, <2>3, <1>2 DEF Respond, DoFails, DecHeaderFails, DecCheck, DecReadEnds,
       DecSend, DecCloseRows, CloseBody, srvVars, netVars
  <2> QED
    BY <1>7, <2>1, <2>2, <2>3 DEF Decoder
<1>8. CASE Consumer \/ ServerNotices \/ Environment
  BY <1>0, <1>8, <1>2 DEF Consumer, ConsumerRecv, ConsumerNext, ConsumerDone, ServerNotices,
     Environment, ConsumerStops, ClientCancels, NetworkBreaks, ServerShutdown, srvVars, netVars,
     cliVars
<1> QED
  BY <1>5, <1>6, <1>7, <1>8 DEF Next

\* Every step keeps the type invariant.
LEMMA TypeKept ==
  ASSUME IInv, Next
  PROVE  TypeOK'
<1>1. TypeOK
  BY DEF IInv
<1>2a. Text \in Seq(Lines) /\ StatusLine \in Nat
  BY <1>1, JobTyped, TextFacts DEF TypeOK
<1>2. /\ Len(job.rows) \in Nat
      /\ HeaderLine \in Lines /\ NoRow \in Lines
      /\ \A i \in 1 .. Len(job.rows) : Row(i) \in Lines
  BY <1>1, JobTyped DEF TypeOK, HeaderLine, NoRow, Row, Line, Lines, Kinds
<1> USE <1>1, <1>2, BoundsAssumption DEF TypeOK
<1>3. srvCh # <<>> => Head(srvCh) \in Lines /\ Tail(srvCh) \in Seq(Lines)
  BY TailFacts
<1>4. cliCh # <<>> => Head(cliCh) \in Lines /\ Tail(cliCh) \in Seq(Lines)
  BY TailFacts
<1>5. ASSUME PutOnWire
      PROVE  wire' \in Seq(Lines) /\ pending' \in Seq(Lines) /\ Len(wire') <= WireCap
  BY <1>5, PutOnWireMoves DEF PutOnWire
<1>6. ASSUME ReadLine
      PROVE  /\ Head(wire) \in Lines /\ Parsed(Head(wire)) \in Lines
             /\ Width(Head(wire)) \in 0 .. 2
             /\ wire' \in Seq(Lines) /\ Len(wire') <= WireCap /\ nread' \in 0 .. BodyLimit
  <2>1. nread' \in 0 .. BodyLimit
    BY <1>6 DEF ReadLine
  <2>2. Head(wire) \in Lines
    BY <1>6, ReadLineMoves
  <2>3. Parsed(Head(wire)) \in Lines
    BY <2>2 DEF Parsed, Line, Lines, Kinds
  <2>4. Width(Head(wire)) \in 0 .. 2
    BY DEF Width
  <2> QED
    BY <1>6, <2>1, <2>2, <2>3, <2>4, ReadLineMoves
<1>7. CASE ProducerSend
  BY <1>7 DEF ProducerSend, srvVars, netVars, ctxVars, cliVars
<1>8. CASE ProducerClose
  BY <1>8 DEF ProducerClose, srvVars, netVars, ctxVars, cliVars
<1>9. CASE EncStart
  BY <1>9 DEF EncStart, srvVars, netVars, ctxVars, cliVars
<1>10. CASE EncStartPanic
  BY <1>10 DEF EncStartPanic, FinishEncode, srvVars, netVars, ctxVars, cliVars
<1>11. CASE EncError
  BY <1>11, <1>2a DEF EncError, srvVars, netVars, ctxVars, cliVars
<1>11a. CASE EncErrorPanic
  BY <1>11a DEF EncErrorPanic, srvVars, netVars, ctxVars, cliVars
<1>12. CASE EncCsvHeader
  BY <1>12 DEF EncCsvHeader, srvVars, netVars, ctxVars, cliVars
<1>13. CASE EncFlush
  BY <1>13, <1>5, <1>2a DEF EncFlush, PutOnWire, srvVars, netVars, ctxVars, cliVars
<1>14. CASE EncFlushed
  BY <1>14 DEF EncFlushed, srvVars, netVars, ctxVars, cliVars
<1>15. CASE EncFlushError
  BY <1>15 DEF EncFlushError, FinishEncode, srvVars, netVars, ctxVars, cliVars
<1>16. CASE EncRecv
  BY <1>16, <1>3 DEF EncRecv, srvVars, netVars, ctxVars, cliVars
<1>17. CASE EncRecvClosed
  BY <1>17 DEF EncRecvClosed, FinishEncode, srvVars, netVars, ctxVars, cliVars
<1>18. CASE EncWrite
  BY <1>18 DEF EncWrite, srvVars, netVars, ctxVars, cliVars
<1>19. CASE EncContextDone
  BY <1>19 DEF EncContextDone, FinishEncode, srvVars, netVars, ctxVars, cliVars
<1>20. CASE EncDrain
  BY <1>20, <1>3 DEF EncDrain, srvVars, netVars, ctxVars, cliVars
<1>21. CASE EncDrained
  BY <1>21 DEF EncDrained, srvVars, netVars, ctxVars, cliVars
<1>22. CASE FinishFlush
  BY <1>22, <1>5, <1>2a DEF FinishFlush, PutOnWire, srvVars, netVars, ctxVars, cliVars
<1>23. CASE FinishResponse
  BY <1>23, <1>2a DEF FinishResponse, srvVars, netVars, ctxVars, cliVars
<1>24. CASE FinishBroken
  BY <1>24 DEF FinishBroken, srvVars, netVars, ctxVars, cliVars
<1>25. CASE Respond
  BY <1>25 DEF Respond, srvVars, netVars, ctxVars, cliVars
<1>26. CASE DoFails
  BY <1>26 DEF DoFails, srvVars, netVars, ctxVars, cliVars
<1>27. CASE SkipBlank
  BY <1>27, <1>6 DEF SkipBlank, ReadLine, srvVars, netVars, ctxVars, cliVars
<1>28. CASE DecHeader
  BY <1>28, <1>6 DEF DecHeader, FinishDecode, ReadLine, srvVars, netVars, ctxVars, cliVars
<1>29. CASE DecHeaderFails
  BY <1>29 DEF DecHeaderFails, FinishDecode, srvVars, netVars, ctxVars, cliVars
<1>30. CASE DecCheck
  BY <1>30 DEF DecCheck, FinishDecode, srvVars, netVars, ctxVars, cliVars
<1>31. CASE DecRead
  BY <1>31, <1>6 DEF DecRead, FinishDecode, ReadLine, srvVars, netVars, ctxVars, cliVars
<1>32. CASE DecReadEnds
  BY <1>32 DEF DecReadEnds, FinishDecode, srvVars, netVars, ctxVars, cliVars
<1>33. CASE DecSend
  BY <1>33 DEF DecSend, srvVars, netVars, ctxVars, cliVars
<1>34. CASE DecCloseRows
  BY <1>34 DEF DecCloseRows, srvVars, netVars, ctxVars, cliVars
<1>35. CASE DecError
  <2>1. /\ UNCHANGED <<job, srvVars, ctxVars, rec, width, cliCh, cliClosed, con, got, status, conn>>
        /\ cli' \in {"decodeError", "closeBody"} /\ callResult' \in {callResult, "error"}
        /\ ReadLine \/ UNCHANGED <<wire, nread>>
    BY <1>35 DEF DecError, ReadLine, netVars
  <2> QED
    BY <2>1, <1>6 DEF srvVars, ctxVars
<1>36. CASE CloseBody
  BY <1>36 DEF CloseBody, srvVars, netVars, ctxVars, cliVars
<1>37. CASE ConsumerRecv
  BY <1>37, <1>4 DEF ConsumerRecv, srvVars, netVars, ctxVars, cliVars
<1>38. CASE ConsumerNext
  BY <1>38 DEF ConsumerNext, srvVars, netVars, ctxVars, cliVars
<1>39. CASE ConsumerDone
  BY <1>39 DEF ConsumerDone, srvVars, netVars, ctxVars, cliVars
<1>40. CASE ConsumerStops
  BY <1>40 DEF ConsumerStops, srvVars, netVars, ctxVars, cliVars
<1>41. CASE ClientCancels
  BY <1>41 DEF ClientCancels, Break, srvVars, netVars, ctxVars, cliVars
<1>42. CASE NetworkBreaks
  BY <1>42 DEF NetworkBreaks, Break, srvVars, netVars, ctxVars, cliVars
<1>43. CASE ServerNotices
  BY <1>43 DEF ServerNotices, srvVars, netVars, ctxVars, cliVars
<1>44. CASE ServerShutdown
  BY <1>44 DEF ServerShutdown, srvVars, netVars, ctxVars, cliVars
<1> QED
  BY <1>7, <1>8, <1>9, <1>10, <1>11, <1>12, <1>13, <1>14, <1>15, <1>16, <1>17, <1>18, <1>19,
     <1>20, <1>21, <1>22, <1>23, <1>24, <1>25, <1>26, <1>27, <1>28, <1>29, <1>30, <1>31, <1>32,
     <1>33, <1>34, <1>35, <1>36, <1>37, <1>38, <1>39, <1>40, <1>41, <1>42, <1>43, <1>44, <1>11a DEF Next,
     Producer, Encoder, Decoder,
     Consumer, Environment

\* Every step keeps what the handler and its producer know of each other.
LEMMA ServerKept ==
  ASSUME IInv, Next
  PROVE  ServerInv'
<1> USE JobTyped, JobKept DEF IInv, ServerInv
<1>1. CASE Producer
  <2>1. srvCh' # <<>> \/ srvCh' = srvCh
    BY <1>1 DEF Producer, ProducerSend, ProducerClose, TypeOK
  <2> QED
    BY <1>1, <2>1 DEF Producer, ProducerSend, ProducerClose, Producing, TypeOK, netVars, cliVars
<1>2. CASE Encoder
  <2>1. CASE EncStart \/ EncStartPanic \/ EncError \/ EncErrorPanic \/ EncCsvHeader \/ EncFlush \/ EncFlushed
    BY <2>1 DEF EncStart, EncStartPanic, EncError, EncErrorPanic, EncCsvHeader, EncFlush, EncFlushed, PutOnWire,
       FinishEncode, TypeOK, netVars
  <2>2. CASE EncFlushError \/ EncRecv \/ EncRecvClosed \/ EncWrite \/ EncContextDone
    BY <2>2 DEF EncFlushError, EncRecv, EncRecvClosed, EncWrite, EncContextDone, FinishEncode,
       TypeOK, netVars
  <2>3. CASE EncDrain \/ EncDrained \/ FinishFlush \/ FinishResponse \/ FinishBroken
    BY <2>3 DEF EncDrain, EncDrained, FinishFlush, FinishResponse, FinishBroken, PutOnWire,
       TypeOK, netVars
  <2> QED
    BY <1>2, <2>1, <2>2, <2>3 DEF Encoder
<1>3. CASE Decoder
  <2>1. UNCHANGED <<job, srvVars, status>> /\ (conn' = "eof" => conn = "eof")
    BY <1>3 DEF Decoder, Respond, DoFails, SkipBlank, DecHeader, DecHeaderFails, DecCheck, DecRead,
       DecReadEnds, DecSend, DecCloseRows, DecError, CloseBody, ReadLine, srvVars, netVars
  <2> QED
    BY <2>1 DEF srvVars
<1>4. CASE Consumer \/ ServerNotices \/ Environment
  BY <1>4 DEF Consumer, ConsumerRecv, ConsumerNext, ConsumerDone, ServerNotices,
     Environment, ConsumerStops, ClientCancels, NetworkBreaks, ServerShutdown, Break,
     srvVars, netVars
<1> QED
  BY <1>1, <1>2, <1>3, <1>4 DEF Next

\* The rows in the channel and in the encoder's hands stay the next ones.
LEMMA ChannelKept ==
  ASSUME IInv, Next
  PROVE  ChannelInv'
<1> USE JobTyped DEF IInv
<1>1. sent \in Nat /\ srvCh \in Seq(Lines) /\ Len(srvCh) \in Nat /\ Len(job.rows) \in Nat
  BY DEF TypeOK
<1>2. ASSUME UNCHANGED <<job, sent, srvCh, cur>>,
             enc' \in {"start", "csvHeader"} => enc \in {"start", "csvHeader"},
             enc' = "check" => enc = "check"
      PROVE  ChannelInv'
  BY <1>2 DEF ChannelInv, Row
<1>3. CASE ProducerSend
  <2>1. Row(sent + 1) \in Lines
    BY <1>3 DEF ProducerSend, Row, Line, Lines, TypeOK
  <2>2. /\ srvCh' = Append(srvCh, Row(sent + 1)) /\ sent' = sent + 1
        /\ job' = job /\ enc' = enc /\ cur' = cur
    BY <1>3 DEF ProducerSend
  <2>3. /\ Len(srvCh') = Len(srvCh) + 1
        /\ \A i \in 1 .. Len(srvCh) : srvCh'[i] = srvCh[i]
        /\ srvCh'[Len(srvCh) + 1] = Row(sent + 1)
    BY <1>1, <2>1, <2>2, AppendProperties
  <2>4. sent' - Len(srvCh') = sent - Len(srvCh)
    BY <1>1, <2>2, <2>3
  <2>5. ASSUME NEW i \in 1 .. Len(srvCh')
        PROVE  srvCh'[i] = Row(sent' - Len(srvCh') + i)
    <3>1. i \in 1 .. Len(srvCh) \/ i = Len(srvCh) + 1
      BY <1>1, <2>3
    <3>2. sent - Len(srvCh) + (Len(srvCh) + 1) = sent + 1
      BY <1>1
    <3> QED
      BY <3>1, <3>2, <2>3, <2>4 DEF ChannelInv
  <2> QED
    BY <1>1, <2>2, <2>3, <2>4, <2>5 DEF ChannelInv, Row
<1>4. CASE EncRecv \/ EncDrain
  <2>1. /\ srvCh # <<>> /\ srvCh' = Tail(srvCh) /\ UNCHANGED <<job, sent>>
        /\ enc' = "check" => cur' = Head(srvCh)
        /\ enc' \in {"check", "drain"}
    BY <1>4 DEF EncRecv, EncDrain
  <2>2. /\ Head(srvCh) = srvCh[1] /\ Len(srvCh') = Len(srvCh) - 1 /\ Len(srvCh) >= 1
        /\ \A i \in 1 .. Len(srvCh) - 1 : srvCh'[i] = srvCh[i + 1]
    BY <1>1, <2>1, TailFacts
  <2>3. ASSUME NEW i \in 1 .. Len(srvCh')
        PROVE  srvCh'[i] = Row(sent - Len(srvCh') + i)
    <3>1. i \in 1 .. Len(srvCh) - 1 /\ i + 1 \in 1 .. Len(srvCh)
      BY <1>1, <2>2
    <3>2. sent - Len(srvCh') + i = sent - Len(srvCh) + (i + 1)
      BY <1>1, <2>2
    <3> QED
      BY <3>1, <3>2, <2>2 DEF ChannelInv
  <2>4. sent - Len(srvCh') = sent - Len(srvCh) + 1 /\ Len(srvCh') < sent /\ 1 \in 1 .. Len(srvCh)
    BY <1>1, <2>2 DEF ChannelInv
  <2>6. enc' = "check" => cur' = Row(sent - Len(srvCh'))
    BY <1>1, <2>1, <2>2, <2>4 DEF ChannelInv
  <2>5. sent' = sent
    BY <2>1
  <2>7. Len(srvCh') < sent' /\ Len(srvCh') <= sent'
    <3>1. Len(srvCh') \in Int
      BY <1>1, <2>2
    <3> QED
      BY <1>1, <2>4, <2>5, <3>1
  <2>8. \A i \in 1 .. Len(srvCh') : srvCh'[i] = Line(sent' - Len(srvCh') + i, job'.rows[sent' - Len(srvCh') + i])
    BY <2>1, <2>3 DEF Row
  <2>9. enc' = "check" => Len(srvCh') < sent' /\ cur' = Line(sent' - Len(srvCh'), job'.rows[sent' - Len(srvCh')])
    BY <2>1, <2>4, <2>6 DEF Row
  <2>10. ~(enc' \in {"start", "csvHeader"})
    BY <2>1
  <2> QED
    BY <2>7, <2>8, <2>9, <2>10 DEF ChannelInv, Row
<1>5. CASE Encoder
  <2>1. CASE EncStart \/ EncStartPanic \/ EncError \/ EncErrorPanic \/ EncCsvHeader \/ EncFlush \/ EncFlushed
    BY <2>1, <1>2 DEF EncStart, EncStartPanic, EncError, EncErrorPanic, EncCsvHeader, EncFlush, EncFlushed,
       FinishEncode
  <2>2. CASE EncFlushError \/ EncRecvClosed \/ EncWrite \/ EncContextDone
    BY <2>2, <1>2 DEF EncFlushError, EncRecvClosed, EncWrite, EncContextDone, FinishEncode
  <2>3. CASE EncDrained \/ FinishFlush \/ FinishResponse \/ FinishBroken
    BY <2>3, <1>2 DEF EncDrained, FinishFlush, FinishResponse, FinishBroken
  <2> QED
    BY <1>5, <1>4, <2>1, <2>2, <2>3 DEF Encoder
<1>6. CASE Decoder
  BY <1>6, <1>2 DEF Decoder, Respond, DoFails, SkipBlank, DecHeader, DecHeaderFails, DecCheck,
     DecRead, DecReadEnds, DecSend, DecCloseRows, DecError, CloseBody, srvVars
<1>7. CASE Consumer \/ ServerNotices \/ Environment
  BY <1>7, <1>2 DEF Consumer, ConsumerRecv, ConsumerNext, ConsumerDone, ServerNotices,
     Environment, ConsumerStops, ClientCancels, NetworkBreaks, ServerShutdown, srvVars
<1>8. CASE ProducerClose
  BY <1>8, <1>2 DEF ProducerClose
<1> QED
  BY <1>3, <1>5, <1>6, <1>7, <1>8 DEF Next, Producer

\* The lines in the ResponseWriter stay those after the connection's, unless it broke.
LEMMA PendingKept ==
  ASSUME IInv, Next
  PROVE  PendingInv'
<1>1. /\ nread \in Nat /\ Len(wire) \in Nat /\ Len(pending) \in Nat /\ Len(srvCh) \in Nat
      /\ sent \in Nat /\ Len(job.rows) \in Nat /\ Sent \in Nat
      /\ wire \in Seq(Lines) /\ pending \in Seq(Lines) /\ srvCh \in Seq(Lines)
  BY JobTyped, BoundsAssumption DEF IInv, TypeOK, Sent
<1>0. BodyAllowed' = BodyAllowed
  BY JobKept
<1>2. ~Broken' => ~Broken
  BY DEF IInv, TypeOK, Broken, Next, Producer, ProducerSend, ProducerClose,
     Encoder, EncStart, EncStartPanic, EncError, EncErrorPanic, EncCsvHeader, EncFlush, EncFlushed, EncFlushError,
     EncRecv, EncRecvClosed, EncWrite, EncContextDone, EncDrain, EncDrained, FinishFlush,
     FinishResponse, FinishBroken, PutOnWire, ReadLine, Break,
     Decoder, Respond, DoFails, SkipBlank, DecHeader, DecHeaderFails, DecCheck, DecRead,
     DecReadEnds, DecSend, DecCloseRows, DecError, CloseBody,
     Consumer, ConsumerRecv, ConsumerNext, ConsumerDone, ServerNotices,
     Environment, ConsumerStops, ClientCancels, NetworkBreaks, ServerShutdown, netVars
\* The lines stay, and what the encoder counts is as before.
<1>3. ASSUME ~Broken', UNCHANGED <<job, nread, wire, pending>>,
             enc' \in {"flush", "recv"} => Sent = sent' - Len(srvCh') + 1,
             enc' = "check" => Sent = sent' - Len(srvCh'),
             encResult' = "nil" /\ (job.failed => BodyAllowed) => Sent = Len(job.rows) + 1
      PROVE  PendingInv'
  BY <1>0, <1>1, <1>2, <1>3 DEF IInv, PendingInv, Sent
\* One line is added.
<1>4. ASSUME NEW l \in Lines, l = BodyLine(job, Sent),
             ~Broken', UNCHANGED <<job, nread, wire, sent, srvCh, encResult>>,
             pending' = Append(pending, l),
             Sent <= Len(job.rows),
             enc' = "flush" /\ Sent = sent - Len(srvCh),
             encResult = "none"
      PROVE  PendingInv'
  <2>1. /\ Len(pending') = Len(pending) + 1
        /\ \A i \in 1 .. Len(pending) : pending'[i] = pending[i]
        /\ pending'[Len(pending) + 1] = l
    BY <1>1, <1>4, AppendProperties
  <2>2. ASSUME NEW i \in 1 .. Len(pending')
        PROVE  pending'[i] = BodyLine(job, nread + Len(wire) + i - 1)
    <3>1. i \in 1 .. Len(pending) \/ i = Len(pending) + 1
      BY <1>1, <2>1
    <3>2. nread + Len(wire) + (Len(pending) + 1) - 1 = Sent
      BY <1>1 DEF Sent
    <3> QED
      BY <3>1, <3>2, <2>1, <1>2, <1>4 DEF IInv, PendingInv
  <2>3. Sent' = Sent + 1
    <3>1. nread' = nread /\ Len(wire') = Len(wire) /\ Len(pending') = Len(pending) + 1
      BY <1>4, <2>1
    <3> QED
      BY <1>1, <3>1 DEF Sent
  <2> QED
    BY <1>1, <1>4, <2>2, <2>3 DEF PendingInv
\* One line goes on.
<1>5. ASSUME PutOnWire, UNCHANGED <<job, nread, enc, sent, srvCh, encResult>>
      PROVE  PendingInv'
  <2>1. Len(wire') = Len(wire) + 1 /\ Len(pending') = Len(pending) - 1 /\ nread' = nread
    BY <1>5, PutOnWireMoves
  <2>2. Sent' = Sent
    BY <1>1, <2>1 DEF Sent
  <2>3. ASSUME NEW i \in 1 .. Len(pending')
        PROVE  pending'[i] = BodyLine(job, nread + Len(wire') + i - 1)
    <3>1. i \in 1 .. Len(pending) - 1 /\ i + 1 \in 1 .. Len(pending)
      BY <1>1, <1>5, PutOnWireMoves
    <3>2. nread + Len(wire') + i - 1 = nread + Len(wire) + (i + 1) - 1
      BY <1>1, <2>1, <3>1
    <3> QED
      BY <3>1, <3>2, <1>5, PutOnWireMoves DEF IInv, PendingInv
  <2> QED
    BY <1>0, <1>5, <2>2, <2>3, PutOnWireMoves DEF IInv, PendingInv
<1>6. ASSUME ReadLine, UNCHANGED <<job, srvVars>>
      PROVE  PendingInv'
  <2>1. Len(wire') = Len(wire) - 1 /\ nread' = nread + 1 /\ pending' = pending
    BY <1>6, ReadLineMoves DEF srvVars
  <2>2. nread' + Len(wire') = nread + Len(wire) /\ pending' = pending
    BY <1>1, <2>1
  <2>3. Sent' = Sent
    BY <2>2 DEF Sent
  <2> QED
    BY <1>0, <1>1, <1>6, <2>2, <2>3, ReadLineMoves DEF IInv, PendingInv, Broken, srvVars
<1>7. CASE Broken'
  BY <1>7 DEF PendingInv
<1>8. CASE ~Broken' /\ Producer
  <2>1. CASE ProducerSend
    <3>1. /\ UNCHANGED <<job, nread, wire, pending, enc, encResult>>
          /\ sent' = sent + 1 /\ Len(srvCh') = Len(srvCh) + 1
      BY <1>1, <2>1 DEF ProducerSend, netVars, cliVars, IInv, TypeOK
    <3>2. sent' - Len(srvCh') = sent - Len(srvCh)
      BY <3>1, <1>1
    <3> QED
      BY <3>1, <3>2, <1>2, <1>3, <1>8 DEF IInv, PendingInv
  <2>2. CASE ProducerClose
    BY <2>2, <1>2, <1>3, <1>8 DEF ProducerClose, netVars, cliVars, IInv, PendingInv
  <2> QED
    BY <1>8, <2>1, <2>2 DEF Producer
<1>9. CASE ~Broken' /\ Encoder
  <2>1. ~Broken /\ PendingInv
    BY <1>2, <1>9 DEF IInv
  <2>2. CASE EncFlush \/ FinishFlush
    BY <2>2, <1>5 DEF EncFlush, FinishFlush, cliVars
  <2>3. CASE EncStart \/ EncStartPanic
    <3>1. /\ UNCHANGED <<job, nread, wire, pending>>
          /\ enc' \in {"csvHeader", "drain"} /\ encResult' # "nil"
      BY <2>3 DEF EncStart, EncStartPanic, FinishEncode, netVars, cliVars, IInv, ServerInv
    <3> QED
      BY <3>1, <1>3, <1>9
  <2>4. CASE EncError
    <3>1. /\ job.failed /\ enc' = "finish" /\ nread = 0 /\ Len(wire) = 0 /\ UNCHANGED <<job, nread, wire>>
          /\ pending' = IF BodyAllowed THEN Text ELSE <<>>
      BY <2>4 DEF EncError, netVars, cliVars, IInv, WireInv
    <3>2. CASE BodyAllowed
      <4>1. pending' = Text /\ Len(pending') = Len(job.rows) + 1
        BY <3>1, <3>2, TextFacts DEF IInv, TypeOK
      <4>2. Sent' = Len(job.rows) + 1
        BY <3>1, <4>1, <1>1 DEF Sent
      <4>3. ASSUME NEW i \in 1 .. Len(pending')
            PROVE  pending'[i] = BodyLine(job, nread' + Len(wire') + i - 1)
        <5>1. nread' + Len(wire') + i - 1 = i - 1 /\ Text[i] = BodyLine(job, i - 1)
          BY <3>1, <4>1, TextFacts DEF IInv, TypeOK
        <5> QED
          BY <4>1, <5>1
      <4> QED
        BY <3>1, <4>2, <4>3, <1>1 DEF PendingInv
    <3>3. CASE ~BodyAllowed
      <4>1. Len(pending') = 0 /\ Sent' = 0
        BY <3>1, <3>3, <1>1 DEF Sent
      <4> QED
        BY <3>1, <3>3, <4>1, <1>0, <1>1 DEF PendingInv
    <3> QED
      BY <3>2, <3>3
  <2>4a. CASE EncErrorPanic
    <3>1. UNCHANGED <<job, nread, wire, pending>> /\ enc' = "finish" /\ encResult' # "nil"
      BY <2>4a DEF EncErrorPanic, netVars, cliVars
    <3> QED
      BY <3>1, <1>3, <1>9
  <2>5. CASE EncCsvHeader
    <3>1. /\ nread = 0 /\ wire = <<>> /\ pending = <<>> /\ Len(srvCh) = sent /\ encResult = "none"
      BY <2>5 DEF EncCsvHeader, IInv, WireInv, ChannelInv, ServerInv
    <3>2. Sent = 0
      BY <3>1 DEF Sent
    <3>3. HeaderLine = BodyLine(job, Sent) /\ HeaderLine \in Lines
      BY <3>2, JobTyped DEF IInv, TypeOK, HeaderLine, BodyLine, Line, Lines
    <3>4. Sent <= Len(job.rows) /\ Sent = sent - Len(srvCh)
      BY <3>1, <3>2, <1>1
    <3> QED
      BY <2>5, <3>1, <3>3, <3>4, <1>4, <1>9 DEF EncCsvHeader, netVars, cliVars
  <2>6. CASE EncFlushed \/ EncFlushError
    <3>1. /\ UNCHANGED <<job, nread, wire, sent, srvCh>> /\ enc' \in {"recv", "drain"}
          /\ enc = "flush" /\ encResult' # "nil" /\ (enc' = "recv" => pending' = pending)
          /\ EncFlushed \/ pending' = <<>>
      BY <2>1, <2>6 DEF EncFlushed, EncFlushError, FinishEncode, netVars, cliVars, IInv, ServerInv,
         Broken
    <3>2. Sent = sent - Len(srvCh) + 1
      BY <3>1, <2>1 DEF PendingInv
    <3>3. CASE pending' = pending
      BY <3>1, <3>2, <3>3, <1>3, <1>9
    <3>4. CASE pending' = <<>> /\ enc' = "drain"
      <4>1. Sent' <= Sent
        BY <3>1, <3>4, <1>1 DEF Sent
      <4> QED
        BY <3>1, <3>4, <4>1, <1>1, <2>1 DEF PendingInv, Sent
    <3> QED
      BY <3>1, <3>3, <3>4, <2>6 DEF EncFlushed
  <2>7. CASE EncRecv
    <3>1. /\ UNCHANGED <<job, nread, wire, pending, sent, encResult>>
          /\ enc = "recv" /\ enc' = "check" /\ Len(srvCh') = Len(srvCh) - 1
      BY <1>1, <2>7, TailFacts DEF EncRecv, netVars, cliVars
    <3>2. Sent = sent' - Len(srvCh')
      BY <3>1, <1>1, <2>1 DEF PendingInv
    <3>3. encResult' # "nil"
      BY <3>1 DEF IInv, ServerInv
    <3> QED
      BY <3>1, <3>2, <3>3, <1>3, <1>9
  <2>8. CASE EncRecvClosed
    <3>1. /\ UNCHANGED <<job, nread, wire, pending>>
          /\ enc = "recv" /\ enc' = "drain" /\ Len(srvCh) = 0 /\ sent = Len(job.rows)
      BY <1>1, <2>8 DEF EncRecvClosed, FinishEncode, netVars, cliVars, IInv, ServerInv
    <3>2. Sent = Len(job.rows) + 1
      BY <3>1, <1>1, <2>1 DEF PendingInv
    <3> QED
      BY <3>1, <3>2, <1>3, <1>9
  <2>9. CASE EncWrite
    <3>1. /\ enc = "check" /\ Len(srvCh) < sent /\ cur = Row(sent - Len(srvCh))
          /\ encResult = "none" /\ cur \in Lines /\ sent <= Len(job.rows)
      BY <2>9 DEF EncWrite, IInv, ChannelInv, ServerInv, TypeOK
    <3>2. Sent = sent - Len(srvCh)
      BY <3>1, <2>1 DEF PendingInv
    <3>3. Sent # 0 /\ Sent <= Len(job.rows)
      BY <3>1, <3>2, <1>1
    <3>4. cur = BodyLine(job, Sent)
      BY <3>1, <3>2, <3>3 DEF BodyLine, Row
    <3> QED
      BY <2>9, <3>1, <3>2, <3>3, <3>4, <1>4, <1>9 DEF EncWrite, netVars, cliVars
  <2>10. CASE EncContextDone \/ EncDrain \/ EncDrained \/ FinishResponse \/ FinishBroken
    <3>1. /\ UNCHANGED <<job, nread, wire, pending>>
          /\ enc' \in {"drain", "finish", "done"}
          /\ encResult' = encResult \/ encResult' # "nil"
      BY <2>10 DEF EncContextDone, EncDrain, EncDrained, FinishResponse, FinishBroken,
         FinishEncode, netVars, cliVars
    <3> QED
      BY <3>1, <1>3, <1>9, <2>1 DEF PendingInv
  <2> QED
    BY <1>9, <2>2, <2>3, <2>4, <2>4a, <2>5, <2>6, <2>7, <2>8, <2>9, <2>10 DEF Encoder
<1>10. ASSUME ~Broken', UNCHANGED <<job, srvVars, nread, wire>>
       PROVE  PendingInv'
  BY <1>10, <1>2, <1>3 DEF IInv, PendingInv, srvVars
<1>11. CASE ~Broken' /\ Decoder
  <2>1. CASE SkipBlank \/ DecHeader \/ DecRead
    BY <2>1, <1>6 DEF SkipBlank, DecHeader, DecRead
  <2>2. CASE DecError
    BY <2>2, <1>6, <1>10, <1>11 DEF DecError, netVars
  <2>3. CASE \/ Respond \/ DoFails \/ DecHeaderFails \/ DecCheck \/ DecReadEnds
             \/ DecSend \/ DecCloseRows \/ CloseBody
    BY <2>3, <1>10, <1>11 DEF Respond, DoFails, DecHeaderFails, DecCheck, DecReadEnds,
       DecSend, DecCloseRows, CloseBody, netVars
  <2> QED
    BY <1>11, <2>1, <2>2, <2>3 DEF Decoder
<1>12. CASE ~Broken' /\ (Consumer \/ ServerNotices \/ Environment)
  BY <1>12, <1>10 DEF Consumer, ConsumerRecv, ConsumerNext, ConsumerDone, ServerNotices,
     Environment, ConsumerStops, ClientCancels, NetworkBreaks, ServerShutdown, netVars, cliVars
<1> QED
  BY <1>7, <1>8, <1>9, <1>11, <1>12 DEF Next

\* Reading a line adds it to the records, unless it is empty.
LEMMA ReadGrows ==
  ASSUME IInv, ReadLine, job' = job
  PROVE  /\ Read \in Seq(Lines) /\ Read' \in Seq(Lines)
         /\ Head(wire).kind = "blank" => Read' = Read
         /\ Head(wire).kind # "blank" => Read' = Append(Read, Head(wire))
<1> DEFINE R == RecordsAmong(job)
           N == Len(job.rows) + 1
<1>1. job \in Jobs /\ N \in Nat /\ nread \in 0 .. N /\ nread + 1 \in 1 .. N /\ nread' = nread + 1
  BY ReadLineMoves, JobTyped DEF IInv, TypeOK
<1>2. /\ R \in [0 .. N -> Seq(Lines)]
      /\ \A n \in 1 .. N : R[n] = IF BodyLine(job, n - 1).kind = "blank" THEN R[n - 1]
                                  ELSE Append(R[n - 1], BodyLine(job, n - 1))
  BY <1>1, RecordsDefined
<1>3. Read = R[nread] /\ Read' = R[nread + 1]
  BY <1>1 DEF Read
<1>4. Head(wire) = BodyLine(job, nread)
  BY ReadLineMoves
<1>5. (nread + 1) - 1 = nread /\ nread + 1 \in 0 .. N
  BY <1>1
<1> HIDE DEF R, N
<1> QED
  BY <1>1, <1>2, <1>3, <1>4, <1>5

\* What the decoder reads are lines.
LEMMA ReadTyped ==
  ASSUME IInv
  PROVE  Read \in Seq(Lines)
<1>1. nread \in 0 .. Len(job.rows) + 1 /\ job \in Jobs
  BY JobTyped, BoundsAssumption DEF IInv, TypeOK, WireInv
<1> QED
  BY <1>1, RecordsDefined DEF Read

\* A success that the client can see stays.
LEMMA SuccessStays ==
  ASSUME IInv, Next
  PROVE  IsSuccess(status) => IsSuccess(status)'
<1>1. IsSuccess(status) => status = StatusLine
  BY DEF IInv, ServerInv, IsSuccess
<1>2. status' = status \/ status' = StatusLine
  <2>1. CASE Producer \/ Encoder
    BY <2>1 DEF Producer, ProducerSend, ProducerClose, Encoder, EncStart, EncStartPanic, EncError,
       EncErrorPanic, EncCsvHeader, EncFlush, EncFlushed, EncFlushError, EncRecv, EncRecvClosed,
       EncWrite, EncContextDone, EncDrain, EncDrained, FinishFlush, FinishResponse, FinishBroken,
       PutOnWire, netVars
  <2>2. CASE Decoder
    BY <2>2 DEF Decoder, Respond, DoFails, SkipBlank, DecHeader, DecHeaderFails, DecCheck, DecRead,
       DecReadEnds, DecSend, DecCloseRows, DecError, CloseBody, ReadLine, netVars
  <2>3. CASE Consumer \/ ServerNotices \/ Environment
    BY <2>3 DEF Consumer, ConsumerRecv, ConsumerNext, ConsumerDone, ServerNotices, Environment,
       ConsumerStops, ClientCancels, NetworkBreaks, ServerShutdown, netVars
  <2> QED
    BY <2>1, <2>2, <2>3 DEF Next
<1>3. IsSuccess(status) => status' = status
  BY <1>1, <1>2
<1> QED
  BY <1>3 DEF IsSuccess

\* Every step keeps that the consumer is given something only after a success.
LEMMA SuccessKept ==
  ASSUME IInv, Next
  PROVE  SuccessInv'
<1>1. SuccessInv /\ DecoderInv /\ TypeOK /\ (IsSuccess(status) => IsSuccess(status)')
  BY SuccessStays DEF IInv
<1>2. ASSUME UNCHANGED <<got, cliCh>>
      PROVE  SuccessInv'
  BY <1>1, <1>2 DEF SuccessInv
<1>3. CASE Producer \/ Encoder
  BY <1>2, <1>3 DEF Producer, ProducerSend, ProducerClose, Encoder, EncStart, EncStartPanic,
     EncError, EncErrorPanic, EncCsvHeader, EncFlush, EncFlushed, EncFlushError, EncRecv,
     EncRecvClosed, EncWrite, EncContextDone, EncDrain, EncDrained, FinishFlush, FinishResponse,
     FinishBroken, cliVars
<1>4. CASE Decoder
  <2>1. CASE DecSend
    <3>1. cli = "send"
      BY <2>1 DEF DecSend
    <3> QED
      BY <3>1, <1>1 DEF DecoderInv, SuccessInv
  <2>2. CASE ~DecSend
    BY <1>2, <1>4, <2>2 DEF Decoder, Respond, DoFails, SkipBlank, DecHeader, DecHeaderFails,
       DecCheck, DecRead, DecReadEnds, DecCloseRows, DecError, CloseBody
  <2> QED
    BY <2>1, <2>2
<1>5. CASE Consumer
  <2>1. CASE ConsumerRecv
    <3>1. cliCh # <<>>
      BY <2>1 DEF ConsumerRecv
    <3> QED
      BY <3>1, <1>1 DEF SuccessInv
  <2>2. CASE ConsumerNext \/ ConsumerDone
    BY <2>2, <1>2 DEF ConsumerNext, ConsumerDone
  <2> QED
    BY <1>5, <2>1, <2>2 DEF Consumer
<1>6. CASE ServerNotices \/ Environment
  BY <1>2, <1>6 DEF ServerNotices, Environment, ConsumerStops, ClientCancels, NetworkBreaks,
     ServerShutdown, cliVars
<1> QED
  BY <1>3, <1>4, <1>5, <1>6 DEF Next

\* Every step keeps what Call knows when it reports the end of the file.
LEMMA DecoderKept ==
  ASSUME IInv, Next
  PROVE  DecoderInv'
<1>1. DecoderInv /\ ServerInv /\ TypeOK
  BY DEF IInv
<1>0. IsSuccess(status) => IsSuccess(status)'
  BY SuccessStays
\* The reader stays where it is.
<1>2. ASSUME UNCHANGED <<job, nread, width, cli, callResult, wire>>,
             conn' = conn \/ conn # "eof"
      PROVE  DecoderInv'
  BY <1>0, <1>1, <1>2 DEF DecoderInv, Read, Width
<1>3. CASE Producer
  BY <1>2, <1>3 DEF Producer, ProducerSend, ProducerClose, netVars, cliVars
<1>4. CASE Encoder
  <2>1. CASE EncFlush \/ FinishFlush
    <3>1. conn # "eof" /\ UNCHANGED <<job, cliVars, conn>>
      BY <2>1 DEF EncFlush, FinishFlush, PutOnWire
    <3> QED
      BY <3>1, <1>0, <1>1 DEF DecoderInv, Read, Width, cliVars
  <2>2. CASE FinishResponse \/ FinishBroken
    <3>1. conn # "eof" /\ UNCHANGED <<job, cliVars, wire>>
      BY <2>2, <1>1 DEF FinishResponse, FinishBroken, ServerInv
    <3> QED
      BY <3>1, <1>0, <1>1 DEF DecoderInv, Read, Width, cliVars
  <2>3. CASE EncStart \/ EncStartPanic \/ EncError \/ EncErrorPanic \/ EncCsvHeader
    BY <2>3, <1>2 DEF EncStart, EncStartPanic, EncError, EncErrorPanic, EncCsvHeader, netVars, cliVars
  <2>4. CASE EncFlushed \/ EncFlushError \/ EncRecv \/ EncRecvClosed \/ EncWrite
    BY <2>4, <1>2 DEF EncFlushed, EncFlushError, EncRecv, EncRecvClosed, EncWrite, netVars, cliVars
  <2>5. CASE EncContextDone \/ EncDrain \/ EncDrained
    BY <2>5, <1>2 DEF EncContextDone, EncDrain, EncDrained, netVars, cliVars
  <2> QED
    BY <1>4, <2>1, <2>2, <2>3, <2>4, <2>5 DEF Encoder
<1>5. CASE Decoder
  <2>1. CASE SkipBlank
    <3>1. /\ UNCHANGED <<job, width, cli, callResult, conn, status>> /\ cli \in {"csvHeader", "read"}
          /\ Read' = Read
      BY <2>1, ReadGrows, ReadLineMoves DEF SkipBlank
    <3> QED
      BY <3>1, <1>1 DEF DecoderInv, IsSuccess, Width
  <2>2. CASE DecHeader
    <3>1. /\ cli = "csvHeader" /\ UNCHANGED <<conn, status>>
          /\ \/ cli' = "check" /\ callResult' = callResult /\ width' # 0
             \/ cli' = "closeRows" /\ callResult' = "error"
          /\ width' = Width(Head(wire)) /\ Read' = Append(Read, Head(wire)) /\ Read = <<>>
      BY <2>2, ReadGrows, ReadLineMoves DEF DecHeader, FinishDecode, IInv, DeliveryInv
    <3>2. Len(Read') = 1 /\ Read'[1] = Head(wire)
      BY <3>1
    <3> QED
      BY <3>1, <3>2, <1>1 DEF DecoderInv, IsSuccess, Width
  <2>3. CASE DecRead
    <3>1. /\ cli = "read" /\ UNCHANGED <<conn, status, width>>
          /\ Read \in Seq(Lines) /\ Head(wire) \in Lines
          /\ Read' = Append(Read, Head(wire))
      BY <2>3, ReadGrows, ReadLineMoves DEF DecRead
    <3>2. /\ Len(Read) \in Nat
          /\ Len(Read') = Len(Read) + 1 /\ Read'[Len(Read) + 1] = Head(wire)
          /\ \A i \in 1 .. Len(Read) : Read'[i] = Read[i]
      BY <3>1, AppendProperties
    <3>3. callResult = "none" /\ width # 0 /\ \A i \in 1 .. Len(Read) : Width(Read[i]) = width
      BY <3>1, <1>1 DEF DecoderInv, TypeOK
    <3>4. CASE Width(Head(wire)) = width
      <4>1. ASSUME NEW i \in 1 .. Len(Read') PROVE Width(Read'[i]) = width
        <5>1. i \in 1 .. Len(Read) \/ i = Len(Read) + 1
          BY <3>2
        <5> QED
          BY <5>1, <3>2, <3>3, <3>4
      <4>2. cli' = "send" /\ callResult' = callResult
        BY <2>3, <3>4 DEF DecRead
      <4> QED
        BY <3>1, <3>3, <4>1, <4>2, <1>1 DEF DecoderInv, IsSuccess, Width
    <3>5. CASE Width(Head(wire)) # width
      BY <2>3, <3>1, <3>5, <1>1 DEF DecRead, FinishDecode, DecoderInv
    <3> QED
      BY <3>4, <3>5
  <2>4. CASE DecReadEnds
    <3>1. /\ UNCHANGED <<job, nread, width, wire, conn, status>> /\ cli = "read"
          /\ cli' = "closeRows" /\ callResult' # "none"
          /\ callResult' = "nil" => ReadEOF
      BY <2>4 DEF DecReadEnds, FinishDecode, netVars
    <3> QED
      BY <3>1, <1>1 DEF DecoderInv, IsSuccess, Read, Width, ReadEOF
  <2>5. CASE DecHeaderFails \/ DecCheck \/ DecSend
    <3>1. /\ UNCHANGED <<job, nread, width, wire, conn, status>> /\ cli \in {"csvHeader", "check", "send"}
          /\ cli' \in {"check", "read", "closeRows"} /\ (cli = "csvHeader" => cli' = "closeRows")
          /\ \/ callResult' = callResult
             \/ cli' = "closeRows" /\ callResult' = "error"
      BY <2>5 DEF DecHeaderFails, DecCheck, DecSend, FinishDecode, netVars
    <3> QED
      BY <3>1, <1>1 DEF DecoderInv, IsSuccess, Read, Width, TypeOK
  <2>6. CASE Respond \/ DoFails
    <3>1. /\ UNCHANGED <<job, nread, width, wire, conn, status>> /\ cli = "await"
          /\ \/ cli' = "csvHeader" /\ IsSuccess(status) /\ callResult' = callResult
             \/ cli' = "decodeError" /\ callResult' = callResult
             \/ cli' = "returned" /\ callResult' = "error"
      BY <2>6 DEF Respond, DoFails, netVars
    <3> QED
      BY <3>1, <1>1 DEF DecoderInv, IsSuccess, Read, Width
  <2>7. CASE DecError
    <3>1. /\ cli = "decodeError" /\ callResult = "none"
          /\ \/ cli' = cli /\ callResult' = callResult
             \/ cli' = "closeBody" /\ callResult' = "error"
      BY <2>7, <1>1 DEF DecError, DecoderInv, TypeOK
    <3> QED
      BY <3>1 DEF DecoderInv
  <2>8. CASE DecCloseRows \/ CloseBody
    <3>1. /\ UNCHANGED <<job, nread, width, wire, status, callResult>>
          /\ cli' \in {"closeBody", "returned"} /\ (conn = "eof" => conn' = conn)
      BY <2>8 DEF DecCloseRows, CloseBody, netVars
    <3> QED
      BY <3>1, <1>1 DEF DecoderInv, IsSuccess, Read, Width
  <2> QED
    BY <1>5, <2>1, <2>2, <2>3, <2>4, <2>5, <2>6, <2>7, <2>8 DEF Decoder
<1>6. CASE Consumer
  BY <1>2, <1>6 DEF Consumer, ConsumerRecv, ConsumerNext, ConsumerDone, netVars
<1>7. CASE ServerNotices \/ Environment
  BY <1>2, <1>7 DEF ServerNotices, Environment, ConsumerStops, ClientCancels, NetworkBreaks,
     ServerShutdown, Break, netVars, cliVars
<1> QED
  BY <1>3, <1>4, <1>5, <1>6, <1>7 DEF Next

\* The consumer is given the records in the order in which they are read, each once.
LEMMA DeliveryKept ==
  ASSUME IInv, Next
  PROVE  DeliveryInv'
<1>1. DeliveryInv /\ DecoderInv /\ TypeOK
  BY DEF IInv
<1>2. /\ got \in Seq(Lines) /\ cliCh \in Seq(Lines) /\ rec \in Lines
      /\ Delivered \in Seq(Lines) /\ Len(Delivered) \in Nat
      /\ Read \in Seq(Lines) /\ Len(Read) \in Nat
  BY <1>1, ReadTyped DEF TypeOK, Delivered
<1>3. ASSUME UNCHANGED <<job, nread, cli, callResult, got, cliCh, rec>>
      PROVE  DeliveryInv'
  BY <1>1, <1>3 DEF DeliveryInv, Delivered, Read, Parsed, Line
<1>4. CASE Producer \/ Encoder
  <2>1. UNCHANGED <<job, cliVars>>
    BY <1>4 DEF Producer, ProducerSend, ProducerClose, Encoder, EncStart, EncStartPanic, EncError, EncErrorPanic,
       EncCsvHeader, EncFlush, EncFlushed, EncFlushError, EncRecv, EncRecvClosed, EncWrite,
       EncContextDone, EncDrain, EncDrained, FinishFlush, FinishResponse, FinishBroken
  <2> QED
    BY <1>3, <2>1 DEF cliVars
<1>5. CASE ServerNotices \/ Environment
  BY <1>3, <1>5 DEF ServerNotices, Environment, ConsumerStops, ClientCancels, NetworkBreaks,
     ServerShutdown, cliVars
<1>6. CASE Consumer
  <2>1. CASE ConsumerRecv
    <3>1. /\ cliCh # <<>> /\ UNCHANGED <<job, nread, cli, callResult, rec>>
          /\ got' = Append(got, Head(cliCh)) /\ cliCh' = Tail(cliCh)
      BY <2>1 DEF ConsumerRecv
    <3>2. Delivered' = Delivered
      BY <3>1, <1>2, MoveHead DEF Delivered
    <3>3. cli \notin {"await", "csvHeader", "decodeError"} /\ Read' = Read
      BY <3>1, <1>1 DEF DeliveryInv, Read
    <3> QED
      BY <3>1, <3>2, <3>3, <1>1 DEF DeliveryInv
  <2>2. CASE ConsumerNext \/ ConsumerDone
    BY <2>2, <1>3 DEF ConsumerNext, ConsumerDone
  <2> QED
    BY <1>6, <2>1, <2>2 DEF Consumer
<1>7. CASE Decoder
  \* The lines read grow, what has been delivered stays.
  <2>1. ASSUME ReadLine, UNCHANGED <<job, got, cliCh>>
        PROVE  /\ Delivered' = Delivered /\ Read' \in Seq(Lines) /\ Len(Read') \in Nat
               /\ \A i \in 1 .. Len(Delivered') :
                    i + 1 <= Len(Read') /\ Delivered'[i] = Parsed(Read'[i + 1])
    <3>1. Delivered' = Delivered /\ Read' \in Seq(Lines)
      BY <2>1, ReadGrows DEF Delivered
    <3>2. Len(Read) <= Len(Read') /\ \A i \in 1 .. Len(Read) : Read'[i] = Read[i]
      <4>1. CASE Head(wire).kind = "blank"
        BY <2>1, <4>1, <1>2, ReadGrows
      <4>2. CASE Head(wire).kind # "blank"
        <5>1. Read' = Append(Read, Head(wire)) /\ Head(wire) \in Lines
          BY <2>1, <4>2, ReadGrows, ReadLineMoves
        <5> QED
          BY <5>1, <1>2, AppendProperties
      <4> QED
        BY <4>1, <4>2
    <3>3. ASSUME NEW i \in 1 .. Len(Delivered)
          PROVE  i + 1 <= Len(Read') /\ Delivered[i] = Parsed(Read'[i + 1])
      <4>1. i + 1 <= Len(Read) /\ Delivered[i] = Parsed(Read[i + 1])
        BY <1>1 DEF DeliveryInv
      <4>2. i + 1 \in 1 .. Len(Read) /\ Len(Read') \in Nat
        BY <4>1, <1>2, <3>1
      <4> QED
        BY <4>1, <4>2, <3>2, <1>2
    <3> QED
      BY <3>1, <3>3
  <2>2. CASE SkipBlank
    <3>1. /\ Read' = Read /\ Delivered' = Delivered /\ cli \in {"csvHeader", "read"}
          /\ UNCHANGED <<cli, callResult, got, cliCh>>
      BY <2>1, <2>2, ReadGrows DEF SkipBlank
    <3> QED
      BY <3>1, <1>1 DEF DeliveryInv
  <2>3. CASE DecHeader
    <3>1. /\ Read' = Append(Read, Head(wire)) /\ Read = <<>>
          /\ cli = "csvHeader" /\ cli' \in {"check", "closeRows"} /\ UNCHANGED <<got, cliCh>>
          /\ callResult' = callResult \/ callResult' = "error"
      BY <2>3, <1>1, ReadGrows DEF DecHeader, FinishDecode, DeliveryInv
    <3>2. Len(Read') = 1 /\ Len(Delivered') = 0
      BY <3>1, <1>1 DEF DeliveryInv, Delivered
    <3>3. callResult' # "nil"
      BY <3>1, <1>1 DEF DecoderInv
    <3> QED
      BY <3>1, <3>2, <3>3 DEF DeliveryInv
  <2>4. CASE DecRead
    <3>1. /\ Read' = Append(Read, Head(wire)) /\ Head(wire) \in Lines
          /\ cli = "read" /\ UNCHANGED <<got, cliCh>>
          /\ \/ cli' = "send" /\ rec' = Parsed(Head(wire)) /\ callResult' = callResult
             \/ cli' = "closeRows" /\ callResult' = "error"
      BY <2>4, ReadGrows, ReadLineMoves DEF DecRead, FinishDecode
    <3>2. Len(Read') = Len(Read) + 1 /\ Read'[Len(Read')] = Head(wire)
      BY <3>1, <1>2, AppendProperties
    <3>3. Len(Read) = Len(Delivered) + 1 /\ callResult # "nil" /\ Delivered' = Delivered
      BY <3>1, <1>1 DEF DeliveryInv, DecoderInv, Delivered
    <3>4. Len(Read') = Len(Delivered') + 2
      BY <3>2, <3>3, <1>2
    <3>5. \A i \in 1 .. Len(Delivered') :
            i + 1 <= Len(Read') /\ Delivered'[i] = Parsed(Read'[i + 1])
      BY <2>1, <2>4 DEF DecRead
    <3> QED
      BY <3>1, <3>2, <3>3, <3>4, <3>5 DEF DeliveryInv, Parsed, Line
  <2>5. CASE DecSend
    <3>1. /\ cliCh' = Append(cliCh, rec) /\ cli = "send" /\ cli' = "check"
          /\ UNCHANGED <<job, nread, callResult, got>>
      BY <2>5 DEF DecSend
    <3>2. Delivered' = Append(Delivered, rec) /\ Read' = Read
      BY <3>1, <1>2, AppendLater DEF Delivered, Read
    <3>3. /\ Len(Delivered') = Len(Delivered) + 1 /\ Delivered'[Len(Delivered) + 1] = rec
          /\ \A i \in 1 .. Len(Delivered) : Delivered'[i] = Delivered[i]
      BY <3>2, <1>2, AppendProperties
    <3>4. Len(Read) = Len(Delivered) + 2 /\ rec = Parsed(Read[Len(Read)]) /\ callResult # "nil"
      BY <3>1, <1>1 DEF DeliveryInv, DecoderInv
    <3>5. ASSUME NEW i \in 1 .. Len(Delivered')
          PROVE  i + 1 <= Len(Read') /\ Delivered'[i] = Parsed(Read'[i + 1])
      <4>1. i \in 1 .. Len(Delivered) \/ (i = Len(Delivered) + 1 /\ i + 1 = Len(Read))
        BY <3>3, <3>4, <1>2
      <4> QED
        BY <4>1, <3>2, <3>3, <3>4, <1>1, <1>2 DEF DeliveryInv
    <3>6. Len(Read') = Len(Delivered') + 1
      BY <3>2, <3>3, <3>4, <1>2
    <3> QED
      BY <3>1, <3>4, <3>5, <3>6 DEF DeliveryInv
  <2>6. CASE DecError
    <3>1. /\ cli = "decodeError" /\ cli' \in {"decodeError", "closeBody"} /\ got = <<>> /\ cliCh = <<>>
          /\ got' = <<>> /\ cliCh' = <<>> /\ callResult' # "nil"
      BY <2>6, <1>1 DEF DecError, DeliveryInv, DecoderInv
    <3>2. Len(Delivered') = 0
      BY <3>1 DEF Delivered
    <3> QED
      BY <3>1, <3>2 DEF DeliveryInv
  <2>7. CASE Respond
    <3>1. /\ UNCHANGED <<job, nread, got, cliCh, callResult>> /\ cli = "await"
          /\ cli' \in {"csvHeader", "decodeError"} /\ nread = 0 /\ job \in Jobs
      BY <2>7, <1>1 DEF Respond, DeliveryInv, TypeOK
    <3>2. Read = <<>> /\ Read' = Read
      BY <3>1, RecordsDefined DEF Read
    <3>3. Delivered' = Delivered /\ callResult' # "nil" /\ got = <<>> /\ cliCh = <<>>
      BY <3>1, <1>1 DEF Delivered, DeliveryInv, DecoderInv
    <3> QED
      BY <3>1, <3>2, <3>3, <1>1 DEF DeliveryInv
  <2>8. CASE DoFails \/ DecHeaderFails \/ DecCheck \/ DecReadEnds \/ DecCloseRows \/ CloseBody
    <3>1. /\ UNCHANGED <<job, nread, got, cliCh>>
          /\ cli' \in {"read", "closeRows", "closeBody", "returned"}
          /\ cli' = "read" => cli = "check"
          /\ callResult' = "nil" => callResult = "nil" \/ cli = "read"
      BY <2>8 DEF DoFails, DecHeaderFails, DecCheck, DecReadEnds, DecCloseRows, CloseBody,
         FinishDecode
    <3>2. Delivered' = Delivered /\ Read' = Read
      BY <3>1 DEF Delivered, Read
    <3> QED
      BY <3>1, <3>2, <1>1 DEF DeliveryInv
  <2> QED
    BY <1>7, <2>2, <2>3, <2>4, <2>5, <2>6, <2>7, <2>8 DEF Decoder
<1> QED
  BY <1>4, <1>5, <1>6, <1>7 DEF Next

-----------------------------------------------------------------------------
(* The invariant and the properties that follow *)

\* The initial states satisfy the invariant.
LEMMA Initially ==
  ASSUME Init
  PROVE  IInv
<1>1. /\ job \in Jobs /\ Len(job.rows) \in Nat
      /\ HeaderLine \in Lines /\ NoRow \in Lines
  BY JobTyped DEF Init, HeaderLine, NoRow, Line, Lines, Kinds
<1>2. Read = <<>>
  BY <1>1, RecordsDefined DEF Init, Read
<1>3. TypeOK
  <2>1. /\ srvCh \in Seq(Lines) /\ pending \in Seq(Lines) /\ cliCh \in Seq(Lines)
        /\ got \in Seq(Lines) /\ wire \in Seq(Lines) /\ Len(wire) = 0
    BY DEF Init
  <2>2. sent \in 0 .. Len(job.rows) /\ nread \in 0 .. BodyLimit /\ Len(wire) <= WireCap
    BY <1>1, <2>1, BoundsAssumption DEF Init
  <2>3. cur \in Lines /\ rec \in Lines /\ width \in 0 .. 2
    BY <1>1 DEF Init
  <2>4. enc = "start" /\ encResult = "none" /\ status = 0 /\ conn = "open"
    BY DEF Init
  <2>5. cli = "await" /\ callResult = "none" /\ con = "recv"
    BY DEF Init
  <2>6. srvClosed = FALSE /\ srvDone = FALSE /\ cliDone = FALSE /\ cliClosed = FALSE
    BY DEF Init
  <2> QED
    BY <1>1, <2>1, <2>2, <2>3, <2>4, <2>5, <2>6 DEF TypeOK
<1>4. ServerInv /\ ChannelInv /\ WireInv
  BY <1>1 DEF Init, ServerInv, ChannelInv, WireInv
<1>5. PendingInv
  <2>1. Sent = 0 /\ Len(pending) = 0
    BY DEF Init, Sent
  <2> QED
    BY <1>1, <2>1 DEF Init, PendingInv
<1>6. DeliveryInv /\ DecoderInv /\ SuccessInv
  <2>1. Len(Delivered) = 0
    BY DEF Init, Delivered
  <2> QED
    BY <1>2, <2>1 DEF Init, DeliveryInv, DecoderInv, SuccessInv, IsSuccess
<1> QED
  BY <1>3, <1>4, <1>5, <1>6 DEF IInv

\* A stuttering step keeps it.
LEMMA Stuttering ==
  ASSUME IInv, UNCHANGED vars
  PROVE  IInv'
<1> USE DEF IInv, vars, srvVars, cliVars, netVars, ctxVars
<1>1. TypeOK'
  BY DEF TypeOK
<1>0. StatusLine' = StatusLine /\ BodyAllowed' = BodyAllowed
  BY DEF StatusLine, BodyAllowed
<1>2. ServerInv' /\ ChannelInv' /\ WireInv'
  BY <1>0 DEF ServerInv, ChannelInv, WireInv, Row
<1>3. PendingInv'
  BY <1>0 DEF PendingInv, Sent, Broken
<1>4. DeliveryInv' /\ DecoderInv' /\ SuccessInv'
  BY DEF DeliveryInv, DecoderInv, SuccessInv, IsSuccess, Delivered, Read, Width
<1> QED
  BY <1>1, <1>2, <1>3, <1>4

\* IInv holds in every state: from the producer through the channel, the encoder,
\* the ResponseWriter, the connection and the decoder the lines keep their order
\* (csv.go:20-119).
THEOREM Invariance == Safety => []IInv
<1>1. Init => IInv
  BY Initially
<1>2. IInv /\ [Next]_vars => IInv'
  <2> SUFFICES ASSUME IInv, [Next]_vars PROVE IInv'
    OBVIOUS
  <2>1. CASE Next
    BY <2>1, TypeKept, ServerKept, ChannelKept, WireKept, PendingKept, DeliveryKept, DecoderKept,
       SuccessKept
       DEF IInv
  <2>2. CASE UNCHANGED vars
    BY <2>2, Stuttering
  <2> QED
    BY <2>1, <2>2
<1> QED
  BY <1>1, <1>2, PTL DEF Safety

\* The variables have their types, whatever the calls are.
THEOREM TypeCorrect == Safety => []TypeOK
<1>1. IInv => TypeOK
  BY DEF IInv
<1> QED
  BY <1>1, Invariance, PTL

\* When the handler is over, its producer has sent all rows and closed the channel
\* (csv.go:31-35).
THEOREM ProducerDone == Safety => []ProducerOutlived
<1>1. IInv => ProducerOutlived
  BY DEF IInv, ServerInv, ProducerOutlived
<1> QED
  BY <1>1, Invariance, PTL

\* The records of a part of what is sent are the first records of all of it.
LEMMA RecordsSoFar ==
  ASSUME IInv
  PROVE  /\ Records \in Seq(Lines)
         /\ Len(Read) <= Len(Records)
         /\ \A i \in 1 .. Len(Read) : Records[i] = Read[i]
         /\ Len(Delivered) # 0 => Len(Records) >= 1
         /\ RowsOfBody = [i \in 1 .. Len(Records) - 1 |-> Parsed(Records[i + 1])]
<1>1. /\ job \in Jobs /\ Len(job.rows) + 1 \in Nat /\ nread \in 0 .. Len(job.rows) + 1
  BY JobTyped, BoundsAssumption DEF IInv, TypeOK, WireInv
<1>2. Len(job.rows) + 1 \in nread .. Len(job.rows) + 1 /\ Len(job.rows) + 1 \in 0 .. Len(job.rows) + 1
  BY <1>1
<1>3. Records \in Seq(Lines)
  BY <1>1, <1>2, RecordsDefined DEF Records
<1>4. Len(Read) <= Len(Records) /\ \A i \in 1 .. Len(Read) : Records[i] = Read[i]
  BY <1>1, <1>2, RecordsGrow DEF Records, Read
<1>5. Len(Delivered) # 0 => Len(Records) >= 1
  <2>1. Delivered \in Seq(Lines) /\ Read \in Seq(Lines)
    BY ReadTyped DEF Delivered, IInv, TypeOK
  <2>2. Len(Delivered) # 0 => 1 + 1 <= Len(Read)
    BY <2>1 DEF IInv, DeliveryInv
  <2> QED
    BY <1>3, <1>4, <2>1, <2>2
<1> QED
  BY <1>3, <1>4, <1>5 DEF RowsOfBody

\* The invariant implies that the delivered records are the first of those that were sent.
LEMMA InOrder ==
  ASSUME IInv
  PROVE  /\ Delivered \in Seq(Lines) /\ RowsOfBody \in Seq(Lines)
         /\ Len(Delivered) <= Len(RowsOfBody)
         /\ \A i \in 1 .. Len(Delivered) : Delivered[i] = RowsOfBody[i]
<1>1. Delivered \in Seq(Lines) /\ Read \in Seq(Lines)
  BY ReadTyped DEF Delivered, IInv, TypeOK
<1>2. \A i \in 1 .. Len(Delivered) : i + 1 <= Len(Read) /\ Delivered[i] = Parsed(Read[i + 1])
  BY DEF IInv, DeliveryInv
<1>3. RowsOfBody \in Seq(Lines) /\ (Len(Records) >= 1 => Len(RowsOfBody) = Len(Records) - 1)
  <2>1. \A l \in Lines : Parsed(l) \in Lines
    BY DEF Parsed, Line, Lines, Kinds
  <2>2. \A i \in 1 .. Len(Records) - 1 : i + 1 \in 1 .. Len(Records) /\ Records[i + 1] \in Lines
    BY RecordsSoFar
  <2>3. CASE Len(Records) = 0
    <3>1. 1 .. Len(Records) - 1 = {}
      BY <2>3
    <3>2. RowsOfBody = <<>>
      BY <3>1, RecordsSoFar
    <3> QED
      BY <3>2, <2>3
  <2>4. CASE Len(Records) # 0
    <3>1. Len(Records) - 1 \in Nat /\ Len(Records) \in Nat
      BY <2>4, RecordsSoFar
    <3>2. RowsOfBody \in [1 .. Len(Records) - 1 -> Lines]
      BY <2>1, <2>2, RecordsSoFar
    <3> QED
      BY <3>1, <3>2
  <2> QED
    BY <2>3, <2>4
<1>4. ASSUME NEW i \in 1 .. Len(Delivered)
      PROVE  i <= Len(Records) - 1 /\ Delivered[i] = RowsOfBody[i]
  <2>1. i + 1 \in 1 .. Len(Read) /\ i + 1 <= Len(Records) /\ i \in 1 .. Len(Records) - 1
    BY <1>1, <1>2, RecordsSoFar
  <2> QED
    BY <2>1, <1>2, RecordsSoFar
<1>5. Len(Delivered) <= Len(RowsOfBody)
  <2>1. CASE Len(Delivered) = 0
    BY <2>1, <1>3
  <2>2. CASE Len(Delivered) # 0
    <3>1. Len(Delivered) \in 1 .. Len(Delivered)
      BY <1>1, <2>2
    <3> QED
      BY <3>1, <1>3, <1>4, <2>2, RecordsSoFar
  <2> QED
    BY <2>1, <2>2
<1> QED
  BY <1>1, <1>3, <1>4, <1>5

\* A client that has read a line of an error's text under a success was told nothing
\* that would set it apart from a file.
LEMMA ErrorTextRead ==
  ASSUME IInv, job.failed, IsSuccess(status), Len(Read) # 0
  PROVE  PassesForFile
<1>1. status = StatusLine
  BY DEF IInv, ServerInv, IsSuccess
<1>2. nread # 0
  <2>1. job \in Jobs
    BY DEF IInv, TypeOK
  <2>2. RecordsAmong(job)[0] = <<>>
    BY <2>1, RecordsDefined
  <2> QED
    BY <2>2 DEF Read
<1>3. BodyAllowed
  BY <1>2 DEF IInv, WireInv
<1> QED
  BY <1>1, <1>3 DEF PassesForFile

\* What the consumer has been given are the first rows that were sent, in order, and
\* those of an error's text only if its code makes it pass for a file (csv.go:62-129).
THEOREM RowsInOrder == Safety => []DeliveredIsPrefix
<1>1. ASSUME IInv PROVE IsPrefix(Delivered, RowsOfBody)
  <2>1. SubSeq(Delivered, 1, Len(Delivered)) = SubSeq(RowsOfBody, 1, Len(Delivered))
    BY <1>1, InOrder
  <2> QED
    BY <1>1, <2>1, InOrder DEF IsPrefix
<1>2. ASSUME IInv, job.failed, Delivered # <<>> PROVE PassesForFile
  <2>1. got \in Seq(Lines) /\ cliCh \in Seq(Lines) /\ Read \in Seq(Lines)
    BY <1>2, ReadTyped DEF IInv, TypeOK
  <2>2. got # <<>> \/ cliCh # <<>>
    BY <1>2, <2>1 DEF Delivered
  <2>3. IsSuccess(status)
    BY <1>2, <2>2 DEF IInv, SuccessInv
  <2>4. Len(Delivered) \in Nat /\ Len(Delivered) # 0
    BY <1>2, <2>1 DEF Delivered
  <2>5. 1 + 1 <= Len(Read)
    BY <1>2, <2>4 DEF IInv, DeliveryInv
  <2> QED
    BY <1>2, <2>1, <2>3, <2>5, ErrorTextRead
<1>3. IInv => DeliveredIsPrefix
  BY <1>1, <1>2 DEF DeliveredIsPrefix
<1> QED
  BY <1>3, Invariance, PTL

\* A call that returned nil had a file, or an error that passes for one; if the encoder
\* did not fail every row was delivered, and all had the width of the header
\* (csv.go:106-129).
THEOREM AllRowsOnNil == Safety => []CompleteOnNil
<1>1. ASSUME IInv, callResult = "nil", job.failed PROVE PassesForFile
  <2>1. IsSuccess(status) /\ Len(Read) = Len(Delivered) + 1
    BY <1>1 DEF IInv, DecoderInv, DeliveryInv
  <2>2. Len(Delivered) \in Nat
    BY <1>1, InOrder
  <2> QED
    BY <1>1, <2>1, <2>2, ErrorTextRead
<1>2. ASSUME IInv, callResult = "nil", encResult = "nil"
      PROVE  /\ Delivered = RowsOfBody
             /\ \A i \in 1 .. Len(Records) :
                  Width(Records[i]) = Width(Records[1]) /\ Width(Records[i]) # 0
  <2>1. conn = "eof" /\ wire = <<>> /\ enc = "done" /\ pending = <<>> /\ ~Broken
    BY <1>2 DEF IInv, DecoderInv, ServerInv, Broken
  <2>2. job.failed => BodyAllowed
    BY <1>1, <1>2 DEF PassesForFile
  <2>3. nread = Len(job.rows) + 1
    <3>1. Sent = Len(job.rows) + 1 /\ Len(wire) = 0 /\ Len(pending) = 0 /\ nread \in Nat
      BY <1>2, <2>1, <2>2, BoundsAssumption DEF IInv, PendingInv, TypeOK
    <3> QED
      BY <3>1 DEF Sent
  <2>4. Read = Records
    BY <2>3 DEF Read, Records
  <2>5. /\ Len(Read) = Len(Delivered) + 1
        /\ width # 0 /\ \A i \in 1 .. Len(Read) : Width(Read[i]) = width
    BY <1>2 DEF IInv, DeliveryInv, DecoderInv
  <2>6. ASSUME NEW i \in 1 .. Len(Records)
        PROVE  Width(Records[i]) = Width(Records[1]) /\ Width(Records[i]) # 0
    <3>1. 1 \in 1 .. Len(Records)
      BY <1>2, RecordsSoFar
    <3> QED
      BY <3>1, <2>4, <2>5
  <2>7. Len(RowsOfBody) = Len(Delivered)
    <3>1. Len(Records) - 1 \in Nat /\ Len(Records) - 1 = Len(Delivered)
      BY <1>2, <2>4, <2>5, InOrder
    <3> QED
      BY <1>2, <3>1, RecordsSoFar
  <2> QED
    BY <1>2, <2>6, <2>7, InOrder
<1>3. IInv => CompleteOnNil
  BY <1>1, <1>2 DEF CompleteOnNil
<1> QED
  BY <1>3, Invariance, PTL

==============================================================================
