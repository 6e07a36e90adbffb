----------------------------- MODULE MCCsvStream -----------------------------
\* CsvStream for TLC: the calls that the runs share.
EXTENDS CsvStream

Job(rows, header, code) ==
  [failed |-> FALSE, code |-> code, header |-> header, rows |-> rows, interactive |-> FALSE,
   flusher |-> TRUE, srvCap |-> 1, cliCap |-> 0]

\* An error with a code and a text of one or more lines.
Failure(text, code) == [Job(Tail(text), Head(text), code) EXCEPT !.failed = TRUE]

SeqsUpTo(S, n) == UNION {[1 .. m -> S] : m \in 0 .. n}

Written == Kinds \ {"quote"}

Capped(j, srvCap, cliCap) == [j EXCEPT !.srvCap = srvCap, !.cliCap = cliCap]

\* A file long enough to fill every buffer, and an error of two lines, with every sort
\* of code: a success, informational, without a body, an error, no status at all.
Codes == {200, 103, 204, 304, 404, 0}

LongJobs ==
  {Job(<<"plain", "plain", "plain">>, "plain", code) : code \in Codes}
  \cup {Failure(<<"plain", "plain">>, code) : code \in Codes}

\* Errors that a client may take for a file: each text of up to two lines, and longer ones.
PassingErrors ==
  {Failure(text, 202) : text \in SeqsUpTo(Kinds, 2) \ {<<>>}}
  \cup {Failure(<<"short", "blank", "short">>, 103),
        Failure(<<"plain", "plain", "plain", "quote">>, 299),
        Failure(<<"plain", "plain", "plain", "plain", "plain">>, 200)}

\* A producer that waits for each row to be consumed.
InteractiveJobs ==
  {[Job(<<"plain", "cr">>, "plain", 200) EXCEPT !.interactive = TRUE, !.flusher = f,
                                                !.srvCap = c, !.cliCap = 1 - c] :
     f \in BOOLEAN, c \in {0, 1}}

\* Every file of up to two rows, some with an empty first line and no flusher, and
\* longer ones with every capacity.
AllJobs ==
  {Job(rows, "plain", 200) : rows \in SeqsUpTo(Written, 2)}
  \cup {[Job(rows, "blank", 200) EXCEPT !.flusher = FALSE] : rows \in SeqsUpTo(Written, 1)}
  \cup {Capped(Job(<<"short", "short", "plain">>, "blank", 200), 0, 1),
        Job(<<"plain", "short", "plain", "plain">>, "plain", 200),
        Job(<<"plain", "cr", "plain", "plain">>, "plain", 200)}
  \cup {Capped(j, 0, 1) : j \in LongJobs} \cup PassingErrors \cup InteractiveJobs

\* For the runs that end in a violation.
NotFoundJobs == {Failure(<<"plain">>, 404)}

PlainJobs == {Capped(Job(<<"plain", "plain">>, "plain", 200), 1, 1)}
==============================================================================
