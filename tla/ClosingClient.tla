--------------------------- MODULE ClosingClient ---------------------------
(***************************************************************************)
(* closingclient/closing_client.go: an HttpClient that can be closed while *)
(* calls are in flight.  Every Do and every Close is a goroutine of its    *)
(* own; they share the mutex mu, the flag closing, the map of cancel       *)
(* functions and the wait group.  One action stands for one step another   *)
(* goroutine could come between: state that mu protects changes only       *)
(* under mu, wg and the contexts do not.                                   *)
(*                                                                         *)
(* The wrapped client (impl) and the caller, who reads and closes response *)
(* bodies and may cancel its own context, are the environment.             *)
(***************************************************************************)
EXTENDS Naturals, FiniteSets

CONSTANTS
  Calls,    \* invocations of Do
  Closers,  \* invocations of Close
  KeyMod,   \* number of values of lastCancelKey, 2^64 in the code
  None      \* no goroutine, no call

ASSUME CallsAssumption == IsFiniteSet(Calls)

ASSUME NamesAssumption ==
  Calls \cap Closers = {} /\ None \notin Calls \cup Closers

\* A process makes fewer than 2^64 calls: the key never wraps onto a live one.
ASSUME KeyModAssumption == KeyMod \in Nat /\ Cardinality(Calls) < KeyMod

Keys == 0 .. KeyMod - 1

VARIABLES
  pc,             \* where each Do is
  cpc,            \* where each Close is
  mu,             \* the goroutine that holds the mutex, or None
  closing,
  cancels,        \* cancels[k]: the call whose cancel is under key k, or None
  cancelsNil,     \* the map is nil: an assignment to it panics
  lastCancelKey,
  key,            \* the local variable key of each Do
  wg,             \* counter of the wait group
  cancelled,      \* the calls whose context is done
  toCancel,       \* keys that the range loop of Close has still to visit
  body,           \* response body handed to the caller of each Do
  implClosed      \* impl.Close() was called

vars == <<pc, cpc, mu, closing, cancels, cancelsNil, lastCancelKey, key, wg,
          cancelled, toCancel, body, implClosed>>

\* Between wg.Add(1) and wg.Done().
InsideStates == {"added", "impl", "unregister", "done"}
Inside == {c \in Calls : pc[c] \in InsideStates}

\* Between the assignment to c.cancels and the deferred delete.
Registered == {c \in Calls : pc[c] \in {"impl", "unregister"}}

TypeOK ==
  /\ pc \in [Calls -> InsideStates \cup
              {"idle", "lock", "check", "rejected", "returned", "panic"}]
  /\ cpc \in [Closers -> {"idle", "lock", "mark", "range", "idleConns",
                          "wait", "implClose", "returned"}]
  /\ mu \in Calls \cup Closers \cup {None}
  /\ closing \in BOOLEAN
  /\ cancels \in [Keys -> Calls \cup {None}]
  /\ cancelsNil \in BOOLEAN
  /\ lastCancelKey \in Keys
  /\ key \in [Calls -> Keys]
  /\ wg \in Nat
  /\ cancelled \in SUBSET Calls
  /\ toCancel \in SUBSET Keys
  /\ body \in [Calls -> {"none", "open", "closed"}]
  /\ implClosed \in BOOLEAN

Init ==
  /\ pc = [c \in Calls |-> "idle"]
  /\ cpc = [x \in Closers |-> "idle"]
  /\ mu = None
  /\ closing = FALSE
  /\ cancels = [k \in Keys |-> None]
  /\ cancelsNil = FALSE
  /\ lastCancelKey = 0
  /\ key = [c \in Calls |-> 0]
  /\ wg = 0
  /\ cancelled = {}
  /\ toCancel = {}
  /\ body = [c \in Calls |-> "none"]
  /\ implClosed = FALSE

----------------------------------------------------------------------------
(* Do *)

\* ctx, cancel := context.WithCancel(req.Context())
DoStart(c) ==
  /\ pc[c] = "idle"
  /\ pc' = [pc EXCEPT ![c] = "lock"]
  /\ UNCHANGED <<cpc, mu, closing, cancels, cancelsNil, lastCancelKey, key, wg,
                 cancelled, toCancel, body, implClosed>>

DoLock(c) ==
  /\ pc[c] = "lock"
  /\ mu = None
  /\ mu' = c
  /\ pc' = [pc EXCEPT ![c] = "check"]
  /\ UNCHANGED <<cpc, closing, cancels, cancelsNil, lastCancelKey, key, wg,
                 cancelled, toCancel, body, implClosed>>

\* Mutant: the deferred wg.Done() is registered before the check.
DoReject_Done(c) ==
  /\ pc[c] = "check" /\ closing
  /\ mu' = None
  /\ wg' = wg - 1
  /\ cancelled' = cancelled \cup {c}
  /\ pc' = [pc EXCEPT ![c] = "rejected"]
  /\ UNCHANGED <<cpc, closing, cancels, cancelsNil, lastCancelKey, key, toCancel, body,
                 implClosed>>

\* Mutant: the early return forgets to unlock.
DoReject_KeepsLock(c) ==
  /\ pc[c] = "check" /\ closing
  /\ cancelled' = cancelled \cup {c}
  /\ pc' = [pc EXCEPT ![c] = "rejected"]
  /\ UNCHANGED <<cpc, mu, closing, cancels, cancelsNil, lastCancelKey, key, wg, toCancel,
                 body, implClosed>>

DoReject(c) ==
  /\ pc[c] = "check"
  /\ closing
  /\ mu' = None
  /\ cancelled' = cancelled \cup {c}
  /\ pc' = [pc EXCEPT ![c] = "rejected"]
  /\ UNCHANGED <<cpc, closing, cancels, cancelsNil, lastCancelKey, key, wg,
                 toCancel, body, implClosed>>

\* Mutant: the lock is released between the check and the registration.
DoAdd_Unlocks(c) ==
  /\ pc[c] = "check" /\ ~closing
  /\ wg' = wg + 1
  /\ mu' = None
  /\ pc' = [pc EXCEPT ![c] = "added"]
  /\ UNCHANGED <<cpc, closing, cancels, cancelsNil, lastCancelKey, key, cancelled, toCancel,
                 body, implClosed>>

DoAdd(c) ==
  /\ pc[c] = "check"
  /\ ~closing
  /\ wg' = wg + 1
  /\ pc' = [pc EXCEPT ![c] = "added"]
  /\ UNCHANGED <<cpc, mu, closing, cancels, cancelsNil, lastCancelKey, key,
                 cancelled, toCancel, body, implClosed>>

\* Mutant: lastCancelKey is not incremented.
NextKey_Stuck(k) == k

NextKey(k) == IF k = KeyMod - 1 THEN 0 ELSE k + 1

\* Assigning to an entry of a nil map kills the goroutine, with mu held.
DoRegister(c) ==
  /\ pc[c] = "added"
  /\ key' = [key EXCEPT ![c] = lastCancelKey]
  /\ lastCancelKey' = NextKey(lastCancelKey)
  /\ IF cancelsNil
       THEN /\ pc' = [pc EXCEPT ![c] = "panic"]
            /\ UNCHANGED <<cancels, mu>>
       ELSE /\ cancels' = [cancels EXCEPT ![lastCancelKey] = c]
            /\ mu' = None
            /\ pc' = [pc EXCEPT ![c] = "impl"]
  /\ UNCHANGED <<cpc, closing, cancelsNil, wg, cancelled, toCancel, body,
                 implClosed>>

\* impl.Do returns a response, whose body the caller now owns, ...
ImplDoResponse(c) ==
  /\ pc[c] = "impl"
  /\ body' = [body EXCEPT ![c] = "open"]
  /\ pc' = [pc EXCEPT ![c] = "unregister"]
  /\ UNCHANGED <<cpc, mu, closing, cancels, cancelsNil, lastCancelKey, key, wg,
                 cancelled, toCancel, implClosed>>

\* ... or an error: of the network, or because the context is done.
ImplDoError(c) ==
  /\ pc[c] = "impl"
  /\ pc' = [pc EXCEPT ![c] = "unregister"]
  /\ UNCHANGED <<cpc, mu, closing, cancels, cancelsNil, lastCancelKey, key, wg,
                 cancelled, toCancel, body, implClosed>>

\* The deferred Lock, delete, Unlock; deleting from a nil map does nothing.
DoUnregister(c) ==
  /\ pc[c] = "unregister"
  /\ mu = None
  /\ cancels' = [cancels EXCEPT ![key[c]] = None]
  /\ pc' = [pc EXCEPT ![c] = "done"]
  /\ UNCHANGED <<cpc, mu, closing, cancelsNil, lastCancelKey, key, wg,
                 cancelled, toCancel, body, implClosed>>

\* The deferred wg.Done(), registered first and so run last.
DoDone(c) ==
  /\ pc[c] = "done"
  /\ wg' = wg - 1
  /\ pc' = [pc EXCEPT ![c] = "returned"]
  /\ UNCHANGED <<cpc, mu, closing, cancels, cancelsNil, lastCancelKey, key,
                 cancelled, toCancel, body, implClosed>>

----------------------------------------------------------------------------
(* Close *)

\* Close() is called.
CloseStart(x) ==
  /\ cpc[x] = "idle"
  /\ cpc' = [cpc EXCEPT ![x] = "lock"]
  /\ UNCHANGED <<pc, mu, closing, cancels, cancelsNil, lastCancelKey, key, wg,
                 cancelled, toCancel, body, implClosed>>

CloseLock(x) ==
  /\ cpc[x] = "lock"
  /\ mu = None
  /\ mu' = x
  /\ cpc' = [cpc EXCEPT ![x] = "mark"]
  /\ UNCHANGED <<pc, closing, cancels, cancelsNil, lastCancelKey, key, wg,
                 cancelled, toCancel, body, implClosed>>

\* Mutant: the flag is not set.
CloseMark_NoFlag(x) ==
  /\ cpc[x] = "mark" /\ ~closing
  /\ toCancel' = {k \in Keys : cancels[k] # None}
  /\ cpc' = [cpc EXCEPT ![x] = "range"]
  /\ UNCHANGED <<pc, mu, closing, cancels, cancelsNil, lastCancelKey, key, wg, cancelled,
                 body, implClosed>>

\* c.closing = true; the range loop starts.
CloseMark(x) ==
  /\ cpc[x] = "mark"
  /\ ~closing
  /\ closing' = TRUE
  /\ toCancel' = {k \in Keys : cancels[k] # None}
  /\ cpc' = [cpc EXCEPT ![x] = "range"]
  /\ UNCHANGED <<pc, mu, cancels, cancelsNil, lastCancelKey, key, wg,
                 cancelled, body, implClosed>>

\* Mutant: a second Close does not wait.
CloseAgain_Returns(x) ==
  /\ cpc[x] = "mark" /\ closing
  /\ mu' = None
  /\ cpc' = [cpc EXCEPT ![x] = "implClose"]
  /\ UNCHANGED <<pc, closing, cancels, cancelsNil, lastCancelKey, key, wg, cancelled,
                 toCancel, body, implClosed>>

\* A Close that is not the first unlocks at once.
CloseAgain(x) ==
  /\ cpc[x] = "mark"
  /\ closing
  /\ mu' = None
  /\ cpc' = [cpc EXCEPT ![x] = "idleConns"]
  /\ UNCHANGED <<pc, closing, cancels, cancelsNil, lastCancelKey, key, wg,
                 cancelled, toCancel, body, implClosed>>

\* Mutant: the loop ends after one iteration.
CloseCancel_Once(x) ==
  /\ cpc[x] = "range"
  /\ \E k \in toCancel : cancelled' = cancelled \cup {cancels[k]}
  /\ toCancel' = {}
  /\ UNCHANGED <<pc, cpc, mu, closing, cancels, cancelsNil, lastCancelKey, key, wg, body,
                 implClosed>>

\* Mutant: the functions are forgotten and not called.
CloseCancel_NotCalled(x) ==
  /\ cpc[x] = "range"
  /\ \E k \in toCancel : toCancel' = toCancel \ {k}
  /\ UNCHANGED <<pc, cpc, mu, closing, cancels, cancelsNil, lastCancelKey, key, wg,
                 cancelled, body, implClosed>>

\* One iteration, in the map's unspecified order: cancel().
CloseCancel(x) ==
  /\ cpc[x] = "range"
  /\ \E k \in toCancel :
       /\ cancelled' = cancelled \cup {cancels[k]}
       /\ toCancel' = toCancel \ {k}
  /\ UNCHANGED <<pc, cpc, mu, closing, cancels, cancelsNil, lastCancelKey, key,
                 wg, body, implClosed>>

\* c.cancels = nil and Unlock.
CloseUnlock(x) ==
  /\ cpc[x] = "range"
  /\ toCancel = {}
  /\ cancels' = [k \in Keys |-> None]
  /\ cancelsNil' = TRUE
  /\ mu' = None
  /\ cpc' = [cpc EXCEPT ![x] = "idleConns"]
  /\ UNCHANGED <<pc, closing, lastCancelKey, key, wg, cancelled, toCancel,
                 body, implClosed>>

CloseIdle(x) ==
  /\ cpc[x] = "idleConns"
  /\ cpc' = [cpc EXCEPT ![x] = "wait"]
  /\ UNCHANGED <<pc, mu, closing, cancels, cancelsNil, lastCancelKey, key, wg,
                 cancelled, toCancel, body, implClosed>>

\* Mutant: no Wait.
CloseWait_Skipped(x) ==
  /\ cpc[x] = "wait"
  /\ cpc' = [cpc EXCEPT ![x] = "implClose"]
  /\ UNCHANGED <<pc, mu, closing, cancels, cancelsNil, lastCancelKey, key, wg, cancelled,
                 toCancel, body, implClosed>>

CloseWait(x) ==
  /\ cpc[x] = "wait"
  /\ wg = 0
  /\ cpc' = [cpc EXCEPT ![x] = "implClose"]
  /\ UNCHANGED <<pc, mu, closing, cancels, cancelsNil, lastCancelKey, key, wg,
                 cancelled, toCancel, body, implClosed>>

\* impl.Close(), if impl has one; Close returns its error.
CloseImpl(x) ==
  /\ cpc[x] = "implClose"
  /\ implClosed' \in {implClosed, TRUE}
  /\ cpc' = [cpc EXCEPT ![x] = "returned"]
  /\ UNCHANGED <<pc, mu, closing, cancels, cancelsNil, lastCancelKey, key, wg,
                 cancelled, toCancel, body>>

----------------------------------------------------------------------------
(* The environment *)

\* The context of the request given to Do is done: so is the derived one.
ParentCancelled(c) ==
  /\ pc[c] # "idle"
  /\ c \notin cancelled
  /\ cancelled' = cancelled \cup {c}
  /\ UNCHANGED <<pc, cpc, mu, closing, cancels, cancelsNil, lastCancelKey, key,
                 wg, toCancel, body, implClosed>>

\* The caller of Do has read the response and closes its body.
CallerClosesBody(c) ==
  /\ pc[c] = "returned"
  /\ body[c] = "open"
  /\ body' = [body EXCEPT ![c] = "closed"]
  /\ UNCHANGED <<pc, cpc, mu, closing, cancels, cancelsNil, lastCancelKey, key,
                 wg, cancelled, toCancel, implClosed>>

----------------------------------------------------------------------------

DoStep(c) ==
  \/ DoLock(c) \/ DoReject(c) \/ DoAdd(c)
  \/ DoRegister(c) \/ DoUnregister(c) \/ DoDone(c)

CloseStep(x) ==
  \/ CloseLock(x) \/ CloseMark(x) \/ CloseAgain(x)
  \/ CloseCancel(x) \/ CloseUnlock(x)
  \/ CloseIdle(x) \/ CloseWait(x) \/ CloseImpl(x)

ImplDo(c) == ImplDoResponse(c) \/ ImplDoError(c)

Next ==
  \/ \E c \in Calls : DoStart(c) \/ DoStep(c) \/ ImplDo(c)
                       \/ ParentCancelled(c) \/ CallerClosesBody(c)
  \/ \E x \in Closers : CloseStart(x) \/ CloseStep(x)

(***************************************************************************)
(* The scheduler runs every goroutine that can run, and a wrapped client   *)
(* honours the context: impl.Do returns after it is done.  Nothing is      *)
(* assumed of impl.Do before that, of who calls Do and Close, of the       *)
(* parent contexts or of who closes response bodies.  A goroutine locks mu *)
(* a bounded number of times, so weak fairness keeps none out for ever.    *)
(***************************************************************************)
Fairness ==
  /\ \A c \in Calls : WF_vars(DoStep(c))
  /\ \A c \in Calls : WF_vars(c \in cancelled /\ ImplDo(c))
  /\ \A x \in Closers : WF_vars(CloseStep(x))

Safety == Init /\ [][Next]_vars

Spec == Safety /\ Fairness

----------------------------------------------------------------------------
(* Properties *)

\* The goroutine in the first Close's critical section.
Marking == \E x \in Closers : cpc[x] = "range"

\* closing_client.go:46-57, 72-75: outside a critical section the map holds the
\* cancel functions of exactly the Dos between their registration and their
\* deferred delete, each under its own key, until Close drops the map: no Do
\* overwrites, loses or deletes the entry of another, and none is left behind.
CancelsAreLive ==
  IF cancelsNil
    THEN \A k \in Keys : cancels[k] = None
    ELSE \A c \in Calls : \A k \in Keys :
           cancels[k] = c <=> (c \in Registered /\ key[c] = k)

\* closing_client.go:37-52, 68-77: once the first Close has left its critical
\* section, every Do that has not yet come to its deferred delete is cancelled:
\* none slipped in behind the range loop or registered without being seen by it.
NoMissedCancel ==
  closing /\ ~Marking
    => \A c \in Calls : pc[c] = "added" \/ c \in Registered => c \in cancelled

\* closing_client.go:38-52: no Do writes to the map after Close made it nil.
NoNilMapWrite == \A c \in Calls : pc[c] # "panic"

\* closing_client.go:85-91: impl is closed, and any Close returns, only when no
\* Do is inside, and none gets inside later.
ClosedMeansQuiet ==
  implClosed \/ (\E x \in Closers : cpc[x] \in {"implClose", "returned"})
    => Inside = {}

\* closing_client.go:44-45, 81-84 "Add(1) and Wait() must not be called in
\* parallel": the counter is never incremented while some Close is at, or past,
\* its Wait.
AddNeverRacesWait ==
  [][wg' > wg => \A x \in Closers :
                   cpc[x] \notin {"wait", "implClose", "returned"}]_vars

\* closing_client.go:67-94: every Close that is called returns, whatever the
\* calls in flight do, when impl honours its context.
CloseReturns ==
  \A x \in Closers : cpc[x] = "lock" ~> cpc[x] = "returned"

\* closing_client.go:34-61: a Do that is pending when the client is closing, or
\* is called later, returns.
DoReturnsOnceClosing ==
  \A c \in Calls : closing /\ pc[c] # "idle" ~> pc[c] \in {"returned", "rejected"}

----------------------------------------------------------------------------
(* What it implements *)

absStatus ==
  [c \in Calls |->
     CASE pc[c] \in {"idle", "lock", "check"} -> "idle"
       [] pc[c] = "rejected" -> "refused"
       [] pc[c] = "returned" -> "ended"
       [] OTHER -> "active"]

absPhase ==
  IF \E x \in Closers : cpc[x] \in {"implClose", "returned"} THEN "closed"
  ELSE IF closing THEN "closing" ELSE "open"

Abs == INSTANCE AbstractClosing WITH status <- absStatus, phase <- absPhase

\* closing_client.go:34-94: to its callers, the client is the atomic one of
\* AbstractClosing, and closing it finishes.
ImplementsAbstract == Abs!ASpec
============================================================================
