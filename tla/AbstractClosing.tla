-------------------------- MODULE AbstractClosing --------------------------
(***************************************************************************)
(* What a closing HTTP client promises, with no mutex, no map and no wait  *)
(* group: calls begin only while it is open, calls that begin later are    *)
(* refused, and it is closed only when no call is left inside.  Module     *)
(* ClosingClient is shown to implement it.                                 *)
(***************************************************************************)
CONSTANT Calls

VARIABLES
  status,  \* status[c]: "idle", "active", "ended" or "refused"
  phase    \* "open", "closing" or "closed"

avars == <<status, phase>>

ATypeOK ==
  /\ status \in [Calls -> {"idle", "active", "ended", "refused"}]
  /\ phase \in {"open", "closing", "closed"}

AInit ==
  /\ status = [c \in Calls |-> "idle"]
  /\ phase = "open"

Begin(c) ==
  /\ phase = "open"
  /\ status[c] = "idle"
  /\ status' = [status EXCEPT ![c] = "active"]
  /\ UNCHANGED phase

End(c) ==
  /\ status[c] = "active"
  /\ status' = [status EXCEPT ![c] = "ended"]
  /\ UNCHANGED phase

Refuse(c) ==
  /\ phase # "open"
  /\ status[c] = "idle"
  /\ status' = [status EXCEPT ![c] = "refused"]
  /\ UNCHANGED phase

StartClose ==
  /\ phase = "open"
  /\ phase' = "closing"
  /\ UNCHANGED status

FinishClose ==
  /\ phase = "closing"
  /\ \A c \in Calls : status[c] # "active"
  /\ phase' = "closed"
  /\ UNCHANGED status

ANext ==
  \/ \E c \in Calls : Begin(c) \/ End(c) \/ Refuse(c)
  \/ StartClose
  \/ FinishClose

ASafety == AInit /\ [][ANext]_avars

(***************************************************************************)
(* Closing is never stuck: once it has started, the calls still inside end *)
(* (they were cancelled) and the close finishes.  Nothing makes a call end *)
(* while the client is open.                                               *)
(***************************************************************************)
AFairness ==
  /\ \A c \in Calls : WF_avars(phase # "open" /\ End(c))
  /\ WF_avars(FinishClose)

ASpec == ASafety /\ AFairness
============================================================================
