--------------------------- MODULE SyncRendezvous ---------------------------
(***************************************************************************)
(* What a composite test promises about its sync points, without barriers, *)
(* contexts or goroutines: every device reaches the points, passes a point *)
(* when all devices have reached it, and reports one outcome.  A failure   *)
(* of some device breaks the test: the points no longer hold anybody back  *)
(* and the others may be cancelled.                                        *)
(***************************************************************************)
CONSTANTS Device, Point

VARIABLES reached,   \* pairs <<device, point>>
          passed,    \* pairs <<device, point>>
          failed,    \* some device has failed
          stopped,   \* the caller cancelled the test
          outcome    \* what was reported for each device

vars == <<reached, passed, failed, stopped, outcome>>

Init ==
  /\ reached = {} /\ passed = {}
  /\ failed = FALSE /\ stopped = FALSE
  /\ outcome = [d \in Device |-> "none"]

Reach(d, p) ==
  /\ <<d, p>> \notin reached
  /\ reached' = reached \cup {<<d, p>>}
  /\ UNCHANGED <<passed, failed, stopped, outcome>>

Pass(d, p) ==
  /\ <<d, p>> \in reached \ passed
  /\ failed \/ \A e \in Device : <<e, p>> \in reached
  /\ passed' = passed \cup {<<d, p>>}
  /\ UNCHANGED <<reached, failed, stopped, outcome>>

Fail == ~failed /\ failed' = TRUE /\ UNCHANGED <<reached, passed, stopped, outcome>>
Stop == ~stopped /\ stopped' = TRUE /\ UNCHANGED <<reached, passed, failed, outcome>>

Report(d, o) ==
  /\ outcome[d] = "none"
  /\ o = "failed" => failed
  /\ o = "canceled" => failed \/ stopped
  /\ outcome' = [outcome EXCEPT ![d] = o]
  /\ UNCHANGED <<reached, passed, failed, stopped>>

Next ==
  \/ Fail \/ Stop
  \/ \E d \in Device, p \in Point : Reach(d, p) \/ Pass(d, p)
  \/ \E d \in Device, o \in {"nil", "failed", "canceled"} : Report(d, o)

Spec == Init /\ [][Next]_vars
=============================================================================
