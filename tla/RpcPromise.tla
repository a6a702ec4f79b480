----------------------------- MODULE RpcPromise -----------------------------
(***************************************************************************)
(* What a client of the agent is promised: a call has at most one outcome  *)
(* and keeps it, the agent carries a call out at most once, and "answered" *)
(* is said of calls only that the agent has carried out.  A call that      *)
(* failed may have been carried out all the same, even later.              *)
(***************************************************************************)
CONSTANT Caller

VARIABLES carriedOut,  \* calls the agent has carried out
          outcome      \* "none", "answered" or "failed"

Init == carriedOut = {} /\ outcome = [c \in Caller |-> "none"]

CarryOut(c) ==
  /\ c \notin carriedOut
  /\ carriedOut' = carriedOut \cup {c}
  /\ UNCHANGED outcome

Conclude(c, e) ==
  /\ outcome[c] = "none"
  /\ e = "answered" => c \in carriedOut
  /\ outcome' = [outcome EXCEPT ![c] = e]
  /\ UNCHANGED carriedOut

Next == \E c \in Caller : CarryOut(c) \/ \E e \in {"answered", "failed"} : Conclude(c, e)

Spec == Init /\ [][Next]_<<carriedOut, outcome>>
=============================================================================
