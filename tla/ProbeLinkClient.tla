--------------------------- MODULE ProbeLinkClient ---------------------------
(***************************************************************************)
(* Client of internal/probelink: goroutines that Call, the goroutine of    *)
(* readLoop and one that Closes, around one WebSocket connection, one      *)
(* mutex and the map of pending calls.  A caller makes one *)
(* call and stands for its request ID.  The mutex is held across a write,  *)
(* which may block while the socket's buffer is full, so its holder is     *)
(* part of the state; shorter critical sections are one action that needs  *)
(* the mutex to be free.                                                   *)
(***************************************************************************)
EXTENDS FiniteSets

CONSTANT Caller

(* Names of the other holders of the mutex and of the states of the reader. *)
ASSUME CallerAssumption ==
  Caller \cap {"free", "reader", "reading", "failed", "draining", "stopped"} = {}

VARIABLES
  pc,         \* of each Call: "start", "registered", "locked", "waiting",
              \* "expired", "returned"
  result,     \* "none", "answered" or the error: "write", "closed", "deadline"
  expired,    \* callers whose context is done
  mu,         \* who holds c.mu across a step: a caller, "reader", or "free"
  pending,    \* keys of c.pending
  ch,         \* what is in the caller's channel: "empty", "response", "closed"
  closed,     \* c.closed; c.done is closed with it
  closer,     \* Close: "idle", "flagged", "closed" (the connection, on this side)
  reader,     \* readLoop: "reading", a caller to deliver to, "failed" (to read),
              \* "draining" (with the mutex), "stopped"
  link,       \* "up", "stuck" (nothing gets through) or "cut"
  requests, replies,  \* on the wire
  carriedOut  \* history: calls the agent has carried out

vars == <<pc, result, expired, mu, pending, ch, closed, closer, reader,
          link, requests, replies, carriedOut>>
net  == <<link, requests, replies, carriedOut>>
connClosed == closer = "closed"

Init ==
  /\ pc = [c \in Caller |-> "start"] /\ result = [c \in Caller |-> "none"]
  /\ expired = {}
  /\ mu = "free"
  /\ pending = {} /\ ch = [c \in Caller |-> "empty"]
  /\ closed = FALSE /\ closer = "idle"
  /\ reader = "reading"
  /\ link = "up" /\ requests = {} /\ replies = {} /\ carriedOut = {}

Goto(c, l)   == pc' = [pc EXCEPT ![c] = l]
Return(c, e) == Goto(c, "returned") /\ result' = [result EXCEPT ![c] = e]

-----------------------------------------------------------------------------
(* Call: a channel of capacity one in the map ... *)
Register(c) ==
  /\ pc[c] = "start" /\ mu = "free"
  /\ pending' = pending \cup {c}
  /\ Goto(c, "registered")
  /\ UNCHANGED <<result, expired, mu, ch, closed, closer, reader, net>>

(* ... the request is written under the mutex ... *)
LockToWrite(c) ==
  /\ pc[c] = "registered" /\ mu = "free"
  /\ mu' = c
  /\ Goto(c, "locked")
  /\ UNCHANGED <<result, expired, pending, ch, closed, closer, reader, net>>

AfterWrite(c, failed) == "free"

(* A write to a peer that is gone may still succeed: into the buffer.  One that
   fails leaves the entry in the map. *)
Write(c) ==
  /\ pc[c] = "locked"
  /\ \/ /\ ~connClosed
        /\ requests' = IF link = "up" THEN requests \cup {c} ELSE requests
        /\ Goto(c, "waiting") /\ UNCHANGED result
        /\ mu' = AfterWrite(c, FALSE)
     \/ /\ connClosed \/ link = "cut"
        /\ Return(c, "write") /\ UNCHANGED requests
        /\ mu' = AfterWrite(c, TRUE)
  /\ UNCHANGED <<expired, pending, ch, closed, closer, reader, link, replies, carriedOut>>

(* ... and the caller waits for its channel or its context. *)
Receive(c) ==
  /\ pc[c] = "waiting" /\ ch[c] # "empty"
  /\ Return(c, IF ch[c] = "response" THEN "answered" ELSE "closed")
  /\ ch' = [ch EXCEPT ![c] = "empty"]
  /\ UNCHANGED <<expired, mu, pending, closed, closer, reader, net>>

GiveUp(c) ==
  /\ pc[c] = "waiting" /\ c \in expired
  /\ Goto(c, "expired")
  /\ UNCHANGED <<result, expired, mu, pending, ch, closed, closer, reader, net>>

Unregister(c) ==
  /\ pc[c] = "expired" /\ mu = "free"
  /\ pending' = pending \ {c}
  /\ Return(c, "deadline")
  /\ UNCHANGED <<expired, mu, ch, closed, closer, reader, net>>

-----------------------------------------------------------------------------
(* Mutant: the response is delivered and its entry stays in the map. *)
LeaveInMap(c) == pending

TakeFromMap(c) == pending \ {c}

(* Mutant: responses are matched by order, not by ID. *)
AnyPending(c) == CHOOSE x \in pending : TRUE

Recipient(c) == c

(* readLoop: take a response's caller out of the map, under the mutex ... *)
ReadMessage(c) ==
  /\ reader = "reading" /\ mu = "free" /\ ~connClosed
  /\ c \in replies
  /\ replies' = replies \ {c}
  /\ IF c \in pending
       THEN pending' = TakeFromMap(Recipient(c)) /\ reader' = Recipient(c)
       ELSE UNCHANGED <<pending, reader>>
  /\ UNCHANGED <<pc, result, expired, mu, ch, closed, closer, link, requests, carriedOut>>

(* ... and send it after the unlock; the send waits for room in the channel. *)
Deliver(c) ==
  /\ reader = c /\ ch[c] = "empty"
  /\ ch' = [ch EXCEPT ![c] = "response"]
  /\ reader' = "reading"
  /\ UNCHANGED <<pc, result, expired, mu, pending, closed, closer, net>>

(* The read fails: closed on either side, or the read deadline has passed. *)
ReadError ==
  /\ reader = "reading"
  /\ connClosed \/ link # "up"
  /\ reader' = "failed"
  /\ UNCHANGED <<pc, result, expired, mu, pending, ch, closed, closer, net>>

(* Every pending call is failed; the mutex is held during these sends. *)
LockToDrain ==
  /\ reader = "failed" /\ mu = "free"
  /\ mu' = "reader" /\ reader' = "draining"
  /\ closed' = TRUE
  /\ UNCHANGED <<pc, result, expired, pending, ch, closer, net>>

Drain(c) ==
  /\ reader = "draining"
  /\ c \in pending /\ ch[c] = "empty"
  /\ ch' = [ch EXCEPT ![c] = "closed"]
  /\ pending' = pending \ {c}
  /\ UNCHANGED <<pc, result, expired, mu, closed, closer, reader, net>>

Drained ==
  /\ reader = "draining" /\ pending = {}
  /\ mu' = "free" /\ reader' = "stopped"
  /\ UNCHANGED <<pc, result, expired, pending, ch, closed, closer, net>>

(* Close: the flag under the mutex, then the connection. *)
CloseFlag ==
  /\ closer = "idle" /\ mu = "free"
  /\ closed' = TRUE /\ closer' = "flagged"
  /\ UNCHANGED <<pc, result, expired, mu, pending, ch, reader, net>>

CloseConn ==
  /\ closer = "flagged"
  /\ closer' = "closed"
  /\ UNCHANGED <<pc, result, expired, mu, pending, ch, closed, reader, net>>

-----------------------------------------------------------------------------
(* The agent carries out a request and replies; the replies come in any order. *)
AgentHandles(c) ==
  /\ c \in requests
  /\ requests' = requests \ {c}
  /\ carriedOut' = carriedOut \cup {c}
  /\ replies' = IF link = "up" THEN replies \cup {c} ELSE replies
  /\ UNCHANGED <<pc, result, expired, mu, pending, ch, closed, closer, reader, link>>

(* The link is cut or gets stuck; a stuck one fails in the end (TCP gives up). *)
LinkFails ==
  /\ link = "up"
  /\ link' \in {"stuck", "cut"}
  /\ UNCHANGED <<pc, result, expired, mu, pending, ch, closed, closer, reader,
                 requests, replies, carriedOut>>

StuckLinkFails ==
  /\ link = "stuck"
  /\ link' = "cut"
  /\ UNCHANGED <<pc, result, expired, mu, pending, ch, closed, closer, reader,
                 requests, replies, carriedOut>>

(* The deadline of a step passes, or the user cancels. *)
Expire(c) ==
  /\ c \notin expired /\ pc[c] \notin {"start", "returned"}
  /\ expired' = expired \cup {c}
  /\ UNCHANGED <<pc, result, mu, pending, ch, closed, closer, reader, net>>

Call(c) ==
  \/ Register(c) \/ LockToWrite(c) \/ Write(c) \/ Receive(c) \/ GiveUp(c) \/ Unregister(c)

ReadLoop == (\E c \in Caller : ReadMessage(c) \/ Deliver(c) \/ Drain(c)) \/ ReadError \/ Drained

Next ==
  \/ \E c \in Caller : Call(c) \/ AgentHandles(c) \/ Expire(c)
  \/ ReadLoop \/ LockToDrain \/ CloseFlag \/ CloseConn \/ LinkFails \/ StuckLinkFails

(* Goroutines run, the mutex is handed on to whoever waits for it, the context
   of every call has a deadline, TCP gives up.  A write may block as long as
   the link is stuck. *)
Fairness ==
  /\ \A c \in Caller :
       /\ SF_vars(LockToWrite(c)) /\ SF_vars(Unregister(c))
       /\ WF_vars(link # "stuck" /\ Write(c)) /\ WF_vars(Receive(c) \/ GiveUp(c))
       /\ WF_vars(Expire(c))
  /\ SF_vars(LockToDrain) /\ WF_vars(ReadLoop) /\ WF_vars(StuckLinkFails)

Spec     == Init /\ [][Next]_vars
FairSpec == Spec /\ Fairness

-----------------------------------------------------------------------------
(* Types, and who holds the mutex: a caller in its write, or readLoop in its
   drain. *)
TypeOK ==
  /\ pc \in [Caller -> {"start", "registered", "locked", "waiting", "expired", "returned"}]
  /\ result \in [Caller -> {"none", "answered", "write", "closed", "deadline"}]
  /\ expired \subseteq Caller
  /\ mu \in Caller \cup {"free", "reader"}
  /\ pending \subseteq Caller
  /\ ch \in [Caller -> {"empty", "response", "closed"}]
  /\ closed \in BOOLEAN
  /\ closer \in {"idle", "flagged", "closed"}
  /\ reader \in Caller \cup {"reading", "failed", "draining", "stopped"}
  /\ link \in {"up", "stuck", "cut"}
  /\ requests \subseteq Caller /\ replies \subseteq Caller /\ carriedOut \subseteq Caller
  /\ \A c \in Caller : mu = c <=> pc[c] = "locked"
  /\ mu = "reader" <=> reader = "draining"

(* readLoop never blocks on a caller that has gone: whoever it is about to send
   to, one by one or in the drain that holds the mutex, has an empty channel. *)
RoomInChannel ==
  /\ \A c \in pending : ch[c] = "empty"
  /\ \A c \in Caller : reader = c => ch[c] = "empty"

(* The outcome of RpcPromise: every error is a failure. *)
Outcome == [c \in Caller |-> CASE result[c] = "none"     -> "none"
                              [] result[c] = "answered" -> "answered"
                              [] OTHER                  -> "failed"]

Promise == INSTANCE RpcPromise WITH outcome <- Outcome

(* Calls are concurrent, responses come in any order, the connection may go at
   any time: each call keeps the promise of RpcPromise. *)
ImplementsPromise == Promise!Spec

(* No call waits for ever, not even behind another one whose write blocks. *)
CallsReturn == \A c \in Caller : pc[c] = "registered" ~> pc[c] = "returned"
=============================================================================
