--------------------------- MODULE DeviceViewHub ---------------------------
(***************************************************************************)
(* Hub of internal/deviceview: Run, one HTTP handler per connection (which *)
(* becomes its reader), one goroutine for the three of a client (writer,   *)
(* inputWorker, hitWorker: they end alike) and the frame loop, around the  *)
(* hub's mutex.  A section under the mutex is one action.  A peer sends    *)
(* what it likes, when it likes; the contents of messages, input, images,  *)
(* trees and rates are left out.                                           *)
(***************************************************************************)
EXTENDS Naturals

CONSTANTS Conn,        \* connections that are made to the hub
          Nobody       \* not a connection

ASSUME ConnAssumption == Nobody \notin Conn

VARIABLES
  run,       \* Run: "serving", "closing" (flag set), "cancelled", "waiting"
             \* (for the goroutines), "returned"
  last,      \* the client Run found when it set the flag
  h,         \* handlers: "new", "upgrading", "replacing", "reading", "leaving",
             \* "closing", "done" (which a refused one is at once)
  old,       \* the client that a handler replaces
  shut,      \* closeWith was called: context cancelled, connection closed
  worker,    \* "off", "on", "stopped"
  client,    \* h.client
  pausedBy,  \* whose message has set h.paused, if it is set
  frame,     \* frameLoop: "check", "idle" (found nobody), "asleep", "dial", "detect",
             \* "shoot", "shooting", "stopped"
  wake,      \* a token is in wakeCh
  agent,     \* h.agent: "none", "new", "detected"
  open,      \* agent connections not closed
  late       \* history: screenshots requested since nobody watches

conns == <<h, old, shut, worker>>
view  == <<client, pausedBy>>
loop  == <<frame, wake, agent, open, late>>
vars  == <<run, last, conns, view, loop>>

closed  == run # "serving"
active  == client # Nobody /\ pausedBy = Nobody /\ ~closed
runDone == run \notin {"serving", "closing"}
ctxDone(c) == runDone \/ shut[c]

Init ==
  /\ run = "serving" /\ last = Nobody
  /\ h = [c \in Conn |-> "new"] /\ old = [c \in Conn |-> Nobody]
  /\ shut = [c \in Conn |-> FALSE]
  /\ worker = [c \in Conn |-> "off"]
  /\ client = Nobody /\ pausedBy = Nobody
  /\ frame = "check" /\ wake = FALSE /\ agent = "new" /\ open = 1 /\ late = 0

Goto(c, l) == h' = [h EXCEPT ![c] = l]

(* Mutant: a token is kept only while the loop waits for it. *)
Unbuffered == IF frame = "asleep" THEN TRUE ELSE wake

Wake == TRUE

CountLate == late' = IF active' THEN 0 ELSE late

-----------------------------------------------------------------------------
(* serveHTTP refuses a connection after the shutdown's flag, and for a while after a
   takeover (the clock is left out); it counts one that it admits, ... *)
Refuse(c) ==
  /\ h[c] = "new" /\ (closed \/ client # Nobody)
  /\ Goto(c, "done")
  /\ UNCHANGED <<run, last, old, shut, worker, view, loop>>

Admit(c) ==
  /\ h[c] = "new" /\ ~closed
  /\ Goto(c, "upgrading")
  /\ UNCHANGED <<run, last, old, shut, worker, view, loop>>

UpgradeFails(c) ==
  /\ h[c] = "upgrading"
  /\ Goto(c, "done")
  /\ UNCHANGED <<run, last, old, shut, worker, view, loop>>

(* Mutant: only a client that watches is closed. *)
IfWatching(c) == IF active THEN client ELSE Nobody

Replaced(c) == client

(* ... attach: the client is replaced under the mutex ... *)
Attach(c) ==
  /\ h[c] = "upgrading"
  /\ old' = [old EXCEPT ![c] = Replaced(c)]
  /\ client' = c /\ pausedBy' = Nobody
  /\ Goto(c, "replacing")
  /\ UNCHANGED <<run, last, shut, worker, frame, wake, agent, open>>
  /\ CountLate

(* ... and closed after the unlock; then the loop is woken and the workers start. *)
CloseOld(c) ==
  /\ h[c] = "replacing" /\ old[c] # Nobody
  /\ ~shut[old[c]]
  /\ shut' = [shut EXCEPT ![old[c]] = TRUE]
  /\ UNCHANGED <<run, last, h, old, worker, view, loop>>

Serve(c) ==
  /\ h[c] = "replacing" /\ (old[c] # Nobody => shut[old[c]])
  /\ wake' = Wake
  /\ worker' = [worker EXCEPT ![c] = "on"]
  /\ Goto(c, "reading")
  /\ UNCHANGED <<run, last, old, shut, view, frame, agent, open, late>>

-----------------------------------------------------------------------------
(* Mutant: any connection may pause the stream. *)
Anyone(c) == TRUE

MayPause(c) == client = c

(* reader: the next message of the peer (what is buffered is read after the close
   too); a pause and a resume count from the current client only. *)
Pause(c) ==
  /\ h[c] = "reading"
  /\ MayPause(c)
  /\ pausedBy' = c
  /\ wake' = Wake
  /\ UNCHANGED <<run, last, conns, client, frame, agent, open>>
  /\ CountLate

Resume(c) ==
  /\ h[c] = "reading"
  /\ MayPause(c)
  /\ pausedBy' = Nobody
  /\ wake' = Wake
  /\ UNCHANGED <<run, last, conns, client, frame, agent, open>>
  /\ CountLate

(* applyConfig wakes the frame loop; the settings are left out. *)
ApplyConfig(c) ==
  /\ h[c] = "reading"
  /\ wake' = Wake
  /\ UNCHANGED <<run, last, conns, view, frame, agent, open, late>>

(* The peer closes, or is silent for idleTimeout. *)
PeerLeaves(c) ==
  /\ h[c] = "reading"
  /\ Goto(c, "leaving")
  /\ UNCHANGED <<run, last, old, shut, worker, view, loop>>

(* The writer closes a connection on which a write fails. *)
WriteFails(c) ==
  /\ worker[c] = "on" /\ ~shut[c]
  /\ shut' = [shut EXCEPT ![c] = TRUE]
  /\ UNCHANGED <<run, last, h, old, worker, view, loop>>

ReadFails(c) ==
  /\ h[c] = "reading" /\ shut[c]
  /\ Goto(c, "leaving")
  /\ UNCHANGED <<run, last, old, shut, worker, view, loop>>

(* detach, unless another client has taken over. *)
Detach(c) ==
  /\ h[c] = "leaving"
  /\ client' = IF client = c THEN Nobody ELSE client
  /\ pausedBy' = IF client = c THEN Nobody ELSE pausedBy
  /\ wake' = Wake
  /\ shut' = [shut EXCEPT ![c] = TRUE]
  /\ Goto(c, "closing")
  /\ UNCHANGED <<run, last, old, worker, frame, agent, open>>
  /\ CountLate

HandlerEnds(c) ==
  /\ h[c] = "closing" /\ worker[c] = "stopped"
  /\ Goto(c, "done")
  /\ UNCHANGED <<run, last, old, shut, worker, view, loop>>

WorkerStops(c) ==
  /\ worker[c] = "on" /\ ctxDone(c)
  /\ worker' = [worker EXCEPT ![c] = "stopped"]
  /\ UNCHANGED <<run, last, h, old, shut, view, loop>>

-----------------------------------------------------------------------------
(* frameLoop looks whether somebody watches, ... *)
Begin == CASE agent = "none" -> "dial" [] agent = "new" -> "detect" [] OTHER -> "shoot"

Check ==
  /\ frame = "check"
  /\ frame' = IF runDone THEN "stopped" ELSE IF active THEN Begin ELSE "idle"
  /\ UNCHANGED <<run, last, conns, view, wake, agent, open, late>>

FallAsleep ==
  /\ frame = "idle" /\ frame' = "asleep"
  /\ UNCHANGED <<run, last, conns, view, wake, agent, open, late>>

(* Mutant: the wait does not watch the context. *)
TokenOnly == wake

Woken == wake \/ runDone

WakeUp ==
  /\ frame = "asleep" /\ Woken
  /\ frame' = "check" /\ wake' = FALSE
  /\ UNCHANGED <<run, last, conns, view, agent, open, late>>

(* ... opens a connection to the agent if there is none, ... *)
Dial ==
  /\ frame = "dial"
  /\ frame' = "check"
  /\ \/ agent' = "new" /\ open' = open + 1
     \/ UNCHANGED <<agent, open>>
  /\ UNCHANGED <<run, last, conns, view, wake, late>>

Drop == open - 1

(* ... detects what it can do; a failed connection is dropped, not one whose call
   was cut off by the end of Run ... *)
DropAgent == IF runDone THEN UNCHANGED <<agent, open>> ELSE agent' = "none" /\ open' = Drop

Detect ==
  /\ frame = "detect"
  /\ \/ ~runDone /\ agent' = "detected" /\ frame' = "shoot" /\ UNCHANGED open
     \/ DropAgent /\ frame' = "check"
  /\ UNCHANGED <<run, last, conns, view, wake, late>>

(* ... and asks for a screenshot. *)
Shoot ==
  /\ frame = "shoot"
  /\ frame' = "shooting"
  /\ late' = IF active THEN late ELSE late + 1
  /\ UNCHANGED <<run, last, conns, view, wake, agent, open>>

(* Mutant: the next screenshot follows at once. *)
Again == IF agent = "detected" THEN "shoot" ELSE "check"

AfterShot == "check"

ShotReturns ==
  /\ frame = "shooting"
  /\ frame' = AfterShot
  /\ UNCHANGED <<agent, open>> \/ DropAgent
  /\ UNCHANGED <<run, last, conns, view, wake, late>>

-----------------------------------------------------------------------------
(* The context of Run is done: the flag and the client under the mutex, ... *)
SetClosed ==
  /\ run = "serving"
  /\ run' = "closing" /\ last' = client
  /\ UNCHANGED <<conns, view, frame, wake, agent, open>>
  /\ CountLate

Cancel ==
  /\ run = "closing"
  /\ run' = "cancelled"
  /\ UNCHANGED <<last, conns, view, loop>>

(* ... that client is closed, ... *)
CloseLast ==
  /\ run = "cancelled"
  /\ run' = "waiting"
  /\ shut' = [c \in Conn |-> shut[c] \/ c = last]
  /\ UNCHANGED <<last, h, old, worker, view, loop>>

(* Mutant: a handler is counted once it has attached. *)
CountedLate(c) == h[c] \notin {"new", "upgrading", "done"}

Counted(c) == h[c] \notin {"new", "done"}

(* ... and when every goroutine has ended, so is the agent. *)
Return ==
  /\ run = "waiting"
  /\ frame = "stopped" /\ \A c \in Conn : ~Counted(c)
  /\ run' = "returned"
  /\ agent' = "none" /\ open' = IF agent = "none" THEN open ELSE open - 1
  /\ UNCHANGED <<last, conns, view, frame, wake, late>>

-----------------------------------------------------------------------------
Handler(c) ==
  \/ Attach(c) \/ CloseOld(c) \/ Serve(c) \/ ReadFails(c) \/ Detach(c) \/ HandlerEnds(c)

Peer(c) ==
  \/ Refuse(c) \/ Admit(c) \/ UpgradeFails(c) \/ PeerLeaves(c) \/ WriteFails(c)
  \/ Pause(c) \/ Resume(c) \/ ApplyConfig(c)

FrameLoop == Check \/ FallAsleep \/ WakeUp \/ Dial \/ Detect \/ Shoot \/ ShotReturns

Shutdown == Cancel \/ CloseLast \/ Return

Next ==
  \/ \E c \in Conn : Handler(c) \/ WorkerStops(c) \/ Peer(c)
  \/ FrameLoop \/ SetClosed \/ Shutdown

(* Goroutines run; calls to the agent and upgrades have deadlines.  A peer may send for
   ever: its connection then never times out. *)
Fairness ==
  /\ \A c \in Conn : WF_vars(Handler(c)) /\ WF_vars(WorkerStops(c))
  /\ WF_vars(FrameLoop) /\ WF_vars(Shutdown)

Spec     == Init /\ [][Next]_vars
FairSpec == Spec /\ Fairness

-----------------------------------------------------------------------------
(* Types; the current client has a handler that has not left, and there is one
   connection to the agent, or none. *)
TypeOK ==
  /\ run \in {"serving", "closing", "cancelled", "waiting", "returned"}
  /\ last \in Conn \cup {Nobody}
  /\ h \in [Conn -> {"new", "upgrading", "replacing", "reading", "leaving", "closing", "done"}]
  /\ old \in [Conn -> Conn \cup {Nobody}]
  /\ shut \in [Conn -> BOOLEAN]
  /\ worker \in [Conn -> {"off", "on", "stopped"}]
  /\ client \in Conn \cup {Nobody}
  /\ pausedBy \in Conn \cup {Nobody}
  /\ wake \in BOOLEAN
  /\ frame \in {"check", "idle", "asleep", "dial", "detect", "shoot", "shooting", "stopped"}
  /\ agent \in {"none", "new", "detected"}
  /\ open = IF agent = "none" THEN 0 ELSE 1
  /\ client # Nobody => h[client] \in {"replacing", "reading", "leaving"}

(* A connection that was replaced cannot leave the stream of its successor paused. *)
PausedByClient == pausedBy # Nobody => pausedBy = client

(* Run "stops every goroutine, closes the agent and returns". *)
QuietAfterReturn ==
  run = "returned" =>
    /\ frame = "stopped" /\ open = 0
    /\ \A c \in Conn : h[c] \in {"new", "done"} /\ worker[c] \in {"off", "stopped"}

(* docs/studio-device-protocol.md: "While paused (or with no client) the server
   makes no screenshot requests": none but the one that was under way. *)
OneLateShot == late <= 1

(* A client that is replaced is closed, whatever it does. *)
ReplacedIsClosed ==
  \A c \in Conn : h[c] = "reading" /\ client # c ~> h[c] = "done"

(* No wake-up is lost: with a client that does not pause, the loop goes to work. *)
Watching == active ~> frame \notin {"check", "idle", "asleep"} \/ ~active

(* Run returns, if no handler is between its check of the flag and attach when the
   flag is set. *)
Returns ==
  run = "closing" /\ client = last /\ (\A c \in Conn : h[c] # "upgrading")
    ~> run = "returned"

(* Run "serves until ctx is cancelled, then closes the client, stops every
   goroutine, closes the agent and returns". *)
RunReturns == run = "closing" ~> run = "returned"
=============================================================================
