------------------------- MODULE StudioConnections -------------------------
(***************************************************************************)
(* Probe Studio's connections: calls of the window and of the automation   *)
(* endpoint run at once on one App.  Connect and ConnectWiFi make a        *)
(* connection and put it into a.conn, stopping the one they replace;       *)
(* Disconnect and shutdown take it out and stop it.  A connection has a    *)
(* frame loop, or a device view hub when the feature is on.  It has the    *)
(* name of the call that made it.                                          *)
(***************************************************************************)
EXTENDS Naturals

CONSTANTS
  Call,    \* calls of Connect and ConnectWiFi
  Adb,     \* those to an Android device, reached by adb forward
  Iproxy,  \* those to a physical iPhone, reached by iproxy
  Dev,     \* the device of each call
  None

Wired == Adb \cup Iproxy
Device == {Dev[c] : c \in Call}

ASSUME StudioAssumption == Adb \subseteq Call /\ Iproxy \subseteq Call /\ Adb \cap Iproxy = {} /\ None \notin Call

(* The platform of a device, which Connect looks up, decides how it is reached. *)
ASSUME DevAssumption == \A a \in Adb, i \in Iproxy : Dev[a] # Dev[i]

VARIABLES
  viewOn,    \* PROBE_STUDIO_DEVICE_VIEW=1
  conn,      \* a.conn
  down,      \* shutdown was called
  cpc,       \* where each Connect is
  prev,      \* the connection it replaced
  open,      \* connections whose client is open
  tunnel,    \* who listens for each device: the call that set it up, or None
  touched,   \* history: calls whose tunnel another Connect to the device may have
  stage,     \* none, live, or how far stopConnection is
  late,      \* history: connections for which stopConnection stopped waiting
  stream,    \* frame loop: none, running, ended (streamDone is closed)
  hub        \* device view hub: none (or Run returned), running, closing

vars == <<viewOn, conn, down, cpc, prev, open, tunnel, touched, stage, late, stream, hub>>

Init ==
  /\ viewOn \in BOOLEAN /\ conn = None /\ down = FALSE
  /\ cpc = [c \in Call |-> "idle"] /\ prev = [c \in Call |-> None] /\ open = {}
  /\ tunnel = [d \in Device |-> None] /\ touched = {} /\ stage = [c \in Call |-> "none"] /\ late = {}
  /\ stream = [c \in Call |-> "none"] /\ hub = [c \in Call |-> "none"]

To(c, p) == cpc' = [cpc EXCEPT ![c] = p]
-----------------------------------------------------------------------------
(* What cleanup leaves: RemoveForward removes the forward of the device and  *)
(* port whoever set it, the iproxy cleanup kills its own process only.       *)

(* Mutant: cleanup kills every iproxy of the device.                         *)
RemovesAny(c) == c \in Wired

Removes(c) == c \in Adb \/ (c \in Iproxy /\ tunnel[Dev[c]] = c)
Cleaned(c) == IF Removes(c) THEN [tunnel EXCEPT ![Dev[c]] = None] ELSE tunnel

(* Connect, first part: EnsureADB takes away the forward that is there,      *)
(* EnsureIProxy kills every iproxy of the phone and waits half a second.  A  *)
(* phone on the network and a simulator have no tunnel.  A call that fails   *)
(* before is as if it had not been made.                                     *)
Tunnelled(c, t) == [tunnel EXCEPT ![Dev[c]] = t]

(* The other calls to that phone whose tunnel is up or on its way.           *)
Disturbed(c) ==
  {o \in Iproxy \ {c} : Dev[o] = Dev[c] /\ (cpc[o] \in {"start", "poll", "dial", "publish"} \/ conn = o)}

Overtaken(c) == IF \E o \in Disturbed(c) : cpc[o] = "start" THEN {c} ELSE {}

ClearTunnel(c) ==
  /\ cpc[c] = "idle" /\ ~down
  /\ \/ c \in Wired /\ tunnel' = Tunnelled(c, None) /\ To(c, "start")
        /\ touched' = touched \cup Disturbed(c) \cup Overtaken(c)
     \/ c \notin Wired /\ To(c, "dial") /\ UNCHANGED <<tunnel, touched>>
  /\ UNCHANGED <<viewOn, conn, down, prev, open, stage, late, stream, hub>>

(* ForwardPort takes over a forward that is there; an iproxy that finds its  *)
(* port taken, by another call or another program, ends.                     *)
StartTunnel(c) ==
  /\ cpc[c] = "start"
  /\ \/ c \in Adb /\ tunnel' = Tunnelled(c, c) /\ To(c, "dial")
     \/ c \in Iproxy /\ tunnel[Dev[c]] = None /\ tunnel' = Tunnelled(c, c) /\ To(c, "poll")
     \/ c \in Iproxy /\ UNCHANGED tunnel /\ To(c, "poll")
     \/ UNCHANGED tunnel /\ To(c, "done")
  /\ UNCHANGED <<viewOn, conn, down, prev, open, touched, stage, late, stream, hub>>

(* waitIProxyReady is content with whoever listens on the port.              *)
PollTunnel(c) ==
  /\ cpc[c] = "poll"
  /\ \/ UNCHANGED tunnel /\ To(c, "dial")
     \/ tunnel' = Cleaned(c) /\ To(c, "done")
  /\ UNCHANGED <<viewOn, conn, down, prev, open, touched, stage, late, stream, hub>>

(* Token, dial and ping; what fails is closed and cleaned up.  The agent is  *)
(* found through the tunnel of any call to its device.                       *)
Dial(c) ==
  /\ cpc[c] = "dial"
  /\ \/ /\ c \in Wired => tunnel[Dev[c]] # None
        /\ open' = open \cup {c} /\ To(c, "publish") /\ UNCHANGED tunnel
     \/ tunnel' = Cleaned(c) /\ To(c, "done") /\ UNCHANGED open
  /\ UNCHANGED <<viewOn, conn, down, prev, touched, stage, late, stream, hub>>

(* stopConnection begins with the hub: its context is cancelled.             *)
ViewStopped(c) == IF hub[c] = "running" THEN [hub EXCEPT ![c] = "closing"] ELSE hub

(* Mutant: the connection that is replaced is forgotten.                     *)
Forgets(s, c) == s

Stopping(s, c) == [s EXCEPT ![c] = "view"]

Publish(c) ==
  /\ cpc[c] = "publish"
  /\ prev' = [prev EXCEPT ![c] = conn]
  /\ conn' = c
  /\ LET published == [stage EXCEPT ![c] = "live"] IN
     IF conn = None THEN stage' = published /\ UNCHANGED hub
     ELSE stage' = Stopping(published, conn) /\ hub' = ViewStopped(conn)
  /\ To(c, "replace")
  /\ UNCHANGED <<viewOn, down, open, tunnel, touched, late, stream>>

(* Connect, last part, once stopConnection returned.                         *)
StartFrames(c) ==
  /\ cpc[c] = "replace"
  /\ prev[c] # None => stage[prev[c]] = "gone"
  /\ stream' = [stream EXCEPT ![c] = IF viewOn THEN "ended" ELSE "running"]
  /\ prev' = [prev EXCEPT ![c] = None]
  /\ To(c, "done")
  /\ UNCHANGED <<viewOn, conn, down, open, tunnel, touched, stage, late, hub>>

TakeOut ==
  /\ conn' = None
  /\ IF conn = None THEN UNCHANGED <<stage, hub>>
     ELSE stage' = Stopping(stage, conn) /\ hub' = ViewStopped(conn)

Disconnect ==
  /\ conn # None /\ TakeOut
  /\ UNCHANGED <<viewOn, down, cpc, prev, open, tunnel, touched, late, stream>>

Shutdown ==
  /\ ~down /\ down' = TRUE /\ TakeOut
  /\ UNCHANGED <<viewOn, cpc, prev, open, tunnel, touched, late, stream>>

SetUp(c)   == ClearTunnel(c) \/ StartTunnel(c) \/ PollTunnel(c)
Connect(c) == SetUp(c) \/ Dial(c) \/ Publish(c) \/ StartFrames(c)
-----------------------------------------------------------------------------
(* stopConnection: wait for the hub, then for the frame loop, two seconds    *)
(* each; close the client, clean up.                                         *)
Stage(c, s) == stage' = [stage EXCEPT ![c] = s]

WaitView(c) ==
  /\ stage[c] = "view"
  /\ Stage(c, "stream")
  /\ late' = IF hub[c] = "closing" THEN late \cup {c} ELSE late
  /\ UNCHANGED <<viewOn, conn, down, cpc, prev, open, tunnel, touched, stream, hub>>

(* Mutant: the client is closed while the loop may still use it.             *)
NotAwaited(c) == late

Awaited(c) == IF stream[c] # "ended" THEN late \cup {c} ELSE late

Close(c) ==
  /\ stage[c] = "stream"
  /\ late' = Awaited(c)
  /\ open' = open \ {c}
  /\ tunnel' = Cleaned(c)
  /\ Stage(c, "gone")
  /\ UNCHANGED <<viewOn, conn, down, cpc, prev, touched, stream, hub>>

Stop(c) == WaitView(c) \/ Close(c)

(* The frame loop returns once streamCancel was called, the hub once it was  *)
(* told to.                                                                  *)
StreamEnds(c) ==
  /\ stream[c] = "running" /\ stage[c] \in {"stream", "gone"}
  /\ stream' = [stream EXCEPT ![c] = "ended"]
  /\ UNCHANGED <<viewOn, conn, down, cpc, prev, open, tunnel, touched, stage, late, hub>>

HubEnds(c) ==
  /\ hub[c] = "closing"
  /\ hub' = [hub EXCEPT ![c] = "none"]
  /\ UNCHANGED <<viewOn, conn, down, cpc, prev, open, tunnel, touched, stage, late, stream>>

(* Mutant: the hub is started on a connection read before the lock.          *)
ReadBefore(c) == c \in open

Viewable(c) == conn = c

(* GetDeviceView holds a.mu while it starts the hub.                         *)
GetDeviceView(c) ==
  /\ viewOn /\ Viewable(c) /\ hub[c] = "none"
  /\ hub' = [hub EXCEPT ![c] = "running"]
  /\ UNCHANGED <<viewOn, conn, down, cpc, prev, open, tunnel, touched, stage, late, stream>>

Next ==
  \/ Disconnect \/ Shutdown
  \/ \E c \in Call : Connect(c) \/ Stop(c) \/ StreamEnds(c) \/ HubEnds(c) \/ GetDeviceView(c)

Spec == Init /\ [][Next]_vars

(* Waits have limits, so a call that began goes on.                          *)
Fairness == \A c \in Call : WF_vars(Stop(c)) /\ WF_vars(cpc[c] # "idle" /\ Connect(c)) /\ WF_vars(StreamEnds(c))
FairSpec == Spec /\ Fairness
-----------------------------------------------------------------------------
TypeOK ==
  /\ viewOn \in BOOLEAN /\ conn \in Call \cup {None} /\ down \in BOOLEAN
  /\ cpc \in [Call -> {"idle", "start", "poll", "dial", "publish", "replace", "done"}]
  /\ prev \in [Call -> Call \cup {None}] /\ open \subseteq Call
  /\ tunnel \in [Device -> Call \cup {None}] /\ touched \subseteq Call /\ late \subseteq Call
  /\ stage \in [Call -> {"none", "live", "view", "stream", "gone"}]
  /\ stream \in [Call -> {"none", "running", "ended"}] /\ hub \in [Call -> {"none", "running", "closing"}]

(* a.mu: the one connection that is not being stopped is a.conn, its client  *)
(* is open, and no hub runs for a connection that is.                        *)
OneLive ==
  \A c \in Call :
    /\ stage[c] = "live" <=> conn = c
    /\ conn = c => c \in open
    /\ hub[c] = "running" => conn = c

(* stopConnection: the client is closed under a running frame loop or hub    *)
(* only when the two seconds of the wait passed.                             *)
UsersStopFirst ==
  \A c \in Call : c \notin open /\ (stream[c] = "running" \/ hub[c] \in {"running", "closing"}) => c \in late

(* stopConnection under a.mu: a connection is current and whole, or it is    *)
(* stopped in order.                                                         *)
LiveOrStopped == OneLive /\ UsersStopFirst

(* EnsureIProxy: the iproxy of the current connection runs, unless another   *)
(* Connect to that phone has killed the iproxys since this one did, or was   *)
(* about to start its own when this one did.                                 *)
PhoneTunnelKept ==
  \A c \in Iproxy : conn = c => tunnel[Dev[c]] = c \/ c \in touched

(* What the comment of Connect says: "On success, subsequent calls use this  *)
(* connection.  Re-connecting replaces any prior connection."  Once all have *)
(* succeeded and those replaced are stopped, there is a way to the phone.    *)
CurrentHasTunnel ==
  \A c \in Iproxy :
    conn = c /\ (\A o \in Call \ {c} : cpc[o] = "idle" \/ stage[o] = "gone") => tunnel[Dev[c]] # None

(* stopConnection: the client of a connection that is no longer a.conn,      *)
(* replaced or disconnected, is closed in the end.                           *)
ReplacedAreClosed == \A c \in Call : (c \in open /\ stage[c] # "none" /\ conn # c) ~> (c \notin open)
-----------------------------------------------------------------------------
(* What makes OneLive and UsersStopFirst inductive.                          *)
StageFollowsCall ==
  \A c \in Call :
    /\ cpc[c] \in {"idle", "start", "poll", "dial", "publish"} => stage[c] = "none"
    /\ cpc[c] = "replace" => stage[c] # "none"
    /\ cpc[c] # "done" => stream[c] = "none"

OpenUntilClosed ==
  \A c \in Call : cpc[c] = "publish" \/ stage[c] \in {"live", "view", "stream"} => c \in open

LateExplained ==
  \A c \in Call :
    /\ stage[c] = "none" => hub[c] = "none"
    /\ stage[c] = "gone" /\ cpc[c] = "replace" => c \in late
    /\ stage[c] \in {"stream", "gone"} /\ hub[c] # "none" => c \in late

IInv == TypeOK /\ OneLive /\ UsersStopFirst /\ StageFollowsCall /\ OpenUntilClosed /\ LateExplained
=============================================================================
