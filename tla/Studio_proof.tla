---------------------------- MODULE Studio_proof ----------------------------
(***************************************************************************)
(* Studio's App, its connections and its runs.                             *)
(*                                                                         *)
(* For any calls, devices and kinds of device: the connection that is not  *)
(* being stopped is a.conn, its client is open and only it has a device    *)
(* view hub; and a client is closed under its frame loop or its hub only   *)
(* when a wait of stopConnection timed out; the iproxy of the current      *)
(* connection runs unless another call took its phone, however the         *)
(* set-ups of the two overlapped.                                          *)
(*                                                                         *)
(* For any calls, tests and edits of the file: runs of Studio are one at a *)
(* time, RunState and CancelRun are about the run that has the slot, and   *)
(* a run that its caller was told of is told to be over; and a run of the  *)
(* failed tests is about the tests that failed last.                       *)
(*                                                                         *)
(* Each lemma takes one step of a call, of stopConnection, of a goroutine, *)
(* of a run or of the window.                                              *)
(***************************************************************************)
EXTENDS StudioConnections, StudioRuns, TLAPS


LEMMA NoneIsNoCall == None \notin Call
BY StudioAssumption

LEMMA InitHolds == Init => IInv
<1> SUFFICES ASSUME Init PROVE IInv OBVIOUS
<1>1. TypeOK BY DEF Init, TypeOK
<1>2. OneLive /\ UsersStopFirst BY NoneIsNoCall DEF Init, OneLive, UsersStopFirst
<1>3. StageFollowsCall /\ OpenUntilClosed /\ LateExplained
      BY DEF Init, StageFollowsCall, OpenUntilClosed, LateExplained
<1> QED BY <1>1, <1>2, <1>3 DEF IInv

LEMMA CleanedType == ASSUME TypeOK, NEW c \in Call PROVE Cleaned(c) \in [Device -> Call \cup {None}]
BY DEF TypeOK, Cleaned, Device

LEMMA TunnelledType ==
  ASSUME TypeOK, NEW c \in Call, NEW t \in Call \cup {None}
  PROVE  Tunnelled(c, t) \in [Device -> Call \cup {None}]
BY DEF TypeOK, Tunnelled, Device

LEMMA ClearTunnelKeeps == ASSUME IInv, NEW c \in Call, ClearTunnel(c) PROVE IInv'
<1> USE NoneIsNoCall
<1>0. TypeOK /\ OneLive /\ UsersStopFirst /\ StageFollowsCall /\ OpenUntilClosed /\ LateExplained BY DEF IInv
<1>1. TypeOK'
  <2>1. tunnel' \in [Device -> Call \cup {None}] BY <1>0, TunnelledType, CleanedType DEF ClearTunnel, TypeOK
  <2>2. touched' \subseteq Call BY <1>0, StudioAssumption DEF ClearTunnel, Disturbed, Overtaken, TypeOK
  <2>3. cpc' \in [Call -> {"idle", "start", "poll", "dial", "publish", "replace", "done"}] BY <1>0 DEF ClearTunnel, To, TypeOK
  <2> QED BY <1>0, <2>1, <2>2, <2>3 DEF ClearTunnel, TypeOK
<1>2. OneLive' BY <1>0 DEF ClearTunnel, To, TypeOK, OneLive
<1>3. UsersStopFirst' BY <1>0 DEF ClearTunnel, To, TypeOK, UsersStopFirst
<1>4. StageFollowsCall' BY <1>0 DEF ClearTunnel, To, TypeOK, StageFollowsCall
<1>5. OpenUntilClosed' BY <1>0 DEF ClearTunnel, To, TypeOK, OpenUntilClosed
<1>6. LateExplained' BY <1>0 DEF ClearTunnel, To, TypeOK, LateExplained
<1> QED BY <1>1, <1>2, <1>3, <1>4, <1>5, <1>6 DEF IInv

LEMMA StartTunnelKeeps == ASSUME IInv, NEW c \in Call, StartTunnel(c) PROVE IInv'
<1> USE NoneIsNoCall
<1>0. TypeOK /\ OneLive /\ UsersStopFirst /\ StageFollowsCall /\ OpenUntilClosed /\ LateExplained BY DEF IInv
<1>1. TypeOK'
  <2>1. tunnel' \in [Device -> Call \cup {None}] BY <1>0, TunnelledType, CleanedType DEF StartTunnel, TypeOK
  <2>2. touched' \subseteq Call BY <1>0, StudioAssumption DEF StartTunnel, TypeOK
  <2>3. cpc' \in [Call -> {"idle", "start", "poll", "dial", "publish", "replace", "done"}] BY <1>0 DEF StartTunnel, To, TypeOK
  <2> QED BY <1>0, <2>1, <2>2, <2>3 DEF StartTunnel, TypeOK
<1>2. OneLive' BY <1>0 DEF StartTunnel, To, TypeOK, OneLive
<1>3. UsersStopFirst' BY <1>0 DEF StartTunnel, To, TypeOK, UsersStopFirst
<1>4. StageFollowsCall' BY <1>0 DEF StartTunnel, To, TypeOK, StageFollowsCall
<1>5. OpenUntilClosed' BY <1>0 DEF StartTunnel, To, TypeOK, OpenUntilClosed
<1>6. LateExplained' BY <1>0 DEF StartTunnel, To, TypeOK, LateExplained
<1> QED BY <1>1, <1>2, <1>3, <1>4, <1>5, <1>6 DEF IInv

LEMMA PollTunnelKeeps == ASSUME IInv, NEW c \in Call, PollTunnel(c) PROVE IInv'
<1> USE NoneIsNoCall
<1>0. TypeOK /\ OneLive /\ UsersStopFirst /\ StageFollowsCall /\ OpenUntilClosed /\ LateExplained BY DEF IInv
<1>1. TypeOK'
  <2>1. tunnel' \in [Device -> Call \cup {None}] BY <1>0, TunnelledType, CleanedType DEF PollTunnel, TypeOK
  <2>2. touched' \subseteq Call BY <1>0, StudioAssumption DEF PollTunnel, TypeOK
  <2>3. cpc' \in [Call -> {"idle", "start", "poll", "dial", "publish", "replace", "done"}] BY <1>0 DEF PollTunnel, To, TypeOK
  <2> QED BY <1>0, <2>1, <2>2, <2>3 DEF PollTunnel, TypeOK
<1>2. OneLive' BY <1>0 DEF PollTunnel, To, TypeOK, OneLive
<1>3. UsersStopFirst' BY <1>0 DEF PollTunnel, To, TypeOK, UsersStopFirst
<1>4. StageFollowsCall' BY <1>0 DEF PollTunnel, To, TypeOK, StageFollowsCall
<1>5. OpenUntilClosed' BY <1>0 DEF PollTunnel, To, TypeOK, OpenUntilClosed
<1>6. LateExplained' BY <1>0 DEF PollTunnel, To, TypeOK, LateExplained
<1> QED BY <1>1, <1>2, <1>3, <1>4, <1>5, <1>6 DEF IInv

LEMMA DialKeeps == ASSUME IInv, NEW c \in Call, Dial(c) PROVE IInv'
<1> USE NoneIsNoCall
<1>0. TypeOK /\ OneLive /\ UsersStopFirst /\ StageFollowsCall /\ OpenUntilClosed /\ LateExplained BY DEF IInv
<1>1. TypeOK' BY <1>0, CleanedType DEF Dial, To, TypeOK
<1>2. OneLive' BY <1>0 DEF Dial, To, TypeOK, OneLive
<1>3. UsersStopFirst' BY <1>0 DEF Dial, To, TypeOK, UsersStopFirst
<1>4. StageFollowsCall' BY <1>0 DEF Dial, To, TypeOK, StageFollowsCall
<1>5. OpenUntilClosed' BY <1>0 DEF Dial, To, TypeOK, OpenUntilClosed
<1>6. LateExplained' BY <1>0 DEF Dial, To, TypeOK, LateExplained
<1> QED BY <1>1, <1>2, <1>3, <1>4, <1>5, <1>6 DEF IInv

LEMMA PublishKeeps == ASSUME IInv, NEW c \in Call, Publish(c) PROVE IInv'
<1> USE NoneIsNoCall
<1>0. TypeOK /\ OneLive /\ UsersStopFirst /\ StageFollowsCall /\ OpenUntilClosed /\ LateExplained BY DEF IInv
<1>1. TypeOK' BY <1>0 DEF Publish, To, Stopping, ViewStopped, TypeOK
<1>2. OneLive' BY <1>0 DEF Publish, To, Stopping, ViewStopped, TypeOK, OneLive, OpenUntilClosed
<1>3. UsersStopFirst' BY <1>0 DEF Publish, To, Stopping, ViewStopped, TypeOK, UsersStopFirst
<1>4. StageFollowsCall' BY <1>0 DEF Publish, To, Stopping, ViewStopped, TypeOK, StageFollowsCall, OneLive
<1>5. OpenUntilClosed' BY <1>0 DEF Publish, To, Stopping, ViewStopped, TypeOK, OpenUntilClosed, OneLive
<1>6. LateExplained' BY <1>0 DEF Publish, To, Stopping, ViewStopped, TypeOK, LateExplained
<1> QED BY <1>1, <1>2, <1>3, <1>4, <1>5, <1>6 DEF IInv

LEMMA StartFramesKeeps == ASSUME IInv, NEW c \in Call, StartFrames(c) PROVE IInv'
<1> USE NoneIsNoCall
<1>0. TypeOK /\ OneLive /\ UsersStopFirst /\ StageFollowsCall /\ OpenUntilClosed /\ LateExplained BY DEF IInv
<1>1. TypeOK' BY <1>0 DEF StartFrames, To, TypeOK
<1>2. OneLive' BY <1>0 DEF StartFrames, To, TypeOK, OneLive
<1>3. UsersStopFirst' BY <1>0 DEF StartFrames, To, TypeOK, UsersStopFirst, OneLive, StageFollowsCall, OpenUntilClosed, LateExplained
<1>4. StageFollowsCall' BY <1>0 DEF StartFrames, To, TypeOK, StageFollowsCall
<1>5. OpenUntilClosed' BY <1>0 DEF StartFrames, To, TypeOK, OpenUntilClosed
<1>6. LateExplained' BY <1>0 DEF StartFrames, To, TypeOK, LateExplained
<1> QED BY <1>1, <1>2, <1>3, <1>4, <1>5, <1>6 DEF IInv

LEMMA TakeOutKeeps ==
  ASSUME IInv, TakeOut, down' \in BOOLEAN, UNCHANGED <<viewOn, cpc, prev, open, tunnel, touched, late, stream>>
  PROVE  IInv'
<1> USE NoneIsNoCall
<1>0. TypeOK /\ OneLive /\ UsersStopFirst /\ StageFollowsCall /\ OpenUntilClosed /\ LateExplained BY DEF IInv
<1>1. TypeOK' BY <1>0 DEF TakeOut, Stopping, ViewStopped, TypeOK
<1>2. OneLive' BY <1>0 DEF TakeOut, Stopping, ViewStopped, TypeOK, OneLive
<1>3. UsersStopFirst' BY <1>0 DEF TakeOut, Stopping, ViewStopped, TypeOK, UsersStopFirst
<1>4. StageFollowsCall' BY <1>0 DEF TakeOut, Stopping, ViewStopped, TypeOK, StageFollowsCall, OneLive
<1>5. OpenUntilClosed' BY <1>0 DEF TakeOut, Stopping, ViewStopped, TypeOK, OpenUntilClosed, OneLive
<1>6. LateExplained' BY <1>0 DEF TakeOut, Stopping, ViewStopped, TypeOK, LateExplained
<1> QED BY <1>1, <1>2, <1>3, <1>4, <1>5, <1>6 DEF IInv

LEMMA WaitViewKeeps == ASSUME IInv, NEW c \in Call, WaitView(c) PROVE IInv'
<1> USE NoneIsNoCall
<1>0. TypeOK /\ OneLive /\ UsersStopFirst /\ StageFollowsCall /\ OpenUntilClosed /\ LateExplained BY DEF IInv
<1>1. TypeOK' BY <1>0 DEF WaitView, Stage, TypeOK
<1>2. OneLive' BY <1>0 DEF WaitView, Stage, TypeOK, OneLive
<1>3. UsersStopFirst' BY <1>0 DEF WaitView, Stage, TypeOK, UsersStopFirst
<1>4. StageFollowsCall' BY <1>0 DEF WaitView, Stage, TypeOK, StageFollowsCall
<1>5. OpenUntilClosed' BY <1>0 DEF WaitView, Stage, TypeOK, OpenUntilClosed
<1>6. LateExplained' BY <1>0 DEF WaitView, Stage, TypeOK, LateExplained, OneLive
<1> QED BY <1>1, <1>2, <1>3, <1>4, <1>5, <1>6 DEF IInv

LEMMA CloseKeeps == ASSUME IInv, NEW c \in Call, Close(c) PROVE IInv'
<1> USE NoneIsNoCall
<1>0. TypeOK /\ OneLive /\ UsersStopFirst /\ StageFollowsCall /\ OpenUntilClosed /\ LateExplained BY DEF IInv
<1>1. TypeOK' BY <1>0, CleanedType DEF Close, Stage, Awaited, TypeOK
<1>2. OneLive' BY <1>0 DEF Close, Stage, Awaited, TypeOK, OneLive
<1>3. UsersStopFirst' BY <1>0 DEF Close, Stage, Awaited, TypeOK, UsersStopFirst, LateExplained
<1>4. StageFollowsCall' BY <1>0 DEF Close, Stage, Awaited, TypeOK, StageFollowsCall
<1>5. OpenUntilClosed' BY <1>0 DEF Close, Stage, Awaited, TypeOK, OpenUntilClosed, StageFollowsCall
<1>6. LateExplained' BY <1>0 DEF Close, Stage, Awaited, TypeOK, LateExplained, StageFollowsCall
<1> QED BY <1>1, <1>2, <1>3, <1>4, <1>5, <1>6 DEF IInv

LEMMA StreamEndsKeeps == ASSUME IInv, NEW c \in Call, StreamEnds(c) PROVE IInv'
<1> USE NoneIsNoCall
<1>0. TypeOK /\ OneLive /\ UsersStopFirst /\ StageFollowsCall /\ OpenUntilClosed /\ LateExplained BY DEF IInv
<1>1. TypeOK' BY <1>0 DEF StreamEnds, TypeOK
<1>2. OneLive' BY <1>0 DEF StreamEnds, TypeOK, OneLive
<1>3. UsersStopFirst' BY <1>0 DEF StreamEnds, TypeOK, UsersStopFirst
<1>4. StageFollowsCall' BY <1>0 DEF StreamEnds, TypeOK, StageFollowsCall
<1>5. OpenUntilClosed' BY <1>0 DEF StreamEnds, TypeOK, OpenUntilClosed
<1>6. LateExplained' BY <1>0 DEF StreamEnds, TypeOK, LateExplained
<1> QED BY <1>1, <1>2, <1>3, <1>4, <1>5, <1>6 DEF IInv

LEMMA HubEndsKeeps == ASSUME IInv, NEW c \in Call, HubEnds(c) PROVE IInv'
<1> USE NoneIsNoCall
<1>0. TypeOK /\ OneLive /\ UsersStopFirst /\ StageFollowsCall /\ OpenUntilClosed /\ LateExplained BY DEF IInv
<1>1. TypeOK' BY <1>0 DEF HubEnds, TypeOK
<1>2. OneLive' BY <1>0 DEF HubEnds, TypeOK, OneLive
<1>3. UsersStopFirst' BY <1>0 DEF HubEnds, TypeOK, UsersStopFirst
<1>4. StageFollowsCall' BY <1>0 DEF HubEnds, TypeOK, StageFollowsCall
<1>5. OpenUntilClosed' BY <1>0 DEF HubEnds, TypeOK, OpenUntilClosed
<1>6. LateExplained' BY <1>0 DEF HubEnds, TypeOK, LateExplained
<1> QED BY <1>1, <1>2, <1>3, <1>4, <1>5, <1>6 DEF IInv

LEMMA GetDeviceViewKeeps == ASSUME IInv, NEW c \in Call, GetDeviceView(c) PROVE IInv'
<1> USE NoneIsNoCall
<1>0. TypeOK /\ OneLive /\ UsersStopFirst /\ StageFollowsCall /\ OpenUntilClosed /\ LateExplained BY DEF IInv
<1>1. TypeOK' BY <1>0 DEF GetDeviceView, Viewable, TypeOK
<1>2. OneLive' BY <1>0 DEF GetDeviceView, Viewable, TypeOK, OneLive
<1>3. UsersStopFirst' BY <1>0 DEF GetDeviceView, Viewable, TypeOK, UsersStopFirst, OneLive
<1>4. StageFollowsCall' BY <1>0 DEF GetDeviceView, Viewable, TypeOK, StageFollowsCall
<1>5. OpenUntilClosed' BY <1>0 DEF GetDeviceView, Viewable, TypeOK, OpenUntilClosed
<1>6. LateExplained' BY <1>0 DEF GetDeviceView, Viewable, TypeOK, LateExplained, OneLive
<1> QED BY <1>1, <1>2, <1>3, <1>4, <1>5, <1>6 DEF IInv

LEMMA StepKeeps == IInv /\ [Next]_vars => IInv'
<1> SUFFICES ASSUME IInv, [Next]_vars PROVE IInv' OBVIOUS
<1>1. CASE UNCHANGED vars
      BY <1>1 DEF vars, IInv, TypeOK, OneLive, UsersStopFirst, StageFollowsCall, OpenUntilClosed, LateExplained
<1>2. CASE Disconnect
  <2>1. down' \in BOOLEAN BY <1>2 DEF Disconnect, IInv, TypeOK
  <2> QED BY <1>2, <2>1, TakeOutKeeps DEF Disconnect
<1>3. CASE Shutdown BY <1>3, TakeOutKeeps DEF Shutdown
<1>4. ASSUME NEW c \in Call, Connect(c) PROVE IInv'
      BY <1>4, ClearTunnelKeeps, StartTunnelKeeps, PollTunnelKeeps, DialKeeps, PublishKeeps, StartFramesKeeps DEF Connect, SetUp
<1>5. ASSUME NEW c \in Call, Stop(c) PROVE IInv'
      BY <1>5, WaitViewKeeps, CloseKeeps DEF Stop
<1>6. ASSUME NEW c \in Call, StreamEnds(c) \/ HubEnds(c) \/ GetDeviceView(c) PROVE IInv'
      BY <1>6, StreamEndsKeeps, HubEndsKeeps, GetDeviceViewKeeps
<1> QED BY <1>1, <1>2, <1>3, <1>4, <1>5, <1>6 DEF Next

LEMMA Inductive == Spec => []IInv
<1> QED BY InitHolds, StepKeeps, PTL DEF Spec

(* a.mu in Connect, Disconnect, shutdown and GetDeviceView, and the waits of *)
(* stopConnection: for any calls in any order, the one connection that is    *)
(* not being stopped is a.conn, its client is open, and no device view hub   *)
(* runs for another; a client is closed under its frame loop or its hub only *)
(* when the wait for it timed out.                                           *)
THEOREM ConnectionsInOrder == Spec => []LiveOrStopped
<1>1. IInv => LiveOrStopped BY DEF IInv, LiveOrStopped
<1> QED BY Inductive, <1>1, PTL

-----------------------------------------------------------------------------
(* What makes PhoneTunnelKept inductive: a call to a phone that no other one *)
(* has touched finds the port free, has it to itself from then on, and goes  *)
(* on after the dial with its own iproxy.                                    *)
InUse(c) == cpc[c] \in {"start", "poll", "dial", "publish"} \/ conn = c

Alone(c) == \A p \in Iproxy \ {c} : Dev[p] = Dev[c] => cpc[p] # "start"

TunnelUntilTouched ==
  \A c \in Iproxy \ touched :
    /\ InUse(c) => Alone(c) /\ tunnel[Dev[c]] \in {None, c}
    /\ cpc[c] = "publish" \/ conn = c => tunnel[Dev[c]] = c

(* What cleans up after c takes away no tunnel that another call to a phone  *)
(* has set up: an adb cleanup is about another device, an iproxy cleanup     *)
(* about its own process.                                                    *)
LEMMA CleanedKeepsOthers ==
  ASSUME TypeOK, NEW c \in Call, NEW o \in Iproxy \ {c}, tunnel[Dev[o]] = o
  PROVE  Cleaned(c)[Dev[o]] = o
<1>1. Dev[o] \in Device /\ tunnel \in [Device -> Call \cup {None}]
      BY StudioAssumption DEF Device, TypeOK
<1>2. Removes(c) => Dev[c] # Dev[o] BY DevAssumption DEF Removes
<1> QED BY <1>1, <1>2 DEF Cleaned

LEMMA CleanedFreesAtMost ==
  ASSUME TypeOK, NEW c \in Call, NEW o \in Iproxy, tunnel[Dev[o]] \in {None, o}
  PROVE  Cleaned(c)[Dev[o]] \in {None, o}
<1>1. Dev[o] \in Device /\ tunnel \in [Device -> Call \cup {None}]
      BY StudioAssumption DEF Device, TypeOK
<1> QED BY <1>1 DEF Cleaned

(* Another call's cleanup, with nothing else that concerns o.                *)
LEMMA OthersCleanup ==
  ASSUME TypeOK, TunnelUntilTouched, NEW c \in Call, NEW o \in (Iproxy \ {c}) \ touched,
         InUse(o), tunnel' = Cleaned(c), cpc' = [cpc EXCEPT ![c] = "done"] \/ cpc' = cpc, conn' = conn
  PROVE  /\ Alone(o)' /\ tunnel'[Dev[o]] \in {None, o}
         /\ cpc'[o] = "publish" \/ conn' = o => tunnel'[Dev[o]] = o
<1>1. Alone(o) /\ tunnel[Dev[o]] \in {None, o} /\ (cpc[o] = "publish" \/ conn = o => tunnel[Dev[o]] = o)
      BY DEF TunnelUntilTouched
<1>2. Alone(o)' BY <1>1, StudioAssumption DEF Alone, TypeOK
<1>3. tunnel'[Dev[o]] \in {None, o} BY <1>1, CleanedFreesAtMost
<1>4. cpc'[o] = cpc[o] BY StudioAssumption DEF TypeOK
<1>5. tunnel[Dev[o]] = o => tunnel'[Dev[o]] = o BY CleanedKeepsOthers
<1> QED BY <1>1, <1>2, <1>3, <1>4, <1>5

LEMMA ClearTunnelKeepsTunnels ==
  ASSUME IInv, TunnelUntilTouched, NEW c \in Call, ClearTunnel(c)
  PROVE  TunnelUntilTouched'
<1>0. TypeOK /\ conn # c /\ conn' = conn /\ cpc[c] = "idle"
      BY DEF IInv, OneLive, StageFollowsCall, ClearTunnel
<1> SUFFICES ASSUME NEW o \in Iproxy \ touched', InUse(o)'
             PROVE  /\ Alone(o)' /\ tunnel'[Dev[o]] \in {None, o}
                    /\ cpc'[o] = "publish" \/ conn' = o => tunnel'[Dev[o]] = o
    BY DEF TunnelUntilTouched, InUse
<1>1. o \in Call /\ Dev[o] \in Device /\ tunnel \in [Device -> Call \cup {None}] /\ Iproxy \subseteq Call
      BY <1>0, StudioAssumption DEF Device, TypeOK
<1>2. o \notin touched BY DEF ClearTunnel
<1>3. CASE c \in Wired
  <2>1. /\ tunnel' = Tunnelled(c, None) /\ cpc' = [cpc EXCEPT ![c] = "start"]
        /\ touched' = touched \cup Disturbed(c) \cup Overtaken(c)
        BY <1>3 DEF ClearTunnel, To
  <2>2. o # c => cpc'[o] = cpc[o] BY <1>0, <1>1, <2>1 DEF TypeOK
  <2>3. CASE o = c
    <3>1. \A p \in Iproxy \ {c} : Dev[p] = Dev[c] => cpc[p] # "start"
          BY <2>1, <2>3 DEF Overtaken, Disturbed
    <3>2. \A p \in Iproxy \ {c} : cpc'[p] = cpc[p] BY <1>0, <1>1, <2>1 DEF TypeOK
    <3>3. Alone(c)' BY <3>1, <3>2 DEF Alone
    <3>4. cpc'[c] = "start" BY <1>0, <2>1 DEF TypeOK
    <3>5. tunnel'[Dev[c]] = None BY <1>1, <2>1, <2>3 DEF Tunnelled
    <3> QED BY <1>0, <2>3, <3>3, <3>4, <3>5
  <2>4. CASE o # c
    <3>1. InUse(o) BY <1>0, <2>2, <2>4 DEF InUse
    <3>2. Dev[o] # Dev[c]
      <4>1. Dev[o] = Dev[c] => o \in Disturbed(c) BY <2>4, <3>1 DEF Disturbed, InUse
      <4> QED BY <2>1, <4>1
    <3>3. tunnel'[Dev[o]] = tunnel[Dev[o]] BY <1>1, <2>1, <3>2 DEF Tunnelled
    <3>4. Alone(o)'
      <4>1. Alone(o) BY <1>2, <3>1 DEF TunnelUntilTouched
      <4>2. \A p \in Iproxy : Dev[p] = Dev[o] => cpc'[p] = cpc[p]
            BY <1>0, <1>1, <2>1, <3>2 DEF TypeOK
      <4> QED BY <4>1, <4>2 DEF Alone
    <3> QED BY <1>0, <1>2, <2>2, <2>4, <3>1, <3>3, <3>4 DEF TunnelUntilTouched
  <2> QED BY <2>3, <2>4
<1>4. CASE c \notin Wired
  <2>1. tunnel' = tunnel /\ touched' = touched /\ cpc' = [cpc EXCEPT ![c] = "dial"] BY <1>4 DEF ClearTunnel, To
  <2>2. o # c BY <1>4 DEF Wired
  <2>3. cpc'[o] = cpc[o] BY <1>0, <1>1, <2>1, <2>2 DEF TypeOK
  <2>4. InUse(o) BY <1>0, <2>3 DEF InUse
  <2>5. Alone(o)'
        BY <1>0, <1>1, <1>2, <2>1, <2>4 DEF TunnelUntilTouched, Alone, TypeOK
  <2> QED BY <1>0, <1>2, <2>1, <2>3, <2>4, <2>5 DEF TunnelUntilTouched
<1> QED BY <1>3, <1>4

LEMMA StartTunnelKeepsTunnels ==
  ASSUME IInv, TunnelUntilTouched, NEW c \in Call, StartTunnel(c)
  PROVE  TunnelUntilTouched'
<1>0. TypeOK /\ conn # c /\ conn' = conn /\ cpc[c] = "start" /\ touched' = touched
      BY DEF IInv, OneLive, StageFollowsCall, StartTunnel
<1> SUFFICES ASSUME NEW o \in Iproxy \ touched, InUse(o)'
             PROVE  /\ Alone(o)' /\ tunnel'[Dev[o]] \in {None, o}
                    /\ cpc'[o] = "publish" \/ conn' = o => tunnel'[Dev[o]] = o
    BY <1>0 DEF TunnelUntilTouched, InUse
<1>1. /\ o \in Call /\ Dev[o] \in Device /\ tunnel \in [Device -> Call \cup {None}] /\ Iproxy \subseteq Call
      /\ Adb \subseteq Call /\ Adb \cap Iproxy = {} /\ None \notin Call
      BY <1>0, StudioAssumption DEF Device, TypeOK
<1>2. PICK where \in {"poll", "dial", "done"} : cpc' = [cpc EXCEPT ![c] = where] BY DEF StartTunnel, To
<1>3. InUse(o)
  <2>1. CASE o = c BY <1>0, <2>1 DEF InUse
  <2>2. CASE o # c BY <1>0, <1>1, <1>2, <2>2 DEF InUse, TypeOK
  <2> QED BY <2>1, <2>2
<1>4. Alone(o) /\ tunnel[Dev[o]] \in {None, o} /\ (cpc[o] = "publish" \/ conn = o => tunnel[Dev[o]] = o)
      BY <1>3 DEF TunnelUntilTouched
<1>5. Alone(o)' BY <1>0, <1>1, <1>2, <1>4 DEF Alone, TypeOK
<1>6. CASE o = c
  <2>1. tunnel' = tunnel \/ tunnel' = Tunnelled(c, c) BY DEF StartTunnel
  <2>2. tunnel'[Dev[c]] \in {None, c} BY <1>1, <1>4, <1>6, <2>1 DEF Tunnelled
  <2>3. cpc'[c] # "publish" BY <1>0, <1>2 DEF TypeOK
  <2> QED BY <1>0, <1>5, <1>6, <2>2, <2>3
<1>7. CASE o # c
  <2>1. cpc'[o] = cpc[o] BY <1>0, <1>1, <1>2, <1>7 DEF TypeOK
  <2>2. tunnel'[Dev[o]] = tunnel[Dev[o]]
    <3>1. CASE tunnel' = tunnel BY <3>1
    <3>2. CASE c \in Wired /\ tunnel' = Tunnelled(c, c)
      <4>1. Dev[c] # Dev[o]
        <5>1. CASE c \in Adb BY <5>1, DevAssumption
        <5>2. CASE c \in Iproxy BY <1>0, <1>4, <1>7, <5>2 DEF Alone
        <5> QED BY <3>2, <5>1, <5>2 DEF Wired
      <4> QED BY <1>1, <3>2, <4>1 DEF Tunnelled
    <3> QED BY <3>1, <3>2 DEF StartTunnel, Wired
  <2> QED BY <1>0, <1>4, <1>5, <2>1, <2>2
<1> QED BY <1>6, <1>7

LEMMA PollTunnelKeepsTunnels ==
  ASSUME IInv, TunnelUntilTouched, NEW c \in Call, PollTunnel(c)
  PROVE  TunnelUntilTouched'
<1>0. TypeOK /\ conn # c /\ conn' = conn /\ cpc[c] = "poll" /\ touched' = touched
      BY DEF IInv, OneLive, StageFollowsCall, PollTunnel
<1>1. CASE tunnel' = tunnel /\ To(c, "dial")
      BY <1>0, <1>1, StudioAssumption DEF To, TypeOK, TunnelUntilTouched, InUse, Alone
<1>2. CASE tunnel' = Cleaned(c) /\ To(c, "done")
  <2> SUFFICES ASSUME NEW o \in Iproxy \ touched, InUse(o)'
               PROVE  /\ Alone(o)' /\ tunnel'[Dev[o]] \in {None, o}
                      /\ cpc'[o] = "publish" \/ conn' = o => tunnel'[Dev[o]] = o
      BY <1>0 DEF TunnelUntilTouched, InUse
  <2>1. o \in Call BY StudioAssumption
  <2>2. o # c BY <1>0, <1>2, <2>1 DEF InUse, To, TypeOK
  <2>3. InUse(o) BY <1>0, <1>2, <2>1, <2>2 DEF InUse, To, TypeOK
  <2> QED BY <1>0, <1>2, <2>2, <2>3, OthersCleanup DEF To
<1> QED BY <1>1, <1>2 DEF PollTunnel

LEMMA DialKeepsTunnels ==
  ASSUME IInv, TunnelUntilTouched, NEW c \in Call, Dial(c)
  PROVE  TunnelUntilTouched'
<1>0. TypeOK /\ conn # c /\ conn' = conn /\ cpc[c] = "dial" /\ touched' = touched
      BY DEF IInv, OneLive, StageFollowsCall, Dial
<1>1. CASE tunnel' = tunnel /\ To(c, "publish") /\ (c \in Wired => tunnel[Dev[c]] # None)
  <2> SUFFICES ASSUME NEW o \in Iproxy \ touched, InUse(o)'
               PROVE  /\ Alone(o)' /\ tunnel'[Dev[o]] \in {None, o}
                      /\ cpc'[o] = "publish" \/ conn' = o => tunnel'[Dev[o]] = o
      BY <1>0 DEF TunnelUntilTouched, InUse
  <2>1. o \in Call /\ o \in Wired BY StudioAssumption DEF Wired
  <2>2. InUse(o)
    <3>1. CASE o = c BY <1>0, <3>1 DEF InUse
    <3>2. CASE o # c BY <1>0, <1>1, <2>1, <3>2 DEF InUse, To, TypeOK
    <3> QED BY <3>1, <3>2
  <2>3. Alone(o) /\ tunnel[Dev[o]] \in {None, o} /\ (cpc[o] = "publish" \/ conn = o => tunnel[Dev[o]] = o)
        BY <2>2 DEF TunnelUntilTouched
  <2>4. Alone(o)' BY <1>0, <1>1, <2>3, StudioAssumption DEF Alone, To, TypeOK
  <2>5. o = c => tunnel[Dev[o]] = o BY <1>1, <2>1, <2>3
  <2>6. o # c => cpc'[o] = cpc[o] BY <1>0, <1>1, <2>1 DEF To, TypeOK
  <2> QED BY <1>0, <1>1, <2>3, <2>4, <2>5, <2>6
<1>2. CASE tunnel' = Cleaned(c) /\ To(c, "done")
  <2> SUFFICES ASSUME NEW o \in Iproxy \ touched, InUse(o)'
               PROVE  /\ Alone(o)' /\ tunnel'[Dev[o]] \in {None, o}
                      /\ cpc'[o] = "publish" \/ conn' = o => tunnel'[Dev[o]] = o
      BY <1>0 DEF TunnelUntilTouched, InUse
  <2>1. o \in Call BY StudioAssumption
  <2>2. o # c BY <1>0, <1>2, <2>1 DEF InUse, To, TypeOK
  <2>3. InUse(o) BY <1>0, <1>2, <2>1, <2>2 DEF InUse, To, TypeOK
  <2> QED BY <1>0, <1>2, <2>2, <2>3, OthersCleanup DEF To
<1> QED BY <1>1, <1>2 DEF Dial

LEMMA StepKeepsTunnels ==
  ASSUME IInv, TunnelUntilTouched, [Next]_vars
  PROVE  TunnelUntilTouched'
<1>0. TypeOK /\ None \notin Call BY NoneIsNoCall DEF IInv
<1>1. CASE UNCHANGED vars BY <1>1 DEF vars, TunnelUntilTouched, InUse, Alone
<1>2. CASE Disconnect \/ Shutdown
      BY <1>0, <1>2, StudioAssumption DEF Disconnect, Shutdown, TakeOut, TunnelUntilTouched, InUse, Alone
<1>3. ASSUME NEW c \in Call, SetUp(c) \/ Dial(c) PROVE TunnelUntilTouched'
      BY <1>3, ClearTunnelKeepsTunnels, StartTunnelKeepsTunnels, PollTunnelKeepsTunnels, DialKeepsTunnels DEF SetUp
<1>5. ASSUME NEW c \in Call, Publish(c) PROVE TunnelUntilTouched'
      BY <1>0, <1>5, StudioAssumption DEF Publish, To, TypeOK, TunnelUntilTouched, InUse, Alone
<1>6. ASSUME NEW c \in Call, StartFrames(c) PROVE TunnelUntilTouched'
      BY <1>0, <1>6, StudioAssumption DEF StartFrames, To, TypeOK, TunnelUntilTouched, InUse, Alone
<1>7. ASSUME NEW c \in Call, Close(c) PROVE TunnelUntilTouched'
  <2>1. /\ conn # c /\ cpc[c] \notin {"start", "poll", "dial", "publish"}
        /\ cpc' = cpc /\ conn' = conn /\ touched' = touched /\ tunnel' = Cleaned(c)
        BY <1>7 DEF Close, IInv, OneLive, StageFollowsCall
  <2> SUFFICES ASSUME NEW o \in Iproxy \ touched, InUse(o)'
               PROVE  /\ Alone(o)' /\ tunnel'[Dev[o]] \in {None, o}
                      /\ cpc'[o] = "publish" \/ conn' = o => tunnel'[Dev[o]] = o
      BY <2>1 DEF TunnelUntilTouched, InUse
  <2>2. InUse(o) /\ o # c BY <2>1 DEF InUse
  <2> QED BY <1>0, <2>1, <2>2, OthersCleanup
<1>8. ASSUME NEW c \in Call, WaitView(c) \/ StreamEnds(c) \/ HubEnds(c) \/ GetDeviceView(c)
      PROVE  TunnelUntilTouched'
      BY <1>8 DEF WaitView, StreamEnds, HubEnds, GetDeviceView, TunnelUntilTouched, InUse, Alone
<1> QED BY <1>1, <1>2, <1>3, <1>5, <1>6, <1>7, <1>8 DEF Next, Connect, Stop

(* EnsureIProxy and its cleanup: for any calls to any phones, with their     *)
(* set-ups overlapping in any way, the iproxy of the current connection      *)
(* runs, unless another call to that phone has killed the iproxys since this *)
(* one did, or was about to start its own when this one did.                 *)
THEOREM TunnelKept == Spec => []PhoneTunnelKept
<1>1. Init => TunnelUntilTouched
      BY StudioAssumption DEF Init, TunnelUntilTouched, InUse
<1>2. IInv /\ TunnelUntilTouched /\ [Next]_vars => TunnelUntilTouched'
      BY StepKeepsTunnels
<1>3. TunnelUntilTouched => PhoneTunnelKept
      BY DEF TunnelUntilTouched, PhoneTunnelKept, InUse
<1> QED BY Inductive, <1>1, <1>2, <1>3, PTL DEF Spec
-----------------------------------------------------------------------------

LEMMA NoRunIsOutside == NoRun \notin Run /\ Async \subseteq Run
BY RunsAssumption

LEMMA Parts ==
  ASSUME RunsInv
  PROVE  RunsTypeOK /\ TrackTellsRun /\ EndIsTold /\ CancelsWhatItSaw /\ AnsweredOnce
BY DEF RunsInv, RunsApart

LEMMA Together ==
  ASSUME RunsTypeOK', TrackTellsRun', EndIsTold', CancelsWhatItSaw', AnsweredOnce'
  PROVE  RunsInv'
BY DEF RunsInv, RunsApart

LEMMA RunsInitHolds == RunsInit => RunsInv
<1> SUFFICES ASSUME RunsInit PROVE RunsInv OBVIOUS
<1>1. RunsTypeOK BY NoRunIsOutside DEF RunsInit, RunsTypeOK, NoOutcome
<1>2. RunsApart BY DEF RunsInit, RunsApart, TrackTellsRun, EndIsTold, CancelsWhatItSaw
<1>3. AnsweredOnce BY DEF RunsInit, AnsweredOnce
<1> QED BY <1>1, <1>2, <1>3 DEF RunsInv

(* What the selections of a scope are made of.                               *)
LEMMA PicksType ==
  ASSUME RunsTypeOK, NEW p \in Picks
  PROVE  p[1] \in {"none", "all", "line", "tag", "failed"} /\ p[2] \subseteq Test
<1>1. StillFailed \subseteq Test BY DEF RunsTypeOK, StillFailed
<1>2. CASE p = <<"all", file>> BY <1>2 DEF RunsTypeOK
<1>3. CASE p \in {<<"line", {t}>> : t \in file} BY <1>3 DEF RunsTypeOK
<1>4. CASE p \in {<<"tag", s>> : s \in SUBSET file \ {{}}} BY <1>4 DEF RunsTypeOK
<1>5. CASE p = <<"failed", StillFailed>> BY <1>1, <1>5
<1> QED BY <1>2, <1>3, <1>4, <1>5 DEF Picks

LEMMA TrackType ==
  ASSUME RunsTypeOK, NEW r \in Run
  PROVE  /\ Finished \in [run : Run \cup {NoRun}, running : BOOLEAN, finished : BOOLEAN, refused : Run \cup {NoRun}]
         /\ Refused(r) \in [run : Run \cup {NoRun}, running : BOOLEAN, finished : BOOLEAN, refused : Run \cup {NoRun}]
         /\ Finished.run = track.run /\ ~Finished.running /\ Finished.finished
         /\ Refused(r).run = track.run /\ ~Refused(r).running /\ Refused(r).finished /\ Refused(r).refused = r
BY DEF RunsTypeOK, Finished, Refused

LEMMA ClaimRunKeeps == ASSUME RunsInv, NEW r \in Run, ClaimRun(r) PROVE RunsInv'
<1> USE NoRunIsOutside, Parts
<1>1. RunsTypeOK' BY DEF ClaimRun, At, SlotFree, calls, tests, cancel, RunsTypeOK
<1>2. TrackTellsRun' BY DEF ClaimRun, At, SlotFree, calls, tests, cancel, RunsTypeOK, TrackTellsRun
<1>3. EndIsTold' BY DEF ClaimRun, At, SlotFree, calls, tests, cancel, RunsTypeOK, TrackTellsRun, EndIsTold, AnsweredOnce
<1>4. CancelsWhatItSaw' BY DEF ClaimRun, At, SlotFree, calls, tests, cancel, CancelsWhatItSaw
<1>5. AnsweredOnce' BY DEF ClaimRun, At, SlotFree, calls, tests, cancel, RunsTypeOK, AnsweredOnce, TrackTellsRun
<1> QED BY <1>1, <1>2, <1>3, <1>4, <1>5, Together

LEMMA ResolveKeeps == ASSUME RunsInv, NEW r \in Run, Resolve(r) PROVE RunsInv'
<1> USE NoRunIsOutside, Parts
<1>1. RunsTypeOK' BY PicksType DEF Resolve, At, tests, cancel, RunsTypeOK
<1>2. TrackTellsRun' BY DEF Resolve, At, tests, cancel, RunsTypeOK, TrackTellsRun
<1>3. EndIsTold' BY DEF Resolve, At, tests, cancel, RunsTypeOK, TrackTellsRun, EndIsTold, AnsweredOnce
<1>4. CancelsWhatItSaw' BY DEF Resolve, At, tests, cancel, CancelsWhatItSaw
<1>5. AnsweredOnce' BY DEF Resolve, At, tests, cancel, RunsTypeOK, AnsweredOnce, TrackTellsRun
<1> QED BY <1>1, <1>2, <1>3, <1>4, <1>5, Together

LEMMA ScopeRefusedKeeps == ASSUME RunsInv, NEW r \in Run, ScopeRefused(r) PROVE RunsInv'
<1> USE NoRunIsOutside, Parts
<1>1. RunsTypeOK' BY DEF ScopeRefused, At, calls, tests, cancel, RunsTypeOK
<1>2. TrackTellsRun' BY DEF ScopeRefused, At, calls, tests, cancel, RunsTypeOK, TrackTellsRun
<1>3. EndIsTold' BY DEF ScopeRefused, At, calls, tests, cancel, RunsTypeOK, TrackTellsRun, EndIsTold, AnsweredOnce
<1>4. CancelsWhatItSaw' BY DEF ScopeRefused, At, calls, tests, cancel, CancelsWhatItSaw
<1>5. AnsweredOnce' BY DEF ScopeRefused, At, calls, tests, cancel, RunsTypeOK, AnsweredOnce, TrackTellsRun
<1> QED BY <1>1, <1>2, <1>3, <1>4, <1>5, Together

LEMMA ExecuteKeeps == ASSUME RunsInv, NEW r \in Run, Execute(r) PROVE RunsInv'
<1> USE NoRunIsOutside, Parts
<1>1. RunsTypeOK' BY DEF Execute, At, calls, tests, cancel, RunsTypeOK
<1>2. TrackTellsRun' BY DEF Execute, At, calls, tests, cancel, RunsTypeOK, TrackTellsRun
<1>3. EndIsTold' BY DEF Execute, At, calls, tests, cancel, RunsTypeOK, TrackTellsRun, EndIsTold, AnsweredOnce
<1>4. CancelsWhatItSaw' BY DEF Execute, At, calls, tests, cancel, CancelsWhatItSaw
<1>5. AnsweredOnce' BY DEF Execute, At, calls, tests, cancel, RunsTypeOK, AnsweredOnce, TrackTellsRun
<1> QED BY <1>1, <1>2, <1>3, <1>4, <1>5, Together

LEMMA NotConnectedKeeps == ASSUME RunsInv, NEW r \in Run, NotConnected(r) PROVE RunsInv'
<1> USE NoRunIsOutside, Parts
<1>1. RunsTypeOK' BY TrackType DEF NotConnected, At, calls, tests, cancel, RunsTypeOK
<1>2. TrackTellsRun' BY TrackType DEF NotConnected, At, calls, tests, cancel, RunsTypeOK, TrackTellsRun
<1>3. EndIsTold' BY TrackType DEF NotConnected, At, calls, tests, cancel, RunsTypeOK, TrackTellsRun, EndIsTold, AnsweredOnce
<1>4. CancelsWhatItSaw' BY DEF NotConnected, At, calls, tests, cancel, CancelsWhatItSaw
<1>5. AnsweredOnce' BY DEF NotConnected, At, calls, tests, cancel, RunsTypeOK, AnsweredOnce, TrackTellsRun
<1> QED BY <1>1, <1>2, <1>3, <1>4, <1>5, Together

LEMMA ReadFileKeeps == ASSUME RunsInv, NEW r \in Run, ReadFile(r) PROVE RunsInv'
<1> USE NoRunIsOutside, Parts
<1>1. RunsTypeOK'
  <2>1. left' \subseteq Test
    <3>1. file \subseteq Test BY DEF RunsTypeOK
    <3>2. left' \subseteq file BY DEF ReadFile, PickedAgain
    <3> QED BY <3>1, <3>2
  <2> QED BY <2>1 DEF ReadFile, At, NoOutcome, calls, cancel, RunsTypeOK
<1>2. TrackTellsRun' BY DEF ReadFile, At, NoOutcome, calls, cancel, RunsTypeOK, TrackTellsRun
<1>3. EndIsTold' BY DEF ReadFile, At, NoOutcome, calls, cancel, RunsTypeOK, TrackTellsRun, EndIsTold, AnsweredOnce
<1>4. CancelsWhatItSaw' BY DEF ReadFile, At, NoOutcome, calls, cancel, CancelsWhatItSaw
<1>5. AnsweredOnce' BY DEF ReadFile, At, NoOutcome, calls, cancel, RunsTypeOK, AnsweredOnce, TrackTellsRun
<1> QED BY <1>1, <1>2, <1>3, <1>4, <1>5, Together

LEMMA RunTestKeeps == ASSUME RunsInv, NEW r \in Run, RunTest(r) PROVE RunsInv'
<1> USE NoRunIsOutside, Parts
<1>1. RunsTypeOK' BY DEF RunTest, calls, cancel, RunsTypeOK
<1>2. TrackTellsRun' BY DEF RunTest, calls, cancel, RunsTypeOK, TrackTellsRun
<1>3. EndIsTold' BY DEF RunTest, calls, cancel, RunsTypeOK, TrackTellsRun, EndIsTold, AnsweredOnce
<1>4. CancelsWhatItSaw' BY DEF RunTest, calls, cancel, CancelsWhatItSaw
<1>5. AnsweredOnce' BY DEF RunTest, calls, cancel, RunsTypeOK, AnsweredOnce, TrackTellsRun
<1> QED BY <1>1, <1>2, <1>3, <1>4, <1>5, Together

(* Both ways in which a run comes to its end.                                *)
LEMMA EndsKeeps ==
  ASSUME RunsInv, NEW r \in Run, rpc[r] = "run", NEW o \in [Test -> {"none", "passed", "failed"}], Ends(r, o),
         last' \in [Test -> {"none", "passed", "failed", "lost"}]
  PROVE  RunsInv'
<1> USE NoRunIsOutside, Parts
<1>0. Recorded(o) \in [Test -> {"unknown", "passed", "failed"}] BY DEF Recorded, RunsTypeOK
<1>1. RunsTypeOK' BY <1>0, TrackType DEF Ends, At, NoOutcome, calls, cancel, RunsTypeOK
<1>2. TrackTellsRun' BY TrackType DEF Ends, At, NoOutcome, calls, cancel, RunsTypeOK, TrackTellsRun
<1>3. EndIsTold'
  <2> SUFFICES ASSUME NEW q \in answered, rpc'[q] = "release" PROVE track'.finished /\ (track'.run = q \/ track'.refused = q)
    BY DEF EndIsTold, Ends, calls
  <2>1. track.running /\ track.run = r /\ track' = Finished /\ slot = r BY DEF Ends, TrackTellsRun
  <2>2. track'.finished /\ track'.run = r BY <2>1, TrackType
  <2>3. q = r
    <3>1. q \in Run BY RunsAssumption DEF RunsTypeOK
    <3>2. CASE q # r
      <4>1. rpc[q] = "release" BY <3>1, <3>2 DEF Ends, At, RunsTypeOK
      <4> QED BY <2>1, <3>1, <3>2, <4>1 DEF TrackTellsRun
    <3> QED BY <3>2
  <2> QED BY <2>2, <2>3
<1>4. CancelsWhatItSaw' BY DEF Ends, At, NoOutcome, calls, cancel, CancelsWhatItSaw
<1>5. AnsweredOnce' BY DEF Ends, At, NoOutcome, calls, cancel, RunsTypeOK, AnsweredOnce, TrackTellsRun
<1> QED BY <1>1, <1>2, <1>3, <1>4, <1>5, Together

LEMMA RunEndsKeeps == ASSUME RunsInv, NEW r \in Run, RunEnds(r) PROVE RunsInv'
<1>1. got \in [Test -> {"none", "passed", "failed"}] BY Parts DEF RunsTypeOK
<1>2. last' \in [Test -> {"none", "passed", "failed", "lost"}] BY Parts DEF RunEnds, RunsTypeOK
<1> QED BY <1>1, <1>2, EndsKeeps DEF RunEnds

LEMMA BeforeAllFailsKeeps == ASSUME RunsInv, NEW r \in Run, BeforeAllFails(r) PROVE RunsInv'
<1> DEFINE o == [t \in Test |-> IF t \in left THEN "failed" ELSE "none"]
<1>1. o \in [Test -> {"none", "passed", "failed"}] OBVIOUS
<1>2. last' \in [Test -> {"none", "passed", "failed", "lost"}] BY Parts DEF BeforeAllFails, RunsTypeOK
<1>3. rpc[r] = "run" /\ Ends(r, o) BY DEF BeforeAllFails
<1> HIDE DEF o
<1> QED BY <1>1, <1>2, <1>3, EndsKeeps

LEMMA RunFailsKeeps == ASSUME RunsInv, NEW r \in Run, RunFails(r) PROVE RunsInv'
<1> USE NoRunIsOutside, Parts
<1>1. RunsTypeOK' BY TrackType DEF RunFails, At, NoOutcome, calls, cancel, RunsTypeOK
<1>2. TrackTellsRun' BY TrackType DEF RunFails, At, NoOutcome, calls, cancel, RunsTypeOK, TrackTellsRun
<1>3. EndIsTold' BY TrackType, SMTT(20) DEF RunFails, At, NoOutcome, calls, cancel, RunsTypeOK, TrackTellsRun, EndIsTold, AnsweredOnce
<1>4. CancelsWhatItSaw' BY DEF RunFails, At, NoOutcome, calls, cancel, CancelsWhatItSaw
<1>5. AnsweredOnce' BY DEF RunFails, At, NoOutcome, calls, cancel, RunsTypeOK, AnsweredOnce, TrackTellsRun
<1> QED BY <1>1, <1>2, <1>3, <1>4, <1>5, Together

LEMMA ReleaseRunKeeps == ASSUME RunsInv, NEW r \in Run, ReleaseRun(r) PROVE RunsInv'
<1> USE NoRunIsOutside, Parts
<1>1. RunsTypeOK' BY DEF ReleaseRun, At, Freed, tests, RunsTypeOK
<1>2. TrackTellsRun' BY DEF ReleaseRun, At, Freed, tests, RunsTypeOK, TrackTellsRun
<1>3. EndIsTold' BY DEF ReleaseRun, At, Freed, tests, RunsTypeOK, TrackTellsRun, EndIsTold, AnsweredOnce
<1>4. CancelsWhatItSaw' BY DEF ReleaseRun, At, Freed, tests, CancelsWhatItSaw
<1>5. AnsweredOnce' BY DEF ReleaseRun, At, Freed, tests, RunsTypeOK, AnsweredOnce, TrackTellsRun
<1> QED BY <1>1, <1>2, <1>3, <1>4, <1>5, Together

(* CancelRun, the connection and the editor touch no run.                    *)
LEMMA WindowKeeps == ASSUME RunsInv, CancelLooks \/ CancelCalls \/ Reconnect \/ Edit PROVE RunsInv'
<1> USE Parts
<1>1. RunsTypeOK' BY ZenonT(40) DEF CancelLooks, CancelCalls, ReadOnce, Reconnect, Edit, calls, tests, cancel, RunsTypeOK
<1>2. TrackTellsRun' BY DEF CancelLooks, CancelCalls, Reconnect, Edit, calls, TrackTellsRun
<1>3. EndIsTold' BY DEF CancelLooks, CancelCalls, Reconnect, Edit, calls, EndIsTold
<1>4. CancelsWhatItSaw'
  <2>1. CASE CancelLooks BY <2>1 DEF CancelLooks, CancelsWhatItSaw
  <2>2. CASE CancelCalls BY <2>2 DEF CancelCalls, ReadOnce, CancelsWhatItSaw, AnsweredOnce
  <2>3. CASE Reconnect BY <2>3 DEF Reconnect, cancel, CancelsWhatItSaw
  <2>4. CASE Edit BY <2>4 DEF Edit, cancel, CancelsWhatItSaw
  <2> QED BY <2>1, <2>2, <2>3, <2>4
<1>5. AnsweredOnce' BY DEF CancelLooks, CancelCalls, Reconnect, Edit, calls, cancel, AnsweredOnce
<1> QED BY <1>1, <1>2, <1>3, <1>4, <1>5, Together

LEMMA StutterKeeps == ASSUME RunsInv, UNCHANGED runVars PROVE RunsInv'
BY DEF runVars, calls, tests, cancel, RunsInv, RunsApart, RunsTypeOK, TrackTellsRun, EndIsTold, CancelsWhatItSaw, AnsweredOnce

LEMMA RunStepKeeps == RunsInv /\ [RunsNext]_runVars => RunsInv'
<1> SUFFICES ASSUME RunsInv, [RunsNext]_runVars PROVE RunsInv' OBVIOUS
<1>1. CASE UNCHANGED runVars BY <1>1, StutterKeeps
<1>2. CASE CancelLooks \/ CancelCalls \/ Reconnect \/ Edit BY <1>2, WindowKeeps
<1>3. ASSUME NEW r \in Run, ClaimRun(r) \/ RunStep(r) PROVE RunsInv'
      BY <1>3, ClaimRunKeeps, ResolveKeeps, ScopeRefusedKeeps, ExecuteKeeps, NotConnectedKeeps, ReadFileKeeps,
         RunTestKeeps, RunEndsKeeps, BeforeAllFailsKeeps, RunFailsKeeps, ReleaseRunKeeps DEF RunStep
<1> QED BY <1>1, <1>2, <1>3 DEF RunsNext

(* claimRun, the tracker, CancelRun: for any calls and tests, and whatever   *)
(* becomes of the file and the connection, runs are one at a time, RunState  *)
(* and CancelRun are about that run, and its end is told.                    *)
THEOREM RunsAreApart == RunsSpec => []RunsApart
<1>1. RunsInv => RunsApart BY DEF RunsInv
<1> QED BY RunsInitHolds, RunStepKeeps, <1>1, PTL DEF RunsSpec

LEMMA Invariance == RunsSpec => []RunsInv
BY RunsInitHolds, RunStepKeeps, PTL DEF RunsSpec

-----------------------------------------------------------------------------
(* What FailedAreChosen rests on: how the ledger and the outcomes of the run *)
(* under way stand to how each test really ended last.                       *)

(* Of a test that did not run since, the ledger knows whether it failed; of  *)
(* one whose last outcome was dropped it may be behind.                      *)
LedgerTellsLast ==
  \A t \in Test : got[t] = "none" =>
    /\ ledger[t] = "failed" => last[t] \in {"failed", "lost"}
    /\ last[t] = "failed" => ledger[t] = "failed"

OutcomeIsLast == \A t \in Test : got[t] # "none" => last[t] = got[t]

(* There are outcomes only while the run that has the slot runs.             *)
OutcomesWhileRunning == (\E t \in Test : got[t] # "none") => slot # NoRun /\ rpc[slot] = "run"

ScopeSinceResolve == \A r \in Run : rpc[r] \in {"idle", "resolve"} => scope[r] = "none"

ChosenFailed ==
  \A r \in Run : scope[r] = "failed" /\ rpc[r] \in {"execute", "start"} =>
    \A t \in sel[r] : last[t] \in {"failed", "lost"}

LedgerInv ==
  /\ LedgerTellsLast
  /\ OutcomeIsLast
  /\ OutcomesWhileRunning
  /\ ScopeSinceResolve
  /\ ChosenFailed

LEMMA LedgerStart == RunsInit => LedgerInv
BY DEF RunsInit, NoOutcome, LedgerInv, LedgerTellsLast, OutcomeIsLast, OutcomesWhileRunning,
   ScopeSinceResolve, ChosenFailed

(* The run that has the slot is the only one that is under way.              *)
LEMMA OneUnderWay ==
  ASSUME RunsInv, NEW r \in Run, rpc[r] # "idle"
  PROVE  slot = r /\ \A o \in Run \ {r} : rpc[o] = "idle"
<1>1. RunsTypeOK /\ TrackTellsRun BY Parts
<1> QED BY <1>1 DEF RunsTypeOK, TrackTellsRun

(* No outcome is there before a run runs and after it ended.                 *)
LEMMA NoOutcomeYet ==
  ASSUME RunsInv, LedgerInv, NEW r \in Run, rpc[r] \notin {"idle", "run"}
  PROVE  \A t \in Test : got[t] = "none"
<1>1. slot = r BY OneUnderWay
<1> QED BY <1>1 DEF LedgerInv, OutcomesWhileRunning

LEMMA ResolveChooses ==
  ASSUME RunsInv, LedgerInv, NEW r \in Run, Resolve(r), scope'[r] = "failed"
  PROVE  /\ sel'[r] = StillFailed
         /\ {t \in file : last[t] = "failed"} \subseteq sel'[r]
         /\ \A t \in sel'[r] : last'[t] \in {"failed", "lost"}
<1>1. RunsTypeOK /\ \A t \in Test : got[t] = "none"
      BY Parts, NoOutcomeYet DEF Resolve
<1>2. PICK p \in Picks : scope'[r] = p[1] /\ sel'[r] = p[2]
      BY <1>1 DEF Resolve, RunsTypeOK
<1>3. sel'[r] = StillFailed BY <1>2 DEF Picks
<1>4. last' = last BY DEF Resolve, tests
<1> QED BY <1>1, <1>3, <1>4 DEF StillFailed, RunsTypeOK, LedgerInv, LedgerTellsLast

(* Resolving, and the steps of a run that no test notices.                   *)
LEMMA ControlKeepsLedger ==
  ASSUME RunsInv, LedgerInv, NEW r \in Run,
         ClaimRun(r) \/ Resolve(r) \/ ScopeRefused(r) \/ Execute(r) \/ NotConnected(r) \/ ReleaseRun(r)
  PROVE  LedgerInv'
<1>0. /\ RunsTypeOK /\ TrackTellsRun /\ LedgerTellsLast /\ OutcomeIsLast /\ ScopeSinceResolve /\ ChosenFailed
      /\ UNCHANGED <<got, ledger, last>>
      BY Parts DEF LedgerInv, ClaimRun, Resolve, ScopeRefused, Execute, NotConnected, ReleaseRun, tests
<1>1. \A t \in Test : got[t] = "none"
  <2>1. CASE ClaimRun(r) BY <2>1 DEF ClaimRun, SlotFree, LedgerInv, OutcomesWhileRunning
  <2>2. CASE ~ClaimRun(r)
        BY <2>2, NoOutcomeYet DEF Resolve, ScopeRefused, Execute, NotConnected, ReleaseRun
  <2> QED BY <2>1, <2>2
<1>2. LedgerTellsLast' /\ OutcomeIsLast' BY <1>0 DEF LedgerTellsLast, OutcomeIsLast
<1>3. OutcomesWhileRunning' BY <1>0, <1>1 DEF OutcomesWhileRunning
<1>4. \A o \in Run \ {r} : rpc'[o] = rpc[o] /\ scope'[o] = scope[o] /\ sel'[o] = sel[o]
      BY <1>0 DEF ClaimRun, Resolve, ScopeRefused, Execute, NotConnected, ReleaseRun, At, calls, RunsTypeOK
<1>5. rpc'[r] \in {"idle", "resolve"} => scope'[r] = "none"
      BY <1>0 DEF ClaimRun, Resolve, ScopeRefused, Execute, NotConnected, ReleaseRun, At, calls, RunsTypeOK,
         ScopeSinceResolve
<1>6. scope'[r] = "failed" /\ rpc'[r] \in {"execute", "start"} => \A t \in sel'[r] : last'[t] \in {"failed", "lost"}
  <2>1. CASE Resolve(r) BY <2>1, ResolveChooses
  <2>2. CASE ~Resolve(r)
        BY <1>0, <2>2 DEF ClaimRun, ScopeRefused, Execute, NotConnected, ReleaseRun, At, calls, RunsTypeOK, ChosenFailed
  <2> QED BY <2>1, <2>2
<1>7. ScopeSinceResolve' BY <1>0, <1>4, <1>5 DEF ScopeSinceResolve
<1>8. ChosenFailed' BY <1>0, <1>4, <1>6 DEF ChosenFailed
<1> QED BY <1>2, <1>3, <1>7, <1>8 DEF LedgerInv

(* Where tests run, no run is between its scope and its tests.               *)
LEMMA RunKeepsLedger ==
  ASSUME RunsInv, LedgerInv, NEW r \in Run,
         ReadFile(r) \/ RunTest(r) \/ RunEnds(r) \/ BeforeAllFails(r) \/ RunFails(r)
  PROVE  LedgerInv'
<1>0. /\ RunsTypeOK /\ LedgerTellsLast /\ OutcomeIsLast /\ ScopeSinceResolve
      /\ UNCHANGED <<slot, scope, sel>>
      BY Parts DEF LedgerInv, ReadFile, RunTest, RunEnds, BeforeAllFails, Ends, RunFails, calls
<1>1. /\ rpc[r] \in {"start", "run"} /\ slot = r /\ \A o \in Run \ {r} : rpc[o] = "idle"
      /\ \A o \in Run \ {r} : rpc'[o] = "idle"
      /\ rpc'[r] \in {"run", "release"} /\ r # NoRun
  <2>1. rpc[r] \in {"start", "run"}
        BY DEF ReadFile, RunTest, RunEnds, BeforeAllFails, RunFails
  <2> QED BY <1>0, <2>1, OneUnderWay, NoRunIsOutside
          DEF ReadFile, RunTest, RunEnds, BeforeAllFails, Ends, RunFails, At, RunsTypeOK
<1>2. ScopeSinceResolve' /\ ChosenFailed'
      BY <1>0, <1>1 DEF ScopeSinceResolve, ChosenFailed
<1>3. CASE ReadFile(r)
  <2>1. UNCHANGED <<ledger, last>> /\ \A t \in Test : got[t] = "none" /\ got'[t] = "none"
        BY <1>3, NoOutcomeYet DEF ReadFile, NoOutcome
  <2> QED BY <1>0, <1>2, <2>1 DEF LedgerInv, LedgerTellsLast, OutcomeIsLast, OutcomesWhileRunning
<1>4. CASE RunTest(r)
  <2>1. rpc'[slot'] = "run" /\ slot' # NoRun BY <1>0, <1>1, <1>4 DEF RunTest
  <2>2. LedgerTellsLast' /\ OutcomeIsLast'
        BY <1>0, <1>4 DEF RunTest, RunsTypeOK, LedgerTellsLast, OutcomeIsLast
  <2> QED BY <1>2, <2>1, <2>2 DEF LedgerInv, OutcomesWhileRunning
<1>5. CASE RunEnds(r) \/ BeforeAllFails(r) \/ RunFails(r)
  <2>1. \A t \in Test : got'[t] = "none" BY <1>5 DEF RunEnds, BeforeAllFails, Ends, RunFails, NoOutcome
  <2>2. LedgerTellsLast'
    <3>1. CASE RunEnds(r)
      <4>1. last' = last /\ \A t \in Test : ledger'[t] = IF got[t] = "none" THEN ledger[t] ELSE got[t]
            BY <3>1 DEF RunEnds, Ends, Recorded
      <4> QED BY <1>0, <4>1 DEF LedgerTellsLast, OutcomeIsLast
    <3>2. CASE BeforeAllFails(r)
      <4>1. \A t \in Test : got[t] = "none" BY <3>2 DEF BeforeAllFails, NoOutcome
      <4>2. \A t \in Test : /\ last'[t] = IF t \in left THEN "failed" ELSE last[t]
                            /\ ledger'[t] = IF t \in left THEN "failed" ELSE ledger[t]
            BY <3>2 DEF BeforeAllFails, Ends, Recorded
      <4> QED BY <1>0, <4>1, <4>2 DEF LedgerTellsLast
    <3>3. CASE RunFails(r)
      <4>1. ledger' = ledger /\ \A t \in Test : last'[t] = IF got[t] = "none" THEN last[t] ELSE "lost"
            BY <3>3 DEF RunFails
      <4> QED BY <1>0, <4>1 DEF LedgerTellsLast
    <3> QED BY <1>5, <3>1, <3>2, <3>3
  <2> QED BY <1>2, <2>1, <2>2 DEF LedgerInv, OutcomeIsLast, OutcomesWhileRunning
<1> QED BY <1>3, <1>4, <1>5

LEMMA LedgerKeeps == RunsInv /\ LedgerInv /\ [RunsNext]_runVars => LedgerInv'
<1> SUFFICES ASSUME RunsInv, LedgerInv, [RunsNext]_runVars PROVE LedgerInv' OBVIOUS
<1>1. CASE CancelLooks \/ CancelCalls \/ Reconnect \/ Edit \/ UNCHANGED runVars
  <2>1. UNCHANGED <<rpc, slot, scope, sel, got, ledger, last>>
        BY <1>1 DEF CancelLooks, CancelCalls, Reconnect, Edit, runVars, calls, tests
  <2> QED BY <2>1 DEF LedgerInv, LedgerTellsLast, OutcomeIsLast, OutcomesWhileRunning, ScopeSinceResolve, ChosenFailed
<1>2. ASSUME NEW r \in Run, ClaimRun(r) \/ RunStep(r) PROVE LedgerInv'
      BY <1>2, ControlKeepsLedger, RunKeepsLedger DEF RunStep
<1> QED BY <1>1, <1>2 DEF RunsNext

(* What a step says of a run of the failed tests.                            *)
LEMMA ChoiceStep ==
  ASSUME RunsInv, LedgerInv, [RunsNext]_runVars, NEW r \in Run, scope'[r] = "failed"
  PROVE  /\ rpc[r] = "resolve" => {t \in file : last[t] = "failed"} \subseteq sel'[r]
         /\ rpc'[r] \in {"execute", "start"} => \A t \in sel'[r] : last'[t] \in {"failed", "lost"}
<1>1. ASSUME rpc[r] = "resolve" PROVE {t \in file : last[t] = "failed"} \subseteq sel'[r]
  <2>1. scope[r] = "none" BY <1>1 DEF LedgerInv, ScopeSinceResolve
  <2>2. scope'[r] # scope[r] BY <2>1
  <2>3. RunsTypeOK BY Parts
  <2>4. ASSUME NEW o \in Run, ClaimRun(o) \/ RunStep(o) PROVE Resolve(r)
    <3>1. Resolve(o) \/ ReleaseRun(o)
          BY <2>2, <2>4 DEF RunStep, ClaimRun, ScopeRefused, Execute, NotConnected, ReadFile, RunTest, RunEnds,
             BeforeAllFails, Ends, RunFails, calls
    <3>2. o = r BY <2>2, <2>3, <3>1 DEF Resolve, ReleaseRun, RunsTypeOK
    <3> QED BY <1>1, <3>1, <3>2 DEF ReleaseRun
  <2>5. Resolve(r)
        BY <2>2, <2>4 DEF RunsNext, CancelLooks, CancelCalls, Reconnect, Edit, runVars, calls
  <2> QED BY <2>5, ResolveChooses
<1>2. LedgerInv' BY LedgerKeeps
<1> QED BY <1>1, <1>2 DEF LedgerInv, ChosenFailed

(* resolveRunScope and the ledger: a run of the failed tests has every test  *)
(* of the file that failed last, whatever other tests ran since, and until   *)
(* it runs it is about tests that failed when they ran last.  For any calls, *)
(* tests and edits of the file.                                              *)
THEOREM ChoosesFailed == RunsSpec => FailedAreChosen
<1>1. RunsInv /\ LedgerInv /\ [RunsNext]_runVars =>
        [\A r \in Run : scope'[r] = "failed" =>
           /\ rpc[r] = "resolve" => {t \in file : last[t] = "failed"} \subseteq sel'[r]
           /\ rpc'[r] \in {"execute", "start"} => \A t \in sel'[r] : last'[t] \in {"failed", "lost"}]_runVars
      BY ChoiceStep
<1> QED BY Invariance, LedgerStart, LedgerKeeps, <1>1, PTL DEF RunsSpec, FailedAreChosen
=============================================================================
