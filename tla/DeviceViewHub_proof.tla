----------------------- MODULE DeviceViewHub_proof -----------------------
(***************************************************************************)
(* Proofs about DeviceViewHub for any set of connections: who may pause,   *)
(* how many screenshots come late, and what is left when Run returns.      *)
(***************************************************************************)
EXTENDS DeviceViewHub, TLAPS

(* The loop captures, dials or detects for a screenshot that is not late yet; the late
   one is over before the next. *)
LateInv ==
  /\ late \in {0, 1}
  /\ late = 1 => ~active /\ frame \notin {"dial", "detect", "shoot"}

(* A worker starts when its connection is served and ends before its handler does. *)
WorkerInv ==
  \A c \in Conn :
    /\ h[c] \in {"new", "upgrading", "replacing"} => worker[c] = "off"
    /\ h[c] = "done" => worker[c] # "on"

(* A loop that does not wait for the dialer has an agent to call; one that has
   stopped stays so, and nobody is admitted any more. *)
LoopInv ==
  /\ frame = "dial" => agent = "none"
  /\ frame \in {"detect", "shoot", "shooting"} => agent # "none"
  /\ frame = "stopped" => runDone
  /\ run = "returned" =>
       /\ frame = "stopped" /\ agent = "none"
       /\ \A c \in Conn : h[c] \in {"new", "done"}

IInv == TypeOK /\ PausedByClient /\ LateInv /\ WorkerInv /\ LoopInv

(* Initially there is an agent connection, and nobody is served. *)
LEMMA InitHolds == Init => IInv
  BY ConnAssumption, ZenonT(40)
  DEF Init, IInv, TypeOK, PausedByClient, LateInv, WorkerInv, LoopInv, active, runDone

(* A section that may end a lull counts anew from it, or keeps the count. *)
LEMMA CountsLate ==
  ASSUME LateInv, CountLate, frame' = frame PROVE LateInv'
  BY DEF LateInv, CountLate

(* Each step of a handler keeps the invariant, ... *)
LEMMA HandlerKeeps ==
  ASSUME NEW c \in Conn, IInv, Handler(c) PROVE IInv'
  <1> USE ConnAssumption
          DEF conns, view, loop, IInv, TypeOK, PausedByClient, WorkerInv, LoopInv, runDone, Goto
  <1>1. CASE Attach(c)
    BY <1>1, CountsLate DEF Attach, Replaced
  <1>2. CASE CloseOld(c)
    BY <1>2 DEF CloseOld, LateInv, active, closed
  <1>3. CASE Serve(c)
    BY <1>3 DEF Serve, Wake, LateInv, active, closed
  <1>4. CASE ReadFails(c)
    BY <1>4 DEF ReadFails, LateInv, active, closed
  <1>5. CASE Detach(c)
    BY <1>5, CountsLate DEF Detach, Wake
  <1>6. CASE HandlerEnds(c)
    BY <1>6 DEF HandlerEnds, LateInv, active, closed
  <1> QED
    BY <1>1, <1>2, <1>3, <1>4, <1>5, <1>6 DEF Handler

(* ... as does what a peer does, ... *)
LEMMA PeerKeeps ==
  ASSUME NEW c \in Conn, IInv, Peer(c) \/ WorkerStops(c) PROVE IInv'
  <1> USE ConnAssumption
          DEF conns, view, loop, IInv, TypeOK, PausedByClient, WorkerInv, LoopInv, runDone, Goto
  <1>1. CASE Refuse(c) \/ Admit(c) \/ UpgradeFails(c)
    BY <1>1 DEF Refuse, Admit, UpgradeFails, LateInv, active, closed
  <1>2. CASE PeerLeaves(c)
    BY <1>2 DEF PeerLeaves, LateInv, active, closed
  <1>3. CASE WriteFails(c)
    BY <1>3 DEF WriteFails, LateInv, active, closed
  <1>4. CASE WorkerStops(c)
    BY <1>4 DEF WorkerStops, LateInv, active, closed
  <1>5. CASE Pause(c)
    BY <1>5, CountsLate DEF Pause, MayPause, Wake
  <1>6. CASE Resume(c)
    BY <1>6, CountsLate DEF Resume, MayPause, Wake
  <1>7. CASE ApplyConfig(c)
    BY <1>7 DEF ApplyConfig, Wake, LateInv, active, closed
  <1> QED
    BY <1>1, <1>2, <1>3, <1>4, <1>5, <1>6, <1>7 DEF Peer

(* ... every step of the frame loop ... *)
LEMMA FrameLoopKeeps ==
  ASSUME IInv, FrameLoop PROVE IInv'
  <1> USE DEF conns, view, loop, IInv, TypeOK, PausedByClient, LateInv, WorkerInv, LoopInv,
             active, closed, runDone
  <1>1. CASE Check
    BY <1>1 DEF Check, Begin
  <1>2. CASE FallAsleep \/ WakeUp
    BY <1>2, ZenonT(40) DEF FallAsleep, WakeUp
  <1>3. CASE Dial
    BY <1>3 DEF Dial
  <1>4. CASE Detect
    BY <1>4 DEF Detect, DropAgent, Drop
  <1>5. CASE Shoot
    BY <1>5 DEF Shoot
  <1>6. CASE ShotReturns
    BY <1>6 DEF ShotReturns, AfterShot, DropAgent, Drop
  <1> QED
    BY <1>1, <1>2, <1>3, <1>4, <1>5, <1>6 DEF FrameLoop

(* ... and of Run. *)
LEMMA RunKeeps ==
  ASSUME IInv, SetClosed \/ Shutdown PROVE IInv'
  <1> USE DEF conns, view, loop, IInv, TypeOK, PausedByClient, WorkerInv, LoopInv, runDone
  <1>1. CASE SetClosed
    BY <1>1, CountsLate DEF SetClosed
  <1>2. CASE Cancel
    BY <1>2 DEF Cancel, LateInv, active, closed
  <1>3. CASE CloseLast
    BY <1>3 DEF CloseLast, LateInv, active, closed
  <1>4. CASE Return
    BY <1>4 DEF Return, Counted, LateInv, active, closed
  <1> QED
    BY <1>1, <1>2, <1>3, <1>4 DEF Shutdown

(* So the invariant holds. *)
LEMMA Inductive == Spec => []IInv
  <1>1. IInv /\ [Next]_vars => IInv'
    <2> SUFFICES ASSUME IInv, [Next]_vars PROVE IInv'
      OBVIOUS
    <2>1. CASE UNCHANGED vars
      BY <2>1
      DEF vars, conns, view, loop, IInv, TypeOK, PausedByClient, LateInv, WorkerInv, LoopInv,
          active, closed, runDone
    <2> QED
      BY <2>1, HandlerKeeps, PeerKeeps, FrameLoopKeeps, RunKeeps DEF Next
  <1> QED
    BY <1>1, InitHolds, PTL DEF Spec

(* Types; at most one connection to the agent is open. *)
THEOREM TypeCorrect == Spec => []TypeOK
  BY Inductive, PTL DEF IInv

(* However many connections replace each other, only the current client can have
   paused the stream. *)
THEOREM PausedByCurrent == Spec => []PausedByClient
  BY Inductive, PTL DEF IInv

(* Of the screenshots requested while nobody watches only the one under way when the
   stream was paused, or the client left, is late. *)
THEOREM AtMostOneLateShot == Spec => []OneLateShot
  <1>1. IInv => OneLateShot
    BY DEF IInv, LateInv, OneLateShot
  <1> QED
    BY <1>1, Inductive, PTL

(* Nothing that Run started is left when it returns, however many handlers were
   between two of their steps when it was told to end. *)
THEOREM ReturnsQuiet == Spec => []QuietAfterReturn
  <1>1. IInv => QuietAfterReturn
    BY DEF IInv, TypeOK, WorkerInv, LoopInv, QuietAfterReturn
  <1> QED
    BY <1>1, Inductive, PTL
=============================================================================
