--------------------------- MODULE McpJobs_proof ---------------------------
(***************************************************************************)
(* Proofs about McpJobs for any number of jobs and any limit: no running   *)
(* job is forgotten, a cancelled one never passes, none outlives Run.      *)
(***************************************************************************)
EXTENDS McpJobs, TLAPS

(* What the server's loop holds between the steps of one call. *)
LoopInv ==
  /\ server \in {"reading", "blocked"} => subject = {}
  /\ server = "exited" => subject = {}
  /\ server \notin {"stopping", "killed"} => todo = {}
  /\ server = "starting" =>
       \E j \in Job : subject = {j} /\ state[j] = "none" /\ proc[j] \in {"alive", "zombie"}
  /\ server = "cancelling" => \E j \in Job : subject = {j} /\ j \in cancelled
  /\ server = "stopping" => subject \subseteq cancelled

(* A live process is a registered run, or the one being registered; once stopAll
   has begun, it is still to be visited. *)
ProcInv ==
  /\ \A j \in Job : proc[j] = "alive" =>
       \/ state[j] = "running"
       \/ server \in {"starting", "killed"} /\ j \in subject
  /\ \A j \in Job : state[j] # "none" => proc[j] # "none"
  /\ \A j \in Job : state[j] = "none" /\ proc[j] # "none" => server \in {"starting", "killed"} /\ j \in subject
  /\ server \in {"stopping", "exited"} => \A j \in Job : proc[j] = "alive" => j \in todo \cup subject
  /\ \A j \in Job : state[j] = "running" => j \in jobs

(* The flag decides the final state and is set only on the agent's word or in stopAll. *)
FlagInv ==
  /\ promised \subseteq cancelled
  /\ \A j \in cancelled : state[j] \in {"running", "cancelled"}
  /\ \A j \in cancelled : j \in promised \cup subject \/ server \in {"stopping", "exited", "killed"}
  /\ \A j \in Job : state[j] = "cancelled" => j \in cancelled

IInv == TypeOK /\ LoopInv /\ ProcInv /\ FlagInv

(* Initially there are no jobs. *)
LEMMA InitHolds == Init => IInv
  BY DEF Init, IInv, TypeOK, LoopInv, ProcInv, FlagInv, Finished

(* Only finished jobs are pruned. *)
LEMMA PrunesFinished ==
  ASSUME NEW js, NEW j \in Pruned(js) PROVE Finished(j)
  BY DEF Pruned, Droppable

(* A signal to the group of one job changes that job's process only. *)
LEMMA KillsOnly ==
  ASSUME TypeOK, NEW S \in SUBSET Job, Kill(S)
  PROVE  /\ proc' \in [Job -> {"none", "alive", "zombie", "reaped"}]
         /\ exit' \in [Job -> {"none", "ok", "error"}]
         /\ \A j \in Job : proc'[j] = "alive" <=> proc[j] = "alive" /\ j \notin S
         /\ \A j \in Job : proc'[j] = "reaped" <=> proc[j] = "reaped"
         /\ \A j \in Job : proc'[j] = "none" <=> proc[j] = "none"
         /\ \A j \in Job : exit'[j] # "none" <=> proc'[j] \in {"zombie", "reaped"}
  BY DEF TypeOK, Kill

(* Each step of the server's loop keeps the invariant. *)
LEMMA ServeKeeps ==
  ASSUME IInv, Serve PROVE IInv'
  <1> USE DEF IInv, TypeOK, LoopInv, ProcInv, FlagInv, Finished
  <1>1. ASSUME NEW j \in Job, Register(j) PROVE IInv'
    <2>1. \A k \in Pruned(jobs \cup {j}) : Finished(k)
      BY PrunesFinished
    <2>2. jobs' \subseteq Job /\ jobs' \subseteq jobs \cup {j}
      BY <1>1 DEF Register
    <2>3. todo = {}
      BY <1>1 DEF Register
    <2> QED
      BY <1>1, <2>1, <2>2, <2>3 DEF Register
  <1>2. ASSUME NEW j \in Job, Terminate(j) PROVE IInv'
    BY <1>2 DEF Terminate
  <1>3. ASSUME NEW j \in Job, Visit(j) PROVE IInv'
    BY <1>3 DEF Visit, Mark
  <1>4. CASE KillVisited
    BY <1>4, KillsOnly DEF KillVisited
  <1>5. CASE Exit
    BY <1>5 DEF Exit
  <1> QED
    BY <1>1, <1>2, <1>3, <1>4, <1>5 DEF Serve

(* So does every other step of the server, ... *)
LEMMA ServerKeeps ==
  ASSUME IInv, RunTests \/ RunTestsReturns \/ EndOfInput \/ Killed PROVE IInv'
  <1> USE DEF IInv, TypeOK, LoopInv, ProcInv, FlagInv, Finished
  <1>1. CASE RunTests \/ RunTestsReturns
    BY <1>1 DEF RunTests, RunTestsReturns
  <1>2. CASE EndOfInput
    BY <1>2 DEF EndOfInput
  <1>3. CASE Killed
    BY <1>3 DEF Killed, Up
  <1> QED
    BY <1>1, <1>2, <1>3

(* ... and every step about one job. *)
LEMMA JobKeeps ==
  ASSUME NEW j \in Job, IInv,
         StartProcess(j) \/ Cancel(j) \/ TimerFires(j) \/ Waiter(j) \/ ProcessExits(j)
  PROVE  IInv'
  <1> USE DEF IInv, TypeOK, LoopInv, ProcInv, FlagInv, Finished
  <1>1. CASE StartProcess(j)
    BY <1>1 DEF StartProcess
  <1>2. CASE Cancel(j)
    BY <1>2 DEF Cancel, Mark
  <1>3. CASE TimerFires(j)
    BY <1>3, KillsOnly DEF TimerFires
  <1>4. CASE Reap(j)
    BY <1>4 DEF Reap
  <1>5. CASE Record(j)
    BY <1>5 DEF Record, Waited, FinalState
  <1>6. CASE CloseDone(j)
    BY <1>6 DEF CloseDone
  <1>7. CASE ProcessExits(j)
    BY <1>7 DEF ProcessExits
  <1> QED
    BY <1>1, <1>2, <1>3, <1>4, <1>5, <1>6, <1>7 DEF Waiter

(* IInv is inductive. *)
LEMMA StepKeeps == IInv /\ [Next]_vars => IInv'
  <1> SUFFICES ASSUME IInv, [Next]_vars PROVE IInv'
    OBVIOUS
  <1>1. CASE Next
    BY <1>1, ServeKeeps, ServerKeeps, JobKeeps DEF Next
  <1>2. CASE UNCHANGED vars
    BY <1>2 DEF vars, IInv, TypeOK, LoopInv, ProcInv, FlagInv, Finished
  <1> QED
    BY <1>1, <1>2

(* The invariant holds in every state of the server. *)
THEOREM Invariance == Spec => []IInv
  BY InitHolds, StepKeeps, PTL DEF Spec

(* Types, and a job's end is recorded only of a process that was waited for. *)
THEOREM TypeCorrect == Spec => []TypeOK
  <1>1. IInv => TypeOK
    BY DEF IInv
  <1> QED
    BY <1>1, Invariance, PTL

(* A running job stays in the registry, whatever is pruned around it. *)
THEOREM RunningStaysKnown == Spec => []RunningIsKnown
  <1>1. IInv => RunningIsKnown
    BY DEF IInv, ProcInv, RunningIsKnown
  <1> QED
    BY <1>1, Invariance, PTL

(* What cancel_tests told the agent decides how the job ends. *)
THEOREM CancelDecides == Spec => []CancelPrevails
  <1>1. IInv => CancelPrevails
    BY DEF IInv, FlagInv, CancelPrevails
  <1> QED
    BY <1>1, Invariance, PTL

(* When Run has returned, no test run is alive. *)
THEOREM RunLeavesNone == Spec => []NoneLeftBehind
  <1>1. IInv => NoneLeftBehind
    BY DEF IInv, LoopInv, ProcInv, NoneLeftBehind
  <1> QED
    BY <1>1, Invariance, PTL
=============================================================================
