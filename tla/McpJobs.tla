------------------------------ MODULE McpJobs ------------------------------
(***************************************************************************)
(* Background test runs of internal/mcp (jobs.go): the server's loop over  *)
(* stdin, which handles one tool call at a time; per job the process group *)
(* of `probe test`, the goroutine that waits for it and the timer that     *)
(* kills it; the registry.  A job is named by its place in the order of    *)
(* the starts, so the registry's map and its order are one set of numbers. *)
(* The critical section of one job's mutex is one action.                  *)
(***************************************************************************)
EXTENDS Naturals, FiniteSets

CONSTANTS MaxKept,                \* maxJobsKept
          MaxJobs, MaxCancelled   \* bounds on the starts and on the jobs cancelled

ASSUME BoundAssumption == MaxKept \in Nat \ {0} /\ MaxJobs \in Nat /\ MaxCancelled \in Nat

Job == 1..MaxJobs

VARIABLES
  server,     \* "reading", "starting" or "cancelling" subject, "blocked" in
              \* run_tests, "stopping" the jobs, "exited" (Run returned)
              \* or "killed" (by a signal)
  subject,    \* the job of the call being handled, or the one stopAll is about to kill
  todo,       \* the jobs stopAll has not come to
  jobs,       \* of the registry
  state,      \* "none", "running", "passed", "failed", "cancelled"
  cancelled,  \* jobs whose cancelled flag is set
  proc,       \* their process: "none", "alive", "zombie", "reaped"
  exit,       \* its status: "none", "ok", "error"
  done,       \* jobs whose done channel is closed
  timer,      \* jobs with a kill timer armed
  promised    \* history: jobs the agent was told are "cancelling"

vars == <<server, subject, todo, jobs, state, cancelled, proc, exit, done, timer, promised>>

Init ==
  /\ server = "reading" /\ subject = {} /\ todo = {}
  /\ jobs = {}
  /\ state = [j \in Job |-> "none"] /\ cancelled = {}
  /\ proc = [j \in Job |-> "none"] /\ exit = [j \in Job |-> "none"]
  /\ done = {} /\ timer = {} /\ promised = {}

Up == server \notin {"exited", "killed"}
Finished(j) == state[j] \in {"passed", "failed", "cancelled"}

(* The group is signalled through the leader's pid: SIGKILL ends a live one;
   one that has been reaped does not get it. *)
Kill(S) ==
  /\ proc' = [j \in Job |-> IF j \in S /\ proc[j] = "alive" THEN "zombie" ELSE proc[j]]
  /\ exit' = [j \in Job |-> IF j \in S /\ proc[j] = "alive" THEN "error" ELSE exit[j]]

-----------------------------------------------------------------------------
(* start_tests: the process runs before its job is registered. *)
StartProcess(j) ==
  /\ server = "reading"
  /\ proc[j] = "none" /\ \A k \in 1..(j-1) : proc[k] # "none"
  /\ proc' = [proc EXCEPT ![j] = "alive"]
  /\ server' = "starting" /\ subject' = {j}
  /\ UNCHANGED <<todo, jobs, state, cancelled, exit, done, timer, promised>>

(* Mutant: a running job is dropped like any other. *)
AnyJob(j) == TRUE

Droppable(j) == Finished(j)

(* pruneLocked: the oldest finished jobs beyond MaxKept, as far as there are any;
   their states are read one by one, here at one moment. *)
Pruned(js) ==
  {j \in js : /\ Droppable(j)
              /\ Cardinality({k \in js : Droppable(k) /\ k <= j}) + MaxKept <= Cardinality(js)}

Register(j) ==
  /\ server = "starting" /\ subject = {j}
  /\ jobs' = (jobs \cup {j}) \ Pruned(jobs \cup {j})
  /\ state' = [state EXCEPT ![j] = "running"]
  /\ server' = "reading" /\ subject' = {}
  /\ UNCHANGED <<todo, cancelled, proc, exit, done, timer, promised>>

Mark(j) == cancelled \cup {j}

(* cancel_tests: the flag under the job's mutex, if it runs ... *)
Cancel(j) ==
  /\ server = "reading" /\ j \in jobs
  /\ state[j] = "running" /\ Cardinality(promised \cup {j}) <= MaxCancelled
  /\ cancelled' = Mark(j)
  /\ server' = "cancelling" /\ subject' = {j}
  /\ UNCHANGED <<todo, jobs, state, proc, exit, done, timer, promised>>

(* ... then SIGTERM, after which the process exits when it likes, and a timer. *)
Terminate(j) ==
  /\ server = "cancelling" /\ subject = {j}
  /\ timer' = timer \cup {j}
  /\ promised' = promised \cup {j}
  /\ server' = "reading" /\ subject' = {}
  /\ UNCHANGED <<todo, jobs, state, cancelled, proc, exit, done>>

(* Mutant: the timer asks for the flag that cancel has set itself. *)
NotCancelled(j) == j \notin cancelled

StillRuns(j) == j \notin done

(* jobCancelGrace later: SIGKILL, unless the goroutine is through with the job. *)
TimerFires(j) ==
  /\ Up /\ j \in timer
  /\ timer' = timer \ {j}
  /\ IF StillRuns(j) THEN Kill({j}) ELSE UNCHANGED <<proc, exit>>
  /\ UNCHANGED <<server, subject, todo, jobs, state, cancelled, done, promised>>

(* run_tests holds up the loop until its own `probe test` is through. *)
RunTests ==
  /\ server = "reading" /\ server' = "blocked"
  /\ UNCHANGED <<subject, todo, jobs, state, cancelled, proc, exit, done, timer, promised>>

RunTestsReturns ==
  /\ server = "blocked" /\ server' = "reading"
  /\ UNCHANGED <<subject, todo, jobs, state, cancelled, proc, exit, done, timer, promised>>

-----------------------------------------------------------------------------
(* Mutant: an exit status wins over the flag. *)
ByExitOnly(j) == IF exit[j] = "ok" THEN "passed" ELSE "failed"

FinalState(j) ==
  IF j \in cancelled THEN "cancelled" ELSE IF exit[j] = "ok" THEN "passed" ELSE "failed"

(* The goroutine of start: the process is reaped, the end is recorded under the
   mutex, the channel is closed. *)
Reap(j) ==
  /\ Up /\ state[j] = "running" /\ proc[j] = "zombie"
  /\ proc' = [proc EXCEPT ![j] = "reaped"]
  /\ UNCHANGED <<server, subject, todo, jobs, state, cancelled, exit, done, timer, promised>>

Waited(j) == proc[j] = "reaped"

Record(j) ==
  /\ Up /\ state[j] = "running" /\ Waited(j)
  /\ state' = [state EXCEPT ![j] = FinalState(j)]
  /\ UNCHANGED <<server, subject, todo, jobs, cancelled, proc, exit, done, timer, promised>>

CloseDone(j) ==
  /\ Up /\ Finished(j) /\ j \notin done
  /\ done' = done \cup {j}
  /\ UNCHANGED <<server, subject, todo, jobs, state, cancelled, proc, exit, timer, promised>>

-----------------------------------------------------------------------------
(* The client has closed stdin: stopAll goes through the map, with each job the
   flag under its mutex, then SIGKILL. *)
EndOfInput ==
  /\ server = "reading"
  /\ server' = "stopping" /\ todo' = jobs
  /\ UNCHANGED <<subject, jobs, state, cancelled, proc, exit, done, timer, promised>>

Visit(j) ==
  /\ server = "stopping" /\ subject = {} /\ j \in todo
  /\ todo' = todo \ {j}
  /\ IF state[j] = "running"
       THEN cancelled' = Mark(j) /\ subject' = {j}
       ELSE UNCHANGED <<cancelled, subject>>
  /\ UNCHANGED <<server, jobs, state, proc, exit, done, timer, promised>>

KillVisited ==
  /\ server = "stopping" /\ subject # {}
  /\ Kill(subject)
  /\ subject' = {}
  /\ UNCHANGED <<server, todo, jobs, state, cancelled, done, timer, promised>>

(* Run returns, and the server's process ends with all its goroutines. *)
Exit ==
  /\ server = "stopping" /\ subject = {} /\ todo = {}
  /\ server' = "exited"
  /\ UNCHANGED <<subject, todo, jobs, state, cancelled, proc, exit, done, timer, promised>>

(* SIGTERM, or a crash: no handler is installed. *)
Killed ==
  /\ Up
  /\ server' = "killed"
  /\ UNCHANGED <<subject, todo, jobs, state, cancelled, proc, exit, done, timer, promised>>

-----------------------------------------------------------------------------
(* A test run ends by itself or because of SIGTERM, in time or not. *)
ProcessExits(j) ==
  /\ proc[j] = "alive"
  /\ proc' = [proc EXCEPT ![j] = "zombie"]
  /\ \E e \in {"ok", "error"} : exit' = [exit EXCEPT ![j] = e]
  /\ UNCHANGED <<server, subject, todo, jobs, state, cancelled, done, timer, promised>>

Serve ==
  \/ \E j \in Job : Register(j) \/ Terminate(j) \/ Visit(j)
  \/ KillVisited \/ Exit

Waiter(j) == Reap(j) \/ Record(j) \/ CloseDone(j)

Next ==
  \/ \E j \in Job : StartProcess(j) \/ Cancel(j) \/ TimerFires(j) \/ Waiter(j) \/ ProcessExits(j)
  \/ Serve \/ RunTests \/ RunTestsReturns \/ EndOfInput \/ Killed

(* The server finishes a call it has begun, except run_tests, which takes as long as
   its tests; timers fire, goroutines run.  A test run need not end by itself. *)
Fairness ==
  /\ WF_vars(Serve)
  /\ \A j \in Job : WF_vars(TimerFires(j)) /\ WF_vars(Waiter(j))

Spec     == Init /\ [][Next]_vars
FairSpec == Spec /\ Fairness

-----------------------------------------------------------------------------
(* Types, and the life of a job: registered while its process runs, recorded
   after it is reaped, its channel closed after that. *)
TypeOK ==
  /\ server \in {"reading", "starting", "cancelling", "blocked", "stopping", "exited", "killed"}
  /\ subject \subseteq Job /\ todo \subseteq jobs
  /\ jobs \subseteq Job
  /\ state \in [Job -> {"none", "running", "passed", "failed", "cancelled"}]
  /\ proc \in [Job -> {"none", "alive", "zombie", "reaped"}]
  /\ exit \in [Job -> {"none", "ok", "error"}]
  /\ \A j \in jobs \cup cancelled \cup timer \cup promised : state[j] # "none"
  /\ \A j \in Job : Finished(j) => proc[j] = "reaped"
  /\ \A j \in Job : exit[j] # "none" <=> proc[j] \in {"zombie", "reaped"}
  /\ \A j \in done : Finished(j)

(* "A running job is never dropped": cancel_tests and stopAll find every run
   under way, however many jobs came after it. *)
RunningIsKnown == \A j \in Job : state[j] = "running" => j \in jobs

(* A job the agent was told is being cancelled never ends as passed or failed,
   even if its process was through before the signal; and one that ends as
   cancelled was cancelled by the agent or by stopAll. *)
CancelPrevails ==
  /\ \A j \in promised : state[j] \in {"running", "cancelled"}
  /\ \A j \in Job : state[j] = "cancelled" =>
       j \in promised \cup subject \/ server \in {"stopping", "exited", "killed"}

(* Server.Run: "Never leave a background test run behind when the client goes
   away": when Run has returned, no test run is alive. *)
NoneLeftBehind == server = "exited" => \A j \in Job : proc[j] # "alive"

(* A cancelled run that ignores SIGTERM is killed and recorded, if the server
   stays up. *)
CancelEnds == \A j \in Job : j \in promised ~> state[j] = "cancelled" \/ ~Up

(* README.md: "Jobs live in the `probe-mcp` process and are killed when it exits". *)
DiesWithServer == ~Up => \A j \in Job : proc[j] # "alive"
=============================================================================
