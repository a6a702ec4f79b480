---------------------------- MODULE StepExecutor ----------------------------
(***************************************************************************)
(* The executor of the runner: runSingleAttempt, RunBody, runStep and the  *)
(* handlers that touch the connection to the agent in the app.  A step is  *)
(* a record with a field op:                                               *)
(*   act      a call to the agent that changes or reads the screen         *)
(*   mock     a mock block: answer `ans` to requests that match `pat`      *)
(*   if       a condition `about` the screen ("visible": `if X appears`,   *)
(*            the `if visible` suffix) or the recorded traffic ("response"), *)
(*            with its branches `then` and `else`                            *)
(*   call, loop, retry      blocks with a `body` (and a count `n`)         *)
(*   open, restart, clear, kill, permit      lifecycle of the app          *)
(* The recursion of the Go code is the stack, its return value is ret.     *)
(* Link, app and agent are the environment: the connection drops, the app  *)
(* crashes, an answer is lost or comes after the deadline.                 *)
(***************************************************************************)
EXTENDS Integers, FiniteSets, Sequences

CONSTANTS
  Plans,        \* what a run may be: sequences of tests [body, after, ...]
  Steps,        \* the steps those tests are made of, the ones in blocks included
  Pattern,      \* request patterns of mocks
  MaxAttempts,  \* agent.reconnect_attempts
  Retries,      \* defaults.retry_failed_tests
  MaxCuts,      \* bound: drops and crashes of one run
  MaxSlow       \* bound: calls that outlive their deadline in one run

ASSUME PolicyAssumption == MaxAttempts \in Nat \ {0} /\ Retries \in Nat
ASSUME BoundAssumption  == MaxCuts \in Nat /\ MaxSlow \in Nat

(* What the parser gives: blocks hold steps and have a count. *)
WellFormed(s) ==
  /\ s.op \in {"act", "mock", "if", "call", "loop", "retry", "open", "restart", "clear", "kill", "permit"}
  /\ s.op = "mock" => s.pat \in Pattern
  /\ s.op = "if" => s.then \in Seq(Steps) /\ s.else \in Seq(Steps)
  /\ s.op \in {"call", "loop", "retry"} => s.body \in Seq(Steps)
  /\ s.op \in {"loop", "retry"} => s.n \in Int

ASSUME StepsAssumption ==
  /\ \A s \in Steps : WellFormed(s)
  /\ \A p \in Plans :
       /\ Len(p) \in Nat \ {0}
       /\ \A i \in 1..Len(p) : p[i].body \in Seq(Steps) /\ p[i].after \in Seq(Steps)

VARIABLES
  plan, cur, attempt,  \* the run, the test in it, the attempt at that test
  phase,               \* of runSingleAttempt: "begin", "body", "after", "done"
  verdict,             \* of the attempt: "none", or the error of its body
  stack,               \* activations of RunBody, runStep and block handlers
  ret,                 \* "run": going on; else what the last activation returned
  mocks,               \* e.http.mocks
  conn,                \* e.client: "up", "lost" with the link, or "closed"
  alive,               \* the app's process
  agentMocks,          \* mocks of that process: pattern -> answer or "none"
  cuts, slow,          \* connections lost, deadlines missed so far
  ran,                 \* history: acts done by the app in this attempt
  unchecked            \* history: a branch was taken without an answer

test == <<plan, cur, attempt, phase, verdict>>
app  == <<alive, agentMocks>>
link == <<conn, cuts, slow>>
hist == <<ran, unchecked>>
vars == <<plan, cur, attempt, phase, verdict, stack, ret, mocks, conn, alive,
          agentMocks, cuts, slow, ran, unchecked>>

NoMocks == [p \in Pattern |-> "none"]
Test    == plan[cur]
Top     == Head(stack)
Lifecycle(s) == s.op \in {"restart", "clear", "kill"}

Body(steps) == [k |-> "body", rest |-> steps]
Step(s)     == [k |-> "step", s |-> s, n |-> 0]

Return(e) == stack' = Tail(stack) /\ ret' = e
Answer(e) == UNCHANGED stack /\ ret' = e
Enter(f)  == stack' = <<f>> \o stack /\ ret' = "run"
Become(f) == stack' = <<f>> \o Tail(stack) /\ ret' = "run"

Init ==
  /\ plan \in Plans
  /\ cur = 1 /\ attempt = 1 /\ phase = "begin" /\ verdict = "none"
  /\ stack = <<>> /\ ret = "run"
  /\ mocks = <<>>
  /\ conn = "up" /\ alive = TRUE /\ agentMocks = NoMocks
  /\ cuts = 0 /\ slow = 0
  /\ ran = <<>> /\ unchecked = FALSE

-----------------------------------------------------------------------------
(* Calls to the agent.  A call meets one of these fates: it is answered; it is
   done but the connection drops before the answer; the connection is gone;
   its deadline passes, before or after the agent has done it.  Client.Call
   never asks whether the connection still works: on one that is lost the write
   may fail, or go into a buffer and leave the call to its deadline.  On one
   the client has closed itself it fails. *)
Fate == {"answered", "lost", "dead", "slow", "late"}

Meets(f) ==
  \/ f = "answered" /\ conn = "up" /\ UNCHANGED link
  \/ f = "dead" /\ conn # "up" /\ UNCHANGED link
  \/ /\ f = "lost" /\ conn = "up" /\ cuts < MaxCuts
     /\ conn' = "lost" /\ cuts' = cuts + 1 /\ UNCHANGED slow
  \/ /\ \/ f = "slow" /\ conn \in {"up", "lost"}
        \/ f = "late" /\ conn = "up"
     /\ slow < MaxSlow
     /\ slow' = slow + 1 /\ UNCHANGED <<conn, cuts>>

Done(f) == f \in {"answered", "lost", "late"}

(* isConnectionError tells "conn" from "fail"; a deadline is a "fail". *)
ErrorOf(f) ==
  CASE f = "answered"          -> "ok"
    [] f \in {"lost", "dead"}  -> "conn"
    [] f \in {"slow", "late"}  -> "fail"

(* ProbeHttpLog.addMock replaces the mock of the same pattern. *)
AddMock(m)  == agentMocks' = [agentMocks EXCEPT ![m.pat] = m.ans]
Register(f, m) == IF Done(f) THEN AddMock(m) ELSE UNCHANGED agentMocks

(* Mutant: the connection is left open. *)
LeaveOpen == UNCHANGED link

(* client.Close, whatever the connection was. *)
Close ==
  /\ conn' = "closed"
  /\ cuts' = IF conn = "up" THEN cuts + 1 ELSE cuts
  /\ UNCHANGED slow

(* RestartApp: not even stopped, stopped but not launched, or a new process. *)
RestartApp(how) ==
  \/ how = "as it was" /\ UNCHANGED app
  \/ how = "stopped" /\ alive' = FALSE /\ UNCHANGED agentMocks
  \/ how = "new" /\ alive' = TRUE /\ agentMocks' = NoMocks

-----------------------------------------------------------------------------
(* A test starts: a new executor, and HTTPClear whose error is ignored. *)
BeginAttempt ==
  /\ phase = "begin"
  /\ \E f \in Fate :
       /\ Meets(f)
       /\ agentMocks' = IF Done(f) THEN NoMocks ELSE agentMocks
  /\ mocks' = <<>> /\ ran' = <<>> /\ unchecked' = FALSE
  /\ verdict' = "none"
  /\ stack' = <<Body(Test.body)>> /\ ret' = "run"
  /\ phase' = "body"
  /\ UNCHANGED <<plan, cur, attempt, alive>>

(* The body's error is the verdict; the after-each hooks run in any case. *)
EndBody ==
  /\ phase = "body" /\ stack = <<>>
  /\ verdict' = ret
  /\ stack' = <<Body(Test.after)>> /\ ret' = "run"
  /\ phase' = "after"
  /\ UNCHANGED <<plan, cur, attempt, mocks, app, link, hist>>

(* runSingleTest: try a failed test again, or go on to the next test. *)
EndAttempt ==
  /\ phase = "after" /\ stack = <<>>
  /\ ret' = "run"
  /\ IF verdict # "ok" /\ attempt <= Retries
       THEN attempt' = attempt + 1 /\ phase' = "begin" /\ UNCHANGED cur
       ELSE /\ attempt' = 1
            /\ IF cur < Len(plan) THEN cur' = cur + 1 /\ phase' = "begin"
                                  ELSE cur' = cur /\ phase' = "done"
  /\ UNCHANGED <<plan, verdict, stack, mocks, app, link, hist>>

-----------------------------------------------------------------------------
IsError(e) == e \in {"conn", "fail"}

(* RunBody: the steps in order, up to the first error. *)
RunBody ==
  /\ stack # <<>> /\ Top.k = "body"
  /\ \/ IsError(ret) /\ Return(ret)
     \/ ~IsError(ret) /\ Top.rest = <<>> /\ Return("ok")
     \/ /\ ~IsError(ret) /\ Top.rest # <<>>
        /\ stack' = <<Step(Head(Top.rest)), Body(Tail(Top.rest))>> \o Tail(stack)
        /\ ret' = "run"
  /\ UNCHANGED <<test, mocks, app, link, hist>>

Dispatching(op) == stack # <<>> /\ Top.k = "step" /\ ret = "run" /\ Top.s.op = op

(* An action or an assertion.  The app may also refuse it (not found). *)
RunAct ==
  /\ Dispatching("act")
  /\ \E f \in Fate :
       /\ Meets(f)
       /\ \/ /\ ran' = IF Done(f) THEN Append(ran, Top.s.id) ELSE ran
             /\ Answer(ErrorOf(f))
          \/ f = "answered" /\ Answer("fail") /\ UNCHANGED ran
  /\ UNCHANGED <<test, mocks, app, unchecked>>

(* runMock: remembered only once the agent has answered. *)
RunMock ==
  /\ Dispatching("mock")
  /\ \E f \in Fate :
       /\ Meets(f)
       /\ Register(f, Top.s)
       /\ mocks' = IF f = "answered" THEN Append(mocks, Top.s) ELSE mocks
       /\ Answer(ErrorOf(f))
  /\ UNCHANGED <<test, alive, hist>>

(* Mutant: the condition before issue 237, any error means "not visible". *)
PropagatesNothing(s, f) == FALSE

Propagates(s, f) ==
  ErrorOf(f) = "conn" \/ (s.about = "response" /\ f # "answered")

(* runConditional; it asks for visibility with a deadline of one second. *)
RunConditional ==
  /\ Dispatching("if")
  /\ \E f \in Fate :
       /\ Meets(f)
       /\ \/ Propagates(Top.s, f) /\ Answer(ErrorOf(f)) /\ UNCHANGED unchecked
          \/ f = "answered" /\ Enter(Body(Top.s.then)) /\ UNCHANGED unchecked
          \/ /\ ~Propagates(Top.s, f) /\ Enter(Body(Top.s.else))
             /\ unchecked' = (unchecked \/ f # "answered")
  /\ UNCHANGED <<test, mocks, app, ran>>

RunRecipeCall ==
  /\ Dispatching("call")
  /\ Enter(Body(Top.s.body))
  /\ UNCHANGED <<test, mocks, app, link, hist>>

(* repeat n times and retry n times, at least once: the iterations left. *)
Count(s) == IF s.op = "retry" /\ s.n < 1 THEN 1 ELSE s.n

RunBlock ==
  /\ Dispatching("loop") \/ Dispatching("retry")
  /\ Enter([k |-> Top.s.op, s |-> Top.s, left |-> Count(Top.s)])
  /\ UNCHANGED <<test, mocks, app, link, hist>>

(* Mutant: one iteration too many. *)
OneMore(f) == f.left >= 0

HasMore(f) == f.left > 0

Iterate == stack' = <<Body(Top.s.body), [Top EXCEPT !.left = @ - 1]>> \o Tail(stack)
           /\ ret' = "run"

Loop ==
  /\ stack # <<>> /\ Top.k = "loop"
  /\ \/ IsError(ret) /\ Return(ret)
     \/ ~IsError(ret) /\ HasMore(Top) /\ Iterate
     \/ ~IsError(ret) /\ ~HasMore(Top) /\ Return("ok")
  /\ UNCHANGED <<test, mocks, app, link, hist>>

Retry ==
  /\ stack # <<>> /\ Top.k = "retry"
  /\ \/ ret = "ok" /\ Return("ok")
     \/ ret # "ok" /\ HasMore(Top) /\ Iterate
     \/ ret # "ok" /\ ~HasMore(Top) /\ Return(ret)
  /\ UNCHANGED <<test, mocks, app, link, hist>>

-----------------------------------------------------------------------------
(* Redial is an activation of Reconnect: for `what` (the step's operation, or
   "auto" for tryReconnect), first dialling, then re-registering `todo`. *)
Redial(what) == [k |-> "dial", what |-> what, again |-> TRUE]

(* restart the app: pre-share a token, close, stop, launch, redial. *)
RunRestart ==
  /\ Dispatching("restart")
  /\ Close
  /\ \E how \in {"as it was", "stopped", "new"} :
       /\ RestartApp(how)
       /\ IF how = "new" THEN Enter(Redial("restart")) ELSE Answer("fail")
  /\ UNCHANGED <<test, mocks, hist>>

(* A permission step; on iOS it relaunches the app (relaunchApp). *)
RunPermit ==
  /\ Dispatching("permit")
  /\ \/ \E e \in {"ok", "fail"} : Answer(e) /\ UNCHANGED <<link, app>>
     \/ /\ Close
        /\ \E how \in {"as it was", "stopped", "new"} :
             /\ RestartApp(how)
             /\ IF how = "new" THEN Enter(Redial("permit")) ELSE Answer("fail")
  /\ UNCHANGED <<test, mocks, hist>>

(* clear app data: skipped on a physical iPhone, refused without consent. *)
RunClear ==
  /\ Dispatching("clear")
  /\ Close
  /\ \/ UNCHANGED app /\ Enter(Redial("clear"))
     \/ \E how \in {"as it was", "stopped", "new"} :
          /\ RestartApp(how)
          /\ IF how = "new" THEN Enter(Redial("clear")) ELSE Answer("fail")
  /\ UNCHANGED <<test, mocks, hist>>

RunKill ==
  /\ Dispatching("kill")
  /\ Close
  /\ \/ alive' = FALSE /\ Answer("ok")
     \/ UNCHANGED alive /\ Answer("fail")
  /\ UNCHANGED <<test, mocks, agentMocks, hist>>

(* open the app: a call if there is a connection, else a relaunch. *)
RunOpen ==
  /\ Dispatching("open")
  /\ \E f \in Fate :
       /\ Meets(f)
       /\ \/ ErrorOf(f) # "conn" /\ Answer(ErrorOf(f)) /\ UNCHANGED app
          \/ /\ ErrorOf(f) = "conn"
             /\ \E how \in {"as it was", "stopped", "new"} :
                  /\ RestartApp(how)
                  /\ IF how = "new" THEN Enter(Redial("open")) ELSE Answer("fail")
  /\ UNCHANGED <<test, mocks, hist>>

(* Mutant: re-registered the wrong way round. *)
OldestLast == [i \in 1..Len(mocks) |-> mocks[Len(mocks) + 1 - i]]

MocksToReapply == mocks

(* Reconnect succeeds: the executor has a client again, then reapplyMocks. *)
Reconnected ==
  /\ alive
  /\ conn' = "up"
  /\ Become([k |-> "remock", what |-> Top.what, todo |-> MocksToReapply])
  /\ UNCHANGED <<app, cuts, slow>>

(* It fails: ret "gone" is the error of tryReconnect; the error of another
   handler may or may not be one that isConnectionError knows. *)
NotReconnected ==
  /\ IF Top.what = "auto" THEN Return("gone") ELSE \E e \in {"conn", "fail"} : Return(e)
  /\ UNCHANGED <<app, link>>

(* Mutant: it may relaunch again and again. *)
AnyTime(f) == [f EXCEPT !.k = "dial"]

OnceOnly(f) == [f EXCEPT !.k = "dial", !.again = FALSE]

(* tryReconnect only: connection refused, so nothing listens ... *)
Refused ==
  /\ Top.what = "auto" /\ Top.again
  /\ Become([Top EXCEPT !.k = "relaunch"])
  /\ UNCHANGED <<app, link>>

Reconnect ==
  /\ stack # <<>> /\ Top.k = "dial"
  /\ Reconnected \/ NotReconnected \/ Refused
  /\ UNCHANGED <<test, mocks, hist>>

(* ... and the app is relaunched and dialled once more. *)
Relaunch ==
  /\ stack # <<>> /\ Top.k = "relaunch"
  /\ \E how \in {"as it was", "stopped", "new"} :
       /\ RestartApp(how)
       /\ IF how = "new" THEN Become(OnceOnly(Top)) ELSE Return("gone")
  /\ UNCHANGED <<test, mocks, link, hist>>

(* reapplyMocks ignores every error.  Then tryReconnect dispatches the step
   again and the other handlers return nil. *)
ReapplyMocks ==
  /\ stack # <<>> /\ Top.k = "remock"
  /\ IF Top.todo # <<>>
       THEN \E f \in Fate :
              /\ Meets(f)
              /\ Register(f, Head(Top.todo))
              /\ Become([Top EXCEPT !.todo = Tail(@)])
       ELSE /\ Return(IF Top.what = "auto" THEN "run" ELSE "ok")
            /\ UNCHANGED <<link, agentMocks>>
  /\ UNCHANGED <<test, mocks, alive, hist>>

MayReconnect(s, n) == ~Lifecycle(s) /\ n < MaxAttempts
IsOptional(s)      == s.op = "act" /\ s.opt

(* runStep, after the handler: reconnect and try again, or report. *)
StepReturned ==
  /\ stack # <<>> /\ Top.k = "step" /\ ret # "run"
  /\ \/ ret = "ok" /\ Return("ok") /\ UNCHANGED link
     \/ ret = "fail" /\ Return(IF IsOptional(Top.s) THEN "ok" ELSE "fail") /\ UNCHANGED link
     \/ /\ ret = "conn" /\ MayReconnect(Top.s, Top.n)
        /\ stack' = <<Redial("auto"), [Top EXCEPT !.n = @ + 1]>> \o Tail(stack)
        /\ ret' = "run"
        /\ Close
     \/ ret = "conn" /\ ~MayReconnect(Top.s, Top.n) /\ Return("conn") /\ UNCHANGED link
     \/ ret = "gone" /\ Return("conn") /\ UNCHANGED link   \* break
  /\ UNCHANGED <<test, mocks, app, hist>>

-----------------------------------------------------------------------------
(* The environment: the link drops, the app crashes. *)
Drop ==
  /\ conn = "up" /\ cuts < MaxCuts
  /\ conn' = "lost" /\ cuts' = cuts + 1
  /\ UNCHANGED <<test, stack, ret, mocks, app, slow, hist>>

Crash ==
  /\ alive /\ cuts < MaxCuts
  /\ alive' = FALSE /\ cuts' = cuts + 1
  /\ conn' = IF conn = "up" THEN "lost" ELSE conn
  /\ UNCHANGED <<test, stack, ret, mocks, agentMocks, slow, hist>>

Executor ==
  \/ BeginAttempt \/ EndBody \/ EndAttempt
  \/ RunBody \/ RunAct \/ RunMock \/ RunConditional \/ RunRecipeCall
  \/ RunBlock \/ Loop \/ Retry
  \/ RunRestart \/ RunPermit \/ RunClear \/ RunKill \/ RunOpen
  \/ Reconnect \/ Relaunch \/ ReapplyMocks \/ StepReturned

Next == (phase # "done" /\ (Drop \/ Crash)) \/ Executor

Spec     == Init /\ [][Next]_vars
FairSpec == Spec /\ WF_vars(Executor)
-----------------------------------------------------------------------------
Frame(f) ==
  CASE f.k = "body"              -> f.rest = <<>> \/ Head(f.rest).op # ""
    [] f.k = "step"              -> f.n \in 0..MaxAttempts
    [] f.k \in {"loop", "retry"} -> f.left <= Count(f.s)
    [] f.k \in {"dial", "relaunch"} -> f.what \in {"auto", "open", "restart", "clear", "permit"}
    [] f.k = "remock"            -> Len(f.todo) <= Len(mocks)

(* Every activation is well formed: a step never reconnects more often than
   reconnect_attempts says, and a connection leads to a running app. *)
TypeOK ==
  /\ plan \in Plans /\ cur \in 1..Len(plan) /\ attempt \in 1..(Retries + 1)
  /\ phase \in {"begin", "body", "after", "done"}
  /\ verdict \in {"none", "ok", "conn", "fail"}
  /\ ret \in {"run", "ok", "conn", "fail", "gone"}
  /\ \A i \in DOMAIN stack : Frame(stack[i])
  /\ conn \in {"up", "lost", "closed"} /\ alive \in BOOLEAN /\ unchecked \in BOOLEAN
  /\ conn = "up" => alive
  /\ cuts \in Nat /\ slow \in 0..MaxSlow

Acts == phase = "body" /\ Len(ran') > Len(ran)

LastAnswer(p) ==
  LET I == {i \in DOMAIN mocks : mocks[i].pat = p}
  IN  IF I = {} THEN "none" ELSE mocks[CHOOSE i \in I : \A j \in I : j <= i].ans

(* docs: mocks "last for one test and survive `restart the app`".  Whatever
   happened to app and connection, an act of the body meets the answers the
   test has set up so far, unless a call has outlived its deadline: then
   reapplyMocks forgets a mock on a connection that is fine. *)
MocksInForce ==
  Acts /\ slow = 0 => \A p \in Pattern : LastAnswer(p) # "none" => agentMocks[p] = LastAnswer(p)

(* ... and no answer that only an earlier test set up. *)
OnlyOwnMocks ==
  [][Acts => \A p \in Pattern : agentMocks[p] \in Test.answers \cup {"none"}]_vars

Within(w, s) ==
  \E f \in [DOMAIN w -> DOMAIN s] :
    \A i, j \in DOMAIN w : s[f[i]] = w[i] /\ (i < j => f[i] < f[j])

(* A body without an error has done every act it had to, in order; and a step
   is repeated after a reconnect only: an act is done at most as often as the
   script says, once more for every connection that was lost. *)
ActsAsWritten ==
  /\ phase = "after" /\ verdict = "ok" => \E w \in Test.want : Within(w, ran)
  /\ phase # "begin" =>
       \A a \in DOMAIN Test.times :
         Cardinality({i \in DOMAIN ran : ran[i] = a}) <= Test.times[a] * (1 + cuts)

(* When `want` and `times` are what the scripts ask for, by what sc says of
   bodies: one that passes has done a sequence of sc.ways[b], among other acts
   (optional ones, those of failed rounds), and each act a at most sc.cost[b][a]
   times; sc.rounds[<<b, n>>] is n passes of b. *)
Ids        == {s.id : s \in {t \in Steps : t.op = "act"}}
Then(U, V) == UNION {{u \o v : v \in V} : u \in U}
Bodies(s)  == CASE s.op = "if" -> {s.then, s.else}
                [] s.op \in {"call", "loop", "retry"} -> {s.body}
                [] OTHER -> {}

Asks(s, sc) ==
  CASE s.op = "act" /\ ~IsOptional(s) -> {<<s.id>>}
    [] s.op = "if"                    -> sc.ways[s.then] \cup sc.ways[s.else]
    [] s.op \in {"call", "retry"}     -> sc.ways[s.body]
    [] s.op = "loop" /\ s.n > 0       -> sc.rounds[<<s.body, s.n>>]
    [] OTHER                          -> {<<>>}

Larger(x, y)     == IF x > y THEN x ELSE y
RoundsCost(n, c) == IF n > 0 THEN n * c ELSE 0

Price(s, a, sc) ==
  CASE s.op = "act"                -> IF s.id = a THEN 1 ELSE 0
    [] s.op = "if"                 -> Larger(sc.cost[s.then][a], sc.cost[s.else][a])
    [] s.op = "call"               -> sc.cost[s.body][a]
    [] s.op \in {"loop", "retry"}  -> RoundsCost(Count(s), sc.cost[s.body][a])
    [] OTHER                       -> 0

Repeats(s, sc) ==
  /\ \A n \in 0..s.n : <<s.body, n>> \in DOMAIN sc.rounds
  /\ <<>> \in sc.rounds[<<s.body, 0>>]
  /\ \A n \in 1..s.n : Then(sc.ways[s.body], sc.rounds[<<s.body, n - 1>>]) \subseteq sc.rounds[<<s.body, n>>]

Foretells(sc, b) ==
  IF b = <<>> THEN <<>> \in sc.ways[b]
  ELSE /\ {Tail(b)} \cup Bodies(Head(b)) \subseteq DOMAIN sc.ways
       /\ Head(b).op = "loop" /\ Head(b).n > 0 => Repeats(Head(b), sc)
       /\ Then(Asks(Head(b), sc), sc.ways[Tail(b)]) \subseteq sc.ways[b]
       /\ \A a \in Ids : Price(Head(b), a, sc) + sc.cost[Tail(b)][a] <= sc.cost[b][a]

Scripted(sc) ==
  /\ sc.ways \in [DOMAIN sc.ways -> SUBSET Seq(Ids)]
  /\ sc.rounds \in [DOMAIN sc.rounds -> SUBSET Seq(Ids)]
  /\ sc.cost \in [DOMAIN sc.ways -> [Ids -> Nat]]
  /\ \A b \in DOMAIN sc.ways : Foretells(sc, b)
  /\ \A p \in Plans : \A i \in 1..Len(p) :
       /\ {p[i].body, p[i].after} \subseteq DOMAIN sc.ways
       /\ \A u \in sc.ways[p[i].body] : \E w \in p[i].want : Within(w, u)
       /\ \A a \in DOMAIN p[i].times :
            /\ a \in Ids /\ p[i].times[a] \in Nat
            /\ sc.cost[p[i].body][a] + sc.cost[p[i].after][a] <= p[i].times[a]

(* executor.go on issue 237: "couldn't check" is not "not visible".  What the
   code keeps of it: a branch is taken without an answer only by a check that
   has itself waited out its second; a connection error never decides one. *)
BranchWasChecked == unchecked' /\ ~unchecked => slow' > slow

(* However often the connection is lost, a call that fails at once costs the
   test nothing but time: it neither decides a branch (RunConditional) nor
   takes a mock away (reapplyMocks).  Only a missed deadline does. *)
OnlyDeadlinesCost == [][BranchWasChecked /\ MocksInForce]_vars

(* What the comment on issue 237 says: "With a dead connection this used to
   fall through to the else branch".  It still does when the check waits out
   its second on a connection that is already lost. *)
NoBlindBranch == [][unchecked' /\ ~unchecked => conn = "up"]_vars

(* reconnect_attempts: "Max auto-reconnect attempts after a connection drop
   mid-test": a step fails for a lost connection once they are used up. *)
UsesAllAttempts ==
  [][ret = "gone" /\ Top.k = "step" /\ ret' = "conn" => Top.n = MaxAttempts]_vars

(* However steps, blocks and reconnects nest, every run ends. *)
Termination == <>(phase = "done")
=============================================================================
