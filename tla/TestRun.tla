------------------------------ MODULE TestRun ------------------------------
(***************************************************************************)
(* One `probe test`: the files of the shard are dealt out to the devices   *)
(* (one goroutine per device with --parallel), each device connects, runs  *)
(* its files, and the command reports and exits.  A file is a record:      *)
(*   ok       it can be read and parsed, with the recipes it uses          *)
(*   all      it has `before all` and `after all` hooks                    *)
(*   tests    records: picks, how many of the selected tags the test has   *)
(*            (1 when none is selected), and rows, how many rows of data   *)
(*            (0: not data driven; NoData: its CSV file cannot be read)    *)
(*   comps    the number of its composite tests                            *)
(* What a step of a test does is in StepExecutor; here a hook or a body    *)
(* passes or fails, and may leave another client than it found.            *)
(***************************************************************************)
EXTENDS Integers, FiniteSets, SequencesExt

CONSTANTS
  Plans,       \* what may be run: records [parallel, devices, files, shard, of]
  Content,     \* the record of each file
  Bucket,      \* first byte of the hash of each file's path
  NoData,      \* rows of a test whose CSV file cannot be read
  Retries,     \* defaults.retry_failed_tests
  MaxRetries,  \* maxRetries: times a device starts again after an error
  MayInterrupt \* whether SIGINT or SIGTERM may come

ASSUME TestRunAssumption ==
  Retries \in Nat /\ MaxRetries \in Nat /\ MayInterrupt \in BOOLEAN /\ NoData \notin Nat

TestKind == [picks : Nat, rows : Nat \cup {NoData}]
FileKind == [ok : BOOLEAN, all : BOOLEAN, tests : Seq(TestKind), comps : Nat]

(* No test of the plan's files has two of the selected tags.                 *)
OneTagEach(p) == \A i \in DOMAIN p.files : \A j \in DOMAIN Content[p.files[i]].tests : Content[p.files[i]].tests[j].picks =< 1

(* A run without --parallel is on one device and takes --tag for one tag;    *)
(* ParseShard gives a shard of a positive number.                            *)
ASSUME PlanAssumption ==
  /\ Content \in [DOMAIN Content -> FileKind] /\ Bucket \in [DOMAIN Content -> Nat]
  /\ \A p \in Plans :
       /\ p \in [parallel : BOOLEAN, devices : Nat \ {0}, files : Seq(DOMAIN Content), shard : Nat, of : Nat \ {0}]
       /\ p.parallel \/ (p.devices = 1 /\ OneTagEach(p))

VARIABLES
  plan,       \* the plan of this command
  pc,         \* where each device's goroutine is
  at,         \* its place: file, test, row and attempt of the test
  fail,       \* runErr of the attempt
  log,        \* AttemptLog of the test: did each attempt pass
  cur,        \* results of the file, runFile's variable
  acc,        \* results of the files before, Run's variable
  err,        \* the error Run or runOnDevice is about to return
  attempt,    \* attempts of the device after the first
  res,        \* dr.Results and dr.Error
  forward,    \* the device's adb forward is set
  client,     \* r.client: the one that was dialled at first, a later one, or none that is open
  watching,   \* watchers of permission dialogs run
  open,       \* history: files with hooks set up for all tests and not torn down
  left,       \* history: those whose `after all` did not get through
  each,       \* history: a test is set up, torn down, or left as its `after each` did not get through
  broken,     \* history: files whose `before all` failed in this Run
  streamed,   \* results given to onResult
  cancelled,  \* the context of the command is cancelled
  exit        \* exit status of the command, or "running"

place  == <<at, fail, log, cur>>
vars == <<plan, pc, place, acc, err, attempt, res, forward, client, watching, open, each, left, broken, streamed, cancelled, exit>>
-----------------------------------------------------------------------------
(* The entries of a list at some places, in their order: SelectSeq, in terms *)
(* that a proof can expand.                                                  *)
Picked(s, places) ==
  LET upTo[n \in 0..Len(s)] == IF n = 0 THEN <<>> ELSE IF n \in places THEN Append(upTo[n - 1], s[n]) ELSE upTo[n - 1]
  IN upTo[Len(s)]

(* ShardFiles and DistributeFiles.                                           *)
Shard(p) == Picked(p.files, {i \in DOMAIN p.files : p.of =< 1 \/ Bucket[p.files[i]] % p.of = p.shard})

Deal(files, n, d) ==
  LET mine == {i \in DOMAIN files : (i - 1) % n = d - 1} IN [k \in 1..Cardinality(mine) |-> files[(k - 1) * n + d]]

Device  == 1..plan.devices
Files(d) == Deal(Shard(plan), plan.devices, d)

(* filterTests: a test is kept once for each selected tag it has.            *)
Entry(f, i) == [id |-> i, rows |-> Content[f].tests[i].rows]
Selected(f) == FlattenSeq([i \in DOMAIN Content[f].tests |-> [k \in 1..Content[f].tests[i].picks |-> Entry(f, i)]])

Spot(f, t, row) == [f |-> f, t |-> t, row |-> row, try |-> 1]
Start == Spot(1, 1, 0)
FirstRow(test) == IF test.rows \in Nat /\ test.rows > 0 THEN 1 ELSE 0

File(d)  == Files(d)[at[d].f]
Tests(d) == Selected(File(d))
Test(d)  == Tests(d)[at[d].t]

Result(f, id, row, l) ==
  [file |-> f, kind |-> "test", id |-> id, row |-> row, passed |-> l # <<>> /\ Last(l), skipped |-> FALSE, log |-> l]
CompositeResult(f, id, how) ==
  [file |-> f, kind |-> "composite", id |-> id, row |-> 0, passed |-> how = "passed", skipped |-> how = "skipped", log |-> <<>>]

Init ==
  /\ plan \in Plans
  /\ pc = [d \in Device |-> "forward"]
  /\ at = [d \in Device |-> Start] /\ fail = [d \in Device |-> FALSE]
  /\ log = [d \in Device |-> <<>>] /\ cur = [d \in Device |-> <<>>] /\ acc = [d \in Device |-> <<>>]
  /\ err = [d \in Device |-> FALSE] /\ attempt = [d \in Device |-> 0]
  /\ res = [d \in Device |-> [results |-> <<>>, error |-> FALSE]]
  /\ forward = [d \in Device |-> FALSE] /\ client = [d \in Device |-> "none"] /\ watching = [d \in Device |-> FALSE]
  /\ open = [d \in Device |-> {}] /\ left = [d \in Device |-> {}] /\ broken = [d \in Device |-> {}]
  /\ each = [d \in Device |-> "down"]
  /\ streamed = <<>> /\ cancelled = FALSE /\ exit = "running"

Set(x, d, v) == [x EXCEPT ![d] = v]
Goto(d, p) == pc' = Set(pc, d, p)
-----------------------------------------------------------------------------
(* runOnDevice of an Android device: forward; token, dial and handshake, for *)
(* which the command must still run; Run: recipes and grants.                *)
Fails(d) == err' = Set(err, d, TRUE) /\ Goto(d, "return")

Forward(d) ==
  /\ pc[d] = "forward"
  /\ \/ ~cancelled /\ forward' = Set(forward, d, TRUE) /\ Goto(d, "dial") /\ UNCHANGED err
     \/ Fails(d) /\ UNCHANGED forward
  /\ UNCHANGED <<plan, place, acc, attempt, res, client, watching, open, each, left, broken, streamed, cancelled, exit>>

Dial(d) ==
  /\ pc[d] = "dial"
  /\ \/ ~cancelled /\ client' = Set(client, d, "first") /\ Goto(d, "prepare") /\ UNCHANGED err
     \/ Fails(d) /\ UNCHANGED client
  /\ UNCHANGED <<plan, place, acc, attempt, res, forward, watching, open, each, left, broken, streamed, cancelled, exit>>

Prepare(d) ==
  /\ pc[d] = "prepare"
  /\ \/ watching' = Set(watching, d, TRUE) /\ Goto(d, "file") /\ UNCHANGED err
     \/ Fails(d) /\ UNCHANGED watching
  /\ UNCHANGED <<plan, place, acc, attempt, res, forward, client, open, each, left, broken, streamed, cancelled, exit>>

(* Run's loop over the files; an error returns what the files before gave.   *)
OpenFile(d) ==
  /\ pc[d] = "file"
  /\ IF at[d].f > Len(Files(d)) THEN Goto(d, "return") /\ UNCHANGED err
     ELSE IF Content[File(d)].ok THEN Goto(d, "beforeAll") /\ UNCHANGED err ELSE Fails(d)
  /\ UNCHANGED <<plan, place, acc, attempt, res, forward, client, watching, open, each, left, broken, streamed, cancelled, exit>>

EndFile(d, results) ==
  /\ acc' = Set(acc, d, acc[d] \o results)
  /\ cur' = Set(cur, d, <<>>)
  /\ at' = Set(at, d, Spot(at[d].f + 1, 1, 0))
  /\ Goto(d, "file")

(* A step of a hook or a body that reconnects, or restarts the app, closes   *)
(* the client and puts a new one in its place, if it gets one.               *)
Redials(d) == client' \in {client, Set(client, d, "none")} \cup (IF cancelled THEN {} ELSE {Set(client, d, "later")})

(* A failed `before all` fails every test of the file without running it.    *)
BeforeAll(d) ==
  /\ pc[d] = "beforeAll"
  /\ IF Content[File(d)].all THEN open' = Set(open, d, open[d] \cup {at[d].f}) /\ Redials(d) ELSE UNCHANGED <<open, client>>
  /\ \/ /\ Goto(d, "test")
        /\ UNCHANGED <<at, cur, acc, broken>>
     \/ /\ Content[File(d)].all
        /\ EndFile(d, [i \in DOMAIN Tests(d) |-> Result(File(d), Tests(d)[i].id, 0, <<>>)])
        /\ broken' = Set(broken, d, broken[d] \cup {at[d].f})
  /\ UNCHANGED <<plan, fail, log, err, attempt, res, forward, watching, each, left, streamed, cancelled, exit>>
-----------------------------------------------------------------------------
(* runTest: the rows of the data, one after the other.                       *)
BeginTest(d) ==
  /\ pc[d] = "test"
  /\ IF at[d].t > Len(Tests(d)) THEN Goto(d, "afterAll") /\ UNCHANGED <<err, at>>
     ELSE IF Test(d).rows = NoData THEN Fails(d) /\ UNCHANGED at
     ELSE at' = Set(at, d, Spot(at[d].f, at[d].t, FirstRow(Test(d)))) /\ Goto(d, "beforeEach") /\ UNCHANGED err
  /\ UNCHANGED <<plan, fail, log, cur, acc, attempt, res, forward, client, watching, open, each, left, broken, streamed, cancelled, exit>>

(* runSingleAttempt: hooks, body, hooks.                                     *)
BeforeEach(d) ==
  /\ pc[d] = "beforeEach"
  /\ \E ok \in BOOLEAN :
       /\ fail' = Set(fail, d, ~ok)
       /\ Goto(d, IF ok THEN "body" ELSE "onFailure")
  /\ each' = Set(each, d, "up")
  /\ Redials(d)
  /\ UNCHANGED <<plan, at, log, cur, acc, err, attempt, res, forward, watching, open, left, broken, streamed, cancelled, exit>>

Body(d) ==
  /\ pc[d] = "body"
  /\ \E ok \in BOOLEAN :
       /\ fail' = Set(fail, d, ~ok)
       /\ Goto(d, IF ok THEN "afterEach" ELSE "onFailure")
  /\ Redials(d)
  /\ UNCHANGED <<plan, at, log, cur, acc, err, attempt, res, forward, watching, open, each, left, broken, streamed, cancelled, exit>>

(* Mutant: the hooks after a failed test are left out.                       *)
Straight == "verdict"

AfterFailure == "afterEach"

OnFailure(d) ==
  /\ pc[d] = "onFailure"
  /\ Goto(d, AfterFailure)
  /\ Redials(d)
  /\ UNCHANGED <<plan, place, acc, err, attempt, res, forward, watching, open, each, left, broken, streamed, cancelled, exit>>

(* The error of a hook that tears down is dropped.  Under a context that is  *)
(* cancelled its steps fail.                                                 *)
AfterEach(d) ==
  /\ pc[d] = "afterEach"
  /\ \E how \in (IF cancelled THEN {"left"} ELSE {"down", "left"}) : each' = Set(each, d, how)
  /\ Redials(d)
  /\ Goto(d, "verdict")
  /\ UNCHANGED <<plan, place, acc, err, attempt, res, forward, watching, open, left, broken, streamed, cancelled, exit>>

NextPlace(d) ==
  IF at[d].row < Test(d).rows THEN Spot(at[d].f, at[d].t, at[d].row + 1) ELSE Spot(at[d].f, at[d].t + 1, 0)

(* Mutant: one retry too many.                                               *)
TriesOver(d) == at[d].try > Retries + 1

TriesUsed(d) == at[d].try > Retries

(* Mutant: composite tests are not streamed.                                 *)
TestsOnly(r) == IF plan.parallel \/ r.kind = "composite" THEN streamed ELSE Append(streamed, r)

(* OnResult, which only a run on one device sets.                            *)
Stream(r) == IF plan.parallel THEN streamed ELSE Append(streamed, r)

(* runSingleTest: the attempt's outcome (a regression against the baseline   *)
(* fails a passing one), and another attempt or the result.                  *)
Conclude(d, passed) ==
  LET l == Append(log[d], passed)
      r == Result(File(d), Test(d).id, at[d].row, l) IN
  IF passed \/ TriesUsed(d) \/ cancelled
  THEN /\ log' = Set(log, d, <<>>)
       /\ cur' = Set(cur, d, Append(cur[d], r))
       /\ streamed' = Stream(r)
       /\ at' = Set(at, d, NextPlace(d))
       /\ Goto(d, IF NextPlace(d).t = at[d].t THEN "beforeEach" ELSE "test")
  ELSE /\ log' = Set(log, d, l)
       /\ at' = Set(at, d, [at[d] EXCEPT !.try = @ + 1])
       /\ Goto(d, "beforeEach")
       /\ UNCHANGED <<cur, streamed>>

Verdict(d) ==
  /\ pc[d] = "verdict"
  /\ \E passed \in {~fail[d], FALSE} : Conclude(d, passed)
  /\ fail' = Set(fail, d, FALSE)
  /\ UNCHANGED <<plan, acc, err, attempt, res, forward, client, watching, open, each, left, broken, cancelled, exit>>

AfterAll(d) ==
  /\ pc[d] = "afterAll"
  /\ IF Content[File(d)].all THEN Redials(d) ELSE UNCHANGED client
  /\ \/ ~(Content[File(d)].all /\ cancelled) /\ open' = Set(open, d, open[d] \ {at[d].f}) /\ UNCHANGED left
     \/ Content[File(d)].all /\ left' = Set(left, d, left[d] \cup {at[d].f}) /\ UNCHANGED open
  /\ at' = Set(at, d, [at[d] EXCEPT !.t = 1])
  /\ Goto(d, "composite")
  /\ UNCHANGED <<plan, fail, log, cur, acc, err, attempt, res, forward, watching, each, broken, streamed, cancelled, exit>>

Composite(d) ==
  /\ pc[d] = "composite"
  /\ IF at[d].t > Content[File(d)].comps THEN EndFile(d, cur[d]) /\ UNCHANGED streamed
     ELSE \E how \in IF plan.parallel THEN {"skipped"} ELSE {"passed", "failed", "skipped"} :
            /\ cur' = Set(cur, d, Append(cur[d], CompositeResult(File(d), at[d].t, how)))
            /\ streamed' = Stream(CompositeResult(File(d), at[d].t, how))
            /\ at' = Set(at, d, [at[d] EXCEPT !.t = @ + 1])
            /\ UNCHANGED <<pc, acc>>
  /\ UNCHANGED <<plan, fail, log, err, attempt, res, forward, client, watching, open, each, left, broken, cancelled, exit>>
-----------------------------------------------------------------------------
(* The deferred calls of Run and runOnDevice.  Close is of the client that   *)
(* was dialled at first: a later one stays open.  RemoveForward runs adb     *)
(* under the command's context, so it does nothing once that is cancelled.   *)
Closed(d) == IF client[d] = "later" THEN "later" ELSE "none"

AttemptsLeft(d) == attempt[d] < MaxRetries

Return(d) ==
  /\ pc[d] = "return"
  /\ watching' = Set(watching, d, FALSE)
  /\ client' = Set(client, d, Closed(d))
  /\ forward' = Set(forward, d, forward[d] /\ cancelled)
  /\ res' = Set(res, d, [results |-> acc[d], error |-> err[d]])
  /\ Goto(d, IF err[d] /\ plan.parallel /\ AttemptsLeft(d) THEN "again" ELSE "done")
  /\ cur' = Set(cur, d, <<>>)
  /\ UNCHANGED <<plan, at, fail, log, acc, err, attempt, open, each, left, broken, streamed, cancelled, exit>>

(* Mutant: the next attempt adds to the results of the one before.           *)
Kept(d) == acc[d]

NoResults(d) == <<>>

Again(d) ==
  /\ pc[d] = "again"
  /\ attempt' = Set(attempt, d, attempt[d] + 1)
  /\ at' = Set(at, d, Start) /\ acc' = Set(acc, d, NoResults(d)) /\ err' = Set(err, d, FALSE)
  /\ open' = Set(open, d, {}) /\ left' = Set(left, d, {}) /\ broken' = Set(broken, d, {})
  /\ Goto(d, "forward")
  /\ UNCHANGED <<plan, fail, log, cur, res, forward, client, watching, each, streamed, cancelled, exit>>

Merged == FlattenSeq([d \in Device |-> res[d].results])
AllPassed(rs) == \A i \in DOMAIN rs : rs[i].passed \/ rs[i].skipped
AnyError == \E d \in Device : res[d].error

(* Mutant: wg.Done is not called for a device that failed.                   *)
NoneFailed == \A d \in Device : pc[d] = "done" /\ ~res[d].error

Waited == \A d \in Device : pc[d] = "done"

(* Mutant: the error of Run is forgotten.                                    *)
OnlyResults == ~AllPassed(Merged)

Failed == (~plan.parallel /\ AnyError) \/ ~AllPassed(Merged)

(* wg.Wait, the report and the exit status: without --parallel an error of   *)
(* Run is the command's, with it the errors are printed.                     *)
Exit ==
  /\ exit = "running" /\ Waited
  /\ exit' = IF Failed THEN "failed" ELSE "ok"
  /\ UNCHANGED <<plan, pc, place, acc, err, attempt, res, forward, client, watching, open, each, left, broken, streamed, cancelled>>

Interrupt ==
  /\ MayInterrupt /\ ~cancelled /\ exit = "running"
  /\ cancelled' = TRUE
  /\ UNCHANGED <<plan, pc, place, acc, err, attempt, res, forward, client, watching, open, each, left, broken, streamed, exit>>

Step(d) ==
  \/ Forward(d) \/ Dial(d) \/ Prepare(d) \/ OpenFile(d) \/ BeforeAll(d) \/ BeginTest(d)
  \/ BeforeEach(d) \/ Body(d) \/ OnFailure(d) \/ AfterEach(d) \/ Verdict(d) \/ AfterAll(d)
  \/ Composite(d) \/ Return(d) \/ Again(d)

Next == Interrupt \/ Exit \/ \E d \in Device : Step(d)

Spec == Init /\ [][Next]_vars
FairSpec == Spec /\ WF_vars(Exit) /\ WF_vars(\E d \in Device : Step(d))
-----------------------------------------------------------------------------
Where == {"forward", "dial", "prepare", "file", "beforeAll", "test", "beforeEach", "body", "onFailure", "afterEach",
          "verdict", "afterAll", "composite", "return", "again", "done"}

TypeOK ==
  /\ pc \in [Device -> Where]
  /\ \A d \in Device : at[d].f \in 1..(Len(Files(d)) + 1) /\ at[d].try \in 1..(Retries + 1) /\ at[d].row \in Nat
  /\ fail \in [Device -> BOOLEAN] /\ err \in [Device -> BOOLEAN] /\ attempt \in [Device -> 0..MaxRetries]
  /\ forward \in [Device -> BOOLEAN] /\ client \in [Device -> {"none", "first", "later"}]
  /\ watching \in [Device -> BOOLEAN] /\ each \in [Device -> {"down", "up", "left"}]
  /\ cancelled \in BOOLEAN /\ exit \in {"running", "ok", "failed"}

Key(r)  == <<r.file, r.kind, r.id, r.row>>
Keys(rs) == [i \in DOMAIN rs |-> Key(rs[i])]

Rows(test) == IF test.rows = NoData THEN <<>> ELSE IF test.rows = 0 THEN <<0>> ELSE [k \in 1..test.rows |-> k]
KeysOf(f, tests, isBroken) ==
  LET one(test) == IF isBroken THEN <<<<f, "test", test.id, 0>>>> ELSE [k \in DOMAIN Rows(test) |-> <<f, "test", test.id, Rows(test)[k]>>]
  IN FlattenSeq([i \in DOMAIN tests |-> one(tests[i])])
     \o (IF isBroken THEN <<>> ELSE [k \in 1..Content[f].comps |-> <<f, "composite", k, 0>>])

(* Of the first n files, by what filterTests keeps, and by what is selected: *)
(* a test that has a selected tag, or any when none is.                      *)
Chosen(f) == FlattenSeq([i \in DOMAIN Content[f].tests |-> IF Content[f].tests[i].picks = 0 THEN <<>> ELSE <<Entry(f, i)>>])

KeysUpTo(d, n) == FlattenSeq([i \in 1..n |-> KeysOf(Files(d)[i], Selected(Files(d)[i]), i \in broken[d])])
OnceUpTo(d, n) == FlattenSeq([i \in 1..n |-> KeysOf(Files(d)[i], Chosen(Files(d)[i]), i \in broken[d])])

(* DistributeFiles, ShardFiles: what the devices of all the shards are dealt *)
(* is every file, as often as it is named, whatever their numbers.           *)
Dealt == [who \in (0..(plan.of - 1)) \X Device |-> Deal(Shard([plan EXCEPT !.shard = who[1]]), plan.devices, who[2])]
EveryFileOnce ==
  LET dealt == Dealt IN
  \A f \in Range(plan.files) :
    Cardinality({run \in (DOMAIN dealt) \X (DOMAIN plan.files) : run[2] \in DOMAIN dealt[run[1]] /\ dealt[run[1]][run[2]] = f})
      = Cardinality({i \in DOMAIN plan.files : plan.files[i] = f})

(* Run, runOnDevice: no file is left out, and a device's results are one for *)
(* each selected test, row and composite test of the files it finished, in   *)
(* their order, also after attempts that failed half way; without an error   *)
(* it finished all files.                                                    *)
AllAccounted ==
  /\ EveryFileOnce
  /\ \A d \in Device :
       /\ Keys(acc[d]) = OnceUpTo(d, at[d].f - 1)
       /\ pc[d] = "done" => res[d].results = acc[d] /\ (~res[d].error => at[d].f = Len(Files(d)) + 1)

(* runSingleTest: a result tells its attempts: all but the last failed, at   *)
(* most Retries + 1, and a failure stands only when no attempt was left or   *)
(* the run was cancelled.                                                    *)
Tells(r) ==
  r.log # <<>> =>
    /\ Len(r.log) =< Retries + 1
    /\ \A k \in 1..(Len(r.log) - 1) : ~r.log[k]
    /\ r.passed <=> Last(r.log)
    /\ r.passed \/ Len(r.log) = Retries + 1 \/ cancelled

AttemptsTold == \A d \in Device : \A r \in Range(acc[d] \o cur[d]) : Tells(r)

(* runFile, runSingleAttempt: what a hook set up, the hooks after it have    *)
(* tried to tear down: before an attempt is judged and before a test begins, *)
(* and, unless `before all` failed or the Run returned in this file, before  *)
(* the next file.  They did not get through if one failed or the run was     *)
(* interrupted.                                                              *)
TornDown ==
  \A d \in Device :
    /\ pc[d] \in {"verdict", "test", "beforeEach", "file", "return", "done"} => each[d] # "up"
    /\ pc[d] \in {"file", "return", "done"} => open[d] \subseteq broken[d] \cup left[d] \cup (IF err[d] THEN {at[d].f} ELSE {})

(* runOnDevice: between its attempts and at the end a device has no watcher, *)
(* no client, but for one that a reconnect put in the place of the first,    *)
(* and, unless the run was interrupted, no forward.                          *)
NothingLeft ==
  \A d \in Device : pc[d] \in {"forward", "again", "done"} =>
    client[d] # "first" /\ ~watching[d] /\ (forward[d] => cancelled)

(* What a run sets up, in the app and on the host, it tries to take down.    *)
CleanedUp == TornDown /\ NothingLeft

(* OnResult: a run on one device has streamed exactly the results it         *)
(* reports, in their order, but for tests that a `before all` failed.        *)
Attempted(r) == r.log # <<>> \/ r.kind = "composite"
StreamIsReport ==
  ~plan.parallel /\ (pc[1] = "done" => ~res[1].error) =>
    LET told == acc[1] \o cur[1] IN streamed = Picked(told, {i \in DOMAIN told : Attempted(told[i])})

(* Each test is reported once, in the results and in the stream alike.       *)
ReportedOnce == AllAccounted /\ StreamIsReport

(* runTests: exit status 0 means that every device without an error ran all  *)
(* its tests and they passed, and that a run on one device had no error.     *)
OkMeansPassed ==
  exit = "ok" =>
    /\ \A d \in Device : res[d].error \/ (Keys(res[d].results) = KeysUpTo(d, Len(Files(d))) /\ AllPassed(res[d].results))
    /\ AnyError => plan.parallel

(* The command ends, whatever fails on its devices.                          *)
CommandEnds == <>(exit # "running")

(* The exit status as documented: 0 is "passed".                             *)
OkMeansAllRan == exit = "ok" => ~AnyError

(* The hooks as documented: "`after all` always runs".                       *)
AfterAllRuns == \A d \in Device : pc[d] = "done" => open[d] \subseteq broken[d] \cup left[d]

(* The interrupt as its comment has it: "so deferred cleanup (iproxy, ADB    *)
(* forwards, idevicesyslog) actually runs".                                  *)
ForwardsRemoved == \A d \in Device : pc[d] = "done" => ~forward[d]
=============================================================================
