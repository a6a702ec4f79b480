# FlutterProbe: formal models

FlutterProbe drives Flutter apps under test. The Go command `probe` parses
ProbeScript files, connects over a WebSocket to an agent inside the app, runs
the steps on one device or on several at once, and reports. Around it are a hub
that streams a device's screen, an MCP server that runs tests in the
background, a desktop Studio, cloud providers and the Dart agent.

The TLA+ modules here model the parts whose correctness depends on an order of
events that tests hardly reach. TLC checks them on small instances; TLAPS proves
the most important safety properties for every value of the constants.

Contents: [inventory](#inventory), [modules](#modules), [runs](#runs),
[disagreements found](#disagreements-found), [bounds](#bounds),
[fairness](#fairness), [proofs](#proofs), [not modelled](#not-modelled),
[what is left](#what-is-left), [how to run](#how-to-run).

## Inventory

Paths are relative to the repository. "State" is what outlives one call.

| Component | State | Operations | Hard about it | What makes it correct |
|---|---|---|---|---|
| Composite tests: `internal/runner/composite_runner.go`, `sync_barrier.go` | one barrier per label (count, gate), two contexts, one goroutine per device, a result channel | start, run a step, arrive, wait, abort, cancel, collect | interleaving of goroutines, failures while others wait | rendezvous at every sync, honest verdict, nobody hangs |
| Step executor: `internal/runner/executor.go`, `http_steps.go`, `device_context.go` | the client, the list of mocks, the call stack of nested blocks | run a body, dispatch a step, blocks, lifecycle steps, reconnect, re-register mocks | lost answers, crashes, deadlines, nested retries | a passed body did everything, a repetition has a cause, mocks survive a restart, every run ends |
| Runner: `internal/runner/runner.go`, `csv.go` | results of the file and of the files before, what hooks set up, the attempts of a test | select by tag, beforeAll, beforeEach, rows of data, retry, afterEach, afterAll, composite tests, stream a result | one of several steps failing, an interrupt anywhere | every selected test is reported once, what was set up is given to the hooks that tear it down, attempts are told truly, the stream is the report |
| Parallel runs: `orchestrator.go`, `internal/cli/test.go` | one result entry per device, its forward, client and watcher | shard, deal out, connect, run, retry a device, merge, exit | retry of what was done, a device that never connects | no file lost or run twice, nothing left on the host, an exit status that is true |
| ProbeLink client: `internal/probelink/client.go` | map of pending calls, closed flag, mutex, socket | call, read loop, drain, close | reordered and late replies, a write that blocks, failure during a call | one outcome per call, no blocked send, every call returns |
| ProbeLink dialling: `client.go`, `http_client.go`, `portholder.go`, `version.go` | none between dials | dial with retries, make the forward again, refresh the token | nested deadlines, a token that changes while it is read | the agent is found unless it is gone, in the time of the step |
| Device view hub: `internal/deviceview` | the client, pause, settings, the agent connection, wake-ups | admit, attach, replace, detach, pause, frame loop, tree loop, shut down | interleaving of handlers, workers, loops and shutdown; stale reads | one client, no lost wake-up, no screenshots for nobody, a clean end |
| MCP jobs: `internal/mcp/jobs.go` | registry, state, flag and output of each job | start, status, result, cancel, prune, stop all | exit racing cancel, timers, the limit of kept jobs | cancel is final, no running job forgotten, none left behind |
| MCP protocol and tools: `internal/mcp/server.go`, `studio.go` | none | one call after another | a blocking call | part of McpJobs |
| Device commands: `internal/device`, `internal/ios`, `internal/sysdialog` | an iproxy process, an XCUITest driver process | run adb, simctl, devicectl; read a token | commands that fail, errors that are ignored, a process that outlives its owner | a token of the living agent, nothing left running |
| Local uploads: `internal/hosted/local_state.go`, `upload.go` | signer, sequence and lock file, shared by all runs of an installation; the service's reports | read or link the signer, reserve a number, upload with retries | concurrent runs, stale locks, deaths, a clock that is set | one signer, no number twice, `uploaded` means stored |
| Hosted runs: `internal/hosted/hosted.go`, `attestation.go`, `scrub.go` | none | attest, scrub, send | data | out of scope |
| Cloud providers: `internal/cloud` | none | upload, start, poll, relay | a service outside | out of scope |
| Recordings: `internal/record` | one bundle, one mutex | append, redact, serve | a reader of a bundle in writing | a reader sees whole frames |
| Parser: `internal/parser`; reports, visual, migrate, l10n, config, licences, plugins, AI, perf | values only | pure functions, loading | data, not order | tests cover them |
| Dart agent: `probe_agent/lib` | the token and its files, HTTP log and mocks, sessions, finders | start, announce the token, accept, RPC, settle, mock | files that others delete, an accept loop that awaits a call | a living agent's token is back within seconds |
| Studio, connections: `studio/app.go`, `deviceview.go` | the current connection, its frame loop or hub, host tunnels | Connect, ConnectWiFi, Disconnect, shutdown, GetDeviceView | calls of the window and of automation at once, bounded waits | one live connection, what is replaced is closed after its users stopped |
| Studio, runs: `studio/runtrack.go`, `run_scope.go` | the run slot, RunState, the ledger of failed tests | run a scope, run in the background, cancel | a cancel function read before and called after an unlock, a file edited meanwhile | one run at a time, a cancel hits its run, no failure forgotten |
| Studio, rest; commands: `internal/cli`, `cmd` | windows, flags | user actions | starting the above | over the packages above |
| VS Code extension, generators, converter, iOS driver, website | outside the CLI's process | | | not modelled |

How they interact: a command builds a `Runner`; the runner builds a
`StepExecutor` per test (or one per device in a composite test); the executor
calls `Client.Call`, whose read loop answers through a channel; the hub calls
the same client from its frame loop; the MCP server starts `probe test`
processes and waits for them in goroutines; contexts carry the user's interrupt
down. `PROJECT.json` lists every component with its sources, and every hazard
with its line and the properties that would catch it.

## Modules

### CompositeRunner, SyncRendezvous

`CompositeRunner` is `RunCompositeTest` with `runCompositeSteps` and
`SyncBarrier`. `pc[d]` is the program counter of a device's goroutine, `pos[d]`
the last step of the body it completed, `cnt` and `gate` are `barriers[l].cnt`
and "`barriers[l].ch` is closed", `parentDone` and `compDone` are the two
contexts, `resultCh` and `results` the collection.

| Action | Code |
|---|---|
| `Start` | the check of the declared aliases; skip or start the goroutines |
| `LoopHead` | the head of `runCompositeSteps`: no step left, `ctx.Err()`, sync or step |
| `RunStep` | `exec.RunStep`: succeeds, fails, or is cancelled |
| `ArriveCount`, `OpenGate`, `WaitAtGate` | `Arrive`: the count under the mutex, the close, the select |
| `Returned`, `Abort`, `CompCancel`, `SendResult` | what the goroutine does with the error: abort each barrier, then cancel, then send |
| `Collect`, `Finish` | the collecting loop, the deferred cancel |
| `ParentCancel` | SIGINT or SIGTERM |

`SyncRendezvous` says what is promised without barriers or contexts: a point
lets a device pass when all have reached it or one has failed, every device
reports once, and a cancellation has a cause. `CompositeRunner` implements it
under the mapping `Promise`.

### StepExecutor

One run of one device: a sequence of tests, each with a body and after-each
steps. The recursion RunBody, runStep, handler, RunBody is `stack`, the Go
return value is `ret`: "run" while going on, "conn" for an error that
`isConnectionError` knows, "fail" for any other, "gone" for a failed
`tryReconnect`. `mocks` is `e.http.mocks`, `agentMocks` the mocks inside the
app's process, `conn` and `alive` the connection and the process.

A call to the agent meets one of five fates: it is answered; it is done and the
answer is lost with the connection; the connection was gone; its deadline
passes before, or after, the agent has done it. `Client.Call` does not look whether the
connection still works, so on one that is "lost" a call fails at once or goes into a buffer
and waits out its deadline; on one that is "closed" by the client itself it fails at once. All verbs that are one such call
are the action `RunAct`; the others have their own.

| Action | Code |
|---|---|
| `BeginAttempt`, `EndBody`, `EndAttempt` | `runSingleAttempt`, `beginHTTP`, the retries of `runSingleTest` |
| `RunBody`, `StepReturned` | `RunBody`; `runStep` after the handler: reconnect, repeat, skip an optional step |
| `RunMock`, `RunConditional`, `RunRecipeCall`, `RunBlock`, `Loop`, `Retry` | the handlers of these steps |
| `RunOpen`, `RunRestart`, `RunClear`, `RunKill`, `RunPermit` | the lifecycle handlers; the app may be left as it was, stopped, or new |
| `Reconnect`, `Relaunch`, `ReapplyMocks` | `tryReconnect`, `Reconnect`, `relaunchApp`, `reapplyMocks` |
| `Drop`, `Crash` | external: the link, the app |

`Steps` is the set of steps a script may hold, which the proofs need and the
runs give as the steps of `Plans`. `Count` is how often a block of steps is tried: a retry tries at
least once, whatever number the script gives.

The scripts in `MCStepExecutor` carry what a passing body must have done
(`want`), how often (`times`), and the answers its mocks give (`answers`).

### AgentSession

How the CLI finds the agent in the app again, on an Android device or a
simulator: `server.dart` (the token and where it is written), `device_context.go`
(stop, launch, `Reconnect`, `ReconnectWithToken`), `tryReconnect`, the readers of
tokens and `DialWithOptions`. Each file may fail to be written, read or deleted on its own,
and as in the code nobody is told: `set_next_token` is answered with ok although
nothing was written. `tok` is the token of the agent's process `gen`; `cache`,
`shared` and `log` are the places a token is read from (the app's own file, one
that all apps share, the newest line of logcat), `next` is the file that
`set_next_token` leaves. `at` is where a recovery `op` is, `hand` the token it
dials with. `t` has a timer for each deadline and interval, in seconds, and
`Pass` counts them down when nobody has anything to do; `cause` is a history of what
happened to the recovery.

| Action | Code |
|---|---|
| `Start`, `Serve`, `Tick` | `ProbeAgent.start`: the token, the socket, `_writeTokenFile`, the periodic timer |
| `Begin`, `Backoff` | `SetNextToken` and the close of the client; the wait of `tryReconnect` |
| `StopApp`, `LaunchApp` | `RestartApp`, `ClearAppData` |
| `Forget`, `Settled`, `ReadToken` | `Reconnect`: old tokens deleted, the forward made or the app woken; the sleep; `ReadTokenAndroid`, `ReadTokenIOS` |
| `Refused`, `Eof`, `Rejected`, `RefreshToken`, `DialTimesOut`, `Accepted`, `Handshake` | `DialWithOptions` and who calls it; `_serve` on the other side |
| `Kill`, `Crash`, `Suspend`, `Purge`, `LinkLost` | `KillApp`; external: the app, iOS, Android's cache, the link |

### ProbeLinkClient, RpcPromise

`Client.Call`, `readLoop`, the drain and `Close` around one mutex. A caller
makes one call and stands for its request ID. `mu` is part of the state where
the mutex is held across a step that may block: a write (while the socket's
buffer is full) and the drain. `ch[c]` is the channel of capacity one. `link` is
"up", "stuck" (nothing gets through, no error) or "cut".

`RpcPromise` is what a caller may rely on: one outcome, which stays; a call is
carried out at most once; "answered" only if it was carried out. It does not
promise that a failed call was not carried out, and the executor must live with
that.

### McpJobs

`jobs.go` and the loop of `server.go` that serves one tool call after another.
A job is its number in the order of starts, so the registry's map and order are
one set. `proc[j]` is the operating system's view (alive, zombie, reaped),
`state[j]` the job's; `cancelled` is the flag under the job's mutex, `done` the
closed channel, `timer` the armed `time.AfterFunc`. Starting, registering,
flagging, signalling, reaping, recording and closing the channel are separate
actions because other goroutines run in between. `RunTests` stands for the
blocking `run_tests`, during which the loop reads nothing. Process numbers are
not reused in the model.

### DeviceViewHub

`Run`, the handler of each connection (which becomes its reader), the three
workers of a client (one goroutine in the model: they end on the same
condition) and the frame loop. `pausedBy` remembers who set `h.paused`, `wake`
is the token in `wakeCh`, `late` counts screenshots requested since nobody
watches. What a peer has sent before its connection is closed is still read
after the close.

| Action | Code |
|---|---|
| `Refuse`, `Admit`, `UpgradeFails`, `Attach`, `CloseOld`, `Serve` | `serveHTTP`, `attach`, `closeWith` after the unlock, the start of the workers |
| `Pause`, `Resume`, `ApplyConfig`, `PeerLeaves`, `WriteFails`, `ReadFails`, `Detach`, `HandlerEnds`, `WorkerStops` | reader, writer, `setPaused`, `detach` |
| `Check`, `FallAsleep`, `WakeUp`, `Dial`, `Detect`, `Shoot`, `ShotReturns` | `frameLoop`, `ensureAgent`, `dropAgent` |
| `SetClosed`, `Cancel`, `CloseLast`, `Return` | the end of `Run` |

### TestRun

One `probe test`: `ShardFiles` and `DistributeFiles`, then a goroutine per
device (`runOnDevice`, or the single device of a plain run), `Runner.Run` with
`runFile`, `runTest`, `runDataDriven`, `runSingleTest`, `runSingleAttempt`, and the
exit of `runTests`. `pc[d]` and `at[d]` (file, test, row, attempt) are the place of a
device's goroutine, `cur` and `acc` are the two `results` slices, `res` the
`DeviceRun`, `streamed` what `onResult` was given. `open`, `left`, `each` and `broken`
are histories of what hooks have set up and did not tear down. Hooks and bodies pass or fail freely:
what happens inside an attempt is `StepExecutor`, but for the client, which a reconnect
in any of them may lose or replace (`Redials`): `client` says whether it is the one that
was dialled at first, the only one the deferred `Close` is for.

| Action | Code |
|---|---|
| `Forward`, `Dial`, `Prepare` | `runOnDevice` up to `Run`; recipes, grants, the dialog watcher |
| `OpenFile`, `EndFile` | the loop of `Run` over the files; an error returns what came before |
| `BeforeAll`, `AfterAll`, `Composite` | `runFile` |
| `BeginTest`, `Verdict` | `runTest`, the rows of data, retries of `runSingleTest`, the performance verdict |
| `BeforeEach`, `Body`, `OnFailure`, `AfterEach` | `runSingleAttempt` |
| `Return`, `Again` | the deferred calls; the retry of a device in `runOnDevice` |
| `Redials` (part of the hooks and the body) | `tryReconnect` and the executor's `onReconnect`, which sets `r.client` |
| `Exit`, `Interrupt` | `wg.Wait`, merging, the exit status; SIGINT or SIGTERM |

### LocalUpload

`--upload-local`: the runs of an installation share three files, and every step
that the file system makes atomic is an action: `ReadSigner` and `LinkSigner`
(`os.Link` fails if the file is there), `BeginReserve`, `OpenLock` (`O_EXCL`),
`StatLock`, `RemoveStale`, `ReadState`, `WriteState`, `Unlock`, `Send`. `Die` ends a run
anywhere, `Tick` and `SetClock` are the wall clock, which mtimes and the floor
of a number use; the deadline of a wait is monotonic (`waited`). `stolen`
records that a run removed the lock of one that still lived. With `Punctual` no
live run holds the lock longer than `lockStale`.

### StudioConnections

The connections of Studio's `App`. A connection has the name of the call of
`Connect` that made it; `stage[c]` is how far `stopConnection` is with it,
`stream` and `hub` are its frame loop and device view hub, `open` says whose
client is open, `late` for which connections a two-second wait passed. `tunnel` is
what `adb forward` and `iproxy` left on the host.

| Action | Code |
|---|---|
| `ClearTunnel`, `StartTunnel`, `PollTunnel` | `Connect`, under no lock: `EnsureADB` and `ForwardPort`; of `EnsureIProxy` the kill and the half second after it, the start of its own, the poll of the port, which any listener satisfies |
| `Dial`, `Publish`, `StartFrames` | `Connect` and `ConnectWiFi`: token, dial, ping; the swap of `a.conn` under `a.mu`; after `stopConnection` of the replaced one, `startFrameSource` |
| `Disconnect`, `Shutdown` | the same names |
| `WaitView`, `Close` | `stopConnection`: the hub, the frame loop, the client, `cleanup` |
| `StreamEnds`, `HubEnds` | `streamLoop`, the goroutine of `hub.Run` |
| `GetDeviceView` | the same name, under `a.mu` |

### StudioRuns

The runs of one file in Studio. `slot` is `a.runCancel` (whose run it would
cancel), `rpc[r]` the place of a call of `runScoped` or `runFileAsync`, `track`
what `RunState` tells, `ledger` is `a.failures`. `last` is a history of how each
test ended last. The connection comes and goes and the file is edited at any
moment.

| Action | Code |
|---|---|
| `ClaimRun`, `ReleaseRun` | `claimRun`, `releaseRun`; the checks before |
| `Resolve`, `ScopeRefused` | `resolveRunScope`; a background run answers its caller here |
| `Execute`, `NotConnected` | `executeRun` up to `begin`; the error a background run leaves in `RunState` |
| `ReadFile`, `RunTest`, `RunEnds`, `BeforeAllFails`, `RunFails` | `Runner.Run` and what `executeRun` does with its results |
| `CancelLooks`, `CancelCalls` | `CancelRun`: read under `runMu`, called after the unlock |
| `Reconnect`, `Edit` | the user |

### How they compose

`TestRun` runs bodies that `StepExecutor` details and composite tests that
`CompositeRunner` details; both use the promise of `ProbeLinkClient`
(`RpcPromise`: one outcome per call, "failed" says nothing about the agent).
`Reconnect`, `Relaunch` and `RunRestart` of `StepExecutor` succeed or fail freely: `AgentSession`
says when they may fail and how long they take.
`McpJobs` starts `TestRun`s as processes, `LocalUpload` follows one.
`StudioConnections` owns the client that `DeviceViewHub` and the runs of
`StudioRuns` use, and lets them be cut off after two seconds only. Each
interface is a nondeterministic outcome in the module above; the compositions
that are checked are the two refinements (`Promise` in `CompositeRunner` and in
`ProbeLinkClient`).

## Runs

Every passing run but `agent_session` has fairness in its specification and
`CHECK_DEADLOCK FALSE`: a composite test, a script, a call, a server, a hub, an
upload and a command all end, and Studio's calls may all be over; then nothing more
happens. Where an end is due, a liveness property says so, which a real deadlock
would violate. `agent_session` checks for deadlock, since the agent's timer never
ends. Each takes between a second and two and a half minutes with two workers.

| Run | Instance | Shows |
|---|---|---|
| `composite2` (4 111 states) | two devices, four bodies | `Rendezvous`: nobody passes a sync before all have arrived unless one failed. `VerdictIsHonest`: a passed test ran everything, a failed one names a failure, a cancellation has a cause. `ImplementsPromise`, `Termination` |
| `executor` (451 629) | five runs of scripts, two cuts, one missed deadline, one retry | `ActsAsWritten`: a passed body did every act in order, acts are repeated only after a lost connection. `OnlyDeadlinesCost`: a lost connection that a call notices neither decides a branch nor costs a mock; a deadline that passes does both. `Termination`, however reconnects nest |
| `agent_session` (1 227 096) | two recoveries, two faults, the default times | `GivesUpForCause`: the agent is found again unless the app was gone, died or slept, the new connection broke, a command that stops, starts or wakes it failed, or the file with the pre-shared token was not written, not read or purged; never because announced tokens were not written, deleted, stale or of another app, or a forward was gone. `EndsInTime`: deadlines, windows and sleeps together stay within the timeout of the step, but for a sleep before the dial |
| `probelink` (44 458) | two calls, `Close`, a link that fails | `ImplementsPromise`; `RoomInChannel`: the read loop never blocks on a send; `CallsReturn` |
| `mcp_jobs` (401 852) | three jobs, two kept, one cancelled | `RunningIsKnown`, `CancelPrevails`, `NoneLeftBehind`: no running job is forgotten, cancel is final, `Run` leaves nothing behind. `CancelEnds` |
| `device_view` (151 622) | two connections | `PausedByClient`, `OneLateShot`, `ReplacedIsClosed`, `Watching` (no wake-up is lost), `Returns` and `QuietAfterReturn`, if nobody is being upgraded |
| `local_upload` (395 742) | two runs, one death, one jump of the clock, `Punctual = FALSE` | `SoleWriter`, `IdentitiesUnique` (one signer, no number twice), `Increasing`, `ReportsArrive`, as long as no live lock was removed; `EveryRunEnds` |
| `test_run` (353 734) | six commands | `ReportedOnce`: each file belongs to one device of one shard, each selected test is reported once, after whatever attempts, and streamed as it is reported, as long as no test has two of the selected tags. `AttemptsTold`. `CleanedUp`: the hooks that tear down are tried on every path but the named ones; no watcher stays, nor the client dialled at first, nor a forward unless the run was interrupted. `OkMeansPassed`, `CommandEnds` |
| `studio_connections` (455 100) | an Android device and twice one iPhone | `LiveOrStopped`: one live connection; a client is closed under its loop or hub only after a wait timed out. `PhoneTunnelKept`: a connection to a phone whose set-up no other one overlapped keeps its iproxy; the cleanup of the replaced connection spares it. `ReplacedAreClosed` |
| `studio_runs` (476 296) | a run in the background and one of the window, again and again; two tests | `RunsApart`: one run at a time, `RunState` and `CancelRun` are about that run, a background run is told to be over. `FailedAreChosen`: "failed only" picks all tests that failed last, and no test that passed since. `RunsEnd` |

Several properties are conjunctions of named parts (`IdentitiesUnique`,
`ReportsArrive`, `CleanedUp`, `VerdictIsHonest`, `OnlyDeadlinesCost`, `ReportedOnce`, `LiveOrStopped`, `RunsApart`), each with its own
comment; TLC names the whole when a part fails.

Each property of a passing run has a mutant: an operator beside the mapped
definition, marked "Mutant" in its comment, which changes that definition as a
plausible bug would (a gate that opens one arrival early, a lock file opened
without `O_EXCL`, a slot that is not given back). With it in place TLC finds the
property violated under the same configuration.

## Disagreements found

Each is a configuration whose single property states what the repository says, and
which TLC refutes by what the code does. `parallel_exit` and `agent_gone` are listed as findings
in `PROJECT.json`; the others are kept beside them to be run.

| Configuration | Says | Does |
|---|---|---|
| `parallel_exit` | exit status 0 is "passed" | with `--parallel` the files of a device that never connects are not in the report; when the others pass, the command exits 0 |
| `agent_gone` | after `kill the app` a step on any verb relaunches the app (PT-18 in `CHANGELOG.md`) | the automatic reconnect deletes the tokens, waits for a new one until the step is over, and fails before it dials; only a refused dial leads to the relaunch |
| `tags_twice` | `--tag` runs "only tests with this tag", `filterTests` "keeps the tests the run selects" (`runner.go:639`) | with `--parallel` the tags are a list; a test that has two of them is kept, run and reported once for each |
| `after_all_skipped` | "`after all` always runs, even if tests failed" (`hooks.md:124`), "always, best-effort" (`runner.go:300`) | it does not run when a test's CSV file cannot be read: `runFile` returns the error before it |
| `forward_left` | an interrupt cancels the run "so deferred cleanup (iproxy, ADB forwards, idevicesyslog) actually runs" (`test.go:239`) | the deferred `RemoveForward` runs adb under the context that was cancelled, which starts no process; the forward stays |
| `composite_undeclared` | a device step goes to its alias | steps of an alias neither declared nor configured run nowhere and the test passes |
| `executor_stale_mock` | a test starts without mocks | the reset's error is ignored; after a connection loss between two tests the mocks of the first answer in the second |
| `composite_repeated` | all devices reach a label before any proceeds | a label used twice reuses a barrier that is already open; no check enforces unique labels |
| `composite_aborted` | a device waiting at a barrier when another fails is cancelled | the gates are opened before the context is cancelled, so it may go on, run its next step and pass |
| `executor_blind_branch` | a dead connection no longer makes a condition take the wrong branch (issue 237) | a check on a lost connection may wait out its second instead of failing; then the else branch is taken. The comment on iOS permissions (`executor.go:1096`) knows such connections |
| `executor_gives_up` | `reconnect_attempts` is the number of attempts | the loop ends at the first reconnect that fails |
| `mcp_killed` | jobs are killed when the MCP process exits | only when it exits at end of input; a signal leaves them running |
| `hub_shutdown` | `Run` closes the client and returns | a connection admitted before the flag and attached after it is closed by nobody; while its peer sends, `Run` waits |
| `local_two_writers` | the lock serialises reservations | of two runs that judge the same lock stale the slower one removes the lock the faster one has taken, although every live run is punctual |
| `studio_no_tunnel` | a successful `Connect` gives the connection that subsequent calls use (`studio/app.go:575`) | of two overlapping calls to one phone the later one may be served by the iproxy of the earlier, which ends with the connection it replaces: the current connection is left without a way to the phone |
| `studio_results_lost` | the ledger has how the tests of the last run ended | when `Run` returns an error in the middle of a file, the tests that ran are not recorded |

## Bounds

- `composite2`: `Tests` has bodies with a leading, a trailing and two
  consecutive syncs, an alias without steps, a test without a devices block
  (`{}`) and a declared but unconfigured alias. Barriers count devices, and the
  count is compared with their number only, so two devices show every order of
  arrival, failure and abort. The proof covers any number.
- `MaxAttempts = 2`, `Retries = 1`: one repetition of a step and one of a test,
  both "again" and "no more". `MaxCuts = 2` allows a loss during the recovery
  from a loss; a close by the executor itself counts in `cuts` but is never
  prevented. `MaxSlow = 1`. `Plans` nests each block in another at least once, and has a retry
  with a count of 0.
  `executor_gives_up` has four attempts, one cut and no missed deadline;
  `executor_blind_branch` one cut and one missed deadline;
  `executor_stale_mock` two tests and one cut.
- `agent_session`: the times are the code's defaults in seconds, so how they
  add up is the real thing; `ReconnectDelay` is the simulator's. `BootTime = 8`
  is any start of up to eight seconds, well above the sleep and the tick; a start
  that outlasts `TokenTime` fails for a reason the model does not name. `MaxCalls = 2`: a recovery on what the
  one before left behind. `MaxFaults = 2`. With a start of 20 seconds, with three faults
  or with three recoveries the run passes, too.
- `Caller = {c1, c2}`: one call in every place another may be in; more callers
  add the same pairs. Each caller makes one call, so IDs never repeat, as the
  code's counter guarantees.
- `MaxJobs = 3`, `MaxKept = 2`, `MaxCancelled = 1`: the limit is exceeded with a
  running job among the oldest, and a job can be cancelled again, so two timers
  for one job fall together.
- `Conn = {c1, c2}`: replaced, replacing and shut down in every order. With two
  connections a handler replaces at most one other; the safety proofs cover a
  third.

- `LockStale = LockWait = 1`, `MaxClock = 4`: a lock can go stale and be waited for in vain
  with time to spare; `MaxJumps = 1` sets the clock back across both. Two runs
  show a dead or suspended holder and its successor; a third is needed to
  remove a live lock when all are punctual (`local_two_writers`), and the proofs
  cover any number. `MaxTries = 2` (the code retries within a window of
  time): again, and given up.
- `Plans`: one device with hooks, another tag, rows, a lost
  CSV file, an unparsable file, a file named twice; two devices, whole and one shard of
  two; a device that starts again with results of its first file. Without
  `--parallel` there is one device and one tag (`PlanAssumption`), so two tags of a test come up
  in a parallel run only, which is `tags_twice`. `Retries = 1`, `MaxRetries = 2` (the
  code's constant).
- `Call = {a1, i1, i2}`: a phone that is connected to twice and another device,
  so a tunnel may be lost to the same phone and to nobody else, also while both are being set up. A call is made
  once, so the histories stay small; another call of the same kind is what
  `i2` is to `i1`. A connection over Wi-Fi is a call without a tunnel, which the proof covers.
- `Run = {r1, r2}`, one of them in the background; both start again and again,
  so runs are not bounded. `Test = {t1, t2}`: one fails while the other passes or is not run.

`arrived`, `carriedOut`, `ran`, `unchecked`, `promised`, `stolen`, `open`,
`each`, `broken`, `cause`, `from`, `out`, `touched`, `asked`, `last` and `late` are histories that no action reads
except to bound or record them. `DeviceViewHub` has no counter that
grows: `late` is bounded by what it proves.

## Fairness

- CompositeRunner: weak fairness per goroutine and for the collector, because Go
  runs what is runnable and every step has a timeout. The user's interrupt is
  not fair.
- StepExecutor: weak fairness of the executor as a whole; every call has a
  deadline, and commands on devices have theirs. Losses and crashes are not
  fair, they are bounded.
- AgentSession: none. Time may pass only when nobody has anything to do, so every
  wait ends; `EndsInTime` bounds each recovery and the check for deadlock says that something can
  always happen.
- ProbeLinkClient: strong fairness where a goroutine waits for the mutex, since
  a Go mutex that is contended hands itself to the longest waiter. A write is
  fair only while the link is not stuck, and a stuck link fails in the end
  because TCP gives up. The context of every call has a deadline, so `Expire` is
  fair.
- McpJobs: the server finishes a call it has begun, timers fire, waiting
  goroutines run. `RunTestsReturns` and `ProcessExits` are not fair: tests may
  take for ever.
- DeviceViewHub: handlers, workers, the frame loop and the shutdown are fair
  (calls to the agent and upgrades have deadlines). A peer is not: it may send
  for ever, in which case the idle timeout never comes, and this is what
  `hub_shutdown` shows.
- LocalUpload: the clock goes on and every run that lives takes its steps;
  deaths and clock settings are not fair. TestRun: the goroutines of the devices
  are fair as a whole (hooks and tests end by their timeouts) and so is the
  command's wait; the interrupt is not.
- StudioConnections: the waits of `stopConnection` are bounded, a frame loop
  ends when its context does, and a `Connect` that began has timeouts
  throughout. No call need ever be made. StudioRuns: a run that holds the slot
  takes its steps, because a test ends by its timeout; requests, cancellations,
  edits and reconnections are not fair.

## Proofs

`tlapm` checks every proof; assumptions are the named ASSUMEs of the modules,
which TLC evaluates in the passing runs.

| Module | Theorems | From | Inductive invariant |
|---|---|---|---|
| `CompositeRunner_proof` | `TypeCorrect`, `VerdictHolds`; under `UniqueLabels` also `RendezvousHolds` and `KeepsPromise` | `DeviceAssumption`, `TestsAssumption` | `RendezvousInv`, `VerdictInv` |
| `StepExecutor_proof` | `Types`, `DeadlinesOnly`; if `Scripted(sc)` for some sc also `DoesAsWritten` | `PolicyAssumption`, `BoundAssumption`, `StepsAssumption` | `ExecInv`; `ScriptInv` |
| `ProbeLink_proof`, client | `TypeCorrect`, `NoBlockedSend`, `KeepsPromise` | `CallerAssumption` | `IInv` = types, `RoomInv`, `AnswerInv` |
| `ProbeLink_proof`, session | `SessionTypes`, `OutlastsByASleep`; under `TimesSuffice` also `GivesUpForACause` | `TimeAssumption`, `BoundAssumption` | `SessionInv`; `CauseInv` |
| `McpJobs_proof` | `TypeCorrect`, `RunningStaysKnown`, `CancelDecides`, `RunLeavesNone` | `BoundAssumption` | `IInv` = types, `LoopInv`, `ProcInv`, `FlagInv` |
| `DeviceViewHub_proof` | `TypeCorrect`, `PausedByCurrent`, `AtMostOneLateShot`, `ReturnsQuiet` | `ConnAssumption` | `IInv` = types, `PausedByClient`, `LateInv`, `WorkerInv`, `LoopInv` |
| `LocalUpload_proof` | `OneWriter`, `NumbersGrow`, `UniqueIdentities`, `ReportsAreKept` | `LocalUploadAssumption` | `IInv` |
| `TestRun_proof` | `Cleaned`, `Honesty`, `ZeroMeansPassed`; if `OneTagEach` of every plan also `ReportHolds` | `TestRunAssumption`, `PlanAssumption` | `IInv` = types, `EachInv`, `ErrInv`, `SetUpInv`, `NothingLeft`; `ReportInv`, `ExitInv`, `StreamInv` |
| `Studio_proof`, connections | `ConnectionsInOrder`, `TunnelKept` | `StudioAssumption`, `DevAssumption` | `IInv` = types, `OneLive`, `UsersStopFirst`, `StageFollowsCall`, `OpenUntilClosed`, `LateExplained`; `TunnelUntilTouched` |
| `Studio_proof`, runs | `RunsAreApart`, `ChoosesFailed` | `RunsAssumption` | `RunsInv` = types, `RunsApart`, `AnsweredOnce`; `LedgerInv` |

Arguments:

- Rendezvous is not inductive: nothing in it says why a gate is open.
  `GateHasReason` does (all arrived, or someone failed). It needs the count to be the number
  of arrivals (`Counted`), which needs that a device counts itself once per sync
  (`CountsOnce`) and that two syncs do not share a label (`UniqueLabels`). The
  library facts on cardinality say that n arrivals of n devices are all of them. Without
  `UniqueLabels` the theorem is false, as `composite_repeated` shows.
- The verdict holds with or without unique labels. A device without an error that stopped
  walking has no step of its own left (`NilIsFinished`); a cancellation comes
  from the caller or from a failed device (`CancelHasCause`); a result is the
  error of a goroutine that is over (`ReportIsFinal`). With unique labels both
  invariants together map every step to one of `SyncRendezvous` or to a stutter.
- Executor: the proof is about the shape of the stack (`Fits`): a reconnect lies on
  top only and above the step it is for, the outermost activation is a body.
  While an app is dialled there is no connection (`Linked`); what is left to
  reapply is the end of the list of mocks (`Suffix`), so over a connection
  that is up and with no deadline missed the last mock of each pattern is in the
  app or still to come (`InForce`). `BranchWasChecked` needs no more than types: the one step
  that takes a branch without an answer has just missed a deadline, because
  `Propagates` lets no connection error through. Together they give both halves of
  `OnlyDeadlinesCost`.
- Acts as written: the invariant is a ledger of the stack (`Ledger`). For each
  activation it says what is still asked for and how often an act may still be done
  once that activation is returned to; the outermost entry is what the test
  wants (`Bottom`). A block that opens splits its entry, one that ends merges it with
  the one below, an act moves from the ledger to the history. The ledger promises
  that the history followed by anything still asked for covers what the test wants
  (`Fulfils`), so with nothing left to ask for a body without an error
  has done it all. Only a reconnect lets a step be repeated, and each reconnect is paid
  for by a lost connection of its own, hence the factor `1 + cuts` in the property. `Scripted` ties the two parts of a
  script that only the property reads, `want` and `times`, to its blocks: for each body
  the sequences it may ask for and the price of each act, bounded locally by its
  first step and the rest. The recursion over the blocks is thus data, and the
  theorem needs no induction over it.
- Searching for the proof corrected the property: the counting half was claimed also
  between the end of an attempt and the start of the next test, when the history is
  still that of the test before. It holds from the start of an attempt on
  (`phase # "begin"`).
- Session: while the CLI looks for the agent it has no connection
  (`Connected`); a recovery that succeeds found a new process, or the old one could not be
  stopped (`Restarted`). `Timely` is the budget: what the step has left, less what the
  present sleep has left, is never below the sleep before the dial. Its proof
  uses nothing about how long the times are.
- Giving up: `Need` is how many seconds from now the agent is ready at the latest: its
  start, its next write of the token and the end of its window of rejections.
  A second that passes takes one from it, no step without a fault raises it, and
  a fault raises it by at most `Cost`, which the share of that fault in `Slack` pays. As
  each deadline is beyond `Need` plus `Slack` when its wait begins (`Deadlines`,
  from `TimesSuffice`), none is reached before the agent is found, unless a
  cause was recorded (`CauseInv`).
- No blocked send: a caller is in one place at a time, in the map, with the
  reader, or with its outcome in the channel (`RoomInv`). The refinement adds
  that requests, replies and channels speak only of calls in progress
  (`AnswerInv`); each action maps to `CarryOut`, `Conclude` or a stutter.
- Jobs: a live process is a registered running job or the one being registered,
  and during `stopAll` it is still to be visited (`ProcInv`); the flag of a job
  decides its final state (`FlagInv`); both rest on what the server's loop holds
  in hand between two steps (`LoopInv`).
- Hub: a late screenshot means that nobody watches and the loop is past the
  point of asking (`LateInv`); a handler that is done has no running worker
  (`WorkerInv`); after `Run` the loop has stopped and no handler is counted
  (`LoopInv`).
- Uploads: while no live lock was removed, a run between `lockState` and unlock
  owns the lock file, so two of them are one; what it computed is above the recorded number, and
  the recorded number is at least every number in use, so a new one is new.
  `stolen` is in every conclusion because the code cannot exclude it.
- Test runs: where the goroutine is says what is set up (`SetUpInv`): between
  hooks only a file whose `before all` failed or whose `after all` did not get through; `EachInv` and
  `ErrInv` say that a test is set up and not yet given to `after each` only in its attempt, and that
  an error is pending only after it. A step may replace the client, but not of a device that is
  done or starts again (`RedialsIs`).
- Reports: what a device has recorded is a function of the place it is at
  (`ReportInv`): the results of the file under way are those of the tests, rows and composite tests
  before that place, those before are the results of the files before, a skipped or
  broken file has none. With the facts on `Picked`, `FlattenSeq` and how
  files are dealt out (`Dealt`, `EveryFileOnce`: as often as the
  plan names it) this gives `ReportedOnce` where what `filterTests` keeps is what
  was selected (`ChosenIs`). The stream of a plain run is its report at
  each step (`StreamInv`); `ExitInv` says that status 0 was given after all devices had returned
  and none of their results was a failure.
- Studio's connections: `OneLive` and `UsersStopFirst` are not inductive. A
  connection's stage must follow from where its `Connect` is
  (`StageFollowsCall`), a client stays open until the last step of
  `stopConnection` (`OpenUntilClosed`), and a loop or hub that outlives a wait was
  recorded in `late` (`LateExplained`); the case that needs it is a connection that is
  disconnected before its own `Connect` has started the loop. For the tunnels
  the invariant starts before the connection is the current one: a call to a phone
  that no other one has touched finds the port free, no other is about to start an
  iproxy for that phone, and whatever listens from then on is its own, so a dial
  that succeeds went through it (`TunnelUntilTouched`).
- Studio's runs: whoever is past `claimRun` has the slot, so no other run moves
  `RunState`; a caller is answered before its run begins and not earlier
  (`AnsweredOnce`), so the end it is told is its own. The ledger says how each test ended last
  unless its outcome is with the run under way or was lost with it, and what a "failed only"
  run has selected stays what had failed (`LedgerInv`).

Five theorems have a hypothesis that is not an assumption of the module:

- `UniqueLabels`, since the code does not guarantee it; two theorems have it.
- `OneTagEach` of every plan, for `ReportHolds`, since with `--parallel` several tags can be
  given and `filterTests` keeps a test once for each it has (`tags_twice`).
- `TimesSuffice`, since the timeouts are options of the user. The defaults, which
  `agent_session.cfg` has, satisfy it with two faults (the window of rejections
  has exactly the least value). It is sufficient, not necessary:
  TLC finds `GivesUpForCause` unviolated with three faults too, or with a window
  of eight seconds.
- `Scripted`, which says that `want` and `times` are what the script asks for. They
  are no part of the code, so nothing in the code can justify them; TLC evaluates
  `ScriptAssumption` of `MCStepExecutor`, the same for the scripts it runs, and it is
  false as soon as a `want` asks for more or a `times` allows less than the blocks say.

A few facts are about sequences of any length: which elements `Picked` keeps, what
`FlattenSeq` of a longer sequence is, that a last mock of a pattern exists. They
are proved by the least number of a set (`LeastNumber`, `SetInduction`), not by the
library's induction theorems, whose operator parameter the provers cannot instantiate.

Only model-checked:

- Liveness, which needs ENABLED and fairness: `Termination` of composite tests and
  of the executor, `CallsReturn`, `CancelEnds`, `ReplacedIsClosed`, `Watching`,
  `Returns`, `EveryRunEnds`, `CommandEnds`, `ReplacedAreClosed`, `RunsEnd`.

There is no RECURSIVE operator in any module; the executor's recursion is an
explicit stack, which is what made it provable.

## Not modelled

- Executor: the user's interrupt; implicit waits (the same call again);
  `within`, variables and AI steps; measuring windows; `travel`.
- Runs: dry runs, the pulling of artifacts, videos, JUnit and other reports, the
  seeded shuffle of tests; iOS devices in a parallel run differ in the commands
  they use.
- Uploads: payloads, scrubbing, attestation, the wire format.
- Studio: recording (its handler is replaced while the client's reader calls
  it), workspaces, the assistant, the list of steps in `RunState`, names of rows. A `Connect`
  that publishes after `shutdown`, a tunnel that a failing `Connect` removes, the forward
  that the replaced connection's cleanup takes from a new connection to the
  same Android device, and a `RunState` that shows the previous run until the
  next one begins are all behaviours of the models; no statement in the
  repository forbids them, so no property does. Two phones that
  share a host port meet in the poll only, which any listener satisfies: a dial that ends
  at another device fails (its agent has another token), and who gets the port is the operating system's choice.
- Composite tests: recorders and artifacts. `beginHTTP` is never called in them,
  and their executors keep the client they were given at the start.
- Finding the agent: physical iOS (devicectl, the log of the device, Wi-Fi), the
  HTTP transport, other ports than the first free one, delays below a second,
  commands that hang, log lines of other apps, what exactly is wiped, mocks
  and measurements after the reconnect (the mocks are in `StepExecutor`), and several attempts in a
  row, which are several recoveries.
- Client: the HTTP transport, the relay, `pingLoop` with its read
  deadlines (a dead link is "stuck" until it fails), notifications.
- Jobs: the reuse of process numbers between a check and a signal; the process
  group that the iOS dialog driver has for itself.
- Hub: `Close` before `Run`, the cap on pending connections, the cool-down's
  clock, the tree loop, input and hit tests, settings, contents of messages.
- Hazards met while modelling that no property covers: a client that a reconnect
  or a restart put in the place of the first is closed by nobody when the run of its device returns
  (`orchestrator.go:152`; `CleanedUp` excepts it, and once the device dials again the model
  loses sight of it); `applyConfig` does not
  check that the sender is still the client (`hub.go:557`); a job may end between
  the check that it runs and the signal (`jobs.go:248`); the cleanup of a replaced
  connection may take the forward of its successor to the same Android device
  (`app.go:716`). The reset of the mocks that never arrives (`http_steps.go:31`)
  has `executor_stale_mock`.
- The agent's inside, the cloud, AI services, adb and simctl are external
  processes; the models have the outcomes they can produce. Parsing, reports and
  other pure conversions have no orders to get wrong.

## What is left

Every module is model-checked and has proofs. All invariants and action
properties of the passing runs are proved; what only TLC checks is liveness.

Worth adding, in this order:

1. The tree loop and the settings of the hub: an agent that was replaced may
   switch off its successor's trees, and a replaced client's settings message is
   applied to its successor.
2. `pingLoop` and the read deadlines of the client.
3. The Dart server's accept loop and sessions opposite `ProbeLinkClient`; an agent
   found on another port.
4. The life of the XCUITest driver process in `internal/sysdialog`, whose own
   process group a job's kill does not reach.
5. Theorems: a weakest form of `TimesSuffice`, in which a fault costs only what
   it delays at the place where it happens.

The rest of the repository (parser, converter, reports, migration, providers)
is sequential code from input to output, where an enumeration by TLC would repeat the tests.

## How to run

    tlc -config composite2.cfg MCCompositeRunner.tla
    tlc -config executor.cfg MCStepExecutor.tla
    tlc -config agent_session.cfg AgentSession.tla
    tlc -config probelink.cfg ProbeLinkClient.tla
    tlc -config mcp_jobs.cfg McpJobs.tla
    tlc -config device_view.cfg DeviceViewHub.tla
    tlc -config local_upload.cfg LocalUpload.tla
    tlc -config test_run.cfg MCTestRun.tla
    tlc -config studio_connections.cfg MCStudioConnections.tla
    tlc -config studio_runs.cfg StudioRuns.tla
    tlapm CompositeRunner_proof.tla     # and the other *_proof modules

The configurations under [disagreements found](#disagreements-found) end with a
counterexample: `composite_*` with `MCCompositeRunner`, `executor_*` with
`MCStepExecutor`, `agent_gone` with `AgentSession`, `parallel_exit`, `tags_twice`, `after_all_skipped` and `forward_left` with `MCTestRun`, `mcp_killed` with `McpJobs`,
`hub_shutdown` with `DeviceViewHub`, `local_two_writers` with `LocalUpload`,
`studio_no_tunnel` with `MCStudioConnections`, `studio_results_lost` with `StudioRuns`.
