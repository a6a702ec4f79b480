---------------------------- MODULE AgentSession ----------------------------
(***************************************************************************)
(* How the CLI finds the agent in the app again: `restart the app`, a      *)
(* relaunch after a permission change, `clear app data` and the automatic  *)
(* reconnect of a step, on an Android device or an iOS simulator.          *)
(*                                                                         *)
(* The agent makes up a token when its process starts, or takes the one    *)
(* that set_next_token left, and writes it where the CLI looks.  The CLI   *)
(* stops and launches the app, reads the token, and dials until a deadline *)
(* passes.  Time is a set of timers that count down together; a command    *)
(* takes no time, but may fail.                                            *)
(***************************************************************************)
EXTENDS Integers

CONSTANTS
  BootTime,        \* the longest start of the app
  TickTime,        \* the agent writes its token again (3 s)
  HookTime,        \* refusedHookInterval (3 s)
  RefreshTime,     \* a token is read again after a 401 (5 s)
  RejectWindow,    \* tokenRefreshWindow (12 s)
  TokenTime,       \* token_read_timeout (30 s)
  DialTime,        \* dial_timeout (30 s)
  StepTime,        \* timeout of a step (30 s)
  LaunchTime,      \* launch_timeout, of restart and clear (120 s)
  ReconnectDelay,  \* reconnect_delay (2 s, 5 s)
  MaxCalls,        \* bound: recoveries in one behaviour
  MaxFaults        \* bound: commands that fail, files purged, losses

Times == {BootTime, TickTime, HookTime, RefreshTime, RejectWindow, TokenTime,
          DialTime, StepTime, LaunchTime, ReconnectDelay}

ASSUME TimeAssumption  == Times \subseteq Nat \ {0}
ASSUME BoundAssumption == MaxCalls \in Nat /\ MaxFaults \in Nat

VARIABLES
  os,       \* "android" or "ios"
  place,    \* the place all apps share: "none", "ours" or "foreign"
  app,      \* the process: "gone", "booting", "bound", "serving"
  asleep,   \* iOS has suspended it
  gen, tok, \* its number and its token
  next,     \* the file next_token
  cache,    \* the token file of the app
  shared,   \* the token in the shared place
  log,      \* the newest PROBE_TOKEN= line of logcat
  fwd,      \* the host port leads to the device (adb forward)
  conn,     \* e.client: "up" or "down"
  op,       \* what is going on: "restart", "relaunch", "clear", "auto"
  at,       \* where: "idle", "wait", "stop", "launch", "forget", "settle",
            \* "read", "dial", "refresh", "shake"
  hand,     \* the token the CLI dials with
  pre,      \* ... is the one it gave to set_next_token
  again,    \* tryReconnect has relaunched the app
  last,     \* the last error of a dial
  t,        \* the timers
  from,     \* history: gen when it began
  cause,    \* history: what happened to it meanwhile
  out,      \* how it ended
  faults, calls

agent == <<app, asleep, gen, tok, next>>
files == <<cache, shared, log>>
cli   == <<conn, op, at, hand, pre, again, last, from, out, calls>>
sessionVars  == <<os, place, app, asleep, gen, tok, next, cache, shared, log, fwd, conn,
           op, at, hand, pre, again, last, t, from, cause, out, faults, calls>>

NoToken   == <<"none", 0>>
Stray     == <<"stray", 0>>       \* of another app with an agent
Own(g)    == <<"own", g>>         \* _generateToken of process g
Shared(n) == <<"shared", n>>      \* generateToken of the CLI in call n

Off == -1
NoTimers == [step |-> 0, wait |-> 0, read |-> 0, dial |-> 0, rej |-> Off,
             hook |-> 0, tick |-> 0, boot |-> 0]

SessionInit ==
  /\ os \in {"android", "ios"}
  /\ place \in IF os = "android" THEN {"none", "ours", "foreign"} ELSE {"none", "foreign"}
  /\ app = "serving" /\ asleep = FALSE /\ gen = 1 /\ tok = Own(1) /\ next = NoToken
  /\ cache = tok
  /\ shared = (CASE place = "ours" -> tok [] place = "foreign" -> Stray [] OTHER -> NoToken)
  /\ log = IF os = "android" THEN tok ELSE NoToken
  /\ fwd = TRUE /\ conn = "up" /\ op = "none" /\ at = "idle" /\ hand = tok /\ pre = FALSE
  /\ again = FALSE /\ last = "none" /\ t = [NoTimers EXCEPT !.tick = TickTime]
  /\ from = 1 /\ cause = {} /\ out = "none" /\ faults = 0 /\ calls = 0

-----------------------------------------------------------------------------
(* The agent: server.dart *)

Faulty(bad) == (bad => faults < MaxFaults) /\ faults' = IF bad THEN faults + 1 ELSE faults

(* print and _writeTokenFile: the first write that fails ends it, and may leave
   an empty file; nobody is told. *)
Announce ==
  /\ \E fails \in {"none", "cache", "shared"} :
       /\ Faulty(fails # "none")
       /\ fails = "shared" => place = "ours"
       /\ cache' \in IF fails = "cache" THEN {cache, NoToken} ELSE {tok}
       /\ shared' \in CASE place # "ours" \/ fails = "cache" -> {shared}
                        [] fails = "shared"                   -> {shared, NoToken}
                        [] OTHER                              -> {tok}
  /\ log' = IF os = "android" THEN tok ELSE log

(* The token of a new process, and its socket.  A file next_token that cannot
   be read or deleted is as good as none, and stays. *)
Start ==
  /\ app = "booting" /\ t.boot = 0
  /\ app' = "bound"
  /\ \E ok \in BOOLEAN :
       /\ ~ok => next # NoToken
       /\ Faulty(~ok)
       /\ tok' = IF ok /\ next # NoToken THEN next ELSE Own(gen)
       /\ next' = IF ok THEN NoToken ELSE next
       /\ cause' = IF ok \/ ~pre \/ at = "idle" THEN cause ELSE cause \cup {"unread"}
  /\ UNCHANGED <<os, place, asleep, gen, files, fwd, cli, t>>

Serve ==
  /\ app = "bound" /\ app' = "serving"
  /\ Announce
  /\ t' = [t EXCEPT !.tick = TickTime]
  /\ UNCHANGED <<os, place, asleep, gen, tok, next, fwd, cli, cause>>

(* Mutant of Tick: as it was before PT-27, it only prints. *)
TickPrints ==
  /\ app = "serving" /\ ~asleep /\ t.tick = 0
  /\ log' = IF os = "android" THEN tok ELSE log
  /\ t' = [t EXCEPT !.tick = TickTime]
  /\ UNCHANGED <<os, place, agent, cache, shared, fwd, cli, cause, faults>>

(* The periodic timer. *)
Tick ==
  /\ app = "serving" /\ ~asleep /\ t.tick = 0
  /\ Announce
  /\ t' = [t EXCEPT !.tick = TickTime]
  /\ UNCHANGED <<os, place, agent, fwd, cli, cause>>

(* Mutant of Admits: the agent does not compare tokens. *)
AdmitsAll == hand # NoToken

Admits == hand = tok

-----------------------------------------------------------------------------
(* Commands of the CLI and how an operation goes on and ends. *)

Expired  == t.step <= 0

(* Mutant of DialOver: the deadline of a dial without that of its step. *)
DialOverAlone == t.dial = 0

DialOver == t.dial = 0 \/ Expired

(* A sleep is over; all but those after a launch end with their context. *)
Ready ==
  \/ t.wait = 0
  \/ at \in {"wait", "read"} /\ Expired
  \/ at \in {"dial", "refresh"} /\ DialOver

(* A command of adb or simctl succeeds or fails; with its context it fails. *)
Command(ok) ==
  /\ ok \in IF Expired THEN {FALSE} ELSE IF faults < MaxFaults THEN BOOLEAN ELSE {TRUE}
  /\ faults' = IF ok \/ Expired THEN faults ELSE faults + 1

Ends(how) ==
  /\ at' = "idle" /\ out' = how
  /\ t' = [NoTimers EXCEPT !.tick = t.tick, !.boot = t.boot]

GoTo(p, timers) == at' = p /\ t' = timers /\ UNCHANGED out

Budget(o) == IF o \in {"restart", "clear"} THEN LaunchTime ELSE StepTime

(* A recovery begins.  `restart` leaves the next token first, if the agent
   still answers: it answers ok whether setNextToken has written the file or
   not.  All of them close the client. *)
Begin(o) ==
  /\ at = "idle" /\ calls < MaxCalls
  /\ o = "auto" => conn = "down"
  /\ op' = o /\ calls' = calls + 1
  /\ at' = IF o = "auto" THEN "wait" ELSE "stop"
  /\ t' = [t EXCEPT !.step = Budget(o), !.wait = IF o = "auto" THEN 1 ELSE 0]
  /\ \E answer \in {"ok", "unwritten", "lost", "unsent"} :
       /\ answer \in {"ok", "unwritten", "lost"} => o = "restart" /\ conn = "up"
       /\ answer = "unsent" => o # "restart" \/ conn = "down"
       /\ Faulty(answer \in {"unwritten", "lost"})
       /\ pre' = (answer \in {"ok", "unwritten"})
       /\ hand' = IF answer \in {"ok", "unwritten"} THEN Shared(calls + 1) ELSE NoToken
       /\ next' \in CASE answer = "ok"        -> {Shared(calls + 1)}
                       [] answer = "unwritten" -> {next, NoToken}
                       [] answer = "lost"      -> {next, Shared(calls + 1)}
                       [] answer = "unsent"    -> {next}
       /\ cause' = CASE answer = "unwritten"         -> {"unwritten"}
                     [] o = "auto" /\ app = "gone"  -> {"gone"}
                     [] OTHER                       -> {}
  /\ conn' = "down" /\ again' = FALSE /\ last' = "none" /\ out' = "none"
  /\ from' = gen
  /\ UNCHANGED <<os, place, app, asleep, gen, tok, files, fwd>>

(* The backoff of tryReconnect; a step that is cancelled ends it. *)
Backoff ==
  /\ at = "wait" /\ Ready
  /\ IF Expired THEN Ends("failed") ELSE GoTo("forget", t)
  /\ UNCHANGED <<os, place, agent, files, fwd, conn, op, hand, pre, again, last, from, cause, faults, calls>>

(* The app is stopped: force-stop, pm clear, terminate.  An error of terminate
   is ignored.  Clearing wipes the app's files, which may fail on iOS. *)
StopApp ==
  /\ at = "stop"
  /\ \E outcome \in {"done", "ignored", "error"} :
       /\ Command(outcome = "done")
       /\ outcome = "ignored" => os = "ios"
       /\ outcome = "error" => os = "android" \/ op = "clear"
       /\ app' = IF outcome = "done" \/ (os = "ios" /\ outcome = "error") THEN "gone" ELSE app
       /\ asleep' = (asleep /\ outcome = "ignored")
       /\ IF outcome = "error"
            THEN Ends("failed") /\ cause' = cause \cup {"command"}
            ELSE GoTo("launch", t) /\ cause' = IF outcome = "done" THEN cause ELSE cause \cup {"terminate"}
       /\ IF op = "clear" /\ outcome # "error"
            THEN cache' = NoToken /\ next' = NoToken
            ELSE UNCHANGED <<cache, next>>
  /\ UNCHANGED <<os, place, gen, tok, shared, log, fwd, conn, op, hand, pre, again, last, from, calls>>

(* A launch starts a process, or brings the one there is to the front; then
   ReconnectWithToken sleeps, and Reconnect first deletes the old tokens. *)
LaunchApp ==
  /\ at = "launch"
  /\ \E ok \in BOOLEAN, n \in 0..BootTime :
       /\ Command(ok)
       /\ n # 0 => ok /\ app = "gone"
       /\ app' = IF ok /\ app = "gone" THEN "booting" ELSE app
       /\ gen' = IF ok /\ app = "gone" THEN gen + 1 ELSE gen
       /\ asleep' = (asleep /\ ~ok)
       /\ IF ok
            THEN /\ UNCHANGED cause
                 /\ IF pre THEN GoTo("settle", [t EXCEPT !.boot = n, !.wait = ReconnectDelay])
                           ELSE GoTo("forget", [t EXCEPT !.boot = n])
            ELSE Ends("failed") /\ cause' = cause \cup {"command"}
  /\ UNCHANGED <<os, place, tok, next, files, fwd, conn, op, hand, pre, again, last, from, calls>>

(* Reconnect deletes every token it can, so that only a living agent's is
   found, sets up the forward again or wakes the app, and sleeps.  Each command
   may fail on its own; the file of a simulator is on the host. *)
Commands == IF os = "android" THEN {"cache", "shared", "log", "forward"} ELSE {"wake"}

Forget ==
  /\ at = "forget"
  /\ \E failed \in SUBSET Commands :
       /\ Command(failed = {})
       /\ Expired => failed = Commands
       /\ cache' = IF "cache" \in failed THEN cache ELSE NoToken
       /\ shared' = IF place = "ours" /\ "shared" \notin failed THEN NoToken ELSE shared
       /\ log' = IF "log" \in failed THEN log ELSE NoToken
       /\ fwd' = (fwd \/ "forward" \notin failed)
       /\ asleep' = (asleep /\ "wake" \in failed)
       /\ cause' = IF asleep /\ "wake" \in failed THEN cause \cup {"command"} ELSE cause
  /\ GoTo("settle", [t EXCEPT !.wait = ReconnectDelay])
  /\ UNCHANGED <<os, place, app, gen, tok, next, conn, op, hand, pre, again, last, from, calls>>

Settled ==
  /\ at = "settle" /\ Ready
  /\ GoTo(IF pre THEN "dial" ELSE "read", [t EXCEPT !.read = TokenTime, !.dial = IF pre THEN DialTime ELSE 0])
  /\ UNCHANGED <<os, place, agent, files, fwd, conn, op, hand, pre, again, last, from, cause, faults, calls>>

-----------------------------------------------------------------------------
(* The token: the app's own file, the shared place, the newest line of logcat. *)

First(x, y) == IF x # NoToken THEN x ELSE y

Found(readable) == First(IF readable THEN cache ELSE NoToken, First(shared, log))

(* One round of ReadTokenAndroid or ReadToken.  On a simulator files are read
   without a command, so an expired context does not hide them. *)
Round(token) ==
  \E ok \in BOOLEAN :
    /\ os = "android" => Command(ok)
    /\ os = "ios" => ok /\ UNCHANGED faults
    /\ token = Found(ok) \/ (~ok /\ token = NoToken)
    /\ os = "android" /\ Expired => token = NoToken

ReadToken ==
  /\ at = "read" /\ Ready
  /\ \E token \in {NoToken, cache, shared, log} :
       /\ Round(token)
       /\ hand' = token
       /\ \/ token # NoToken /\ GoTo("dial", [t EXCEPT !.dial = DialTime, !.rej = Off, !.hook = 0])
          \/ token = NoToken /\ t.read > 0 /\ ~Expired /\ GoTo("read", [t EXCEPT !.wait = 1])
          \/ token = NoToken /\ (t.read = 0 \/ Expired) /\ Ends("failed")
  /\ UNCHANGED <<os, place, agent, files, fwd, conn, op, pre, again, last, from, cause, calls>>

-----------------------------------------------------------------------------
(* DialWithOptions *)

Dialling == at = "dial" /\ t.wait = 0 /\ ~DialOver

(* A deadline is over, or an error ends the dial.  With the pre-shared token
   the CLI dials anew until the token's time is over; tryReconnect relaunches
   the app, once, if nothing listened. *)
Abandon(error) ==
  IF pre /\ ~Expired /\ t.read > 2
    THEN GoTo("dial", [t EXCEPT !.wait = 2, !.dial = DialTime + 2, !.hook = 0]) /\ UNCHANGED again
  ELSE IF op = "auto" /\ error = "refused" /\ ~again
    THEN GoTo("stop", t) /\ again' = TRUE
  ELSE Ends("failed") /\ UNCHANGED again

DialTimesOut ==
  /\ at = "dial" /\ DialOver
  /\ \E error \in {last, "timeout"} : Abandon(error)
  /\ UNCHANGED <<os, place, agent, files, fwd, conn, op, hand, pre, last, from, cause, faults, calls>>

(* No listener on the host: the hook makes the forward again.  Nobody behind
   the forward of adb: it accepts, and closes. *)
Refused ==
  /\ Dialling
  /\ ~fwd \/ (os = "ios" /\ app \in {"gone", "booting"})
  /\ last' = "refused"
  /\ IF os = "android" /\ t.hook = 0
       THEN /\ \E ok \in BOOLEAN : Command(ok) /\ fwd' = ok
            /\ GoTo("dial", [t EXCEPT !.wait = 1, !.hook = HookTime])
       ELSE UNCHANGED <<fwd, faults>> /\ GoTo("dial", [t EXCEPT !.wait = 1])
  /\ UNCHANGED <<os, place, agent, files, conn, op, hand, pre, again, from, cause, calls>>

Eof ==
  /\ Dialling /\ os = "android" /\ fwd /\ app \in {"gone", "booting"}
  /\ last' = "eof"
  /\ GoTo("dial", [t EXCEPT !.wait = 1])
  /\ UNCHANGED <<os, place, agent, files, fwd, conn, op, hand, pre, again, from, cause, faults, calls>>

Reaches == Dialling /\ fwd /\ app = "serving" /\ ~asleep

Accepted ==
  /\ Reaches /\ Admits
  /\ conn' = "up"
  /\ IF pre THEN Ends("ok") ELSE GoTo("shake", t)
  /\ UNCHANGED <<os, place, agent, files, fwd, op, hand, pre, again, last, from, cause, faults, calls>>

(* 401: within the window the token is read again. *)
Rejected ==
  /\ Reaches /\ ~Admits
  /\ last' = "rejected"
  /\ LET rej == IF t.rej = Off THEN RejectWindow ELSE t.rej
     IN  IF ~pre /\ rej > 0
           THEN GoTo("refresh", [t EXCEPT !.rej = rej, !.wait = 1, !.read = RefreshTime]) /\ UNCHANGED again
           ELSE Abandon("rejected")
  /\ UNCHANGED <<os, place, agent, files, fwd, conn, op, hand, pre, from, cause, faults, calls>>

RefreshToken ==
  /\ at = "refresh" /\ Ready
  /\ \E token \in {NoToken, cache, shared, log} :
       /\ Round(token)
       /\ hand' = IF token = NoToken THEN hand ELSE token
       /\ IF token # NoToken \/ t.read = 0 \/ DialOver
            THEN GoTo("dial", [t EXCEPT !.wait = 0])
            ELSE GoTo("refresh", [t EXCEPT !.wait = 1])
  /\ UNCHANGED <<os, place, agent, files, fwd, conn, op, pre, again, last, from, cause, calls>>

(* CheckHandshake on the new connection, which may already be lost. *)
Handshake ==
  /\ at = "shake"
  /\ Ends(IF conn = "up" THEN "ok" ELSE "failed")
  /\ UNCHANGED <<os, place, agent, files, fwd, conn, op, hand, pre, again, last, from, cause, faults, calls>>

CLI ==
  \/ \E o \in {"restart", "relaunch", "clear", "auto"} : Begin(o)
  \/ Backoff \/ StopApp \/ LaunchApp \/ Forget \/ Settled \/ ReadToken
  \/ DialTimesOut \/ Refused \/ Eof \/ Accepted \/ Rejected \/ RefreshToken \/ Handshake

-----------------------------------------------------------------------------
(* `kill the app`, and what happens to app, files and link on their own. *)
Kill ==
  /\ at = "idle" /\ app # "gone" /\ calls < MaxCalls
  /\ conn' = "down"
  /\ \/ app' = "gone" /\ asleep' = FALSE /\ UNCHANGED faults
     \/ faults < MaxFaults /\ faults' = faults + 1 /\ UNCHANGED <<app, asleep>>
  /\ UNCHANGED <<os, place, gen, tok, next, files, fwd, op, at, hand, pre, again, last, t, from, cause, out, calls>>

Happens(what) ==
  /\ faults < MaxFaults /\ faults' = faults + 1
  /\ cause' = IF at = "idle" THEN cause ELSE cause \cup what
  /\ UNCHANGED <<os, place, gen, tok, op, at, hand, pre, again, last, t, from, out, calls>>

Crash ==
  /\ app # "gone"
  /\ app' = "gone" /\ asleep' = FALSE /\ conn' = "down"
  /\ Happens({"crash"}) /\ UNCHANGED <<next, files, fwd>>

Suspend ==
  /\ os = "ios" /\ app = "serving" /\ ~asleep
  /\ asleep' = TRUE /\ conn' = "down"
  /\ Happens({"suspended"}) /\ UNCHANGED <<app, next, files, fwd>>

(* Android clears the cache directory of the app. *)
Purge ==
  /\ os = "android"
  /\ cache' = NoToken /\ next' = NoToken
  /\ Happens(IF pre /\ next # NoToken THEN {"purged"} ELSE {})
  /\ UNCHANGED <<app, asleep, shared, log, fwd, conn>>

(* The connection breaks, and an adb forward may go with it. *)
LinkLost ==
  /\ conn = "up" \/ (os = "android" /\ fwd)
  /\ conn' = "down"
  /\ fwd' \in IF os = "android" THEN {FALSE, fwd} ELSE {fwd}
  /\ Happens(IF conn = "up" THEN {"lost"} ELSE {}) /\ UNCHANGED <<app, asleep, next, files>>

(* Time passes when nobody has anything to do at this moment. *)
Pass ==
  /\ ~(app = "booting" /\ t.boot = 0) /\ app # "bound"
  /\ ~(app = "serving" /\ ~asleep /\ t.tick = 0)
  /\ at = "idle" \/ (~Ready /\ t.wait > 0) \/ (Dialling /\ asleep)
  /\ t' = [x \in DOMAIN t |-> IF t[x] > 0 \/ (x = "step" /\ at # "idle") THEN t[x] - 1 ELSE t[x]]
  /\ UNCHANGED <<os, place, agent, files, fwd, cli, cause, faults>>

SessionNext ==
  \/ Start \/ Serve \/ Tick \/ CLI
  \/ Kill \/ Crash \/ Suspend \/ Purge \/ LinkLost \/ Pass

SessionSpec == SessionInit /\ [][SessionNext]_sessionVars

-----------------------------------------------------------------------------
Token == {NoToken, Stray} \cup {Own(g) : g \in 1..gen} \cup {Shared(n) : n \in 1..calls}

(* No source ever holds a token of no process, and a session is one with the
   process that runs, under the token it was started with. *)
SessionTypeOK ==
  /\ os \in {"android", "ios"} /\ place \in {"none", "ours", "foreign"}
  /\ app \in {"gone", "booting", "bound", "serving"} /\ asleep \in BOOLEAN
  /\ {tok, next, cache, shared, log, hand} \subseteq Token
  /\ fwd \in BOOLEAN /\ pre \in BOOLEAN /\ again \in BOOLEAN
  /\ conn = "up" => app = "serving" /\ ~asleep /\ hand = tok
  /\ out = "ok" /\ op # "auto" => gen > from \/ "terminate" \in cause
  /\ faults \in 0..MaxFaults /\ calls \in 0..MaxCalls

(* A recovery fails only for a cause: the app was gone, crashed or was put to
   sleep, the new connection broke, a command that stops or starts the app
   failed, or the file of the pre-shared token was not written or not read,
   which nobody tells the CLI, or was purged.  Never because tokens were
   deleted while the agent wrote them or not written in one turn, were of
   another app or an older process, or a forward was gone. *)
GivesUpForCause == out = "failed" => cause # {}

(* What the times must be for that, as the defaults are for two faults: each
   deadline leaves time for the longest wait for the agent and for every fault,
   which costs another turn of the agent's timer or of the hook of the CLI. *)
Larger(a, b) == IF a > b THEN a ELSE b
Cost         == Larger(TickTime, HookTime) + 1
Longest      == Larger(BootTime, TickTime) + 2

TimesSuffice ==
  /\ RejectWindow >= TickTime + 1 + Cost * MaxFaults
  /\ TokenTime >= Longest + Cost * MaxFaults
  /\ DialTime > Longest + Cost * MaxFaults
  /\ StepTime > 1 + ReconnectDelay + Longest + Cost * MaxFaults
  /\ LaunchTime > ReconnectDelay + Longest + Cost * MaxFaults

(* executor.go, PT-25: an attempt is bounded by the timeout of its step; it
   outlasts it by a sleep before the dial at most. *)
EndsInTime == t.step >= -ReconnectDelay

(* CHANGELOG, PT-18: a step after `kill the app` "relaunches the app before
   retrying", on every verb. *)
GoneIsRelaunched ==
  op = "auto" /\ out = "failed" /\ cause = {"gone"} => again
=============================================================================
