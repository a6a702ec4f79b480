----------------------------- MODULE StudioRuns -----------------------------
(***************************************************************************)
(* Runs of one file in Probe Studio: the window (RunFile) and the          *)
(* automation endpoint (RunFileAsync) ask for runs at once, the slot       *)
(* runCancel lets one through, its scope is resolved against the file and  *)
(* the ledger of failed tests, the runner reads the file again and runs    *)
(* the tests, and the tracker holds what RunState shows.  The connection   *)
(* comes and goes (StudioConnections says how; the names of this module    *)
(* differ from its, so that one module can extend both).                   *)
(***************************************************************************)
EXTENDS Naturals

CONSTANTS
  Run,    \* calls of runScoped and runFileAsync
  Async,  \* those of runFileAsync
  Test,   \* names of tests
  NoRun

ASSUME RunsAssumption == Async \subseteq Run /\ NoRun \notin Run

VARIABLES
  connected,  \* a.conn # nil
  file,       \* the tests the file has
  rpc,        \* where each call is
  slot,       \* a.runCancel: the run it would cancel
  scope, sel, \* of each run: its kind of scope, the tests the scope picked
  left, got,  \* of the run that runs: the tests to run, the outcome of those that ran
  ledger,     \* a.failures
  track,      \* a.track: the run it is about, running, finished, the run whose refusal it tells
  answered,   \* runs whose caller was told that they started
  cancelling, \* the run whose runCancel a CancelRun read and will call: none, the one that has the slot, an earlier one
  asked,      \* history: a CancelRun read the runCancel of the run that has the slot
  cancelled,  \* the context of that run is cancelled
  last        \* history: how each test ended last; lost: in a run whose results were dropped

calls  == <<slot, scope, sel, answered>>
cancel == <<cancelling, asked, cancelled>>
tests  == <<left, got, ledger, last>>
runVars == <<connected, file, rpc, calls, tests, track, cancel>>

NoOutcome == [t \in Test |-> "none"]

RunsInit ==
  /\ connected \in BOOLEAN /\ file = Test /\ rpc = [r \in Run |-> "idle"]
  /\ slot = NoRun /\ scope = [r \in Run |-> "none"] /\ sel = [r \in Run |-> {}] /\ answered = {}
  /\ left = {} /\ got = NoOutcome /\ last = NoOutcome
  /\ ledger = [t \in Test |-> "unknown"]
  /\ track = [run |-> NoRun, running |-> FALSE, finished |-> FALSE, refused |-> NoRun]
  /\ cancelling = "none" /\ asked = FALSE /\ cancelled = FALSE

At(r, p) == rpc' = [rpc EXCEPT ![r] = p]
-----------------------------------------------------------------------------
(* Mutant: the slot is taken without looking.                                *)
AlwaysFree == TRUE

SlotFree == slot = NoRun

(* The connection is looked for, then the slot is claimed; without either    *)
(* the call returns its error.  The connection may go in between, as it may  *)
(* right after.                                                              *)
ClaimRun(r) ==
  /\ rpc[r] = "idle" /\ connected /\ SlotFree
  /\ slot' = r
  /\ At(r, "resolve")
  /\ UNCHANGED <<connected, file, scope, sel, answered, tests, track, cancel>>

(* failedSelection: what failed last and is still in the file.               *)
StillFailed == {t \in file : ledger[t] = "failed"}

(* What each scope picks: a line the test it is in, a tag some tests of the  *)
(* file, the failed tests those; an empty pick is refused.                   *)
Picks == {<<"all", file>>} \cup {<<"line", {t}>> : t \in file} \cup {<<"tag", s>> : s \in SUBSET file \ {{}}}
         \cup (IF StillFailed = {} THEN {} ELSE {<<"failed", StillFailed>>})

(* resolveRunScope; RunFileAsync returns to its caller when it is done.      *)
Resolve(r) ==
  /\ rpc[r] = "resolve"
  /\ \E p \in Picks :
       /\ scope' = [scope EXCEPT ![r] = p[1]]
       /\ sel' = [sel EXCEPT ![r] = p[2]]
  /\ answered' = IF r \in Async THEN answered \cup {r} ELSE answered
  /\ At(r, "execute")
  /\ UNCHANGED <<connected, file, slot, tests, track, cancel>>

(* A file that does not parse, a scope that picks nothing.                   *)
ScopeRefused(r) ==
  /\ rpc[r] = "resolve"
  /\ At(r, "release")
  /\ UNCHANGED <<connected, file, calls, tests, track, cancel>>

(* executeRun looks for the connection again.                                *)
Execute(r) ==
  /\ rpc[r] = "execute" /\ connected
  /\ track' = [run |-> r, running |-> TRUE, finished |-> FALSE, refused |-> NoRun]
  /\ At(r, "start")
  /\ UNCHANGED <<connected, file, calls, tests, cancel>>

(* Mutant: a background run that found no connection is not told.            *)
Silent(r) == track

Refused(r) == [track EXCEPT !.running = FALSE, !.finished = TRUE, !.refused = r]

NotConnected(r) ==
  /\ rpc[r] = "execute" /\ ~connected
  /\ track' = IF r \in Async THEN Refused(r) ELSE track
  /\ At(r, "release")
  /\ UNCHANGED <<connected, file, calls, tests, cancel>>
-----------------------------------------------------------------------------
(* The runner reads the file itself and picks by name or by tag again.  The  *)
(* file may have changed since the scope was resolved, in its tags too.      *)
PickedAgain(r) ==
  CASE scope[r] = "all" -> {file}
    [] scope[r] = "tag" -> SUBSET file
    [] OTHER            -> {sel[r] \cap file}

ReadFile(r) ==
  /\ rpc[r] = "start"
  /\ left' \in PickedAgain(r)
  /\ got' = NoOutcome
  /\ At(r, "run")
  /\ UNCHANGED <<connected, file, calls, ledger, last, track, cancel>>

RunTest(r) ==
  /\ rpc[r] = "run"
  /\ \E t \in left, o \in {"passed", "failed"} :
       /\ left' = left \ {t}
       /\ got' = [got EXCEPT ![t] = o]
       /\ last' = [last EXCEPT ![t] = o]
  /\ UNCHANGED <<connected, file, rpc, calls, ledger, track, cancel>>

Finished == [track EXCEPT !.running = FALSE, !.finished = TRUE]

(* Mutant: the tests that did not run are forgotten.                         *)
ForgetsOthers(o) == [t \in Test |-> IF o[t] = "none" THEN "unknown" ELSE o[t]]

Recorded(o) == [t \in Test |-> IF o[t] = "none" THEN ledger[t] ELSE o[t]]

(* The run is over: its outcomes are recorded, the tracker is told.          *)
Ends(r, o) ==
  /\ ledger' = Recorded(o)
  /\ left' = {} /\ got' = NoOutcome
  /\ track' = Finished
  /\ At(r, "release")
  /\ UNCHANGED <<connected, file, calls, cancel>>

RunEnds(r) == rpc[r] = "run" /\ left = {} /\ Ends(r, got) /\ UNCHANGED last

(* A `before all` that fails makes every test of the run fail.               *)
BeforeAllFails(r) ==
  /\ rpc[r] = "run" /\ got = NoOutcome
  /\ LET o == [t \in Test |-> IF t \in left THEN "failed" ELSE "none"] IN
     Ends(r, o) /\ last' = [t \in Test |-> IF t \in left THEN "failed" ELSE last[t]]

(* A file or a recipe that cannot be read, the missing examples of a test:   *)
(* Run returns the error without the results of the file.                    *)
RunFails(r) ==
  /\ rpc[r] \in {"start", "run"}
  /\ last' = [t \in Test |-> IF got[t] = "none" THEN last[t] ELSE "lost"]
  /\ left' = {} /\ got' = NoOutcome
  /\ track' = Finished
  /\ At(r, "release")
  /\ UNCHANGED <<connected, file, calls, ledger, cancel>>

(* Mutant: the slot is kept.                                                 *)
Kept == slot

Freed == NoRun

ReleaseRun(r) ==
  /\ rpc[r] = "release"
  /\ slot' = Freed
  /\ At(r, "idle")
  /\ scope' = [scope EXCEPT ![r] = "none"] /\ sel' = [sel EXCEPT ![r] = {}] /\ answered' = answered \ {r}
  /\ cancelling' = IF cancelling = "holder" THEN "earlier" ELSE cancelling
  /\ asked' = FALSE /\ cancelled' = FALSE
  /\ UNCHANGED <<connected, file, tests, track>>

RunStep(r) ==
  \/ Resolve(r) \/ ScopeRefused(r) \/ Execute(r) \/ NotConnected(r)
  \/ ReadFile(r) \/ RunTest(r) \/ RunEnds(r) \/ BeforeAllFails(r) \/ RunFails(r) \/ ReleaseRun(r)
-----------------------------------------------------------------------------
(* CancelRun reads runCancel under runMu and calls it after the unlock.      *)
CancelLooks ==
  /\ cancelling = "none" /\ slot # NoRun
  /\ cancelling' = "holder"
  /\ asked' = TRUE
  /\ UNCHANGED <<connected, file, rpc, calls, tests, track, cancelled>>

ReadOnce == cancelling = "holder"

CancelCalls ==
  /\ cancelling # "none"
  /\ cancelled' = (cancelled \/ ReadOnce)
  /\ cancelling' = "none"
  /\ UNCHANGED <<connected, file, rpc, calls, tests, track, asked>>

Reconnect ==
  /\ connected' = ~connected
  /\ UNCHANGED <<file, rpc, calls, tests, track, cancel>>

(* The file is edited while runs go on.                                      *)
Edit ==
  /\ file' \in SUBSET Test
  /\ UNCHANGED <<connected, rpc, calls, tests, track, cancel>>

RunsNext ==
  \/ CancelLooks \/ CancelCalls \/ Reconnect \/ Edit
  \/ \E r \in Run : ClaimRun(r) \/ RunStep(r)

RunsSpec == RunsInit /\ [][RunsNext]_runVars

(* A step of a test ends by its limit, so a run that began goes on.          *)
RunsFairness == \A r \in Run : WF_runVars(RunStep(r))
FairRuns == RunsSpec /\ RunsFairness
-----------------------------------------------------------------------------
RunsTypeOK ==
  /\ connected \in BOOLEAN /\ file \subseteq Test
  /\ rpc \in [Run -> {"idle", "resolve", "execute", "start", "run", "release"}]
  /\ slot \in Run \cup {NoRun} /\ answered \subseteq Async
  /\ scope \in [Run -> {"none", "all", "line", "tag", "failed"}] /\ sel \in [Run -> SUBSET Test]
  /\ left \subseteq Test /\ got \in [Test -> {"none", "passed", "failed"}]
  /\ ledger \in [Test -> {"unknown", "passed", "failed"}]
  /\ last \in [Test -> {"none", "passed", "failed", "lost"}]
  /\ track \in [run : Run \cup {NoRun}, running : BOOLEAN, finished : BOOLEAN, refused : Run \cup {NoRun}]
  /\ cancelling \in {"none", "holder", "earlier"} /\ asked \in BOOLEAN /\ cancelled \in BOOLEAN

(* claimRun, the tracker: one run is under way, it holds the slot, and       *)
(* RunState says that this run is running exactly while the runner has it.   *)
TrackTellsRun ==
  \A r \in Run :
    /\ rpc[r] \in {"resolve", "execute", "start", "run", "release"} => slot = r
    /\ rpc[r] \in {"start", "run"} <=> track.running /\ track.run = r

(* runFileAsync: a run whose caller was told that it started is told when it *)
(* is over, also when its connection was gone.                               *)
EndIsTold ==
  \A r \in answered : rpc[r] = "release" => track.finished /\ (track.run = r \/ track.refused = r)

(* CancelRun cancels the run it found in the slot, never one begun later.    *)
CancelsWhatItSaw == cancelled => asked

(* Calls of the window and of the automation endpoint, at once: one run at a *)
(* time, RunState and CancelRun are about that run, and its end is told.     *)
RunsApart == TrackTellsRun /\ EndIsTold /\ CancelsWhatItSaw

(* A run of the failed tests: every test of the file that failed last is in  *)
(* it, whatever other tests ran since, and until it runs it is about tests   *)
(* that failed when they ran last.                                           *)
FailedAreChosen ==
  [][\A r \in Run : scope'[r] = "failed" =>
       /\ rpc[r] = "resolve" => {t \in file : last[t] = "failed"} \subseteq sel'[r]
       /\ rpc'[r] \in {"execute", "start"} => \A t \in sel'[r] : last'[t] \in {"failed", "lost"}]_runVars

(* releaseRun: a run that began ends, and the slot is free again.            *)
RunsEnd == \A r \in Run : (slot = r) ~> (slot # r)

(* The failure ledger as documented: it has how the tests of the last run    *)
(* ended, once that run is over.                                             *)
EveryOutcomeRecorded ==
  [][\A r \in Run : rpc[r] = "run" /\ rpc'[r] = "release"
       => \A t \in Test : got[t] # "none" => ledger'[t] = got[t]]_runVars
-----------------------------------------------------------------------------
(* What makes RunsApart inductive: who has not begun to run was not answered, *)
(* and a CancelRun that will cancel the run in the slot has seen it there.    *)
AnsweredOnce ==
  /\ \A r \in answered : rpc[r] \notin {"idle", "resolve"}
  /\ cancelling = "holder" => asked

RunsInv == RunsTypeOK /\ RunsApart /\ AnsweredOnce
=============================================================================
