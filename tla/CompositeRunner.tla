--------------------------- MODULE CompositeRunner ---------------------------
(***************************************************************************)
(* RunCompositeTest: one goroutine per configured device walks its share   *)
(* of the body of a composite test; `sync` steps are barriers shared by    *)
(* all of them.  A body is a sequence of steps [kind, of]: kind "device"   *)
(* belongs to the alias `of`, kind "sync" is the barrier labelled `of`.    *)
(* Device is cr.devices (the configured aliases).  The test to run is      *)
(* chosen by Init from Tests.  One action is one atomic piece of Go: the   *)
(* count under the mutex, the close of the gate, the select, the abort of  *)
(* one barrier, the cancellation, the send on the result channel.          *)
(***************************************************************************)
EXTENDS Integers, FiniteSets, Sequences

CONSTANTS Device,  \* aliases of cr.devices
          Tests    \* composite tests: [devices : declared aliases, body : Seq(step)]

ASSUME DeviceAssumption == IsFiniteSet(Device)
ASSUME TestsAssumption  == \A t \in Tests : DOMAIN t.body \subseteq Nat \ {0}

VARIABLES
  test,        \* the CompositeTestDef being run
  phase,       \* RunCompositeTest: "start", "running", "done" or "skipped"
  cnt,         \* barriers[l].cnt
  gate,        \* barriers[l].ch is closed
  parentDone,  \* the caller's ctx is cancelled (SIGINT, SIGTERM)
  compDone,    \* compCancel was called
  pc,          \* program counter of each device goroutine
  pos,         \* position in the body of the last step the device completed
  err,         \* what runCompositeSteps returned: "nil", "failed", "canceled"
  toAbort,     \* barriers the failing goroutine has still to abort
  arrived,     \* history: which device has counted itself at which sync step
  resultCh,    \* devices whose result is in the buffered channel
  results      \* DeviceResults: "none" until collected, then the error

vars == <<test, phase, cnt, gate, parentDone, compDone, pc, pos, err, toAbort,
          arrived, resultCh, results>>

IsSync(i) == test.body[i].kind = "sync"
Label(i)  == test.body[i].of
Syncs     == {i \in DOMAIN test.body : IsSync(i)}

(* buildBarriers: one barrier per unique label. *)
Labels == {Label(i) : i \in Syncs}

(* partitionSteps: a device's own steps and every sync, in body order. *)
Steps(d) == {i \in DOMAIN test.body : IsSync(i) \/ test.body[i].of = d}

Todo(d)    == {i \in Steps(d) : i > pos[d]}
Next1(d,i) == i \in Todo(d) /\ \A j \in Todo(d) : i <= j

AllLabels == UNION {{t.body[i].of : i \in {j \in DOMAIN t.body :
                                            t.body[j].kind = "sync"}} : t \in Tests}
CtxDone   == parentDone \/ compDone

Init ==
  /\ test \in Tests
  /\ phase = "start"
  /\ cnt = [l \in AllLabels |-> 0]
  /\ gate = [l \in AllLabels |-> FALSE]
  /\ parentDone = FALSE
  /\ compDone = FALSE
  /\ pc = [d \in Device |-> "loop"]
  /\ pos = [d \in Device |-> 0]
  /\ err = [d \in Device |-> "nil"]
  /\ toAbort = [d \in Device |-> {}]
  /\ arrived = {}
  /\ resultCh = {}
  /\ results = [d \in Device |-> "none"]

(* An alias the test declares and nobody configured skips the test. *)
Start ==
  /\ phase = "start"
  /\ phase' = IF test.devices \subseteq Device THEN "running" ELSE "skipped"
  /\ UNCHANGED <<test, cnt, gate, parentDone, compDone, pc, pos, err, toAbort,
                 arrived, resultCh, results>>

(* runCompositeSteps returns e. *)
Return(d, e) ==
  /\ err' = [err EXCEPT ![d] = e]
  /\ pc' = [pc EXCEPT ![d] = "return"]

Advance(d, i) ==
  /\ pos' = [pos EXCEPT ![d] = i]
  /\ pc' = [pc EXCEPT ![d] = "loop"]

(* Head of the loop: out of steps, cancelled, a sync or a device step. *)
LoopHead(d) ==
  /\ phase = "running"
  /\ pc[d] = "loop"
  /\ \/ Todo(d) = {} /\ Return(d, "nil")
     \/ Todo(d) # {} /\ CtxDone /\ Return(d, "canceled")
     \/ \E i \in DOMAIN test.body :
          /\ Next1(d, i)
          /\ ~CtxDone
          /\ pc' = [pc EXCEPT ![d] = IF IsSync(i) THEN "arrive" ELSE "step"]
          /\ UNCHANGED err
  /\ UNCHANGED <<test, phase, cnt, gate, parentDone, compDone, pos, toAbort,
                 arrived, resultCh, results>>

(* exec.RunStep: it may finish although the context was cancelled under it. *)
RunStep(d) ==
  /\ pc[d] = "step"
  /\ \/ \E i \in DOMAIN test.body :
          Next1(d, i) /\ Advance(d, i) /\ UNCHANGED err
     \/ Return(d, "failed") /\ UNCHANGED pos
     \/ CtxDone /\ Return(d, "canceled") /\ UNCHANGED pos
  /\ UNCHANGED <<test, phase, cnt, gate, parentDone, compDone, toAbort,
                 arrived, resultCh, results>>

(* Mutant: off by one, the gate opens for the last but one arrival. *)
IsLastTooEarly(l) == cnt'[l] = Cardinality(Device) - 1

(* Arrive, under b.mu: count; the goroutine that makes it n is the last. *)
IsLast(l) == cnt'[l] = Cardinality(Device)

ArriveCount(d) ==
  /\ pc[d] = "arrive"
  /\ \E i \in Syncs :
       /\ Next1(d, i)
       /\ cnt' = [cnt EXCEPT ![Label(i)] = @ + 1]
       /\ pc' = [pc EXCEPT ![d] = IF IsLast(Label(i)) THEN "open" ELSE "wait"]
       /\ arrived' = arrived \cup {<<d, i>>}
  /\ UNCHANGED <<test, phase, gate, parentDone, compDone, pos, err, toAbort,
                 resultCh, results>>

(* The last one closes the channel, once, and goes on. *)
OpenGate(d) ==
  /\ pc[d] = "open"
  /\ \E i \in Syncs :
       /\ Next1(d, i)
       /\ gate' = [gate EXCEPT ![Label(i)] = TRUE]
       /\ Advance(d, i)
  /\ UNCHANGED <<test, phase, cnt, parentDone, compDone, err, toAbort,
                 arrived, resultCh, results>>

(* select { case <-b.ch; case <-ctx.Done() }: either branch when both are ready. *)
WaitAtGate(d) ==
  /\ pc[d] = "wait"
  /\ \/ \E i \in Syncs :
          Next1(d, i) /\ gate[Label(i)] /\ Advance(d, i) /\ UNCHANGED err
     \/ CtxDone /\ Return(d, "canceled") /\ UNCHANGED pos
  /\ UNCHANGED <<test, phase, cnt, gate, parentDone, compDone, toAbort,
                 arrived, resultCh, results>>

(* Mutants: nobody cleans up; a cancellation cleans up too. *)
NeverAborts(e)    == FALSE
AbortsOnCancel(e) == e # "nil"

MustAbort(e) == e = "failed"

(* A failure other than a cancellation aborts every barrier, one by one ... *)
Returned(d) ==
  /\ pc[d] = "return"
  /\ IF MustAbort(err[d])
       THEN /\ pc' = [pc EXCEPT ![d] = "abort"]
            /\ toAbort' = [toAbort EXCEPT ![d] = Labels]
       ELSE /\ pc' = [pc EXCEPT ![d] = "send"]
            /\ UNCHANGED toAbort
  /\ UNCHANGED <<test, phase, cnt, gate, parentDone, compDone, pos, err,
                 arrived, resultCh, results>>

Abort(d) ==
  /\ pc[d] = "abort"
  /\ \E l \in toAbort[d] :
       /\ gate' = [gate EXCEPT ![l] = TRUE]
       /\ toAbort' = [toAbort EXCEPT ![d] = @ \ {l}]
  /\ UNCHANGED <<test, phase, cnt, parentDone, compDone, pc, pos, err,
                 arrived, resultCh, results>>

(* ... and only then cancels the shared context. *)
CompCancel(d) ==
  /\ pc[d] = "abort"
  /\ toAbort[d] = {}
  /\ compDone' = TRUE
  /\ pc' = [pc EXCEPT ![d] = "send"]
  /\ UNCHANGED <<test, phase, cnt, gate, parentDone, pos, err, toAbort,
                 arrived, resultCh, results>>

SendResult(d) ==
  /\ pc[d] = "send"
  /\ resultCh' = resultCh \cup {d}
  /\ pc' = [pc EXCEPT ![d] = "sent"]
  /\ UNCHANGED <<test, phase, cnt, gate, parentDone, compDone, pos, err,
                 toAbort, arrived, results>>

(* The collector takes n results, in any order, then the verdict is fixed. *)
Collect(d) ==
  /\ phase = "running"
  /\ d \in resultCh
  /\ resultCh' = resultCh \ {d}
  /\ results' = [results EXCEPT ![d] = err[d]]
  /\ UNCHANGED <<test, phase, cnt, gate, parentDone, compDone, pc, pos, err,
                 toAbort, arrived>>

Finish ==
  /\ phase = "running"
  /\ \A d \in Device : results[d] # "none"
  /\ phase' = "done"
  /\ compDone' = TRUE   \* defer compCancel()
  /\ UNCHANGED <<test, cnt, gate, parentDone, pc, pos, err, toAbort, arrived,
                 resultCh, results>>

(* SIGINT or SIGTERM cancels the context the CLI passed in. *)
ParentCancel ==
  /\ phase = "running"
  /\ ~parentDone
  /\ parentDone' = TRUE
  /\ UNCHANGED <<test, phase, cnt, gate, compDone, pc, pos, err, toAbort,
                 arrived, resultCh, results>>

Goroutine(d) ==
  \/ LoopHead(d) \/ RunStep(d) \/ ArriveCount(d) \/ OpenGate(d) \/ WaitAtGate(d)
  \/ Returned(d) \/ Abort(d) \/ CompCancel(d) \/ SendResult(d)

Ended == phase \in {"done", "skipped"}

Next ==
  \/ Start \/ Finish \/ ParentCancel
  \/ \E d \in Device : Goroutine(d) \/ Collect(d)

(* Go schedules every runnable goroutine; every step has its own timeout. *)
Fairness ==
  /\ WF_vars(Start) /\ WF_vars(Finish)
  /\ \A d \in Device : WF_vars(Goroutine(d)) /\ WF_vars(Collect(d))

Spec     == Init /\ [][Next]_vars
FairSpec == Spec /\ Fairness

(* Mutants: a cancelled device counts as passed; the root cause is filtered. *)
PassedIfNoneFailed == \A d \in Device : results[d] # "failed"
ErrPartsInverted   == {d \in Device : results[d] = "canceled"}

(* result.Passed, and what ToTestResult keeps: cancellations are not errors. *)
Passed    == \A d \in Device : results[d] = "nil"
ErrParts  == {d \in Device : results[d] = "failed"}

-----------------------------------------------------------------------------
TypeOK ==
  /\ test \in Tests
  /\ phase \in {"start", "running", "done", "skipped"}
  /\ cnt \in [AllLabels -> Nat]
  /\ gate \in [AllLabels -> BOOLEAN]
  /\ parentDone \in BOOLEAN /\ compDone \in BOOLEAN
  /\ pc \in [Device -> {"loop", "step", "arrive", "open", "wait", "return",
                        "abort", "send", "sent"}]
  /\ pos \in [Device -> Nat]
  /\ err \in [Device -> {"nil", "failed", "canceled"}]
  /\ toAbort \in [Device -> SUBSET AllLabels]
  /\ arrived \subseteq Device \X Nat
  /\ resultCh \subseteq Device
  /\ results \in [Device -> {"none", "nil", "failed", "canceled"}]

Past(d, i)    == pos[d] >= i
AllArrived(i) == \A e \in Device : <<e, i>> \in arrived

(* docs: "The same label may not appear more than once in a test".  Nothing in
   the parser or the linter enforces it. *)
UniqueLabels ==
  \A t \in Tests : \A i, j \in DOMAIN t.body :
    t.body[i].kind = "sync" /\ t.body[j].kind = "sync" /\ t.body[i].of = t.body[j].of
      => i = j

SomeoneFailed == \E d \in Device : err[d] = "failed"

(* All devices reach a sync label before any of them proceeds, as long as no
   device has failed: the barrier opens for the n-th arrival or for an abort. *)
Rendezvous ==
  ~SomeoneFailed => \A i \in Syncs, d \in Device : Past(d, i) => AllArrived(i)

(* A test that passed ran every step of every device, and every sync point
   was a real meeting of all of them: nobody slipped through an aborted gate. *)
PassedRanEverything ==
  phase = "done" /\ Passed =>
    /\ \A d \in Device : Todo(d) = {}
    /\ \A i \in Syncs : AllArrived(i)

(* A device is reported cancelled only because another one failed or the
   caller cancelled, so ToTestResult, which leaves cancellations out, names a
   root cause for a test that failed unless the user stopped it. *)
FailureIsExplained ==
  /\ \A d \in Device : results[d] = "canceled" => parentDone \/ SomeoneFailed
  /\ phase = "done" /\ ~Passed /\ ~parentDone => ErrParts # {}

(* What RunCompositeTest says of a test is true, and a failure has a reason. *)
VerdictIsHonest == PassedRanEverything /\ FailureIsExplained

(* The runner keeps the promise of SyncRendezvous: a point lets a device go
   only when all have reached it or one has failed, each device reports once,
   and never a cancellation nobody caused. *)
Points == UNION {DOMAIN t.body : t \in Tests}

Promise == INSTANCE SyncRendezvous WITH
  Point   <- Points,
  reached <- arrived,
  passed  <- {x \in Device \X Points : x[2] \in Syncs /\ Past(x[1], x[2])},
  failed  <- SomeoneFailed,
  stopped <- parentDone,
  outcome <- results

ImplementsPromise == Promise!Spec

(* Sync labels and docs: "All devices in the test must reach that label before
   any of them proceed", and a device waiting at a barrier when another fails
   receives context.Canceled: nobody goes past a sync that not all reached. *)
NobodyPassesAlone ==
  \A i \in Syncs, d \in Device : Past(d, i) => AllArrived(i)

(* partitionSteps: "DeviceStep nodes go to their target alias".  A test that
   passed has run every device step of its body on some device. *)
PassedRanWholeBody ==
  phase = "done" /\ Passed =>
    \A i \in DOMAIN test.body : \E d \in Device : i \in Steps(d) /\ Past(d, i)

(* Whatever fails and whenever, no goroutine is left at a barrier. *)
Termination == <>Ended
=============================================================================
