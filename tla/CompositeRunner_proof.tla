------------------------ MODULE CompositeRunner_proof ------------------------
(***************************************************************************)
(* Proofs about CompositeRunner, for every finite set of devices and every *)
(* set of tests: type correctness and the honest verdict; for tests whose  *)
(* labels are unique also the rendezvous property of the sync barriers and *)
(* that every step is one that SyncRendezvous allows.                      *)
(***************************************************************************)
EXTENDS CompositeRunner, FiniteSetTheorems, TLAPS

(* Typing: the variables keep their types, whatever the tests. *)
THEOREM TypeCorrect == Spec => []TypeOK
<1>1. Init => TypeOK
  <2> SUFFICES ASSUME Init PROVE TypeOK
    OBVIOUS
  <2> USE DEF Init
  <2>1. cnt \in [AllLabels -> Nat] /\ gate \in [AllLabels -> BOOLEAN]
    OBVIOUS
  <2>2. pos \in [Device -> Nat] /\ toAbort \in [Device -> SUBSET AllLabels]
    OBVIOUS
  <2> QED
    BY <2>1, <2>2 DEF TypeOK
<1>2. TypeOK /\ [Next]_vars => TypeOK'
  <2> SUFFICES ASSUME TypeOK, [Next]_vars PROVE TypeOK'
    OBVIOUS
  <2> USE DEF TypeOK
  <2>0. DOMAIN test.body \subseteq Nat /\ Syncs \subseteq DOMAIN test.body
    BY TestsAssumption DEF Syncs
  <2>1. \A i \in Syncs : Label(i) \in AllLabels
    BY DEF Syncs, Label, IsSync, AllLabels
  <2>2. Labels \subseteq AllLabels
    BY <2>1 DEF Labels
  <2>3. CASE Start
    BY <2>3 DEF Start
  <2>4. CASE Finish
    BY <2>4 DEF Finish
  <2>5. CASE ParentCancel
    BY <2>5 DEF ParentCancel
  <2>6. ASSUME NEW d \in Device, LoopHead(d) PROVE TypeOK'
    BY <2>6 DEF LoopHead, Return
  <2>7. ASSUME NEW d \in Device, RunStep(d) PROVE TypeOK'
    BY <2>7, <2>0 DEF RunStep, Return, Advance
  <2>8. ASSUME NEW d \in Device, ArriveCount(d) PROVE TypeOK'
    BY <2>8, <2>0, <2>1 DEF ArriveCount
  <2>9. ASSUME NEW d \in Device, OpenGate(d) PROVE TypeOK'
    BY <2>9, <2>0, <2>1 DEF OpenGate, Advance
  <2>10. ASSUME NEW d \in Device, WaitAtGate(d) PROVE TypeOK'
    BY <2>10, <2>0 DEF WaitAtGate, Return, Advance
  <2>11. ASSUME NEW d \in Device, Returned(d) PROVE TypeOK'
    BY <2>11, <2>2 DEF Returned
  <2>12. ASSUME NEW d \in Device, Abort(d) PROVE TypeOK'
    BY <2>12 DEF Abort
  <2>13. ASSUME NEW d \in Device, CompCancel(d) PROVE TypeOK'
    BY <2>13 DEF CompCancel
  <2>14. ASSUME NEW d \in Device, SendResult(d) PROVE TypeOK'
    BY <2>14 DEF SendResult
  <2>15. ASSUME NEW d \in Device, Collect(d) PROVE TypeOK'
    BY <2>15 DEF Collect
  <2>16. CASE UNCHANGED vars
    BY <2>16 DEF vars
  <2> QED
    BY <2>3, <2>4, <2>5, <2>6, <2>7, <2>8, <2>9, <2>10, <2>11, <2>12, <2>13,
       <2>14, <2>15, <2>16 DEF Next, Goroutine
<1> QED
  BY <1>1, <1>2, PTL DEF Spec

-----------------------------------------------------------------------------
(* The inductive strengthening of Rendezvous.  Each conjunct is one fact     *)
(* about the barrier protocol.                                               *)

(* The counter of a label counts the devices that arrived. *)
Counted ==
  \A i \in Syncs :
    cnt[Label(i)] = Cardinality({d \in Device : <<d, i>> \in arrived})

(* A device that is still to arrive at its next sync has not counted itself. *)
CountsOnce ==
  \A d \in Device, i \in Syncs :
    <<d, i>> \in arrived =>
      Past(d, i) \/ (Next1(d, i) /\ pc[d] \notin {"loop", "step", "arrive"})

(* Only device steps are run; only the n-th arrival opens. *)
StepIsNoSync ==
  \A d \in Device, i \in Syncs : pc[d] = "step" => ~Next1(d, i)

OpenIsLast ==
  \A d \in Device, i \in Syncs : pc[d] = "open" /\ Next1(d, i) => AllArrived(i)

(* A failure is final, and only a failed device aborts. *)
FailureIsFinal ==
  \A d \in Device : err[d] = "failed" => pc[d] \in {"return", "abort", "send", "sent"}

AborterFailed == \A d \in Device : pc[d] = "abort" => err[d] = "failed"

(* An open gate has a reason. *)
GateHasReason ==
  \A i \in Syncs : gate[Label(i)] => AllArrived(i) \/ SomeoneFailed

RendezvousInv ==
  /\ TypeOK
  /\ Counted
  /\ CountsOnce
  /\ StepIsNoSync
  /\ OpenIsLast
  /\ FailureIsFinal
  /\ AborterFailed
  /\ GateHasReason
  /\ Rendezvous

(* A step that keeps the test keeps the sync points and their labels. *)
LEMMA TestFrame ==
  ASSUME test' = test
  PROVE  /\ Syncs' = Syncs
         /\ \A i : Label(i)' = Label(i)
         /\ \A i : IsSync(i)' = IsSync(i)
  BY DEF Syncs, Label, IsSync

LEMMA LabelTyped ==
  ASSUME test \in Tests
  PROVE  \A i \in Syncs : Label(i) \in AllLabels
  BY DEF Syncs, Label, IsSync, AllLabels

(* The next step of a device depends on the test and its position only. *)
LEMMA NextFrame ==
  ASSUME NEW d \in Device, test' = test, pos'[d] = pos[d]
  PROVE  \A i : /\ Next1(d, i)' <=> Next1(d, i)
               /\ Past(d, i)' <=> Past(d, i)
  BY DEF Next1, Todo, Steps, IsSync, Past

(* Completing step k puts a device past k and past no sync point but k that
   it had not passed before; it has a new next step beyond k. *)
LEMMA AdvanceMeaning ==
  ASSUME TypeOK, NEW d \in Device, NEW k, Next1(d, k), test' = test,
         pos' = [pos EXCEPT ![d] = k]
  PROVE  /\ \A i \in Syncs : Past(d, i)' <=> (Past(d, i) \/ i = k)
         /\ \A e \in Device, i \in Syncs :
              e # d => (Past(e, i)' <=> Past(e, i)) /\ (Next1(e, i)' <=> Next1(e, i))
<1> USE DEF TypeOK
<1>0. DOMAIN test.body \subseteq Nat /\ Syncs \subseteq DOMAIN test.body
  BY TestsAssumption DEF Syncs
<1>1. k \in Nat /\ k > pos[d] /\ \A j \in Todo(d) : k <= j
  BY <1>0 DEF Next1, Todo, Steps
<1>2. \A i \in Syncs : i \in Nat /\ (i > pos[d] => i \in Todo(d))
  BY <1>0 DEF Todo, Steps, Syncs, IsSync
<1>3. pos'[d] = k /\ pos[d] \in Nat
  OBVIOUS
<1>4. ASSUME NEW i \in Syncs PROVE Past(d, i)' <=> (Past(d, i) \/ i = k)
  BY <1>1, <1>2, <1>3 DEF Past
<1>5. ASSUME NEW e \in Device, NEW i \in Syncs, e # d
      PROVE  (Past(e, i)' <=> Past(e, i)) /\ (Next1(e, i)' <=> Next1(e, i))
  <2>1. pos'[e] = pos[e]
    BY <1>5
  <2> QED
    BY ONLY <2>1, test' = test DEF Past, Next1, Todo, Steps, IsSync
<1> QED
  BY ONLY <1>4, <1>5

(* At most one step is next. *)
LEMMA NextIsUnique ==
  ASSUME TypeOK, NEW d \in Device, NEW i, NEW j, Next1(d, i), Next1(d, j)
  PROVE  i = j
<1>1. DOMAIN test.body \subseteq Nat
  BY TestsAssumption DEF TypeOK
<1> QED
  BY <1>1 DEF Next1, Todo, Steps

(* What is next has not been passed. *)
LEMMA NextIsAhead ==
  ASSUME TypeOK, NEW d \in Device, NEW i, Next1(d, i)
  PROVE  ~Past(d, i)
<1>1. DOMAIN test.body \subseteq Nat /\ pos[d] \in Nat
  BY TestsAssumption DEF TypeOK
<1> QED
  BY <1>1 DEF Next1, Todo, Steps, Past

(* Steps that leave the barrier protocol alone keep the invariant. *)
LEMMA QuietStep ==
  ASSUME RendezvousInv, TypeOK',
         UNCHANGED <<test, cnt, gate, pc, pos, err, arrived>>
  PROVE  RendezvousInv'
  BY DEF RendezvousInv, Counted, CountsOnce, StepIsNoSync, OpenIsLast,
         FailureIsFinal, AborterFailed, GateHasReason, Rendezvous, AllArrived,
         SomeoneFailed, Past, Next1, Todo, Steps, Syncs, Label, IsSync

(* A goroutine that moves on without touching a barrier or its position: the
   head of the loop, a return, and what follows a return. *)
LEMMA ControlStep ==
  ASSUME RendezvousInv, TypeOK', NEW d \in Device, NEW p, NEW x,
         UNCHANGED <<test, cnt, gate, pos, arrived>>,
         pc' = [pc EXCEPT ![d] = p],
         err' = [err EXCEPT ![d] = x],
         err[d] = "failed" => x = "failed",
         x = "failed" => p \in {"return", "abort", "send", "sent"},
         p = "abort" => x = "failed",
         p # "open",
         p = "step" => \A i \in Syncs : ~Next1(d, i),
         p \in {"loop", "step", "arrive"} => pc[d] \in {"loop", "step", "arrive"}
  PROVE  RendezvousInv'
<1> USE DEF RendezvousInv
<1> DEFINE S(i) == {e \in Device : <<e, i>> \in arrived}
<1>1. /\ pc \in [Device -> {"loop", "step", "arrive", "open", "wait", "return",
                          "abort", "send", "sent"}]
      /\ err \in [Device -> {"nil", "failed", "canceled"}]
  BY DEF TypeOK
<1>2. /\ pc'[d] = p /\ err'[d] = x
      /\ \A e \in Device \ {d} : pc'[e] = pc[e] /\ err'[e] = err[e]
  BY <1>1
<1>3. /\ Syncs' = Syncs
      /\ \A i : Label(i)' = Label(i)
  BY TestFrame
<1>4. \A e \in Device, i \in Syncs :
        (Next1(e, i)' <=> Next1(e, i)) /\ (Past(e, i)' <=> Past(e, i))
  <2>1. test' = test /\ pos' = pos
    OBVIOUS
  <2> QED
    BY ONLY <2>1 DEF Past, Next1, Todo, Steps, IsSync
<1>5. \A i : AllArrived(i)' <=> AllArrived(i)
  BY DEF AllArrived
<1>6. SomeoneFailed => SomeoneFailed'
  BY <1>2 DEF SomeoneFailed
<1>7. Counted'
  BY <1>3 DEF Counted
<1>8. CountsOnce'
  BY <1>2, <1>3, <1>4 DEF CountsOnce
<1>9. StepIsNoSync'
  BY <1>2, <1>3, <1>4 DEF StepIsNoSync
<1>10. OpenIsLast'
  BY <1>2, <1>3, <1>4, <1>5 DEF OpenIsLast
<1>11. FailureIsFinal' /\ AborterFailed'
  BY <1>2 DEF FailureIsFinal, AborterFailed
<1>12. GateHasReason'
  BY <1>3, <1>5, <1>6 DEF GateHasReason
<1>13. Rendezvous'
  BY <1>3, <1>4, <1>5, <1>6 DEF Rendezvous
<1> QED
  BY <1>7, <1>8, <1>9, <1>10, <1>11, <1>12, <1>13

(* A device that completes a step, and may go past a sync point only if all
   have arrived there or a device has failed. *)
LEMMA AdvanceStep ==
  ASSUME RendezvousInv, TypeOK', NEW d \in Device, NEW k, Next1(d, k), Advance(d, k),
         UNCHANGED <<test, cnt, err, arrived>>,
         err[d] # "failed",
         k \in Syncs => AllArrived(k) \/ SomeoneFailed,
         gate' = gate \/ (k \in Syncs /\ gate' = [gate EXCEPT ![Label(k)] = TRUE]),
         \A i \in Syncs : k \in Syncs /\ Label(i) = Label(k) => i = k
  PROVE  RendezvousInv'
<1> USE DEF RendezvousInv
<1>1. /\ pc \in [Device -> {"loop", "step", "arrive", "open", "wait", "return",
                          "abort", "send", "sent"}]
      /\ gate \in [AllLabels -> BOOLEAN]
      /\ pos' = [pos EXCEPT ![d] = k]
      /\ pc' = [pc EXCEPT ![d] = "loop"]
      /\ test' = test
  BY DEF TypeOK, Advance
<1>2. pc'[d] = "loop" /\ \A e \in Device \ {d} : pc'[e] = pc[e]
  BY <1>1
<1>3. Syncs' = Syncs /\ \A i : Label(i)' = Label(i)
  BY TestFrame
<1>4. /\ \A i \in Syncs : Past(d, i)' <=> (Past(d, i) \/ i = k)
      /\ \A e \in Device, i \in Syncs :
           e # d => (Past(e, i)' <=> Past(e, i)) /\ (Next1(e, i)' <=> Next1(e, i))
  BY <1>1, AdvanceMeaning
<1>5. /\ \A i : AllArrived(i)' <=> AllArrived(i)
      /\ SomeoneFailed' <=> SomeoneFailed
  BY DEF AllArrived, SomeoneFailed
<1>6. Counted'
  BY <1>3 DEF Counted
<1>7. CountsOnce'
  <2> SUFFICES ASSUME NEW e \in Device, NEW i \in Syncs, <<e, i>> \in arrived
               PROVE  Past(e, i)' \/ (Next1(e, i)' /\ pc'[e] \notin {"loop", "step", "arrive"})
    BY <1>3 DEF CountsOnce
  <2>1. Past(e, i) \/ (Next1(e, i) /\ pc[e] \notin {"loop", "step", "arrive"})
    BY DEF CountsOnce
  <2>2. CASE e # d
    BY <2>1, <2>2, <1>2, <1>4
  <2>3. CASE e = d
    BY <2>1, <2>3, <1>4, NextIsUnique
  <2> QED
    BY <2>2, <2>3
<1>8. StepIsNoSync'
  BY <1>2, <1>3, <1>4 DEF StepIsNoSync
<1>9. OpenIsLast'
  BY <1>2, <1>3, <1>4, <1>5 DEF OpenIsLast
<1>10. FailureIsFinal' /\ AborterFailed'
  BY <1>2 DEF FailureIsFinal, AborterFailed
<1>11. GateHasReason'
  <2> SUFFICES ASSUME NEW i \in Syncs, gate'[Label(i)]
               PROVE  AllArrived(i) \/ SomeoneFailed
    BY <1>3, <1>5 DEF GateHasReason
  <2>1. CASE gate[Label(i)]
    BY <2>1 DEF GateHasReason
  <2>2. CASE ~gate[Label(i)]
    <3>0. Label(i) \in AllLabels
      BY LabelTyped DEF TypeOK
    <3>1. k \in Syncs /\ Label(i) = Label(k)
      BY <2>2, <3>0, <1>1
    <3> QED
      BY <3>1
  <2> QED
    BY <2>1, <2>2
<1>12. Rendezvous'
  <2> SUFFICES ASSUME ~SomeoneFailed, NEW i \in Syncs, NEW e \in Device, Past(e, i)'
               PROVE  AllArrived(i)
    BY <1>3, <1>5 DEF Rendezvous
  <2>1. CASE Past(e, i)
    BY <2>1 DEF Rendezvous
  <2>2. CASE ~Past(e, i)
    BY <2>2, <1>4
  <2> QED
    BY <2>1, <2>2
<1> QED
  BY <1>6, <1>7, <1>8, <1>9, <1>10, <1>11, <1>12

(* An arrival counts a device that was not counted yet; the n-th arrival of
   an n-device test means that all have arrived. *)
LEMMA ArriveStep ==
  ASSUME UniqueLabels, RendezvousInv, TypeOK', NEW d \in Device, ArriveCount(d)
  PROVE  RendezvousInv'
<1> USE DEF RendezvousInv
<1> DEFINE S(i) == {e \in Device : <<e, i>> \in arrived}
<1>1. PICK k \in Syncs :
        /\ Next1(d, k)
        /\ cnt' = [cnt EXCEPT ![Label(k)] = @ + 1]
        /\ pc' = [pc EXCEPT ![d] = IF IsLast(Label(k)) THEN "open" ELSE "wait"]
        /\ arrived' = arrived \cup {<<d, k>>}
  BY DEF ArriveCount
<1>2. /\ pc[d] = "arrive"
      /\ UNCHANGED <<test, gate, pos, err>>
  BY DEF ArriveCount
<1>3. /\ pc \in [Device -> {"loop", "step", "arrive", "open", "wait", "return",
                          "abort", "send", "sent"}]
      /\ cnt \in [AllLabels -> Nat]
      /\ Label(k) \in AllLabels
      /\ \A i \in Syncs : Label(i) \in AllLabels
  BY SMTT(20) DEF TypeOK, Syncs, Label, IsSync, AllLabels
<1>4. \A i \in Syncs : Label(i) = Label(k) => i = k
  BY DEF UniqueLabels, TypeOK, Syncs, Label, IsSync
<1>5. pc'[d] \in {"open", "wait"} /\ \A e \in Device \ {d} : pc'[e] = pc[e]
  BY <1>1, <1>3
<1>6. Syncs' = Syncs /\ \A i : Label(i)' = Label(i)
  BY <1>2, TestFrame
<1>7. \A e \in Device, i \in Syncs :
        (Next1(e, i)' <=> Next1(e, i)) /\ (Past(e, i)' <=> Past(e, i))
  <2>1. test' = test /\ pos' = pos
    BY <1>2
  <2> QED
    BY ONLY <2>1 DEF Past, Next1, Todo, Steps, IsSync
<1>8. /\ \A i : AllArrived(i) => AllArrived(i)'
      /\ SomeoneFailed' <=> SomeoneFailed
  BY <1>1, <1>2 DEF AllArrived, SomeoneFailed
<1>9. d \notin S(k)
  BY <1>1, <1>2, NextIsAhead DEF CountsOnce
<1>10. IsFiniteSet(S(k)) /\ S(k) \subseteq Device
  BY DeviceAssumption, FS_Subset
<1>11. Cardinality(S(k) \cup {d}) = Cardinality(S(k)) + 1
  BY <1>9, <1>10, FS_AddElement
<1>12. {e \in Device : <<e, k>> \in arrived'} = S(k) \cup {d}
  BY <1>1
<1>13. \A i \in Syncs \ {k} : {e \in Device : <<e, i>> \in arrived'} = S(i)
  BY <1>1
<1>14. Counted'
  <2> SUFFICES ASSUME NEW i \in Syncs
               PROVE  cnt'[Label(i)] = Cardinality({e \in Device : <<e, i>> \in arrived'})
    BY <1>6 DEF Counted
  <2>1. CASE i = k
    BY <2>1, <1>1, <1>3, <1>11, <1>12 DEF Counted
  <2>2. CASE i # k
    BY <2>2, <1>1, <1>3, <1>4, <1>13 DEF Counted
  <2> QED
    BY <2>1, <2>2
<1>15. CountsOnce'
  BY <1>1, <1>5, <1>6, <1>7 DEF CountsOnce
<1>16. StepIsNoSync'
  BY <1>5, <1>6, <1>7 DEF StepIsNoSync
<1>17. ASSUME pc'[d] = "open" PROVE AllArrived(k)'
  <2>1. cnt'[Label(k)] = Cardinality(Device)
    BY <1>1, <1>3, <1>17 DEF IsLast
  <2>2. Cardinality(S(k) \cup {d}) = Cardinality(Device)
    BY <2>1, <1>6, <1>12, <1>14 DEF Counted
  <2>3. S(k) \cup {d} = Device
    BY <2>2, <1>10, DeviceAssumption, FS_Subset
  <2> QED
    BY <2>3, <1>12 DEF AllArrived
<1>18. OpenIsLast'
  <2> SUFFICES ASSUME NEW e \in Device, NEW i \in Syncs, pc'[e] = "open", Next1(e, i)
               PROVE  AllArrived(i)'
    BY <1>6, <1>7 DEF OpenIsLast
  <2>1. CASE e = d
    BY <2>1, <1>1, <1>17, NextIsUnique
  <2>2. CASE e # d
    BY <2>2, <1>5, <1>8 DEF OpenIsLast
  <2> QED
    BY <2>1, <2>2
<1>19. FailureIsFinal' /\ AborterFailed'
  BY <1>2, <1>5 DEF FailureIsFinal, AborterFailed
<1>20. GateHasReason'
  BY <1>2, <1>6, <1>8 DEF GateHasReason
<1>21. Rendezvous'
  BY <1>6, <1>7, <1>8 DEF Rendezvous
<1> QED
  BY <1>14, <1>15, <1>16, <1>18, <1>19, <1>20, <1>21

LEMMA RendezvousStep ==
  ASSUME UniqueLabels, RendezvousInv, TypeOK', [Next]_vars
  PROVE  RendezvousInv'
<1>1. TypeOK /\ \A i \in Syncs : Label(i) \in AllLabels
  BY LabelTyped DEF RendezvousInv, TypeOK
<1>2. \A i, j \in Syncs : Label(i) = Label(j) => i = j
  BY <1>1 DEF UniqueLabels, TypeOK, Syncs, Label, IsSync
<1>3. /\ pc \in [Device -> {"loop", "step", "arrive", "open", "wait", "return",
                          "abort", "send", "sent"}]
      /\ err \in [Device -> {"nil", "failed", "canceled"}]
      /\ gate \in [AllLabels -> BOOLEAN]
  BY <1>1 DEF TypeOK
<1>4. \A d \in Device : err[d] = "failed" => pc[d] \notin {"loop", "step", "arrive", "open", "wait"}
  BY DEF RendezvousInv, FailureIsFinal
<1>5. \A d \in Device : err = [err EXCEPT ![d] = err[d]]
  BY <1>3
<1>6. CASE Start \/ Finish \/ ParentCancel \/ UNCHANGED vars
  BY <1>6, QuietStep DEF Start, Finish, ParentCancel, vars
<1>7. ASSUME NEW d \in Device, Collect(d) PROVE RendezvousInv'
  BY <1>7, QuietStep DEF Collect
<1>8. ASSUME NEW d \in Device, LoopHead(d) PROVE RendezvousInv'
  <2>1. /\ UNCHANGED <<test, cnt, gate, pos, arrived>>
        /\ pc[d] = "loop"
    BY <1>8 DEF LoopHead
  <2>2. ASSUME NEW x \in {"nil", "canceled"}, Return(d, x) PROVE RendezvousInv'
    BY <2>1, <2>2, <1>4, ControlStep DEF Return
  <2>3. ASSUME NEW i \in DOMAIN test.body, Next1(d, i), UNCHANGED err,
               pc' = [pc EXCEPT ![d] = IF IsSync(i) THEN "arrive" ELSE "step"]
        PROVE  RendezvousInv'
    <3>1. CASE IsSync(i)
      BY <2>1, <2>3, <3>1, <1>4, <1>5, ControlStep
    <3>2. CASE ~IsSync(i)
      <4>1. \A j \in Syncs : ~Next1(d, j)
        BY <3>2, <2>3, <1>1, NextIsUnique DEF Syncs
      <4> QED
        BY <2>1, <2>3, <3>2, <4>1, <1>4, <1>5, ControlStep
    <3> QED
      BY <3>1, <3>2
  <2> QED
    BY <1>8, <2>2, <2>3 DEF LoopHead
<1>9. ASSUME NEW d \in Device, RunStep(d) PROVE RendezvousInv'
  <2>1. /\ UNCHANGED <<test, cnt, gate, arrived>>
        /\ pc[d] = "step"
    BY <1>9 DEF RunStep
  <2>2. ASSUME NEW i, Next1(d, i), Advance(d, i), UNCHANGED err PROVE RendezvousInv'
    <3>1. i \notin Syncs
      BY <2>1, <2>2 DEF RendezvousInv, StepIsNoSync
    <3> QED
      BY <2>1, <2>2, <3>1, <1>4, AdvanceStep
  <2>3. ASSUME NEW x \in {"failed", "canceled"}, Return(d, x), UNCHANGED pos
        PROVE  RendezvousInv'
    BY <2>1, <2>3, <1>4, ControlStep DEF Return
  <2> QED
    BY <1>9, <2>2, <2>3 DEF RunStep
<1>10. ASSUME NEW d \in Device, ArriveCount(d) PROVE RendezvousInv'
  BY <1>10, ArriveStep
<1>11. ASSUME NEW d \in Device, OpenGate(d) PROVE RendezvousInv'
  <2>1. /\ UNCHANGED <<test, cnt, err, arrived>>
        /\ pc[d] = "open"
    BY <1>11 DEF OpenGate
  <2>2. PICK i \in Syncs : /\ Next1(d, i)
                          /\ gate' = [gate EXCEPT ![Label(i)] = TRUE]
                          /\ Advance(d, i)
    BY <1>11 DEF OpenGate
  <2>3. AllArrived(i)
    BY <2>1, <2>2 DEF RendezvousInv, OpenIsLast
  <2> QED
    BY <2>1, <2>2, <2>3, <1>2, <1>4, AdvanceStep
<1>12. ASSUME NEW d \in Device, WaitAtGate(d) PROVE RendezvousInv'
  <2>1. /\ UNCHANGED <<test, cnt, gate, arrived>>
        /\ pc[d] = "wait"
    BY <1>12 DEF WaitAtGate
  <2>2. ASSUME NEW i \in Syncs, Next1(d, i), gate[Label(i)], Advance(d, i), UNCHANGED err
        PROVE  RendezvousInv'
    <3>1. AllArrived(i) \/ SomeoneFailed
      BY <2>2 DEF RendezvousInv, GateHasReason
    <3> QED
      BY <2>1, <2>2, <3>1, <1>2, <1>4, AdvanceStep
  <2>3. ASSUME Return(d, "canceled"), UNCHANGED pos PROVE RendezvousInv'
    BY <2>1, <2>3, <1>4, ControlStep DEF Return
  <2> QED
    BY <1>12, <2>2, <2>3 DEF WaitAtGate
<1>13. ASSUME NEW d \in Device, Returned(d) PROVE RendezvousInv'
  <2>1. /\ UNCHANGED <<test, cnt, gate, pos, err, arrived>>
        /\ pc[d] = "return"
    BY <1>13 DEF Returned
  <2>2. CASE err[d] = "failed"
    BY <2>1, <2>2, <1>13, <1>5, ControlStep DEF Returned, MustAbort
  <2>3. CASE err[d] # "failed"
    BY <2>1, <2>3, <1>13, <1>5, ControlStep DEF Returned, MustAbort
  <2> QED
    BY <2>2, <2>3
<1>14. ASSUME NEW d \in Device, CompCancel(d) \/ SendResult(d) PROVE RendezvousInv'
  <2>1. /\ UNCHANGED <<test, cnt, gate, pos, err, arrived>>
        /\ pc[d] \in {"abort", "send"}
        /\ pc' = [pc EXCEPT ![d] = "send"] \/ pc' = [pc EXCEPT ![d] = "sent"]
    BY <1>14 DEF CompCancel, SendResult
  <2> QED
    BY <2>1, <1>5, ControlStep
<1>15. ASSUME NEW d \in Device, Abort(d) PROVE RendezvousInv'
  <2>1. /\ UNCHANGED <<test, cnt, pc, pos, err, arrived>>
        /\ pc[d] = "abort"
    BY <1>15 DEF Abort
  <2>2. SomeoneFailed
    BY <2>1 DEF RendezvousInv, AborterFailed, SomeoneFailed
  <2>3. SomeoneFailed'
    BY <2>1, <2>2 DEF SomeoneFailed
  <2>4. GateHasReason' /\ Rendezvous'
    BY <2>3 DEF GateHasReason, Rendezvous
  <2>5. Counted' /\ CountsOnce' /\ StepIsNoSync' /\ OpenIsLast'
    BY <2>1 DEF RendezvousInv, Counted, CountsOnce, StepIsNoSync, OpenIsLast,
       AllArrived, Past, Next1, Todo, Steps, Syncs, Label, IsSync
  <2>6. FailureIsFinal' /\ AborterFailed'
    BY <2>1 DEF RendezvousInv, FailureIsFinal, AborterFailed
  <2> QED
    BY <2>4, <2>5, <2>6 DEF RendezvousInv
<1> QED
  BY <1>6, <1>7, <1>8, <1>9, <1>10, <1>11, <1>12, <1>13, <1>14, <1>15
     DEF Next, Goroutine

(* Nobody is past a sync point when the test starts. *)
LEMMA NothingPassed ==
  ASSUME Init
  PROVE  \A d \in Device, i \in Syncs : ~Past(d, i)
<1>1. \A i \in Syncs : i \in Nat \ {0}
  BY TestsAssumption DEF Init, Syncs
<1> QED
  BY <1>1 DEF Past, Init

LEMMA RendezvousStart ==
  ASSUME Init, TypeOK
  PROVE  RendezvousInv
<1>1. \A i \in Syncs : {d \in Device : <<d, i>> \in arrived} = {}
  BY DEF Init
<1>2. \A i \in Syncs : Label(i) \in AllLabels
  BY LabelTyped DEF Init
<1>3. Counted
  BY <1>1, <1>2, FS_EmptySet DEF Init, Counted
<1>4. \A d \in Device, i \in Syncs : ~Past(d, i)
  BY NothingPassed
<1>5. CountsOnce /\ StepIsNoSync /\ OpenIsLast /\ FailureIsFinal /\ AborterFailed
  BY DEF Init, CountsOnce, StepIsNoSync, OpenIsLast, FailureIsFinal, AborterFailed
<1>6. GateHasReason
  BY <1>2 DEF Init, GateHasReason
<1> QED
  BY <1>3, <1>4, <1>5, <1>6 DEF RendezvousInv, Rendezvous

(* Rendezvous: as long as no device has failed, no device goes past a sync    *)
(* step before every device has arrived at it.  The proviso is the rule of    *)
(* the docs that a label appears once in a test.                              *)
THEOREM RendezvousHolds == UniqueLabels => (Spec => []Rendezvous)
<1> SUFFICES ASSUME UniqueLabels PROVE Spec => []Rendezvous
  OBVIOUS
<1>1. Init /\ TypeOK => RendezvousInv
  BY RendezvousStart
<1>2. RendezvousInv /\ TypeOK' /\ [Next]_vars => RendezvousInv'
  BY RendezvousStep
<1>3. RendezvousInv => Rendezvous
  BY DEF RendezvousInv
<1> QED
  BY <1>1, <1>2, <1>3, TypeCorrect, PTL DEF Spec

-----------------------------------------------------------------------------
(* The inductive strengthening of VerdictIsHonest.  It says nothing of       *)
(* labels: the verdict is honest even for tests that repeat one.             *)

Working == {"loop", "step", "arrive", "open", "wait"}

(* The verdict waits for every device. *)
AllReported == phase = "done" => \A d \in Device : results[d] # "none"

(* A device sends its result once, and what is collected is its error. *)
ReportIsFinal ==
  \A d \in Device :
    /\ d \in resultCh => pc[d] = "sent"
    /\ results[d] # "none" =>
         pc[d] = "sent" /\ d \notin resultCh /\ results[d] = err[d]

(* An error ends the walk; a walk without one ends after its last step. *)
WorkingIsNil == \A d \in Device : pc[d] \in Working => err[d] = "nil"

NilIsFinished ==
  \A d \in Device :
    err[d] = "nil" /\ pc[d] \in {"return", "send", "sent"} => Todo(d) = {}

(* Nobody is cancelled without a failure or the caller's cancellation. *)
CancelHasCause ==
  /\ compDone => SomeoneFailed \/ phase = "done"
  /\ \A d \in Device : err[d] = "canceled" => parentDone \/ SomeoneFailed

(* A sync point that a device is at or beyond has counted the device. *)
PassedWasReached ==
  \A d \in Device, i \in Syncs :
    Past(d, i) \/ (pc[d] \in {"open", "wait"} /\ Next1(d, i)) => <<d, i>> \in arrived

VerdictInv ==
  /\ TypeOK
  /\ AllReported
  /\ ReportIsFinal
  /\ WorkingIsNil
  /\ AborterFailed
  /\ NilIsFinished
  /\ CancelHasCause
  /\ StepIsNoSync
  /\ PassedWasReached

(* A goroutine that moves on and keeps its position: what it may do to its
   error, the context, the history and the result channel. *)
LEMMA VerdictControl ==
  ASSUME VerdictInv, TypeOK', NEW d \in Device, NEW p, NEW x,
         UNCHANGED <<test, phase, pos, parentDone, results>>,
         pc' = [pc EXCEPT ![d] = p],
         err' = [err EXCEPT ![d] = x],
         pc[d] # "sent",
         resultCh' = resultCh \/ (p = "sent" /\ resultCh' = resultCh \cup {d}),
         compDone' = compDone \/ x = "failed",
         arrived \subseteq arrived',
         err[d] = "failed" => x = "failed",
         p \in Working => x = "nil",
         p = "abort" => x = "failed",
         x = "nil" /\ p \in {"return", "send", "sent"} => Todo(d) = {},
         x = "canceled" => parentDone \/ SomeoneFailed,
         p = "step" => \A i \in Syncs : ~Next1(d, i),
         p \in {"open", "wait"} => \A i \in Syncs : Next1(d, i) => <<d, i>> \in arrived'
  PROVE  VerdictInv'
<1> USE DEF VerdictInv
<1>1. /\ pc'[d] = p /\ err'[d] = x
      /\ \A e \in Device \ {d} : pc'[e] = pc[e] /\ err'[e] = err[e]
  BY DEF TypeOK
<1>2. Syncs' = Syncs
  BY TestFrame
<1>3. /\ \A e \in Device : Todo(e)' = Todo(e)
      /\ \A e \in Device, i \in Syncs :
           (Next1(e, i)' <=> Next1(e, i)) /\ (Past(e, i)' <=> Past(e, i))
  <2>1. test' = test /\ pos' = pos
    OBVIOUS
  <2> QED
    BY ONLY <2>1 DEF Past, Next1, Todo, Steps, IsSync
<1>4. /\ SomeoneFailed => SomeoneFailed'
      /\ x = "failed" => SomeoneFailed'
  BY <1>1 DEF SomeoneFailed
<1>5. AllReported' /\ ReportIsFinal'
  BY <1>1 DEF AllReported, ReportIsFinal
<1>6. WorkingIsNil' /\ AborterFailed'
  BY <1>1 DEF WorkingIsNil, AborterFailed, Working
<1>7. NilIsFinished'
  BY <1>1, <1>3 DEF NilIsFinished
<1>8. CancelHasCause'
  BY <1>1, <1>4 DEF CancelHasCause
<1>9. StepIsNoSync' /\ PassedWasReached'
  BY <1>1, <1>2, <1>3 DEF StepIsNoSync, PassedWasReached
<1> QED
  BY <1>5, <1>6, <1>7, <1>8, <1>9

(* A device that completes a step, having been counted if it is a sync. *)
LEMMA VerdictAdvance ==
  ASSUME VerdictInv, TypeOK', NEW d \in Device, NEW k, Next1(d, k), Advance(d, k),
         UNCHANGED <<test, phase, err, parentDone, compDone, arrived, resultCh, results>>,
         pc[d] \in Working,
         k \in Syncs => <<d, k>> \in arrived
  PROVE  VerdictInv'
<1> USE DEF VerdictInv
<1>1. /\ pos' = [pos EXCEPT ![d] = k]
      /\ pc'[d] = "loop" /\ err[d] = "nil"
      /\ \A e \in Device \ {d} : pc'[e] = pc[e] /\ pos'[e] = pos[e]
  BY DEF TypeOK, Advance, WorkingIsNil
<1>2. Syncs' = Syncs
  BY TestFrame
<1>3. /\ \A i \in Syncs : Past(d, i)' <=> (Past(d, i) \/ i = k)
      /\ \A e \in Device, i \in Syncs :
           e # d => (Past(e, i)' <=> Past(e, i)) /\ (Next1(e, i)' <=> Next1(e, i))
  BY <1>1, AdvanceMeaning
<1>4. \A e \in Device \ {d} : Todo(e)' = Todo(e)
  <2>1. \A e \in Device \ {d} : test' = test /\ pos'[e] = pos[e]
    BY <1>1
  <2> QED
    BY ONLY <2>1 DEF Todo, Steps, IsSync
<1>5. AllReported' /\ ReportIsFinal'
  BY <1>1 DEF AllReported, ReportIsFinal, Working
<1>6. WorkingIsNil' /\ AborterFailed'
  BY <1>1 DEF WorkingIsNil, AborterFailed, Working
<1>7. NilIsFinished'
  BY <1>1, <1>4 DEF NilIsFinished
<1>8. CancelHasCause'
  BY DEF CancelHasCause, SomeoneFailed
<1>9. StepIsNoSync' /\ PassedWasReached'
  BY <1>1, <1>2, <1>3 DEF StepIsNoSync, PassedWasReached
<1> QED
  BY <1>5, <1>6, <1>7, <1>8, <1>9

LEMMA VerdictStep ==
  ASSUME VerdictInv, TypeOK', [Next]_vars
  PROVE  VerdictInv'
<1>1. /\ TypeOK
      /\ pc \in [Device -> Working \cup {"return", "abort", "send", "sent"}]
      /\ err \in [Device -> {"nil", "failed", "canceled"}]
  BY DEF VerdictInv, TypeOK, Working
<1>2. \A d \in Device : err = [err EXCEPT ![d] = err[d]]
  BY <1>1
<1>3. \A d \in Device : pc[d] \in Working => err[d] = "nil"
  BY DEF VerdictInv, WorkingIsNil
<1>4. /\ CtxDone => parentDone \/ SomeoneFailed \/ phase = "done"
      /\ \A d \in Device : pc[d] # "sent" => phase # "done"
  BY DEF VerdictInv, CancelHasCause, CtxDone, AllReported, ReportIsFinal
<1>5. \A d \in Device : err[d] = "canceled" => parentDone \/ SomeoneFailed
  BY DEF VerdictInv, CancelHasCause
<1>6. CASE Start \/ ParentCancel \/ UNCHANGED vars
  <2>1. /\ UNCHANGED <<test, compDone, pc, pos, err, arrived, resultCh, results>>
        /\ phase' = phase \/ (phase # "done" /\ phase' # "done")
        /\ parentDone => parentDone'
    BY <1>6 DEF Start, ParentCancel, vars
  <2> QED
    BY <2>1 DEF VerdictInv, AllReported, ReportIsFinal, WorkingIsNil, AborterFailed,
       NilIsFinished, CancelHasCause, StepIsNoSync, PassedWasReached, SomeoneFailed,
       Past, Next1, Todo, Steps, Syncs, IsSync
<1>7. CASE Finish
  BY <1>7 DEF Finish, VerdictInv, AllReported, ReportIsFinal, WorkingIsNil, AborterFailed,
     NilIsFinished, CancelHasCause, StepIsNoSync, PassedWasReached, SomeoneFailed,
     Past, Next1, Todo, Steps, Syncs, IsSync
<1>8. ASSUME NEW d \in Device, Collect(d) PROVE VerdictInv'
  <2>1. /\ UNCHANGED <<test, phase, parentDone, compDone, pc, pos, err, arrived>>
        /\ phase # "done" /\ d \in resultCh
        /\ resultCh' = resultCh \ {d}
        /\ results' = [results EXCEPT ![d] = err[d]]
    BY <1>8 DEF Collect
  <2>2. AllReported' /\ ReportIsFinal'
    BY <2>1, <1>1 DEF VerdictInv, TypeOK, AllReported, ReportIsFinal
  <2> QED
    BY <2>1, <2>2 DEF VerdictInv, WorkingIsNil, AborterFailed, NilIsFinished,
       CancelHasCause, StepIsNoSync, PassedWasReached, SomeoneFailed, Past, Next1,
       Todo, Steps, Syncs, IsSync
<1>9. ASSUME NEW d \in Device, LoopHead(d) PROVE VerdictInv'
  <2>1. /\ UNCHANGED <<test, phase, pos, parentDone, compDone, arrived, resultCh, results>>
        /\ pc[d] = "loop" /\ err[d] = "nil"
    BY <1>9, <1>3 DEF LoopHead, Working
  <2>2. ASSUME Todo(d) = {}, Return(d, "nil") PROVE VerdictInv'
    BY <2>1, <2>2, VerdictControl DEF Return, Working
  <2>3. ASSUME CtxDone, Return(d, "canceled") PROVE VerdictInv'
    BY <2>1, <2>3, <1>4, VerdictControl DEF Return, Working
  <2>4. ASSUME NEW i \in DOMAIN test.body, Next1(d, i), UNCHANGED err,
               pc' = [pc EXCEPT ![d] = IF IsSync(i) THEN "arrive" ELSE "step"]
        PROVE  VerdictInv'
    <3>1. CASE IsSync(i)
      BY <2>1, <2>4, <3>1, <1>2, VerdictControl
    <3>2. CASE ~IsSync(i)
      <4>1. \A j \in Syncs : ~Next1(d, j)
        BY <3>2, <2>4, <1>1, NextIsUnique DEF Syncs
      <4> QED
        BY <2>1, <2>4, <3>2, <4>1, <1>2, VerdictControl
    <3> QED
      BY <3>1, <3>2
  <2> QED
    BY <1>9, <2>2, <2>3, <2>4 DEF LoopHead
<1>10. ASSUME NEW d \in Device, RunStep(d) PROVE VerdictInv'
  <2>1. /\ UNCHANGED <<test, phase, parentDone, compDone, arrived, resultCh, results>>
        /\ pc[d] = "step" /\ pc[d] \in Working /\ err[d] = "nil"
    BY <1>10, <1>3 DEF RunStep, Working
  <2>2. ASSUME NEW i, Next1(d, i), Advance(d, i), UNCHANGED err PROVE VerdictInv'
    <3>1. i \notin Syncs
      BY <2>1, <2>2 DEF VerdictInv, StepIsNoSync
    <3> QED
      BY <2>1, <2>2, <3>1, VerdictAdvance
  <2>3. ASSUME NEW x \in {"failed", "canceled"}, Return(d, x), UNCHANGED pos,
               x = "canceled" => CtxDone
        PROVE  VerdictInv'
    BY <2>1, <2>3, <1>4, VerdictControl DEF Return, Working
  <2> QED
    BY <1>10, <2>2, <2>3 DEF RunStep
<1>11. ASSUME NEW d \in Device, ArriveCount(d) PROVE VerdictInv'
  <2>1. /\ UNCHANGED <<test, phase, pos, err, parentDone, compDone, resultCh, results>>
        /\ pc[d] = "arrive" /\ err[d] = "nil"
    BY <1>11, <1>3 DEF ArriveCount, Working
  <2>2. PICK k \in Syncs :
          /\ Next1(d, k)
          /\ pc' = [pc EXCEPT ![d] = IF IsLast(Label(k)) THEN "open" ELSE "wait"]
          /\ arrived' = arrived \cup {<<d, k>>}
    BY <1>11 DEF ArriveCount
  <2>3. \A i \in Syncs : Next1(d, i) => <<d, i>> \in arrived'
    BY <2>2, <1>1, NextIsUnique
  <2>4. PICK p \in {"open", "wait"} : pc' = [pc EXCEPT ![d] = p]
    BY <2>2
  <2>5. /\ err' = [err EXCEPT ![d] = "nil"]
        /\ pc[d] # "sent"
        /\ p \notin {"abort", "step", "return", "send", "sent"}
    BY <2>1, <2>4, <1>2
  <2>6. arrived \subseteq arrived'
    BY <2>2
  <2> QED
    BY <2>1, <2>3, <2>4, <2>5, <2>6, VerdictControl
<1>12. ASSUME NEW d \in Device, OpenGate(d) PROVE VerdictInv'
  <2>1. /\ UNCHANGED <<test, phase, err, parentDone, compDone, arrived, resultCh, results>>
        /\ pc[d] = "open" /\ pc[d] \in Working
    BY <1>12 DEF OpenGate, Working
  <2>2. PICK i \in Syncs : Next1(d, i) /\ Advance(d, i)
    BY <1>12 DEF OpenGate
  <2>3. <<d, i>> \in arrived
    BY <2>1, <2>2 DEF VerdictInv, PassedWasReached
  <2> QED
    BY <2>1, <2>2, <2>3, VerdictAdvance
<1>13. ASSUME NEW d \in Device, WaitAtGate(d) PROVE VerdictInv'
  <2>1. /\ UNCHANGED <<test, phase, parentDone, compDone, arrived, resultCh, results>>
        /\ pc[d] = "wait" /\ pc[d] \in Working /\ err[d] = "nil"
    BY <1>13, <1>3 DEF WaitAtGate, Working
  <2>2. ASSUME NEW i \in Syncs, Next1(d, i), Advance(d, i), UNCHANGED err
        PROVE  VerdictInv'
    <3>1. <<d, i>> \in arrived
      BY <2>1, <2>2 DEF VerdictInv, PassedWasReached
    <3> QED
      BY <2>1, <2>2, <3>1, VerdictAdvance
  <2>3. ASSUME CtxDone, Return(d, "canceled"), UNCHANGED pos PROVE VerdictInv'
    BY <2>1, <2>3, <1>4, VerdictControl DEF Return, Working
  <2> QED
    BY <1>13, <2>2, <2>3 DEF WaitAtGate
<1>14. ASSUME NEW d \in Device, Returned(d) \/ CompCancel(d) \/ SendResult(d)
       PROVE  VerdictInv'
  <2>1. /\ UNCHANGED <<test, phase, pos, err, parentDone, arrived, results>>
        /\ pc[d] \in {"return", "abort", "send"}
    BY <1>14 DEF Returned, CompCancel, SendResult
  <2>2. /\ pc[d] # "abort" /\ err[d] = "nil" => Todo(d) = {}
        /\ pc[d] = "abort" => err[d] = "failed"
    BY <2>1 DEF VerdictInv, NilIsFinished, AborterFailed
  <2>3. PICK p \in {"abort", "send", "sent"} :
          /\ pc' = [pc EXCEPT ![d] = p]
          /\ p = "abort" => err[d] = "failed"
          /\ compDone' = compDone \/ err[d] = "failed"
          /\ resultCh' = resultCh \/ (p = "sent" /\ resultCh' = resultCh \cup {d})
    BY <1>14, <2>2 DEF Returned, CompCancel, SendResult, MustAbort
  <2> QED
    BY <2>1, <2>2, <2>3, <1>2, <1>5, VerdictControl DEF Working
<1>15. ASSUME NEW d \in Device, Abort(d) PROVE VerdictInv'
  BY <1>15 DEF Abort, VerdictInv, AllReported, ReportIsFinal, WorkingIsNil, AborterFailed,
     NilIsFinished, CancelHasCause, StepIsNoSync, PassedWasReached, SomeoneFailed,
     Past, Next1, Todo, Steps, Syncs, IsSync
<1> QED
  BY <1>6, <1>7, <1>8, <1>9, <1>10, <1>11, <1>12, <1>13, <1>14, <1>15
     DEF Next, Goroutine

LEMMA VerdictStart ==
  ASSUME Init, TypeOK
  PROVE  VerdictInv
BY NothingPassed DEF Init, VerdictInv, AllReported, ReportIsFinal, WorkingIsNil,
   AborterFailed, NilIsFinished, CancelHasCause, StepIsNoSync, PassedWasReached

LEMMA VerdictMeaning ==
  ASSUME VerdictInv
  PROVE  VerdictIsHonest
<1> USE DEF VerdictInv
<1>1. PassedRanEverything
  <2> SUFFICES ASSUME phase = "done", Passed
               PROVE  /\ \A d \in Device : Todo(d) = {}
                      /\ \A i \in Syncs : AllArrived(i)
    BY DEF PassedRanEverything
  <2>1. \A d \in Device : pc[d] = "sent" /\ err[d] = "nil"
    BY DEF Passed, ReportIsFinal
  <2>2. \A d \in Device : Todo(d) = {}
    BY <2>1 DEF NilIsFinished
  <2>3. ASSUME NEW i \in Syncs, NEW d \in Device PROVE Past(d, i)
    <3>1. i \in Steps(d) /\ i \in Nat /\ pos[d] \in Nat
      BY TestsAssumption DEF Steps, Syncs, TypeOK
    <3> QED
      BY <3>1, <2>2 DEF Todo, Past
  <2> QED
    BY <2>2, <2>3 DEF AllArrived, PassedWasReached
<1>2. \A d \in Device : results[d] = "canceled" => parentDone \/ SomeoneFailed
  BY DEF ReportIsFinal, CancelHasCause
<1>3. ASSUME phase = "done", ~Passed, ~parentDone PROVE ErrParts # {}
  <2>1. PICK d \in Device : results[d] \in {"failed", "canceled"}
    BY <1>3 DEF Passed, AllReported, TypeOK
  <2>2. SomeoneFailed
    BY <1>2, <1>3, <2>1 DEF SomeoneFailed, ReportIsFinal
  <2>3. \E e \in Device : results[e] = "failed"
    BY <2>2, <1>3 DEF SomeoneFailed, AllReported, ReportIsFinal
  <2> QED
    BY <2>3 DEF ErrParts
<1> QED
  BY <1>1, <1>2, <1>3 DEF VerdictIsHonest, FailureIsExplained

(* The verdict is honest, for every test and every number of devices: a test *)
(* reported as passed ran every step of every device and every sync point    *)
(* was a meeting of all; a cancelled device has a root cause.                *)
THEOREM VerdictHolds == Spec => []VerdictIsHonest
<1>1. Init /\ TypeOK => VerdictInv
  BY VerdictStart
<1>2. VerdictInv /\ TypeOK' /\ [Next]_vars => VerdictInv'
  BY VerdictStep
<1>3. VerdictInv => VerdictIsHonest
  BY VerdictMeaning
<1> QED
  BY <1>1, <1>2, <1>3, TypeCorrect, PTL DEF Spec

-----------------------------------------------------------------------------
(* The runner implements SyncRendezvous.  An arrival is Reach, leaving a     *)
(* barrier is Pass, the first failure is Fail, the caller's cancellation is  *)
(* Stop, a collected result is Report; every other step stutters.            *)

PassedPoints == {x \in Device \X Points : x[2] \in Syncs /\ Past(x[1], x[2])}

LEMMA SyncsArePoints ==
  ASSUME test \in Tests
  PROVE  Syncs \subseteq Points
  BY DEF Syncs, Points

LEMMA PromiseStart == Init => Promise!Init
<1> SUFFICES ASSUME Init PROVE Promise!Init
  OBVIOUS
<1>1. PassedPoints = {}
  BY NothingPassed DEF PassedPoints
<1>2. ~SomeoneFailed
  BY DEF SomeoneFailed, Init
<1> QED
  BY <1>1, <1>2 DEF Init, Promise!Init, PassedPoints

(* Steps that no variable of the promise shows. *)
LEMMA HiddenStep ==
  ASSUME UNCHANGED <<test, pos, err, arrived, parentDone, results>>
  PROVE  UNCHANGED Promise!vars
  BY DEF Promise!vars, SomeoneFailed, Past, Syncs, IsSync

(* A return: a failure shows when it is the first. *)
LEMMA ReturnShows ==
  ASSUME TypeOK, NEW d \in Device, NEW e, err[d] # "failed", Return(d, e),
         UNCHANGED <<test, pos, arrived, parentDone, results>>
  PROVE  Promise!Next \/ UNCHANGED Promise!vars
<1>1. UNCHANGED <<arrived, PassedPoints, parentDone, results>>
  BY DEF PassedPoints, Past, Syncs, IsSync
<1>2. /\ SomeoneFailed => SomeoneFailed'
      /\ SomeoneFailed' => SomeoneFailed \/ e = "failed"
      /\ e = "failed" => SomeoneFailed'
  BY DEF SomeoneFailed, Return, TypeOK
<1>3. CASE SomeoneFailed' <=> SomeoneFailed
  <2>1. SomeoneFailed' = SomeoneFailed
    BY <1>3 DEF SomeoneFailed
  <2> QED
    BY <1>1, <2>1 DEF Promise!vars, PassedPoints
<1>4. CASE SomeoneFailed' /\ ~SomeoneFailed
  <2>1. SomeoneFailed' = TRUE
    BY <1>4 DEF SomeoneFailed
  <2>2. Promise!Fail
    BY <1>1, <1>4, <2>1 DEF Promise!Fail, PassedPoints
  <2> QED
    BY <2>2 DEF Promise!Next
<1> QED
  BY <1>2, <1>3, <1>4

(* Completing a step: a sync is passed, a device step does not show. *)
LEMMA AdvanceShows ==
  ASSUME TypeOK, NEW d \in Device, NEW k, Next1(d, k), Advance(d, k),
         UNCHANGED <<test, err, arrived, parentDone, results>>,
         k \in Syncs => /\ <<d, k>> \in arrived
                        /\ AllArrived(k) \/ SomeoneFailed
  PROVE  Promise!Next \/ UNCHANGED Promise!vars
<1>1. Syncs' = Syncs /\ Syncs \subseteq Points
  BY TestFrame, SyncsArePoints DEF TypeOK
<1>2. \A e \in Device, i \in Syncs :
        Past(e, i)' <=> (Past(e, i) \/ (e = d /\ i = k))
  BY AdvanceMeaning, ZenonT(40) DEF Advance
<1>3. SomeoneFailed' = SomeoneFailed
  BY DEF SomeoneFailed
<1>4. CASE k \notin Syncs
  <2>1. PassedPoints' = PassedPoints
    BY <1>1, <1>2, <1>4 DEF PassedPoints
  <2> QED
    BY <1>3, <2>1 DEF Promise!vars, PassedPoints
<1>5. CASE k \in Syncs
  <2>1. PassedPoints' = PassedPoints \cup {<<d, k>>}
    BY <1>1, <1>2, <1>5 DEF PassedPoints
  <2>2. <<d, k>> \notin PassedPoints
    BY NextIsAhead DEF PassedPoints
  <2>3. Promise!Pass(d, k)
    BY <1>3, <1>5, <2>1, <2>2 DEF Promise!Pass, PassedPoints, AllArrived
  <2> QED
    BY <1>1, <1>5, <2>3 DEF Promise!Next
<1> QED
  BY <1>4, <1>5

LEMMA ArrivalShows ==
  ASSUME RendezvousInv, NEW d \in Device, ArriveCount(d)
  PROVE  Promise!Next
<1>1. PICK k \in Syncs : Next1(d, k) /\ arrived' = arrived \cup {<<d, k>>}
  BY DEF ArriveCount
<1>2. pc[d] = "arrive" /\ UNCHANGED <<test, pos, err, parentDone, results>>
  BY DEF ArriveCount
<1>3. <<d, k>> \notin arrived
  BY <1>1, <1>2, NextIsAhead DEF RendezvousInv, CountsOnce
<1>4. UNCHANGED <<PassedPoints, SomeoneFailed>>
  BY <1>2 DEF PassedPoints, SomeoneFailed, Past, Syncs, IsSync
<1>5. Promise!Reach(d, k)
  BY <1>1, <1>2, <1>3, <1>4 DEF Promise!Reach, PassedPoints
<1>6. k \in Points
  BY SyncsArePoints DEF RendezvousInv, TypeOK
<1> QED
  BY <1>5, <1>6 DEF Promise!Next

LEMMA ReportShows ==
  ASSUME VerdictInv, NEW d \in Device, Collect(d)
  PROVE  Promise!Next
<1> USE DEF VerdictInv
<1>1. results[d] = "none" /\ pc[d] = "sent"
  BY DEF Collect, ReportIsFinal
<1>2. /\ err[d] \in {"nil", "failed", "canceled"}
      /\ err[d] = "failed" => SomeoneFailed
      /\ err[d] = "canceled" => SomeoneFailed \/ parentDone
  BY DEF TypeOK, CancelHasCause, SomeoneFailed
<1>3. /\ UNCHANGED <<arrived, PassedPoints, SomeoneFailed, parentDone>>
      /\ results' = [results EXCEPT ![d] = err[d]]
  BY DEF Collect, PassedPoints, SomeoneFailed, Past, Syncs, IsSync
<1>4. Promise!Report(d, err[d])
  BY <1>1, <1>2, <1>3 DEF Promise!Report, PassedPoints
<1> QED
  BY <1>2, <1>4 DEF Promise!Next

LEMMA PromiseStep ==
  ASSUME UniqueLabels, RendezvousInv, VerdictInv, [Next]_vars
  PROVE  Promise!Next \/ UNCHANGED Promise!vars
<1>1. TypeOK
  BY DEF VerdictInv
<1>2. \A d \in Device : pc[d] \in Working => err[d] = "nil"
  BY DEF VerdictInv, WorkingIsNil
<1>3. CASE Start \/ Finish \/ UNCHANGED vars
  BY <1>3, HiddenStep DEF Start, Finish, vars
<1>4. CASE ParentCancel
  <2>1. UNCHANGED <<arrived, PassedPoints, SomeoneFailed, results>>
    BY <1>4 DEF ParentCancel, PassedPoints, SomeoneFailed, Past, Syncs, IsSync
  <2>2. Promise!Stop
    BY <1>4, <2>1 DEF ParentCancel, Promise!Stop, PassedPoints
  <2> QED
    BY <2>2 DEF Promise!Next
<1>5. ASSUME NEW d \in Device, Collect(d) PROVE Promise!Next
  BY <1>5, ReportShows
<1>6. ASSUME NEW d \in Device, LoopHead(d)
      PROVE  Promise!Next \/ UNCHANGED Promise!vars
  <2>1. /\ err[d] # "failed"
        /\ UNCHANGED <<test, pos, arrived, parentDone, results>>
    BY <1>6, <1>2 DEF LoopHead, Working
  <2>2. UNCHANGED err \/ \E e \in {"nil", "canceled"} : Return(d, e)
    BY <1>6 DEF LoopHead
  <2> QED
    BY <1>1, <2>1, <2>2, HiddenStep, ReturnShows
<1>7. ASSUME NEW d \in Device, RunStep(d)
      PROVE  Promise!Next \/ UNCHANGED Promise!vars
  <2>1. /\ err[d] # "failed" /\ pc[d] = "step"
        /\ UNCHANGED <<test, arrived, parentDone, results>>
    BY <1>7, <1>2 DEF RunStep, Working
  <2>2. ASSUME NEW i, Next1(d, i), Advance(d, i), UNCHANGED err
        PROVE  Promise!Next \/ UNCHANGED Promise!vars
    <3>1. i \notin Syncs
      BY <2>1, <2>2 DEF VerdictInv, StepIsNoSync
    <3> QED
      BY <1>1, <2>1, <2>2, <3>1, AdvanceShows
  <2> QED
    BY <1>7, <1>1, <2>1, <2>2, ReturnShows DEF RunStep
<1>8. ASSUME NEW d \in Device, ArriveCount(d) PROVE Promise!Next
  BY <1>8, ArrivalShows
<1>9. ASSUME NEW d \in Device, OpenGate(d)
      PROVE  Promise!Next \/ UNCHANGED Promise!vars
  <2>1. pc[d] = "open" /\ UNCHANGED <<test, err, arrived, parentDone, results>>
    BY <1>9 DEF OpenGate
  <2>2. PICK i \in Syncs : Next1(d, i) /\ Advance(d, i)
    BY <1>9 DEF OpenGate
  <2>3. <<d, i>> \in arrived /\ AllArrived(i)
    BY <2>1, <2>2 DEF VerdictInv, PassedWasReached, RendezvousInv, OpenIsLast
  <2> QED
    BY <1>1, <2>1, <2>2, <2>3, AdvanceShows
<1>10. ASSUME NEW d \in Device, WaitAtGate(d)
       PROVE  Promise!Next \/ UNCHANGED Promise!vars
  <2>1. /\ err[d] # "failed" /\ pc[d] = "wait"
        /\ UNCHANGED <<test, arrived, parentDone, results>>
    BY <1>10, <1>2 DEF WaitAtGate, Working
  <2>2. ASSUME NEW i \in Syncs, Next1(d, i), gate[Label(i)], Advance(d, i), UNCHANGED err
        PROVE  Promise!Next \/ UNCHANGED Promise!vars
    <3>1. <<d, i>> \in arrived /\ (AllArrived(i) \/ SomeoneFailed)
      BY <2>1, <2>2 DEF VerdictInv, PassedWasReached, RendezvousInv, GateHasReason
    <3> QED
      BY <1>1, <2>1, <2>2, <3>1, AdvanceShows
  <2> QED
    BY <1>10, <1>1, <2>1, <2>2, ReturnShows DEF WaitAtGate
<1>11. ASSUME NEW d \in Device,
              Returned(d) \/ Abort(d) \/ CompCancel(d) \/ SendResult(d)
       PROVE  UNCHANGED Promise!vars
  BY <1>11, HiddenStep DEF Returned, Abort, CompCancel, SendResult
<1> QED
  BY <1>3, <1>4, <1>5, <1>6, <1>7, <1>8, <1>9, <1>10, <1>11 DEF Next, Goroutine

(* A composite test keeps the promise of SyncRendezvous, for every number of  *)
(* devices and every test whose labels are unique: a device passes a sync     *)
(* point when all have reached it or one has failed, each device reports one  *)
(* outcome, and a cancellation has a cause.                                   *)
THEOREM KeepsPromise == UniqueLabels => (Spec => ImplementsPromise)
<1> SUFFICES ASSUME UniqueLabels PROVE Spec => ImplementsPromise
  OBVIOUS
<1>1. Init /\ TypeOK => RendezvousInv /\ VerdictInv
  BY RendezvousStart, VerdictStart
<1>2. RendezvousInv /\ TypeOK' /\ [Next]_vars => RendezvousInv'
  BY RendezvousStep
<1>3. VerdictInv /\ TypeOK' /\ [Next]_vars => VerdictInv'
  BY VerdictStep
<1>4. RendezvousInv /\ VerdictInv /\ [Next]_vars => [Promise!Next]_(Promise!vars)
  BY PromiseStep
<1> QED
  BY <1>1, <1>2, <1>3, <1>4, PromiseStart, TypeCorrect, PTL
     DEF Spec, ImplementsPromise, Promise!Spec
==============================================================================
