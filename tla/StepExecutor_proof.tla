------------------------- MODULE StepExecutor_proof -------------------------
(***************************************************************************)
(* Proofs about the executor: TypeOK, OnlyDeadlinesCost and ActsAsWritten  *)
(* for every set of plans, of patterns and every policy, drops and crashes *)
(* included; the last of them below, with a ledger of the stack.           *)
(*                                                                         *)
(* The invariant that carries all says what the stack of activations is:   *)
(* a reconnect lies only on top and only above the step it is for, the     *)
(* outermost activation is a body; nobody has a connection while an app is *)
(* dialled; the mocks still to be reapplied are the end of the list; and   *)
(* over a connection that is up the last mock of each pattern is in force  *)
(* or among those.                                                         *)
(***************************************************************************)
EXTENDS StepExecutor, WellFoundedInduction, SequenceTheorems, FiniteSetTheorems, TLAPS

(* The activations, kind by kind. *)
MockSteps   == {s \in Steps : s.op = "mock"}
Handlers    == {"auto", "open", "restart", "clear", "permit"}
BodyFrames  == [k : {"body"}, rest : Seq(Steps)]
StepFrames  == [k : {"step"}, s : Steps, n : 0..MaxAttempts]
BlockFrames == {f \in [k : {"loop", "retry"}, s : Steps, left : Int] :
                  f.s.op = f.k /\ f.left <= Count(f.s)}
DialFrames  == [k : {"dial", "relaunch"}, what : Handlers, again : BOOLEAN]
MockFrames  == [k : {"remock"}, what : Handlers, todo : Seq(MockSteps)]
Frames == BodyFrames \cup StepFrames \cup BlockFrames \cup DialFrames \cup MockFrames

(* A reconnect in progress. *)
Redials(f) == f.k \in {"dial", "relaunch", "remock"}

(* A stack the executor can have. *)
Fits(st) ==
  /\ st \in Seq(Frames)
  /\ \A i \in 1..Len(st) : Redials(st[i]) => i = 1 /\ Len(st) > 1 /\ st[2].k = "step"
  /\ st # <<>> => st[Len(st)].k = "body"

Typed ==
  /\ plan \in Plans /\ cur \in 1..Len(plan) /\ attempt \in 1..(Retries + 1)
  /\ phase \in {"begin", "body", "after", "done"}
  /\ verdict \in {"none", "ok", "conn", "fail"}
  /\ ret \in {"run", "ok", "conn", "fail", "gone"}
  /\ mocks \in Seq(MockSteps)
  /\ agentMocks \in [Pattern -> {"none"} \cup {s.ans : s \in MockSteps}]
  /\ conn \in {"up", "lost", "closed"} /\ alive \in BOOLEAN /\ unchecked \in BOOLEAN
  /\ cuts \in Nat /\ slow \in 0..MaxSlow
  /\ ran \in Seq({s.id : s \in {t \in Steps : t.op = "act"}})

(* A lost app is reported to the step it was lost in, a body to its test. *)
Returned ==
  /\ ret = "gone" => stack # <<>> /\ Top.k = "step"
  /\ phase = "body" /\ stack = <<>> => ret \in {"ok", "conn", "fail"}

Linked ==
  /\ conn = "up" => alive
  /\ stack # <<>> /\ Top.k \in {"dial", "relaunch"} => conn # "up"

Reapplying == stack # <<>> /\ Top.k = "remock"
Reapplied  == Len(mocks) - Len(Top.todo)

(* What is left to reapply is the end of the list of mocks. *)
Suffix ==
  Reapplying =>
    /\ Len(Top.todo) <= Len(mocks)
    /\ \A i \in 1..Len(Top.todo) : Top.todo[i] = mocks[Reapplied + i]

(* The last mock of a pattern is in force, or still to be reapplied. *)
IsLast(i, p, m) == m[i].pat = p /\ \A j \in 1..Len(m) : m[j].pat = p => j <= i
InForce ==
  conn = "up" /\ slow = 0 =>
    \A p \in Pattern : \A i \in 1..Len(mocks) :
      IsLast(i, p, mocks) => agentMocks[p] = mocks[i].ans \/ (Reapplying /\ i > Reapplied)

ExecInv == Typed /\ Fits(stack) /\ Returned /\ Linked /\ Suffix /\ InForce

-----------------------------------------------------------------------------
(* A frame of a kind is a record of that kind. *)
LEMMA FrameKinds ==
  ASSUME NEW f \in Frames
  PROVE  /\ f.k = "body" => f \in BodyFrames
         /\ f.k = "step" => f \in StepFrames
         /\ f.k \in {"loop", "retry"} => f \in BlockFrames
         /\ f.k \in {"dial", "relaunch"} => f \in DialFrames
         /\ f.k = "remock" => f \in MockFrames
         /\ f.k \in {"body", "step", "loop", "retry", "dial", "relaunch", "remock"}
  BY DEF Frames, BodyFrames, StepFrames, BlockFrames, DialFrames, MockFrames

(* The activation on top can return. *)
LEMMA PopFits ==
  ASSUME NEW st, Fits(st), st # <<>>
  PROVE  /\ Fits(Tail(st))
         /\ Head(st) \in Frames
         /\ Head(st).k # "body" => Tail(st) # <<>>
         /\ Redials(Head(st)) => Tail(st) # <<>> /\ Head(Tail(st)).k = "step"
         /\ Tail(st) # <<>> => ~Redials(Head(Tail(st)))
<1>1. st \in Seq(Frames) /\ Len(st) \in Nat /\ Len(st) > 0 /\ Head(st) = st[1] /\ Head(st) \in Frames
  BY DEF Fits
<1>2. Tail(st) \in Seq(Frames) /\ Len(Tail(st)) = Len(st) - 1
      /\ \A i \in 1..Len(Tail(st)) : Tail(st)[i] = st[i + 1]
  BY <1>1
<1>3. \A i \in 1..Len(Tail(st)) : ~Redials(Tail(st)[i])
  <2>1. SUFFICES ASSUME NEW i \in 1..Len(Tail(st)) PROVE ~Redials(Tail(st)[i])
    OBVIOUS
  <2>2. i + 1 \in 1..Len(st) /\ i + 1 # 1 /\ Tail(st)[i] = st[i + 1]
    BY <1>1, <1>2
  <2>3. QED BY <2>2 DEF Fits
<1>4. Tail(st) # <<>> => Len(Tail(st)) > 0 /\ Head(Tail(st)) = Tail(st)[1] /\ Tail(st)[Len(Tail(st))] = st[Len(st)]
  BY <1>1, <1>2
<1>5. Fits(Tail(st))
  <2>1. Tail(st) # <<>> => Tail(st)[Len(Tail(st))].k = "body"
    BY <1>1, <1>4 DEF Fits
  <2>2. QED BY <1>2, <1>3, <2>1 DEF Fits
<1>6. Head(st).k # "body" => Tail(st) # <<>>
  <2>1. ASSUME Tail(st) = <<>> PROVE Head(st).k = "body"
    <3>1. Len(st) = 1
      <4>1. Len(Tail(st)) = 0
        BY <1>2, <2>1, EmptySeq
      <4>2. Len(st) - 1 = 0
        BY <1>2, <4>1
      <4>3. QED BY <1>1, <4>2
    <3>2. QED BY <1>1, <3>1 DEF Fits
  <2>2. QED BY <2>1
<1>7. Redials(Head(st)) => Tail(st) # <<>> /\ Head(Tail(st)).k = "step"
  <2>1. ASSUME Redials(Head(st)) PROVE Tail(st) # <<>> /\ Head(Tail(st)).k = "step"
    <3>1. Len(st) > 1 /\ st[2].k = "step"
      BY <1>1, <2>1 DEF Fits
    <3>2. Len(Tail(st)) > 0 /\ 1 \in 1..Len(Tail(st)) /\ 1 + 1 = 2
      BY <1>1, <1>2, <3>1
    <3>3. Tail(st) # <<>> /\ Tail(st)[1] = st[2]
      <4>1. Tail(st)[1] = st[1 + 1]
        BY <1>2, <3>2
      <4>2. Tail(st) # <<>>
        <5> DEFINE u == Tail(st)
                   n == Len(u)
        <5>1. n \in Nat /\ n > 0
          BY <1>1, <1>2, <3>2
        <5>2. n # 0
          <6> HIDE DEF n
          <6>1. QED BY <5>1
        <5> HIDE DEF u
        <5>3. u # <<>>
          BY <5>2, EmptySeq, Zenon
        <5>4. QED BY <5>3 DEF u
      <4>3. QED BY <3>2, <4>1, <4>2
    <3>4. QED BY <1>4, <3>1, <3>3
  <2>2. QED BY <2>1
<1>8. Tail(st) # <<>> => ~Redials(Head(Tail(st)))
  <2>1. Tail(st) # <<>> => 1 \in 1..Len(Tail(st))
    BY <1>1, <1>2, <1>4
  <2>2. QED BY <1>3, <1>4, <2>1
<1>9. QED BY <1>1, <1>5, <1>6, <1>7, <1>8

(* An activation is entered: a body anywhere, a reconnect above a step. *)
LEMMA PushFits ==
  ASSUME NEW st, Fits(st), NEW f \in Frames,
         st = <<>> => f.k = "body",
         st # <<>> => ~Redials(Head(st)),
         Redials(f) => st # <<>> /\ Head(st).k = "step"
  PROVE  Fits(<<f>> \o st) /\ <<f>> \o st # <<>> /\ Head(<<f>> \o st) = f /\ Tail(<<f>> \o st) = st
<1> DEFINE t == <<f>> \o st
<1>1. st \in Seq(Frames) /\ Len(st) \in Nat
  BY DEF Fits
<1>2. t \in Seq(Frames) /\ Len(t) = Len(st) + 1 /\ t[1] = f /\ t # <<>>
      /\ \A i \in 1..Len(t) : i # 1 => t[i] = st[i - 1]
  BY <1>1
<1>3. Head(t) = f /\ Tail(t) = st
  BY <1>1, <1>2
<1> HIDE DEF t
<1>4. ASSUME NEW i \in 1..Len(t), Redials(t[i]) PROVE i = 1 /\ Len(t) > 1 /\ t[2].k = "step"
  <2>1. i = 1
    <3>1. SUFFICES ASSUME i # 1 PROVE FALSE
      OBVIOUS
    <3>2. i - 1 \in 1..Len(st) /\ t[i] = st[i - 1]
      BY <1>1, <1>2, <3>1
    <3>3. i - 1 = 1 /\ st # <<>> /\ Head(st) = st[1]
      BY <1>1, <1>4, <3>2 DEF Fits
    <3>4. QED BY <1>4, <3>2, <3>3
  <2>2. st # <<>> /\ Head(st).k = "step"
    BY <1>2, <1>4, <2>1
  <2>3. Len(st) > 0 /\ Head(st) = st[1] /\ t[2] = st[1]
    <3>1. Len(st) > 0 /\ Head(st) = st[1]
      BY <1>1, <2>2
    <3>2. 2 \in 1..Len(t) /\ 2 - 1 = 1
      BY <1>1, <1>2, <3>1
    <3>3. QED BY <1>2, <3>1, <3>2
  <2>4. QED BY <1>1, <1>2, <2>1, <2>2, <2>3
<1>5. t[Len(t)].k = "body"
  <2>1. CASE st = <<>>
    BY <1>1, <1>2, <2>1
  <2>2. CASE st # <<>>
    <3>1. Len(st) > 0 /\ Len(t) \in 1..Len(t) /\ Len(t) # 1 /\ Len(t) - 1 = Len(st)
      BY <1>1, <1>2, <2>2
    <3>2. t[Len(t)] = st[Len(st)]
      BY <1>2, <3>1
    <3>3. QED BY <2>2, <3>2 DEF Fits
  <2>3. QED BY <2>1, <2>2
<1>6. Fits(t)
  BY <1>2, <1>4, <1>5 DEF Fits
<1>7. QED BY <1>2, <1>3, <1>6 DEF t

(* A stack and a result as most steps leave them: nothing is redialled. *)
Plainly(st, r) ==
  /\ Fits(st)
  /\ r \in {"run", "ok", "conn", "fail", "gone"}
  /\ st # <<>> => ~Redials(Head(st))
  /\ r = "gone" => st # <<>> /\ Head(st).k = "step"
  /\ st = <<>> => r \in {"ok", "conn", "fail"}

(* ... and as they are left to dial. *)
Dialling(st, r) ==
  Fits(st) /\ r = "run" /\ st # <<>> /\ Head(st).k \in {"dial", "relaunch"}

LEMMA Returns ==
  ASSUME Fits(stack), stack # <<>>, NEW e \in {"run", "ok", "conn", "fail", "gone"}, Return(e),
         e = "gone" => Redials(Top),
         Top.k = "body" => e \in {"ok", "conn", "fail"}
  PROVE  Plainly(stack', ret')
<1>1. stack' = Tail(stack) /\ ret' = e
  BY DEF Return
<1>2. /\ Fits(Tail(stack))
      /\ Head(stack).k # "body" => Tail(stack) # <<>>
      /\ Redials(Head(stack)) => Tail(stack) # <<>> /\ Head(Tail(stack)).k = "step"
      /\ Tail(stack) # <<>> => ~Redials(Head(Tail(stack)))
  BY PopFits
<1>3. QED BY <1>1, <1>2 DEF Plainly, Top

LEMMA Answers ==
  ASSUME Fits(stack), stack # <<>>, Top.k = "step", NEW e \in {"run", "ok", "conn", "fail"}, Answer(e)
  PROVE  Plainly(stack', ret')
  BY DEF Plainly, Top, Answer, Redials

LEMMA Enters ==
  ASSUME Fits(stack), stack # <<>>, ~Redials(Top), NEW f \in Frames, ~Redials(f), Enter(f)
  PROVE  Plainly(stack', ret')
<1>1. Fits(<<f>> \o stack) /\ <<f>> \o stack # <<>> /\ Head(<<f>> \o stack) = f
  BY PushFits DEF Top
<1>2. QED BY <1>1 DEF Plainly, Enter

(* Two activations are entered one after the other. *)
LEMMA TwoInFront ==
  ASSUME NEW S, NEW f \in S, NEW g \in S, NEW t \in Seq(S)
  PROVE  <<f, g>> \o t = <<f>> \o (<<g>> \o t)
<1>1. <<f>> \in Seq(S) /\ <<g>> \in Seq(S) /\ <<f, g>> \in Seq(S)
      /\ Len(<<f>>) = 1 /\ Len(<<g>>) = 1 /\ Len(<<f, g>>) = 2
  OBVIOUS
<1> DEFINE u == <<f>> \o <<g>>
<1>2. u \in Seq(S) /\ Len(u) = 2 /\ u[1] = f /\ u[2] = g
  BY <1>1, ConcatProperties
<1>3. <<f, g>> = u
  <2> HIDE DEF u
  <2>1. \A i \in 1..2 : <<f, g>>[i] = u[i]
    BY <1>2
  <2>2. QED BY <1>1, <1>2, <2>1
<1>4. (<<f>> \o <<g>>) \o t = <<f>> \o (<<g>> \o t)
  BY <1>1, ConcatAssociative
<1>5. QED BY <1>3, <1>4

LEMMA Iterates ==
  ASSUME Fits(stack), stack # <<>>, ~Redials(Top), NEW f \in Frames, NEW g \in Frames,
         g.k # "body" => Top.k # "body",
         ~Redials(f), ~Redials(g), stack' = <<f, g>> \o Tail(stack), ret' = "run"
  PROVE  Plainly(stack', ret')
<1>1. Fits(Tail(stack)) /\ (Top.k # "body" => Tail(stack) # <<>>)
      /\ (Tail(stack) # <<>> => ~Redials(Head(Tail(stack))))
  BY PopFits DEF Top
<1> DEFINE t == <<g>> \o Tail(stack)
<1>2. Fits(t) /\ t # <<>> /\ Head(t) = g
  BY <1>1, PushFits
<1>3. Fits(<<f>> \o t) /\ <<f>> \o t # <<>> /\ Head(<<f>> \o t) = f
  <2> HIDE DEF t
  <2>1. QED BY <1>2, PushFits
<1>4. <<f, g>> \o Tail(stack) = <<f>> \o t
  <2>1. Tail(stack) \in Seq(Frames)
    BY <1>1 DEF Fits
  <2>2. QED BY <2>1, TwoInFront, SMTT(20)
<1>5. QED BY <1>3, <1>4 DEF Plainly

LEMMA Dials ==
  ASSUME Fits(stack), stack # <<>>, Top.k = "step", NEW w \in Handlers, Enter(Redial(w))
  PROVE  Dialling(stack', ret')
<1>1. Redial(w) \in Frames /\ Redial(w).k = "dial"
  BY DEF Redial, Frames, DialFrames
<1>2. ~Redials(Top)
  BY DEF Redials
<1>3. Fits(<<Redial(w)>> \o stack) /\ <<Redial(w)>> \o stack # <<>> /\ Head(<<Redial(w)>> \o stack) = Redial(w)
  BY <1>1, <1>2, PushFits DEF Top
<1>4. QED BY <1>1, <1>3 DEF Dialling, Enter

(* The activation on top, a reconnect, goes on as another reconnect. *)
LEMMA Becomes ==
  ASSUME Fits(stack), stack # <<>>, Redials(Top), NEW f \in Frames, Become(f)
  PROVE  Fits(stack') /\ stack' # <<>> /\ Head(stack') = f /\ ret' = "run"
<1>1. Fits(Tail(stack)) /\ Tail(stack) # <<>> /\ Head(Tail(stack)).k = "step"
  BY PopFits DEF Top
<1>2. ~Redials(Head(Tail(stack)))
  BY <1>1 DEF Redials
<1>3. Fits(<<f>> \o Tail(stack)) /\ <<f>> \o Tail(stack) # <<>> /\ Head(<<f>> \o Tail(stack)) = f
  BY <1>1, <1>2, PushFits
<1>4. QED BY <1>3 DEF Become

-----------------------------------------------------------------------------
(* What a call, Close or nothing at all does to the connection. *)
Linking ==
  /\ conn' \in {"up", "lost", "closed"} /\ cuts' \in Nat /\ slow' \in 0..MaxSlow
  /\ slow <= slow'
  /\ conn' = "up" => conn = "up"

LEMMA Links ==
  ASSUME Typed, (\E f \in Fate : Meets(f)) \/ Close \/ UNCHANGED link
  PROVE  Linking
<1>1. slow \in Nat /\ MaxSlow \in Nat /\ cuts \in Nat
  BY BoundAssumption DEF Typed
<1>2. CASE UNCHANGED link
  BY <1>1, <1>2 DEF Typed, Linking, link
<1>3. CASE Close
  BY <1>1, <1>3 DEF Typed, Linking, Close
<1>4. ASSUME NEW f \in Fate, Meets(f) PROVE Linking
  BY <1>1, <1>4 DEF Typed, Linking, Meets, link
<1>5. QED BY <1>2, <1>3, <1>4

(* The history is what it may be. *)
Recording ==
  /\ ran' \in Seq({s.id : s \in {t \in Steps : t.op = "act"}})
  /\ unchecked' \in BOOLEAN

LEMMA Records ==
  ASSUME Typed, Linking, UNCHANGED hist
  PROVE  Recording
<1>1. slow \in Nat /\ slow' \in Nat /\ slow <= slow'
  BY BoundAssumption DEF Typed, Linking
<1>2. QED BY <1>1 DEF Typed, Recording, hist

(* The app and its mocks stay as they are, or there is no connection. *)
Keeping ==
  /\ UNCHANGED <<test, mocks>>
  /\ alive' \in BOOLEAN
  /\ agentMocks' = agentMocks \/ agentMocks' = NoMocks
  /\ conn' = "up" => UNCHANGED app

LEMMA NoMocksTyped == NoMocks \in [Pattern -> {"none"} \cup {s.ans : s \in MockSteps}]
  BY DEF NoMocks

LEMMA KeepsTyped ==
  ASSUME Typed, Linking, Recording, Keeping, ret' \in {"run", "ok", "conn", "fail", "gone"}
  PROVE  Typed'
<1>1. agentMocks' \in [Pattern -> {"none"} \cup {s.ans : s \in MockSteps}]
  BY NoMocksTyped DEF Typed, Keeping
<1>2. QED BY <1>1 DEF Typed, Linking, Recording, Keeping, test

LEMMA KeepsInForce ==
  ASSUME ExecInv, Linking, Keeping, ~Reapplying
  PROVE  InForce'
<1>1. SUFFICES ASSUME conn' = "up", slow' = 0, NEW p \in Pattern, NEW i \in 1..Len(mocks'), IsLast(i, p, mocks')
               PROVE  agentMocks'[p] = mocks'[i].ans
  BY DEF InForce
<1>2. conn = "up" /\ mocks' = mocks /\ agentMocks' = agentMocks
  BY <1>1 DEF Linking, Keeping, app
<1>3. slow = 0
  BY <1>1, BoundAssumption DEF ExecInv, Typed, Linking
<1>4. agentMocks[p] = mocks[i].ans
  BY <1>1, <1>2, <1>3 DEF ExecInv, InForce
<1>5. QED BY <1>2, <1>4

(* A step that neither dials nor registers a mock keeps the invariant. *)
LEMMA KeepsPlain ==
  ASSUME ExecInv, Plainly(stack', ret'), Linking, Recording, Keeping, ~Reapplying
  PROVE  ExecInv'
<1>1. Typed'
  BY KeepsTyped DEF ExecInv, Plainly
<1>2. InForce'
  BY KeepsInForce
<1>3. Fits(stack)' /\ Returned' /\ Suffix'
  BY DEF Plainly, Returned, Suffix, Reapplying, Redials, Top
<1>4. Linked'
  <2>1. conn' = "up" => alive'
    BY DEF ExecInv, Linked, Linking, Keeping, app
  <2>2. stack' # <<>> => Head(stack').k \notin {"dial", "relaunch"}
    BY DEF Plainly, Redials
  <2>3. QED BY <2>1, <2>2 DEF Linked, Top
<1>5. QED BY <1>1, <1>2, <1>3, <1>4 DEF ExecInv

(* ... nor does one that dials, if it has closed the connection. *)
LEMMA KeepsDialling ==
  ASSUME ExecInv, Dialling(stack', ret'), Linking, Recording, Keeping, ~Reapplying, conn' # "up"
  PROVE  ExecInv'
<1>1. Typed'
  BY KeepsTyped DEF ExecInv, Dialling
<1>2. InForce'
  BY KeepsInForce
<1>3. Fits(stack)' /\ Returned' /\ Suffix' /\ Linked'
  BY DEF Dialling, Returned, Suffix, Reapplying, Top, Linked
<1>4. QED BY <1>1, <1>2, <1>3 DEF ExecInv

-----------------------------------------------------------------------------
(* The steps of the executor, one by one. *)
LEMMA OnTop ==
  ASSUME ExecInv, stack # <<>>
  PROVE  Fits(stack) /\ Top \in Frames /\ Typed
  BY PopFits DEF ExecInv, Top

LEMMA StepOnTop ==
  ASSUME ExecInv, stack # <<>>, Top.k = "step"
  PROVE  /\ Fits(stack) /\ Typed
         /\ Top \in StepFrames /\ Top.s \in Steps /\ WellFormed(Top.s)
         /\ ~Redials(Top) /\ ~Reapplying
<1>1. Fits(stack) /\ Typed /\ Top \in StepFrames
  BY OnTop, FrameKinds
<1>2. Top.s \in Steps
  BY <1>1 DEF StepFrames
<1>3. QED BY <1>1, <1>2, StepsAssumption DEF Redials, Reapplying

(* A step that touches nothing but the stack and the result. *)
LEMMA Calm ==
  ASSUME ExecInv, Plainly(stack', ret'), ~Reapplying, UNCHANGED <<test, mocks, app, link, hist>>
  PROVE  ExecInv'
<1>1. Typed
  BY DEF ExecInv
<1>2. Linking
  BY <1>1, Links
<1>3. Recording
  BY <1>1, <1>2, Records
<1>4. Keeping
  BY <1>1 DEF Keeping, app, Typed
<1>5. QED BY <1>2, <1>3, <1>4, KeepsPlain

(* The connection is gone: the app may be started, stopped or left alone. *)
LEMMA Relaunches ==
  ASSUME ExecInv, conn' # "up", NEW how, RestartApp(how), UNCHANGED <<test, mocks>>
  PROVE  Keeping
<1>1. alive' \in BOOLEAN /\ (agentMocks' = agentMocks \/ agentMocks' = NoMocks)
  BY DEF ExecInv, Typed, RestartApp, app
<1>2. QED BY <1>1 DEF Keeping

LEMMA BodyIsFrame ==
  ASSUME NEW b \in Seq(Steps)
  PROVE  Body(b) \in Frames /\ Body(b).k = "body" /\ ~Redials(Body(b))
  BY DEF Body, Frames, BodyFrames, Redials

LEMMA StepIsFrame ==
  ASSUME NEW s \in Steps
  PROVE  Step(s) \in Frames /\ Step(s).k = "step" /\ ~Redials(Step(s))
<1>1. 0 \in 0..MaxAttempts
  BY PolicyAssumption
<1>2. QED BY <1>1 DEF Step, Frames, StepFrames, Redials

LEMMA TestHasBodies ==
  ASSUME Typed
  PROVE  Test.body \in Seq(Steps) /\ Test.after \in Seq(Steps)
  BY StepsAssumption DEF Typed, Test

LEMMA BeginKeeps ==
  ASSUME ExecInv, BeginAttempt
  PROVE  ExecInv'
<1>1. Typed
  BY DEF ExecInv
<1>2. Linking
  <2>1. \E f \in Fate : Meets(f)
    BY DEF BeginAttempt
  <2>2. QED BY <1>1, <2>1, Links
<1>3. Fits(stack') /\ stack' # <<>> /\ Head(stack').k = "body" /\ ret' = "run"
  <2>1. Body(Test.body) \in Frames /\ Body(Test.body).k = "body" /\ ~Redials(Body(Test.body))
    BY <1>1, TestHasBodies, BodyIsFrame
  <2>2. stack' = <<Body(Test.body)>> /\ ret' = "run"
    BY DEF BeginAttempt
  <2>3. <<Body(Test.body)>> \in Seq(Frames) /\ Len(<<Body(Test.body)>>) = 1
    BY <2>1
  <2>4. \A i \in 1..1 : <<Body(Test.body)>>[i] = Body(Test.body)
    OBVIOUS
  <2>5. QED BY <2>1, <2>2, <2>3, <2>4 DEF Fits
<1>4. Typed'
  <2>1. agentMocks' \in [Pattern -> {"none"} \cup {s.ans : s \in MockSteps}]
    BY <1>1, NoMocksTyped DEF BeginAttempt, Typed
  <2>2. mocks' \in Seq(MockSteps) /\ ran' \in Seq({s.id : s \in {t \in Steps : t.op = "act"}})
    BY EmptySeq DEF BeginAttempt
  <2>3. QED BY <1>1, <1>2, <1>3, <2>1, <2>2 DEF BeginAttempt, Typed, Linking
<1>5. Returned' /\ Linked' /\ Suffix'
  <2>1. Returned' /\ Suffix'
    BY <1>3 DEF Returned, Suffix, Reapplying, Top
  <2>2. Linked'
    BY <1>2, <1>3 DEF ExecInv, Linked, Linking, BeginAttempt, Top
  <2>3. QED BY <2>1, <2>2
<1>6. InForce'
  <2>1. mocks' = <<>> /\ Len(<<>>) = 0
    BY EmptySeq DEF BeginAttempt
  <2>2. 1..Len(mocks') = {}
    BY <2>1
  <2>3. QED BY <2>2 DEF InForce
<1>7. QED BY <1>3, <1>4, <1>5, <1>6 DEF ExecInv

(* EndBody and EndAttempt leave the app and its mocks alone. *)
LEMMA EndBodyKeeps ==
  ASSUME ExecInv, EndBody
  PROVE  ExecInv'
<1>1. Typed /\ Returned /\ stack = <<>> /\ phase = "body"
  BY DEF ExecInv, EndBody
<1>2. ret \in {"ok", "conn", "fail"}
  BY <1>1 DEF Returned
<1>3. Fits(stack') /\ stack' # <<>> /\ Head(stack').k = "body" /\ ret' = "run"
  <2>1. Body(Test.after) \in Frames /\ Body(Test.after).k = "body" /\ ~Redials(Body(Test.after))
    BY <1>1, TestHasBodies, BodyIsFrame
  <2>2. stack' = <<Body(Test.after)>> /\ ret' = "run"
    BY DEF EndBody
  <2>3. <<Body(Test.after)>> \in Seq(Frames) /\ Len(<<Body(Test.after)>>) = 1
    BY <2>1
  <2>4. \A i \in 1..1 : <<Body(Test.after)>>[i] = Body(Test.after)
    OBVIOUS
  <2>5. QED BY <2>1, <2>2, <2>3, <2>4 DEF Fits
<1>4. Typed'
  BY <1>1, <1>2, <1>3 DEF EndBody, Typed, app, link, hist
<1>5. Returned' /\ Suffix' /\ Linked'
  BY <1>3 DEF ExecInv, Returned, Suffix, Reapplying, Linked, Top, EndBody, app, link, hist
<1>6. InForce'
  BY <1>1 DEF ExecInv, InForce, Reapplying, EndBody, app, link
<1>7. QED BY <1>3, <1>4, <1>5, <1>6 DEF ExecInv

LEMMA EndAttemptKeeps ==
  ASSUME ExecInv, EndAttempt
  PROVE  ExecInv'
<1>1. Typed /\ stack = <<>> /\ stack' = <<>> /\ ret' = "run" /\ phase' # "body"
  BY DEF ExecInv, EndAttempt
<1>2. cur' \in 1..Len(plan') /\ attempt' \in 1..(Retries + 1) /\ phase' \in {"begin", "body", "after", "done"}
  <2>1. Len(plan) \in Nat /\ Retries \in Nat /\ plan' = plan
    BY <1>1, StepsAssumption, PolicyAssumption DEF Typed, EndAttempt
  <2>2. QED BY <1>1, <2>1 DEF Typed, EndAttempt
<1>3. Typed'
  BY <1>1, <1>2 DEF EndAttempt, Typed, app, link, hist
<1>4. Fits(stack)' /\ Returned' /\ Suffix' /\ Linked' /\ InForce'
  BY <1>1 DEF ExecInv, Fits, Returned, Suffix, Reapplying, Linked, InForce, Top, EndAttempt, app, link, hist
<1>5. QED BY <1>3, <1>4 DEF ExecInv

LEMMA RunBodyKeeps ==
  ASSUME ExecInv, RunBody
  PROVE  ExecInv'
<1>1. stack # <<>> /\ Top.k = "body" /\ Fits(stack) /\ Typed /\ Top \in BodyFrames
  BY OnTop, FrameKinds DEF RunBody
<1>2. ~Redials(Top) /\ ~Reapplying /\ Top.rest \in Seq(Steps)
  BY <1>1 DEF Redials, Reapplying, BodyFrames
<1>3. UNCHANGED <<test, mocks, app, link, hist>>
  BY DEF RunBody
<1>4. ASSUME IsError(ret), Return(ret) PROVE Plainly(stack', ret')
  BY <1>1, <1>4, Returns DEF IsError
<1>5. ASSUME Return("ok") PROVE Plainly(stack', ret')
  BY <1>1, <1>5, Returns
<1>6. ASSUME Top.rest # <<>>, stack' = <<Step(Head(Top.rest)), Body(Tail(Top.rest))>> \o Tail(stack), ret' = "run"
      PROVE  Plainly(stack', ret')
  <2>1. Head(Top.rest) \in Steps /\ Tail(Top.rest) \in Seq(Steps)
    BY <1>2, <1>6, HeadTailProperties
  <2>2. Step(Head(Top.rest)) \in Frames /\ ~Redials(Step(Head(Top.rest)))
    BY <2>1, StepIsFrame
  <2>3. Body(Tail(Top.rest)) \in Frames /\ ~Redials(Body(Tail(Top.rest))) /\ Body(Tail(Top.rest)).k = "body"
    BY <2>1, BodyIsFrame
  <2>4. QED BY <1>1, <1>2, <1>6, <2>2, <2>3, Iterates
<1>7. Plainly(stack', ret')
  BY <1>4, <1>5, <1>6 DEF RunBody
<1>8. QED BY <1>2, <1>3, <1>7, Calm

LEMMA RunActKeeps ==
  ASSUME ExecInv, RunAct
  PROVE  ExecInv'
<1>1. stack # <<>> /\ Top.k = "step" /\ Top.s.op = "act"
  BY DEF RunAct, Dispatching
<1>2. Fits(stack) /\ Typed /\ Top.s \in Steps /\ ~Reapplying
  BY <1>1, StepOnTop
<1>3. PICK f \in Fate :
        /\ Meets(f)
        /\ \/ /\ ran' = IF Done(f) THEN Append(ran, Top.s.id) ELSE ran
              /\ Answer(ErrorOf(f))
           \/ f = "answered" /\ Answer("fail") /\ UNCHANGED ran
  BY DEF RunAct
<1>4. Linking
  BY <1>2, <1>3, Links
<1>5. ErrorOf(f) \in {"ok", "conn", "fail"}
  BY DEF ErrorOf, Fate
<1>6. Plainly(stack', ret')
  BY <1>1, <1>2, <1>3, <1>5, Answers
<1>7. Recording
  <2>1. ran \in Seq(Ids) /\ Top.s.id \in Ids
    BY <1>1, <1>2 DEF Typed, Ids
  <2>2. ran' \in Seq(Ids)
    <3>1. CASE ran' = ran
      BY <2>1, <3>1
    <3>2. CASE ran' = Append(ran, Top.s.id)
      BY <2>1, <3>2
    <3>3. QED BY <1>3, <3>1, <3>2
  <2>3. unchecked' = unchecked /\ slow \in Nat /\ slow' \in Nat /\ slow <= slow'
    BY <1>2, <1>4, BoundAssumption DEF RunAct, Typed, Linking
  <2>4. QED BY <1>2, <2>2, <2>3 DEF ExecInv, Typed, Recording, Ids
<1>8. Keeping
  BY <1>2 DEF Keeping, RunAct, app, Typed
<1>9. QED BY <1>2, <1>4, <1>6, <1>7, <1>8, KeepsPlain

LEMMA RunConditionalKeeps ==
  ASSUME ExecInv, RunConditional
  PROVE  ExecInv'
<1>1. stack # <<>> /\ Top.k = "step" /\ Top.s.op = "if"
  BY DEF RunConditional, Dispatching
<1>2. Fits(stack) /\ Typed /\ Top.s \in Steps /\ ~Reapplying /\ ~Redials(Top) /\ WellFormed(Top.s)
  BY <1>1, StepOnTop
<1>3. PICK f \in Fate :
        /\ Meets(f)
        /\ \/ Propagates(Top.s, f) /\ Answer(ErrorOf(f)) /\ UNCHANGED unchecked
           \/ f = "answered" /\ Enter(Body(Top.s.then)) /\ UNCHANGED unchecked
           \/ /\ ~Propagates(Top.s, f) /\ Enter(Body(Top.s.else))
              /\ unchecked' = (unchecked \/ f # "answered")
  BY DEF RunConditional
<1>4. Linking
  BY <1>2, <1>3, Links
<1>5. Plainly(stack', ret')
  <2>1. Body(Top.s.then) \in Frames /\ ~Redials(Body(Top.s.then))
        /\ Body(Top.s.else) \in Frames /\ ~Redials(Body(Top.s.else))
    BY <1>1, <1>2, BodyIsFrame DEF WellFormed
  <2>2. ErrorOf(f) \in {"run", "ok", "conn", "fail"}
    BY DEF ErrorOf, Fate
  <2>3. Answer(ErrorOf(f)) => Plainly(stack', ret')
    BY <1>1, <1>2, <2>2, Answers
  <2>4. Enter(Body(Top.s.then)) => Plainly(stack', ret')
    BY <1>1, <1>2, <2>1, Enters
  <2>5. Enter(Body(Top.s.else)) => Plainly(stack', ret')
    BY <1>1, <1>2, <2>1, Enters
  <2>6. QED BY <1>3, <2>3, <2>4, <2>5
<1>6. Recording
  <2>1. unchecked \in BOOLEAN
    BY <1>2 DEF Typed
  <2>2. ran' = ran /\ ran \in Seq({s.id : s \in {t \in Steps : t.op = "act"}})
    BY <1>2 DEF RunConditional, Typed
  <2>3. unchecked' \in BOOLEAN
    <3>1. CASE unchecked' = unchecked
      BY <2>1, <3>1
    <3>2. CASE unchecked' = (unchecked \/ f # "answered")
      BY <2>1, <3>2
    <3>3. QED BY <1>3, <3>1, <3>2
  <2>4. QED BY <2>2, <2>3 DEF Recording
<1>7. Keeping
  BY <1>2 DEF Keeping, RunConditional, app, Typed
<1>8. QED BY <1>2, <1>4, <1>5, <1>6, <1>7, KeepsPlain

LEMMA RunRecipeCallKeeps ==
  ASSUME ExecInv, RunRecipeCall
  PROVE  ExecInv'
<1>1. stack # <<>> /\ Top.k = "step" /\ Top.s.op = "call"
  BY DEF RunRecipeCall, Dispatching
<1>2. Fits(stack) /\ ~Reapplying /\ ~Redials(Top) /\ WellFormed(Top.s)
  BY <1>1, StepOnTop
<1>3. Body(Top.s.body) \in Frames /\ ~Redials(Body(Top.s.body))
  BY <1>1, <1>2, BodyIsFrame DEF WellFormed
<1>4. Plainly(stack', ret')
  BY <1>1, <1>2, <1>3, Enters DEF RunRecipeCall
<1>5. QED BY <1>2, <1>4, Calm DEF RunRecipeCall

LEMMA RunBlockKeeps ==
  ASSUME ExecInv, RunBlock
  PROVE  ExecInv'
<1>1. stack # <<>> /\ Top.k = "step" /\ Top.s.op \in {"loop", "retry"}
  BY DEF RunBlock, Dispatching
<1>2. Fits(stack) /\ ~Reapplying /\ ~Redials(Top) /\ WellFormed(Top.s) /\ Top.s \in Steps
  BY <1>1, StepOnTop
<1> DEFINE b == [k |-> Top.s.op, s |-> Top.s, left |-> Count(Top.s)]
<1>3. b \in Frames /\ ~Redials(b)
  <2>1. Count(Top.s) \in Int
    BY <1>1, <1>2 DEF WellFormed, Count
  <2>2. QED BY <1>1, <1>2, <2>1 DEF Frames, BlockFrames, Redials
<1>4. Plainly(stack', ret')
  <2>1. Enter(b)
    BY DEF RunBlock
  <2> HIDE DEF b
  <2>2. QED BY <1>1, <1>2, <1>3, <2>1, Enters
<1>5. QED BY <1>2, <1>4, Calm DEF RunBlock

(* One more iteration of a loop or retry. *)
LEMMA IterateFits ==
  ASSUME ExecInv, stack # <<>>, Top.k \in {"loop", "retry"}, Iterate
  PROVE  Plainly(stack', ret')
<1>1. Fits(stack) /\ Top \in BlockFrames
  BY OnTop, FrameKinds
<1>2. Top.s \in Steps /\ Top.s.op = Top.k /\ Top.left \in Int /\ Top.left <= Count(Top.s)
      /\ Top \in [k : {"loop", "retry"}, s : Steps, left : Int]
  BY <1>1 DEF BlockFrames
<1> DEFINE g == [Top EXCEPT !.left = @ - 1]
<1>3. g \in Frames /\ g.k = Top.k /\ ~Redials(g)
  <2>1. WellFormed(Top.s)
    BY <1>2, StepsAssumption
  <2>2. Count(Top.s) \in Int
    BY <1>2, <2>1 DEF WellFormed, Count
  <2>3. g \in [k : {"loop", "retry"}, s : Steps, left : Int] /\ g.k = Top.k /\ g.s = Top.s /\ g.left = Top.left - 1
    BY <1>2
  <2>4. g \in BlockFrames
    <3> HIDE DEF g
    <3>1. QED BY <1>2, <2>2, <2>3 DEF BlockFrames
  <2>5. QED BY <2>3, <2>4 DEF Frames, Redials
<1>4. Body(Top.s.body) \in Frames /\ ~Redials(Body(Top.s.body))
  BY <1>2, StepsAssumption, BodyIsFrame DEF WellFormed
<1>5. stack' = <<Body(Top.s.body), g>> \o Tail(stack) /\ ret' = "run"
  BY DEF Iterate
<1>6. ~Redials(Top) /\ Top.k # "body"
  BY DEF Redials
<1> HIDE DEF g
<1>7. QED BY <1>1, <1>3, <1>4, <1>5, <1>6, Iterates

LEMMA LoopKeeps ==
  ASSUME ExecInv, Loop
  PROVE  ExecInv'
<1>1. stack # <<>> /\ Top.k = "loop" /\ Fits(stack)
  BY OnTop DEF Loop
<1>2. ~Reapplying /\ ~Redials(Top)
  BY <1>1 DEF Reapplying, Redials
<1>3. IsError(ret) /\ Return(ret) => Plainly(stack', ret')
  BY <1>1, Returns DEF IsError
<1>4. Return("ok") => Plainly(stack', ret')
  BY <1>1, Returns
<1>5. Iterate => Plainly(stack', ret')
  BY <1>1, IterateFits
<1>6. QED BY <1>2, <1>3, <1>4, <1>5, Calm DEF Loop

LEMMA RetryKeeps ==
  ASSUME ExecInv, Retry
  PROVE  ExecInv'
<1>1. stack # <<>> /\ Top.k = "retry" /\ Fits(stack) /\ Typed
  BY OnTop DEF Retry
<1>2. ~Reapplying /\ ~Redials(Top)
  BY <1>1 DEF Reapplying, Redials
<1>3. ret \in {"run", "ok", "conn", "fail"}
  BY <1>1 DEF ExecInv, Typed, Returned
<1>4. Return(ret) => Plainly(stack', ret')
  BY <1>1, <1>3, Returns
<1>5. Return("ok") => Plainly(stack', ret')
  BY <1>1, Returns
<1>6. Iterate => Plainly(stack', ret')
  BY <1>1, IterateFits
<1>7. QED BY <1>2, <1>4, <1>5, <1>6, Calm DEF Retry

(* A mock is remembered when the agent has it, and then it is in force. *)
LEMMA RunMockKeeps ==
  ASSUME ExecInv, RunMock
  PROVE  ExecInv'
<1>1. stack # <<>> /\ Top.k = "step" /\ Top.s.op = "mock"
  BY DEF RunMock, Dispatching
<1>2. Fits(stack) /\ Typed /\ Top.s \in MockSteps /\ Top.s.pat \in Pattern /\ ~Reapplying
  BY <1>1, StepOnTop DEF WellFormed, MockSteps
<1>3. PICK f \in Fate :
        /\ Meets(f)
        /\ Register(f, Top.s)
        /\ mocks' = IF f = "answered" THEN Append(mocks, Top.s) ELSE mocks
        /\ Answer(ErrorOf(f))
  BY DEF RunMock
<1>4. Linking
  BY <1>2, <1>3, Links
<1>5. Plainly(stack', ret')
  <2>1. ErrorOf(f) \in {"run", "ok", "conn", "fail"}
    BY DEF ErrorOf, Fate
  <2>2. QED BY <1>1, <1>2, <1>3, <2>1, Answers
<1>6. UNCHANGED <<test, alive, hist>>
  BY DEF RunMock
<1>7. Recording
  BY <1>2, <1>4, <1>6, Records DEF ExecInv
<1>8. mocks' \in Seq(MockSteps)
  BY <1>2, <1>3, SMTT(20) DEF Typed
<1>9. agentMocks' \in [Pattern -> {"none"} \cup {s.ans : s \in MockSteps}]
  BY <1>2, <1>3, SMTT(20) DEF Register, AddMock, Typed
<1>10. Typed'
  BY <1>2, <1>4, <1>5, <1>6, <1>7, <1>8, <1>9 DEF Typed, Linking, Recording, Plainly, test
<1>11. Returned' /\ Suffix' /\ Linked'
  BY <1>4, <1>5, <1>6 DEF ExecInv, Plainly, Returned, Suffix, Reapplying, Redials, Linked, Linking, Top
<1>12. InForce'
  <2>1. SUFFICES ASSUME conn' = "up", slow' = 0, NEW p \in Pattern, NEW i \in 1..Len(mocks'), IsLast(i, p, mocks')
                 PROVE  agentMocks'[p] = mocks'[i].ans
    BY DEF InForce
  <2>2. slow \in Nat /\ slow = 0 /\ conn = "up"
    BY <1>2, <1>4, <2>1, BoundAssumption DEF Typed, Linking
  <2>3. f = "answered"
    BY <1>3, <2>1, <2>2 DEF Fate, Meets
  <2>4. mocks' = Append(mocks, Top.s) /\ agentMocks' = [agentMocks EXCEPT ![Top.s.pat] = Top.s.ans]
    BY <1>3, <2>3 DEF Register, Done, AddMock
  <2>5. Len(mocks) \in Nat /\ Len(mocks') = Len(mocks) + 1 /\ mocks'[Len(mocks) + 1] = Top.s
        /\ \A j \in 1..Len(mocks) : mocks'[j] = mocks[j]
    BY <1>2, <2>4 DEF Typed
  <2>6. CASE i = Len(mocks) + 1
    <3>1. mocks'[i] = Top.s /\ Top.s.pat = p
      BY <2>1, <2>5, <2>6 DEF IsLast
    <3>2. QED BY <1>2, <2>4, <3>1 DEF Typed
  <2>7. CASE i # Len(mocks) + 1
    <3>1. i \in 1..Len(mocks) /\ i < Len(mocks) + 1 /\ Len(mocks) + 1 \in 1..Len(mocks')
      BY <2>5, <2>7
    <3>2. Top.s.pat # p
      BY <2>1, <2>5, <3>1 DEF IsLast
    <3>3. IsLast(i, p, mocks)
      <4>1. mocks[i].pat = p
        BY <2>1, <2>5, <3>1 DEF IsLast
      <4>2. ASSUME NEW j \in 1..Len(mocks), mocks[j].pat = p PROVE j <= i
        <5>1. j \in 1..Len(mocks') /\ mocks'[j] = mocks[j]
          BY <2>5
        <5>2. QED BY <2>1, <4>2, <5>1 DEF IsLast
      <4>3. QED BY <4>1, <4>2 DEF IsLast
    <3>4. agentMocks[p] = mocks[i].ans
      BY <1>2, <2>2, <3>1, <3>3 DEF ExecInv, InForce
    <3>5. agentMocks'[p] = agentMocks[p] /\ mocks'[i] = mocks[i]
      BY <1>2, <2>4, <2>5, <3>1, <3>2 DEF Typed
    <3>6. QED BY <3>4, <3>5
  <2>8. QED BY <2>6, <2>7
<1>13. QED BY <1>5, <1>10, <1>11, <1>12 DEF ExecInv, Plainly

(* The lifecycle steps close the connection before anything else. *)
LEMMA LifecycleKeeps ==
  ASSUME ExecInv, stack # <<>>, Top.k = "step", conn' # "up", UNCHANGED <<test, mocks, hist>>,
         Linking, Keeping,
         NEW w \in Handlers, NEW e \in {"ok", "fail"}, Enter(Redial(w)) \/ Answer(e)
  PROVE  ExecInv'
<1>1. Fits(stack) /\ Typed /\ ~Reapplying
  BY StepOnTop DEF ExecInv
<1>2. Recording
  BY <1>1, Records
<1>3. CASE Enter(Redial(w))
  <2>1. Dialling(stack', ret')
    BY <1>1, <1>3, Dials
  <2>2. QED BY <1>1, <1>2, <2>1, KeepsDialling
<1>4. CASE Answer(e)
  <2>1. Plainly(stack', ret')
    BY <1>1, <1>4, Answers
  <2>2. QED BY <1>1, <1>2, <2>1, KeepsPlain
<1>5. QED BY <1>3, <1>4

LEMMA RunRestartKeeps ==
  ASSUME ExecInv, RunRestart
  PROVE  ExecInv'
<1>1. stack # <<>> /\ Top.k = "step" /\ Close /\ UNCHANGED <<test, mocks, hist>> /\ conn' # "up"
  BY DEF RunRestart, Dispatching, Close
<1>2. PICK how : RestartApp(how) /\ (Enter(Redial("restart")) \/ Answer("fail"))
  BY DEF RunRestart
<1>3. Linking /\ Keeping
  BY <1>1, <1>2, Links, Relaunches DEF ExecInv
<1>4. "restart" \in Handlers /\ "fail" \in {"ok", "fail"}
  BY DEF Handlers
<1>5. QED BY <1>1, <1>2, <1>3, <1>4, LifecycleKeeps

LEMMA RunPermitKeeps ==
  ASSUME ExecInv, RunPermit
  PROVE  ExecInv'
<1>1. stack # <<>> /\ Top.k = "step" /\ UNCHANGED <<test, mocks, hist>>
  BY DEF RunPermit, Dispatching
<1>2. ASSUME NEW e \in {"ok", "fail"}, Answer(e), UNCHANGED <<link, app>> PROVE ExecInv'
  <2>1. Plainly(stack', ret') /\ ~Reapplying
    BY <1>1, <1>2, StepOnTop, Answers
  <2>2. QED BY <1>1, <1>2, <2>1, Calm
<1>3. ASSUME Close, NEW how, RestartApp(how), Enter(Redial("permit")) \/ Answer("fail") PROVE ExecInv'
  <2>1. conn' # "up" /\ "permit" \in Handlers /\ "fail" \in {"ok", "fail"}
    BY <1>3 DEF Close, Handlers
  <2>2. Linking /\ Keeping
    BY <1>1, <1>3, <2>1, Links, Relaunches DEF ExecInv
  <2>3. QED BY <1>1, <1>3, <2>1, <2>2, LifecycleKeeps
<1>4. QED BY <1>2, <1>3 DEF RunPermit

LEMMA RunClearKeeps ==
  ASSUME ExecInv, RunClear
  PROVE  ExecInv'
<1>1. stack # <<>> /\ Top.k = "step" /\ Close /\ UNCHANGED <<test, mocks, hist>> /\ conn' # "up"
  BY DEF RunClear, Dispatching, Close
<1>2. PICK how : RestartApp(how) /\ (Enter(Redial("clear")) \/ Answer("fail"))
  <2>1. UNCHANGED app => RestartApp("as it was")
    BY DEF RestartApp
  <2>2. QED BY <2>1 DEF RunClear
<1>3. Linking /\ Keeping
  BY <1>1, <1>2, Links, Relaunches DEF ExecInv
<1>4. "clear" \in Handlers /\ "fail" \in {"ok", "fail"}
  BY DEF Handlers
<1>5. QED BY <1>1, <1>2, <1>3, <1>4, LifecycleKeeps

LEMMA RunKillKeeps ==
  ASSUME ExecInv, RunKill
  PROVE  ExecInv'
<1>1. stack # <<>> /\ Top.k = "step" /\ Close /\ UNCHANGED <<test, mocks, agentMocks, hist>> /\ conn' # "up"
  BY DEF RunKill, Dispatching, Close
<1>2. Linking
  BY <1>1, Links DEF ExecInv
<1>3. Keeping
  BY <1>1 DEF ExecInv, Typed, RunKill, Keeping
<1>4. PICK e \in {"ok", "fail"} : Answer(e)
  BY DEF RunKill
<1>5. "clear" \in Handlers
  BY DEF Handlers
<1>6. QED BY <1>1, <1>2, <1>3, <1>4, <1>5, LifecycleKeeps

LEMMA RunOpenKeeps ==
  ASSUME ExecInv, RunOpen
  PROVE  ExecInv'
<1>1. stack # <<>> /\ Top.k = "step" /\ UNCHANGED <<test, mocks, hist>>
  BY DEF RunOpen, Dispatching
<1>2. Fits(stack) /\ Typed /\ ~Reapplying
  BY <1>1, StepOnTop DEF ExecInv
<1>3. PICK f \in Fate :
        /\ Meets(f)
        /\ \/ ErrorOf(f) # "conn" /\ Answer(ErrorOf(f)) /\ UNCHANGED app
           \/ /\ ErrorOf(f) = "conn"
              /\ \E how \in {"as it was", "stopped", "new"} :
                   /\ RestartApp(how)
                   /\ IF how = "new" THEN Enter(Redial("open")) ELSE Answer("fail")
  BY DEF RunOpen
<1>4. Linking
  BY <1>2, <1>3, Links
<1>5. ASSUME ErrorOf(f) # "conn", Answer(ErrorOf(f)), UNCHANGED app PROVE ExecInv'
  <2>1. ErrorOf(f) \in {"run", "ok", "conn", "fail"}
    BY DEF ErrorOf, Fate
  <2>2. Plainly(stack', ret')
    BY <1>1, <1>2, <1>5, <2>1, Answers
  <2>3. Recording
    BY <1>1, <1>2, <1>4, Records
  <2>4. Keeping
    BY <1>1, <1>2, <1>5 DEF Keeping, app, Typed
  <2>5. QED BY <1>2, <1>4, <2>2, <2>3, <2>4, KeepsPlain
<1>6. ASSUME ErrorOf(f) = "conn", NEW how, RestartApp(how), Enter(Redial("open")) \/ Answer("fail") PROVE ExecInv'
  <2>1. f \in {"lost", "dead"}
    BY <1>6 DEF ErrorOf, Fate
  <2>2. conn' # "up"
    BY <1>3, <2>1 DEF Meets, link
  <2>3. Keeping /\ "open" \in Handlers /\ "fail" \in {"ok", "fail"}
    BY <1>1, <1>6, <2>2, Relaunches DEF Handlers
  <2>4. QED BY <1>1, <1>4, <1>6, <2>2, <2>3, LifecycleKeeps
<1>7. QED BY <1>3, <1>5, <1>6

-----------------------------------------------------------------------------
(* Reconnecting. *)
LEMMA RedialOnTop ==
  ASSUME ExecInv, stack # <<>>, Top.k \in {"dial", "relaunch"}
  PROVE  /\ Fits(stack) /\ Typed /\ Redials(Top) /\ ~Reapplying /\ conn # "up"
         /\ Top.what \in Handlers /\ Top \in [k : {"dial", "relaunch"}, what : Handlers, again : BOOLEAN]
<1>1. Fits(stack) /\ Typed /\ Top \in DialFrames
  BY OnTop, FrameKinds
<1>2. QED BY <1>1 DEF ExecInv, Linked, Redials, Reapplying, DialFrames

LEMMA ReconnectKeeps ==
  ASSUME ExecInv, Reconnect
  PROVE  ExecInv'
<1>1. stack # <<>> /\ Top.k = "dial" /\ UNCHANGED <<test, mocks, hist>>
  BY DEF Reconnect
<1>2. /\ Fits(stack) /\ Typed /\ Redials(Top) /\ ~Reapplying /\ conn # "up"
      /\ Top.what \in Handlers /\ Top \in [k : {"dial", "relaunch"}, what : Handlers, again : BOOLEAN]
  BY <1>1, RedialOnTop
<1>3. CASE Reconnected
  <2> DEFINE f == [k |-> "remock", what |-> Top.what, todo |-> mocks]
  <2>1. f \in Frames /\ f.k = "remock" /\ f.todo = mocks
    BY <1>2 DEF Frames, MockFrames, Typed
  <2>2. Become(f)
    BY <1>3 DEF Reconnected, MocksToReapply
  <2>3. Fits(stack') /\ stack' # <<>> /\ Head(stack') = f /\ ret' = "run"
    <3> HIDE DEF f
    <3>1. QED BY <1>1, <1>2, <2>1, <2>2, Becomes
  <2>4. conn' = "up" /\ alive /\ UNCHANGED <<app, cuts, slow>>
    BY <1>3 DEF Reconnected
  <2>5. Typed'
    BY <1>1, <1>2, <2>3, <2>4 DEF Typed, test, hist, app
  <2>6. Top'.k = "remock" /\ Top'.todo = mocks' /\ mocks' = mocks
    BY <1>1, <2>1, <2>3 DEF Top
  <2>7. Len(mocks) \in Nat /\ Len(mocks) - Len(mocks) = 0 /\ \A i \in 1..Len(mocks) : 0 + i = i /\ i > 0
    BY <1>2 DEF Typed
  <2>8. Suffix' /\ InForce'
    <3>1. Reapplying' /\ Reapplied' = 0
      BY <2>3, <2>6, <2>7 DEF Reapplying, Reapplied
    <3>2. Suffix'
      BY <2>6, <2>7, <3>1 DEF Suffix
    <3>3. InForce'
      BY <2>6, <2>7, <3>1 DEF InForce
    <3>4. QED BY <3>2, <3>3
  <2>9. Returned' /\ Linked'
    BY <2>3, <2>4, <2>6 DEF Returned, Linked, app
  <2>10. QED BY <2>3, <2>5, <2>8, <2>9 DEF ExecInv
<1>4. CASE NotReconnected
  <2>1. PICK e \in {"gone", "conn", "fail"} : Return(e)
    BY <1>4 DEF NotReconnected
  <2>2. Plainly(stack', ret')
    BY <1>1, <1>2, <2>1, Returns
  <2>3. QED BY <1>1, <1>2, <1>4, <2>2, Calm DEF NotReconnected
<1>5. CASE Refused
  <2> DEFINE f == [Top EXCEPT !.k = "relaunch"]
  <2>1. f \in Frames /\ f.k = "relaunch"
    BY <1>2 DEF Frames, DialFrames
  <2>2. Become(f) /\ UNCHANGED <<app, link>>
    BY <1>5 DEF Refused
  <2>3. Dialling(stack', ret')
    <3> HIDE DEF f
    <3>1. QED BY <1>1, <1>2, <2>1, <2>2, Becomes DEF Dialling
  <2>4. Linking /\ Recording
    BY <1>1, <1>2, <2>2, Links, Records
  <2>5. Keeping /\ conn' # "up"
    BY <1>1, <1>2, <2>2 DEF Keeping, app, link, Typed
  <2>6. QED BY <1>2, <2>3, <2>4, <2>5, KeepsDialling
<1>6. QED BY <1>3, <1>4, <1>5 DEF Reconnect

LEMMA RelaunchKeeps ==
  ASSUME ExecInv, Relaunch
  PROVE  ExecInv'
<1>1. stack # <<>> /\ Top.k = "relaunch" /\ UNCHANGED <<test, mocks, link, hist>>
  BY DEF Relaunch
<1>2. /\ Fits(stack) /\ Typed /\ Redials(Top) /\ ~Reapplying /\ conn # "up"
      /\ Top.what \in Handlers /\ Top \in [k : {"dial", "relaunch"}, what : Handlers, again : BOOLEAN]
  BY <1>1, RedialOnTop
<1>3. PICK how : RestartApp(how) /\ (Become(OnceOnly(Top)) \/ Return("gone"))
  BY DEF Relaunch
<1>4. conn' # "up"
  BY <1>1, <1>2 DEF link
<1>5. Linking /\ Recording /\ Keeping
  BY <1>1, <1>2, <1>3, <1>4, Links, Records, Relaunches
<1>6. CASE Become(OnceOnly(Top))
  <2>1. OnceOnly(Top) \in Frames /\ OnceOnly(Top).k = "dial"
    BY <1>2 DEF OnceOnly, Frames, DialFrames
  <2>2. Dialling(stack', ret')
    BY <1>1, <1>2, <1>6, <2>1, Becomes DEF Dialling
  <2>3. QED BY <1>2, <1>4, <1>5, <2>2, KeepsDialling
<1>7. CASE Return("gone")
  <2>1. Plainly(stack', ret')
    BY <1>1, <1>2, <1>7, Returns
  <2>2. QED BY <1>2, <1>5, <2>1, KeepsPlain
<1>8. QED BY <1>3, <1>6, <1>7

(* A mock is registered again: what is not yet reapplied is still the rest. *)
LEMMA ReapplyOneKeeps ==
  ASSUME ExecInv, stack # <<>>, Top.k = "remock", Top.todo # <<>>, NEW f \in Fate, Meets(f),
         Register(f, Head(Top.todo)), Become([Top EXCEPT !.todo = Tail(@)]),
         UNCHANGED <<test, mocks, alive, hist>>
  PROVE  ExecInv'
<1>1. Fits(stack) /\ Typed /\ Top \in MockFrames /\ Redials(Top) /\ Reapplying
  BY OnTop, FrameKinds DEF ExecInv, Redials, Reapplying
<1> DEFINE todo == Top.todo
           m    == Head(todo)
           g    == [Top EXCEPT !.todo = Tail(@)]
           d    == Len(mocks) - Len(todo)
<1>2. todo \in Seq(MockSteps) /\ m \in MockSteps /\ m = todo[1] /\ Tail(todo) \in Seq(MockSteps)
      /\ Len(todo) \in Nat /\ Len(todo) > 0 /\ Len(Tail(todo)) = Len(todo) - 1
      /\ \A i \in 1..Len(Tail(todo)) : Tail(todo)[i] = todo[i + 1]
  BY <1>1, HeadTailProperties DEF MockFrames
<1>3. m.pat \in Pattern
  BY <1>2, StepsAssumption DEF MockSteps, WellFormed
<1>4. g \in Frames /\ g.k = "remock" /\ g.todo = Tail(todo)
  BY <1>1, <1>2 DEF Frames, MockFrames
<1>5. Fits(stack') /\ stack' # <<>> /\ Head(stack') = g /\ ret' = "run"
  <2> HIDE DEF g
  <2>1. Become(g)
    BY DEF g
  <2>2. QED BY <1>1, <1>4, <2>1, Becomes
<1>6. Linking /\ Recording
  BY <1>1, Links, Records
<1>7. Typed'
  <2>1. agentMocks' \in [Pattern -> {"none"} \cup {s.ans : s \in MockSteps}]
    BY <1>1, <1>2, <1>3 DEF Register, AddMock, Typed
  <2>2. QED BY <1>1, <1>5, <1>6, <2>1 DEF Typed, Linking, Recording, test
<1>8. Top'.todo = Tail(todo) /\ Top'.k = "remock" /\ Reapplying' /\ mocks' = mocks
  BY <1>4, <1>5 DEF Top, Reapplying
<1>9. /\ Len(mocks) \in Nat /\ Len(todo) <= Len(mocks) /\ d \in Nat
      /\ \A i \in 1..Len(todo) : todo[i] = mocks[d + i]
      /\ Reapplied' = d + 1 /\ d + 1 \in 1..Len(mocks)
  <2>1. Len(mocks) \in Nat
    BY <1>1 DEF Typed
  <2>2. Len(todo) <= Len(mocks) /\ \A i \in 1..Len(todo) : todo[i] = mocks[d + i]
    BY <1>1 DEF ExecInv, Suffix, Reapplied
  <2>3. Reapplied' = Len(mocks) - (Len(todo) - 1)
    BY <1>2, <1>8 DEF Reapplied
  <2>4. QED BY <1>2, <2>1, <2>2, <2>3
<1> HIDE DEF todo, m, d
<1>10. Suffix'
  <2>1. Len(Tail(todo)) <= Len(mocks)
    BY <1>2, <1>9
  <2>2. ASSUME NEW i \in 1..Len(Tail(todo)) PROVE Tail(todo)[i] = mocks[(d + 1) + i]
    <3>1. i + 1 \in 1..Len(todo) /\ d + (i + 1) = (d + 1) + i
      <4>1. Len(todo) \in Nat /\ Len(Tail(todo)) = Len(todo) - 1 /\ d \in Nat
        BY <1>2, <1>9
      <4>2. QED BY <2>2, <4>1
    <3>2. QED BY <1>2, <1>9, <3>1
  <2>3. QED BY <1>8, <1>9, <2>1, <2>2 DEF Suffix
<1>11. Returned' /\ Linked'
  <2>1. conn' = "up" => alive'
    BY <1>6 DEF ExecInv, Linked, Linking
  <2>2. QED BY <1>5, <1>8, <2>1 DEF Returned, Linked
<1>12. InForce'
  <2>1. SUFFICES ASSUME conn' = "up", slow' = 0, NEW p \in Pattern, NEW i \in 1..Len(mocks), IsLast(i, p, mocks)
                 PROVE  agentMocks'[p] = mocks[i].ans \/ i > d + 1
    BY <1>8, <1>9 DEF InForce
  <2>2. slow = 0 /\ conn = "up" /\ slow \in Nat
    BY <1>1, <1>6, <2>1, BoundAssumption DEF Typed, Linking
  <2>3. f = "answered"
    BY <2>1, <2>2 DEF Fate, Meets
  <2>4. agentMocks' = [agentMocks EXCEPT ![m.pat] = m.ans]
    BY <2>3 DEF Register, Done, AddMock, m, todo
  <2>5. m = mocks[d + 1] /\ d + 1 \in 1..Len(mocks)
    <3>1. 1 \in 1..Len(todo)
      BY <1>2
    <3>2. todo[1] = mocks[d + 1]
      BY <1>9, <3>1
    <3>3. QED BY <1>2, <1>9, <3>2
  <2>6. agentMocks[p] = mocks[i].ans \/ i > d
    BY <1>1, <2>1, <2>2 DEF ExecInv, InForce, Reapplied, d, todo
  <2>7. CASE i > d + 1
    BY <2>7
  <2>8. CASE i = d + 1
    <3>1. mocks[i] = m /\ m.pat = p
      BY <2>1, <2>5, <2>8 DEF IsLast
    <3>2. QED BY <1>1, <1>3, <2>4, <3>1 DEF Typed
  <2>9. CASE i <= d
    <3>1. m.pat # p
      <4>1. SUFFICES ASSUME m.pat = p PROVE FALSE
        OBVIOUS
      <4>2. d + 1 <= i
        BY <2>1, <2>5, <4>1 DEF IsLast
      <4>3. QED BY <1>9, <2>9, <4>2
    <3>2. agentMocks[p] = mocks[i].ans
      BY <1>9, <2>6, <2>9
    <3>3. QED BY <1>1, <2>4, <3>1, <3>2 DEF Typed
  <2>10. QED BY <1>9, <2>7, <2>8, <2>9
<1>13. QED BY <1>5, <1>7, <1>10, <1>11, <1>12 DEF ExecInv

LEMMA ReapplyMocksKeeps ==
  ASSUME ExecInv, ReapplyMocks
  PROVE  ExecInv'
<1>1. stack # <<>> /\ Top.k = "remock" /\ UNCHANGED <<test, mocks, alive, hist>>
  BY DEF ReapplyMocks
<1>2. Fits(stack) /\ Typed /\ Redials(Top) /\ Reapplying
  BY <1>1, OnTop DEF ExecInv, Redials, Reapplying
<1>3. CASE Top.todo # <<>>
  BY <1>1, <1>3, ReapplyOneKeeps DEF ReapplyMocks
<1>4. CASE Top.todo = <<>>
  <2>1. PICK e \in {"run", "ok"} : Return(e)
    BY <1>4 DEF ReapplyMocks
  <2>2. Plainly(stack', ret')
    BY <1>1, <1>2, <2>1, Returns
  <2>3. UNCHANGED <<link, agentMocks>>
    BY <1>4 DEF ReapplyMocks
  <2>4. Linking /\ Recording /\ Keeping
    BY <1>1, <1>2, <2>3, Links, Records DEF Keeping, Typed, app
  <2>5. Typed'
    BY <1>2, <2>2, <2>4, KeepsTyped DEF Plainly
  <2>6. ~Reapplying' /\ (stack' # <<>> => Top'.k \notin {"dial", "relaunch"})
    BY <2>2 DEF Plainly, Redials, Reapplying, Top
  <2>7. Returned' /\ Suffix' /\ Linked'
    BY <1>1, <2>2, <2>3, <2>6 DEF ExecInv, Plainly, Returned, Suffix, Linked, Top, link
  <2>8. InForce'
    <3>1. Len(mocks) \in Nat /\ Len(Top.todo) = 0
      BY <1>2, <1>4, EmptySeq DEF Typed
    <3>2. \A i \in 1..Len(mocks) : ~(i > Reapplied)
      BY <3>1 DEF Reapplied
    <3>3. UNCHANGED <<mocks, agentMocks, conn, slow>>
      BY <1>1, <2>3 DEF link
    <3>4. QED BY <3>2, <3>3 DEF ExecInv, InForce
  <2>9. QED BY <2>2, <2>5, <2>7, <2>8 DEF ExecInv, Plainly
<1>5. QED BY <1>3, <1>4

LEMMA StepReturnedKeeps ==
  ASSUME ExecInv, StepReturned
  PROVE  ExecInv'
<1>1. stack # <<>> /\ Top.k = "step" /\ UNCHANGED <<test, mocks, app, hist>>
  BY DEF StepReturned
<1>2. /\ Fits(stack) /\ Typed /\ Top \in StepFrames /\ ~Redials(Top) /\ ~Reapplying
  BY <1>1, StepOnTop DEF ExecInv
<1>3. ASSUME NEW e \in {"ok", "conn", "fail"}, Return(e), UNCHANGED link PROVE ExecInv'
  <2>1. Plainly(stack', ret')
    BY <1>1, <1>2, <1>3, Returns
  <2>2. QED BY <1>1, <1>2, <1>3, <2>1, Calm
<1>4. ASSUME MayReconnect(Top.s, Top.n), Close, ret' = "run",
             stack' = <<Redial("auto"), [Top EXCEPT !.n = @ + 1]>> \o Tail(stack)
      PROVE  ExecInv'
  <2> DEFINE g == [Top EXCEPT !.n = @ + 1]
             t == <<g>> \o Tail(stack)
  <2>1. g \in Frames /\ g.k = "step" /\ ~Redials(g)
    <3>1. Top.n \in 0..MaxAttempts /\ Top.n < MaxAttempts /\ Top.n + 1 \in 0..MaxAttempts
      BY <1>2, <1>4, PolicyAssumption DEF StepFrames, MayReconnect
    <3>2. QED BY <1>2, <3>1 DEF Frames, StepFrames, Redials
  <2>2. Redial("auto") \in Frames /\ Redial("auto").k = "dial"
    BY DEF Redial, Frames, DialFrames, Handlers
  <2>3. Fits(Tail(stack)) /\ Tail(stack) # <<>> /\ ~Redials(Head(Tail(stack)))
    BY <1>1, <1>2, PopFits DEF Top
  <2>4. Fits(t) /\ t # <<>> /\ Head(t) = g
    <3> HIDE DEF g
    <3>1. QED BY <2>1, <2>3, PushFits
  <2>5. <<Redial("auto"), g>> \o Tail(stack) = <<Redial("auto")>> \o t
    <3> HIDE DEF g
    <3>1. QED BY <2>1, <2>2, <2>3, TwoInFront, SMTT(20) DEF Fits
  <2>6. Fits(<<Redial("auto")>> \o t) /\ <<Redial("auto")>> \o t # <<>> /\ Head(<<Redial("auto")>> \o t) = Redial("auto")
    <3> HIDE DEF g, t
    <3>1. QED BY <2>1, <2>2, <2>4, PushFits
  <2>7. Dialling(stack', ret')
    BY <1>4, <2>2, <2>5, <2>6 DEF Dialling
  <2>8. Linking /\ Recording /\ conn' # "up"
    BY <1>1, <1>2, <1>4, Links, Records DEF Close
  <2>9. Keeping
    BY <1>1, <1>2 DEF Keeping, app, Typed
  <2>10. QED BY <1>2, <2>7, <2>8, <2>9, KeepsDialling
<1>5. QED BY <1>3, <1>4 DEF StepReturned

-----------------------------------------------------------------------------
(* The connection drops or the app crashes, whatever the executor does. *)
LEMMA LossKeeps ==
  ASSUME ExecInv, Drop \/ Crash
  PROVE  ExecInv'
<1>1. /\ UNCHANGED <<test, stack, ret, mocks, agentMocks, slow, hist>>
      /\ conn' \in {"lost", "closed"} /\ cuts' = cuts + 1 /\ alive' \in BOOLEAN
  BY DEF ExecInv, Typed, Drop, Crash, app
<1>2. Typed'
  BY <1>1 DEF ExecInv, Typed, test, hist
<1>3. Fits(stack)' /\ Returned' /\ Suffix' /\ Linked' /\ InForce'
  BY <1>1 DEF ExecInv, Fits, Returned, Suffix, Reapplying, Reapplied, Linked, InForce, Top, test
<1>4. QED BY <1>2, <1>3 DEF ExecInv

LEMMA StutterKeeps ==
  ASSUME ExecInv, UNCHANGED vars
  PROVE  ExecInv'
<1>1. Typed'
  BY DEF ExecInv, Typed, vars
<1>2. Fits(stack)' /\ Returned' /\ Suffix' /\ Linked' /\ InForce'
  BY DEF ExecInv, Fits, Returned, Suffix, Reapplying, Reapplied, Linked, InForce, Top, vars
<1>3. QED BY <1>1, <1>2 DEF ExecInv

LEMMA InitHolds ==
  ASSUME Init
  PROVE  ExecInv
<1>1. stack = <<>> /\ mocks = <<>> /\ ran = <<>> /\ Len(<<>>) = 0
  BY EmptySeq DEF Init
<1>2. Typed
  <2>1. cur \in 1..Len(plan) /\ attempt \in 1..(Retries + 1)
    BY StepsAssumption, PolicyAssumption DEF Init
  <2>2. slow \in 0..MaxSlow
    BY BoundAssumption DEF Init
  <2>3. mocks \in Seq(MockSteps) /\ ran \in Seq({s.id : s \in {t \in Steps : t.op = "act"}})
    BY <1>1, EmptySeq
  <2>4. QED BY <2>1, <2>2, <2>3, NoMocksTyped DEF Init, Typed
<1>3. Fits(stack)
  <2>1. stack \in Seq(Frames) /\ 1..Len(stack) = {}
    BY <1>1, EmptySeq
  <2>2. QED BY <1>1, <2>1 DEF Fits
<1>4. InForce
  <2>1. 1..Len(mocks) = {}
    BY <1>1
  <2>2. QED BY <2>1 DEF InForce
<1>5. Returned /\ Linked /\ Suffix
  BY <1>1 DEF Init, Returned, Linked, Suffix, Reapplying
<1>6. QED BY <1>2, <1>3, <1>4, <1>5 DEF ExecInv

LEMMA StepKeeps ==
  ASSUME ExecInv, [Next]_vars
  PROVE  ExecInv'
  BY BeginKeeps, EndBodyKeeps, EndAttemptKeeps, RunBodyKeeps, RunActKeeps, RunMockKeeps,
     RunConditionalKeeps, RunRecipeCallKeeps, RunBlockKeeps, LoopKeeps, RetryKeeps,
     RunRestartKeeps, RunPermitKeeps, RunClearKeeps, RunKillKeeps, RunOpenKeeps,
     ReconnectKeeps, RelaunchKeeps, ReapplyMocksKeeps, StepReturnedKeeps, LossKeeps, StutterKeeps
  DEF Next, Executor

(* The executor's invariant, for every run, policy and bound. *)
THEOREM Invariant == Spec => []ExecInv
<1>1. Init => ExecInv
  BY InitHolds
<1>2. ExecInv /\ [Next]_vars => ExecInv'
  BY StepKeeps
<1>3. QED BY <1>1, <1>2, PTL DEF Spec

-----------------------------------------------------------------------------
(* Every activation on the stack is well formed, in every run of every plan. *)
LEMMA InvTypes ==
  ASSUME ExecInv
  PROVE  TypeOK
<1>1. Typed /\ Fits(stack) /\ stack \in Seq(Frames)
  BY DEF ExecInv, Fits
<1>2. ASSUME NEW i \in DOMAIN stack PROVE Frame(stack[i])
  <2>1. i \in 1..Len(stack) /\ stack[i] \in Frames
    BY <1>1
  <2>2. CASE stack[i].k = "body"
    <3>1. stack[i].rest \in Seq(Steps)
      BY <2>1, <2>2, FrameKinds DEF BodyFrames
    <3>2. stack[i].rest = <<>> \/ Head(stack[i].rest) \in Steps
      BY <3>1, HeadTailProperties
    <3>3. stack[i].rest = <<>> \/ Head(stack[i].rest).op # ""
      BY <3>2, StepsAssumption DEF WellFormed
    <3>4. QED BY <2>2, <3>3 DEF Frame
  <2>3. CASE stack[i].k = "step"
    <3>1. stack[i].n \in 0..MaxAttempts
      BY <2>1, <2>3, FrameKinds DEF StepFrames
    <3>2. QED BY <2>3, <3>1 DEF Frame
  <2>4. CASE stack[i].k \in {"loop", "retry"}
    <3>1. stack[i].left <= Count(stack[i].s)
      BY <2>1, <2>4, FrameKinds DEF BlockFrames
    <3>2. QED BY <2>4, <3>1 DEF Frame
  <2>5. CASE stack[i].k \in {"dial", "relaunch"}
    <3>1. stack[i].what \in Handlers
      BY <2>1, <2>5, FrameKinds DEF DialFrames
    <3>2. QED BY <2>5, <3>1 DEF Frame, Handlers
  <2>6. CASE stack[i].k = "remock"
    <3>1. i = 1 /\ Redials(stack[1])
      BY <1>1, <2>1, <2>6 DEF Fits, Redials
    <3>2. stack # <<>> /\ Head(stack) = stack[1]
      BY <1>1, <2>1, EmptySeq
    <3>3. Len(stack[i].todo) <= Len(mocks)
      BY <2>6, <3>1, <3>2 DEF ExecInv, Suffix, Reapplying, Top
    <3>4. QED BY <2>6, <3>3 DEF Frame
  <2>7. QED BY <2>1, <2>2, <2>3, <2>4, <2>5, <2>6, FrameKinds
<1>3. QED BY <1>1, <1>2 DEF ExecInv, Linked, Typed, TypeOK

(* No step reconnects more often than reconnect_attempts says, no loop or    *)
(* retry has more iterations left than its count, and a connection leads to  *)
(* a running app: the type invariant, whatever the plans and the bounds.     *)
THEOREM Types == Spec => []TypeOK
<1>1. ExecInv => TypeOK
  BY InvTypes
<1>2. QED BY <1>1, Invariant, PTL

-----------------------------------------------------------------------------
LEMMA LeastNumber ==
  ASSUME NEW T, T \subseteq Nat, T # {}
  PROVE  \E m \in T : \A k \in T : m <= k
<1> DEFINE R == OpToRel(<, Nat)
<1>1. IsWellFoundedOn(R, Nat)
  BY NatLessThanWellFounded
<1>2. \A x, y \in Nat : y < x => <<y, x>> \in R
  BY DEF OpToRel
<1> HIDE DEF R
<1>3. PICK x \in T : \A y \in T : ~ (<<y, x>> \in R)
  BY <1>1, WFMin
<1>4. \A y \in T : ~ (y < x)
  BY <1>2, <1>3
<1>5. QED BY <1>4

(* Of some places in a sequence one is the last. *)
LEMMA LastPlace ==
  ASSUME NEW n \in Nat, NEW I, I \subseteq 1..n, I # {}
  PROVE  \E i \in I : \A j \in I : j <= i
<1> DEFINE T == {n - i : i \in I}
<1>1. T \subseteq Nat /\ T # {}
  <2>1. \A i \in I : i \in Int /\ n - i \in Nat
    OBVIOUS
  <2>2. T \subseteq Nat
    BY <2>1
  <2>3. PICK i \in I : TRUE
    OBVIOUS
  <2>4. n - i \in T
    OBVIOUS
  <2>5. QED BY <2>2, <2>4
<1>2. PICK m \in T : \A k \in T : m <= k
  <2> HIDE DEF T
  <2>1. QED BY <1>1, LeastNumber
<1>3. PICK i \in I : m = n - i
  OBVIOUS
<1>4. ASSUME NEW j \in I PROVE j <= i
  <2>1. n - j \in T /\ i \in Int /\ j \in Int
    OBVIOUS
  <2>2. n - i <= n - j
    BY <1>2, <1>3, <2>1
  <2>3. QED BY <2>1, <2>2
<1>5. QED BY <1>4

(* The last answer the test has given for a pattern is that of its last mock. *)
LEMMA LastAnswerIs ==
  ASSUME NEW p \in Pattern, mocks \in Seq(MockSteps), LastAnswer(p) # "none"
  PROVE  \E i \in 1..Len(mocks) : IsLast(i, p, mocks) /\ LastAnswer(p) = mocks[i].ans
<1> DEFINE I == {i \in DOMAIN mocks : mocks[i].pat = p}
           IsTop(i) == \A j \in I : j <= i
<1>1. Len(mocks) \in Nat /\ DOMAIN mocks = 1..Len(mocks) /\ I \subseteq 1..Len(mocks)
  OBVIOUS
<1>2. I # {} /\ LastAnswer(p) = mocks[CHOOSE i \in I : IsTop(i)].ans
  BY DEF LastAnswer
<1>3. \E i \in I : IsTop(i)
  <2> HIDE DEF I
  <2>1. QED BY <1>1, <1>2, LastPlace
<1> DEFINE c == CHOOSE i \in I : IsTop(i)
<1>4. c \in I /\ IsTop(c)
  <2> HIDE DEF I, IsTop
  <2>1. QED BY <1>3
<1>5. c \in 1..Len(mocks) /\ IsLast(c, p, mocks)
  <2> HIDE DEF c
  <2>1. QED BY <1>1, <1>4 DEF IsLast
<1>6. QED BY <1>2, <1>5

(* Only an act of the body adds to what the app has done. *)
LEMMA OnlyActsAct ==
  ASSUME ExecInv, Next, Acts
  PROVE  RunAct
<1>1. Len(ran) \in Nat
  BY DEF ExecInv, Typed
<1>2. ran' # ran /\ phase # "begin"
  BY <1>1 DEF Acts
<1>3. QED BY <1>2 DEF Next, Executor, Drop, Crash, BeginAttempt, EndBody, EndAttempt, RunBody, RunMock,
     RunConditional, RunRecipeCall, RunBlock, Loop, Retry, RunRestart, RunPermit, RunClear, RunKill,
     RunOpen, Reconnect, Relaunch, ReapplyMocks, StepReturned, hist

(* When the app does something for the body, there was a connection. *)
LEMMA ActsWhenUp ==
  ASSUME ExecInv, RunAct, Acts
  PROVE  conn = "up" /\ ~Reapplying
<1>1. Len(ran) \in Nat /\ ran' # ran
  BY DEF ExecInv, Typed, Acts
<1>2. PICK f \in Fate : Meets(f) /\ (Done(f) \/ f = "answered")
  BY <1>1 DEF RunAct
<1>3. conn = "up"
  BY <1>2 DEF Meets, Done
<1>4. QED BY <1>3 DEF RunAct, Dispatching, Reapplying

LEMMA ActsUnderMocks ==
  ASSUME ExecInv, Next
  PROVE  MocksInForce
<1>1. SUFFICES ASSUME Acts, slow = 0, NEW p \in Pattern, LastAnswer(p) # "none"
               PROVE  agentMocks[p] = LastAnswer(p)
  BY DEF MocksInForce
<1>2. conn = "up" /\ ~Reapplying
  BY <1>1, OnlyActsAct, ActsWhenUp
<1>3. PICK i \in 1..Len(mocks) : IsLast(i, p, mocks) /\ LastAnswer(p) = mocks[i].ans
  BY <1>1, LastAnswerIs DEF ExecInv, Typed
<1>4. QED BY <1>1, <1>2, <1>3 DEF ExecInv, InForce

(* The only step that takes a branch without an answer has missed a deadline. *)
LEMMA BranchesWhenSlow ==
  ASSUME ExecInv, Next
  PROVE  BranchWasChecked
<1>1. SUFFICES ASSUME unchecked', ~unchecked PROVE slow' > slow
  BY DEF BranchWasChecked
<1>2. RunConditional
  BY <1>1 DEF Next, Executor, Drop, Crash, BeginAttempt, EndBody, EndAttempt, RunBody, RunAct, RunMock,
     RunRecipeCall, RunBlock, Loop, Retry, RunRestart, RunPermit, RunClear, RunKill,
     RunOpen, Reconnect, Relaunch, ReapplyMocks, StepReturned, hist
<1>3. PICK f \in Fate : Meets(f) /\ ~Propagates(Top.s, f) /\ f # "answered"
  BY <1>1, <1>2 DEF RunConditional
<1>4. f \in {"slow", "late"}
  BY <1>3 DEF Propagates, ErrorOf, Fate
<1>5. slow' = slow + 1 /\ slow \in Nat
  BY <1>3, <1>4, BoundAssumption DEF Meets, ExecInv, Typed
<1>6. QED BY <1>5

(* However often the connection is lost, the app restarted or reached again,  *)
(* a branch is taken without an answer only by a check that has missed its    *)
(* own deadline (issue 237: a connection error never decides one), and an act *)
(* of the body meets the answers its mocks have set up so far, unless a call  *)
(* has outlived its deadline.                                                 *)
THEOREM DeadlinesOnly == Spec => OnlyDeadlinesCost
<1>1. ExecInv /\ [Next]_vars => [BranchWasChecked /\ MocksInForce]_vars
  BY BranchesWhenSlow, ActsUnderMocks
<1>2. QED BY <1>1, Invariant, PTL DEF Spec, OnlyDeadlinesCost

-----------------------------------------------------------------------------
(***************************************************************************)
(* A passing test did what its script asks for, and no act more often than *)
(* the script and the lost connections account for.  The invariant is a    *)
(* ledger of the stack: each activation has an entry of what is still      *)
(* asked for, and how often each act may still be done, once it returns.   *)
(* An act takes out of the top entry what it adds to the history; a step   *)
(* that is done again after a reconnect is paid for by the connection that *)
(* was lost.                                                               *)
(***************************************************************************)
Histories == Seq(Ids)

(* Histories, put one after the other. *)
LEMMA WordLaws ==
  ASSUME NEW x \in Histories, NEW y \in Histories
  PROVE  /\ x \o y \in Histories
         /\ x \o <<>> = x /\ <<>> \o x = x
         /\ Len(x \o y) = Len(x) + Len(y) /\ Len(x) \in Nat /\ Len(y) \in Nat
         /\ \A i \in 1..(Len(x) + Len(y)) : (x \o y)[i] = IF i <= Len(x) THEN x[i] ELSE y[i - Len(x)]
<1>1. x \in Seq(Ids) /\ y \in Seq(Ids)
  BY DEF Histories
<1>2. x \o y \in Histories
  BY <1>1, ConcatProperties DEF Histories
<1>3. x \o <<>> = x /\ <<>> \o x = x
  BY <1>1, ConcatEmptySeq
<1>4. /\ Len(x \o y) = Len(x) + Len(y) /\ Len(x) \in Nat /\ Len(y) \in Nat
      /\ \A i \in 1..(Len(x) + Len(y)) : (x \o y)[i] = IF i <= Len(x) THEN x[i] ELSE y[i - Len(x)]
  BY <1>1, ConcatProperties
<1>5. QED BY <1>2, <1>3, <1>4

(* ... of three, in either order. *)
LEMMA WordsAssociate ==
  ASSUME NEW x \in Histories, NEW y \in Histories, NEW u \in Histories
  PROVE  (x \o y) \o u = x \o (y \o u)
<1>1. x \in Seq(Ids) /\ y \in Seq(Ids) /\ u \in Seq(Ids)
  BY DEF Histories
<1>2. QED BY <1>1, ConcatAssociative, SMTT(20)

(* One more act. *)
LEMMA OneAct ==
  ASSUME NEW x \in Histories, NEW a \in Ids
  PROVE  <<a>> \in Histories /\ Append(x, a) = x \o <<a>> /\ Append(x, a) \in Histories
<1>1. x \in Seq(Ids) /\ <<a>> \in Seq(Ids)
  BY DEF Histories
<1>2. QED BY <1>1, AppendIsConcat, AppendProperties DEF Histories

(* One more act between two others takes nothing away. *)
LEMMA MoreIsWithin ==
  ASSUME NEW w, NEW x \in Histories, NEW y \in Histories, NEW a \in Ids, Within(w, x \o y)
  PROVE  Within(w, (x \o <<a>>) \o y)
<1> DEFINE n == Len(x)
           s == x \o y
           t == (x \o <<a>>) \o y
           xa == x \o <<a>>
<1>1. n \in Nat /\ Len(y) \in Nat /\ s \in Histories /\ Len(s) = n + Len(y)
      /\ \A i \in 1..(n + Len(y)) : s[i] = IF i <= n THEN x[i] ELSE y[i - n]
  BY WordLaws
<1>2. <<a>> \in Histories /\ Len(<<a>>) = 1
  BY OneAct
<1>3. xa \in Histories /\ Len(xa) = n + 1 /\ \A i \in 1..n : xa[i] = x[i]
  <2>1. /\ xa \in Histories /\ Len(xa) = n + Len(<<a>>)
        /\ \A i \in 1..(n + Len(<<a>>)) : xa[i] = IF i <= n THEN x[i] ELSE <<a>>[i - n]
    BY <1>2, WordLaws
  <2> HIDE DEF xa
  <2>2. QED BY <1>1, <1>2, <2>1
<1>4. /\ t \in Histories /\ Len(t) = (n + 1) + Len(y)
      /\ \A i \in 1..((n + 1) + Len(y)) : t[i] = IF i <= n + 1 THEN xa[i] ELSE y[i - (n + 1)]
  <2>1. t = xa \o y
    OBVIOUS
  <2> HIDE DEF xa, t
  <2>2. /\ xa \o y \in Histories /\ Len(xa \o y) = Len(xa) + Len(y)
        /\ \A i \in 1..(Len(xa) + Len(y)) : (xa \o y)[i] = IF i <= Len(xa) THEN xa[i] ELSE y[i - Len(xa)]
    BY <1>3, WordLaws
  <2>3. QED BY <1>3, <2>1, <2>2
<1> HIDE DEF s, t, xa, n
<1>5. DOMAIN s = 1..(n + Len(y)) /\ DOMAIN t = 1..((n + 1) + Len(y))
  BY <1>1, <1>4 DEF Histories
<1>6. \A i \in 1..(n + Len(y)) : IF i <= n THEN t[i] = s[i] ELSE t[i + 1] = s[i]
  <2>1. SUFFICES ASSUME NEW i \in 1..(n + Len(y)) PROVE IF i <= n THEN t[i] = s[i] ELSE t[i + 1] = s[i]
    OBVIOUS
  <2>2. CASE i <= n
    BY <1>1, <1>3, <1>4, <2>2
  <2>3. CASE ~(i <= n)
    <3>1. i + 1 \in 1..((n + 1) + Len(y)) /\ ~(i + 1 <= n + 1) /\ (i + 1) - (n + 1) = i - n
      BY <1>1, <2>3
    <3>2. t[i + 1] = y[i - n]
      BY <1>4, <3>1
    <3>3. QED BY <1>1, <2>3, <3>2
  <2>4. QED BY <2>2, <2>3
<1>7. PICK f \in [DOMAIN w -> DOMAIN s] : \A i, j \in DOMAIN w : s[f[i]] = w[i] /\ (i < j => f[i] < f[j])
  BY DEF Within, s
<1> DEFINE g == [i \in DOMAIN w |-> IF f[i] <= n THEN f[i] ELSE f[i] + 1]
<1>8. g \in [DOMAIN w -> DOMAIN t]
  <2>1. ASSUME NEW i \in DOMAIN w PROVE g[i] \in DOMAIN t
    <3>1. f[i] \in 1..(n + Len(y))
      BY <1>5, <1>7
    <3>2. QED BY <1>1, <1>5, <3>1
  <2>2. QED BY <2>1
<1>9. ASSUME NEW i \in DOMAIN w, NEW j \in DOMAIN w PROVE t[g[i]] = w[i] /\ (i < j => g[i] < g[j])
  <2>1. f[i] \in 1..(n + Len(y)) /\ f[j] \in 1..(n + Len(y))
    BY <1>5, <1>7
  <2>2. t[g[i]] = s[f[i]]
    <3>1. CASE f[i] <= n
      <4>1. g[i] = f[i]
        BY <3>1
      <4> HIDE DEF g
      <4>2. QED BY <1>6, <2>1, <3>1, <4>1
    <3>2. CASE ~(f[i] <= n)
      <4>1. g[i] = f[i] + 1
        BY <3>2
      <4> HIDE DEF g
      <4>2. QED BY <1>6, <2>1, <3>2, <4>1
    <3>3. QED BY <3>1, <3>2
  <2>3. i < j => f[i] < f[j]
    BY <1>7
  <2>4. f[i] < f[j] => g[i] < g[j]
    BY <1>1, <2>1
  <2>5. s[f[i]] = w[i]
    BY <1>7
  <2> HIDE DEF g
  <2>6. QED BY <2>2, <2>3, <2>4, <2>5
<1> HIDE DEF g
<1>10. Within(w, t)
  BY <1>8, <1>9 DEF Within
<1>11. QED BY <1>10 DEF t
-----------------------------------------------------------------------------
Covers(x, test_) == \E w \in test_.want : Within(w, x)
Fulfils(x, C, test_) == \A u \in C : Covers(x \o u, test_)

(* A sequence of U and one of V ... *)
LEMMA InThen ==
  ASSUME NEW U, NEW V, NEW u \in U, NEW v \in V
  PROVE  u \o v \in Then(U, V)
<1> DEFINE R(p) == {p \o q : q \in V}
<1>1. u \o v \in R(u)
  BY Zenon
<1>2. R(u) \in {R(p) : p \in U}
  <2> HIDE DEF R
  <2>1. QED BY Zenon
<1>3. Then(U, V) = UNION {R(p) : p \in U}
  BY Zenon DEF Then
<1> HIDE DEF R
<1>4. QED BY <1>1, <1>2, <1>3, Zenon

(* ... and nothing else. *)
LEMMA OfThen ==
  ASSUME NEW U, NEW V, NEW c \in Then(U, V)
  PROVE  \E u \in U, v \in V : c = u \o v
  BY Zenon DEF Then

(* Of histories, histories. *)
LEMMA ThenTyped ==
  ASSUME NEW U, NEW V, U \subseteq Histories, V \subseteq Histories
  PROVE  Then(U, V) \subseteq Histories
<1>1. SUFFICES ASSUME NEW c \in Then(U, V) PROVE c \in Histories
  OBVIOUS
<1>2. PICK u \in U, v \in V : c = u \o v
  BY OfThen
<1>3. u \o v \in Histories
  BY WordLaws
<1>4. QED BY <1>2, <1>3

(* Nothing before V is V. *)
LEMMA ThenNil ==
  ASSUME NEW V, V \subseteq Histories
  PROVE  Then({<<>>}, V) = V
<1> DEFINE e == <<>>
<1>1. \A v \in V : e \o v = v
  BY WordLaws
<1> HIDE DEF e
<1>2. ASSUME NEW v \in V PROVE v \in Then({e}, V)
  <2>1. e \o v \in Then({e}, V)
    BY InThen
  <2>2. QED BY <1>1, <2>1
<1>3. ASSUME NEW v \in Then({e}, V) PROVE v \in V
  <2> DEFINE E == {e}
  <2>1. v \in Then(E, V)
    OBVIOUS
  <2>2. \A u \in E : u = e
    OBVIOUS
  <2> HIDE DEF E
  <2>3. PICK u \in E, y \in V : v = u \o y
    BY <2>1, OfThen
  <2>4. QED BY <1>1, <2>2, <2>3
<1>4. QED BY <1>2, <1>3 DEF e

(* One act more fulfils what was fulfilled ... *)
LEMMA FulfilsGrows ==
  ASSUME NEW x \in Histories, NEW C, C \subseteq Histories, NEW a \in Ids, NEW t, Fulfils(x, C, t)
  PROVE  Fulfils(Append(x, a), C, t)
<1>1. SUFFICES ASSUME NEW u \in C PROVE Covers(Append(x, a) \o u, t)
  BY DEF Fulfils
<1>2. PICK w \in t.want : Within(w, x \o u)
  BY DEF Fulfils, Covers
<1>3. Within(w, (x \o <<a>>) \o u)
  BY <1>2, MoreIsWithin
<1>4. QED BY <1>3, OneAct DEF Covers

(* ... and the act that was asked for is no longer. *)
LEMMA FulfilsAct ==
  ASSUME NEW x \in Histories, NEW C, C \subseteq Histories, NEW a \in Ids, NEW t, NEW U, <<a>> \in U,
         Fulfils(x, Then(U, C), t)
  PROVE  Fulfils(Append(x, a), C, t)
<1>1. SUFFICES ASSUME NEW u \in C PROVE Covers(Append(x, a) \o u, t)
  BY DEF Fulfils
<1>2. <<a>> \o u \in Then(U, C)
  BY InThen
<1>3. Covers(x \o (<<a>> \o u), t)
  BY <1>2 DEF Fulfils
<1>4. <<a>> \in Histories /\ Append(x, a) = x \o <<a>>
  BY OneAct
<1>5. (x \o <<a>>) \o u = x \o (<<a>> \o u)
  BY <1>4, WordsAssociate
<1>6. QED BY <1>3, <1>4, <1>5

(* A part that may be empty need not be done ... *)
LEMMA FulfilsNone ==
  ASSUME NEW x, NEW C, C \subseteq Histories, NEW t, NEW U, <<>> \in U, Fulfils(x, Then(U, C), t)
  PROVE  Fulfils(x, C, t)
<1>1. SUFFICES ASSUME NEW u \in C PROVE Covers(x \o u, t)
  BY DEF Fulfils
<1> DEFINE e == <<>>
<1>2. e \o u = u
  BY WordLaws
<1>3. e \in U
  OBVIOUS
<1> HIDE DEF e
<1>4. e \o u \in Then(U, C)
  BY <1>3, InThen
<1>5. QED BY <1>2, <1>4 DEF Fulfils

(* ... of fewer alternatives each will do ... *)
LEMMA FulfilsPart ==
  ASSUME NEW x, NEW C, NEW t, NEW U, NEW V, V \subseteq U, Fulfils(x, Then(U, C), t)
  PROVE  Fulfils(x, Then(V, C), t)
<1>1. ASSUME NEW c \in Then(V, C) PROVE c \in Then(U, C)
  <2>1. PICK u \in V, y \in C : c = u \o y
    BY OfThen
  <2>2. u \o y \in Then(U, C)
    BY InThen
  <2>3. QED BY <2>1, <2>2
<1>2. QED BY <1>1 DEF Fulfils

(* ... and two parts are asked for one after the other. *)
LEMMA FulfilsBoth ==
  ASSUME NEW x, NEW C, C \subseteq Histories, NEW t, NEW Y, NEW U, NEW V,
         U \subseteq Histories, V \subseteq Histories, Then(U, V) \subseteq Y, Fulfils(x, Then(Y, C), t)
  PROVE  Fulfils(x, Then(U, Then(V, C)), t)
<1>1. SUFFICES ASSUME NEW d \in Then(U, Then(V, C)) PROVE Covers(x \o d, t)
  BY DEF Fulfils
<1>2. PICK u \in U, e \in Then(V, C) : d = u \o e
  BY OfThen
<1>3. PICK v \in V, c \in C : e = v \o c
  BY Zenon DEF Then
<1>4. u \o v \in Y
  <2>1. u \o v \in Then(U, V)
    BY InThen, Zenon
  <2>2. QED BY <2>1
<1>5. (u \o v) \o c \in Then(Y, C)
  BY <1>4, InThen
<1>6. (u \o v) \o c = u \o (v \o c)
  BY WordsAssociate
<1>7. Covers(x \o ((u \o v) \o c), t)
  BY <1>5 DEF Fulfils
<1>8. x \o d = x \o ((u \o v) \o c)
  BY <1>2, <1>3, <1>6
<1>9. QED BY <1>7, <1>8

(* Entries of the ledger: what is still asked for, and how often an act may
   still be done, once the activation that stands there is returned to. *)
Entries == [rest : SUBSET Histories, due : [Ids -> Nat]]

WordsOf(f, sc) ==
  CASE f.k = "body"              -> sc.ways[f.rest]
    [] f.k = "loop" /\ f.left > 0 -> sc.rounds[<<f.s.body, f.left>>]
    [] OTHER                     -> {<<>>}

PriceOf(f, a, sc) ==
  CASE f.k = "body"              -> sc.cost[f.rest][a]
    [] f.k \in {"loop", "retry"} -> RoundsCost(f.left, sc.cost[f.s.body][a])
    [] OTHER                     -> 0

Owed(f, q, sc) ==
  [rest |-> Then(WordsOf(f, sc), q.rest), due |-> [a \in Ids |-> PriceOf(f, a, sc) + q.due[a]]]

(* The script says what the steps of an activation ask for, and no more than
   the test allows. *)
Foretold(s, sc) == Bodies(s) \subseteq DOMAIN sc.ways /\ (s.op = "loop" /\ s.n > 0 => Repeats(s, sc))
Known(f, t, sc) ==
  /\ f.k = "body" =>
       f.rest \in DOMAIN sc.ways /\ \A a \in DOMAIN t.times : sc.cost[f.rest][a] <= t.times[a]
  /\ f.k \in {"step", "loop", "retry"} =>
       Foretold(f.s, sc) /\ \A a \in DOMAIN t.times : Price(f.s, a, sc) <= t.times[a]

(* Whatever is done again starts from a history that can still become one
   that the script asks for. *)
Redo(f, q, x, t, sc) ==
  /\ f.k = "step" => Fulfils(x, Then(Asks(f.s, sc), q.rest), t)
  /\ f.k = "retry" => Fulfils(x, Then(sc.ways[f.s.body], q.rest), t)
  /\ Redials(f) /\ f.what # "auto" => Fulfils(x, q.rest, t)

Foreseen(t, sc) ==
  /\ {t.body, t.after} \subseteq DOMAIN sc.ways
  /\ \A u \in sc.ways[t.body] : Covers(u, t)
  /\ \A a \in DOMAIN t.times :
       /\ a \in Ids /\ t.times[a] \in Nat
       /\ sc.cost[t.body][a] + sc.cost[t.after][a] <= t.times[a]

-----------------------------------------------------------------------------
(* What n rounds cost, unfolded once. *)
LEMMA RoundsCostIs ==
  ASSUME NEW n \in Int, NEW c \in Nat
  PROVE  /\ RoundsCost(n, c) \in Nat
         /\ n > 0 => RoundsCost(n, c) = c + RoundsCost(n - 1, c) /\ c <= RoundsCost(n, c)
         /\ n <= 0 => RoundsCost(n, c) = 0
<1>1. CASE n <= 0
  BY <1>1 DEF RoundsCost
<1>2. CASE n = 1
  BY <1>2 DEF RoundsCost
<1>3. CASE n > 1
  <2>1. PICK m \in Nat : n = m + 1 /\ m > 0
    BY <1>3
  <2>2. m * c \in Nat /\ (m + 1) * c = c + m * c
    BY <2>1
  <2>3. RoundsCost(n, c) = (m + 1) * c /\ RoundsCost(n - 1, c) = m * c
    <3>1. n - 1 = m
      BY <2>1
    <3>2. QED BY <2>1, <3>1 DEF RoundsCost
  <2>4. QED BY <1>3, <2>2, <2>3
<1>4. QED BY <1>1, <1>2, <1>3

(* What a script says of a body it knows. *)
LEMMA ScriptTypes ==
  ASSUME NEW sc, Scripted(sc), NEW b \in DOMAIN sc.ways
  PROVE  sc.ways[b] \subseteq Histories /\ sc.cost[b] \in [Ids -> Nat]
  BY DEF Scripted, Histories

(* What a step asks for are histories, and what it costs are numbers. *)
LEMMA StepAsks ==
  ASSUME NEW sc, Scripted(sc), NEW s \in Steps, Foretold(s, sc)
  PROVE  Asks(s, sc) \subseteq Histories /\ \A a \in Ids : Price(s, a, sc) \in Nat
<1>1. WellFormed(s)
  BY StepsAssumption
<1>2. \A b \in Bodies(s) : sc.ways[b] \subseteq Histories /\ sc.cost[b] \in [Ids -> Nat]
  BY ScriptTypes DEF Foretold
<1>3. Asks(s, sc) \subseteq Histories
  <2>1. CASE s.op = "act"
    <3>1. s.id \in Ids
      BY <2>1 DEF Ids
    <3>2. {<<s.id>>} \subseteq Histories /\ {<<>>} \subseteq Histories
      BY <3>1, OneAct, EmptySeq DEF Histories
    <3>3. QED BY <2>1, <3>2 DEF Asks
  <2>2. CASE s.op = "if"
    <3>1. s.then \in Bodies(s) /\ s.else \in Bodies(s)
      BY <2>2 DEF Bodies
    <3>2. QED BY <1>2, <2>2, <3>1 DEF Asks
  <2>3. CASE s.op \in {"call", "retry"}
    <3>1. s.body \in Bodies(s)
      BY <2>3 DEF Bodies
    <3>2. QED BY <1>2, <2>3, <3>1 DEF Asks
  <2>4. CASE s.op = "loop" /\ s.n > 0
    <3>1. s.n \in 0..s.n
      BY <1>1, <2>4 DEF WellFormed
    <3>2. <<s.body, s.n>> \in DOMAIN sc.rounds
      BY <2>4, <3>1 DEF Foretold, Repeats
    <3>3. sc.rounds[<<s.body, s.n>>] \subseteq Histories
      BY <3>2 DEF Scripted, Histories
    <3>4. QED BY <2>4, <3>3 DEF Asks
  <2>5. CASE s.op \notin {"act", "if", "call", "retry"} /\ ~(s.op = "loop" /\ s.n > 0)
    <3>1. {<<>>} \subseteq Histories
      BY EmptySeq DEF Histories
    <3>2. QED BY <2>5, <3>1 DEF Asks
  <2>6. QED BY <2>1, <2>2, <2>3, <2>4, <2>5
<1>4. ASSUME NEW a \in Ids PROVE Price(s, a, sc) \in Nat
  <2>1. CASE s.op = "if"
    <3>1. sc.cost[s.then][a] \in Nat /\ sc.cost[s.else][a] \in Nat
      BY <1>2, <2>1 DEF Bodies
    <3>2. QED BY <2>1, <3>1 DEF Price, Larger
  <2>2. CASE s.op = "call"
    BY <1>2, <2>2 DEF Bodies, Price
  <2>3. CASE s.op \in {"loop", "retry"}
    <3>1. sc.cost[s.body][a] \in Nat /\ Count(s) \in Int
      BY <1>1, <1>2, <2>3 DEF Bodies, WellFormed, Count
    <3>2. RoundsCost(Count(s), sc.cost[s.body][a]) \in Nat
      BY <3>1, RoundsCostIs
    <3>3. QED BY <2>3, <3>2 DEF Price
  <2>4. CASE s.op \notin {"if", "call", "loop", "retry"}
    BY <2>4 DEF Price
  <2>5. QED BY <2>1, <2>2, <2>3, <2>4
<1>5. QED BY <1>3, <1>4

(* ... and so for an activation. *)
LEMMA FrameAsks ==
  ASSUME NEW sc, Scripted(sc), NEW t, NEW f \in Frames, Known(f, t, sc)
  PROVE  WordsOf(f, sc) \subseteq Histories /\ \A a \in Ids : PriceOf(f, a, sc) \in Nat
<1>0. {<<>>} \subseteq Histories
  BY EmptySeq DEF Histories
<1>1. CASE f.k = "body"
  <2>1. f.rest \in DOMAIN sc.ways
    BY <1>1 DEF Known
  <2>2. sc.ways[f.rest] \subseteq Histories /\ sc.cost[f.rest] \in [Ids -> Nat]
    BY <2>1, ScriptTypes
  <2>3. QED BY <1>1, <2>2 DEF WordsOf, PriceOf
<1>2. CASE f.k \in {"loop", "retry"}
  <2>1. f \in BlockFrames /\ f.s \in Steps /\ f.s.op = f.k /\ f.left \in Int /\ f.left <= Count(f.s) /\ Foretold(f.s, sc)
    BY <1>2, FrameKinds DEF BlockFrames, Known
  <2>2. WellFormed(f.s) /\ f.s.body \in DOMAIN sc.ways
    BY <1>2, <2>1, StepsAssumption DEF Foretold, Bodies
  <2>3. \A a \in Ids : PriceOf(f, a, sc) \in Nat
    <3>1. ASSUME NEW a \in Ids PROVE PriceOf(f, a, sc) \in Nat
      <4>1. sc.cost[f.s.body][a] \in Nat
        BY <2>2, ScriptTypes
      <4>2. RoundsCost(f.left, sc.cost[f.s.body][a]) \in Nat
        BY <2>1, <4>1, RoundsCostIs
      <4>3. QED BY <1>2, <4>2 DEF PriceOf
    <3>2. QED BY <3>1
  <2>4. WordsOf(f, sc) \subseteq Histories
    <3>1. CASE f.k = "loop" /\ f.left > 0
      <4>1. f.s.n \in Int /\ f.left <= f.s.n /\ f.s.op = "loop"
        BY <1>2, <2>1, <2>2, <3>1 DEF WellFormed, Count
      <4>2. f.left \in 0..f.s.n /\ f.s.n > 0
        BY <2>1, <3>1, <4>1
      <4>3. <<f.s.body, f.left>> \in DOMAIN sc.rounds
        BY <2>1, <4>1, <4>2 DEF Foretold, Repeats
      <4>4. sc.rounds[<<f.s.body, f.left>>] \subseteq Histories
        BY <4>3 DEF Scripted, Histories
      <4>5. QED BY <3>1, <4>4 DEF WordsOf
    <3>2. CASE ~(f.k = "loop" /\ f.left > 0)
      BY <1>0, <1>2, <3>2 DEF WordsOf
    <3>3. QED BY <3>1, <3>2
  <2>5. QED BY <2>3, <2>4
<1>3. CASE f.k \notin {"body", "loop", "retry"}
  BY <1>0, <1>3 DEF WordsOf, PriceOf
<1>4. QED BY <1>1, <1>2, <1>3

(* The entry of an activation. *)
LEMMA OwedIs ==
  ASSUME NEW sc, Scripted(sc), NEW t, NEW f \in Frames, Known(f, t, sc), NEW q \in Entries
  PROVE  /\ Owed(f, q, sc) \in Entries
         /\ Owed(f, q, sc).rest = Then(WordsOf(f, sc), q.rest)
         /\ \A a \in Ids : /\ PriceOf(f, a, sc) \in Nat /\ q.due[a] \in Nat
                           /\ Owed(f, q, sc).due[a] = PriceOf(f, a, sc) + q.due[a]
<1>1. q.rest \subseteq Histories /\ q.due \in [Ids -> Nat]
  BY DEF Entries
<1>2. WordsOf(f, sc) \subseteq Histories /\ \A a \in Ids : PriceOf(f, a, sc) \in Nat
  BY FrameAsks
<1>3. Then(WordsOf(f, sc), q.rest) \subseteq Histories
  BY <1>1, <1>2, ThenTyped
<1>4. [a \in Ids |-> PriceOf(f, a, sc) + q.due[a]] \in [Ids -> Nat]
  BY <1>1, <1>2
<1>5. QED BY <1>1, <1>2, <1>3, <1>4 DEF Owed, Entries

(* A stack and the ledger of its activations, the outermost one last, on top
   of an entry for what comes after all of them. *)
Chain(st, z, x, t, b, sc) ==
  /\ z \in Seq(Entries) /\ Len(z) = Len(st) + 1 /\ z[Len(z)] = b
  /\ \A i \in 1..Len(st) :
       z[i] = Owed(st[i], z[i + 1], sc) /\ Known(st[i], t, sc) /\ Redo(st[i], z[i + 1], x, t, sc)

Owes(st, p, x, t, b, sc) == \E z : Chain(st, z, x, t, b, sc) /\ z[1] = p

(* No activation: what comes after all of them is left ... *)
LEMMA OwesNothing ==
  ASSUME NEW sc, NEW t, NEW x, NEW b \in Entries
  PROVE  Owes(<<>>, b, x, t, b, sc)
<1>1. <<b>> \in Seq(Entries) /\ Len(<<b>>) = 1 /\ <<b>>[1] = b
  OBVIOUS
<1>2. Len(<<>>) = 0 /\ 1..0 = {}
  BY EmptySeq
<1>3. Chain(<<>>, <<b>>, x, t, b, sc)
  BY <1>1, <1>2 DEF Chain
<1>4. QED BY <1>1, <1>3 DEF Owes

(* ... and nothing else. *)
LEMMA NothingOwed ==
  ASSUME NEW sc, NEW t, NEW x, NEW b, NEW p, Owes(<<>>, p, x, t, b, sc)
  PROVE  p = b
<1>1. PICK z : Chain(<<>>, z, x, t, b, sc) /\ z[1] = p
  BY DEF Owes
<1>2. Len(<<>>) = 0
  BY EmptySeq
<1>3. QED BY <1>1, <1>2 DEF Chain

(* What a stack owes is an entry. *)
LEMMA OwesTyped ==
  ASSUME NEW sc, NEW t, NEW x, NEW b, NEW p, NEW st \in Seq(Frames), Owes(st, p, x, t, b, sc)
  PROVE  p \in Entries
<1>1. PICK z : Chain(st, z, x, t, b, sc) /\ z[1] = p
  BY DEF Owes
<1>2. z \in Seq(Entries) /\ Len(z) = Len(st) + 1 /\ Len(st) \in Nat
  BY <1>1 DEF Chain
<1>3. 1 \in 1..Len(z)
  BY <1>2
<1>4. QED BY <1>1, <1>2, <1>3

(* The activation on top ... *)
LEMMA OwesTop ==
  ASSUME NEW sc, NEW t, NEW x, NEW b, NEW p, NEW st \in Seq(Frames), st # <<>>, Owes(st, p, x, t, b, sc)
  PROVE  \E q \in Entries : /\ p = Owed(Head(st), q, sc)
                            /\ Known(Head(st), t, sc) /\ Redo(Head(st), q, x, t, sc)
                            /\ Owes(Tail(st), q, x, t, b, sc)
<1>1. PICK z : Chain(st, z, x, t, b, sc) /\ z[1] = p
  BY DEF Owes
<1>2. z \in Seq(Entries) /\ Len(z) = Len(st) + 1 /\ z[Len(z)] = b
  BY <1>1 DEF Chain
<1>3. /\ Len(st) \in Nat /\ Len(st) > 0 /\ Head(st) = st[1]
      /\ Tail(st) \in Seq(Frames) /\ Len(Tail(st)) = Len(st) - 1
      /\ \A i \in 1..Len(Tail(st)) : Tail(st)[i] = st[i + 1]
  OBVIOUS
<1>4. /\ Tail(z) \in Seq(Entries) /\ Len(Tail(z)) = Len(st)
      /\ \A i \in 1..Len(st) : Tail(z)[i] = z[i + 1]
  <2>1. z # <<>>
    BY <1>2, <1>3
  <2>2. Tail(z) \in Seq(Entries) /\ Len(Tail(z)) = Len(z) - 1 /\ \A i \in 1..Len(Tail(z)) : Tail(z)[i] = z[i + 1]
    BY <1>2, <2>1
  <2>3. Len(Tail(z)) = Len(st)
    BY <1>2, <1>3, <2>2
  <2>4. QED BY <2>2, <2>3
<1>5. z[2] \in Entries /\ 1 \in 1..Len(st) /\ 1 + 1 = 2
  BY <1>2, <1>3
<1>6. z[1] = Owed(st[1], z[2], sc) /\ Known(st[1], t, sc) /\ Redo(st[1], z[2], x, t, sc)
  <2>1. z[1] = Owed(st[1], z[1 + 1], sc) /\ Known(st[1], t, sc) /\ Redo(st[1], z[1 + 1], x, t, sc)
    BY <1>1, <1>5 DEF Chain
  <2>2. QED BY <1>5, <2>1
<1>7. Chain(Tail(st), Tail(z), x, t, b, sc)
  <2> DEFINE u == Tail(st)
             y == Tail(z)
  <2>1. Len(u) = Len(st) - 1 /\ Len(y) = Len(u) + 1 /\ y \in Seq(Entries)
    BY <1>3, <1>4
  <2>2. y[Len(y)] = b
    <3>1. y[Len(st)] = z[Len(st) + 1]
      BY <1>3, <1>4
    <3>2. QED BY <1>2, <1>4, <3>1
  <2>3. ASSUME NEW i \in 1..Len(u)
        PROVE  y[i] = Owed(u[i], y[i + 1], sc) /\ Known(u[i], t, sc) /\ Redo(u[i], y[i + 1], x, t, sc)
    <3>1. i \in 1..Len(st) /\ i + 1 \in 1..Len(st)
      BY <1>3, <2>1
    <3>2. u[i] = st[i + 1] /\ y[i] = z[i + 1] /\ y[i + 1] = z[(i + 1) + 1]
      BY <1>3, <1>4, <3>1
    <3>3. /\ z[i + 1] = Owed(st[i + 1], z[(i + 1) + 1], sc) /\ Known(st[i + 1], t, sc)
          /\ Redo(st[i + 1], z[(i + 1) + 1], x, t, sc)
      BY <1>1, <3>1 DEF Chain
    <3> HIDE DEF u, y
    <3>4. QED BY <3>2, <3>3
  <2> HIDE DEF u, y
  <2>4. Chain(u, y, x, t, b, sc)
    BY <2>1, <2>2, <2>3 DEF Chain
  <2>5. QED BY <2>4 DEF u, y
<1>8. Tail(z)[1] = z[2]
  <2>1. Tail(z)[1] = z[1 + 1]
    BY <1>4, <1>5
  <2>2. QED BY <1>5, <2>1
<1>9. Owes(Tail(st), z[2], x, t, b, sc)
  BY <1>7, <1>8 DEF Owes
<1>10. QED BY <1>1, <1>3, <1>5, <1>6, <1>9

(* ... and one more on top of it. *)
LEMMA OwesMore ==
  ASSUME NEW sc, Scripted(sc), NEW t, NEW x, NEW b, NEW q, NEW st \in Seq(Frames), Owes(st, q, x, t, b, sc),
         NEW f \in Frames, Known(f, t, sc), Redo(f, q, x, t, sc)
  PROVE  Owes(<<f>> \o st, Owed(f, q, sc), x, t, b, sc)
<1>1. PICK z : Chain(st, z, x, t, b, sc) /\ z[1] = q
  BY DEF Owes
<1>2. z \in Seq(Entries) /\ Len(z) = Len(st) + 1 /\ z[Len(z)] = b /\ Len(st) \in Nat
  BY <1>1 DEF Chain
<1>3. q \in Entries
  BY OwesTyped
<1> DEFINE p == Owed(f, q, sc)
           u == <<f>> \o st
           y == <<p>> \o z
<1>4. p \in Entries
  BY <1>3, OwedIs
<1> HIDE DEF p
<1>5. Len(u) = Len(st) + 1 /\ u[1] = f /\ \A i \in 1..Len(st) : u[i + 1] = st[i]
  <2>1. <<f>> \in Seq(Frames) /\ Len(<<f>>) = 1
    OBVIOUS
  <2>2. Len(u) = Len(<<f>>) + Len(st) /\ \A i \in 1..(Len(<<f>>) + Len(st)) :
          u[i] = IF i <= Len(<<f>>) THEN <<f>>[i] ELSE st[i - Len(<<f>>)]
    BY <2>1, ConcatProperties
  <2> HIDE DEF u
  <2>3. u[1] = f
    BY <1>2, <2>1, <2>2
  <2>4. ASSUME NEW i \in 1..Len(st) PROVE u[i + 1] = st[i]
    <3>1. i + 1 \in 1..(1 + Len(st)) /\ ~(i + 1 <= 1) /\ (i + 1) - 1 = i
      BY <1>2
    <3>2. u[i + 1] = st[(i + 1) - 1]
      BY <2>1, <2>2, <3>1
    <3>3. QED BY <3>1, <3>2
  <2>5. QED BY <1>2, <2>1, <2>2, <2>3, <2>4
<1>6. y \in Seq(Entries) /\ Len(y) = Len(z) + 1 /\ y[1] = p /\ \A i \in 1..Len(z) : y[i + 1] = z[i]
  <2>1. <<p>> \in Seq(Entries) /\ Len(<<p>>) = 1
    BY <1>4
  <2>2. y \in Seq(Entries) /\ Len(y) = Len(<<p>>) + Len(z) /\ \A i \in 1..(Len(<<p>>) + Len(z)) :
          y[i] = IF i <= Len(<<p>>) THEN <<p>>[i] ELSE z[i - Len(<<p>>)]
    BY <1>2, <2>1, ConcatProperties
  <2> HIDE DEF y
  <2>3. y[1] = p
    BY <1>2, <2>1, <2>2
  <2>4. ASSUME NEW i \in 1..Len(z) PROVE y[i + 1] = z[i]
    <3>1. i + 1 \in 1..(1 + Len(z)) /\ ~(i + 1 <= 1) /\ (i + 1) - 1 = i
      BY <1>2
    <3>2. y[i + 1] = z[(i + 1) - 1]
      BY <2>1, <2>2, <3>1
    <3>3. QED BY <3>1, <3>2
  <2>5. QED BY <1>2, <2>1, <2>2, <2>3, <2>4
<1> HIDE DEF u, y
<1>7. ASSUME NEW i \in 1..Len(u)
      PROVE  y[i] = Owed(u[i], y[i + 1], sc) /\ Known(u[i], t, sc) /\ Redo(u[i], y[i + 1], x, t, sc)
  <2>1. CASE i = 1
    <3>1. y[i + 1] = q
      <4>1. 1 \in 1..Len(z)
        BY <1>2
      <4>2. y[1 + 1] = z[1]
        BY <1>6, <4>1
      <4>3. QED BY <1>1, <2>1, <4>2
    <3>2. y[i] = p /\ u[i] = f
      BY <1>5, <1>6, <2>1
    <3>3. QED BY <3>1, <3>2 DEF p
  <2>2. CASE i # 1
    <3>1. PICK j \in 1..Len(st) : i = j + 1
      <4>1. i - 1 \in 1..Len(st) /\ i = (i - 1) + 1
        BY <1>2, <1>5, <2>2
      <4>2. QED BY <4>1
    <3>2. j \in 1..Len(z) /\ j + 1 \in 1..Len(z)
      BY <1>2
    <3>3. u[i] = st[j] /\ y[i] = z[j] /\ y[i + 1] = z[j + 1]
      BY <1>5, <1>6, <3>1, <3>2
    <3>4. z[j] = Owed(st[j], z[j + 1], sc) /\ Known(st[j], t, sc) /\ Redo(st[j], z[j + 1], x, t, sc)
      BY <1>1 DEF Chain
    <3>5. QED BY <3>3, <3>4
  <2>3. QED BY <2>1, <2>2
<1>8. y[Len(y)] = b
  <2>1. Len(z) \in 1..Len(z)
    BY <1>2
  <2>2. y[Len(z) + 1] = z[Len(z)]
    BY <1>6, <2>1
  <2>3. QED BY <1>2, <1>6, <2>2
<1>9. Chain(u, y, x, t, b, sc)
  <2>1. Len(y) = Len(u) + 1
    BY <1>2, <1>5, <1>6
  <2>2. QED BY <1>6, <1>7, <1>8, <2>1 DEF Chain
<1>10. Owes(u, p, x, t, b, sc)
  BY <1>6, <1>9 DEF Owes
<1>11. QED BY <1>10 DEF p, u

(* One more act takes nothing back. *)
LEMMA OwesStill ==
  ASSUME NEW sc, Scripted(sc), NEW t, NEW x \in Histories, NEW a \in Ids, NEW b, NEW p, NEW st \in Seq(Frames),
         Owes(st, p, x, t, b, sc)
  PROVE  Owes(st, p, Append(x, a), t, b, sc)
<1>1. PICK z : Chain(st, z, x, t, b, sc) /\ z[1] = p
  BY DEF Owes
<1> DEFINE v == Append(x, a)
<1>2. ASSUME NEW i \in 1..Len(st) PROVE Redo(st[i], z[i + 1], v, t, sc)
  <2> DEFINE f == st[i]
             q == z[i + 1]
  <2>1. f \in Frames /\ q \in Entries
    <3>1. i + 1 \in 1..Len(z)
      BY <1>1 DEF Chain
    <3>2. QED BY <1>1, <3>1 DEF Chain
  <2>2. Known(f, t, sc) /\ Redo(f, q, x, t, sc)
    BY <1>1 DEF Chain
  <2> HIDE DEF f, q
  <2>3. q.rest \subseteq Histories
    BY <2>1 DEF Entries
  <2>4. f.k = "step" => Fulfils(v, Then(Asks(f.s, sc), q.rest), t)
    <3>1. SUFFICES ASSUME f.k = "step" PROVE Fulfils(v, Then(Asks(f.s, sc), q.rest), t)
      OBVIOUS
    <3>2. f.s \in Steps /\ Foretold(f.s, sc)
      BY <2>1, <2>2, <3>1, FrameKinds DEF StepFrames, Known
    <3>3. Then(Asks(f.s, sc), q.rest) \subseteq Histories
      BY <2>3, <3>2, StepAsks, ThenTyped
    <3>4. QED BY <2>2, <3>1, <3>3, FulfilsGrows DEF Redo
  <2>5. f.k = "retry" => Fulfils(v, Then(sc.ways[f.s.body], q.rest), t)
    <3>1. SUFFICES ASSUME f.k = "retry" PROVE Fulfils(v, Then(sc.ways[f.s.body], q.rest), t)
      OBVIOUS
    <3>2. f.s.op = "retry" /\ Foretold(f.s, sc)
      BY <2>1, <2>2, <3>1, FrameKinds DEF BlockFrames, Known
    <3>3. sc.ways[f.s.body] \subseteq Histories
      BY <3>2, ScriptTypes DEF Foretold, Bodies
    <3>4. Then(sc.ways[f.s.body], q.rest) \subseteq Histories
      BY <2>3, <3>3, ThenTyped
    <3>5. QED BY <2>2, <3>1, <3>4, FulfilsGrows DEF Redo
  <2>6. Redials(f) /\ f.what # "auto" => Fulfils(v, q.rest, t)
    BY <2>2, <2>3, FulfilsGrows DEF Redo
  <2>7. Redo(f, q, v, t, sc)
    BY <2>4, <2>5, <2>6 DEF Redo
  <2>8. QED BY <2>7 DEF f, q
<1> HIDE DEF v
<1>3. Chain(st, z, v, t, b, sc)
  BY <1>1, <1>2 DEF Chain
<1>4. QED BY <1>1, <1>3 DEF Owes, v

Occurs(a, x) == Cardinality({i \in DOMAIN x : x[i] = a})

(* Going on, or without an error, the history can still become one that the
   script asks for. *)
Ready(st, rt, x, p, t) ==
  /\ rt = "ok" \/ (rt = "run" /\ st # <<>> /\ Head(st).k \in {"body", "loop"}) => Fulfils(x, p.rest, t)
  /\ rt = "run" /\ st # <<>> /\ Head(st).k = "retry" => Head(st).left > 0

(* The step that runs, or will once the mocks are back, is not in the ledger. *)
Extra(st, rt, a, sc) ==
  IF st # <<>> /\ Head(st).k = "step" /\ rt = "run" THEN Price(Head(st).s, a, sc)
  ELSE IF st # <<>> /\ Head(st).k = "remock" /\ Head(st).what = "auto" THEN Price(Head(Tail(st)).s, a, sc)
  ELSE 0

(* What was done and may still be done is paid for, n reconnects included. *)
Balanced(st, rt, x, p, n, t, sc) ==
  \A a \in DOMAIN t.times : Occurs(a, x) + p.due[a] + Extra(st, rt, a, sc) <= t.times[a] * (1 + n)

Ledger(st, rt, x, n, t, b, sc) ==
  \E p \in Entries : Owes(st, p, x, t, b, sc) /\ Ready(st, rt, x, p, t) /\ Balanced(st, rt, x, p, n, t, sc)

Setting(x, n, t, b, sc) == Scripted(sc) /\ Foreseen(t, sc) /\ x \in Histories /\ n \in Nat /\ b \in Entries

-----------------------------------------------------------------------------
(* Nothing done: no act was done. *)
LEMMA OccursNone ==
  ASSUME NEW a
  PROVE  Occurs(a, <<>>) = 0
<1> DEFINE e == <<>>
<1>1. DOMAIN e = {}
  BY EmptySeq
<1>2. {i \in DOMAIN e : e[i] = a} = {}
  <2> HIDE DEF e
  <2>1. QED BY <1>1
<1>3. QED BY <1>2, FS_EmptySet DEF Occurs

(* One act done is done once more. *)
LEMMA OccursMore ==
  ASSUME NEW x \in Histories, NEW c \in Ids, NEW a
  PROVE  /\ Occurs(a, x) \in Nat
         /\ Occurs(a, Append(x, c)) = Occurs(a, x) + IF a = c THEN 1 ELSE 0
<1> DEFINE I == {i \in DOMAIN x : x[i] = a}
           y == Append(x, c)
           J == {i \in DOMAIN y : y[i] = a}
           n == Len(x) + 1
<1>1. x \in Seq(Ids) /\ Len(x) \in Nat /\ DOMAIN x = 1..Len(x)
  BY DEF Histories
<1>2. DOMAIN y = 1..n /\ y[n] = c /\ \A i \in 1..Len(x) : y[i] = x[i]
  BY <1>1, AppendProperties
<1>3. IsFiniteSet(I)
  <2>1. IsFiniteSet(1..Len(x))
    BY <1>1, FS_Interval
  <2>2. I \subseteq 1..Len(x)
    BY <1>1
  <2> HIDE DEF I
  <2>3. QED BY <2>1, <2>2, FS_Subset
<1>4. Cardinality(I) \in Nat
  <2> HIDE DEF I
  <2>1. QED BY <1>3, FS_CardinalityType
<1>5. n \notin I
  BY <1>1
<1>6. Occurs(a, x) = Cardinality(I) /\ Occurs(a, Append(x, c)) = Cardinality(J)
  BY DEF Occurs
<1> HIDE DEF y
<1>7. CASE a = c
  <2>1. J = I \cup {n}
    BY <1>1, <1>2, <1>7
  <2>2. Cardinality(I \cup {n}) = Cardinality(I) + 1
    <3> HIDE DEF I, n
    <3>1. QED BY <1>3, <1>5, FS_AddElement
  <2>3. Cardinality(J) = Cardinality(I) + 1
    <3> HIDE DEF I, J, n
    <3>1. QED BY <2>1, <2>2
  <2> HIDE DEF I, J
  <2>4. QED BY <1>4, <1>7, <1>6, <2>3
<1>8. CASE a # c
  <2>1. J = I
    <3>1. \A i \in 1..n : i = n \/ i \in 1..Len(x)
      BY <1>1
    <3>2. \A i \in J : i \in I
      BY <1>1, <1>2, <1>8, <3>1
    <3>3. \A i \in I : i \in J
      BY <1>1, <1>2
    <3>4. QED BY <3>2, <3>3
  <2>2. Cardinality(J) = Cardinality(I)
    <3> HIDE DEF I, J
    <3>1. QED BY <2>1, Zenon
  <2> HIDE DEF I, J
  <2>3. QED BY <1>4, <1>8, <1>6, <2>2
<1>9. QED BY <1>7, <1>8

(* The activation on top, with its entry and the one below. *)
TopEntry(st, p, q, x, t, b, sc) ==
  /\ p \in Entries /\ q \in Entries /\ p = Owed(Head(st), q, sc)
  /\ Known(Head(st), t, sc) /\ Redo(Head(st), q, x, t, sc)
  /\ Owes(Tail(st), q, x, t, b, sc)

(* The ledger of a stack, from its top. *)
LEMMA LedgerTop ==
  ASSUME NEW sc, NEW t, NEW x, NEW b, NEW n, NEW rt, Setting(x, n, t, b, sc),
         NEW st, Fits(st), st # <<>>, Ledger(st, rt, x, n, t, b, sc)
  PROVE  \E p, q \in Entries :
           /\ TopEntry(st, p, q, x, t, b, sc) /\ Owes(st, p, x, t, b, sc)
           /\ Ready(st, rt, x, p, t) /\ Balanced(st, rt, x, p, n, t, sc)
<1>1. PICK p \in Entries : Owes(st, p, x, t, b, sc) /\ Ready(st, rt, x, p, t) /\ Balanced(st, rt, x, p, n, t, sc)
  BY DEF Ledger
<1>2. st \in Seq(Frames)
  BY DEF Fits
<1>3. PICK q \in Entries : /\ p = Owed(Head(st), q, sc)
                           /\ Known(Head(st), t, sc) /\ Redo(Head(st), q, x, t, sc)
                           /\ Owes(Tail(st), q, x, t, b, sc)
  BY <1>1, <1>2, OwesTop
<1>4. QED BY <1>1, <1>3 DEF TopEntry

(* What the entries of a test's act are. *)
LEMMA EntryNumbers ==
  ASSUME NEW sc, NEW t, NEW x, NEW b, NEW n, Setting(x, n, t, b, sc),
         NEW f \in Frames, Known(f, t, sc), NEW q \in Entries, NEW a \in DOMAIN t.times
  PROVE  /\ a \in Ids /\ Occurs(a, x) \in Nat /\ t.times[a] \in Nat /\ t.times[a] * (1 + n) \in Nat
         /\ q.due[a] \in Nat /\ PriceOf(f, a, sc) \in Nat
         /\ Owed(f, q, sc).due[a] = PriceOf(f, a, sc) + q.due[a]
<1>1. a \in Ids /\ t.times[a] \in Nat /\ n \in Nat /\ x \in Histories
  BY DEF Setting, Foreseen
<1>2. Occurs(a, x) \in Nat
  BY <1>1, OccursMore
<1>3. t.times[a] * (1 + n) \in Nat
  <2>1. 1 + n \in Nat
    BY <1>1
  <2>2. QED BY <1>1, <2>1
<1>4. Scripted(sc)
  BY DEF Setting
<1>5. q.due[a] \in Nat /\ PriceOf(f, a, sc) \in Nat /\ Owed(f, q, sc).due[a] = PriceOf(f, a, sc) + q.due[a]
  BY <1>1, <1>4, OwedIs
<1>6. QED BY <1>1, <1>2, <1>3, <1>5

(* The price of a step that the test contains. *)
LEMMA ExtraIsNumber ==
  ASSUME NEW sc, NEW t, NEW x, NEW b, NEW n, Setting(x, n, t, b, sc),
         NEW s \in Steps, Foretold(s, sc), NEW a \in DOMAIN t.times
  PROVE  Price(s, a, sc) \in Nat
<1>1. a \in Ids /\ Scripted(sc)
  BY DEF Setting, Foreseen
<1>2. QED BY <1>1, StepAsks

(* A step without an activation below it owes what that one owes. *)
LEMMA OwedBySame ==
  ASSUME NEW sc, NEW q \in Entries, NEW f, f.k \notin {"body", "loop", "retry"}
  PROVE  Owed(f, q, sc) = q
<1>1. q.rest \subseteq Histories /\ q.due \in [Ids -> Nat]
  BY DEF Entries
<1>2. WordsOf(f, sc) = {<<>>} /\ \A a \in Ids : PriceOf(f, a, sc) = 0
  BY DEF WordsOf, PriceOf
<1>3. Then(WordsOf(f, sc), q.rest) = q.rest
  BY <1>1, <1>2, ThenNil
<1>4. [a \in Ids |-> PriceOf(f, a, sc) + q.due[a]] = q.due
  <2>1. \A a \in Ids : PriceOf(f, a, sc) + q.due[a] = q.due[a]
    BY <1>1, <1>2
  <2>2. QED BY <1>1, <2>1
<1>5. QED BY <1>3, <1>4 DEF Owed, Entries

(* A step has answered, with what the app did added to the history. *)
LEMMA LedgerAnswers ==
  ASSUME NEW sc, NEW t, NEW x, NEW b, NEW n, Setting(x, n, t, b, sc),
         NEW st, Fits(st), st # <<>>, Head(st).k = "step", NEW rt, Ledger(st, rt, x, n, t, b, sc),
         NEW e \in {"ok", "conn", "fail"}, e = "ok" => <<>> \in Asks(Head(st).s, sc)
  PROVE  Ledger(st, e, x, n, t, b, sc)
<1>1. PICK p, q \in Entries :
        /\ TopEntry(st, p, q, x, t, b, sc) /\ Owes(st, p, x, t, b, sc)
        /\ Ready(st, rt, x, p, t) /\ Balanced(st, rt, x, p, n, t, sc)
  BY LedgerTop
<1>2. Head(st) \in Frames /\ p = q
  <2>1. Head(st) \in Frames
    BY PopFits
  <2>2. QED BY <1>1, <2>1, OwedBySame DEF TopEntry
<1>3. Ready(st, e, x, p, t)
  <2>1. e = "ok" => Fulfils(x, p.rest, t)
    <3>1. Fulfils(x, Then(Asks(Head(st).s, sc), p.rest), t) /\ p.rest \subseteq Histories
      BY <1>1, <1>2 DEF TopEntry, Redo, Entries
    <3>2. QED BY <3>1, FulfilsNone
  <2>2. QED BY <2>1 DEF Ready
<1>4. Balanced(st, e, x, p, n, t, sc)
  <2>1. ASSUME NEW a \in DOMAIN t.times
        PROVE  Occurs(a, x) + p.due[a] + Extra(st, e, a, sc) <= t.times[a] * (1 + n)
    <3>1. Occurs(a, x) \in Nat /\ t.times[a] * (1 + n) \in Nat /\ p.due[a] \in Nat
      BY <1>1, <1>2, EntryNumbers DEF TopEntry
    <3>2. Occurs(a, x) + p.due[a] + Extra(st, rt, a, sc) <= t.times[a] * (1 + n)
      BY <1>1 DEF Balanced
    <3>3. Extra(st, rt, a, sc) \in Nat
      <4>1. Head(st).s \in Steps /\ Foretold(Head(st).s, sc)
        BY <1>1, <1>2, FrameKinds DEF StepFrames, TopEntry, Known
      <4>2. Price(Head(st).s, a, sc) \in Nat
        BY <4>1, ExtraIsNumber
      <4>3. QED BY <4>2 DEF Extra
    <3>4. Extra(st, e, a, sc) = 0
      BY DEF Extra
    <3>5. QED BY <3>1, <3>2, <3>3, <3>4
  <2>2. QED BY <2>1 DEF Balanced
<1>5. QED BY <1>1, <1>3, <1>4 DEF Ledger

(* An act is done, whatever becomes of the answer. *)
LEMMA LedgerActs ==
  ASSUME NEW sc, NEW t, NEW x, NEW b, NEW n, Setting(x, n, t, b, sc),
         NEW st, Fits(st), st # <<>>, Head(st).k = "step", Head(st).s.op = "act",
         Ledger(st, "run", x, n, t, b, sc), NEW e \in {"ok", "conn", "fail"}
  PROVE  Ledger(st, e, Append(x, Head(st).s.id), n, t, b, sc)
<1> DEFINE s == Head(st).s
           y == Append(x, s.id)
<1>1. PICK p, q \in Entries :
        /\ TopEntry(st, p, q, x, t, b, sc) /\ Owes(st, p, x, t, b, sc)
        /\ Ready(st, "run", x, p, t) /\ Balanced(st, "run", x, p, n, t, sc)
  BY LedgerTop
<1>2. Head(st) \in Frames /\ p = q /\ st \in Seq(Frames) /\ x \in Histories /\ Scripted(sc)
  <2>1. Head(st) \in Frames
    BY PopFits
  <2>2. QED BY <1>1, <2>1, OwedBySame DEF TopEntry, Fits, Setting
<1>3. s \in Steps /\ Foretold(s, sc) /\ s.id \in Ids /\ s.op = "act"
  <2>1. s \in Steps /\ Foretold(s, sc)
    BY <1>1, <1>2, FrameKinds DEF StepFrames, TopEntry, Known
  <2>2. QED BY <2>1 DEF Ids
<1> HIDE DEF s
<1>4. Owes(st, p, y, t, b, sc)
  BY <1>1, <1>2, <1>3, OwesStill
<1>5. Ready(st, e, y, p, t)
  <2>1. Fulfils(x, Then(Asks(s, sc), p.rest), t) /\ p.rest \subseteq Histories
    BY <1>1, <1>2 DEF TopEntry, Redo, Entries, s
  <2>2. Fulfils(y, p.rest, t)
    <3>1. CASE IsOptional(s)
      <4>1. <<>> \in Asks(s, sc)
        BY <1>3, <3>1 DEF Asks
      <4>2. Fulfils(x, p.rest, t)
        BY <2>1, <4>1, FulfilsNone
      <4>3. QED BY <1>2, <1>3, <2>1, <4>2, FulfilsGrows
    <3>2. CASE ~IsOptional(s)
      <4>1. <<s.id>> \in Asks(s, sc)
        BY <1>3, <3>2 DEF Asks
      <4>2. QED BY <1>2, <1>3, <2>1, <4>1, FulfilsAct
    <3>3. QED BY <3>1, <3>2
  <2>3. QED BY <2>2 DEF Ready
<1>6. Balanced(st, e, y, p, n, t, sc)
  <2>1. ASSUME NEW a \in DOMAIN t.times
        PROVE  Occurs(a, y) + p.due[a] + Extra(st, e, a, sc) <= t.times[a] * (1 + n)
    <3>1. Occurs(a, x) \in Nat /\ t.times[a] * (1 + n) \in Nat /\ p.due[a] \in Nat
      BY <1>1, <1>2, EntryNumbers DEF TopEntry
    <3>2. Occurs(a, x) + p.due[a] + Extra(st, "run", a, sc) <= t.times[a] * (1 + n)
      BY <1>1 DEF Balanced
    <3>3. Extra(st, "run", a, sc) = IF s.id = a THEN 1 ELSE 0
      BY <1>3 DEF Extra, Price, s
    <3>4. Occurs(a, y) = Occurs(a, x) + IF a = s.id THEN 1 ELSE 0
      BY <1>2, <1>3, OccursMore
    <3>5. Extra(st, e, a, sc) = 0
      BY DEF Extra
    <3>6. QED BY <3>1, <3>2, <3>3, <3>4, <3>5
  <2>2. QED BY <2>1 DEF Balanced
<1>7. QED BY <1>1, <1>4, <1>5, <1>6 DEF Ledger, s

(* What may be done less is no more than what was allowed. *)
LEMMA LedgerPops ==
  ASSUME NEW sc, NEW t, NEW x, NEW b, NEW n, Setting(x, n, t, b, sc),
         NEW st, Fits(st), st # <<>>, NEW rt, NEW e \in {"ok", "conn", "fail", "gone"},
         NEW p \in Entries, NEW q \in Entries, TopEntry(st, p, q, x, t, b, sc),
         Balanced(st, rt, x, p, n, t, sc), e = "ok" => Fulfils(x, q.rest, t)
  PROVE  Ledger(Tail(st), e, x, n, t, b, sc)
<1> DEFINE u == Tail(st)
<1>1. Head(st) \in Frames /\ (Redials(Head(st)) => u # <<>> /\ Head(u).k = "step") /\ Fits(u)
      /\ (u # <<>> => ~Redials(Head(u)))
  BY PopFits
<1>2. Owes(u, q, x, t, b, sc) /\ Known(Head(st), t, sc) /\ p = Owed(Head(st), q, sc)
  BY DEF TopEntry
<1>3. Ready(u, e, x, q, t)
  BY DEF Ready
<1>4. Balanced(u, e, x, q, n, t, sc)
  <2>1. ASSUME NEW a \in DOMAIN t.times
        PROVE  Occurs(a, x) + q.due[a] + Extra(u, e, a, sc) <= t.times[a] * (1 + n)
    <3>1. Occurs(a, x) \in Nat /\ t.times[a] * (1 + n) \in Nat /\ q.due[a] \in Nat
          /\ PriceOf(Head(st), a, sc) \in Nat /\ p.due[a] = PriceOf(Head(st), a, sc) + q.due[a]
      BY <1>1, <1>2, EntryNumbers
    <3>2. Occurs(a, x) + p.due[a] + Extra(st, rt, a, sc) <= t.times[a] * (1 + n)
      BY DEF Balanced
    <3>3. Extra(st, rt, a, sc) \in Nat
      <4>1. CASE Head(st).k = "step"
        <5>1. Head(st).s \in Steps /\ Foretold(Head(st).s, sc)
          BY <1>1, <1>2, <4>1, FrameKinds DEF StepFrames, Known
        <5>2. Price(Head(st).s, a, sc) \in Nat
          BY <5>1, ExtraIsNumber
        <5>3. QED BY <4>1, <5>2 DEF Extra
      <4>2. CASE Head(st).k = "remock"
        <5>1. u # <<>> /\ Head(u).k = "step" /\ Head(u) \in Frames /\ u \in Seq(Frames)
          <6>1. u # <<>> /\ Head(u).k = "step"
            BY <1>1, <4>2 DEF Redials
          <6>2. QED BY <1>1, <6>1, PopFits DEF Fits
        <5>2. Known(Head(u), t, sc)
          BY <1>2, <5>1, OwesTop
        <5>3. Head(u).s \in Steps /\ Foretold(Head(u).s, sc)
          BY <5>1, <5>2, FrameKinds DEF StepFrames, Known
        <5>4. Price(Head(u).s, a, sc) \in Nat
          BY <5>3, ExtraIsNumber
        <5>5. QED BY <4>2, <5>4 DEF Extra
      <4>3. QED BY <4>1, <4>2 DEF Extra
    <3>4. Extra(u, e, a, sc) = 0
      BY <1>1 DEF Extra, Redials
    <3>5. QED BY <3>1, <3>2, <3>3, <3>4
  <2>2. QED BY <2>1 DEF Balanced
<1>5. QED BY <1>2, <1>3, <1>4 DEF Ledger

(* An activation returns an error. *)
LEMMA LedgerFails ==
  ASSUME NEW sc, NEW t, NEW x, NEW b, NEW n, Setting(x, n, t, b, sc),
         NEW st, Fits(st), st # <<>>, NEW rt, Ledger(st, rt, x, n, t, b, sc), NEW e \in {"conn", "fail", "gone"}
  PROVE  Ledger(Tail(st), e, x, n, t, b, sc)
<1>1. PICK p, q \in Entries :
        /\ TopEntry(st, p, q, x, t, b, sc) /\ Owes(st, p, x, t, b, sc)
        /\ Ready(st, rt, x, p, t) /\ Balanced(st, rt, x, p, n, t, sc)
  BY LedgerTop
<1>2. QED BY <1>1, LedgerPops

(* An activation that is over returns without an error. *)
Over(st, rt) ==
  \/ Head(st).k = "body" /\ rt \in {"run", "ok"} /\ Head(st).rest = <<>>
  \/ Head(st).k = "step" /\ (rt = "ok" \/ (rt = "fail" /\ IsOptional(Head(st).s)))
  \/ Head(st).k = "loop" /\ rt \in {"run", "ok"} /\ ~HasMore(Head(st))
  \/ Head(st).k = "retry" /\ rt = "ok"
  \/ Head(st).k = "remock" /\ Head(st).what # "auto"

(* ... without an error: nothing more was asked of it. *)
LEMMA LedgerReturns ==
  ASSUME NEW sc, NEW t, NEW x, NEW b, NEW n, Setting(x, n, t, b, sc),
         NEW st, Fits(st), st # <<>>, NEW rt, Ledger(st, rt, x, n, t, b, sc), Over(st, rt)
  PROVE  Ledger(Tail(st), "ok", x, n, t, b, sc)
<1>1. PICK p, q \in Entries :
        /\ TopEntry(st, p, q, x, t, b, sc) /\ Owes(st, p, x, t, b, sc)
        /\ Ready(st, rt, x, p, t) /\ Balanced(st, rt, x, p, n, t, sc)
  BY LedgerTop
<1> DEFINE f == Head(st)
<1>2. f \in Frames /\ p = Owed(f, q, sc) /\ Known(f, t, sc) /\ Redo(f, q, x, t, sc) /\ Scripted(sc)
      /\ q.rest \subseteq Histories
  BY <1>1, PopFits DEF TopEntry, Setting, Entries
<1>3. p.rest = Then(WordsOf(f, sc), q.rest)
  BY <1>2, OwedIs
<1>4. Fulfils(x, q.rest, t)
  <2>1. CASE f.k = "body" /\ rt \in {"run", "ok"} /\ f.rest = <<>>
    <3>1. Fulfils(x, p.rest, t)
      BY <1>1, <2>1 DEF Ready
    <3>2. f.rest \in DOMAIN sc.ways /\ <<>> \in sc.ways[f.rest]
      BY <1>2, <2>1 DEF Known, Scripted, Foretells
    <3>3. <<>> \in WordsOf(f, sc)
      BY <2>1, <3>2 DEF WordsOf
    <3> HIDE DEF f
    <3>4. QED BY <1>2, <1>3, <3>1, <3>3, FulfilsNone
  <2>2. CASE f.k = "step" /\ rt = "fail" /\ IsOptional(f.s)
    <3>1. Fulfils(x, Then(Asks(f.s, sc), q.rest), t)
      BY <1>2, <2>2 DEF Redo
    <3>2. <<>> \in Asks(f.s, sc)
      BY <2>2 DEF Asks, IsOptional
    <3> HIDE DEF f
    <3>3. QED BY <1>2, <3>1, <3>2, FulfilsNone
  <2>3. CASE f.k \in {"step", "retry"} /\ rt = "ok"
    <3>1. Fulfils(x, p.rest, t)
      BY <1>1, <2>3 DEF Ready
    <3>2. <<>> \in WordsOf(f, sc)
      BY <2>3 DEF WordsOf
    <3> HIDE DEF f
    <3>3. QED BY <1>2, <1>3, <3>1, <3>2, FulfilsNone
  <2>4. CASE f.k = "loop" /\ rt \in {"run", "ok"} /\ ~HasMore(f)
    <3>1. Fulfils(x, p.rest, t)
      BY <1>1, <2>4 DEF Ready
    <3>2. <<>> \in WordsOf(f, sc)
      BY <2>4 DEF WordsOf, HasMore
    <3> HIDE DEF f
    <3>3. QED BY <1>2, <1>3, <3>1, <3>2, FulfilsNone
  <2>5. CASE f.k = "remock" /\ f.what # "auto"
    BY <1>2, <2>5 DEF Redo, Redials
  <2>6. QED BY <2>1, <2>2, <2>3, <2>4, <2>5 DEF Over
<1>5. QED BY <1>1, <1>4, LedgerPops

(* Fewer alternatives, fewer sequences. *)
LEMMA ThenPart ==
  ASSUME NEW U, NEW V, NEW C, NEW D, V \subseteq U, D \subseteq C
  PROVE  Then(V, D) \subseteq Then(U, C)
<1>1. SUFFICES ASSUME NEW c \in Then(V, D) PROVE c \in Then(U, C)
  OBVIOUS
<1>2. PICK u \in V, y \in D : c = u \o y
  BY <1>1, OfThen
<1>3. u \in U /\ y \in C
  OBVIOUS
<1>4. u \o y \in Then(U, C)
  BY <1>3, InThen
<1>5. QED BY <1>2, <1>4

(* The mocks are back: the step below is dispatched again. *)
LEMMA LedgerAgain ==
  ASSUME NEW sc, NEW t, NEW x, NEW b, NEW n, Setting(x, n, t, b, sc),
         NEW st, Fits(st), st # <<>>, Head(st).k = "remock", Head(st).what = "auto",
         NEW rt, Ledger(st, rt, x, n, t, b, sc)
  PROVE  Ledger(Tail(st), "run", x, n, t, b, sc)
<1>1. PICK p, q \in Entries :
        /\ TopEntry(st, p, q, x, t, b, sc) /\ Owes(st, p, x, t, b, sc)
        /\ Ready(st, rt, x, p, t) /\ Balanced(st, rt, x, p, n, t, sc)
  BY LedgerTop
<1>2. p = q /\ Tail(st) # <<>> /\ Head(Tail(st)).k = "step"
  <2>1. Tail(st) # <<>> /\ Head(Tail(st)).k = "step"
    BY PopFits DEF Redials
  <2>2. p = q
    BY <1>1, OwedBySame DEF TopEntry
  <2>3. QED BY <2>1, <2>2
<1>3. Ready(Tail(st), "run", x, q, t)
  BY <1>2 DEF Ready
<1>4. Balanced(Tail(st), "run", x, q, n, t, sc)
  <2>1. \A a \in DOMAIN t.times : Extra(Tail(st), "run", a, sc) = Extra(st, rt, a, sc)
    BY <1>2 DEF Extra
  <2>2. QED BY <1>1, <1>2, <2>1 DEF Balanced
<1>5. QED BY <1>1, <1>3, <1>4 DEF Ledger, TopEntry

(* One more repetition of everything. *)
LEMMA TimesOneMore ==
  ASSUME NEW c \in Nat, NEW n \in Nat
  PROVE  c * (1 + (n + 1)) = c * (1 + n) + c
<1>1. c * (n + 2) = c * (n + 1) + c
  OBVIOUS
<1>2. 1 + (n + 1) = n + 2 /\ 1 + n = n + 1
  OBVIOUS
<1>3. QED BY <1>1, <1>2

(* A reconnect goes on; one that succeeded for a step pays for its repetition. *)
LEMMA LedgerBecomes ==
  ASSUME NEW sc, NEW t, NEW x, NEW b, NEW n, Setting(x, n, t, b, sc),
         NEW st, Fits(st), st # <<>>, Redials(Head(st)), NEW rt, Ledger(st, rt, x, n, t, b, sc),
         NEW f \in Frames, Redials(f), f.what = Head(st).what,
         NEW m \in Nat, m = n \/ m = n + 1,
         f.k = "remock" /\ f.what = "auto" => m = n + 1 \/ Head(st).k = "remock"
  PROVE  Ledger(<<f>> \o Tail(st), "run", x, m, t, b, sc)
<1> DEFINE u == Tail(st)
           v == <<f>> \o u
<1>1. PICK p, q \in Entries :
        /\ TopEntry(st, p, q, x, t, b, sc) /\ Owes(st, p, x, t, b, sc)
        /\ Ready(st, rt, x, p, t) /\ Balanced(st, rt, x, p, n, t, sc)
  BY LedgerTop
<1>2. /\ Fits(u) /\ u # <<>> /\ Head(u).k = "step" /\ ~Redials(Head(u)) /\ Head(st) \in Frames
      /\ f.k \notin {"body", "step", "loop", "retry"} /\ Head(st).k \notin {"body", "step", "loop", "retry"}
  BY PopFits DEF Redials
<1>3. Fits(v) /\ v # <<>> /\ Head(v) = f /\ Tail(v) = u
  BY <1>2, PushFits
<1>4. p = q /\ Owed(f, q, sc) = q /\ Scripted(sc) /\ u \in Seq(Frames)
  BY <1>1, <1>2, OwedBySame DEF TopEntry, Setting, Fits
<1>5. Owes(v, q, x, t, b, sc)
  <2>1. Known(f, t, sc)
    BY <1>2 DEF Known
  <2>2. Redo(f, q, x, t, sc)
    BY <1>1, <1>2 DEF TopEntry, Redo
  <2>3. QED BY <1>1, <1>4, <2>1, <2>2, OwesMore DEF TopEntry
<1> HIDE DEF v
<1>6. Ready(v, "run", x, q, t)
  BY <1>2, <1>3 DEF Ready
<1>7. Balanced(v, "run", x, q, m, t, sc)
  <2>1. ASSUME NEW a \in DOMAIN t.times
        PROVE  Occurs(a, x) + q.due[a] + Extra(v, "run", a, sc) <= t.times[a] * (1 + m)
    <3>1. Occurs(a, x) \in Nat /\ t.times[a] * (1 + n) \in Nat /\ q.due[a] \in Nat /\ t.times[a] \in Nat
      BY <1>1, <1>2, EntryNumbers DEF TopEntry
    <3>2. Occurs(a, x) + q.due[a] + Extra(st, rt, a, sc) <= t.times[a] * (1 + n)
      BY <1>1, <1>4 DEF Balanced
    <3>3. Price(Head(u).s, a, sc) \in Nat /\ Price(Head(u).s, a, sc) <= t.times[a]
      <4>1. Head(u) \in Frames
        BY <1>2, PopFits
      <4>2. Known(Head(u), t, sc)
        BY <1>1, <1>2, <1>4, OwesTop DEF TopEntry
      <4>3. Head(u).s \in Steps /\ Foretold(Head(u).s, sc)
        BY <1>2, <4>1, <4>2, FrameKinds DEF StepFrames, Known
      <4>4. Price(Head(u).s, a, sc) <= t.times[a]
        BY <1>2, <4>2 DEF Known
      <4>5. QED BY <4>3, <4>4, ExtraIsNumber
    <3>4. n \in Nat /\ n # n + 1
      BY DEF Setting
    <3>5. t.times[a] * (1 + (n + 1)) = t.times[a] * (1 + n) + t.times[a]
      BY <3>1, <3>4, TimesOneMore
    <3>6. /\ Extra(st, rt, a, sc) \in {0, Price(Head(u).s, a, sc)}
          /\ Extra(v, "run", a, sc) \in {0, Price(Head(u).s, a, sc)}
      BY <1>2, <1>3 DEF Extra
    <3> DEFINE T == t.times[a] * (1 + n)
               E == Extra(st, rt, a, sc)
               G == Extra(v, "run", a, sc)
               P == Price(Head(u).s, a, sc)
               O == Occurs(a, x)
               D == q.due[a]
               M == t.times[a]
    <3>7. CASE m = n + 1
      <4>1. t.times[a] * (1 + m) = T + M
        BY <3>5, <3>7
      <4>2. O \in Nat /\ T \in Nat /\ D \in Nat /\ M \in Nat /\ E \in {0, P} /\ G \in {0, P} /\ P \in Nat
            /\ P <= M /\ O + D + E <= T
        BY <3>1, <3>2, <3>3, <3>6, Zenon
      <4>3. O + D + G <= T + M
        <5> HIDE DEF T, E, G, P, O, D, M
        <5>1. QED BY <4>2
      <4>4. QED BY <4>1, <4>3, Zenon
    <3>8. CASE m = n
      <4>1. G = 0 \/ G = E
        BY <1>2, <1>3, <3>4, <3>8 DEF Extra
      <4>2. O \in Nat /\ T \in Nat /\ D \in Nat /\ E \in {0, P} /\ P \in Nat /\ O + D + E <= T
        BY <3>1, <3>2, <3>3, <3>6, Zenon
      <4>3. O + D + G <= T
        <5> HIDE DEF T, E, G, P, O, D
        <5>1. QED BY <4>1, <4>2
      <4>4. QED BY <3>8, <4>3
    <3>9. QED BY <3>7, <3>8
  <2>2. QED BY <2>1 DEF Balanced
<1>8. QED BY <1>5, <1>6, <1>7 DEF Ledger, v

(* One more activation. *)
LEMMA LedgerPushes ==
  ASSUME NEW sc, NEW t, NEW x, NEW b, NEW n, Setting(x, n, t, b, sc),
         NEW st, Fits(st), st # <<>>, Head(st).k = "step", Ledger(st, "run", x, n, t, b, sc),
         NEW f \in Frames, f.k # "step", Known(f, t, sc),
         \A q \in Entries : Fulfils(x, Then(Asks(Head(st).s, sc), q.rest), t) =>
            Redo(f, q, x, t, sc) /\ (f.k \in {"body", "loop"} => Fulfils(x, Then(WordsOf(f, sc), q.rest), t)),
         f.k = "retry" => f.left > 0,
         Redials(f) => f.k # "remock",
         \A a \in Ids : PriceOf(f, a, sc) <= Price(Head(st).s, a, sc)
  PROVE  Ledger(<<f>> \o st, "run", x, n, t, b, sc)
<1> DEFINE v == <<f>> \o st
<1>1. PICK p, q \in Entries :
        /\ TopEntry(st, p, q, x, t, b, sc) /\ Owes(st, p, x, t, b, sc)
        /\ Ready(st, "run", x, p, t) /\ Balanced(st, "run", x, p, n, t, sc)
  BY LedgerTop
<1>2. Head(st) \in Frames /\ p = q /\ Scripted(sc) /\ st \in Seq(Frames)
  <2>1. Head(st) \in Frames
    BY PopFits
  <2>2. QED BY <1>1, <2>1, OwedBySame DEF TopEntry, Setting, Fits
<1>3. v # <<>> /\ Head(v) = f
  BY PushFits DEF Redials
<1>4. Fulfils(x, Then(Asks(Head(st).s, sc), p.rest), t)
  BY <1>1, <1>2 DEF TopEntry, Redo
<1> DEFINE r == Owed(f, p, sc)
<1>5. r \in Entries /\ r.rest = Then(WordsOf(f, sc), p.rest)
  BY <1>2, OwedIs
<1>6. Owes(v, r, x, t, b, sc)
  BY <1>1, <1>2, <1>4, OwesMore
<1> HIDE DEF v
<1>7. Ready(v, "run", x, r, t)
  <2> HIDE DEF r
  <2>1. QED BY <1>3, <1>4, <1>5 DEF Ready
<1>8. Balanced(v, "run", x, r, n, t, sc)
  <2>1. ASSUME NEW a \in DOMAIN t.times
        PROVE  Occurs(a, x) + r.due[a] + Extra(v, "run", a, sc) <= t.times[a] * (1 + n)
    <3>1. /\ Occurs(a, x) \in Nat /\ t.times[a] * (1 + n) \in Nat /\ p.due[a] \in Nat /\ a \in Ids
          /\ PriceOf(f, a, sc) \in Nat /\ r.due[a] = PriceOf(f, a, sc) + p.due[a]
      BY EntryNumbers
    <3>2. Occurs(a, x) + p.due[a] + Extra(st, "run", a, sc) <= t.times[a] * (1 + n)
      BY <1>1 DEF Balanced
    <3>3. Extra(st, "run", a, sc) = Price(Head(st).s, a, sc)
      BY DEF Extra
    <3>4. PriceOf(f, a, sc) <= Price(Head(st).s, a, sc)
      BY <3>1
    <3>5. Price(Head(st).s, a, sc) \in Nat
      <4>1. Head(st).s \in Steps /\ Foretold(Head(st).s, sc)
        BY <1>1, <1>2, FrameKinds DEF StepFrames, TopEntry, Known
      <4>2. QED BY <4>1, ExtraIsNumber
    <3>6. Extra(v, "run", a, sc) = 0
      BY <1>3 DEF Extra, Redials
    <3> HIDE DEF r
    <3>7. QED BY <3>1, <3>2, <3>3, <3>4, <3>5, <3>6
  <2> HIDE DEF r
  <2>2. QED BY <2>1 DEF Balanced
<1>9. QED BY <1>5, <1>6, <1>7, <1>8 DEF Ledger, v

(* The script knows the activation on top. *)
LEMMA LedgerKnows ==
  ASSUME NEW sc, NEW t, NEW x, NEW b, NEW n, NEW rt, Setting(x, n, t, b, sc),
         NEW st, Fits(st), st # <<>>, Ledger(st, rt, x, n, t, b, sc)
  PROVE  Known(Head(st), t, sc) /\ Scripted(sc)
  BY LedgerTop DEF TopEntry, Setting

(* A branch is taken, a recipe called. *)
LEMMA LedgerEnters ==
  ASSUME NEW sc, NEW t, NEW x, NEW b, NEW n, Setting(x, n, t, b, sc),
         NEW st, Fits(st), st # <<>>, Head(st).k = "step", Ledger(st, "run", x, n, t, b, sc),
         Head(st).s.op \in {"if", "call"}, NEW c \in Bodies(Head(st).s)
  PROVE  Ledger(<<Body(c)>> \o st, "run", x, n, t, b, sc)
<1> DEFINE s == Head(st).s
           f == Body(c)
<1>1. Head(st) \in Frames /\ Known(Head(st), t, sc) /\ Scripted(sc)
  BY PopFits, LedgerKnows
<1>2. s \in Steps /\ WellFormed(s) /\ Foretold(s, sc) /\ \A a \in DOMAIN t.times : Price(s, a, sc) <= t.times[a]
  BY <1>1, FrameKinds, StepsAssumption DEF StepFrames, Known
<1>3. c \in Seq(Steps) /\ c \in DOMAIN sc.ways
  BY <1>2 DEF WellFormed, Bodies, Foretold
<1>4. f \in Frames /\ f.k = "body" /\ f.rest = c /\ ~Redials(f)
  BY <1>3, BodyIsFrame DEF Body
<1>5. sc.ways[c] \subseteq Asks(s, sc)
  BY DEF Bodies, Asks
<1>6. \A a \in Ids : sc.cost[c][a] \in Nat /\ sc.cost[c][a] <= Price(s, a, sc)
  <2>1. \A d \in Bodies(s) : sc.cost[d] \in [Ids -> Nat]
    BY <1>1, <1>2, ScriptTypes DEF Foretold
  <2>2. CASE s.op = "call"
    <3>1. c = s.body
      BY <2>2 DEF Bodies
    <3>2. QED BY <2>1, <2>2, <3>1 DEF Price
  <2>3. CASE s.op = "if"
    <3>1. c \in {s.then, s.else} /\ s.then \in Bodies(s) /\ s.else \in Bodies(s)
      BY <2>3 DEF Bodies
    <3>2. ASSUME NEW a \in Ids PROVE sc.cost[c][a] \in Nat /\ sc.cost[c][a] <= Price(s, a, sc)
      <4>1. sc.cost[s.then][a] \in Nat /\ sc.cost[s.else][a] \in Nat
        BY <2>1, <3>1
      <4>2. Price(s, a, sc) = Larger(sc.cost[s.then][a], sc.cost[s.else][a])
        BY <2>3 DEF Price
      <4>3. QED BY <3>1, <4>1, <4>2 DEF Larger
    <3>3. QED BY <3>2
  <2>4. QED BY <2>2, <2>3
<1>7. \A a \in Ids : PriceOf(f, a, sc) <= Price(s, a, sc)
  BY <1>4, <1>6 DEF PriceOf
<1>8. Known(f, t, sc)
  <2>1. ASSUME NEW a \in DOMAIN t.times PROVE sc.cost[c][a] <= t.times[a]
    <3>1. a \in Ids /\ t.times[a] \in Nat
      BY DEF Setting, Foreseen
    <3>2. sc.cost[c][a] \in Nat /\ sc.cost[c][a] <= Price(s, a, sc) /\ Price(s, a, sc) <= t.times[a]
      BY <1>2, <1>6, <3>1
    <3>3. Price(s, a, sc) \in Nat
      BY <1>1, <1>2, <3>1, StepAsks
    <3>4. QED BY <3>1, <3>2, <3>3
  <2>2. QED BY <1>3, <1>4, <2>1 DEF Known
<1>9. ASSUME NEW q \in Entries, Fulfils(x, Then(Asks(s, sc), q.rest), t)
      PROVE  Redo(f, q, x, t, sc) /\ Fulfils(x, Then(WordsOf(f, sc), q.rest), t)
  <2>1. Redo(f, q, x, t, sc)
    BY <1>4 DEF Redo
  <2>2. WordsOf(f, sc) = sc.ways[c]
    BY <1>4 DEF WordsOf
  <2>3. Fulfils(x, Then(sc.ways[c], q.rest), t)
    BY <1>5, <1>9, FulfilsPart
  <2>4. QED BY <2>1, <2>2, <2>3
<1>10. f.k # "retry" /\ f.k # "step"
  BY <1>4
<1> HIDE DEF f
<1>11. Ledger(<<f>> \o st, "run", x, n, t, b, sc)
  BY <1>4, <1>7, <1>8, <1>9, <1>10, LedgerPushes
<1>12. QED BY <1>11 DEF f

(* A loop or a retry starts. *)
LEMMA LedgerBlocks ==
  ASSUME NEW sc, NEW t, NEW x, NEW b, NEW n, Setting(x, n, t, b, sc),
         NEW st, Fits(st), st # <<>>, Head(st).k = "step", Ledger(st, "run", x, n, t, b, sc),
         Head(st).s.op \in {"loop", "retry"},
         NEW f, f = [k |-> Head(st).s.op, s |-> Head(st).s, left |-> Count(Head(st).s)]
  PROVE  Ledger(<<f>> \o st, "run", x, n, t, b, sc)
<1> DEFINE s == Head(st).s
<1>1. Head(st) \in Frames /\ Known(Head(st), t, sc) /\ Scripted(sc)
  BY PopFits, LedgerKnows
<1>2. s \in Steps /\ WellFormed(s) /\ Foretold(s, sc) /\ \A a \in DOMAIN t.times : Price(s, a, sc) <= t.times[a]
  BY <1>1, FrameKinds, StepsAssumption DEF StepFrames, Known
<1>3. s.n \in Int /\ Count(s) \in Int
  BY <1>2 DEF WellFormed, Count
<1>4. f \in Frames /\ f.k = s.op /\ f.s = s /\ f.left = Count(s) /\ ~Redials(f)
  BY <1>2, <1>3 DEF Frames, BlockFrames, Redials
<1>5. Known(f, t, sc)
  BY <1>2, <1>4 DEF Known
<1>6. \A a \in Ids : PriceOf(f, a, sc) <= Price(s, a, sc)
  <2>1. ASSUME NEW a \in Ids PROVE PriceOf(f, a, sc) = Price(s, a, sc) /\ Price(s, a, sc) \in Nat
    <3>1. Price(s, a, sc) \in Nat
      BY <1>1, <1>2, StepAsks
    <3>2. QED BY <1>4, <3>1 DEF PriceOf, Price
  <2>2. QED BY <2>1
<1>7. f.k = "loop" => WordsOf(f, sc) = Asks(s, sc)
  BY <1>3, <1>4 DEF WordsOf, Asks, Count
<1>8. f.k = "retry" => f.left > 0 /\ sc.ways[f.s.body] = Asks(s, sc)
  BY <1>3, <1>4 DEF Asks, Count
<1>9. ASSUME NEW q \in Entries, Fulfils(x, Then(Asks(s, sc), q.rest), t)
      PROVE  Redo(f, q, x, t, sc) /\ (f.k \in {"body", "loop"} => Fulfils(x, Then(WordsOf(f, sc), q.rest), t))
  <2>1. f.k = "retry" => Fulfils(x, Then(sc.ways[f.s.body], q.rest), t)
    BY <1>8, <1>9
  <2>2. Redo(f, q, x, t, sc)
    BY <1>4, <2>1 DEF Redo
  <2>3. f.k = "loop" => Fulfils(x, Then(WordsOf(f, sc), q.rest), t)
    BY <1>7, <1>9
  <2>4. QED BY <1>4, <2>2, <2>3
<1>10. f.k # "step"
  BY <1>4
<1>11. QED BY <1>4, <1>5, <1>6, <1>8, <1>9, <1>10, LedgerPushes

(* A lifecycle step dials. *)
LEMMA LedgerDials ==
  ASSUME NEW sc, NEW t, NEW x, NEW b, NEW n, Setting(x, n, t, b, sc),
         NEW st, Fits(st), st # <<>>, Head(st).k = "step", Ledger(st, "run", x, n, t, b, sc),
         NEW w \in Handlers \ {"auto"}, Head(st).s.op = w
  PROVE  Ledger(<<Redial(w)>> \o st, "run", x, n, t, b, sc)
<1> DEFINE s == Head(st).s
           f == Redial(w)
<1>1. Head(st) \in Frames /\ Known(Head(st), t, sc) /\ Scripted(sc)
  BY PopFits, LedgerKnows
<1>2. s \in Steps /\ Foretold(s, sc)
  BY <1>1, FrameKinds DEF StepFrames, Known
<1>3. f \in Frames /\ f.k = "dial" /\ f.what = w /\ Redials(f)
  BY DEF Redial, Redials, Frames, DialFrames
<1>4. Known(f, t, sc)
  BY <1>3 DEF Known
<1>5. \A a \in Ids : PriceOf(f, a, sc) <= Price(s, a, sc)
  <2>1. ASSUME NEW a \in Ids PROVE PriceOf(f, a, sc) = 0 /\ Price(s, a, sc) \in Nat
    BY <1>1, <1>2, <1>3, StepAsks DEF PriceOf
  <2>2. QED BY <2>1
<1>6. <<>> \in Asks(s, sc)
  BY DEF Asks, Handlers
<1>7. ASSUME NEW q \in Entries, Fulfils(x, Then(Asks(s, sc), q.rest), t)
      PROVE  Redo(f, q, x, t, sc)
  <2>1. q.rest \subseteq Histories
    BY DEF Entries
  <2>2. Fulfils(x, q.rest, t)
    <3> HIDE DEF s
    <3>1. QED BY <1>6, <1>7, <2>1, FulfilsNone
  <2>3. QED BY <1>3, <2>2 DEF Redo
<1>8. f.k \notin {"body", "loop", "retry", "step", "remock"}
  BY <1>3
<1> HIDE DEF f
<1>9. Ledger(<<f>> \o st, "run", x, n, t, b, sc)
  BY <1>3, <1>4, <1>5, <1>7, <1>8, LedgerPushes
<1>10. QED BY <1>9 DEF f

(* Two activations in place of the one on top. *)
LEMMA OwesTwo ==
  ASSUME NEW sc, Scripted(sc), NEW t, NEW x, NEW b, NEW u \in Seq(Frames), NEW q \in Entries, Owes(u, q, x, t, b, sc),
         NEW g \in Frames, Known(g, t, sc), Redo(g, q, x, t, sc),
         NEW h \in Frames, Known(h, t, sc), Redo(h, Owed(g, q, sc), x, t, sc)
  PROVE  /\ Owed(g, q, sc) \in Entries /\ Owed(h, Owed(g, q, sc), sc) \in Entries
         /\ Owes(<<h, g>> \o u, Owed(h, Owed(g, q, sc), sc), x, t, b, sc)
         /\ <<h, g>> \o u # <<>> /\ Head(<<h, g>> \o u) = h
<1> DEFINE r == Owed(g, q, sc)
           v == <<g>> \o u
<1>1. r \in Entries /\ Owes(v, r, x, t, b, sc) /\ v \in Seq(Frames)
  BY OwedIs, OwesMore
<1> HIDE DEF r, v
<1>2. Owed(h, r, sc) \in Entries /\ Owes(<<h>> \o v, Owed(h, r, sc), x, t, b, sc)
  BY <1>1, OwedIs, OwesMore DEF r
<1>3. <<h, g>> \o u = <<h>> \o v
  BY TwoInFront, SMTT(20) DEF v
<1>4. <<h>> \o v # <<>> /\ Head(<<h>> \o v) = h
  <2>1. Len(<<h>> \o v) > 0 /\ (<<h>> \o v)[1] = h /\ Len(v) \in Nat
    BY <1>1
  <2>2. QED BY <2>1
<1>5. QED BY <1>1, <1>2, <1>3, <1>4 DEF r

(* One more iteration. *)
LEMMA LedgerIterates ==
  ASSUME NEW sc, NEW t, NEW x, NEW b, NEW n, Setting(x, n, t, b, sc),
         NEW st, Fits(st), st # <<>>, NEW rt, Ledger(st, rt, x, n, t, b, sc),
         HasMore(Head(st)),
         (Head(st).k = "loop" /\ rt \in {"run", "ok"}) \/ Head(st).k = "retry",
         NEW g, g = [Head(st) EXCEPT !.left = @ - 1]
  PROVE  Ledger(<<Body(Head(st).s.body), g>> \o Tail(st), "run", x, n, t, b, sc)
<1> DEFINE f == Head(st)
           s == f.s
           c == s.body
           h == Body(c)
           v == <<h, g>> \o Tail(st)
<1>1. PICK p, q \in Entries :
        /\ TopEntry(st, p, q, x, t, b, sc) /\ Owes(st, p, x, t, b, sc)
        /\ Ready(st, rt, x, p, t) /\ Balanced(st, rt, x, p, n, t, sc)
  BY LedgerTop
<1> DEFINE r == Owed(g, q, sc)
           o == Owed(h, r, sc)
<1>2. /\ f \in Frames /\ p = Owed(f, q, sc) /\ Known(f, t, sc) /\ Redo(f, q, x, t, sc)
      /\ Owes(Tail(st), q, x, t, b, sc) /\ Scripted(sc) /\ Tail(st) \in Seq(Frames)
      /\ q.rest \subseteq Histories
  BY <1>1, PopFits DEF TopEntry, Setting, Entries, Fits
<1>3. /\ f \in [k : {"loop", "retry"}, s : Steps, left : Int]
      /\ s.op = f.k /\ f.left <= Count(s) /\ f.left > 0 /\ WellFormed(s)
      /\ Foretold(s, sc) /\ \A a \in DOMAIN t.times : Price(s, a, sc) <= t.times[a]
  BY <1>2, FrameKinds, StepsAssumption DEF BlockFrames, HasMore, Known
<1>4. s.n \in Int /\ Count(s) \in Int /\ f.left \in Int /\ s \in Steps /\ f.k \in {"loop", "retry"}
  BY <1>3 DEF WellFormed, Count
<1>5. g \in Frames /\ g.k = f.k /\ g.s = s /\ g.left = f.left - 1 /\ ~Redials(g)
  <2>1. g \in [k : {"loop", "retry"}, s : Steps, left : Int] /\ g.k = f.k /\ g.s = s /\ g.left = f.left - 1
    BY <1>3
  <2> HIDE DEF f
  <2>2. g \in BlockFrames
    BY <1>3, <1>4, <2>1 DEF BlockFrames
  <2>3. QED BY <1>4, <2>1, <2>2 DEF Frames, Redials
<1>6. c \in DOMAIN sc.ways /\ c \in Seq(Steps) /\ sc.ways[c] \subseteq Histories
  <2>1. c \in DOMAIN sc.ways /\ c \in Seq(Steps)
    BY <1>3, <1>4 DEF WellFormed, Foretold, Bodies
  <2>2. QED BY <1>2, <2>1, ScriptTypes
<1>7. h \in Frames /\ h.k = "body" /\ h.rest = c /\ ~Redials(h)
  BY <1>6, BodyIsFrame DEF Body
<1>8. \A a \in Ids : LET d == sc.cost[c][a]
                     IN  /\ d \in Nat /\ d <= Price(s, a, sc) /\ Price(s, a, sc) \in Nat
                         /\ RoundsCost(f.left, d) = d + RoundsCost(f.left - 1, d)
                         /\ RoundsCost(f.left - 1, d) \in Nat
  <2>1. ASSUME NEW a \in Ids, NEW d, d = sc.cost[c][a]
        PROVE  /\ d \in Nat /\ d <= Price(s, a, sc) /\ Price(s, a, sc) \in Nat
               /\ RoundsCost(f.left, d) = d + RoundsCost(f.left - 1, d)
               /\ RoundsCost(f.left - 1, d) \in Nat
    <3>1. d \in Nat
      BY <1>2, <1>6, <2>1, ScriptTypes
    <3>2. Price(s, a, sc) = RoundsCost(Count(s), d) /\ Count(s) > 0
      <4>1. Price(s, a, sc) = RoundsCost(Count(s), d)
        BY <1>3, <1>4, <2>1 DEF Price
      <4>2. Count(s) > 0
        <5> DEFINE m == Count(s)
                   l == f.left
        <5>1. m \in Int /\ l \in Int /\ l <= m /\ l > 0
          BY <1>3, <1>4, Zenon
        <5>2. m > 0
          <6> HIDE DEF m, l
          <6>1. QED BY <5>1
        <5>3. QED BY <5>2
      <4>3. QED BY <4>1, <4>2
    <3> DEFINE k == f.left
               m == Count(s)
    <3>3. k \in Int /\ k > 0 /\ k - 1 \in Int /\ m \in Int /\ m > 0
      BY <1>3, <1>4, <3>2
    <3> HIDE DEF k, m, f, s, c
    <3>4. d <= RoundsCost(m, d) /\ RoundsCost(m, d) \in Nat
      BY <3>1, <3>3, RoundsCostIs, SMTT(20)
    <3>5. RoundsCost(k, d) = d + RoundsCost(k - 1, d) /\ RoundsCost(k - 1, d) \in Nat
      BY <3>1, <3>3, RoundsCostIs, SMTT(20)
    <3> USE DEF k, m
    <3>6. QED BY <3>1, <3>2, <3>4, <3>5
  <2>2. QED BY <2>1
<1>9. Known(g, t, sc) /\ Known(h, t, sc)
  <2>1. Known(g, t, sc)
    BY <1>3, <1>4, <1>5 DEF Known
  <2>2. ASSUME NEW a \in DOMAIN t.times PROVE sc.cost[c][a] <= t.times[a]
    <3>1. a \in Ids /\ t.times[a] \in Nat /\ Price(s, a, sc) <= t.times[a]
      BY <1>3 DEF Setting, Foreseen
    <3>2. sc.cost[c][a] \in Nat /\ sc.cost[c][a] <= Price(s, a, sc) /\ Price(s, a, sc) \in Nat
      BY <1>8, <3>1
    <3>3. QED BY <3>1, <3>2
  <2>3. Known(h, t, sc)
    BY <1>6, <1>7, <2>2 DEF Known
  <2>4. QED BY <2>1, <2>3
<1>10. Redo(g, q, x, t, sc) /\ Redo(h, r, x, t, sc)
  <2>1. Redo(g, q, x, t, sc)
    BY <1>2, <1>4, <1>5 DEF Redo
  <2>2. Redo(h, r, x, t, sc)
    BY <1>7 DEF Redo
  <2>3. QED BY <2>1, <2>2
<1>11. r \in Entries /\ o \in Entries /\ Owes(v, o, x, t, b, sc) /\ v # <<>> /\ Head(v) = h
  <2> DEFINE u == Tail(st)
  <2>1. u \in Seq(Frames) /\ Owes(u, q, x, t, b, sc) /\ g \in Frames /\ h \in Frames
    BY <1>2, <1>5, <1>7
  <2> HIDE DEF h, u
  <2>2. /\ Owed(g, q, sc) \in Entries /\ Owed(h, Owed(g, q, sc), sc) \in Entries
        /\ Owes(<<h, g>> \o u, Owed(h, Owed(g, q, sc), sc), x, t, b, sc)
        /\ <<h, g>> \o u # <<>> /\ Head(<<h, g>> \o u) = h
    <3>1. Scripted(sc) /\ Known(g, t, sc) /\ Redo(g, q, x, t, sc) /\ Known(h, t, sc) /\ Redo(h, Owed(g, q, sc), x, t, sc)
      BY <1>2, <1>9, <1>10
    <3> HIDE DEF f
    <3>2. QED BY <2>1, <3>1, OwesTwo
  <2>3. QED BY <2>2, Zenon DEF u
<1>12. r.rest = Then(WordsOf(g, sc), q.rest) /\ o.rest = Then(sc.ways[c], r.rest)
  <2>1. r.rest = Then(WordsOf(g, sc), q.rest)
    BY <1>2, <1>5, <1>9, OwedIs
  <2>2. o.rest = Then(WordsOf(h, sc), r.rest)
    BY <1>2, <1>7, <1>9, <1>11, OwedIs
  <2>3. WordsOf(h, sc) = sc.ways[c]
    BY <1>7 DEF WordsOf
  <2>4. QED BY <2>1, <2>2, <2>3
<1>13. Fulfils(x, Then(sc.ways[c], r.rest), t)
  <2>1. CASE f.k = "loop"
    <3>1. Fulfils(x, Then(sc.rounds[<<c, f.left>>], q.rest), t)
      <4>1. WordsOf(f, sc) = sc.rounds[<<c, f.left>>]
        BY <1>3, <2>1 DEF WordsOf
      <4>2. p.rest = Then(WordsOf(f, sc), q.rest)
        BY <1>2, OwedIs
      <4>3. Fulfils(x, p.rest, t)
        BY <1>1, <2>1 DEF Ready
      <4>4. QED BY <4>1, <4>2, <4>3
    <3>2. Repeats(s, sc) /\ f.left \in 1..s.n /\ f.left - 1 \in 0..s.n
      <4>1. s.op = "loop" /\ f.left <= s.n /\ s.n > 0
        BY <1>3, <1>4, <2>1 DEF Count
      <4>2. QED BY <1>3, <1>4, <4>1 DEF Foretold
    <3>3. WordsOf(g, sc) \subseteq sc.rounds[<<c, f.left - 1>>]
      <4>1. CASE f.left - 1 > 0
        BY <1>5, <2>1, <4>1 DEF WordsOf
      <4>2. CASE f.left - 1 = 0
        <5>1. WordsOf(g, sc) = {<<>>}
          BY <1>5, <2>1, <4>2 DEF WordsOf
        <5>2. <<>> \in sc.rounds[<<c, f.left - 1>>]
          BY <3>2, <4>2 DEF Repeats
        <5>3. QED BY <5>1, <5>2
      <4>3. QED BY <1>3, <1>4, <4>1, <4>2
    <3>4. Then(sc.ways[c], WordsOf(g, sc)) \subseteq Then(sc.ways[c], sc.rounds[<<c, f.left - 1>>])
      BY <3>3, ThenPart
    <3>5. Then(sc.ways[c], sc.rounds[<<c, f.left - 1>>]) \subseteq sc.rounds[<<c, f.left>>]
      BY <3>2 DEF Repeats
    <3>6. WordsOf(g, sc) \subseteq Histories
      BY <1>2, <1>5, <1>9, FrameAsks
    <3>7. Then(sc.ways[c], WordsOf(g, sc)) \subseteq sc.rounds[<<c, f.left>>]
      BY <3>4, <3>5
    <3> HIDE DEF c, f
    <3>8. Fulfils(x, Then(sc.ways[c], Then(WordsOf(g, sc), q.rest)), t)
      BY <1>2, <1>6, <3>1, <3>6, <3>7, FulfilsBoth
    <3>9. QED BY <1>12, <3>8
  <2>2. CASE f.k = "retry"
    <3>1. WordsOf(g, sc) = {<<>>}
      BY <1>5, <2>2 DEF WordsOf
    <3>2. r.rest = q.rest
      BY <1>2, <1>12, <3>1, ThenNil
    <3>3. Fulfils(x, Then(sc.ways[c], q.rest), t)
      BY <1>2, <2>2 DEF Redo
    <3>4. QED BY <3>2, <3>3
  <2>3. QED BY <1>4, <2>1, <2>2
<1>14. Ready(v, "run", x, o, t)
  <2> HIDE DEF v, o, h
  <2>1. QED BY <1>7, <1>11, <1>12, <1>13 DEF Ready
<1>15. Balanced(v, "run", x, o, n, t, sc)
  <2>1. ASSUME NEW a \in DOMAIN t.times
        PROVE  Occurs(a, x) + o.due[a] + Extra(v, "run", a, sc) <= t.times[a] * (1 + n)
    <3> DEFINE d == sc.cost[c][a]
    <3>1. /\ a \in Ids /\ Occurs(a, x) \in Nat /\ t.times[a] * (1 + n) \in Nat /\ q.due[a] \in Nat
          /\ p.due[a] = PriceOf(f, a, sc) + q.due[a]
      BY <1>2, EntryNumbers
    <3>2. r.due[a] = PriceOf(g, a, sc) + q.due[a] /\ o.due[a] = PriceOf(h, a, sc) + r.due[a]
      BY <1>2, <1>5, <1>7, <1>9, <1>11, <3>1, OwedIs
    <3>3. PriceOf(f, a, sc) = RoundsCost(f.left, d) /\ PriceOf(g, a, sc) = RoundsCost(f.left - 1, d)
      BY <1>4, <1>5 DEF PriceOf
    <3>4. PriceOf(h, a, sc) = d
      BY <1>7 DEF PriceOf
    <3>5. d \in Nat /\ RoundsCost(f.left, d) = d + RoundsCost(f.left - 1, d) /\ RoundsCost(f.left - 1, d) \in Nat
      BY <1>8, <3>1
    <3>6. Extra(v, "run", a, sc) = 0 /\ Extra(st, rt, a, sc) = 0
      <4> HIDE DEF v, h
      <4>1. QED BY <1>4, <1>7, <1>11 DEF Extra
    <3>7. Occurs(a, x) + p.due[a] + Extra(st, rt, a, sc) <= t.times[a] * (1 + n)
      BY <1>1 DEF Balanced
    <3>8. o.due[a] = p.due[a] /\ p.due[a] \in Nat
      <4> HIDE DEF r, o, d, f
      <4>1. QED BY <3>1, <3>2, <3>3, <3>4, <3>5
    <3> HIDE DEF o, v
    <3>9. QED BY <3>1, <3>6, <3>7, <3>8
  <2> HIDE DEF o, v
  <2>2. QED BY <2>1 DEF Balanced
<1> HIDE DEF o, v, h, r
<1>16. Ledger(v, "run", x, n, t, b, sc)
  BY <1>11, <1>14, <1>15 DEF Ledger
<1>17. QED BY <1>16 DEF v, h

(* The next step of a body. *)
LEMMA LedgerNext ==
  ASSUME NEW sc, NEW t, NEW x, NEW b, NEW n, Setting(x, n, t, b, sc),
         NEW st, Fits(st), st # <<>>, NEW rt \in {"run", "ok"}, Ledger(st, rt, x, n, t, b, sc),
         Head(st).k = "body", Head(st).rest # <<>>
  PROVE  Ledger(<<Step(Head(Head(st).rest)), Body(Tail(Head(st).rest))>> \o Tail(st), "run", x, n, t, b, sc)
<1> DEFINE f == Head(st)
           d == f.rest
           s == Head(d)
           e == Tail(d)
           h == Step(s)
           g == Body(e)
           u == Tail(st)
           v == <<h, g>> \o u
<1>1. PICK p, q \in Entries :
        /\ TopEntry(st, p, q, x, t, b, sc) /\ Owes(st, p, x, t, b, sc)
        /\ Ready(st, rt, x, p, t) /\ Balanced(st, rt, x, p, n, t, sc)
  BY LedgerTop
<1> DEFINE r == Owed(g, q, sc)
<1>2. /\ f \in Frames /\ p = Owed(f, q, sc) /\ Known(f, t, sc) /\ Scripted(sc)
      /\ Owes(u, q, x, t, b, sc) /\ u \in Seq(Frames) /\ q.rest \subseteq Histories
  BY <1>1, PopFits DEF TopEntry, Setting, Entries, Fits
<1>3. d \in Seq(Steps) /\ d # <<>> /\ s \in Steps /\ e \in Seq(Steps)
  <2>1. f \in BodyFrames
    BY <1>2, FrameKinds
  <2>2. d \in Seq(Steps)
    BY <2>1 DEF BodyFrames
  <2>3. QED BY <2>2, HeadTailProperties
<1>4. d \in DOMAIN sc.ways /\ \A a \in DOMAIN t.times : sc.cost[d][a] <= t.times[a]
  BY <1>2 DEF Known
<1>5. /\ e \in DOMAIN sc.ways /\ Foretold(s, sc)
      /\ Then(Asks(s, sc), sc.ways[e]) \subseteq sc.ways[d]
      /\ \A a \in Ids : Price(s, a, sc) + sc.cost[e][a] <= sc.cost[d][a]
  <2>1. Foretells(sc, d)
    BY <1>2, <1>4 DEF Scripted
  <2> HIDE DEF d
  <2>2. QED BY <1>3, <2>1 DEF Foretells, Foretold
<1>6. /\ Asks(s, sc) \subseteq Histories /\ sc.ways[e] \subseteq Histories
      /\ \A a \in Ids : Price(s, a, sc) \in Nat /\ sc.cost[e][a] \in Nat /\ sc.cost[d][a] \in Nat
  <2> HIDE DEF d
  <2>1. QED BY <1>2, <1>3, <1>4, <1>5, StepAsks, ScriptTypes
<1>7. h \in Frames /\ h.k = "step" /\ h.s = s /\ g \in Frames /\ g.k = "body" /\ g.rest = e
  <2>1. h \in Frames /\ g \in Frames
    BY <1>3, StepIsFrame, BodyIsFrame
  <2>2. QED BY <2>1 DEF Step, Body
<1>8. Known(g, t, sc) /\ Known(h, t, sc)
  <2>1. ASSUME NEW a \in DOMAIN t.times PROVE sc.cost[e][a] <= t.times[a] /\ Price(s, a, sc) <= t.times[a]
    <3>1. a \in Ids /\ t.times[a] \in Nat /\ sc.cost[d][a] <= t.times[a]
      BY <1>4 DEF Setting, Foreseen
    <3>2. Price(s, a, sc) \in Nat /\ sc.cost[e][a] \in Nat /\ sc.cost[d][a] \in Nat
          /\ Price(s, a, sc) + sc.cost[e][a] <= sc.cost[d][a]
      BY <1>5, <1>6, <3>1
    <3> HIDE DEF d, e, s
    <3>3. QED BY <3>1, <3>2
  <2> HIDE DEF g, h, s, e
  <2>2. QED BY <1>5, <1>7, <2>1 DEF Known
<1>9. r \in Entries /\ r.rest = Then(sc.ways[e], q.rest)
  <2>1. WordsOf(g, sc) = sc.ways[e]
    BY <1>7 DEF WordsOf
  <2> HIDE DEF g
  <2>2. QED BY <1>2, <1>7, <1>8, <2>1, OwedIs
<1>10. Redo(g, q, x, t, sc)
  BY <1>7 DEF Redo, Redials
<1>11. Redo(h, r, x, t, sc)
  <2>1. Fulfils(x, Then(sc.ways[d], q.rest), t)
    <3>1. Fulfils(x, p.rest, t)
      BY <1>1 DEF Ready
    <3>2. WordsOf(f, sc) = sc.ways[d]
      BY DEF WordsOf
    <3> HIDE DEF f
    <3>3. QED BY <1>2, <3>1, <3>2, OwedIs
  <2>2. Fulfils(x, Then(Asks(s, sc), Then(sc.ways[e], q.rest)), t)
    <3> HIDE DEF d, e, s
    <3>1. QED BY <1>2, <1>5, <1>6, <2>1, FulfilsBoth
  <2> HIDE DEF r, h
  <2>3. QED BY <1>7, <1>9, <2>2 DEF Redo, Redials
<1> HIDE DEF h, g, u, e, s, d, f
<1>12. Owed(h, r, sc) = r
  <2> HIDE DEF r
  <2>1. QED BY <1>7, <1>9, OwedBySame
<1>13. Owes(v, r, x, t, b, sc) /\ v # <<>> /\ Head(v) = h
  <2>1. /\ Owes(<<h, g>> \o u, Owed(h, Owed(g, q, sc), sc), x, t, b, sc)
        /\ <<h, g>> \o u # <<>> /\ Head(<<h, g>> \o u) = h
    BY <1>2, <1>7, <1>8, <1>10, <1>11, OwesTwo
  <2>2. QED BY <1>12, <2>1, Zenon
<1>14. Ready(v, "run", x, r, t)
  <2> HIDE DEF v, r
  <2>1. QED BY <1>7, <1>13 DEF Ready
<1>15. Balanced(v, "run", x, r, n, t, sc)
  <2>1. ASSUME NEW a \in DOMAIN t.times
        PROVE  Occurs(a, x) + r.due[a] + Extra(v, "run", a, sc) <= t.times[a] * (1 + n)
    <3>1. /\ a \in Ids /\ Occurs(a, x) \in Nat /\ t.times[a] * (1 + n) \in Nat /\ q.due[a] \in Nat
          /\ p.due[a] = PriceOf(f, a, sc) + q.due[a]
      BY <1>2, EntryNumbers
    <3>2. r.due[a] = PriceOf(g, a, sc) + q.due[a]
      BY <1>2, <1>7, <1>8, <3>1, OwedIs
    <3>3. PriceOf(f, a, sc) = sc.cost[d][a] /\ PriceOf(g, a, sc) = sc.cost[e][a]
      BY <1>7 DEF PriceOf, f, d
    <3>4. Price(s, a, sc) \in Nat /\ sc.cost[e][a] \in Nat /\ sc.cost[d][a] \in Nat
          /\ Price(s, a, sc) + sc.cost[e][a] <= sc.cost[d][a]
      BY <1>5, <1>6, <3>1
    <3>5. Extra(v, "run", a, sc) = Price(s, a, sc) /\ Extra(st, rt, a, sc) = 0
      <4>1. Extra(st, rt, a, sc) = 0
        BY DEF Extra
      <4> HIDE DEF v
      <4>2. QED BY <1>7, <1>13, <4>1 DEF Extra
    <3>6. Occurs(a, x) + p.due[a] + Extra(st, rt, a, sc) <= t.times[a] * (1 + n)
      BY <1>1 DEF Balanced
    <3> DEFINE T == t.times[a] * (1 + n)
               D == sc.cost[d][a]
               G == sc.cost[e][a]
               P == Price(s, a, sc)
    <3>7. /\ T \in Nat /\ D \in Nat /\ G \in Nat /\ P \in Nat /\ P + G <= D
          /\ p.due[a] = D + q.due[a] /\ r.due[a] = G + q.due[a] /\ Extra(v, "run", a, sc) = P
          /\ Extra(st, rt, a, sc) = 0 /\ Occurs(a, x) + p.due[a] + Extra(st, rt, a, sc) <= T
      BY <3>1, <3>2, <3>3, <3>4, <3>5, <3>6, Zenon
    <3> DEFINE O == Occurs(a, x)
               Q == q.due[a]
    <3>8. O \in Nat /\ Q \in Nat
      BY <3>1
    <3>9. O + (D + Q) <= T
      BY <3>1, <3>7
    <3>10. O + (G + Q) + P <= T
      <4> HIDE DEF T, D, G, P, O, Q
      <4>1. QED BY <3>7, <3>8, <3>9
    <3>11. QED BY <3>7, <3>10, Zenon
  <2> HIDE DEF r, v
  <2>2. QED BY <2>1 DEF Balanced
<1> HIDE DEF r, v
<1>16. Ledger(v, "run", x, n, t, b, sc)
  BY <1>9, <1>13, <1>14, <1>15 DEF Ledger
<1>17. QED BY <1>16 DEF v, h, g, u, e, s, d, f

(* A step that lost its connection is kept while the app is dialled. *)
LEMMA LedgerRedials ==
  ASSUME NEW sc, NEW t, NEW x, NEW b, NEW n, Setting(x, n, t, b, sc),
         NEW st, Fits(st), st # <<>>, Head(st).k = "step", Ledger(st, "conn", x, n, t, b, sc),
         NEW g, g = [Head(st) EXCEPT !.n = @ + 1], g \in Frames
  PROVE  Ledger(<<Redial("auto"), g>> \o Tail(st), "run", x, n, t, b, sc)
<1> DEFINE f == Head(st)
           h == Redial("auto")
           u == Tail(st)
           v == <<h, g>> \o u
<1>1. PICK p, q \in Entries :
        /\ TopEntry(st, p, q, x, t, b, sc) /\ Owes(st, p, x, t, b, sc)
        /\ Ready(st, "conn", x, p, t) /\ Balanced(st, "conn", x, p, n, t, sc)
  BY LedgerTop
<1>2. /\ f \in Frames /\ Known(f, t, sc) /\ Redo(f, q, x, t, sc) /\ Scripted(sc)
      /\ Owes(u, q, x, t, b, sc) /\ u \in Seq(Frames) /\ p = q
  <2>1. f \in Frames /\ u \in Seq(Frames)
    BY PopFits DEF Fits
  <2>2. QED BY <1>1, <2>1, OwedBySame DEF TopEntry, Setting
<1>3. g.k = "step" /\ g.s = f.s
  <2>1. f \in StepFrames
    BY <1>2, FrameKinds
  <2>2. QED BY <2>1 DEF StepFrames
<1>4. h \in Frames /\ h.k = "dial" /\ h.what = "auto"
  BY DEF Redial, Frames, DialFrames, Handlers
<1>5. Known(g, t, sc) /\ Known(h, t, sc)
  BY <1>2, <1>3, <1>4 DEF Known
<1>6. Redo(g, q, x, t, sc) /\ Redo(h, q, x, t, sc)
  BY <1>2, <1>3, <1>4 DEF Redo, Redials
<1> HIDE DEF h, u, f
<1>7. Owed(g, q, sc) = q /\ Owed(h, q, sc) = q
  BY <1>3, <1>4, OwedBySame
<1>8. Owes(v, q, x, t, b, sc) /\ v # <<>> /\ Head(v) = h
  <2>1. /\ Owes(<<h, g>> \o u, Owed(h, Owed(g, q, sc), sc), x, t, b, sc)
        /\ <<h, g>> \o u # <<>> /\ Head(<<h, g>> \o u) = h
    BY <1>2, <1>4, <1>5, <1>6, <1>7, OwesTwo
  <2>2. QED BY <1>7, <2>1, Zenon
<1> HIDE DEF v
<1>9. Ready(v, "run", x, q, t)
  BY <1>4, <1>8 DEF Ready
<1>10. Balanced(v, "run", x, q, n, t, sc)
  <2>1. \A a \in DOMAIN t.times : Extra(v, "run", a, sc) = 0 /\ Extra(st, "conn", a, sc) = 0
    BY <1>4, <1>8 DEF Extra
  <2>2. QED BY <1>1, <1>2, <2>1 DEF Balanced
<1>11. Ledger(v, "run", x, n, t, b, sc)
  BY <1>8, <1>9, <1>10 DEF Ledger
<1>12. QED BY <1>11 DEF v, h, u

(* What comes after the body, and after the hooks. *)
Bottom(sc) ==
  IF phase = "body" THEN [rest |-> {<<>>}, due |-> sc.cost[Test.after]]
                    ELSE [rest |-> {}, due |-> [a \in Ids |-> 0]]

Down == IF conn # "up" THEN 1 ELSE 0

(* The stack's ledger balances, each reconnect paid for by a lost connection. *)
ScriptInv(sc) ==
  /\ phase \in {"begin", "done"} => stack = <<>>
  /\ Down <= cuts
  /\ phase # "begin" => \E n \in Nat : n + Down <= cuts /\ Ledger(stack, ret, ran, n, Test, Bottom(sc), sc)
  /\ phase = "after" /\ verdict = "ok" => Covers(ran, Test)

-----------------------------------------------------------------------------
(* The script foresees the test that runs. *)
LEMMA TestForeseen ==
  ASSUME NEW sc, Scripted(sc), Typed
  PROVE  Foreseen(Test, sc) /\ sc.cost[Test.after] \in [Ids -> Nat] /\ sc.ways[Test.body] \subseteq Histories
<1>1. plan \in Plans /\ cur \in 1..Len(plan) /\ Test = plan[cur]
  BY DEF Typed, Test
<1>2. Foreseen(Test, sc)
  BY <1>1 DEF Scripted, Foreseen, Covers
<1>3. Test.after \in DOMAIN sc.ways /\ Test.body \in DOMAIN sc.ways
  BY <1>2 DEF Foreseen
<1>4. QED BY <1>2, <1>3, ScriptTypes

(* What comes after it all is an entry. *)
LEMMA BottomIs ==
  ASSUME NEW sc, Scripted(sc), Typed
  PROVE  Bottom(sc) \in Entries
<1>1. {<<>>} \in SUBSET Histories /\ {} \in SUBSET Histories
  BY EmptySeq DEF Histories
<1>2. sc.cost[Test.after] \in [Ids -> Nat] /\ [a \in Ids |-> 0] \in [Ids -> Nat]
  BY TestForeseen
<1>3. QED BY <1>1, <1>2 DEF Bottom, Entries

(* The ledger inside an attempt. *)
LEMMA Inside ==
  ASSUME NEW sc, Scripted(sc), ExecInv, ScriptInv(sc), phase # "begin"
  PROVE  /\ Fits(stack)
         /\ \E n \in Nat : /\ n + Down <= cuts /\ Setting(ran, n, Test, Bottom(sc), sc)
                           /\ Ledger(stack, ret, ran, n, Test, Bottom(sc), sc)
<1>1. Typed /\ Fits(stack)
  BY DEF ExecInv
<1>2. PICK n \in Nat : n + Down <= cuts /\ Ledger(stack, ret, ran, n, Test, Bottom(sc), sc)
  BY DEF ScriptInv
<1>3. ran \in Histories
  BY <1>1 DEF Typed, Histories, Ids
<1>4. Setting(ran, n, Test, Bottom(sc), sc)
  BY <1>1, <1>3, TestForeseen, BottomIs DEF Setting
<1>5. QED BY <1>1, <1>2, <1>4

(* A lost connection pays for one reconnect. *)
LEMMA LinkPays ==
  ASSUME Typed, NEW n \in Nat, n + Down <= cuts, (\E f \in Fate : Meets(f)) \/ Close \/ UNCHANGED link
  PROVE  n + Down' <= cuts'
<1>1. cuts \in Nat /\ conn \in {"up", "lost", "closed"}
  BY DEF Typed
<1>2. CASE UNCHANGED link
  BY <1>2 DEF Down, link
<1>3. CASE Close
  BY <1>1, <1>3 DEF Down, Close
<1>4. ASSUME NEW f \in Fate, Meets(f) PROVE n + Down' <= cuts'
  BY <1>1, <1>4 DEF Down, Meets, link
<1>5. QED BY <1>2, <1>3, <1>4

(* A step of an activation that keeps the ledger. *)
Keeps(n, sc) == Ledger(stack', ret', ran', n, Test, Bottom(sc), sc)

(* Such a step keeps the invariant ... *)
LEMMA ScriptKeeps ==
  ASSUME NEW sc, ScriptInv(sc), Typed, UNCHANGED test, phase \in {"body", "after"},
         (\E f \in Fate : Meets(f)) \/ Close \/ UNCHANGED link,
         NEW n \in Nat, n + Down' <= cuts', Keeps(n, sc),
         phase = "after" /\ verdict = "ok" => Covers(ran', Test)
  PROVE  ScriptInv(sc)'
<1>1. Test' = Test /\ phase' = phase /\ verdict' = verdict
  BY DEF Test, test
<1>2. Bottom(sc)' = Bottom(sc)
  BY <1>1 DEF Bottom
<1>3. Down' <= cuts'
  <2>1. 0 + Down <= cuts
    BY DEF ScriptInv, Down
  <2>2. 0 + Down' <= cuts'
    BY <2>1, LinkPays
  <2>3. QED BY <2>2 DEF Down
<1>4. Ledger(stack', ret', ran', n, Test', Bottom(sc)', sc)
  BY <1>1, <1>2 DEF Keeps
<1>5. QED BY <1>1, <1>3, <1>4 DEF ScriptInv

(* ... and does nothing in the app. *)
LEMMA ScriptStays ==
  ASSUME NEW sc, Scripted(sc), ExecInv, ScriptInv(sc), UNCHANGED <<test, ran>>, stack # <<>>,
         (\E f \in Fate : Meets(f)) \/ Close \/ UNCHANGED link,
         \A n \in Nat : /\ Setting(ran, n, Test, Bottom(sc), sc)
                        /\ Ledger(stack, ret, ran, n, Test, Bottom(sc), sc)
                        => Keeps(n, sc)
  PROVE  ScriptInv(sc)'
<1>1. phase \in {"body", "after"} /\ Typed
  BY DEF ScriptInv, ExecInv, Typed
<1>2. PICK n \in Nat : /\ n + Down <= cuts /\ Setting(ran, n, Test, Bottom(sc), sc)
                       /\ Ledger(stack, ret, ran, n, Test, Bottom(sc), sc)
  BY <1>1, Inside
<1>3. Keeps(n, sc)
  BY <1>2
<1>4. n + Down' <= cuts'
  BY <1>1, <1>2, LinkPays
<1>5. UNCHANGED test /\ (phase = "after" /\ verdict = "ok" => Covers(ran', Test))
  BY DEF ScriptInv
<1>6. QED BY <1>1, <1>3, <1>4, <1>5, ScriptKeeps

-----------------------------------------------------------------------------
(* A test or its hooks start. *)
LEMMA LedgerStarts ==
  ASSUME NEW sc, NEW t, NEW x, NEW b, NEW n, Setting(x, n, t, b, sc),
         NEW c \in Seq(Steps), c \in DOMAIN sc.ways,
         Fulfils(x, Then(sc.ways[c], b.rest), t),
         \A a \in DOMAIN t.times : /\ sc.cost[c][a] <= t.times[a]
                                   /\ Occurs(a, x) + (sc.cost[c][a] + b.due[a]) <= t.times[a] * (1 + n)
  PROVE  Ledger(<<Body(c)>>, "run", x, n, t, b, sc)
<1> DEFINE f == Body(c)
           e == <<>>
           p == Owed(f, b, sc)
           v == <<f>> \o e
<1>1. f \in Frames /\ f.k = "body" /\ f.rest = c
  BY BodyIsFrame DEF Body
<1>2. Scripted(sc) /\ b \in Entries /\ Known(f, t, sc) /\ Redo(f, b, x, t, sc)
  BY <1>1 DEF Setting, Known, Redo, Redials
<1>3. e \in Seq(Frames) /\ Owes(e, b, x, t, b, sc)
  BY <1>2, OwesNothing, EmptySeq
<1>4. v = <<f>>
  <2> HIDE DEF f
  <2>1. QED BY <1>1
<1> HIDE DEF f, e
<1>5. p \in Entries /\ Owes(v, p, x, t, b, sc)
  BY <1>1, <1>2, <1>3, OwedIs, OwesMore
<1>6. p.rest = Then(sc.ways[c], b.rest)
  <2>1. WordsOf(f, sc) = sc.ways[c]
    BY <1>1 DEF WordsOf
  <2>2. QED BY <1>1, <1>2, <2>1, OwedIs
<1>7. v # <<>> /\ Head(v) = f
  BY <1>4
<1> HIDE DEF v
<1>8. Ready(v, "run", x, p, t)
  <2> HIDE DEF p
  <2>1. QED BY <1>1, <1>6, <1>7 DEF Ready
<1>9. Balanced(v, "run", x, p, n, t, sc)
  <2>1. ASSUME NEW a \in DOMAIN t.times
        PROVE  Occurs(a, x) + p.due[a] + Extra(v, "run", a, sc) <= t.times[a] * (1 + n)
    <3>1. /\ Occurs(a, x) \in Nat /\ t.times[a] * (1 + n) \in Nat /\ b.due[a] \in Nat /\ PriceOf(f, a, sc) \in Nat
          /\ p.due[a] = PriceOf(f, a, sc) + b.due[a]
      BY <1>1, <1>2, EntryNumbers
    <3>2. PriceOf(f, a, sc) = sc.cost[c][a]
      BY <1>1 DEF PriceOf
    <3>3. Extra(v, "run", a, sc) = 0
      BY <1>1, <1>7 DEF Extra
    <3>4. Occurs(a, x) + (sc.cost[c][a] + b.due[a]) <= t.times[a] * (1 + n)
      OBVIOUS
    <3> HIDE DEF p
    <3>5. QED BY <3>1, <3>2, <3>3, <3>4
  <2> HIDE DEF p
  <2>2. QED BY <2>1 DEF Balanced
<1> HIDE DEF p
<1>10. Ledger(v, "run", x, n, t, b, sc)
  BY <1>5, <1>8, <1>9 DEF Ledger
<1>11. QED BY <1>4, <1>10 DEF f

(* The steps of the executor keep it: an attempt begins. *)
LEMMA BeginScript ==
  ASSUME NEW sc, Scripted(sc), ExecInv, ScriptInv(sc), BeginAttempt
  PROVE  ScriptInv(sc)'
<1> DEFINE b == [rest |-> {<<>>}, due |-> sc.cost[Test.after]]
           e == <<>>
           c == Test.body
           d == Test.after
<1>1. /\ Test' = Test /\ phase' = "body" /\ ran' = e /\ ret' = "run" /\ stack' = <<Body(c)>>
      /\ \E f \in Fate : Meets(f)
  BY DEF BeginAttempt, Test
<1>2. Typed /\ Foreseen(Test, sc) /\ c \in Seq(Steps) /\ sc.cost[d] \in [Ids -> Nat] /\ sc.ways[c] \subseteq Histories
  BY TestForeseen, TestHasBodies DEF ExecInv
<1>3. c \in DOMAIN sc.ways /\ sc.cost[c] \in [Ids -> Nat]
  BY <1>2, ScriptTypes DEF Foreseen
<1>4. e \in Histories /\ {e} \subseteq Histories /\ b \in Entries
  <2>1. e \in Histories
    BY EmptySeq DEF Histories
  <2>2. b \in Entries
    <3>1. {e} \in SUBSET Histories
      BY <2>1
    <3>2. QED BY <1>2, <3>1 DEF Entries
  <2>3. QED BY <2>1, <2>2
<1>5. Setting(e, 0, Test, b, sc)
  BY <1>2, <1>4 DEF Setting
<1>6. Fulfils(e, Then(sc.ways[c], {e}), Test)
  <2> HIDE DEF e, c
  <2>1. SUFFICES ASSUME NEW y \in Then(sc.ways[c], {e}) PROVE Covers(e \o y, Test)
    BY DEF Fulfils
  <2>2. PICK u \in sc.ways[c], w \in {e} : y = u \o w
    BY OfThen
  <2>3. e \o y = u /\ u \in Histories
    <3>1. u \in Histories /\ w = e
      BY <1>2
    <3>2. u \o e = u /\ e \o u = u
      BY <1>4, <3>1, WordLaws DEF e
    <3>3. QED BY <2>2, <3>1, <3>2
  <2>4. Covers(u, Test)
    BY <1>2 DEF Foreseen, c
  <2>5. QED BY <2>3, <2>4
<1>7. ASSUME NEW a \in DOMAIN Test.times
      PROVE  /\ sc.cost[c][a] <= Test.times[a]
             /\ Occurs(a, e) + (sc.cost[c][a] + b.due[a]) <= Test.times[a] * (1 + 0)
  <2>1. a \in Ids /\ Test.times[a] \in Nat /\ sc.cost[c][a] + sc.cost[d][a] <= Test.times[a]
    BY <1>2 DEF Foreseen
  <2>2. sc.cost[c][a] \in Nat /\ sc.cost[d][a] \in Nat
    BY <1>2, <1>3, <2>1
  <2>3. Occurs(a, e) = 0
    BY OccursNone
  <2>4. Test.times[a] * (1 + 0) = Test.times[a]
    BY <2>1
  <2>5. b.due[a] = sc.cost[d][a]
    OBVIOUS
  <2> HIDE DEF b, c, d, e
  <2>6. QED BY <2>1, <2>2, <2>3, <2>4, <2>5
<1>8. Ledger(<<Body(c)>>, "run", e, 0, Test, b, sc)
  <2>1. b.rest = {e}
    OBVIOUS
  <2> HIDE DEF c, d, e, b
  <2>2. QED BY <1>2, <1>3, <1>5, <1>6, <1>7, <2>1, LedgerStarts
<1>9. Bottom(sc)' = b
  BY <1>1 DEF Bottom
<1>10. 0 + Down' <= cuts' /\ Down' <= cuts'
  <2>1. 0 + Down <= cuts
    BY DEF ScriptInv, Down
  <2>2. 0 + Down' <= cuts'
    BY <1>1, <1>2, <2>1, LinkPays
  <2>3. QED BY <2>2 DEF Down
<1>11. Ledger(stack', ret', ran', 0, Test', Bottom(sc)', sc)
  <2> HIDE DEF b, e, c
  <2>1. QED BY <1>1, <1>8, <1>9
<1>12. QED BY <1>1, <1>10, <1>11 DEF ScriptInv

(* The body ends: it has done what the script asks for. *)
LEMMA EndBodyScript ==
  ASSUME NEW sc, Scripted(sc), ExecInv, ScriptInv(sc), EndBody
  PROVE  ScriptInv(sc)'
<1> DEFINE b == [rest |-> {}, due |-> [a \in Ids |-> 0]]
           e == <<>>
           d == Test.after
<1>1. /\ phase = "body" /\ stack = e /\ Test' = Test /\ phase' = "after" /\ verdict' = ret /\ UNCHANGED link
      /\ ran' = ran /\ ret' = "run" /\ stack' = <<Body(d)>>
  BY DEF EndBody, Test, hist
<1>2. Typed /\ Foreseen(Test, sc) /\ d \in Seq(Steps) /\ sc.cost[d] \in [Ids -> Nat]
  BY TestForeseen, TestHasBodies DEF ExecInv
<1>3. d \in DOMAIN sc.ways /\ Test.body \in DOMAIN sc.ways
  BY <1>2 DEF Foreseen
<1>4. PICK n \in Nat : /\ n + Down <= cuts /\ Setting(ran, n, Test, Bottom(sc), sc)
                       /\ Ledger(e, ret, ran, n, Test, Bottom(sc), sc)
  BY <1>1, Inside
<1>5. /\ Ready(e, ret, ran, Bottom(sc), Test) /\ Balanced(e, ret, ran, Bottom(sc), n, Test, sc)
  BY <1>4, NothingOwed DEF Ledger
<1>6. Bottom(sc) = [rest |-> {e}, due |-> sc.cost[d]]
  BY <1>1 DEF Bottom
<1>7. ran \in Histories
  BY <1>4 DEF Setting
<1>8. ret = "ok" => Covers(ran, Test)
  <2>1. SUFFICES ASSUME ret = "ok" PROVE Covers(ran, Test)
    OBVIOUS
  <2>2. Fulfils(ran, {e}, Test)
    BY <1>5, <1>6, <2>1 DEF Ready
  <2>3. ran \o e = ran
    BY <1>7, WordLaws
  <2>4. QED BY <2>2, <2>3 DEF Fulfils
<1>9. b \in Entries /\ Setting(ran, n, Test, b, sc)
  BY <1>2, <1>7 DEF Setting, Entries
<1>10. Fulfils(ran, Then(sc.ways[d], b.rest), Test)
  <2>1. ASSUME NEW y \in Then(sc.ways[d], {}) PROVE FALSE
    BY OfThen
  <2>2. QED BY <2>1 DEF Fulfils
<1>11. ASSUME NEW a \in DOMAIN Test.times
       PROVE  /\ sc.cost[d][a] <= Test.times[a]
              /\ Occurs(a, ran) + (sc.cost[d][a] + b.due[a]) <= Test.times[a] * (1 + n)
  <2>1. a \in Ids /\ Test.times[a] \in Nat /\ sc.cost[Test.body][a] + sc.cost[d][a] <= Test.times[a]
    BY <1>2 DEF Foreseen
  <2>2. sc.cost[Test.body][a] \in Nat /\ sc.cost[d][a] \in Nat
    BY <1>3, <2>1, ScriptTypes
  <2>3. Occurs(a, ran) + sc.cost[d][a] + Extra(e, ret, a, sc) <= Test.times[a] * (1 + n)
    BY <1>5, <1>6 DEF Balanced
  <2>4. Extra(e, ret, a, sc) = 0 /\ b.due[a] = 0
    BY <2>1 DEF Extra
  <2>5. Occurs(a, ran) \in Nat /\ Test.times[a] * (1 + n) \in Nat
    <3>1. Occurs(a, ran) \in Nat
      BY <1>7, <2>1, OccursMore
    <3>2. 1 + n \in Nat
      OBVIOUS
    <3>3. QED BY <2>1, <3>1, <3>2
  <2> HIDE DEF b, d, e
  <2>6. QED BY <2>1, <2>2, <2>3, <2>4, <2>5
<1>12. Ledger(<<Body(d)>>, "run", ran, n, Test, b, sc)
  <2> HIDE DEF b, d
  <2>1. QED BY <1>2, <1>3, <1>9, <1>10, <1>11, LedgerStarts
<1>13. Bottom(sc)' = b
  BY <1>1 DEF Bottom
<1>14. n + Down' <= cuts' /\ Down' <= cuts'
  BY <1>1, <1>4 DEF ScriptInv, Down, link
<1>15. Ledger(stack', ret', ran', n, Test', Bottom(sc)', sc)
  <2> HIDE DEF b, d
  <2>1. QED BY <1>1, <1>12, <1>13
<1>16. QED BY <1>1, <1>8, <1>14, <1>15 DEF ScriptInv

(* The attempt ends. *)
LEMMA EndAttemptScript ==
  ASSUME NEW sc, Scripted(sc), ExecInv, ScriptInv(sc), EndAttempt
  PROVE  ScriptInv(sc)'
<1> DEFINE e == <<>>
<1>1. /\ phase = "after" /\ stack = e /\ stack' = e /\ ran' = ran /\ ret' = "run" /\ UNCHANGED link
      /\ phase' = "begin" \/ (phase' = "done" /\ Test' = Test)
  BY DEF EndAttempt, hist, Test
<1>2. Down' <= cuts'
  BY <1>1 DEF ScriptInv, Down, link
<1>3. CASE phase' = "begin"
  BY <1>1, <1>2, <1>3 DEF ScriptInv
<1>4. CASE phase' = "done"
  <2>1. PICK n \in Nat : /\ n + Down <= cuts /\ Setting(ran, n, Test, Bottom(sc), sc)
                         /\ Ledger(e, ret, ran, n, Test, Bottom(sc), sc)
    BY <1>1, Inside
  <2>2. Bottom(sc)' = Bottom(sc) /\ Test' = Test
    BY <1>1, <1>4 DEF Bottom
  <2>3. Ledger(e, "run", ran, n, Test, Bottom(sc), sc)
    BY <2>1 DEF Ledger, Ready, Balanced, Extra
  <2>4. n + Down' <= cuts'
    BY <1>1, <2>1 DEF Down, link
  <2>5. Ledger(stack', ret', ran', n, Test', Bottom(sc)', sc)
    <3> HIDE DEF e
    <3>1. QED BY <1>1, <2>2, <2>3
  <2>6. QED BY <1>1, <1>2, <1>4, <2>4, <2>5 DEF ScriptInv
<1>5. QED BY <1>1, <1>3, <1>4

(* More acts still cover what was wanted. *)
LEMMA CoversGrows ==
  ASSUME NEW x \in Histories, NEW a \in Ids, NEW t, Covers(x, t)
  PROVE  Covers(Append(x, a), t)
<1> DEFINE e == <<>>
           y == Append(x, a)
<1>1. x \o e = x /\ y \in Histories
  BY WordLaws, OneAct
<1>2. y \o e = y
  BY <1>1, WordLaws
<1>3. {e} \subseteq Histories
  BY EmptySeq DEF Histories
<1> HIDE DEF e, y
<1>4. Fulfils(x, {e}, t)
  BY <1>1 DEF Fulfils
<1>5. Fulfils(y, {e}, t)
  BY <1>3, <1>4, FulfilsGrows DEF y
<1>6. QED BY <1>2, <1>5 DEF Fulfils, y

(* The step on top and the ledger. *)
Standing(n, sc) ==
  Setting(ran, n, Test, Bottom(sc), sc) /\ Ledger(stack, ret, ran, n, Test, Bottom(sc), sc)

(* An answer keeps the ledger ... *)
LEMMA AnswerKeeps ==
  ASSUME NEW sc, Fits(stack), stack # <<>>, Top.k = "step", NEW n \in Nat, Standing(n, sc),
         NEW e \in {"ok", "conn", "fail"}, Answer(e), UNCHANGED ran, e = "ok" => <<>> \in Asks(Top.s, sc)
  PROVE  Keeps(n, sc)
<1>1. Ledger(stack, e, ran, n, Test, Bottom(sc), sc)
  BY LedgerAnswers DEF Standing, Top
<1>2. QED BY <1>1 DEF Keeps, Answer

(* ... dialling for a lifecycle step ... *)
LEMMA DialKeeps ==
  ASSUME NEW sc, Fits(stack), stack # <<>>, Top.k = "step", ret = "run", NEW n \in Nat, Standing(n, sc),
         NEW w \in Handlers \ {"auto"}, Top.s.op = w, Enter(Redial(w)), UNCHANGED ran
  PROVE  Keeps(n, sc)
<1>1. Ledger(<<Redial(w)>> \o stack, "run", ran, n, Test, Bottom(sc), sc)
  BY LedgerDials DEF Standing, Top
<1>2. QED BY <1>1 DEF Keeps, Enter

(* ... an error ... *)
LEMMA FailKeeps ==
  ASSUME NEW sc, Fits(stack), stack # <<>>, NEW n \in Nat, Standing(n, sc),
         NEW e \in {"conn", "fail", "gone"}, Return(e), UNCHANGED ran
  PROVE  Keeps(n, sc)
<1>1. Ledger(Tail(stack), e, ran, n, Test, Bottom(sc), sc)
  BY LedgerFails DEF Standing
<1>2. QED BY <1>1 DEF Keeps, Return

(* ... the end of an activation ... *)
LEMMA OverKeeps ==
  ASSUME NEW sc, Fits(stack), stack # <<>>, NEW n \in Nat, Standing(n, sc),
         Over(stack, ret), Return("ok"), UNCHANGED ran
  PROVE  Keeps(n, sc)
<1>1. Ledger(Tail(stack), "ok", ran, n, Test, Bottom(sc), sc)
  BY LedgerReturns DEF Standing
<1>2. QED BY <1>1 DEF Keeps, Return

(* ... going on with a reconnect ... *)
LEMMA BecomeKeeps ==
  ASSUME NEW sc, Fits(stack), stack # <<>>, Redials(Top), NEW n \in Nat, Standing(n, sc),
         NEW f \in Frames, Redials(f), f.what = Top.what, Become(f), UNCHANGED ran,
         NEW m \in Nat, m = n \/ m = n + 1,
         f.k = "remock" /\ f.what = "auto" => m = n + 1 \/ Top.k = "remock"
  PROVE  Keeps(m, sc)
<1>1. Ledger(<<f>> \o Tail(stack), "run", ran, m, Test, Bottom(sc), sc)
  BY LedgerBecomes DEF Standing, Top
<1>2. QED BY <1>1 DEF Keeps, Become

(* ... and one more round. *)
LEMMA IterateKeeps ==
  ASSUME NEW sc, Fits(stack), stack # <<>>, NEW n \in Nat, Standing(n, sc), HasMore(Top),
         (Top.k = "loop" /\ ret \in {"run", "ok"}) \/ Top.k = "retry", Iterate, UNCHANGED ran
  PROVE  Keeps(n, sc)
<1> DEFINE g == [Top EXCEPT !.left = @ - 1]
<1>1. g = [Head(stack) EXCEPT !.left = @ - 1]
  BY DEF Top
<1>2. stack' = <<Body(Head(stack).s.body), g>> \o Tail(stack) /\ ret' = "run"
  BY DEF Iterate, Top
<1> HIDE DEF g
<1>3. Ledger(<<Body(Head(stack).s.body), g>> \o Tail(stack), "run", ran, n, Test, Bottom(sc), sc)
  BY <1>1, LedgerIterates DEF Standing, Top
<1>4. QED BY <1>2, <1>3 DEF Keeps

-----------------------------------------------------------------------------
(* Action by action. *)
LEMMA RunBodyScript ==
  ASSUME NEW sc, Scripted(sc), ExecInv, ScriptInv(sc), RunBody
  PROVE  ScriptInv(sc)'
<1>1. stack # <<>> /\ Top.k = "body" /\ UNCHANGED <<test, ran>> /\ UNCHANGED link /\ Fits(stack)
  BY OnTop DEF RunBody, hist
<1>2. ret \in {"run", "ok", "conn", "fail"}
  BY <1>1 DEF ExecInv, Typed, Returned
<1>3. SUFFICES ASSUME NEW n \in Nat, Standing(n, sc) PROVE Keeps(n, sc)
  BY <1>1, ScriptStays DEF Standing
<1>4. CASE IsError(ret) /\ Return(ret)
  <2>1. ret \in {"conn", "fail", "gone"}
    BY <1>4 DEF IsError
  <2>2. QED BY <1>1, <1>3, <1>4, <2>1, FailKeeps
<1>5. CASE ~IsError(ret) /\ Top.rest = <<>> /\ Return("ok")
  <2>1. Over(stack, ret)
    BY <1>1, <1>2, <1>5 DEF Over, Top, IsError
  <2>2. QED BY <1>1, <1>3, <1>5, <2>1, OverKeeps
<1>6. CASE /\ ~IsError(ret) /\ Top.rest # <<>>
           /\ stack' = <<Step(Head(Top.rest)), Body(Tail(Top.rest))>> \o Tail(stack)
           /\ ret' = "run"
  <2>1. ret \in {"run", "ok"}
    BY <1>2, <1>6 DEF IsError
  <2>2. Ledger(<<Step(Head(Head(stack).rest)), Body(Tail(Head(stack).rest))>> \o Tail(stack), "run",
               ran, n, Test, Bottom(sc), sc)
    BY <1>1, <1>3, <1>6, <2>1, LedgerNext DEF Standing, Top
  <2>3. QED BY <1>1, <1>6, <2>2 DEF Keeps, Top
<1>7. QED BY <1>4, <1>5, <1>6 DEF RunBody

(* An act takes out of the ledger what it adds to the history. *)
LEMMA RunActScript ==
  ASSUME NEW sc, Scripted(sc), ExecInv, ScriptInv(sc), RunAct
  PROVE  ScriptInv(sc)'
<1>1. stack # <<>> /\ Top.k = "step" /\ ret = "run" /\ Top.s.op = "act" /\ UNCHANGED test
  BY DEF RunAct, Dispatching
<1>2. Fits(stack) /\ Typed /\ Top.s \in Steps
  BY <1>1, StepOnTop
<1>3. PICK f \in Fate :
        /\ Meets(f)
        /\ \/ /\ ran' = IF Done(f) THEN Append(ran, Top.s.id) ELSE ran
              /\ Answer(ErrorOf(f))
           \/ f = "answered" /\ Answer("fail") /\ UNCHANGED ran
  BY DEF RunAct
<1>4. phase \in {"body", "after"}
  BY <1>1, <1>2 DEF ScriptInv, Typed
<1>5. PICK n \in Nat : n + Down <= cuts /\ Standing(n, sc)
  BY <1>4, Inside DEF Standing
<1>6. n + Down' <= cuts'
  BY <1>2, <1>3, <1>5, LinkPays
<1>7. ErrorOf(f) \in {"ok", "conn", "fail"} /\ (ErrorOf(f) = "ok" => Done(f))
  BY DEF ErrorOf, Fate, Done
<1>8. ran \in Histories /\ Top.s.id \in Ids
  BY <1>1, <1>2 DEF Typed, Histories, Ids
<1>9. CASE ran' = Append(ran, Top.s.id) /\ Answer(ErrorOf(f))
  <2>1. Ledger(stack, ErrorOf(f), Append(ran, Head(stack).s.id), n, Test, Bottom(sc), sc)
    BY <1>1, <1>2, <1>5, <1>7, LedgerActs DEF Standing, Top
  <2>2. Keeps(n, sc)
    BY <1>9, <2>1 DEF Keeps, Answer, Top
  <2>3. phase = "after" /\ verdict = "ok" => Covers(ran', Test)
    BY <1>8, <1>9, CoversGrows DEF ScriptInv
  <2>4. QED BY <1>1, <1>2, <1>3, <1>4, <1>6, <2>2, <2>3, ScriptKeeps
<1>10. ASSUME ran' = ran, NEW e \in {"conn", "fail"}, Answer(e) PROVE ScriptInv(sc)'
  <2>1. Keeps(n, sc)
    BY <1>1, <1>2, <1>5, <1>10, AnswerKeeps
  <2>2. phase = "after" /\ verdict = "ok" => Covers(ran', Test)
    BY <1>10 DEF ScriptInv
  <2>3. QED BY <1>1, <1>2, <1>3, <1>4, <1>6, <2>1, <2>2, ScriptKeeps
<1>11. QED BY <1>3, <1>7, <1>9, <1>10

(* Mocks, conditions, recipes and blocks do nothing in the app. *)
LEMMA RunMockScript ==
  ASSUME NEW sc, Scripted(sc), ExecInv, ScriptInv(sc), RunMock
  PROVE  ScriptInv(sc)'
<1>1. stack # <<>> /\ Top.k = "step" /\ Top.s.op = "mock" /\ UNCHANGED <<test, ran>>
  BY DEF RunMock, Dispatching, hist
<1>2. Fits(stack)
  BY <1>1, StepOnTop
<1>3. PICK f \in Fate : Meets(f) /\ Answer(ErrorOf(f))
  BY DEF RunMock
<1>4. ErrorOf(f) \in {"ok", "conn", "fail"} /\ <<>> \in Asks(Top.s, sc)
  BY <1>1 DEF ErrorOf, Fate, Asks
<1>5. SUFFICES ASSUME NEW n \in Nat, Standing(n, sc) PROVE Keeps(n, sc)
  BY <1>1, <1>3, ScriptStays DEF Standing
<1>6. QED BY <1>1, <1>2, <1>3, <1>4, <1>5, AnswerKeeps

(* Either branch is among those asked for. *)
LEMMA RunConditionalScript ==
  ASSUME NEW sc, Scripted(sc), ExecInv, ScriptInv(sc), RunConditional
  PROVE  ScriptInv(sc)'
<1>1. stack # <<>> /\ Top.k = "step" /\ Top.s.op = "if" /\ ret = "run" /\ UNCHANGED <<test, ran>>
  BY DEF RunConditional, Dispatching
<1>2. Fits(stack)
  BY <1>1, StepOnTop
<1>3. PICK f \in Fate :
        /\ Meets(f)
        /\ \/ Propagates(Top.s, f) /\ Answer(ErrorOf(f))
           \/ Enter(Body(Top.s.then))
           \/ Enter(Body(Top.s.else))
  BY DEF RunConditional
<1>4. SUFFICES ASSUME NEW n \in Nat, Standing(n, sc) PROVE Keeps(n, sc)
  BY <1>1, <1>3, ScriptStays DEF Standing
<1>5. CASE Propagates(Top.s, f) /\ Answer(ErrorOf(f))
  <2>1. ErrorOf(f) \in {"conn", "fail"}
    BY <1>5 DEF Propagates, ErrorOf, Fate
  <2>2. QED BY <1>1, <1>2, <1>4, <1>5, <2>1, AnswerKeeps
<1>6. ASSUME NEW c \in Bodies(Top.s), Enter(Body(c)) PROVE Keeps(n, sc)
  <2>1. Ledger(<<Body(c)>> \o stack, "run", ran, n, Test, Bottom(sc), sc)
    BY <1>1, <1>2, <1>4, LedgerEnters DEF Standing, Top
  <2>2. QED BY <1>1, <1>6, <2>1 DEF Keeps, Enter
<1>7. Top.s.then \in Bodies(Top.s) /\ Top.s.else \in Bodies(Top.s)
  BY <1>1 DEF Bodies
<1>8. QED BY <1>3, <1>5, <1>6, <1>7

(* A recipe asks for what its body does. *)
LEMMA RunRecipeCallScript ==
  ASSUME NEW sc, Scripted(sc), ExecInv, ScriptInv(sc), RunRecipeCall
  PROVE  ScriptInv(sc)'
<1>1. /\ stack # <<>> /\ Top.k = "step" /\ Top.s.op = "call" /\ ret = "run"
      /\ UNCHANGED <<test, ran>> /\ UNCHANGED link /\ Enter(Body(Top.s.body))
  BY DEF RunRecipeCall, Dispatching, hist
<1>2. Fits(stack) /\ Top.s.body \in Bodies(Top.s)
  BY <1>1, StepOnTop DEF Bodies
<1>3. SUFFICES ASSUME NEW n \in Nat, Standing(n, sc) PROVE Keeps(n, sc)
  BY <1>1, ScriptStays DEF Standing
<1>4. Ledger(<<Body(Top.s.body)>> \o stack, "run", ran, n, Test, Bottom(sc), sc)
  BY <1>1, <1>2, <1>3, LedgerEnters DEF Standing, Top
<1>5. QED BY <1>1, <1>4 DEF Keeps, Enter

(* A block asks for its rounds. *)
LEMMA RunBlockScript ==
  ASSUME NEW sc, Scripted(sc), ExecInv, ScriptInv(sc), RunBlock
  PROVE  ScriptInv(sc)'
<1> DEFINE f == [k |-> Top.s.op, s |-> Top.s, left |-> Count(Top.s)]
<1>1. /\ stack # <<>> /\ Top.k = "step" /\ Top.s.op \in {"loop", "retry"} /\ ret = "run"
      /\ UNCHANGED <<test, ran>> /\ UNCHANGED link /\ Enter(f)
  BY DEF RunBlock, Dispatching, hist
<1>2. Fits(stack)
  BY <1>1, StepOnTop
<1>3. SUFFICES ASSUME NEW n \in Nat, Standing(n, sc) PROVE Keeps(n, sc)
  BY <1>1, ScriptStays DEF Standing
<1>4. f = [k |-> Head(stack).s.op, s |-> Head(stack).s, left |-> Count(Head(stack).s)]
  BY DEF Top
<1> HIDE DEF f
<1>5. Ledger(<<f>> \o stack, "run", ran, n, Test, Bottom(sc), sc)
  BY <1>1, <1>2, <1>3, <1>4, LedgerBlocks DEF Standing, Top
<1>6. QED BY <1>1, <1>5 DEF Keeps, Enter

(* A loop counts them down ... *)
LEMMA LoopScript ==
  ASSUME NEW sc, Scripted(sc), ExecInv, ScriptInv(sc), Loop
  PROVE  ScriptInv(sc)'
<1>1. stack # <<>> /\ Top.k = "loop" /\ UNCHANGED <<test, ran>> /\ UNCHANGED link /\ Fits(stack)
  BY OnTop DEF Loop, hist
<1>2. ret \in {"run", "ok", "conn", "fail"}
  BY <1>1 DEF ExecInv, Typed, Returned
<1>3. SUFFICES ASSUME NEW n \in Nat, Standing(n, sc) PROVE Keeps(n, sc)
  BY <1>1, ScriptStays DEF Standing
<1>4. CASE IsError(ret) /\ Return(ret)
  <2>1. ret \in {"conn", "fail", "gone"}
    BY <1>4 DEF IsError
  <2>2. QED BY <1>1, <1>3, <1>4, <2>1, FailKeeps
<1>5. CASE ~IsError(ret) /\ HasMore(Top) /\ Iterate
  <2>1. ret \in {"run", "ok"}
    BY <1>2, <1>5 DEF IsError
  <2>2. QED BY <1>1, <1>3, <1>5, <2>1, IterateKeeps
<1>6. CASE ~IsError(ret) /\ ~HasMore(Top) /\ Return("ok")
  <2>1. Over(stack, ret)
    BY <1>1, <1>2, <1>6 DEF Over, Top, IsError
  <2>2. QED BY <1>1, <1>3, <1>6, <2>1, OverKeeps
<1>7. QED BY <1>4, <1>5, <1>6 DEF Loop

(* ... a retry asks for one that passes. *)
LEMMA RetryScript ==
  ASSUME NEW sc, Scripted(sc), ExecInv, ScriptInv(sc), Retry
  PROVE  ScriptInv(sc)'
<1>1. stack # <<>> /\ Top.k = "retry" /\ UNCHANGED <<test, ran>> /\ UNCHANGED link /\ Fits(stack)
  BY OnTop DEF Retry, hist
<1>2. ret \in {"run", "ok", "conn", "fail"}
  BY <1>1 DEF ExecInv, Typed, Returned
<1>3. SUFFICES ASSUME NEW n \in Nat, Standing(n, sc) PROVE Keeps(n, sc)
  BY <1>1, ScriptStays DEF Standing
<1>4. CASE ret = "ok" /\ Return("ok")
  <2>1. Over(stack, ret)
    BY <1>1, <1>4 DEF Over, Top
  <2>2. QED BY <1>1, <1>3, <1>4, <2>1, OverKeeps
<1>5. CASE ret # "ok" /\ HasMore(Top) /\ Iterate
  BY <1>1, <1>3, <1>5, IterateKeeps
<1>6. CASE ret # "ok" /\ ~HasMore(Top) /\ Return(ret)
  <2>1. ret # "run"
    <3>1. PICK p : Ready(stack, ret, ran, p, Test)
      BY <1>3 DEF Standing, Ledger
    <3>2. QED BY <1>1, <1>6, <3>1 DEF Ready, HasMore, Top
  <2>2. ret \in {"conn", "fail", "gone"}
    BY <1>2, <1>6, <2>1
  <2>3. QED BY <1>1, <1>3, <1>6, <2>2, FailKeeps
<1>7. QED BY <1>4, <1>5, <1>6 DEF Retry

(* The steps that stop or start the app, or leave it. *)
LEMMA LifecycleScript ==
  ASSUME NEW sc, Scripted(sc), ExecInv, ScriptInv(sc), stack # <<>>, Top.k = "step", ret = "run",
         UNCHANGED test, UNCHANGED ran, (\E f \in Fate : Meets(f)) \/ Close \/ UNCHANGED link,
         NEW w \in {"open", "restart", "clear", "permit", "kill"}, Top.s.op = w,
         NEW e \in {"ok", "conn", "fail"}, (w # "kill" /\ Enter(Redial(w))) \/ Answer(e)
  PROVE  ScriptInv(sc)'
<1>1. Fits(stack) /\ <<>> \in Asks(Top.s, sc)
  BY StepOnTop DEF Asks
<1>2. SUFFICES ASSUME NEW n \in Nat, Standing(n, sc) PROVE Keeps(n, sc)
  BY ScriptStays DEF Standing
<1>3. CASE Answer(e)
  BY <1>1, <1>2, <1>3, AnswerKeeps
<1>4. CASE w # "kill" /\ Enter(Redial(w))
  <2>1. w \in Handlers \ {"auto"}
    BY <1>4 DEF Handlers
  <2>2. QED BY <1>1, <1>2, <1>4, <2>1, DialKeeps
<1>5. QED BY <1>3, <1>4

(* Each of them does one of these. *)
LEMMA AppScript ==
  ASSUME NEW sc, Scripted(sc), ExecInv, ScriptInv(sc),
         RunRestart \/ RunPermit \/ RunClear \/ RunKill \/ RunOpen
  PROVE  ScriptInv(sc)'
<1>1. CASE RunRestart
  BY <1>1, LifecycleScript DEF RunRestart, Dispatching, hist
<1>2. CASE RunPermit
  BY <1>2, LifecycleScript DEF RunPermit, Dispatching, hist
<1>3. CASE RunClear
  BY <1>3, LifecycleScript DEF RunClear, Dispatching, hist
<1>4. CASE RunKill
  BY <1>4, LifecycleScript DEF RunKill, Dispatching, hist
<1>5. CASE RunOpen
  <2>1. PICK f \in Fate : Meets(f) /\ (Enter(Redial("open")) \/ Answer(ErrorOf(f)) \/ Answer("fail"))
    BY <1>5 DEF RunOpen
  <2>2. ErrorOf(f) \in {"ok", "conn", "fail"}
    BY DEF ErrorOf, Fate
  <2>3. QED BY <1>5, <2>1, <2>2, LifecycleScript DEF RunOpen, Dispatching, hist
<1>6. QED BY <1>1, <1>2, <1>3, <1>4, <1>5

(* A reconnect that succeeds for a step is paid for by the connection lost. *)
LEMMA ReconnectScript ==
  ASSUME NEW sc, Scripted(sc), ExecInv, ScriptInv(sc), Reconnect
  PROVE  ScriptInv(sc)'
<1>1. stack # <<>> /\ Top.k = "dial" /\ UNCHANGED test /\ UNCHANGED ran
  BY DEF Reconnect, hist
<1>2. /\ Fits(stack) /\ Typed /\ Redials(Top) /\ conn # "up"
      /\ Top.what \in Handlers /\ Top \in [k : {"dial", "relaunch"}, what : Handlers, again : BOOLEAN]
  BY <1>1, RedialOnTop
<1>3. CASE Reconnected
  <2> DEFINE f == [k |-> "remock", what |-> Top.what, todo |-> mocks]
  <2>1. f \in Frames /\ f.k = "remock" /\ f.what = Top.what /\ Redials(f)
    BY <1>2 DEF Frames, MockFrames, Typed, Redials
  <2>2. Become(f) /\ conn' = "up" /\ cuts' = cuts
    BY <1>3 DEF Reconnected, MocksToReapply
  <2> HIDE DEF f
  <2>3. phase \in {"body", "after"}
    BY <1>1, <1>2 DEF ScriptInv, Typed
  <2>4. PICK n \in Nat : n + Down <= cuts /\ Standing(n, sc)
    BY <2>3, Inside DEF Standing
  <2>5. n + 1 \in Nat /\ (n + 1) + Down' <= cuts' /\ Down' <= cuts'
    <3>1. cuts \in Nat /\ Down = 1 /\ Down' = 0
      BY <1>2, <2>2 DEF Typed, Down
    <3>2. QED BY <2>2, <2>4, <3>1
  <2>6. Keeps(n + 1, sc)
    BY <1>1, <1>2, <2>1, <2>2, <2>4, <2>5, BecomeKeeps
  <2>7. Test' = Test /\ phase' = phase /\ verdict' = verdict /\ Bottom(sc)' = Bottom(sc)
    <3>1. Test' = Test /\ phase' = phase /\ verdict' = verdict
      BY <1>1 DEF Test, test
    <3>2. QED BY <3>1 DEF Bottom
  <2>8. Ledger(stack', ret', ran', n + 1, Test', Bottom(sc)', sc)
    BY <2>6, <2>7 DEF Keeps
  <2>9. phase' = "after" /\ verdict' = "ok" => Covers(ran', Test')
    BY <1>1, <2>7 DEF ScriptInv
  <2>10. QED BY <2>3, <2>5, <2>7, <2>8, <2>9 DEF ScriptInv
<1>4. CASE NotReconnected
  <2>1. PICK e \in {"gone", "conn", "fail"} : Return(e)
    BY <1>4 DEF NotReconnected
  <2>2. UNCHANGED link
    BY <1>4 DEF NotReconnected
  <2>3. SUFFICES ASSUME NEW n \in Nat, Standing(n, sc) PROVE Keeps(n, sc)
    BY <1>1, <2>2, ScriptStays DEF Standing
  <2>4. QED BY <1>1, <1>2, <2>1, <2>3, FailKeeps
<1>5. CASE Refused
  <2> DEFINE f == [Top EXCEPT !.k = "relaunch"]
  <2>1. f \in Frames /\ f.k = "relaunch" /\ f.what = Top.what /\ Redials(f)
    BY <1>2 DEF Frames, DialFrames, Redials
  <2>2. Become(f) /\ UNCHANGED link
    BY <1>5 DEF Refused
  <2> HIDE DEF f
  <2>3. SUFFICES ASSUME NEW n \in Nat, Standing(n, sc) PROVE Keeps(n, sc)
    BY <1>1, <2>2, ScriptStays DEF Standing
  <2>4. QED BY <1>1, <1>2, <2>1, <2>2, <2>3, BecomeKeeps
<1>6. QED BY <1>3, <1>4, <1>5 DEF Reconnect

(* The app is relaunched, or is gone. *)
LEMMA RelaunchScript ==
  ASSUME NEW sc, Scripted(sc), ExecInv, ScriptInv(sc), Relaunch
  PROVE  ScriptInv(sc)'
<1>1. stack # <<>> /\ Top.k = "relaunch" /\ UNCHANGED test /\ UNCHANGED ran /\ UNCHANGED link
  BY DEF Relaunch, hist
<1>2. /\ Fits(stack) /\ Redials(Top)
      /\ Top.what \in Handlers /\ Top \in [k : {"dial", "relaunch"}, what : Handlers, again : BOOLEAN]
  BY <1>1, RedialOnTop
<1> DEFINE f == OnceOnly(Top)
<1>3. Become(f) \/ Return("gone")
  BY DEF Relaunch
<1>4. f \in Frames /\ f.k = "dial" /\ f.what = Top.what /\ Redials(f)
  BY <1>2 DEF OnceOnly, Frames, DialFrames, Redials
<1> HIDE DEF f
<1>5. SUFFICES ASSUME NEW n \in Nat, Standing(n, sc) PROVE Keeps(n, sc)
  BY <1>1, ScriptStays DEF Standing
<1>6. CASE Become(f)
  BY <1>1, <1>2, <1>4, <1>5, <1>6, BecomeKeeps
<1>7. CASE Return("gone")
  BY <1>1, <1>2, <1>5, <1>7, FailKeeps
<1>8. QED BY <1>3, <1>6, <1>7

(* The mocks are back: the step is dispatched again, or is over. *)
LEMMA ReapplyMocksScript ==
  ASSUME NEW sc, Scripted(sc), ExecInv, ScriptInv(sc), ReapplyMocks
  PROVE  ScriptInv(sc)'
<1>1. stack # <<>> /\ Top.k = "remock" /\ UNCHANGED test /\ UNCHANGED ran
  BY DEF ReapplyMocks, hist
<1>2. Fits(stack) /\ Redials(Top) /\ Top \in MockFrames
  BY <1>1, OnTop, FrameKinds DEF Redials
<1>3. (\E f \in Fate : Meets(f)) \/ UNCHANGED link
  BY DEF ReapplyMocks
<1>4. SUFFICES ASSUME NEW n \in Nat, Standing(n, sc) PROVE Keeps(n, sc)
  BY <1>1, <1>3, ScriptStays DEF Standing
<1>5. CASE Top.todo # <<>>
  <2> DEFINE f == [Top EXCEPT !.todo = Tail(@)]
  <2>1. Top.todo \in Seq(MockSteps) /\ Tail(Top.todo) \in Seq(MockSteps)
    BY <1>2, <1>5, HeadTailProperties DEF MockFrames
  <2>2. f \in Frames /\ f.k = "remock" /\ f.what = Top.what /\ Redials(f)
    BY <1>1, <1>2, <2>1 DEF Frames, MockFrames, Redials
  <2>3. Become(f)
    BY <1>5 DEF ReapplyMocks
  <2> HIDE DEF f
  <2>4. QED BY <1>1, <1>2, <1>4, <2>2, <2>3, BecomeKeeps
<1>6. CASE Top.todo = <<>> /\ Top.what = "auto"
  <2>1. Return("run")
    BY <1>6 DEF ReapplyMocks
  <2>2. Ledger(Tail(stack), "run", ran, n, Test, Bottom(sc), sc)
    BY <1>1, <1>2, <1>4, <1>6, LedgerAgain DEF Standing, Top
  <2>3. QED BY <1>1, <2>1, <2>2 DEF Keeps, Return
<1>7. CASE Top.todo = <<>> /\ Top.what # "auto"
  <2>1. Return("ok") /\ Over(stack, ret)
    BY <1>1, <1>7 DEF ReapplyMocks, Over, Top
  <2>2. QED BY <1>1, <1>2, <1>4, <2>1, OverKeeps
<1>8. QED BY <1>5, <1>6, <1>7

(* The step is over, has failed, or waits for a reconnect. *)
LEMMA StepReturnedScript ==
  ASSUME NEW sc, Scripted(sc), ExecInv, ScriptInv(sc), StepReturned
  PROVE  ScriptInv(sc)'
<1>1. stack # <<>> /\ Top.k = "step" /\ UNCHANGED test /\ UNCHANGED ran
  BY DEF StepReturned, hist
<1>2. Fits(stack) /\ Top \in StepFrames
  BY <1>1, StepOnTop
<1>3. Close \/ UNCHANGED link
  BY DEF StepReturned
<1>4. SUFFICES ASSUME NEW n \in Nat, Standing(n, sc) PROVE Keeps(n, sc)
  BY <1>1, <1>3, ScriptStays DEF Standing
<1>5. CASE ret = "ok" /\ Return("ok")
  <2>1. Over(stack, ret)
    BY <1>1, <1>5 DEF Over, Top
  <2>2. QED BY <1>1, <1>2, <1>4, <1>5, <2>1, OverKeeps
<1>6. CASE ret = "fail" /\ Return(IF IsOptional(Top.s) THEN "ok" ELSE "fail")
  <2>1. CASE IsOptional(Top.s)
    <3>1. Over(stack, ret) /\ Return("ok")
      BY <1>1, <1>6, <2>1 DEF Over, Top
    <3>2. QED BY <1>1, <1>2, <1>4, <3>1, OverKeeps
  <2>2. CASE ~IsOptional(Top.s)
    BY <1>1, <1>2, <1>4, <1>6, <2>2, FailKeeps
  <2>3. QED BY <2>1, <2>2
<1>7. CASE /\ ret = "conn" /\ MayReconnect(Top.s, Top.n) /\ ret' = "run"
           /\ stack' = <<Redial("auto"), [Top EXCEPT !.n = @ + 1]>> \o Tail(stack)
  <2> DEFINE g == [Top EXCEPT !.n = @ + 1]
  <2>1. g \in Frames
    <3>1. Top.n + 1 \in 0..MaxAttempts
      BY <1>2, <1>7, PolicyAssumption DEF StepFrames, MayReconnect
    <3>2. QED BY <1>2, <3>1 DEF Frames, StepFrames
  <2>2. g = [Head(stack) EXCEPT !.n = @ + 1]
    BY DEF Top
  <2>3. stack' = <<Redial("auto"), g>> \o Tail(stack)
    BY <1>7
  <2> HIDE DEF g
  <2>4. Ledger(<<Redial("auto"), g>> \o Tail(stack), "run", ran, n, Test, Bottom(sc), sc)
    BY <1>1, <1>2, <1>4, <1>7, <2>1, <2>2, LedgerRedials DEF Standing, Top
  <2>5. QED BY <1>1, <1>7, <2>3, <2>4 DEF Keeps
<1>8. CASE Return("conn")
  BY <1>1, <1>2, <1>4, <1>8, FailKeeps
<1>9. QED BY <1>5, <1>6, <1>7, <1>8 DEF StepReturned

(* A connection is lost. *)
LEMMA LossScript ==
  ASSUME NEW sc, ExecInv, ScriptInv(sc), Drop \/ Crash
  PROVE  ScriptInv(sc)'
<1>1. /\ UNCHANGED <<phase, verdict, stack, ret, ran>> /\ Test' = Test /\ Bottom(sc)' = Bottom(sc)
      /\ conn' # "up" /\ cuts' = cuts + 1
  <2>1. /\ UNCHANGED <<phase, verdict, stack, ret, ran>> /\ Test' = Test
        /\ conn' # "up" /\ cuts' = cuts + 1
    BY DEF Drop, Crash, test, hist, Test
  <2>2. QED BY <2>1 DEF Bottom
<1>2. cuts \in Nat /\ Down \in {0, 1} /\ Down' = 1
  BY <1>1 DEF ExecInv, Typed, Down
<1>3. ASSUME NEW n \in Nat, n + Down <= cuts PROVE n + Down' <= cuts'
  BY <1>1, <1>2, <1>3
<1>4. Down' <= cuts'
  BY <1>1, <1>2
<1>5. QED BY <1>1, <1>3, <1>4 DEF ScriptInv

(* Nothing happens. *)
LEMMA StutterScript ==
  ASSUME NEW sc, ScriptInv(sc), UNCHANGED vars
  PROVE  ScriptInv(sc)'
<1>1. UNCHANGED <<phase, verdict, stack, ret, ran, conn, cuts>> /\ Test' = Test
  BY DEF vars, Test
<1>2. Bottom(sc)' = Bottom(sc) /\ Down' = Down
  BY <1>1 DEF Bottom, Down
<1>3. QED BY <1>1, <1>2 DEF ScriptInv

(* Nothing has been done yet. *)
LEMMA InitScript ==
  ASSUME NEW sc, Init
  PROVE  ScriptInv(sc)
  BY DEF Init, ScriptInv, Down

(* All steps. *)
LEMMA StepScript ==
  ASSUME NEW sc, Scripted(sc), ExecInv, ScriptInv(sc), [Next]_vars
  PROVE  ScriptInv(sc)'
  BY BeginScript, EndBodyScript, EndAttemptScript, RunBodyScript, RunActScript, RunMockScript,
     RunConditionalScript, RunRecipeCallScript, RunBlockScript, LoopScript, RetryScript, AppScript,
     ReconnectScript, RelaunchScript, ReapplyMocksScript, StepReturnedScript, LossScript, StutterScript
  DEF Next, Executor

(* What was done and may be done is within what the test allows. *)
LEMMA ScriptSuffices ==
  ASSUME NEW sc, Scripted(sc), ExecInv, ScriptInv(sc)
  PROVE  ActsAsWritten
<1>1. phase = "after" /\ verdict = "ok" => \E w \in Test.want : Within(w, ran)
  BY DEF ScriptInv, Covers
<1>2. ASSUME phase # "begin", NEW a \in DOMAIN Test.times
      PROVE  Cardinality({i \in DOMAIN ran : ran[i] = a}) <= Test.times[a] * (1 + cuts)
  <2>1. PICK n \in Nat : /\ n + Down <= cuts /\ Setting(ran, n, Test, Bottom(sc), sc)
                         /\ Ledger(stack, ret, ran, n, Test, Bottom(sc), sc)
    BY <1>2, Inside
  <2>2. PICK p \in Entries : /\ Balanced(stack, ret, ran, p, n, Test, sc)
                             /\ Owes(stack, p, ran, Test, Bottom(sc), sc)
    BY <2>1 DEF Ledger
  <2> DEFINE X == Extra(stack, ret, a, sc)
  <2>3. Occurs(a, ran) + p.due[a] + X <= Test.times[a] * (1 + n)
    BY <2>2 DEF Balanced
  <2>4. a \in Ids /\ Occurs(a, ran) \in Nat /\ p.due[a] \in Nat /\ Test.times[a] \in Nat
    <3>1. a \in Ids /\ Test.times[a] \in Nat /\ ran \in Histories
      BY <2>1 DEF Setting, Foreseen
    <3>2. Occurs(a, ran) \in Nat
      BY <3>1, OccursMore
    <3>3. p.due[a] \in Nat
      BY <3>1 DEF Entries
    <3>4. QED BY <3>1, <3>2, <3>3
  <2>5. X \in Nat
    <3>1. ASSUME NEW f \in Frames, f.k = "step", Known(f, Test, sc) PROVE Price(f.s, a, sc) \in Nat
      <4>1. f.s \in Steps /\ Foretold(f.s, sc)
        BY <3>1, FrameKinds DEF StepFrames, Known
      <4>2. QED BY <2>4, <4>1, StepAsks
    <3>2. stack \in Seq(Frames) /\ Fits(stack)
      BY DEF ExecInv, Fits
    <3>3. CASE stack = <<>>
      BY <3>3 DEF Extra
    <3>4. CASE stack # <<>> /\ Head(stack).k = "step"
      <4>1. Head(stack) \in Frames /\ Known(Head(stack), Test, sc)
        BY <2>2, <3>2, <3>4, OwesTop, PopFits
      <4>2. Price(Head(stack).s, a, sc) \in Nat
        BY <3>1, <3>4, <4>1
      <4>3. QED BY <3>4, <4>2 DEF Extra
    <3>5. CASE stack # <<>> /\ Head(stack).k # "step"
      <4>1. CASE Head(stack).k = "remock"
        <5> DEFINE u == Tail(stack)
        <5>1. u # <<>> /\ Head(u).k = "step" /\ Fits(u)
          BY <3>2, <3>5, <4>1, PopFits DEF Redials
        <5>2. PICK q : Owes(u, q, ran, Test, Bottom(sc), sc)
          BY <2>2, <3>2, <3>5, OwesTop
        <5>3. Head(u) \in Frames /\ Known(Head(u), Test, sc)
          BY <5>1, <5>2, OwesTop, PopFits DEF Fits
        <5>4. Price(Head(u).s, a, sc) \in Nat
          BY <3>1, <5>1, <5>3
        <5>5. QED BY <3>5, <4>1, <5>4 DEF Extra
      <4>2. CASE Head(stack).k # "remock"
        BY <3>5, <4>2 DEF Extra
      <4>3. QED BY <4>1, <4>2
    <3>6. QED BY <3>3, <3>4, <3>5
  <2>6. Test.times[a] * (1 + n) <= Test.times[a] * (1 + cuts)
    <3>1. n <= cuts /\ cuts \in Nat
      BY <2>1 DEF Down, ExecInv, Typed
    <3> DEFINE c == Test.times[a]
    <3>2. c \in Nat
      BY <2>4
    <3> HIDE DEF c
    <3>3. \E d \in Nat : cuts = n + d
      <4>1. cuts - n \in Nat /\ cuts = n + (cuts - n)
        BY <3>1
      <4>2. QED BY <4>1
    <3>4. PICK d \in Nat : cuts = n + d
      BY <3>3
    <3>5. c * (1 + (n + d)) = c * (1 + n) + c * d /\ c * d \in Nat /\ c * (1 + n) \in Nat
      BY <3>2
    <3>6. c * (1 + n) <= c * (1 + cuts)
      BY <3>4, <3>5
    <3>7. QED BY <3>6 DEF c
  <2>7. Occurs(a, ran) <= Test.times[a] * (1 + cuts)
    <3> DEFINE O == Occurs(a, ran)
               D == p.due[a]
               T == Test.times[a] * (1 + n)
               U == Test.times[a] * (1 + cuts)
    <3>1. O + D + X <= T /\ O \in Nat /\ D \in Nat /\ X \in Nat /\ T <= U /\ T \in Int /\ U \in Int
      <4>1. T \in Int /\ U \in Int
        <5>1. 1 + n \in Int /\ 1 + cuts \in Int /\ Test.times[a] \in Int
          BY <2>4 DEF ExecInv, Typed
        <5>2. QED BY <5>1
      <4>2. QED BY <2>3, <2>4, <2>5, <2>6, <4>1, Zenon
    <3>2. O <= U
      <4> HIDE DEF O, D, T, U, X
      <4>1. QED BY <3>1
    <3>3. QED BY <3>2
  <2>8. QED BY <2>7 DEF Occurs
<1>3. QED BY <1>1, <1>2 DEF ActsAsWritten

(* A test whose body ends without an error has done every act its script asks *)
(* for, in order, whatever was lost, reconnected, repeated or left out as     *)
(* optional on the way; and no act is done more often than the script says,   *)
(* once more for every connection that was lost.  This for every plan whose   *)
(* `want` and `times` are what some script foretells of its bodies.           *)
THEOREM DoesAsWritten == (\E sc : Scripted(sc)) => (Spec => []ActsAsWritten)
<1>1. ASSUME NEW CONSTANT sc, Scripted(sc) PROVE Spec => []ActsAsWritten
  <2>1. Init => ScriptInv(sc)
    BY InitScript
  <2>2. ExecInv /\ ScriptInv(sc) /\ [Next]_vars => ScriptInv(sc)'
    BY <1>1, StepScript
  <2>3. ExecInv /\ ScriptInv(sc) => ActsAsWritten
    BY <1>1, ScriptSuffices
  <2>4. QED BY <2>1, <2>2, <2>3, Invariant, PTL DEF Spec
<1>2. QED BY <1>1
=============================================================================
