--------------------------- MODULE TestRun_proof ---------------------------
(***************************************************************************)
(* For any files, devices, plans, numbers of retries and attempts, and     *)
(* wherever the run fails or is interrupted:                               *)
(*   - what hooks set up for a test is given to the hooks that tear it     *)
(*     down before the test is judged; a file stays set up only when its   *)
(*     `before all` failed, its `after all` did not get through, or the    *)
(*     Run returned in it; and a device that is done, or about to start    *)
(*     again, has no watcher, no client but one that took the place of the *)
(*     first, and a forward only after an interrupt (IInv: where between   *)
(*     the hooks a device is);                                             *)
(*   - each test, row of data and composite test of the files a device     *)
(*     finished is reported once, in order, when no test has two of the    *)
(*     selected tags, a result tells its attempts, what a run on one       *)
(*     device streams is what it reports, and exit status 0 means that     *)
(*     what ran passed (ReportInv: the results of the file under way are   *)
(*     those of the tests and rows before the place the device is at).     *)
(* Picked and FlattenSeq are recursive functions, so the facts about them  *)
(* are proved by induction, here over sets of numbers.                     *)
(***************************************************************************)
EXTENDS TestRun, WellFoundedInduction, FiniteSetTheorems, TLAPS

Spots == [f : Nat, t : Nat, row : Nat, try : Nat]

TypeInv ==
  /\ pc \in [Device -> Where] /\ at \in [Device -> Spots]
  /\ err \in [Device -> BOOLEAN] /\ each \in [Device -> {"down", "up", "left"}]
  /\ forward \in [Device -> BOOLEAN] /\ client \in [Device -> {"none", "first", "later"}] /\ watching \in [Device -> BOOLEAN]
  /\ open \in [Device -> SUBSET Nat] /\ left \in [Device -> SUBSET Nat] /\ broken \in [Device -> SUBSET Nat]

(* Between files and hooks nothing is set up of a file but a broken one, and *)
(* one that `after all` left so; from `before all` to `after all` the file   *)
(* is.                                                                       *)
Between == {"forward", "dial", "prepare", "file", "beforeAll", "composite"}
Inside  == {"test", "beforeEach", "body", "onFailure", "afterEach", "verdict", "afterAll"}
Ended   == {"return", "again", "done"}

EachInv  == \A d \in Device : each[d] = "up" => pc[d] \in {"body", "onFailure", "afterEach"}
ErrInv   == \A d \in Device : err[d] => pc[d] \in Ended
SetUpInv == \A d \in Device :
  /\ pc[d] \in Between => open[d] \subseteq broken[d] \cup left[d]
  /\ pc[d] \in Inside => open[d] \subseteq broken[d] \cup left[d] \cup {at[d].f}
  /\ pc[d] \in Ended => open[d] \subseteq broken[d] \cup left[d] \cup (IF err[d] THEN {at[d].f} ELSE {})

IInv == TypeInv /\ EachInv /\ ErrInv /\ SetUpInv /\ NothingLeft

LEMMA InitHolds == Init => IInv
<1> SUFFICES ASSUME Init PROVE IInv OBVIOUS
<1>1. TypeInv BY DEF Init, TypeInv, Where, Spot, Spots, Start
<1>2. EachInv /\ ErrInv /\ SetUpInv BY DEF Init, EachInv, ErrInv, SetUpInv, Between, Inside, Ended
<1>3. NothingLeft BY DEF Init, NothingLeft
<1> QED BY <1>1, <1>2, <1>3 DEF IInv

LEMMA SpotIs ==
  ASSUME NEW f \in Nat, NEW t \in Nat, NEW row \in Nat
  PROVE  Spot(f, t, row) \in Spots /\ Spot(f, t, row).f = f
BY DEF Spot, Spots

LEMMA StartIsSpot == Start \in Spots
BY SpotIs DEF Start

LEMMA FirstRowIsNat == ASSUME NEW test PROVE FirstRow(test) \in Nat
BY DEF FirstRow

(* The place after a row or a test is in the same file.                      *)
LEMMA NextPlaceStays ==
  ASSUME TypeInv, NEW d \in Device PROVE NextPlace(d) \in Spots /\ NextPlace(d).f = at[d].f
<1>1. at[d] \in Spots BY DEF TypeInv
<1>2. at[d].f \in Nat /\ at[d].t \in Nat /\ at[d].row + 1 \in Nat /\ at[d].t + 1 \in Nat BY <1>1 DEF Spots
<1> QED BY <1>2, SpotIs DEF NextPlace

(* A step of a hook or a body changes the client of its own device.          *)
LEMMA RedialsIs ==
  ASSUME TypeInv, NEW d \in Device, Redials(d)
  PROVE  client' \in [Device -> {"none", "first", "later"}] /\ \A e \in Device : e # d => client'[e] = client[e]
BY DEF TypeInv, Redials, Set

(* What a step may do to the part of the state the invariant is about: one   *)
(* device moves, to another place of its run.                                *)
LEMMA StepKeeps ==
  ASSUME IInv, NEW d \in Device, Step(d) PROVE IInv'
<1> USE DEF IInv, Set, Goto
<1>0. Device' = Device /\ plan' = plan
  BY DEF Step, Forward, Dial, Prepare, OpenFile, BeforeAll, BeginTest, BeforeEach, Body, OnFailure, AfterEach, Verdict,
         AfterAll, Composite, Return, Again, Device
<1>a. at[d] \in Spots BY DEF TypeInv
<1>n. at[d].f \in Nat /\ at[d].f + 1 \in Nat BY <1>a DEF Spots
<1>s. Spot(at[d].f + 1, 1, 0) \in Spots BY <1>n, SpotIs
<1>b. ASSUME UNCHANGED at, pc' \in [Device -> Where], err' \in [Device -> BOOLEAN],
             each' \in [Device -> {"down", "up", "left"}], forward' \in [Device -> BOOLEAN],
             client' \in [Device -> {"none", "first", "later"}], watching' \in [Device -> BOOLEAN],
             UNCHANGED <<open, left, broken>>
      PROVE  TypeInv'
  BY <1>0, <1>b DEF TypeInv
<1> USE <1>0
<1>1. CASE Forward(d)
  <2>1. TypeInv' BY <1>1, <1>b DEF TypeInv, Forward, Fails, Where, place
  <2>2. EachInv' /\ ErrInv' /\ SetUpInv'
    BY <1>1 DEF TypeInv, Forward, Fails, place, EachInv, ErrInv, SetUpInv, Between, Inside, Ended
  <2>3. NothingLeft' BY <1>1 DEF TypeInv, Forward, Fails, NothingLeft
  <2> QED BY <2>1, <2>2, <2>3
<1>2. CASE Dial(d)
  <2>1. TypeInv' BY <1>2, <1>b DEF TypeInv, Dial, Fails, Where, place
  <2>2. EachInv' /\ ErrInv' /\ SetUpInv'
    BY <1>2 DEF TypeInv, Dial, Fails, place, EachInv, ErrInv, SetUpInv, Between, Inside, Ended
  <2>3. NothingLeft' BY <1>2 DEF TypeInv, Dial, Fails, NothingLeft
  <2> QED BY <2>1, <2>2, <2>3
<1>3. CASE Prepare(d)
  <2>1. TypeInv' BY <1>3, <1>b DEF TypeInv, Prepare, Fails, Where, place
  <2>2. EachInv' /\ ErrInv' /\ SetUpInv'
    BY <1>3 DEF TypeInv, Prepare, Fails, place, EachInv, ErrInv, SetUpInv, Between, Inside, Ended
  <2>3. NothingLeft' BY <1>3 DEF TypeInv, Prepare, Fails, NothingLeft
  <2> QED BY <2>1, <2>2, <2>3
<1>4. CASE OpenFile(d)
  <2>1. TypeInv' BY <1>4, <1>b DEF TypeInv, OpenFile, Fails, Where, place
  <2>2. EachInv' /\ ErrInv' /\ SetUpInv'
    BY <1>4 DEF TypeInv, OpenFile, Fails, place, EachInv, ErrInv, SetUpInv, Between, Inside, Ended
  <2>3. NothingLeft' BY <1>4 DEF TypeInv, OpenFile, Fails, NothingLeft
  <2> QED BY <2>1, <2>2, <2>3
<1>c. ASSUME Redials(d) \/ UNCHANGED client, pc'[d] \notin {"forward", "again", "done"},
             \A e \in Device : e # d => pc'[e] = pc[e], UNCHANGED <<watching, forward>>, cancelled => cancelled'
      PROVE  client' \in [Device -> {"none", "first", "later"}] /\ NothingLeft'
  <2>1. client' \in [Device -> {"none", "first", "later"}] /\ \A e \in Device : e # d => client'[e] = client[e]
    BY <1>c, RedialsIs DEF TypeInv
  <2> QED BY <1>c, <2>1 DEF NothingLeft
<1>5. CASE BeforeAll(d)
  <2>c. client' \in [Device -> {"none", "first", "later"}] /\ NothingLeft'
    <3>1. Redials(d) \/ UNCHANGED client BY <1>5 DEF BeforeAll
    <3>2. pc'[d] \in {"test", "file"} /\ \A e \in Device : e # d => pc'[e] = pc[e] BY <1>5 DEF TypeInv, BeforeAll, EndFile
    <3> QED BY <1>5, <3>1, <3>2, <1>c DEF BeforeAll
  <2>a. at' \in [Device -> Spots] BY <1>5, <1>s DEF TypeInv, BeforeAll, EndFile
  <2>1. TypeInv' BY <1>5, <1>n, <2>a, <2>c DEF TypeInv, BeforeAll, EndFile, Where
  <2>2. EachInv' /\ ErrInv' BY <1>5 DEF TypeInv, BeforeAll, EndFile, EachInv, ErrInv, Ended
  <2>3. SetUpInv'
    <3>1. open'[d] \subseteq open[d] \cup {at[d].f} /\ open[d] \subseteq broken[d] \cup left[d] /\ UNCHANGED left
      BY <1>5 DEF BeforeAll, TypeInv, SetUpInv, Between
    <3>2. CASE pc' = [pc EXCEPT ![d] = "test"] /\ UNCHANGED <<at, broken>>
      <4>1. \A e \in Device : e # d => pc'[e] = pc[e] /\ open'[e] = open[e] BY <1>5, <3>2 DEF BeforeAll, TypeInv
      <4>2. pc'[d] = "test" BY <3>2 DEF TypeInv
      <4>3. UNCHANGED err BY <1>5 DEF BeforeAll
      <4> QED BY <3>1, <3>2, <4>1, <4>2, <4>3 DEF SetUpInv, Between, Inside, Ended
    <3>3. CASE pc'[d] = "file" /\ broken' = [broken EXCEPT ![d] = broken[d] \cup {at[d].f}]
      BY <1>5, <3>1, <3>3 DEF BeforeAll, EndFile, TypeInv, SetUpInv, Between, Inside, Ended
    <3> QED BY <1>5, <3>2, <3>3 DEF BeforeAll, EndFile, TypeInv
  <2> QED BY <2>1, <2>2, <2>3, <2>c
<1>6. CASE BeginTest(d)
  <2> DEFINE p == Spot(at[d].f, at[d].t, FirstRow(Test(d)))
  <2>0. p \in Spots /\ p.f = at[d].f
    <3>1. at[d].f \in Nat /\ at[d].t \in Nat BY <1>a DEF Spots
    <3> QED BY <3>1, SpotIs, FirstRowIsNat
  <2> HIDE DEF p
  <2>1. at' \in [Device -> Spots] /\ \A e \in Device : at'[e].f = at[e].f
    <3>1. CASE UNCHANGED at BY <3>1 DEF TypeInv
    <3>2. CASE at' = [at EXCEPT ![d] = p]
      BY <2>0, <3>2 DEF TypeInv
    <3> QED BY <1>6, <3>1, <3>2 DEF BeginTest, p
  <2>2. TypeInv' BY <1>6, <2>1 DEF TypeInv, BeginTest, Fails, Where
  <2>3. EachInv' /\ ErrInv' BY <1>6 DEF TypeInv, BeginTest, Fails, EachInv, ErrInv, Ended
  <2>4. SetUpInv' BY <1>6, <2>1 DEF TypeInv, BeginTest, Fails, SetUpInv, ErrInv, Between, Inside, Ended
  <2>5. NothingLeft' BY <1>6 DEF TypeInv, BeginTest, Fails, NothingLeft
  <2> QED BY <2>2, <2>3, <2>4, <2>5
<1>7. CASE BeforeEach(d)
  <2>3. client' \in [Device -> {"none", "first", "later"}] /\ NothingLeft' BY <1>7, <1>c DEF TypeInv, BeforeEach
  <2>1. TypeInv' BY <1>7, <1>b, <2>3 DEF TypeInv, BeforeEach, Where
  <2>2. EachInv' /\ ErrInv' /\ SetUpInv'
    BY <1>7 DEF TypeInv, BeforeEach, EachInv, ErrInv, SetUpInv, Between, Inside, Ended
  <2> QED BY <2>1, <2>2, <2>3
<1>8. CASE Body(d) \/ OnFailure(d) \/ AfterEach(d)
  <2>3. client' \in [Device -> {"none", "first", "later"}] /\ NothingLeft'
    BY <1>8, <1>c DEF TypeInv, Body, OnFailure, AfterFailure, AfterEach, place
  <2>1. TypeInv' BY <1>8, <1>b, <2>3 DEF TypeInv, Body, OnFailure, AfterFailure, AfterEach, Where, place
  <2>2. EachInv' /\ ErrInv' /\ SetUpInv'
    BY <1>8 DEF TypeInv, Body, OnFailure, AfterFailure, AfterEach, place, EachInv, ErrInv, SetUpInv, Between, Inside, Ended
  <2> QED BY <2>1, <2>2, <2>3
<1>9. CASE Verdict(d)
  <2>0. [at[d] EXCEPT !.try = @ + 1] \in Spots /\ [at[d] EXCEPT !.try = @ + 1].f = at[d].f BY <1>a DEF Spots
  <2>1. at' \in [Device -> Spots] /\ (\A e \in Device : at'[e].f = at[e].f)
    BY <1>9, <2>0, NextPlaceStays, ZenonT(40) DEF Verdict, Conclude, TypeInv
  <2>2. pc[d] = "verdict" /\ pc' \in [Device -> Where] /\ pc'[d] \in {"beforeEach", "test"}
        /\ \A e \in Device : e # d => pc'[e] = pc[e]
    BY <1>9 DEF Verdict, Conclude, TypeInv, Where
  <2>3. UNCHANGED <<err, each, forward, client, watching, open, left, broken, cancelled>> BY <1>9 DEF Verdict
  <2>4. TypeInv' BY <2>1, <2>2, <2>3 DEF TypeInv
  <2>5. EachInv' /\ ErrInv' BY <2>2, <2>3 DEF TypeInv, EachInv, ErrInv, Ended
  <2>6. SetUpInv' BY <2>1, <2>2, <2>3 DEF TypeInv, SetUpInv, Between, Inside, Ended
  <2>7. NothingLeft' BY <2>2, <2>3 DEF TypeInv, NothingLeft
  <2> QED BY <2>4, <2>5, <2>6, <2>7
<1>10. CASE AfterAll(d)
  <2>0. [at[d] EXCEPT !.t = 1] \in Spots /\ [at[d] EXCEPT !.t = 1].f = at[d].f BY <1>a DEF Spots
  <2>4. client' \in [Device -> {"none", "first", "later"}] /\ NothingLeft' BY <1>10, <1>c DEF TypeInv, AfterAll
  <2>5. /\ open' \in [Device -> SUBSET Nat] /\ left' \in [Device -> SUBSET Nat]
        /\ open'[d] \subseteq open[d] /\ left[d] \subseteq left'[d] /\ (at[d].f \notin open'[d] \/ at[d].f \in left'[d])
        /\ \A e \in Device : e # d => open'[e] = open[e] /\ left'[e] = left[e]
    <3>1. CASE open' = [open EXCEPT ![d] = open[d] \ {at[d].f}] /\ UNCHANGED left BY <3>1 DEF TypeInv
    <3>2. CASE left' = [left EXCEPT ![d] = left[d] \cup {at[d].f}] /\ UNCHANGED open BY <1>n, <3>2 DEF TypeInv
    <3> QED BY <1>10, <3>1, <3>2 DEF AfterAll
  <2>6. /\ at' = [at EXCEPT ![d] = [at[d] EXCEPT !.t = 1]] /\ pc' = [pc EXCEPT ![d] = "composite"] /\ pc[d] = "afterAll"
        /\ UNCHANGED <<err, forward, watching, each, broken>>
    BY <1>10 DEF AfterAll
  <2>1. TypeInv' BY <2>0, <2>4, <2>5, <2>6 DEF TypeInv, Where
  <2>2. EachInv' /\ ErrInv' BY <1>10 DEF TypeInv, AfterAll, EachInv, ErrInv, Ended
  <2>3. SetUpInv'
    <3>1. open'[d] \subseteq broken[d] \cup left'[d]
      <4>1. open[d] \subseteq broken[d] \cup left[d] \cup {at[d].f} BY <2>6 DEF SetUpInv, Inside
      <4> QED BY <2>5, <4>1
    <3>2. pc'[d] = "composite" /\ \A e \in Device : e # d => pc'[e] = pc[e] /\ at'[e] = at[e] BY <2>6 DEF TypeInv
    <3> QED BY <2>5, <2>6, <3>1, <3>2 DEF SetUpInv, Between, Inside, Ended
  <2> QED BY <2>1, <2>2, <2>3, <2>4
<1>11. CASE Composite(d)
  <2>0. [at[d] EXCEPT !.t = @ + 1] \in Spots BY <1>a DEF Spots
  <2>1. at' \in [Device -> Spots] /\ \A e \in Device : e # d => at'[e] = at[e]
    BY <1>11, <2>0, <1>s DEF Composite, EndFile, TypeInv
  <2>2. pc[d] = "composite" /\ pc' \in [Device -> Where] /\ pc'[d] \in {"composite", "file"}
        /\ \A e \in Device : e # d => pc'[e] = pc[e]
    BY <1>11 DEF Composite, EndFile, TypeInv, Where
  <2>3. UNCHANGED <<err, each, forward, client, watching, open, left, broken, cancelled>> BY <1>11 DEF Composite
  <2>4. TypeInv' BY <2>1, <2>2, <2>3 DEF TypeInv
  <2>5. EachInv' /\ ErrInv' BY <2>2, <2>3 DEF TypeInv, EachInv, ErrInv, Ended
  <2>6. SetUpInv' BY <2>1, <2>2, <2>3 DEF TypeInv, SetUpInv, Between, Inside, Ended
  <2>7. NothingLeft' BY <2>2, <2>3 DEF TypeInv, NothingLeft
  <2> QED BY <2>4, <2>5, <2>6, <2>7
<1>12. CASE Return(d)
  <2>1. TypeInv' BY <1>12, <1>b DEF TypeInv, Return, Closed, Where
  <2>2. EachInv' /\ ErrInv' /\ SetUpInv'
    BY <1>12 DEF TypeInv, Return, EachInv, ErrInv, SetUpInv, Between, Inside, Ended
  <2>3. NothingLeft' BY <1>12 DEF TypeInv, Return, Closed, NothingLeft
  <2> QED BY <2>1, <2>2, <2>3
<1>13. CASE Again(d)
  <2>1. TypeInv' BY <1>13, StartIsSpot DEF TypeInv, Again, Where
  <2>2. EachInv' /\ ErrInv' /\ SetUpInv'
    BY <1>13 DEF TypeInv, Again, EachInv, ErrInv, SetUpInv, Between, Inside, Ended
  <2>3. NothingLeft' BY <1>13 DEF TypeInv, Again, NothingLeft
  <2> QED BY <2>1, <2>2, <2>3
<1> QED BY <1>1, <1>2, <1>3, <1>4, <1>5, <1>6, <1>7, <1>8, <1>9, <1>10, <1>11, <1>12, <1>13 DEF Step

LEMMA NextKeeps == IInv /\ [Next]_vars => IInv'
<1> SUFFICES ASSUME IInv, [Next]_vars PROVE IInv' OBVIOUS
<1>1. CASE \E d \in Device : Step(d) BY <1>1, StepKeeps
<1>2. CASE Interrupt \/ Exit \/ UNCHANGED vars
  <2>1. UNCHANGED <<plan, pc, at, err, each, forward, client, watching, open, left, broken>> /\ (cancelled => cancelled')
    BY <1>2 DEF Interrupt, Exit, vars, place
  <2> QED BY <2>1 DEF IInv, TypeInv, EachInv, ErrInv, SetUpInv, NothingLeft, Device
<1> QED BY <1>1, <1>2 DEF Next

(* The inductive invariant holds in every reachable state.                   *)
THEOREM Invariant == Spec => []IInv
BY InitHolds, NextKeeps, PTL DEF Spec

(* runFile, runSingleAttempt, runOnDevice: before a test is judged, and      *)
(* before the next file, the hooks that tear down have been tried, but for   *)
(* the cases TornDown names; a device that is done or starts again has no    *)
(* watcher, not the client it dialled, and no forward but after an interrupt.*)
THEOREM Cleaned == Spec => []CleanedUp
<1>1. IInv => TornDown BY DEF IInv, TypeInv, EachInv, ErrInv, SetUpInv, TornDown, Between, Ended
<1>2. IInv => NothingLeft BY DEF IInv
<1>3. IInv => CleanedUp BY <1>1, <1>2 DEF CleanedUp
<1> QED BY <1>3, Invariant, PTL
-----------------------------------------------------------------------------
(* A set of numbers that is not empty has a least one.                       *)
LEMMA LeastNumber ==
  ASSUME NEW T, T \subseteq Nat, T # {}
  PROVE  \E m \in T : \A k \in T : m <= k
<1> DEFINE R == OpToRel(<,Nat)
<1>1. IsWellFoundedOn(R, Nat) BY NatLessThanWellFounded
<1>2. \A x, y \in Nat : y < x => <<y, x>> \in R BY DEF OpToRel
<1> HIDE DEF R
<1>3. PICK x \in T : \A y \in T : ~ (<<y, x>> \in R) BY <1>1, WFMin
<1>4. \A y \in T : ~ (y < x) BY <1>2, <1>3
<1> QED BY <1>4
(* A set that holds 0 and, with a number, the next one, holds every number.  *)
LEMMA SetInduction ==
  ASSUME NEW S, 0 \in S, \A n \in Nat : n \in S => n + 1 \in S
  PROVE  \A n \in Nat : n \in S
<1> SUFFICES ASSUME Nat \ S # {} PROVE FALSE OBVIOUS
<1>1. PICK m \in Nat \ S : \A k \in Nat \ S : m <= k BY LeastNumber
<1>2. m # 0 /\ m - 1 \in Nat /\ m - 1 \in S BY <1>1
<1> QED BY <1>1, <1>2

(* A function of 0..L defined by recursion exists.                           *)
Follows(f, b, g, L) == f[0] = b /\ \A n \in 1..L : f[n] = g[<<n, f[n - 1]>>]

LEMMA Recursion ==
  ASSUME NEW V, NEW b \in V, NEW L \in Nat, NEW g \in [(1..L) \X V -> V]
  PROVE  \E f \in [0..L -> V] : Follows(f, b, g, L)
<1> DEFINE I == {m \in Nat : m <= L => \E f \in [0..m -> V] : Follows(f, b, g, m)}
<1>1. 0 \in I
  <2>1. [i \in 0..0 |-> b] \in [0..0 -> V] /\ Follows([i \in 0..0 |-> b], b, g, 0) BY DEF Follows
  <2> QED BY <2>1
<1>2. ASSUME NEW m \in Nat, m \in I PROVE m + 1 \in I
  <2> SUFFICES ASSUME m + 1 <= L PROVE \E f \in [0..(m + 1) -> V] : Follows(f, b, g, m + 1) OBVIOUS
  <2>1. PICK f \in [0..m -> V] : Follows(f, b, g, m) BY <1>2
  <2> DEFINE h == [i \in 0..(m + 1) |-> IF i <= m THEN f[i] ELSE g[<<m + 1, f[m]>>]]
  <2>2. f[m] \in V /\ m + 1 \in 1..L BY <2>1
  <2>3. g[<<m + 1, f[m]>>] \in V BY <2>2
  <2>4. h \in [0..(m + 1) -> V] BY <2>1, <2>3
  <2>5. Follows(h, b, g, m + 1)
    <3>1. h[0] = b BY <2>1 DEF Follows
    <3>2. ASSUME NEW n \in 1..(m + 1) PROVE h[n] = g[<<n, h[n - 1]>>]
      <4>1. n - 1 \in 0..m /\ h[n - 1] = f[n - 1] OBVIOUS
      <4>2. CASE n <= m BY <4>1, <4>2, <2>1 DEF Follows
      <4>3. CASE n = m + 1
        <5>1. n - 1 = m /\ ~(n <= m) BY <4>3
        <5>2. h[n] = g[<<n, f[m]>>] BY <5>1, <4>3
        <5> QED BY <5>1, <5>2, <4>1
      <4> QED BY <4>2, <4>3
    <3> QED BY <3>1, <3>2 DEF Follows
  <2> QED BY <2>4, <2>5
<1>3. \A m \in Nat : m \in I
  <2> HIDE DEF I
  <2> QED BY <1>1, <1>2, SetInduction
<1> QED BY <1>3

(* What the recursive function of Picked is.                                 *)
PicksOf(f, s, places) ==
  f[0] = <<>> /\ \A n \in 1..Len(s) : f[n] = IF n \in places THEN Append(f[n - 1], s[n]) ELSE f[n - 1]

LEMMA PickedIs ==
  ASSUME NEW S, NEW s \in Seq(S), NEW places
  PROVE  \E f \in [0..Len(s) -> Seq(S)] : PicksOf(f, s, places) /\ Picked(s, places) = f[Len(s)]
<1> DEFINE L == Len(s)
<1> DEFINE g == [x \in (1..L) \X Seq(S) |-> IF x[1] \in places THEN Append(x[2], s[x[1]]) ELSE x[2]]
<1> DEFINE D(f) == [n \in 0..L |-> IF n = 0 THEN <<>> ELSE IF n \in places THEN Append(f[n - 1], s[n]) ELSE f[n - 1]]
<1> DEFINE up == CHOOSE f : f = D(f)
<1>0. L \in Nat /\ <<>> \in Seq(S) OBVIOUS
<1>1. g \in [(1..L) \X Seq(S) -> Seq(S)] OBVIOUS
<1>2. PICK f \in [0..L -> Seq(S)] : f[0] = <<>> /\ \A n \in 1..L : f[n] = g[<<n, f[n - 1]>>]
  <2> DEFINE V == Seq(S) e == <<>>
  <2>1. g \in [(1..L) \X V -> V] /\ e \in V /\ L \in Nat BY <1>0, <1>1
  <2> HIDE DEF g, L, V, e
  <2>2. \E f \in [0..L -> V] : Follows(f, e, g, L) BY <2>1, Recursion
  <2> QED BY <2>2 DEF V, e, Follows
<1>3. ASSUME NEW n \in 1..L PROVE f[n] = IF n \in places THEN Append(f[n - 1], s[n]) ELSE f[n - 1]
  <2>1. f[n - 1] \in Seq(S) BY <1>2
  <2> QED BY <1>2, <2>1
<1>4. f = D(f)
  <2>1. \A n \in 0..L : n = 0 \/ n \in 1..L OBVIOUS
  <2>2. \A n \in 1..L : f[n] = D(f)[n] BY <1>3
  <2>3. f[0] = D(f)[0] BY <1>2
  <2> QED BY <2>1, <2>2, <2>3, <1>2
<1>5. up = D(up) BY <1>4
<1>6. up = f
  <2> DEFINE I == {n \in Nat : n <= L => up[n] = f[n]}
  <2>1. 0 \in I
    <3>1. up[0] = D(up)[0] BY <1>5
    <3>2. D(up)[0] = <<>> BY <1>0
    <3> HIDE DEF D, up
    <3> QED BY <3>1, <3>2, <1>2
  <2>2. ASSUME NEW n \in Nat, n \in I PROVE n + 1 \in I
    <3> SUFFICES ASSUME n + 1 <= L PROVE up[n + 1] = f[n + 1] OBVIOUS
    <3>1. up[n + 1] = D(up)[n + 1] BY <1>5
    <3>2. up[n] = f[n] BY <2>2
    <3>3. D(up)[n + 1] = IF n + 1 \in places THEN Append(up[n], s[n + 1]) ELSE up[n] OBVIOUS
    <3> HIDE DEF D, up
    <3> QED BY <3>1, <3>2, <3>3, <1>3
  <2>3. \A n \in Nat : n \in I
    <3> HIDE DEF I
    <3> QED BY <2>1, <2>2, SetInduction
  <2>4. \A n \in 0..L : up[n] = f[n]
    <3> HIDE DEF up
    <3> QED BY <2>3, <1>0
  <2>5. up = [n \in 0..L |-> up[n]] BY <1>5
  <2> HIDE DEF up
  <2> QED BY <2>4, <2>5, <1>2
<1>7. Picked(s, places) = up[L] BY DEF Picked
<1> HIDE DEF up, D
<1> QED BY <1>2, <1>3, <1>6, <1>7 DEF PicksOf

(* What the recursive function of FlattenSeq is.                             *)
Flattens(f, s) == f[0] = <<>> /\ \A n \in 1..Len(s) : f[n] = f[n - 1] \o s[n]

LEMMA FlattenedIs ==
  ASSUME NEW S, NEW s \in Seq(Seq(S))
  PROVE  \E f \in [0..Len(s) -> Seq(S)] : Flattens(f, s) /\ FlattenSeq(s) = f[Len(s)]
<1> DEFINE L == Len(s)
<1> DEFINE g == [x \in (1..L) \X Seq(S) |-> x[2] \o s[x[1]]]
<1> DEFINE D(f) == [n \in 1..L |-> IF n = 1 THEN s[n] ELSE f[n - 1] \o s[n]]
<1> DEFINE fl == CHOOSE f : f = D(f)
<1>0. L \in Nat /\ <<>> \in Seq(S) OBVIOUS
<1>1. g \in [(1..L) \X Seq(S) -> Seq(S)]
  <2>1. \A n \in 1..L : s[n] \in Seq(S) OBVIOUS
  <2>2. \A x \in (1..L) \X Seq(S) : x[2] \o s[x[1]] \in Seq(S) BY <2>1
  <2> QED BY <2>2
<1>2. PICK f \in [0..L -> Seq(S)] : f[0] = <<>> /\ \A n \in 1..L : f[n] = g[<<n, f[n - 1]>>]
  <2> DEFINE V == Seq(S) e == <<>>
  <2>1. g \in [(1..L) \X V -> V] /\ e \in V /\ L \in Nat BY <1>0, <1>1
  <2> HIDE DEF g, L, V, e
  <2>2. \E f \in [0..L -> V] : Follows(f, e, g, L) BY <2>1, Recursion
  <2> QED BY <2>2 DEF V, e, Follows
<1>3. ASSUME NEW n \in 1..L PROVE f[n] = f[n - 1] \o s[n]
  <2>1. n \in 1..L /\ n - 1 \in 0..L BY <1>0
  <2>2. f[n - 1] \in Seq(S) BY <1>2, <2>1
  <2>3. g[<<n, f[n - 1]>>] = f[n - 1] \o s[n] BY <2>1, <2>2
  <2> HIDE DEF g
  <2> QED BY <1>2, <2>3
<1>4. [n \in 1..L |-> f[n]] = D([n \in 1..L |-> f[n]])
  <2> DEFINE h == [n \in 1..L |-> f[n]]
  <2>1. ASSUME NEW n \in 1..L PROVE h[n] = D(h)[n]
    <3>1. CASE n = 1
      <4>1. s[1] \in Seq(S) BY <3>1
      <4>2. <<>> \o s[1] = s[1] BY <4>1
      <4>3. f[1] = f[0] \o s[1]
        <5>1. f[n] = f[n - 1] \o s[n] BY <1>3
        <5>2. n - 1 = 0 BY <3>1
        <5> QED BY <5>1, <5>2, <3>1
      <4>4. h[n] = s[1] BY <1>2, <3>1, <4>2, <4>3
      <4>5. D(h)[n] = s[1] BY <3>1
      <4> HIDE DEF D, h
      <4> QED BY <4>4, <4>5
    <3>2. CASE n # 1
      <4>1. n - 1 \in 1..L BY <3>2
      <4> QED BY <1>3, <3>2, <4>1
    <3> QED BY <3>1, <3>2
  <2> HIDE DEF h
  <2>2. h = [n \in 1..L |-> h[n]] BY DEF h
  <2>3. h = D(h) BY <2>1, <2>2
  <2> QED BY <2>3 DEF h
<1>5. fl = D(fl) BY <1>4
<1>6. \A n \in 1..L : fl[n] = f[n]
  <2> DEFINE I == {n \in Nat : n \in 1..L => fl[n] = f[n]}
  <2>1. 0 \in I OBVIOUS
  <2>2. ASSUME NEW n \in Nat, n \in I PROVE n + 1 \in I
    <3> SUFFICES ASSUME n + 1 \in 1..L PROVE fl[n + 1] = f[n + 1] OBVIOUS
    <3>1. fl[n + 1] = D(fl)[n + 1] BY <1>5
    <3>2. CASE n = 0
      <4>1. s[1] \in Seq(S) BY <3>2
      <4>2. <<>> \o s[1] = s[1] BY <4>1
      <4>3. D(fl)[n + 1] = s[1] BY <3>2
      <4>4. f[1] = f[0] \o s[1]
        <5>1. 1 \in 1..L /\ 1 - 1 = 0 BY <3>2
        <5>2. f[1] = f[1 - 1] \o s[1] BY <1>3, <5>1
        <5> QED BY <5>1, <5>2
      <4> HIDE DEF D, fl
      <4> QED BY <1>2, <3>1, <3>2, <4>2, <4>3, <4>4
    <3>3. CASE n # 0
      <4>1. fl[n] = f[n] BY <2>2, <3>3
      <4>2. D(fl)[n + 1] = fl[n] \o s[n + 1]
        <5>1. n + 1 # 1 /\ (n + 1) - 1 = n BY <3>3
        <5>2. D(fl)[n + 1] = fl[(n + 1) - 1] \o s[n + 1] BY <5>1
        <5> HIDE DEF D, fl
        <5> QED BY <5>1, <5>2
      <4>3. f[n + 1] = f[n] \o s[n + 1]
        <5>1. f[n + 1] = f[(n + 1) - 1] \o s[n + 1] BY <1>3
        <5>2. (n + 1) - 1 = n OBVIOUS
        <5> QED BY <5>1, <5>2
      <4> HIDE DEF D, fl
      <4> QED BY <3>1, <4>1, <4>2, <4>3
    <3> QED BY <3>2, <3>3
  <2>3. \A n \in Nat : n \in I
    <3> HIDE DEF I
    <3> QED BY <2>1, <2>2, SetInduction
  <2> HIDE DEF fl
  <2> QED BY <2>3, <1>0
<1>7. FlattenSeq(s) = f[L]
  <2>1. CASE L = 0 BY <2>1, <1>2 DEF FlattenSeq
  <2>2. CASE L # 0
    <3>1. FlattenSeq(s) = fl[L] BY <2>2 DEF FlattenSeq
    <3> HIDE DEF fl
    <3> QED BY <3>1, <2>2, <1>0, <1>6
  <2> QED BY <2>1, <2>2
<1> HIDE DEF fl, D
<1> QED BY <1>2, <1>3, <1>7 DEF Flattens

LEMMA FlattenNil == FlattenSeq(<<>>) = <<>>
BY DEF FlattenSeq

(* Flattening a list with one more list puts it at the end.                  *)
LEMMA FlattenAppend ==
  ASSUME NEW S, NEW s \in Seq(Seq(S)), NEW t \in Seq(S)
  PROVE  FlattenSeq(s) \in Seq(S) /\ FlattenSeq(Append(s, t)) = FlattenSeq(s) \o t
<1> DEFINE u == Append(s, t) L == Len(s)
<1>0. u \in Seq(Seq(S)) /\ L \in Nat /\ Len(u) = L + 1 /\ u[L + 1] = t /\ \A n \in 1..L : u[n] = s[n] OBVIOUS
<1>1. PICK f \in [0..L -> Seq(S)] : Flattens(f, s) /\ FlattenSeq(s) = f[L] BY FlattenedIs
<1>2. PICK h \in [0..Len(u) -> Seq(S)] : Flattens(h, u) /\ FlattenSeq(u) = h[Len(u)]
  <2> HIDE DEF u
  <2> QED BY <1>0, FlattenedIs
<1> HIDE DEF u
<1> DEFINE I == {n \in Nat : n <= L => f[n] = h[n]}
<1>3. 0 \in I BY <1>1, <1>2 DEF Flattens
<1>4. ASSUME NEW n \in Nat, n \in I PROVE n + 1 \in I
  <2> SUFFICES ASSUME n + 1 <= L PROVE f[n + 1] = h[n + 1] OBVIOUS
  <2>1. n + 1 \in 1..L /\ n + 1 \in 1..Len(u) /\ f[n] = h[n] BY <1>0, <1>4
  <2>2. f[n + 1] = f[n] \o s[n + 1] /\ h[n + 1] = h[n] \o u[n + 1]
    <3>1. (n + 1) - 1 = n OBVIOUS
    <3>2. f[n + 1] = f[(n + 1) - 1] \o s[n + 1] BY <2>1, <1>1 DEF Flattens
    <3>3. h[n + 1] = h[(n + 1) - 1] \o u[n + 1] BY <2>1, <1>2 DEF Flattens
    <3> QED BY <3>1, <3>2, <3>3
  <2> QED BY <2>1, <2>2, <1>0
<1>5. f[L] = h[L]
  <2> HIDE DEF I
  <2>1. L \in I BY <1>3, <1>4, <1>0, SetInduction
  <2> QED BY <2>1, <1>0 DEF I
<1>6. h[L + 1] = h[L] \o t
  <2>1. L + 1 \in 1..Len(u) /\ (L + 1) - 1 = L BY <1>0
  <2>2. h[L + 1] = h[(L + 1) - 1] \o u[L + 1] BY <2>1, <1>2 DEF Flattens
  <2> QED BY <2>1, <2>2, <1>0
<1>7. f[L] \in Seq(S)
  <2>1. L \in 0..L BY <1>0
  <2> QED BY <2>1, <1>1
<1> QED BY <1>0, <1>1, <1>2, <1>5, <1>6, <1>7 DEF u

(* Every entry of the lists is in the flattened list.                        *)
LEMMA FlattenHolds ==
  ASSUME NEW S, NEW s \in Seq(Seq(S)), NEW i \in 1..Len(s), NEW k \in 1..Len(s[i])
  PROVE  \E j \in DOMAIN FlattenSeq(s) : FlattenSeq(s)[j] = s[i][k]
<1> DEFINE L == Len(s)
<1>1. PICK f \in [0..L -> Seq(S)] : Flattens(f, s) /\ FlattenSeq(s) = f[L] BY FlattenedIs
<1>2. L \in Nat /\ i \in 1..L OBVIOUS
<1> DEFINE I == {n \in Nat : i <= n /\ n <= L => \E j \in DOMAIN f[n] : f[n][j] = s[i][k]}
<1>3. 0 \in I OBVIOUS
<1>4. ASSUME NEW n \in Nat, n \in I PROVE n + 1 \in I
  <2> SUFFICES ASSUME i <= n + 1, n + 1 <= L PROVE \E j \in DOMAIN f[n + 1] : f[n + 1][j] = s[i][k] OBVIOUS
  <2>1. n + 1 \in 1..L /\ n \in 0..L /\ (n + 1) - 1 = n BY <1>2
  <2>2. f[n + 1] = f[(n + 1) - 1] \o s[n + 1] BY <1>1, <2>1 DEF Flattens
  <2>a. f[n] \in Seq(S) BY <1>1, <2>1
  <2>b. s[n + 1] \in Seq(S) BY <2>1
  <2> DEFINE a == f[n] b == s[n + 1]
  <2>3. /\ \A j \in 1..Len(a) : j \in DOMAIN (a \o b) /\ (a \o b)[j] = a[j]
        /\ \A m \in 1..Len(b) : Len(a) + m \in DOMAIN (a \o b) /\ (a \o b)[Len(a) + m] = b[m]
    <3> HIDE DEF a, b
    <3>1. a \in Seq(S) /\ b \in Seq(S) BY <2>a, <2>b DEF a, b
    <3> QED BY <3>1
  <2>c. DOMAIN f[n] = 1..Len(f[n]) BY <2>a
  <2>4. CASE i <= n
    <3>1. PICK j \in DOMAIN f[n] : f[n][j] = s[i][k] BY <1>4, <2>4, <2>1
    <3>2. j \in DOMAIN (f[n] \o s[n + 1]) /\ (f[n] \o s[n + 1])[j] = f[n][j]
      BY <3>1, <2>c, <2>3
    <3> QED BY <3>1, <3>2, <2>1, <2>2
  <2>5. CASE i = n + 1
    <3>1. Len(f[n]) + k \in DOMAIN (f[n] \o s[n + 1]) /\ (f[n] \o s[n + 1])[Len(f[n]) + k] = s[n + 1][k]
      BY <2>3, <2>5
    <3> QED BY <3>1, <2>1, <2>2, <2>5
  <2> QED BY <2>4, <2>5, <1>2
<1>5. L \in I
  <2> HIDE DEF I
  <2> QED BY <1>2, <1>3, <1>4, SetInduction
<1> QED BY <1>1, <1>2, <1>5

LEMMA PickedNil == ASSUME NEW places PROVE Picked(<<>>, places) = <<>>
<1>1. <<>> \in Seq({}) OBVIOUS
<1>2. PICK f \in [0..Len(<<>>) -> Seq({})] : PicksOf(f, <<>>, places) /\ Picked(<<>>, places) = f[Len(<<>>)]
  BY <1>1, PickedIs
<1> QED BY <1>2 DEF PicksOf

SameUpTo(p, q, n) == \A i \in 1..n : i \in p <=> i \in q

(* What is picked from a list with one more entry; only the places that the  *)
(* list has count.                                                           *)
LEMMA PickedAppend ==
  ASSUME NEW S, NEW s \in Seq(S), NEW e \in S, NEW p, NEW q, SameUpTo(p, q, Len(s))
  PROVE  /\ Picked(s, p) \in Seq(S) /\ Picked(s, q) = Picked(s, p)
         /\ Picked(Append(s, e), q) = IF Len(s) + 1 \in q THEN Append(Picked(s, p), e) ELSE Picked(s, p)
<1> DEFINE u == Append(s, e) L == Len(s)
<1>0. u \in Seq(S) /\ L \in Nat /\ Len(u) = L + 1 /\ u[L + 1] = e /\ \A n \in 1..L : u[n] = s[n] OBVIOUS
<1>1. PICK f \in [0..L -> Seq(S)] : PicksOf(f, s, p) /\ Picked(s, p) = f[L] BY PickedIs
<1>2. PICK g \in [0..L -> Seq(S)] : PicksOf(g, s, q) /\ Picked(s, q) = g[L] BY PickedIs
<1>3. PICK h \in [0..Len(u) -> Seq(S)] : PicksOf(h, u, q) /\ Picked(u, q) = h[Len(u)]
  <2> HIDE DEF u
  <2> QED BY <1>0, PickedIs
<1> HIDE DEF u
<1> DEFINE I == {n \in Nat : n <= L => f[n] = h[n] /\ f[n] = g[n]}
<1>4. 0 \in I BY <1>1, <1>2, <1>3 DEF PicksOf
<1>5. ASSUME NEW n \in Nat, n \in I PROVE n + 1 \in I
  <2> SUFFICES ASSUME n + 1 <= L PROVE f[n + 1] = h[n + 1] /\ f[n + 1] = g[n + 1] OBVIOUS
  <2>1. n + 1 \in 1..L /\ n + 1 \in 1..Len(u) /\ f[n] = h[n] /\ f[n] = g[n] /\ (n + 1) - 1 = n BY <1>0, <1>5
  <2>2. f[n + 1] = IF n + 1 \in p THEN Append(f[(n + 1) - 1], s[n + 1]) ELSE f[(n + 1) - 1] BY <2>1, <1>1 DEF PicksOf
  <2>3. g[n + 1] = IF n + 1 \in q THEN Append(g[(n + 1) - 1], s[n + 1]) ELSE g[(n + 1) - 1] BY <2>1, <1>2 DEF PicksOf
  <2>4. h[n + 1] = IF n + 1 \in q THEN Append(h[(n + 1) - 1], u[n + 1]) ELSE h[(n + 1) - 1] BY <2>1, <1>3 DEF PicksOf
  <2>5. n + 1 \in p <=> n + 1 \in q BY <2>1 DEF SameUpTo
  <2> QED BY <2>1, <2>2, <2>3, <2>4, <2>5, <1>0
<1>6. f[L] = h[L] /\ f[L] = g[L]
  <2> HIDE DEF I
  <2>1. L \in I BY <1>4, <1>5, <1>0, SetInduction
  <2> QED BY <2>1, <1>0 DEF I
<1>7. h[L + 1] = IF L + 1 \in q THEN Append(h[L], e) ELSE h[L]
  <2>1. L + 1 \in 1..Len(u) /\ (L + 1) - 1 = L BY <1>0
  <2>2. h[L + 1] = IF L + 1 \in q THEN Append(h[(L + 1) - 1], u[L + 1]) ELSE h[(L + 1) - 1]
    BY <2>1, <1>3 DEF PicksOf
  <2> QED BY <2>1, <2>2, <1>0
<1>8. f[L] \in Seq(S)
  <2>1. L \in 0..L BY <1>0
  <2> QED BY <2>1, <1>1
<1> QED BY <1>0, <1>1, <1>2, <1>3, <1>6, <1>7, <1>8 DEF u
-----------------------------------------------------------------------------
TestEntry == [id : Nat, rows : Nat \cup {NoData}]
Results == [file : DOMAIN Content, kind : {"test", "composite"}, id : Nat, row : Nat,
            passed : BOOLEAN, skipped : BOOLEAN, log : Seq(BOOLEAN)]
KeySet == (DOMAIN Content) \X {"test", "composite"} \X Nat \X Nat

LEMMA FlattenType == ASSUME NEW S, NEW s \in Seq(Seq(S)) PROVE FlattenSeq(s) \in Seq(S)
<1>1. <<>> \in Seq(S) OBVIOUS
<1> QED BY <1>1, FlattenAppend

LEMMA SelectedIs == ASSUME NEW f \in DOMAIN Content PROVE Selected(f) \in Seq(TestEntry)
<1> DEFINE tests == Content[f].tests
<1> DEFINE one(i) == [k \in 1..tests[i].picks |-> [id |-> i, rows |-> tests[i].rows]]
<1> DEFINE lists == [i \in DOMAIN tests |-> one(i)]
<1>1. tests \in Seq(TestKind)
  <2>1. Content[f] \in FileKind BY PlanAssumption
  <2> QED BY <2>1 DEF FileKind
<1>2. \A i \in DOMAIN tests : one(i) \in Seq(TestEntry)
  <2> SUFFICES ASSUME NEW i \in DOMAIN tests PROVE one(i) \in Seq(TestEntry) OBVIOUS
  <2>1. tests[i] \in TestKind /\ i \in Nat BY <1>1
  <2>2. tests[i].picks \in Nat /\ [id |-> i, rows |-> tests[i].rows] \in TestEntry BY <2>1 DEF TestKind, TestEntry
  <2> QED BY <2>2
<1>3. DOMAIN tests = 1..Len(tests) /\ Len(tests) \in Nat BY <1>1
<1>4. lists \in Seq(Seq(TestEntry))
  <2> HIDE DEF one, tests
  <2> QED BY <1>2, <1>3
<1>5. Selected(f) = FlattenSeq(lists) BY DEF Selected, Entry
<1> HIDE DEF lists
<1> QED BY <1>4, <1>5, FlattenType

LEMMA ShardIs ==
  ASSUME NEW p, NEW S, p.files \in Seq(S) PROVE Shard(p) \in Seq(S)
<1> DEFINE s == p.files mine == {i \in DOMAIN p.files : p.of =< 1 \/ Bucket[p.files[i]] % p.of = p.shard}
<1>0. s \in Seq(S) OBVIOUS
<1>1. Shard(p) = Picked(s, mine) BY DEF Shard
<1> HIDE DEF s, mine
<1>2. PICK f \in [0..Len(s) -> Seq(S)] : Picked(s, mine) = f[Len(s)] BY <1>0, PickedIs
<1>3. Len(s) \in 0..Len(s) BY <1>0
<1> QED BY <1>1, <1>2, <1>3

(* Multiples compare as their factors.                                       *)
LEMMA Multiples ==
  ASSUME NEW n \in Nat \ {0}, NEW a \in Int, NEW b \in Int, NEW r \in 0..(n - 1), n * a <= n * b + r
  PROVE  a <= b
<1> SUFFICES ASSUME b + 1 <= a PROVE FALSE OBVIOUS
<1>1. n * (a - (b + 1)) >= 0 OBVIOUS
<1>2. n * (a - (b + 1)) = n * a - n * b - n OBVIOUS
<1> QED BY <1>1, <1>2

LEMMA Division ==
  ASSUME NEW n \in Nat \ {0}, NEW a \in Nat
  PROVE  a \div n \in Nat /\ a % n \in 0..(n - 1) /\ a = n * (a \div n) + (a % n)
OBVIOUS

EveryNth(s, files, n, d) ==
  /\ \A k \in Nat \ {0} : k \in 1..Len(s) <=> (k - 1) * n + d <= Len(files)
  /\ \A k \in 1..Len(s) : s[k] = files[(k - 1) * n + d]

(* DistributeFiles: device d is dealt the files at d, n + d, 2n + d, ...     *)
LEMMA DealIs ==
  ASSUME NEW S, NEW files \in Seq(S), NEW n \in Nat \ {0}, NEW d \in 1..n
  PROVE  Deal(files, n, d) \in Seq(S) /\ EveryNth(Deal(files, n, d), files, n, d)
<1> SUFFICES /\ Deal(files, n, d) \in Seq(S)
             /\ \A k \in Nat \ {0} : k \in 1..Len(Deal(files, n, d)) <=> (k - 1) * n + d <= Len(files)
             /\ \A k \in 1..Len(Deal(files, n, d)) : Deal(files, n, d)[k] = files[(k - 1) * n + d]
  BY DEF EveryNth
<1> DEFINE L == Len(files) mine == {i \in DOMAIN files : (i - 1) % n = d - 1}
<1> DEFINE m == IF d <= L THEN ((L - d) \div n) + 1 ELSE 0
<1>0. L \in Nat /\ DOMAIN files = 1..L OBVIOUS
<1>1. m \in Nat /\ \A k \in Nat \ {0} : k <= m <=> (k - 1) * n + d <= L
  <2>1. CASE d <= L
    <3> DEFINE q == (L - d) \div n r == (L - d) % n
    <3>1. q \in Nat /\ r \in 0..(n - 1) /\ L - d = n * q + r BY <1>0, <2>1
    <3> HIDE DEF q, r
    <3>2. ASSUME NEW k \in Nat \ {0}, k <= q + 1 PROVE (k - 1) * n + d <= L
      <4>1. n * (q - (k - 1)) >= 0 BY <3>1, <3>2
      <4>2. n * (q - (k - 1)) = n * q - (k - 1) * n BY <3>1
      <4> QED BY <4>1, <4>2, <3>1, <1>0
    <3>3. ASSUME NEW k \in Nat \ {0}, (k - 1) * n + d <= L PROVE k <= q + 1
      <4>1. n * (k - 1) <= n * q + r BY <3>1, <3>3, <1>0
      <4>2. k - 1 <= q BY <4>1, <3>1, Multiples
      <4> QED BY <4>2, <3>1
    <3>4. m = q + 1 BY <2>1 DEF q
    <3> QED BY <3>1, <3>2, <3>3, <3>4
  <2>2. CASE ~(d <= L)
    <3>1. \A k \in Nat \ {0} : (k - 1) * n >= 0 OBVIOUS
    <3>2. m = 0 BY <2>2
    <3> QED BY <2>2, <3>1, <3>2, <1>0
  <2> QED BY <2>1, <2>2
<1> HIDE DEF m
<1>2. \A k \in 1..m : (k - 1) * n + d \in 1..L /\ ((k - 1) * n + d - 1) % n = d - 1
  <2> SUFFICES ASSUME NEW k \in 1..m PROVE (k - 1) * n + d \in 1..L /\ ((k - 1) * n + d - 1) % n = d - 1 OBVIOUS
  <2>1. (k - 1) * n + d <= L BY <1>1
  <2>2. (k - 1) * n \in Nat BY <1>1
  <2>3. ((k - 1) * n + (d - 1)) % n = d - 1 BY <1>1
  <2> QED BY <2>1, <2>2, <2>3, <1>0
<1>3. Cardinality(mine) = m
  <2> DEFINE g == [k \in 1..m |-> (k - 1) * n + d]
  <2>1. g \in [1..m -> mine] BY <1>0, <1>2
  <2>2. ASSUME NEW j \in 1..m, NEW k \in 1..m, g[j] = g[k] PROVE j = k
    <3>1. n * (j - 1) <= n * (k - 1) + 0 /\ n * (k - 1) <= n * (j - 1) + 0 BY <2>2, <1>1
    <3>2. j - 1 <= k - 1 /\ k - 1 <= j - 1 BY <3>1, <1>1, Multiples
    <3> QED BY <3>2, <1>1
  <2>3. ASSUME NEW i \in mine PROVE \E k \in 1..m : g[k] = i
    <3> DEFINE q == (i - 1) \div n
    <3>0. i \in 1..L /\ (i - 1) % n = d - 1 BY <1>0
    <3>1. q \in Nat /\ i - 1 = n * q + (d - 1)
      <4>1. i - 1 \in Nat BY <3>0
      <4>2. q \in Nat /\ i - 1 = n * q + ((i - 1) % n) BY <4>1, Division
      <4> QED BY <3>0, <4>2
    <3> HIDE DEF q
    <3>2. ((q + 1) - 1) * n + d <= L BY <3>0, <3>1, <1>0
    <3>3. q + 1 \in 1..m BY <3>1, <3>2, <1>1
    <3>4. g[q + 1] = i BY <3>1, <3>3, <1>0
    <3> QED BY <3>3, <3>4
  <2> HIDE DEF g, mine
  <2>4. g \in Injection(1..m, mine) BY <2>1, <2>2 DEF Injection, IsInjective
  <2>5. g \in Surjection(1..m, mine) BY <2>1, <2>3 DEF Surjection
  <2>6. ExistsBijection(1..m, mine) BY <2>4, <2>5 DEF ExistsBijection, Bijection
  <2> QED BY <2>6, <1>1, FS_CountingElements
<1>4. Deal(files, n, d) = [k \in 1..m |-> files[(k - 1) * n + d]] BY <1>3 DEF Deal
<1>5. \A k \in 1..m : files[(k - 1) * n + d] \in S BY <1>0, <1>2
<1>6. [k \in 1..m |-> files[(k - 1) * n + d]] \in Seq(S) BY <1>1, <1>5
<1>7. Len(Deal(files, n, d)) = m BY <1>1, <1>4
<1>8. \A k \in Nat \ {0} : k \in 1..m <=> k <= m BY <1>1
<1>9. Deal(files, n, d) \in Seq(S) BY <1>4, <1>6
<1>10. \A k \in 1..m : Deal(files, n, d)[k] = files[(k - 1) * n + d] BY <1>4
<1> QED BY <1>1, <1>7, <1>8, <1>9, <1>10

OfTest(f, test) == [k \in DOMAIN Rows(test) |-> <<f, "test", test.id, Rows(test)[k]>>]
OfTests(f, n) == FlattenSeq([i \in 1..n |-> OfTest(f, Selected(f)[i])])
OfRows(f, test, n) == [k \in 1..n |-> <<f, "test", test.id, k>>]
OfComposites(f, n) == [k \in 1..n |-> <<f, "composite", k, 0>>]

LEMMA FlattenPrefix ==
  ASSUME NEW S, NEW m \in Nat, NEW g \in [1..m -> Seq(S)], NEW n \in 0..(m - 1)
  PROVE  /\ FlattenSeq([i \in 1..n |-> g[i]]) \in Seq(S)
         /\ FlattenSeq([i \in 1..(n + 1) |-> g[i]]) = FlattenSeq([i \in 1..n |-> g[i]]) \o g[n + 1]
<1> DEFINE s == [i \in 1..n |-> g[i]] t == g[n + 1]
<1>1. s \in Seq(Seq(S)) /\ t \in Seq(S) OBVIOUS
<1>2. [i \in 1..(n + 1) |-> g[i]] = Append(s, t) OBVIOUS
<1> HIDE DEF s, t
<1>3. FlattenSeq(s) \in Seq(S) /\ FlattenSeq(Append(s, t)) = FlattenSeq(s) \o t BY <1>1, FlattenAppend
<1> QED BY <1>2, <1>3 DEF s, t

(* The first n sequences of g, one after the other. *)
FlatTo(g, n) == FlattenSeq([i \in 1..n |-> g[i]])

LEMMA FlatToStep ==
  ASSUME NEW S, NEW m \in Nat, NEW g \in [1..m -> Seq(S)], NEW n \in 0..(m - 1)
  PROVE  FlatTo(g, n + 1) = FlatTo(g, n) \o g[n + 1]
BY FlattenPrefix, ZenonT(40) DEF FlatTo

LEMMA FlattenOnes ==
  ASSUME NEW S, NEW g \in Seq(S) PROVE FlattenSeq([i \in 1..Len(g) |-> <<g[i]>>]) = g
<1> DEFINE m == Len(g) one == [i \in 1..m |-> <<g[i]>>]
<1> DEFINE I == {n \in Nat : n <= m => FlattenSeq([i \in 1..n |-> one[i]]) = [i \in 1..n |-> g[i]]}
<1>0. m \in Nat /\ one \in [1..m -> Seq(S)] /\ g = [i \in 1..m |-> g[i]] OBVIOUS
<1>1. 0 \in I
  <2>1. [i \in 1..0 |-> one[i]] = <<>> /\ [i \in 1..0 |-> g[i]] = <<>> OBVIOUS
  <2> QED BY <2>1, FlattenNil
<1>2. ASSUME NEW n \in Nat, n \in I PROVE n + 1 \in I
  <2> SUFFICES ASSUME n + 1 <= m
               PROVE  FlattenSeq([i \in 1..(n + 1) |-> one[i]]) = [i \in 1..(n + 1) |-> g[i]]
    OBVIOUS
  <2>1. FlattenSeq([i \in 1..n |-> one[i]]) = [i \in 1..n |-> g[i]] BY <1>2, <1>0
  <2>2. FlattenSeq([i \in 1..(n + 1) |-> one[i]]) = FlattenSeq([i \in 1..n |-> one[i]]) \o one[n + 1]
    <3>1. n \in 0..(m - 1) BY <1>0
    <3>2. m \in Nat BY <1>0
    <3>3. one \in [1..m -> Seq(S)] BY <1>0
    <3> HIDE DEF one, m, I
    <3>4. FlatTo(one, n + 1) = FlatTo(one, n) \o one[n + 1] BY <3>1, <3>2, <3>3, FlatToStep
    <3> QED BY <3>4 DEF FlatTo
  <2>3. one[n + 1] = <<g[n + 1]>> /\ g[n + 1] \in S BY <1>0
  <2>4. [i \in 1..n |-> g[i]] \o <<g[n + 1]>> = [i \in 1..(n + 1) |-> g[i]]
    <3>1. [i \in 1..n |-> g[i]] \in Seq(S) BY <1>0
    <3> QED BY <3>1, <2>3
  <2> HIDE DEF one
  <2> QED BY <2>1, <2>2, <2>3, <2>4
<1>3. m \in I
  <2> HIDE DEF I
  <2> QED BY <1>0, <1>1, <1>2, SetInduction
<1>4. [i \in 1..m |-> one[i]] = one BY <1>0
<1>5. FlattenSeq([i \in 1..m |-> one[i]]) = [i \in 1..m |-> g[i]] BY <1>0, <1>3
<1>6. FlattenSeq(one) = g
  <2> HIDE DEF one, m
  <2> QED BY <1>0, <1>4, <1>5
<1> QED BY <1>6 DEF one

LEMMA KeyType ==
  ASSUME NEW f \in DOMAIN Content, NEW kind \in {"test", "composite"}, NEW id \in Nat, NEW row \in Nat
  PROVE  <<f, kind, id, row>> \in KeySet
BY DEF KeySet

LEMMA KeyIs == ASSUME NEW r \in Results PROVE Key(r) \in KeySet
<1>1. r.file \in DOMAIN Content /\ r.kind \in {"test", "composite"} /\ r.id \in Nat /\ r.row \in Nat BY DEF Results
<1>2. <<r.file, r.kind, r.id, r.row>> \in KeySet BY <1>1, KeyType
<1> QED BY <1>2 DEF Key

LEMMA KeysOfMore ==
  ASSUME NEW s \in Seq(Results), NEW t \in Seq(Results)
  PROVE  Keys(s) \in Seq(KeySet) /\ Keys(s \o t) = Keys(s) \o Keys(t)
<1>1. \A r \in Results : Key(r) \in KeySet BY KeyIs
<1>2. Keys(s) \in Seq(KeySet) /\ Keys(t) \in Seq(KeySet) /\ Len(Keys(s)) = Len(s) /\ Len(Keys(t)) = Len(t)
  BY <1>1 DEF Keys
<1>0. Len(s) \in Nat /\ Len(t) \in Nat OBVIOUS
<1>3. s \o t \in Seq(Results) /\ Len(s \o t) = Len(s) + Len(t) OBVIOUS
<1>4. Keys(s \o t) = [i \in 1..(Len(s) + Len(t)) |-> Key((s \o t)[i])] BY <1>3 DEF Keys
<1>5. ASSUME NEW i \in 1..(Len(s) + Len(t)) PROVE Key((s \o t)[i]) = (Keys(s) \o Keys(t))[i]
  <2>1. CASE i <= Len(s)
    <3>1. (s \o t)[i] = s[i] /\ Keys(s)[i] = Key(s[i]) BY <2>1 DEF Keys
    <3>2. (Keys(s) \o Keys(t))[i] = Keys(s)[i] BY <1>2, <2>1
    <3> QED BY <3>1, <3>2
  <2>2. CASE i > Len(s)
    <3>1. i - Len(s) \in 1..Len(t) BY <2>2
    <3>2. (s \o t)[i] = t[i - Len(s)] /\ Keys(t)[i - Len(s)] = Key(t[i - Len(s)]) BY <3>1, <2>2 DEF Keys
    <3>3. (Keys(s) \o Keys(t))[i] = Keys(t)[i - Len(s)] BY <1>2, <3>1, <2>2
    <3> QED BY <3>2, <3>3
  <2>3. i \in Nat /\ (i <= Len(s) \/ i > Len(s)) BY <1>0
  <2> QED BY <2>1, <2>2, <2>3
<1>6. Keys(s) \o Keys(t) = [i \in 1..(Len(s) + Len(t)) |-> (Keys(s) \o Keys(t))[i]]
  <2> DEFINE a == Keys(s) b == Keys(t)
  <2>1. a \in Seq(KeySet) /\ b \in Seq(KeySet) /\ Len(a) = Len(s) /\ Len(b) = Len(t) BY <1>2
  <2> HIDE DEF a, b
  <2> DEFINE c == a \o b
  <2>c. c \in Seq(KeySet) /\ Len(c) = Len(a) + Len(b) BY <2>1
  <2>2. c = [i \in 1..(Len(a) + Len(b)) |-> c[i]]
    <3> HIDE DEF c
    <3> QED BY <2>c
  <2> QED BY <2>1, <2>2 DEF a, b
<1> QED BY <1>2, <1>4, <1>5, <1>6

LEMMA KeysOfOneMore ==
  ASSUME NEW s \in Seq(Results), NEW r \in Results
  PROVE  Keys(s) \in Seq(KeySet) /\ Key(r) \in KeySet /\ Keys(Append(s, r)) = Append(Keys(s), Key(r))
<1>1. <<r>> \in Seq(Results) /\ Append(s, r) = s \o <<r>> OBVIOUS
<1>2. Keys(s) \in Seq(KeySet) /\ Keys(s \o <<r>>) = Keys(s) \o Keys(<<r>>) BY <1>1, KeysOfMore
<1>3. Keys(<<r>>) = <<Key(r)>> BY DEF Keys
<1>4. Key(r) \in KeySet BY KeyIs
<1>5. Keys(s) \o <<Key(r)>> = Append(Keys(s), Key(r)) BY <1>2, <1>4
<1> QED BY <1>1, <1>2, <1>3, <1>4, <1>5

LEMMA EntryIs ==
  ASSUME NEW f \in DOMAIN Content, NEW i \in 1..Len(Selected(f))
  PROVE  Selected(f)[i] \in TestEntry /\ Selected(f)[i].id \in Nat
<1>1. Selected(f) \in Seq(TestEntry) BY SelectedIs
<1> HIDE DEF Selected
<1>2. Selected(f)[i] \in TestEntry BY <1>1
<1> QED BY <1>2 DEF TestEntry

LEMMA OfTestType ==
  ASSUME NEW f \in DOMAIN Content, NEW test \in TestEntry PROVE OfTest(f, test) \in Seq(KeySet)
<1>1. test.id \in Nat /\ test.rows \in Nat \cup {NoData} BY DEF TestEntry
<1>2. Rows(test) \in Seq(Nat) BY <1>1 DEF Rows
<1>3. \A k \in DOMAIN Rows(test) : <<f, "test", test.id, Rows(test)[k]>> \in KeySet
  <2> SUFFICES ASSUME NEW k \in DOMAIN Rows(test) PROVE <<f, "test", test.id, Rows(test)[k]>> \in KeySet OBVIOUS
  <2>1. Rows(test)[k] \in Nat BY <1>2
  <2> QED BY <1>1, <2>1, KeyType
<1>4. DOMAIN Rows(test) = 1..Len(Rows(test)) /\ Len(Rows(test)) \in Nat BY <1>2
<1> HIDE DEF Rows
<1> QED BY <1>3, <1>4 DEF OfTest

(* The results of the first n tests, and of one more.                        *)
LEMMA OfTestsIs ==
  ASSUME NEW f \in DOMAIN Content, NEW n \in 0..Len(Selected(f))
  PROVE  /\ OfTests(f, n) \in Seq(KeySet) /\ OfTests(f, 0) = <<>>
         /\ n < Len(Selected(f)) => OfTests(f, n + 1) = OfTests(f, n) \o OfTest(f, Selected(f)[n + 1])
<1> DEFINE m == Len(Selected(f)) g == [i \in 1..m |-> OfTest(f, Selected(f)[i])]
<1>1. m \in Nat BY SelectedIs
<1>2. g \in [1..m -> Seq(KeySet)] BY EntryIs, OfTestType
<1>3. \A j \in 0..m : OfTests(f, j) = FlattenSeq([i \in 1..j |-> g[i]])
  <2> SUFFICES ASSUME NEW j \in 0..m PROVE OfTests(f, j) = FlattenSeq([i \in 1..j |-> g[i]]) OBVIOUS
  <2>1. [i \in 1..j |-> OfTest(f, Selected(f)[i])] = [i \in 1..j |-> g[i]] BY <1>1
  <2> QED BY <2>1 DEF OfTests
<1>4. g[n + 1] = OfTest(f, Selected(f)[n + 1]) \/ ~(n < m) BY <1>1
<1>5. OfTests(f, 0) = <<>>
  <2>1. [i \in 1..0 |-> OfTest(f, Selected(f)[i])] = <<>> OBVIOUS
  <2> QED BY <2>1, FlattenNil DEF OfTests
<1> HIDE DEF g, m
<1>6. ASSUME NEW j \in 0..m PROVE OfTests(f, j) \in Seq(KeySet)
  <2> DEFINE s == [i \in 1..j |-> g[i]]
  <2>1. s \in Seq(Seq(KeySet)) BY <1>1, <1>2
  <2> HIDE DEF s
  <2>2. FlattenSeq(s) \in Seq(KeySet) BY <2>1, FlattenType
  <2> QED BY <1>3, <2>2 DEF s
<1>7. ASSUME n < m PROVE OfTests(f, n + 1) = OfTests(f, n) \o g[n + 1]
  <2>1. n \in 0..(m - 1) /\ n \in 0..m /\ n + 1 \in 0..m BY <1>1, <1>7 DEF m
  <2>2. FlattenSeq([i \in 1..(n + 1) |-> g[i]]) = FlattenSeq([i \in 1..n |-> g[i]]) \o g[n + 1]
    <3>1. n \in 0..(m - 1) BY <2>1
    <3>2. FlatTo(g, n + 1) = FlatTo(g, n) \o g[n + 1] BY <1>1, <1>2, <3>1, FlatToStep
    <3> QED BY <3>2 DEF FlatTo
  <2> QED BY <2>1, <2>2, <1>3
<1> QED BY <1>4, <1>5, <1>6, <1>7 DEF m

FileKeys(f, isBroken) == KeysOf(f, Selected(f), isBroken)

(* What is to be reported of a file: of each test and composite test, or,    *)
(* after a failed `before all`, of each test once.                           *)
LEMMA KeysOfIs ==
  ASSUME NEW f \in DOMAIN Content
  PROVE  /\ FileKeys(f, FALSE) = OfTests(f, Len(Selected(f))) \o OfComposites(f, Content[f].comps)
         /\ FileKeys(f, TRUE) = [i \in 1..Len(Selected(f)) |-> <<f, "test", Selected(f)[i].id, 0>>]
         /\ FileKeys(f, FALSE) \in Seq(KeySet) /\ FileKeys(f, TRUE) \in Seq(KeySet)
         /\ Content[f].comps \in Nat
<1> DEFINE T == Selected(f) m == Len(T) c == Content[f].comps
<1>1. T \in Seq(TestEntry) /\ m \in Nat /\ DOMAIN T = 1..m BY SelectedIs
<1>2. c \in Nat
  <2>1. Content[f] \in FileKind BY PlanAssumption
  <2> QED BY <2>1 DEF FileKind
<1>3. FileKeys(f, FALSE) = OfTests(f, m) \o OfComposites(f, c)
  <2>1. [i \in DOMAIN T |-> OfTest(f, T[i])] = [i \in 1..m |-> OfTest(f, T[i])] BY <1>1
  <2> HIDE DEF c
  <2> QED BY <2>1 DEF FileKeys, KeysOf, OfTests, OfTest, OfComposites, c
<1>4. OfComposites(f, c) \in Seq(KeySet)
  <2>1. \A k \in 1..c : <<f, "composite", k, 0>> \in KeySet BY <1>2, KeyType
  <2> HIDE DEF c
  <2> QED BY <1>2, <2>1 DEF OfComposites
<1>5. OfTests(f, m) \in Seq(KeySet)
  <2>1. m \in 0..m BY <1>1
  <2> QED BY <2>1, OfTestsIs
<1> DEFINE g == [i \in 1..m |-> <<f, "test", T[i].id, 0>>]
<1>6. g \in Seq(KeySet)
  <2>1. \A i \in 1..m : <<f, "test", T[i].id, 0>> \in KeySet BY EntryIs, KeyType
  <2> HIDE DEF T, m
  <2> QED BY <2>1, <1>1
<1>7. FileKeys(f, TRUE) = g
  <2>1. [i \in DOMAIN T |-> <<<<f, "test", T[i].id, 0>>>>] = [i \in 1..Len(g) |-> <<g[i]>>]
    <3>1. Len(g) = m BY <1>1
    <3> QED BY <3>1, <1>1
  <2>2. FlattenSeq([i \in 1..Len(g) |-> <<g[i]>>]) = g
    <3> HIDE DEF g
    <3> QED BY <1>6, FlattenOnes
  <2>3. FileKeys(f, TRUE) = FlattenSeq([i \in DOMAIN T |-> <<<<f, "test", T[i].id, 0>>>>]) \o <<>> BY DEF FileKeys, KeysOf
  <2>4. g \o <<>> = g
    <3> HIDE DEF g
    <3> QED BY <1>6
  <2> HIDE DEF g
  <2> QED BY <2>1, <2>2, <2>3, <2>4
<1>8. OfTests(f, m) \o OfComposites(f, c) \in Seq(KeySet)
  <2> DEFINE a == OfTests(f, m) b == OfComposites(f, c)
  <2>1. a \in Seq(KeySet) /\ b \in Seq(KeySet) BY <1>4, <1>5
  <2> HIDE DEF a, b
  <2>2. a \o b \in Seq(KeySet) BY <2>1
  <2> QED BY <2>2 DEF a, b
<1> QED BY <1>2, <1>3, <1>6, <1>7, <1>8

KeysIn(files, b, n) == FlattenSeq([i \in 1..n |-> FileKeys(files[i], i \in b)])
ToldOf(s) == Picked(s, {i \in DOMAIN s : Attempted(s[i])})

(* The files of a device are files of the plan.                              *)
LEMMA FilesIs ==
  ASSUME plan \in Plans, NEW d \in Device
  PROVE  Files(d) \in Seq(DOMAIN Content) /\ Len(Files(d)) \in Nat
<1>1. plan.files \in Seq(DOMAIN Content) /\ plan.devices \in Nat \ {0} BY PlanAssumption
<1>2. Shard(plan) \in Seq(DOMAIN Content) BY <1>1, ShardIs
<1>3. d \in 1..plan.devices BY DEF Device
<1>4. Deal(Shard(plan), plan.devices, d) \in Seq(DOMAIN Content) BY <1>1, <1>2, <1>3, DealIs
<1>5. Files(d) \in Seq(DOMAIN Content) BY <1>4 DEF Files
<1> HIDE DEF Files
<1> QED BY <1>5

LEMMA KeysInIs ==
  ASSUME NEW files \in Seq(DOMAIN Content), NEW b, NEW n \in 0..Len(files)
  PROVE  /\ KeysIn(files, b, n) \in Seq(KeySet) /\ KeysIn(files, b, 0) = <<>>
         /\ n < Len(files) => KeysIn(files, b, n + 1) = KeysIn(files, b, n) \o FileKeys(files[n + 1], n + 1 \in b)
<1> DEFINE m == Len(files) g == [i \in 1..m |-> FileKeys(files[i], i \in b)]
<1>1. m \in Nat OBVIOUS
<1>2. g \in [1..m -> Seq(KeySet)]
  <2> SUFFICES ASSUME NEW i \in 1..m PROVE FileKeys(files[i], i \in b) \in Seq(KeySet) OBVIOUS
  <2>1. files[i] \in DOMAIN Content OBVIOUS
  <2>2. FileKeys(files[i], FALSE) \in Seq(KeySet) /\ FileKeys(files[i], TRUE) \in Seq(KeySet) BY <2>1, KeysOfIs
  <2>3. CASE i \in b
    <3>1. (i \in b) = TRUE BY <2>3
    <3> QED BY <2>2, <3>1
  <2>4. CASE i \notin b
    <3>1. (i \in b) = FALSE BY <2>4
    <3> QED BY <2>2, <3>1
  <2> QED BY <2>3, <2>4
<1>3. \A j \in 0..m : KeysIn(files, b, j) = FlattenSeq([i \in 1..j |-> g[i]])
  <2> SUFFICES ASSUME NEW j \in 0..m PROVE KeysIn(files, b, j) = FlattenSeq([i \in 1..j |-> g[i]]) OBVIOUS
  <2>1. [i \in 1..j |-> FileKeys(files[i], i \in b)] = [i \in 1..j |-> g[i]] BY <1>1
  <2> QED BY <2>1 DEF KeysIn
<1>4. g[n + 1] = FileKeys(files[n + 1], n + 1 \in b) \/ ~(n < m) BY <1>1
<1>5. KeysIn(files, b, 0) = <<>>
  <2>1. [i \in 1..0 |-> FileKeys(files[i], i \in b)] = <<>> OBVIOUS
  <2> QED BY <2>1, FlattenNil DEF KeysIn
<1> HIDE DEF g, m
<1>6. ASSUME NEW j \in 0..m PROVE KeysIn(files, b, j) \in Seq(KeySet)
  <2> DEFINE s == [i \in 1..j |-> g[i]]
  <2>1. s \in Seq(Seq(KeySet)) BY <1>1, <1>2
  <2> HIDE DEF s
  <2>2. FlattenSeq(s) \in Seq(KeySet) BY <2>1, FlattenType
  <2> QED BY <1>3, <2>2 DEF s
<1>7. ASSUME n < m PROVE KeysIn(files, b, n + 1) = KeysIn(files, b, n) \o g[n + 1]
  <2>1. n \in 0..(m - 1) /\ n \in 0..m /\ n + 1 \in 0..m BY <1>1, <1>7 DEF m
  <2>2. FlattenSeq([i \in 1..(n + 1) |-> g[i]]) = FlattenSeq([i \in 1..n |-> g[i]]) \o g[n + 1]
    <3>1. n \in 0..(m - 1) BY <2>1
    <3>2. FlatTo(g, n + 1) = FlatTo(g, n) \o g[n + 1] BY <1>1, <1>2, <3>1, FlatToStep
    <3> QED BY <3>2 DEF FlatTo
  <2> QED BY <2>1, <2>2, <1>3
<1> QED BY <1>4, <1>5, <1>6, <1>7 DEF m

(* Only the broken files among the first n count.                            *)
LEMMA KeysInSame ==
  ASSUME NEW files, NEW n, NEW b, NEW c, \A i \in 1..n : i \in b <=> i \in c
  PROVE  KeysIn(files, b, n) = KeysIn(files, c, n)
<1>1. \A i \in 1..n : FileKeys(files[i], i \in b) = FileKeys(files[i], i \in c)
  <2> SUFFICES ASSUME NEW i \in 1..n PROVE FileKeys(files[i], i \in b) = FileKeys(files[i], i \in c) OBVIOUS
  <2>1. (i \in b) = (i \in c) OBVIOUS
  <2> QED BY <2>1
<1> QED BY <1>1 DEF KeysIn

(* The stream of a list with one more result, which an attempt gave.         *)
LEMMA ToldAppend ==
  ASSUME NEW s \in Seq(Results), NEW r \in Results
  PROVE  /\ ToldOf(s) \in Seq(Results)
         /\ ToldOf(Append(s, r)) = IF Attempted(r) THEN Append(ToldOf(s), r) ELSE ToldOf(s)
<1> DEFINE u == Append(s, r) p == {i \in DOMAIN s : Attempted(s[i])} q == {i \in DOMAIN u : Attempted(u[i])}
<1>1. SameUpTo(p, q, Len(s)) BY DEF SameUpTo
<1>2. Len(s) + 1 \in q <=> Attempted(r) OBVIOUS
<1>3. ToldOf(s) = Picked(s, p) /\ ToldOf(u) = Picked(u, q) BY DEF ToldOf
<1> HIDE DEF p, q
<1>4. /\ Picked(s, p) \in Seq(Results)
      /\ Picked(Append(s, r), q) = IF Len(s) + 1 \in q THEN Append(Picked(s, p), r) ELSE Picked(s, p)
  BY <1>1, PickedAppend
<1> QED BY <1>2, <1>3, <1>4

(* Results that no attempt gave are not streamed.                            *)
LEMMA ToldNone ==
  ASSUME NEW s \in Seq(Results), NEW t \in Seq(Results), \A i \in DOMAIN t : ~Attempted(t[i])
  PROVE  ToldOf(s \o t) = ToldOf(s)
<1> DEFINE m == Len(t) I == {n \in Nat : n <= m => ToldOf(s \o [i \in 1..n |-> t[i]]) = ToldOf(s)}
<1>0. m \in Nat OBVIOUS
<1>1. 0 \in I
  <2>1. [i \in 1..0 |-> t[i]] = <<>> /\ s \o <<>> = s OBVIOUS
  <2> QED BY <2>1
<1>2. ASSUME NEW n \in Nat, n \in I PROVE n + 1 \in I
  <2> SUFFICES ASSUME n + 1 <= m PROVE ToldOf(s \o [i \in 1..(n + 1) |-> t[i]]) = ToldOf(s) OBVIOUS
  <2> DEFINE a == [i \in 1..n |-> t[i]] r == t[n + 1]
  <2>1. a \in Seq(Results) /\ r \in Results /\ ~Attempted(r) BY <1>0
  <2>2. [i \in 1..(n + 1) |-> t[i]] = Append(a, r) BY <1>0
  <2>3. ToldOf(s \o a) = ToldOf(s) BY <1>2, <1>0
  <2> HIDE DEF a, r, m
  <2>4. s \o a \in Seq(Results) /\ s \o Append(a, r) = Append(s \o a, r) BY <2>1
  <2>5. ToldOf(Append(s \o a, r)) = ToldOf(s \o a) BY <2>1, <2>4, ToldAppend
  <2> QED BY <2>2, <2>3, <2>4, <2>5
<1>3. m \in I
  <2> HIDE DEF I
  <2> QED BY <1>0, <1>1, <1>2, SetInduction
<1>4. [i \in 1..m |-> t[i]] = t OBVIOUS
<1> QED BY <1>0, <1>3, <1>4
-----------------------------------------------------------------------------
Attempting == {"beforeEach", "body", "onFailure", "afterEach", "verdict"}

(* The results of a device, and those of the attempts under way, are honest. *)
Honest == {r \in Results : Tells(r)}

Records(d) ==
  /\ acc[d] \in Seq(Honest) /\ cur[d] \in Seq(Honest)
  /\ Len(log[d]) = at[d].try - 1 /\ \A k \in DOMAIN log[d] : ~log[d][k]
  /\ at[d].try \in 1..(Retries + 1) /\ (pc[d] \notin Attempting => at[d].try = 1)

(* Where in its files a device may be, and that it leaves no result behind.  *)
Place(d) ==
  /\ at[d].f \in 1..(Len(Files(d)) + 1) /\ broken[d] \subseteq 1..(at[d].f - 1)
  /\ pc[d] \in Inside \cup {"beforeAll", "composite"} => at[d].f =< Len(Files(d))
  /\ pc[d] \in {"forward", "dial", "prepare", "file", "beforeAll"} => cur[d] = <<>> /\ at[d].t = 1
  /\ pc[d] \in {"again", "done"} => cur[d] = <<>>
  /\ pc[d] \in Ended /\ ~err[d] => at[d].f = Len(Files(d)) + 1 /\ cur[d] = <<>>

(* The results of the file under way are those of what was run of it.        *)
Progress(d) ==
  /\ pc[d] = "test" => at[d].t \in 1..(Len(Tests(d)) + 1) /\ Keys(cur[d]) = OfTests(File(d), at[d].t - 1)
  /\ pc[d] \in Attempting =>
       /\ at[d].t \in 1..Len(Tests(d)) /\ Test(d).rows \in Nat
       /\ at[d].row \in 0..Test(d).rows /\ (at[d].row = 0 => Test(d).rows = 0)
       /\ Keys(cur[d]) = OfTests(File(d), at[d].t - 1) \o OfRows(File(d), Test(d), at[d].row - 1)
  /\ pc[d] = "afterAll" => Keys(cur[d]) = OfTests(File(d), Len(Tests(d)))
  /\ pc[d] = "composite" =>
       /\ at[d].t \in 1..(Content[File(d)].comps + 1)
       /\ Keys(cur[d]) = OfTests(File(d), Len(Tests(d))) \o OfComposites(File(d), at[d].t - 1)

(* The results of the files before are those of all they hold.               *)
Account(d) ==
  /\ Keys(acc[d]) = KeysUpTo(d, at[d].f - 1)
  /\ pc[d] = "done" => res[d] = [results |-> acc[d], error |-> err[d]]

Lists ==
  /\ acc \in [Device -> Seq(Results)] /\ cur \in [Device -> Seq(Results)] /\ log \in [Device -> Seq(BOOLEAN)]
  /\ res \in [Device -> [results : Seq(Results), error : BOOLEAN]]

DevInv(d) == Records(d) /\ Place(d) /\ Progress(d) /\ Account(d)
ReportInv == plan \in Plans /\ Lists /\ \A d \in Device : DevInv(d)

LEMMA KeysUpToIs == \A d, n : KeysUpTo(d, n) = KeysIn(Files(d), broken[d], n)
BY DEF KeysUpTo, KeysIn, FileKeys

LEMMA KeysOfNone == Keys(<<>>) = <<>>
BY DEF Keys

LEMMA SeqOfHonest == \A s \in Seq(Honest) : s \in Seq(Results)
BY DEF Honest

(* Before the run there is nothing to report.                                *)
LEMMA ReportStarts == Init => ReportInv
<1> SUFFICES ASSUME Init PROVE ReportInv OBVIOUS
<1> USE DEF Init
<1>1. plan \in Plans OBVIOUS
<1>2. Lists BY DEF Lists
<1>3. ASSUME NEW d \in Device PROVE DevInv(d)
  <2>0. at[d] = [f |-> 1, t |-> 1, row |-> 0, try |-> 1] BY DEF Start, Spot
  <2>1. Records(d) BY <2>0, TestRunAssumption DEF Records, Attempting
  <2>2. Place(d) BY <2>0, <1>1, FilesIs DEF Place, Inside, Ended
  <2>3. Progress(d) BY DEF Progress, Attempting
  <2>4. Account(d)
    <3>1. KeysUpTo(d, 0) = <<>>
      <4>1. Files(d) \in Seq(DOMAIN Content) /\ 0 \in 0..Len(Files(d)) BY <1>1, FilesIs
      <4>2. KeysIn(Files(d), broken[d], 0) = <<>> BY <4>1, KeysInIs
      <4> QED BY <4>2, KeysUpToIs
    <3> QED BY <2>0, <3>1, KeysOfNone DEF Account
  <2> QED BY <2>1, <2>2, <2>3, <2>4 DEF DevInv
<1> QED BY <1>1, <1>2, <1>3 DEF ReportInv

(* A step of one device leaves the others where they are.                    *)
LEMMA StepIsLocal ==
  ASSUME IInv, Lists, NEW d \in Device, Step(d)
  PROVE  /\ plan' = plan /\ cancelled' = cancelled /\ exit' = exit
         /\ \A e \in Device : e # d =>
              /\ pc'[e] = pc[e] /\ at'[e] = at[e] /\ log'[e] = log[e] /\ cur'[e] = cur[e] /\ acc'[e] = acc[e]
              /\ err'[e] = err[e] /\ res'[e] = res[e] /\ broken'[e] = broken[e]
<1> USE DEF IInv, TypeInv, Lists, Set, Goto, Fails, place
<1>1. CASE Forward(d) \/ Dial(d) \/ Prepare(d) \/ OpenFile(d) BY <1>1 DEF Forward, Dial, Prepare, OpenFile
<1>2. CASE BeforeAll(d) BY <1>2 DEF BeforeAll, EndFile
<1>3. CASE BeginTest(d) \/ BeforeEach(d) \/ Body(d) \/ OnFailure(d) \/ AfterEach(d)
  BY <1>3 DEF BeginTest, BeforeEach, Body, OnFailure, AfterEach
<1>4. CASE Verdict(d) BY <1>4 DEF Verdict, Conclude
<1>5. CASE AfterAll(d) \/ Return(d) \/ Again(d) BY <1>5 DEF AfterAll, Return, Again
<1>6. CASE Composite(d) BY <1>6 DEF Composite, EndFile
<1> QED BY <1>1, <1>2, <1>3, <1>4, <1>5, <1>6 DEF Step

(* The places of the plan do not change.                                     *)
LEMMA PlanStays ==
  ASSUME plan' = plan
  PROVE  Device' = Device /\ \A d : Files(d)' = Files(d)
BY DEF Device, Files

LEMMA OthersKeep ==
  ASSUME IInv, Lists, NEW d \in Device, Step(d), NEW e \in Device, e # d, DevInv(e)
  PROVE  DevInv(e)'
<1>1. plan' = plan /\ cancelled' = cancelled /\ Files(e)' = Files(e) BY StepIsLocal, PlanStays
<1>2. /\ pc'[e] = pc[e] /\ at'[e] = at[e] /\ log'[e] = log[e] /\ cur'[e] = cur[e] /\ acc'[e] = acc[e]
      /\ err'[e] = err[e] /\ res'[e] = res[e] /\ broken'[e] = broken[e]
  BY StepIsLocal
<1>3. File(e)' = File(e) BY <1>1, <1>2 DEF File
<1>4. Tests(e)' = Tests(e) BY <1>3 DEF Tests
<1>5. Test(e)' = Test(e) BY <1>2, <1>4 DEF Test
<1>6. Honest' = Honest BY <1>1 DEF Honest, Tells
<1>7. KeysUpTo(e, at[e].f - 1)' = KeysUpTo(e, at[e].f - 1) BY <1>1, <1>2 DEF KeysUpTo
<1>8. Records(e)' BY <1>2, <1>6 DEF DevInv, Records
<1>9. Place(e)' BY <1>1, <1>2 DEF DevInv, Place
<1>10. Progress(e)' BY <1>2, <1>3, <1>4, <1>5 DEF DevInv, Progress
<1>11. Account(e)' BY <1>2, <1>7 DEF DevInv, Account
<1> QED BY <1>8, <1>9, <1>10, <1>11 DEF DevInv

(* The file a device is in, and its tests.                                   *)
LEMMA Here ==
  ASSUME plan \in Plans, NEW d \in Device, at[d].f \in 1..Len(Files(d))
  PROVE  /\ File(d) \in DOMAIN Content /\ Tests(d) = Selected(File(d)) /\ Tests(d) \in Seq(TestEntry)
         /\ Len(Tests(d)) \in Nat /\ Content[File(d)].comps \in Nat
<1>1. Files(d) \in Seq(DOMAIN Content) BY FilesIs
<1>2. File(d) \in DOMAIN Content BY <1>1 DEF File
<1>3. Tests(d) \in Seq(TestEntry) BY <1>2, SelectedIs DEF Tests
<1>4. Content[File(d)].comps \in Nat BY <1>2, KeysOfIs
<1>5. Tests(d) = Selected(File(d)) BY DEF Tests
<1>6. Len(Tests(d)) \in Nat BY <1>3
<1> QED BY <1>2, <1>3, <1>4, <1>5, <1>6

(* A step that ends no file and gives no result.                             *)
LEMMA SamePlace ==
  ASSUME IInv, ReportInv, NEW d \in Device, plan' = plan, at'[d].f = at[d].f,
         UNCHANGED <<acc, cur, res>>, broken'[d] = broken[d]
  PROVE  /\ Files(d)' = Files(d) /\ File(d)' = File(d) /\ Tests(d)' = Tests(d)
         /\ KeysUpTo(d, at[d].f - 1)' = KeysUpTo(d, at[d].f - 1)
         /\ Keys(acc'[d]) = KeysUpTo(d, at[d].f - 1)' /\ (cancelled' = cancelled => Honest' = Honest)
<1>1. Files(d)' = Files(d) BY PlanStays
<1>2. File(d)' = File(d) BY <1>1 DEF File
<1>3. Tests(d)' = Tests(d) BY <1>2 DEF Tests
<1>4. KeysUpTo(d, at[d].f - 1)' = KeysUpTo(d, at[d].f - 1) BY <1>1 DEF KeysUpTo
<1>5. cancelled' = cancelled => Honest' = Honest BY DEF Honest, Tells
<1>6. Keys(acc[d]) = KeysUpTo(d, at[d].f - 1) BY DEF ReportInv, DevInv, Account
<1> QED BY <1>1, <1>2, <1>3, <1>4, <1>5, <1>6

(* The steps before the first file, and an error of one.                     *)
LEMMA EarlySteps ==
  ASSUME IInv, ReportInv, NEW d \in Device, Forward(d) \/ Dial(d) \/ Prepare(d) \/ OpenFile(d)
  PROVE  DevInv(d)' /\ Lists'
<1> USE DEF Set, Goto, Fails, place
<1>1. UNCHANGED <<plan, at, log, acc, cur, res, broken, cancelled>>
  BY DEF Forward, Dial, Prepare, OpenFile
<1>2. DevInv(d) /\ plan \in Plans /\ Lists BY DEF ReportInv
<1>3. /\ Files(d)' = Files(d) /\ Keys(acc'[d]) = KeysUpTo(d, at[d].f - 1)' /\ Honest' = Honest
  BY <1>1, SamePlace
<1>4. /\ pc[d] \in {"forward", "dial", "prepare", "file"} /\ cur[d] = <<>> /\ at[d].t = 1
      /\ pc'[d] \in {"dial", "prepare", "file", "beforeAll", "return"}
      /\ pc'[d] = "beforeAll" => at[d].f =< Len(Files(d))
      /\ pc'[d] = "return" /\ ~err'[d] => at[d].f = Len(Files(d)) + 1
  <2>0. pc[d] \in {"forward", "dial", "prepare", "file"} BY DEF Forward, Dial, Prepare, OpenFile
  <2>1. cur[d] = <<>> /\ at[d].t = 1 /\ at[d].f \in 1..(Len(Files(d)) + 1) BY <1>2, <2>0 DEF DevInv, Place
  <2>2. Len(Files(d)) \in Nat BY <1>2, FilesIs
  <2>3. CASE Forward(d) \/ Dial(d) \/ Prepare(d) BY <2>0, <2>1, <2>3 DEF Forward, Dial, Prepare, IInv, TypeInv
  <2>4. CASE OpenFile(d) BY <2>0, <2>1, <2>2, <2>4 DEF OpenFile, IInv, TypeInv
  <2> QED BY <2>3, <2>4
<1>5. Records(d)' BY <1>1, <1>2, <1>3, <1>4 DEF DevInv, Records, Attempting
<1>6. Place(d)' BY <1>1, <1>2, <1>3, <1>4 DEF DevInv, Place, Inside, Ended
<1>7. Progress(d)' BY <1>4 DEF Progress, Attempting
<1>8. Account(d)' BY <1>1, <1>3, <1>4 DEF Account
<1>9. Lists' BY <1>1, <1>2, PlanStays DEF Lists
<1> QED BY <1>5, <1>6, <1>7, <1>8, <1>9 DEF DevInv

(* The attempts of a test, but for their end.                                *)
LEMMA AttemptSteps ==
  ASSUME IInv, ReportInv, NEW d \in Device, BeforeEach(d) \/ Body(d) \/ OnFailure(d) \/ AfterEach(d)
  PROVE  DevInv(d)' /\ Lists'
<1> USE DEF Set, Goto, place
<1>1. UNCHANGED <<plan, at, log, acc, cur, res, broken, cancelled, err>>
  BY DEF BeforeEach, Body, OnFailure, AfterEach
<1>2. DevInv(d) /\ plan \in Plans /\ Lists BY DEF ReportInv
<1>3. /\ Files(d)' = Files(d) /\ File(d)' = File(d) /\ Tests(d)' = Tests(d)
      /\ Keys(acc'[d]) = KeysUpTo(d, at[d].f - 1)' /\ Honest' = Honest
  BY <1>1, SamePlace
<1>4. pc[d] \in Attempting /\ pc'[d] \in Attempting
  BY DEF BeforeEach, Body, OnFailure, AfterFailure, AfterEach, Attempting, IInv, TypeInv
<1>5. Records(d)' BY <1>1, <1>2, <1>3, <1>4 DEF DevInv, Records
<1>6. Place(d)' BY <1>1, <1>2, <1>3, <1>4 DEF DevInv, Place, Inside, Ended, Attempting
<1>7. Progress(d)'
  <2>1. Test(d)' = Test(d) BY <1>1, <1>3 DEF Test
  <2> QED BY <1>1, <1>2, <1>3, <1>4, <2>1 DEF DevInv, Progress, Attempting
<1>8. Account(d)' BY <1>1, <1>3, <1>4 DEF Account, Attempting
<1>9. Lists' BY <1>1, <1>2, PlanStays DEF Lists
<1> QED BY <1>5, <1>6, <1>7, <1>8, <1>9 DEF DevInv

LEMMA BeginTestStep ==
  ASSUME IInv, ReportInv, NEW d \in Device, BeginTest(d) PROVE DevInv(d)' /\ Lists'
<1> USE DEF Set, Goto, Fails
<1>1. UNCHANGED <<plan, log, acc, cur, res, broken, cancelled>> BY DEF BeginTest
<1>2. DevInv(d) /\ plan \in Plans /\ Lists BY DEF ReportInv
<1>a. at[d] \in Spots /\ pc \in [Device -> Where] /\ at \in [Device -> Spots] /\ err \in [Device -> BOOLEAN]
  BY DEF IInv, TypeInv
<1>p. pc[d] = "test" BY DEF BeginTest
<1>f. at[d].f \in 1..Len(Files(d)) BY <1>2, <1>p, FilesIs DEF DevInv, Place, Inside
<1>h. File(d) \in DOMAIN Content /\ Tests(d) = Selected(File(d)) /\ Tests(d) \in Seq(TestEntry) /\ Len(Tests(d)) \in Nat
  BY <1>2, <1>f, Here
<1>k. at[d].t \in 1..(Len(Tests(d)) + 1) /\ Keys(cur[d]) = OfTests(File(d), at[d].t - 1) /\ at[d].try = 1
  BY <1>2, <1>p DEF DevInv, Progress, Records, Attempting
<1> DEFINE spot == Spot(at[d].f, at[d].t, FirstRow(Test(d)))
<1>s. spot \in Spots /\ spot = [f |-> at[d].f, t |-> at[d].t, row |-> FirstRow(Test(d)), try |-> 1]
  <2>1. at[d].f \in Nat /\ at[d].t \in Nat BY <1>a DEF Spots
  <2> QED BY <2>1, SpotIs, FirstRowIsNat DEF Spot
<1> HIDE DEF spot
<1>c. \/ pc'[d] = "afterAll" /\ at' = at /\ err' = err /\ at[d].t > Len(Tests(d))
      \/ pc'[d] = "return" /\ at' = at /\ err'[d]
      \/ pc'[d] = "beforeEach" /\ at'[d] = spot /\ err' = err /\ at[d].t =< Len(Tests(d)) /\ Test(d).rows # NoData
  BY <1>a, <1>h, <1>k DEF BeginTest, spot
<1>e. at'[d].f = at[d].f /\ at'[d].t = at[d].t /\ at'[d].try = 1 BY <1>c, <1>s, <1>k
<1>3. /\ Files(d)' = Files(d) /\ File(d)' = File(d) /\ Tests(d)' = Tests(d)
      /\ Keys(acc'[d]) = KeysUpTo(d, at[d].f - 1)' /\ Honest' = Honest
  BY <1>1, <1>e, SamePlace
<1>5. Records(d)' BY <1>1, <1>2, <1>3, <1>e, <1>k, TestRunAssumption DEF DevInv, Records
<1>6. Place(d)' BY <1>1, <1>2, <1>3, <1>c, <1>e, <1>f DEF DevInv, Place, Inside, Ended
<1>7. Progress(d)'
  <2>1. CASE pc'[d] = "afterAll"
    <3>1. at[d].t - 1 = Len(Tests(d)) BY <2>1, <1>c, <1>h, <1>k
    <3> QED BY <2>1, <3>1, <1>1, <1>3, <1>k DEF Progress, Attempting
  <2>2. CASE pc'[d] = "return" BY <2>2 DEF Progress, Attempting
  <2>3. CASE pc'[d] = "beforeEach"
    <3>1. at'[d] = spot /\ at[d].t \in 1..Len(Tests(d)) /\ Test(d).rows # NoData BY <2>3, <1>c, <1>h, <1>k
    <3>2. Test(d) \in TestEntry BY <3>1, <1>h DEF Test
    <3>3. Test(d).rows \in Nat BY <3>1, <3>2 DEF TestEntry
    <3>4. Test(d)' = Test(d) BY <1>3, <1>e DEF Test
    <3>5. at'[d].row = IF Test(d).rows > 0 THEN 1 ELSE 0 BY <3>1, <3>3, <1>s DEF FirstRow
    <3>6. OfRows(File(d), Test(d), at'[d].row - 1) = <<>> BY <3>5 DEF OfRows
    <3>7. OfTests(File(d), at[d].t - 1) \in Seq(KeySet)
      <4>1. at[d].t - 1 \in 0..Len(Selected(File(d))) BY <3>1, <1>h
      <4> QED BY <4>1, <1>h, OfTestsIs
    <3>8. OfTests(File(d), at[d].t - 1) \o <<>> = OfTests(File(d), at[d].t - 1)
      <4> DEFINE x == OfTests(File(d), at[d].t - 1)
      <4>1. x \in Seq(KeySet) BY <3>7
      <4> HIDE DEF x
      <4>2. x \o <<>> = x BY <4>1
      <4> QED BY <4>2 DEF x
    <3>9. at'[d].row \in 0..Test(d).rows /\ (at'[d].row = 0 => Test(d).rows = 0) BY <3>3, <3>5
    <3> QED BY <2>3, <3>1, <3>3, <3>4, <3>6, <3>8, <3>9, <1>1, <1>3, <1>e, <1>k DEF Progress, Attempting
  <2> QED BY <2>1, <2>2, <2>3, <1>c
<1>8. Account(d)' BY <1>1, <1>3, <1>c, <1>e DEF Account
<1>9. Lists' BY <1>1, <1>2, PlanStays DEF Lists
<1> QED BY <1>5, <1>6, <1>7, <1>8, <1>9 DEF DevInv

LEMMA ConcatNone == ASSUME NEW S, NEW a \in Seq(S) PROVE a \o <<>> = a /\ <<>> \o a = a
OBVIOUS

(* The results of the files up to one that ends with these results.          *)
LEMMA FileEnds ==
  ASSUME IInv, ReportInv, NEW d \in Device, plan' = plan, cancelled' = cancelled,
         at[d].f =< Len(Files(d)), at'[d].f = at[d].f + 1,
         NEW results \in Seq(Honest), acc'[d] = acc[d] \o results,
         broken'[d] \subseteq broken[d] \cup {at[d].f}, broken[d] \subseteq broken'[d],
         Keys(results) = FileKeys(File(d), at[d].f \in broken'[d])
  PROVE  /\ acc'[d] \in Seq(Honest)' /\ Keys(acc'[d]) = KeysUpTo(d, at[d].f - 1)'
         /\ Files(d)' = Files(d) /\ Honest' = Honest
<1> DEFINE fs == Files(d) n == at[d].f - 1
<1>1. Files(d)' = Files(d) BY PlanStays
<1>2. Honest' = Honest BY DEF Honest, Tells
<1>3. DevInv(d) /\ plan \in Plans BY DEF ReportInv
<1>4. fs \in Seq(DOMAIN Content) /\ Len(fs) \in Nat BY <1>3, FilesIs
<1>5. at[d].f \in 1..Len(fs) /\ broken[d] \subseteq 1..n BY <1>3, <1>4 DEF DevInv, Place
<1>6. n \in 0..Len(fs) /\ n < Len(fs) /\ n + 1 = at[d].f /\ at'[d].f - 1 = n + 1
  <2>1. at[d].f \in Nat BY <1>5
  <2> QED BY <1>4, <1>5, <2>1
<1>7. Keys(acc[d]) = KeysIn(fs, broken[d], n) BY <1>3, KeysUpToIs DEF DevInv, Account
<1>8. KeysUpTo(d, at[d].f - 1)' = KeysIn(fs, broken'[d], n + 1) BY <1>1, <1>6 DEF KeysUpTo, KeysIn, FileKeys
<1>9. KeysIn(fs, broken[d], n) = KeysIn(fs, broken'[d], n)
  <2>1. \A i \in 1..n : i \in broken[d] <=> i \in broken'[d] BY <1>4, <1>5
  <2> HIDE DEF fs, n
  <2> QED BY <2>1, KeysInSame
<1>10. fs[n + 1] = File(d) BY <1>6 DEF File
<1>11. KeysIn(fs, broken'[d], n + 1) = KeysIn(fs, broken'[d], n) \o FileKeys(fs[n + 1], n + 1 \in broken'[d])
  <2> HIDE DEF fs, n
  <2> QED BY <1>4, <1>6, KeysInIs
<1>12. acc[d] \in Seq(Honest) /\ acc[d] \in Seq(Results) /\ results \in Seq(Results)
  BY <1>3, SeqOfHonest DEF DevInv, Records
<1>13. Keys(acc[d] \o results) = Keys(acc[d]) \o Keys(results) BY <1>12, KeysOfMore
<1>14. acc[d] \o results \in Seq(Honest)
  <2> DEFINE a == acc[d]
  <2>1. a \in Seq(Honest) BY <1>12
  <2> HIDE DEF a
  <2>2. a \o results \in Seq(Honest) BY <2>1
  <2> QED BY <2>2 DEF a
<1>15. acc'[d] \in Seq(Honest)' BY <1>2, <1>14
<1>16. Keys(acc'[d]) = KeysIn(fs, broken'[d], n + 1) BY <1>6, <1>7, <1>9, <1>10, <1>11, <1>13
<1> QED BY <1>1, <1>2, <1>8, <1>15, <1>16

LEMMA BeforeAllStep ==
  ASSUME IInv, ReportInv, NEW d \in Device, BeforeAll(d) PROVE DevInv(d)' /\ Lists'
<1> USE DEF Set, Goto
<1>1. UNCHANGED <<plan, log, res, cancelled, err>> BY DEF BeforeAll
<1>2. DevInv(d) /\ plan \in Plans /\ Lists BY DEF ReportInv
<1>a. /\ at[d] \in Spots /\ pc \in [Device -> Where] /\ at \in [Device -> Spots]
      /\ broken \in [Device -> SUBSET Nat]
  BY DEF IInv, TypeInv
<1>p. pc[d] = "beforeAll" BY DEF BeforeAll
<1>f. at[d].f \in 1..Len(Files(d)) /\ cur[d] = <<>> /\ at[d].t = 1 /\ broken[d] \subseteq 1..(at[d].f - 1)
  BY <1>2, <1>p, FilesIs DEF DevInv, Place, Inside
<1>h. /\ File(d) \in DOMAIN Content /\ Tests(d) = Selected(File(d)) /\ Tests(d) \in Seq(TestEntry)
      /\ Len(Tests(d)) \in Nat
  BY <1>2, <1>f, Here
<1>q. Len(Files(d)) \in Nat BY <1>2, FilesIs
<1>k. at[d].try = 1 BY <1>2, <1>p DEF DevInv, Records, Attempting
<1>3. CASE Goto(d, "test") /\ UNCHANGED <<at, cur, acc, broken>>
  <2>1. pc'[d] = "test" BY <1>3, <1>a
  <2>2. /\ Files(d)' = Files(d) /\ File(d)' = File(d) /\ Tests(d)' = Tests(d)
        /\ Keys(acc'[d]) = KeysUpTo(d, at[d].f - 1)' /\ Honest' = Honest
    BY <1>1, <1>3, SamePlace
  <2>3. Records(d)' BY <1>1, <1>2, <1>3, <2>2, <1>k, TestRunAssumption DEF DevInv, Records
  <2>4. Place(d)' BY <1>2, <1>3, <1>f, <1>q, <2>1, <2>2 DEF DevInv, Place, Inside, Ended
  <2>5. Progress(d)'
    <3>1. OfTests(File(d), 0) = <<>>
      <4>1. 0 \in 0..Len(Selected(File(d))) BY <1>h
      <4> QED BY <4>1, <1>h, OfTestsIs
    <3>2. at[d].t - 1 = 0 /\ at[d].t \in 1..(Len(Tests(d)) + 1) BY <1>f, <1>h
    <3> QED BY <1>3, <1>f, <2>1, <2>2, <3>1, <3>2, KeysOfNone DEF Progress, Attempting
  <2>6. Account(d)' BY <1>3, <2>1, <2>2 DEF Account
  <2>7. Lists' BY <1>1, <1>2, <1>3, PlanStays DEF Lists
  <2> QED BY <2>3, <2>4, <2>5, <2>6, <2>7 DEF DevInv
<1> DEFINE results == [i \in DOMAIN Tests(d) |-> Result(File(d), Tests(d)[i].id, 0, <<>>)]
<1>4. CASE EndFile(d, results) /\ broken' = [broken EXCEPT ![d] = broken[d] \cup {at[d].f}]
  <2>1. /\ pc'[d] = "file" /\ acc'[d] = acc[d] \o results /\ cur'[d] = <<>>
        /\ at'[d] = Spot(at[d].f + 1, 1, 0) /\ broken'[d] = broken[d] \cup {at[d].f}
    BY <1>4, <1>a, <1>2 DEF EndFile, Lists
  <2>2. at'[d] = [f |-> at[d].f + 1, t |-> 1, row |-> 0, try |-> 1] BY <2>1 DEF Spot
  <2>3. results \in Seq(Honest)
    <3>1. ASSUME NEW i \in 1..Len(Tests(d)) PROVE Result(File(d), Tests(d)[i].id, 0, <<>>) \in Honest
      <4>1. Tests(d)[i].id \in Nat BY <1>h, EntryIs
      <4> QED BY <1>h, <4>1 DEF Result, Results, Honest, Tells
    <3>2. DOMAIN Tests(d) = 1..Len(Tests(d)) BY <1>h
    <3> QED BY <1>h, <3>1, <3>2
  <2>4. Keys(results) = FileKeys(File(d), TRUE)
    <3>1. DOMAIN Tests(d) = 1..Len(Tests(d)) BY <1>h
    <3>2. FileKeys(File(d), TRUE) = [i \in 1..Len(Tests(d)) |-> <<File(d), "test", Tests(d)[i].id, 0>>] BY <1>h, KeysOfIs
    <3> QED BY <3>1, <3>2 DEF Keys, Key, Result
  <2>5. (at[d].f \in broken'[d]) = TRUE BY <2>1
  <2> HIDE DEF results
  <2>6. /\ acc'[d] \in Seq(Honest)' /\ Keys(acc'[d]) = KeysUpTo(d, at[d].f - 1)'
        /\ Files(d)' = Files(d) /\ Honest' = Honest
    <3>1. at[d].f =< Len(Files(d)) /\ at'[d].f = at[d].f + 1 BY <1>f, <1>q, <2>2
    <3>2. acc'[d] = acc[d] \o results /\ broken'[d] \subseteq broken[d] \cup {at[d].f} /\ broken[d] \subseteq broken'[d]
      BY <2>1
    <3>3. Keys(results) = FileKeys(File(d), at[d].f \in broken'[d]) BY <2>4, <2>5
    <3>4. plan' = plan /\ cancelled' = cancelled BY <1>1
    <3> QED BY <2>3, <3>1, <3>2, <3>3, <3>4, FileEnds
  <2>7. at'[d].f = at[d].f + 1 /\ at'[d].t = 1 /\ at'[d].try = 1 BY <2>2
  <2>8. Records(d)' BY <1>1, <1>2, <1>k, <2>1, <2>6, <2>7, TestRunAssumption DEF DevInv, Records
  <2>9. Place(d)'
    <3>0. at[d].f \in Nat /\ at'[d].f - 1 = at[d].f /\ at[d].f \in 1..at[d].f BY <1>f, <2>7
    <3>1. at'[d].f \in 1..(Len(Files(d)) + 1) BY <1>f, <1>q, <2>7
    <3>2. 1..(at[d].f - 1) \subseteq 1..at[d].f BY <3>0
    <3>3. broken'[d] \subseteq 1..(at'[d].f - 1) BY <1>f, <2>1, <3>0, <3>2
    <3> QED BY <3>1, <3>3, <2>1, <2>6, <2>7 DEF Place, Inside, Ended
  <2>10. Progress(d)' BY <2>1 DEF Progress, Attempting
  <2>11. Account(d)' BY <2>1, <2>6, <2>7 DEF Account
  <2>12. Lists'
    <3>1. acc'[d] \in Seq(Results) /\ cur'[d] \in Seq(Results) BY <2>1, <2>6, SeqOfHonest
    <3> QED BY <1>1, <1>2, <1>4, <3>1, PlanStays DEF Lists, EndFile
  <2> QED BY <2>8, <2>9, <2>10, <2>11, <2>12 DEF DevInv
<1> QED BY <1>3, <1>4 DEF BeforeAll

LEMMA RowsMore ==
  ASSUME NEW S, NEW n \in Nat \ {0}, NEW g \in [1..n -> S]
  PROVE  [k \in 1..(n - 1) |-> g[k]] \o <<g[n]>> = [k \in 1..n |-> g[k]]
<1> DEFINE a == [k \in 1..(n - 1) |-> g[k]] b == <<g[n]>>
<1>1. a \in Seq(S) /\ b \in Seq(S) /\ Len(a) = n - 1 /\ Len(b) = 1 /\ b[1] = g[n] OBVIOUS
<1>2. \A k \in 1..(n - 1) : a[k] = g[k] OBVIOUS
<1> HIDE DEF a, b
<1> QED BY <1>1, <1>2 DEF a, b

(* The keys of the rows of a test, and of one row more.                      *)
LEMMA OfRowsMore ==
  ASSUME NEW f \in DOMAIN Content, NEW test \in TestEntry, NEW n \in Nat \ {0}
  PROVE  OfRows(f, test, n - 1) \o <<<<f, "test", test.id, n>>>> = OfRows(f, test, n)
<1> DEFINE g == [k \in 1..n |-> <<f, "test", test.id, k>>]
<1>1. test.id \in Nat BY DEF TestEntry
<1>2. g \in [1..n -> KeySet] BY <1>1, KeyType
<1>3. g[n] = <<f, "test", test.id, n>> OBVIOUS
<1>4. OfRows(f, test, n - 1) = [k \in 1..(n - 1) |-> g[k]] /\ OfRows(f, test, n) = [k \in 1..n |-> g[k]] BY DEF OfRows
<1> HIDE DEF g
<1>5. [k \in 1..(n - 1) |-> g[k]] \o <<g[n]>> = [k \in 1..n |-> g[k]] BY <1>2, RowsMore
<1> QED BY <1>3, <1>4, <1>5

(* Another attempt, or the result of the last one.                           *)
LEMMA VerdictStep ==
  ASSUME IInv, ReportInv, NEW d \in Device, Verdict(d) PROVE DevInv(d)' /\ Lists'
<1> USE DEF Set, Goto
<1>1. UNCHANGED <<plan, acc, res, broken, cancelled, err>> BY DEF Verdict
<1>2. DevInv(d) /\ plan \in Plans /\ Lists BY DEF ReportInv
<1>a. at[d] \in Spots /\ pc \in [Device -> Where] /\ at \in [Device -> Spots] BY DEF IInv, TypeInv
<1>p. pc[d] = "verdict" BY DEF Verdict
<1>f. at[d].f \in 1..Len(Files(d)) BY <1>2, <1>p, FilesIs DEF DevInv, Place, Inside
<1>h. /\ File(d) \in DOMAIN Content /\ Tests(d) = Selected(File(d)) /\ Tests(d) \in Seq(TestEntry)
      /\ Len(Tests(d)) \in Nat
  BY <1>2, <1>f, Here
<1>k. /\ at[d].t \in 1..Len(Tests(d)) /\ Test(d).rows \in Nat
      /\ at[d].row \in 0..Test(d).rows /\ (at[d].row = 0 => Test(d).rows = 0)
      /\ Keys(cur[d]) = OfTests(File(d), at[d].t - 1) \o OfRows(File(d), Test(d), at[d].row - 1)
  BY <1>2, <1>p DEF DevInv, Progress, Attempting
<1>t. Test(d) \in TestEntry /\ Test(d).id \in Nat
  <2>1. Test(d) \in TestEntry BY <1>h, <1>k DEF Test
  <2> QED BY <2>1 DEF TestEntry
<1>r. /\ cur[d] \in Seq(Honest) /\ log[d] \in Seq(BOOLEAN) /\ Len(log[d]) = at[d].try - 1
      /\ (\A k \in DOMAIN log[d] : ~log[d][k]) /\ at[d].try \in 1..(Retries + 1)
  BY <1>2 DEF DevInv, Records, Lists
<1>5. PICK passed \in BOOLEAN : Conclude(d, passed) BY DEF Verdict
<1> DEFINE l == Append(log[d], passed) r == Result(File(d), Test(d).id, at[d].row, l)
<1>l. /\ l \in Seq(BOOLEAN) /\ Len(l) = at[d].try /\ Last(l) = passed /\ l # <<>>
      /\ \A k \in 1..(Len(l) - 1) : ~l[k]
  BY <1>r DEF Last
<1>6. CASE ~(passed \/ TriesUsed(d) \/ cancelled)
  <2>1. /\ log' = [log EXCEPT ![d] = l] /\ at' = [at EXCEPT ![d] = [at[d] EXCEPT !.try = @ + 1]]
        /\ pc' = [pc EXCEPT ![d] = "beforeEach"] /\ UNCHANGED cur
    BY <1>5, <1>6 DEF Conclude
  <2>2. /\ at'[d].f = at[d].f /\ at'[d].t = at[d].t /\ at'[d].row = at[d].row /\ at'[d].try = at[d].try + 1
        /\ pc'[d] = "beforeEach"
    BY <1>a, <2>1 DEF Spots
  <2>3. /\ Files(d)' = Files(d) /\ File(d)' = File(d) /\ Tests(d)' = Tests(d)
        /\ Keys(acc'[d]) = KeysUpTo(d, at[d].f - 1)' /\ Honest' = Honest
    BY <1>1, <2>1, <2>2, SamePlace
  <2>4. Records(d)'
    <3>1. log'[d] = l BY <1>2, <2>1 DEF Lists
    <3>2. \A k \in DOMAIN l : ~l[k] BY <1>6, <1>r
    <3>3. at[d].try + 1 \in 1..(Retries + 1) BY <1>6, <1>r, TestRunAssumption DEF TriesUsed
    <3>4. Len(l) = (at[d].try + 1) - 1 BY <1>l, <1>r
    <3> HIDE DEF l
    <3> QED BY <1>1, <1>2, <2>1, <2>2, <2>3, <3>1, <3>2, <3>3, <3>4 DEF DevInv, Records, Attempting
  <2>5. Place(d)' BY <1>1, <1>2, <1>p, <2>1, <2>2, <2>3 DEF DevInv, Place, Inside, Ended
  <2>6. Progress(d)'
    <3>1. Test(d)' = Test(d) BY <2>2, <2>3 DEF Test
    <3> QED BY <1>k, <2>1, <2>2, <2>3, <3>1 DEF Progress, Attempting
  <2>7. Account(d)' BY <2>2, <2>3 DEF Account
  <2>8. Lists'
    <3> HIDE DEF l
    <3> QED BY <1>1, <1>2, <1>l, <2>1, PlanStays DEF Lists
  <2> QED BY <2>4, <2>5, <2>6, <2>7, <2>8 DEF DevInv
<1>7. CASE passed \/ TriesUsed(d) \/ cancelled
  <2>0. log' = [log EXCEPT ![d] = <<>>] /\ cur' = [cur EXCEPT ![d] = Append(cur[d], r)]
        /\ at' = [at EXCEPT ![d] = NextPlace(d)]
        /\ pc' = [pc EXCEPT ![d] = IF NextPlace(d).t = at[d].t THEN "beforeEach" ELSE "test"]
    BY <1>5, <1>7 DEF Conclude
  <2>1. /\ log'[d] = <<>> /\ cur'[d] = Append(cur[d], r) /\ at'[d] = NextPlace(d)
        /\ pc'[d] = IF NextPlace(d).t = at[d].t THEN "beforeEach" ELSE "test"
    BY <1>2, <1>a, <2>0 DEF Lists
  <2>a. at[d].f \in Nat /\ at[d].t \in Nat /\ at[d].row \in Nat BY <1>a DEF Spots
  <2>2. at'[d].f = at[d].f /\ at'[d].try = 1 BY <2>1 DEF NextPlace, Spot
  <2>3. /\ Files(d)' = Files(d) /\ File(d)' = File(d) /\ Tests(d)' = Tests(d) /\ Honest' = Honest
    <3>1. Files(d)' = Files(d) BY <1>1, PlanStays
    <3>2. File(d)' = File(d) BY <2>2, <3>1 DEF File
    <3>3. Tests(d)' = Tests(d) BY <3>2 DEF Tests
    <3> QED BY <1>1, <3>1, <3>2, <3>3 DEF Honest, Tells
  <2>4. r \in Honest
    <3>1. r \in Results BY <1>h, <1>l, <1>t, <2>a DEF Result, Results
    <3>2. r.log = l /\ r.passed = (l # <<>> /\ Last(l)) BY DEF Result
    <3>3. passed \/ Len(l) = Retries + 1 \/ cancelled BY <1>7, <1>l, <1>r, TestRunAssumption DEF TriesUsed
    <3>4. Len(l) =< Retries + 1 BY <1>l, <1>r, TestRunAssumption
    <3> HIDE DEF l, r
    <3>5. Tells(r) BY <1>l, <3>2, <3>3, <3>4 DEF Tells
    <3> QED BY <3>1, <3>5 DEF Honest
  <2>k. Key(r) = <<File(d), "test", Test(d).id, at[d].row>> BY DEF Key, Result
  <2> HIDE DEF r, l
  <2>5. cur'[d] \in Seq(Honest)
    <3> DEFINE c == cur[d]
    <3>1. c \in Seq(Honest) BY <1>r
    <3> HIDE DEF c
    <3>2. Append(c, r) \in Seq(Honest) BY <2>4, <3>1
    <3> QED BY <2>1, <3>2 DEF c
  <2>6. Records(d)' BY <1>1, <1>2, <2>1, <2>2, <2>3, <2>5, TestRunAssumption DEF DevInv, Records
  <2>7. Place(d)' BY <1>1, <1>2, <1>f, <2>1, <2>2, <2>3 DEF DevInv, Place, Inside, Ended
  <2> DEFINE before == OfTests(File(d), at[d].t - 1) row == at[d].row test == Test(d)
             mine == OfRows(File(d), test, row - 1)
  <2>b. before \in Seq(KeySet) /\ mine \in Seq(KeySet) /\ <<Key(r)>> \in Seq(KeySet)
    <3>1. at[d].t - 1 \in 0..Len(Selected(File(d))) BY <1>h, <1>k
    <3>2. before \in Seq(KeySet) BY <3>1, <1>h, OfTestsIs
    <3>3. \A k \in 1..(row - 1) : <<File(d), "test", test.id, k>> \in KeySet
      <4>1. \A k \in 1..(row - 1) : k \in Nat BY <2>a
      <4> QED BY <4>1, <1>h, <1>t, KeyType
    <3>4. mine \in Seq(KeySet)
      <4>1. row = 0 \/ row - 1 \in Nat BY <2>a
      <4>2. CASE row = 0 BY <4>2 DEF OfRows
      <4>3. CASE row - 1 \in Nat
        <5> HIDE DEF row, test
        <5> QED BY <4>3, <3>3 DEF OfRows
      <4> QED BY <4>1, <4>2, <4>3
    <3>5. Key(r) \in KeySet BY <2>4, KeyIs DEF Honest
    <3> QED BY <3>2, <3>4, <3>5
  <2>8. Keys(cur'[d]) = before \o (mine \o <<Key(r)>>)
    <3>1. cur[d] \in Seq(Results) /\ r \in Results BY <1>r, <2>4, SeqOfHonest DEF Honest
    <3>2. Keys(Append(cur[d], r)) = Append(Keys(cur[d]), Key(r)) BY <3>1, KeysOfOneMore
    <3>3. Keys(cur[d]) = before \o mine BY <1>k
    <3> HIDE DEF before, mine
    <3>4. Append(before \o mine, Key(r)) = (before \o mine) \o <<Key(r)>> BY <2>b
    <3>5. (before \o mine) \o <<Key(r)>> = before \o (mine \o <<Key(r)>>) BY <2>b
    <3> QED BY <2>1, <3>2, <3>3, <3>4, <3>5
  <2>9. Progress(d)'
    <3>1. CASE row < test.rows
      <4>1. at'[d].t = at[d].t /\ at'[d].row = row + 1 /\ pc'[d] = "beforeEach"
        BY <2>1, <3>1 DEF NextPlace, Spot
      <4>2. Test(d)' = Test(d) BY <2>3, <4>1 DEF Test
      <4>3. row > 0 /\ row + 1 \in 0..test.rows BY <1>k, <3>1
      <4>4. mine \o <<Key(r)>> = OfRows(File(d), test, row)
        <5>1. row \in Nat /\ row > 0 BY <4>3, <2>a
        <5>2. Key(r) = <<File(d), "test", test.id, row>> BY <2>k
        <5> HIDE DEF row, test
        <5>3. test \in TestEntry BY <1>t DEF test
        <5> QED BY <5>1, <5>2, <5>3, <1>h, OfRowsMore
      <4>5. (row + 1) - 1 = row BY <2>a
      <4>6. Keys(cur'[d]) = OfTests(File(d), at[d].t - 1) \o OfRows(File(d), Test(d), (row + 1) - 1)
        BY <2>8, <4>4, <4>5
      <4> HIDE DEF mine, before
      <4> QED BY <1>k, <2>3, <4>1, <4>2, <4>3, <4>6 DEF Progress, Attempting
    <3>2. CASE ~(row < test.rows)
      <4>1. at'[d].t = at[d].t + 1 /\ pc'[d] = "test"
        <5>1. at'[d].t = at[d].t + 1 BY <2>1, <3>2 DEF NextPlace, Spot
        <5>2. at[d].t + 1 # at[d].t BY <2>a
        <5> QED BY <2>1, <5>1, <5>2
      <4>2. row = test.rows BY <1>k, <3>2
      <4>3. mine \o <<Key(r)>> = OfTest(File(d), test)
        <5>0. row \in Nat /\ test.rows \in Nat /\ test.rows # NoData BY <2>a, <1>k, TestRunAssumption
        <5>2. Key(r) = <<File(d), "test", test.id, row>> BY <2>k
        <5> HIDE DEF row, test
        <5>3. mine = [k \in 1..(row - 1) |-> <<File(d), "test", test.id, k>>] BY DEF OfRows
        <5>4. CASE row = 0
          <6>1. mine = <<>> BY <5>3, <5>4
          <6>2. Rows(test) = <<0>> BY <4>2, <5>0, <5>4 DEF Rows
          <6>3. OfTest(File(d), test) = <<<<File(d), "test", test.id, 0>>>> BY <6>2 DEF OfTest
          <6> HIDE DEF mine
          <6> QED BY <5>2, <5>4, <6>1, <6>3
        <5>5. CASE row > 0
          <6>1. Rows(test) = [k \in 1..row |-> k] BY <4>2, <5>0, <5>5 DEF Rows
          <6>2. OfTest(File(d), test) = OfRows(File(d), test, row) BY <5>0, <6>1 DEF OfTest, OfRows
          <6>3. test \in TestEntry BY <1>t DEF test
          <6> QED BY <5>0, <5>2, <5>5, <6>2, <6>3, <1>h, OfRowsMore
        <5> QED BY <5>0, <5>4, <5>5
      <4>4. OfTests(File(d), at[d].t) = before \o OfTest(File(d), test)
        <5>1. at[d].t - 1 \in 0..Len(Selected(File(d))) /\ at[d].t - 1 < Len(Selected(File(d)))
              /\ (at[d].t - 1) + 1 = at[d].t
          BY <1>h, <1>k
        <5>2. test = Selected(File(d))[at[d].t] BY <1>h DEF Test
        <5> HIDE DEF test
        <5> QED BY <1>h, <5>1, <5>2, OfTestsIs
      <4>5. (at[d].t + 1) - 1 = at[d].t /\ at[d].t + 1 \in 1..(Len(Tests(d)) + 1) BY <2>a, <1>h, <1>k
      <4> HIDE DEF mine, before, test
      <4> QED BY <2>3, <2>8, <4>1, <4>3, <4>4, <4>5 DEF Progress, Attempting
    <3> QED BY <3>1, <3>2
  <2>10. Account(d)'
    <3>1. KeysUpTo(d, at[d].f - 1)' = KeysUpTo(d, at[d].f - 1) BY <1>1, <2>2, <2>3 DEF KeysUpTo
    <3> QED BY <1>1, <1>2, <2>1, <3>1 DEF DevInv, Account
  <2>11. Lists'
    <3>1. cur'[d] \in Seq(Results) BY <2>5, SeqOfHonest
    <3>2. Device' = Device BY <1>1, PlanStays
    <3>3. cur' \in [Device -> Seq(Results)] /\ log' \in [Device -> Seq(BOOLEAN)] BY <1>2, <2>0, <2>1, <3>1 DEF Lists
    <3> QED BY <1>1, <1>2, <3>2, <3>3 DEF Lists
  <2> QED BY <2>6, <2>7, <2>9, <2>10, <2>11 DEF DevInv
<1> QED BY <1>6, <1>7

LEMMA AfterAllStep ==
  ASSUME IInv, ReportInv, NEW d \in Device, AfterAll(d) PROVE DevInv(d)' /\ Lists'
<1> USE DEF Set, Goto
<1>1. UNCHANGED <<plan, log, acc, cur, res, broken, cancelled, err>> BY DEF AfterAll
<1>2. DevInv(d) /\ plan \in Plans /\ Lists BY DEF ReportInv
<1>a. at[d] \in Spots /\ pc \in [Device -> Where] /\ at \in [Device -> Spots] BY DEF IInv, TypeInv
<1>p. pc[d] = "afterAll" /\ pc'[d] = "composite" BY <1>a DEF AfterAll
<1>f. at[d].f \in 1..Len(Files(d)) BY <1>2, <1>p, FilesIs DEF DevInv, Place, Inside
<1>h. File(d) \in DOMAIN Content /\ Content[File(d)].comps \in Nat BY <1>2, <1>f, Here
<1>3. at'[d].f = at[d].f /\ at'[d].t = 1 /\ at'[d].try = at[d].try BY <1>a DEF AfterAll, Spots
<1>4. /\ Files(d)' = Files(d) /\ File(d)' = File(d) /\ Tests(d)' = Tests(d)
      /\ Keys(acc'[d]) = KeysUpTo(d, at[d].f - 1)' /\ Honest' = Honest
  BY <1>1, <1>3, SamePlace
<1>5. Records(d)' BY <1>1, <1>2, <1>3, <1>4, <1>p DEF DevInv, Records, Attempting
<1>6. Place(d)' BY <1>1, <1>2, <1>3, <1>4, <1>p DEF DevInv, Place, Inside, Ended
<1>7. Progress(d)'
  <2>1. Keys(cur[d]) = OfTests(File(d), Len(Tests(d))) BY <1>2, <1>p DEF DevInv, Progress
  <2>2. OfComposites(File(d), at'[d].t - 1) = <<>> BY <1>3 DEF OfComposites
  <2>6. at'[d].t \in 1..(Content[File(d)].comps + 1) BY <1>3, <1>h
  <2>3. cur[d] \in Seq(Results) BY <1>2, SeqOfHonest DEF DevInv, Records
  <2>4. Keys(cur[d]) \in Seq(KeySet)
    <3>1. <<>> \in Seq(Results) OBVIOUS
    <3> QED BY <2>3, <3>1, KeysOfMore
  <2>5. Keys(cur[d]) \o <<>> = Keys(cur[d]) BY <2>4, ConcatNone
  <2> QED BY <1>1, <1>3, <1>4, <1>h, <1>p, <2>1, <2>2, <2>5, <2>6 DEF Progress, Attempting
<1>8. Account(d)' BY <1>3, <1>4, <1>p DEF Account
<1>9. Lists' BY <1>1, <1>2, PlanStays DEF Lists
<1> QED BY <1>5, <1>6, <1>7, <1>8, <1>9 DEF DevInv

LEMMA CompositeStep ==
  ASSUME IInv, ReportInv, NEW d \in Device, Composite(d) PROVE DevInv(d)' /\ Lists'
<1> USE DEF Set, Goto
<1>1. UNCHANGED <<plan, log, res, broken, cancelled, err>> BY DEF Composite
<1>2. DevInv(d) /\ plan \in Plans /\ Lists BY DEF ReportInv
<1>a. at[d] \in Spots /\ pc \in [Device -> Where] /\ at \in [Device -> Spots] BY DEF IInv, TypeInv
<1>p. pc[d] = "composite" BY DEF Composite
<1>f. at[d].f \in 1..Len(Files(d)) /\ broken[d] \subseteq 1..(at[d].f - 1)
  BY <1>2, <1>p, FilesIs DEF DevInv, Place, Inside
<1>q. Len(Files(d)) \in Nat BY <1>2, FilesIs
<1>h. /\ File(d) \in DOMAIN Content /\ Tests(d) = Selected(File(d)) /\ Tests(d) \in Seq(TestEntry)
      /\ Len(Tests(d)) \in Nat /\ Content[File(d)].comps \in Nat
  BY <1>2, <1>f, Here
<1>k. /\ at[d].t \in 1..(Content[File(d)].comps + 1)
      /\ Keys(cur[d]) = OfTests(File(d), Len(Tests(d))) \o OfComposites(File(d), at[d].t - 1)
  BY <1>2, <1>p DEF DevInv, Progress
<1>r. cur[d] \in Seq(Honest) /\ cur[d] \in Seq(Results) /\ at[d].try = 1 /\ Len(log[d]) = at[d].try - 1
  BY <1>2, <1>p, SeqOfHonest DEF DevInv, Records, Attempting
<1>3. CASE at[d].t > Content[File(d)].comps
  <2>0. EndFile(d, cur[d]) BY <1>3 DEF Composite
  <2>1. /\ pc'[d] = "file" /\ acc'[d] = acc[d] \o cur[d] /\ cur'[d] = <<>> /\ at'[d] = Spot(at[d].f + 1, 1, 0)
    BY <2>0, <1>a, <1>2 DEF EndFile, Lists
  <2>2. at'[d].f = at[d].f + 1 /\ at'[d].t = 1 /\ at'[d].try = 1 BY <2>1 DEF Spot
  <2>3. Keys(cur[d]) = FileKeys(File(d), FALSE)
    <3>1. at[d].t - 1 = Content[File(d)].comps BY <1>3, <1>h, <1>k, SMTT(20)
    <3> QED BY <1>h, <1>k, <3>1, KeysOfIs
  <2>4. at[d].f \notin broken[d] BY <1>f
  <2>5. (at[d].f \in broken'[d]) = FALSE BY <1>1, <2>4
  <2>6. /\ acc'[d] \in Seq(Honest)' /\ Keys(acc'[d]) = KeysUpTo(d, at[d].f - 1)'
        /\ Files(d)' = Files(d) /\ Honest' = Honest
    <3>1. at[d].f =< Len(Files(d)) /\ at'[d].f = at[d].f + 1 BY <1>f, <1>q, <2>2
    <3>2. broken'[d] \subseteq broken[d] \cup {at[d].f} /\ broken[d] \subseteq broken'[d] BY <1>1
    <3>3. Keys(cur[d]) = FileKeys(File(d), at[d].f \in broken'[d]) BY <2>3, <2>5
    <3>4. plan' = plan /\ cancelled' = cancelled BY <1>1
    <3>5. cur[d] \in Seq(Honest) /\ acc'[d] = acc[d] \o cur[d] BY <1>r, <2>1
    <3> QED BY <3>1, <3>2, <3>3, <3>4, <3>5, FileEnds
  <2>7. Records(d)' BY <1>1, <1>2, <1>r, <2>1, <2>2, <2>6, TestRunAssumption DEF DevInv, Records
  <2>8. Place(d)'
    <3>0. at[d].f \in Nat /\ at'[d].f - 1 = at[d].f BY <1>f, <2>2
    <3>1. at'[d].f \in 1..(Len(Files(d)) + 1) BY <1>f, <1>q, <2>2
    <3>2. 1..(at[d].f - 1) \subseteq 1..at[d].f BY <3>0
    <3>3. broken'[d] \subseteq 1..(at'[d].f - 1) BY <1>1, <1>f, <3>0, <3>2
    <3> QED BY <3>1, <3>3, <2>1, <2>2, <2>6 DEF Place, Inside, Ended
  <2>9. Progress(d)' BY <2>1 DEF Progress, Attempting
  <2>10. Account(d)' BY <2>1, <2>6 DEF Account
  <2>11. Lists'
    <3>1. acc'[d] \in Seq(Results) /\ cur'[d] \in Seq(Results) BY <2>1, <2>6, SeqOfHonest
    <3>2. Device' = Device BY <1>1, PlanStays
    <3>3. acc' \in [Device -> Seq(Results)] /\ cur' \in [Device -> Seq(Results)] BY <1>2, <2>0, <2>1, <3>1 DEF Lists, EndFile
    <3> QED BY <1>1, <1>2, <3>2, <3>3 DEF Lists
  <2> QED BY <2>7, <2>8, <2>9, <2>10, <2>11 DEF DevInv
<1>4. CASE ~(at[d].t > Content[File(d)].comps)
  <2>0. PICK how \in {"passed", "failed", "skipped"} :
           /\ cur' = [cur EXCEPT ![d] = Append(cur[d], CompositeResult(File(d), at[d].t, how))]
           /\ at' = [at EXCEPT ![d] = [at[d] EXCEPT !.t = @ + 1]]
           /\ UNCHANGED <<pc, acc>>
    BY <1>4 DEF Composite
  <2> DEFINE r == CompositeResult(File(d), at[d].t, how)
  <2>a. at[d].t \in Nat /\ at[d].f \in Nat BY <1>a DEF Spots
  <2>1. /\ pc'[d] = "composite" /\ cur'[d] = Append(cur[d], r) /\ at'[d].f = at[d].f /\ at'[d].t = at[d].t + 1
        /\ at'[d].try = at[d].try
    BY <1>2, <1>a, <1>p, <2>0 DEF Lists, Spots
  <2>2. /\ Files(d)' = Files(d) /\ File(d)' = File(d) /\ Tests(d)' = Tests(d) /\ Honest' = Honest
    <3>1. Files(d)' = Files(d) BY <1>1, PlanStays
    <3>2. File(d)' = File(d) BY <2>1, <3>1 DEF File
    <3>3. Tests(d)' = Tests(d) BY <3>2 DEF Tests
    <3> QED BY <1>1, <3>1, <3>2, <3>3 DEF Honest, Tells
  <2>3. r \in Honest BY <1>h, <2>a DEF CompositeResult, Results, Honest, Tells
  <2>k. Key(r) = <<File(d), "composite", at[d].t, 0>> BY DEF Key, CompositeResult
  <2> HIDE DEF r
  <2>4. cur'[d] \in Seq(Honest)
    <3> DEFINE c == cur[d]
    <3>1. c \in Seq(Honest) BY <1>r
    <3> HIDE DEF c
    <3>2. Append(c, r) \in Seq(Honest) BY <2>3, <3>1
    <3> QED BY <2>1, <3>2 DEF c
  <2>5. Records(d)' BY <1>1, <1>2, <1>r, <2>0, <2>1, <2>2, <2>4 DEF DevInv, Records
  <2>6. Place(d)' BY <1>1, <1>2, <1>f, <1>q, <2>1, <2>2 DEF DevInv, Place, Inside, Ended
  <2>7. Progress(d)'
    <3> DEFINE F == File(d) a == OfTests(F, Len(Tests(d))) t == at[d].t b == OfComposites(F, t - 1)
    <3>1. t \in Nat \ {0} /\ t + 1 \in 1..(Content[F].comps + 1) /\ (t + 1) - 1 = t BY <1>4, <1>h, <1>k
    <3>2. b \o <<Key(r)>> = OfComposites(F, t)
      <4> DEFINE g == [k \in 1..t |-> <<F, "composite", k, 0>>]
      <4>1. g \in [1..t -> KeySet] BY <1>h, KeyType
      <4>2. g[t] = Key(r) BY <3>1, <2>k
      <4>3. b = [k \in 1..(t - 1) |-> g[k]] /\ OfComposites(F, t) = [k \in 1..t |-> g[k]]
        BY <3>1 DEF OfComposites
      <4> HIDE DEF g, t, b, F
      <4>4. [k \in 1..(t - 1) |-> g[k]] \o <<g[t]>> = [k \in 1..t |-> g[k]] BY <3>1, <4>1, RowsMore
      <4> QED BY <4>2, <4>3, <4>4
    <3>3. a \in Seq(KeySet) /\ b \in Seq(KeySet) /\ <<Key(r)>> \in Seq(KeySet)
      <4>1. Len(Tests(d)) \in 0..Len(Selected(F)) BY <1>h
      <4>2. a \in Seq(KeySet) BY <1>h, <4>1, OfTestsIs
      <4>3. \A k \in 1..(t - 1) : <<F, "composite", k, 0>> \in KeySet BY <1>h, KeyType
      <4>4. b \in Seq(KeySet)
        <5>1. t - 1 \in Nat BY <3>1
        <5> HIDE DEF t, F
        <5> QED BY <4>3, <5>1 DEF OfComposites
      <4>5. Key(r) \in KeySet BY <2>3, KeyIs DEF Honest
      <4> QED BY <4>2, <4>4, <4>5
    <3>4. Keys(cur'[d]) = a \o OfComposites(F, t)
      <4>1. r \in Results BY <2>3 DEF Honest
      <4>2. Keys(Append(cur[d], r)) = Append(Keys(cur[d]), Key(r)) BY <1>r, <4>1, KeysOfOneMore
      <4>3. Keys(cur[d]) = a \o b BY <1>k
      <4> HIDE DEF a, b, t, F
      <4>4. Append(a \o b, Key(r)) = (a \o b) \o <<Key(r)>> BY <3>3
      <4>5. (a \o b) \o <<Key(r)>> = a \o (b \o <<Key(r)>>) BY <3>3
      <4> QED BY <2>1, <3>2, <4>2, <4>3, <4>4, <4>5
    <3> QED BY <2>1, <2>2, <3>1, <3>4 DEF Progress, Attempting
  <2>8. Account(d)'
    <3>1. KeysUpTo(d, at[d].f - 1)' = KeysUpTo(d, at[d].f - 1) BY <1>1, <2>1, <2>2 DEF KeysUpTo
    <3> QED BY <1>1, <1>2, <2>0, <2>1, <3>1 DEF DevInv, Account
  <2>9. Lists'
    <3>1. cur'[d] \in Seq(Results) BY <2>4, SeqOfHonest
    <3>2. Device' = Device BY <1>1, PlanStays
    <3>3. cur' \in [Device -> Seq(Results)] BY <1>2, <2>0, <2>1, <3>1 DEF Lists
    <3> QED BY <1>1, <1>2, <2>0, <3>2, <3>3 DEF Lists
  <2> QED BY <2>5, <2>6, <2>7, <2>8, <2>9 DEF DevInv
<1> QED BY <1>3, <1>4

LEMMA EndSteps ==
  ASSUME IInv, ReportInv, NEW d \in Device, Return(d) \/ Again(d) PROVE DevInv(d)' /\ Lists'
<1> USE DEF Set, Goto
<1>2. DevInv(d) /\ plan \in Plans /\ Lists BY DEF ReportInv
<1>a. /\ at[d] \in Spots /\ pc \in [Device -> Where] /\ at \in [Device -> Spots] /\ err \in [Device -> BOOLEAN]
      /\ broken \in [Device -> SUBSET Nat]
  BY DEF IInv, TypeInv
<1>q. Len(Files(d)) \in Nat BY <1>2, FilesIs
<1>s. at[d].try = 1 <=> log[d] = <<>>
  <2>1. log[d] \in Seq(BOOLEAN) /\ Len(log[d]) = at[d].try - 1 /\ at[d].try \in Nat
    BY <1>2, <1>a DEF DevInv, Records, Lists, Spots
  <2> QED BY <2>1
<1>1. CASE Return(d)
  <2>1. UNCHANGED <<plan, at, log, acc, broken, cancelled, err>> BY <1>1 DEF Return
  <2>2. /\ pc[d] = "return" /\ pc'[d] \in {"again", "done"} /\ cur'[d] = <<>>
        /\ res'[d] = [results |-> acc[d], error |-> err[d]]
    BY <1>1, <1>2, <1>a DEF Return, Lists
  <2>3. Files(d)' = Files(d) /\ Honest' = Honest BY <2>1, PlanStays DEF Honest, Tells
  <2>4. Records(d)' BY <1>2, <2>1, <2>2, <2>3 DEF DevInv, Records, Attempting
  <2>5. Place(d)' BY <1>2, <2>1, <2>2, <2>3 DEF DevInv, Place, Inside, Ended
  <2>6. Progress(d)' BY <2>2 DEF Progress, Attempting
  <2>7. Account(d)'
    <3>1. KeysUpTo(d, at[d].f - 1)' = KeysUpTo(d, at[d].f - 1) BY <2>1, <2>3 DEF KeysUpTo
    <3> QED BY <1>2, <2>1, <2>2, <3>1 DEF DevInv, Account
  <2>8. Lists'
    <3>1. Device' = Device BY <2>1, PlanStays
    <3>2. cur' \in [Device -> Seq(Results)] BY <1>1, <1>2 DEF Return, Lists
    <3>3. res' = [res EXCEPT ![d] = [results |-> acc[d], error |-> err[d]]] BY <1>1 DEF Return
    <3>4. [results |-> acc[d], error |-> err[d]] \in [results : Seq(Results), error : BOOLEAN] BY <1>2, <1>a DEF Lists
    <3>5. res' \in [Device -> [results : Seq(Results), error : BOOLEAN]] BY <1>2, <3>3, <3>4 DEF Lists
    <3> QED BY <1>2, <2>1, <3>1, <3>2, <3>5 DEF Lists
  <2> QED BY <2>4, <2>5, <2>6, <2>7, <2>8 DEF DevInv
<1>3. CASE Again(d)
  <2>1. UNCHANGED <<plan, log, cur, res, cancelled>> BY <1>3 DEF Again
  <2>2. /\ pc[d] = "again" /\ pc'[d] = "forward" /\ acc'[d] = <<>> /\ at'[d] = Start /\ broken'[d] = {} /\ err'[d] = FALSE
    BY <1>3, <1>2, <1>a DEF Again, Lists, NoResults
  <2>3. at'[d].f = 1 /\ at'[d].t = 1 /\ at'[d].try = 1 BY <2>2 DEF Start, Spot
  <2>4. Files(d)' = Files(d) /\ Honest' = Honest BY <2>1, PlanStays DEF Honest, Tells
  <2>5. Records(d)'
    <3>1. at[d].try = 1 BY <1>2, <2>2 DEF DevInv, Records, Attempting
    <3> QED BY <1>2, <2>1, <2>2, <2>3, <2>4, <3>1, TestRunAssumption DEF DevInv, Records
  <2>6. Place(d)' BY <1>2, <1>q, <2>1, <2>2, <2>3, <2>4 DEF DevInv, Place, Inside, Ended
  <2>7. Progress(d)' BY <2>2 DEF Progress, Attempting
  <2>8. Account(d)'
    <3>1. KeysUpTo(d, at[d].f - 1)' = KeysIn(Files(d), broken'[d], 0) BY <2>3, <2>4 DEF KeysUpTo, KeysIn, FileKeys
    <3>2. Files(d) \in Seq(DOMAIN Content) /\ 0 \in 0..Len(Files(d)) BY <1>2, FilesIs
    <3>3. KeysIn(Files(d), broken'[d], 0) = <<>> BY <3>2, KeysInIs
    <3> QED BY <2>2, <3>1, <3>3, KeysOfNone DEF Account
  <2>9. Lists'
    <3>1. Device' = Device BY <2>1, PlanStays
    <3>2. acc' \in [Device -> Seq(Results)] BY <1>3, <1>2 DEF Again, Lists, NoResults
    <3> QED BY <1>2, <2>1, <3>1, <3>2 DEF Lists
  <2> QED BY <2>5, <2>6, <2>7, <2>8, <2>9 DEF DevInv
<1> QED BY <1>1, <1>3

(* Every step keeps what is known of the results.                            *)
LEMMA ReportKeeps ==
  ASSUME IInv, ReportInv, [Next]_vars PROVE ReportInv'
<1>1. CASE \E d \in Device : Step(d)
  <2>1. PICK d \in Device : Step(d) BY <1>1
  <2>2. DevInv(d)' /\ Lists'
    BY <2>1, EarlySteps, AttemptSteps, BeginTestStep, BeforeAllStep, VerdictStep, AfterAllStep, CompositeStep, EndSteps
    DEF Step
  <2>3. Lists /\ plan' = plan /\ Device' = Device BY <2>1, StepIsLocal, PlanStays DEF ReportInv
  <2>4. \A e \in Device : DevInv(e)' BY <2>1, <2>2, <2>3, OthersKeep DEF ReportInv
  <2> QED BY <2>2, <2>3, <2>4 DEF ReportInv
<1>2. CASE Interrupt \/ Exit \/ UNCHANGED vars
  <2>1. UNCHANGED <<plan, pc, place, acc, err, res, broken>> /\ (cancelled => cancelled')
    BY <1>2 DEF Interrupt, Exit, vars
  <2>2. Device' = Device /\ \A d : Files(d)' = Files(d) BY <2>1, PlanStays
  <2>3. \A s \in Seq(Honest) : s \in Seq(Honest')
    <3>1. Honest \subseteq Honest' BY <2>1 DEF Honest, Tells
    <3> QED BY <3>1
  <2>4. ASSUME NEW d \in Device PROVE DevInv(d)'
    <3>0. DevInv(d) BY DEF ReportInv
    <3>1. Records(d)' BY <2>1, <2>3, <3>0 DEF DevInv, Records, place
    <3>2. Place(d)' BY <2>1, <2>2, <3>0 DEF DevInv, Place, place
    <3>3. File(d)' = File(d) BY <2>1, <2>2 DEF File, place
    <3>4. Tests(d)' = Tests(d) BY <3>3 DEF Tests
    <3>5. Test(d)' = Test(d) BY <2>1, <3>4 DEF Test, place
    <3>6. Progress(d)' BY <2>1, <3>0, <3>3, <3>4, <3>5 DEF DevInv, Progress, place
    <3>7. KeysUpTo(d, at[d].f - 1)' = KeysUpTo(d, at[d].f - 1) BY <2>1, <2>2 DEF KeysUpTo, place
    <3>8. Account(d)' BY <2>1, <3>0, <3>7 DEF DevInv, Account, place
    <3> QED BY <3>1, <3>2, <3>6, <3>8 DEF DevInv
  <2>5. Lists' BY <2>1, <2>2 DEF ReportInv, Lists, place
  <2> QED BY <2>1, <2>2, <2>4, <2>5 DEF ReportInv
<1> QED BY <1>1, <1>2 DEF Next

(* The invariant of the results holds in every reachable state.              *)
THEOREM Reports == Spec => [](IInv /\ ReportInv)
<1>1. Init => IInv /\ ReportInv BY InitHolds, ReportStarts
<1>2. (IInv /\ ReportInv) /\ [Next]_vars => (IInv /\ ReportInv)' BY NextKeeps, ReportKeeps
<1> QED BY <1>1, <1>2, PTL DEF Spec

(* runSingleTest: a result tells the attempts it is the outcome of: all but  *)
(* the last failed, no more than the retries allow, and a failure stands     *)
(* only when none was left or the run was cancelled.                         *)
THEOREM Honesty == Spec => []AttemptsTold
<1>1. ReportInv => AttemptsTold
  <2> SUFFICES ASSUME ReportInv, NEW d \in Device, NEW r \in Range(acc[d] \o cur[d]) PROVE Tells(r)
    BY DEF AttemptsTold
  <2> DEFINE a == acc[d] b == cur[d]
  <2>1. a \in Seq(Honest) /\ b \in Seq(Honest) BY DEF ReportInv, DevInv, Records
  <2>2. r \in Range(a \o b) OBVIOUS
  <2> HIDE DEF a, b
  <2>3. a \o b \in Seq(Honest) BY <2>1
  <2>4. r \in Honest BY <2>2, <2>3 DEF Range
  <2> QED BY <2>4 DEF Honest
<1> QED BY <1>1, Reports, PTL

(* An exit status is given when all devices are done, and 0 when none failed.*)
ExitInv == exit # "running" => Waited /\ (exit = "ok" => ~Failed)

(* Once the command has exited no device takes a step.                       *)
LEMMA ExitKeeps == ASSUME ExitInv, [Next]_vars PROVE ExitInv'
<1>1. ASSUME plan' = plan, res' = res, pc' = pc PROVE (Failed' <=> Failed) /\ (Waited' <=> Waited)
  <2>1. Device' = Device BY <1>1, PlanStays
  <2>2. Merged' = Merged BY <1>1, <2>1 DEF Merged
  <2>3. AnyError' <=> AnyError BY <1>1, <2>1 DEF AnyError
  <2> QED BY <1>1, <2>1, <2>2, <2>3 DEF Failed, Waited
<1>2. CASE Exit BY <1>1, <1>2 DEF Exit, ExitInv
<1>3. CASE Interrupt \/ UNCHANGED vars BY <1>1, <1>3 DEF Interrupt, vars, ExitInv
<1>4. ASSUME NEW d \in Device, Step(d) PROVE ExitInv'
  <2>1. pc[d] # "done"
    BY <1>4 DEF Step, Forward, Dial, Prepare, OpenFile, BeforeAll, BeginTest, BeforeEach, Body, OnFailure, AfterEach,
                Verdict, AfterAll, Composite, Return, Again
  <2>2. exit' = exit
    BY <1>4 DEF Step, Forward, Dial, Prepare, OpenFile, BeforeAll, BeginTest, BeforeEach, Body, OnFailure, AfterEach,
                Verdict, AfterAll, Composite, Return, Again
  <2> QED BY <2>1, <2>2 DEF ExitInv, Waited
<1> QED BY <1>2, <1>3, <1>4 DEF Next

(* runTests: exit status 0 means that every device without an error ran all  *)
(* its tests and they passed, and that a run on one device had no error.     *)
THEOREM ZeroMeansPassed == Spec => []OkMeansPassed
<1>1. Init => ExitInv BY DEF Init, ExitInv
<1>2. ExitInv /\ [Next]_vars => ExitInv' BY ExitKeeps
<1>3. Spec => []ExitInv BY <1>1, <1>2, PTL DEF Spec
<1>4. ReportInv /\ ExitInv => OkMeansPassed
  <2> SUFFICES ASSUME ReportInv, ExitInv, exit = "ok" PROVE OkMeansPassed BY DEF OkMeansPassed
  <2>1. Waited /\ ~Failed BY DEF ExitInv
  <2>2. AnyError => plan.parallel BY <2>1 DEF Failed
  <2>3. ASSUME NEW d \in Device, ~res[d].error
        PROVE  Keys(res[d].results) = KeysUpTo(d, Len(Files(d))) /\ AllPassed(res[d].results)
    <3>0. plan \in Plans /\ DevInv(d) /\ Lists /\ pc[d] = "done" BY <2>1 DEF ReportInv, Waited
    <3>1. res[d] = [results |-> acc[d], error |-> err[d]] /\ Keys(acc[d]) = KeysUpTo(d, at[d].f - 1)
      BY <3>0 DEF DevInv, Account
    <3>2. at[d].f = Len(Files(d)) + 1 /\ Len(Files(d)) \in Nat BY <2>3, <3>0, <3>1, FilesIs DEF DevInv, Place, Ended
    <3>3. at[d].f - 1 = Len(Files(d)) BY <3>2
    <3>4. AllPassed(res[d].results)
      <4> DEFINE lists == [e \in Device |-> res[e].results] n == plan.devices
      <4>1. n \in Nat /\ Device = 1..n BY <3>0, PlanAssumption DEF Device
      <4>2. lists \in Seq(Seq(Results)) /\ Len(lists) = n
        <5>1. \A e \in Device : res[e].results \in Seq(Results) BY <3>0 DEF Lists
        <5> HIDE DEF n
        <5> QED BY <4>1, <5>1
      <4>3. Merged = FlattenSeq(lists) BY DEF Merged
      <4>4. d \in 1..Len(lists) /\ lists[d] = res[d].results BY <4>1, <4>2
      <4> HIDE DEF lists, n
      <4>5. ASSUME NEW k \in DOMAIN lists[d] PROVE lists[d][k].passed \/ lists[d][k].skipped
        <5>1. lists[d] \in Seq(Results) BY <4>2, <4>4
        <5>2. k \in 1..Len(lists[d]) BY <5>1
        <5>3. PICK j \in DOMAIN FlattenSeq(lists) : FlattenSeq(lists)[j] = lists[d][k] BY <4>2, <4>4, <5>2, FlattenHolds
        <5> QED BY <2>1, <4>3, <5>3 DEF Failed, AllPassed
      <4> QED BY <4>4, <4>5 DEF AllPassed
    <3> QED BY <3>1, <3>3, <3>4
  <2> QED BY <2>2, <2>3 DEF OkMeansPassed
<1> QED BY <1>3, <1>4, Reports, PTL

(* A run on one device, but for an error that has been reported, has         *)
(* streamed what it is about to report.                                      *)
StreamInv ==
  ~plan.parallel =>
    /\ pc[1] # "again"
    /\ (pc[1] = "done" => ~err[1]) => streamed = ToldOf(acc[1] \o cur[1])

LEMMA OneDevice == ASSUME plan \in Plans, ~plan.parallel PROVE Device = {1}
<1>1. plan.devices = 1 BY PlanAssumption
<1> QED BY <1>1 DEF Device

LEMMA StreamStep ==
  ASSUME IInv, ReportInv, StreamInv, ~plan.parallel, Step(1) PROVE StreamInv'
<1> USE DEF Set, Goto, Fails, place
<1>0. plan \in Plans /\ Device = {1} /\ DevInv(1) /\ Lists BY OneDevice DEF ReportInv
<1>1. plan' = plan BY <1>0, StepIsLocal
<1>2. pc[1] # "done" /\ pc[1] # "again" /\ streamed = ToldOf(acc[1] \o cur[1])
  <2>1. pc[1] # "done"
    BY DEF Step, Forward, Dial, Prepare, OpenFile, BeforeAll, BeginTest, BeforeEach, Body, OnFailure, AfterEach,
           Verdict, AfterAll, Composite, Return, Again
  <2> QED BY <2>1 DEF StreamInv
<1>3. pc \in [Device -> Where] /\ err \in [Device -> BOOLEAN] BY DEF IInv, TypeInv
<1> DEFINE a == acc[1] c == cur[1]
<1>4. a \in Seq(Results) /\ c \in Seq(Results) BY <1>0 DEF Lists
<1>5. ASSUME UNCHANGED <<acc, cur, streamed>>, pc'[1] # "again" PROVE StreamInv'
  BY <1>1, <1>2, <1>5 DEF StreamInv
<1>6. CASE Forward(1) \/ Dial(1) \/ Prepare(1) \/ OpenFile(1) \/ BeginTest(1) \/ BeforeEach(1) \/ Body(1) \/ OnFailure(1)
           \/ AfterEach(1) \/ AfterAll(1)
  <2>1. UNCHANGED <<acc, cur, streamed>>
    BY <1>6 DEF Forward, Dial, Prepare, OpenFile, BeginTest, BeforeEach, Body, OnFailure, AfterEach, AfterAll
  <2>2. pc'[1] # "again"
    BY <1>0, <1>3, <1>6 DEF Forward, Dial, Prepare, OpenFile, BeginTest, BeforeEach, Body, OnFailure, AfterFailure,
                            AfterEach, AfterAll
  <2> QED BY <2>1, <2>2, <1>5
<1>7. CASE BeforeAll(1)
  <2> DEFINE results == [i \in DOMAIN Tests(1) |-> Result(File(1), Tests(1)[i].id, 0, <<>>)]
  <2>1. pc'[1] # "again" /\ UNCHANGED streamed BY <1>0, <1>3, <1>7 DEF BeforeAll, EndFile
  <2>2. CASE EndFile(1, results)
    <3>1. acc'[1] = a \o results /\ cur'[1] = <<>> BY <1>0, <2>2 DEF EndFile, Lists
    <3>2. pc[1] = "beforeAll" BY <1>7 DEF BeforeAll
    <3>3. c = <<>> /\ at[1].f \in 1..Len(Files(1)) BY <1>0, <3>2, FilesIs DEF DevInv, Place, Inside
    <3>4. Tests(1) \in Seq(TestEntry) /\ Tests(1) = Selected(File(1)) /\ File(1) \in DOMAIN Content
          /\ DOMAIN Tests(1) = 1..Len(Tests(1))
      BY <1>0, <3>3, Here
    <3>5. \A i \in 1..Len(Tests(1)) : Result(File(1), Tests(1)[i].id, 0, <<>>) \in Results
      <4> SUFFICES ASSUME NEW i \in 1..Len(Tests(1)) PROVE Result(File(1), Tests(1)[i].id, 0, <<>>) \in Results OBVIOUS
      <4>1. Tests(1)[i].id \in Nat BY <3>4, EntryIs
      <4> QED BY <3>4, <4>1 DEF Result, Results
    <3>6. results \in Seq(Results) BY <3>4, <3>5
    <3>7. \A i \in DOMAIN results : ~Attempted(results[i]) BY DEF Attempted, Result
    <3> HIDE DEF results, a, c
    <3>8. ToldOf(a \o results) = ToldOf(a) BY <1>4, <3>6, <3>7, ToldNone
    <3>9. (a \o results) \o <<>> = a \o results /\ a \o <<>> = a BY <1>4, <3>6
    <3> QED BY <1>1, <1>2, <2>1, <3>1, <3>3, <3>8, <3>9 DEF StreamInv, a, c
  <2>3. CASE UNCHANGED <<acc, cur>> BY <1>5, <2>1, <2>3
  <2> QED BY <1>7, <2>2, <2>3 DEF BeforeAll
<1>8. ASSUME NEW r \in Results, Attempted(r), cur' = [cur EXCEPT ![1] = Append(cur[1], r)], UNCHANGED acc,
             streamed' = Append(streamed, r), pc'[1] # "again"
      PROVE  StreamInv'
  <2>1. cur'[1] = Append(c, r) BY <1>0, <1>8 DEF Lists
  <2> HIDE DEF a, c
  <2>2. a \o c \in Seq(Results) /\ a \o Append(c, r) = Append(a \o c, r) BY <1>4
  <2>3. ToldOf(Append(a \o c, r)) = Append(ToldOf(a \o c), r) BY <1>8, <2>2, ToldAppend
  <2> QED BY <1>1, <1>2, <1>8, <2>1, <2>2, <2>3 DEF StreamInv, a, c
<1>9. CASE Verdict(1)
  <2>0. PICK passed \in BOOLEAN : Conclude(1, passed) BY <1>9 DEF Verdict
  <2>1. UNCHANGED acc /\ pc'[1] # "again" BY <1>0, <1>3, <1>9 DEF Verdict, Conclude
  <2> DEFINE l == Append(log[1], passed) r == Result(File(1), Test(1).id, at[1].row, l)
  <2>2. CASE UNCHANGED <<cur, streamed>> BY <1>5, <2>1, <2>2
  <2>3. CASE cur' = [cur EXCEPT ![1] = Append(cur[1], r)] /\ streamed' = Stream(r)
    <3>1. pc[1] = "verdict" BY <1>9 DEF Verdict
    <3>2. at[1].f \in 1..Len(Files(1)) BY <1>0, <3>1, FilesIs DEF DevInv, Place, Inside
    <3>3. Tests(1) \in Seq(TestEntry) /\ File(1) \in DOMAIN Content BY <1>0, <3>2, Here
    <3>4. at[1].t \in 1..Len(Tests(1)) /\ Test(1).rows \in Nat /\ at[1].row \in 0..Test(1).rows
      BY <1>0, <3>1 DEF DevInv, Progress, Attempting
    <3>5. Test(1).id \in Nat /\ at[1].row \in Nat
      <4>1. Test(1) \in TestEntry BY <3>3, <3>4 DEF Test
      <4> QED BY <4>1, <3>4 DEF TestEntry
    <3>6. l \in Seq(BOOLEAN) /\ l # <<>>
      <4> DEFINE before == log[1]
      <4>1. before \in Seq(BOOLEAN) BY <1>0 DEF Lists
      <4> HIDE DEF before
      <4>2. l = Append(before, passed) BY DEF before
      <4>3. passed \in BOOLEAN BY <2>0
      <4> HIDE DEF l
      <4>4. l \in Seq(BOOLEAN) BY <4>1, <4>2, <4>3
      <4>5. Len(l) = Len(before) + 1 /\ Len(before) \in Nat BY <4>1, <4>2, <4>3
      <4> QED BY <4>4, <4>5
    <3>7. r \in Results BY <3>3, <3>5, <3>6 DEF Result, Results, Last
    <3>8. Attempted(r) BY <3>6 DEF Attempted, Result
    <3> HIDE DEF r
    <3> QED BY <1>8, <2>1, <2>3, <3>7, <3>8 DEF Stream
  <2> QED BY <2>0, <2>2, <2>3 DEF Conclude
<1>10. CASE Composite(1)
  <2>0. pc[1] = "composite" BY <1>10 DEF Composite
  <2>1. at[1].f \in 1..Len(Files(1)) BY <1>0, <2>0, FilesIs DEF DevInv, Place, Inside
  <2>2. File(1) \in DOMAIN Content BY <1>0, <2>1, Here
  <2>3. CASE EndFile(1, cur[1]) /\ UNCHANGED streamed
    <3>1. acc'[1] = a \o c /\ cur'[1] = <<>> /\ pc'[1] = "file" BY <1>0, <1>3, <2>3 DEF EndFile, Lists
    <3> HIDE DEF a, c
    <3>2. (a \o c) \o <<>> = a \o c BY <1>4
    <3> QED BY <1>1, <1>2, <2>3, <3>1, <3>2 DEF StreamInv, a, c
  <2>4. ASSUME NEW how \in {"passed", "failed", "skipped"},
               cur' = [cur EXCEPT ![1] = Append(cur[1], CompositeResult(File(1), at[1].t, how))],
               streamed' = Stream(CompositeResult(File(1), at[1].t, how)), UNCHANGED <<pc, acc>>
        PROVE  StreamInv'
    <3> DEFINE r == CompositeResult(File(1), at[1].t, how)
    <3>1. at[1].t \in Nat BY <1>0 DEF IInv, TypeInv, Spots
    <3>2. r \in Results BY <2>2, <3>1 DEF CompositeResult, Results
    <3>3. Attempted(r) BY DEF Attempted, CompositeResult
    <3> HIDE DEF r
    <3> QED BY <1>2, <1>8, <2>4, <3>2, <3>3 DEF Stream, r
  <2> QED BY <1>10, <2>3, <2>4 DEF Composite
<1>11. CASE Return(1)
  <2>1. pc[1] = "return" /\ pc'[1] = "done" /\ cur'[1] = <<>> /\ UNCHANGED <<acc, streamed, err>>
    BY <1>0, <1>3, <1>11 DEF Return, Lists
  <2>2. ~err[1] => cur[1] = <<>> BY <1>0, <2>1 DEF DevInv, Place, Ended
  <2> QED BY <1>1, <1>2, <2>1, <2>2 DEF StreamInv
<1>12. CASE Again(1) BY <1>2, <1>12 DEF Again
<1> QED BY <1>6, <1>7, <1>9, <1>10, <1>11, <1>12 DEF Step

(* runFile, Run: what a run on one device has streamed is what it reports.   *)
THEOREM Streams == Spec => []StreamIsReport
<1>1. Init => StreamInv
  <2> SUFFICES ASSUME Init, ~plan.parallel PROVE StreamInv BY DEF StreamInv
  <2>1. plan \in Plans /\ Device = {1} BY OneDevice DEF Init
  <2>2. acc[1] \o cur[1] = <<>> /\ streamed = <<>> /\ pc[1] = "forward" BY <2>1 DEF Init
  <2>3. ToldOf(<<>>) = <<>> BY PickedNil DEF ToldOf
  <2> QED BY <2>2, <2>3 DEF StreamInv
<1>2. ASSUME IInv, ReportInv, StreamInv, [Next]_vars PROVE StreamInv'
  <2>1. ASSUME NEW d \in Device, Step(d) PROVE StreamInv'
    <3>1. plan \in Plans /\ Lists /\ plan' = plan BY <2>1, <1>2, StepIsLocal DEF ReportInv
    <3>2. CASE plan.parallel BY <3>1, <3>2 DEF StreamInv
    <3>3. CASE ~plan.parallel BY <1>2, <2>1, <3>1, <3>3, OneDevice, StreamStep
    <3> QED BY <3>2, <3>3
  <2>2. CASE Interrupt \/ Exit \/ UNCHANGED vars BY <1>2, <2>2 DEF Interrupt, Exit, vars, place, StreamInv
  <2> QED BY <1>2, <2>1, <2>2 DEF Next
<1>3. ReportInv /\ StreamInv => StreamIsReport
  <2> SUFFICES ASSUME ReportInv, StreamInv, ~plan.parallel, pc[1] = "done" => ~res[1].error
               PROVE  streamed = ToldOf(acc[1] \o cur[1])
    BY DEF StreamIsReport, ToldOf
  <2>1. plan \in Plans /\ Device = {1} BY OneDevice DEF ReportInv
  <2>2. pc[1] = "done" => res[1].error = err[1] BY <2>1 DEF ReportInv, DevInv, Account
  <2> QED BY <2>2 DEF StreamInv
<1>4. Init => IInv /\ ReportInv BY InitHolds, ReportStarts
<1>5. (IInv /\ ReportInv) /\ [Next]_vars => (IInv /\ ReportInv)' BY NextKeeps, ReportKeeps
<1> QED BY <1>1, <1>2, <1>3, <1>4, <1>5, PTL DEF Spec

(* A list b of places of s, those among places, in which p has its entries.  *)
Located(b, p, s, places) ==
  /\ b \in [1..Len(p) -> DOMAIN s]
  /\ \A j \in 1..Len(p) : b[j] \in places /\ p[j] = s[b[j]]
  /\ \A i, j \in 1..Len(p) : b[i] = b[j] => i = j
  /\ \A i \in DOMAIN s : i \in places => \E j \in 1..Len(p) : b[j] = i

(* What is picked are the entries at those places, once each.                *)
LEMMA PickedPlaces ==
  ASSUME NEW S, NEW s \in Seq(S), NEW places
  PROVE  Picked(s, places) \in Seq(S) /\ \E b : Located(b, Picked(s, places), s, places)
<1> DEFINE L == Len(s)
<1> DEFINE Up(b, p, n) == /\ b \in [1..Len(p) -> 1..n]
                          /\ \A j \in 1..Len(p) : b[j] \in places /\ p[j] = s[b[j]]
                          /\ \A i, j \in 1..Len(p) : b[i] = b[j] => i = j
                          /\ \A i \in 1..n : i \in places => \E j \in 1..Len(p) : b[j] = i
<1>1. PICK f \in [0..L -> Seq(S)] : PicksOf(f, s, places) /\ Picked(s, places) = f[L] BY PickedIs
<1>0. L \in Nat /\ DOMAIN s = 1..L OBVIOUS
<1> DEFINE I == {n \in Nat : n <= L => \E b : Up(b, f[n], n)}
<1>2. 0 \in I
  <2>1. f[0] = <<>> BY <1>1 DEF PicksOf
  <2>2. Up(<<>>, f[0], 0) BY <2>1
  <2> HIDE DEF Up
  <2> QED BY <2>2
<1>3. ASSUME NEW n \in Nat, n \in I PROVE n + 1 \in I
  <2>0. n + 1 \in Nat OBVIOUS
  <2> SUFFICES ASSUME n + 1 <= L PROVE \E b : Up(b, f[n + 1], n + 1)
    <3> HIDE DEF Up
    <3> QED BY <2>0
  <2>1. n + 1 \in 1..L /\ (n + 1) - 1 = n /\ n \in 0..L BY <1>0
  <2> DEFINE g == f[n] e == s[n + 1]
  <2>2. f[n + 1] = IF n + 1 \in places THEN Append(g, e) ELSE g
    <3>1. f[n + 1] = IF n + 1 \in places THEN Append(f[(n + 1) - 1], s[n + 1]) ELSE f[(n + 1) - 1]
      BY <1>1, <2>1 DEF PicksOf
    <3> QED BY <2>1, <3>1
  <2>3. g \in Seq(S) /\ e \in S BY <1>1, <2>1
  <2>4. PICK b : Up(b, g, n)
    <3> HIDE DEF Up
    <3> QED BY <1>3, <2>1
  <2> HIDE DEF g
  <2>5. CASE n + 1 \in places
    <3> DEFINE m == Len(g) h == Append(g, e) c == [j \in 1..Len(h) |-> IF j = m + 1 THEN n + 1 ELSE b[j]]
    <3>1. m \in Nat /\ Len(h) = m + 1 /\ h[m + 1] = e /\ \A j \in 1..m : h[j] = g[j] BY <2>3
    <3>2. f[n + 1] = h BY <2>2, <2>5
    <3> HIDE DEF h, e, m
    <3>3. c[m + 1] = n + 1 /\ m + 1 \in 1..Len(h) /\ (\A j \in 1..m : c[j] = b[j] /\ b[j] \in 1..n) BY <2>4, <3>1 DEF m
    <3>4. \A j \in 1..Len(h) : j = m + 1 \/ j \in 1..m BY <3>1
    <3>5. c \in [1..Len(h) -> 1..(n + 1)]
      <4> SUFFICES ASSUME NEW j \in 1..Len(h) PROVE (IF j = m + 1 THEN n + 1 ELSE b[j]) \in 1..(n + 1) OBVIOUS
      <4>1. CASE j = m + 1 BY <4>1
      <4>2. CASE j \in 1..m
        <5>1. b[j] \in 1..n BY <3>3, <4>2
        <5> QED BY <4>2, <5>1
      <4> QED BY <3>4, <4>1, <4>2
    <3> HIDE DEF c
    <3>6. \A j \in 1..Len(h) : c[j] \in places /\ h[j] = s[c[j]]
      <4> SUFFICES ASSUME NEW j \in 1..Len(h) PROVE c[j] \in places /\ h[j] = s[c[j]] OBVIOUS
      <4>1. CASE j = m + 1 BY <2>5, <3>1, <3>3, <4>1 DEF e
      <4>2. CASE j \in 1..m BY <2>4, <3>1, <3>3, <4>2 DEF m
      <4> QED BY <3>4, <4>1, <4>2
    <3>7. \A i, j \in 1..Len(h) : c[i] = c[j] => i = j
      <4> SUFFICES ASSUME NEW i \in 1..Len(h), NEW j \in 1..Len(h), c[i] = c[j] PROVE i = j OBVIOUS
      <4>1. CASE i \in 1..m /\ j \in 1..m BY <2>4, <3>3, <4>1 DEF m
      <4>2. CASE i = m + 1 /\ j \in 1..m BY <3>3, <4>2
      <4>3. CASE j = m + 1 /\ i \in 1..m BY <3>3, <4>3
      <4> QED BY <3>4, <4>1, <4>2, <4>3
    <3>8. \A i \in 1..(n + 1) : i \in places => \E j \in 1..Len(h) : c[j] = i
      <4> SUFFICES ASSUME NEW i \in 1..(n + 1), i \in places PROVE \E j \in 1..Len(h) : c[j] = i OBVIOUS
      <4>1. CASE i = n + 1 BY <3>3, <4>1
      <4>2. CASE i \in 1..n
        <5>1. PICK j \in 1..m : b[j] = i BY <2>4, <4>2 DEF m
        <5> QED BY <3>1, <3>3, <5>1, SMTT(20)
      <4> QED BY <4>1, <4>2
    <3>9. Up(c, h, n + 1) BY <3>5, <3>6, <3>7, <3>8
    <3> HIDE DEF Up
    <3> QED BY <3>2, <3>9
  <2>6. CASE n + 1 \notin places
    <3>1. f[n + 1] = g BY <2>2, <2>6
    <3>2. Up(b, g, n + 1)
      <4>1. b \in [1..Len(g) -> 1..(n + 1)] BY <2>4
      <4>2. ASSUME NEW i \in 1..(n + 1), i \in places PROVE i \in 1..n BY <2>6, <4>2
      <4>3. ASSUME NEW i \in 1..(n + 1), i \in places PROVE \E j \in 1..Len(g) : b[j] = i BY <2>4, <4>2, <4>3
      <4> QED BY <2>4, <4>1, <4>3
    <3> HIDE DEF Up
    <3> QED BY <3>1, <3>2
  <2> QED BY <2>5, <2>6
<1>4. L \in I
  <2> HIDE DEF I
  <2> QED BY <1>0, <1>2, <1>3, SetInduction
<1>5. PICK b : Up(b, f[L], L)
  <2> HIDE DEF Up
  <2> QED BY <1>0, <1>4
<1>6. Located(b, f[L], s, places) BY <1>0, <1>5 DEF Located
<1>7. f[L] \in Seq(S) BY <1>0, <1>1
<1> QED BY <1>1, <1>6, <1>7

LEMMA Remainder ==
  ASSUME NEW n \in Nat \ {0}, NEW q \in Nat, NEW r \in 0..(n - 1)
  PROVE  (q * n + r) % n = r
OBVIOUS

(* The place in the dealt list of what device d is dealt k-th: of each place  *)
(* there is one device and k.                                                *)
LEMMA DealtOnce ==
  ASSUME NEW n \in Nat \ {0}, NEW j \in Nat \ {0}
  PROVE  /\ \E d \in 1..n, k \in Nat \ {0} : (k - 1) * n + d = j
         /\ \A d, e \in 1..n, k, m \in Nat \ {0} : (k - 1) * n + d = j /\ (m - 1) * n + e = j => d = e /\ k = m
<1>1. \E d \in 1..n, k \in Nat \ {0} : (k - 1) * n + d = j
  <2> DEFINE q == (j - 1) \div n r == (j - 1) % n
  <2>1. j - 1 \in Nat OBVIOUS
  <2>2. q \in Nat /\ r \in 0..(n - 1) /\ j - 1 = n * q + r BY <2>1, Division
  <2> HIDE DEF q, r
  <2>3. ((q + 1) - 1) * n + (r + 1) = j BY <2>2
  <2>4. r + 1 \in 1..n /\ q + 1 \in Nat \ {0} BY <2>2
  <2> QED BY <2>3, <2>4
<1>2. ASSUME NEW d \in 1..n, NEW e \in 1..n, NEW k \in Nat \ {0}, NEW m \in Nat \ {0},
             (k - 1) * n + d = j, (m - 1) * n + e = j
      PROVE  d = e /\ k = m
  <2>1. k - 1 \in Nat /\ m - 1 \in Nat /\ d - 1 \in 0..(n - 1) /\ e - 1 \in 0..(n - 1) OBVIOUS
  <2>2. ((k - 1) * n + (d - 1)) % n = d - 1 /\ ((m - 1) * n + (e - 1)) % n = e - 1 BY <2>1, Remainder
  <2> DEFINE x == (k - 1) * n y == (m - 1) * n
  <2>3. x \in Nat /\ y \in Nat BY <2>1
  <2>4. x + d = j /\ y + e = j BY <1>2
  <2>5. (x + (d - 1)) % n = d - 1 /\ (y + (e - 1)) % n = e - 1 BY <2>2
  <2> HIDE DEF x, y
  <2>6. x + (d - 1) = y + (e - 1) BY <2>3, <2>4
  <2>7. d - 1 = e - 1 BY <2>5, <2>6
  <2>8. d = e BY <2>7
  <2>9. x = y BY <2>3, <2>4, <2>8
  <2>10. n * (k - 1) <= n * (m - 1) + 0 /\ n * (m - 1) <= n * (k - 1) + 0 BY <2>1, <2>3, <2>9 DEF x, y
  <2>11. k - 1 <= m - 1 /\ m - 1 <= k - 1 BY <2>1, <2>10, Multiples
  <2> QED BY <2>8, <2>11
<1> QED BY <1>1, <1>2

(* A list without repetition of numbers up to n has at most n of them.       *)
LEMMA NoMoreThan ==
  ASSUME NEW m \in Nat, NEW n \in Nat, NEW b \in [1..m -> 1..n], \A i, j \in 1..m : b[i] = b[j] => i = j
  PROVE  m <= n
<1>1. IsFiniteSet(1..n) /\ Cardinality(1..n) = n /\ IsFiniteSet(1..m) /\ Cardinality(1..m) = m
  <2>1. Cardinality(1..n) = (IF 1 > n THEN 0 ELSE n - 1 + 1) /\ IsFiniteSet(1..n) BY FS_Interval
  <2>2. Cardinality(1..m) = (IF 1 > m THEN 0 ELSE m - 1 + 1) /\ IsFiniteSet(1..m) BY FS_Interval
  <2> QED BY <2>1, <2>2
<1>2. b \in Injection(1..m, 1..n) BY DEF Injection, IsInjective
<1>3. Cardinality(1..m) <= Cardinality(1..n) BY <1>1, <1>2, FS_Injection
<1> QED BY <1>1, <1>3

(* ShardFiles, DistributeFiles: the devices of all the shards are dealt the  *)
(* files, each as often as it is named.                                      *)
LEMMA OnceOnly == ASSUME plan \in Plans PROVE EveryFileOnce
<1> DEFINE fs == plan.files k == plan.of n == plan.devices Dev == Device
<1>1. /\ plan \in [parallel : BOOLEAN, devices : Nat \ {0}, files : Seq(DOMAIN Content), shard : Nat, of : Nat \ {0}]
      /\ Bucket \in [DOMAIN Content -> Nat]
  BY PlanAssumption
<1>2. fs \in Seq(DOMAIN Content) /\ k \in Nat \ {0} /\ n \in Nat \ {0} /\ Dev = 1..n /\ DOMAIN fs = 1..Len(fs) /\ Len(fs) \in Nat
  BY <1>1 DEF Device
<1> DEFINE Sh(s) == Shard([plan EXCEPT !.shard = s]) In(s) == {i \in DOMAIN fs : k =< 1 \/ Bucket[fs[i]] % k = s}
<1>3. ASSUME NEW s PROVE Sh(s) = Picked(fs, In(s)) BY <1>1 DEF Shard
<1> DEFINE home(i) == IF k =< 1 THEN 0 ELSE Bucket[fs[i]] % k
<1>4. ASSUME NEW i \in DOMAIN fs PROVE home(i) \in 0..(k - 1) /\ \A s \in 0..(k - 1) : i \in In(s) <=> s = home(i)
  <2>1. Bucket[fs[i]] \in Nat BY <1>1, <1>2
  <2> HIDE DEF k
  <2>2. Bucket[fs[i]] % k \in 0..(k - 1) BY <1>2, <2>1, Division
  <2>3. home(i) \in 0..(k - 1) BY <1>2, <2>2
  <2> QED BY <1>2, <2>3
<1> DEFINE places == [s \in 0..(k - 1) |-> CHOOSE b : Located(b, Sh(s), fs, In(s))] dealt == Dealt
<1>5. \A s \in 0..(k - 1), d \in Dev : dealt[<<s, d>>] = Deal(Sh(s), n, d) BY DEF Dealt
<1>6. DOMAIN dealt = (0..(k - 1)) \X Dev BY DEF Dealt
<1> HIDE DEF fs, k, n, Dev, In, Sh, home, dealt
<1>7. ASSUME NEW s \in 0..(k - 1) PROVE Sh(s) \in Seq(DOMAIN Content) /\ Located(places[s], Sh(s), fs, In(s))
  <2>1. Picked(fs, In(s)) \in Seq(DOMAIN Content) /\ \E b : Located(b, Picked(fs, In(s)), fs, In(s)) BY <1>2, PickedPlaces
  <2>2. Picked(fs, In(s)) = Sh(s) BY <1>3
  <2>3. \E b : Located(b, Sh(s), fs, In(s)) BY <2>1, <2>2
  <2> QED BY <2>1, <2>2, <2>3
<1> HIDE DEF places
<1>8. ASSUME NEW s \in 0..(k - 1), NEW d \in Dev
      PROVE  dealt[<<s, d>>] \in Seq(DOMAIN Content) /\ EveryNth(dealt[<<s, d>>], Sh(s), n, d)
  <2> DEFINE sh == Sh(s)
  <2>1. sh \in Seq(DOMAIN Content) /\ d \in 1..n BY <1>2, <1>7
  <2> HIDE DEF sh
  <2>2. Deal(sh, n, d) \in Seq(DOMAIN Content) /\ EveryNth(Deal(sh, n, d), sh, n, d) BY <1>2, <2>1, DealIs
  <2> QED BY <1>5, <2>2 DEF sh
<1> SUFFICES ASSUME NEW f \in Range(fs)
             PROVE  Cardinality({run \in (DOMAIN dealt) \X (DOMAIN fs) : run[2] \in DOMAIN dealt[run[1]] /\ dealt[run[1]][run[2]] = f})
                      = Cardinality({i \in DOMAIN fs : fs[i] = f})
  BY DEF EveryFileOnce, fs, dealt
<1> DEFINE Runs == {run \in (DOMAIN dealt) \X (DOMAIN fs) : run[2] \in DOMAIN dealt[run[1]] /\ dealt[run[1]][run[2]] = f}
           Named == {i \in DOMAIN fs : fs[i] = f}
           spot(s, d, m) == places[s][(m - 1) * n + d]
(* What a device is dealt m-th stands at some place of the command line.     *)
<1>9. ASSUME NEW s \in 0..(k - 1), NEW d \in Dev, NEW m \in Nat \ {0}, m \in DOMAIN dealt[<<s, d>>]
      PROVE  /\ (m - 1) * n + d \in 1..Len(Sh(s)) /\ m \in DOMAIN fs
             /\ spot(s, d, m) \in DOMAIN fs /\ dealt[<<s, d>>][m] = fs[spot(s, d, m)] /\ s = home(spot(s, d, m))
  <2> DEFINE D == dealt[<<s, d>>] p == (m - 1) * n + d
  <2>1. DOMAIN D = 1..Len(D) /\ Len(D) \in Nat /\ m \in 1..Len(D) BY <1>8, <1>9
  <2>2. p <= Len(Sh(s)) /\ D[m] = Sh(s)[p] BY <1>8, <2>1 DEF EveryNth
  <2>3. p \in 1..Len(Sh(s)) /\ m <= p
    <3>0. d \in 1..n /\ Len(Sh(s)) \in Nat BY <1>2, <1>7
    <3>1. (m - 1) * n \in Nat /\ (m - 1) * n >= m - 1
      <4>1. m - 1 \in Nat /\ n - 1 \in Nat BY <1>2
      <4>2. (m - 1) * n = (m - 1) * (n - 1) + (m - 1) /\ (m - 1) * (n - 1) \in Nat BY <4>1, <1>2
      <4> QED BY <4>1, <4>2
    <3> QED BY <2>2, <3>0, <3>1
  <2> HIDE DEF p, D
  <2> DEFINE b == places[s]
  <2>4. Located(b, Sh(s), fs, In(s)) BY <1>7
  <2> HIDE DEF b
  <2>5. b[p] \in DOMAIN fs /\ b[p] \in In(s) /\ Sh(s)[p] = fs[b[p]] BY <2>3, <2>4 DEF Located
  <2>6. s = home(b[p]) BY <1>4, <2>5
  <2>7. Len(Sh(s)) <= Len(fs)
    <3>1. b \in [1..Len(Sh(s)) -> 1..Len(fs)] /\ \A i, j \in 1..Len(Sh(s)) : b[i] = b[j] => i = j
      BY <1>2, <2>4 DEF Located
    <3>2. Len(Sh(s)) \in Nat BY <1>7
    <3> QED BY <1>2, <3>1, <3>2, NoMoreThan
  <2>8. m \in DOMAIN fs
    <3>1. Len(Sh(s)) \in Nat BY <1>7
    <3>2. p \in Nat BY <2>3
    <3> QED BY <1>2, <2>3, <2>7, <3>1, <3>2
  <2> QED BY <2>2, <2>3, <2>5, <2>6, <2>8 DEF b, p, D
(* Each place is that of one run.                                            *)
<1>10. ASSUME NEW i \in DOMAIN fs
       PROVE  \E s \in 0..(k - 1), d \in Dev, m \in Nat \ {0} : m \in DOMAIN dealt[<<s, d>>] /\ spot(s, d, m) = i
  <2> DEFINE s == home(i) b == places[home(i)]
  <2>1. s \in 0..(k - 1) /\ i \in In(s) BY <1>4
  <2>2. Located(b, Sh(s), fs, In(s)) /\ Sh(s) \in Seq(DOMAIN Content) BY <1>7, <2>1
  <2> HIDE DEF s, b
  <2>3. PICK j \in 1..Len(Sh(s)) : b[j] = i BY <2>1, <2>2 DEF Located
  <2>4. j \in Nat \ {0} /\ Len(Sh(s)) \in Nat BY <2>2
  <2>5. PICK d \in 1..n, m \in Nat \ {0} : (m - 1) * n + d = j BY <1>2, <2>4, DealtOnce
  <2>6. d \in Dev BY <1>2
  <2> DEFINE D == dealt[<<s, d>>]
  <2>7. D \in Seq(DOMAIN Content) /\ EveryNth(D, Sh(s), n, d) BY <1>8, <2>1, <2>6
  <2> HIDE DEF D
  <2>8. m \in 1..Len(D)
    <3>1. (m - 1) * n + d <= Len(Sh(s)) BY <2>3, <2>4, <2>5
    <3> QED BY <2>7, <3>1 DEF EveryNth
  <2>9. m \in DOMAIN D BY <2>7, <2>8
  <2>10. places[s][(m - 1) * n + d] = i BY <2>3, <2>5 DEF b, s
  <2> QED BY <2>1, <2>6, <2>9, <2>10 DEF D
<1>11. ASSUME NEW s \in 0..(k - 1), NEW t \in 0..(k - 1), NEW d \in Dev, NEW e \in Dev, NEW m \in Nat \ {0}, NEW q \in Nat \ {0},
              m \in DOMAIN dealt[<<s, d>>], q \in DOMAIN dealt[<<t, e>>], spot(s, d, m) = spot(t, e, q)
       PROVE  s = t /\ d = e /\ m = q
  <2>1. s = t BY <1>9, <1>11
  <2> DEFINE b == places[s] p == (m - 1) * n + d r == (q - 1) * n + e
  <2>2. Located(b, Sh(s), fs, In(s)) BY <1>7
  <2>3. p \in 1..Len(Sh(s)) BY <1>9, <1>11
  <2>4. r \in 1..Len(Sh(s)) BY <1>9, <1>11, <2>1
  <2>5. b[p] = b[r] BY <1>11, <2>1
  <2> HIDE DEF b, p, r
  <2>6. p = r BY <2>2, <2>3, <2>4, <2>5 DEF Located
  <2>7. p \in Nat \ {0}
    <3>1. Len(Sh(s)) \in Nat BY <1>7
    <3> QED BY <2>3, <3>1
  <2>8. d \in 1..n /\ e \in 1..n BY <1>2
  <2>9. (m - 1) * n + d = p /\ (q - 1) * n + e = p BY <2>6 DEF p, r
  <2>10. d = e /\ m = q BY <1>2, <2>7, <2>8, <2>9, DealtOnce
  <2> QED BY <2>1, <2>10
<1> HIDE DEF spot
<1> DEFINE S(run) == run[1][1] D(run) == run[1][2] M(run) == run[2]
<1>12. ASSUME NEW run \in Runs
       PROVE  /\ S(run) \in 0..(k - 1) /\ D(run) \in Dev /\ M(run) \in Nat \ {0} /\ run = <<<<S(run), D(run)>>, M(run)>>
              /\ M(run) \in DOMAIN dealt[<<S(run), D(run)>>] /\ dealt[<<S(run), D(run)>>][M(run)] = f
  <2>1. run[1] \in (0..(k - 1)) \X Dev /\ run[2] \in 1..Len(fs) /\ run = <<run[1], run[2]>> BY <1>2, <1>6
  <2>2. S(run) \in 0..(k - 1) /\ D(run) \in Dev /\ run[1] = <<S(run), D(run)>> BY <2>1
  <2>3. M(run) \in Nat \ {0} BY <1>2, <2>1
  <2> QED BY <2>1, <2>2, <2>3
<1> DEFINE At(run) == spot(S(run), D(run), M(run))
<1>13. ASSUME NEW run \in Runs PROVE At(run) \in Named
  <2>1. At(run) \in DOMAIN fs /\ dealt[<<S(run), D(run)>>][M(run)] = fs[At(run)] BY <1>9, <1>12
  <2> QED BY <1>12, <2>1
<1>14. ASSUME NEW run \in Runs, NEW o \in Runs, At(run) = At(o) PROVE run = o
  <2> DEFINE s == S(run) t == S(o) d == D(run) e == D(o) m == M(run) q == M(o)
  <2>1. /\ s \in 0..(k - 1) /\ t \in 0..(k - 1) /\ d \in Dev /\ e \in Dev /\ m \in Nat \ {0} /\ q \in Nat \ {0}
        /\ m \in DOMAIN dealt[<<s, d>>] /\ q \in DOMAIN dealt[<<t, e>>]
    <3> HIDE DEF Runs
    <3> QED BY <1>12
  <2>2. spot(s, d, m) = spot(t, e, q) BY <1>14
  <2>3. s = t /\ d = e /\ m = q
    <3> HIDE DEF s, t, d, e, m, q
    <3> QED BY <1>11, <2>1, <2>2
  <2> QED BY <1>12, <2>3
<1>15. ASSUME NEW i \in Named PROVE \E run \in Runs : At(run) = i
  <2>1. PICK s \in 0..(k - 1), d \in Dev, m \in Nat \ {0} : m \in DOMAIN dealt[<<s, d>>] /\ spot(s, d, m) = i BY <1>10
  <2>2. m \in DOMAIN fs /\ dealt[<<s, d>>][m] = f BY <1>9, <2>1
  <2> DEFINE run == <<<<s, d>>, m>>
  <2>3. run \in Runs BY <1>6, <2>1, <2>2
  <2>4. At(run) = i BY <2>1
  <2> QED BY <2>3, <2>4
<1>16. IsFiniteSet(Named)
  <2>1. IsFiniteSet(1..Len(fs)) BY <1>2, FS_Interval
  <2> QED BY <1>2, <2>1, FS_Subset
<1> HIDE DEF Runs, Named, At
<1> DEFINE runOf == [i \in Named |-> CHOOSE run \in Runs : At(run) = i]
<1>17. \A i \in Named : runOf[i] \in Runs /\ At(runOf[i]) = i BY <1>15
<1>18. runOf \in Bijection(Named, Runs)
  <2>1. runOf \in [Named -> Runs] BY <1>17
  <2> HIDE DEF runOf
  <2>2. \A i, j \in Named : runOf[i] = runOf[j] => i = j BY <1>17
  <2>3. \A run \in Runs : At(run) \in Named /\ runOf[At(run)] = run BY <1>13, <1>14, <1>17
  <2> QED BY <2>1, <2>2, <2>3 DEF Bijection, Injection, IsInjective, Surjection
<1>19. ExistsBijection(Named, Runs) BY <1>18 DEF ExistsBijection
<1>20. Cardinality(Runs) = Cardinality(Named) BY <1>16, <1>19, FS_Bijection
<1> QED BY <1>20 DEF Runs, Named

(* filterTests keeps what is selected, once, when no test has two of the     *)
(* selected tags.                                                            *)
LEMMA ChosenIs ==
  ASSUME NEW f \in DOMAIN Content, \A i \in DOMAIN Content[f].tests : Content[f].tests[i].picks =< 1
  PROVE  Chosen(f) = Selected(f)
<1> DEFINE tests == Content[f].tests
           once(i) == IF tests[i].picks = 0 THEN <<>> ELSE <<Entry(f, i)>>
           kept(i) == [k \in 1..tests[i].picks |-> Entry(f, i)]
<1>1. tests \in Seq(TestKind)
  <2>1. Content[f] \in FileKind BY PlanAssumption
  <2> QED BY <2>1 DEF FileKind
<1>2. ASSUME NEW i \in DOMAIN tests PROVE once(i) = kept(i)
  <2>1. tests[i].picks \in {0, 1}
    <3>1. tests[i] \in TestKind BY <1>1
    <3> QED BY <3>1 DEF TestKind
  <2> QED BY <2>1
<1>3. [i \in DOMAIN tests |-> once(i)] = [i \in DOMAIN tests |-> kept(i)]
  <2> HIDE DEF once, kept, tests
  <2> QED BY <1>2
<1> QED BY <1>3 DEF Chosen, Selected

LEMMA OnceIs ==
  ASSUME plan \in Plans, OneTagEach(plan), NEW d \in Device, NEW n \in 0..Len(Files(d))
  PROVE  OnceUpTo(d, n) = KeysUpTo(d, n)
<1> DEFINE named == {plan.files[i] : i \in DOMAIN plan.files}
<1>1. plan.files \in Seq(DOMAIN Content) /\ plan.devices \in Nat \ {0} BY PlanAssumption
<1>2. plan.files \in Seq(named) /\ d \in 1..plan.devices BY <1>1 DEF Device
<1>3. named \subseteq DOMAIN Content /\ \A f \in named : \A i \in DOMAIN Content[f].tests : Content[f].tests[i].picks =< 1
  BY <1>1 DEF OneTagEach
<1> HIDE DEF named
<1>4. Shard(plan) \in Seq(named) BY <1>2, ShardIs
<1>5. Deal(Shard(plan), plan.devices, d) \in Seq(named) BY <1>1, <1>2, <1>4, DealIs
<1>6. Files(d) \in Seq(named) BY <1>5 DEF Files
<1>7. ASSUME NEW i \in 1..n PROVE Chosen(Files(d)[i]) = Selected(Files(d)[i])
  <2>1. Files(d)[i] \in named
    <3> HIDE DEF Files
    <3> QED BY <1>6
  <2> QED BY <2>1, <1>3, ChosenIs
<1>8. [i \in 1..n |-> KeysOf(Files(d)[i], Chosen(Files(d)[i]), i \in broken[d])]
        = [i \in 1..n |-> KeysOf(Files(d)[i], Selected(Files(d)[i]), i \in broken[d])]
  BY <1>7
<1> QED BY <1>8 DEF OnceUpTo, KeysUpTo

(* Run, runFile, runOnDevice: when no test has two of the selected tags,     *)
(* nothing is left out of the report of a run or told twice, and a run on    *)
(* one device streams what it reports, whatever fails, is tried again or is  *)
(* interrupted.                                                              *)
THEOREM ReportHolds == (\A p \in Plans : OneTagEach(p)) => (Spec => []ReportedOnce)
<1> SUFFICES ASSUME \A p \in Plans : OneTagEach(p) PROVE Spec => []ReportedOnce
  OBVIOUS
<1>1. ReportInv => AllAccounted
  <2> SUFFICES ASSUME ReportInv PROVE AllAccounted OBVIOUS
  <2>1. plan \in Plans BY DEF ReportInv
  <2>2. EveryFileOnce BY <2>1, OnceOnly
  <2>3. ASSUME NEW d \in Device
        PROVE  /\ Keys(acc[d]) = OnceUpTo(d, at[d].f - 1)
               /\ pc[d] = "done" => res[d].results = acc[d] /\ (~res[d].error => at[d].f = Len(Files(d)) + 1)
    <3>1. DevInv(d) BY DEF ReportInv
    <3>2. Keys(acc[d]) = KeysUpTo(d, at[d].f - 1) BY <3>1 DEF DevInv, Account
    <3>3. pc[d] = "done" => res[d].results = acc[d] /\ res[d].error = err[d] BY <3>1 DEF DevInv, Account
    <3>4. pc[d] = "done" /\ ~err[d] => at[d].f = Len(Files(d)) + 1 BY <3>1 DEF DevInv, Place, Ended
    <3>5. at[d].f - 1 \in 0..Len(Files(d)) BY <2>1, <3>1, FilesIs DEF DevInv, Place
    <3>6. OnceUpTo(d, at[d].f - 1) = KeysUpTo(d, at[d].f - 1) BY <2>1, <3>5, OnceIs
    <3> QED BY <3>2, <3>3, <3>4, <3>6
  <2> QED BY <2>2, <2>3 DEF AllAccounted
<1>2. Spec => []AllAccounted BY <1>1, Reports, PTL
<1> QED BY <1>2, Streams, PTL DEF ReportedOnce
=============================================================================
