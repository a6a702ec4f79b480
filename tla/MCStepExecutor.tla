--------------------------- MODULE MCStepExecutor ---------------------------
(* Runs for the executor: each test lists the acts a passing body has done   *)
(* (want), how often each is done at most without a lost connection (times)  *)
(* and the answers its mocks give.                                           *)
EXTENDS StepExecutor

Act(a)        == [op |-> "act", id |-> a, opt |-> FALSE]
Optional(a)   == [op |-> "act", id |-> a, opt |-> TRUE]
Mock(p, x)    == [op |-> "mock", pat |-> p, ans |-> x]
If(t, e)      == [op |-> "if", about |-> "visible", then |-> t, else |-> e]
IfSent(t, e)  == [op |-> "if", about |-> "response", then |-> t, else |-> e]
Call(b)       == [op |-> "call", body |-> b]
Repeat(n, b)  == [op |-> "loop", n |-> n, body |-> b]
Try(n, b)     == [op |-> "retry", n |-> n, body |-> b]
Do(op)        == [op |-> op]

Once == [a |-> 1, b |-> 1, c |-> 1, z |-> 1]

(* Two mocks of one pattern, a recipe that acts around a restart. *)
Mocking ==
  [body |-> <<Mock("p", "x"), Mock("p", "y"), Call(<<Act("a"), Do("restart"), Act("b")>>)>>,
   after |-> <<>>, want |-> {<<"a", "b">>}, times |-> Once, answers |-> {"x", "y"}]

(* Kill and open, clear data, a permission, a failing hook after the test. *)
Lifecycles ==
  [body |-> <<Mock("p", "x"), Act("a"), Do("kill"), Do("open"), Act("b"), Do("clear"), Do("permit"), Act("c")>>,
   after |-> <<Act("z")>>, want |-> {<<"a", "b", "c">>}, times |-> Once, answers |-> {"x"}]

(* Kill and go on without opening the app again. *)
Killed ==
  [body |-> <<Mock("p", "x"), Call(<<Act("a"), Do("kill"), Call(<<Act("b"), Act("c")>>)>>)>>,
   after |-> <<>>, want |-> {<<"a", "b", "c">>}, times |-> Once, answers |-> {"x"}]

(* Blocks: a branch, a loop, a retry with an optional act in it. *)
Blocks ==
  [body |-> <<IfSent(<<If(<<Act("a")>>, <<Act("b")>>)>>, <<Act("a")>>), Repeat(2, <<Act("c")>>), Try(2, <<Optional("d"), Act("e")>>), Try(0, <<Act("f")>>)>>,
   after |-> <<>>, want |-> {<<x, "c", "c", "e", "f">> : x \in {"a", "b"}},
   times |-> [a |-> 1, b |-> 1, c |-> 2, d |-> 2, e |-> 2, f |-> 1], answers |-> {}]

Plain ==
  [body |-> <<Act("a")>>, after |-> <<>>, want |-> {<<"a">>}, times |-> Once, answers |-> {}]

AllPlans   == {<<Mocking>>, <<Lifecycles>>, <<Killed>>, <<Blocks>>, <<Plain, Plain>>}
TwoTests   == {<<Mocking, Plain>>}
OneAct     == {<<Plain>>}
OneBranch  == {<<Blocks>>}

(* The steps of all those tests, those in blocks of at most four levels too. *)
Entries(q) == {q[i] : i \in DOMAIN q}
Inner(s) ==
  CASE s.op = "if" -> Entries(s.then) \cup Entries(s.else)
    [] s.op \in {"call", "loop", "retry"} -> Entries(s.body)
    [] OTHER -> {}
Written == UNION {Entries(t.body) \cup Entries(t.after) : t \in UNION {Entries(p) : p \in AllPlans}}
AllSteps ==
  LET upTo[n \in 0..4] == IF n = 0 THEN Written ELSE upTo[n - 1] \cup UNION {Inner(s) : s \in upTo[n - 1]}
  IN  upTo[4]

(* What these scripts ask for, computed: the bodies that may be ahead, the    *)
(* words a passing run of one has done, and how often it does an act at most. *)
Rests(b) == {SubSeq(b, i, Len(b)) : i \in 1..(Len(b) + 1)}
Ahead ==
  UNION {Rests(t.body) \cup Rests(t.after) : t \in UNION {Entries(p) : p \in AllPlans}}
  \cup UNION {UNION {Rests(b) : b \in Bodies(s)} : s \in AllSteps}

Ways ==
  LET ways[b \in Ahead] ==
        LET again[n \in Nat] == IF n = 0 THEN {<<>>} ELSE Then(ways[Head(b).body], again[n - 1])
            asked == IF Head(b).op = "loop" THEN again[Head(b).n] ELSE Asks(Head(b), [ways |-> ways])
        IN  IF b = <<>> THEN {<<>>} ELSE Then(asked, ways[Tail(b)])
  IN  ways
Rounds ==
  LET Loops == {s \in AllSteps : s.op = "loop"}
      rounds[c \in UNION {{s.body} \X (0..s.n) : s \in Loops}] ==
        IF c[2] = 0 THEN {<<>>} ELSE Then(Ways[c[1]], rounds[c[1], c[2] - 1])
  IN  rounds
Costs ==
  LET cost[b \in Ahead] ==
        [a \in Ids |-> IF b = <<>> THEN 0 ELSE Price(Head(b), a, [cost |-> cost]) + cost[Tail(b)][a]]
  IN  cost

ASSUME ScriptAssumption == Scripted([ways |-> Ways, rounds |-> Rounds, cost |-> Costs])
=============================================================================
