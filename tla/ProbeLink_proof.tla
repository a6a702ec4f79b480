--------------------------- MODULE ProbeLink_proof ---------------------------
(***************************************************************************)
(* Proofs about the two sides of ProbeLink on the host.                    *)
(*                                                                         *)
(* ProbeLinkClient, for any set of callers: its types, the absence of a    *)
(* blocked send, and that it implements RpcPromise.                        *)
(*                                                                         *)
(* AgentSession, for any timeouts and any number of recoveries and faults: *)
(* its types, with what a session and a recovery that succeeded are, the   *)
(* bound on the time a recovery takes, and, if the timeouts suffice for    *)
(* the faults, that a recovery fails only for a cause.                     *)
(***************************************************************************)
EXTENDS ProbeLinkClient, AgentSession, TLAPS

(* A caller is in one place at a time: in the map, with the reader, or with
   its outcome in the channel; and only after it has registered. *)
RoomInv ==
  /\ \A c \in pending : ch[c] = "empty" /\ pc[c] # "start"
  /\ \A c \in Caller : reader = c => ch[c] = "empty" /\ c \notin pending /\ pc[c] # "start"
  /\ \A c \in Caller : pc[c] = "start" => ch[c] = "empty"

(* A response exists for calls only that were carried out, a call is written
   once and has no result before it returns. *)
AnswerInv ==
  /\ replies \subseteq carriedOut
  /\ \A c \in Caller : reader = c \/ ch[c] = "response" => c \in carriedOut
  /\ \A c \in Caller : result[c] = "answered" => c \in carriedOut
  /\ requests \cap carriedOut = {}
  /\ \A c \in requests \cup carriedOut : pc[c] \in {"waiting", "expired", "returned"}
  /\ \A c \in Caller : result[c] # "none" => pc[c] = "returned"

IInv == TypeOK /\ RoomInv /\ AnswerInv

(* The actions of one caller, of the reader and of the environment. *)
CallerStep(c) == Call(c) \/ AgentHandles(c) \/ Expire(c)
ReaderStep(c) == ReadMessage(c) \/ Deliver(c) \/ Drain(c)
OtherStep     == ReadError \/ Drained \/ LockToDrain \/ CloseFlag \/ CloseConn
                   \/ LinkFails \/ StuckLinkFails

(* Initially nobody has called. *)
LEMMA InitHolds == Init => IInv
  <1> SUFFICES ASSUME Init PROVE IInv
    OBVIOUS
  <1>1. TypeOK
    BY CallerAssumption DEF Init, TypeOK
  <1>2. RoomInv
    BY CallerAssumption DEF Init, RoomInv
  <1>3. AnswerInv
    BY CallerAssumption DEF Init, AnswerInv
  <1> QED
    BY <1>1, <1>2, <1>3 DEF IInv

(* Every step of a caller, and of the agent on its behalf, keeps the invariant. *)
LEMMA CallerKeeps ==
  ASSUME NEW c \in Caller, IInv, CallerStep(c) PROVE IInv'
  <1> USE CallerAssumption DEF IInv, TypeOK, RoomInv, AnswerInv, net, connClosed, Goto, Return
  <1>1. CASE Register(c)
    BY <1>1 DEF Register
  <1>2. CASE LockToWrite(c)
    BY <1>2 DEF LockToWrite
  <1>3. CASE Write(c)
    BY <1>3 DEF Write, AfterWrite
  <1>4. CASE Receive(c)
    BY <1>4 DEF Receive
  <1>5. CASE GiveUp(c)
    BY <1>5 DEF GiveUp
  <1>6. CASE Unregister(c)
    BY <1>6 DEF Unregister
  <1>7. CASE AgentHandles(c)
    BY <1>7 DEF AgentHandles
  <1>8. CASE Expire(c)
    BY <1>8 DEF Expire
  <1> QED
    BY <1>1, <1>2, <1>3, <1>4, <1>5, <1>6, <1>7, <1>8 DEF CallerStep, Call

(* So does every step of readLoop about one caller. *)
LEMMA ReaderKeeps ==
  ASSUME NEW c \in Caller, IInv, ReaderStep(c) PROVE IInv'
  <1> USE CallerAssumption DEF IInv, TypeOK, RoomInv, AnswerInv, net, connClosed
  <1>1. CASE ReadMessage(c)
    <2>1. CASE c \in pending
      <3>1. /\ reader = "reading" /\ mu = "free" /\ c \in replies
            /\ pending' = pending \ {c} /\ reader' = c /\ replies' = replies \ {c}
            /\ UNCHANGED <<pc, result, expired, mu, ch, closed, closer, link, requests, carriedOut>>
        BY ONLY <1>1, <2>1 DEF ReadMessage, TakeFromMap, Recipient
      <3>2. TypeOK'
        BY <3>1
      <3>3. RoomInv'
        BY <2>1, <3>1
      <3>4. AnswerInv'
        BY <3>1
      <3> QED
        BY <3>2, <3>3, <3>4
    <2>2. CASE c \notin pending
      <3>1. /\ replies' = replies \ {c}
            /\ UNCHANGED <<pc, result, expired, mu, pending, ch, closed, closer, reader, link,
                           requests, carriedOut>>
        BY ONLY <1>1, <2>2 DEF ReadMessage
      <3>2. TypeOK'
        BY <3>1
      <3>3. RoomInv'
        BY <3>1
      <3>4. AnswerInv'
        BY <3>1
      <3> QED
        BY <3>2, <3>3, <3>4
    <2> QED
      BY <2>1, <2>2
  <1>2. CASE Deliver(c)
    BY <1>2 DEF Deliver
  <1>3. CASE Drain(c)
    BY <1>3 DEF Drain
  <1> QED
    BY <1>1, <1>2, <1>3 DEF ReaderStep

(* And every other step. *)
LEMMA OtherKeeps ==
  ASSUME IInv, OtherStep PROVE IInv'
  <1> USE CallerAssumption DEF IInv, TypeOK, RoomInv, AnswerInv, net, connClosed
  <1>1. CASE ReadError
    BY <1>1 DEF ReadError
  <1>2. CASE Drained
    BY <1>2 DEF Drained
  <1>3. CASE LockToDrain
    BY <1>3 DEF LockToDrain
  <1>4. CASE CloseFlag
    BY <1>4 DEF CloseFlag
  <1>5. CASE CloseConn
    BY <1>5 DEF CloseConn
  <1>6. CASE LinkFails \/ StuckLinkFails
    BY <1>6 DEF LinkFails, StuckLinkFails
  <1> QED
    BY <1>1, <1>2, <1>3, <1>4, <1>5, <1>6 DEF OtherStep

(* The actions above are all there are. *)
LEMMA NextSplits ==
  ASSUME Next
  PROVE (\E c \in Caller : CallerStep(c) \/ ReaderStep(c)) \/ OtherStep
  BY DEF Next, ReadLoop, CallerStep, ReaderStep, OtherStep

(* IInv is inductive. *)
LEMMA StepKeeps == IInv /\ [Next]_vars => IInv'
  <1> SUFFICES ASSUME IInv, [Next]_vars PROVE IInv'
    OBVIOUS
  <1>1. CASE Next
    <2>1. CASE \E c \in Caller : CallerStep(c) \/ ReaderStep(c)
      BY <2>1, CallerKeeps, ReaderKeeps
    <2>2. CASE OtherStep
      BY <2>2, OtherKeeps
    <2> QED
      BY <1>1, <2>1, <2>2, NextSplits
  <1>2. CASE UNCHANGED vars
    BY <1>2 DEF IInv, TypeOK, RoomInv, AnswerInv, vars, connClosed
  <1> QED
    BY <1>1, <1>2

(* The invariant holds in every state of the client. *)
THEOREM Invariance == Spec => []IInv
  BY InitHolds, StepKeeps, PTL DEF Spec

(* Types, and the mutex is held by a caller in its write or by the drain. *)
THEOREM TypeCorrect == Spec => []TypeOK
  <1>1. IInv => TypeOK
    BY DEF IInv
  <1> QED
    BY <1>1, Invariance, PTL

(* readLoop never blocks on a channel, however many calls are under way. *)
THEOREM NoBlockedSend == Spec => []RoomInChannel
  <1>1. IInv => RoomInChannel
    BY DEF IInv, RoomInv, RoomInChannel
  <1> QED
    BY <1>1, Invariance, PTL

(* Each call keeps the promise: one outcome, carried out at most once, and
   answered only when carried out.  The initial states map to initial states,
   a write, a reply or a loss to a stutter. *)
LEMMA PromiseInit == Init => Promise!Init
  BY DEF Init, Promise!Init, Outcome

(* A step that neither carries out nor returns changes nothing of the promise. *)
LEMMA Stutter ==
  ASSUME UNCHANGED <<carriedOut, result>>
  PROVE  UNCHANGED <<carriedOut, Outcome>>
  BY DEF Outcome

LEMMA ReturnConcludes ==
  ASSUME IInv, NEW c \in Caller, NEW e \in {"answered", "write", "closed", "deadline"},
         Return(c, e), pc[c] # "returned", UNCHANGED carriedOut,
         e = "answered" => c \in carriedOut
  PROVE  Promise!Next
  <1> DEFINE o == IF e = "answered" THEN "answered" ELSE "failed"
  <1>1. result[c] = "none"
    BY DEF IInv, TypeOK, AnswerInv
  <1>2. Outcome[c] = "none"
    BY <1>1 DEF Outcome
  <1>3. result' = [result EXCEPT ![c] = e] /\ result \in [Caller -> {"none", "answered", "write", "closed", "deadline"}]
    BY DEF Return, IInv, TypeOK
  <1>4. Outcome' = [Outcome EXCEPT ![c] = o]
    BY <1>3 DEF Outcome
  <1>5. Promise!Conclude(c, o)
    BY <1>2, <1>4 DEF Promise!Conclude
  <1> QED
    BY <1>5 DEF Promise!Next

LEMMA PromiseStep == IInv /\ [Next]_vars => [Promise!Next]_<<carriedOut, Outcome>>
  <1> SUFFICES ASSUME IInv, [Next]_vars
               PROVE  Promise!Next \/ UNCHANGED <<carriedOut, Outcome>>
    OBVIOUS
  <1>1. ASSUME NEW c \in Caller, CallerStep(c)
        PROVE  Promise!Next \/ UNCHANGED <<carriedOut, Outcome>>
    <2>1. CASE Register(c) \/ LockToWrite(c) \/ GiveUp(c) \/ Expire(c)
      BY <2>1, Stutter DEF Register, LockToWrite, GiveUp, Expire, net
    <2>2. CASE Write(c)
      <3>1. CASE Return(c, "write")
        <4>1. pc[c] # "returned" /\ UNCHANGED carriedOut
          BY <2>2 DEF Write
        <4> QED
          BY <3>1, <4>1, ReturnConcludes
      <3>2. CASE UNCHANGED result
        BY <2>2, <3>2, Stutter DEF Write
      <3> QED
        BY <2>2, <3>1, <3>2 DEF Write
    <2>3. CASE Receive(c)
      <3>1. pc[c] # "returned" /\ UNCHANGED carriedOut
        BY <2>3 DEF Receive, net
      <3>2. CASE ch[c] = "response"
        <4>1. c \in carriedOut /\ Return(c, "answered")
          BY <2>3, <3>2 DEF IInv, AnswerInv, Receive
        <4> QED
          BY <3>1, <4>1, ReturnConcludes
      <3>3. CASE ch[c] # "response"
        <4>1. Return(c, "closed")
          BY <2>3, <3>3 DEF Receive
        <4> QED
          BY <3>1, <4>1, ReturnConcludes
      <3> QED
        BY <3>2, <3>3
    <2>4. CASE Unregister(c)
      <3>1. pc[c] # "returned" /\ UNCHANGED carriedOut /\ Return(c, "deadline")
        BY <2>4 DEF Unregister, net
      <3> QED
        BY <3>1, ReturnConcludes
    <2>5. CASE AgentHandles(c)
      <3>1. Outcome' = Outcome
        BY <2>5 DEF AgentHandles, Outcome
      <3>2. Promise!CarryOut(c)
        BY <2>5, <3>1 DEF AgentHandles, IInv, AnswerInv, Promise!CarryOut
      <3> QED
        BY <3>2 DEF Promise!Next
    <2> QED
      BY <1>1, <2>1, <2>2, <2>3, <2>4, <2>5 DEF CallerStep, Call
  <1>2. ASSUME NEW c \in Caller, ReaderStep(c)
        PROVE  UNCHANGED <<carriedOut, Outcome>>
    BY <1>2, Stutter DEF ReaderStep, ReadMessage, Deliver, Drain, net
  <1>3. CASE OtherStep
    BY <1>3, Stutter DEF OtherStep, ReadError, Drained, LockToDrain, CloseFlag, CloseConn,
         LinkFails, StuckLinkFails, net
  <1>4. CASE UNCHANGED vars
    BY <1>4, Stutter DEF vars
  <1> QED
    BY <1>1, <1>2, <1>3, <1>4, NextSplits

(* The client implements the promise. *)
THEOREM KeepsPromise == Spec => ImplementsPromise
  BY Invariance, PromiseInit, PromiseStep, PTL DEF Spec, ImplementsPromise, Promise!Spec

-----------------------------------------------------------------------------
(* AgentSession *)

Timers == {"step", "wait", "read", "dial", "rej", "hook", "tick", "boot"}

(* Tokens, places and timers; an operation began with a process there was. *)
Typed ==
  /\ os \in {"android", "ios"} /\ place \in {"none", "ours", "foreign"}
  /\ app \in {"gone", "booting", "bound", "serving"} /\ asleep \in BOOLEAN
  /\ gen \in Nat \ {0} /\ faults \in 0..MaxFaults /\ calls \in 0..MaxCalls
  /\ tok \in Token /\ next \in Token /\ hand \in Token
  /\ cache \in Token /\ shared \in Token /\ log \in Token
  /\ fwd \in BOOLEAN /\ pre \in BOOLEAN /\ again \in BOOLEAN
  /\ conn \in {"up", "down"}
  /\ op \in {"none", "restart", "relaunch", "clear", "auto"}
  /\ at \in {"idle", "wait", "stop", "launch", "forget", "settle", "read", "dial", "refresh", "shake"}
  /\ out \in {"none", "ok", "failed"}
  /\ t \in [Timers -> Int]
  /\ from \in Nat /\ from <= gen

(* A connection is one with the process that runs, under its token; while    *)
(* the CLI looks for the agent it has none.                                  *)
Connected ==
  /\ conn = "up" => app = "serving" /\ ~asleep /\ hand = tok
  /\ at \notin {"idle", "shake"} => conn = "down"

(* The app was stopped and started, or could not be stopped. *)
Renewed == gen > from \/ "terminate" \in cause

Restarted ==
  /\ at # "idle" => out = "none"
  /\ at = "wait" => op = "auto"
  /\ pre => op = "restart"
  /\ op # "auto" /\ out = "ok" => Renewed
  /\ op # "auto" /\ at \in {"forget", "settle", "read", "dial", "refresh", "shake"} => Renewed
  /\ op # "auto" /\ at = "launch" => app = "gone" \/ Renewed

(* Every sleep that begins before the timeout ends in time, but for the one  *)
(* before the dial.                                                          *)
OnTime(p, x, preset) ==
  /\ p = "idle" => x.step >= 0 /\ x.wait = 0
  /\ p # "idle" => x.wait >= 0 /\ x.step - x.wait >= -ReconnectDelay
  /\ p \in {"wait", "stop", "launch", "read"} => x.wait <= 1
  /\ p \in {"dial", "refresh"} /\ ~preset => x.wait <= 1
  /\ p = "forget" => x.step - x.wait >= 0

Timely == OnTime(at, t, pre)

SessionInv == Typed /\ Connected /\ Restarted /\ Timely

-----------------------------------------------------------------------------
LEMMA TimerNames ==
  /\ "step" \in Timers /\ "wait" \in Timers /\ "read" \in Timers /\ "dial" \in Timers
  /\ "rej" \in Timers /\ "hook" \in Timers /\ "tick" \in Timers /\ "boot" \in Timers
  BY DEF Timers

LEMMA SessionInitHolds ==
  ASSUME SessionInit
  PROVE  SessionInv
<1>1. Own(1) \in Token /\ NoToken \in Token /\ Stray \in Token
  BY DEF SessionInit, Token
<1>2. t \in [Timers -> Int] /\ t.step = 0 /\ t.wait = 0
  BY TimeAssumption DEF SessionInit, NoTimers, Timers, Times, Off
<1>3. tok \in Token /\ next \in Token /\ hand \in Token /\ cache \in Token /\ log \in Token
  BY <1>1 DEF SessionInit
<1>4. shared \in Token
  BY <1>1 DEF SessionInit
<1>5. Typed
  <2>1. os \in {"android", "ios"} /\ place \in {"none", "ours", "foreign"} /\ app = "serving" /\ asleep = FALSE
    BY DEF SessionInit
  <2>2. gen = 1 /\ from = 1 /\ faults = 0 /\ calls = 0 /\ fwd = TRUE /\ pre = FALSE /\ again = FALSE
        /\ conn = "up" /\ op = "none" /\ at = "idle" /\ out = "none"
    BY DEF SessionInit
  <2>3. asleep \in BOOLEAN /\ fwd \in BOOLEAN /\ pre \in BOOLEAN /\ again \in BOOLEAN
    BY <2>1, <2>2
  <2>4. gen \in Nat \ {0} /\ from \in Nat /\ from <= gen /\ faults \in 0..MaxFaults /\ calls \in 0..MaxCalls
    BY <2>2, BoundAssumption
  <2>5. QED BY <1>2, <1>3, <1>4, <2>1, <2>2, <2>3, <2>4 DEF Typed
<1>6. QED BY <1>2, <1>5, TimeAssumption DEF SessionInit, SessionInv, Connected, Restarted, Timely, OnTime, Times

LEMMA PassKeeps ==
  ASSUME SessionInv, Pass
  PROVE  SessionInv'
<1>1. UNCHANGED <<os, place, agent, files, fwd, cli, cause, faults>>
  BY DEF Pass
<1>2. t \in [Timers -> Int] /\ DOMAIN t = Timers
  BY DEF SessionInv, Typed
<1>3. t' \in [Timers -> Int]
  BY <1>2 DEF Pass
<1>4. t'.wait = IF t.wait > 0 THEN t.wait - 1 ELSE t.wait
  BY <1>2 DEF Pass, Timers
<1>5. t'.step = IF t.step > 0 \/ at # "idle" THEN t.step - 1 ELSE t.step
  BY <1>2 DEF Pass, Timers
<1>6. at = "idle" \/ t.wait > 0 \/ t.step > 0
  BY <1>2 DEF Pass, Dialling, DialOver, Expired, Timers
<1>7. QED
  BY <1>1, <1>2, <1>3, <1>4, <1>5, <1>6, TimeAssumption DEF SessionInv, Typed, Connected, Restarted, Renewed, Timely, OnTime, agent, files, cli, Token, Timers, Times

(* Tokens stay tokens as processes and calls are counted. *)
LEMMA TokensStay ==
  ASSUME gen \in Nat, calls \in Nat, gen' \in Nat, calls' \in Nat, gen <= gen', calls <= calls'
  PROVE  \A x \in Token : x \in Token'
  BY DEF Token

LEMMA FaultyTyped ==
  ASSUME SessionInv, NEW bad, Faulty(bad)
  PROVE  faults' \in 0..MaxFaults /\ (bad => faults < MaxFaults)
<1>1. faults \in 0..MaxFaults /\ MaxFaults \in Nat
  BY BoundAssumption DEF SessionInv, Typed
<1>2. QED BY <1>1 DEF Faulty

LEMMA AnnounceTyped ==
  ASSUME SessionInv, Announce
  PROVE  faults' \in 0..MaxFaults /\ cache' \in Token /\ shared' \in Token /\ log' \in Token
<1>1. PICK fails \in {"none", "cache", "shared"} :
        /\ Faulty(fails # "none")
        /\ cache' \in IF fails = "cache" THEN {cache, NoToken} ELSE {tok}
        /\ shared' \in CASE place # "ours" \/ fails = "cache" -> {shared}
                         [] fails = "shared"                   -> {shared, NoToken}
                         [] OTHER                              -> {tok}
  BY DEF Announce
<1>2. NoToken \in Token
  BY DEF Token
<1>3. faults' \in 0..MaxFaults
  BY <1>1, FaultyTyped
<1>4. log' \in Token
  BY DEF SessionInv, Typed, Announce
<1>5. shared' \in {shared, NoToken, tok}
  <2>1. CASE place # "ours" \/ fails = "cache"
    BY <1>1, <2>1
  <2>2. CASE ~(place # "ours" \/ fails = "cache") /\ fails = "shared"
    BY <1>1, <2>2
  <2>3. CASE ~(place # "ours" \/ fails = "cache") /\ fails # "shared"
    BY <1>1, <2>3
  <2>4. QED BY <2>1, <2>2, <2>3
<1>6. cache' \in {cache, NoToken, tok}
  BY <1>1
<1>7. QED BY <1>2, <1>3, <1>4, <1>5, <1>6 DEF SessionInv, Typed

LEMMA AgentKeeps ==
  ASSUME SessionInv, Start \/ Serve \/ Tick
  PROVE  SessionInv'
<1>1. UNCHANGED <<os, place, gen, fwd, cli>> /\ ("terminate" \in cause => "terminate" \in cause')
  <2>1. CASE Start
    <3>1. cause' = cause \/ cause' = cause \cup {"unread"}
      BY <2>1 DEF Start
    <3>2. QED BY <2>1, <3>1 DEF Start
  <2>2. CASE Serve \/ Tick
    BY <2>2 DEF Serve, Tick, agent
  <2>3. QED BY <2>1, <2>2
<1>0. faults' \in 0..MaxFaults
  BY FaultyTyped, AnnounceTyped DEF Start, Serve, Tick
<1>2. Token' = Token
  BY <1>1 DEF Token, cli
<1>3. t' \in [Timers -> Int] /\ t'.step = t.step /\ t'.wait = t.wait
  BY TimeAssumption DEF SessionInv, Typed, Timers, Times, Start, Serve, Tick
<1>4. tok' \in Token /\ next' \in Token /\ cache' \in Token /\ shared' \in Token /\ log' \in Token
  <2>1. Own(gen) \in Token /\ NoToken \in Token
    BY DEF SessionInv, Typed, Token
  <2>2. CASE Start
    BY <2>1, <2>2 DEF SessionInv, Typed, Start, files
  <2>3. CASE Serve \/ Tick
    BY <2>1, <2>3, AnnounceTyped DEF SessionInv, Typed, Serve, Tick, agent
  <2>4. QED BY <2>2, <2>3
<1>5. app' \in {"gone", "booting", "bound", "serving"} /\ asleep' = asleep /\ (app' = "gone" <=> app = "gone")
  BY DEF SessionInv, Typed, Start, Serve, Tick, agent
<1>6. Typed'
  BY <1>0, <1>1, <1>2, <1>3, <1>4, <1>5 DEF SessionInv, Typed, cli
<1>7. Connected'
  <2>1. app = "serving" => app' = "serving" /\ tok' = tok
    BY DEF Start, Serve, Tick, agent
  <2>2. QED BY <1>1, <1>5, <2>1 DEF SessionInv, Connected, cli
<1>8. Restarted' /\ Timely'
  BY <1>1, <1>3, <1>5 DEF SessionInv, Restarted, Renewed, Timely, OnTime, cli
<1>9. QED BY <1>6, <1>7, <1>8 DEF SessionInv

(* How an operation goes on: with timers, or to its end. *)
LEMMA GoesTo ==
  ASSUME SessionInv, NEW p, NEW timers \in [Timers -> Int], GoTo(p, timers)
  PROVE  at' = p /\ t' = timers /\ out' = out
  BY DEF GoTo

LEMMA EndsTyped ==
  ASSUME SessionInv, NEW how, Ends(how)
  PROVE  at' = "idle" /\ out' = how /\ t' \in [Timers -> Int] /\ t'.step = 0 /\ t'.wait = 0
<1>1. at' = "idle" /\ out' = how /\ t' = [NoTimers EXCEPT !.tick = t.tick, !.boot = t.boot]
  BY DEF Ends
<1>2. t.tick \in Int /\ t.boot \in Int /\ Off \in Int
  BY DEF SessionInv, Typed, Timers, Off
<1>3. NoTimers \in [Timers -> Int] /\ NoTimers.step = 0 /\ NoTimers.wait = 0
  BY <1>2 DEF NoTimers, Timers
<1>4. QED BY <1>1, <1>2, <1>3 DEF Timers

LEMMA CommandTyped ==
  ASSUME SessionInv, NEW ok, Command(ok)
  PROVE  faults' \in 0..MaxFaults /\ (ok => ~Expired)
<1>1. faults \in 0..MaxFaults /\ MaxFaults \in Nat
  BY BoundAssumption DEF SessionInv, Typed
<1>2. CASE Expired
  BY <1>1, <1>2 DEF Command
<1>3. CASE ~Expired /\ faults < MaxFaults
  <2>1. faults' = faults \/ faults' = faults + 1
    BY <1>3 DEF Command
  <2>2. QED BY <1>1, <1>3, <2>1
<1>4. CASE ~Expired /\ ~(faults < MaxFaults)
  <2>1. ok \in {TRUE}
    BY <1>4 DEF Command
  <2>2. faults' = faults
    BY <1>4, <2>1 DEF Command
  <2>3. QED BY <1>1, <1>4, <2>2
<1>5. QED BY <1>2, <1>3, <1>4

LEMMA BeginKeeps ==
  ASSUME SessionInv, NEW o \in {"restart", "relaunch", "clear", "auto"}, Begin(o)
  PROVE  SessionInv'
<1>1. /\ at = "idle" /\ calls < MaxCalls /\ op' = o /\ calls' = calls + 1
      /\ at' = IF o = "auto" THEN "wait" ELSE "stop"
      /\ conn' = "down" /\ again' = FALSE /\ out' = "none" /\ from' = gen
      /\ UNCHANGED <<os, place, app, asleep, gen, tok, files, fwd>>
      /\ t' = [t EXCEPT !.step = Budget(o), !.wait = IF o = "auto" THEN 1 ELSE 0]
  BY DEF Begin
<1>2. Typed /\ calls \in Nat /\ gen \in Nat /\ calls' \in 0..MaxCalls /\ gen' = gen
  BY <1>1, BoundAssumption DEF SessionInv, Typed
<1>3. \A x \in Token : x \in Token'
  BY <1>1, <1>2, TokensStay
<1>4. NoToken \in Token' /\ Shared(calls + 1) \in Token'
  BY <1>1, <1>2 DEF Token
<1>5. PICK answer \in {"ok", "unwritten", "lost", "unsent"} :
       /\ answer \in {"ok", "unwritten", "lost"} => o = "restart" /\ conn = "up"
       /\ Faulty(answer \in {"unwritten", "lost"})
       /\ pre' = (answer \in {"ok", "unwritten"})
       /\ hand' = IF answer \in {"ok", "unwritten"} THEN Shared(calls + 1) ELSE NoToken
       /\ next' \in CASE answer = "ok"        -> {Shared(calls + 1)}
                       [] answer = "unwritten" -> {next, NoToken}
                       [] answer = "lost"      -> {next, Shared(calls + 1)}
                       [] answer = "unsent"    -> {next}
  BY DEF Begin
<1>6. next' \in Token' /\ hand' \in Token'
  <2>1. next' \in {next, NoToken, Shared(calls + 1)}
    BY <1>5
  <2>2. QED BY <1>2, <1>3, <1>4, <1>5, <2>1 DEF Typed
<1>7. Budget(o) \in Nat \ {0} /\ ReconnectDelay \in Nat \ {0}
  BY TimeAssumption DEF Budget, Times
<1>8. t' \in [Timers -> Int] /\ t'.step = Budget(o) /\ t'.wait = (IF o = "auto" THEN 1 ELSE 0)
  <2> DEFINE w == IF o = "auto" THEN 1 ELSE 0
  <2>1. w \in Int /\ Budget(o) \in Int
    BY <1>7
  <2>2. t \in [Timers -> Int] /\ t' = [t EXCEPT !.step = Budget(o), !.wait = w]
    BY <1>1, <1>2 DEF Typed
  <2> HIDE DEF w
  <2>3. t' \in [Timers -> Int] /\ t'.step = Budget(o) /\ t'.wait = w
    BY <2>1, <2>2 DEF Timers
  <2>4. QED BY <2>3 DEF w
<1>9. faults' \in 0..MaxFaults
  BY <1>5, FaultyTyped
<1>10. pre' \in BOOLEAN /\ (pre' => o = "restart")
  <2>1. answer \in {"ok", "unwritten"} => o = "restart"
    BY <1>5
  <2>2. pre' = (answer \in {"ok", "unwritten"})
    BY <1>5
  <2> DEFINE q == answer \in {"ok", "unwritten"}
  <2>3. q \in BOOLEAN /\ pre' = q /\ (q => o = "restart")
    BY <2>1, <2>2
  <2> HIDE DEF q
  <2>4. QED BY <2>3
<1>11. Typed'
  <2>1. tok' \in Token' /\ cache' \in Token' /\ shared' \in Token' /\ log' \in Token'
    BY <1>1, <1>2, <1>3 DEF Typed, files
  <2>2. os' = os /\ place' = place /\ app' = app /\ asleep' = asleep /\ fwd' = fwd /\ again' = FALSE
        /\ from' = gen /\ op' = o /\ at' \in {"wait", "stop"} /\ conn' = "down" /\ out' = "none"
    BY <1>1
  <2>3. asleep' \in BOOLEAN /\ fwd' \in BOOLEAN /\ pre' \in BOOLEAN /\ again' \in BOOLEAN
    BY <1>2, <1>10, <2>2 DEF Typed
  <2>4. o \in {"none", "restart", "relaunch", "clear", "auto"}
    OBVIOUS
  <2>5. gen' \in Nat \ {0} /\ from' \in Nat /\ from' <= gen'
    BY <1>2, <2>2 DEF Typed
  <2>6. QED BY <1>2, <1>6, <1>8, <1>9, <2>1, <2>2, <2>3, <2>4, <2>5 DEF Typed
<1>12. Connected'
  BY <1>1 DEF Connected
<1>13. Restarted'
  BY <1>1, <1>10 DEF Restarted
<1>14. Timely'
  BY <1>1, <1>7, <1>8 DEF Timely, OnTime
<1>15. QED BY <1>11, <1>12, <1>13, <1>14 DEF SessionInv

-----------------------------------------------------------------------------
(* What the steps of a recovery have in common. *)
Moving ==
  /\ UNCHANGED <<os, place, tok, op, pre, from, calls>>
  /\ gen' \in {gen, gen + 1}
  /\ app' \in {"gone", "booting", "bound", "serving"} /\ asleep' \in BOOLEAN
  /\ next' \in Token /\ cache' \in Token /\ shared' \in Token /\ log' \in Token
  /\ hand' \in Token
  /\ fwd' \in BOOLEAN /\ again' \in BOOLEAN /\ faults' \in 0..MaxFaults
  /\ "terminate" \in cause => "terminate" \in cause'

LEMMA MovingTyped ==
  ASSUME SessionInv, Moving, conn' \in {"up", "down"}, out' \in {"none", "ok", "failed"},
         at' \in {"idle", "wait", "stop", "launch", "forget", "settle", "read", "dial", "refresh", "shake"},
         t' \in [Timers -> Int]
  PROVE  Typed' /\ (Renewed => Renewed')
<1>1. Typed /\ gen \in Nat /\ calls \in Nat /\ gen' \in Nat \ {0} /\ gen <= gen' /\ calls' = calls
  BY BoundAssumption DEF SessionInv, Typed, Moving
<1>2. \A x \in Token : x \in Token'
  BY <1>1, TokensStay
<1>3. tok' \in Token' /\ next' \in Token' /\ hand' \in Token' /\ cache' \in Token' /\ shared' \in Token' /\ log' \in Token'
  BY <1>1, <1>2 DEF Typed, Moving
<1>4. from' \in Nat /\ from' <= gen' /\ from' = from
  BY <1>1 DEF Typed, Moving
<1>5. asleep' \in BOOLEAN /\ fwd' \in BOOLEAN /\ pre' \in BOOLEAN /\ again' \in BOOLEAN
  BY <1>1 DEF Typed, Moving
<1>6. Renewed => Renewed'
  BY <1>1, <1>4 DEF Renewed, Moving, Typed
<1>7. Typed'
  BY <1>1, <1>3, <1>4, <1>5 DEF Typed, Moving
<1>8. QED BY <1>6, <1>7

Looking == {"wait", "stop", "launch", "forget", "settle", "read", "dial", "refresh"}

(* A recovery goes on to look for the agent ... *)
LEMMA MovesOn ==
  ASSUME SessionInv, Moving, at \in Looking, UNCHANGED conn,
         NEW p \in Looking, NEW timers \in [Timers -> Int], GoTo(p, timers),
         p = "wait" => op = "auto",
         op # "auto" /\ p \in {"forget", "settle", "read", "dial", "refresh"} => Renewed \/ Renewed',
         op # "auto" /\ p = "launch" => app' = "gone" \/ Renewed \/ Renewed',
         OnTime(p, timers, pre)
  PROVE  SessionInv'
<1>1. at' = p /\ t' = timers /\ out' = out
  BY DEF GoTo
<1>2. conn' = "down" /\ out = "none"
  BY DEF SessionInv, Connected, Restarted, Looking
<1>3. Typed' /\ (Renewed => Renewed')
  BY <1>1, <1>2, MovingTyped DEF Looking
<1>4. op' = op /\ pre' = pre
  BY DEF Moving
<1>5. Connected'
  BY <1>2 DEF Connected
<1>6. Restarted'
  BY <1>1, <1>2, <1>3, <1>4 DEF SessionInv, Restarted, Looking
<1>7. Timely'
  BY <1>1, <1>4 DEF Timely
<1>8. QED BY <1>3, <1>5, <1>6, <1>7 DEF SessionInv

(* ... or fails. *)
LEMMA Fails ==
  ASSUME SessionInv, Moving, at \in Looking, UNCHANGED conn, Ends("failed")
  PROVE  SessionInv'
<1>1. at' = "idle" /\ out' = "failed" /\ t' \in [Timers -> Int] /\ t'.step = 0 /\ t'.wait = 0
  BY EndsTyped
<1>2. conn' = "down"
  BY DEF SessionInv, Connected, Looking
<1>3. Typed'
  BY <1>1, <1>2, MovingTyped
<1>4. Connected' /\ Restarted'
  BY <1>1, <1>2 DEF SessionInv, Connected, Restarted, Moving
<1>5. Timely'
  BY <1>1 DEF Timely, OnTime
<1>6. QED BY <1>3, <1>4, <1>5 DEF SessionInv

LEMMA TimersTyped ==
  ASSUME SessionInv
  PROVE  /\ t \in [Timers -> Int] /\ t.step \in Int /\ t.wait \in Int /\ t.read \in Int /\ OnTime(at, t, pre)
         /\ ReconnectDelay \in Nat \ {0} /\ DialTime \in Nat /\ TokenTime \in Nat
         /\ RefreshTime \in Nat /\ RejectWindow \in Nat /\ HookTime \in Nat
  BY TimeAssumption DEF SessionInv, Typed, Timers, Times, Timely

LEMMA BackoffKeeps ==
  ASSUME SessionInv, Backoff
  PROVE  SessionInv'
<1>1. at = "wait" /\ at \in Looking /\ op = "auto"
  BY DEF SessionInv, Restarted, Backoff, Looking
<1>2. Moving /\ UNCHANGED conn
  BY DEF SessionInv, Typed, Moving, Backoff, agent, files
<1>3. CASE Expired
  BY <1>1, <1>2, <1>3, Fails DEF Backoff
<1>4. CASE ~Expired
  <2>1. t.wait = 0 /\ t.step > 0
    BY <1>1, <1>4, TimersTyped DEF Backoff, Ready, Expired, DialOver
  <2>2. OnTime("forget", t, pre)
    BY <2>1, TimersTyped DEF OnTime
  <2>3. GoTo("forget", t) /\ "forget" \in Looking
    BY <1>4 DEF Backoff, Looking
  <2>4. QED BY <1>1, <1>2, <2>2, <2>3, TimersTyped, MovesOn
<1>5. QED BY <1>3, <1>4

LEMMA StopAppKeeps ==
  ASSUME SessionInv, StopApp
  PROVE  SessionInv'
<1>1. at = "stop" /\ at \in Looking
  BY DEF StopApp, Looking
<1>2. PICK outcome \in {"done", "ignored", "error"} :
       /\ Command(outcome = "done")
       /\ app' = IF outcome = "done" \/ (os = "ios" /\ outcome = "error") THEN "gone" ELSE app
       /\ asleep' = (asleep /\ outcome = "ignored")
       /\ IF outcome = "error"
            THEN Ends("failed") /\ cause' = cause \cup {"command"}
            ELSE GoTo("launch", t) /\ cause' = IF outcome = "done" THEN cause ELSE cause \cup {"terminate"}
       /\ IF op = "clear" /\ outcome # "error"
            THEN cache' = NoToken /\ next' = NoToken
            ELSE UNCHANGED <<cache, next>>
  BY DEF StopApp
<1>3. Moving /\ UNCHANGED conn
  <2>1. NoToken \in Token
    BY DEF Token
  <2>2. faults' \in 0..MaxFaults
    BY <1>2, CommandTyped
  <2>3. asleep' \in BOOLEAN
    BY <1>2 DEF SessionInv, Typed
  <2>4. next' \in Token /\ cache' \in Token
    BY <1>2, <2>1 DEF SessionInv, Typed
  <2>5. "terminate" \in cause => "terminate" \in cause'
    BY <1>2
  <2>6. app' \in {"gone", "booting", "bound", "serving"}
    BY <1>2 DEF SessionInv, Typed
  <2>7. QED BY <2>2, <2>3, <2>4, <2>5, <2>6 DEF SessionInv, Typed, Moving, StopApp
<1>4. CASE outcome = "error"
  BY <1>1, <1>2, <1>3, <1>4, Fails
<1>5. CASE outcome # "error"
  <2>1. GoTo("launch", t) /\ "launch" \in Looking
    BY <1>2, <1>5 DEF Looking
  <2>2. app' = "gone" \/ Renewed'
    <3>1. CASE outcome = "done"
      BY <1>2, <3>1
    <3>2. CASE outcome = "ignored"
      BY <1>2, <3>2 DEF Renewed
    <3>3. QED BY <1>5, <3>1, <3>2
  <2>3. OnTime("launch", t, pre)
    BY <1>1, TimersTyped DEF OnTime
  <2>4. QED BY <1>1, <1>3, <2>1, <2>2, <2>3, TimersTyped, MovesOn
<1>6. QED BY <1>4, <1>5

LEMMA LaunchAppKeeps ==
  ASSUME SessionInv, LaunchApp
  PROVE  SessionInv'
<1>1. at = "launch" /\ at \in Looking
  BY DEF LaunchApp, Looking
<1>2. PICK ok \in BOOLEAN, n \in 0..BootTime :
       /\ Command(ok)
       /\ app' = IF ok /\ app = "gone" THEN "booting" ELSE app
       /\ gen' = IF ok /\ app = "gone" THEN gen + 1 ELSE gen
       /\ asleep' = (asleep /\ ~ok)
       /\ IF ok
            THEN /\ UNCHANGED cause
                 /\ IF pre THEN GoTo("settle", [t EXCEPT !.boot = n, !.wait = ReconnectDelay])
                           ELSE GoTo("forget", [t EXCEPT !.boot = n])
            ELSE Ends("failed") /\ cause' = cause \cup {"command"}
  BY DEF LaunchApp
<1>3. Moving /\ UNCHANGED conn
  <2>1. faults' \in 0..MaxFaults
    BY <1>2, CommandTyped
  <2>2. asleep' \in BOOLEAN
    BY <1>2 DEF SessionInv, Typed
  <2>3. "terminate" \in cause => "terminate" \in cause'
    BY <1>2
  <2>4. app' \in {"gone", "booting", "bound", "serving"} /\ gen' \in {gen, gen + 1}
    BY <1>2 DEF SessionInv, Typed
  <2>5. QED BY <2>1, <2>2, <2>3, <2>4 DEF SessionInv, Typed, Moving, LaunchApp, files
<1>4. CASE ~ok
  BY <1>1, <1>2, <1>3, <1>4, Fails
<1>5. CASE ok
  <2>1. ~Expired /\ t.step > 0
    <3>1. ~Expired
      BY <1>2, <1>5, CommandTyped
    <3>2. QED BY <3>1, TimersTyped DEF Expired
  <2>2. op # "auto" => Renewed \/ Renewed'
    <3>1. CASE app = "gone"
      <4>1. gen' = gen + 1 /\ from' = from /\ from <= gen /\ gen \in Nat /\ from \in Nat
        BY <1>2, <1>5, <3>1 DEF SessionInv, Typed, LaunchApp
      <4>2. QED BY <4>1 DEF Renewed
    <3>2. CASE app # "gone"
      BY <1>1, <3>2 DEF SessionInv, Restarted
    <3>3. QED BY <3>1, <3>2
  <2>3. n \in Int
    BY TimeAssumption DEF Times
  <2>4. CASE pre
    <3> DEFINE x == [t EXCEPT !.boot = n, !.wait = ReconnectDelay]
    <3>1. x \in [Timers -> Int] /\ x.step = t.step /\ x.wait = ReconnectDelay
      <4>1. t \in [Timers -> Int] /\ ReconnectDelay \in Int
        BY TimersTyped
      <4>2. QED BY <2>3, <4>1 DEF Timers
    <3>2. GoTo("settle", x) /\ "settle" \in Looking
      BY <1>2, <1>5, <2>4 DEF Looking
    <3> HIDE DEF x
    <3>3. OnTime("settle", x, pre)
      BY <2>1, <3>1, TimersTyped DEF OnTime
    <3>4. QED BY <1>1, <1>3, <2>2, <3>1, <3>2, <3>3, MovesOn
  <2>5. CASE ~pre
    <3> DEFINE x == [t EXCEPT !.boot = n]
    <3>1. x \in [Timers -> Int] /\ x.step = t.step /\ x.wait = t.wait
      BY <2>3, TimersTyped DEF Timers
    <3>2. GoTo("forget", x) /\ "forget" \in Looking
      BY <1>2, <1>5, <2>5 DEF Looking
    <3> HIDE DEF x
    <3>3. OnTime("forget", x, pre)
      BY <1>1, <2>1, <3>1, TimersTyped DEF OnTime
    <3>4. QED BY <1>1, <1>3, <2>2, <3>1, <3>2, <3>3, MovesOn
  <2>6. QED BY <2>4, <2>5
<1>6. QED BY <1>4, <1>5

LEMMA ForgetKeeps ==
  ASSUME SessionInv, Forget
  PROVE  SessionInv'
<1>1. at = "forget" /\ at \in Looking
  BY DEF Forget, Looking
<1>2. PICK failed \in SUBSET Commands :
       /\ Command(failed = {})
       /\ cache' = IF "cache" \in failed THEN cache ELSE NoToken
       /\ shared' = IF place = "ours" /\ "shared" \notin failed THEN NoToken ELSE shared
       /\ log' = IF "log" \in failed THEN log ELSE NoToken
       /\ fwd' = (fwd \/ "forward" \notin failed)
       /\ asleep' = (asleep /\ "wake" \in failed)
       /\ cause' = IF asleep /\ "wake" \in failed THEN cause \cup {"command"} ELSE cause
  BY DEF Forget
<1>3. Moving /\ UNCHANGED conn
  <2>1. NoToken \in Token /\ faults' \in 0..MaxFaults
    BY <1>2, CommandTyped DEF Token
  <2>2. asleep' \in BOOLEAN /\ fwd' \in BOOLEAN
    BY <1>2 DEF SessionInv, Typed
  <2>3. cache' \in Token /\ shared' \in Token /\ log' \in Token
    BY <1>2, <2>1 DEF SessionInv, Typed
  <2>4. "terminate" \in cause => "terminate" \in cause'
    BY <1>2
  <2>5. QED BY <2>1, <2>2, <2>3, <2>4 DEF SessionInv, Typed, Moving, Forget
<1> DEFINE x == [t EXCEPT !.wait = ReconnectDelay]
<1>4. x \in [Timers -> Int] /\ x.step = t.step /\ x.wait = ReconnectDelay
  <2>1. t \in [Timers -> Int] /\ ReconnectDelay \in Int
    BY TimersTyped
  <2>2. QED BY <2>1, TimerNames
<1>5. GoTo("settle", x) /\ "settle" \in Looking
  BY DEF Forget, Looking
<1> HIDE DEF x
<1>6. OnTime("settle", x, pre)
  BY <1>1, <1>4, TimersTyped DEF OnTime
<1>7. op # "auto" => Renewed
  BY <1>1 DEF SessionInv, Restarted
<1>8. QED BY <1>1, <1>3, <1>4, <1>5, <1>6, <1>7, MovesOn

LEMMA SettledKeeps ==
  ASSUME SessionInv, Settled
  PROVE  SessionInv'
<1>1. at = "settle" /\ at \in Looking /\ t.wait = 0
  BY DEF Settled, Looking, Ready
<1>2. Moving /\ UNCHANGED conn
  BY DEF SessionInv, Typed, Moving, Settled, agent, files
<1> DEFINE d == IF pre THEN DialTime ELSE 0
           p == IF pre THEN "dial" ELSE "read"
           x == [t EXCEPT !.read = TokenTime, !.dial = d]
<1>3. x \in [Timers -> Int] /\ x.step = t.step /\ x.wait = t.wait
  <2>1. t \in [Timers -> Int] /\ TokenTime \in Int /\ d \in Int
    BY TimersTyped
  <2> HIDE DEF d
  <2>2. QED BY <2>1, TimerNames
<1>4. GoTo(p, x) /\ p \in Looking /\ p \in {"dial", "read"}
  BY DEF Settled, Looking
<1> HIDE DEF x, p
<1>5. OnTime(p, x, pre)
  BY <1>1, <1>3, <1>4, TimersTyped DEF OnTime
<1>6. op # "auto" => Renewed
  BY <1>1 DEF SessionInv, Restarted
<1>7. QED BY <1>1, <1>2, <1>3, <1>4, <1>5, <1>6, MovesOn

LEMMA RoundTyped ==
  ASSUME SessionInv, NEW token, Round(token)
  PROVE  faults' \in 0..MaxFaults
<1>1. CASE os = "android"
  BY <1>1, CommandTyped DEF Round
<1>2. CASE os = "ios"
  BY <1>2 DEF SessionInv, Typed, Round
<1>3. QED BY <1>1, <1>2 DEF SessionInv, Typed

LEMMA ReadTokenKeeps ==
  ASSUME SessionInv, ReadToken
  PROVE  SessionInv'
<1>1. at = "read" /\ at \in Looking /\ (op # "auto" => Renewed) /\ (t.wait = 0 \/ Expired)
  BY DEF SessionInv, Restarted, ReadToken, Looking, Ready
<1>2. PICK token \in {NoToken, cache, shared, log} :
       /\ Round(token)
       /\ hand' = token
       /\ \/ token # NoToken /\ GoTo("dial", [t EXCEPT !.dial = DialTime, !.rej = Off, !.hook = 0])
          \/ token = NoToken /\ t.read > 0 /\ ~Expired /\ GoTo("read", [t EXCEPT !.wait = 1])
          \/ token = NoToken /\ (t.read = 0 \/ Expired) /\ Ends("failed")
  BY DEF ReadToken
<1>3. Moving /\ UNCHANGED conn
  <2>1. token \in Token /\ faults' \in 0..MaxFaults
    BY <1>2, RoundTyped DEF SessionInv, Typed, Token
  <2>2. QED BY <1>2, <2>1 DEF SessionInv, Typed, Moving, ReadToken, agent, files
<1>4. CASE Ends("failed")
  BY <1>1, <1>3, <1>4, Fails
<1>5. CASE GoTo("dial", [t EXCEPT !.dial = DialTime, !.rej = Off, !.hook = 0])
  <2> DEFINE x == [t EXCEPT !.dial = DialTime, !.rej = Off, !.hook = 0]
  <2>1. x \in [Timers -> Int] /\ x.step = t.step /\ x.wait = t.wait
    <3> DEFINE u == [t EXCEPT !.dial = DialTime]
               w == [u EXCEPT !.rej = Off]
    <3>1. t \in [Timers -> Int] /\ DialTime \in Int /\ Off \in Int
      BY TimersTyped DEF Off
    <3>2. u \in [Timers -> Int] /\ u.step = t.step /\ u.wait = t.wait
      BY <3>1, TimerNames
    <3>3. w \in [Timers -> Int] /\ w.step = u.step /\ w.wait = u.wait
      <4> HIDE DEF u
      <4>1. QED BY <3>1, <3>2, TimerNames
    <3>4. x = [w EXCEPT !.hook = 0]
      OBVIOUS
    <3> HIDE DEF x, w
    <3>5. QED BY <3>2, <3>3, <3>4, TimerNames
  <2>2. GoTo("dial", x) /\ "dial" \in Looking
    BY <1>5 DEF Looking
  <2> HIDE DEF x
  <2>3. OnTime("dial", x, pre)
    BY <1>1, <2>1, TimersTyped DEF OnTime
  <2>4. QED BY <1>1, <1>3, <2>1, <2>2, <2>3, MovesOn
<1>6. CASE ~Expired /\ GoTo("read", [t EXCEPT !.wait = 1])
  <2> DEFINE x == [t EXCEPT !.wait = 1]
  <2>1. x \in [Timers -> Int] /\ x.step = t.step /\ x.wait = 1
    BY TimersTyped DEF Timers
  <2>2. GoTo("read", x) /\ "read" \in Looking
    BY <1>6 DEF Looking
  <2> HIDE DEF x
  <2>3. OnTime("read", x, pre)
    BY <1>6, <2>1, TimersTyped DEF OnTime, Expired
  <2>4. QED BY <1>1, <1>3, <2>1, <2>2, <2>3, MovesOn
<1>7. QED BY <1>2, <1>4, <1>5, <1>6

(* The end of a dial: another dial, a relaunch, or an error. *)
LEMMA Abandons ==
  ASSUME SessionInv, Moving, at = "dial", UNCHANGED conn, NEW e, Abandon(e)
  PROVE  SessionInv'
<1>1. at \in Looking /\ (op # "auto" => Renewed) /\ (pre => op # "auto")
  BY DEF SessionInv, Restarted, Looking
<1>2. CASE pre /\ ~Expired /\ GoTo("dial", [t EXCEPT !.wait = 2, !.dial = DialTime + 2, !.hook = 0])
  <2> DEFINE x == [t EXCEPT !.wait = 2, !.dial = DialTime + 2, !.hook = 0]
  <2>1. x \in [Timers -> Int] /\ x.step = t.step /\ x.wait = 2
    <3> DEFINE u == [t EXCEPT !.wait = 2]
               w == [u EXCEPT !.dial = DialTime + 2]
    <3>1. t \in [Timers -> Int] /\ DialTime + 2 \in Int
      BY TimersTyped
    <3>2. u \in [Timers -> Int] /\ u.step = t.step /\ u.wait = 2
      BY <3>1, TimerNames
    <3>3. w \in [Timers -> Int] /\ w.step = u.step /\ w.wait = u.wait
      <4> HIDE DEF u
      <4>1. QED BY <3>1, <3>2, TimerNames
    <3>4. x = [w EXCEPT !.hook = 0]
      OBVIOUS
    <3> HIDE DEF x, w
    <3>5. QED BY <3>2, <3>3, <3>4, TimerNames
  <2>2. GoTo("dial", x) /\ "dial" \in Looking
    BY <1>2 DEF Looking
  <2> HIDE DEF x
  <2>3. OnTime("dial", x, pre)
    BY <1>2, <2>1, TimersTyped DEF OnTime, Expired
  <2>4. QED BY <1>1, <2>1, <2>2, <2>3, MovesOn
<1>3. CASE op = "auto" /\ GoTo("stop", t)
  <2>1. OnTime("stop", t, pre)
    BY <1>1, <1>3, TimersTyped DEF OnTime
  <2>2. "stop" \in Looking
    BY DEF Looking
  <2>3. QED BY <1>1, <1>3, <2>1, <2>2, TimersTyped, MovesOn
<1>4. CASE Ends("failed")
  BY <1>1, <1>4, Fails
<1>5. QED BY <1>2, <1>3, <1>4 DEF Abandon

LEMMA AbandonAgain ==
  ASSUME SessionInv, NEW e, Abandon(e)
  PROVE  again' \in BOOLEAN
  BY DEF SessionInv, Typed, Abandon

LEMMA DialTimesOutKeeps ==
  ASSUME SessionInv, DialTimesOut
  PROVE  SessionInv'
<1>1. PICK e : Abandon(e)
  BY DEF DialTimesOut
<1>2. again' \in BOOLEAN
  BY <1>1, AbandonAgain
<1>3. Moving /\ UNCHANGED conn /\ at = "dial"
  BY <1>2 DEF SessionInv, Typed, Moving, DialTimesOut, agent, files
<1>4. QED BY <1>1, <1>3, Abandons

(* Another attempt of the dial after a second. *)
LEMMA DialsAgain ==
  ASSUME SessionInv, Moving, UNCHANGED conn, Dialling, NEW p \in {"dial", "refresh"},
         NEW x \in [Timers -> Int], x.step = t.step, x.wait = 1, GoTo(p, x)
  PROVE  SessionInv'
<1>1. at = "dial" /\ at \in Looking /\ p \in Looking /\ ~Expired
  BY DEF Dialling, DialOver, Looking
<1>2. op # "auto" => Renewed
  BY <1>1 DEF SessionInv, Restarted
<1>3. OnTime(p, x, pre)
  BY <1>1, TimersTyped DEF OnTime, Expired
<1>4. QED BY <1>1, <1>2, <1>3, MovesOn

LEMMA RefusedKeeps ==
  ASSUME SessionInv, Refused
  PROVE  SessionInv'
<1>1. Dialling /\ UNCHANGED <<os, place, agent, files, conn, op, hand, pre, again, from, cause, calls>>
  BY DEF Refused
<1>2. t \in [Timers -> Int] /\ HookTime \in Int
  BY TimersTyped
<1>3. ASSUME NEW ok \in BOOLEAN, Command(ok), fwd' = ok, GoTo("dial", [t EXCEPT !.wait = 1, !.hook = HookTime])
      PROVE  SessionInv'
  <2> DEFINE x == [t EXCEPT !.wait = 1, !.hook = HookTime]
  <2>1. x \in [Timers -> Int] /\ x.step = t.step /\ x.wait = 1
    <3> DEFINE u == [t EXCEPT !.wait = 1]
    <3>1. u \in [Timers -> Int] /\ u.step = t.step /\ u.wait = 1
      BY <1>2, TimerNames
    <3>2. x = [u EXCEPT !.hook = HookTime]
      OBVIOUS
    <3> HIDE DEF x, u
    <3>3. QED BY <1>2, <3>1, <3>2, TimerNames
  <2>2. faults' \in 0..MaxFaults /\ fwd' \in BOOLEAN
    BY <1>3, CommandTyped
  <2>3. Moving
    BY <1>1, <2>2 DEF SessionInv, Typed, Moving, agent, files
  <2> HIDE DEF x
  <2>4. GoTo("dial", x)
    BY <1>3 DEF x
  <2>5. QED BY <1>1, <2>1, <2>3, <2>4, DialsAgain
<1>4. ASSUME UNCHANGED <<fwd, faults>>, GoTo("dial", [t EXCEPT !.wait = 1])
      PROVE  SessionInv'
  <2> DEFINE x == [t EXCEPT !.wait = 1]
  <2>1. x \in [Timers -> Int] /\ x.step = t.step /\ x.wait = 1
    BY <1>2, TimerNames
  <2>2. Moving
    BY <1>1, <1>4 DEF SessionInv, Typed, Moving, agent, files
  <2> HIDE DEF x
  <2>3. GoTo("dial", x)
    BY <1>4 DEF x
  <2>4. QED BY <1>1, <2>1, <2>2, <2>3, DialsAgain
<1>5. QED BY <1>3, <1>4 DEF Refused

LEMMA EofKeeps ==
  ASSUME SessionInv, Eof
  PROVE  SessionInv'
<1> DEFINE x == [t EXCEPT !.wait = 1]
<1>1. x \in [Timers -> Int] /\ x.step = t.step /\ x.wait = 1
  BY TimersTyped DEF Timers
<1>2. Moving /\ UNCHANGED conn /\ Dialling
  BY DEF SessionInv, Typed, Moving, Eof, agent, files
<1>3. GoTo("dial", x)
  BY DEF Eof
<1> HIDE DEF x
<1>4. QED BY <1>1, <1>2, <1>3, DialsAgain

LEMMA AcceptedKeeps ==
  ASSUME SessionInv, Accepted
  PROVE  SessionInv'
<1>1. at = "dial" /\ app = "serving" /\ ~asleep /\ hand = tok /\ conn' = "up" /\ t.wait = 0 /\ t.step > 0
  BY TimersTyped DEF Accepted, Reaches, Dialling, DialOver, Expired, Admits
<1>2. Moving /\ UNCHANGED <<app, asleep, hand>>
  BY DEF SessionInv, Typed, Moving, Accepted, agent, files
<1>3. (op # "auto" => Renewed) /\ out = "none"
  BY <1>1 DEF SessionInv, Restarted
<1>4. Connected' /\ op' = op /\ pre' = pre
  BY <1>1, <1>2 DEF Connected, Moving, Accepted, Ends, GoTo
<1>5. CASE Ends("ok") /\ pre
  <2>1. at' = "idle" /\ out' = "ok" /\ t' \in [Timers -> Int] /\ t'.step = 0 /\ t'.wait = 0
    BY <1>5, EndsTyped
  <2>2. Typed' /\ (Renewed => Renewed')
    BY <1>1, <1>2, <2>1, MovingTyped
  <2>3. Restarted'
    BY <1>3, <1>4, <2>1, <2>2 DEF SessionInv, Restarted
  <2>4. Timely'
    BY <2>1 DEF Timely, OnTime
  <2>5. QED BY <1>4, <2>2, <2>3, <2>4 DEF SessionInv
<1>6. CASE GoTo("shake", t) /\ ~pre
  <2>1. at' = "shake" /\ out' = "none" /\ t' = t
    BY <1>3, <1>6 DEF GoTo
  <2>2. Typed' /\ (Renewed => Renewed')
    BY <1>1, <1>2, <2>1, TimersTyped, MovingTyped
  <2>3. Restarted'
    BY <1>3, <1>4, <2>1, <2>2 DEF SessionInv, Restarted
  <2>4. Timely'
    BY <1>1, <2>1, TimersTyped DEF Timely, OnTime
  <2>5. QED BY <1>4, <2>2, <2>3, <2>4 DEF SessionInv
<1>7. QED BY <1>5, <1>6 DEF Accepted

LEMMA RejectedKeeps ==
  ASSUME SessionInv, Rejected
  PROVE  SessionInv'
<1> DEFINE rej == IF t.rej = Off THEN RejectWindow ELSE t.rej
<1>1. Dialling /\ at = "dial" /\ UNCHANGED <<os, place, agent, files, conn, op, hand, pre, fwd, from, cause, faults, calls>>
  BY DEF Rejected, Reaches, Dialling
<1>2. CASE GoTo("refresh", [t EXCEPT !.rej = rej, !.wait = 1, !.read = RefreshTime]) /\ UNCHANGED again
  <2> DEFINE u == [t EXCEPT !.rej = rej]
             w == [u EXCEPT !.wait = 1]
             x == [w EXCEPT !.read = RefreshTime]
  <2>1. t \in [Timers -> Int] /\ rej \in Int /\ RefreshTime \in Int
    BY TimersTyped, TimerNames
  <2>2. u \in [Timers -> Int] /\ u.step = t.step
    <3> HIDE DEF rej
    <3>1. QED BY <2>1, TimerNames
  <2>3. w \in [Timers -> Int] /\ w.step = u.step /\ w.wait = 1
    <3> HIDE DEF u
    <3>1. QED BY <2>2, TimerNames
  <2>4. x \in [Timers -> Int] /\ x.step = w.step /\ x.wait = w.wait
    <3> HIDE DEF w
    <3>1. QED BY <2>1, <2>3, TimerNames
  <2>5. GoTo("refresh", x)
    BY <1>2
  <2>6. Moving
    BY <1>1, <1>2 DEF SessionInv, Typed, Moving, agent, files
  <2> HIDE DEF x, w, u
  <2>7. QED BY <1>1, <2>2, <2>3, <2>4, <2>5, <2>6, DialsAgain
<1>3. CASE Abandon("rejected")
  <2>1. again' \in BOOLEAN
    BY <1>3, AbandonAgain
  <2>2. Moving
    BY <1>1, <2>1 DEF SessionInv, Typed, Moving, agent, files
  <2>3. QED BY <1>1, <1>3, <2>2, Abandons
<1>4. QED BY <1>2, <1>3 DEF Rejected

LEMMA RefreshTokenKeeps ==
  ASSUME SessionInv, RefreshToken
  PROVE  SessionInv'
<1>1. at = "refresh" /\ at \in Looking /\ (op # "auto" => Renewed)
  BY DEF SessionInv, Restarted, RefreshToken, Looking
<1>2. PICK token \in {NoToken, cache, shared, log} :
       /\ Round(token)
       /\ hand' = IF token = NoToken THEN hand ELSE token
       /\ IF token # NoToken \/ t.read = 0 \/ DialOver
            THEN GoTo("dial", [t EXCEPT !.wait = 0])
            ELSE GoTo("refresh", [t EXCEPT !.wait = 1])
  BY DEF RefreshToken
<1>3. Moving /\ UNCHANGED conn
  <2>1. token \in Token /\ faults' \in 0..MaxFaults
    BY <1>2, RoundTyped DEF SessionInv, Typed, Token
  <2>2. QED BY <1>2, <2>1 DEF SessionInv, Typed, Moving, RefreshToken, agent, files
<1>4. CASE GoTo("dial", [t EXCEPT !.wait = 0])
  <2> DEFINE x == [t EXCEPT !.wait = 0]
  <2>1. x \in [Timers -> Int] /\ x.step = t.step /\ x.wait = 0
    BY TimersTyped, TimerNames
  <2>2. GoTo("dial", x) /\ "dial" \in Looking
    BY <1>4 DEF Looking
  <2> HIDE DEF x
  <2>3. OnTime("dial", x, pre)
    BY <1>1, <2>1, TimersTyped DEF OnTime
  <2>4. QED BY <1>1, <1>3, <2>1, <2>2, <2>3, MovesOn
<1>5. CASE ~DialOver /\ GoTo("refresh", [t EXCEPT !.wait = 1])
  <2> DEFINE x == [t EXCEPT !.wait = 1]
  <2>1. x \in [Timers -> Int] /\ x.step = t.step /\ x.wait = 1
    BY TimersTyped, TimerNames
  <2>2. GoTo("refresh", x) /\ "refresh" \in Looking
    BY <1>5 DEF Looking
  <2> HIDE DEF x
  <2>3. OnTime("refresh", x, pre)
    BY <1>5, <2>1, TimersTyped DEF OnTime, DialOver, Expired
  <2>4. QED BY <1>1, <1>3, <2>1, <2>2, <2>3, MovesOn
<1>6. QED BY <1>2, <1>4, <1>5

LEMMA HandshakeKeeps ==
  ASSUME SessionInv, Handshake
  PROVE  SessionInv'
<1>1. at = "shake" /\ UNCHANGED <<os, place, agent, files, fwd, conn, op, hand, pre, again, last, from, cause, faults, calls>>
  BY DEF Handshake
<1>2. PICK how \in {"ok", "failed"} : Ends(how)
  BY DEF Handshake
<1>3. at' = "idle" /\ out' = how /\ t' \in [Timers -> Int] /\ t'.step = 0 /\ t'.wait = 0
  BY <1>2, EndsTyped
<1>4. Moving
  BY <1>1 DEF SessionInv, Typed, Moving, agent, files
<1>5. Typed' /\ (Renewed => Renewed')
  BY <1>1, <1>3, <1>4, MovingTyped DEF SessionInv, Typed
<1>6. Connected'
  BY <1>1, <1>3 DEF SessionInv, Connected, agent
<1>7. Restarted'
  BY <1>1, <1>3, <1>5 DEF SessionInv, Restarted
<1>8. Timely'
  BY <1>3 DEF Timely, OnTime
<1>9. QED BY <1>5, <1>6, <1>7, <1>8 DEF SessionInv

-----------------------------------------------------------------------------
(* What happens to app, files and link on their own. *)
LEMMA WorldKeeps ==
  ASSUME SessionInv, Kill \/ Crash \/ Suspend \/ Purge \/ LinkLost
  PROVE  SessionInv'
<1>1. /\ UNCHANGED <<os, place, gen, tok, op, at, hand, pre, again, t, from, out, calls>>
      /\ UNCHANGED <<shared, log>>
  BY DEF Kill, Crash, Suspend, Purge, LinkLost, Happens, files
<1>2. NoToken \in Token
  BY DEF Token
<1>3. next' \in Token /\ cache' \in Token
  BY <1>2 DEF SessionInv, Typed, Kill, Crash, Suspend, Purge, LinkLost, Happens, files
<1>4. app' \in {"gone", app} /\ (asleep' = asleep \/ asleep' \in BOOLEAN) /\ fwd' \in BOOLEAN
  BY DEF SessionInv, Typed, Kill, Crash, Suspend, Purge, LinkLost, Happens, files
<1>5. faults' \in 0..MaxFaults
  <2>1. faults' = faults \/ (faults < MaxFaults /\ faults' = faults + 1)
    BY DEF Kill, Crash, Suspend, Purge, LinkLost, Happens
  <2>2. QED BY <2>1, BoundAssumption DEF SessionInv, Typed
<1>6. "terminate" \in cause => "terminate" \in cause'
  BY DEF Kill, Crash, Suspend, Purge, LinkLost, Happens
<1>7. conn' = "down" \/ (conn' = conn /\ app' = app /\ asleep' = asleep)
  BY DEF Kill, Crash, Suspend, Purge, LinkLost, Happens
<1>8. Moving
  BY <1>1, <1>3, <1>4, <1>5, <1>6 DEF SessionInv, Typed, Moving
<1>9. Typed' /\ (Renewed => Renewed')
  BY <1>1, <1>7, <1>8, MovingTyped DEF SessionInv, Typed
<1>10. Connected'
  BY <1>1, <1>7 DEF SessionInv, Connected
<1>11. Restarted'
  BY <1>1, <1>4, <1>9 DEF SessionInv, Restarted
<1>12. Timely'
  BY <1>1 DEF SessionInv, Timely
<1>13. QED BY <1>9, <1>10, <1>11, <1>12 DEF SessionInv

LEMMA SessionStutter ==
  ASSUME SessionInv, UNCHANGED sessionVars
  PROVE  SessionInv'
<1>1. Token' = Token
  BY DEF sessionVars, Token
<1>2. QED BY <1>1 DEF sessionVars, SessionInv, Typed, Connected, Restarted, Renewed, Timely

LEMMA SessionStep ==
  ASSUME SessionInv, [SessionNext]_sessionVars
  PROVE  SessionInv'
  BY PassKeeps, AgentKeeps, BeginKeeps, BackoffKeeps, StopAppKeeps, LaunchAppKeeps, ForgetKeeps,
     SettledKeeps, ReadTokenKeeps, DialTimesOutKeeps, RefusedKeeps, EofKeeps, AcceptedKeeps,
     RejectedKeeps, RefreshTokenKeeps, HandshakeKeeps, WorldKeeps, SessionStutter
  DEF SessionNext, CLI

(* The invariant of the recovery, from which the next two follow. *)
THEOREM SessionInvariant == SessionSpec => []SessionInv
  BY SessionInitHolds, SessionStep, PTL DEF SessionSpec

(* A connection is to the process that runs and under its token; a recovery  *)
(* that succeeds has started a new process, or could not stop the old one;   *)
(* and every token anywhere is one of the agent, of the CLI or a stray: for  *)
(* any timeouts and any number of recoveries and faults.                     *)
THEOREM SessionTypes == SessionSpec => []SessionTypeOK
<1>1. SessionInv => SessionTypeOK
  BY DEF SessionInv, Typed, Connected, Restarted, Renewed, SessionTypeOK
<1>2. QED BY <1>1, SessionInvariant, PTL

(* A recovery outlasts the timeout of its step by the sleep before the dial  *)
(* at most, whatever the timeouts are.                                       *)
THEOREM OutlastsByASleep == SessionSpec => []EndsInTime
<1>1. SessionInv => EndsInTime
  <2>1. SUFFICES ASSUME SessionInv PROVE EndsInTime
    OBVIOUS
  <2>2. QED BY <2>1, TimersTyped DEF OnTime, EndsInTime
<1>2. QED BY <1>1, SessionInvariant, PTL

-----------------------------------------------------------------------------
(* The timers at all times, and the tokens and the forward there are: a host *)
(* port of a simulator is the one of the agent.                              *)
Clocks ==
  /\ t.boot \in 0..BootTime /\ t.tick \in 0..TickTime /\ t.hook \in 0..HookTime
  /\ t.rej >= Off /\ t.read >= 0 /\ t.dial >= 0
  /\ at = "idle" => t.hook = 0 /\ t.rej = Off
  /\ tok # NoToken
  /\ os = "ios" => fwd

(* The time in which the CLI finds the agent if nothing else happens to it: *)
(* the app starts, the forward is made, and the token is read.               *)
Booting == IF app = "booting" THEN t.boot ELSE 0

Linking ==
  IF fwd /\ app = "serving" THEN (IF at = "dial" THEN t.wait ELSE 0)
  ELSE IF fwd \/ at = "read" THEN 1
  ELSE IF at = "dial" THEN Larger(t.hook, t.wait) + 1
  ELSE t.hook + 1

Admission ==
  IF app # "serving" THEN 1
  ELSE IF at = "dial" /\ hand = tok THEN 0
  ELSE IF cache # tok THEN t.tick + 1
  ELSE IF at = "dial" THEN 1
  ELSE t.wait

Need  == Booting + Linking + Admission
Slack == Cost * (MaxFaults - faults)

Seeking == {"settle", "read", "dial", "refresh"}

(* While nothing has happened to it: the app lives while it is waited for, *)
Living ==
  /\ at \in {"wait", "forget", "shake"} \cup Seeking => app # "gone"
  /\ at \in Seeking => ~asleep
  /\ at = "launch" => app = "gone"
  /\ at = "refresh" => app = "serving" /\ hand # tok /\ ~pre /\ t.rej # Off
  /\ at = "shake" => conn = "up"
  /\ at = "dial" /\ t.rej # Off => app = "serving"
  /\ at \notin {"dial", "refresh", "shake"} => t.hook = 0 /\ t.rej = Off

(* it has the token that was left for it, or will take it, *)
Handed ==
  pre => /\ hand # NoToken
         /\ at = "stop" => app = "serving"
         /\ at \in {"stop", "launch"} => next = hand
         /\ at \in Seeking => IF app = "booting" THEN next = hand ELSE tok = hand
         /\ at \notin {"read", "forget", "wait"}

(* and every deadline leaves the time that is needed, n, and s for faults. *)
Deadlines(p, x, n, s) ==
  /\ p = "wait" => x.wait <= 1 /\ x.step > x.wait + ReconnectDelay + Longest + s
  /\ p \in {"stop", "launch", "forget"} => x.wait = 0 /\ x.step > ReconnectDelay + Longest + s
  /\ p = "settle" => x.step > x.wait + Longest + s
  /\ p \in {"read", "dial", "refresh"} => x.wait <= 1 /\ x.step > n + s
  /\ p = "read" => x.read >= n + s
  /\ p \in {"dial", "refresh"} => x.dial > n + s
  /\ p \in {"dial", "refresh"} /\ x.rej # Off => x.rej >= n + s

InTime == Deadlines(at, t, Need, Slack)

FailsForCause == at # "idle" /\ cause = {} => Living /\ Handed /\ InTime

CauseInv == Clocks /\ FailsForCause /\ GivesUpForCause

-----------------------------------------------------------------------------
LEMMA Numbers ==
  ASSUME SessionInv
  PROVE  /\ t \in [Timers -> Int]
         /\ t.step \in Int /\ t.wait \in Int /\ t.read \in Int /\ t.dial \in Int
         /\ t.rej \in Int /\ t.hook \in Int /\ t.tick \in Int /\ t.boot \in Int
         /\ t.wait >= 0 /\ (at = "idle" => t.wait = 0)
         /\ BootTime \in Nat /\ TickTime \in Nat \ {0} /\ HookTime \in Nat \ {0} /\ RefreshTime \in Nat
         /\ RejectWindow \in Nat /\ TokenTime \in Nat /\ DialTime \in Nat /\ StepTime \in Nat
         /\ LaunchTime \in Nat /\ ReconnectDelay \in Nat \ {0} /\ MaxFaults \in Nat
         /\ faults \in 0..MaxFaults /\ Off = -1
  BY TimeAssumption, BoundAssumption DEF SessionInv, Typed, Timers, Times, Timely, OnTime, Off

(* What a fault costs. *)
LEMMA CostBound ==
  ASSUME SessionInv
  PROVE  /\ Cost \in Nat /\ Cost >= TickTime + 1 /\ Cost >= HookTime + 1
         /\ Longest \in Nat /\ Longest >= BootTime + 2 /\ Longest >= TickTime + 2
  BY Numbers DEF Cost, Longest, Larger

LEMMA SlackBound ==
  ASSUME SessionInv
  PROVE  Slack \in Nat /\ Slack <= Cost * MaxFaults /\ Cost * MaxFaults \in Nat
<1>1. Cost \in Nat /\ MaxFaults \in Nat /\ faults \in 0..MaxFaults
  BY Numbers, CostBound
<1> HIDE DEF Cost
<1>2. QED BY <1>1 DEF Slack

LEMMA SlackStays ==
  ASSUME faults' = faults
  PROVE  Slack' = Slack
  BY DEF Slack

LEMMA SlackFalls ==
  ASSUME SessionInv, faults' = faults + 1, faults < MaxFaults
  PROVE  Slack' + Cost = Slack /\ Slack' \in Nat
<1>1. Cost \in Nat /\ MaxFaults \in Nat /\ faults \in 0..MaxFaults /\ faults + 1 \in 0..MaxFaults
  BY Numbers, CostBound
<1> HIDE DEF Cost
<1>2. Slack' = Cost * (MaxFaults - (faults + 1))
  BY DEF Slack
<1>3. QED BY <1>1, <1>2 DEF Slack

(* What is needed is never more than the longest wait when the CLI begins to *)
(* look for the token or to dial.                                            *)
LEMMA NeedBound ==
  ASSUME SessionInv, Clocks, t.wait <= 1
  PROVE  Need \in Nat
  BY Numbers DEF Clocks, Need, Booting, Linking, Admission, Larger

(* Time passes. *)
LEMMA PassTimers ==
  ASSUME SessionInv, Pass
  PROVE  /\ t'.step = IF t.step > 0 \/ at # "idle" THEN t.step - 1 ELSE t.step
         /\ t'.wait = IF t.wait > 0 THEN t.wait - 1 ELSE t.wait
         /\ t'.read = IF t.read > 0 THEN t.read - 1 ELSE t.read
         /\ t'.dial = IF t.dial > 0 THEN t.dial - 1 ELSE t.dial
         /\ t'.rej = IF t.rej > 0 THEN t.rej - 1 ELSE t.rej
         /\ t'.hook = IF t.hook > 0 THEN t.hook - 1 ELSE t.hook
         /\ t'.tick = IF t.tick > 0 THEN t.tick - 1 ELSE t.tick
         /\ t'.boot = IF t.boot > 0 THEN t.boot - 1 ELSE t.boot
<1>1. t \in [Timers -> Int] /\ DOMAIN t = Timers
  BY Numbers
<1>2. QED BY <1>1 DEF Pass, Timers

LEMMA PassCause ==
  ASSUME SessionInv, CauseInv, Pass
  PROVE  CauseInv'
<1>1. UNCHANGED <<os, place, agent, files, fwd, cli, cause, faults>> /\ Slack' = Slack /\ Slack \in Nat
  BY SlackBound, SlackStays DEF Pass
<1>2. Clocks'
  BY <1>1, Numbers, PassTimers DEF CauseInv, Clocks, agent, cli
<1>3. GivesUpForCause'
  BY <1>1 DEF CauseInv, GivesUpForCause, cli
<1>4. ASSUME at # "idle", cause = {}
      PROVE  Living' /\ Handed' /\ InTime'
  <2> DEFINE n == Need'
  <2>1. Living /\ Handed /\ Deadlines(at, t, Need, Slack)
    BY <1>4 DEF CauseInv, FailsForCause, InTime
  <2>2. Living' /\ Handed'
    BY <1>1, <2>1, Numbers, PassTimers DEF Living, Handed, agent, cli
  <2>3. at # "dial" \/ ~asleep
    BY <2>1 DEF Living, Seeking
  <2>4. t.wait > 0
    BY <1>4, <2>3 DEF Pass, Dialling
  <2>5. t'.step = t.step - 1 /\ t'.wait = t.wait - 1
    BY <1>4, <2>4, PassTimers
  <2>6. at \in {"read", "dial", "refresh"} => n <= Need - 1 /\ n \in Nat
    <3> SUFFICES ASSUME at \in {"read", "dial", "refresh"} PROVE n <= Need - 1 /\ n \in Nat
      OBVIOUS
    <3>1. t.wait = 1 /\ t'.wait = 0
      BY <2>1, <2>4, Numbers, PassTimers DEF Deadlines
    <3>2. app \in {"booting", "serving"} /\ ~asleep
      BY <2>1 DEF SessionInv, Typed, Living, Seeking, Pass
    <3>3. UNCHANGED <<app, fwd, at, hand, tok, cache>>
      BY <1>1 DEF agent, files, cli
    <3>4. app = "booting" => t.boot > 0
      BY Numbers DEF Pass, CauseInv, Clocks
    <3>5. app = "serving" => t.tick > 0
      BY <3>2, Numbers DEF Pass, CauseInv, Clocks
    <3>6. t.hook >= 0 /\ t.boot >= 0 /\ t.tick >= 0
      BY Numbers DEF CauseInv, Clocks
    <3> DEFINE b == Booting'
               l == Linking'
               a == Admission'
    <3>7. /\ (app = "booting" => b <= Booting - 1) /\ b <= Booting
          /\ b \in Nat /\ Booting \in Nat
      BY <3>3, <3>4, <3>6, Numbers, PassTimers DEF Booting
    <3>8. /\ (at = "dial" /\ app = "serving" => l <= Linking - 1) /\ l <= Linking
          /\ l \in Nat /\ Linking \in Nat
      <4>1. app' = app /\ at' = at /\ (fwd' <=> fwd)
        BY <3>3
      <4>2. t'.hook \in Int /\ t'.hook >= 0 /\ t'.hook <= t.hook /\ (t.hook > 0 => t'.hook = t.hook - 1)
        BY <3>6, Numbers, PassTimers
      <4>3. CASE fwd
        BY <3>1, <4>1, <4>3 DEF Linking
      <4>4. CASE ~fwd
        BY <3>1, <3>6, <4>1, <4>2, <4>4, Numbers DEF Linking, Larger
      <4>5. QED BY <4>3, <4>4
    <3>9. /\ (at # "dial" /\ app = "serving" => a <= Admission - 1) /\ a <= Admission
          /\ a \in Nat /\ Admission \in Nat
      BY <3>1, <3>3, <3>5, <3>6, Numbers, PassTimers DEF Admission
    <3>10. n = b + l + a
      BY DEF Need
    <3> HIDE DEF n, b, l, a
    <3>11. QED BY <3>2, <3>7, <3>8, <3>9, <3>10 DEF Need
  <2> HIDE DEF n
  <2>7. at \in {"read", "dial", "refresh"} => Need \in Nat
    BY <2>1, NeedBound DEF CauseInv, Deadlines
  <2>8. Deadlines(at, t', n, Slack)
    BY <1>1, <1>4, <2>1, <2>4, <2>5, <2>6, <2>7, Numbers, PassTimers, CostBound, SMTT(60) DEF Deadlines
  <2>9. InTime'
    BY <1>1, <2>8 DEF InTime, cli, n
  <2>10. QED BY <2>2, <2>9
<1>5. QED BY <1>1, <1>2, <1>3, <1>4 DEF CauseInv, FailsForCause, cli

(* A step that leaves the CLI where it is and takes no time. *)
LEMMA StaysInTime ==
  ASSUME SessionInv, Clocks, InTime, at' = at, NEW n \in Nat, NEW s \in Nat, n = Need', s = Slack',
         t'.step = t.step, t'.wait = t.wait, t'.read = t.read, t'.dial = t.dial, t'.rej = t.rej,
         s <= Slack, at \in {"read", "dial", "refresh"} => n + s <= Need + Slack
  PROVE  InTime'
<1>1. Deadlines(at, t, Need, Slack)
  BY DEF InTime
<1>2. at \in {"read", "dial", "refresh"} => Need \in Nat
  BY <1>1, NeedBound DEF Deadlines
<1>3. Deadlines(at, t', n, s)
  BY <1>1, <1>2, Numbers, SlackBound, CostBound DEF Deadlines
<1>4. QED BY <1>3 DEF InTime

(* What a fault of the agent costs: a turn of its timer if its token was not
   written. *)
Writes(bad) == cache' = tok \/ bad

LEMMA FaultySlack ==
  ASSUME SessionInv, NEW bad, Faulty(bad)
  PROVE  /\ Slack' \in Nat /\ Slack' <= Slack
         /\ bad => Slack' + Cost = Slack
         /\ ~bad => Slack' = Slack
<1>1. CASE bad
  <2>1. faults' = faults + 1 /\ faults < MaxFaults
    BY <1>1 DEF Faulty
  <2>2. Slack' + Cost = Slack /\ Slack' \in Nat
    BY <2>1, SlackFalls
  <2>3. Cost \in Nat /\ Slack \in Nat
    BY CostBound, SlackBound
  <2> DEFINE x == Slack
             y == Slack'
             c == Cost
  <2>4. y + c = x /\ y \in Nat /\ c \in Nat /\ x \in Nat
    BY <2>2, <2>3
  <2> HIDE DEF x, y, c
  <2>5. y <= x
    BY <2>4
  <2>6. QED BY <1>1, <2>4, <2>5 DEF x, y, c
<1>2. CASE ~bad
  <2>1. Slack' = Slack
    BY <1>2, SlackStays DEF Faulty
  <2>2. QED BY <1>2, <2>1, SlackBound
<1>3. QED BY <1>1, <1>2

LEMMA AnnounceWrites ==
  ASSUME Announce
  PROVE  \E bad \in BOOLEAN : Faulty(bad) /\ Writes(bad)
<1>1. PICK fails \in {"none", "cache", "shared"} :
        /\ Faulty(fails # "none")
        /\ cache' \in IF fails = "cache" THEN {cache, NoToken} ELSE {tok}
  BY DEF Announce
<1>2. Writes(fails # "none")
  BY <1>1 DEF Writes
<1>3. QED BY <1>1, <1>2

LEMMA NotBoth == Serve \/ Tick => ~Start
  BY DEF Start, Serve, Tick

LEMMA AgentCause ==
  ASSUME SessionInv, CauseInv, Start \/ Serve \/ Tick
  PROVE  CauseInv'
<1>1. UNCHANGED <<os, place, gen, fwd, cli>>
  BY DEF Start, Serve, Tick, agent
<1>0. PICK bad \in BOOLEAN :
        /\ Faulty(bad)
        /\ ~Start => Writes(bad)
  <2>1. CASE Start
    BY <2>1 DEF Start
  <2>2. CASE Serve \/ Tick
    BY <2>2, AnnounceWrites DEF Serve, Tick
  <2>3. QED BY <2>1, <2>2, NotBoth
<1>7. cause' = {} => cause = {} /\ (Start => tok' = (IF next # NoToken THEN next ELSE Own(gen)) \/ ~pre \/ at = "idle")
  BY DEF Start, Serve, Tick
<1>2. /\ t'.step = t.step /\ t'.wait = t.wait /\ t'.read = t.read /\ t'.dial = t.dial
      /\ t'.rej = t.rej /\ t'.hook = t.hook /\ t'.boot = t.boot
      /\ t'.tick = IF Start THEN t.tick ELSE TickTime
  <2>1. CASE Start
    BY <2>1 DEF Start
  <2>2. CASE ~Start
    BY <2>2, Numbers DEF Serve, Tick, Timers
  <2>3. QED BY <2>1, <2>2
<1>3. Clocks'
  <2>1. tok' # NoToken
    BY DEF CauseInv, Clocks, Start, Serve, Tick, agent, Own, NoToken
  <2>2. QED BY <1>1, <1>2, <2>1, Numbers DEF CauseInv, Clocks, cli
<1>4. GivesUpForCause'
  BY <1>1, <1>7 DEF CauseInv, GivesUpForCause, cli
<1>5. ASSUME at # "idle", cause' = {}
      PROVE  Living' /\ Handed' /\ InTime'
  <2> DEFINE n == Need'
             s == Slack'
  <2>1. Living /\ Handed /\ InTime
    BY <1>5, <1>7 DEF CauseInv, FailsForCause
  <2>2. UNCHANGED <<at, hand, pre, conn, fwd, asleep>>
    BY <1>1 DEF cli, Start, Serve, Tick, agent
  <2>3. Living'
    <3>1. tok' = tok \/ app # "serving"
      BY DEF Start, Serve, Tick, agent
    <3>2. (app' = "gone" <=> app = "gone") /\ (app = "serving" => app' = "serving")
      BY DEF Start, Serve, Tick, agent
    <3>3. QED BY <1>2, <2>1, <2>2, <3>1, <3>2 DEF Living
  <2>4. Handed'
    <3>1. CASE Start
      <4>1. pre => tok' = (IF next # NoToken THEN next ELSE Own(gen))
        BY <1>5, <1>7, <3>1
      <4>2. app = "booting" /\ app' = "bound"
        BY <3>1 DEF Start
      <4>3. QED BY <2>1, <2>2, <4>1, <4>2 DEF Handed, Living, Seeking
    <3>2. CASE Serve \/ Tick
      BY <2>1, <2>2, <3>2 DEF Handed, Seeking, Serve, Tick, agent
    <3>3. QED BY <3>1, <3>2
  <2>9. s \in Nat /\ s <= Slack /\ Slack \in Nat /\ (bad => s + Cost = Slack) /\ (~bad => s = Slack)
    BY <1>0, FaultySlack, SlackBound
  <2>5. (n + s <= Need + Slack /\ n \in Nat) \/ at \notin {"read", "dial", "refresh"}
    <3> HIDE DEF s
    <3> SUFFICES ASSUME at \in {"read", "dial", "refresh"} PROVE n + s <= Need + Slack /\ n \in Nat
      OBVIOUS
    <3>1. t.wait \in {0, 1} /\ t.boot >= 0 /\ t.tick >= 0 /\ t.hook >= 0
      BY <2>1, Numbers DEF InTime, Deadlines, CauseInv, Clocks
    <3>2. Booting = 0 /\ Booting' = 0
      BY <1>2 DEF Start, Serve, Tick, Booting, agent
    <3>3. Linking' <= Linking /\ Linking \in Nat /\ Linking' \in Nat
      <4>1. UNCHANGED <<fwd, at>> /\ t'.wait = t.wait /\ t'.hook = t.hook
            /\ (app' = "serving" \/ app # "serving")
        BY <1>2, <2>2 DEF Start, Serve, Tick, agent
      <4>2. CASE fwd
        BY <3>1, <4>1, <4>2, Numbers DEF Linking
      <4>3. CASE ~fwd
        BY <3>1, <4>1, <4>3, Numbers DEF Linking, Larger
      <4>4. QED BY <4>2, <4>3
    <3>4. Admission' + s <= Admission + Slack /\ Admission \in Nat /\ Admission' \in Nat
      <4>1. CASE Start
        <5>1. Admission = 1 /\ Admission' = 1
          BY <4>1 DEF Start, Admission
        <5>2. QED BY <2>9, <5>1
      <4>2. CASE Serve \/ Tick
        <5>1. /\ app' = "serving" /\ tok' = tok /\ Writes(bad)
              /\ app = "serving" => t.tick = 0
              /\ UNCHANGED <<at, hand>> /\ t'.wait = t.wait /\ t'.tick = TickTime
          BY <1>0, <1>2, <2>2, <4>2, NotBoth DEF Serve, Tick, agent
        <5>2. Admission \in Nat
          BY <3>1, Numbers DEF Admission
        <5>3. Admission' \in Nat /\ Admission' <= TickTime + 1
          BY <3>1, <5>1, Numbers DEF Admission
        <5> DEFINE x == Admission
                   y == Admission'
                   z == Slack
                   c == Cost
        <5>4. CASE bad
          <6>1. /\ x \in Nat /\ y \in Nat /\ y <= TickTime + 1 /\ s \in Nat /\ z \in Nat
                /\ s + c = z /\ c \in Nat /\ c >= TickTime + 1 /\ TickTime \in Nat
            BY <2>9, <5>2, <5>3, <5>4, CostBound, Numbers
          <6> HIDE DEF x, y, z, c
          <6>2. y + s <= x + z
            BY <6>1
          <6>3. QED BY <6>1, <6>2 DEF x, y, z
        <5>5. CASE ~bad
          <6>1. cache' = tok
            BY <5>1, <5>5 DEF Writes
          <6>2. Admission' <= Admission
            <7>1. CASE app = "serving"
              BY <3>1, <5>1, <6>1, <7>1 DEF Admission
            <7>2. CASE app # "serving"
              BY <3>1, <5>1, <6>1, <7>2 DEF Admission
            <7>3. QED BY <7>1, <7>2
          <6>3. x \in Nat /\ y \in Nat /\ y <= x /\ s \in Nat /\ z \in Nat /\ s = z
            BY <2>9, <5>2, <5>3, <5>5, <6>2
          <6> HIDE DEF x, y, z
          <6>4. y + s <= x + z
            BY <6>3
          <6>5. QED BY <6>3, <6>4 DEF x, y, z
        <5>6. QED BY <5>4, <5>5
      <4>3. QED BY <4>1, <4>2
    <3> DEFINE b == Booting'
               l == Linking'
               a == Admission'
    <3>5. n = b + l + a /\ b = 0 /\ a \in Nat /\ l \in Nat /\ l <= Linking /\ a + s <= Admission + Slack
      BY <3>2, <3>3, <3>4 DEF Need
    <3> HIDE DEF n, b, l, a
    <3>6. Need = Linking + Admission
      BY <3>2, <3>3, <3>4 DEF Need
    <3>7. QED BY <2>9, <3>3, <3>4, <3>5, <3>6
  <2>7. InTime'
    <3>1. CASE at \in {"read", "dial", "refresh"}
      <4>1. n \in Nat /\ n + s <= Need + Slack
        BY <2>5, <3>1
      <4>2. n = Need' /\ s = Slack'
        OBVIOUS
      <4> HIDE DEF n, s
      <4>3. QED BY <1>2, <2>1, <2>2, <2>9, <4>1, <4>2, StaysInTime DEF CauseInv
    <3>2. CASE at \notin {"read", "dial", "refresh"}
      <4>1. Deadlines(at, t, Need, Slack)
        BY <2>1 DEF InTime
      <4> HIDE DEF s
      <4>2. Deadlines(at, t', n, s)
        BY <1>2, <2>9, <3>2, <4>1, Numbers, CostBound DEF Deadlines
      <4>3. QED BY <2>2, <4>2 DEF InTime, s
    <3>3. QED BY <3>1, <3>2
  <2>8. QED BY <2>3, <2>4, <2>7
<1>6. QED BY <1>1, <1>3, <1>4, <1>5 DEF CauseInv, FailsForCause, cli

(* What the steps of a recovery have in common: it ends ... *)
LEMMA EndsCause ==
  ASSUME SessionInv, CauseInv, NEW how, Ends(how), UNCHANGED <<os, tok>>, os = "ios" => fwd',
         how = "failed" => cause' # {}
  PROVE  CauseInv'
<1>1. at' = "idle" /\ out' = how /\ t' = [NoTimers EXCEPT !.tick = t.tick, !.boot = t.boot]
  BY DEF Ends
<1>2. t'.boot = t.boot /\ t'.tick = t.tick /\ t'.hook = 0 /\ t'.rej = Off /\ t'.read = 0 /\ t'.dial = 0
  BY <1>1 DEF NoTimers
<1>3. Clocks'
  BY <1>2, Numbers DEF CauseInv, Clocks
<1>4. QED BY <1>1, <1>3 DEF CauseInv, FailsForCause, GivesUpForCause

(* ... or goes on. *)
ClocksOf(x) ==
  /\ x.boot \in 0..BootTime /\ x.tick \in 0..TickTime /\ x.hook \in 0..HookTime
  /\ x.rej >= Off /\ x.read >= 0 /\ x.dial >= 0

LEMMA GoesCause ==
  ASSUME SessionInv, CauseInv, at # "idle", NEW p, p # "idle", NEW x, GoTo(p, x), ClocksOf(x),
         UNCHANGED <<os, tok>>, os = "ios" => fwd', NEW n, NEW s, n = Need', s = Slack',
         cause' = {} => Living' /\ Handed' /\ Deadlines(p, x, n, s)
  PROVE  CauseInv'
<1>1. at' = p /\ t' = x /\ out' = "none"
  BY DEF GoTo, SessionInv, Restarted
<1>2. Clocks'
  BY <1>1 DEF CauseInv, Clocks, ClocksOf
<1>3. cause' = {} => InTime'
  BY <1>1 DEF InTime
<1>4. QED BY <1>1, <1>2, <1>3 DEF CauseInv, FailsForCause, GivesUpForCause

LEMMA BackoffCause ==
  ASSUME SessionInv, CauseInv, Backoff
  PROVE  CauseInv'
<1>1. at = "wait" /\ UNCHANGED <<os, tok, app, fwd, asleep, pre, hand, cause, faults>>
  BY DEF Backoff, agent
<1>2. os = "ios" => fwd'
  BY <1>1 DEF CauseInv, Clocks
<1>3. CASE Expired
  <2>1. cause # {}
    <3>1. SUFFICES ASSUME cause = {} PROVE FALSE
      OBVIOUS
    <3>2. Deadlines("wait", t, Need, Slack)
      BY <1>1, <3>1 DEF CauseInv, FailsForCause, InTime
    <3>3. t.step > 0
      BY <3>2, Numbers, CostBound, SlackBound DEF Deadlines
    <3>4. QED BY <1>3, <3>3, Numbers DEF Expired
  <2>2. Ends("failed")
    BY <1>3 DEF Backoff
  <2>3. QED BY <1>1, <1>2, <2>1, <2>2, EndsCause
<1>4. CASE ~Expired
  <2> DEFINE n == Need'
             s == Slack'
  <2>1. GoTo("forget", t) /\ t.wait = 0
    BY <1>1, <1>4 DEF Backoff, Ready
  <2>2. ClocksOf(t)
    BY DEF CauseInv, Clocks, ClocksOf
  <2>3. ASSUME cause' = {}
        PROVE  Living' /\ Handed' /\ Deadlines("forget", t, n, s)
    <3>1. cause = {} /\ at # "idle" /\ s = Slack
      BY <1>1, <2>3, SlackStays
    <3>2. Living /\ Handed /\ Deadlines("wait", t, Need, Slack)
      BY <1>1, <3>1 DEF CauseInv, FailsForCause, InTime
    <3>3. at' = "forget" /\ t' = t
      BY <2>1 DEF GoTo
    <3>4. Living' /\ Handed'
      BY <1>1, <3>2, <3>3 DEF Living, Handed, Seeking
    <3> HIDE DEF n, s
    <3>5. Deadlines("forget", t, n, s)
      BY <2>1, <3>1, <3>2, Numbers, CostBound, SlackBound DEF Deadlines
    <3>6. QED BY <3>4, <3>5
  <2>4. n = Need' /\ s = Slack'
    OBVIOUS
  <2> HIDE DEF n, s
  <2>5. QED BY <1>1, <1>2, <2>1, <2>2, <2>3, <2>4, GoesCause
<1>5. QED BY <1>3, <1>4

LEMMA StopAppCause ==
  ASSUME SessionInv, CauseInv, StopApp
  PROVE  CauseInv'
<1>1. at = "stop" /\ UNCHANGED <<os, place, gen, tok, fwd, conn, op, hand, pre>>
  BY DEF StopApp
<1>2. PICK outcome \in {"done", "ignored", "error"} :
       /\ Command(outcome = "done")
       /\ app' = IF outcome = "done" \/ (os = "ios" /\ outcome = "error") THEN "gone" ELSE app
       /\ asleep' = (asleep /\ outcome = "ignored")
       /\ IF outcome = "error"
            THEN Ends("failed") /\ cause' = cause \cup {"command"}
            ELSE GoTo("launch", t) /\ cause' = IF outcome = "done" THEN cause ELSE cause \cup {"terminate"}
       /\ IF op = "clear" /\ outcome # "error"
            THEN cache' = NoToken /\ next' = NoToken
            ELSE UNCHANGED <<cache, next>>
  BY DEF StopApp
<1>3. os = "ios" => fwd'
  BY <1>1 DEF CauseInv, Clocks
<1>4. CASE outcome = "error"
  BY <1>1, <1>2, <1>3, <1>4, EndsCause
<1>5. CASE outcome # "error"
  <2> DEFINE n == Need'
             s == Slack'
  <2>1. GoTo("launch", t) /\ ClocksOf(t)
    BY <1>2, <1>5 DEF CauseInv, Clocks, ClocksOf
  <2>2. ASSUME cause' = {}
        PROVE  Living' /\ Handed' /\ Deadlines("launch", t, n, s)
    <3>1. outcome = "done" /\ cause = {} /\ at # "idle"
      BY <1>1, <1>2, <1>5, <2>2
    <3>2. s = Slack
      BY <1>2, <3>1, SlackStays DEF Command
    <3>3. Living /\ Handed /\ Deadlines("stop", t, Need, Slack)
      BY <1>1, <3>1 DEF CauseInv, FailsForCause, InTime
    <3>4. at' = "launch" /\ t' = t /\ app' = "gone"
      BY <1>2, <2>1, <3>1 DEF GoTo
    <3>5. Living'
      BY <1>1, <3>3, <3>4 DEF Living, Seeking
    <3>6. Handed'
      <4>1. pre => op # "clear"
        BY DEF SessionInv, Restarted
      <4>2. QED BY <1>1, <1>2, <3>3, <3>4, <4>1 DEF Handed, Seeking
    <3> HIDE DEF n, s
    <3>7. Deadlines("launch", t, n, s)
      BY <3>2, <3>3 DEF Deadlines
    <3>8. QED BY <3>5, <3>6, <3>7
  <2>3. n = Need' /\ s = Slack'
    OBVIOUS
  <2> HIDE DEF n, s
  <2>4. QED BY <1>1, <1>3, <2>1, <2>2, <2>3, GoesCause
<1>6. QED BY <1>4, <1>5

(* A command that fails in time is a fault. *)
LEMMA CommandFaults ==
  ASSUME SessionInv, NEW ok \in BOOLEAN, Command(ok), ~Expired
  PROVE  /\ ok => faults' = faults
         /\ ~ok => faults' = faults + 1 /\ faults < MaxFaults
<1>1. CASE ok
  BY <1>1 DEF Command
<1>2. CASE ~ok
  <2>1. faults < MaxFaults
    <3>1. SUFFICES ASSUME ~(faults < MaxFaults) PROVE FALSE
      OBVIOUS
    <3>2. ok \in {TRUE}
      BY <3>1 DEF Command
    <3>3. QED BY <1>2, <3>2
  <2>2. faults' = faults + 1
    BY <1>2 DEF Command
  <2>3. QED BY <1>2, <2>1, <2>2
<1>3. QED BY <1>1, <1>2

LEMMA CommandSlack ==
  ASSUME SessionInv, NEW ok \in BOOLEAN, Command(ok), ~Expired, NEW s, s = Slack'
  PROVE  s \in Nat /\ s <= Slack /\ (~ok => s + Cost = Slack /\ faults < MaxFaults)
<1>1. CASE ok
  <2>1. s = Slack
    BY <1>1, CommandFaults, SlackStays
  <2>2. QED BY <1>1, <2>1, SlackBound
<1>2. CASE ~ok
  <2>1. s + Cost = Slack /\ s \in Nat /\ faults < MaxFaults
    BY <1>2, CommandFaults, SlackFalls
  <2>2. Cost \in Nat /\ Slack \in Nat
    BY CostBound, SlackBound
  <2>3. \A a, b, c \in Nat : a + b = c => a <= c
    OBVIOUS
  <2>4. s <= Slack
    BY <2>1, <2>2, <2>3, Zenon
  <2>5. QED BY <1>2, <2>1, <2>4
<1>3. QED BY <1>1, <1>2

LEMMA LaunchAppCause ==
  ASSUME SessionInv, CauseInv, LaunchApp
  PROVE  CauseInv'
<1>1. at = "launch" /\ UNCHANGED <<os, place, tok, next, files, fwd, conn, op, hand, pre>>
  BY DEF LaunchApp
<1>2. PICK ok \in BOOLEAN, n0 \in 0..BootTime :
       /\ Command(ok)
       /\ app' = IF ok /\ app = "gone" THEN "booting" ELSE app
       /\ asleep' = (asleep /\ ~ok)
       /\ IF ok
            THEN /\ UNCHANGED cause
                 /\ IF pre THEN GoTo("settle", [t EXCEPT !.boot = n0, !.wait = ReconnectDelay])
                           ELSE GoTo("forget", [t EXCEPT !.boot = n0])
            ELSE Ends("failed") /\ cause' = cause \cup {"command"}
  BY DEF LaunchApp
<1>3. os = "ios" => fwd'
  BY <1>1 DEF CauseInv, Clocks
<1>4. CASE ~ok
  BY <1>1, <1>2, <1>3, <1>4, EndsCause
<1>5. CASE ok
  <2> DEFINE n == Need'
             s == Slack'
             p == IF pre THEN "settle" ELSE "forget"
             x == IF pre THEN [t EXCEPT !.boot = n0, !.wait = ReconnectDelay] ELSE [t EXCEPT !.boot = n0]
  <2>1. GoTo(p, x)
    BY <1>2, <1>5
  <2>2. /\ x.boot = n0 /\ x.wait = (IF pre THEN ReconnectDelay ELSE t.wait) /\ x.step = t.step
        /\ x.read = t.read /\ x.dial = t.dial /\ x.rej = t.rej /\ x.hook = t.hook /\ x.tick = t.tick
    <3> DEFINE y == [t EXCEPT !.boot = n0, !.wait = ReconnectDelay]
               z == [t EXCEPT !.boot = n0]
    <3>1. /\ y.boot = n0 /\ y.wait = ReconnectDelay /\ y.step = t.step
          /\ y.read = t.read /\ y.dial = t.dial /\ y.rej = t.rej /\ y.hook = t.hook /\ y.tick = t.tick
      BY Numbers DEF Timers
    <3>2. /\ z.boot = n0 /\ z.wait = t.wait /\ z.step = t.step
          /\ z.read = t.read /\ z.dial = t.dial /\ z.rej = t.rej /\ z.hook = t.hook /\ z.tick = t.tick
      BY Numbers DEF Timers
    <3>3. (pre => x = y) /\ (~pre => x = z)
      OBVIOUS
    <3> HIDE DEF x, y, z
    <3>4. QED BY <3>1, <3>2, <3>3
  <2>3. p # "idle" /\ p \in {"settle", "forget"} /\ (p = "settle" <=> pre)
    OBVIOUS
  <2>4. n = Need' /\ s = Slack'
    OBVIOUS
  <2> HIDE DEF n, s, p, x
  <2>5. ClocksOf(x)
    BY <2>2 DEF CauseInv, Clocks, ClocksOf
  <2>6. ASSUME cause' = {}
        PROVE  Living' /\ Handed' /\ Deadlines(p, x, n, s)
    <3>1. cause = {} /\ at # "idle"
      BY <1>1, <1>2, <1>5, <2>6
    <3>2. Living /\ Handed /\ Deadlines("launch", t, Need, Slack)
      BY <1>1, <3>1 DEF CauseInv, FailsForCause, InTime
    <3>3. at' = p /\ t' = x /\ app' = "booting" /\ ~asleep'
      BY <1>1, <1>2, <1>5, <2>1, <3>2 DEF GoTo, Living
    <3>4. ~Expired
      BY <1>2, <1>5, CommandTyped
    <3>5. s = Slack
      BY <1>2, <1>5, <2>4, <3>4, CommandFaults, SlackStays
    <3>6. Living' /\ Handed'
      BY <1>1, <2>2, <2>3, <3>2, <3>3 DEF Living, Handed, Seeking
    <3>7. Deadlines(p, x, n, s)
      BY <2>2, <2>3, <3>2, <3>5, Numbers, CostBound, SlackBound DEF Deadlines
    <3>8. QED BY <3>6, <3>7
  <2>7. QED BY <1>1, <1>3, <2>1, <2>3, <2>4, <2>5, <2>6, GoesCause
<1>6. QED BY <1>4, <1>5

LEMMA ForgetCause ==
  ASSUME SessionInv, CauseInv, Forget
  PROVE  CauseInv'
<1>1. at = "forget" /\ UNCHANGED <<os, place, app, gen, tok, next, conn, op, hand, pre>>
  BY DEF Forget
<1>2. PICK failed \in SUBSET Commands :
       /\ Command(failed = {})
       /\ fwd' = (fwd \/ "forward" \notin failed)
       /\ asleep' = (asleep /\ "wake" \in failed)
       /\ cause' = IF asleep /\ "wake" \in failed THEN cause \cup {"command"} ELSE cause
  BY DEF Forget
<1>3. os = "ios" => fwd'
  BY <1>2 DEF CauseInv, Clocks
<1> DEFINE n == Need'
           s == Slack'
           x == [t EXCEPT !.wait = ReconnectDelay]
<1>4. GoTo("settle", x)
  BY DEF Forget
<1>5. /\ x.wait = ReconnectDelay /\ x.step = t.step /\ x.boot = t.boot
      /\ x.read = t.read /\ x.dial = t.dial /\ x.rej = t.rej /\ x.hook = t.hook /\ x.tick = t.tick
  BY Numbers DEF Timers
<1>6. n = Need' /\ s = Slack'
  OBVIOUS
<1> HIDE DEF n, s, x
<1>7. ClocksOf(x)
  BY <1>5 DEF CauseInv, Clocks, ClocksOf
<1>8. ASSUME cause' = {}
      PROVE  Living' /\ Handed' /\ Deadlines("settle", x, n, s)
  <2>1. cause = {} /\ at # "idle" /\ ~(asleep /\ "wake" \in failed)
    BY <1>1, <1>2, <1>8
  <2>2. Living /\ Handed /\ Deadlines("forget", t, Need, Slack)
    BY <1>1, <2>1 DEF CauseInv, FailsForCause, InTime
  <2>3. ~Expired
    BY <2>2, Numbers, CostBound, SlackBound DEF Deadlines, Expired
  <2>4. s \in Nat /\ s <= Slack
    BY <1>2, <1>6, <2>3, CommandSlack
  <2>5. at' = "settle" /\ t' = x /\ ~asleep'
    BY <1>2, <1>4, <2>1 DEF GoTo
  <2>6. Living' /\ Handed'
    BY <1>1, <1>5, <2>2, <2>5 DEF Living, Handed, Seeking
  <2>7. Deadlines("settle", x, n, s)
    BY <1>5, <2>2, <2>4, Numbers, CostBound, SlackBound DEF Deadlines
  <2>8. QED BY <2>6, <2>7
<1>9. QED BY <1>1, <1>3, <1>4, <1>6, <1>7, <1>8, GoesCause

LEMMA SettledCause ==
  ASSUME SessionInv, TimesSuffice, CauseInv, Settled
  PROVE  CauseInv'
<1>1. at = "settle" /\ t.wait = 0
      /\ UNCHANGED <<os, place, app, asleep, gen, tok, next, cache, fwd, conn, op, hand, pre, cause, faults>>
  BY DEF Settled, Ready, agent, files
<1>2. os = "ios" => fwd'
  BY <1>1 DEF CauseInv, Clocks
<1> DEFINE n == Need'
           s == Slack'
           d == IF pre THEN DialTime ELSE 0
           p == IF pre THEN "dial" ELSE "read"
           x == [t EXCEPT !.read = TokenTime, !.dial = d]
<1>3. GoTo(p, x)
  BY DEF Settled
<1>4. /\ x.wait = t.wait /\ x.step = t.step /\ x.boot = t.boot
      /\ x.read = TokenTime /\ x.dial = d /\ x.rej = t.rej /\ x.hook = t.hook /\ x.tick = t.tick
  <2> HIDE DEF d
  <2>1. QED BY Numbers DEF Timers
<1>5. p # "idle" /\ (pre => p = "dial" /\ d = DialTime) /\ (~pre => p = "read" /\ d = 0) /\ s = Slack
  BY <1>1, SlackStays
<1>6. n = Need' /\ s = Slack'
  OBVIOUS
<1> HIDE DEF s, x, p, d
<1>7. ClocksOf(x)
  BY <1>4, <1>5, Numbers DEF CauseInv, Clocks, ClocksOf
<1>8. ASSUME cause' = {}
      PROVE  Living' /\ Handed' /\ Deadlines(p, x, n, s)
  <2>1. cause = {} /\ at # "idle"
    BY <1>1, <1>8
  <2>2. Living /\ Handed /\ Deadlines("settle", t, Need, Slack)
    BY <1>1, <2>1 DEF CauseInv, FailsForCause, InTime
  <2>3. at' = p /\ t' = x
    BY <1>3 DEF GoTo
  <2>4. Living' /\ Handed'
    BY <1>1, <1>4, <1>5, <2>2, <2>3 DEF Living, Handed, Seeking
  <2>5. n \in Nat /\ n <= Longest
    <3> DEFINE b == Booting'
               l == Linking'
               a == Admission'
    <3>1. t.hook = 0
      BY <1>1, <2>2 DEF Living
    <3>2. app # "gone" /\ p \in {"read", "dial"} /\ t.boot \in 0..BootTime /\ t.tick \in 0..TickTime
      BY <1>1, <1>5, <2>2 DEF Living, Seeking, CauseInv, Clocks
    <3>3. b \in Nat /\ b <= BootTime /\ (app = "serving" => b = 0)
      BY <1>1, <1>4, <2>3, <3>2, Numbers DEF Booting
    <3>4. l \in {0, 1}
      BY <1>1, <1>4, <2>3, <3>1, <3>2 DEF Linking, Larger
    <3>5. a \in Nat /\ a <= TickTime + 1 /\ (app # "serving" => a = 1)
      BY <1>1, <1>4, <2>3, <3>2, Numbers DEF Admission
    <3>6. n = b + l + a
      BY DEF Need
    <3> HIDE DEF n, b, l, a
    <3>7. QED BY <3>3, <3>4, <3>5, <3>6, Numbers, CostBound
  <2> HIDE DEF n
  <2>6. Slack \in Nat /\ Slack <= Cost * MaxFaults /\ Cost * MaxFaults \in Nat
    BY SlackBound
  <2>7. TokenTime >= n + s /\ DialTime > n + s
    <3> DEFINE c == Cost * MaxFaults
    <3>1. TokenTime >= Longest + c /\ DialTime > Longest + c /\ c \in Nat /\ Slack \in Nat /\ Slack <= c
      BY <2>6 DEF TimesSuffice
    <3> HIDE DEF c
    <3>2. QED BY <1>5, <2>5, <3>1, Numbers, CostBound
  <2>8. t.step > n + s
    BY <1>1, <1>5, <2>2, <2>5, <2>6, Numbers, CostBound DEF Deadlines
  <2>9. x.rej = Off
    BY <1>1, <1>4, <2>2 DEF Living
  <2>10. Deadlines(p, x, n, s)
    BY <1>1, <1>4, <1>5, <2>7, <2>8, <2>9 DEF Deadlines
  <2>11. QED BY <2>4, <2>10
<1>9. QED BY <1>1, <1>2, <1>3, <1>5, <1>6, <1>7, <1>8, GoesCause

(* A token the agent has written is read unless a command fails. *)
LEMMA RoundSlack ==
  ASSUME SessionInv, CauseInv, NEW token, Round(token), ~Expired, NEW s, s = Slack'
  PROVE  s \in Nat /\ s <= Slack /\ (cache = tok /\ token # tok => s + Cost = Slack)
<1>1. PICK ok \in BOOLEAN :
        /\ os = "android" => Command(ok)
        /\ os = "ios" => ok /\ UNCHANGED faults
        /\ token = Found(ok) \/ (~ok /\ token = NoToken)
  BY DEF Round
<1>2. cache = tok /\ token # tok => ~ok
  <2>1. SUFFICES ASSUME cache = tok, ok PROVE token = tok
    OBVIOUS
  <2>2. Found(ok) = cache
    BY <2>1 DEF CauseInv, Clocks, Found, First
  <2>3. QED BY <1>1, <2>1, <2>2
<1>3. CASE os = "android"
  BY <1>1, <1>2, <1>3, CommandSlack
<1>4. CASE os = "ios"
  <2>1. s = Slack /\ ok
    BY <1>1, <1>4, SlackStays
  <2>2. QED BY <1>2, <2>1, SlackBound
<1>5. QED BY <1>3, <1>4 DEF SessionInv, Typed

LEMMA ReadTokenCause ==
  ASSUME SessionInv, TimesSuffice, CauseInv, ReadToken
  PROVE  CauseInv'
<1>1. at = "read" /\ Ready
      /\ UNCHANGED <<os, place, app, asleep, gen, tok, next, cache, fwd, conn, op, pre, cause>>
  BY DEF ReadToken, agent, files
<1>2. PICK token \in {NoToken, cache, shared, log} :
       /\ Round(token)
       /\ hand' = token
       /\ \/ token # NoToken /\ GoTo("dial", [t EXCEPT !.dial = DialTime, !.rej = Off, !.hook = 0])
          \/ token = NoToken /\ t.read > 0 /\ ~Expired /\ GoTo("read", [t EXCEPT !.wait = 1])
          \/ token = NoToken /\ (t.read = 0 \/ Expired) /\ Ends("failed")
  BY DEF ReadToken
<1>3. os = "ios" => fwd'
  BY <1>1 DEF CauseInv, Clocks
<1> DEFINE n == Need'
           s == Slack'
<1>4. n = Need' /\ s = Slack'
  OBVIOUS
<1> HIDE DEF n, s
<1>5. ASSUME cause = {}
      PROVE  /\ Living /\ ~pre /\ Deadlines("read", t, Need, Slack) /\ Need \in Nat /\ Slack \in Nat
             /\ ~Expired /\ t.wait = 0 /\ s \in Nat /\ s <= Slack
             /\ cache = tok /\ token # tok => s + Cost = Slack
             /\ app \in {"booting", "bound", "serving"}
  <2>1. Living /\ Handed /\ Deadlines("read", t, Need, Slack)
    BY <1>1, <1>5 DEF CauseInv, FailsForCause, InTime
  <2>2. Need \in Nat /\ Slack \in Nat
    BY <2>1, NeedBound, SlackBound DEF CauseInv, Deadlines
  <2>3. ~Expired
    BY <2>1, <2>2, Numbers DEF Deadlines, Expired
  <2>4. t.wait = 0
    BY <1>1, <2>3 DEF Ready
  <2>5. ~pre
    BY <1>1, <2>1 DEF Handed
  <2>6. app \in {"booting", "bound", "serving"}
    BY <1>1, <2>1 DEF Living, Seeking, SessionInv, Typed
  <2>7. s \in Nat /\ s <= Slack /\ (cache = tok /\ token # tok => s + Cost = Slack)
    BY <1>2, <1>4, <2>3, RoundSlack
  <2>8. QED BY <2>1, <2>2, <2>3, <2>4, <2>5, <2>6, <2>7
<1>6. t.boot \in 0..BootTime /\ t.tick \in 0..TickTime
  BY DEF CauseInv, Clocks
<1>7. CASE token # NoToken /\ GoTo("dial", [t EXCEPT !.dial = DialTime, !.rej = Off, !.hook = 0])
  <2> DEFINE x == [t EXCEPT !.dial = DialTime, !.rej = Off, !.hook = 0]
  <2>1. GoTo("dial", x)
    BY <1>7
  <2>2. /\ x.wait = t.wait /\ x.step = t.step /\ x.boot = t.boot /\ x.tick = t.tick
        /\ x.read = t.read /\ x.dial = DialTime /\ x.rej = Off /\ x.hook = 0
    BY Numbers DEF Timers
  <2> HIDE DEF x
  <2>3. ClocksOf(x)
    BY <2>2, Numbers DEF CauseInv, Clocks, ClocksOf
  <2>4. ASSUME cause' = {}
        PROVE  Living' /\ Handed' /\ Deadlines("dial", x, n, s)
    <3>1. cause = {}
      BY <1>1, <2>4
    <3>2. at' = "dial" /\ t' = x
      BY <2>1 DEF GoTo
    <3>3. Living' /\ Handed'
      BY <1>1, <1>5, <2>2, <3>1, <3>2 DEF Living, Handed, Seeking
    <3> DEFINE b == Booting'
               l == Linking'
               a == Admission'
    <3>4. b = Booting /\ Booting \in Nat /\ Booting <= BootTime /\ (app = "serving" => b = 0)
      BY <1>1, <1>6, <2>2, <3>2, Numbers DEF Booting
    <3>5. l = Linking /\ Linking \in {0, 1}
      BY <1>1, <1>5, <2>2, <3>1, <3>2 DEF Linking, Larger
    <3>6. /\ a \in Nat /\ Admission \in Nat /\ a <= TickTime + 1 /\ (app # "serving" => a = 1)
          /\ a <= Admission \/ (cache = tok /\ token # tok /\ a = Admission + 1)
      BY <1>1, <1>2, <1>5, <1>6, <2>2, <3>1, <3>2, Numbers DEF Admission
    <3>7. n = b + l + a
      BY <1>4 DEF Need
    <3> HIDE DEF b, l, a
    <3>8. n \in Nat /\ n <= Longest /\ (n <= Need \/ (cache = tok /\ token # tok /\ n = Need + 1))
      BY <3>4, <3>5, <3>6, <3>7, Numbers, CostBound DEF Need
    <3>9. n + s <= Need + Slack
      BY <1>5, <3>1, <3>8, Numbers, CostBound
    <3>10. DialTime > n + s
      <4> DEFINE c == Cost * MaxFaults
      <4>1. DialTime > Longest + c /\ Slack <= c /\ c \in Nat
        BY SlackBound DEF TimesSuffice
      <4> HIDE DEF c
      <4>2. QED BY <1>5, <3>1, <3>8, <4>1, Numbers, CostBound
    <3>11. Deadlines("dial", x, n, s)
      BY <1>5, <2>2, <3>1, <3>8, <3>9, <3>10, Numbers DEF Deadlines
    <3>12. QED BY <3>3, <3>11
  <2>5. QED BY <1>1, <1>3, <1>4, <2>1, <2>3, <2>4, GoesCause
<1>8. CASE token = NoToken /\ ~Expired /\ GoTo("read", [t EXCEPT !.wait = 1])
  <2> DEFINE x == [t EXCEPT !.wait = 1]
  <2>1. GoTo("read", x)
    BY <1>8
  <2>2. /\ x.wait = 1 /\ x.step = t.step /\ x.boot = t.boot /\ x.tick = t.tick
        /\ x.read = t.read /\ x.dial = t.dial /\ x.rej = t.rej /\ x.hook = t.hook
    BY Numbers DEF Timers
  <2> HIDE DEF x
  <2>3. ClocksOf(x)
    BY <2>2, Numbers DEF CauseInv, Clocks, ClocksOf
  <2>4. ASSUME cause' = {}
        PROVE  Living' /\ Handed' /\ Deadlines("read", x, n, s)
    <3>1. cause = {}
      BY <1>1, <2>4
    <3>2. at' = "read" /\ t' = x
      BY <2>1 DEF GoTo
    <3>3. Living' /\ Handed'
      BY <1>1, <1>5, <2>2, <3>1, <3>2 DEF Living, Handed, Seeking
    <3>4. token # tok
      BY <1>8 DEF CauseInv, Clocks
    <3> DEFINE b == Booting'
               l == Linking'
               a == Admission'
    <3>5. b = Booting /\ Booting \in Nat
      BY <1>1, <1>6, <2>2, <3>2, Numbers DEF Booting
    <3>6. l = Linking /\ Linking \in {0, 1}
      BY <1>1, <1>5, <2>2, <3>1, <3>2 DEF Linking
    <3>7. a \in Nat /\ Admission \in Nat /\ (a <= Admission \/ (cache = tok /\ a = Admission + 1))
      BY <1>1, <1>5, <1>6, <2>2, <3>1, <3>2, Numbers DEF Admission
    <3>8. n = b + l + a
      BY <1>4 DEF Need
    <3> HIDE DEF b, l, a
    <3>9. n \in Nat /\ (n <= Need \/ (cache = tok /\ n = Need + 1))
      BY <3>5, <3>6, <3>7, <3>8, Numbers DEF Need
    <3>10. n + s <= Need + Slack
      BY <1>5, <3>1, <3>4, <3>9, Numbers, CostBound
    <3>11. Deadlines("read", x, n, s)
      BY <1>5, <2>2, <3>1, <3>9, <3>10, Numbers DEF Deadlines
    <3>12. QED BY <3>3, <3>11
  <2>5. QED BY <1>1, <1>3, <1>4, <2>1, <2>3, <2>4, GoesCause
<1>9. CASE token = NoToken /\ (t.read = 0 \/ Expired) /\ Ends("failed")
  <2>1. cause # {}
    <3>1. SUFFICES ASSUME cause = {} PROVE FALSE
      OBVIOUS
    <3>2. t.read = 0
      BY <1>5, <1>9, <3>1
    <3>3. Need = 0 /\ Slack = 0
      BY <1>5, <3>1, <3>2, Numbers DEF Deadlines
    <3>4. Booting \in Nat /\ Linking \in Nat /\ Admission \in Nat
      BY <1>1, <1>5, <1>6, <3>1, Numbers DEF Booting, Linking, Admission
    <3>5. Admission = 0
      BY <3>3, <3>4 DEF Need
    <3>6. cache = tok
      BY <1>1, <1>6, <3>5, Numbers DEF Admission
    <3>7. token # tok
      BY <1>9 DEF CauseInv, Clocks
    <3>8. s \in Nat /\ s + Cost = 0
      BY <1>5, <3>1, <3>3, <3>6, <3>7
    <3>9. QED BY <3>8, Numbers, CostBound
  <2>2. QED BY <1>1, <1>3, <1>9, <2>1, EndsCause
<1>10. QED BY <1>2, <1>7, <1>8, <1>9

(* The end of a dial, which has a cause. *)
LEMMA AbandonCause ==
  ASSUME SessionInv, CauseInv, at = "dial", NEW e, Abandon(e), UNCHANGED <<os, tok, fwd, cause>>, cause # {}
  PROVE  CauseInv'
<1>1. os = "ios" => fwd'
  BY DEF CauseInv, Clocks
<1>2. cause' # {}
  OBVIOUS
<1>3. CASE GoTo("dial", [t EXCEPT !.wait = 2, !.dial = DialTime + 2, !.hook = 0])
  <2> DEFINE x == [t EXCEPT !.wait = 2, !.dial = DialTime + 2, !.hook = 0]
  <2>1. GoTo("dial", x)
    BY <1>3
  <2>2. x.boot = t.boot /\ x.tick = t.tick /\ x.read = t.read /\ x.dial = DialTime + 2 /\ x.rej = t.rej /\ x.hook = 0
    BY Numbers DEF Timers
  <2> HIDE DEF x
  <2>3. ClocksOf(x)
    BY <2>2, Numbers DEF CauseInv, Clocks, ClocksOf
  <2>4. QED BY <1>1, <1>2, <2>1, <2>3, GoesCause
<1>4. CASE GoTo("stop", t)
  <2>1. ClocksOf(t)
    BY DEF CauseInv, Clocks, ClocksOf
  <2>2. QED BY <1>1, <1>2, <1>4, <2>1, GoesCause
<1>5. CASE Ends("failed")
  BY <1>1, <1>2, <1>5, EndsCause
<1>6. QED BY <1>3, <1>4, <1>5 DEF Abandon

LEMMA DialTimesOutCause ==
  ASSUME SessionInv, CauseInv, DialTimesOut
  PROVE  CauseInv'
<1>1. at = "dial" /\ DialOver /\ UNCHANGED <<os, tok, fwd, cause>>
  BY DEF DialTimesOut, agent
<1>2. os = "ios" => fwd'
  BY <1>1 DEF CauseInv, Clocks
<1>3. cause # {}
  <2>1. SUFFICES ASSUME cause = {} PROVE FALSE
    OBVIOUS
  <2>2. Deadlines("dial", t, Need, Slack)
    BY <1>1, <2>1 DEF CauseInv, FailsForCause, InTime
  <2>3. Need \in Nat /\ Slack \in Nat
    BY <2>2, NeedBound, SlackBound DEF CauseInv, Deadlines
  <2>4. t.dial > 0 /\ t.step > 0
    BY <2>2, <2>3, Numbers DEF Deadlines
  <2>5. QED BY <1>1, <2>4, Numbers DEF DialOver, Expired
<1>4. PICK e : Abandon(e)
  BY DEF DialTimesOut
<1>5. QED BY <1>1, <1>2, <1>3, <1>4, AbandonCause

(* What is needed after a step. *)
NeededThen(n, s) == n = Need' /\ s = Slack'

(* The dial is tried again, or the token is read again, in a second. *)
LEMMA RetryCause ==
  ASSUME SessionInv, CauseInv, Dialling, NEW p \in {"dial", "refresh"}, NEW x, GoTo(p, x),
         x.wait = 1, x.step = t.step, x.dial = t.dial, x.boot = t.boot, x.tick = t.tick,
         x.read \in Nat, x.hook \in 0..HookTime, x.rej \in Int, x.rej >= Off,
         UNCHANGED <<os, tok, app, asleep, next, conn, hand, pre, cause>>, os = "ios" => fwd',
         NEW n, NEW s, NeededThen(n, s),
         cause = {} => /\ n \in Nat /\ s \in Nat /\ n + s <= Need + Slack
                       /\ x.rej # Off => x.rej >= n + s /\ app = "serving"
                       /\ p = "refresh" => app = "serving" /\ hand # tok /\ ~pre /\ x.rej # Off
  PROVE  CauseInv'
<1>1. at = "dial" /\ t.wait = 0 /\ ~Expired
  BY DEF Dialling, DialOver
<1>2. ClocksOf(x)
  BY Numbers DEF CauseInv, Clocks, ClocksOf
<1>3. ASSUME cause' = {}
      PROVE  Living' /\ Handed' /\ Deadlines(p, x, n, s)
  <2>1. Living /\ Handed /\ Deadlines("dial", t, Need, Slack)
    BY <1>1, <1>3 DEF CauseInv, FailsForCause, InTime
  <2>2. at' = p /\ t' = x
    BY DEF GoTo
  <2>3. Living'
    BY <1>1, <1>3, <2>1, <2>2 DEF Living, Seeking
  <2>4. Handed'
    BY <1>1, <1>3, <2>1, <2>2 DEF Handed, Seeking
  <2>5. Need \in Nat /\ Slack \in Nat
    BY <1>1, NeedBound, SlackBound DEF CauseInv
  <2>6. n \in Nat /\ s \in Nat /\ n + s <= Need + Slack /\ (x.rej # Off => x.rej >= n + s)
    BY <1>3
  <2>7. Deadlines(p, x, n, s)
    BY <2>1, <2>5, <2>6, Numbers DEF Deadlines
  <2>8. QED BY <2>3, <2>4, <2>7
<1>4. p # "idle" /\ at # "idle"
  BY <1>1
<1>5. n = Need' /\ s = Slack'
  BY DEF NeededThen
<1>6. QED BY <1>2, <1>3, <1>4, <1>5, GoesCause

(* While nothing has happened, a dial that fails finds an app that starts or *)
(* serves, and the time that is needed is known.                             *)
LEMMA DialCalm ==
  ASSUME SessionInv, CauseInv, Dialling, cause = {}
  PROVE  /\ Living /\ Handed /\ Deadlines("dial", t, Need, Slack) /\ Need \in Nat /\ Slack \in Nat
         /\ app \in {"booting", "bound", "serving"} /\ ~asleep /\ at = "dial" /\ t.wait = 0 /\ ~Expired
<1>1. at = "dial" /\ t.wait = 0 /\ ~Expired
  BY DEF Dialling, DialOver
<1>2. Living /\ Handed /\ Deadlines("dial", t, Need, Slack)
  BY <1>1 DEF CauseInv, FailsForCause, InTime
<1>3. Need \in Nat /\ Slack \in Nat
  BY <1>1, NeedBound, SlackBound DEF CauseInv
<1>4. app \in {"booting", "bound", "serving"} /\ ~asleep
  BY <1>1, <1>2 DEF Living, Seeking, SessionInv, Typed
<1>5. QED BY <1>1, <1>2, <1>3, <1>4

LEMMA RefusedCause ==
  ASSUME SessionInv, CauseInv, Refused
  PROVE  CauseInv'
<1>1. Dialling /\ at = "dial"
      /\ UNCHANGED <<os, tok, app, asleep, next, cache, conn, hand, pre, cause>>
  BY DEF Refused, Dialling, agent, files
<1>2. ~fwd \/ (os = "ios" /\ app \in {"gone", "booting"})
  BY DEF Refused
<1>3. t.boot \in 0..BootTime /\ t.tick \in 0..TickTime /\ t.hook \in 0..HookTime /\ t.read >= 0 /\ t.rej >= Off
  BY DEF CauseInv, Clocks
<1> DEFINE n == Need'
           s == Slack'
           b == Booting'
           l == Linking'
           a == Admission'
<1>4. NeededThen(n, s) /\ n = b + l + a
  BY DEF NeededThen, Need
<1>5. ASSUME cause = {}, NEW x, GoTo("dial", x), x.wait = 1, x.boot = t.boot, x.tick = t.tick
      PROVE  b = Booting /\ a = Admission /\ Booting \in Nat /\ Admission \in Nat
  <2>1. at' = "dial" /\ t' = x /\ app \in {"booting", "bound", "serving"}
    BY <1>1, <1>5, DialCalm DEF GoTo
  <2>2. b = Booting /\ Booting \in Nat
    BY <1>1, <1>3, <1>5, <2>1, Numbers DEF Booting
  <2>3. a = Admission /\ Admission \in Nat
    BY <1>1, <1>3, <1>5, <2>1, Numbers DEF Admission
  <2>4. QED BY <2>2, <2>3
<1>6. CASE os = "android" /\ t.hook = 0
  <2> DEFINE x == [t EXCEPT !.wait = 1, !.hook = HookTime]
  <2>1. PICK ok \in BOOLEAN : Command(ok) /\ fwd' = ok
    BY <1>6 DEF Refused
  <2>2. GoTo("dial", x)
    BY <1>6 DEF Refused
  <2>3. /\ x.wait = 1 /\ x.step = t.step /\ x.boot = t.boot /\ x.tick = t.tick
        /\ x.read = t.read /\ x.dial = t.dial /\ x.rej = t.rej /\ x.hook = HookTime
    BY Numbers DEF Timers
  <2> HIDE DEF x
  <2>4. ASSUME cause = {}
        PROVE  n \in Nat /\ s \in Nat /\ n + s <= Need + Slack
    <3>1. at' = "dial" /\ t' = x /\ app \in {"booting", "bound", "serving"}
      BY <1>1, <2>2, <2>4, DialCalm DEF GoTo
    <3>2. s \in Nat /\ s <= Slack /\ (~ok => s + Cost = Slack) /\ Slack \in Nat
      BY <1>1, <2>1, <2>4, CommandSlack, DialCalm
    <3>3. ~fwd /\ Linking = 1
      BY <1>1, <1>2, <1>6, <2>4, DialCalm DEF Linking, Larger
    <3>4. ok => l = 1
      BY <1>1, <2>1, <2>3, <3>1 DEF Linking
    <3>5. ~ok => l = HookTime + 1
      BY <1>1, <2>1, <2>3, <3>1, Numbers DEF Linking, Larger
    <3>6. b = Booting /\ a = Admission /\ Booting \in Nat /\ Admission \in Nat
      BY <1>5, <2>2, <2>3, <2>4
    <3> HIDE DEF n, s, b, l, a
    <3>7. CASE ok
      BY <1>4, <3>2, <3>3, <3>4, <3>6, <3>7 DEF Need
    <3>8. CASE ~ok
      BY <1>4, <3>2, <3>3, <3>5, <3>6, <3>8, Numbers, CostBound DEF Need
    <3>9. QED BY <3>7, <3>8
  <2> HIDE DEF n, s, b, l, a
  <2>5. t.rej # Off /\ cause = {} => t.rej >= n + s /\ app = "serving"
    BY <1>1, <2>4, DialCalm, Numbers DEF Deadlines, Living
  <2>6. os = "ios" => fwd'
    BY <1>6
  <2>7. HookTime \in 0..HookTime /\ t.read \in Nat /\ t.rej \in Int
    BY <1>3, Numbers
  <2>8. QED BY <1>1, <1>3, <1>4, <2>2, <2>3, <2>4, <2>5, <2>6, <2>7, RetryCause
<1>7. CASE ~(os = "android" /\ t.hook = 0)
  <2> DEFINE x == [t EXCEPT !.wait = 1]
  <2>1. UNCHANGED <<fwd, faults>> /\ GoTo("dial", x)
    BY <1>7 DEF Refused
  <2>2. /\ x.wait = 1 /\ x.step = t.step /\ x.boot = t.boot /\ x.tick = t.tick
        /\ x.read = t.read /\ x.dial = t.dial /\ x.rej = t.rej /\ x.hook = t.hook
    BY Numbers DEF Timers
  <2> HIDE DEF x
  <2>3. s = Slack /\ s \in Nat
    BY <2>1, SlackStays, SlackBound
  <2>4. ASSUME cause = {}
        PROVE  n = Need
    <3>1. at' = "dial" /\ t' = x /\ app \in {"booting", "bound", "serving"}
      BY <1>1, <2>1, <2>4, DialCalm DEF GoTo
    <3>2. l = Linking
      <4>1. CASE ~fwd
        <5>1. os = "android" /\ t.hook # 0 /\ ~fwd'
          BY <1>7, <2>1, <4>1 DEF CauseInv, Clocks, SessionInv, Typed
        <5>2. t.wait = 0 /\ t.hook >= 1
          BY <1>1, <1>3, <2>4, <5>1, DialCalm, Numbers
        <5>3. Larger(t.hook, 0) = t.hook /\ Larger(t.hook, 1) = t.hook
          BY <5>2, Numbers DEF Larger
        <5>4. QED BY <1>1, <2>2, <3>1, <4>1, <5>1, <5>2, <5>3 DEF Linking
      <4>2. CASE fwd
        BY <1>1, <1>2, <2>1, <3>1, <4>2 DEF Linking
      <4>3. QED BY <4>1, <4>2
    <3>3. b = Booting /\ a = Admission
      BY <1>5, <2>1, <2>2, <2>4
    <3> HIDE DEF n, s, b, l, a
    <3>4. QED BY <1>4, <3>2, <3>3 DEF Need
  <2> HIDE DEF n, s, b, l, a
  <2>5. cause = {} => n \in Nat /\ n + s <= Need + Slack
    BY <1>1, <2>3, <2>4, DialCalm
  <2>6. t.rej # Off /\ cause = {} => t.rej >= n + s /\ app = "serving"
    BY <1>1, <2>3, <2>4, DialCalm, Numbers DEF Deadlines, Living
  <2>7. os = "ios" => fwd'
    BY <1>1, <2>1 DEF CauseInv, Clocks
  <2>8. t.read \in Nat /\ t.rej \in Int
    BY <1>3, Numbers
  <2>9. QED BY <1>1, <1>3, <1>4, <2>1, <2>2, <2>3, <2>5, <2>6, <2>7, <2>8, RetryCause
<1>8. QED BY <1>6, <1>7

LEMMA EofCause ==
  ASSUME SessionInv, CauseInv, Eof
  PROVE  CauseInv'
<1>1. Dialling /\ fwd /\ app \in {"gone", "booting"} /\ at = "dial"
      /\ UNCHANGED <<os, tok, app, asleep, next, cache, fwd, conn, hand, pre, cause, faults>>
  BY DEF Eof, Dialling, agent, files
<1>2. t.boot \in 0..BootTime /\ t.hook \in 0..HookTime /\ t.read >= 0 /\ t.rej >= Off
  BY DEF CauseInv, Clocks
<1> DEFINE n == Need'
           s == Slack'
           x == [t EXCEPT !.wait = 1]
<1>3. NeededThen(n, s)
  BY DEF NeededThen
<1>4. GoTo("dial", x)
  BY DEF Eof
<1>5. /\ x.wait = 1 /\ x.step = t.step /\ x.boot = t.boot /\ x.tick = t.tick
      /\ x.read = t.read /\ x.dial = t.dial /\ x.rej = t.rej /\ x.hook = t.hook
  BY Numbers DEF Timers
<1> HIDE DEF x
<1>6. s = Slack /\ s \in Nat
  BY <1>1, SlackStays, SlackBound
<1>7. ASSUME cause = {}
      PROVE  n = Need
  <2>1. at' = "dial" /\ t' = x /\ app = "booting"
    BY <1>1, <1>4, <1>7, DialCalm DEF GoTo
  <2>2. Booting' = Booting
    BY <1>1, <1>5, <2>1 DEF Booting
  <2>3. Linking' = Linking
    BY <1>1, <2>1 DEF Linking
  <2>4. Admission' = Admission
    BY <1>1, <2>1 DEF Admission
  <2>5. QED BY <2>2, <2>3, <2>4 DEF Need
<1> HIDE DEF n, s
<1>8. cause = {} => n \in Nat /\ n + s <= Need + Slack
  BY <1>1, <1>6, <1>7, DialCalm
<1>9. t.rej # Off /\ cause = {} => t.rej >= n + s /\ app = "serving"
  BY <1>1, <1>6, <1>7, DialCalm, Numbers DEF Deadlines, Living
<1>10. os = "ios" => fwd'
  BY <1>1 DEF CauseInv, Clocks
<1>11. t.read \in Nat /\ t.rej \in Int
  BY <1>2, Numbers
<1>12. QED BY <1>1, <1>2, <1>3, <1>4, <1>5, <1>6, <1>8, <1>9, <1>10, <1>11, RetryCause

LEMMA AcceptedCause ==
  ASSUME SessionInv, CauseInv, Accepted
  PROVE  CauseInv'
<1>1. at = "dial" /\ app = "serving" /\ conn' = "up" /\ UNCHANGED <<os, tok, app, asleep, fwd, pre, hand, cause>>
  BY DEF Accepted, Reaches, Dialling, agent
<1>2. os = "ios" => fwd'
  BY <1>1 DEF CauseInv, Clocks
<1>3. CASE Ends("ok")
  BY <1>1, <1>2, <1>3, EndsCause
<1>4. CASE ~pre /\ GoTo("shake", t)
  <2> DEFINE n == Need'
             s == Slack'
  <2>1. n = Need' /\ s = Slack'
    OBVIOUS
  <2> HIDE DEF n, s
  <2>2. ClocksOf(t)
    BY DEF CauseInv, Clocks, ClocksOf
  <2>3. at' = "shake"
    BY <1>4 DEF GoTo
  <2>4. Living' /\ Handed' /\ Deadlines("shake", t, n, s)
    BY <1>1, <1>4, <2>3 DEF Living, Handed, Deadlines, Seeking
  <2>5. QED BY <1>1, <1>2, <1>4, <2>1, <2>2, <2>4, GoesCause
<1>5. QED BY <1>3, <1>4 DEF Accepted

LEMMA RejectedCause ==
  ASSUME SessionInv, TimesSuffice, CauseInv, Rejected
  PROVE  CauseInv'
<1> DEFINE rej == IF t.rej = Off THEN RejectWindow ELSE t.rej
<1>1. Dialling /\ fwd /\ app = "serving" /\ hand # tok /\ at = "dial"
      /\ UNCHANGED <<os, tok, app, asleep, next, cache, fwd, conn, hand, pre, cause, faults>>
  BY DEF Rejected, Reaches, Dialling, Admits, agent, files
<1>2. t.tick \in 0..TickTime /\ t.hook \in 0..HookTime /\ t.rej >= Off
  BY DEF CauseInv, Clocks
<1>3. os = "ios" => fwd'
  BY <1>1
<1>4. Booting = 0 /\ (t.wait = 0 => Linking = 0) /\ Admission = IF cache # tok THEN t.tick + 1 ELSE 1
  BY <1>1 DEF Booting, Linking, Admission
<1>5. cause = {} => Need \in 1..TickTime + 1 /\ Slack \in Nat
  BY <1>1, <1>2, <1>4, DialCalm, Numbers DEF Need
<1>6. cause = {} => rej > 0 /\ rej >= Need + Slack
  <2>1. SUFFICES ASSUME cause = {} PROVE rej > 0 /\ rej >= Need + Slack
    OBVIOUS
  <2> DEFINE c == Cost * MaxFaults
  <2>2. RejectWindow >= TickTime + 1 + c /\ Slack <= c /\ c \in Nat
    BY SlackBound DEF TimesSuffice
  <2> HIDE DEF c
  <2>3. t.rej # Off => t.rej >= Need + Slack
    BY <1>1, <2>1, DialCalm DEF Deadlines
  <2>4. QED BY <1>5, <2>1, <2>2, <2>3, Numbers
<1>7. rej \in Int /\ rej >= Off /\ rej # Off
  BY <1>2, Numbers
<1>8. CASE GoTo("refresh", [t EXCEPT !.rej = rej, !.wait = 1, !.read = RefreshTime])
  <2> DEFINE n == Need'
             s == Slack'
             x == [t EXCEPT !.rej = rej, !.wait = 1, !.read = RefreshTime]
  <2>1. NeededThen(n, s)
    BY DEF NeededThen
  <2>2. GoTo("refresh", x)
    BY <1>8
  <2> HIDE DEF rej
  <2>3. /\ x.wait = 1 /\ x.step = t.step /\ x.boot = t.boot /\ x.tick = t.tick
        /\ x.read = RefreshTime /\ x.dial = t.dial /\ x.rej = rej /\ x.hook = t.hook
    BY Numbers DEF Timers
  <2> HIDE DEF x
  <2>4. s = Slack /\ s \in Nat
    BY <1>1, SlackStays, SlackBound
  <2>5. ASSUME cause = {}
        PROVE  n = Need
    <3>1. at' = "refresh" /\ t' = x
      BY <2>2 DEF GoTo
    <3>2. Booting' = 0 /\ Linking' = 0
      BY <1>1, <3>1 DEF Booting, Linking
    <3>3. Admission' = Admission
      BY <1>1, <1>4, <2>3, <3>1 DEF Admission
    <3>4. Booting' = Booting /\ Linking' = Linking
      BY <1>1, <1>4, <2>5, <3>2, DialCalm
    <3>5. QED BY <3>3, <3>4 DEF Need
  <2> HIDE DEF n, s
  <2>6. ASSUME cause = {}
        PROVE  n \in Nat /\ n + s <= Need + Slack /\ rej >= n + s /\ ~pre
    <3>1. ~pre
      BY <1>1, <2>6, DialCalm DEF Handed, Seeking
    <3>2. QED BY <1>1, <1>5, <1>6, <2>4, <2>5, <2>6, <3>1, DialCalm
  <2>7. t.hook \in 0..HookTime /\ RefreshTime \in Nat
    BY <1>2, Numbers
  <2>8. QED BY <1>1, <1>3, <1>7, <2>1, <2>2, <2>3, <2>4, <2>6, <2>7, RetryCause
<1>9. CASE ~(~pre /\ rej > 0) /\ Abandon("rejected")
  <2>1. cause # {}
    <3>1. SUFFICES ASSUME cause = {} PROVE FALSE
      OBVIOUS
    <3>2. ~pre
      BY <1>1, <3>1, DialCalm DEF Handed, Seeking
    <3>3. QED BY <1>6, <1>9, <3>1, <3>2
  <2>2. QED BY <1>1, <1>9, <2>1, AbandonCause
<1>10. QED BY <1>8, <1>9 DEF Rejected

LEMMA RefreshTokenCause ==
  ASSUME SessionInv, CauseInv, RefreshToken
  PROVE  CauseInv'
<1>1. at = "refresh" /\ Ready
      /\ UNCHANGED <<os, tok, app, asleep, next, cache, fwd, conn, pre, cause>>
  BY DEF RefreshToken, agent, files
<1>2. PICK token \in {NoToken, cache, shared, log} :
       /\ Round(token)
       /\ hand' = IF token = NoToken THEN hand ELSE token
       /\ IF token # NoToken \/ t.read = 0 \/ DialOver
            THEN GoTo("dial", [t EXCEPT !.wait = 0])
            ELSE GoTo("refresh", [t EXCEPT !.wait = 1])
  BY DEF RefreshToken
<1>3. os = "ios" => fwd'
  BY <1>1 DEF CauseInv, Clocks
<1> DEFINE n == Need'
           s == Slack'
           b == Booting'
           l == Linking'
           a == Admission'
<1>4. n = Need' /\ s = Slack' /\ n = b + l + a
  BY DEF Need
<1>5. t.tick \in 0..TickTime /\ t.hook \in 0..HookTime /\ tok # NoToken
  BY DEF CauseInv, Clocks
<1>6. ASSUME cause = {}
      PROVE  /\ Living /\ Handed /\ Deadlines("refresh", t, Need, Slack) /\ Need \in Nat /\ Slack \in Nat
             /\ ~DialOver /\ t.wait = 0 /\ s \in Nat /\ s <= Slack /\ app = "serving" /\ hand # tok
             /\ cache = tok /\ token # tok => s + Cost = Slack
  <2>1. Living /\ Handed /\ Deadlines("refresh", t, Need, Slack)
    BY <1>1, <1>6 DEF CauseInv, FailsForCause, InTime
  <2>2. Need \in Nat /\ Slack \in Nat
    BY <2>1, NeedBound, SlackBound DEF CauseInv, Deadlines
  <2>3. ~DialOver /\ ~Expired
    BY <2>1, <2>2, Numbers DEF Deadlines, Expired, DialOver
  <2>4. t.wait = 0
    BY <1>1, <2>3 DEF Ready
  <2>5. app = "serving" /\ hand # tok
    BY <1>1, <2>1 DEF Living
  <2>6. s \in Nat /\ s <= Slack /\ (cache = tok /\ token # tok => s + Cost = Slack)
    BY <1>2, <2>3, RoundSlack
  <2>7. QED BY <2>1, <2>2, <2>3, <2>4, <2>5, <2>6
<1>7. ASSUME cause = {}
      PROVE  Booting = 0 /\ Linking \in Nat /\ Admission \in Nat
             /\ Linking = (IF fwd THEN 0 ELSE t.hook + 1) /\ Admission = (IF cache # tok THEN t.tick + 1 ELSE 0)
  BY <1>1, <1>5, <1>6, <1>7, Numbers DEF Booting, Linking, Admission
<1>8. CASE GoTo("dial", [t EXCEPT !.wait = 0]) /\ (token # NoToken \/ t.read = 0 \/ DialOver)
  <2> DEFINE x == [t EXCEPT !.wait = 0]
  <2>1. GoTo("dial", x)
    BY <1>8
  <2>2. /\ x.wait = 0 /\ x.step = t.step /\ x.boot = t.boot /\ x.tick = t.tick
        /\ x.read = t.read /\ x.dial = t.dial /\ x.rej = t.rej /\ x.hook = t.hook
    BY Numbers DEF Timers
  <2> HIDE DEF x
  <2>3. ClocksOf(x)
    BY <2>2 DEF CauseInv, Clocks, ClocksOf
  <2>4. ASSUME cause' = {}
        PROVE  Living' /\ Handed' /\ Deadlines("dial", x, n, s)
    <3>1. cause = {} /\ at' = "dial" /\ t' = x
      BY <1>1, <2>1, <2>4 DEF GoTo
    <3>2. ~pre
      BY <1>1, <1>6, <3>1 DEF Living
    <3>3. Living' /\ Handed'
      BY <1>1, <1>6, <2>2, <3>1, <3>2 DEF Living, Handed, Seeking
    <3>4. b = 0
      BY <1>1, <1>6, <3>1 DEF Booting
    <3>5. l = Linking
      <4>1. CASE fwd
        BY <1>1, <1>6, <1>7, <2>2, <3>1, <4>1 DEF Linking
      <4>2. CASE ~fwd
        BY <1>1, <1>5, <1>6, <1>7, <2>2, <3>1, <4>2, Numbers DEF Linking, Larger
      <4>3. QED BY <4>1, <4>2
    <3>6. a \in Nat /\ (a <= Admission \/ (cache = tok /\ token # tok /\ a = Admission + 1))
      BY <1>1, <1>2, <1>5, <1>6, <1>7, <2>2, <3>1, Numbers DEF Admission
    <3> HIDE DEF n, s, b, l, a
    <3>7. n \in Nat /\ (n <= Need \/ (cache = tok /\ token # tok /\ n = Need + 1))
      BY <1>4, <1>7, <3>1, <3>4, <3>5, <3>6 DEF Need
    <3>8. n + s <= Need + Slack
      BY <1>6, <3>1, <3>7, Numbers, CostBound
    <3>9. Deadlines("dial", x, n, s)
      BY <1>6, <2>2, <3>1, <3>7, <3>8, Numbers DEF Deadlines
    <3>10. QED BY <3>3, <3>9
  <2> HIDE DEF n, s
  <2>5. QED BY <1>1, <1>3, <1>4, <2>1, <2>3, <2>4, GoesCause
<1>9. CASE GoTo("refresh", [t EXCEPT !.wait = 1]) /\ token = NoToken
  <2> DEFINE x == [t EXCEPT !.wait = 1]
  <2>1. GoTo("refresh", x)
    BY <1>9
  <2>2. /\ x.wait = 1 /\ x.step = t.step /\ x.boot = t.boot /\ x.tick = t.tick
        /\ x.read = t.read /\ x.dial = t.dial /\ x.rej = t.rej /\ x.hook = t.hook
    BY Numbers DEF Timers
  <2> HIDE DEF x
  <2>3. ClocksOf(x)
    BY <2>2 DEF CauseInv, Clocks, ClocksOf
  <2>4. ASSUME cause' = {}
        PROVE  Living' /\ Handed' /\ Deadlines("refresh", x, n, s)
    <3>1. cause = {} /\ at' = "refresh" /\ t' = x /\ hand' = hand /\ token # tok
      BY <1>1, <1>2, <1>5, <1>9, <2>1, <2>4 DEF GoTo
    <3>2. ~pre
      BY <1>1, <1>6, <3>1 DEF Living
    <3>3. Living' /\ Handed'
      BY <1>1, <1>6, <2>2, <3>1, <3>2 DEF Living, Handed, Seeking
    <3>4. b = 0
      BY <1>1, <1>6, <3>1 DEF Booting
    <3>5. l = Linking
      <4>1. CASE fwd
        BY <1>1, <1>6, <1>7, <2>2, <3>1, <4>1 DEF Linking
      <4>2. CASE ~fwd
        BY <1>1, <1>6, <1>7, <2>2, <3>1, <4>2 DEF Linking
      <4>3. QED BY <4>1, <4>2
    <3>6. a \in Nat /\ (a <= Admission \/ (cache = tok /\ token # tok /\ a = Admission + 1))
      BY <1>1, <1>5, <1>6, <1>7, <2>2, <3>1, Numbers DEF Admission
    <3> HIDE DEF n, s, b, l, a
    <3>7. n \in Nat /\ (n <= Need \/ (cache = tok /\ token # tok /\ n = Need + 1))
      BY <1>4, <1>7, <3>1, <3>4, <3>5, <3>6 DEF Need
    <3>8. n + s <= Need + Slack
      BY <1>6, <3>1, <3>7, Numbers, CostBound
    <3>9. Deadlines("refresh", x, n, s)
      BY <1>6, <2>2, <3>1, <3>7, <3>8, Numbers DEF Deadlines
    <3>10. QED BY <3>3, <3>9
  <2> HIDE DEF n, s
  <2>5. QED BY <1>1, <1>3, <1>4, <2>1, <2>3, <2>4, GoesCause
<1>10. QED BY <1>2, <1>8, <1>9

LEMMA HandshakeCause ==
  ASSUME SessionInv, CauseInv, Handshake
  PROVE  CauseInv'
<1>1. at = "shake" /\ UNCHANGED <<os, tok, fwd, conn, cause>>
  BY DEF Handshake, agent
<1>2. os = "ios" => fwd'
  BY <1>1 DEF CauseInv, Clocks
<1>3. cause = {} => conn = "up"
  BY <1>1 DEF CauseInv, FailsForCause, Living
<1>4. CASE conn = "up" /\ Ends("ok")
  BY <1>1, <1>2, <1>4, EndsCause
<1>5. CASE conn # "up" /\ Ends("failed")
  BY <1>1, <1>2, <1>3, <1>5, EndsCause
<1>6. QED BY <1>4, <1>5 DEF Handshake

LEMMA BeginCause ==
  ASSUME SessionInv, TimesSuffice, CauseInv, NEW o \in {"restart", "relaunch", "clear", "auto"}, Begin(o)
  PROVE  CauseInv'
<1>1. /\ at = "idle" /\ op' = o /\ out' = "none"
      /\ at' = IF o = "auto" THEN "wait" ELSE "stop"
      /\ UNCHANGED <<os, app, asleep, tok, cache, fwd>>
      /\ t' = [t EXCEPT !.step = Budget(o), !.wait = IF o = "auto" THEN 1 ELSE 0]
  BY DEF Begin, files
<1>2. PICK answer \in {"ok", "unwritten", "lost", "unsent"} :
       /\ answer \in {"ok", "unwritten", "lost"} => o = "restart" /\ conn = "up"
       /\ Faulty(answer \in {"unwritten", "lost"})
       /\ pre' = (answer \in {"ok", "unwritten"})
       /\ hand' = IF answer \in {"ok", "unwritten"} THEN Shared(calls + 1) ELSE NoToken
       /\ next' \in CASE answer = "ok"        -> {Shared(calls + 1)}
                       [] answer = "unwritten" -> {next, NoToken}
                       [] answer = "lost"      -> {next, Shared(calls + 1)}
                       [] answer = "unsent"    -> {next}
       /\ cause' = CASE answer = "unwritten"         -> {"unwritten"}
                     [] o = "auto" /\ app = "gone"  -> {"gone"}
                     [] OTHER                       -> {}
  BY DEF Begin
<1> DEFINE w == IF o = "auto" THEN 1 ELSE 0
           n == Need'
           s == Slack'
<1>3. /\ t'.step = Budget(o) /\ t'.wait = w /\ t'.read = t.read /\ t'.dial = t.dial
      /\ t'.rej = t.rej /\ t'.hook = t.hook /\ t'.tick = t.tick /\ t'.boot = t.boot
  <2>1. t' = [t EXCEPT !.step = Budget(o), !.wait = w]
    BY <1>1
  <2> HIDE DEF w
  <2>2. QED BY <2>1, Numbers DEF Timers
<1>4. Clocks'
  <2>1. at' # "idle"
    BY <1>1
  <2>2. QED BY <1>1, <1>3, <2>1 DEF CauseInv, Clocks
<1>5. GivesUpForCause'
  BY <1>1 DEF GivesUpForCause
<1>6. s \in Nat /\ s <= Cost * MaxFaults
  <2> DEFINE c == Cost * MaxFaults
  <2>1. s \in Nat /\ s <= Slack
    BY <1>2, FaultySlack
  <2>2. Slack \in Nat /\ Slack <= c /\ c \in Nat
    BY SlackBound
  <2> HIDE DEF s, c
  <2>3. s <= c
    BY <2>1, <2>2
  <2>4. QED BY <2>1, <2>3 DEF c
<1>7. ASSUME cause' = {}
      PROVE  Living' /\ Handed' /\ InTime'
  <2>1. (o = "auto" => app # "gone") /\ answer # "unwritten"
    BY <1>2, <1>7
  <2>2. t.hook = 0 /\ t.rej = Off
    BY <1>1 DEF CauseInv, Clocks
  <2>3. Living'
    BY <1>1, <1>3, <2>1, <2>2 DEF Living, Seeking
  <2>4. Handed'
    <3>1. CASE answer = "ok"
      <4>1. at' = "stop" /\ app' = "serving" /\ hand' = Shared(calls + 1) /\ next' = Shared(calls + 1)
        BY <1>1, <1>2, <3>1 DEF SessionInv, Connected
      <4>2. Shared(calls + 1) # NoToken
        BY DEF Shared, NoToken
      <4>3. QED BY <4>1, <4>2 DEF Handed, Seeking
    <3>2. CASE answer # "ok"
      BY <1>2, <2>1, <3>2 DEF Handed
    <3>3. QED BY <3>1, <3>2
  <2>5. Deadlines(at', t', n, s)
    <3> DEFINE c == Cost * MaxFaults
    <3>1. /\ StepTime > 1 + ReconnectDelay + Longest + c /\ LaunchTime > ReconnectDelay + Longest + c
          /\ c \in Nat /\ s \in Nat /\ s <= c
      BY <1>6, SlackBound DEF TimesSuffice
    <3>2. /\ o # "auto" => w = 0 /\ at' = "stop"
          /\ o = "auto" => w = 1 /\ at' = "wait"
      BY <1>1
    <3>3. Budget(o) \in Int /\ Budget(o) > ReconnectDelay + Longest + c
          /\ (o = "auto" => Budget(o) > 1 + ReconnectDelay + Longest + c)
      <4> HIDE DEF s, c
      <4>1. QED BY <3>1, Numbers, CostBound DEF Budget
    <3> HIDE DEF s, c, w, n
    <3>4. QED BY <1>3, <3>1, <3>2, <3>3, Numbers, CostBound DEF Deadlines
  <2>6. QED BY <2>3, <2>4, <2>5 DEF InTime
<1>8. QED BY <1>4, <1>5, <1>7 DEF CauseInv, FailsForCause

LEMMA KillCause ==
  ASSUME SessionInv, CauseInv, Kill
  PROVE  CauseInv'
<1>1. at = "idle" /\ UNCHANGED <<os, tok, fwd, at, t, cause, out>>
  BY DEF Kill
<1>2. QED BY <1>1 DEF CauseInv, Clocks, FailsForCause, GivesUpForCause

(* A fault that says nothing about the recovery takes time, but not too much. *)
LEMMA WorldCause ==
  ASSUME SessionInv, CauseInv, Crash \/ Suspend \/ Purge \/ LinkLost
  PROVE  CauseInv'
<1>1. /\ faults < MaxFaults /\ faults' = faults + 1
      /\ UNCHANGED <<os, place, gen, tok, op, at, hand, pre, t, out>>
      /\ cause \subseteq cause'
  BY DEF Crash, Suspend, Purge, LinkLost, Happens
<1>2. Clocks'
  BY <1>1 DEF CauseInv, Clocks, Crash, Suspend, Purge, LinkLost
<1>3. GivesUpForCause'
  BY <1>1 DEF CauseInv, GivesUpForCause
<1>4. ASSUME at # "idle", cause' = {}
      PROVE  Living' /\ Handed' /\ InTime'
  <2> DEFINE n == Need'
             s == Slack'
  <2>1. Living /\ Handed /\ InTime
    BY <1>1, <1>4 DEF CauseInv, FailsForCause
  <2>2. UNCHANGED <<app, asleep>> /\ (Purge \/ (LinkLost /\ conn = "down"))
    BY <1>4 DEF SessionInv, Typed, Crash, Suspend, Purge, LinkLost, Happens
  <2>3. conn' = conn
    BY <2>2 DEF Purge, LinkLost
  <2>4. Living'
    BY <1>1, <2>1, <2>2, <2>3 DEF Living
  <2>5. Handed'
    <3>1. CASE next' = next
      BY <1>1, <2>1, <2>2, <3>1 DEF Handed
    <3>2. CASE Purge /\ next' # next
      <4>1. ~(pre /\ next # NoToken)
        BY <1>4, <3>2 DEF Purge, Happens
      <4>2. pre => next = NoToken
        BY <4>1
      <4>3. QED BY <1>1, <2>1, <2>2, <4>2 DEF Handed
    <3>3. QED BY <2>2, <3>1, <3>2 DEF LinkLost
  <2>6. s + Cost = Slack /\ s \in Nat /\ Slack \in Nat /\ Cost \in Nat
    BY <1>1, SlackFalls, SlackBound, CostBound
  <2>7. ASSUME at \in {"read", "dial", "refresh"}
        PROVE  n \in Nat /\ Need \in Nat /\ n <= Need + Cost
    <3> DEFINE b == Booting'
               l == Linking'
               a == Admission'
    <3>1. t.wait \in {0, 1} /\ t.boot \in Nat /\ t.tick \in 0..TickTime /\ t.hook \in 0..HookTime
      BY <2>1, <2>7, Numbers DEF InTime, Deadlines, CauseInv, Clocks
    <3>2. b = Booting /\ Booting \in Nat
      BY <1>1, <2>2, <3>1 DEF Booting
    <3>3. Linking \in Nat /\ Admission \in Nat
      BY <3>1, Numbers DEF Linking, Admission, Larger
    <3>4. n = b + l + a
      BY DEF Need
    <3>5. CASE Purge
      <4>1. l = Linking
        BY <1>1, <2>2, <3>5 DEF Linking, Purge
      <4>2. a \in Nat /\ (a = Admission \/ a <= TickTime + 1)
        <5>1. cache' = NoToken
          BY <3>5 DEF Purge
        <5>2. QED BY <1>1, <2>2, <3>1, <5>1, Numbers DEF Admission
      <4> HIDE DEF n, s, b, l, a
      <4>3. QED BY <3>2, <3>3, <3>4, <4>1, <4>2, Numbers, CostBound DEF Need
    <3>6. CASE LinkLost
      <4>1. a = Admission
        BY <1>1, <2>2, <3>6 DEF Admission, LinkLost, files
      <4>2. l \in Nat /\ (l = Linking \/ l <= HookTime + 1)
        <5>1. CASE fwd' <=> fwd
          BY <1>1, <2>2, <3>1, <3>3, <5>1 DEF Linking
        <5>2. CASE ~fwd'
          BY <1>1, <2>2, <3>1, <5>2, Numbers DEF Linking, Larger
        <5>3. (fwd' <=> fwd) \/ ~fwd'
          BY <3>6 DEF LinkLost
        <5>4. QED BY <5>1, <5>2, <5>3
      <4> HIDE DEF n, s, b, l, a
      <4>3. QED BY <3>2, <3>3, <3>4, <4>1, <4>2, Numbers, CostBound DEF Need
    <3>7. QED BY <2>2, <3>5, <3>6
  <2>8. n = Need' /\ s = Slack'
    OBVIOUS
  <2> HIDE DEF n, s
  <2>9. s <= Slack
    BY <2>6
  <2>10. at \in {"read", "dial", "refresh"} => n \in Nat /\ n + s <= Need + Slack
    BY <2>6, <2>7
  <2>11. InTime'
    <3>1. CASE at \in {"read", "dial", "refresh"}
      BY <1>1, <2>1, <2>6, <2>8, <2>9, <2>10, <3>1, StaysInTime DEF CauseInv
    <3>2. CASE at \notin {"read", "dial", "refresh"}
      <4>1. Deadlines(at, t, n, s)
        BY <2>1, <2>6, <2>9, <3>2, Numbers, CostBound DEF InTime, Deadlines
      <4>2. QED BY <1>1, <2>8, <4>1 DEF InTime
    <3>3. QED BY <3>1, <3>2
  <2>12. QED BY <2>4, <2>5, <2>11
<1>5. QED BY <1>1, <1>2, <1>3, <1>4 DEF CauseInv, FailsForCause

LEMMA CauseStutter ==
  ASSUME CauseInv, UNCHANGED sessionVars
  PROVE  CauseInv'
<1>1. Need' = Need /\ Slack' = Slack
  BY DEF sessionVars, Need, Booting, Linking, Admission, Slack
<1>2. QED BY <1>1 DEF sessionVars, CauseInv, Clocks, FailsForCause, GivesUpForCause, Living, Handed, InTime

LEMMA CauseStep ==
  ASSUME SessionInv, TimesSuffice, CauseInv, [SessionNext]_sessionVars
  PROVE  CauseInv'
  BY PassCause, AgentCause, BeginCause, BackoffCause, StopAppCause, LaunchAppCause, ForgetCause,
     SettledCause, ReadTokenCause, DialTimesOutCause, RefusedCause, EofCause, AcceptedCause,
     RejectedCause, RefreshTokenCause, HandshakeCause, KillCause, WorldCause, CauseStutter
  DEF SessionNext, CLI

LEMMA CauseInit ==
  ASSUME SessionInit
  PROVE  CauseInv
<1>1. t.boot = 0 /\ t.tick = TickTime /\ t.hook = 0 /\ t.rej = Off /\ t.read = 0 /\ t.dial = 0
  BY DEF SessionInit, NoTimers
<1>2. tok # NoToken
  BY DEF SessionInit, Own, NoToken
<1>3. Clocks
  BY <1>1, <1>2, TimeAssumption DEF SessionInit, Clocks, Times, Off
<1>4. QED BY <1>3 DEF SessionInit, CauseInv, FailsForCause, GivesUpForCause

(* If every deadline leaves time for the longest wait and for the faults, a  *)
(* recovery fails only for a cause: the app was gone, crashed or suspended,  *)
(* the new connection broke, a command that stops or starts the app failed,  *)
(* or the file with the pre-shared token was purged; whatever else happens,  *)
(* however often and whenever, the CLI finds the agent in time.              *)
THEOREM GivesUpForACause == TimesSuffice => (SessionSpec => []GivesUpForCause)
<1> SUFFICES ASSUME TimesSuffice PROVE SessionSpec => []GivesUpForCause
  OBVIOUS
<1>1. SessionInit => CauseInv
  BY CauseInit
<1>2. SessionInv /\ CauseInv /\ [SessionNext]_sessionVars => CauseInv'
  BY CauseStep
<1>3. CauseInv => GivesUpForCause
  BY DEF CauseInv
<1>4. QED BY <1>1, <1>2, <1>3, SessionInvariant, PTL DEF SessionSpec
=============================================================================
