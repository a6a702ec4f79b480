------------------------- MODULE LocalUpload_proof -------------------------
(***************************************************************************)
(* For any number of runs, any lock ages, any clock: as long as nobody has *)
(* removed the lock of a live run, one run at a time reserves a number,    *)
(* the numbers are different and grow, and the service never refuses one.  *)
(* The inductive invariant says who owns the lock file, how the computed   *)
(* numbers lie with respect to state.json, and what the service can hold.  *)
(***************************************************************************)
EXTENDS LocalUpload, TLAPS

Reserved == HasNumber \cup {"unlock"}

(* The lock file belongs to the run that is past lockState.                  *)
LockInv == \A r \in Run : pc[r] \in Holding => lockFile # None /\ lockFile.by = r

(* A number in use is at most last; one about to be written is above it.     *)
LowInv  == \A r \in Run : pc[r] \in Reserved => seq[r] =< last
HighInv == \A r \in Run : pc[r] = "write" => seq[r] > last
DiffInv == \A r, s \in Run : pc[r] \in Reserved /\ pc[s] \in Reserved /\ seq[r] = seq[s] => r = s

(* The service holds nothing above last, and under a run's number only its   *)
(* own report.                                                               *)
KeptInv == \A n \in Nat, s \in Run : <<n, s>> \in stored => n =< last
KeyInv  == \A r, s \in Run : pc[r] \in Reserved /\ <<seq[r], s>> \in stored => r = s

UnstolenInv == LockInv /\ LowInv /\ HighInv /\ DiffInv /\ KeptInv /\ KeyInv
IInv == TypeOK /\ (stolen \/ UnstolenInv)

LEMMA InitHolds == Init => IInv
<1> SUFFICES ASSUME Init PROVE IInv OBVIOUS
<1>1. wall \in Nat BY LocalUploadAssumption DEF Init
<1>2. stored = {} /\ stored \subseteq (Nat \X Run) BY DEF Init
<1>3. TypeOK BY <1>1, <1>2 DEF Init, TypeOK, Where, Number
<1>4. \A r \in Run : pc[r] = "start" BY DEF Init
<1>5. UnstolenInv
  BY <1>2, <1>4 DEF UnstolenInv, LockInv, LowInv, HighInv, DiffInv, KeptInv, KeyInv, Holding, HasNumber, Reserved
<1> QED BY <1>3, <1>5 DEF IInv

(* No step of a run gives a variable a value of another type.                *)
LEMMA StepTypes ==
  ASSUME TypeOK, NEW r \in Run, Step(r) PROVE TypeOK'
<1> USE LocalUploadAssumption DEF TypeOK, Where, Ended, Holding, Number, Goto, local
<1>1. CASE ReadSigner(r) BY <1>1 DEF ReadSigner
<1>2. CASE LinkSigner(r) BY <1>2 DEF LinkSigner, Linked
<1>3. CASE BeginReserve(r) BY <1>3 DEF BeginReserve
<1>4. CASE Peek(r) BY <1>4 DEF Peek
<1>5. CASE OpenLock(r) BY <1>5 DEF OpenLock, MayCreate
<1>6. CASE StatLock(r) BY <1>6 DEF StatLock
<1>7. CASE RemoveStale(r) BY <1>7 DEF RemoveStale, RemoveLock
<1>8. CASE ReadState(r) BY <1>8 DEF ReadState, NextNumber, Larger
<1>9. CASE WriteState(r) BY <1>9 DEF WriteState, Recorded
<1>10. CASE Unlock(r) BY <1>10 DEF Unlock, RemoveLock
<1>11. CASE Send(r)
  <2>1. stored' \subseteq (Nat \X Run)
    <3>1. <<seq[r], r>> \in Nat \X Run OBVIOUS
    <3>2. stored' = stored \/ stored' = stored \cup {<<seq[r], r>>} BY <1>11 DEF Send, Store, Report
    <3> QED BY <3>1, <3>2
  <2>2. pc' \in [Run -> Where] /\ tries' \in [Run -> Nat]
    BY <1>11 DEF Send, Verdict
  <2> QED BY <1>11, <2>1, <2>2 DEF Send
<1> QED BY <1>1, <1>2, <1>3, <1>4, <1>5, <1>6, <1>7, <1>8, <1>9, <1>10, <1>11 DEF Step, Reserve

LEMMA NextTypes ==
  ASSUME TypeOK, [Next]_vars PROVE TypeOK'
<1> USE LocalUploadAssumption DEF TypeOK, Where, Ended, Holding, Number
<1>1. CASE Tick BY <1>1 DEF Tick, Elapsed
<1>2. CASE SetClock BY <1>2 DEF SetClock, local
<1>3. ASSUME NEW r \in Run, Step(r) PROVE TypeOK' BY <1>3, StepTypes
<1>4. ASSUME NEW r \in Run, Die(r) PROVE TypeOK' BY <1>4 DEF Die, Goto, local
<1>5. CASE UNCHANGED vars BY <1>5 DEF vars
<1> QED BY <1>1, <1>2, <1>3, <1>4, <1>5 DEF Next

(* A run that removes the lock file either releases its own, or one no live  *)
(* run holds, or the removal is recorded.                                    *)
LEMMA RemoveKeepsLock ==
  ASSUME TypeOK, LockInv, NEW r \in Run, RemoveLock(r), ~stolen',
         pc' \in [Run -> Where], \A s \in Run : s # r => pc'[s] = pc[s], pc'[r] \notin Holding
  PROVE  LockInv'
<1> SUFFICES ASSUME NEW s \in Run, pc'[s] \in Holding PROVE FALSE BY DEF LockInv
<1>1. s # r /\ pc[s] \in Holding OBVIOUS
<1>2. lockFile # None /\ lockFile.by = s BY <1>1 DEF LockInv
<1> QED BY <1>1, <1>2 DEF RemoveLock, Theirs

(* The steps that neither compute, write nor send a number, nor change pc to *)
(* a place that has one, leave the numbers alone.                            *)
LEMMA NumbersKept ==
  ASSUME LowInv, HighInv, DiffInv, KeptInv, KeyInv,
         UNCHANGED <<last, stored, seq>>,
         \A s \in Run : pc'[s] \in Reserved \cup {"write"} => pc[s] = pc'[s] \/ (pc[s] = "unlock" /\ pc'[s] = "send")
  PROVE  LowInv' /\ HighInv' /\ DiffInv' /\ KeptInv' /\ KeyInv'
<1>1. \A s \in Run : pc'[s] \in Reserved => pc[s] \in Reserved BY DEF Reserved, HasNumber
<1>2. \A s \in Run : pc'[s] = "write" => pc[s] = "write" BY DEF Reserved
<1> QED BY <1>1, <1>2 DEF LowInv, HighInv, DiffInv, KeptInv, KeyInv

(* The steps of reserveSeq.                                                  *)
LEMMA OpenKeeps ==
  ASSUME TypeOK, UnstolenInv, NEW r \in Run, OpenLock(r) PROVE UnstolenInv'
<1> USE DEF OpenLock, MayCreate, Goto, local, TypeOK, Where
<1>1. LockInv'
  <2> SUFFICES ASSUME NEW s \in Run, pc'[s] \in Holding PROVE lockFile' # None /\ lockFile'.by = s BY DEF LockInv
  <2>1. CASE s = r
    <3>1. lockFile = None /\ lockFile' = [by |-> r, at |-> wall] BY <2>1 DEF Holding
    <3> QED BY <3>1, <2>1, LocalUploadAssumption
  <2>2. CASE s # r
    <3>1. lockFile # None /\ lockFile.by = s BY <2>2 DEF UnstolenInv, LockInv
    <3> QED BY <3>1
  <2> QED BY <2>1, <2>2
<1>2. \A s \in Run : pc'[s] \in Reserved \cup {"write"} => pc[s] = pc'[s] BY DEF Reserved, HasNumber
<1>3. LowInv' /\ HighInv' /\ DiffInv' /\ KeptInv' /\ KeyInv' BY <1>2, NumbersKept DEF UnstolenInv
<1> QED BY <1>1, <1>3 DEF UnstolenInv

LEMMA RemoveStaleKeeps ==
  ASSUME TypeOK, UnstolenInv, NEW r \in Run, RemoveStale(r), ~stolen' PROVE UnstolenInv'
<1>1. /\ pc' \in [Run -> Where] /\ \A s \in Run : s # r => pc'[s] = pc[s]
      /\ pc'[r] = "open"
  BY DEF RemoveStale, Goto, TypeOK, Where
<1>2. LockInv' BY <1>1, RemoveKeepsLock DEF RemoveStale, UnstolenInv, Holding
<1>3. \A s \in Run : pc'[s] \in Reserved \cup {"write"} => pc[s] = pc'[s]
  BY <1>1 DEF Reserved, HasNumber
<1>4. LowInv' /\ HighInv' /\ DiffInv' /\ KeptInv' /\ KeyInv'
  BY <1>3, NumbersKept DEF UnstolenInv, RemoveStale, local
<1> QED BY <1>2, <1>4 DEF UnstolenInv

LEMMA UnlockKeeps ==
  ASSUME TypeOK, UnstolenInv, NEW r \in Run, Unlock(r), ~stolen' PROVE UnstolenInv'
<1>1. /\ pc' \in [Run -> Where] /\ \A s \in Run : s # r => pc'[s] = pc[s]
      /\ pc'[r] \in {"send", "skipped"} /\ (pc'[r] = "send" => pc[r] = "unlock")
  BY DEF Unlock, Goto, TypeOK, Where, Ended
<1>2. LockInv' BY <1>1, RemoveKeepsLock DEF Unlock, UnstolenInv, Holding
<1>3. \A s \in Run : pc'[s] \in Reserved \cup {"write"} => pc[s] = pc'[s] \/ (pc[s] = "unlock" /\ pc'[s] = "send")
  BY <1>1 DEF Reserved, HasNumber
<1>4. LowInv' /\ HighInv' /\ DiffInv' /\ KeptInv' /\ KeyInv'
  BY <1>3, NumbersKept DEF UnstolenInv, Unlock, local
<1> QED BY <1>2, <1>4 DEF UnstolenInv

(* The number read under the lock is above everything handed out.            *)
LEMMA ReadKeeps ==
  ASSUME TypeOK, UnstolenInv, NEW r \in Run, ReadState(r) PROVE UnstolenInv'
<1> USE DEF ReadState, NextNumber, Goto, TypeOK, Number
<1>1. LockInv' BY DEF UnstolenInv, LockInv, Holding
<1>2. seq'[r] > last /\ \A s \in Run : s # r => seq'[s] = seq[s] BY DEF Larger
<1>3. \A s \in Run : pc'[s] \in Reserved => pc[s] \in Reserved /\ s # r BY DEF Reserved, HasNumber
<1>4. LowInv' /\ DiffInv' /\ KeyInv' BY <1>2, <1>3 DEF UnstolenInv, LowInv, DiffInv, KeyInv
<1>5. HighInv' BY <1>2 DEF UnstolenInv, HighInv
<1>6. KeptInv' BY DEF UnstolenInv, KeptInv
<1> QED BY <1>1, <1>4, <1>5, <1>6 DEF UnstolenInv

(* Writing the number makes it the largest in use; no other run is writing.  *)
LEMMA WriteKeeps ==
  ASSUME TypeOK, UnstolenInv, NEW r \in Run, WriteState(r) PROVE UnstolenInv'
<1> USE DEF WriteState, Recorded, Goto, TypeOK, Number, local
<1>1. LockInv' BY DEF UnstolenInv, LockInv, Holding
<1>2. seq[r] > last /\ seq[r] \in Nat /\ last \in Nat BY DEF UnstolenInv, HighInv
<1>3. last' >= last /\ last' \in Nat /\ (pc'[r] = "unlock" => last' = seq[r]) BY <1>2
<1>4. \A s \in Run : s # r => pc[s] # "write" BY DEF UnstolenInv, LockInv, Holding
<1>5. \A s \in Run : s # r => pc'[s] = pc[s] OBVIOUS
<1>6. pc'[r] \in {"unlock", "giveback"} OBVIOUS
<1>7. LowInv'
  <2> SUFFICES ASSUME NEW s \in Run, pc'[s] \in Reserved PROVE seq[s] =< last' BY DEF LowInv
  <2>1. CASE s = r BY <2>1, <1>3, <1>6, <1>2 DEF Reserved, HasNumber
  <2>2. CASE s # r BY <2>2, <1>3, <1>5 DEF UnstolenInv, LowInv
  <2> QED BY <2>1, <2>2
<1>8. HighInv' BY <1>4, <1>5, <1>6 DEF HighInv
<1>9. DiffInv'
  <2> SUFFICES ASSUME NEW s \in Run, NEW t \in Run, pc'[s] \in Reserved, pc'[t] \in Reserved, seq[s] = seq[t], s # t
               PROVE FALSE BY DEF DiffInv
  <2>1. CASE s # r /\ t # r BY <2>1, <1>5 DEF UnstolenInv, DiffInv
  <2>2. CASE s = r BY <2>2, <1>2, <1>5 DEF UnstolenInv, LowInv
  <2>3. CASE t = r BY <2>3, <1>2, <1>5 DEF UnstolenInv, LowInv
  <2> QED BY <2>1, <2>2, <2>3
<1>10. KeptInv'
  <2> SUFFICES ASSUME NEW n \in Nat, NEW s \in Run, <<n, s>> \in stored PROVE n =< last' BY DEF KeptInv
  <2>1. n =< last BY DEF UnstolenInv, KeptInv
  <2> QED BY <2>1, <1>3
<1>11. KeyInv'
  <2> SUFFICES ASSUME NEW s \in Run, NEW t \in Run, pc'[s] \in Reserved, <<seq[s], t>> \in stored PROVE s = t
    BY DEF KeyInv
  <2>1. CASE s = r
    <3>1. seq[r] =< last BY <2>1 DEF UnstolenInv, KeptInv
    <3> QED BY <3>1, <1>2
  <2>2. CASE s # r BY <2>2, <1>5 DEF UnstolenInv, KeyInv
  <2> QED BY <2>1, <2>2
<1> QED BY <1>1, <1>7, <1>8, <1>9, <1>10, <1>11 DEF UnstolenInv

(* The service takes a report under a number no other run has.               *)
LEMMA SendKeeps ==
  ASSUME TypeOK, UnstolenInv, NEW r \in Run, Send(r) PROVE UnstolenInv'
<1> USE DEF TypeOK, Number
<1>1. /\ pc[r] = "send" /\ pc'[r] \in HasNumber /\ \A s \in Run : s # r => pc'[s] = pc[s]
      /\ UNCHANGED <<lockFile, last, seq>>
  BY DEF Send, Verdict, Goto, HasNumber
<1>2. stored' = stored \/ stored' = stored \cup {<<seq[r], r>>} BY DEF Send, Store, Report
<1>3. \A s \in Run : pc'[s] \in Reserved <=> pc[s] \in Reserved BY <1>1 DEF Reserved, HasNumber
<1>4. LockInv' BY <1>1 DEF UnstolenInv, LockInv, Holding, HasNumber
<1>5. LowInv' /\ DiffInv' BY <1>1, <1>3 DEF UnstolenInv, LowInv, DiffInv
<1>6. HighInv' BY <1>1 DEF UnstolenInv, HighInv, HasNumber
<1>7. KeptInv'
  <2> SUFFICES ASSUME NEW n \in Nat, NEW s \in Run, <<n, s>> \in stored' PROVE n =< last BY <1>1 DEF KeptInv
  <2>1. CASE <<n, s>> \in stored BY <2>1 DEF UnstolenInv, KeptInv
  <2>2. CASE n = seq[r] BY <2>2, <1>1 DEF UnstolenInv, LowInv, Reserved, HasNumber
  <2> QED BY <2>1, <2>2, <1>2
<1>8. KeyInv'
  <2> SUFFICES ASSUME NEW s \in Run, NEW t \in Run, pc[s] \in Reserved, <<seq[s], t>> \in stored' PROVE s = t
    BY <1>1, <1>3 DEF KeyInv
  <2>1. CASE <<seq[s], t>> \in stored BY <2>1 DEF UnstolenInv, KeyInv
  <2>2. CASE seq[s] = seq[r] /\ t = r BY <2>2, <1>1 DEF UnstolenInv, DiffInv, Reserved, HasNumber
  <2> QED BY <2>1, <2>2, <1>2
<1> QED BY <1>4, <1>5, <1>6, <1>7, <1>8 DEF UnstolenInv

(* Every other step leaves the lock and the numbers alone and moves nobody   *)
(* into the part of reserveSeq that the lock protects.                       *)
LEMMA OtherKeeps ==
  ASSUME UnstolenInv, UNCHANGED <<lockFile, last, stored, seq>>,
         \A s \in Run : pc'[s] \in Holding \cup Reserved \cup {"write"} => pc'[s] = pc[s]
  PROVE  UnstolenInv'
<1>1. LockInv' BY DEF UnstolenInv, LockInv
<1>2. LowInv' /\ HighInv' /\ DiffInv' /\ KeptInv' /\ KeyInv' BY NumbersKept DEF UnstolenInv
<1> QED BY <1>1, <1>2 DEF UnstolenInv

LEMMA StepKeeps ==
  ASSUME TypeOK, UnstolenInv, NEW r \in Run, Step(r), ~stolen' PROVE UnstolenInv'
<1> USE DEF Goto, local, TypeOK, Where, Holding, Reserved, HasNumber
<1>1. CASE ReadSigner(r) BY <1>1, OtherKeeps DEF ReadSigner
<1>2. CASE LinkSigner(r) BY <1>2, OtherKeeps DEF LinkSigner, Linked
<1>3. CASE BeginReserve(r) BY <1>3, OtherKeeps DEF BeginReserve
<1>4. CASE Peek(r) BY <1>4, OtherKeeps DEF Peek
<1>5. CASE OpenLock(r) BY <1>5, OpenKeeps
<1>6. CASE StatLock(r) BY <1>6, OtherKeeps DEF StatLock
<1>7. CASE RemoveStale(r) BY <1>7, RemoveStaleKeeps
<1>8. CASE ReadState(r) BY <1>8, ReadKeeps
<1>9. CASE WriteState(r) BY <1>9, WriteKeeps
<1>10. CASE Unlock(r) BY <1>10, UnlockKeeps
<1>11. CASE Send(r) BY <1>11, SendKeeps
<1> QED BY <1>1, <1>2, <1>3, <1>4, <1>5, <1>6, <1>7, <1>8, <1>9, <1>10, <1>11 DEF Step, Reserve

(* A removal of a live run's lock is remembered for good.                    *)
LEMMA StolenStays ==
  ASSUME [Next]_vars, stolen PROVE stolen'
<1> USE DEF local, RemoveLock
<1>1. ASSUME NEW r \in Run, Step(r) PROVE stolen'
  BY <1>1 DEF Step, Reserve, ReadSigner, LinkSigner, BeginReserve, Peek, OpenLock, StatLock, RemoveStale, ReadState,
     WriteState, Unlock, Send
<1>2. ASSUME NEW r \in Run, Die(r) PROVE stolen' BY <1>2 DEF Die
<1> QED BY <1>1, <1>2 DEF Next, Tick, SetClock, vars

LEMMA NextKeeps ==
  ASSUME IInv, [Next]_vars PROVE IInv'
<1>1. TypeOK' BY NextTypes DEF IInv
<1>2. ASSUME ~stolen' PROVE UnstolenInv'
  <2>1. TypeOK /\ UnstolenInv BY <1>2, StolenStays DEF IInv
  <2> USE <2>1 DEF Goto, local, TypeOK, Where, Holding, Reserved, HasNumber
  <2>2. CASE Tick BY <2>2, OtherKeeps DEF Tick
  <2>3. CASE SetClock BY <2>3, OtherKeeps DEF SetClock
  <2>4. ASSUME NEW r \in Run, Step(r) PROVE UnstolenInv' BY <1>2, <2>4, StepKeeps
  <2>5. ASSUME NEW r \in Run, Die(r) PROVE UnstolenInv' BY <2>5, OtherKeeps DEF Die
  <2>6. CASE UNCHANGED vars BY <2>6, OtherKeeps DEF vars
  <2> QED BY <2>2, <2>3, <2>4, <2>5, <2>6 DEF Next
<1> QED BY <1>1, <1>2 DEF IInv

(* The inductive invariant holds in every reachable state.                   *)
THEOREM Invariant == Spec => []IInv
  BY InitHolds, NextKeeps, PTL DEF Spec

(* reserveSeq: one run at a time is past lockState, for any number of runs   *)
(* and any clock, unless the lock of a live run was removed.                 *)
THEOREM OneWriter == Spec => []SoleWriter
<1>1. IInv => SoleWriter BY DEF IInv, UnstolenInv, LockInv, SoleWriter
<1> QED BY <1>1, Invariant, PTL

LEMMA UniqueNumbers == Spec => []NumbersUnique
<1>1. IInv => NumbersUnique BY DEF IInv, UnstolenInv, DiffInv, NumbersUnique, Reserved
<1> QED BY <1>1, Invariant, PTL

(* NextSeq: the last number only grows, unless a live lock was removed.      *)
THEOREM NumbersGrow == Spec => Increasing
<1>1. ASSUME IInv, [Next]_vars, last' # last PROVE stolen \/ last' > last
  <2> SUFFICES ASSUME ~stolen PROVE last' > last OBVIOUS
  <2> USE DEF local
  <2>1. PICK r \in Run : WriteState(r)
    <3>1. PICK r \in Run : Step(r) BY <1>1 DEF Next, Tick, SetClock, Die, vars
    <3> QED BY <1>1, <3>1 DEF Step, Reserve, ReadSigner, LinkSigner, BeginReserve, Peek, OpenLock, StatLock,
          RemoveStale, ReadState, Unlock, Send
  <2> QED BY <1>1, <2>1 DEF WriteState, Recorded, IInv, UnstolenInv, HighInv
<1>2. [IInv /\ [Next]_vars => [last' # last => stolen \/ last' > last]_vars]_vars BY <1>1
<1> QED BY <1>1, Invariant, PTL DEF Spec, Increasing

LEMMA NeverRefused == Spec => []NoConflict
<1>1. Init => NoConflict BY DEF Init, NoConflict
<1>2. ASSUME IInv, NoConflict, [Next]_vars PROVE NoConflict'
  <2> SUFFICES ASSUME ~stolen', NEW r \in Run, pc'[r] = "conflict" PROVE FALSE BY DEF NoConflict
  <2>1. ~stolen /\ pc[r] # "conflict" /\ TypeOK /\ UnstolenInv BY <1>2, StolenStays DEF IInv, NoConflict
  <2>2. pc[r] = "send" /\ Send(r)
    <3> USE DEF local, Goto, TypeOK, Where
    <3>1. PICK s \in Run : Step(s) BY <1>2, <2>1 DEF Next, Tick, SetClock, Die, vars
    <3>2. pc'[r] # pc[r] BY <2>1
    <3>3. s = r /\ Send(s)
      BY <2>1, <3>1, <3>2 DEF Step, Reserve, ReadSigner, LinkSigner, BeginReserve, Peek, OpenLock, StatLock,
         RemoveStale, ReadState, WriteState, Unlock, Send
    <3> QED BY <3>3 DEF Send
  <2>3. Report(r) \notin stored' /\ Store(r) BY <2>1, <2>2 DEF Send, Verdict, Goto, TypeOK, Where
  <2>4. PICK s \in Run : <<seq[r], s>> \in stored BY <2>3 DEF Store, Report
  <2>5. s = r BY <2>1, <2>2, <2>4 DEF UnstolenInv, KeyInv, Reserved, HasNumber
  <2> QED BY <2>3, <2>4, <2>5 DEF Store, Report
<1> QED BY <1>1, <1>2, Invariant, PTL DEF Spec

LEMMA SignersAgree == Spec => []OneSigner
<1>1. Init => OneSigner BY DEF Init, OneSigner
<1>2. ASSUME TypeOK, OneSigner, [Next]_vars PROVE OneSigner'
  <2> USE DEF OneSigner, TypeOK, local
  <2>1. CASE Tick BY <1>2, <2>1 DEF Tick
  <2>2. CASE SetClock BY <1>2, <2>2 DEF SetClock
  <2>3. ASSUME NEW r \in Run, Step(r) PROVE OneSigner'
    <3>1. CASE ReadSigner(r) BY <1>2, <3>1 DEF ReadSigner
    <3>2. CASE LinkSigner(r) BY <1>2, <3>2, LocalUploadAssumption DEF LinkSigner, Linked
    <3>3. CASE Reserve(r) \/ Peek(r) \/ Send(r)
      BY <1>2, <3>3 DEF Reserve, BeginReserve, OpenLock, StatLock, RemoveStale, ReadState, WriteState, Unlock, Peek, Send
    <3> QED BY <2>3, <3>1, <3>2, <3>3 DEF Step
  <2>4. ASSUME NEW r \in Run, Die(r) PROVE OneSigner' BY <1>2, <2>4 DEF Die
  <2>5. CASE UNCHANGED vars BY <1>2, <2>5 DEF vars
  <2> QED BY <1>2, <2>1, <2>2, <2>3, <2>4, <2>5 DEF Next
<1>3. IInv => TypeOK BY DEF IInv
<1> QED BY <1>1, <1>2, <1>3, Invariant, PTL DEF Spec

LEMMA AcceptedStays == Spec => []AcceptedIsStored
<1>1. Init => AcceptedIsStored BY DEF Init, AcceptedIsStored
<1>2. ASSUME TypeOK, AcceptedIsStored, [Next]_vars PROVE AcceptedIsStored'
  <2> USE DEF AcceptedIsStored, TypeOK, local, Report, Goto
  <2>1. CASE Tick BY <1>2, <2>1 DEF Tick
  <2>2. CASE SetClock BY <1>2, <2>2 DEF SetClock
  <2>3. ASSUME NEW r \in Run, Step(r) PROVE AcceptedIsStored'
    <3>1. CASE ReadState(r) BY <1>2, <3>1 DEF ReadState
    <3>2. CASE Send(r)
      <4>1. stored \subseteq stored' BY <3>2 DEF Send, Store
      <4>2. pc'[r] = "accepted" => Report(r) \in stored' BY <1>2, <3>2 DEF Send, Verdict
      <4> QED BY <1>2, <3>2, <4>1, <4>2 DEF Send
    <3>3. CASE ReadSigner(r) \/ LinkSigner(r) \/ Peek(r)
      BY <1>2, <3>3 DEF ReadSigner, LinkSigner, Peek
    <3>4. CASE BeginReserve(r) \/ OpenLock(r) \/ StatLock(r) \/ RemoveStale(r) \/ WriteState(r) \/ Unlock(r)
      BY <1>2, <3>4 DEF BeginReserve, OpenLock, StatLock, RemoveStale, WriteState, Unlock
    <3> QED BY <2>3, <3>1, <3>2, <3>3, <3>4 DEF Step, Reserve
  <2>4. ASSUME NEW r \in Run, Die(r) PROVE AcceptedIsStored' BY <1>2, <2>4 DEF Die
  <2>5. CASE UNCHANGED vars BY <1>2, <2>5 DEF vars
  <2> QED BY <1>2, <2>1, <2>2, <2>3, <2>4, <2>5 DEF Next
<1>3. IInv => TypeOK BY DEF IInv
<1> QED BY <1>1, <1>2, <1>3, Invariant, PTL DEF Spec

(* Signer, NextSeq: all runs use the signer of the file, whoever links it    *)
(* first, and no number is handed out twice, unless a live lock was removed. *)
THEOREM UniqueIdentities == Spec => []IdentitiesUnique
BY UniqueNumbers, SignersAgree, PTL DEF IdentitiesUnique

(* Upload: the service never refuses a number, unless a live lock was        *)
(* removed, and what a run was told is stored stays stored under its number. *)
THEOREM ReportsAreKept == Spec => []ReportsArrive
BY NeverRefused, AcceptedStays, PTL DEF ReportsArrive
=============================================================================
