---------------------------- MODULE LocalUpload ----------------------------
(***************************************************************************)
(* `probe test --upload-local`: every run of an installation reads (or     *)
(* creates) the signer file, reserves the next sequence number under the   *)
(* lock file and sends its report under the key (signer, number).  The     *)
(* runs share nothing but the directory ~/.flutterprobe/local-upload:      *)
(* signerFile, lockFile and last (state.json).  A run may die anywhere.    *)
(* Every step that the file system makes atomic is one action.             *)
(***************************************************************************)
EXTENDS Integers, FiniteSets

CONSTANTS
  Run,         \* the runs of probe that upload
  None,        \* no file, no signer
  LockStale,   \* lockStale: a lock older than this is taken to be a dead run's
  LockWait,    \* lockWait: how long a run waits for a busy lock
  MaxClock,    \* bound on the wall clock
  MaxJumps,    \* bound on the times the wall clock is set
  MaxDeaths,   \* bound on the runs that die
  MaxTries,    \* bound on the requests in the retry window
  Punctual     \* TRUE: a live run never holds the lock longer than LockStale

ASSUME LocalUploadAssumption ==
  /\ None \notin Run /\ None \notin [by : Run, at : Nat]
  /\ {LockStale, LockWait, MaxClock, MaxJumps, MaxDeaths, MaxTries} \subseteq Nat
  /\ Punctual \in BOOLEAN

VARIABLES
  wall,        \* the wall clock in milliseconds: mtimes, and the floor of a number
  jumps,       \* times the clock was set
  signerFile,  \* content of the file signer: the random id of the run that linked it
  lockFile,    \* state.lock: the run that created it and its mtime
  last,        \* last in state.json; 0 when there is no file
  stored,      \* the service: the reports it keeps, each a number and its run
  pc,          \* where each run is
  signer,      \* the signer each run works with
  now,         \* the time.Now() passed to NextSeq
  waited,      \* time since lockState was entered
  seq,         \* the number each run computed
  tries,       \* requests sent by each run
  stolen       \* history: a run removed a lock another live run held

vars == <<wall, jumps, signerFile, lockFile, last, stored, pc, signer, now, waited, seq, tries, stolen>>
local == <<signer, now, waited, seq, tries>>

Number  == Nat
Ended   == {"dead", "skipped", "failed", "conflict", "accepted", "dry"}
Holding == {"read", "write", "unlock", "giveback"}     \* between lockState and unlock
HasNumber == {"send", "failed", "conflict", "accepted"}
Where   == Ended \cup Holding \cup {"start", "link", "reserve", "open", "stat", "remove", "send"}

Larger(a, b) == IF a > b THEN a ELSE b

Init ==
  /\ wall \in 1..MaxClock
  /\ jumps = 0 /\ signerFile = None /\ lockFile = None /\ last = 0 /\ stolen = FALSE
  /\ stored = {}
  /\ pc = [r \in Run |-> "start"]
  /\ signer = [r \in Run |-> None]
  /\ now = [r \in Run |-> 0] /\ waited = [r \in Run |-> 0]
  /\ seq = [r \in Run |-> 0] /\ tries = [r \in Run |-> 0]

Goto(r, p) == pc' = [pc EXCEPT ![r] = p]
-----------------------------------------------------------------------------
(* Signer: the file is there, or a random id is linked into place.           *)
ReadSigner(r) ==
  /\ pc[r] = "start"
  /\ signer' = [signer EXCEPT ![r] = signerFile]
  /\ Goto(r, IF signerFile = None THEN "link" ELSE "reserve")
  /\ UNCHANGED <<wall, jumps, signerFile, lockFile, last, stored, now, waited, seq, tries, stolen>>

(* os.Link fails when the file exists.                                       *)
Linked(r) == IF signerFile = None THEN r ELSE signerFile

LinkSigner(r) ==
  /\ pc[r] = "link"
  /\ signerFile' = Linked(r)
  /\ signer' = [signer EXCEPT ![r] = signerFile']
  /\ Goto(r, "reserve")
  /\ UNCHANGED <<wall, jumps, lockFile, last, stored, now, waited, seq, tries, stolen>>

(* NextSeq: the time is taken before the lock.                               *)
BeginReserve(r) ==
  /\ pc[r] = "reserve"
  /\ now' = [now EXCEPT ![r] = wall]
  /\ waited' = [waited EXCEPT ![r] = 0]
  /\ Goto(r, "open")
  /\ UNCHANGED <<wall, jumps, signerFile, lockFile, last, stored, signer, seq, tries, stolen>>

(* PeekSeq, a dry run: the number is shown, nothing is written or sent.      *)
Peek(r) ==
  /\ pc[r] = "reserve"
  /\ Goto(r, "dry")
  /\ UNCHANGED <<wall, jumps, signerFile, lockFile, last, stored, local, stolen>>
-----------------------------------------------------------------------------
Stale == lockFile # None /\ wall - lockFile.at > LockStale
Theirs(r) == lockFile # None /\ lockFile.by # r /\ pc[lockFile.by] \in Holding

(* Mutant: the file is opened without O_EXCL.                                *)
Truncates == TRUE

MayCreate == lockFile = None

OpenLock(r) ==
  /\ pc[r] = "open"
  /\ lockFile' = IF MayCreate THEN [by |-> r, at |-> wall] ELSE lockFile
  /\ Goto(r, IF MayCreate THEN "read" ELSE "stat")
  /\ UNCHANGED <<wall, jumps, signerFile, last, stored, local, stolen>>

(* Mutant: a busy lock is waited for without end.                            *)
NoDeadline(r) == FALSE

PastDeadline(r) == waited[r] > LockWait

StatLock(r) ==
  /\ pc[r] = "stat"
  /\ Goto(r, IF Stale THEN "remove" ELSE IF PastDeadline(r) THEN "skipped" ELSE "open")
  /\ UNCHANGED <<wall, jumps, signerFile, lockFile, last, stored, local, stolen>>

(* os.Remove takes the file that is there now, not the one that was judged.  *)
RemoveLock(r) ==
  /\ lockFile' = None
  /\ stolen' = (stolen \/ Theirs(r))

RemoveStale(r) ==
  /\ pc[r] = "remove"
  /\ RemoveLock(r)
  /\ Goto(r, "open")
  /\ UNCHANGED <<wall, jumps, signerFile, last, stored, local>>

(* Mutants: the last number itself; the clock alone.                         *)
LastOrNow(r) == Larger(last, now[r])
TimeOnly(r) == now[r]

NextNumber(r) == Larger(last + 1, now[r])

ReadState(r) ==
  /\ pc[r] = "read"
  /\ seq' = [seq EXCEPT ![r] = NextNumber(r)]
  /\ now' = [now EXCEPT ![r] = 0]
  /\ waited' = [waited EXCEPT ![r] = 0]
  /\ Goto(r, "write")
  /\ UNCHANGED <<wall, jumps, signerFile, lockFile, last, stored, signer, tries, stolen>>

(* writeSeqState: the rename happens, or an earlier step fails.              *)
Recorded(r) == seq[r]

WriteState(r) ==
  /\ pc[r] = "write"
  /\ \/ last' = Recorded(r) /\ Goto(r, "unlock")
     \/ last' = last   /\ Goto(r, "giveback")
  /\ UNCHANGED <<wall, jumps, signerFile, lockFile, stored, local, stolen>>

Unlock(r) ==
  /\ pc[r] \in {"unlock", "giveback"}
  /\ RemoveLock(r)
  /\ Goto(r, IF pc[r] = "unlock" THEN "send" ELSE "skipped")
  /\ UNCHANGED <<wall, jumps, signerFile, last, stored, local>>
-----------------------------------------------------------------------------
(* The service keeps one report per (signer, number); the signer of all runs *)
(* is one.  It answers, is busy (nothing stored), or the answer is lost.     *)
Report(r) == <<seq[r], r>>
Store(r) == stored' = IF \E s \in Run : <<seq[r], s>> \in stored THEN stored ELSE stored \cup {Report(r)}

(* Mutant: HTTP 409 counts as success.                                       *)
AnyAnswer(r) == "accepted"

Verdict(r) == IF Report(r) \in stored' THEN "accepted" ELSE "conflict"

Send(r) ==
  /\ pc[r] = "send" /\ tries[r] < MaxTries
  /\ tries' = [tries EXCEPT ![r] = @ + 1]
  /\ \/ Store(r) /\ Goto(r, Verdict(r))
     \/ Store(r) /\ Goto(r, "failed")                       \* the answer is lost: not retried
     \/ UNCHANGED stored /\ Goto(r, "failed")               \* the request is lost, or refused
     \/ UNCHANGED stored /\ Goto(r, IF tries'[r] = MaxTries THEN "failed" ELSE "send")  \* 429, 503
  /\ UNCHANGED <<wall, jumps, signerFile, lockFile, last, signer, now, waited, seq, stolen>>

-----------------------------------------------------------------------------
Die(r) ==
  /\ pc[r] \notin Ended
  /\ Cardinality({s \in Run : pc[s] = "dead"}) < MaxDeaths
  /\ Goto(r, "dead")
  /\ UNCHANGED <<wall, jumps, signerFile, lockFile, last, stored, local, stolen>>

HeldLate(w) == lockFile # None /\ pc[lockFile.by] \in Holding /\ w - lockFile.at > LockStale

Waiting == {r \in Run : pc[r] \in {"open", "stat"} /\ waited[r] =< LockWait}

Elapsed(r) == waited[r] + 1

Tick ==
  /\ wall < MaxClock \/ Waiting # {}
  /\ wall' = IF wall < MaxClock THEN wall + 1 ELSE wall
  /\ Punctual => ~HeldLate(wall')
  /\ waited' = [r \in Run |-> IF r \in Waiting THEN Elapsed(r) ELSE waited[r]]
  /\ UNCHANGED <<jumps, signerFile, lockFile, last, stored, pc, signer, now, seq, tries, stolen>>

(* The wall clock is set; the deadline of lockState is monotonic.            *)
SetClock ==
  /\ jumps < MaxJumps
  /\ jumps' = jumps + 1
  /\ wall' \in 1..MaxClock
  /\ Punctual => ~HeldLate(wall')
  /\ UNCHANGED <<signerFile, lockFile, last, stored, pc, local, stolen>>

Reserve(r) ==
  \/ BeginReserve(r) \/ OpenLock(r) \/ StatLock(r) \/ RemoveStale(r)
  \/ ReadState(r) \/ WriteState(r) \/ Unlock(r)

Step(r) == ReadSigner(r) \/ LinkSigner(r) \/ Reserve(r) \/ Peek(r) \/ Send(r)

Next == Tick \/ SetClock \/ \E r \in Run : Step(r) \/ Die(r)

Spec == Init /\ [][Next]_vars
FairSpec == Spec /\ WF_vars(Tick) /\ \A r \in Run : WF_vars(Step(r))
-----------------------------------------------------------------------------
TypeOK ==
  /\ wall \in Nat /\ jumps \in Nat /\ last \in Number /\ stolen \in BOOLEAN
  /\ signerFile \in Run \cup {None}
  /\ lockFile \in [by : Run, at : Nat] \cup {None}
  /\ stored \subseteq (Number \X Run)
  /\ pc \in [Run -> Where]
  /\ signer \in [Run -> Run \cup {None}]
  /\ now \in [Run -> Nat] /\ waited \in [Run -> Nat]
  /\ seq \in [Run -> Number] /\ tries \in [Run -> Nat]

(* Signer: the runs that found no signer file agree on one signer, whichever *)
(* links first; without it one installation would have two sequences.        *)
OneSigner == \A r \in Run : signer[r] # None => signer[r] = signerFile

(* reserveSeq: as long as no run removed the lock of a live one, at most one *)
(* run is between lockState and unlock, and the lock file is its own.        *)
SoleWriter ==
  stolen \/ \A r, s \in Run : pc[r] \in Holding /\ pc[s] \in Holding => r = s

(* NextSeq: no number is handed out twice, though runs die with the lock,    *)
(* the clock is set back and writes fail, unless a live lock was removed.    *)
NumbersUnique ==
  stolen \/ \A r, s \in Run : pc[r] \in HasNumber /\ pc[s] \in HasNumber /\ seq[r] = seq[s] => r = s

(* A report is known by its signer and number: no two runs have the same.    *)
IdentitiesUnique == OneSigner /\ NumbersUnique

(* Upload: the service never refuses a report because the number carries     *)
(* another run's report, unless a live lock was removed.                     *)
NoConflict == stolen \/ \A r \in Run : pc[r] # "conflict"

(* Upload: a run that is told its report was stored finds it there, whatever *)
(* the other runs, lost answers and retries did.                             *)
AcceptedIsStored ==
  \A r \in Run : pc[r] = "accepted" => Report(r) \in stored

(* What the runs make of the answers is what the service holds.              *)
ReportsArrive == NoConflict /\ AcceptedIsStored

(* lockState as its comments promise it, without the exception.              *)
NeverTwoWriters == \A r, s \in Run : pc[r] \in Holding /\ pc[s] \in Holding => r = s

(* NextSeq: the numbers grow in the order in which they are reserved, also   *)
(* when the clock steps back between two reservations.                       *)
Increasing ==
  [][last' # last => stolen \/ last' > last]_vars

(* Every run ends: a lock left by a dead run is taken over or given up on,   *)
(* a busy service is given up on.                                            *)
EveryRunEnds == \A r \in Run : <>(pc[r] \in Ended)
=============================================================================
