-------------------------- MODULE VideoWorker_proofs --------------------------
(***************************************************************************)
(* Theorems about VideoWorker, for any number of processes, whatever ids   *)
(* they bear, and any lease, lag and number of faults that respect         *)
(* TimingAssumption.                                                       *)
(***************************************************************************)
EXTENDS VideoWorker, QueueLedger_proofs

-----------------------------------------------------------------------------
(***************************************************************************)
(* The workers' own variables are well formed, whatever the queue holds.   *)
(***************************************************************************)
OwnTypeOK ==
  /\ pc \in [Procs -> Phases]
  /\ locked \subseteq Procs
  /\ beating \subseteq Procs
  /\ beatIn \in [Procs -> -MaxLag..Lease]
  /\ faults \in 0..MaxFaults

LEMMA BeatEveryType ==
  /\ BeatEvery \in 0..Lease
  /\ BeatEvery \in -MaxLag..Lease
  /\ 0 \in -MaxLag..Lease
  /\ Lease - BeatEvery > 3 * MaxLag
  BY ConstantsAssumption, TimingAssumption DEF BeatEvery

LEMMA LeavingType ==
  ASSUME OwnTypeOK, NEW p \in Procs, Exit(p) \/ NextRound(p)
  PROVE  /\ pc' \in [Procs -> Phases]
         /\ locked' \subseteq Procs
         /\ beating' \subseteq Procs
         /\ beatIn' = beatIn
  BY DEF OwnTypeOK, Exit, NextRound, Goto, Phases

LEMMA OwnTypeInit == WInit => OwnTypeOK
  BY BeatEveryType, TimingAssumption DEF WInit, OwnTypeOK, Phases

LEMMA OwnTypeStep == OwnTypeOK /\ [WNext]_allVars => OwnTypeOK'
  <1> SUFFICES ASSUME OwnTypeOK, [WNext]_allVars PROVE OwnTypeOK'
    OBVIOUS
  <1>1. ASSUME NEW p \in Procs, Start(p) \/ Recover(p) \/ StopBeating(p) PROVE OwnTypeOK'
    BY <1>1, BeatEveryType DEF Start, Recover, StopBeating, Goto, OwnTypeOK, Phases
  <1>2. ASSUME NEW p \in Procs, NEW lag \in Lags, TakeJob(p, lag) PROVE OwnTypeOK'
    BY <1>2, BeatEveryType DEF TakeJob, Goto, OwnTypeOK, Phases
  <1>3. ASSUME NEW p \in Procs, Exit(p) \/ NextRound(p),
               UNCHANGED faults \/ Fault
        PROVE  OwnTypeOK'
    <2>1. faults' \in 0..MaxFaults
      BY <1>3, TimingAssumption DEF Fault, OwnTypeOK
    <2> QED BY <1>3, <2>1, LeavingType DEF OwnTypeOK
  <1>4. ASSUME NEW p \in Procs, NEW lag \in Lags, FindNothing(p, lag) PROVE OwnTypeOK'
    BY <1>3, <1>4 DEF FindNothing
  <1>5. ASSUME NEW p \in Procs, Succeed(p) \/ LoseJob(p) \/ Killed(p) PROVE OwnTypeOK'
    BY <1>3, <1>5 DEF Succeed, LoseJob, Killed
  <1>6. ASSUME NEW p \in Procs, NEW permanent \in BOOLEAN, NEW lag \in Lags,
               GiveUp(p, permanent, lag)
        PROVE  OwnTypeOK'
    BY <1>3, <1>6 DEF GiveUp
  <1>7. ASSUME NEW p \in Procs, Beat(p) PROVE OwnTypeOK'
    BY <1>7, BeatEveryType DEF Beat, OwnTypeOK
  <1>8. ASSUME NEW p \in Procs, BeatDies(p) PROVE OwnTypeOK'
    BY <1>8, TimingAssumption DEF BeatDies, Fault, OwnTypeOK
  <1>9. CASE Client \/ Installer
    BY <1>9 DEF Client, Installer, workerVars, OwnTypeOK
  <1>10. CASE InstallerKilled
    BY <1>10, TimingAssumption DEF InstallerKilled, Fault, OwnTypeOK
  <1>11. CASE Elapse
    <2>1. ASSUME NEW p \in Procs
          PROVE  (IF p \in Timed THEN beatIn[p] - 1 ELSE beatIn[p]) \in -MaxLag..Lease
      BY <1>11, <2>1, ConstantsAssumption DEF Elapse, OwnTypeOK
    <2> QED BY <1>11, <2>1 DEF Elapse, OwnTypeOK
  <1>12. CASE UNCHANGED allVars
    BY <1>12 DEF allVars, workerVars, OwnTypeOK
  <1> QED
    BY <1>1, <1>2, <1>4, <1>5, <1>6, <1>7, <1>8, <1>9, <1>10, <1>11, <1>12 DEF WNext, Step

LEMMA OwnTypeInvariant == WSpec => []OwnTypeOK
  BY OwnTypeInit, OwnTypeStep, PTL DEF WSpec

-----------------------------------------------------------------------------
(***************************************************************************)
(* Every step of the workers is a step of the queue, or leaves it alone.   *)
(***************************************************************************)
LEMMA WorkerStepIsQueueStep == OwnTypeOK /\ [WNext]_allVars => [Next]_vars
  <1> SUFFICES ASSUME OwnTypeOK, [WNext]_allVars PROVE [Next]_vars
    OBVIOUS
  <1>1. ASSUME NEW p \in Procs, Start(p) \/ StopBeating(p) \/ BeatDies(p)
        PROVE  UNCHANGED vars
    BY <1>1 DEF Start, StopBeating, BeatDies
  <1>2. ASSUME NEW p \in Procs, Recover(p) PROVE [Next]_vars
    BY <1>2 DEF Recover, Next, Operation
  <1>3. ASSUME NEW p \in Procs, NEW lag \in Lags, TakeJob(p, lag) \/ FindNothing(p, lag)
        PROVE  [Next]_vars
    BY <1>3 DEF TakeJob, FindNothing, Next, Operation
  <1>4. ASSUME NEW p \in Procs, Succeed(p) \/ LoseJob(p) PROVE Next
    BY <1>4 DEF Succeed, LoseJob, Next, Operation
  <1>5. ASSUME NEW p \in Procs, NEW permanent \in BOOLEAN, NEW lag \in Lags,
               GiveUp(p, permanent, lag)
        PROVE  Next
    BY <1>5 DEF GiveUp, Next, Operation
  <1>6. ASSUME NEW p \in Procs, Beat(p) PROVE [Next]_vars
    <2>1. 0..-beatIn[p] \subseteq Lags
      BY ConstantsAssumption DEF Lags, OwnTypeOK
    <2> QED BY <1>6, <2>1 DEF Beat, Next, Operation
  <1>7. ASSUME NEW p \in Procs, Killed(p) PROVE [Next]_vars
    <2>1. 0 \in Lags
      BY ConstantsAssumption DEF Lags
    <2> QED BY <1>7, <2>1 DEF Killed, Next, Crash
  <1>8. CASE Client \/ Installer
    BY <1>8 DEF Client, Installer, Next, Operation
  <1>9. CASE InstallerKilled
    <2>1. 0 \in Lags
      BY ConstantsAssumption DEF Lags
    <2> QED BY <1>9, <2>1 DEF InstallerKilled, Next, Crash
  <1>10. CASE Elapse
    BY <1>10 DEF Elapse, Next, Operation
  <1>11. CASE UNCHANGED allVars
    BY <1>11 DEF allVars
  <1> QED
    BY <1>1, <1>2, <1>3, <1>4, <1>5, <1>6, <1>7, <1>8, <1>9, <1>10, <1>11 DEF WNext, Step

\* The worker processes use the queue as FileQueue says: everything proved of
\* FileQueue holds of them.
THEOREM WorkersUseTheQueue == WSpec => Spec
  <1>1. WInit => Init
    BY DEF WInit
  <1> QED
    BY <1>1, WorkerStepIsQueueStep, OwnTypeInvariant, PTL DEF WSpec, Spec

\* Crashes included, the processes and the queue stay well formed.
THEOREM WorkersTypeCorrect == WSpec => []WTypeOK
  <1>1. TypeOK /\ OwnTypeOK => WTypeOK
    BY DEF WTypeOK, OwnTypeOK
  <1> QED
    BY <1>1, WorkersUseTheQueue, TypeCorrect, OwnTypeInvariant, PTL

-----------------------------------------------------------------------------
(***************************************************************************)
(* The lock: one process holds it, everyone that is not down holds it, and *)
(* a job or a heartbeat belongs to one that executes.                      *)
(***************************************************************************)
LockInv ==
  /\ \A p, q \in locked : p = q
  /\ \A p \in Procs : pc[p] # "down" => p \in locked
  /\ \A p \in Procs : job[p] # NoJob => pc[p] \in {"execute", "report"}
  /\ \A p \in beating : pc[p] = "execute"

LEMMA LockInvInit == WInit => LockInv
  BY DEF WInit, Init, LockInv

\* A process that is not down is the only one, and alone has a job or a
\* heartbeat.
LEMMA Alone ==
  ASSUME OwnTypeOK, LockInv, NEW p \in Procs, pc[p] # "down"
  PROVE  /\ locked = {p}
         /\ beating \subseteq {p}
         /\ \A q \in Procs \ {p} : pc[q] = "down" /\ job[q] = NoJob
  BY DEF OwnTypeOK, LockInv

\* A process that is done with its job and its heartbeat may leave or go on.
LEMMA LockInvLeaving ==
  ASSUME TypeOK, OwnTypeOK, LockInv, NEW p \in Procs, pc[p] # "down",
         Exit(p) \/ NextRound(p),
         job' = [job EXCEPT ![p] = NoJob]
  PROVE  LockInv' /\ beating' = {}
  <1>1. /\ locked = {p}
        /\ beating \subseteq {p}
        /\ \A q \in Procs \ {p} : pc[q] = "down" /\ job[q] = NoJob
    BY Alone
  <1>2. /\ beating' = {}
        /\ \/ pc' = [pc EXCEPT ![p] = "down"] /\ locked' = locked \ {p}
           \/ pc' = [pc EXCEPT ![p] = "recover"] /\ locked' = locked
    BY <1>1 DEF Exit, NextRound, Goto
  <1>3. \A q \in Procs : job'[q] = NoJob
    BY <1>1 DEF TypeOK
  <1> QED BY <1>1, <1>2, <1>3 DEF LockInv, OwnTypeOK

\* Ending an execution lets go of the job.
LEMMA EndingLetsGo ==
  ASSUME NEW p \in Procs,
         \/ Complete(p) \/ Rejected(p) \/ Die(p) \/ TornComplete(p)
         \/ \E permanent \in BOOLEAN, lag \in Lags :
              Fail(p, permanent, lag) \/ TornFail(p, permanent, lag)
  PROVE  job' = [job EXCEPT ![p] = NoJob]
  BY DEF Complete, Rejected, Die, TornComplete, Fail, TornFail, LetGo

\* So does being killed: in the operations before the claim, and while a claim
\* is under way, there is no job yet.
LEMMA KilledLetsGo ==
  ASSUME TypeOK, OwnTypeOK, LockInv, NEW p \in Procs, Killed(p)
  PROVE  job' = [job EXCEPT ![p] = NoJob]
  <1>1. ASSUME job[p] = NoJob, UNCHANGED job PROVE job' = [job EXCEPT ![p] = NoJob]
    BY <1>1 DEF TypeOK
  <1>2. CASE Die(p)
    BY <1>2, EndingLetsGo
  <1>3. CASE job[p] = NoJob /\ UNCHANGED vars
    BY <1>1, <1>3 DEF vars
  <1>4. CASE pc[p] = "recover" /\ TornRecover(0)
    BY <1>1, <1>4 DEF TornRecover, LockInv
  <1>5. CASE pc[p] = "claim" /\ \E lag \in Lags : TornRecover(lag) \/ TornClaim(p, lag)
    BY <1>1, <1>5 DEF TornRecover, TornClaim, LockInv
  <1>6. CASE TornComplete(p)
    BY <1>6, EndingLetsGo
  <1>7. CASE \E permanent \in BOOLEAN, lag \in Lags : TornFail(p, permanent, lag)
    BY <1>7, EndingLetsGo
  <1> QED BY <1>2, <1>3, <1>4, <1>5, <1>6, <1>7 DEF Killed

LEMMA LockInvStep ==
  TypeOK /\ OwnTypeOK /\ LockInv /\ [WNext]_allVars => LockInv'
  <1> SUFFICES ASSUME TypeOK, OwnTypeOK, LockInv, [WNext]_allVars PROVE LockInv'
    OBVIOUS
  <1>1. ASSUME NEW p \in Procs, Start(p) PROVE LockInv'
    <2>1. \A q \in Procs : pc[q] = "down" /\ job[q] = NoJob
      BY <1>1 DEF Start, LockInv
    <2> QED BY <1>1, <2>1 DEF Start, Goto, LockInv, OwnTypeOK, vars
  <1>2. ASSUME NEW p \in Procs, Recover(p) PROVE LockInv'
    <2>1. UNCHANGED job
      BY <1>2 DEF Recover, RecoverExpired, vars
    <2> QED BY <1>2, <2>1 DEF Recover, Goto, LockInv, OwnTypeOK
  <1>3. ASSUME NEW p \in Procs, NEW lag \in Lags, TakeJob(p, lag) PROVE LockInv'
    <2>1. PICK id \in Ids : job' = [job EXCEPT ![p] = id]
      BY <1>3, ClaimEffect DEF TakeJob
    <2>2. pc[p] = "claim" /\ pc' = [pc EXCEPT ![p] = "execute"]
      BY <1>3 DEF TakeJob, Goto
    <2>3. \A q \in Procs \ {p} : pc[q] = "down" /\ job[q] = NoJob
      BY <2>2, Alone
    <2> QED BY <1>3, <2>1, <2>2, <2>3 DEF TakeJob, LockInv, OwnTypeOK, TypeOK
  <1>4. ASSUME NEW p \in Procs, NEW lag \in Lags, FindNothing(p, lag) PROVE LockInv'
    <2>1. pc[p] = "claim" /\ NextRound(p) /\ UNCHANGED job
      BY <1>4 DEF FindNothing, vars
    <2>2. job[p] = NoJob
      BY <2>1 DEF LockInv
    <2>3. job' = [job EXCEPT ![p] = NoJob]
      BY <2>1, <2>2 DEF TypeOK
    <2> QED BY <2>1, <2>3, LockInvLeaving
  <1>5. ASSUME NEW p \in Procs, StopBeating(p) PROVE LockInv'
    <2>1. pc' = [pc EXCEPT ![p] = "report"] /\ UNCHANGED <<job, locked>>
      BY <1>5 DEF StopBeating, Goto, vars
    <2>2. beating' = beating \ {p} /\ pc[p] = "execute"
      BY <1>5 DEF StopBeating
    <2> QED BY <2>1, <2>2 DEF LockInv, OwnTypeOK
  <1>6. ASSUME NEW p \in Procs, Succeed(p) \/ LoseJob(p) PROVE LockInv'
    <2>1. pc[p] # "down" /\ (Exit(p) \/ NextRound(p)) /\ (Complete(p) \/ Rejected(p))
      BY <1>6 DEF Succeed, LoseJob
    <2> QED BY <2>1, EndingLetsGo, LockInvLeaving
  <1>7. ASSUME NEW p \in Procs, NEW permanent \in BOOLEAN, NEW lag \in Lags,
               GiveUp(p, permanent, lag)
        PROVE  LockInv'
    <2>1. pc[p] # "down" /\ NextRound(p) /\ Fail(p, permanent, lag)
      BY <1>7 DEF GiveUp
    <2> QED BY <2>1, EndingLetsGo, LockInvLeaving
  <1>8. ASSUME NEW p \in Procs, Beat(p) PROVE LockInv'
    <2>1. UNCHANGED <<pc, locked, job>> /\ beating' \subseteq beating
      BY <1>8 DEF Beat, Heartbeat, vars
    <2> QED BY <2>1 DEF LockInv
  <1>9. ASSUME NEW p \in Procs, BeatDies(p) PROVE LockInv'
    BY <1>9 DEF BeatDies, LockInv, vars
  <1>10. ASSUME NEW p \in Procs, Killed(p) PROVE LockInv'
    <2>1. pc[p] # "down" /\ Exit(p)
      BY <1>10 DEF Killed
    <2> QED BY <1>10, <2>1, KilledLetsGo, LockInvLeaving
  <1>11. CASE Client \/ Installer \/ InstallerKilled \/ Elapse \/ UNCHANGED allVars
    <2>1. UNCHANGED <<pc, locked, beating>>
      BY <1>11 DEF Client, Installer, InstallerKilled, Elapse, allVars, workerVars
    <2>2. UNCHANGED job
      BY <1>11
      DEF Client, Enqueue, Installer, RecoverExpired, InstallerKilled, TornRecover,
          Elapse, Tick, allVars, vars
    <2> QED BY <2>1, <2>2 DEF LockInv
  <1> QED
    BY <1>1, <1>2, <1>3, <1>4, <1>5, <1>6, <1>7, <1>8, <1>9, <1>10, <1>11 DEF WNext, Step

LEMMA WTypes == WSpec => []TypeOK /\ []OwnTypeOK
  BY WorkersUseTheQueue, TypeCorrect, OwnTypeInvariant, PTL

LEMMA LockInvInvariant == WSpec => []LockInv
  BY WTypes, LockInvInit, LockInvStep, PTL DEF WSpec

\* At most one process works on jobs, crashes and restarts included, although
\* all may bear the same worker id.
THEOREM OneExecutes == WSpec => []OneWorkerExecutes
  <1>1. LockInv => OneWorkerExecutes
    BY DEF LockInv, OneWorkerExecutes
  <1> QED BY <1>1, LockInvInvariant, PTL

-----------------------------------------------------------------------------
(***************************************************************************)
(* The ledger, for workers that all bear one id.  The owner test of the    *)
(* queue is of no use to them; but a process takes or ends a job only      *)
(* while it holds the lock, and then no other has a job at all.            *)
(***************************************************************************)
LEMMA WorkerStepIsApart ==
  ASSUME TypeOK, OwnTypeOK, LockInv, [WNext]_allVars
  PROVE  ActsOnQueue \/ \E p \in Procs : Apart(p) /\ ActsOnJob(p)
  <1>1. ASSUME NEW p \in Procs, pc[p] # "down" PROVE Apart(p)
    BY <1>1, Alone DEF Apart
  <1>2. 0 \in Lags
    BY ConstantsAssumption DEF Lags
  <1>3. ASSUME NEW p \in Procs, Start(p) \/ StopBeating(p) \/ BeatDies(p) \/ Recover(p)
        PROVE  ActsOnQueue
    BY <1>3 DEF Start, StopBeating, BeatDies, Recover, ActsOnQueue
  <1>4. ASSUME NEW p \in Procs, NEW lag \in Lags, TakeJob(p, lag)
        PROVE  Apart(p) /\ ActsOnJob(p)
    BY <1>1, <1>4 DEF TakeJob, ActsOnJob
  <1>5. ASSUME NEW p \in Procs, NEW lag \in Lags, FindNothing(p, lag) PROVE ActsOnQueue
    BY <1>5 DEF FindNothing, ActsOnQueue
  <1>6. ASSUME NEW p \in Procs, Succeed(p) \/ LoseJob(p) PROVE Apart(p) /\ ActsOnJob(p)
    BY <1>1, <1>6 DEF Succeed, LoseJob, ActsOnJob
  <1>7. ASSUME NEW p \in Procs, NEW permanent \in BOOLEAN, NEW lag \in Lags,
               GiveUp(p, permanent, lag)
        PROVE  Apart(p) /\ ActsOnJob(p)
    BY <1>1, <1>7 DEF GiveUp, ActsOnJob
  <1>8. ASSUME NEW p \in Procs, Beat(p) PROVE ActsOnQueue
    <2>1. 0..-beatIn[p] \subseteq Lags
      BY ConstantsAssumption DEF Lags, OwnTypeOK
    <2> QED BY <1>8, <2>1 DEF Beat, ActsOnQueue
  <1>9. ASSUME NEW p \in Procs, Killed(p)
        PROVE  ActsOnQueue \/ (Apart(p) /\ ActsOnJob(p))
    BY <1>1, <1>2, <1>9 DEF Killed, ActsOnQueue, ActsOnJob
  <1>10. CASE Client \/ Installer \/ InstallerKilled \/ Elapse \/ UNCHANGED allVars
    BY <1>2, <1>10
    DEF Client, Installer, InstallerKilled, Elapse, allVars, ActsOnQueue
  <1> QED
    BY <1>3, <1>4, <1>5, <1>6, <1>7, <1>8, <1>9, <1>10 DEF WNext, Step

\* The workers keep the promises of the ledger although the queue cannot tell
\* them apart (scripts/video_understanding_worker.py gives all of them the id of
\* the service): the lock does (worker.py:192).
THEOREM WorkersImplementLedger == WSpec => ImplementsLedger
  <1>1. WInit => Ledger!LedgerInit
    BY LedgerInitMaps DEF WInit
  <1>2. /\ TypeOK /\ TypeOK' /\ NoJobLost /\ OwnTypeOK /\ LockInv
        /\ [WNext]_allVars
        => [Ledger!LedgerNext]_(Ledger!ledgerVars)
    BY WorkerStepIsApart, ActsOnQueueMaps, ActsOnJobMaps
  <1>3. WSpec => []NoJobLost
    BY WorkersUseTheQueue, NothingLost, PTL
  <1> QED
    BY <1>1, <1>2, <1>3, WTypes, LockInvInvariant, PTL
    DEF WSpec, ImplementsLedger, Ledger!LedgerSpec

-----------------------------------------------------------------------------
(***************************************************************************)
(* The heartbeat: the lease of a job whose heartbeat thread lives runs     *)
(* ahead of the next beat by what the timing leaves.                       *)
(***************************************************************************)
Margin == Lease - BeatEvery - MaxLag

\* The lease runs ahead of the next beat, or of the report, by spare ticks.
AheadBy(p, spare) ==
  /\ job[p] \in DOMAIN processing
  /\ processing[job[p]].worker = WorkerId[p]
  /\ processing[job[p]].leaseUntil \in Int
  /\ processing[job[p]].leaseUntil >= beatIn[p] + spare

LeaseAhead(p) == AheadBy(p, Margin)

HeartInv == \A p \in beating : LeaseAhead(p)

LEMMA MarginEnough ==
  /\ Margin \in Int
  /\ Margin > 2 * MaxLag
  /\ \A lag \in Lags : Lease - lag \in Int /\ Lease - lag >= BeatEvery + Margin
  BY ConstantsAssumption, BeatEveryType DEF Margin, Lags

\* A lease that is far enough ahead is not expired, for no wait for the lock.
LEMMA AheadIsLive ==
  ASSUME OwnTypeOK, NEW p \in Procs, NEW spare \in Int, spare > MaxLag, AheadBy(p, spare)
  PROVE  /\ Owns(p)
         /\ processing[job[p]].leaseUntil > 0
         /\ \A lag \in Lags : job[p] \notin Expired(lag)
  <1> DEFINE until == processing[job[p]].leaseUntil
  <1>1. until \in Int /\ until >= beatIn[p] + spare /\ beatIn[p] \in -MaxLag..Lease
    BY DEF AheadBy, OwnTypeOK
  <1> HIDE DEF until
  <1>2. until > 0
    BY <1>1, ConstantsAssumption
  <1>3. ASSUME NEW lag \in Lags PROVE ~(until <= -lag)
    BY <1>1, <1>2, <1>3, ConstantsAssumption DEF Lags
  <1> QED BY <1>2, <1>3 DEF until, Expired, Owns, AheadBy

LEMMA LeaseAheadIsLive ==
  ASSUME OwnTypeOK, NEW p \in Procs, LeaseAhead(p)
  PROVE  /\ Owns(p)
         /\ processing[job[p]].leaseUntil > 0
         /\ \A lag \in Lags : job[p] \notin Expired(lag)
  <1>1. Margin \in Int /\ Margin > MaxLag
    BY MarginEnough, ConstantsAssumption
  <1> QED BY <1>1, AheadIsLive DEF LeaseAhead

\* What leaves the job, its record and the clock of the heartbeat alone.
LEMMA AheadStays ==
  ASSUME NEW p \in Procs, NEW spare, AheadBy(p, spare),
         job'[p] = job[p], beatIn'[p] = beatIn[p],
         job[p] \in DOMAIN processing',
         processing'[job[p]] = processing[job[p]]
  PROVE  AheadBy(p, spare)'
  BY DEF AheadBy

\* No recovery touches it, whole or cut short.
LEMMA AheadThroughRecovery ==
  ASSUME TypeOK, OwnTypeOK, NEW p \in Procs, LeaseAhead(p),
         RecoverExpired \/ \E lag \in Lags : TornRecover(lag),
         UNCHANGED <<job, beatIn>>
  PROVE  LeaseAhead(p)'
  <1>1. ASSUME NEW lag \in Lags, NEW written, NEW kept, Recovers(lag, written, kept)
        PROVE  LeaseAhead(p)'
    <2>1. Recovered(written, kept)
      BY <1>1, RecoveryEffect
    <2>2. /\ DOMAIN processing' = DOMAIN processing \ (written \ kept)
          /\ \A x \in DOMAIN processing \ (written \ kept) : processing'[x] = processing[x]
      BY <2>1 DEF Recovered
    <2>3. job[p] \in DOMAIN processing \ (written \ kept)
      BY <1>1, LeaseAheadIsLive DEF LeaseAhead, AheadBy, Recovers
    <2> QED BY <2>2, <2>3, AheadStays DEF LeaseAhead
  <1>2. CASE RecoverExpired
    BY <1>1, <1>2, RecoverExpiredEffect
  <1>3. ASSUME NEW lag \in Lags, TornRecover(lag) PROVE LeaseAhead(p)'
    BY <1>1, <1>3, TornRecoverEffect
  <1> QED BY <1>2, <1>3

\* Claim and renewal put the lease ahead.
LEMMA ClaimedIsAhead ==
  ASSUME TypeOK, OwnTypeOK, NEW p \in Procs, NEW lag \in Lags, Claim(p, lag),
         beatIn' = [beatIn EXCEPT ![p] = BeatEvery]
  PROVE  LeaseAhead(p)'
  <1> DEFINE queue == PendingWithRecovered(Expired(lag), lag)
  <1>1. PICK id \in FirstAvailable(queue, lag) :
          /\ processing' = ProcessingWithClaim(p, id, queue[id], lag)
          /\ job' = [job EXCEPT ![p] = id]
    BY DEF Claim
  <1>2. processing'[id] = ClaimedRecord(p, queue[id], lag) /\ id \in DOMAIN processing'
    BY <1>1 DEF ProcessingWithClaim, With
  <1>3. processing'[id].worker = WorkerId[p] /\ processing'[id].leaseUntil = Lease - lag
    BY <1>2 DEF ClaimedRecord
  <1>4. job'[p] = id /\ beatIn'[p] = BeatEvery
    BY <1>1 DEF TypeOK, OwnTypeOK
  <1> QED BY <1>2, <1>3, <1>4, MarginEnough DEF LeaseAhead, AheadBy

LEMMA RenewedIsAhead ==
  ASSUME TypeOK, OwnTypeOK, NEW p \in Procs, NEW lag \in Lags, Heartbeat(p, lag),
         beatIn' = [beatIn EXCEPT ![p] = BeatEvery]
  PROVE  LeaseAhead(p)'
  <1>1. processing[job[p]].worker = WorkerId[p] /\ UNCHANGED job
    BY DEF Heartbeat, Owns
  <1>2. /\ job[p] \in DOMAIN processing'
        /\ processing'[job[p]].worker = WorkerId[p]
        /\ processing'[job[p]].leaseUntil = Lease - lag
    BY <1>1, HeartbeatEffect
  <1>3. beatIn'[p] = BeatEvery
    BY DEF OwnTypeOK
  <1> QED BY <1>1, <1>2, <1>3, MarginEnough DEF LeaseAhead, AheadBy

\* A tick takes one from the lease and one from the clock.
LEMMA AheadThroughTick ==
  ASSUME TypeOK, OwnTypeOK, NEW p \in Procs, p \in Timed,
         NEW spare \in Int, spare > MaxLag, AheadBy(p, spare), Elapse
  PROVE  AheadBy(p, spare)'
  <1> DEFINE until == processing[job[p]].leaseUntil
  <1>1. until > 0 /\ until \in Int /\ until >= beatIn[p] + spare
    BY AheadIsLive DEF AheadBy
  <1>2. job[p] \in DOMAIN processing /\ processing[job[p]].worker = WorkerId[p]
    BY DEF AheadBy
  <1>3. processing[job[p]] \in ProcessingRecord
    BY <1>2, DirectoryElements DEF TypeOK
  <1>4. /\ job[p] \in DOMAIN processing'
        /\ processing'[job[p]] = [processing[job[p]] EXCEPT !.leaseUntil = Sooner(@)]
        /\ UNCHANGED job
    BY <1>2 DEF Elapse, Tick
  <1>5. Sooner(until) = until - 1
    BY <1>1, ConstantsAssumption DEF Sooner
  <1>6. /\ processing'[job[p]].leaseUntil = until - 1
        /\ processing'[job[p]].worker = processing[job[p]].worker
    BY <1>3, <1>4, <1>5 DEF ProcessingRecord
  <1>7. beatIn'[p] = beatIn[p] - 1 /\ beatIn[p] \in Int
    BY ConstantsAssumption DEF Elapse, OwnTypeOK
  <1> HIDE DEF until
  <1>8. until - 1 \in Int /\ until - 1 >= (beatIn[p] - 1) + spare
    BY <1>1, <1>7
  <1> QED BY <1>2, <1>4, <1>6, <1>7, <1>8 DEF AheadBy

LEMMA HeartInvInit == WInit => HeartInv
  BY DEF WInit, HeartInv

LEMMA HeartInvStep ==
  TypeOK /\ OwnTypeOK /\ LockInv /\ HeartInv /\ [WNext]_allVars => HeartInv'
  <1> SUFFICES ASSUME TypeOK, OwnTypeOK, LockInv, HeartInv, [WNext]_allVars
               PROVE  HeartInv'
    OBVIOUS
  <1>1. ASSUME NEW p \in Procs, p \in beating,
               UNCHANGED <<job, processing>>, beatIn'[p] = beatIn[p]
        PROVE  LeaseAhead(p)'
    BY <1>1, AheadStays DEF HeartInv, LeaseAhead, AheadBy
  <1>2. beating \subseteq Procs
    BY DEF OwnTypeOK
  <1>3. ASSUME NEW p \in Procs, Start(p) PROVE HeartInv'
    BY <1>1, <1>2, <1>3 DEF Start, HeartInv, vars, files
  <1>4. ASSUME NEW p \in Procs, Recover(p) PROVE HeartInv'
    <2>1. UNCHANGED <<job, beatIn, beating>>
      BY <1>4 DEF Recover, RecoverExpired, vars
    <2>2. RecoverExpired \/ UNCHANGED processing
      BY <1>4 DEF Recover, vars, files
    <2> QED BY <1>1, <1>2, <2>1, <2>2, AheadThroughRecovery DEF HeartInv
  <1>5. ASSUME NEW p \in Procs, NEW lag \in Lags, TakeJob(p, lag) PROVE HeartInv'
    <2>1. beating' \subseteq {p}
      BY <1>5, Alone DEF TakeJob, LockInv
    <2>2. LeaseAhead(p)'
      BY <1>5, ClaimedIsAhead DEF TakeJob
    <2> QED BY <2>1, <2>2 DEF HeartInv
  <1>6. ASSUME NEW p \in Procs, pc[p] # "down", Exit(p) \/ NextRound(p) PROVE HeartInv'
    <2>1. beating' = {}
      BY <1>6, Alone DEF Exit, NextRound
    <2> QED BY <2>1 DEF HeartInv
  <1>7. ASSUME NEW p \in Procs, NEW lag \in Lags, FindNothing(p, lag) PROVE HeartInv'
    BY <1>6, <1>7 DEF FindNothing
  <1>8. ASSUME NEW p \in Procs, StopBeating(p) PROVE HeartInv'
    <2>1. beating' = {}
      BY <1>8, Alone DEF StopBeating
    <2> QED BY <2>1 DEF HeartInv
  <1>9. ASSUME NEW p \in Procs, Succeed(p) \/ LoseJob(p) \/ Killed(p) PROVE HeartInv'
    BY <1>6, <1>9 DEF Succeed, LoseJob, Killed
  <1>10. ASSUME NEW p \in Procs, NEW permanent \in BOOLEAN, NEW lag \in Lags,
                GiveUp(p, permanent, lag)
         PROVE  HeartInv'
    BY <1>6, <1>10 DEF GiveUp
  <1>11. ASSUME NEW p \in Procs, Beat(p) PROVE HeartInv'
    <2>1. beating \subseteq {p}
      BY <1>11, Alone DEF Beat, LockInv
    <2>2. ASSUME NEW lag \in 0..-beatIn[p], Heartbeat(p, lag),
                 beatIn' = [beatIn EXCEPT ![p] = BeatEvery], UNCHANGED beating
          PROVE  HeartInv'
      <3>1. lag \in Lags
        BY ConstantsAssumption DEF Lags, OwnTypeOK
      <3> QED BY <2>1, <2>2, <3>1, RenewedIsAhead DEF HeartInv
    <2>3. CASE beating' = beating \ {p}
      BY <2>1, <2>3 DEF HeartInv
    <2> QED BY <1>11, <2>2, <2>3 DEF Beat
  <1>12. ASSUME NEW p \in Procs, BeatDies(p) PROVE HeartInv'
    BY <1>1, <1>2, <1>12 DEF BeatDies, HeartInv, vars, files
  <1>13. CASE Client
    BY <1>1, <1>2, <1>13 DEF Client, Enqueue, workerVars, HeartInv
  <1>14. CASE Installer \/ InstallerKilled
    <2>1. 0 \in Lags
      BY ConstantsAssumption DEF Lags
    <2>2. UNCHANGED <<job, beatIn, beating>>
      BY <1>14
      DEF Installer, RecoverExpired, InstallerKilled, TornRecover, workerVars
    <2>3. RecoverExpired \/ \E lag \in Lags : TornRecover(lag)
      BY <1>14, <2>1 DEF Installer, InstallerKilled
    <2> QED BY <1>2, <2>2, <2>3, AheadThroughRecovery DEF HeartInv
  <1>15. CASE Elapse
    <2>1. UNCHANGED beating /\ beating \subseteq Timed
      BY <1>15 DEF Elapse, Timed
    <2>2. Margin \in Int /\ Margin > MaxLag
      BY MarginEnough, ConstantsAssumption
    <2> QED BY <1>2, <1>15, <2>1, <2>2, AheadThroughTick DEF HeartInv, LeaseAhead
  <1>16. CASE UNCHANGED allVars
    BY <1>1, <1>2, <1>16 DEF allVars, workerVars, vars, files, HeartInv
  <1> QED
    BY <1>3, <1>4, <1>5, <1>7, <1>8, <1>9, <1>10, <1>11, <1>12, <1>13, <1>14, <1>15,
       <1>16
    DEF WNext, Step

LEMMA HeartInvInvariant == WSpec => []HeartInv
  BY WTypes, LockInvInvariant, HeartInvInit, HeartInvStep, PTL DEF WSpec

\* While its heartbeat thread lives, a job stays its worker's, under a lease that
\* has not run out.
THEOREM BeatingKeepsLease == WSpec => []BeatKeepsLease
  <1>1. OwnTypeOK /\ HeartInv => BeatKeepsLease
    <2> SUFFICES ASSUME OwnTypeOK, HeartInv, NEW p \in beating PROVE LeaseLive(p)
      BY DEF BeatKeepsLease
    <2>1. LeaseAhead(p) /\ p \in Procs
      BY DEF HeartInv, OwnTypeOK
    <2> QED BY <2>1, LeaseAheadIsLive DEF LeaseLive
  <1> QED BY <1>1, HeartInvInvariant, WTypes, PTL

-----------------------------------------------------------------------------
(***************************************************************************)
(* Executions.  Nothing in the queue compares a job's attempts with        *)
(* max_attempts but fail: recovery requeues whatever expired, and claim    *)
(* hands it out.  What bounds the executions is that without faults no     *)
(* lease ever expires: every record in processing/ is the job of the       *)
(* process at work, which beats while it executes and, between its last    *)
(* beat and its report, still has the greater part of the margin.          *)
(***************************************************************************)
ReportAhead(p) == AheadBy(p, Margin - MaxLag)

Calm ==
  /\ \A p \in Procs : pc[p] = "execute" => p \in beating
  /\ \A p \in Procs : pc[p] = "report" => ReportAhead(p)
  /\ \A id \in DOMAIN processing : \E p \in Procs : job[p] = id
  /\ \A id \in DOMAIN pending : pending[id].attempts < MaxAttempts
  /\ \A id \in DOMAIN processing : processing[id].attempts <= MaxAttempts
  /\ \A id \in Ids : deliveries[id] <= MaxAttempts

CalmInv == faults = 0 => Calm

LEMMA SpareEnough ==
  /\ Margin \in Int /\ Margin > MaxLag
  /\ Margin - MaxLag \in Int /\ Margin - MaxLag > MaxLag
  BY MarginEnough, ConstantsAssumption

\* Whoever executes or reports owns its job, under a live lease.
LEMMA CalmOwns ==
  ASSUME OwnTypeOK, HeartInv, Calm, NEW p \in Procs, pc[p] \in {"execute", "report"}
  PROVE  Owns(p) /\ \A lag \in Lags : job[p] \notin Expired(lag)
  BY SpareEnough, AheadIsLive, LeaseAheadIsLive DEF Calm, HeartInv, ReportAhead

\* No recovery has anything to do.
LEMMA CalmNothingExpires ==
  ASSUME TypeOK, OwnTypeOK, LockInv, HeartInv, Calm, NEW lag \in Lags
  PROVE  Expired(lag) = {}
  <1> SUFFICES ASSUME NEW id \in Expired(lag) PROVE FALSE
    OBVIOUS
  <1>1. id \in DOMAIN processing /\ id # NoJob
    BY Attempts, Bounds DEF Expired
  <1>2. PICK p \in Procs : job[p] = id
    BY <1>1 DEF Calm
  <1>3. pc[p] \in {"execute", "report"}
    BY <1>1, <1>2 DEF LockInv
  <1> QED BY <1>2, <1>3, CalmOwns

\* Who is about to claim sees an empty processing/.
LEMMA CalmClaimsFromPending ==
  ASSUME TypeOK, OwnTypeOK, LockInv, Calm, NEW p \in Procs, pc[p] = "claim"
  PROVE  DOMAIN processing = {}
  <1> SUFFICES ASSUME NEW id \in DOMAIN processing PROVE FALSE
    OBVIOUS
  <1>1. id # NoJob
    BY Attempts, Bounds
  <1>2. PICK q \in Procs : job[q] = id
    BY DEF Calm
  <1> QED BY <1>1, <1>2, Alone DEF LockInv

\* What leaves the queue and whoever reports alone.
LEMMA CalmStays ==
  ASSUME OwnTypeOK, Calm,
         UNCHANGED <<pending, processing, job, deliveries>>,
         \A p \in Procs : pc'[p] = "execute" => pc[p] = "execute" /\ p \in beating',
         \A p \in Procs : pc'[p] = "report" => pc[p] = "report" /\ beatIn'[p] = beatIn[p]
  PROVE  Calm'
  <1>1. \A p \in Procs : pc'[p] = "report" => ReportAhead(p)'
    BY AheadStays DEF Calm, ReportAhead, AheadBy
  <1> QED BY <1>1 DEF Calm

LEMMA CalmInit == WInit => CalmInv
  BY ConstantsAssumption DEF WInit, Init, CalmInv, Calm

LEMMA CalmClaim ==
  ASSUME TypeOK, OwnTypeOK, LockInv, HeartInv, QueueInv, Calm,
         NEW p \in Procs, NEW lag \in Lags, TakeJob(p, lag)
  PROVE  Calm'
  <1>1. PICK id \in Ids : /\ ClaimMoves(p, id, lag, {})
                          /\ job' = [job EXCEPT ![p] = id]
                          /\ deliveries' = [deliveries EXCEPT ![id] = OneMore(@)]
    BY ClaimEffect DEF TakeJob
  <1>2. Expired(lag) = {} /\ DOMAIN processing = {}
    BY CalmNothingExpires, CalmClaimsFromPending DEF TakeJob
  <1>3. /\ id \in DOMAIN pending
        /\ DOMAIN pending' = DOMAIN pending \ {id}
        /\ \A x \in DOMAIN pending' : pending'[x].attempts = pending[x].attempts
        /\ DOMAIN processing' = {id}
        /\ processing'[id].attempts = OneMore(pending[id].attempts)
    BY <1>1, <1>2 DEF ClaimMoves
  <1>4. /\ pending[id].attempts \in Nat
        /\ pending[id].attempts < MaxAttempts
        /\ deliveries[id] \in Nat
        /\ deliveries[id] <= pending[id].attempts
    BY <1>3, Attempts, Bounds DEF Calm, QueueInv, AttemptsCountDeliveries
  <1>5. OneMore(pending[id].attempts) <= MaxAttempts /\ OneMore(deliveries[id]) <= MaxAttempts
    BY <1>4, ConstantsAssumption DEF OneMore, AttemptCap
  <1>6. \A x \in Ids : deliveries'[x] <= MaxAttempts
    BY <1>1, <1>5 DEF Calm, TypeOK
  <1>7. \A q \in Procs : /\ pc'[q] = "execute" => q \in beating'
                         /\ pc'[q] # "report"
    <2>1. \A q \in Procs \ {p} : pc[q] = "down"
      BY Alone DEF TakeJob
    <2> QED BY <2>1 DEF TakeJob, Goto, OwnTypeOK
  <1>8. job'[p] = id
    BY <1>1 DEF TypeOK
  <1>9. \A x \in DOMAIN pending' : pending'[x].attempts < MaxAttempts
    BY <1>3 DEF Calm
  <1> QED BY <1>3, <1>5, <1>6, <1>7, <1>8, <1>9 DEF Calm

\* The end of an execution without a fault.  A job that is put back has been
\* tried less often than it may be.
LEMMA CalmReport ==
  ASSUME TypeOK, OwnTypeOK, LockInv, HeartInv, Calm,
         NEW p \in Procs, pc[p] # "down", NextRound(p),
         \/ Complete(p)
         \/ \E permanent \in BOOLEAN, lag \in Lags : Fail(p, permanent, lag)
  PROVE  Calm'
  <1>1. /\ Owns(p)
        /\ job' = [job EXCEPT ![p] = NoJob]
        /\ processing' = Without(processing, {job[p]})
        /\ UNCHANGED deliveries
    BY DEF Complete, Fail, LetGo
  <1>2. \A q \in Procs \ {p} : pc[q] = "down" /\ job[q] = NoJob
    BY Alone
  <1>3. DOMAIN processing' = {}
    <2>1. DOMAIN processing' = DOMAIN processing \ {job[p]}
      BY <1>1, UnlinkEffect
    <2>2. ASSUME NEW id \in DOMAIN processing PROVE id = job[p]
      <3>1. id # NoJob
        BY Attempts, Bounds
      <3> QED BY <1>2, <3>1 DEF Calm
    <2> QED BY <2>1, <2>2
  <1>4. \A x \in DOMAIN pending' : pending'[x].attempts < MaxAttempts
    <2>1. CASE Complete(p)
      BY <2>1 DEF Complete, Calm
    <2>2. ASSUME NEW permanent \in BOOLEAN, NEW lag \in Lags, Fail(p, permanent, lag)
          PROVE  \A x \in DOMAIN pending' : pending'[x].attempts < MaxAttempts
      <3> DEFINE attempts == processing[job[p]].attempts
                 rec == [attempts |-> attempts, availableAt |-> Backoff(attempts) - lag]
      <3>1. \/ UNCHANGED pending
            \/ ~(attempts >= MaxAttempts) /\ pending' = With(pending, job[p], rec)
        BY <2>2 DEF Fail, WriteFailure
      <3>2. attempts \in Nat
        BY <1>1, Attempts, Bounds DEF Owns
      <3>3. CASE UNCHANGED pending
        BY <3>3 DEF Calm
      <3>4. CASE attempts < MaxAttempts /\ pending' = With(pending, job[p], rec)
        <4>1. ASSUME NEW x \in DOMAIN pending'
              PROVE  pending'[x] = IF x = job[p] THEN rec ELSE pending[x]
          BY <3>4, <4>1 DEF With
        <4>2. \A x \in DOMAIN pending' : x = job[p] \/ x \in DOMAIN pending
          BY <3>4 DEF With
        <4>3. rec.attempts < MaxAttempts
          BY <3>4
        <4> HIDE DEF rec, attempts
        <4> QED BY <4>1, <4>2, <4>3 DEF Calm
      <3>5. ~(attempts >= MaxAttempts) => attempts < MaxAttempts
        BY <3>2, ConstantsAssumption
      <3> QED BY <3>1, <3>3, <3>4, <3>5
    <2> QED BY <2>1, <2>2
  <1>5. \A q \in Procs : pc'[q] \notin {"execute", "report"}
    BY <1>2 DEF NextRound, Exit, Goto, OwnTypeOK
  <1> QED BY <1>1, <1>3, <1>4, <1>5 DEF Calm

\* A tick that comes while someone reports leaves enough of the margin.
LEMMA CalmTick ==
  ASSUME TypeOK, OwnTypeOK, Calm, Elapse
  PROVE  Calm'
  <1>1. UNCHANGED <<pc, job, beating, deliveries>> /\ Tick
    BY DEF Elapse, Tick
  <1>2. \A p \in Procs : pc'[p] = "report" => ReportAhead(p)'
    <2> SUFFICES ASSUME NEW p \in Procs, pc[p] = "report" PROVE ReportAhead(p)'
      BY <1>1
    <2>1. p \in Timed /\ AheadBy(p, Margin - MaxLag)
      BY DEF Timed, Calm, ReportAhead
    <2>2. AheadBy(p, Margin - MaxLag)'
      BY <2>1, SpareEnough, AheadThroughTick
    <2> QED BY <2>2 DEF ReportAhead, Margin
  <1>3. /\ DOMAIN pending' = DOMAIN pending
        /\ DOMAIN processing' = DOMAIN processing
        /\ \A x \in DOMAIN pending : pending'[x].attempts = pending[x].attempts
        /\ \A x \in DOMAIN processing : processing'[x].attempts = processing[x].attempts
    BY <1>1, TickEffect
  <1> QED BY <1>1, <1>2, <1>3 DEF Calm

LEMMA CalmStep ==
  ASSUME TypeOK, OwnTypeOK, LockInv, HeartInv, QueueInv, CalmInv, [WNext]_allVars
  PROVE  CalmInv'
  <1> SUFFICES ASSUME faults' = 0 PROVE Calm'
    BY DEF CalmInv
  <1>1. ~Fault
    <2>1. faults \in Nat
      BY TimingAssumption DEF OwnTypeOK
    <2> QED BY <2>1 DEF Fault
  <1>2. Calm
    <2>1. faults' = faults
      BY <1>1
      DEF WNext, Step, Start, Recover, TakeJob, FindNothing, StopBeating, Succeed, GiveUp,
          LoseJob, Beat, BeatDies, Killed, Client, Installer, InstallerKilled, Elapse,
          workerVars, allVars
    <2> QED BY <2>1 DEF CalmInv
  <1>3. 0 \in Lags /\ Expired(0) = {}
    BY <1>2, CalmNothingExpires, ConstantsAssumption DEF Lags
  <1>4. ASSUME UNCHANGED <<pending, processing, job, deliveries, pc, beating, beatIn>>
        PROVE  Calm'
    BY <1>2, <1>4, CalmStays DEF Calm
  <1>5. ASSUME NEW p \in Procs, Start(p) PROVE Calm'
    BY <1>2, <1>5, CalmStays DEF Start, Goto, OwnTypeOK, Calm, vars, files
  <1>6. ASSUME NEW p \in Procs, Recover(p) PROVE Calm'
    <2>1. UNCHANGED vars
      BY <1>3, <1>6 DEF Recover, RecoverExpired
    <2> QED BY <1>2, <1>6, <2>1, CalmStays DEF Recover, Goto, OwnTypeOK, Calm, vars, files
  <1>7. ASSUME NEW p \in Procs, NEW lag \in Lags, FindNothing(p, lag) PROVE Calm'
    <2>1. \A q \in Procs \ {p} : pc[q] = "down"
      BY <1>7, Alone DEF FindNothing
    <2>2. \A q \in Procs : pc'[q] \notin {"execute", "report"}
      BY <1>7, <2>1 DEF FindNothing, NextRound, Exit, Goto, OwnTypeOK
    <2> QED BY <1>2, <1>7, <2>2, CalmStays DEF FindNothing, vars, files
  <1>8. ASSUME NEW p \in Procs, StopBeating(p) PROVE Calm'
    <2>1. \A q \in Procs \ {p} : pc[q] = "down"
      BY <1>8, Alone DEF StopBeating
    <2>2. AheadBy(p, Margin)
      BY <1>2, <1>8 DEF StopBeating, Calm, HeartInv, LeaseAhead
    <2>3. ReportAhead(p)'
      <3> DEFINE until == processing[job[p]].leaseUntil
      <3>1. until \in Int /\ until >= beatIn[p] + Margin /\ beatIn[p] \in -MaxLag..Lease
        BY <2>2 DEF AheadBy, OwnTypeOK
      <3> HIDE DEF until
      <3>2. until >= 0 + (Margin - MaxLag)
        BY <3>1, SpareEnough, ConstantsAssumption
      <3>3. beatIn'[p] = 0 /\ UNCHANGED <<processing, job>>
        BY <1>8 DEF StopBeating, OwnTypeOK, vars, files
      <3> QED BY <2>2, <3>1, <3>2, <3>3 DEF ReportAhead, AheadBy, until, Margin
    <2>4. /\ \A q \in Procs : pc'[q] # "execute"
          /\ \A q \in Procs : pc'[q] = "report" => q = p
      BY <1>8, <2>1 DEF StopBeating, Goto, OwnTypeOK
    <2>5. UNCHANGED <<pending, processing, job, deliveries>>
      BY <1>8 DEF StopBeating, vars, files
    <2> QED BY <1>2, <2>3, <2>4, <2>5 DEF Calm
  <1>9. ASSUME NEW p \in Procs, Succeed(p) PROVE Calm'
    BY <1>2, <1>9, CalmReport DEF Succeed
  <1>10. ASSUME NEW p \in Procs, NEW permanent \in BOOLEAN, NEW lag \in Lags,
                GiveUp(p, permanent, lag)
         PROVE  Calm'
    BY <1>2, <1>10, CalmReport DEF GiveUp
  <1>11. ASSUME NEW p \in Procs PROVE ~LoseJob(p)
    BY <1>2, CalmOwns DEF LoseJob, Rejected
  <1>12. ASSUME NEW p \in Procs, Beat(p) PROVE Calm'
    <2>1. pc[p] = "execute" /\ Owns(p) /\ \A q \in Procs \ {p} : pc[q] = "down"
      BY <1>2, <1>12, CalmOwns, Alone DEF Beat, LockInv, OwnTypeOK
    <2>2. PICK lag \in 0..-beatIn[p] : Heartbeat(p, lag)
      BY <1>12, <2>1 DEF Beat
    <2>3. lag \in Lags
      BY <2>2, ConstantsAssumption DEF Lags, OwnTypeOK
    <2>4. /\ DOMAIN processing' = DOMAIN processing
          /\ \A x \in DOMAIN processing : processing'[x].attempts = processing[x].attempts
      BY <2>2, <2>3, HeartbeatEffect
    <2>5. UNCHANGED <<pending, job, deliveries, pc, beating>>
      BY <1>12, <2>1, <2>2 DEF Beat, Heartbeat
    <2>6. \A q \in Procs : pc[q] # "report"
      BY <2>1
    <2> QED BY <1>2, <2>4, <2>5, <2>6 DEF Calm
  <1>13. ASSUME Client PROVE Calm'
    <2>1. PICK id \in Ids, lag \in Lags : Enqueue(id, lag) /\ UNCHANGED workerVars
      BY <1>13 DEF Client
    <2>2. /\ UNCHANGED <<processing, job, deliveries, pc, beating, beatIn>>
          /\ DOMAIN pending' = DOMAIN pending \cup {id}
          /\ pending'[id].attempts = 0
          /\ \A x \in DOMAIN pending \ {id} : pending'[x] = pending[x]
      BY <2>1, EnqueueEffect DEF Enqueue, workerVars
    <2>3. \A x \in DOMAIN pending' : pending'[x].attempts < MaxAttempts
      BY <1>2, <2>2, ConstantsAssumption DEF Calm
    <2>4. \A p \in Procs : pc'[p] = "report" => ReportAhead(p)'
      BY <1>2, <2>2 DEF Calm, ReportAhead, AheadBy, Margin
    <2> QED BY <1>2, <2>2, <2>3, <2>4 DEF Calm
  <1>14. ~Installer
    BY <1>3 DEF Installer, RecoverExpired
  <1>15. CASE UNCHANGED allVars
    BY <1>4, <1>15 DEF allVars, workerVars, vars, files
  <1>16. ASSUME NEW p \in Procs, NEW lag \in Lags, TakeJob(p, lag) PROVE Calm'
    BY <1>2, <1>16, CalmClaim
  <1>17. CASE Elapse
    BY <1>2, <1>17, CalmTick
  <1> QED
    BY <1>1, <1>5, <1>6, <1>7, <1>8, <1>9, <1>10, <1>11, <1>12, <1>13, <1>14, <1>15,
       <1>16, <1>17
    DEF WNext, Step, BeatDies, Killed, InstallerKilled

\* Without crashes and I/O errors no job is executed more than max_attempts
\* times, although neither recovery nor claim looks at its attempts
\* (queue.py:263): no lease ever runs out.
THEOREM ExecutionsAreBounded == WSpec => []ExecutionsBounded
  <1>1. CalmInv => ExecutionsBounded
    BY DEF CalmInv, Calm, ExecutionsBounded
  <1>2. WSpec => []QueueInv
    BY WorkersUseTheQueue, QueueInvInvariant, PTL
  <1>3. WSpec => []CalmInv
    BY WTypes, LockInvInvariant, HeartInvInvariant, <1>2, CalmInit, CalmStep, PTL
    DEF WSpec
  <1> QED BY <1>1, <1>3, PTL
=============================================================================
