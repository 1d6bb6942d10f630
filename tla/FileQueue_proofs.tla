--------------------------- MODULE FileQueue_proofs ---------------------------
(***************************************************************************)
(* Theorems about FileQueue, for any number of jobs and workers, any lease *)
(* and any wait for the lock that is shorter than the lease.               *)
(***************************************************************************)
EXTENDS FileQueue, TLAPS

-----------------------------------------------------------------------------
(* Directories. *)

\* Membership in Directory, spelt out.
LEMMA DirectoryElements ==
  ASSUME NEW Record, NEW dir
  PROVE  dir \in Directory(Record) <=>
           /\ DOMAIN dir \subseteq Ids
           /\ dir = [x \in DOMAIN dir |-> dir[x]]
           /\ \A x \in DOMAIN dir : dir[x] \in Record
  <1>1. ASSUME dir \in Directory(Record)
        PROVE  /\ DOMAIN dir \subseteq Ids
               /\ dir = [x \in DOMAIN dir |-> dir[x]]
               /\ \A x \in DOMAIN dir : dir[x] \in Record
    <2>1. PICK S \in SUBSET Ids : dir \in [S -> Record]
      BY <1>1 DEF Directory
    <2> QED BY <2>1
  <1>2. ASSUME DOMAIN dir \subseteq Ids,
               dir = [x \in DOMAIN dir |-> dir[x]],
               \A x \in DOMAIN dir : dir[x] \in Record
        PROVE  dir \in Directory(Record)
    <2>1. dir \in [DOMAIN dir -> Record]
      BY <1>2
    <2> QED BY <1>2, <2>1 DEF Directory
  <1> QED BY <1>1, <1>2

\* Writing a record keeps a directory a directory.
LEMMA WithIsDirectory ==
  ASSUME NEW Record, NEW dir \in Directory(Record),
         NEW id \in Ids, NEW rec \in Record
  PROVE  /\ With(dir, id, rec) \in Directory(Record)
         /\ DOMAIN With(dir, id, rec) = DOMAIN dir \cup {id}
         /\ With(dir, id, rec)[id] = rec
         /\ \A x \in DOMAIN dir \ {id} : With(dir, id, rec)[x] = dir[x]
  <1>1. DOMAIN dir \subseteq Ids /\ \A x \in DOMAIN dir : dir[x] \in Record
    BY DirectoryElements
  <1>2. With(dir, id, rec) \in [DOMAIN dir \cup {id} -> Record]
    BY <1>1 DEF With
  <1>3. With(dir, id, rec) \in Directory(Record)
    BY <1>1, <1>2 DEF Directory
  <1> QED BY <1>3 DEF With

\* Unlinking records keeps a directory a directory.
LEMMA WithoutIsDirectory ==
  ASSUME NEW Record, NEW dir \in Directory(Record), NEW ids
  PROVE  /\ Without(dir, ids) \in Directory(Record)
         /\ DOMAIN Without(dir, ids) = DOMAIN dir \ ids
         /\ \A x \in DOMAIN dir \ ids : Without(dir, ids)[x] = dir[x]
  <1>1. DOMAIN dir \subseteq Ids /\ \A x \in DOMAIN dir : dir[x] \in Record
    BY DirectoryElements
  <1>2. Without(dir, ids) \in [DOMAIN dir \ ids -> Record]
    BY <1>1 DEF Without
  <1>3. Without(dir, ids) \in Directory(Record)
    BY <1>1, <1>2 DEF Directory
  <1> QED BY <1>3 DEF Without

\* Constants.
LEMMA Bounds ==
  /\ NoJob \notin Ids
  /\ AttemptCap \in Nat
  /\ AttemptCap >= 1
  /\ \A lag \in Lags : /\ lag \in Int
                       /\ -lag \in -MaxLag..0
                       /\ Lease - lag \in 1..Lease
  BY ConstantsAssumption DEF NoJob, AttemptCap, Lags

\* Counting up to the cap.
LEMMA OneMoreType ==
  /\ \A n \in 0..AttemptCap : OneMore(n) \in 1..AttemptCap
  /\ \A m, n \in 0..AttemptCap : m >= n => OneMore(m) >= OneMore(n)
  /\ \A n \in 0..AttemptCap : OneMore(n) >= n
  BY ConstantsAssumption DEF OneMore, AttemptCap

\* A retry is put off by the cap at most.
LEMMA BackoffType == \A n : Backoff(n) \in 0..BackoffCap
  BY ConstantsAssumption DEF Backoff

\* A recovery puts well-formed records into pending/.
LEMMA RecoveredIsDirectory ==
  ASSUME pending \in Directory(PendingRecord),
         processing \in Directory(ProcessingRecord),
         NEW lag \in Lags,
         NEW ids \in SUBSET DOMAIN processing
  PROVE  /\ PendingWithRecovered(ids, lag) \in Directory(PendingRecord)
         /\ DOMAIN PendingWithRecovered(ids, lag) = DOMAIN pending \cup ids
         /\ \A id \in ids : PendingWithRecovered(ids, lag)[id] = Requeued(id, lag)
         /\ \A id \in DOMAIN pending \ ids :
              PendingWithRecovered(ids, lag)[id] = pending[id]
  <1>1. \A id \in ids : Requeued(id, lag) \in PendingRecord
    <2>1. TAKE id \in ids
    <2>2. processing[id] \in ProcessingRecord
      BY DirectoryElements
    <2>3. processing[id].attempts \in 0..AttemptCap
      BY <2>2, Bounds DEF ProcessingRecord
    <2>4. -lag \in -MaxLag..BackoffCap
      BY Bounds, ConstantsAssumption DEF Lags
    <2> QED BY <2>3, <2>4 DEF Requeued, PendingRecord
  <1>2. \A id \in DOMAIN pending : pending[id] \in PendingRecord
    BY DirectoryElements
  <1>3. DOMAIN pending \cup ids \subseteq Ids
    BY DirectoryElements
  <1>4. PendingWithRecovered(ids, lag) \in [DOMAIN pending \cup ids -> PendingRecord]
    BY <1>1, <1>2 DEF PendingWithRecovered
  <1>5. PendingWithRecovered(ids, lag) \in Directory(PendingRecord)
    BY <1>3, <1>4 DEF Directory
  <1> QED BY <1>5 DEF PendingWithRecovered

\* A claimed record is well formed and its lease lies in the future.
LEMMA ClaimedRecordType ==
  ASSUME NEW p \in Procs, NEW rec \in PendingRecord, NEW lag \in Lags
  PROVE  /\ ClaimedRecord(p, rec, lag) \in ProcessingRecord
         /\ ClaimedRecord(p, rec, lag).leaseUntil > 0
         /\ ClaimedRecord(p, rec, lag).worker = WorkerId[p]
         /\ ClaimedRecord(p, rec, lag).attempts = OneMore(rec.attempts)
  <1>1. OneMore(rec.attempts) \in 1..AttemptCap
    BY OneMoreType DEF PendingRecord
  <1>2. Lease - lag \in 1..Lease
    BY Bounds
  <1>3. Lease - lag \in -MaxLag..Lease /\ Lease - lag > 0
    BY <1>2, ConstantsAssumption
  <1>4. WorkerId[p] \in WorkerNames
    BY ConstantsAssumption
  <1> QED BY <1>1, <1>3, <1>4 DEF ClaimedRecord, ProcessingRecord

\* Only records in processing/ expire.
LEMMA ExpiredInProcessing ==
  \A lag : Expired(lag) \in SUBSET DOMAIN processing
  BY DEF Expired

\* What claim does to the two directories, for the job it picks.
LEMMA ClaimedDirectories ==
  ASSUME TypeOK, NEW p \in Procs, NEW lag \in Lags,
         NEW id \in FirstAvailable(PendingWithRecovered(Expired(lag), lag), lag)
  PROVE  LET queue == PendingWithRecovered(Expired(lag), lag)
         IN /\ id \in Ids
            /\ id \in DOMAIN pending \cup Expired(lag)
            /\ queue \in Directory(PendingRecord)
            /\ queue[id] \in PendingRecord
            /\ DOMAIN queue = DOMAIN pending \cup Expired(lag)
            /\ ProcessingWithClaim(p, id, queue[id], lag) \in Directory(ProcessingRecord)
  <1> DEFINE queue == PendingWithRecovered(Expired(lag), lag)
             kept == Without(processing, Expired(lag))
  <1>1. /\ queue \in Directory(PendingRecord)
        /\ DOMAIN queue = DOMAIN pending \cup Expired(lag)
    BY RecoveredIsDirectory, ExpiredInProcessing DEF TypeOK
  <1>2. id \in DOMAIN queue
    BY DEF FirstAvailable, Available
  <1>3. id \in Ids /\ queue[id] \in PendingRecord
    BY <1>1, <1>2, DirectoryElements
  <1>4. ClaimedRecord(p, queue[id], lag) \in ProcessingRecord
    BY <1>3, ClaimedRecordType
  <1>5. kept \in Directory(ProcessingRecord)
    BY WithoutIsDirectory DEF TypeOK
  <1> HIDE DEF queue, kept
  <1>6. With(kept, id, ClaimedRecord(p, queue[id], lag)) \in Directory(ProcessingRecord)
    BY <1>3, <1>4, <1>5, WithIsDirectory
  <1> QED BY <1>1, <1>2, <1>3, <1>6 DEF queue, kept, ProcessingWithClaim

-----------------------------------------------------------------------------
(* The type invariant. *)

\* Crashes included, no operation leaves a malformed record or an instant out
\* of its bounds.
THEOREM TypeCorrect == Spec => []TypeOK
  <1>1. Init => TypeOK
    <2> SUFFICES ASSUME Init PROVE TypeOK
      OBVIOUS
    <2>1. pending \in Directory(PendingRecord) /\ processing \in Directory(ProcessingRecord)
      BY DirectoryElements DEF Init
    <2> QED BY <2>1, Bounds DEF Init, TypeOK
  <1>2. TypeOK /\ [Next]_vars => TypeOK'
    <2> SUFFICES ASSUME TypeOK, [Next]_vars PROVE TypeOK'
      OBVIOUS
    <2> USE DEF TypeOK
    <2>1. ASSUME NEW id \in Ids, NEW lag \in Lags, Enqueue(id, lag) PROVE TypeOK'
      <3>1. [attempts |-> 0, availableAt |-> -lag] \in PendingRecord
        BY Bounds, ConstantsAssumption DEF PendingRecord
      <3> QED BY <2>1, <3>1, WithIsDirectory DEF Enqueue
    <2>2. ASSUME RecoverExpired PROVE TypeOK'
      <3>1. 0 \in Lags
        BY ConstantsAssumption DEF Lags
      <3> QED
        BY <2>2, <3>1, RecoveredIsDirectory, ExpiredInProcessing, WithoutIsDirectory
        DEF RecoverExpired
    <2>3. ASSUME NEW p \in Procs, NEW lag \in Lags, Claim(p, lag) PROVE TypeOK'
      <3> DEFINE queue == PendingWithRecovered(Expired(lag), lag)
      <3>1. PICK id \in FirstAvailable(queue, lag) :
              /\ processing' = ProcessingWithClaim(p, id, queue[id], lag)
              /\ pending' = Without(queue, {id})
              /\ job' = [job EXCEPT ![p] = id]
              /\ lapsed' = lapsed \ {p}
              /\ deliveries' = [deliveries EXCEPT ![id] = OneMore(@)]
              /\ UNCHANGED <<done, quarantined, accepted, torn>>
        BY <2>3 DEF Claim
      <3>2. /\ id \in Ids
            /\ queue \in Directory(PendingRecord)
            /\ processing' \in Directory(ProcessingRecord)
        BY <3>1, ClaimedDirectories
      <3>3. pending' \in Directory(PendingRecord)
        BY <3>1, <3>2, WithoutIsDirectory
      <3>4. OneMore(deliveries[id]) \in 0..AttemptCap
        BY <3>2, OneMoreType, Bounds
      <3> QED BY <3>1, <3>2, <3>3, <3>4
    <2>4. ASSUME NEW p \in Procs, NEW lag \in Lags, Heartbeat(p, lag) PROVE TypeOK'
      <3>1. job[p] \in DOMAIN processing
        BY <2>4 DEF Heartbeat, Owns
      <3>2. processing[job[p]] \in ProcessingRecord
        BY <3>1, DirectoryElements
      <3>3. Lease - lag \in -MaxLag..Lease
        BY Bounds, ConstantsAssumption
      <3>4. [processing[job[p]] EXCEPT !.leaseUntil = Lease - lag] \in ProcessingRecord
        BY <3>2, <3>3 DEF ProcessingRecord
      <3>5. \A x \in DOMAIN processing : processing[x] \in ProcessingRecord
        BY DirectoryElements
      <3>6. processing' = [processing EXCEPT ![job[p]] =
                             [processing[job[p]] EXCEPT !.leaseUntil = Lease - lag]]
        BY <2>4 DEF Heartbeat
      <3>7. processing' \in [DOMAIN processing -> ProcessingRecord]
        <4>1. processing = [x \in DOMAIN processing |-> processing[x]]
          BY DirectoryElements
        <4> QED BY <3>4, <3>5, <3>6, <4>1
      <3>8. processing' \in Directory(ProcessingRecord)
        BY <3>7, DirectoryElements DEF Directory
      <3> QED BY <2>4, <3>8 DEF Heartbeat
    <2>5. ASSUME NEW p \in Procs, LetGo(p)
          PROVE  /\ job' \in [Procs -> Ids \cup {NoJob}]
                 /\ lapsed' \subseteq Procs
                 /\ accepted' \subseteq Ids
                 /\ deliveries' \in [Ids -> 0..AttemptCap]
      BY <2>5 DEF LetGo
    <2>6. ASSUME NEW p \in Procs, Owns(p)
          PROVE  job[p] \in Ids /\ job[p] \in DOMAIN processing
      BY <2>6, DirectoryElements DEF Owns
    <2>7. ASSUME NEW p \in Procs, Complete(p) PROVE TypeOK'
      BY <2>5, <2>6, <2>7, WithoutIsDirectory DEF Complete
    <2>8. ASSUME NEW p \in Procs, TornComplete(p) PROVE TypeOK'
      BY <2>5, <2>6, <2>8 DEF TornComplete
    <2>9. ASSUME NEW p \in Procs, NEW permanent \in BOOLEAN, NEW lag \in Lags,
                 Owns(p), WriteFailure(p, permanent, lag)
          PROVE  /\ pending' \in Directory(PendingRecord)
                 /\ quarantined' \subseteq Ids
      <3> DEFINE attempts == processing[job[p]].attempts
                 rec == [attempts |-> attempts, availableAt |-> Backoff(attempts) - lag]
      <3>1. job[p] \in Ids /\ processing[job[p]] \in ProcessingRecord
        BY <2>6, <2>9, DirectoryElements
      <3>2. Backoff(attempts) - lag \in -MaxLag..BackoffCap
        <4>1. Backoff(attempts) \in 0..BackoffCap
          BY BackoffType
        <4> QED BY <4>1, Bounds, ConstantsAssumption DEF Lags
      <3>3. rec \in PendingRecord
        BY <3>1, <3>2, Bounds DEF PendingRecord, ProcessingRecord
      <3>4. With(pending, job[p], rec) \in Directory(PendingRecord)
        BY <3>1, <3>3, WithIsDirectory
      <3> QED BY <2>9, <3>1, <3>4 DEF WriteFailure
    <2>10. ASSUME NEW p \in Procs, NEW permanent \in BOOLEAN, NEW lag \in Lags,
                  Fail(p, permanent, lag)
           PROVE  TypeOK'
      <3>1. processing' \in Directory(ProcessingRecord)
        BY <2>10, WithoutIsDirectory DEF Fail
      <3> QED BY <2>5, <2>9, <2>10, <3>1 DEF Fail
    <2>11. ASSUME NEW p \in Procs, NEW permanent \in BOOLEAN, NEW lag \in Lags,
                  TornFail(p, permanent, lag)
           PROVE  TypeOK'
      BY <2>5, <2>6, <2>9, <2>11 DEF TornFail
    <2>12. ASSUME NEW p \in Procs, Rejected(p) \/ Die(p) PROVE TypeOK'
      BY <2>5, <2>12 DEF Rejected, Die, files
    <2>13. ASSUME Tick PROVE TypeOK'
      <3>1. /\ \A t \in -MaxLag..BackoffCap : Sooner(t) \in -MaxLag..BackoffCap
            /\ \A t \in -MaxLag..Lease : Sooner(t) \in -MaxLag..Lease
        BY ConstantsAssumption DEF Sooner
      <3>2. ASSUME NEW id \in DOMAIN pending
            PROVE  [pending[id] EXCEPT !.availableAt = Sooner(@)] \in PendingRecord
        <4>1. pending[id] \in PendingRecord
          BY DirectoryElements
        <4> QED BY <3>1, <4>1 DEF PendingRecord
      <3>3. ASSUME NEW id \in DOMAIN processing
            PROVE  [processing[id] EXCEPT !.leaseUntil = Sooner(@)] \in ProcessingRecord
        <4>1. processing[id] \in ProcessingRecord
          BY DirectoryElements
        <4> QED BY <3>1, <4>1 DEF ProcessingRecord
      <3>4. pending' \in [DOMAIN pending -> PendingRecord]
        BY <2>13, <3>2 DEF Tick
      <3>5. processing' \in [DOMAIN processing -> ProcessingRecord]
        BY <2>13, <3>3 DEF Tick
      <3>6. /\ pending' \in Directory(PendingRecord)
            /\ processing' \in Directory(ProcessingRecord)
        BY <3>4, <3>5, DirectoryElements DEF Directory
      <3>7. lapsed' \subseteq Procs
        BY <2>13 DEF Tick
      <3> QED BY <2>13, <3>6, <3>7 DEF Tick
    <2>14. ASSUME NEW lag \in Lags, TornRecover(lag) PROVE TypeOK'
      <3>1. PICK written \in SUBSET Expired(lag), kept \in SUBSET Expired(lag) :
              /\ pending' = PendingWithRecovered(written, lag)
              /\ processing' = Without(processing, written \ kept)
              /\ torn' = torn \cup kept
              /\ UNCHANGED <<done, quarantined, job, lapsed, accepted, deliveries>>
        BY <2>14 DEF TornRecover
      <3>2. Expired(lag) \subseteq DOMAIN processing /\ DOMAIN processing \subseteq Ids
        BY ExpiredInProcessing, DirectoryElements
      <3>3. pending' \in Directory(PendingRecord)
        BY <3>1, <3>2, RecoveredIsDirectory
      <3>4. processing' \in Directory(ProcessingRecord)
        BY <3>1, WithoutIsDirectory
      <3> QED BY <3>1, <3>2, <3>3, <3>4
    <2>15. ASSUME NEW p \in Procs, NEW lag \in Lags, TornClaim(p, lag) PROVE TypeOK'
      <3> DEFINE queue == PendingWithRecovered(Expired(lag), lag)
      <3>1. PICK id \in FirstAvailable(queue, lag) :
              /\ processing' = ProcessingWithClaim(p, id, queue[id], lag)
              /\ pending' = queue
              /\ torn' = torn \cup {id}
              /\ UNCHANGED <<done, quarantined, job, lapsed, accepted, deliveries>>
        BY <2>15 DEF TornClaim
      <3>2. /\ id \in Ids
            /\ queue \in Directory(PendingRecord)
            /\ processing' \in Directory(ProcessingRecord)
        BY <3>1, ClaimedDirectories
      <3> QED BY <3>1, <3>2
    <2>16. CASE UNCHANGED vars
      BY <2>16 DEF vars, files
    <2> QED
      BY <2>1, <2>2, <2>3, <2>4, <2>7, <2>8, <2>10, <2>11, <2>12, <2>13, <2>14,
         <2>15, <2>16
      DEF Next, Operation, Crash
  <1> QED BY <1>1, <1>2, PTL DEF Spec

-----------------------------------------------------------------------------
(* What the actions do to the directories, record by record. *)

LEMMA EnqueueEffect ==
  ASSUME TypeOK, NEW id \in Ids, NEW lag \in Lags, Enqueue(id, lag)
  PROVE  /\ DOMAIN pending' = DOMAIN pending \cup {id}
         /\ pending'[id].attempts = 0
         /\ \A x \in DOMAIN pending \ {id} : pending'[x] = pending[x]
  <1>1. [attempts |-> 0, availableAt |-> -lag] \in PendingRecord
    BY Bounds, ConstantsAssumption DEF PendingRecord
  <1>2. pending' = With(pending, id, [attempts |-> 0, availableAt |-> -lag])
    BY DEF Enqueue
  <1> QED BY <1>1, <1>2 DEF With

\* Of the expired records, those written reach pending/, those kept are left
\* in processing/ as well.
Recovers(lag, written, kept) ==
  /\ written \subseteq Expired(lag)
  /\ kept \subseteq written
  /\ pending' = PendingWithRecovered(written, lag)
  /\ processing' = Without(processing, written \ kept)

Recovered(written, kept) ==
  /\ DOMAIN pending' = DOMAIN pending \cup written
  /\ DOMAIN processing' = DOMAIN processing \ (written \ kept)
  /\ written \subseteq DOMAIN processing
  /\ \A x \in written : pending'[x].attempts = processing[x].attempts
  /\ \A x \in DOMAIN pending \ written : pending'[x] = pending[x]
  /\ \A x \in DOMAIN processing \ (written \ kept) : processing'[x] = processing[x]

LEMMA RecoveryEffect ==
  ASSUME TypeOK, NEW lag \in Lags, NEW written, NEW kept, Recovers(lag, written, kept)
  PROVE  Recovered(written, kept)
  <1> USE DEF Recovers
  <1>1. written \in SUBSET DOMAIN processing
    BY ExpiredInProcessing
  <1>2. /\ DOMAIN pending' = DOMAIN pending \cup written
        /\ \A x \in written : pending'[x] = Requeued(x, lag)
        /\ \A x \in DOMAIN pending \ written : pending'[x] = pending[x]
    BY <1>1, RecoveredIsDirectory DEF TypeOK
  <1>3. \A x \in written : Requeued(x, lag).attempts = processing[x].attempts
    BY DEF Requeued
  <1>4. /\ DOMAIN processing' = DOMAIN processing \ (written \ kept)
        /\ \A x \in DOMAIN processing \ (written \ kept) : processing'[x] = processing[x]
    BY DEF Without
  <1> QED BY <1>1, <1>2, <1>3, <1>4 DEF Recovered

LEMMA RecoverExpiredEffect ==
  ASSUME TypeOK, RecoverExpired
  PROVE  0 \in Lags /\ Recovers(0, Expired(0), {})
  <1>1. Expired(0) \ {} = Expired(0)
    OBVIOUS
  <1> QED BY <1>1, ConstantsAssumption DEF RecoverExpired, Recovers, Lags

LEMMA TornRecoverEffect ==
  ASSUME NEW lag \in Lags, TornRecover(lag)
  PROVE  \E written, kept : Recovers(lag, written, kept) /\ torn' = torn \cup kept
  <1>1. PICK written \in SUBSET Expired(lag) : \E kept \in SUBSET written :
          /\ pending' = PendingWithRecovered(written, lag)
          /\ processing' = Without(processing, written \ kept)
          /\ torn' = torn \cup kept
    BY DEF TornRecover
  <1>2. PICK kept \in SUBSET written :
          /\ pending' = PendingWithRecovered(written, lag)
          /\ processing' = Without(processing, written \ kept)
          /\ torn' = torn \cup kept
    BY <1>1
  <1>3. Recovers(lag, written, kept)
    BY <1>2 DEF Recovers
  <1> QED BY <1>2, <1>3

\* The records after a claim; the claimed job stays in pending/ if torn.
ClaimMoves(p, id, lag, left) ==
  /\ id \in Ids
  /\ id \in DOMAIN pending \cup Expired(lag)
  /\ Expired(lag) \subseteq DOMAIN processing
  /\ DOMAIN pending' = (DOMAIN pending \cup Expired(lag)) \ ({id} \ left)
  /\ \A x \in DOMAIN pending' :
       pending'[x].attempts = IF x \in Expired(lag) THEN processing[x].attempts
                                                    ELSE pending[x].attempts
  /\ DOMAIN processing' = (DOMAIN processing \ Expired(lag)) \cup {id}
  /\ processing'[id].leaseUntil > 0
  /\ processing'[id].worker = WorkerId[p]
  /\ processing'[id].attempts =
       OneMore(IF id \in Expired(lag) THEN processing[id].attempts
                                      ELSE pending[id].attempts)
  /\ \A x \in DOMAIN processing' \ {id} : processing'[x] = processing[x]

LEMMA ClaimMovesLemma ==
  ASSUME TypeOK, NEW p \in Procs, NEW lag \in Lags,
         NEW id \in FirstAvailable(PendingWithRecovered(Expired(lag), lag), lag),
         NEW left \in SUBSET {id},
         processing' = ProcessingWithClaim(p, id, PendingWithRecovered(Expired(lag), lag)[id], lag),
         pending' = Without(PendingWithRecovered(Expired(lag), lag), {id} \ left)
  PROVE  ClaimMoves(p, id, lag, left)
  <1> DEFINE queue == PendingWithRecovered(Expired(lag), lag)
  <1>1. /\ id \in Ids
        /\ id \in DOMAIN pending \cup Expired(lag)
        /\ queue \in Directory(PendingRecord)
        /\ queue[id] \in PendingRecord
        /\ DOMAIN queue = DOMAIN pending \cup Expired(lag)
    BY ClaimedDirectories
  <1>2. /\ DOMAIN processing' = (DOMAIN processing \ Expired(lag)) \cup {id}
         /\ processing'[id] = ClaimedRecord(p, queue[id], lag)
         /\ \A x \in DOMAIN processing' \ {id} : processing'[x] = processing[x]
    BY DEF ProcessingWithClaim, With, Without
  <1>3. /\ \A x \in Expired(lag) : queue[x] = Requeued(x, lag)
        /\ \A x \in DOMAIN pending \ Expired(lag) : queue[x] = pending[x]
    BY RecoveredIsDirectory, ExpiredInProcessing DEF TypeOK
  <1>4. \A x \in DOMAIN queue :
          queue[x].attempts = IF x \in Expired(lag) THEN processing[x].attempts
                                                    ELSE pending[x].attempts
    BY <1>1, <1>3 DEF Requeued
  <1>5. /\ processing'[id].leaseUntil > 0
        /\ processing'[id].worker = WorkerId[p]
        /\ processing'[id].attempts = OneMore(queue[id].attempts)
    BY <1>1, <1>2, ClaimedRecordType
  <1> HIDE DEF queue
  <1>6. /\ DOMAIN Without(queue, {id} \ left) = DOMAIN queue \ ({id} \ left)
        /\ \A x \in DOMAIN queue \ ({id} \ left) : Without(queue, {id} \ left)[x] = queue[x]
    BY DEF Without
  <1>7. pending' = Without(queue, {id} \ left)
    BY DEF queue
  <1>8. \A x \in DOMAIN pending' :
          pending'[x].attempts = IF x \in Expired(lag) THEN processing[x].attempts
                                                       ELSE pending[x].attempts
    BY <1>4, <1>6, <1>7
  <1> QED BY <1>1, <1>2, <1>4, <1>5, <1>6, <1>7, <1>8, ExpiredInProcessing DEF ClaimMoves

LEMMA ClaimEffect ==
  ASSUME TypeOK, NEW p \in Procs, NEW lag \in Lags, Claim(p, lag)
  PROVE  \E id \in Ids :
           /\ ClaimMoves(p, id, lag, {})
           /\ job[p] = NoJob
           /\ job' = [job EXCEPT ![p] = id]
           /\ lapsed' = lapsed \ {p}
           /\ deliveries' = [deliveries EXCEPT ![id] = OneMore(@)]
           /\ UNCHANGED <<done, quarantined, accepted, torn>>
  <1> DEFINE queue == PendingWithRecovered(Expired(lag), lag)
  <1>1. PICK id \in FirstAvailable(queue, lag) :
          /\ job[p] = NoJob
          /\ processing' = ProcessingWithClaim(p, id, queue[id], lag)
          /\ pending' = Without(queue, {id})
          /\ job' = [job EXCEPT ![p] = id]
          /\ lapsed' = lapsed \ {p}
          /\ deliveries' = [deliveries EXCEPT ![id] = OneMore(@)]
          /\ UNCHANGED <<done, quarantined, accepted, torn>>
    BY DEF Claim
  <1>2. {id} \ {} = {id}
    OBVIOUS
  <1>3. ClaimMoves(p, id, lag, {})
    BY <1>1, <1>2, ClaimMovesLemma
  <1> QED BY <1>1, <1>3 DEF ClaimMoves

LEMMA TornClaimEffect ==
  ASSUME TypeOK, NEW p \in Procs, NEW lag \in Lags, TornClaim(p, lag)
  PROVE  \E id \in Ids :
           /\ ClaimMoves(p, id, lag, {id})
           /\ torn' = torn \cup {id}
           /\ UNCHANGED <<done, quarantined, job, lapsed, accepted, deliveries>>
  <1> DEFINE queue == PendingWithRecovered(Expired(lag), lag)
  <1>1. PICK id \in FirstAvailable(queue, lag) :
          /\ processing' = ProcessingWithClaim(p, id, queue[id], lag)
          /\ pending' = queue
          /\ torn' = torn \cup {id}
          /\ UNCHANGED <<done, quarantined, job, lapsed, accepted, deliveries>>
    BY DEF TornClaim
  <1>2. queue \in Directory(PendingRecord)
    BY <1>1, ClaimedDirectories
  <1>3. queue = Without(queue, {id} \ {id})
    BY <1>2, DirectoryElements DEF Without
  <1>4. ClaimMoves(p, id, lag, {id})
    BY <1>1, <1>3, ClaimMovesLemma
  <1> QED BY <1>1, <1>4 DEF ClaimMoves

\* The record of the job a process has been handed is unlinked from processing/.
LEMMA UnlinkEffect ==
  ASSUME TypeOK, NEW p \in Procs, processing' = Without(processing, {job[p]})
  PROVE  /\ DOMAIN processing' = DOMAIN processing \ {job[p]}
         /\ \A x \in DOMAIN processing' : processing'[x] = processing[x]
  BY DEF Without

\* A failure writes one file: in quarantined/, or in pending/ with the attempts
\* that were counted.
LEMMA WriteFailureEffect ==
  ASSUME TypeOK, NEW p \in Procs, NEW permanent \in BOOLEAN, NEW lag \in Lags,
         Owns(p), WriteFailure(p, permanent, lag)
  PROVE  /\ job[p] \in Ids
         /\ \/ /\ quarantined' = quarantined \cup {job[p]}
               /\ pending' = pending
            \/ /\ quarantined' = quarantined
               /\ DOMAIN pending' = DOMAIN pending \cup {job[p]}
               /\ pending'[job[p]].attempts = processing[job[p]].attempts
               /\ \A x \in DOMAIN pending \ {job[p]} : pending'[x] = pending[x]
  <1> DEFINE attempts == processing[job[p]].attempts
             rec == [attempts |-> attempts, availableAt |-> Backoff(attempts) - lag]
  <1>1. job[p] \in Ids /\ processing[job[p]] \in ProcessingRecord
    BY DirectoryElements DEF TypeOK, Owns
  <1>2. /\ DOMAIN With(pending, job[p], rec) = DOMAIN pending \cup {job[p]}
        /\ With(pending, job[p], rec)[job[p]] = rec
        /\ \A x \in DOMAIN pending \ {job[p]} : With(pending, job[p], rec)[x] = pending[x]
    BY DEF With
  <1> QED BY <1>1, <1>2 DEF WriteFailure

\* Time changes instants only.
LEMMA TickEffect ==
  ASSUME TypeOK, Tick
  PROVE  /\ DOMAIN pending' = DOMAIN pending
         /\ DOMAIN processing' = DOMAIN processing
         /\ \A x \in DOMAIN pending : pending'[x].attempts = pending[x].attempts
         /\ \A x \in DOMAIN processing : processing'[x].attempts = processing[x].attempts
  <1>1. \A x \in DOMAIN pending : pending[x] \in PendingRecord
    BY DirectoryElements DEF TypeOK
  <1>2. \A x \in DOMAIN processing : processing[x] \in ProcessingRecord
    BY DirectoryElements DEF TypeOK
  <1> QED BY <1>1, <1>2 DEF Tick, PendingRecord, ProcessingRecord

LEMMA HeartbeatEffect ==
  ASSUME TypeOK, NEW p \in Procs, NEW lag \in Lags, Heartbeat(p, lag)
  PROVE  /\ job[p] \in DOMAIN processing
         /\ DOMAIN processing' = DOMAIN processing
         /\ \A x \in DOMAIN processing :
              /\ processing'[x].attempts = processing[x].attempts
              /\ processing'[x].worker = processing[x].worker
              /\ processing'[x].leaseUntil =
                   IF x = job[p] THEN Lease - lag ELSE processing[x].leaseUntil
  <1>1. \A x \in DOMAIN processing : processing[x] \in ProcessingRecord
    BY DirectoryElements DEF TypeOK
  <1> QED BY <1>1 DEF Heartbeat, Owns, ProcessingRecord

-----------------------------------------------------------------------------
(***************************************************************************)
(* The inductive invariant behind the safety properties.  A job that was   *)
(* accepted is in some place, and one that was not is in none; a job is in *)
(* two places only if it is torn; attempts count deliveries, which starts  *)
(* from a new job having had none.                                         *)
(***************************************************************************)
InSomePlace(id) == id \in DOMAIN pending \cup DOMAIN processing \cup done \cup quarantined

InOnePlace(id) ==
  /\ id \in DOMAIN pending => id \notin DOMAIN processing \cup done \cup quarantined
  /\ id \in DOMAIN processing => id \notin done \cup quarantined
  /\ id \in done => id \notin quarantined

AcceptedHasPlace == \A id \in accepted : InSomePlace(id)
PlacedIsAccepted == \A id \in Ids : InSomePlace(id) => id \in accepted
NewIsUndelivered == \A id \in Ids \ accepted : deliveries[id] = 0
UntornInOnePlace == \A id \in Ids \ torn : InOnePlace(id)

QueueInv ==
  /\ AcceptedHasPlace
  /\ PlacedIsAccepted
  /\ NewIsUndelivered
  /\ UntornInOnePlace
  /\ AttemptsCountDeliveries

\* States, spelt out.
LEMMA StatesElements ==
  \A id : /\ "pending" \in States(id) <=> id \in DOMAIN pending
          /\ "processing" \in States(id) <=> id \in DOMAIN processing
          /\ "done" \in States(id) <=> id \in done
          /\ "quarantined" \in States(id) <=> id \in quarantined
          /\ States(id) \subseteq {"pending", "processing", "done", "quarantined"}
  BY DEF States

\* The types the steps need.
LEMMA Attempts ==
  ASSUME TypeOK
  PROVE  /\ \A x \in DOMAIN pending : pending[x].attempts \in 0..AttemptCap
         /\ \A x \in DOMAIN processing : processing[x].attempts \in 0..AttemptCap
         /\ \A x \in Ids : deliveries[x] \in 0..AttemptCap
         /\ DOMAIN pending \subseteq Ids
         /\ DOMAIN processing \subseteq Ids
  <1>1. \A x \in DOMAIN pending : pending[x] \in PendingRecord
    BY DirectoryElements DEF TypeOK
  <1>2. \A x \in DOMAIN processing : processing[x] \in ProcessingRecord
    BY DirectoryElements DEF TypeOK
  <1>3. DOMAIN pending \subseteq Ids /\ DOMAIN processing \subseteq Ids
    BY DirectoryElements DEF TypeOK
  <1> QED BY <1>1, <1>2, <1>3, Bounds DEF PendingRecord, ProcessingRecord, TypeOK

LEMMA QueueInvInit == Init => QueueInv
  BY Bounds
  DEF Init, QueueInv, AcceptedHasPlace, PlacedIsAccepted, NewIsUndelivered,
      UntornInOnePlace, AttemptsCountDeliveries, InSomePlace, InOnePlace

\* Recoveries, complete or torn.
LEMMA QueueInvRecovery ==
  ASSUME TypeOK, QueueInv, NEW lag \in Lags, NEW written, NEW kept,
         Recovers(lag, written, kept),
         torn' = torn \cup kept,
         UNCHANGED <<done, quarantined, accepted, deliveries>>
  PROVE  QueueInv'
  <1>1. /\ DOMAIN pending' = DOMAIN pending \cup written
        /\ DOMAIN processing' = DOMAIN processing \ (written \ kept)
        /\ written \subseteq DOMAIN processing
        /\ \A x \in written : pending'[x].attempts = processing[x].attempts
        /\ \A x \in DOMAIN pending \ written : pending'[x] = pending[x]
        /\ \A x \in DOMAIN processing \ (written \ kept) : processing'[x] = processing[x]
    <2>1. Recovered(written, kept)
      BY RecoveryEffect
    <2> QED BY <2>1 DEF Recovered
  <1>0. kept \subseteq written /\ written \subseteq Expired(lag)
    BY DEF Recovers
  <1> USE <1>0 DEF QueueInv
  <1>2. AcceptedHasPlace'
    BY <1>1 DEF AcceptedHasPlace, InSomePlace
  <1>3. PlacedIsAccepted'
    BY <1>1 DEF PlacedIsAccepted, InSomePlace
  <1>4. NewIsUndelivered'
    BY DEF NewIsUndelivered
  <1>5. UntornInOnePlace'
    BY <1>1 DEF UntornInOnePlace, InOnePlace
  <1>6. AttemptsCountDeliveries'
    BY <1>1 DEF AttemptsCountDeliveries
  <1> QED BY <1>2, <1>3, <1>4, <1>5, <1>6

\* The end of a job's processing: a file is written to done/, to quarantined/
\* or to pending/, and unlinked from processing/ unless the report is torn.
LEMMA QueueInvReport ==
  ASSUME TypeOK, QueueInv, NEW id \in DOMAIN processing, NEW left \in SUBSET {id},
         DOMAIN processing' = DOMAIN processing \ ({id} \ left),
         \A x \in DOMAIN processing' : processing'[x] = processing[x],
         torn' = torn \cup left,
         done' \in {done, done \cup {id}},
         quarantined' \in {quarantined, quarantined \cup {id}},
         DOMAIN pending' \in {DOMAIN pending, DOMAIN pending \cup {id}},
         \A x \in DOMAIN pending \ {id} : pending'[x] = pending[x],
         id \in DOMAIN pending' =>
           pending'[id].attempts = processing[id].attempts
             \/ (id \in DOMAIN pending /\ pending'[id] = pending[id]),
         left = {} =>
           \/ id \in done' /\ quarantined' = quarantined /\ DOMAIN pending' = DOMAIN pending
           \/ id \in quarantined' /\ done' = done /\ DOMAIN pending' = DOMAIN pending
           \/ id \in DOMAIN pending' /\ done' = done /\ quarantined' = quarantined,
         UNCHANGED <<accepted, deliveries>>
  PROVE  QueueInv'
  <1> USE DEF QueueInv
  <1>1. id \in Ids
    BY Attempts
  <1>2. AcceptedHasPlace'
    BY DEF AcceptedHasPlace, InSomePlace
  <1>3. PlacedIsAccepted'
    BY <1>1 DEF PlacedIsAccepted, InSomePlace
  <1>4. NewIsUndelivered'
    BY DEF NewIsUndelivered
  <1>5. UntornInOnePlace'
    <2> SUFFICES ASSUME NEW x \in Ids \ torn' PROVE InOnePlace(x)'
      BY DEF UntornInOnePlace
    <2>1. InOnePlace(x)
      BY DEF UntornInOnePlace
    <2>2. CASE x # id
      BY <2>1, <2>2 DEF InOnePlace
    <2>3. CASE x = id
      <3>1. left = {}
        BY <2>3
      <3> QED BY <2>1, <2>3, <3>1 DEF InOnePlace
    <2> QED BY <2>2, <2>3
  <1>6. AttemptsCountDeliveries'
    BY DEF AttemptsCountDeliveries
  <1> QED BY <1>2, <1>3, <1>4, <1>5, <1>6

\* The attempts of a claimed job are counted up together with its deliveries.
LEMMA QueueInvClaim ==
  ASSUME TypeOK, QueueInv, NEW p \in Procs, NEW lag \in Lags, NEW id \in Ids,
         NEW left, left \subseteq {id},
         ClaimMoves(p, id, lag, left),
         torn' = torn \cup left,
         deliveries' \in {deliveries, [deliveries EXCEPT ![id] = OneMore(@)]},
         left # {} => deliveries' = deliveries,
         UNCHANGED <<done, quarantined, accepted>>
  PROVE  QueueInv'
  <1>1. /\ id \in DOMAIN pending \cup Expired(lag)
        /\ Expired(lag) \subseteq DOMAIN processing
        /\ DOMAIN pending' = (DOMAIN pending \cup Expired(lag)) \ ({id} \ left)
        /\ DOMAIN processing' = (DOMAIN processing \ Expired(lag)) \cup {id}
        /\ DOMAIN pending \subseteq Ids /\ DOMAIN processing \subseteq Ids
    BY Attempts DEF ClaimMoves
  <1>2. id \in accepted
    BY <1>1 DEF QueueInv, PlacedIsAccepted, InSomePlace
  <1>3. AcceptedHasPlace'
    BY <1>1 DEF QueueInv, AcceptedHasPlace, InSomePlace
  <1>4. PlacedIsAccepted'
    BY <1>1 DEF QueueInv, PlacedIsAccepted, InSomePlace
  <1>5. NewIsUndelivered'
    BY <1>2 DEF QueueInv, NewIsUndelivered, TypeOK
  <1>6. UntornInOnePlace'
    <2> SUFFICES ASSUME NEW x \in Ids \ torn' PROVE InOnePlace(x)'
      BY DEF UntornInOnePlace
    <2>1. InOnePlace(x)
      BY DEF QueueInv, UntornInOnePlace
    <2>2. x = id => left = {}
      OBVIOUS
    <2> QED BY <1>1, <2>1, <2>2 DEF InOnePlace
  <1>7. AttemptsCountDeliveries'
    <2> DEFINE counted(x) == IF x \in Expired(lag) THEN processing[x].attempts
                                                   ELSE pending[x].attempts
    <2>1. \A x \in DOMAIN pending \cup Expired(lag) :
             counted(x) \in 0..AttemptCap /\ counted(x) >= deliveries[x]
      BY <1>1, Attempts DEF QueueInv, AttemptsCountDeliveries
    <2>2. OneMore(counted(id)) >= OneMore(deliveries[id])
      BY <1>1, <2>1, Attempts, OneMoreType
    <2>3. OneMore(counted(id)) >= deliveries[id]
      BY <1>1, <2>1, Attempts, OneMoreType
    <2>4. /\ \A x \in DOMAIN pending' : pending'[x].attempts = counted(x)
          /\ processing'[id].attempts = OneMore(counted(id))
          /\ \A x \in DOMAIN processing' \ {id} : processing'[x] = processing[x]
      BY DEF ClaimMoves
    <2>5. /\ deliveries'[id] \in {deliveries[id], OneMore(deliveries[id])}
          /\ \A x \in Ids \ {id} : deliveries'[x] = deliveries[x]
      BY DEF TypeOK
    <2>6. \A x \in DOMAIN pending' : pending'[x].attempts >= deliveries'[x]
      <3> SUFFICES ASSUME NEW x \in DOMAIN pending'
                   PROVE  pending'[x].attempts >= deliveries'[x]
        OBVIOUS
      <3>1. CASE x # id
        BY <1>1, <2>1, <2>4, <2>5, <3>1
      <3>2. CASE x = id
        <4>1. deliveries' = deliveries
          BY <1>1, <3>2
        <4> QED BY <1>1, <2>1, <2>4, <3>2, <4>1
      <3> QED BY <3>1, <3>2
    <2>7. \A x \in DOMAIN processing' : processing'[x].attempts >= deliveries'[x]
      BY <1>1, <2>2, <2>3, <2>4, <2>5 DEF QueueInv, AttemptsCountDeliveries
    <2> QED BY <2>6, <2>7 DEF AttemptsCountDeliveries
  <1> QED BY <1>3, <1>4, <1>5, <1>6, <1>7 DEF QueueInv

LEMMA QueueInvStep == TypeOK /\ QueueInv /\ [Next]_vars => QueueInv'
  <1> SUFFICES ASSUME TypeOK, QueueInv, [Next]_vars PROVE QueueInv'
    OBVIOUS
  <1>1. ASSUME NEW id \in Ids, NEW lag \in Lags, Enqueue(id, lag) PROVE QueueInv'
    <2>1. /\ DOMAIN pending' = DOMAIN pending \cup {id}
          /\ pending'[id].attempts = 0
          /\ \A x \in DOMAIN pending \ {id} : pending'[x] = pending[x]
      BY <1>1, EnqueueEffect
    <2>2. /\ accepted' = accepted \cup {id}
          /\ UNCHANGED <<processing, done, quarantined, deliveries, torn>>
      BY <1>1 DEF Enqueue
    <2>3. ~InSomePlace(id)
      BY <1>1, StatesElements DEF Enqueue, InSomePlace
    <2>4. deliveries[id] = 0
      BY <2>3 DEF QueueInv, AcceptedHasPlace, NewIsUndelivered
    <2>5. AcceptedHasPlace' /\ PlacedIsAccepted'
      BY <2>1, <2>2 DEF QueueInv, AcceptedHasPlace, PlacedIsAccepted, InSomePlace
    <2>6. NewIsUndelivered'
      BY <2>2 DEF QueueInv, NewIsUndelivered
    <2>7. UntornInOnePlace'
      BY <2>1, <2>2, <2>3 DEF QueueInv, UntornInOnePlace, InOnePlace, InSomePlace
    <2>8. AttemptsCountDeliveries'
      BY <2>1, <2>2, <2>4 DEF QueueInv, AttemptsCountDeliveries
    <2> QED BY <2>5, <2>6, <2>7, <2>8 DEF QueueInv
  <1>2. ASSUME RecoverExpired PROVE QueueInv'
    <2>1. torn' = torn \cup {} /\ UNCHANGED <<done, quarantined, accepted, deliveries>>
      BY <1>2 DEF RecoverExpired
    <2> QED BY <1>2, <2>1, RecoverExpiredEffect, QueueInvRecovery
  <1>3. ASSUME NEW lag \in Lags, TornRecover(lag) PROVE QueueInv'
    <2>1. PICK written, kept : Recovers(lag, written, kept) /\ torn' = torn \cup kept
      BY <1>3, TornRecoverEffect
    <2>2. UNCHANGED <<done, quarantined, accepted, deliveries>>
      BY <1>3 DEF TornRecover
    <2> QED BY <2>1, <2>2, QueueInvRecovery
  <1>4. ASSUME NEW p \in Procs, NEW lag \in Lags, Claim(p, lag) PROVE QueueInv'
    <2>1. PICK id \in Ids : /\ ClaimMoves(p, id, lag, {})
                            /\ deliveries' = [deliveries EXCEPT ![id] = OneMore(@)]
                            /\ UNCHANGED <<done, quarantined, accepted, torn>>
      BY <1>4, ClaimEffect
    <2> DEFINE left == {}
    <2>2. /\ left \subseteq {id}
          /\ ClaimMoves(p, id, lag, left)
          /\ torn' = torn \cup left
          /\ deliveries' \in {deliveries, [deliveries EXCEPT ![id] = OneMore(@)]}
          /\ left # {} => deliveries' = deliveries
          /\ UNCHANGED <<done, quarantined, accepted>>
      BY <2>1
    <2> HIDE DEF left
    <2> QED BY <2>2, QueueInvClaim
  <1>5. ASSUME NEW p \in Procs, NEW lag \in Lags, TornClaim(p, lag) PROVE QueueInv'
    <2>1. PICK id \in Ids : /\ ClaimMoves(p, id, lag, {id})
                            /\ torn' = torn \cup {id}
                            /\ UNCHANGED <<done, quarantined, accepted, deliveries>>
      BY <1>5, TornClaimEffect
    <2> QED BY <2>1, QueueInvClaim
  <1>6. ASSUME NEW p \in Procs, NEW lag \in Lags, Heartbeat(p, lag) PROVE QueueInv'
    <2>1. /\ DOMAIN processing' = DOMAIN processing
          /\ \A x \in DOMAIN processing : processing'[x].attempts = processing[x].attempts
      BY <1>6, HeartbeatEffect
    <2>2. UNCHANGED <<pending, done, quarantined, accepted, deliveries, torn>>
      BY <1>6 DEF Heartbeat
    <2> QED
      BY <2>1, <2>2
      DEF QueueInv, AcceptedHasPlace, PlacedIsAccepted, NewIsUndelivered,
          UntornInOnePlace, AttemptsCountDeliveries, InSomePlace, InOnePlace
  <1>7. ASSUME NEW p \in Procs, Complete(p) PROVE QueueInv'
    <2>1. /\ job[p] \in DOMAIN processing
          /\ done' = done \cup {job[p]}
          /\ processing' = Without(processing, {job[p]})
          /\ UNCHANGED <<pending, quarantined, torn, accepted, deliveries>>
      BY <1>7 DEF Complete, Owns, LetGo
    <2>2. /\ DOMAIN processing' = DOMAIN processing \ {job[p]}
          /\ \A x \in DOMAIN processing' : processing'[x] = processing[x]
      BY <2>1, UnlinkEffect
    <2>3. DOMAIN processing' = DOMAIN processing \ ({job[p]} \ {}) /\ torn' = torn \cup {}
      BY <2>1, <2>2
    <2> QED BY <2>1, <2>2, <2>3, QueueInvReport
  <1>8. ASSUME NEW p \in Procs, TornComplete(p) PROVE QueueInv'
    <2>1. /\ job[p] \in DOMAIN processing
          /\ done' = done \cup {job[p]}
          /\ torn' = torn \cup {job[p]}
          /\ UNCHANGED <<pending, processing, quarantined, accepted, deliveries>>
      BY <1>8 DEF TornComplete, Owns, LetGo
    <2>2. DOMAIN processing' = DOMAIN processing \ ({job[p]} \ {job[p]})
      BY <2>1
    <2> QED BY <2>1, <2>2, QueueInvReport
  <1>9. ASSUME NEW p \in Procs, NEW permanent \in BOOLEAN, NEW lag \in Lags,
               Owns(p), WriteFailure(p, permanent, lag)
        PROVE  \/ /\ quarantined' = quarantined \cup {job[p]}
                  /\ pending' = pending
               \/ /\ quarantined' = quarantined
                  /\ DOMAIN pending' = DOMAIN pending \cup {job[p]}
                  /\ pending'[job[p]].attempts = processing[job[p]].attempts
                  /\ \A x \in DOMAIN pending \ {job[p]} : pending'[x] = pending[x]
    BY <1>9, WriteFailureEffect
  <1>10. ASSUME NEW p \in Procs, NEW permanent \in BOOLEAN, NEW lag \in Lags,
                Fail(p, permanent, lag)
         PROVE  QueueInv'
    <2>1. /\ job[p] \in DOMAIN processing
          /\ Owns(p) /\ WriteFailure(p, permanent, lag)
          /\ processing' = Without(processing, {job[p]})
          /\ UNCHANGED <<done, torn, accepted, deliveries>>
      BY <1>10 DEF Fail, Owns, LetGo
    <2>2. /\ DOMAIN processing' = DOMAIN processing \ {job[p]}
          /\ \A x \in DOMAIN processing' : processing'[x] = processing[x]
      BY <2>1, UnlinkEffect
    <2>3. DOMAIN processing' = DOMAIN processing \ ({job[p]} \ {}) /\ torn' = torn \cup {}
      BY <2>1, <2>2
    <2>4. CASE /\ quarantined' = quarantined \cup {job[p]}
               /\ pending' = pending
      BY <2>1, <2>2, <2>3, <2>4, QueueInvReport
    <2>5. CASE /\ quarantined' = quarantined
               /\ DOMAIN pending' = DOMAIN pending \cup {job[p]}
               /\ pending'[job[p]].attempts = processing[job[p]].attempts
               /\ \A x \in DOMAIN pending \ {job[p]} : pending'[x] = pending[x]
      BY <2>1, <2>2, <2>3, <2>5, QueueInvReport
    <2> QED BY <1>9, <2>1, <2>4, <2>5
  <1>11. ASSUME NEW p \in Procs, NEW permanent \in BOOLEAN, NEW lag \in Lags,
                TornFail(p, permanent, lag)
         PROVE  QueueInv'
    <2>1. /\ job[p] \in DOMAIN processing
          /\ Owns(p) /\ WriteFailure(p, permanent, lag)
          /\ torn' = torn \cup {job[p]}
          /\ UNCHANGED <<processing, done, accepted, deliveries>>
      BY <1>11 DEF TornFail, Owns, LetGo
    <2>2. DOMAIN processing' = DOMAIN processing \ ({job[p]} \ {job[p]})
      BY <2>1
    <2>3. CASE /\ quarantined' = quarantined \cup {job[p]}
               /\ pending' = pending
      BY <2>1, <2>2, <2>3, QueueInvReport
    <2>4. CASE /\ quarantined' = quarantined
               /\ DOMAIN pending' = DOMAIN pending \cup {job[p]}
               /\ pending'[job[p]].attempts = processing[job[p]].attempts
               /\ \A x \in DOMAIN pending \ {job[p]} : pending'[x] = pending[x]
      BY <2>1, <2>2, <2>4, QueueInvReport
    <2> QED BY <1>9, <2>1, <2>3, <2>4
  <1>12. ASSUME Tick PROVE QueueInv'
    <2>1. UNCHANGED <<done, quarantined, accepted, deliveries, torn>>
      BY <1>12 DEF Tick
    <2> QED
      BY <1>12, <2>1, TickEffect
      DEF QueueInv, AcceptedHasPlace, PlacedIsAccepted, NewIsUndelivered,
          UntornInOnePlace, AttemptsCountDeliveries, InSomePlace, InOnePlace
  <1>13. CASE \/ \E p \in Procs : Rejected(p) \/ Die(p)
              \/ UNCHANGED vars
    <2>1. UNCHANGED <<pending, processing, done, quarantined, accepted, deliveries, torn>>
      BY <1>13 DEF Rejected, Die, LetGo, files, vars
    <2> QED
      BY <2>1
      DEF QueueInv, AcceptedHasPlace, PlacedIsAccepted, NewIsUndelivered,
          UntornInOnePlace, AttemptsCountDeliveries, InSomePlace, InOnePlace
  <1> QED
    BY <1>1, <1>2, <1>3, <1>4, <1>5, <1>6, <1>7, <1>8, <1>10, <1>11, <1>12, <1>13
    DEF Next, Operation, Crash

LEMMA QueueInvInvariant == Spec => []QueueInv
  BY QueueInvInit, TypeCorrect, QueueInvStep, PTL DEF Spec

\* A job that enqueue has written is never lost (queue.py _write before unlink,
\* in every operation), wherever processes die.
THEOREM NothingLost == Spec => []NoJobLost
  <1>1. QueueInv => NoJobLost
    BY StatesElements DEF QueueInv, AcceptedHasPlace, InSomePlace, NoJobLost
  <1> QED BY <1>1, QueueInvInvariant, PTL

\* Only a crash in the middle of a job's own move puts that job into two
\* directories (queue.py _find then refuses it).
THEOREM OnlyCrashesDuplicate == Spec => []DuplicatesAreTorn
  <1>1. QueueInv => DuplicatesAreTorn
    <2> SUFFICES ASSUME QueueInv, NEW id \in Ids, NEW s \in States(id), NEW u \in States(id),
                        s # u, id \notin torn
                 PROVE  FALSE
      BY DEF DuplicatesAreTorn
    <2>1. InOnePlace(id)
      BY DEF QueueInv, UntornInOnePlace
    <2> QED BY <2>1, StatesElements DEF InOnePlace
  <1> QED BY <1>1, QueueInvInvariant, PTL

\* No crash, recovery or retry makes the attempts in a job's file fall behind
\* the number of times it was handed out (queue.py:171, 230, 269).
THEOREM AttemptsNotLost == Spec => []AttemptsCountDeliveries
  <1>1. QueueInv => AttemptsCountDeliveries
    BY DEF QueueInv
  <1> QED BY <1>1, QueueInvInvariant, PTL

\* A finished job stays finished and is not handed out again, unless one of its
\* moves was torn.
THEOREM FinishedIsFinal == Spec => FinishedStaysFinished
  <1>1. ASSUME TypeOK, QueueInv, [Next]_vars
        PROVE  [\A id \in Ids \ torn' :
                  id \in done \cup quarantined =>
                    /\ id \in done => id \in done'
                    /\ id \in quarantined => id \in quarantined'
                    /\ \A p \in Procs : job'[p] = id => job[p] = id]_vars
    <2> SUFFICES ASSUME Next, NEW id \in Ids \ torn', id \in done \cup quarantined
                 PROVE  /\ id \in done => id \in done'
                        /\ id \in quarantined => id \in quarantined'
                        /\ \A p \in Procs : job'[p] = id => job[p] = id
      BY <1>1
    <2>1. torn \subseteq torn' /\ done \subseteq done' /\ quarantined \subseteq quarantined'
      BY <1>1
      DEF Next, Operation, Crash, Enqueue, RecoverExpired, Claim, Heartbeat, Complete,
          Fail, Rejected, Tick, Die, TornRecover, TornClaim, TornComplete, TornFail,
          WriteFailure, LetGo, files
    <2>2. id \notin DOMAIN pending \cup DOMAIN processing
      BY <1>1, <2>1 DEF QueueInv, UntornInOnePlace, InOnePlace
    <2>3. ASSUME NEW p \in Procs, job'[p] = id PROVE job[p] = id
      <3>1. CASE \E q \in Procs, lag \in Lags : Claim(q, lag)
        <4>1. PICK q \in Procs, lag \in Lags : Claim(q, lag)
          BY <3>1
        <4>2. PICK given \in Ids : /\ ClaimMoves(q, given, lag, {})
                                  /\ job' = [job EXCEPT ![q] = given]
          BY <1>1, <4>1, ClaimEffect
        <4>3. given \in DOMAIN pending \cup DOMAIN processing
          BY <4>2 DEF ClaimMoves
        <4> QED BY <1>1, <2>2, <2>3, <4>2, <4>3 DEF TypeOK
      <3>2. CASE \E q \in Procs : LetGo(q)
        <4>1. id # NoJob
          BY Bounds
        <4> QED BY <1>1, <2>3, <3>2, <4>1 DEF LetGo, TypeOK
      <3>3. CASE job' = job
        BY <2>3, <3>3
      <3> QED
        BY <3>1, <3>2, <3>3
        DEF Next, Operation, Crash, Enqueue, RecoverExpired, Heartbeat, Complete, Fail,
            Rejected, Tick, Die, TornRecover, TornClaim, TornComplete, TornFail
    <2> QED BY <2>1, <2>3
  <1> QED BY <1>1, TypeCorrect, QueueInvInvariant, PTL DEF Spec, FinishedStaysFinished

-----------------------------------------------------------------------------
(***************************************************************************)
(* Why executions overlap only after a lapse.  A process whose lease has   *)
(* not run out since its claim holds a record that names it, whose lease   *)
(* is live, and that is not in pending/ at the same time: such a record is *)
(* neither recovered nor claimed.  Expired leases that were renewed, and   *)
(* records in two directories, belong to processes that have lapsed.       *)
(***************************************************************************)
HoldsFirmly(p) ==
  /\ job[p] \notin DOMAIN pending
  /\ LeaseLive(p)

FirmUnlessLapsed == \A p \in Procs : job[p] # NoJob /\ p \notin lapsed => HoldsFirmly(p)

\* Nobody but its owner ends the record a process holds firmly, if names differ.
LEMMA ReportsSpareOthers ==
  ASSUME TypeOK, DistinctNames, NEW p \in Procs, NEW q \in Procs,
         Owns(p), HoldsFirmly(q), p # q
  PROVE  job[p] # job[q]
  BY DEF Owns, HoldsFirmly, LeaseLive, DistinctNames

\* A step that leaves the record of a process alone leaves its hold alone.
LEMMA FirmStays ==
  ASSUME NEW q \in Procs, HoldsFirmly(q), job'[q] = job[q],
         job[q] \notin DOMAIN pending',
         job[q] \in DOMAIN processing',
         processing'[job[q]].worker = processing[job[q]].worker,
         processing'[job[q]].leaseUntil > 0
  PROVE  HoldsFirmly(q)'
  BY DEF HoldsFirmly, LeaseLive, Owns

LEMMA FirmStep ==
  ASSUME TypeOK, DistinctNames, FirmUnlessLapsed, [Next]_vars
  PROVE  FirmUnlessLapsed'
  <1> SUFFICES ASSUME NEW q \in Procs, job'[q] # NoJob, q \notin lapsed'
               PROVE  HoldsFirmly(q)'
    BY DEF FirmUnlessLapsed
  <1> DEFINE Firm == /\ job[q] # NoJob
                     /\ job'[q] = job[q]
                     /\ HoldsFirmly(q)
  <1>1. Firm => /\ job[q] \notin DOMAIN pending
                /\ job[q] \in DOMAIN processing
                /\ processing[job[q]].worker = WorkerId[q]
                /\ processing[job[q]].leaseUntil > 0
                /\ \A lag \in Lags : job[q] \notin Expired(lag)
    <2>1. ASSUME Firm PROVE processing[job[q]] \in ProcessingRecord
      BY <2>1, DirectoryElements DEF TypeOK, HoldsFirmly, LeaseLive, Owns
    <2>2. ASSUME Firm, NEW lag \in Lags PROVE job[q] \notin Expired(lag)
      <3>1. processing[job[q]].leaseUntil \in Int /\ processing[job[q]].leaseUntil > 0
        BY <2>1, <2>2, ConstantsAssumption DEF ProcessingRecord, HoldsFirmly, LeaseLive
      <3>2. ~(processing[job[q]].leaseUntil <= -lag)
        BY <3>1, ConstantsAssumption DEF Lags
      <3> QED BY <3>2 DEF Expired
    <2> QED BY <2>2 DEF HoldsFirmly, LeaseLive, Owns
  <1>2. ASSUME NEW p \in Procs, LetGo(p) PROVE p # q /\ Firm
    <2>1. p # q
      BY <1>2 DEF LetGo, TypeOK
    <2>2. job'[q] = job[q] /\ q \notin lapsed
      BY <1>2, <2>1 DEF LetGo, TypeOK
    <2> QED BY <2>1, <2>2 DEF FirmUnlessLapsed
  <1>3. ASSUME NEW id \in Ids, NEW lag \in Lags, Enqueue(id, lag) PROVE HoldsFirmly(q)'
    <2>1. Firm
      BY <1>3 DEF Enqueue, FirmUnlessLapsed
    <2>2. id \notin DOMAIN processing
      BY <1>3, StatesElements DEF Enqueue
    <2>3. DOMAIN pending' = DOMAIN pending \cup {id} /\ processing' = processing
      BY <1>3, EnqueueEffect DEF Enqueue
    <2> QED BY <1>1, <2>1, <2>2, <2>3, FirmStays
  <1>4. ASSUME NEW lag \in Lags, NEW written, NEW kept, Recovers(lag, written, kept),
               UNCHANGED <<job, lapsed>>
        PROVE  HoldsFirmly(q)'
    <2>1. Firm
      BY <1>4 DEF FirmUnlessLapsed
    <2>2. job[q] \notin written
      BY <1>1, <1>4, <2>1 DEF Recovers
    <2>3. Recovered(written, kept)
      BY <1>4, RecoveryEffect
    <2>4. /\ DOMAIN pending' = DOMAIN pending \cup written
          /\ DOMAIN processing' = DOMAIN processing \ (written \ kept)
          /\ \A x \in DOMAIN processing \ (written \ kept) : processing'[x] = processing[x]
      BY <2>3 DEF Recovered
    <2> QED BY <1>1, <2>1, <2>2, <2>4, FirmStays
  <1>5. ASSUME RecoverExpired PROVE HoldsFirmly(q)'
    <2>1. UNCHANGED <<job, lapsed>>
      BY <1>5 DEF RecoverExpired
    <2> QED BY <1>4, <1>5, <2>1, RecoverExpiredEffect
  <1>6. ASSUME NEW lag \in Lags, TornRecover(lag) PROVE HoldsFirmly(q)'
    <2>1. PICK written, kept : Recovers(lag, written, kept)
      BY <1>6, TornRecoverEffect
    <2>2. UNCHANGED <<job, lapsed>>
      BY <1>6 DEF TornRecover
    <2> QED BY <1>4, <2>1, <2>2
  <1>7. ASSUME NEW p \in Procs, NEW lag \in Lags, NEW id, NEW left,
               ClaimMoves(p, id, lag, left), Firm
        PROVE  HoldsFirmly(q)'
    <2>1. job[q] # id /\ job[q] \notin Expired(lag)
      BY <1>1, <1>7 DEF ClaimMoves
    <2> QED BY <1>1, <1>7, <2>1, FirmStays DEF ClaimMoves
  <1>8. ASSUME NEW p \in Procs, NEW lag \in Lags, Claim(p, lag) PROVE HoldsFirmly(q)'
    <2>1. PICK id \in Ids : /\ ClaimMoves(p, id, lag, {})
                            /\ job' = [job EXCEPT ![p] = id]
                            /\ lapsed' = lapsed \ {p}
      BY <1>8, ClaimEffect
    <2>2. CASE p = q
      <3>1. job'[q] = id
        BY <2>1, <2>2 DEF TypeOK
      <3>2. id \notin DOMAIN pending' /\ id \in DOMAIN processing'
        BY <2>1 DEF ClaimMoves
      <3> QED BY <2>1, <2>2, <3>1, <3>2 DEF ClaimMoves, HoldsFirmly, LeaseLive, Owns
    <2>3. CASE p # q
      <3>1. Firm
        BY <2>1, <2>3 DEF FirmUnlessLapsed, TypeOK
      <3> QED BY <1>7, <2>1, <3>1
    <2> QED BY <2>2, <2>3
  <1>9. ASSUME NEW p \in Procs, NEW lag \in Lags, TornClaim(p, lag) PROVE HoldsFirmly(q)'
    <2>1. PICK id \in Ids : ClaimMoves(p, id, lag, {id}) /\ UNCHANGED <<job, lapsed>>
      BY <1>9, TornClaimEffect
    <2>2. Firm
      BY <2>1 DEF FirmUnlessLapsed
    <2> QED BY <1>7, <2>1, <2>2
  <1>10. ASSUME NEW p \in Procs, NEW lag \in Lags, Heartbeat(p, lag) PROVE HoldsFirmly(q)'
    <2>1. Firm
      BY <1>10 DEF Heartbeat, FirmUnlessLapsed
    <2>2. /\ DOMAIN processing' = DOMAIN processing
          /\ processing'[job[q]].worker = processing[job[q]].worker
          /\ processing'[job[q]].leaseUntil =
               IF job[q] = job[p] THEN Lease - lag ELSE processing[job[q]].leaseUntil
      BY <1>1, <1>10, <2>1, HeartbeatEffect
    <2>3. processing'[job[q]].leaseUntil > 0
      BY <1>1, <2>1, <2>2, Bounds
    <2> QED BY <1>1, <1>10, <2>1, <2>2, <2>3, FirmStays DEF Heartbeat
  <1>11. ASSUME NEW p \in Procs, Complete(p) \/ TornComplete(p) PROVE HoldsFirmly(q)'
    <2>1. p # q /\ Firm
      BY <1>2, <1>11 DEF Complete, TornComplete
    <2>2. job[p] # job[q]
      BY <1>11, <2>1, ReportsSpareOthers DEF Complete, TornComplete
    <2>3. /\ pending' = pending
          /\ job[q] \in DOMAIN processing'
          /\ processing'[job[q]] = processing[job[q]]
      BY <1>1, <1>11, <2>1, <2>2, UnlinkEffect DEF Complete, TornComplete
    <2> QED BY <1>1, <2>1, <2>3, FirmStays
  <1>12. ASSUME NEW p \in Procs, NEW permanent \in BOOLEAN, NEW lag \in Lags,
                Fail(p, permanent, lag) \/ TornFail(p, permanent, lag)
         PROVE  HoldsFirmly(q)'
    <2>1. p # q /\ Firm /\ Owns(p) /\ WriteFailure(p, permanent, lag)
      BY <1>2, <1>12 DEF Fail, TornFail
    <2>2. job[p] # job[q]
      BY <2>1, ReportsSpareOthers
    <2>3. job[q] \notin DOMAIN pending'
      BY <1>1, <2>1, <2>2, WriteFailureEffect
    <2>4. /\ job[q] \in DOMAIN processing'
          /\ processing'[job[q]] = processing[job[q]]
      BY <1>1, <1>12, <2>1, <2>2, UnlinkEffect DEF Fail, TornFail
    <2> QED BY <1>1, <2>1, <2>3, <2>4, FirmStays
  <1>13. ASSUME Tick PROVE HoldsFirmly(q)'
    <2>1. job' = job /\ q \notin lapsed /\ LeaseLive(q)'
      BY <1>13 DEF Tick
    <2>2. job[q] \notin DOMAIN pending'
      BY <1>13, <2>1, TickEffect DEF FirmUnlessLapsed, HoldsFirmly
    <2> QED BY <2>1, <2>2 DEF HoldsFirmly
  <1>14. CASE \/ \E p \in Procs : Rejected(p) \/ Die(p)
              \/ UNCHANGED vars
    <2>1. Firm
      <3>1. CASE UNCHANGED vars
        BY <3>1 DEF vars, FirmUnlessLapsed
      <3>2. CASE \E p \in Procs : Rejected(p) \/ Die(p)
        BY <1>2, <3>2 DEF Rejected, Die
      <3> QED BY <1>14, <3>1, <3>2
    <2>2. UNCHANGED <<pending, processing>>
      BY <1>14 DEF Rejected, Die, files, vars
    <2> QED BY <1>1, <2>1, <2>2, FirmStays
  <1> QED
    BY <1>3, <1>5, <1>6, <1>8, <1>9, <1>10, <1>11, <1>12, <1>13, <1>14
    DEF Next, Operation, Crash

\* With names of their own, two processes work on one job only after one of
\* them has let its lease run out (queue.py:263-284 and the claim behind it),
\* for any lease that is longer than the wait for the lock.
THEOREM OverlapOnlyAfterLapse == Spec => []OverlapNeedsLapse
  <1> DEFINE FirmInv == DistinctNames => FirmUnlessLapsed
  <1>1. Init => FirmInv
    BY DEF Init, FirmUnlessLapsed
  <1>2. TypeOK /\ FirmInv /\ [Next]_vars => FirmInv'
    BY FirmStep DEF DistinctNames
  <1>3. FirmInv => OverlapNeedsLapse
    <2> SUFFICES ASSUME DistinctNames, FirmUnlessLapsed, NEW p \in Procs, NEW q \in Procs,
                        job[p] # NoJob, job[p] = job[q], p # q,
                        p \notin lapsed, q \notin lapsed
                 PROVE  FALSE
      BY DEF OverlapNeedsLapse
    <2>1. WorkerId[p] = WorkerId[q]
      BY DEF FirmUnlessLapsed, HoldsFirmly, LeaseLive, Owns
    <2> QED BY <2>1 DEF DistinctNames
  <1> HIDE DEF FirmInv
  <1> QED BY <1>1, <1>2, <1>3, TypeCorrect, PTL DEF Spec
=============================================================================
