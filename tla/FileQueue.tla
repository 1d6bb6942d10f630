------------------------------ MODULE FileQueue ------------------------------
(***************************************************************************)
(* The durable job queue of the video-understanding service                *)
(* (skeleton_media/video_understanding/queue.py, class FileQueue).         *)
(*                                                                         *)
(* A job is one JSON file; the directory that holds the file is the job's  *)
(* state.  Every operation runs under one flock, writes the file of the    *)
(* new state (write, fsync, rename) and then unlinks the file of the old   *)
(* one.  The lock makes an operation atomic for the other processes; the   *)
(* death of the process that runs it does not, so every operation that     *)
(* moves a job has a Torn variant: the new file is written, the old one is *)
(* still there, the process is gone and the kernel has dropped its lock.   *)
(*                                                                         *)
(* Time is kept relative to the present: an instant stored in a file is    *)
(* the number of ticks until it comes, and Tick lowers all of them.  An    *)
(* operation reads the clock BEFORE it waits for the lock, so its "now"    *)
(* may be up to MaxLag ticks old: it is -lag.  Only differences of         *)
(* instants are ever compared, so this changes nothing but keeps the       *)
(* states finite; instants older than MaxLag ticks are not told apart.     *)
(*                                                                         *)
(* Definitions that say "Mutant of X" are plausible bugs, not part of the  *)
(* specification: with X replaced by one, a property must fail.            *)
(***************************************************************************)
EXTENDS Integers

CONSTANTS
  Ids,          \* record ids, as ranks in the order of the sorted file names
  Procs,        \* processes that claim jobs
  WorkerNames,  \* the worker ids written into the records
  WorkerId,     \* the worker id each process was started with
  Lease,        \* limits.lease_seconds, in ticks
  MaxAttempts,  \* limits.max_attempts
  BackoffBase,  \* the 30 seconds of the first retry, in ticks
  BackoffCap,   \* the 3600 seconds no retry delay exceeds, in ticks
  MaxLag        \* bound: the longest wait for the queue lock, in ticks

\* lease_seconds is at least 30 (runtime_config.py), a wait for the lock a few
\* file writes: a lease cannot run out while its claim waits for the lock.
ASSUME ConstantsAssumption ==
  /\ Ids \subseteq Nat \ {0}
  /\ WorkerId \in [Procs -> WorkerNames]
  /\ MaxAttempts \in Nat \ {0}
  /\ BackoffBase \in Nat
  /\ BackoffCap \in Nat
  /\ MaxLag \in Nat
  /\ Lease \in Nat
  /\ MaxLag < Lease

VARIABLES
  pending,      \* directory pending/: a function from ids to records
  processing,   \* directory processing/
  done,         \* ids with a file in done/
  quarantined,  \* ids with a file in quarantined/
  job,          \* the job each process was handed by claim, or NoJob
  lapsed,       \* history: processes whose lease ran out since their claim
  accepted,     \* history: ids enqueue has written
  deliveries,   \* history: how often claim has handed out each id
  torn          \* history: ids one of whose moves was cut short by a crash

files == <<pending, processing, done, quarantined>>
vars == <<files, job, lapsed, accepted, deliveries, torn>>

NoJob == 0

\* Bound: attempts and deliveries are not counted beyond this; the code only
\* compares attempts with max_attempts.
AttemptCap == MaxAttempts + 1
OneMore(n) == IF n < AttemptCap THEN n + 1 ELSE n

Lags == 0..MaxLag

PendingRecord == [attempts: 0..AttemptCap, availableAt: -MaxLag..BackoffCap]
ProcessingRecord ==
  [attempts: 1..AttemptCap, leaseUntil: -MaxLag..Lease, worker: WorkerNames]

\* What a directory can hold.
Directory(Record) == UNION {[S -> Record] : S \in SUBSET Ids}

States(id) ==
  {s \in {"pending", "processing", "done", "quarantined"} :
     \/ s = "pending" /\ id \in DOMAIN pending
     \/ s = "processing" /\ id \in DOMAIN processing
     \/ s = "done" /\ id \in done
     \/ s = "quarantined" /\ id \in quarantined}

\* Directories after a file is written (With) or unlinked (Without).
With(dir, id, rec) ==
  [x \in DOMAIN dir \cup {id} |-> IF x = id THEN rec ELSE dir[x]]
Without(dir, ids) == [x \in DOMAIN dir \ ids |-> dir[x]]

Init ==
  /\ pending = [x \in {} |-> 0]
  /\ processing = [x \in {} |-> 0]
  /\ done = {}
  /\ quarantined = {}
  /\ job = [p \in Procs |-> NoJob]
  /\ lapsed = {}
  /\ accepted = {}
  /\ deliveries = [id \in Ids |-> 0]
  /\ torn = {}

-----------------------------------------------------------------------------
(***************************************************************************)
(* enqueue: a key that has a record in some state is left alone (with      *)
(* records in two states the call raises), so a new file is written only   *)
(* for a key without one.                                                  *)
(***************************************************************************)
\* Mutant of Enqueue.
EnqueueUnlessActive(id, lag) ==
  /\ id \notin DOMAIN pending \cup DOMAIN processing
  /\ pending' = With(pending, id, [attempts |-> 0, availableAt |-> -lag])
  /\ accepted' = accepted \cup {id}
  /\ UNCHANGED <<processing, done, quarantined, job, lapsed, deliveries, torn>>

Enqueue(id, lag) ==
  /\ States(id) = {}
  /\ pending' = With(pending, id, [attempts |-> 0, availableAt |-> -lag])
  /\ accepted' = accepted \cup {id}
  /\ UNCHANGED <<processing, done, quarantined, job, lapsed, deliveries, torn>>

(***************************************************************************)
(* Expired leases go back to pending/, attempts unchanged, available now:  *)
(* _recover_expired_locked, which recover_expired runs alone and claim     *)
(* runs first.                                                             *)
(***************************************************************************)
\* Mutant of Expired.
ExpiredEarly(lag) == {id \in DOMAIN processing : processing[id].leaseUntil <= 1 - lag}
Expired(lag) == {id \in DOMAIN processing : processing[id].leaseUntil <= -lag}

\* Mutant of Requeued.
RequeuedAfresh(id, lag) == [attempts |-> 0, availableAt |-> -lag]
Requeued(id, lag) == [attempts |-> processing[id].attempts, availableAt |-> -lag]

PendingWithRecovered(ids, lag) ==
  [id \in DOMAIN pending \cup ids |->
     IF id \in ids THEN Requeued(id, lag) ELSE pending[id]]

RecoverExpired ==
  /\ Expired(0) # {}
  /\ pending' = PendingWithRecovered(Expired(0), 0)
  /\ processing' = Without(processing, Expired(0))
  /\ UNCHANGED <<done, quarantined, job, lapsed, accepted, deliveries, torn>>

(***************************************************************************)
(* A crash in the recovery loop: the records up to one in file order have  *)
(* been requeued; of those, some may still be in processing/ (the last one *)
(* when the process dies before its unlink; any of them when the machine   *)
(* loses power before the directory is synced, once, after the loop; the   *)
(* other processes then die too, which is their Die).                      *)
(***************************************************************************)
TornRecover(lag) ==
  \E last \in Expired(lag) :
    LET written == {id \in Expired(lag) : id <= last}
    IN \E kept \in SUBSET written :
         /\ pending' = PendingWithRecovered(written, lag)
         /\ processing' = Without(processing, written \ kept)
         /\ torn' = torn \cup kept
         /\ UNCHANGED <<done, quarantined, job, lapsed, accepted, deliveries>>

(***************************************************************************)
(* claim: recover what has expired, then hand out the first available job  *)
(* in file-name order.  With nothing available claim changes nothing: a    *)
(* recovered job is always available.                                      *)
(***************************************************************************)
Available(dir, lag) == {id \in DOMAIN dir : dir[id].availableAt <= -lag}

FirstAvailable(dir, lag) ==
  {id \in Available(dir, lag) : \A other \in Available(dir, lag) : id <= other}

ClaimedRecord(p, rec, lag) ==
  [attempts |-> OneMore(rec.attempts), leaseUntil |-> Lease - lag,
   worker |-> WorkerId[p]]

\* The file of the claimed job in processing/, the rest recovered.
ProcessingWithClaim(p, id, rec, lag) ==
  With(Without(processing, Expired(lag)), id, ClaimedRecord(p, rec, lag))

Claim(p, lag) ==
  LET queue == PendingWithRecovered(Expired(lag), lag)
  IN \E id \in FirstAvailable(queue, lag) :
       /\ job[p] = NoJob
       /\ processing' = ProcessingWithClaim(p, id, queue[id], lag)
       /\ pending' = Without(queue, {id})
       /\ job' = [job EXCEPT ![p] = id]
       /\ lapsed' = lapsed \ {p}
       /\ deliveries' = [deliveries EXCEPT ![id] = OneMore(@)]
       /\ UNCHANGED <<done, quarantined, accepted, torn>>

TornClaim(p, lag) ==
  LET queue == PendingWithRecovered(Expired(lag), lag)
  IN \E id \in FirstAvailable(queue, lag) :
       /\ job[p] = NoJob
       /\ processing' = ProcessingWithClaim(p, id, queue[id], lag)
       /\ pending' = queue
       /\ torn' = torn \cup {id}
       /\ UNCHANGED <<done, quarantined, job, lapsed, accepted, deliveries>>

-----------------------------------------------------------------------------
(***************************************************************************)
(* The operations of a process on the job it was handed.  The owner test   *)
(* reads the record in processing/: it must be there and name this worker. *)
(* It does not look at the lease, which may have run out.                  *)
(***************************************************************************)
\* Mutant of Owns.
OwnsAny(p) == job[p] \in DOMAIN processing

Owns(p) ==
  /\ job[p] \in DOMAIN processing
  /\ processing[job[p]].worker = WorkerId[p]

\* Mutant of Heartbeat.
HeartbeatFromOldLease(p, lag) ==
  /\ Owns(p)
  /\ processing' = [processing EXCEPT ![job[p]].leaseUntil = @ + Lease]
  /\ UNCHANGED <<pending, done, quarantined, job, lapsed, accepted, deliveries, torn>>

Heartbeat(p, lag) ==
  /\ Owns(p)
  /\ processing' = [processing EXCEPT ![job[p]].leaseUntil = Lease - lag]
  /\ UNCHANGED <<pending, done, quarantined, job, lapsed, accepted, deliveries, torn>>

\* The process has finished with its job, or has died.
LetGo(p) ==
  /\ job' = [job EXCEPT ![p] = NoJob]
  /\ lapsed' = lapsed \ {p}
  /\ UNCHANGED <<accepted, deliveries>>

\* Mutant of Complete.
CompleteKeepsSource(p) ==
  /\ Owns(p)
  /\ done' = done \cup {job[p]}
  /\ LetGo(p)
  /\ UNCHANGED <<pending, processing, quarantined, torn>>

Complete(p) ==
  /\ Owns(p)
  /\ done' = done \cup {job[p]}
  /\ processing' = Without(processing, {job[p]})
  /\ LetGo(p)
  /\ UNCHANGED <<pending, quarantined, torn>>

\* Mutant of TornComplete.
TornCompleteUnlinkFirst(p) ==
  /\ Owns(p)
  /\ processing' = Without(processing, {job[p]})
  /\ torn' = torn \cup {job[p]}
  /\ LetGo(p)
  /\ UNCHANGED <<pending, done, quarantined>>

TornComplete(p) ==
  /\ Owns(p)
  /\ done' = done \cup {job[p]}
  /\ torn' = torn \cup {job[p]}
  /\ LetGo(p)
  /\ UNCHANGED <<pending, processing, quarantined>>

\* min(3600, 30 * 2^(attempts - 1))
Backoff(attempts) ==
  LET doubled == BackoffBase * 2^(attempts - 1)
  IN IF doubled \in 0..BackoffCap THEN doubled ELSE BackoffCap

\* fail writes the job to quarantined/ or, with a delay, back to pending/.
\* Mutant of WriteFailure.
WriteFailureLate(p, permanent, lag) ==
  LET attempts == processing[job[p]].attempts
  IN IF permanent \/ attempts > MaxAttempts
     THEN /\ quarantined' = quarantined \cup {job[p]}
          /\ UNCHANGED pending
     ELSE /\ pending' = With(pending, job[p],
               [attempts |-> attempts, availableAt |-> Backoff(attempts) - lag])
          /\ UNCHANGED quarantined

WriteFailure(p, permanent, lag) ==
  LET attempts == processing[job[p]].attempts
  IN IF permanent \/ attempts >= MaxAttempts
     THEN /\ quarantined' = quarantined \cup {job[p]}
          /\ UNCHANGED pending
     ELSE /\ pending' = With(pending, job[p],
               [attempts |-> attempts, availableAt |-> Backoff(attempts) - lag])
          /\ UNCHANGED quarantined

Fail(p, permanent, lag) ==
  /\ Owns(p)
  /\ WriteFailure(p, permanent, lag)
  /\ processing' = Without(processing, {job[p]})
  /\ LetGo(p)
  /\ UNCHANGED <<done, torn>>

TornFail(p, permanent, lag) ==
  /\ Owns(p)
  /\ WriteFailure(p, permanent, lag)
  /\ torn' = torn \cup {job[p]}
  /\ LetGo(p)
  /\ UNCHANGED <<processing, done>>

\* complete or fail finds the job gone or owned by another worker and raises.
Rejected(p) ==
  /\ job[p] # NoJob
  /\ ~Owns(p)
  /\ LetGo(p)
  /\ UNCHANGED <<files, torn>>

\* The process dies outside every operation of the queue.
Die(p) ==
  /\ job[p] # NoJob
  /\ LetGo(p)
  /\ UNCHANGED <<files, torn>>

-----------------------------------------------------------------------------
LeaseLive(p) == Owns(p) /\ processing[job[p]].leaseUntil > 0

Sooner(t) == IF t > -MaxLag THEN t - 1 ELSE t

Tick ==
  /\ pending' = [id \in DOMAIN pending |->
                   [pending[id] EXCEPT !.availableAt = Sooner(@)]]
  /\ processing' = [id \in DOMAIN processing |->
                      [processing[id] EXCEPT !.leaseUntil = Sooner(@)]]
  /\ UNCHANGED <<done, quarantined, job, accepted, deliveries, torn>>
  /\ lapsed' = {p \in Procs : job[p] # NoJob /\ (p \in lapsed \/ ~LeaseLive(p)')}

\* What the operations do when no process dies...
Operation ==
  \/ \E id \in Ids, lag \in Lags : Enqueue(id, lag)
  \/ RecoverExpired
  \/ \E p \in Procs, lag \in Lags : Claim(p, lag)
  \/ \E p \in Procs, lag \in Lags : Heartbeat(p, lag)
  \/ \E p \in Procs : Complete(p)
  \/ \E p \in Procs, permanent \in BOOLEAN, lag \in Lags : Fail(p, permanent, lag)
  \/ \E p \in Procs : Rejected(p)
  \/ Tick

\* ...and the crashes.
Crash ==
  \/ \E p \in Procs : Die(p)
  \/ \E lag \in Lags : TornRecover(lag)
  \/ \E p \in Procs, lag \in Lags : TornClaim(p, lag)
  \/ \E p \in Procs : TornComplete(p)
  \/ \E p \in Procs, permanent \in BOOLEAN, lag \in Lags : TornFail(p, permanent, lag)

Next == Operation \/ Crash

Spec == Init /\ [][Next]_vars

-----------------------------------------------------------------------------
\* The directories hold well-formed records, every instant within its bounds:
\* no retry is put off by more than the cap (queue.py:236), no lease exceeds
\* the lease time.
TypeOK ==
  /\ pending \in Directory(PendingRecord)
  /\ processing \in Directory(ProcessingRecord)
  /\ done \subseteq Ids
  /\ quarantined \subseteq Ids
  /\ job \in [Procs -> Ids \cup {NoJob}]
  /\ lapsed \subseteq Procs
  /\ accepted \subseteq Ids
  /\ deliveries \in [Ids -> 0..AttemptCap]
  /\ torn \subseteq Ids

\* A job that enqueue has written keeps a file in some directory, whatever
\* crashes: every move writes the new file before it unlinks the old one.
NoJobLost == \A id \in accepted : States(id) # {}

\* A record found in two directories is one whose own move was cut short by a
\* crash: a crash in one job's move, or a recovery that dies half way through
\* its list, never duplicates another job.
DuplicatesAreTorn ==
  \A id \in Ids : \A s, t \in States(id) : s # t => id \in torn

\* Two processes work on the same job only after one of them has let its lease
\* run out: recovery and claim never hand out a job whose lease is live, not
\* even when half-moved records are around or an expired lease was renewed.
\* It takes distinct worker ids: the owner test cannot tell processes with the
\* same id apart.
DistinctNames == \A p, q \in Procs : WorkerId[p] = WorkerId[q] => p = q

OverlapNeedsLapse ==
  DistinctNames =>
    \A p, q \in Procs :
      job[p] # NoJob /\ job[p] = job[q] /\ p # q => p \in lapsed \/ q \in lapsed

\* The attempts in a job's live files never fall behind the number of times
\* the job was handed out, so that crashes and recoveries cannot hide
\* executions from the test against max_attempts.
AttemptsCountDeliveries ==
  /\ \A id \in DOMAIN pending : pending[id].attempts >= deliveries[id]
  /\ \A id \in DOMAIN processing : processing[id].attempts >= deliveries[id]

\* A finished job is not handed out again, unless a crash has cut short one of
\* its moves: a file in done/ or quarantined/ stays, and no operation starts
\* from there.
FinishedStaysFinished ==
  [][\A id \in Ids \ torn' :
       id \in done \cup quarantined =>
         /\ id \in done => id \in done'
         /\ id \in quarantined => id \in quarantined'
         /\ \A p \in Procs : job'[p] = id => job[p] = id]_vars

\* The queue keeps the promises of JobLedger, crashes included, for workers
\* with ids of their own.  A record in processing/ that belongs to no living
\* claim waits: its lease will run out.  A process holds its job as long as
\* the record names it.
HeldBy(p) == IF job[p] # NoJob /\ Owns(p) THEN job[p] ELSE NoJob

Ledger == INSTANCE JobLedger WITH
  Jobs <- Ids,
  Workers <- Procs,
  MaxTries <- MaxAttempts,
  waiting <- DOMAIN pending \cup (DOMAIN processing \ {HeldBy(p) : p \in Procs}),
  holds <- [p \in Procs |-> HeldBy(p)],
  tries <- deliveries,
  finished <- done,
  abandoned <- quarantined

ImplementsLedger == Ledger!LedgerSpec

\* What _find asserts (queue.py:299): a record exists in one state only.
OneStatePerRecord == \A id \in Ids : \A s, t \in States(id) : s = t
=============================================================================
