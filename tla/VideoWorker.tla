----------------------------- MODULE VideoWorker -----------------------------
(***************************************************************************)
(* The worker processes that serve the job queue                           *)
(* (skeleton_media/video_understanding/worker.py, class VideoWorker, and   *)
(* scripts/video_understanding_worker.py): the service, which runs         *)
(* run_forever and is restarted by systemd, and processes that are started *)
(* by hand with --once.  All of them are normally given the same worker    *)
(* id; what keeps them apart is the non-blocking lock on .worker.lock,     *)
(* which the kernel drops when its holder dies.                            *)
(*                                                                         *)
(* While a job executes, a second thread of the process renews the lease   *)
(* every third of the lease time.  What the execution itself does is       *)
(* VideoPipeline; here it ends in success, in a transient or permanent     *)
(* failure, or with the death of the process.                              *)
(*                                                                         *)
(* The queue is FileQueue's, operation by operation.                       *)
(***************************************************************************)
EXTENDS FileQueue

CONSTANTS
  Once,      \* the processes started with --once; the others run forever
  MaxFaults  \* bound: how many crashes and I/O errors a behaviour has

VARIABLES
  pc,       \* where each process is
  locked,   \* the processes that hold .worker.lock
  beating,  \* the processes whose heartbeat thread is alive
  beatIn,   \* ticks until the next heartbeat (or the report) of each process
  faults    \* how many faults there have been

workerVars == <<pc, locked, beating, beatIn, faults>>
allVars == <<vars, workerVars>>

\* Mutant of BeatEvery.
BeatOnExpiry == Lease

\* The heartbeat interval: a third of the lease.  (The code's floor of five
\* seconds never binds: a lease is at least 30 seconds.)
BeatEvery == Lease \div 3

\* Lock waits are short against the lease: after a renewal whose clock was read
\* MaxLag before the write, the next one, or the report, may be late by MaxLag
\* twice over.
ASSUME TimingAssumption ==
  /\ Once \subseteq Procs
  /\ MaxFaults \in Nat
  /\ (Lease \div 3) + 3 * MaxLag < Lease

Phases == {"down", "recover", "claim", "execute", "report"}

WInit ==
  /\ Init
  /\ pc = [p \in Procs |-> "down"]
  /\ locked = {}
  /\ beating = {}
  /\ beatIn = [p \in Procs |-> 0]
  /\ faults = 0

Goto(p, phase) == pc' = [pc EXCEPT ![p] = phase]

\* Mutant of Exit.
ExitKeepsLock(p) ==
  /\ Goto(p, "down")
  /\ beating' = beating \ {p}
  /\ UNCHANGED <<locked, beatIn>>

\* The process leaves single_instance: it has returned, raised or died.
Exit(p) ==
  /\ Goto(p, "down")
  /\ locked' = locked \ {p}
  /\ beating' = beating \ {p}
  /\ UNCHANGED beatIn

\* The process is done with a job: run_forever loops, run_once returns.
NextRound(p) ==
  IF p \in Once
  THEN Exit(p)
  ELSE /\ Goto(p, "recover")
       /\ beating' = beating \ {p}
       /\ UNCHANGED <<locked, beatIn>>

-----------------------------------------------------------------------------
\* Mutant of Start.
StartUnlocked(p) ==
  /\ pc[p] = "down"
  /\ Goto(p, "recover")
  /\ locked' = locked \cup {p}
  /\ UNCHANGED <<vars, beating, beatIn, faults>>

\* single_instance; a process that finds the lock taken raises and exits.
Start(p) ==
  /\ pc[p] = "down"
  /\ locked = {}
  /\ Goto(p, "recover")
  /\ locked' = {p}
  /\ UNCHANGED <<vars, beating, beatIn, faults>>

Recover(p) ==
  /\ pc[p] = "recover"
  /\ RecoverExpired \/ (Expired(0) = {} /\ UNCHANGED vars)
  /\ Goto(p, "claim")
  /\ UNCHANGED <<locked, beating, beatIn, faults>>

TakeJob(p, lag) ==
  /\ pc[p] = "claim"
  /\ Claim(p, lag)
  /\ Goto(p, "execute")
  /\ beating' = beating \cup {p}
  /\ beatIn' = [beatIn EXCEPT ![p] = BeatEvery]
  /\ UNCHANGED <<locked, faults>>

FindNothing(p, lag) ==
  /\ pc[p] = "claim"
  /\ Available(PendingWithRecovered(Expired(lag), lag), lag) = {}
  /\ NextRound(p)
  /\ UNCHANGED <<vars, faults>>

\* The execution returns: run_forever completes the job under the heartbeat,
\* run_once after it, and has then only to wait for the queue lock.
StopBeating(p) ==
  /\ pc[p] = "execute"
  /\ p \in Once
  /\ Goto(p, "report")
  /\ beating' = beating \ {p}
  /\ beatIn' = [beatIn EXCEPT ![p] = 0]
  /\ UNCHANGED <<vars, locked, faults>>

Succeed(p) ==
  /\ pc[p] = IF p \in Once THEN "report" ELSE "execute"
  /\ Complete(p)
  /\ NextRound(p)
  /\ UNCHANGED faults

\* The execution raises: fail, permanently or not after the reason's prefix.
GiveUp(p, permanent, lag) ==
  /\ pc[p] = "execute"
  /\ Fail(p, permanent, lag)
  /\ NextRound(p)
  /\ UNCHANGED faults

\* complete or fail raises, and the exception ends the process.
LoseJob(p) ==
  /\ pc[p] \in {"execute", "report"}
  /\ Rejected(p)
  /\ Exit(p)
  /\ UNCHANGED faults

\* The heartbeat thread: its clock was read since the beat fell due.  Once the
\* job is no longer the worker's, the thread ends and says nothing.
Beat(p) ==
  /\ p \in beating
  /\ beatIn[p] <= 0
  /\ \/ /\ \E lag \in 0..-beatIn[p] : Heartbeat(p, lag)
        /\ beatIn' = [beatIn EXCEPT ![p] = BeatEvery]
        /\ UNCHANGED beating
     \/ /\ ~Owns(p)
        /\ beating' = beating \ {p}
        /\ UNCHANGED <<vars, beatIn>>
  /\ UNCHANGED <<pc, locked, faults>>

-----------------------------------------------------------------------------
Fault ==
  /\ faults < MaxFaults
  /\ faults' = faults + 1

\* An I/O error is not a VideoUnderstandingError: it kills the heartbeat thread
\* and the job executes on.
BeatDies(p) ==
  /\ Fault
  /\ p \in beating
  /\ beating' = beating \ {p}
  /\ UNCHANGED <<vars, pc, locked, beatIn>>

\* The process is killed, in the queue operation of its phase or outside.
Killed(p) ==
  /\ Fault
  /\ pc[p] # "down"
  /\ Exit(p)
  /\ \/ Die(p)
     \/ job[p] = NoJob /\ UNCHANGED vars
     \/ pc[p] = "recover" /\ TornRecover(0)
     \/ pc[p] = "claim" /\ \E lag \in Lags : TornRecover(lag) \/ TornClaim(p, lag)
     \/ pc[p] \in {"execute", "report"} /\ TornComplete(p)
     \/ /\ pc[p] = "execute"
        /\ \E permanent \in BOOLEAN, lag \in Lags : TornFail(p, permanent, lag)

\* Others that use the queue: the command line enqueues, the installer recovers
\* expired leases, while a worker may be running.
Client == \E id \in Ids, lag \in Lags : Enqueue(id, lag) /\ UNCHANGED workerVars

Installer == RecoverExpired /\ UNCHANGED workerVars

InstallerKilled == Fault /\ TornRecover(0) /\ UNCHANGED <<pc, locked, beating, beatIn>>

\* A heartbeat that is due, or a report, is late by MaxLag ticks at most.
Timed == beating \cup {p \in Procs : pc[p] = "report"}

Elapse ==
  /\ \A p \in Timed : beatIn[p] > -MaxLag
  /\ Tick
  /\ beatIn' = [p \in Procs |-> IF p \in Timed THEN beatIn[p] - 1 ELSE beatIn[p]]
  /\ UNCHANGED <<pc, locked, beating, faults>>

Step(p) ==
  \/ Recover(p)
  \/ \E lag \in Lags : TakeJob(p, lag) \/ FindNothing(p, lag)
  \/ StopBeating(p)
  \/ Succeed(p)
  \/ \E permanent \in BOOLEAN, lag \in Lags : GiveUp(p, permanent, lag)
  \/ LoseJob(p)

WNext ==
  \/ \E p \in Procs : Start(p) \/ Step(p) \/ Beat(p) \/ BeatDies(p) \/ Killed(p)
  \/ Client
  \/ Installer
  \/ InstallerKilled
  \/ Elapse

\* systemd restarts the service (Restart=on-failure, every 10 seconds), so a
\* service that is down and could start does; every execution ends, its
\* subprocesses and requests being bounded by timeouts; threads are scheduled
\* and time passes.  Nobody has to run a worker by hand.
Fairness ==
  /\ \A p \in Procs \ Once : WF_allVars(Start(p))
  /\ \A p \in Procs : WF_allVars(Step(p)) /\ WF_allVars(Beat(p))
  /\ WF_allVars(Elapse)

WSpec == WInit /\ [][WNext]_allVars /\ Fairness

-----------------------------------------------------------------------------
WTypeOK ==
  /\ TypeOK
  /\ pc \in [Procs -> Phases]
  /\ locked \subseteq Procs
  /\ beating \subseteq Procs
  /\ beatIn \in [Procs -> -MaxLag..Lease]
  /\ faults \in 0..MaxFaults

\* At most one process works on jobs at any time, although all bear the same
\* worker id and the queue's owner test cannot tell them apart (worker.py:192).
OneWorkerExecutes ==
  \A p, q \in Procs : job[p] # NoJob /\ job[q] # NoJob => p = q

\* As long as the heartbeat thread lives, the job stays the worker's, with a
\* lease that has not run out: the interval, the waits for the lock and the
\* clock read before the wait leave no gap for a recovery.
BeatKeepsLease == \A p \in beating : LeaseLive(p)

\* Without crashes and I/O errors a job is executed max_attempts times at most,
\* however its failures, the backoff and the installer's recoveries interleave.
ExecutionsBounded ==
  faults = 0 => \A id \in Ids : deliveries[id] <= MaxAttempts

\* Every job that was enqueued is settled in the end: done or quarantined, and
\* not waiting or in process any more; crashes delay that only.
Settled(id) ==
  /\ id \in done \cup quarantined
  /\ id \notin DOMAIN pending \cup DOMAIN processing

EventuallySettled == \A id \in Ids : id \in accepted ~> Settled(id)
=============================================================================
