---------------------------- MODULE VideoPipeline ----------------------------
(***************************************************************************)
(* The execution of a video job (skeleton_media/video_understanding/       *)
(* pipeline.py process and transcribe_only, worker.py _execute and its     *)
(* callers, memory_gateway_adapter.py), between the job queue, the         *)
(* artifact store and the canonical memory.                                *)
(*                                                                         *)
(* A video job acquires its source and works out a summary, finalizes the  *)
(* artifact, commits a record that names the artifact to the               *)
(* MemoryGateway, and is reported to the queue.  A transcript job stops    *)
(* after the artifact.  Each of these is durable at a different place and  *)
(* there is no transaction around them: what keeps them together is that   *)
(* the job is executed again until it gets through.                        *)
(*                                                                         *)
(* The queue is taken by what it promises, JobLedger; single_instance is   *)
(* not assumed, so executions of several workers interleave.  Torn moves   *)
(* of the queue appear as grants of a job that has ended (Finish and       *)
(* Abandon with again).                                                    *)
(***************************************************************************)
EXTENDS JobLedger, ArtifactStore, FiniteSets

CONSTANTS
  Transcripts,  \* the video_transcribe_url jobs; the others are video jobs
  TargetOf,     \* the target of each job: video jobs for one source share it,
                \* whatever their mode and question
  Contents      \* the hashes the executions of a job may come to: the local
                \* model may answer, answer otherwise or be down

ASSUME PipelineAssumption ==
  /\ Jobs \subseteq Nat \ {0}
  /\ MaxTries \in Nat \ {0}
  /\ Savers = Workers
  /\ Transcripts \subseteq Jobs
  /\ TargetOf \in [Jobs -> Targets]
  /\ Contents \in [Jobs -> SUBSET Hashes]
  /\ "none" \notin Hashes

VARIABLES
  doing,    \* the job each worker executes, or Nothing
  phase,    \* how far it is
  memory,   \* the hashes the facts committed for each target have named
  troubled  \* history: jobs one of whose executions failed by something else
            \* than an artifact that was there before

pipelineVars == <<doing, phase, memory, troubled>>
allVars == <<ledgerVars, storeVars, pipelineVars>>

Phases == {"off", "work", "finalize", "commit", "succeeded", "failed", "rejected"}

PInit ==
  /\ LedgerInit
  /\ StoreInit
  /\ doing = [w \in Workers |-> Nothing]
  /\ phase = [w \in Workers |-> "off"]
  /\ memory = [t \in Targets |-> {}]
  /\ troubled = {}

Target(w) == TargetOf[doing[w]]
Goto(w, next) == phase' = [phase EXCEPT ![w] = next]

\* The execution raises, for good ("rejected": one of _PERMANENT_PREFIXES) or
\* to be tried again.
Raise(w, permanent) ==
  /\ Goto(w, IF permanent THEN "rejected" ELSE "failed")
  /\ Leave(w)
  /\ UNCHANGED <<ledgerVars, store, verified, doing, memory>>

-----------------------------------------------------------------------------
Enqueue(j) == Submit(j) /\ UNCHANGED <<storeVars, pipelineVars>>

\* The lease of a job runs out under its worker, which does not notice.
LoseLease(w) ==
  /\ holds[w] # Nothing
  /\ Expire({holds[w]}, {holds[w]})
  /\ UNCHANGED <<storeVars, pipelineVars>>

Take(w, j) ==
  /\ phase[w] = "off"
  /\ j \in waiting
  /\ Grant(w, j, {})
  /\ doing' = [doing EXCEPT ![w] = j]
  /\ Goto(w, "work")
  /\ UNCHANGED <<storeVars, memory, troubled>>

\* Acquisition, transcript, frames, synthesis, in the workspace.  Whatever they
\* come to, the next step is finalize.
Work(w, hash) ==
  /\ phase[w] = "work"
  /\ Stage(w, Target(w), hash)
  /\ Goto(w, "finalize")
  /\ UNCHANGED <<ledgerVars, doing, memory, troubled>>

\* It raises: an acquisition or a backend fails, a file cannot be written.
WorkFails(w, permanent) ==
  /\ phase[w] = "work" \/ (phase[w] = "finalize" /\ ~At(w, "finalized"))
  /\ Raise(w, permanent)
  /\ troubled' = troubled \cup {doing[w]}

Finalize(w) ==
  /\ phase[w] = "finalize"
  /\ Saving(w)
  /\ UNCHANGED <<ledgerVars, pipelineVars>>

FinalizeFails(w) ==
  /\ phase[w] = "finalize"
  /\ Refused(w)
  /\ Goto(w, "failed")
  /\ troubled' = IF Conflict(w) THEN troubled ELSE troubled \cup {doing[w]}
  /\ UNCHANGED <<ledgerVars, doing, memory>>

\* finalize has returned.
Finalized(w) ==
  /\ phase[w] = "finalize"
  /\ At(w, "finalized")
  /\ Goto(w, IF doing[w] \in Transcripts THEN "succeeded" ELSE "commit")
  /\ UNCHANGED <<ledgerVars, storeVars, doing, memory, troubled>>

(***************************************************************************)
(* The mutation of the MemoryGateway (external; a put of one fact per      *)
(* target, under an idempotency key made of source, manifest hash and      *)
(* revision).  It succeeds, or the answer is not a success: the mutation   *)
(* may have had its effect all the same.  A projection comes after it and  *)
(* cannot fail the job any more.                                           *)
(***************************************************************************)
Recorded(w) == memory' = [memory EXCEPT ![Target(w)] = @ \cup {saving[w].hash}]

\* Mutant of Commit.
CommitUnchecked(w) ==
  /\ phase[w] = "commit"
  /\ Recorded(w) \/ UNCHANGED memory
  /\ Goto(w, "succeeded")
  /\ UNCHANGED <<ledgerVars, storeVars, doing, troubled>>

Commit(w) ==
  /\ phase[w] = "commit"
  /\ Recorded(w)
  /\ Goto(w, "succeeded")
  /\ UNCHANGED <<ledgerVars, storeVars, doing, troubled>>

CommitFails(w) ==
  /\ phase[w] = "commit"
  /\ Recorded(w) \/ UNCHANGED memory
  /\ Goto(w, "failed")
  /\ troubled' = troubled \cup {doing[w]}
  /\ UNCHANGED <<ledgerVars, storeVars, doing>>

\* The record or the mutation cannot be built: approval_ref and its like are
\* looked at only now.
RecordFails(w, permanent) ==
  /\ phase[w] = "commit"
  /\ Raise(w, permanent)
  /\ troubled' = troubled \cup {doing[w]}

-----------------------------------------------------------------------------
\* The report to the queue.  Only the holder's counts: a worker that lost its
\* lease is told so, or dies.  The process may die with the report half done.
Entitled(w) == holds[w] # Nothing /\ holds[w] = doing[w]

Rest(w) ==
  /\ doing' = [doing EXCEPT ![w] = Nothing]
  /\ Goto(w, "off")
  /\ Leave(w)
  /\ UNCHANGED <<store, verified, memory, troubled>>

ReportSuccess(w, again) ==
  /\ phase[w] = "succeeded"
  /\ Entitled(w)
  /\ Finish(w, again)
  /\ Rest(w)

\* fail: quarantined for good, or after max_attempts, else back to pending.
ReportFailure(w, again) ==
  /\ Entitled(w)
  /\ \/ /\ phase[w] = "rejected" \/ (phase[w] = "failed" /\ tries[doing[w]] >= MaxTries)
        /\ Abandon(w, again)
     \/ /\ phase[w] = "failed"
        /\ tries[doing[w]] < MaxTries
        /\ GiveBack(w)
  /\ Rest(w)

ReportTooLate(w) ==
  /\ phase[w] \in {"succeeded", "failed", "rejected"}
  /\ ~Entitled(w)
  /\ Rest(w)
  /\ UNCHANGED ledgerVars

\* The process dies; the queue finds out by the lease.
Crash(w) ==
  /\ doing[w] # Nothing
  /\ Rest(w)
  /\ GiveBack(w) \/ (~Entitled(w) /\ UNCHANGED ledgerVars)

PNext ==
  \/ \E j \in Jobs : Enqueue(j)
  \/ \E w \in Workers :
       \/ LoseLease(w)
       \/ \E j \in Jobs : Take(w, j)
       \/ phase[w] = "work" /\ \E hash \in Contents[doing[w]] : Work(w, hash)
       \/ \E permanent \in BOOLEAN : WorkFails(w, permanent) \/ RecordFails(w, permanent)
       \/ Finalize(w) \/ FinalizeFails(w) \/ Finalized(w)
       \/ Commit(w) \/ CommitFails(w)
       \/ \E again \in BOOLEAN : ReportSuccess(w, again) \/ ReportFailure(w, again)
       \/ ReportTooLate(w)
       \/ Crash(w)

PSpec == PInit /\ [][PNext]_allVars

-----------------------------------------------------------------------------
PTypeOK ==
  /\ StoreTypeOK
  /\ doing \in [Workers -> Jobs \cup {Nothing}]
  /\ phase \in [Workers -> Phases]
  /\ memory \in [Targets -> SUBSET Hashes]
  /\ troubled \subseteq Jobs
  /\ \A w \in Workers : holds[w] # Nothing => phase[w] # "off"

\* The canonical memory names one artifact per target, the one the store holds,
\* and that one has been read back: through crashes, lost leases, concurrent
\* finalizations and answers of the gateway that got lost (pipeline.py:421).
MemoryMatchesStore ==
  \A t \in Targets : memory[t] # {} =>
    /\ memory[t] = {store[t].hash}
    /\ store[t].intact
    /\ t \in verified

\* A video job in done/ has its own result in the canonical memory, a transcript
\* job has it in the store: no failure on the way is taken for success, and no
\* other job's result for the same source is taken for its own.
DoneMeansCommitted ==
  \A j \in finished :
    IF j \in Transcripts
    THEN store[TargetOf[j]].hash \in Contents[j] /\ TargetOf[j] \in verified
    ELSE memory[TargetOf[j]] \cap Contents[j] # {}

-----------------------------------------------------------------------------
\* docs/VIDEO_UNDERSTANDING.md:72: the store promotes immutable results.  What
\* the memory refers to would then be read-only.
CommittedIsImmutable == \A t \in Targets : memory[t] # {} => store[t].sealed

\* tests/test_video_understanding_queue_recovery.py:126: after a crash behind
\* the finalization, the retry recovers and the job is acknowledged.  A job in
\* whose way nothing came but crashes would then never be quarantined over the
\* artifact it has left itself.
OwnArtifactNoObstacle ==
  \A j \in abandoned : store[TargetOf[j]].hash \in Contents[j] => j \in troubled
=============================================================================
