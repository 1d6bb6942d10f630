------------------------- MODULE VideoPipeline_proofs -------------------------
(***************************************************************************)
(* Theorems about VideoPipeline and the artifact store below it, for any   *)
(* jobs, workers and targets, whatever the executions of a job come to.    *)
(*                                                                         *)
(* The argument: nothing that is at a target is ever changed (Kept), so    *)
(* that what an execution knows once - its content is there, it has been   *)
(* read back, the memory names it - stays true whatever the others do.     *)
(* The rest is bookkeeping of one execution (Knows).                       *)
(***************************************************************************)
EXTENDS VideoPipeline, TLAPS

LedgerShape ==
  /\ waiting \subseteq Jobs /\ finished \subseteq Jobs /\ accepted \subseteq Jobs /\ abandoned \subseteq Jobs
  /\ holds \in [Workers -> Jobs \cup {Nothing}]
  /\ tries \in [Jobs -> Nat]

OwnShape ==
  /\ doing \in [Workers -> Jobs \cup {Nothing}]
  /\ phase \in [Workers -> Phases]
  /\ memory \in [Targets -> SUBSET Hashes]
  /\ troubled \subseteq Jobs

Shape == LedgerShape /\ StoreTypeOK /\ OwnShape

\* What is at a target stays there.
Kept ==
  \A t \in Targets : store[t] # Absent =>
    /\ store'[t].hash = store[t].hash
    /\ store'[t].intact = store[t].intact
    /\ store[t].sealed => store'[t].sealed

ReadBackIsIntact == \A t \in verified : store[t] # Absent /\ store[t].intact

\* What an execution has found out about the artifact, by where it is.
Knows(w) ==
  /\ At(w, "promoted") => Present(w) /\ SameHash(w)
  /\ At(w, "verified") \/ At(w, "finalized") =>
       SameHash(w) /\ Intact(w) /\ saving[w].target \in verified

\* The workspace of an execution is its job's, and the phases are passed in order.
Follows(w) ==
  /\ doing[w] = Nothing <=> phase[w] = "off"
  /\ holds[w] \in {Nothing, doing[w]}
  /\ saving[w] # NoWorkspace =>
       /\ doing[w] # Nothing
       /\ saving[w].target = TargetOf[doing[w]]
       /\ saving[w].hash \in Contents[doing[w]]
  /\ phase[w] \in {"off", "work"} => saving[w] = NoWorkspace
  /\ phase[w] \in {"commit", "succeeded"} => At(w, "finalized")
  /\ phase[w] = "commit" => doing[w] \notin Transcripts
  /\ phase[w] = "succeeded" /\ doing[w] \notin Transcripts =>
       memory[TargetOf[doing[w]]] \cap Contents[doing[w]] # {}

PInv ==
  /\ Shape
  /\ ReadBackIsIntact
  /\ \A w \in Workers : Knows(w) /\ Follows(w)
  /\ MemoryMatchesStore
  /\ DoneMeansCommitted

-----------------------------------------------------------------------------
(* ------------------------------ The ledger ----------------------------- *)
LEMMA HeldAreJobs == LedgerShape => Held \subseteq Jobs
PROOF BY DEF LedgerShape, Held

\* A worker's hold is given by a grant alone; it is only taken away.
LEMMA LedgerSteps ==
  ASSUME LedgerShape, PipelineAssumption
  PROVE  /\ \A j \in Jobs : Submit(j) => LedgerShape' /\ UNCHANGED <<holds, finished>>
         /\ \A w \in Workers : holds[w] # Nothing /\ Expire({holds[w]}, {holds[w]}) =>
              LedgerShape' /\ finished' = finished
                /\ \A v \in Workers : holds'[v] \in {Nothing, holds[v]}
         /\ \A w \in Workers : \A j \in Jobs : Grant(w, j, {}) =>
              LedgerShape' /\ finished' = finished /\ holds'[w] = j
                /\ \A v \in Workers \ {w} : holds'[v] \in {Nothing, holds[v]}
         /\ \A w \in Workers, again \in BOOLEAN :
              (Finish(w, again) \/ Abandon(w, again) \/ GiveBack(w)) =>
              LedgerShape' /\ holds'[w] = Nothing
                /\ \A v \in Workers \ {w} : holds'[v] = holds[v]
         /\ \A w \in Workers, again \in BOOLEAN :
              /\ Finish(w, again) => finished' = finished \cup {holds[w]}
              /\ Abandon(w, again) \/ GiveBack(w) => finished' = finished
PROOF
  <1> USE DEF PipelineAssumption
  <1>1. ASSUME NEW j \in Jobs, Submit(j) PROVE LedgerShape' /\ UNCHANGED <<holds, finished>>
    BY <1>1 DEF Submit, LedgerShape
  <1>2. ASSUME NEW jobs
        PROVE  /\ Released(jobs) \in [Workers -> Jobs \cup {Nothing}]
               /\ \A v \in Workers : Released(jobs)[v] \in {Nothing, holds[v]}
    BY DEF Released, LedgerShape
  <1>3. ASSUME NEW w \in Workers, holds[w] # Nothing, Expire({holds[w]}, {holds[w]})
        PROVE  LedgerShape' /\ finished' = finished
                 /\ \A v \in Workers : holds'[v] \in {Nothing, holds[v]}
    <2>1. waiting' \subseteq Jobs
      BY <1>3, HeldAreJobs DEF Expire, LedgerShape
    <2> QED BY <1>2, <1>3, <2>1 DEF Expire, LedgerShape
  <1>4. ASSUME NEW w \in Workers, NEW j \in Jobs, Grant(w, j, {})
        PROVE  LedgerShape' /\ finished' = finished /\ holds'[w] = j
                 /\ \A v \in Workers \ {w} : holds'[v] \in {Nothing, holds[v]}
    <2>1. /\ holds' = [Released({} \cup {j}) EXCEPT ![w] = j]
          /\ waiting' \subseteq Jobs
          /\ UNCHANGED <<accepted, finished, abandoned>>
      BY <1>4 DEF Grant, LedgerShape
    <2>2. tries' \in [Jobs -> Nat]
      BY <1>4 DEF Grant, LedgerShape
    <2> QED BY <1>2, <2>1, <2>2 DEF LedgerShape
  <1>5. ASSUME NEW w \in Workers, NEW again \in BOOLEAN, LeaveWaiting(w, again)
        PROVE  /\ waiting' \subseteq Jobs /\ holds[w] \in Jobs
               /\ holds' \in [Workers -> Jobs \cup {Nothing}] /\ holds'[w] = Nothing
               /\ \A v \in Workers \ {w} : holds'[v] = holds[v]
    BY <1>5 DEF LeaveWaiting, LedgerShape
  <1>6. ASSUME NEW w \in Workers, NEW again \in BOOLEAN,
               Finish(w, again) \/ Abandon(w, again) \/ GiveBack(w)
        PROVE  LedgerShape' /\ holds'[w] = Nothing
                 /\ \A v \in Workers \ {w} : holds'[v] = holds[v]
    <2>1. PICK left \in BOOLEAN : LeaveWaiting(w, left)
      BY <1>6 DEF Finish, Abandon, GiveBack
    <2>2. /\ UNCHANGED <<accepted, tries>>
          /\ finished' \in {finished, finished \cup {holds[w]}}
          /\ abandoned' \in {abandoned, abandoned \cup {holds[w]}}
      BY <1>6 DEF Finish, Abandon, GiveBack
    <2> QED BY <1>5, <2>1, <2>2 DEF LedgerShape
  <1>7. ASSUME NEW w \in Workers, NEW again \in BOOLEAN
        PROVE  /\ Finish(w, again) => finished' = finished \cup {holds[w]}
               /\ Abandon(w, again) \/ GiveBack(w) => finished' = finished
    BY DEF Finish, Abandon, GiveBack
  <1> QED BY <1>1, <1>3, <1>4, <1>6, <1>7

-----------------------------------------------------------------------------
(* --------------------------- The artifact store ------------------------ *)
LEMMA HashesAreNamed == PipelineAssumption => Absent \notin Artifacts /\ Savers = Workers
PROOF BY DEF PipelineAssumption, Absent, Artifacts

\* The store's part of the invariant.
StoreInv == StoreTypeOK /\ ReadBackIsIntact /\ \A w \in Savers : Knows(w)

LEMMA WorkspaceFields ==
  ASSUME StoreTypeOK, NEW s \in Savers, saving[s] # NoWorkspace
  PROVE  /\ saving[s] \in Workspaces /\ saving[s].target \in Targets /\ saving[s].hash \in Hashes
PROOF BY DEF StoreTypeOK, Workspaces

LEMMA ArtifactFields ==
  ASSUME StoreTypeOK, NEW t \in Targets, store[t] # Absent
  PROVE  /\ store[t] \in Artifacts /\ store[t].hash \in Hashes
         /\ store[t].intact \in BOOLEAN /\ store[t].sealed \in BOOLEAN
PROOF BY DEF StoreTypeOK, Artifacts

\* What an execution knows survives what the others do.
LEMMA KnowledgeLasts ==
  ASSUME PipelineAssumption, StoreInv, StoreTypeOK', Kept, verified \subseteq verified',
         NEW s \in Savers, saving'[s] = saving[s]
  PROVE  Knows(s)'
PROOF
  <1>1. CASE saving[s] = NoWorkspace
    BY <1>1 DEF Knows, At, NoWorkspace
  <1>2. CASE saving[s] # NoWorkspace
    <2>1. saving[s].target \in Targets /\ saving[s].hash \in Hashes
      BY <1>2, WorkspaceFields DEF StoreInv
    <2>2. SameHash(s) => Present(s)
      BY <2>1 DEF SameHash, Present, Absent, PipelineAssumption
    <2>3. SameHash(s) => SameHash(s)' /\ (Intact(s) => Intact(s)')
      BY <2>1, <2>2 DEF SameHash, Present, Intact, Kept
    <2>4. SameHash(s)' => Present(s)'
      BY <2>1 DEF SameHash, Present, Absent, PipelineAssumption
    <2> QED BY <2>3, <2>4 DEF Knows, At, StoreInv
  <1> QED BY <1>1, <1>2

\* A step that leaves the store and what has been read back alone.
LEMMA QuietStore ==
  ASSUME UNCHANGED <<store, verified>>
  PROVE  Kept /\ (ReadBackIsIntact => ReadBackIsIntact')
PROOF BY DEF Kept, ReadBackIsIntact

LEMMA WorkspaceMoves ==
  ASSUME StoreInv, NEW s \in Savers, saving[s] # NoWorkspace,
         NEW stage \in {"staged", "clear", "promoted", "verified", "finalized"}, Advance(s, stage)
  PROVE  /\ saving' \in [Savers -> Workspaces \cup {NoWorkspace}]
         /\ saving'[s] \in Workspaces /\ saving'[s].stage = stage
         /\ saving'[s].target = saving[s].target /\ saving'[s].hash = saving[s].hash
         /\ \A v \in Savers \ {s} : saving'[v] = saving[v]
PROOF
  <1>1. saving[s] \in Workspaces
    BY WorkspaceFields DEF StoreInv
  <1>2. saving \in [Savers -> Workspaces \cup {NoWorkspace}]
    BY DEF StoreInv, StoreTypeOK
  <1>3. [saving[s] EXCEPT !.stage = stage] \in Workspaces
    BY <1>1 DEF Workspaces
  <1>4. saving' = [saving EXCEPT ![s] = [saving[s] EXCEPT !.stage = stage]]
    BY DEF Advance
  <1> QED BY <1>1, <1>2, <1>3, <1>4 DEF Workspaces

LEMMA SavingSteps ==
  ASSUME PipelineAssumption, StoreInv, NEW s \in Savers, Saving(s)
  PROVE  /\ StoreInv' /\ Kept /\ verified \subseteq verified'
         /\ saving[s] # NoWorkspace /\ saving'[s] # NoWorkspace
         /\ saving'[s].target = saving[s].target /\ saving'[s].hash = saving[s].hash
         /\ \A v \in Savers \ {s} : saving'[v] = saving[v]
PROOF
  <1> DEFINE own == saving[s].target
  <1>1. saving[s] # NoWorkspace
    BY DEF Saving, FindClear, Replay, Promote, ReadBack, Seal, At, NoWorkspace
  <1>2. own \in Targets /\ saving[s].hash \in Hashes
    BY <1>1, WorkspaceFields DEF StoreInv
  <1>3. PICK stage \in {"clear", "promoted", "verified", "finalized"} : Advance(s, stage)
    BY DEF Saving, FindClear, Replay, Promote, ReadBack, Seal
  <1>4. /\ saving' \in [Savers -> Workspaces \cup {NoWorkspace}]
        /\ saving'[s] \in Workspaces /\ saving'[s].stage = stage
        /\ saving'[s].target = own /\ saving'[s].hash = saving[s].hash
        /\ \A v \in Savers \ {s} : saving'[v] = saving[v]
    BY <1>1, <1>3, WorkspaceMoves
  <1>5. saving'[s] # NoWorkspace
    BY <1>4 DEF Workspaces, NoWorkspace
  <1>11. \A to \in {"clear", "promoted", "verified", "finalized"} : Advance(s, to) => stage = to
    BY <1>1, <1>4, WorkspaceMoves
  <1>6. SameHash(s) => store[own] # Absent
    BY <1>2 DEF SameHash, Absent, PipelineAssumption
  <1> SUFFICES /\ store' \in [Targets -> Artifacts \cup {Absent}] /\ verified' \subseteq Targets
               /\ Kept /\ verified \subseteq verified' /\ ReadBackIsIntact' /\ Knows(s)'
    <2>1. StoreTypeOK'
      BY <1>4 DEF StoreTypeOK
    <2>2. \A v \in Savers \ {s} : Knows(v)'
      BY <1>4, <2>1, KnowledgeLasts
    <2> QED BY <1>1, <1>4, <1>5, <2>1, <2>2 DEF StoreInv
  <1>7. CASE FindClear(s)
    <2>1. UNCHANGED <<store, verified>> /\ stage \notin {"promoted", "verified", "finalized"}
      BY <1>11, <1>7 DEF FindClear
    <2> QED BY <1>4, <2>1, QuietStore DEF StoreInv, StoreTypeOK, Knows, At
  <1>8. CASE Replay(s) \/ ReadBack(s)
    <2>1. /\ UNCHANGED store /\ verified' = verified \cup {own} /\ SameHash(s) /\ Intact(s)
          /\ stage \in {"finalized", "verified"}
      BY <1>11, <1>8 DEF Replay, ReadBack
    <2>2. Knows(s)'
      BY <1>4, <2>1 DEF Knows, At, SameHash, Intact
    <2>3. ReadBackIsIntact'
      BY <1>6, <2>1 DEF ReadBackIsIntact, Intact, StoreInv
    <2> QED BY <1>2, <2>1, <2>2, <2>3 DEF StoreInv, StoreTypeOK, Kept
  <1>9. CASE \E intact \in BOOLEAN : Promote(s, intact)
    <2>1. PICK intact \in BOOLEAN : store' = [store EXCEPT ![own] = Fresh(saving[s].hash, intact)]
      BY <1>9 DEF Promote
    <2>2. /\ UNCHANGED verified /\ store[own] = Absent /\ stage = "promoted"
      BY <1>11, <1>9 DEF Promote, Present
    <2>3. /\ Fresh(saving[s].hash, intact) \in Artifacts
          /\ Fresh(saving[s].hash, intact).hash = saving[s].hash
      BY <1>2 DEF Fresh, Artifacts
    <2>4. /\ store' \in [Targets -> Artifacts \cup {Absent}]
          /\ store'[own] = Fresh(saving[s].hash, intact)
          /\ \A t \in Targets \ {own} : store'[t] = store[t]
      BY <1>2, <2>1, <2>3 DEF StoreInv, StoreTypeOK
    <2>5. Kept
      BY <2>2, <2>4 DEF Kept
    <2>6. ReadBackIsIntact'
      BY <2>2, <2>4 DEF ReadBackIsIntact, StoreInv, StoreTypeOK
    <2>7. Knows(s)'
      <3>1. SameHash(s)' /\ Present(s)'
        BY <1>2, <1>4, <2>3, <2>4, HashesAreNamed DEF SameHash, Present
      <3> QED BY <1>4, <2>2, <3>1 DEF Knows, At
    <2> QED BY <2>2, <2>4, <2>5, <2>6, <2>7 DEF StoreInv, StoreTypeOK
  <1>10. CASE Seal(s)
    <2>1. /\ store' = [store EXCEPT ![own].sealed = TRUE] /\ UNCHANGED verified
          /\ stage = "finalized" /\ At(s, "verified")
      BY <1>11, <1>10 DEF Seal
    <2>2. SameHash(s) /\ Intact(s) /\ own \in verified
      BY <2>1 DEF StoreInv, Knows
    <2>3. store[own] \in Artifacts
      BY <1>2, <1>6, <2>2, ArtifactFields DEF StoreInv
    <2>4. /\ store' \in [Targets -> Artifacts \cup {Absent}] /\ store'[own] \in Artifacts
          /\ store'[own].hash = store[own].hash /\ store'[own].intact = store[own].intact
          /\ store'[own].sealed = TRUE
          /\ \A t \in Targets \ {own} : store'[t] = store[t]
      <3>1. [store[own] EXCEPT !.sealed = TRUE] \in Artifacts
        BY <2>3 DEF Artifacts
      <3> QED BY <1>2, <2>1, <2>3, <3>1 DEF StoreInv, StoreTypeOK, Artifacts
    <2>5. Kept
      BY <2>4 DEF Kept
    <2>6. ReadBackIsIntact'
      <3>1. ASSUME NEW t \in verified PROVE store'[t] # Absent /\ store'[t].intact
        <4>1. t \in Targets /\ store[t] # Absent /\ store[t].intact
          BY DEF ReadBackIsIntact, StoreInv, StoreTypeOK
        <4>2. CASE t = own
          BY <2>2, <2>4, <4>2, HashesAreNamed, <1>2, <4>1
        <4>3. CASE t # own
          BY <2>4, <4>1, <4>3
        <4> QED BY <4>2, <4>3
      <3> QED BY <2>1, <3>1 DEF ReadBackIsIntact
    <2>7. Knows(s)'
      BY <1>4, <2>1, <2>2, <2>4 DEF Knows, At, SameHash, Intact
    <2> QED BY <2>1, <2>4, <2>5, <2>6, <2>7 DEF StoreInv, StoreTypeOK
  <1> QED BY <1>7, <1>8, <1>9, <1>10 DEF Saving

-----------------------------------------------------------------------------
(* ------------------------------ Executions ----------------------------- *)
\* What the queue holds a job done for.
Done(j) ==
  IF j \in Transcripts
  THEN store[TargetOf[j]].hash \in Contents[j] /\ TargetOf[j] \in verified
  ELSE memory[TargetOf[j]] \cap Contents[j] # {}

\* A worker the step is not about: at most its lease goes.
Untouched(v) ==
  /\ saving'[v] = saving[v] /\ doing'[v] = doing[v] /\ phase'[v] = phase[v]
  /\ holds'[v] \in {Nothing, holds[v]}

MemoryGrows == \A t \in Targets : memory[t] \subseteq memory'[t]

LEMMA JobFields ==
  ASSUME PipelineAssumption, NEW j \in Jobs
  PROVE  TargetOf[j] \in Targets /\ Contents[j] \subseteq Hashes /\ j # Nothing
PROOF BY DEF PipelineAssumption, Nothing

LEMMA UntouchedFollows ==
  ASSUME PipelineAssumption, PInv, MemoryGrows, NEW v \in Workers, Untouched(v)
  PROVE  Follows(v)'
PROOF
  <1>1. Follows(v) /\ doing[v] \in Jobs \cup {Nothing}
    BY DEF PInv, Shape, OwnShape
  <1>2. doing[v] # Nothing => memory[TargetOf[doing[v]]] \subseteq memory'[TargetOf[doing[v]]]
    BY <1>1, JobFields DEF MemoryGrows
  <1>3. phase[v] = "succeeded" => doing[v] # Nothing
    BY <1>1 DEF Follows
  <1>4. /\ doing'[v] = Nothing <=> phase'[v] = "off"
        /\ holds'[v] \in {Nothing, doing'[v]}
        /\ saving'[v] # NoWorkspace =>
             /\ doing'[v] # Nothing
             /\ saving'[v].target = TargetOf[doing'[v]]
             /\ saving'[v].hash \in Contents[doing'[v]]
        /\ phase'[v] \in {"off", "work"} => saving'[v] = NoWorkspace
        /\ phase'[v] \in {"commit", "succeeded"} => At(v, "finalized")'
        /\ phase'[v] = "commit" => doing'[v] \notin Transcripts
    BY <1>1 DEF Untouched, Follows, At
  <1>5. phase'[v] = "succeeded" /\ doing'[v] \notin Transcripts =>
          memory'[TargetOf[doing'[v]]] \cap Contents[doing'[v]] # {}
    BY <1>1, <1>2, <1>3 DEF Untouched, Follows
  <1> QED BY <1>4, <1>5 DEF Follows

LEMMA ResultsLast ==
  ASSUME PipelineAssumption, PInv, Kept, verified \subseteq verified', MemoryGrows,
         NEW j \in finished
  PROVE  Done(j)'
PROOF
  <1>1. Done(j) /\ j \in Jobs
    BY DEF PInv, DoneMeansCommitted, Done, Shape, LedgerShape
  <1>2. TargetOf[j] \in Targets
    BY <1>1, JobFields
  <1>3. TargetOf[j] \in verified => store'[TargetOf[j]].hash = store[TargetOf[j]].hash
    BY <1>2 DEF PInv, ReadBackIsIntact, Kept
  <1> QED BY <1>1, <1>2, <1>3 DEF Done, MemoryGrows

LEMMA StorePart == PipelineAssumption /\ PInv => StoreInv
PROOF BY DEF PInv, StoreInv, Shape, PipelineAssumption

\* A step keeps the invariant if nothing is overwritten, and the workers it is
\* about and the jobs it ends come out right.
LEMMA Settles ==
  ASSUME PipelineAssumption, PInv, Shape', ReadBackIsIntact', Kept, verified \subseteq verified',
         MemoryGrows, MemoryMatchesStore',
         \A v \in Workers : Untouched(v) \/ (Knows(v)' /\ Follows(v)'),
         \A j \in finished' \ finished : Done(j)'
  PROVE  PInv'
PROOF
  <1>1. ASSUME NEW v \in Workers, Untouched(v) PROVE Knows(v)' /\ Follows(v)'
    <2>1. Knows(v)'
      <3>1. v \in Savers /\ saving'[v] = saving[v] /\ StoreTypeOK'
        BY <1>1 DEF Untouched, PipelineAssumption, Shape
      <3> QED BY <3>1, StorePart, KnowledgeLasts
    <2> QED BY <1>1, <2>1, UntouchedFollows
  <1>2. DoneMeansCommitted'
    BY ResultsLast DEF DoneMeansCommitted, Done
  <1> QED BY <1>1, <1>2 DEF PInv

\* The memory's and the jobs' results, when a step leaves the memory alone.
LEMMA MemoryLasts ==
  ASSUME PInv, Kept, verified \subseteq verified', memory' = memory
  PROVE  MemoryGrows /\ MemoryMatchesStore'
PROOF
  <1>1. ASSUME NEW t \in Targets, memory[t] # {}
        PROVE  memory[t] = {store'[t].hash} /\ store'[t].intact /\ t \in verified'
    <2>1. memory[t] = {store[t].hash} /\ store[t].intact /\ t \in verified
      BY <1>1 DEF PInv, MemoryMatchesStore
    <2>2. store[t] # Absent
      BY <2>1 DEF PInv, ReadBackIsIntact
    <2> QED BY <2>1, <2>2 DEF Kept
  <1> QED BY <1>1 DEF MemoryGrows, MemoryMatchesStore

LEMMA NothingKnownOfNoWorkspace ==
  ASSUME NEW w, saving'[w] = NoWorkspace
  PROVE  Knows(w)'
PROOF BY DEF Knows, At, NoWorkspace

\* The workspace is left.
LEMMA Leaving ==
  ASSUME PipelineAssumption, StoreTypeOK, NEW w \in Workers, Leave(w), UNCHANGED <<store, verified>>
  PROVE  /\ StoreTypeOK' /\ saving'[w] = NoWorkspace
         /\ \A v \in Workers \ {w} : saving'[v] = saving[v]
PROOF BY DEF Leave, StoreTypeOK, PipelineAssumption

LEMMA GoingOn ==
  ASSUME OwnShape, NEW w \in Workers, NEW next \in Phases, Goto(w, next)
  PROVE  /\ phase' \in [Workers -> Phases] /\ phase'[w] = next
         /\ \A v \in Workers \ {w} : phase'[v] = phase[v]
PROOF BY DEF Goto, OwnShape

-----------------------------------------------------------------------------
(* -------------------------------- Steps -------------------------------- *)
\* Submissions and expiries: only the ledger moves.
LEMMA LedgerMoves ==
  ASSUME PipelineAssumption, PInv,
         (\E j \in Jobs : Enqueue(j)) \/ (\E w \in Workers : LoseLease(w))
  PROVE  PInv'
PROOF
  <1>1. LedgerShape' /\ finished' = finished /\ \A v \in Workers : holds'[v] \in {Nothing, holds[v]}
    <2>1. CASE \E j \in Jobs : Enqueue(j)
      <3>1. LedgerShape' /\ UNCHANGED <<holds, finished>>
        BY <2>1, LedgerSteps DEF Enqueue, PInv, Shape
      <3> QED BY <3>1
    <2>2. CASE \E w \in Workers : LoseLease(w)
      BY <2>2, LedgerSteps DEF LoseLease, PInv, Shape
    <2> QED BY <2>1, <2>2
  <1>2. UNCHANGED <<storeVars, pipelineVars>>
    BY DEF Enqueue, LoseLease
  <1>3. Shape' /\ \A v \in Workers : Untouched(v)
    BY <1>1, <1>2 DEF Shape, PInv, StoreTypeOK, OwnShape, storeVars, pipelineVars, Untouched
  <1>4. Kept /\ ReadBackIsIntact' /\ verified' = verified /\ memory' = memory
    BY <1>2, QuietStore DEF PInv, storeVars, pipelineVars
  <1> QED BY <1>1, <1>3, <1>4, Settles, MemoryLasts

LEMMA Taking ==
  ASSUME PipelineAssumption, PInv, NEW w \in Workers, NEW j \in Jobs, Take(w, j)
  PROVE  PInv'
PROOF
  <1>1. /\ phase[w] = "off" /\ Grant(w, j, {}) /\ Goto(w, "work")
        /\ doing' = [doing EXCEPT ![w] = j] /\ UNCHANGED <<store, saving, verified, memory, troubled>>
    BY DEF Take, storeVars
  <1>2. /\ LedgerShape' /\ finished' = finished /\ holds'[w] = j
        /\ \A v \in Workers \ {w} : holds'[v] \in {Nothing, holds[v]}
    BY <1>1, LedgerSteps DEF PInv, Shape
  <1>3. /\ phase' \in [Workers -> Phases] /\ phase'[w] = "work"
        /\ \A v \in Workers \ {w} : phase'[v] = phase[v]
    BY <1>1, GoingOn DEF PInv, Shape, Phases
  <1>4. /\ doing' \in [Workers -> Jobs \cup {Nothing}] /\ doing'[w] = j
        /\ \A v \in Workers \ {w} : doing'[v] = doing[v]
    BY <1>1 DEF PInv, Shape, OwnShape
  <1>5. Shape'
    BY <1>1, <1>2, <1>3, <1>4 DEF PInv, Shape, StoreTypeOK, OwnShape
  <1>6. saving'[w] = NoWorkspace
    BY <1>1 DEF PInv, Follows
  <1>7. Knows(w)' /\ Follows(w)'
    BY <1>2, <1>3, <1>4, <1>6, JobFields, NothingKnownOfNoWorkspace DEF Follows
  <1>8. \A v \in Workers \ {w} : Untouched(v)
    BY <1>1, <1>2, <1>3, <1>4 DEF Untouched
  <1>9. Kept /\ ReadBackIsIntact' /\ MemoryGrows /\ MemoryMatchesStore'
    BY <1>1, QuietStore, MemoryLasts DEF PInv
  <1> QED BY <1>1, <1>2, <1>5, <1>7, <1>8, <1>9, Settles

\* The steps within an execution that leave the store alone: the worker's own
\* variables are what the step says, the ledger's stay.
LEMMA WithinExecution ==
  ASSUME PipelineAssumption, PInv, NEW w \in Workers, NEW next \in Phases, Goto(w, next),
         UNCHANGED <<ledgerVars, store, verified, doing>>, troubled' \subseteq Jobs, memory' = memory,
         saving' \in [Savers -> Workspaces \cup {NoWorkspace}],
         \A v \in Workers \ {w} : saving'[v] = saving[v],
         Knows(w)', Follows(w)'
  PROVE  PInv'
PROOF
  <1>1. /\ phase' \in [Workers -> Phases]
        /\ \A v \in Workers \ {w} : phase'[v] = phase[v]
    BY GoingOn DEF PInv, Shape
  <1>2. Shape'
    BY <1>1 DEF PInv, Shape, StoreTypeOK, OwnShape, LedgerShape, ledgerVars
  <1>3. \A v \in Workers \ {w} : Untouched(v)
    BY <1>1 DEF Untouched, ledgerVars
  <1>4. Kept /\ ReadBackIsIntact' /\ MemoryGrows /\ MemoryMatchesStore'
    BY QuietStore, MemoryLasts DEF PInv
  <1> QED BY <1>2, <1>3, <1>4, Settles DEF ledgerVars

LEMMA Working ==
  ASSUME PipelineAssumption, PInv, NEW w \in Workers,
         phase[w] = "work", NEW hash \in Contents[doing[w]], Work(w, hash)
  PROVE  PInv'
PROOF
  <1>1. doing[w] \in Jobs
    BY DEF PInv, Follows, Shape, OwnShape
  <1>2. Target(w) \in Targets /\ hash \in Hashes
    BY <1>1, JobFields DEF Target
  <1> DEFINE staged == [stage |-> "staged", target |-> Target(w), hash |-> hash]
  <1>3. staged \in Workspaces /\ staged # NoWorkspace
    BY <1>2 DEF Workspaces, NoWorkspace
  <1>4. /\ saving' = [saving EXCEPT ![w] = staged] /\ Goto(w, "finalize")
        /\ UNCHANGED <<ledgerVars, store, verified, doing, memory, troubled>>
    BY DEF Work, Stage
  <1>5. /\ saving' \in [Savers -> Workspaces \cup {NoWorkspace}] /\ saving'[w] = staged
        /\ \A v \in Workers \ {w} : saving'[v] = saving[v]
    BY <1>3, <1>4 DEF PInv, Shape, StoreTypeOK, PipelineAssumption
  <1>6. phase'[w] = "finalize"
    BY <1>4, GoingOn DEF PInv, Shape, Phases
  <1>7. Knows(w)'
    BY <1>5 DEF Knows, At
  <1>8. Follows(w)'
    <2>1. doing[w] # Nothing /\ holds[w] \in {Nothing, doing[w]} /\ holds' = holds
      BY <1>1, <1>4, JobFields DEF PInv, Follows, ledgerVars
    <2> QED BY <1>4, <1>5, <1>6, <2>1 DEF Follows, Target
  <1>9. "finalize" \in Phases /\ troubled' \subseteq Jobs
    BY <1>4 DEF Phases, PInv, Shape, OwnShape
  <1> QED BY <1>4, <1>5, <1>7, <1>8, <1>9, WithinExecution

\* An execution that has raised leaves its workspace.
LEMMA Raising ==
  ASSUME PipelineAssumption, PInv, NEW w \in Workers, doing[w] # Nothing,
         NEW next \in {"failed", "rejected"}, Goto(w, next), Leave(w),
         UNCHANGED <<ledgerVars, store, verified, doing, memory>>,
         troubled' \in {troubled, troubled \cup {doing[w]}}
  PROVE  PInv'
PROOF
  <1>1. /\ StoreTypeOK' /\ saving'[w] = NoWorkspace
        /\ \A v \in Workers \ {w} : saving'[v] = saving[v]
    BY Leaving DEF PInv, Shape
  <1>2. next \in Phases
    BY DEF Phases
  <1>3. phase'[w] = next
    BY <1>2, GoingOn DEF PInv, Shape
  <1>4. Knows(w)' /\ Follows(w)'
    BY <1>1, <1>3, NothingKnownOfNoWorkspace DEF PInv, Follows, ledgerVars
  <1>5. troubled' \subseteq Jobs
    BY DEF PInv, Shape, OwnShape
  <1> QED BY <1>1, <1>2, <1>4, <1>5, WithinExecution DEF StoreTypeOK

LEMMA Failing ==
  ASSUME PipelineAssumption, PInv, NEW w \in Workers, NEW permanent \in BOOLEAN,
         WorkFails(w, permanent) \/ RecordFails(w, permanent) \/ FinalizeFails(w)
  PROVE  PInv'
PROOF
  <1>1. phase[w] \in {"work", "finalize", "commit"}
    BY DEF WorkFails, RecordFails, FinalizeFails
  <1>2. doing[w] # Nothing
    BY <1>1 DEF PInv, Follows
  <1>3. PICK next \in {"failed", "rejected"} : Goto(w, next)
    BY DEF WorkFails, RecordFails, FinalizeFails, Raise
  <1>4. Leave(w) /\ UNCHANGED <<ledgerVars, store, verified, doing, memory>>
    BY DEF WorkFails, RecordFails, FinalizeFails, Raise, Refused
  <1>5. troubled' \in {troubled, troubled \cup {doing[w]}}
    BY DEF WorkFails, RecordFails, FinalizeFails
  <1> QED BY <1>2, <1>3, <1>4, <1>5, Raising

LEMMA Finalizing ==
  ASSUME PipelineAssumption, PInv, NEW w \in Workers, Finalize(w)
  PROVE  PInv'
PROOF
  <1>1. phase[w] = "finalize" /\ Saving(w) /\ UNCHANGED <<ledgerVars, pipelineVars>> /\ w \in Savers
    BY DEF Finalize, PipelineAssumption
  <1>2. /\ StoreInv' /\ Kept /\ verified \subseteq verified'
        /\ saving[w] # NoWorkspace /\ saving'[w] # NoWorkspace
        /\ saving'[w].target = saving[w].target /\ saving'[w].hash = saving[w].hash
        /\ \A v \in Savers \ {w} : saving'[v] = saving[v]
    BY <1>1, SavingSteps, StorePart
  <1>3. Shape'
    BY <1>1, <1>2 DEF PInv, Shape, StoreInv, LedgerShape, OwnShape, ledgerVars, pipelineVars
  <1>4. Knows(w)' /\ Follows(w)'
    BY <1>1, <1>2 DEF PInv, Follows, StoreInv, ledgerVars, pipelineVars
  <1>5. \A v \in Workers \ {w} : Untouched(v)
    BY <1>1, <1>2 DEF Untouched, ledgerVars, pipelineVars, PipelineAssumption
  <1>6. memory' = memory /\ finished' = finished /\ ReadBackIsIntact'
    BY <1>1, <1>2 DEF ledgerVars, pipelineVars, StoreInv
  <1> QED BY <1>2, <1>3, <1>4, <1>5, <1>6, MemoryLasts, Settles

LEMMA HavingFinalized ==
  ASSUME PipelineAssumption, PInv, NEW w \in Workers, Finalized(w)
  PROVE  PInv'
PROOF
  <1>1. /\ phase[w] = "finalize" /\ At(w, "finalized")
        /\ UNCHANGED <<ledgerVars, store, saving, verified, doing, memory, troubled>>
    BY DEF Finalized, storeVars
  <1>2. PICK next \in {"succeeded", "commit"} :
          /\ Goto(w, next)
          /\ next = "commit" <=> doing[w] \notin Transcripts
    BY DEF Finalized
  <1>3. next \in Phases
    BY DEF Phases
  <1>4. phase'[w] = next
    BY <1>2, <1>3, GoingOn DEF PInv, Shape
  <1>5. Knows(w)'
    BY <1>1, KnowledgeLasts, StorePart, QuietStore DEF StoreInv, StoreTypeOK, PipelineAssumption
  <1>6. Follows(w)'
    BY <1>1, <1>2, <1>4 DEF PInv, Follows, At, ledgerVars
  <1>7. /\ saving' \in [Savers -> Workspaces \cup {NoWorkspace}] /\ troubled' \subseteq Jobs
    BY <1>1 DEF PInv, Shape, StoreTypeOK, OwnShape
  <1> QED BY <1>1, <1>2, <1>3, <1>5, <1>6, <1>7, WithinExecution

\* What the gateway records is what the store holds and has been read back.
LEMMA Committing ==
  ASSUME PipelineAssumption, PInv, NEW w \in Workers, Commit(w) \/ CommitFails(w)
  PROVE  PInv'
PROOF
  <1> DEFINE t == TargetOf[doing[w]]
  <1>1. /\ phase[w] = "commit" /\ UNCHANGED <<ledgerVars, store, saving, verified, doing>>
        /\ troubled' \in {troubled, troubled \cup {doing[w]}}
    BY DEF Commit, CommitFails, storeVars
  <1>2. PICK next \in {"succeeded", "failed"} :
          Goto(w, next) /\ (next = "succeeded" => Recorded(w)) /\ (Recorded(w) \/ UNCHANGED memory)
    BY DEF Commit, CommitFails
  <1>3. /\ doing[w] \in Jobs /\ At(w, "finalized") /\ doing[w] \notin Transcripts
        /\ holds[w] \in {Nothing, doing[w]}
    BY <1>1 DEF PInv, Follows, Shape, OwnShape
  <1>4. saving[w] # NoWorkspace
    BY <1>3 DEF At, NoWorkspace
  <1>5. saving[w].target = t /\ saving[w].hash \in Contents[doing[w]] /\ doing[w] # Nothing
    BY <1>4 DEF PInv, Follows
  <1>6. SameHash(w) /\ Intact(w) /\ t \in verified
    BY <1>3, <1>5 DEF PInv, Knows
  <1>7. t \in Targets /\ saving[w].hash \in Hashes
    BY <1>3, <1>5, JobFields
  <1>8. /\ memory' \in [Targets -> SUBSET Hashes]
        /\ memory'[t] \in {memory[t], memory[t] \cup {saving[w].hash}}
        /\ next = "succeeded" => memory'[t] = memory[t] \cup {saving[w].hash}
        /\ \A u \in Targets \ {t} : memory'[u] = memory[u]
    <2>1. memory \in [Targets -> SUBSET Hashes]
      BY DEF PInv, Shape, OwnShape
    <2>2. CASE Recorded(w)
      <3>1. memory' = [memory EXCEPT ![t] = memory[t] \cup {saving[w].hash}]
        BY <2>2 DEF Recorded, Target
      <3> QED BY <1>7, <2>1, <3>1
    <2>3. CASE memory' = memory /\ next # "succeeded"
      BY <1>7, <2>1, <2>3
    <2> QED BY <1>2, <2>2, <2>3
  <1>9. MemoryGrows
    BY <1>7, <1>8 DEF MemoryGrows
  <1>10. MemoryMatchesStore'
    <2>1. ASSUME NEW u \in Targets, memory'[u] # {}
          PROVE  memory'[u] = {store[u].hash} /\ store[u].intact /\ u \in verified
      <3>1. CASE u = t
        <4>1. saving[w].hash = store[t].hash /\ store[t].intact
          BY <1>5, <1>6 DEF SameHash, Intact
        <4>2. memory[t] \in {{}, {store[t].hash}}
          BY <1>7 DEF PInv, MemoryMatchesStore
        <4> QED BY <1>6, <1>8, <2>1, <3>1, <4>1, <4>2
      <3>2. CASE u # t
        BY <1>8, <2>1, <3>2 DEF PInv, MemoryMatchesStore
      <3> QED BY <3>1, <3>2
    <2> QED BY <1>1, <2>1 DEF MemoryMatchesStore
  <1>11. next \in Phases
    BY DEF Phases
  <1>12. /\ phase' \in [Workers -> Phases] /\ phase'[w] = next
         /\ \A v \in Workers \ {w} : phase'[v] = phase[v]
    BY <1>2, <1>11, GoingOn DEF PInv, Shape
  <1>13. Shape'
    BY <1>1, <1>3, <1>8, <1>12 DEF PInv, Shape, StoreTypeOK, OwnShape, LedgerShape, ledgerVars
  <1>14. Knows(w)'
    BY <1>1, KnowledgeLasts, StorePart, QuietStore DEF StoreInv, StoreTypeOK, PipelineAssumption
  <1>15. Follows(w)'
    <2>1. next = "succeeded" => memory'[t] \cap Contents[doing[w]] # {}
      BY <1>5, <1>8
    <2> QED BY <1>1, <1>3, <1>4, <1>5, <1>12, <2>1 DEF Follows, At, ledgerVars
  <1>16. \A v \in Workers \ {w} : Untouched(v)
    BY <1>1, <1>12 DEF Untouched, ledgerVars
  <1>17. Kept /\ ReadBackIsIntact'
    BY <1>1, QuietStore DEF PInv
  <1> QED BY <1>1, <1>9, <1>10, <1>13, <1>14, <1>15, <1>16, <1>17, Settles DEF ledgerVars

\* The worker is at rest again, and what it reported is so.
LEMMA Resting ==
  ASSUME PipelineAssumption, PInv, NEW w \in Workers, Rest(w), LedgerShape', holds'[w] = Nothing,
         \A v \in Workers \ {w} : holds'[v] = holds[v],
         \A j \in finished' \ finished : Done(j)
  PROVE  PInv'
PROOF
  <1>1. /\ doing' = [doing EXCEPT ![w] = Nothing] /\ Goto(w, "off") /\ Leave(w)
        /\ UNCHANGED <<store, verified, memory, troubled>>
    BY DEF Rest
  <1>2. /\ StoreTypeOK' /\ saving'[w] = NoWorkspace
        /\ \A v \in Workers \ {w} : saving'[v] = saving[v]
    BY <1>1, Leaving DEF PInv, Shape
  <1>3. /\ phase' \in [Workers -> Phases] /\ phase'[w] = "off"
        /\ \A v \in Workers \ {w} : phase'[v] = phase[v]
    BY <1>1, GoingOn DEF PInv, Shape, Phases
  <1>4. /\ doing' \in [Workers -> Jobs \cup {Nothing}] /\ doing'[w] = Nothing
        /\ \A v \in Workers \ {w} : doing'[v] = doing[v]
    BY <1>1 DEF PInv, Shape, OwnShape
  <1>5. Shape'
    BY <1>1, <1>2, <1>3, <1>4 DEF PInv, Shape, OwnShape
  <1>6. Knows(w)' /\ Follows(w)'
    BY <1>2, <1>3, <1>4, NothingKnownOfNoWorkspace DEF Follows
  <1>7. \A v \in Workers \ {w} : Untouched(v)
    BY <1>2, <1>3, <1>4 DEF Untouched
  <1>8. \A j \in finished' \ finished : Done(j)'
    BY <1>1 DEF Done
  <1>9. Kept /\ ReadBackIsIntact' /\ MemoryGrows /\ MemoryMatchesStore'
    BY <1>1, QuietStore, MemoryLasts DEF PInv
  <1> QED BY <1>1, <1>5, <1>6, <1>7, <1>8, <1>9, Settles

LEMMA Reporting ==
  ASSUME PipelineAssumption, PInv, NEW w \in Workers,
         \/ \E again \in BOOLEAN : ReportSuccess(w, again) \/ ReportFailure(w, again)
         \/ ReportTooLate(w) \/ Crash(w)
  PROVE  PInv'
PROOF
  <1>1. Rest(w)
    BY DEF ReportSuccess, ReportFailure, ReportTooLate, Crash
  <1>2. CASE \E again \in BOOLEAN : ReportSuccess(w, again)
    <2>1. PICK again \in BOOLEAN : phase[w] = "succeeded" /\ Entitled(w) /\ Finish(w, again)
      BY <1>2 DEF ReportSuccess
    <2>2. /\ LedgerShape' /\ holds'[w] = Nothing /\ finished' = finished \cup {holds[w]}
          /\ \A v \in Workers \ {w} : holds'[v] = holds[v]
      BY <2>1, LedgerSteps DEF PInv, Shape
    <2>3. holds[w] = doing[w] /\ At(w, "finalized")
      BY <2>1 DEF Entitled, PInv, Follows
    <2>4. saving[w] # NoWorkspace
      BY <2>3 DEF At, NoWorkspace
    <2>5. Done(doing[w])
      <3>1. /\ saving[w].target = TargetOf[doing[w]] /\ saving[w].hash \in Contents[doing[w]]
            /\ doing[w] \notin Transcripts => memory[TargetOf[doing[w]]] \cap Contents[doing[w]] # {}
        BY <2>1, <2>4 DEF PInv, Follows
      <3>2. SameHash(w) /\ saving[w].target \in verified
        BY <2>3 DEF PInv, Knows
      <3> QED BY <3>1, <3>2 DEF Done, SameHash
    <2> QED BY <1>1, <2>2, <2>3, <2>5, Resting
  <1>3. CASE \E again \in BOOLEAN : Abandon(w, again) \/ GiveBack(w)
    <2>1. /\ LedgerShape' /\ holds'[w] = Nothing /\ finished' = finished
          /\ \A v \in Workers \ {w} : holds'[v] = holds[v]
      BY <1>3, LedgerSteps DEF PInv, Shape
    <2> QED BY <1>1, <2>1, Resting
  <1>4. CASE UNCHANGED ledgerVars /\ ~Entitled(w)
    <2>1. holds[w] = Nothing
      BY <1>4 DEF PInv, Follows, Entitled
    <2>2. LedgerShape' /\ holds' = holds /\ finished' = finished
      BY <1>4 DEF PInv, Shape, LedgerShape, ledgerVars
    <2> QED BY <1>1, <2>1, <2>2, Resting
  <1> QED BY <1>2, <1>3, <1>4 DEF ReportFailure, ReportTooLate, Crash

LEMMA PipelineBegins ==
  ASSUME PipelineAssumption, PInit
  PROVE  PInv
PROOF
  <1>1. Shape
    BY DEF PInit, LedgerInit, StoreInit, Shape, LedgerShape, StoreTypeOK, OwnShape, Phases, Nothing
  <1>2. \A w \in Workers : Knows(w) /\ Follows(w)
    BY DEF PInit, LedgerInit, StoreInit, Knows, Follows, At, NoWorkspace, PipelineAssumption
  <1>3. ReadBackIsIntact /\ MemoryMatchesStore /\ DoneMeansCommitted
    BY DEF PInit, LedgerInit, StoreInit, ReadBackIsIntact, MemoryMatchesStore, DoneMeansCommitted
  <1> QED BY <1>1, <1>2, <1>3 DEF PInv

LEMMA PipelineInductive ==
  ASSUME PInv, [PNext]_allVars
  PROVE  PInv'
PROOF
  <1> USE PipelineAssumption
  <1>1. CASE UNCHANGED allVars
    <2>1. /\ UNCHANGED <<ledgerVars, store, saving, verified, pipelineVars>>
      BY <1>1 DEF allVars, storeVars
    <2>2. Shape' /\ \A v \in Workers : Untouched(v)
      BY <2>1 DEF PInv, Shape, LedgerShape, StoreTypeOK, OwnShape, Untouched, ledgerVars, pipelineVars
    <2>3. Kept /\ ReadBackIsIntact' /\ MemoryGrows /\ MemoryMatchesStore' /\ finished' = finished
      BY <2>1, QuietStore, MemoryLasts DEF PInv, pipelineVars, ledgerVars
    <2> QED BY <2>1, <2>2, <2>3, Settles
  <1>2. CASE \E j \in Jobs : Enqueue(j)
    BY <1>2, LedgerMoves
  <1>3. ASSUME NEW w \in Workers, NEW j \in Jobs, Take(w, j) PROVE PInv'
    BY <1>3, Taking
  <1>4. ASSUME NEW w \in Workers, phase[w] = "work", NEW hash \in Contents[doing[w]], Work(w, hash)
        PROVE  PInv'
    BY <1>4, Working
  <1>5. ASSUME NEW w \in Workers,
               \/ \E permanent \in BOOLEAN : WorkFails(w, permanent) \/ RecordFails(w, permanent)
               \/ FinalizeFails(w)
        PROVE  PInv'
    BY <1>5, Failing
  <1>6. ASSUME NEW w \in Workers, Finalize(w) \/ Finalized(w) \/ Commit(w) \/ CommitFails(w)
        PROVE  PInv'
    BY <1>6, Finalizing, HavingFinalized, Committing
  <1>7. ASSUME NEW w \in Workers,
               \/ \E again \in BOOLEAN : ReportSuccess(w, again) \/ ReportFailure(w, again)
               \/ ReportTooLate(w) \/ Crash(w)
        PROVE  PInv'
    BY <1>7, Reporting
  <1>8. ASSUME NEW w \in Workers, LoseLease(w) PROVE PInv'
    BY <1>8, LedgerMoves
  <1> QED BY <1>1, <1>2, <1>3, <1>4, <1>5, <1>6, <1>7, <1>8 DEF PNext

LEMMA NothingOverwritten ==
  ASSUME PInv, [PNext]_allVars
  PROVE  Kept
PROOF
  <1> USE PipelineAssumption
  <1>1. CASE \E w \in Workers : Finalize(w)
    BY <1>1, SavingSteps, StorePart DEF Finalize, PipelineAssumption
  <1>2. CASE ~\E w \in Workers : Finalize(w)
    <2>1. UNCHANGED <<store, verified>>
      BY <1>2 DEF PNext, allVars, storeVars, Enqueue, LoseLease, Take, Work, Stage, WorkFails, RecordFails,
                  Raise, FinalizeFails, Refused, Finalized, Commit, CommitFails, ReportSuccess,
                  ReportFailure, ReportTooLate, Crash, Rest
    <2> QED BY <2>1, QuietStore
  <1> QED BY <1>1, <1>2

-----------------------------------------------------------------------------
(* ---------------------- What the ledger guarantees --------------------- *)
\* A job that was accepted is somewhere; no two workers are taken for the
\* holder of one job.
NoJobIsLost == accepted \subseteq waiting \cup Held \cup finished \cup abandoned
OneHolder == \A v, w \in Workers : holds[v] = holds[w] /\ holds[v] # Nothing => v = w

LedgerInv == LedgerShape /\ NoJobIsLost /\ OneHolder

\* A job stays held by those who lose nothing in the step.
LEMMA StaysHeld ==
  ASSUME LedgerShape, NEW j \in Held, NEW next \in [Workers -> Jobs \cup {Nothing}],
         \A w \in Workers : holds[w] = j => next[w] = j
  PROVE  j \in {next[w] : w \in Workers} \ {Nothing}
PROOF
  <1>1. PICK w \in Workers : holds[w] = j /\ j # Nothing
    BY DEF Held
  <1>2. next[w] = j
    BY <1>1
  <1> QED BY <1>1, <1>2

LEMMA ReleasedHolds ==
  ASSUME LedgerShape, NEW jobs
  PROVE  /\ Released(jobs) \in [Workers -> Jobs \cup {Nothing}]
         /\ \A w \in Workers : Released(jobs)[w] = IF holds[w] \in jobs THEN Nothing ELSE holds[w]
PROOF BY DEF Released, LedgerShape

LEMMA ExpireKeeps ==
  ASSUME LedgerInv, NEW lost \in SUBSET Held, NEW released \in SUBSET lost, Expire(lost, released)
  PROVE  LedgerInv'
PROOF
  <1>1. /\ waiting' = waiting \cup lost /\ holds' = Released(released)
        /\ UNCHANGED <<accepted, tries, finished, abandoned>>
    BY DEF Expire
  <1>2. /\ holds' \in [Workers -> Jobs \cup {Nothing}]
        /\ \A w \in Workers : holds'[w] = IF holds[w] \in released THEN Nothing ELSE holds[w]
    BY <1>1, ReleasedHolds DEF LedgerInv
  <1>3. LedgerShape'
    BY <1>1, <1>2, HeldAreJobs DEF LedgerInv, LedgerShape
  <1>4. OneHolder'
    BY <1>2 DEF LedgerInv, OneHolder
  <1>5. ASSUME NEW j \in Held, j \notin released PROVE j \in Held'
    <2>1. \A w \in Workers : holds[w] = j => holds'[w] = j
      BY <1>2, <1>5
    <2> QED BY <1>2, <1>5, <2>1, StaysHeld DEF LedgerInv, Held
  <1>6. NoJobIsLost'
    BY <1>1, <1>5 DEF LedgerInv, NoJobIsLost
  <1> QED BY <1>3, <1>4, <1>6 DEF LedgerInv

\* The job that is granted is held by its new holder, whoever held it before.
LEMMA GrantKeeps ==
  ASSUME LedgerInv, PipelineAssumption, NEW w \in Workers, NEW lost \in SUBSET Held,
         NEW j \in waiting \cup lost, Grant(w, j, lost)
  PROVE  LedgerInv'
PROOF
  <1> DEFINE left == Released(lost \cup {j})
  <1>1. /\ holds[w] = Nothing /\ waiting' = (waiting \cup lost) \ {j}
        /\ holds' = [left EXCEPT ![w] = j]
        /\ tries' = [tries EXCEPT ![j] = IF @ <= MaxTries THEN @ + 1 ELSE @]
        /\ UNCHANGED <<accepted, finished, abandoned>>
    BY DEF Grant
  <1>2. /\ left \in [Workers -> Jobs \cup {Nothing}]
        /\ \A v \in Workers : left[v] = IF holds[v] \in lost \cup {j} THEN Nothing ELSE holds[v]
    BY ReleasedHolds DEF LedgerInv
  <1>3. j \in Jobs /\ j # Nothing
    BY HeldAreJobs DEF LedgerInv, LedgerShape, PipelineAssumption, Nothing
  <1> HIDE DEF left
  <1>4. /\ holds' \in [Workers -> Jobs \cup {Nothing}] /\ holds'[w] = j
        /\ \A v \in Workers \ {w} :
             holds'[v] = IF holds[v] \in lost \cup {j} THEN Nothing ELSE holds[v]
    BY <1>1, <1>2, <1>3
  <1>5. LedgerShape'
    <2>1. tries' \in [Jobs -> Nat]
      BY <1>1, <1>3, PipelineAssumption DEF LedgerInv, LedgerShape, PipelineAssumption
    <2> QED BY <1>1, <1>4, <2>1, HeldAreJobs DEF LedgerInv, LedgerShape
  <1>6. OneHolder'
    BY <1>3, <1>4 DEF LedgerInv, OneHolder
  <1>7. j \in Held'
    BY <1>3, <1>4 DEF Held
  <1>8. ASSUME NEW k \in Held, k \notin lost \cup {j} PROVE k \in Held'
    <2>1. \A v \in Workers : holds[v] = k => holds'[v] = k
      BY <1>1, <1>4, <1>8 DEF Held
    <2> QED BY <1>4, <1>8, <2>1, StaysHeld DEF LedgerInv, Held
  <1>9. NoJobIsLost'
    BY <1>1, <1>7, <1>8 DEF LedgerInv, NoJobIsLost
  <1> QED BY <1>5, <1>6, <1>9 DEF LedgerInv

\* The job a worker leaves is in one of the other places.
LEMMA LeavingKeeps ==
  ASSUME LedgerInv, NEW w \in Workers,
         \/ \E again \in BOOLEAN : Finish(w, again) \/ Abandon(w, again)
         \/ GiveBack(w)
  PROVE  LedgerInv'
PROOF
  <1>1. PICK again \in BOOLEAN :
          /\ LeaveWaiting(w, again)
          /\ UNCHANGED <<accepted, tries>>
          /\ \/ finished' = finished \cup {holds[w]} /\ abandoned' = abandoned
             \/ abandoned' = abandoned \cup {holds[w]} /\ finished' = finished
             \/ again = TRUE /\ UNCHANGED <<finished, abandoned>>
    BY DEF Finish, Abandon, GiveBack
  <1>2. /\ holds[w] # Nothing /\ holds' = [holds EXCEPT ![w] = Nothing]
        /\ waiting' = IF again THEN waiting \cup {holds[w]} ELSE waiting
    BY <1>1 DEF LeaveWaiting
  <1>3. holds[w] \in Jobs
    BY <1>2 DEF LedgerInv, LedgerShape
  <1>4. /\ holds' \in [Workers -> Jobs \cup {Nothing}]
        /\ \A v \in Workers : holds'[v] = IF v = w THEN Nothing ELSE holds[v]
    BY <1>2 DEF LedgerInv, LedgerShape
  <1>5. LedgerShape'
    BY <1>1, <1>2, <1>3, <1>4 DEF LedgerInv, LedgerShape
  <1>6. OneHolder'
    BY <1>4 DEF LedgerInv, OneHolder
  <1>7. ASSUME NEW j \in Held, j # holds[w] PROVE j \in Held'
    <2>1. \A v \in Workers : holds[v] = j => holds'[v] = j
      BY <1>4, <1>7
    <2> QED BY <1>4, <1>7, <2>1, StaysHeld DEF LedgerInv, Held
  <1>8. /\ waiting \subseteq waiting' /\ finished \subseteq finished' /\ abandoned \subseteq abandoned'
        /\ holds[w] \in waiting' \cup finished' \cup abandoned'
    BY <1>1, <1>2
  <1>9. NoJobIsLost'
    BY <1>1, <1>7, <1>8 DEF LedgerInv, NoJobIsLost
  <1> QED BY <1>5, <1>6, <1>9 DEF LedgerInv

LEMMA LedgerInductive ==
  ASSUME LedgerInv, PipelineAssumption, [LedgerNext]_ledgerVars
  PROVE  LedgerInv'
PROOF
  <1>1. CASE UNCHANGED ledgerVars
    BY <1>1 DEF ledgerVars, LedgerInv, LedgerShape, NoJobIsLost, OneHolder, Held
  <1>2. ASSUME NEW j \in Jobs, Submit(j) PROVE LedgerInv'
    BY <1>2 DEF Submit, LedgerInv, LedgerShape, NoJobIsLost, OneHolder, Held
  <1>3. ASSUME NEW lost \in SUBSET Held, NEW released \in SUBSET lost, Expire(lost, released)
        PROVE  LedgerInv'
    BY <1>3, ExpireKeeps
  <1>4. ASSUME NEW w \in Workers, NEW lost \in SUBSET Held, NEW j \in waiting \cup lost,
               Grant(w, j, lost)
        PROVE  LedgerInv'
    BY <1>4, GrantKeeps
  <1>5. ASSUME NEW w \in Workers,
               \/ \E again \in BOOLEAN : Finish(w, again) \/ Abandon(w, again)
               \/ GiveBack(w)
        PROVE  LedgerInv'
    BY <1>5, LeavingKeeps
  <1> QED BY <1>1, <1>2, <1>3, <1>4, <1>5 DEF LedgerNext

LEMMA LedgerInvariant == LedgerSpec => [](NoJobIsLost /\ OneHolder)
PROOF
  <1>1. LedgerInit => LedgerInv
    BY DEF LedgerInit, LedgerInv, LedgerShape, NoJobIsLost, OneHolder, Held
  <1>2. LedgerInv /\ [LedgerNext]_ledgerVars => LedgerInv'
    BY LedgerInductive, PipelineAssumption
  <1>3. LedgerInv => NoJobIsLost /\ OneHolder
    BY DEF LedgerInv
  <1> QED BY <1>1, <1>2, <1>3, PTL DEF LedgerSpec

\* A step of the pipeline is one of the queue's, or the queue does not notice.
LEMMA PipelineSteps ==
  ASSUME PNext
  PROVE  [LedgerNext]_ledgerVars
PROOF
  <1>1. ASSUME NEW j \in Jobs, Enqueue(j) PROVE LedgerNext
    BY <1>1 DEF Enqueue, LedgerNext
  <1>2. ASSUME NEW w \in Workers, LoseLease(w) PROVE LedgerNext
    <2>1. {holds[w]} \in SUBSET Held
      BY <1>2 DEF LoseLease, Held
    <2>2. Expire({holds[w]}, {holds[w]}) /\ {holds[w]} \in SUBSET {holds[w]}
      BY <1>2 DEF LoseLease
    <2> QED BY <2>1, <2>2 DEF LedgerNext
  <1>3. ASSUME NEW w \in Workers, NEW j \in Jobs, Take(w, j) PROVE LedgerNext
    <2>1. Grant(w, j, {}) /\ j \in waiting \cup {} /\ {} \in SUBSET Held
      BY <1>3 DEF Take
    <2> QED BY <2>1 DEF LedgerNext
  <1>4. ASSUME NEW w \in Workers, NEW again \in BOOLEAN,
               ReportSuccess(w, again) \/ ReportFailure(w, again)
        PROVE  LedgerNext
    <2>1. Finish(w, again) \/ Abandon(w, again) \/ GiveBack(w)
      BY <1>4 DEF ReportSuccess, ReportFailure
    <2> QED BY <2>1 DEF LedgerNext
  <1>5. ASSUME NEW w \in Workers, Crash(w) PROVE LedgerNext \/ UNCHANGED ledgerVars
    <2>1. GiveBack(w) \/ UNCHANGED ledgerVars
      BY <1>5 DEF Crash
    <2> QED BY <2>1 DEF LedgerNext
  <1>6. ASSUME NEW w \in Workers,
               \/ \E hash \in Contents[doing[w]] : Work(w, hash)
               \/ \E permanent \in BOOLEAN : WorkFails(w, permanent) \/ RecordFails(w, permanent)
               \/ Finalize(w) \/ FinalizeFails(w) \/ Finalized(w)
               \/ Commit(w) \/ CommitFails(w) \/ ReportTooLate(w)
        PROVE  UNCHANGED ledgerVars
    BY <1>6 DEF Work, WorkFails, RecordFails, Raise, Finalize, FinalizeFails, Finalized, Commit,
                CommitFails, ReportTooLate
  <1> QED BY <1>1, <1>2, <1>3, <1>4, <1>5, <1>6 DEF PNext

-----------------------------------------------------------------------------
(* ------------------------------ Theorems ------------------------------- *)
\* PInv holds in every reachable state.
THEOREM PipelineInvariant == PSpec => []PInv
PROOF
  <1>1. PInit => PInv
    BY PipelineBegins, PipelineAssumption
  <1>2. PInv /\ [PNext]_allVars => PInv'
    BY PipelineInductive
  <1> QED BY <1>1, <1>2, PTL DEF PSpec

\* The state is well formed, and a worker that holds a job executes it.
THEOREM PipelineTypeCorrect == PSpec => []PTypeOK
PROOF
  <1>1. PInv => PTypeOK
    BY DEF PInv, Shape, OwnShape, Follows, PTypeOK
  <1> QED BY <1>1, PipelineInvariant, PTL

\* No interleaving of finalizations, crashes and lost leases replaces, alters
\* or unseals an artifact (artifact_store.py finalize).
THEOREM ArtifactsAreWrittenOnce == PSpec => WriteOnce
PROOF
  <1>1. PInv /\ [PNext]_allVars => [Kept]_storeVars
    BY NothingOverwritten
  <1>2. [Kept]_storeVars <=>
          [\A t \in Targets : store[t] # Absent =>
             /\ store'[t].hash = store[t].hash
             /\ store'[t].intact = store[t].intact
             /\ store[t].sealed => store'[t].sealed]_storeVars
    BY DEF Kept
  <1> QED BY <1>1, <1>2, PipelineInvariant, PTL DEF PSpec, WriteOnce

\* An execution that got through finalize finds its content at the target, read
\* back, whatever other executions for the target have done since.
THEOREM FinalizedStaysStored == PSpec => []FinalizedIsStored
PROOF
  <1>1. PInv => FinalizedIsStored
    BY PipelineAssumption DEF PInv, Knows, FinalizedIsStored, PipelineAssumption
  <1> QED BY <1>1, PipelineInvariant, PTL

\* The canonical memory never names an artifact other than the one in the store
\* (pipeline.py process, memory_gateway_adapter.py commit).
THEOREM MemoryAgreesWithStore == PSpec => []MemoryMatchesStore
PROOF
  <1>1. PInv => MemoryMatchesStore
    BY DEF PInv
  <1> QED BY <1>1, PipelineInvariant, PTL

\* A job the queue counts as done has its result where it belongs (worker.py
\* _execute and its report to the queue).
THEOREM DoneIsCommitted == PSpec => []DoneMeansCommitted
PROOF
  <1>1. PInv => DoneMeansCommitted
    BY DEF PInv
  <1> QED BY <1>1, PipelineInvariant, PTL

\* The pipeline moves the queue's jobs in no way the queue does not offer: what
\* FileQueue implements is what the pipeline uses.
THEOREM PipelineUsesLedger == PSpec => LedgerSpec
PROOF
  <1>1. PInit => LedgerInit
    BY DEF PInit
  <1>2. [PNext]_allVars => [LedgerNext]_ledgerVars
    BY PipelineSteps DEF allVars
  <1> QED BY <1>1, <1>2, PTL DEF PSpec, LedgerSpec

\* Whatever crashes, lost leases and torn moves there are, a submitted job
\* waits, is held, is done or is quarantined, and no two workers are taken for
\* its holder (queue.py submit, claim, recover_expired, complete and fail).
THEOREM NoSubmittedJobIsLost == PSpec => [](NoJobIsLost /\ OneHolder)
PROOF BY PipelineUsesLedger, LedgerInvariant
=============================================================================
