-------------------------- MODULE QueueLedger_proofs --------------------------
(***************************************************************************)
(* FileQueue implements JobLedger: files, locks, leases, clocks and crashes *)
(* keep the promises of the queue, for any number of jobs and of workers   *)
(* with ids of their own.                                                  *)
(*                                                                         *)
(* The proof maps each step of the queue to one step of the ledger:        *)
(*   enqueue                    Submit                                     *)
(*   recover_expired, torn or not, and a torn claim     Expire             *)
(*   claim                      Grant                                      *)
(*   complete                   Finish                                     *)
(*   fail                       Abandon, or GiveBack for a retry           *)
(*   the death of a process     GiveBack, if it still held its job         *)
(*   heartbeat, tick, a refused report   nothing                           *)
(***************************************************************************)
EXTENDS FileQueue_proofs

-----------------------------------------------------------------------------
(* The mapping, spelt out. *)

Waiting == DOMAIN pending \cup (DOMAIN processing \ {HeldBy(p) : p \in Procs})

Taken(id) == \E p \in Procs : HeldBy(p) = id

HeldIds == {id \in DOMAIN processing : Taken(id)}

\* A process holds the job it was handed or none.
LEMMA HeldByFacts ==
  ASSUME TypeOK, NEW p \in Procs
  PROVE  /\ HeldBy(p) # NoJob <=> Owns(p)
         /\ Owns(p) => /\ HeldBy(p) = job[p]
                       /\ job[p] \in DOMAIN processing
                       /\ job[p] \in Ids
                       /\ job[p] # NoJob
         /\ HeldBy(p) # NoJob => HeldBy(p) = job[p]
  <1>1. DOMAIN processing \subseteq Ids
    BY Attempts
  <1> QED BY <1>1, Bounds DEF HeldBy, Owns

\* The owner test tells p from every other process that has a job.
Apart(p) == \A q \in Procs \ {p} : job[q] # NoJob => WorkerId[q] # WorkerId[p]

\* The job such a process holds is held by nobody else.
LEMMA HeldOnce ==
  ASSUME TypeOK, NEW p \in Procs, Apart(p), NEW q \in Procs,
         HeldBy(p) # NoJob, HeldBy(p) = HeldBy(q)
  PROVE  p = q
  <1>1. Owns(p) /\ Owns(q) /\ job[p] = job[q] /\ job[q] # NoJob
    BY HeldByFacts
  <1> QED BY <1>1 DEF Owns, Apart

\* Who holds a job whose record is left alone, and whose process is too, goes
\* on holding it; and who does not, does not begin to.
LEMMA HoldStays ==
  ASSUME TypeOK, NEW q \in Procs, job'[q] = job[q],
         job[q] \in DOMAIN processing' <=> job[q] \in DOMAIN processing,
         job[q] \in DOMAIN processing =>
           processing'[job[q]].worker = processing[job[q]].worker
  PROVE  HeldBy(q)' = HeldBy(q)
  BY DEF HeldBy, Owns

\* Who has no job, or one whose record is gone or names another, holds none.
LEMMA HoldsNothing ==
  ASSUME NEW q \in Procs,
         \/ job'[q] = NoJob
         \/ job'[q] \notin DOMAIN processing'
         \/ processing'[job'[q]].worker # WorkerId[q]
  PROVE  HeldBy(q)' = NoJob
  BY DEF HeldBy, Owns

LEMMA WaitingElements ==
  ASSUME TypeOK
  PROVE  \A id : id \in Waiting <=>
           \/ id \in DOMAIN pending
           \/ id \in DOMAIN processing /\ ~Taken(id)
  BY DEF Waiting, Taken

LEMMA HeldElements ==
  ASSUME TypeOK
  PROVE  \A id : /\ id \in HeldIds <=> id # NoJob /\ Taken(id)
                 /\ id \in HeldIds => id \in DOMAIN processing
  <1>1. \A p \in Procs : HeldBy(p) # NoJob => HeldBy(p) \in DOMAIN processing
    BY HeldByFacts
  <1>2. NoJob \notin DOMAIN processing
    BY Attempts, Bounds
  <1> QED BY <1>1, <1>2 DEF HeldIds, Taken

\* The abstract set of held jobs.
LEMMA MappedHeld ==
  ASSUME TypeOK
  PROVE  Ledger!Held = HeldIds
  <1>1. Ledger!Held = {HeldBy(p) : p \in Procs} \ {NoJob}
    BY DEF Ledger!Held, Ledger!Nothing, NoJob
  <1> QED BY <1>1, HeldElements DEF Taken

-----------------------------------------------------------------------------
(* The steps of the ledger, in the terms of the queue. *)

LEMMA ExpireMaps ==
  ASSUME TypeOK,
         NEW lost \in SUBSET HeldIds, NEW released \in SUBSET lost,
         Waiting' = Waiting \cup lost,
         \A q \in Procs :
           HeldBy(q)' = IF HeldBy(q) \in released THEN NoJob ELSE HeldBy(q),
         UNCHANGED <<accepted, deliveries, done, quarantined>>
  PROVE  Ledger!LedgerNext
  <1>1. lost \in SUBSET Ledger!Held
    BY MappedHeld
  <1>2. [q \in Procs |-> HeldBy(q)]' = Ledger!Released(released)
    BY DEF Ledger!Released, Ledger!Nothing, NoJob
  <1>3. Ledger!Expire(lost, released)
    BY <1>1, <1>2 DEF Ledger!Expire, Waiting
  <1> QED BY <1>1, <1>3 DEF Ledger!LedgerNext

LEMMA GrantMaps ==
  ASSUME TypeOK, NEW p \in Procs, HeldBy(p) = NoJob,
         NEW lost \in SUBSET HeldIds, NEW id \in Waiting \cup lost,
         id \in Ids,
         Waiting' = (Waiting \cup lost) \ {id},
         HeldBy(p)' = id,
         \A q \in Procs \ {p} :
           HeldBy(q)' = IF HeldBy(q) \in lost \cup {id} THEN NoJob ELSE HeldBy(q),
         deliveries' = [deliveries EXCEPT ![id] = OneMore(@)],
         UNCHANGED <<accepted, done, quarantined>>
  PROVE  Ledger!LedgerNext
  <1>1. lost \in SUBSET Ledger!Held
    BY MappedHeld
  <1>2. [q \in Procs |-> HeldBy(q)]' =
          [Ledger!Released(lost \cup {id}) EXCEPT ![p] = id]
    BY DEF Ledger!Released, Ledger!Nothing, NoJob
  <1>3. OneMore(deliveries[id]) =
          IF deliveries[id] <= MaxAttempts THEN deliveries[id] + 1 ELSE deliveries[id]
    <2>1. deliveries[id] \in Nat
      BY Attempts, Bounds
    <2> QED BY <2>1, ConstantsAssumption DEF OneMore, AttemptCap
  <1>4. deliveries' =
          [deliveries EXCEPT ![id] = IF @ <= MaxAttempts THEN @ + 1 ELSE @]
    BY <1>3 DEF TypeOK
  <1>5. Ledger!Grant(p, id, lost)
    BY <1>1, <1>2, <1>4 DEF Ledger!Grant, Ledger!Nothing, NoJob, Waiting
  <1>6. id \in Waiting \cup lost
    OBVIOUS
  <1> QED BY <1>1, <1>5, <1>6 DEF Ledger!LedgerNext, Waiting

LEMMA LeaveMaps ==
  ASSUME TypeOK, NEW p \in Procs, HeldBy(p) # NoJob, NEW again \in BOOLEAN,
         Waiting' = IF again THEN Waiting \cup {HeldBy(p)} ELSE Waiting,
         HeldBy(p)' = NoJob,
         \A q \in Procs \ {p} : HeldBy(q)' = HeldBy(q)
  PROVE  Ledger!LeaveWaiting(p, again)
  <1>1. [q \in Procs |-> HeldBy(q)]' =
          [[q \in Procs |-> HeldBy(q)] EXCEPT ![p] = NoJob]
    <2>1. \A q \in Procs : HeldBy(q)' = IF q = p THEN NoJob ELSE HeldBy(q)
      OBVIOUS
    <2>2. [q \in Procs |-> HeldBy(q)]' =
            [q \in Procs |-> IF q = p THEN NoJob ELSE HeldBy(q)]
      BY <2>1
    <2> QED BY <2>2
  <1> QED BY <1>1 DEF Ledger!LeaveWaiting, Ledger!Nothing, NoJob, Waiting

-----------------------------------------------------------------------------
(* The steps of the queue. *)

\* Nothing the ledger sees has changed.
LEMMA StutterMaps ==
  ASSUME TypeOK,
         DOMAIN pending' = DOMAIN pending, DOMAIN processing' = DOMAIN processing,
         \A q \in Procs : HeldBy(q)' = HeldBy(q),
         UNCHANGED <<accepted, deliveries, done, quarantined>>
  PROVE  UNCHANGED Ledger!ledgerVars
  <1>1. {HeldBy(q) : q \in Procs}' = {HeldBy(q) : q \in Procs}
    OBVIOUS
  <1>2. [q \in Procs |-> HeldBy(q)]' = [q \in Procs |-> HeldBy(q)]
    OBVIOUS
  <1> QED BY <1>1, <1>2 DEF Ledger!ledgerVars

\* A new key is a new job: a job the queue has accepted has a file (NoJobLost).
LEMMA EnqueueMaps ==
  ASSUME TypeOK, NoJobLost, NEW id \in Ids, NEW lag \in Lags, Enqueue(id, lag)
  PROVE  Ledger!LedgerNext
  <1>1. id \notin accepted /\ id \notin DOMAIN processing
    BY StatesElements DEF Enqueue, NoJobLost
  <1>2. DOMAIN pending' = DOMAIN pending \cup {id}
    BY EnqueueEffect
  <1>3. \A q \in Procs : HeldBy(q)' = HeldBy(q)
    BY HoldStays DEF Enqueue
  <1>4. {HeldBy(q) : q \in Procs}' = {HeldBy(q) : q \in Procs}
    BY <1>3
  <1>5. Waiting' = Waiting \cup {id}
    BY <1>2, <1>4 DEF Enqueue, Waiting
  <1>6. [q \in Procs |-> HeldBy(q)]' = [q \in Procs |-> HeldBy(q)]
    BY <1>3
  <1>7. Ledger!Submit(id)
    BY <1>1, <1>5, <1>6 DEF Enqueue, Ledger!Submit, Waiting
  <1> QED BY <1>7 DEF Ledger!LedgerNext

\* An expired record whose process is alive is taken from it, unless the crash
\* of the recovery leaves the record in processing/ as well.
LEMMA RecoveryMaps ==
  ASSUME TypeOK, TypeOK', NEW lag \in Lags, NEW written, NEW kept,
         Recovers(lag, written, kept),
         UNCHANGED <<job, accepted, deliveries, done, quarantined>>
  PROVE  Ledger!LedgerNext
  <1> DEFINE lost == HeldIds \cap written
             released == HeldIds \cap (written \ kept)
  <1>1. /\ DOMAIN pending' = DOMAIN pending \cup written
        /\ DOMAIN processing' = DOMAIN processing \ (written \ kept)
        /\ written \subseteq DOMAIN processing
        /\ \A x \in DOMAIN processing \ (written \ kept) : processing'[x] = processing[x]
    <2>1. Recovered(written, kept)
      BY RecoveryEffect
    <2> QED BY <2>1 DEF Recovered
  <1>2. ASSUME NEW q \in Procs
        PROVE  HeldBy(q)' = IF HeldBy(q) \in released THEN NoJob ELSE HeldBy(q)
    <2>1. CASE job[q] \in written \ kept
      <3>1. HeldBy(q)' = NoJob
        BY <1>1, <2>1, HoldsNothing
      <3>2. HeldBy(q) # NoJob => HeldBy(q) \in released
        BY <2>1, HeldByFacts, HeldElements DEF Taken
      <3> QED BY <3>1, <3>2
    <2>2. CASE job[q] \notin written \ kept
      <3>1. HeldBy(q)' = HeldBy(q)
        BY <1>1, <2>2, HoldStays
      <3>2. HeldBy(q) \in released => HeldBy(q) = job[q]
        BY HeldByFacts, HeldElements
      <3> QED BY <2>2, <3>1, <3>2
    <2> QED BY <2>1, <2>2
  <1>3. ASSUME NEW id PROVE id # NoJob => (Taken(id)' <=> Taken(id) /\ id \notin released)
    BY <1>2 DEF Taken
  <1> HIDE DEF released
  <1>4. ASSUME NEW id PROVE id \in Waiting' <=> id \in Waiting \cup lost
    <2>1. id \in DOMAIN processing => id # NoJob
      BY Attempts, Bounds
    <2>2. id \in released <=> id \in HeldIds /\ id \in written /\ id \notin kept
      BY DEF released
    <2>3. id \in HeldIds <=> id # NoJob /\ Taken(id)
      BY HeldElements
    <2>4. id \in Waiting' <=> \/ id \in DOMAIN pending'
                              \/ id \in DOMAIN processing' /\ ~Taken(id)'
      BY WaitingElements DEF Waiting, Taken
    <2> QED BY <1>1, <1>3, <2>1, <2>2, <2>3, <2>4, WaitingElements
  <1>5. Waiting' = Waiting \cup lost
    BY <1>4
  <1>6. lost \in SUBSET HeldIds /\ released \in SUBSET lost
    BY DEF released
  <1> HIDE DEF lost
  <1> QED BY <1>2, <1>5, <1>6, ExpireMaps

\* After a claim by p of id, torn or not, who else held an expired job or id
\* holds it no longer: the record of id names p.
LEMMA OthersAfterClaim ==
  ASSUME TypeOK, NEW p \in Procs, Apart(p), NEW lag \in Lags, NEW id, NEW left,
         ClaimMoves(p, id, lag, left),
         NEW q \in Procs \ {p}, job'[q] = job[q]
  PROVE  HeldBy(q)' = IF HeldBy(q) \in Expired(lag) \cup {id} THEN NoJob ELSE HeldBy(q)
  <1> USE DEF ClaimMoves
  <1>1. CASE job[q] = id
    <2>1. processing'[id].worker # WorkerId[q]
      BY <1>1, Bounds DEF Apart
    <2>2. HeldBy(q)' = NoJob
      BY <1>1, <2>1, HoldsNothing
    <2> QED BY <1>1, <2>2, HeldByFacts
  <1>2. CASE job[q] # id /\ job[q] \in Expired(lag)
    <2>1. HeldBy(q)' = NoJob
      BY <1>2, HoldsNothing
    <2> QED BY <1>2, <2>1, HeldByFacts
  <1>3. CASE job[q] # id /\ job[q] \notin Expired(lag)
    <2>1. HeldBy(q)' = HeldBy(q)
      BY <1>3, HoldStays
    <2>2. HeldBy(q) \in Expired(lag) \cup {id} => HeldBy(q) = NoJob
      BY <1>3, HeldByFacts
    <2> QED BY <2>1, <2>2
  <1> QED BY <1>1, <1>2, <1>3

LEMMA ClaimMaps ==
  ASSUME TypeOK, TypeOK', NEW p \in Procs, Apart(p), NEW lag \in Lags, Claim(p, lag)
  PROVE  Ledger!LedgerNext
  <1>1. PICK id \in Ids : /\ ClaimMoves(p, id, lag, {})
                          /\ job[p] = NoJob
                          /\ job' = [job EXCEPT ![p] = id]
                          /\ deliveries' = [deliveries EXCEPT ![id] = OneMore(@)]
                          /\ UNCHANGED <<done, quarantined, accepted>>
    BY ClaimEffect
  <1> DEFINE lost == HeldIds \cap Expired(lag)
  <1>2. /\ id \in DOMAIN pending \cup Expired(lag)
        /\ Expired(lag) \subseteq DOMAIN processing
        /\ DOMAIN pending' = (DOMAIN pending \cup Expired(lag)) \ {id}
        /\ DOMAIN processing' = (DOMAIN processing \ Expired(lag)) \cup {id}
        /\ processing'[id].worker = WorkerId[p]
    BY <1>1 DEF ClaimMoves
  <1>3. HeldBy(p) = NoJob /\ HeldBy(p)' = id
    <2>1. job'[p] = id /\ id # NoJob
      BY <1>1, Bounds DEF TypeOK
    <2> QED BY <1>1, <1>2, <2>1 DEF HeldBy, Owns
  <1>4. ASSUME NEW q \in Procs \ {p}
        PROVE  HeldBy(q)' = IF HeldBy(q) \in lost \cup {id} THEN NoJob ELSE HeldBy(q)
    <2>1. job'[q] = job[q]
      BY <1>1 DEF TypeOK
    <2>2. HeldBy(q)' = IF HeldBy(q) \in Expired(lag) \cup {id} THEN NoJob ELSE HeldBy(q)
      BY <1>1, <2>1, OthersAfterClaim
    <2>3. HeldBy(q) # NoJob => HeldBy(q) \in HeldIds
      BY HeldElements DEF Taken
    <2> QED BY <2>2, <2>3
  <1>5. ASSUME NEW x
        PROVE  x # NoJob => (Taken(x)' <=> x = id \/ (Taken(x) /\ x \notin lost \cup {id}))
    <2>1. ASSUME x # NoJob, Taken(x)' PROVE x = id \/ (Taken(x) /\ x \notin lost \cup {id})
      <3>1. PICK q \in Procs : HeldBy(q)' = x
        BY <2>1 DEF Taken
      <3> QED BY <1>3, <1>4, <2>1, <3>1 DEF Taken
    <2>2. ASSUME x # NoJob, Taken(x), x \notin lost \cup {id} PROVE Taken(x)'
      <3>1. PICK q \in Procs \ {p} : HeldBy(q) = x
        BY <1>3, <2>2 DEF Taken
      <3>2. HeldBy(q)' = x
        BY <1>4, <2>2, <3>1
      <3> QED BY <3>2 DEF Taken
    <2>3. Taken(id)'
      BY <1>3 DEF Taken
    <2> QED BY <2>1, <2>2, <2>3
  <1>6. ASSUME NEW x PROVE x \in Waiting' <=> x \in (Waiting \cup lost) \ {id}
    <2>1. x \in DOMAIN processing \cup {id} => x # NoJob
      BY Attempts, Bounds
    <2>2. x \in HeldIds <=> x # NoJob /\ Taken(x)
      BY HeldElements
    <2>3. x \in Waiting' <=> \/ x \in DOMAIN pending'
                             \/ x \in DOMAIN processing' /\ ~Taken(x)'
      BY WaitingElements DEF Waiting, Taken
    <2> QED BY <1>2, <1>5, <2>1, <2>2, <2>3, WaitingElements
  <1>7. id \in Waiting \cup lost
    BY <1>2, HeldElements, WaitingElements, Bounds
  <1>8. Waiting' = (Waiting \cup lost) \ {id}
    BY <1>6
  <1>9. lost \in SUBSET HeldIds
    OBVIOUS
  <1>10. /\ deliveries' = [deliveries EXCEPT ![id] = OneMore(@)]
         /\ UNCHANGED <<accepted, done, quarantined>>
    BY <1>1
  <1> HIDE DEF lost
  <1> QED BY <1>3, <1>4, <1>7, <1>8, <1>9, <1>10, GrantMaps

\* A claim that dies before it unlinks has taken the expired jobs, and the one
\* it was to hand out, from whoever held them; they all wait.
LEMMA TornClaimMaps ==
  ASSUME TypeOK, TypeOK', NEW p \in Procs, Apart(p), NEW lag \in Lags,
         TornClaim(p, lag)
  PROVE  Ledger!LedgerNext
  <1>1. PICK id \in Ids : /\ ClaimMoves(p, id, lag, {id})
                          /\ UNCHANGED <<done, quarantined, job, accepted, deliveries>>
    BY TornClaimEffect
  <1> DEFINE lost == HeldIds \cap (Expired(lag) \cup {id})
  <1>2. /\ id \in DOMAIN pending \cup Expired(lag)
        /\ Expired(lag) \subseteq DOMAIN processing
        /\ DOMAIN pending' = DOMAIN pending \cup Expired(lag)
        /\ DOMAIN processing' = (DOMAIN processing \ Expired(lag)) \cup {id}
    BY <1>1 DEF ClaimMoves
  <1>3. HeldBy(p) = NoJob /\ HeldBy(p)' = NoJob
    <2>1. job[p] = NoJob
      BY DEF TornClaim
    <2> QED BY <1>1, <2>1 DEF HeldBy
  <1>4. ASSUME NEW q \in Procs
        PROVE  HeldBy(q)' = IF HeldBy(q) \in lost THEN NoJob ELSE HeldBy(q)
    <2>1. CASE q = p
      BY <1>3, <2>1
    <2>2. CASE q # p
      <3>1. HeldBy(q)' = IF HeldBy(q) \in Expired(lag) \cup {id} THEN NoJob ELSE HeldBy(q)
        BY <1>1, <2>2, OthersAfterClaim
      <3>2. HeldBy(q) # NoJob => HeldBy(q) \in HeldIds
        BY HeldElements DEF Taken
      <3> QED BY <3>1, <3>2
    <2> QED BY <2>1, <2>2
  <1>5. ASSUME NEW x PROVE x # NoJob => (Taken(x)' <=> Taken(x) /\ x \notin lost)
    BY <1>4 DEF Taken
  <1>6. ASSUME NEW x PROVE x \in Waiting' <=> x \in Waiting \cup lost
    <2>1. x \in DOMAIN processing \cup {id} => x # NoJob
      BY Attempts, Bounds
    <2>2. x \in HeldIds <=> x # NoJob /\ Taken(x)
      BY HeldElements
    <2>3. x \in HeldIds => x \in DOMAIN processing
      BY HeldElements
    <2>4. x \in Waiting' <=> \/ x \in DOMAIN pending'
                             \/ x \in DOMAIN processing' /\ ~Taken(x)'
      BY WaitingElements DEF Waiting, Taken
    <2> QED BY <1>2, <1>5, <2>1, <2>2, <2>3, <2>4, WaitingElements
  <1>7. Waiting' = Waiting \cup lost
    BY <1>6
  <1>8. lost \in SUBSET HeldIds
    OBVIOUS
  <1>9. lost \in SUBSET lost
    OBVIOUS
  <1>10. UNCHANGED <<accepted, deliveries, done, quarantined>>
    BY <1>1
  <1> HIDE DEF lost
  <1> QED BY <1>4, <1>7, <1>8, <1>9, <1>10, ExpireMaps

-----------------------------------------------------------------------------
(* Reports and deaths: a process leaves the job it holds. *)

\* The record may be unlinked or, if the report is torn, stay.  The job waits
\* if it does stay, or if it was written to pending/.
LEMMA LeavingMaps ==
  ASSUME TypeOK, TypeOK', NEW p \in Procs, Apart(p), Owns(p), LetGo(p),
         DOMAIN pending' \in {DOMAIN pending, DOMAIN pending \cup {job[p]}},
         DOMAIN processing' \in {DOMAIN processing, DOMAIN processing \ {job[p]}},
         \A x \in DOMAIN processing' : processing'[x] = processing[x],
         NEW again \in BOOLEAN,
         again <=> job[p] \in DOMAIN pending' \cup DOMAIN processing'
  PROVE  HeldBy(p) = job[p] /\ Ledger!LeaveWaiting(p, again)
  <1>1. /\ HeldBy(p) = job[p]
        /\ job[p] # NoJob
        /\ job[p] \in DOMAIN processing
    BY HeldByFacts
  <1>2. HeldBy(p)' = NoJob
    <2>1. job'[p] = NoJob
      BY DEF LetGo, TypeOK
    <2> QED BY <2>1, HoldsNothing
  <1>3. ASSUME NEW q \in Procs \ {p} PROVE HeldBy(q)' = HeldBy(q)
    <2>1. job'[q] = job[q]
      BY DEF LetGo, TypeOK
    <2>2. CASE job[q] = job[p]
      <3>1. HeldBy(q) = NoJob
        BY <1>1, <2>2, HeldOnce, HeldByFacts
      <3>2. processing[job[p]].worker # WorkerId[q]
        BY <1>1, <2>2 DEF Owns, Apart
      <3>3. HeldBy(q)' = NoJob
        BY <2>1, <2>2, <3>2, HoldsNothing
      <3> QED BY <3>1, <3>3
    <2>3. CASE job[q] # job[p]
      BY <2>1, <2>3, HoldStays
    <2> QED BY <2>2, <2>3
  <1>4. ASSUME NEW x PROVE x # NoJob => (Taken(x)' <=> Taken(x) /\ x # job[p])
    <2>1. ASSUME x # NoJob, Taken(x)' PROVE Taken(x) /\ x # job[p]
      <3>1. PICK q \in Procs : HeldBy(q)' = x
        BY <2>1 DEF Taken
      <3>2. q # p /\ HeldBy(q) = x
        BY <1>2, <1>3, <2>1, <3>1
      <3>3. x # job[p]
        BY <1>1, <3>2, HeldOnce
      <3> QED BY <3>2, <3>3 DEF Taken
    <2>2. ASSUME x # NoJob, Taken(x), x # job[p] PROVE Taken(x)'
      <3>1. PICK q \in Procs : HeldBy(q) = x
        BY <2>2 DEF Taken
      <3> QED BY <1>1, <1>3, <2>2, <3>1 DEF Taken
    <2> QED BY <2>1, <2>2
  <1>5. Taken(job[p])
    BY <1>1 DEF Taken
  <1>6. ASSUME NEW x
        PROVE  x \in Waiting' <=> x \in IF again THEN Waiting \cup {HeldBy(p)} ELSE Waiting
    <2>1. x \in DOMAIN processing => x # NoJob
      BY Attempts, Bounds
    <2>2. x \in Waiting' <=> \/ x \in DOMAIN pending'
                             \/ x \in DOMAIN processing' /\ ~Taken(x)'
      BY WaitingElements DEF Waiting, Taken
    <2>3. x \in Waiting <=> \/ x \in DOMAIN pending
                            \/ x \in DOMAIN processing /\ ~Taken(x)
      BY WaitingElements
    <2>4. CASE x = job[p]
      <3>1. ~Taken(x)'
        BY <1>1, <1>4, <2>4
      <3>2. x \in Waiting' <=> again
        BY <2>2, <2>4, <3>1
      <3>3. again \/ x \notin Waiting
        BY <1>5, <2>3, <2>4
      <3> QED BY <1>1, <2>4, <3>2, <3>3
    <2>5. CASE x # job[p]
      <3>1. x \in Waiting' <=> x \in Waiting
        BY <1>4, <2>1, <2>2, <2>3, <2>5
      <3> QED BY <1>1, <2>5, <3>1
    <2> QED BY <2>4, <2>5
  <1>7. Waiting' = IF again THEN Waiting \cup {HeldBy(p)} ELSE Waiting
    BY <1>6
  <1> QED BY <1>1, <1>2, <1>3, <1>7, LeaveMaps

LEMMA CompleteMaps ==
  ASSUME TypeOK, TypeOK', NEW p \in Procs, Apart(p),
         Complete(p) \/ TornComplete(p)
  PROVE  Ledger!LedgerNext
  <1> DEFINE again == job[p] \in DOMAIN pending' \cup DOMAIN processing'
  <1>1. Owns(p) /\ LetGo(p) /\ done' = done \cup {job[p]} /\ pending' = pending
        /\ UNCHANGED <<accepted, deliveries, quarantined>>
    BY DEF Complete, TornComplete, LetGo
  <1>2. /\ DOMAIN processing' \in {DOMAIN processing, DOMAIN processing \ {job[p]}}
        /\ \A x \in DOMAIN processing' : processing'[x] = processing[x]
    BY UnlinkEffect DEF Complete, TornComplete
  <1>3. again \in BOOLEAN
    OBVIOUS
  <1>4. HeldBy(p) = job[p] /\ Ledger!LeaveWaiting(p, again)
    BY <1>1, <1>2, <1>3, LeavingMaps
  <1> HIDE DEF again
  <1>5. Ledger!Finish(p, again)
    BY <1>1, <1>4 DEF Ledger!Finish
  <1> QED BY <1>3, <1>5 DEF Ledger!LedgerNext

\* A failure that was not the last puts the job back; the last one ends it.
LEMMA FailMaps ==
  ASSUME TypeOK, TypeOK', NEW p \in Procs, Apart(p),
         NEW permanent \in BOOLEAN, NEW lag \in Lags,
         Fail(p, permanent, lag) \/ TornFail(p, permanent, lag)
  PROVE  Ledger!LedgerNext
  <1> DEFINE again == job[p] \in DOMAIN pending' \cup DOMAIN processing'
  <1>1. /\ Owns(p) /\ LetGo(p) /\ WriteFailure(p, permanent, lag)
        /\ UNCHANGED <<accepted, deliveries, done>>
    BY DEF Fail, TornFail, LetGo
  <1>2. /\ DOMAIN processing' \in {DOMAIN processing, DOMAIN processing \ {job[p]}}
        /\ \A x \in DOMAIN processing' : processing'[x] = processing[x]
    BY UnlinkEffect DEF Fail, TornFail
  <1>3. again \in BOOLEAN
    OBVIOUS
  <1>4. \/ /\ quarantined' = quarantined \cup {job[p]}
           /\ pending' = pending
        \/ /\ quarantined' = quarantined
           /\ DOMAIN pending' = DOMAIN pending \cup {job[p]}
    BY <1>1, WriteFailureEffect
  <1>5. HeldBy(p) = job[p] /\ Ledger!LeaveWaiting(p, again)
    BY <1>1, <1>2, <1>3, <1>4, LeavingMaps
  <1>6. CASE quarantined' = quarantined \cup {job[p]}
    <2> HIDE DEF again
    <2>1. Ledger!Abandon(p, again)
      BY <1>1, <1>5, <1>6 DEF Ledger!Abandon
    <2> QED BY <1>3, <2>1 DEF Ledger!LedgerNext
  <1>7. CASE quarantined' = quarantined /\ DOMAIN pending' = DOMAIN pending \cup {job[p]}
    <2>1. again = TRUE
      BY <1>7
    <2> HIDE DEF again
    <2>2. Ledger!GiveBack(p)
      BY <1>1, <1>5, <1>7, <2>1 DEF Ledger!GiveBack
    <2> QED BY <2>2 DEF Ledger!LedgerNext
  <1> QED BY <1>4, <1>6, <1>7

\* A process that dies, or is told its job is no longer its own: the record it
\* leaves behind waits for the end of its lease.
LEMMA LossMaps ==
  ASSUME TypeOK, TypeOK', NEW p \in Procs, Apart(p), Rejected(p) \/ Die(p)
  PROVE  Ledger!LedgerNext \/ UNCHANGED Ledger!ledgerVars
  <1>1. LetGo(p) /\ UNCHANGED files /\ UNCHANGED <<accepted, deliveries>>
    BY DEF Rejected, Die, LetGo
  <1>2. CASE Owns(p)
    <2>1. job[p] \in DOMAIN pending' \cup DOMAIN processing'
      BY <1>1, <1>2 DEF Owns, files
    <2>2. Ledger!LeaveWaiting(p, TRUE)
      BY <1>1, <1>2, <2>1, LeavingMaps DEF files
    <2>3. Ledger!GiveBack(p)
      BY <1>1, <2>2 DEF Ledger!GiveBack, files
    <2> QED BY <2>3 DEF Ledger!LedgerNext
  <1>3. CASE ~Owns(p)
    <2>1. ASSUME NEW q \in Procs PROVE HeldBy(q)' = HeldBy(q)
      <3>1. CASE q = p
        <4>1. job'[p] = NoJob
          BY <1>1 DEF LetGo, TypeOK
        <4> QED BY <1>3, <3>1, <4>1, HoldsNothing, HeldByFacts
      <3>2. CASE q # p
        <4>1. job'[q] = job[q]
          BY <1>1, <3>2 DEF LetGo, TypeOK
        <4> QED BY <1>1, <4>1, HoldStays DEF files
      <3> QED BY <3>1, <3>2
    <2> QED BY <1>1, <2>1, StutterMaps DEF files
  <1> QED BY <1>2, <1>3

\* A heartbeat and the passing of time change leases, not their holders.
LEMMA HeartbeatMaps ==
  ASSUME TypeOK, NEW p \in Procs, NEW lag \in Lags, Heartbeat(p, lag)
  PROVE  UNCHANGED Ledger!ledgerVars
  <1>1. \A q \in Procs : HeldBy(q)' = HeldBy(q)
    BY HeartbeatEffect, HoldStays DEF Heartbeat
  <1> QED BY <1>1, HeartbeatEffect, StutterMaps DEF Heartbeat

LEMMA TickMaps ==
  ASSUME TypeOK, Tick
  PROVE  UNCHANGED Ledger!ledgerVars
  <1>1. \A x \in DOMAIN processing : processing[x] \in ProcessingRecord
    BY DirectoryElements DEF TypeOK
  <1>2. \A x \in DOMAIN processing : processing'[x].worker = processing[x].worker
    BY <1>1 DEF Tick, ProcessingRecord
  <1>3. \A q \in Procs : HeldBy(q)' = HeldBy(q)
    BY <1>2, TickEffect, HoldStays DEF Tick
  <1> QED BY <1>3, TickEffect, StutterMaps DEF Tick

-----------------------------------------------------------------------------
LEMMA LedgerInitMaps == Init => Ledger!LedgerInit
  <1> SUFFICES ASSUME Init PROVE Ledger!LedgerInit
    OBVIOUS
  <1>1. \A p \in Procs : HeldBy(p) = NoJob
    BY DEF Init, HeldBy
  <1> QED BY <1>1 DEF Init, Ledger!LedgerInit, Ledger!Nothing, NoJob

\* The steps of a process that hand it a job or end its work on one.
ActsOnJob(p) ==
  \/ \E lag \in Lags : Claim(p, lag) \/ TornClaim(p, lag)
  \/ Complete(p) \/ TornComplete(p)
  \/ \E permanent \in BOOLEAN, lag \in Lags :
       Fail(p, permanent, lag) \/ TornFail(p, permanent, lag)
  \/ Rejected(p) \/ Die(p)

LEMMA ActsOnJobMaps ==
  ASSUME TypeOK, TypeOK', NEW p \in Procs, Apart(p), ActsOnJob(p)
  PROVE  [Ledger!LedgerNext]_(Ledger!ledgerVars)
  BY ClaimMaps, TornClaimMaps, CompleteMaps, FailMaps, LossMaps DEF ActsOnJob

\* The other steps.
ActsOnQueue ==
  \/ \E id \in Ids, lag \in Lags : Enqueue(id, lag)
  \/ RecoverExpired
  \/ \E lag \in Lags : TornRecover(lag)
  \/ \E p \in Procs, lag \in Lags : Heartbeat(p, lag)
  \/ Tick
  \/ UNCHANGED vars

LEMMA ActsOnQueueMaps ==
  ASSUME TypeOK, TypeOK', NoJobLost, ActsOnQueue
  PROVE  [Ledger!LedgerNext]_(Ledger!ledgerVars)
  <1>1. ASSUME RecoverExpired PROVE Ledger!LedgerNext
    <2>1. 0 \in Lags /\ Recovers(0, Expired(0), {})
      BY <1>1, RecoverExpiredEffect
    <2>2. UNCHANGED <<job, accepted, deliveries, done, quarantined>>
      BY <1>1 DEF RecoverExpired
    <2> QED BY <2>1, <2>2, RecoveryMaps
  <1>2. ASSUME NEW lag \in Lags, TornRecover(lag) PROVE Ledger!LedgerNext
    <2>1. PICK written, kept : Recovers(lag, written, kept)
      BY <1>2, TornRecoverEffect
    <2>2. UNCHANGED <<job, accepted, deliveries, done, quarantined>>
      BY <1>2 DEF TornRecover
    <2> QED BY <2>1, <2>2, RecoveryMaps
  <1>3. CASE UNCHANGED vars
    <2>1. \A q \in Procs : HeldBy(q)' = HeldBy(q)
      BY <1>3, HoldStays DEF vars, files
    <2> QED BY <1>3, <2>1, StutterMaps DEF vars, files
  <1> QED
    BY <1>1, <1>2, <1>3, EnqueueMaps, HeartbeatMaps, TickMaps DEF ActsOnQueue

\* The queue keeps the promises of the ledger, crashes included, if no two
\* processes were started with one worker id: the owner test (queue.py
\* _require_owner) compares nothing but ids.
THEOREM QueueImplementsLedger ==
  ASSUME DistinctNames
  PROVE  Spec => ImplementsLedger
  <1>1. Init => Ledger!LedgerInit
    BY LedgerInitMaps
  <1>2. TypeOK /\ TypeOK' /\ NoJobLost /\ [Next]_vars
          => [Ledger!LedgerNext]_(Ledger!ledgerVars)
    <2> SUFFICES ASSUME TypeOK, TypeOK', NoJobLost, [Next]_vars
                 PROVE  [Ledger!LedgerNext]_(Ledger!ledgerVars)
      OBVIOUS
    <2>1. \A p \in Procs : Apart(p)
      BY DEF Apart, DistinctNames
    <2>2. ActsOnQueue \/ \E p \in Procs : ActsOnJob(p)
      BY DEF Next, Operation, Crash, ActsOnQueue, ActsOnJob
    <2> QED BY <2>1, <2>2, ActsOnQueueMaps, ActsOnJobMaps
  <1> QED
    BY <1>1, <1>2, TypeCorrect, NothingLost, PTL DEF Spec, ImplementsLedger, Ledger!LedgerSpec
=============================================================================
