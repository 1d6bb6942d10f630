------------------------------ MODULE JobLedger ------------------------------
(***************************************************************************)
(* What the job queue promises its users, without files, locks, clocks and *)
(* leases: the abstract specification that FileQueue implements and that   *)
(* VideoPipeline is built on.                                              *)
(*                                                                         *)
(* Delivery is at least once.  A job that was accepted waits, is held by a *)
(* worker, or has an end; a worker holds a job only by a grant, and only   *)
(* the worker that holds it can end it or give it back; a grant takes the  *)
(* job from whoever held it before.  A crash can leave a job waiting that  *)
(* has an end already, or that is still held, but never one that is in no  *)
(* place at all.                                                           *)
(***************************************************************************)
EXTENDS Integers

CONSTANTS
  Jobs,     \* positive numbers
  Workers,
  MaxTries  \* bound: grants of a job are not counted beyond MaxTries + 1

VARIABLES
  accepted,   \* jobs that were submitted
  waiting,    \* jobs that may be granted
  holds,      \* the job each worker is entitled to, or Nothing
  tries,      \* how often each job was granted, counted up to MaxTries + 1
  finished,   \* jobs that were completed
  abandoned   \* jobs that were given up

ledgerVars == <<accepted, waiting, holds, tries, finished, abandoned>>

Nothing == 0

Held == {holds[w] : w \in Workers} \ {Nothing}

LedgerInit ==
  /\ accepted = {}
  /\ waiting = {}
  /\ holds = [w \in Workers |-> Nothing]
  /\ tries = [j \in Jobs |-> 0]
  /\ finished = {}
  /\ abandoned = {}

Submit(j) ==
  /\ j \notin accepted
  /\ accepted' = accepted \cup {j}
  /\ waiting' = waiting \cup {j}
  /\ UNCHANGED <<holds, tries, finished, abandoned>>

\* Whoever holds one of these jobs does so no longer.
Released(jobs) ==
  [w \in Workers |-> IF holds[w] \in jobs THEN Nothing ELSE holds[w]]

\* Held jobs go back to waiting; when the recovery itself is cut short, the
\* worker of some may still be taken for their holder.
Expire(lost, released) ==
  /\ lost \subseteq Held
  /\ released \subseteq lost
  /\ waiting' = waiting \cup lost
  /\ holds' = Released(released)
  /\ UNCHANGED <<accepted, tries, finished, abandoned>>

\* A worker gets a waiting job, maybe one that is taken from its holder now.
Grant(w, j, lost) ==
  /\ holds[w] = Nothing
  /\ lost \subseteq Held
  /\ j \in waiting \cup lost
  /\ waiting' = (waiting \cup lost) \ {j}
  /\ holds' = [Released(lost \cup {j}) EXCEPT ![w] = j]
  /\ tries' = [tries EXCEPT ![j] = IF @ <= MaxTries THEN @ + 1 ELSE @]
  /\ UNCHANGED <<accepted, finished, abandoned>>

\* The worker ends its job.  If it dies at the wrong moment, the job will be
\* granted again although it has an end.
LeaveWaiting(w, again) ==
  /\ holds[w] # Nothing
  /\ holds' = [holds EXCEPT ![w] = Nothing]
  /\ waiting' = IF again THEN waiting \cup {holds[w]} ELSE waiting

Finish(w, again) ==
  /\ LeaveWaiting(w, again)
  /\ finished' = finished \cup {holds[w]}
  /\ UNCHANGED <<accepted, tries, abandoned>>

Abandon(w, again) ==
  /\ LeaveWaiting(w, again)
  /\ abandoned' = abandoned \cup {holds[w]}
  /\ UNCHANGED <<accepted, tries, finished>>

\* A failure after which the job will be tried again.  How often that may
\* happen is the user's business: an expiry looks the same from here.
GiveBack(w) ==
  /\ LeaveWaiting(w, TRUE)
  /\ UNCHANGED <<accepted, tries, finished, abandoned>>

LedgerNext ==
  \/ \E j \in Jobs : Submit(j)
  \/ \E lost \in SUBSET Held : \E released \in SUBSET lost : Expire(lost, released)
  \/ \E w \in Workers, lost \in SUBSET Held :
       \E j \in waiting \cup lost : Grant(w, j, lost)
  \/ \E w \in Workers, again \in BOOLEAN : Finish(w, again) \/ Abandon(w, again)
  \/ \E w \in Workers : GiveBack(w)

LedgerSpec == LedgerInit /\ [][LedgerNext]_ledgerVars
=============================================================================
