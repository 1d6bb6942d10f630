----------------------------- MODULE TraktOutbox -----------------------------
(***************************************************************************)
(* The outbox for Trakt (skeleton_media/cast/trakt_sync.py).  The player   *)
(* notes each saved place in a table with one row for each title; flush    *)
(* sends the rows that are due and deletes what Trakt has taken, unless a  *)
(* newer event has replaced it.                                            *)
(*                                                                         *)
(* The first change that flush makes begins a transaction, which holds the *)
(* database's write lock through the requests for the other rows.  flush   *)
(* may raise at each of them (the network, a lock it waited too long for)  *)
(* or be killed, and may overlap with another flush.                       *)
(***************************************************************************)
EXTENDS Naturals, Sequences, FiniteSets, FiniteSetsExt

CONSTANTS
  Media,        \* content keys of titles that can be identified
  Flushers,     \* calls of flush, in any order
  Nothing,      \* no row, no call, no holder
  BatchLimit,   \* the limit on the rows of one flush
  RetryBase,    \* the delay before the second attempt is twice this
  RetryCap,     \* the longest delay
  MaxSends,     \* bound: events the player notes
  MaxSecond     \* bound: ticks of the clock that stamps are taken from

OutboxRow == [event : Nat, stamp : Nat, attempts : Nat, due : Nat]

ASSUME OutboxAssumption ==
  /\ Nothing \notin Flushers \cup OutboxRow
  /\ BatchLimit \in Nat \ {0} /\ RetryBase \in Nat /\ RetryCap \in Nat
  /\ MaxSends \in Nat /\ MaxSecond \in Nat

VARIABLES
  outbox,    \* the committed table
  draft,     \* the table as the open transaction sees it
  locker,    \* whose transaction that is
  noting,    \* the call of enqueue_progress: its title and its stamp
  flush,     \* of each call: step, rows still to do, the answer to the first, its clock
  accepted,  \* of each title: the stamps of the events that were noted, in order
  arrived,   \* of each title: the events that Trakt has taken
  second     \* the clock

outboxVars == <<outbox, draft, locker, noting, flush, accepted, arrived, second>>

Titled == {m \in Media : outbox[m] # Nothing}
Empty == [m \in Media |-> Nothing]
Idle == [at |-> "idle", todo |-> <<>>, taken |-> FALSE, clock |-> 0]

TInit ==
  /\ outbox = Empty
  /\ draft = Empty
  /\ locker = Nothing
  /\ noting = Nothing
  /\ flush = [f \in Flushers |-> Idle]
  /\ accepted = [m \in Media |-> <<>>]
  /\ arrived = [m \in Media |-> {}]
  /\ second = 0

(* ----------------------------- The player ------------------------------ *)
\* The playback lock lets in one call at a time.  It takes its stamp first.
BeginNote(m) ==
  /\ noting = Nothing
  /\ MapThenSumSet(LAMBDA n : Len(accepted[n]), Media) < MaxSends
  /\ noting' = [of |-> m, stamp |-> second]
  /\ UNCHANGED <<outbox, draft, locker, flush, accepted, arrived, second>>

\* The row of the title is replaced, its retries begin anew.
NoteEvent ==
  /\ noting # Nothing /\ locker = Nothing
  /\ LET m == noting.of IN
       /\ accepted' = [accepted EXCEPT ![m] = Append(@, noting.stamp)]
       /\ outbox' = [outbox EXCEPT ![m] =
            [event |-> Len(accepted[m]) + 1, stamp |-> noting.stamp, attempts |-> 0, due |-> 0]]
  /\ noting' = Nothing
  /\ UNCHANGED <<draft, locker, flush, arrived, second>>

\* A flush has held the lock for the eight seconds of the timeout: "database is
\* locked", and the player goes on without.  Or the player is killed.
GiveUpNote ==
  /\ noting # Nothing
  /\ noting' = Nothing
  /\ UNCHANGED <<outbox, draft, locker, flush, accepted, arrived, second>>

(* -------------------------------- flush -------------------------------- *)
\* The oldest rows that are due, in the order of their stamps.
IsBatch(rows) ==
  LET due == {m \in Titled : outbox[m].due <= second}
      chosen == {rows[n].of : n \in DOMAIN rows} IN
    /\ chosen \subseteq due /\ Cardinality(chosen) = Len(rows)
    /\ chosen = due \/ Len(rows) = BatchLimit
    /\ \A n \in DOMAIN rows : rows[n].row = outbox[rows[n].of]
    /\ \A n, k \in DOMAIN rows : n < k => rows[n].row.stamp <= rows[k].row.stamp
    /\ \A m \in due \ chosen, n \in DOMAIN rows : rows[n].row.stamp <= outbox[m].stamp

OutboxRows == {[of |-> m, row |-> outbox[m]] : m \in Titled}

BeginFlush(f) ==
  /\ flush[f].at = "idle"
  /\ \E size \in 1..BatchLimit : \E rows \in [1..size -> OutboxRows] :
       /\ IsBatch(rows)
       /\ flush' = [flush EXCEPT ![f] =
            [at |-> "post", todo |-> rows, taken |-> FALSE, clock |-> second]]
  /\ UNCHANGED <<outbox, draft, locker, noting, accepted, arrived, second>>

\* _post: Trakt takes the event, or answers with an error.
Post(f) ==
  /\ flush[f].at = "post"
  /\ LET x == Head(flush[f].todo) IN
     \E taken \in BOOLEAN :
       /\ flush' = [flush EXCEPT ![f].at = "record", ![f].taken = taken]
       /\ arrived' = [arrived EXCEPT ![x.of] = IF taken THEN @ \cup {x.row.event} ELSE @]
  /\ UNCHANGED <<outbox, draft, locker, noting, accepted, second>>

\* Mutant of Deleted: the row goes whatever it is by now.
DeletedAnyway(table, x) == [table EXCEPT ![x.of] = Nothing]

\* delete ... where content_key=? and updated_at=?
Deleted(table, x) ==
  [table EXCEPT ![x.of] =
    IF @ # Nothing /\ table[x.of].stamp = x.row.stamp THEN Nothing ELSE @]

Smaller(a, b) == IF a < b THEN a ELSE b
RetryDelay(n) == Smaller(RetryCap, RetryBase * <<2, 4, 8, 16, 32, 64>>[Smaller(n, 6)])

\* update ... where content_key=?: it may be a newer event that now waits.
Postponed(table, x, now) ==
  [table EXCEPT ![x.of] =
    IF @ = Nothing THEN @
    ELSE [@ EXCEPT !.attempts = x.row.attempts + 1,
                   !.due = now + RetryDelay(x.row.attempts + 1)]]

\* What the transaction of f sees, or would see if it began now.
Sees(f) == IF locker = f THEN draft ELSE outbox

\* The answer is written down, in the transaction that it begins or goes on
\* with.  After 401 or 403 no other row is tried.
Record(f) ==
  /\ flush[f].at = "record" /\ locker \in {Nothing, f}
  /\ LET x == Head(flush[f].todo)
         rest == Tail(flush[f].todo) IN
       /\ draft' = IF flush[f].taken THEN Deleted(Sees(f), x)
                   ELSE Postponed(Sees(f), x, flush[f].clock)
       /\ locker' = f
       /\ \E barred \in BOOLEAN :
            /\ barred => ~flush[f].taken
            /\ flush' = [flush EXCEPT ![f].at = IF rest = <<>> \/ barred THEN "commit" ELSE "post",
                                      ![f].todo = rest, ![f].taken = FALSE]
  /\ UNCHANGED <<outbox, noting, accepted, arrived, second>>

Commit(f) ==
  /\ flush[f].at = "commit"
  /\ outbox' = draft /\ draft' = Empty /\ locker' = Nothing
  /\ flush' = [flush EXCEPT ![f] = Idle]
  /\ UNCHANGED <<noting, accepted, arrived, second>>

\* An exception or a kill: the transaction is rolled back.
BreakOff(f) ==
  /\ flush[f].at # "idle"
  /\ IF locker = f THEN locker' = Nothing /\ draft' = Empty ELSE UNCHANGED <<locker, draft>>
  /\ flush' = [flush EXCEPT ![f] = Idle]
  /\ UNCHANGED <<outbox, noting, accepted, arrived, second>>

SecondPasses ==
  /\ second < MaxSecond
  /\ second' = second + 1
  /\ UNCHANGED <<outbox, draft, locker, noting, flush, accepted, arrived>>

TNext ==
  \/ \E m \in Media : BeginNote(m)
  \/ NoteEvent \/ GiveUpNote \/ SecondPasses
  \/ \E f \in Flushers : BeginFlush(f) \/ Post(f) \/ Record(f) \/ Commit(f) \/ BreakOff(f)

BatchItem == [of : Media, row : OutboxRow]

FlushCall ==
  [at : {"idle", "post", "record", "commit"}, todo : Seq(BatchItem), taken : BOOLEAN, clock : Nat]

OutboxTable == [Media -> OutboxRow \cup {Nothing}]

OutboxTypeOK ==
  /\ outbox \in OutboxTable /\ draft \in OutboxTable
  /\ locker \in Flushers \cup {Nothing}
  /\ noting # Nothing => noting.of \in Media /\ noting.stamp \in Nat /\ noting.stamp <= second
  /\ flush \in [Flushers -> FlushCall]
  /\ accepted \in [Media -> Seq(Nat)]
  /\ arrived \in [Media -> SUBSET Nat]
  /\ second \in Nat

\* The newest event of a title has the stamp, in whole seconds, of the one
\* before it.
Undated(m) ==
  LET n == Len(accepted[m]) IN n > 1 /\ accepted[m][n] = accepted[m][n - 1]

\* What the player noted last about a title, "watched to the end" above all, is
\* waiting in the outbox or has been taken by Trakt, through flushes that
\* overlap with it and with one another, break off or are killed: a late
\* deletion of what was sent (flush) does not take along what has come since
\* (enqueue_progress).  Except for an event within the same second as the one
\* before it: the deletion tells them apart by updated_at alone, and
\* such an event may be lost.
NewestReachesTrakt ==
  \A m \in Media :
    LET n == Len(accepted[m]) IN
      \/ n = 0 \/ Undated(m) \/ n \in arrived[m]
      \/ outbox[m] # Nothing /\ outbox[m].event = n
=============================================================================
