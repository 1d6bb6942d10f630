--------------------------- MODULE ReleaseMonitor ---------------------------
(***************************************************************************)
(* The monitor of new episodes (skeleton_media/cast/                       *)
(* media_release_monitor.py): one row of its table, for one series, and    *)
(* the calls that read and write it.  A tick reads the row, looks at the   *)
(* catalogue and at the sources, claims the alert for its occurrence and   *)
(* hands it out; the sender acknowledges it or gives the claim back.       *)
(* Every statement is a transaction of its own; a tick's conclusions are   *)
(* drawn from the row as it was read.  Ticks may overlap.                  *)
(*                                                                         *)
(* Episodes are numbered in the order of _release_tuple, 0 is none.        *)
(***************************************************************************)
EXTENDS Naturals, FiniteSets

CONSTANTS
  Occurrences,  \* calls of tick, in any order
  None,         \* no occurrence
  MaxEpisode    \* bound: episodes that come out

ASSUME MonitorAssumption == None \notin Occurrences /\ MaxEpisode \in Nat

VARIABLES
  monitor,  \* the row
  aired,    \* the newest episode of the catalogue
  dubbed,   \* the newest episode there is a localized source of
  tick,     \* of each occurrence: step, the row it has read, what it found
  alerts,   \* of each episode: how many alerts have been handed out
  freed,    \* of each episode: how many claims have been given back
  racing    \* two ticks, or a tick and an acknowledgement, have overlapped

monitorVars == <<monitor, aired, dubbed, tick, alerts, freed, racing>>

Episodes == 0..MaxEpisode
NoRow == [enabled |-> FALSE, baseline |-> 0, pending |-> 0, notified |-> 0,
          claim |-> None, state |-> "OFF"]

RInit ==
  /\ monitor = NoRow
  /\ aired \in Episodes
  /\ dubbed = 0
  /\ tick = [o \in Occurrences |-> [at |-> "due", row |-> NoRow, found |-> 0]]
  /\ alerts = [e \in Episodes |-> 0]
  /\ freed = [e \in Episodes |-> 0]
  /\ racing = FALSE

Working(o) == tick[o].at \notin {"due", "alerted", "done"}
Turns(o, at) == tick' = [tick EXCEPT ![o].at = at, ![o].row = NoRow]
World == UNCHANGED <<aired, dubbed>>
Told == UNCHANGED <<alerts, freed>>

(* ------------------------------ The user ------------------------------- *)
\* set_for_job, enabled: the first time, the catalogue's newest episode (or
\* the newest one among the job's sources) is where the watch begins.  A job
\* without a full source waits for that episode itself.
TurnOn(full) ==
  \E known \in {aired, 0} :
    LET base == IF monitor.baseline = 0 THEN known ELSE monitor.baseline
        wait == ~full /\ monitor.pending = 0 /\ base # 0 IN
      monitor' = [monitor EXCEPT
        !.enabled = TRUE, !.baseline = base,
        !.pending = IF wait THEN base ELSE @,
        !.state = IF wait THEN "WAITING_FOR_TRANSLATION"
                  ELSE IF monitor.pending # 0 THEN @ ELSE "MONITORED"]

\* set_for_job, disabled: what is pending stays.
TurnOff == monitor' = [monitor EXCEPT !.enabled = FALSE, !.state = "OFF"]

\* ensure_auto_for_job never turns the watch on; it only lets one that is on
\* wait for the series' first source.
EnsureAuto(full) == monitor.enabled /\ ~full /\ monitor.pending = 0 /\ TurnOn(full)

SetForJob ==
  /\ \E full \in BOOLEAN : TurnOn(full) \/ EnsureAuto(full)
     \/ TurnOff
  /\ racing' = (racing \/ \E o \in Occurrences : Working(o))
  /\ UNCHANGED <<tick>> /\ World /\ Told

(* ------------------------------- A tick -------------------------------- *)
\* The row is read; a monitor that is off ends it.
BeginTick(o) ==
  /\ tick[o].at = "due"
  /\ tick' = [tick EXCEPT ![o] =
       [at |-> IF monitor.enabled THEN "catalogue" ELSE "done", row |-> monitor, found |-> 0]]
  /\ racing' = (racing \/ \E p \in Occurrences : Working(p))
  /\ UNCHANGED monitor /\ World /\ Told

\* tmdb_release_snapshot: what the catalogue says by the row as it was read.
\* It may also fail, be too recent to be asked again, or list no episode.
News(row) ==
  IF row.baseline = 0 THEN [row EXCEPT !.baseline = aired, !.state = "MONITORED"]
  ELSE IF row.pending = 0 /\ aired > row.baseline /\ aired # row.notified
    THEN [row EXCEPT !.pending = aired, !.state = "WAITING_FOR_TRANSLATION"]
  ELSE row

\* Only the columns that changed are written, and the row is read again.
Catalogue(o) ==
  /\ tick[o].at = "catalogue"
  /\ LET old == tick[o].row IN
     \E new \in {old, News(old)} :
       LET row == [monitor EXCEPT
             !.baseline = IF new.baseline # old.baseline THEN new.baseline ELSE @,
             !.pending = IF new.pending # old.pending THEN new.pending ELSE @,
             !.state = IF new # old THEN new.state ELSE @] IN
         /\ monitor' = row
         /\ tick' = [tick EXCEPT ![o] =
              [at |-> IF row.pending = 0 THEN "done" ELSE "probe", row |-> NoRow, found |-> row.pending]]
  /\ UNCHANGED racing /\ World /\ Told

\* localization_probe, for the release pending when the row was read.
Probe(o) ==
  /\ tick[o].at = "probe"
  /\ \E seen \in BOOLEAN :
       /\ seen => tick[o].found <= dubbed
       /\ Turns(o, IF seen THEN "found" ELSE "done")
  /\ UNCHANGED <<monitor, racing>> /\ World /\ Told

\* Mutant of Unclaimed: an alert is only taken back once it is acknowledged.
UnclaimedOrNot(row, e) == row.notified # e

\* The alert is neither acknowledged nor claimed.
Unclaimed(row, e) == row.notified # e /\ row.claim = None

\* The row is read once more.
CheckClaim(o) ==
  /\ tick[o].at = "found"
  /\ Turns(o, IF Unclaimed(monitor, tick[o].found) THEN "claim" ELSE "done")
  /\ UNCHANGED <<monitor, racing>> /\ World /\ Told

\* The claim is written whatever the row says by now, and the alert handed out.
Claim(o) ==
  /\ tick[o].at = "claim"
  /\ monitor' = [monitor EXCEPT !.claim = o, !.state = "LOCALIZATION_AVAILABLE"]
  /\ alerts' = [alerts EXCEPT ![tick[o].found] = @ + 1]
  /\ Turns(o, "alerted")
  /\ UNCHANGED <<freed, racing>> /\ World

(* ----------------------------- The sender ------------------------------ *)
\* ack: only for the pending release and its claim; it becomes the baseline.
Ack(o) ==
  /\ tick[o].at = "alerted"
  /\ IF monitor.pending = tick[o].found /\ monitor.claim = o
       THEN monitor' = [monitor EXCEPT !.notified = tick[o].found, !.baseline = tick[o].found,
                          !.pending = 0, !.state = "NOTIFIED", !.claim = None]
       ELSE UNCHANGED monitor   \* ALERT_ACK_MISMATCH
  /\ racing' = (racing \/ \E p \in Occurrences : Working(p))
  /\ Turns(o, "done") /\ World /\ Told

\* release_claim: the message could not be sent; only one's own claim.
ReleaseClaim(o) ==
  /\ tick[o].at = "alerted"
  /\ IF monitor.claim = o
       THEN /\ monitor' = [monitor EXCEPT !.claim = None,
                 !.state = IF monitor.pending # 0 THEN "WAITING_FOR_TRANSLATION" ELSE @]
            /\ freed' = [freed EXCEPT ![tick[o].found] = @ + 1]
       ELSE UNCHANGED <<monitor, freed>>
  /\ Turns(o, "done")
  /\ UNCHANGED <<alerts, racing>> /\ World

\* An episode comes out, or gets a localized source.
EpisodeAirs ==
  /\ aired < MaxEpisode /\ aired' = aired + 1
  /\ UNCHANGED <<monitor, dubbed, tick, racing>> /\ Told

EpisodeDubbed ==
  /\ dubbed < aired /\ dubbed' = dubbed + 1
  /\ UNCHANGED <<monitor, aired, tick, racing>> /\ Told

RNext ==
  \/ SetForJob \/ EpisodeAirs \/ EpisodeDubbed
  \/ \E o \in Occurrences :
       \/ BeginTick(o) \/ Catalogue(o) \/ Probe(o) \/ CheckClaim(o) \/ Claim(o)
       \/ Ack(o) \/ ReleaseClaim(o)

MonitorTypeOK ==
  /\ {monitor.baseline, monitor.pending, monitor.notified} \subseteq Episodes
  /\ monitor.claim \in Occurrences \cup {None}
  /\ \A o \in Occurrences : tick[o].found \in Episodes

\* As long as no calls overlap, an episode is announced once, and again only
\* for each claim that was given back; the watch never goes back behind what has
\* been acknowledged.  (Overlapping ticks do announce twice: the claim is read
\* before it is written.)
AnnouncedOnce ==
  ~racing => \A e \in Episodes \ {0} :
    /\ alerts[e] <= 1 + freed[e]
    /\ monitor.notified = e => monitor.baseline >= e
=============================================================================
