--------------------------- MODULE EndpointHistory ---------------------------
(***************************************************************************)
(* The watch history file of all endpoints and its cache in the web        *)
(* process (ops/skeleton_cast/runtime/app.py; the player's own writer is   *)
(* in skeleton_media/cast/player.py).                                      *)
(*                                                                         *)
(* Requests read the history without a lock, through a cache keyed by the  *)
(* signature (inode, time, size) of the file.  Requests that change it     *)
(* hold the history lock from load to save.  The player's monitor takes    *)
(* the same lock, but for each of its load and its write alone.  Another   *)
(* process may replace the file at any time.                               *)
(*                                                                         *)
(* The file's items are stamps: which write an item is from, 0 for none.   *)
(***************************************************************************)
EXTENDS Naturals

CONSTANTS
  Items,      \* keys of history items
  Requests,   \* request threads of the web process
  NoHolder,   \* nobody holds the lock
  KeyOf,      \* the item each request, and the monitor, is about
  MaxWrites   \* bound: how often the file is written

ASSUME HistoryAssumption ==
  /\ NoHolder \notin Requests /\ "monitor" \notin Requests
  /\ MaxWrites \in Nat

VARIABLES
  hfile,    \* the file: its signature and its items
  cache,    \* the cache: a signature (0: none) and the items bound to it
  hlock,    \* who holds the history lock
  hpc,      \* where each thread is
  hwork,    \* what each request is to do: "read", "put" or "drop"
  hsign,    \* the signature it has read
  hcopy,    \* the items it has
  hseen,    \* the contents the file has had since the operation began
  hput      \* the stamps that are from requests

historyVars ==
  <<hfile, cache, hlock, hpc, hwork, hsign, hcopy, hseen, hput>>

Saver == "monitor"
Writers == Requests \cup {Saver}
Nothing == [k \in Items |-> 0]
NoCache == [sign |-> 0, items |-> Nothing]

HInit ==
  /\ hfile = [sign |-> 1, items |-> Nothing]
  /\ cache = NoCache
  /\ hlock = NoHolder
  /\ hpc = [t \in Writers |-> "rest"]
  /\ hwork = [t \in Writers |-> "read"]
  /\ hsign = [t \in Writers |-> 0]
  /\ hcopy = [t \in Writers |-> Nothing]
  /\ hseen = [t \in Requests |-> {}]
  /\ hput = {}

HGoto(t, phase) == hpc' = [hpc EXCEPT ![t] = phase]

\* The operation is over and its local values are gone.
Finish(t) ==
  /\ HGoto(t, "rest")
  /\ hcopy' = [hcopy EXCEPT ![t] = Nothing]
  /\ hsign' = [hsign EXCEPT ![t] = 0]
  /\ hwork' = [hwork EXCEPT ![t] = "read"]

\* The file is replaced: a new signature, and a content everyone can see.
Replace(items) ==
  /\ hfile.sign <= MaxWrites
  /\ hfile' = [sign |-> hfile.sign + 1, items |-> items]
  /\ hseen' = [t \in Requests |->
                 IF hpc'[t] \in {"rest", "wrote"} THEN {} ELSE hseen[t] \cup {items}]

\* Mutant of Begin.
BeginUnlocked(t) ==
  /\ hpc[t] = "rest"
  /\ \E work \in {"read", "put", "drop"} :
       hwork' = [hwork EXCEPT ![t] = work]
  /\ hseen' = [hseen EXCEPT ![t] = {hfile.items}]
  /\ HGoto(t, "sign")
  /\ UNCHANGED <<hfile, cache, hlock, hsign, hcopy, hput>>

\* A request; one that changes the history takes the lock first.
Begin(t) ==
  /\ hpc[t] = "rest"
  /\ \E work \in {"read", "put", "drop"} :
       /\ hwork' = [hwork EXCEPT ![t] = work]
       /\ \/ work = "read" /\ UNCHANGED hlock
          \/ work # "read" /\ hlock = NoHolder /\ hlock' = t
  /\ hseen' = [hseen EXCEPT ![t] = {hfile.items}]
  /\ HGoto(t, "sign")
  /\ UNCHANGED <<hfile, cache, hsign, hcopy, hput>>

Sign(t) ==
  /\ hpc[t] = "sign"
  /\ hsign' = [hsign EXCEPT ![t] = hfile.sign]
  /\ HGoto(t, "get")
  /\ UNCHANGED <<hfile, cache, hlock, hwork, hcopy, hseen, hput>>

\* _endpoint_history_cache_get
Get(t) ==
  /\ hpc[t] = "get"
  /\ IF cache.sign = hsign[t]
     THEN hcopy' = [hcopy EXCEPT ![t] = cache.items] /\ HGoto(t, "have")
     ELSE UNCHANGED hcopy /\ HGoto(t, "load")
  /\ UNCHANGED <<hfile, cache, hlock, hwork, hsign, hseen, hput>>

\* The loader of the player takes the history lock for the read.
LoadFile(t) ==
  /\ hpc[t] = "load" /\ hlock \in {NoHolder, t}
  /\ hcopy' = [hcopy EXCEPT ![t] = hfile.items]
  /\ HGoto(t, "check")
  /\ UNCHANGED <<hfile, cache, hlock, hwork, hsign, hseen, hput>>

\* Mutant of CheckSign.
CheckSignAfresh(t) ==
  /\ hpc[t] = "check"
  /\ hsign' = [hsign EXCEPT ![t] = hfile.sign]
  /\ cache' = cache
  /\ HGoto(t, "bind")
  /\ UNCHANGED <<hfile, hlock, hwork, hcopy, hseen, hput>>

\* What was loaded is bound to the signature only if that is still the file's.
CheckSign(t) ==
  /\ hpc[t] = "check"
  /\ IF hfile.sign = hsign[t]
     THEN HGoto(t, "bind") /\ UNCHANGED cache
     ELSE HGoto(t, "have") /\ cache' = NoCache
  /\ UNCHANGED <<hfile, hlock, hwork, hsign, hcopy, hseen, hput>>

\* _endpoint_history_cache_set
Bind(t) ==
  /\ hpc[t] = "bind"
  /\ cache' = [sign |-> hsign[t], items |-> hcopy[t]]
  /\ HGoto(t, "have")
  /\ UNCHANGED <<hfile, hlock, hwork, hsign, hcopy, hseen, hput>>

\* A reader answers; its copy is its own.
Answer(t) ==
  /\ hpc[t] = "have" /\ hwork[t] = "read"
  /\ Finish(t)
  /\ hseen' = [hseen EXCEPT ![t] = {}]
  /\ UNCHANGED <<hfile, cache, hlock, hput>>

\* _record_history_progress and _history_delete: the item is set or removed,
\* and the whole store written, between two clearings of the cache.
Write(t) ==
  /\ hpc[t] = "have" /\ hwork[t] # "read"
  /\ HGoto(t, "wrote")
  /\ Replace([hcopy[t] EXCEPT ![KeyOf[t]] =
                IF hwork[t] = "put" THEN hfile.sign ELSE 0])
  /\ cache' = NoCache
  /\ hput' = IF hwork[t] = "put" THEN hput \cup {hfile.sign} ELSE hput
  /\ UNCHANGED <<hlock, hwork, hsign, hcopy>>

Wrote(t) ==
  /\ hpc[t] = "wrote"
  /\ cache' = NoCache
  /\ hlock' = IF hlock = t THEN NoHolder ELSE hlock
  /\ Finish(t)
  /\ UNCHANGED <<hfile, hseen, hput>>

\* _save_progress_snapshot of the player: a locked read ...
SnapshotRead ==
  /\ hpc[Saver] = "rest" /\ hlock = NoHolder
  /\ hcopy' = [hcopy EXCEPT ![Saver] = hfile.items]
  /\ HGoto(Saver, "have")
  /\ UNCHANGED <<hfile, cache, hlock, hwork, hsign, hseen, hput>>

\* ... and a locked write, with nothing held in between.
SnapshotWrite ==
  /\ hpc[Saver] = "have" /\ hlock = NoHolder
  /\ Finish(Saver)
  /\ Replace([hcopy[Saver] EXCEPT ![KeyOf[Saver]] = hfile.sign])
  /\ UNCHANGED <<cache, hlock, hput>>

\* Another process replaces the file, with an item of its own.
Outside ==
  /\ UNCHANGED <<cache, hlock, hpc, hwork, hsign, hcopy, hput>>
  /\ \E k \in Items : Replace([hfile.items EXCEPT ![k] = hfile.sign])

HNext ==
  \/ \E t \in Requests : \/ Begin(t) \/ Sign(t) \/ Get(t) \/ LoadFile(t)
                         \/ CheckSign(t) \/ Bind(t) \/ Answer(t) \/ Write(t)
                         \/ Wrote(t)
  \/ SnapshotRead \/ SnapshotWrite \/ Outside

HTypeOK ==
  /\ hfile \in [sign: 1..(MaxWrites + 1), items: [Items -> 0..MaxWrites]]
  /\ cache \in [sign: 0..(MaxWrites + 1), items: [Items -> 0..MaxWrites]]
  /\ hlock \in {NoHolder} \cup {t \in Requests : hpc[t] # "rest"}
  /\ hpc \in [Writers -> {"rest", "sign", "get", "load", "check", "bind", "have",
                          "wrote"}]
  /\ hcopy \in [Writers -> [Items -> 0..MaxWrites]]

\* What a request reads of the history is what the file held at some moment of
\* that request, whatever other threads bind to the cache and other processes
\* write meanwhile ("Never bind old contents to the replacement file's
\* signature", app.py).
ReadIsCurrent ==
  \A t \in Requests : hpc[t] = "have" => hcopy[t] \in hseen[t]

\* A request that records progress or deletes an item undoes no other request's
\* record.  (The player's monitor and other processes are not held off.)
RequestWritesKept ==
  [][\A t \in Requests :
       hpc[t] = "have" /\ hpc'[t] = "wrote"
       => \A k \in Items \ {KeyOf[t]} :
            hfile.items[k] \in hput => hfile'.items[k] = hfile.items[k]]_historyVars
=============================================================================
