---------------------------- MODULE ArtifactStore ----------------------------
(***************************************************************************)
(* The private artifact store of the video-understanding service           *)
(* (skeleton_media/video_understanding/artifact_store.py, manifest.py).    *)
(*                                                                         *)
(* An execution collects its files in a workspace of its own below         *)
(* .staging/.  finalize takes their inventory, writes the manifest beside  *)
(* them, and renames the whole workspace to the target directory of the    *)
(* record, unless something is there already.  Only then does it read the  *)
(* target back, against the manifest, and make it read-only.  Nothing is   *)
(* locked: an action is what finalize does between two points where        *)
(* another process, or a crash, can come in between.                       *)
(*                                                                         *)
(* The content of an artifact is the hash of its manifest; intact says     *)
(* whether the files under the target are exactly the ones the manifest    *)
(* lists.                                                                  *)
(***************************************************************************)
CONSTANTS
  Savers,   \* processes that may finalize
  Targets,  \* target directories: record id and processing revision
  Hashes    \* manifest hashes

VARIABLES
  store,    \* what each target directory holds
  saving,   \* the workspace of each process, and where its finalize is
  verified  \* history: targets that have been read back successfully

storeVars == <<store, saving, verified>>

Absent == [hash |-> "none", intact |-> FALSE, sealed |-> FALSE]
Artifacts == [hash : Hashes, intact : BOOLEAN, sealed : BOOLEAN]

\* What a promotion leaves at the target, and what sealing makes of it.
Fresh(hash, intact) == [hash |-> hash, intact |-> intact, sealed |-> FALSE]

NoWorkspace == [stage |-> "none"]
Workspaces ==
  [stage : {"staged", "clear", "promoted", "verified", "finalized"},
   target : Targets, hash : Hashes]

StoreInit ==
  /\ store = [t \in Targets |-> Absent]
  /\ saving = [s \in Savers |-> NoWorkspace]
  /\ verified = {}

\* At a stage, and then at the next one.
At(s, stage) == saving[s].stage = stage
Advance(s, stage) == saving' = [saving EXCEPT ![s].stage = stage]

\* The workspace is left: finalize has raised, its caller has returned, or the
\* process is dead (the directory then stays, but nobody reads it).
Leave(s) == saving' = [saving EXCEPT ![s] = NoWorkspace]

Present(s) == store[saving[s].target] # Absent
SameHash(s) == store[saving[s].target].hash = saving[s].hash
Intact(s) == store[saving[s].target].intact

-----------------------------------------------------------------------------
\* The inventory is taken and the manifest written and synced.
Stage(s, target, hash) ==
  /\ saving[s] = NoWorkspace
  /\ saving' = [saving EXCEPT ![s] = [stage |-> "staged", target |-> target, hash |-> hash]]
  /\ UNCHANGED <<store, verified>>

\* target.exists() is false.
FindClear(s) ==
  /\ At(s, "staged")
  /\ ~Present(s)
  /\ Advance(s, "clear")
  /\ UNCHANGED <<store, verified>>

\* Mutant of Replay.
ReplayUnread(s) ==
  /\ At(s, "staged")
  /\ Present(s)
  /\ SameHash(s)
  /\ Advance(s, "finalized")
  /\ UNCHANGED <<store, verified>>

\* Mutant of Replay.
ReplayAnything(s) ==
  /\ At(s, "staged")
  /\ Present(s)
  /\ Intact(s)
  /\ Advance(s, "finalized")
  /\ verified' = verified \cup {saving[s].target}
  /\ UNCHANGED store

\* The same content is there already and reads back: a replay, which returns
\* without making anything read-only.
Replay(s) ==
  /\ At(s, "staged")
  /\ Present(s)
  /\ SameHash(s)
  /\ Intact(s)
  /\ Advance(s, "finalized")
  /\ verified' = verified \cup {saving[s].target}
  /\ UNCHANGED store

\* Mutant of Promote.
PromoteOver(s, intact) ==
  /\ At(s, "clear")
  /\ store' = [store EXCEPT ![saving[s].target] = Fresh(saving[s].hash, intact)]
  /\ Advance(s, "promoted")
  /\ UNCHANGED verified

\* os.replace onto a target that is still absent.  What arrives may differ from
\* the inventory: a file written after it, a *.part file it left out.
Promote(s, intact) ==
  /\ At(s, "clear")
  /\ ~Present(s)
  /\ store' = [store EXCEPT ![saving[s].target] = Fresh(saving[s].hash, intact)]
  /\ Advance(s, "promoted")
  /\ UNCHANGED verified

ReadBack(s) ==
  /\ At(s, "promoted")
  /\ SameHash(s)
  /\ Intact(s)
  /\ Advance(s, "verified")
  /\ verified' = verified \cup {saving[s].target}
  /\ UNCHANGED store

Seal(s) ==
  /\ At(s, "verified")
  /\ store' = [store EXCEPT ![saving[s].target].sealed = TRUE]
  /\ Advance(s, "finalized")
  /\ UNCHANGED verified

\* finalize raises: the target holds other content (ARTIFACT_REVISION_CONFLICT),
\* was created since it was found absent (ARTIFACT_PROMOTION_FAILED: a rename
\* does not replace a directory with files in it), or does not read back.
Conflict(s) == At(s, "staged") /\ Present(s) /\ ~SameHash(s)
Overtaken(s) == At(s, "clear") /\ Present(s)
Unreadable(s) == ~Intact(s) /\ \/ At(s, "staged") /\ Present(s) /\ SameHash(s)
                               \/ At(s, "promoted")

Refused(s) ==
  /\ Conflict(s) \/ Overtaken(s) \/ Unreadable(s)
  /\ Leave(s)
  /\ UNCHANGED <<store, verified>>

Saving(s) ==
  \/ FindClear(s)
  \/ Replay(s)
  \/ \E intact \in BOOLEAN : Promote(s, intact)
  \/ ReadBack(s)
  \/ Seal(s)

-----------------------------------------------------------------------------
StoreTypeOK ==
  /\ store \in [Targets -> Artifacts \cup {Absent}]
  /\ saving \in [Savers -> Workspaces \cup {NoWorkspace}]
  /\ verified \subseteq Targets

\* What an execution that got through finalize relies on: its content is what
\* the target holds, and has been read back.
FinalizedIsStored ==
  \A s \in Savers : At(s, "finalized") =>
    /\ SameHash(s)
    /\ Intact(s)
    /\ saving[s].target \in verified

\* An artifact is never replaced, altered or made writable again, by any
\* interleaving of finalizations (artifact_store.py:105-124).
WriteOnce ==
  [][\A t \in Targets : store[t] # Absent =>
       /\ store'[t].hash = store[t].hash
       /\ store'[t].intact = store[t].intact
       /\ store[t].sealed => store'[t].sealed]_storeVars
=============================================================================
