---------------------------- MODULE RuntimeInstall ----------------------------
(***************************************************************************)
(* The installation of the video-understanding service                     *)
(* (skeleton_media/video_understanding/runtime_install.py).                *)
(*                                                                         *)
(* install_runtime puts the link and the unit files of a release in place, *)
(* checks the runtime, and has systemd reload its units and start them.    *)
(* When anything raises, _rollback stops the units, restores the link and  *)
(* the unit files, reloads, and starts what had a unit file before.  Every *)
(* step may fail; the installer itself may be killed, and nothing resumes  *)
(* it.                                                                     *)
(*                                                                         *)
(* systemd is external: it runs what it has loaded, which is what the unit *)
(* files said at the last reload; a start of an active unit does nothing;  *)
(* it restarts a unit that fails (Restart=on-failure), and after a reboot  *)
(* starts the enabled ones.                                                *)
(*                                                                         *)
(* A unit file is reduced to the release it was written for.  The parts    *)
(* that no rollback touches (virtual environment, provider executables,    *)
(* runtime.json) are left out.                                             *)
(***************************************************************************)
EXTENDS Integers

CONSTANTS
  Releases,    \* the commits that get installed
  None,        \* no release
  MaxFaults,   \* bound: failed steps, dead workers, kills and reboots
  MaxInstalls  \* bound: installations

ASSUME InstallAssumption ==
  /\ None \notin Releases
  /\ MaxFaults \in Nat
  /\ MaxInstalls \in Nat

Units == {"worker", "sona"}

VARIABLES
  current,   \* the release the link `current` names
  disk,      \* what the file of each unit was written for
  loaded,    \* what systemd has loaded for each unit
  running,   \* what each unit's process was started from
  enabled,   \* the units that start with the machine
  upheld,    \* the units systemd keeps up: started, not stopped since
  step,      \* where the installer is
  install,   \* what it installs, how, and what it found
  outcome,   \* how the last installation ended
  faults,    \* how many faults there have been
  installs   \* how many installations have begun

files == <<current, disk>>
systemd == <<loaded, running, enabled, upheld>>
installer == <<step, install, outcome, installs>>
vars == <<files, systemd, installer, faults>>

Maybe == Releases \cup {None}

Nowhere == [u \in Units |-> None]

NoInstall ==
  [release |-> None, enable |-> FALSE, sona |-> FALSE, prior |-> None,
   priorDisk |-> Nowhere, clean |-> TRUE]

\* A receipt names the release and whether it is active; "rolled back" is a
\* rollback whose commands all worked.
Receipt(release, active) == [kind |-> "receipt", release |-> release, active |-> active]
Outcomes ==
  [kind : {"receipt"}, release : Releases, active : BOOLEAN]
    \cup [kind : {"none", "rolled back", "failed", "killed"}, release : {None}, active : {FALSE}]
Ended(kind) == [kind |-> kind, release |-> None, active |-> FALSE]

InstallSteps ==
  {"prepare", "link", "worker unit", "sona unit", "check", "reload", "start sona",
   "start worker", "confirm", "count", "conclude"}
RollbackSteps ==
  {"stop worker", "stop sona", "relink", "restore worker", "restore sona",
   "reload back", "restart worker", "restart sona"}

Init ==
  /\ current = None
  /\ disk = Nowhere
  /\ loaded = Nowhere
  /\ running = Nowhere
  /\ enabled = {}
  /\ upheld = {}
  /\ step = "idle"
  /\ install = NoInstall
  /\ outcome = Ended("none")
  /\ faults = 0
  /\ installs = 0

Fault ==
  /\ faults < MaxFaults
  /\ faults' = faults + 1

Goto(next) == step' = next /\ UNCHANGED <<install, outcome, installs>>

\* The installer ends, and forgets.
End(result) ==
  /\ step' = "idle"
  /\ install' = NoInstall
  /\ outcome' = result
  /\ UNCHANGED installs

-----------------------------------------------------------------------------
(***************************************************************************)
(* What systemctl does when it works.                                      *)
(***************************************************************************)
Reload ==
  /\ loaded' = disk
  /\ UNCHANGED <<running, enabled, upheld>>

\* Mutant of Start.
EnableOnly(u) ==
  /\ enabled' = enabled \cup {u}
  /\ UNCHANGED <<loaded, running, upheld>>

\* enable --now: a unit that is active already goes on as it is.
Start(u) ==
  /\ enabled' = enabled \cup {u}
  /\ upheld' = upheld \cup {u}
  /\ running' = [running EXCEPT ![u] = IF @ = None THEN loaded[u] ELSE @]
  /\ UNCHANGED loaded

\* disable --now: without a unit file there is nothing to disable, and nothing
\* is stopped.
Stop(u) ==
  IF disk[u] = None
  THEN UNCHANGED systemd
  ELSE /\ enabled' = enabled \ {u}
       /\ upheld' = upheld \ {u}
       /\ running' = [running EXCEPT ![u] = None]
       /\ UNCHANGED loaded

-----------------------------------------------------------------------------
(***************************************************************************)
(* install_runtime                                                         *)
(***************************************************************************)
Begin(release, enable, sona) ==
  /\ step = "idle"
  /\ installs < MaxInstalls
  /\ installs' = installs + 1
  /\ step' = "prepare"
  /\ install' = [release |-> release, enable |-> enable, sona |-> sona,
                 prior |-> current, priorDisk |-> disk, clean |-> TRUE]
  /\ outcome' = Ended("none")
  /\ UNCHANGED <<files, systemd, faults>>

\* Copy the release, find or install the providers, write runtime.json.
Prepare ==
  /\ step = "prepare"
  /\ Goto("link")
  /\ UNCHANGED <<files, systemd, faults>>

Link ==
  /\ step = "link"
  /\ current' = install.release
  /\ Goto("worker unit")
  /\ UNCHANGED <<disk, systemd, faults>>

WriteUnit(u) == disk' = [disk EXCEPT ![u] = install.release]

WriteWorkerUnit ==
  /\ step = "worker unit"
  /\ WriteUnit("worker")
  /\ Goto("sona unit")
  /\ UNCHANGED <<current, systemd, faults>>

WriteSonaUnit ==
  /\ step = "sona unit"
  /\ IF install.sona THEN WriteUnit("sona") ELSE disk' = [disk EXCEPT !.sona = None]
  /\ Goto("check")
  /\ UNCHANGED <<current, systemd, faults>>

\* Doctor, recovery of expired leases, synthetic round trip through the memory.
Check ==
  /\ step = "check"
  /\ Goto(IF install.enable THEN "reload" ELSE "conclude")
  /\ UNCHANGED <<files, systemd, faults>>

\* Mutant of ReloadUnits.
ReloadOnlySona ==
  /\ step = "reload"
  /\ IF install.sona THEN Reload ELSE UNCHANGED systemd
  /\ Goto(IF install.sona THEN "start sona" ELSE "start worker")
  /\ UNCHANGED <<files, faults>>

ReloadUnits ==
  /\ step = "reload"
  /\ Reload
  /\ Goto(IF install.sona THEN "start sona" ELSE "start worker")
  /\ UNCHANGED <<files, faults>>

StartSona ==
  /\ step = "start sona"
  /\ Start("sona")
  /\ Goto("start worker")
  /\ UNCHANGED <<files, faults>>

StartWorker ==
  /\ step = "start worker"
  /\ Start("worker")
  /\ Goto("confirm")
  /\ UNCHANGED <<files, faults>>

\* is-active, and then MainPID: between the two the worker may die.
Confirm ==
  /\ step = "confirm"
  /\ running["worker"] # None
  /\ Goto("count")
  /\ UNCHANGED <<files, systemd, faults>>

Count ==
  /\ step = "count"
  /\ running["worker"] # None
  /\ Goto("conclude")
  /\ UNCHANGED <<files, systemd, faults>>

Conclude ==
  /\ step = "conclude"
  /\ End(Receipt(install.release, install.enable))
  /\ UNCHANGED <<files, systemd, faults>>

\* A step raises; a command of systemctl that timed out may have worked.
Raise ==
  /\ Fault
  /\ step \in InstallSteps
  /\ \/ UNCHANGED systemd
     \/ step = "reload" /\ Reload
     \/ step = "start sona" /\ Start("sona")
     \/ step = "start worker" /\ Start("worker")
  /\ Goto("stop worker")
  /\ UNCHANGED files

\* The worker was seen inactive, twenty times or when its pid was asked for.
NotActive ==
  /\ step \in {"confirm", "count"}
  /\ running["worker"] = None
  /\ Goto("stop worker")
  /\ UNCHANGED <<files, systemd, faults>>

-----------------------------------------------------------------------------
(***************************************************************************)
(* _rollback                                                               *)
(***************************************************************************)
StopUnit(u) ==
  /\ IF u = "worker" THEN step = "stop worker" /\ Goto("stop sona")
                     ELSE step = "stop sona" /\ Goto("relink")
  /\ Stop(u)
  /\ UNCHANGED <<files, faults>>

Relink ==
  /\ step = "relink"
  /\ current' = install.prior
  /\ Goto("restore worker")
  /\ UNCHANGED <<disk, systemd, faults>>

RestoreUnit(u) ==
  /\ IF u = "worker" THEN step = "restore worker" /\ Goto("restore sona")
                     ELSE step = "restore sona" /\ Goto("reload back")
  /\ disk' = [disk EXCEPT ![u] = install.priorDisk[u]]
  /\ UNCHANGED <<current, systemd, faults>>

\* Mutant of ReloadBack.
ReloadForgotten ==
  /\ step = "reload back"
  /\ Goto("restart worker")
  /\ UNCHANGED <<files, systemd, faults>>

ReloadBack ==
  /\ step = "reload back"
  /\ Reload
  /\ Goto("restart worker")
  /\ UNCHANGED <<files, faults>>

RestartPrior(u) ==
  /\ IF u = "worker" THEN step = "restart worker" /\ Goto("restart sona")
                     ELSE step = "restart sona" /\ End(Ended(IF install.clean THEN "rolled back" ELSE "failed"))
  /\ IF install.priorDisk[u] # None THEN Start(u) ELSE UNCHANGED systemd
  /\ UNCHANGED <<files, faults>>

\* A command that fails in the rollback is passed over.
Falter ==
  /\ Fault
  /\ LET next(from, to) == step = from /\ step' = to
     IN \/ next("stop worker", "stop sona")
        \/ next("stop sona", "relink")
        \/ next("reload back", "restart worker")
        \/ next("restart worker", "restart sona")
  /\ install' = [install EXCEPT !.clean = FALSE]
  /\ UNCHANGED <<files, systemd, outcome, installs>>

\* A step of the rollback raises, which ends it: the exception is swallowed, and
\* the installation reported as failed.  Here too a command may have worked.
BreakOff ==
  /\ Fault
  /\ step \in RollbackSteps
  /\ \/ UNCHANGED systemd
     \/ step = "stop worker" /\ Stop("worker")
     \/ step = "stop sona" /\ Stop("sona")
     \/ step = "reload back" /\ Reload
     \/ step = "restart worker" /\ install.priorDisk["worker"] # None /\ Start("worker")
     \/ step = "restart sona" /\ install.priorDisk["sona"] # None /\ Start("sona")
  /\ End(Ended("failed"))
  /\ UNCHANGED files

Rollback ==
  \/ \E u \in Units : StopUnit(u) \/ RestoreUnit(u) \/ RestartPrior(u)
  \/ Relink
  \/ ReloadBack

-----------------------------------------------------------------------------
(***************************************************************************)
(* The machine.                                                            *)
(***************************************************************************)
Killed ==
  /\ Fault
  /\ step # "idle"
  /\ End(Ended("killed"))
  /\ UNCHANGED <<files, systemd>>

Dies(u) ==
  /\ Fault
  /\ running[u] # None
  /\ running' = [running EXCEPT ![u] = None]
  /\ UNCHANGED <<files, loaded, enabled, upheld, installer>>

Respawn(u) ==
  /\ u \in upheld
  /\ running[u] = None
  /\ loaded[u] # None
  /\ running' = [running EXCEPT ![u] = loaded[u]]
  /\ UNCHANGED <<files, loaded, enabled, upheld, installer, faults>>

Reboot ==
  /\ Fault
  /\ loaded' = disk
  /\ running' = Nowhere
  /\ upheld' = {u \in enabled : disk[u] # None}
  /\ IF step = "idle" THEN UNCHANGED installer ELSE End(Ended("killed"))
  /\ UNCHANGED <<files, enabled>>

Install ==
  \/ Prepare \/ Link \/ WriteWorkerUnit \/ WriteSonaUnit \/ Check
  \/ ReloadUnits \/ StartSona \/ StartWorker \/ Confirm \/ Count \/ Conclude
  \/ NotActive

Next ==
  \/ \E release \in Releases, enable \in BOOLEAN, sona \in BOOLEAN :
       Begin(release, enable, sona)
  \/ Install
  \/ Raise
  \/ Rollback
  \/ Falter
  \/ BreakOff
  \/ Killed
  \/ Reboot
  \/ \E u \in Units : Dies(u) \/ Respawn(u)

\* The installer goes on while it can, and systemd restarts what it keeps up.
Fairness ==
  /\ WF_vars(Install)
  /\ WF_vars(Rollback)
  /\ \A u \in Units : WF_vars(Respawn(u))

Spec == Init /\ [][Next]_vars /\ Fairness

-----------------------------------------------------------------------------
ITypeOK ==
  /\ current \in Maybe
  /\ disk \in [Units -> Maybe]
  /\ loaded \in [Units -> Maybe]
  /\ running \in [Units -> Maybe]
  /\ enabled \subseteq Units
  /\ upheld \subseteq Units
  /\ step \in {"idle"} \cup InstallSteps \cup RollbackSteps
  /\ install.release \in Maybe
  /\ step \in {"reload", "start sona", "start worker", "confirm", "count"} => install.enable
  /\ step = "start sona" => install.sona
  /\ outcome \in Outcomes
  /\ faults \in 0..MaxFaults
  /\ installs \in 0..MaxInstalls

\* A rollback whose steps all work leaves the link and the unit files as the
\* installation found them, loaded, with the prior units enabled, and the worker
\* down or of the prior release, whatever step had failed before
\* (runtime_install.py:230-237).
RollbackRestores ==
  [][outcome'.kind = "rolled back" /\ outcome.kind # "rolled back" =>
       /\ current' = install.prior
       /\ disk' = install.priorDisk
       /\ loaded' = disk'
       /\ \A u \in Units : disk'[u] # None => u \in enabled' \cap upheld'
       /\ disk'["worker"] # None => running'["worker"] \in {None, disk'["worker"]}]_vars

\* What an ACTIVE receipt stands for lasts, through dying workers and reboots,
\* until the next installation: the link, the unit file and what systemd has
\* loaded name the release, and the worker is kept up.
ActiveReceiptHolds ==
  outcome.kind = "receipt" /\ outcome.active =>
    /\ current = outcome.release
    /\ disk["worker"] = outcome.release
    /\ loaded["worker"] = outcome.release
    /\ "worker" \in enabled \cap upheld

\* After a rollback the prior worker works again, if there was one, unless
\* another installation begins.
PriorWorkerReturns ==
  outcome.kind = "rolled back" /\ disk["worker"] # None
    ~> running["worker"] = disk["worker"] \/ outcome.kind # "rolled back"

-----------------------------------------------------------------------------
\* docs/VIDEO_UNDERSTANDING_RUNTIME.md:62: the launch installs the exact commit
\* and confirms one active worker.  A worker that runs after an ACTIVE receipt
\* would then be the one of that commit.
ActiveMeansRunning ==
  outcome.kind = "receipt" /\ outcome.active =>
    running["worker"] \in {None, outcome.release}
=============================================================================
