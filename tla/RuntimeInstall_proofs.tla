------------------------- MODULE RuntimeInstall_proofs -------------------------
(***************************************************************************)
(* Theorems about RuntimeInstall, for any set of releases and any number   *)
(* of installations and faults.                                            *)
(***************************************************************************)
EXTENDS RuntimeInstall, TLAPS

-----------------------------------------------------------------------------
(* What the commands of systemctl keep. *)

FilesOK == current \in Maybe /\ disk \in [Units -> Maybe]

SystemdOK ==
  /\ loaded \in [Units -> Maybe]
  /\ running \in [Units -> Maybe]
  /\ enabled \subseteq Units
  /\ upheld \subseteq Units

InstallRecord ==
  [release : Maybe, enable : BOOLEAN, sona : BOOLEAN, prior : Maybe,
   priorDisk : [Units -> Maybe], clean : BOOLEAN]

Steps == {"idle"} \cup InstallSteps \cup RollbackSteps

InstallerOK ==
  /\ step \in Steps
  /\ install \in InstallRecord
  /\ outcome \in Outcomes
  /\ installs \in 0..MaxInstalls
  /\ step # "idle" => install.release \in Releases /\ outcome = Ended("none")
  /\ step \in {"reload", "start sona", "start worker", "confirm", "count"} => install.enable
  /\ step = "start sona" => install.sona

TypeInv == FilesOK /\ SystemdOK /\ InstallerOK /\ faults \in 0..MaxFaults

LEMMA SystemctlKeepsTypes ==
  ASSUME FilesOK, SystemdOK, NEW u \in Units,
         Reload \/ Start(u) \/ Stop(u) \/ UNCHANGED systemd
  PROVE  SystemdOK'
  <1>1. CASE Reload \/ UNCHANGED systemd
    BY <1>1 DEF FilesOK, SystemdOK, Reload, systemd
  <1>2. CASE Start(u)
    <2>1. loaded[u] \in Maybe /\ running[u] \in Maybe
      BY DEF SystemdOK
    <2>2. (IF running[u] = None THEN loaded[u] ELSE running[u]) \in Maybe
      BY <2>1
    <2> QED BY <1>2, <2>2 DEF Start, SystemdOK
  <1>3. CASE Stop(u)
    <2>1. None \in Maybe
      BY DEF Maybe
    <2> QED BY <1>3, <2>1 DEF Stop, SystemdOK, systemd
  <1> QED BY <1>1, <1>2, <1>3

LEMMA TypeInvInit == Init => TypeInv
  BY InstallAssumption
  DEF Init, TypeInv, FilesOK, SystemdOK, InstallerOK, Steps, InstallRecord, NoInstall,
      Nowhere, Maybe, Outcomes, Ended

LEMMA EndKeepsTypes ==
  ASSUME InstallerOK, NEW result \in Outcomes, End(result)
  PROVE  InstallerOK'
  BY DEF InstallerOK, End, NoInstall, InstallRecord, Maybe, Nowhere, Steps

LEMMA EndedType ==
  \A kind \in {"none", "rolled back", "failed", "killed"} : Ended(kind) \in Outcomes
  BY DEF Ended, Outcomes

LEMMA FaultType == ASSUME faults \in 0..MaxFaults, Fault PROVE faults' \in 0..MaxFaults
  BY InstallAssumption DEF Fault

LEMMA TypeInvStep == TypeInv /\ [Next]_vars => TypeInv'
  <1> SUFFICES ASSUME TypeInv, [Next]_vars PROVE TypeInv'
    OBVIOUS
  <1> USE DEF TypeInv
  <1>u. "worker" \in Units /\ "sona" \in Units
    BY DEF Units
  <1>1. ASSUME NEW release \in Releases, NEW enable \in BOOLEAN, NEW sona \in BOOLEAN,
               Begin(release, enable, sona)
        PROVE  TypeInv'
    <2>1. FilesOK' /\ SystemdOK' /\ faults' \in 0..MaxFaults
      BY <1>1 DEF Begin, FilesOK, SystemdOK, files, systemd
    <2>2. install' \in InstallRecord
      BY <1>1 DEF Begin, FilesOK, InstallRecord, Maybe
    <2>3. installs' \in 0..MaxInstalls
      BY <1>1, InstallAssumption DEF Begin, InstallerOK
    <2>4. step' = "prepare" /\ install'.release \in Releases /\ outcome' = Ended("none")
      BY <1>1 DEF Begin
    <2> QED BY <2>1, <2>2, <2>3, <2>4, EndedType DEF InstallerOK, Steps, InstallSteps
  <1>2. CASE Install
    <2>1. FilesOK'
      BY <1>2
      DEF Install, Prepare, Link, WriteWorkerUnit, WriteSonaUnit, WriteUnit, Check,
          ReloadUnits, StartSona, StartWorker, Confirm, Count, Conclude, NotActive,
          FilesOK, InstallerOK, InstallRecord, Maybe, files, Units
    <2>2. SystemdOK'
      BY <1>2, <1>u, SystemctlKeepsTypes
      DEF Install, Prepare, Link, WriteWorkerUnit, WriteSonaUnit, Check,
          ReloadUnits, StartSona, StartWorker, Confirm, Count, Conclude, NotActive
    <2>3. faults' \in 0..MaxFaults
      BY <1>2
      DEF Install, Prepare, Link, WriteWorkerUnit, WriteSonaUnit, Check,
          ReloadUnits, StartSona, StartWorker, Confirm, Count, Conclude, NotActive
    <2>4. CASE Conclude
      <3>1. Receipt(install.release, install.enable) \in Outcomes
        BY <2>4 DEF Conclude, InstallerOK, InstallRecord, Receipt, Outcomes
      <3>2. InstallerOK'
        BY <2>4, <3>1, EndKeepsTypes DEF Conclude
      <3> QED BY <2>1, <2>2, <2>3, <3>2
    <2>5. CASE ~Conclude
      <3>1. InstallerOK'
        BY <1>2, <2>5
        DEF Install, Prepare, Link, WriteWorkerUnit, WriteSonaUnit, Check,
            ReloadUnits, StartSona, StartWorker, Confirm, Count, NotActive, Goto,
            InstallerOK, Steps, InstallSteps, RollbackSteps
      <3> QED BY <2>1, <2>2, <2>3, <3>1
    <2> QED BY <2>4, <2>5
  <1>3. CASE Raise
    <2>1. SystemdOK'
      BY <1>3, <1>u, SystemctlKeepsTypes DEF Raise
    <2>2. InstallerOK'
      BY <1>3 DEF Raise, Goto, InstallerOK, Steps, InstallSteps, RollbackSteps
    <2> QED BY <1>3, <2>1, <2>2, FaultType DEF Raise, FilesOK, files
  <1>4. CASE Rollback
    <2>1. FilesOK'
      BY <1>4, <1>u
      DEF Rollback, StopUnit, RestoreUnit, RestartPrior, Relink, ReloadBack, FilesOK,
          InstallerOK, InstallRecord, files
    <2>2. SystemdOK'
      BY <1>4, <1>u, SystemctlKeepsTypes
      DEF Rollback, StopUnit, RestoreUnit, RestartPrior, Relink, ReloadBack
    <2>3. InstallerOK'
      <3>1. CASE \E u \in Units : RestartPrior(u)
        BY <3>1, EndKeepsTypes, EndedType
        DEF RestartPrior, Goto, InstallerOK, Steps, InstallSteps, RollbackSteps
      <3>2. CASE ~\E u \in Units : RestartPrior(u)
        BY <1>4, <3>2
        DEF Rollback, StopUnit, RestoreUnit, Relink, ReloadBack, Goto,
            InstallerOK, Steps, InstallSteps, RollbackSteps
      <3> QED BY <3>1, <3>2
    <2>4. UNCHANGED faults
      BY <1>4 DEF Rollback, StopUnit, RestoreUnit, RestartPrior, Relink, ReloadBack
    <2> QED BY <2>1, <2>2, <2>3, <2>4
  <1>5. CASE Falter
    <2>1. install' \in InstallRecord
      BY <1>5 DEF Falter, InstallerOK, InstallRecord
    <2>2. InstallerOK'
      BY <1>5, <2>1
      DEF Falter, InstallerOK, Steps, InstallSteps, RollbackSteps, InstallRecord
    <2> QED BY <1>5, <2>2, FaultType DEF Falter, FilesOK, SystemdOK, files, systemd
  <1>6. CASE BreakOff
    <2>1. SystemdOK'
      BY <1>6, <1>u, SystemctlKeepsTypes DEF BreakOff
    <2>2. InstallerOK'
      BY <1>6, EndKeepsTypes, EndedType DEF BreakOff
    <2> QED BY <1>6, <2>1, <2>2, FaultType DEF BreakOff, FilesOK, files
  <1>7. CASE Killed
    <2>1. InstallerOK'
      BY <1>7, EndKeepsTypes, EndedType DEF Killed
    <2> QED BY <1>7, <2>1, FaultType DEF Killed, FilesOK, SystemdOK, files, systemd
  <1>8. CASE Reboot
    <2>1. InstallerOK'
      <3>1. CASE step = "idle"
        BY <1>8, <3>1 DEF Reboot, installer, InstallerOK
      <3>2. CASE step # "idle"
        BY <1>8, <3>2, EndKeepsTypes, EndedType DEF Reboot
      <3> QED BY <3>1, <3>2
    <2>2. SystemdOK'
      BY <1>8 DEF Reboot, SystemdOK, FilesOK, Nowhere, Maybe
    <2> QED BY <1>8, <2>1, <2>2, FaultType DEF Reboot, FilesOK, files
  <1>9. ASSUME NEW u \in Units, Dies(u) \/ Respawn(u) PROVE TypeInv'
    <2>1. SystemdOK' /\ FilesOK' /\ InstallerOK'
      BY <1>9 DEF Dies, Respawn, SystemdOK, FilesOK, InstallerOK, files, installer, Maybe
    <2> QED BY <1>9, <2>1, FaultType DEF Dies, Respawn
  <1>10. CASE UNCHANGED vars
    BY <1>10 DEF vars, files, systemd, installer, FilesOK, SystemdOK, InstallerOK
  <1> QED
    BY <1>1, <1>2, <1>3, <1>4, <1>5, <1>6, <1>7, <1>8, <1>9, <1>10 DEF Next

LEMMA TypeInvInvariant == Spec => []TypeInv
  BY TypeInvInit, TypeInvStep, PTL DEF Spec

\* Whatever fails, the installer, the files and systemd stay well formed, and the
\* units are touched only by an installation that enables them.
THEOREM InstallTypeCorrect == Spec => []ITypeOK
  <1>1. TypeInv => ITypeOK
    BY DEF TypeInv, FilesOK, SystemdOK, InstallerOK, InstallRecord, Steps, ITypeOK
  <1> QED BY <1>1, TypeInvInvariant, PTL

-----------------------------------------------------------------------------
(***************************************************************************)
(* What an installation has put in place by each of its steps, and what a  *)
(* receipt that says ACTIVE rests on.                                      *)
(***************************************************************************)
AfterLink == InstallSteps \ {"prepare", "link"}
AfterWorkerUnit == AfterLink \ {"worker unit"}
AfterReload == {"start sona", "start worker", "confirm", "count"}
AfterStart == {"confirm", "count"}

InForce(release) ==
  /\ loaded["worker"] = release
  /\ "worker" \in enabled \cap upheld

ProgressInv ==
  /\ step \in AfterLink => current = install.release
  /\ step \in AfterWorkerUnit => disk["worker"] = install.release
  /\ step \in AfterReload => loaded["worker"] = install.release
  /\ step \in AfterStart \/ (step = "conclude" /\ install.enable) => InForce(install.release)
  /\ ActiveReceiptHolds
  /\ outcome.kind = "receipt" => outcome.release \in Releases

LEMMA ProgressInvStep == TypeInv /\ ProgressInv /\ [Next]_vars => ProgressInv'
  <1> SUFFICES ASSUME TypeInv, ProgressInv, [Next]_vars PROVE ProgressInv'
    OBVIOUS
  <1> USE DEF AfterLink, AfterWorkerUnit, AfterReload, AfterStart, InstallSteps, RollbackSteps
  <1>t. /\ disk \in [Units -> Maybe] /\ loaded \in [Units -> Maybe]
        /\ running \in [Units -> Maybe]
        /\ "worker" \in Units /\ "sona" \in Units
        /\ step # "idle" => install.release \in Releases
        /\ step # "idle" => outcome.kind = "none"
        /\ step \in {"reload", "start sona", "start worker", "confirm", "count"}
             => install.enable
    <2>1. Ended("none").kind = "none"
      BY DEF Ended
    <2> QED BY <2>1 DEF TypeInv, FilesOK, SystemdOK, InstallerOK, Units
  <1>e. ASSUME NEW kind \in {"rolled back", "failed", "killed"}, End(Ended(kind))
        PROVE  ProgressInv'
    BY <1>e DEF End, Ended, ProgressInv, ActiveReceiptHolds
  <1>r. ASSUME step \in InstallSteps \cup RollbackSteps, step' \in RollbackSteps,
               UNCHANGED outcome
        PROVE  ProgressInv'
    BY <1>t, <1>r DEF ProgressInv, ActiveReceiptHolds
  <1>1. ASSUME NEW release \in Releases, NEW enable \in BOOLEAN, NEW sona \in BOOLEAN,
               Begin(release, enable, sona)
        PROVE  ProgressInv'
    BY <1>1 DEF Begin, Ended, ProgressInv, ActiveReceiptHolds
  <1>2. CASE Prepare \/ Link \/ Check \/ Confirm \/ Count
    BY <1>t, <1>2
    DEF Prepare, Link, Check, Confirm, Count, Goto, systemd, files, InForce, ProgressInv,
        ActiveReceiptHolds
  <1>3. CASE WriteWorkerUnit \/ WriteSonaUnit
    BY <1>t, <1>3
    DEF WriteWorkerUnit, WriteSonaUnit, WriteUnit, Goto, ProgressInv, ActiveReceiptHolds
  <1>4. CASE ReloadUnits
    BY <1>t, <1>4 DEF ReloadUnits, Reload, Goto, files, ProgressInv, ActiveReceiptHolds
  <1>5. CASE StartSona \/ StartWorker
    BY <1>t, <1>5
    DEF StartSona, StartWorker, Start, Goto, files, InForce, ProgressInv, ActiveReceiptHolds
  <1>6. CASE Conclude
    BY <1>t, <1>6
    DEF Conclude, End, Receipt, files, systemd, InForce, ProgressInv, ActiveReceiptHolds
  <1>7. CASE NotActive \/ Raise \/ Falter
    BY <1>r, <1>7 DEF NotActive, Raise, Falter, Goto
  <1>8. CASE Rollback
    BY <1>r, <1>e, <1>8
    DEF Rollback, StopUnit, RestoreUnit, RestartPrior, Relink, ReloadBack, Goto
  <1>9. CASE BreakOff \/ Killed
    BY <1>e, <1>9 DEF BreakOff, Killed
  <1>10. CASE Reboot
    <2>1. CASE step = "idle"
      <3>1. ActiveReceiptHolds'
        <4> SUFFICES ASSUME outcome'.kind = "receipt", outcome'.active
                     PROVE  /\ current' = outcome'.release
                            /\ disk'["worker"] = outcome'.release
                            /\ loaded'["worker"] = outcome'.release
                            /\ "worker" \in enabled' \cap upheld'
          BY DEF ActiveReceiptHolds
        <4>1. UNCHANGED <<files, outcome, enabled>> /\ loaded' = disk
          BY <1>10, <2>1 DEF Reboot, installer
        <4>2. /\ current = outcome.release /\ disk["worker"] = outcome.release
              /\ "worker" \in enabled /\ outcome.release \in Releases
          BY <4>1 DEF ProgressInv, ActiveReceiptHolds
        <4>3. "worker" \in upheld'
          BY <1>10, <4>2, InstallAssumption DEF Reboot
        <4> QED BY <4>1, <4>2, <4>3 DEF files
      <3> QED BY <1>10, <2>1, <3>1 DEF Reboot, installer, ProgressInv
    <2>2. CASE step # "idle"
      BY <1>e, <1>10, <2>2 DEF Reboot
    <2> QED BY <2>1, <2>2
  <1>11. ASSUME NEW u \in Units, Dies(u) \/ Respawn(u) PROVE ProgressInv'
    BY <1>11
    DEF Dies, Respawn, files, installer, InForce, ProgressInv, ActiveReceiptHolds
  <1>12. CASE UNCHANGED vars
    BY <1>12
    DEF vars, files, systemd, installer, InForce, ProgressInv, ActiveReceiptHolds
  <1> QED
    BY <1>1, <1>2, <1>3, <1>4, <1>5, <1>6, <1>7, <1>8, <1>9, <1>10, <1>11, <1>12
    DEF Next, Install

\* What an ACTIVE receipt stands for lasts until the next installation.
THEOREM ActiveReceiptLasts == Spec => []ActiveReceiptHolds
  <1>1. Init => ProgressInv
    BY DEF Init, Ended, ProgressInv, ActiveReceiptHolds, AfterLink, AfterWorkerUnit,
           AfterReload, AfterStart, InstallSteps
  <1>2. Spec => []ProgressInv
    BY <1>1, ProgressInvStep, TypeInvInvariant, PTL DEF Spec
  <1>3. ProgressInv => ActiveReceiptHolds
    BY DEF ProgressInv
  <1> QED BY <1>2, <1>3, PTL

-----------------------------------------------------------------------------
(***************************************************************************)
(* What a rollback has restored by each of its steps, as long as its       *)
(* commands work.                                                          *)
(***************************************************************************)
Prior == install.priorDisk

WorkerStopped == running["worker"] = None /\ "worker" \notin upheld

RestoreInv ==
  /\ step \in RollbackSteps \ {"stop worker", "stop sona", "relink"} => current = install.prior
  /\ step \in RollbackSteps \ {"stop worker", "stop sona", "relink", "restore worker"}
       => disk["worker"] = Prior["worker"]
  /\ step \in {"reload back", "restart worker", "restart sona"} => disk["sona"] = Prior["sona"]
  /\ step \in {"restart worker", "restart sona"} /\ install.clean => loaded = disk
  \* A worker unit that was there still is, whatever release it names, until it is restored.
  /\ step # "idle" /\ Prior["worker"] # None => disk["worker"] # None
  /\ step \in RollbackSteps \ {"stop worker", "restart sona"} /\ install.clean
       /\ Prior["worker"] # None => WorkerStopped
  /\ step = "restart sona" /\ install.clean /\ Prior["worker"] # None
       => /\ "worker" \in enabled \cap upheld
          /\ running["worker"] \in {None, disk["worker"]}

LEMMA RestoreInvStep == TypeInv /\ RestoreInv /\ [Next]_vars => RestoreInv'
  <1> SUFFICES ASSUME TypeInv, RestoreInv, [Next]_vars PROVE RestoreInv'
    OBVIOUS
  <1> USE DEF InstallSteps, RollbackSteps, Prior
  <1>t. /\ disk \in [Units -> Maybe] /\ loaded \in [Units -> Maybe]
        /\ running \in [Units -> Maybe]
        /\ "worker" \in Units /\ "sona" \in Units
        /\ step # "idle" => install.release \in Releases
        /\ install \in InstallRecord
        /\ None \notin Releases
    BY InstallAssumption DEF TypeInv, FilesOK, SystemdOK, InstallerOK, Units
  <1>e. ASSUME step' = "idle" PROVE RestoreInv'
    BY <1>e DEF RestoreInv
  <1>1. ASSUME NEW release \in Releases, NEW enable \in BOOLEAN, NEW sona \in BOOLEAN,
               Begin(release, enable, sona)
        PROVE  RestoreInv'
    BY <1>1 DEF Begin, RestoreInv, files
  <1>2. CASE Prepare \/ Link \/ Check \/ ReloadUnits \/ StartSona \/ StartWorker
             \/ Confirm \/ Count \/ Raise \/ NotActive
    <2>1. step # "idle" /\ UNCHANGED <<disk, install>>
      BY <1>2
      DEF Prepare, Link, Check, ReloadUnits, StartSona, StartWorker, Confirm, Count,
          Raise, NotActive, Goto, files
    <2>2. step' \in InstallSteps \cup {"stop worker"}
      BY <1>2
      DEF Prepare, Link, Check, ReloadUnits, StartSona, StartWorker, Confirm, Count,
          Raise, NotActive, Goto
    <2> QED BY <2>1, <2>2 DEF RestoreInv
  <1>3. CASE WriteWorkerUnit \/ WriteSonaUnit
    <2>1. step # "idle" /\ UNCHANGED install /\ step' \in InstallSteps
      BY <1>3 DEF WriteWorkerUnit, WriteSonaUnit, Goto
    <2>2. disk'["worker"] \in {disk["worker"], install.release}
      BY <1>t, <1>3 DEF WriteWorkerUnit, WriteSonaUnit, WriteUnit
    <2> QED BY <1>t, <2>1, <2>2 DEF RestoreInv
  <1>4. CASE Conclude \/ BreakOff \/ Killed \/ \E u \in Units : RestartPrior(u) /\ step = "restart sona"
    BY <1>e, <1>4 DEF Conclude, BreakOff, Killed, RestartPrior, End
  <1>5. CASE StopUnit("worker")
    BY <1>t, <1>5 DEF StopUnit, Stop, Goto, files, RestoreInv, WorkerStopped
  <1>6. CASE StopUnit("sona")
    BY <1>t, <1>6 DEF StopUnit, Stop, Goto, files, systemd, RestoreInv, WorkerStopped
  <1>7. CASE Relink
    BY <1>t, <1>7 DEF Relink, Goto, systemd, RestoreInv, WorkerStopped
  <1>8. CASE RestoreUnit("worker")
    BY <1>t, <1>8 DEF RestoreUnit, Goto, systemd, RestoreInv, WorkerStopped, InstallRecord
  <1>9. CASE RestoreUnit("sona")
    BY <1>t, <1>9 DEF RestoreUnit, Goto, systemd, RestoreInv, WorkerStopped, InstallRecord
  <1>10. CASE ReloadBack
    BY <1>t, <1>10 DEF ReloadBack, Reload, Goto, files, RestoreInv, WorkerStopped
  <1>11. CASE RestartPrior("worker")
    BY <1>t, <1>11
    DEF RestartPrior, Start, Goto, files, systemd, RestoreInv, WorkerStopped
  <1>12. CASE Falter
    <2>1. install' = [install EXCEPT !.clean = FALSE]
          /\ UNCHANGED <<files, systemd>> /\ step \in RollbackSteps
      BY <1>12 DEF Falter
    <2>2. /\ ~install'.clean
          /\ install'.prior = install.prior
          /\ install'.priorDisk = install.priorDisk
      BY <1>t, <2>1 DEF InstallRecord
    <2> QED BY <1>12, <2>1, <2>2 DEF Falter, files, RestoreInv
  <1>13. CASE Reboot
    <2>1. step' = "idle"
      BY <1>13 DEF Reboot, installer, End
    <2> QED BY <1>e, <2>1
  <1>14. ASSUME NEW u \in Units, Dies(u) PROVE RestoreInv'
    BY <1>t, <1>14 DEF Dies, files, installer, RestoreInv, WorkerStopped
  <1>15. ASSUME NEW u \in Units, Respawn(u) PROVE RestoreInv'
    BY <1>t, <1>15 DEF Respawn, files, installer, RestoreInv, WorkerStopped
  <1>16. CASE UNCHANGED vars
    BY <1>16 DEF vars, files, systemd, installer, RestoreInv, WorkerStopped
  <1>17. ASSUME Rollback PROVE RestoreInv'
    <2>1. \A u \in Units : u \in {"worker", "sona"}
      BY DEF Units
    <2>2. ASSUME RestartPrior("sona") PROVE RestoreInv'
      BY <1>t, <1>4, <2>2 DEF RestartPrior
    <2> QED
      BY <1>5, <1>6, <1>7, <1>8, <1>9, <1>10, <1>11, <1>17, <2>1, <2>2 DEF Rollback
  <1> QED
    BY <1>1, <1>2, <1>3, <1>4, <1>12, <1>13, <1>14, <1>15, <1>16, <1>17 DEF Next, Install

\* A rollback whose commands all work restores what the installation found.
THEOREM RollbackRestoresPrior == Spec => RollbackRestores
  <1>1. Init => RestoreInv
    BY DEF Init, RestoreInv, RollbackSteps
  <1>2. ASSUME TypeInv, RestoreInv, [Next]_vars,
               outcome'.kind = "rolled back", outcome.kind # "rolled back"
        PROVE  /\ current' = install.prior
               /\ disk' = install.priorDisk
               /\ loaded' = disk'
               /\ \A u \in Units : disk'[u] # None => u \in enabled' \cap upheld'
               /\ disk'["worker"] # None => running'["worker"] \in {None, disk'["worker"]}
    <2>1. RestartPrior("sona") /\ step = "restart sona" /\ install.clean
      <3>1. /\ \A kind : Ended(kind).kind = kind
            /\ \A release, active : Receipt(release, active).kind = "receipt"
        BY DEF Ended, Receipt
      <3>2. ~UNCHANGED outcome
        BY <1>2
      <3>3. ~\E release \in Releases, enable \in BOOLEAN, sona \in BOOLEAN :
               Begin(release, enable, sona)
        BY <1>2, <3>1 DEF Begin
      <3>4. ~(Install \/ Raise \/ Falter)
        BY <1>2, <3>1, <3>2
        DEF Install, Prepare, Link, WriteWorkerUnit, WriteSonaUnit, Check, ReloadUnits,
            StartSona, StartWorker, Confirm, Count, Conclude, NotActive, Raise, Falter,
            Goto, End
      <3>5. ~(BreakOff \/ Killed \/ Reboot)
        BY <1>2, <3>1, <3>2 DEF BreakOff, Killed, Reboot, End, installer
      <3>6. /\ ~\E u \in Units : Dies(u) \/ Respawn(u)
            /\ ~UNCHANGED vars
        BY <3>2 DEF Dies, Respawn, installer, vars
      <3>7. Rollback
        BY <1>2, <3>3, <3>4, <3>5, <3>6 DEF Next
      <3>8. PICK u \in Units : RestartPrior(u)
        BY <3>2, <3>7 DEF Rollback, StopUnit, RestoreUnit, Relink, ReloadBack, Goto
      <3>9. u = "sona"
        BY <3>2, <3>8 DEF RestartPrior, Goto, Units
      <3>10. /\ step = "restart sona"
             /\ outcome' = Ended(IF install.clean THEN "rolled back" ELSE "failed")
        BY <3>8, <3>9 DEF RestartPrior, End
      <3>11. install.clean
        BY <1>2, <3>1, <3>10
      <3> QED BY <3>8, <3>9, <3>10, <3>11
    <2>2. /\ disk \in [Units -> Maybe] /\ install.priorDisk \in [Units -> Maybe]
          /\ running \in [Units -> Maybe]
          /\ Units = {"worker", "sona"}
      BY <1>2 DEF TypeInv, FilesOK, SystemdOK, InstallerOK, InstallRecord, Units
    <2>3. /\ current = install.prior
          /\ disk["worker"] = install.priorDisk["worker"]
          /\ disk["sona"] = install.priorDisk["sona"]
          /\ loaded = disk
          /\ install.priorDisk["worker"] # None =>
               /\ "worker" \in enabled \cap upheld
               /\ running["worker"] \in {None, disk["worker"]}
      BY <1>2, <2>1 DEF RestoreInv, RollbackSteps, Prior
    <2>4. disk = install.priorDisk
      BY <2>2, <2>3
    <2>5. UNCHANGED files /\ loaded' = loaded
      BY <2>1 DEF RestartPrior, Start, systemd
    <2>6. /\ enabled \subseteq enabled' /\ upheld \subseteq upheld'
          /\ running'["worker"] = running["worker"]
          /\ install.priorDisk["sona"] # None => "sona" \in enabled' \cap upheld'
      BY <2>1, <2>2 DEF RestartPrior, Start, systemd
    <2> QED BY <2>2, <2>3, <2>4, <2>5, <2>6 DEF files
  <1>3. TypeInv /\ RestoreInv /\ [Next]_vars =>
          [outcome'.kind = "rolled back" /\ outcome.kind # "rolled back" =>
             /\ current' = install.prior
             /\ disk' = install.priorDisk
             /\ loaded' = disk'
             /\ \A u \in Units : disk'[u] # None => u \in enabled' \cap upheld'
             /\ disk'["worker"] # None => running'["worker"] \in {None, disk'["worker"]}]_vars
    BY <1>2
  <1>4. Spec => []RestoreInv
    BY <1>1, RestoreInvStep, TypeInvInvariant, PTL DEF Spec
  <1> QED
    BY <1>3, <1>4, TypeInvInvariant, PTL DEF Spec, RollbackRestores
=============================================================================
