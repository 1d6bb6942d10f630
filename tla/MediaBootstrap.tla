---------------------------- MODULE MediaBootstrap ----------------------------
(***************************************************************************)
(* Preparing the media box (skeleton_media/home_edge/                      *)
(* debian_media_bootstrap.py): a script, run as root at the box, disables  *)
(* the boot guards, installs packages, writes four configuration files and *)
(* verifies the result.  When a step behind the first change fails, it     *)
(* removes what it has installed and puts the files back.                  *)
(*                                                                         *)
(* Every tool the script calls may fail, the looks at its own lists and at *)
(* dpkg's without anyone noticing, and the script may be killed between    *)
(* any two steps; a later run starts from what is there.                   *)
(* apt, systemd and dpkg are external.  Packages are those the script      *)
(* lists; their versions, what apt does to others, and a file's owner and  *)
(* mode are left out.                                                      *)
(***************************************************************************)
EXTENDS Naturals, FiniteSets

CONSTANTS
  Packages,
  Configs,
  Guards

VARIABLES
  package,     \* of each package: not at the box, unpacked or half configured,
               \* or "install ok installed"
  config,      \* of each file: "absent", "site", "desired", or "cut" short
  guards,      \* guard units still enabled
  script       \* the run: step, what it has found and noted.  unseen: packages
               \* it was told wrong of, or saw half installed; unread: it could
               \* not read its manifest

bootVars == <<package, config, guards, script>>

Over == {"off", "exit0", "exit10", "exit20", "exit50", "exit60"}
PackageStates == {"out", "half", "in"}
ConfigStates == {"absent", "site", "desired", "cut"}
Off == [at |-> "off", pre |-> {}, added |-> {}, manifest |-> [c \in {} |-> "absent"],
        needs |-> FALSE, todo |-> {}, unseen |-> {}, unread |-> FALSE,
        began |-> [package |-> [p \in Packages |-> "out"], config |-> [c \in Configs |-> "absent"]]]

BInit ==
  /\ package \in [Packages -> PackageStates]
  /\ config \in [Configs -> {"absent", "site", "desired"}]
  /\ guards = Guards
  /\ script = Off

Doing(at) == script.at = at
Go(fields) ==
  script' = [f \in DOMAIN script |-> IF f \in DOMAIN fields THEN fields[f] ELSE script[f]]
Box == <<package, config, guards>>

\* What dpkg-query says is installed.
Installed == {p \in Packages : package[p] = "in"}

RunScript ==
  /\ script.at \in Over
  /\ script' = [Off EXCEPT !.at = "checks", !.todo = guards,
                           !.began = [package |-> package, config |-> config]]
  /\ UNCHANGED Box

\* block: any check of the machine, of the private state or of a guard.
CheckFails == script.at \in {"checks", "guards"} /\ Go([at |-> "exit10"]) /\ UNCHANGED Box

ChecksPass == Doing("checks") /\ Go([at |-> "guards"]) /\ UNCHANGED Box

\* The guards are verified and disabled one after the other.
DisableGuard(g) ==
  /\ Doing("guards") /\ g \in script.todo
  /\ guards' = guards \ {g}
  /\ Go([todo |-> script.todo \ {g}])
  /\ UNCHANGED <<package, config>>

\* What is installed and what the files say decides what is to be done.  A
\* mktemp, dpkg-query or append that fails makes an installed package a missing
\* one, and so does a grep for the decision alone; a cmp that fails, a file one
\* that differs.
TakeStock ==
  /\ Doing("guards") /\ script.todo = {}
  /\ \E told \in SUBSET Installed, missing, differs \in BOOLEAN :
       /\ told # Packages => missing
       /\ (\E c \in Configs : config[c] # "desired") => differs
       /\ Go([at |-> IF missing THEN "update" ELSE "record",
              pre |-> told, needs |-> differs, unseen |-> Installed \ told])
  /\ UNCHANGED Box

\* apt-get update: a failure leaves before anything is changed.
AptUpdate ==
  /\ Doing("update")
  /\ \E at \in {"install", "exit20"} : Go([at |-> at])
  /\ UNCHANGED Box

\* What apt-get may leave of a package when it is interrupted: one that is
\* installed may be caught by an upgrade.
InstallLeaves(was) == IF was = "in" THEN {"half", "in"} ELSE {was, "half", "in"}
PartlyInstalled == {f \in [Packages -> PackageStates] : \A p \in Packages : f[p] \in InstallLeaves(package[p])}

\* apt-get install may fail with some of the packages installed ...
AptInstall ==
  /\ Doing("install")
  /\ \/ package' = [p \in Packages |-> "in"] /\ Go([at |-> "note"])
     \/ package' \in PartlyInstalled /\ Go([at |-> "noteFailed"])
  /\ UNCHANGED <<config, guards>>

\* Mutant of NoteAdded: only a successful install is followed by a look.
NoteAddedIfAll(told, known) == IF told = Packages THEN told \ known ELSE {}

\* The packages that dpkg says are installed and the list does not.
NoteAdded(told, known) == told \ known

\* ... and they are noted in either case; dpkg-query, the grep in the list of
\* those that were there, or the append may fail of any.
Note ==
  /\ script.at \in {"note", "noteFailed"}
  /\ \E told \in SUBSET Installed, known \in SUBSET script.pre :
       Go([at |-> IF Doing("note") THEN "record" ELSE "remove",
           added |-> NoteAdded(told, known),
           unseen |-> script.unseen \cup (Installed \ told) \cup (script.pre \ known)
                        \cup {p \in Packages : package[p] = "half"}])
  /\ UNCHANGED Box

\* record_config_state: a failure blocks, also behind the install.
RecordConfig ==
  /\ Doing("record")
  /\ \/ Go([at |-> IF script.needs THEN "write" ELSE "verify",
            manifest |-> config, todo |-> Configs])
     \/ Go([at |-> "exit10"])
  /\ UNCHANGED Box

\* Each file is truncated, written, and its mode set.
WriteConfig(c) ==
  /\ Doing("write") /\ c \in script.todo
  /\ \/ config' = [config EXCEPT ![c] = "desired"] /\ Go([todo |-> script.todo \ {c}])
     \/ \E left \in {config[c], "cut", "desired"} :
          config' = [config EXCEPT ![c] = left] /\ Go([at |-> "remove"])
  /\ UNCHANGED <<package, guards>>

WritesDone == Doing("write") /\ script.todo = {} /\ Go([at |-> "verify"]) /\ UNCHANGED Box

\* Package parity, the services, the tools' versions and the boot id.
Verify ==
  /\ Doing("verify")
  /\ \/ /\ Installed = Packages /\ \A c \in Configs : config[c] = "desired"
        /\ Go([at |-> "exit0"])
     \/ Go([at |-> "remove"])
  /\ UNCHANGED Box

\* What apt-get remove --purge may leave: of a package noted, anything until it
\* is purged; one half configured may be finished on the way.
RemoveLeaves(p) ==
  IF p \in script.added THEN {package[p], "half", "out"}
  ELSE IF package[p] = "half" /\ script.added # {} THEN {"half", "in"} ELSE {package[p]}
PartlyRemoved == {f \in [Packages -> PackageStates] : \A p \in Packages : f[p] \in RemoveLeaves(p)}

\* rollback_new_packages: when any are noted, apt-get remove --purge of them.
RemoveAdded ==
  /\ Doing("remove")
  /\ \/ /\ package' \in {f \in PartlyRemoved : \A p \in script.added : f[p] = "out"}
        /\ Go([at |-> "restore", todo |-> DOMAIN script.manifest])
     \/ /\ script.added # {} /\ package' \in PartlyRemoved
        /\ Go([at |-> "exit60"])
  /\ UNCHANGED <<config, guards>>

\* restore_configs, line by line of the manifest, which is empty when the run
\* has not come to record it.  A line that fails lets the others be restored.
RestoreConfig(c) ==
  /\ Doing("restore") /\ c \in script.todo
  /\ \/ config' = [config EXCEPT ![c] = script.manifest[c]] /\ Go([todo |-> script.todo \ {c}])
     \/ \E left \in {config[c], "cut"} :
          /\ config' = [config EXCEPT ![c] = left]
          /\ Go([todo |-> script.todo \ {c}, at |-> "unrestored"])
  /\ UNCHANGED <<package, guards>>

RestoreAfterFailure(c) ==
  /\ Doing("unrestored") /\ c \in script.todo
  /\ \E left \in {script.manifest[c], config[c], "cut"} : config' = [config EXCEPT ![c] = left]
  /\ Go([todo |-> script.todo \ {c}])
  /\ UNCHANGED <<package, guards>>

\* The loop ends as at the end of the manifest when it cannot read it.
ManifestUnread ==
  /\ script.at \in {"restore", "unrestored"} /\ script.todo # {}
  /\ Go([todo |-> {}, unread |-> TRUE])
  /\ UNCHANGED Box

RollbackEnds ==
  /\ script.at \in {"restore", "unrestored"} /\ script.todo = {}
  /\ Go([at |-> IF Doing("restore") THEN "exit50" ELSE "exit60"])
  /\ UNCHANGED Box

\* What a write leaves that is cut short.
Torn ==
  {f \in [Configs -> ConfigStates] :
     \A c \in Configs : f[c] = config[c] \/ (c \in script.todo /\ f[c] = "cut")}

\* The script is killed, or the machine restarted.
KillScript ==
  /\ script.at \notin Over
  /\ script' = Off
  /\ package' \in CASE Doing("install") -> PartlyInstalled
                    [] Doing("remove") -> PartlyRemoved
                    [] OTHER -> {package}
  /\ config' \in IF script.at \in {"write", "restore", "unrestored"} THEN Torn ELSE {config}
  /\ UNCHANGED guards

BNext ==
  \/ RunScript \/ CheckFails \/ ChecksPass \/ TakeStock \/ AptUpdate \/ AptInstall \/ Note
  \/ RecordConfig \/ WritesDone \/ Verify \/ RemoveAdded \/ ManifestUnread \/ RollbackEnds
  \/ KillScript
  \/ \E g \in Guards : DisableGuard(g)
  \/ \E c \in Configs : WriteConfig(c) \/ RestoreConfig(c) \/ RestoreAfterFailure(c)

BootTypeOK ==
  /\ package \in [Packages -> PackageStates] /\ guards \subseteq Guards
  /\ config \in [Configs -> ConfigStates]
  /\ script.added \cap script.pre \subseteq script.unseen

\* A run that stops at the package lists (exit 20) has touched neither packages
\* nor files.  One that says it has failed and rolled back (exit 50) has put every
\* file back; it leaves no listed package installed that was not, and has removed
\* none that was, whichever tool has failed and whatever a killed run had left
\* before.  What that does not cover is what the script cannot know of: packages
\* that apt left half installed when it looked, packages of which a look of its
\* own failed (it may take an installed one for a missing one, and purge it), and
\* the files of a manifest it could not read (debian_media_bootstrap.py,
\* fail_after_mutation, rollback_new_packages, restore_configs).
FailedRunRestores ==
  /\ Doing("exit20") => package = script.began.package /\ config = script.began.config
  /\ Doing("exit50") =>
       /\ script.unread \/ config = script.began.config
       /\ \A p \in Packages \ script.unseen :
            IF script.began.package[p] = "in" THEN package[p] # "out" ELSE package[p] = "out"
=============================================================================
