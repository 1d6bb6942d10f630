---------------------------- MODULE ResolveJobs -----------------------------
(***************************************************************************)
(* Jobs of the web process (ops/skeleton_cast/runtime/app.py): a shared    *)
(* page is resolved to sources by a pool of workers, may be resolved again *)
(* and its site confirmed by the operator.                                 *)
(*                                                                         *)
(* A job is a file.  Every request and every worker reads the whole file,  *)
(* works on its copy and writes the copy back, without a lock, through one *)
(* temporary file that all savers of the job share: a replace publishes    *)
(* what another saver has written to it, or raises because another one has *)
(* moved it away.  The pool lives in memory, the files outlive a restart.  *)
(*                                                                         *)
(* What a page resolves to is external: it has sources or raises.  A write *)
(* to the temporary file is one step.                                      *)
(***************************************************************************)
EXTENDS Naturals

CONSTANTS
  Jobs,         \* job ids, all of one site
  Askers,       \* request threads
  Resolvers,    \* the threads of the pool
  MaxRefreshes  \* bound: how often somebody asks to resolve again

ASSUME ResolveAssumption == MaxRefreshes \in Nat

VARIABLES
  file,       \* the file of each job
  temp,       \* its temporary file
  waiting,    \* how many tasks for each job wait for a worker of the pool
  running,    \* the job each worker resolves, and its copy; or Idle
  handling,   \* what each request is at, its job and its copy
  registry,   \* the site is confirmed in sites.yaml
  refreshes,
  lost        \* history: jobs that since their last task was submitted have had
              \* one dropped by a restart, or one, or a refresh, that raised

fileVars == <<file, temp>>
taskVars == <<waiting, running, handling>>
jobVars == <<fileVars, taskVars, registry, refreshes, lost>>

SiteStates == {"unknown", "candidate", "confirmed"}
NoFile == [status |-> "none", site |-> "unknown", sources |-> FALSE]
Files == [status: {"resolving", "ready", "error"}, site: SiteStates, sources: BOOLEAN]
Calls == {"rest", "submit", "refresh", "register", "confirm", "resolve", "replace"}
Idle == [at |-> "rest", job |-> "none", copy |-> NoFile]

RInit ==
  /\ file = [j \in Jobs |-> NoFile]
  /\ temp = [j \in Jobs |-> NoFile]
  /\ waiting = [j \in Jobs |-> 0]
  /\ running = [w \in Resolvers |-> Idle]
  /\ handling = [t \in Askers |-> Idle]
  /\ registry \in BOOLEAN
  /\ refreshes = 0
  /\ lost = {}

Now(t, call, j, copy) ==
  handling' = [handling EXCEPT ![t] = [at |-> call, job |-> j, copy |-> copy]]
Done(t) == handling' = [handling EXCEPT ![t] = Idle]

\* _atomic: the temporary file, and its replacing.
WriteTemp(j, copy) == temp' = [temp EXCEPT ![j] = copy] /\ UNCHANGED file
ReplaceFile(j) ==
  /\ temp[j] # NoFile
  /\ file' = [file EXCEPT ![j] = temp[j]]
  /\ temp' = [temp EXCEPT ![j] = NoFile]

\* A request saves its copy.
Save(t, j, copy) == WriteTemp(j, copy) /\ Now(t, "replace", j, copy)

\* share: a new job, of a site that the registry knows or not.
Share(t, j) ==
  /\ handling[t] = Idle /\ file[j] = NoFile
  /\ \A u \in Askers : handling[u].job # j
  /\ Save(t, j, [status |-> "resolving", sources |-> FALSE,
                 site |-> IF registry THEN "confirmed" ELSE "unknown"])
  /\ UNCHANGED <<waiting, running, registry, refreshes, lost>>

\* share and refresh, which save a job that is to be resolved, ...
Saved(t) ==
  /\ handling[t].at = "replace"
  /\ ReplaceFile(handling[t].job)
  /\ IF handling[t].copy.status = "resolving"
     THEN Now(t, "submit", handling[t].job, NoFile) ELSE Done(t)
  /\ UNCHANGED <<waiting, running, registry, refreshes, lost>>

\* ... hand it to the pool.
Submit(t) ==
  /\ handling[t].at = "submit"
  /\ waiting' = [waiting EXCEPT ![handling[t].job] = @ + 1]
  /\ lost' = lost \ {handling[t].job}
  /\ Done(t)
  /\ UNCHANGED <<fileVars, running, registry, refreshes>>

\* refresh loads the file ...
AskAgain(t, j) ==
  /\ handling[t] = Idle /\ file[j] # NoFile
  /\ refreshes < MaxRefreshes /\ refreshes' = refreshes + 1
  /\ Now(t, "refresh", j, file[j])
  /\ UNCHANGED <<fileVars, waiting, running, registry, lost>>

\* Mutant of SaveAgain.
SaveAgainUnsubmitted(t) ==
  /\ handling[t].at = "refresh"
  /\ LET copy == [handling[t].copy EXCEPT !.status = "resolving", !.sources = FALSE]
     IN /\ WriteTemp(handling[t].job, copy)
        /\ Now(t, "replace", handling[t].job,
               IF handling[t].copy.status = "resolving" THEN NoFile ELSE copy)
  /\ UNCHANGED <<waiting, running, registry, refreshes, lost>>

\* ... and saves its copy before it submits the job.
SaveAgain(t) ==
  /\ handling[t].at = "refresh"
  /\ Save(t, handling[t].job,
          [handling[t].copy EXCEPT !.status = "resolving", !.sources = FALSE])
  /\ UNCHANGED <<waiting, running, registry, refreshes, lost>>

\* Only a ready job with sources and a candidate can have its site confirmed.
AskConfirm(t, j) ==
  /\ handling[t] = Idle
  /\ file[j].status = "ready" /\ file[j].site = "candidate" /\ file[j].sources
  /\ Now(t, "register", j, file[j])
  /\ UNCHANGED <<fileVars, waiting, running, registry, refreshes, lost>>

\* site_registry.confirm, under the lock of the registry.
Register(t) ==
  /\ handling[t].at = "register"
  /\ registry' = TRUE
  /\ Now(t, "confirm", handling[t].job, handling[t].copy)
  /\ UNCHANGED <<fileVars, waiting, running, refreshes, lost>>

SaveConfirmed(t) ==
  /\ handling[t].at = "confirm"
  /\ Save(t, handling[t].job, [handling[t].copy EXCEPT !.site = "confirmed"])
  /\ UNCHANGED <<waiting, running, registry, refreshes, lost>>

\* A load or a save raises, or the registry does.  A refresh submits nothing then.
Raise(t) ==
  /\ handling[t].at \in {"refresh", "register", "confirm", "replace"}
  /\ lost' = IF handling[t].at = "refresh" \/ handling[t].copy.status = "resolving"
             THEN lost \cup {handling[t].job} ELSE lost
  /\ Done(t)
  /\ UNCHANGED <<fileVars, waiting, running, registry, refreshes>>

\* A worker takes a task and loads the file.
Take(w, j) ==
  /\ running[w] = Idle /\ waiting[j] > 0
  /\ waiting' = [waiting EXCEPT ![j] = @ - 1]
  /\ running' = [running EXCEPT ![w] = [at |-> "resolve", job |-> j, copy |-> file[j]]]
  /\ UNCHANGED <<fileVars, handling, registry, refreshes, lost>>

\* resolve_page has an answer, which has sources, or it raises, which becomes an
\* error that the job tells: the worker saves its copy.
Resolve(w) ==
  /\ running[w].at = "resolve"
  /\ LET copy == running[w].copy
     IN \/ WriteTemp(running[w].job,
                 [status |-> "ready", sources |-> TRUE,
                  site |-> IF copy.site = "confirmed" THEN copy.site ELSE "candidate"])
        \/ WriteTemp(running[w].job, [copy EXCEPT !.status = "error"])
  /\ running' = [running EXCEPT ![w].at = "replace"]
  /\ UNCHANGED <<waiting, handling, registry, refreshes, lost>>

Resolved(w) ==
  /\ running[w].at = "replace"
  /\ ReplaceFile(running[w].job)
  /\ running' = [running EXCEPT ![w] = Idle]
  /\ UNCHANGED <<waiting, handling, registry, refreshes, lost>>

\* The load and the save of the worker stand outside of its try: nobody hears of
\* what they raise.
Dies(w) ==
  /\ running[w] # Idle
  /\ lost' = lost \cup {running[w].job}
  /\ running' = [running EXCEPT ![w] = Idle]
  /\ UNCHANGED <<fileVars, waiting, handling, registry, refreshes>>

\* The web process restarts: the pool and all threads are gone.
RestartWeb ==
  /\ waiting' = [j \in Jobs |-> 0]
  /\ running' = [w \in Resolvers |-> Idle]
  /\ handling' = [t \in Askers |-> Idle]
  /\ lost' = lost \cup {j \in Jobs : file[j].status = "resolving"}
  /\ UNCHANGED <<fileVars, registry, refreshes>>

\* What a request and a worker do of themselves.
RProceed(t) ==
  Saved(t) \/ Submit(t) \/ SaveAgain(t) \/ Register(t) \/ SaveConfirmed(t) \/ Raise(t)
RResolve(w) ==
  (\E j \in Jobs : Take(w, j)) \/ Resolve(w) \/ Resolved(w) \/ Dies(w)

RNext ==
  \/ \E t \in Askers :
       \/ \E j \in Jobs : Share(t, j) \/ AskAgain(t, j) \/ AskConfirm(t, j)
       \/ RProceed(t)
  \/ \E w \in Resolvers : RResolve(w)
  \/ RestartWeb

RTypeOK ==
  /\ {file, temp} \subseteq [Jobs -> Files \cup {NoFile}]
  /\ waiting \in [Jobs -> Nat]
  /\ running \in [Resolvers -> [at: Calls, job: Jobs \cup {"none"}, copy: Files \cup {NoFile}]]
  /\ handling \in [Askers -> [at: Calls, job: Jobs \cup {"none"}, copy: Files \cup {NoFile}]]
  /\ registry \in BOOLEAN
  /\ lost \subseteq Jobs

\* A job that says it is being resolved is resolved or tells an error some day,
\* whatever older copies requests and workers write back meanwhile, and whichever
\* of them publishes what another one has written, unless its task has been
\* dropped by a restart, or a task or a refresh of it has raised: two savers that
\* overlap are enough for that, when one moves the temporary file of the other
\* away.  Then it may say "resolving" until somebody asks again (app.py, share,
\* refresh and _resolve_job).
EventuallyResolved ==
  \A j \in Jobs :
    file[j].status = "resolving" ~> file[j].status # "resolving" \/ j \in lost
=============================================================================
