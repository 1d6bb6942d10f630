----------------------------- MODULE MCMediaApp -----------------------------
(* Four parts of the web process that share no state.  A behaviour follows *)
(* one of them, chosen at the beginning; the others rest.                  *)
EXTENDS EndpointHistory, MediaHandoff, ResolveJobs, RemotePointer

VARIABLE focus

appVars == <<focus, historyVars, mediaVars, jobVars, pointerVars>>

MCKeyOf == [t \in Writers |-> IF t = "p" THEN "i" ELSE "j"]

AInit ==
  /\ focus \in {"history", "handoff", "jobs", "pointer"}
  /\ HInit /\ MInit /\ RInit /\ DInit
  /\ focus # "handoff" => tv = [source |-> CHOOSE s \in Sources : TRUE, playing |-> TRUE]
  /\ focus # "jobs" => ~registry

Follow(part) == focus = part /\ UNCHANGED focus

ANext ==
  \/ Follow("history") /\ HNext /\ UNCHANGED <<mediaVars, jobVars, pointerVars>>
  \/ Follow("handoff") /\ MNext /\ UNCHANGED <<historyVars, jobVars, pointerVars>>
  \/ Follow("jobs") /\ RNext /\ UNCHANGED <<historyVars, mediaVars, pointerVars>>
  \/ Follow("pointer") /\ DNext /\ UNCHANGED <<historyVars, mediaVars, jobVars>>

\* The threads of the process run, and its timers fire.
ASpec ==
  /\ AInit /\ [][ANext]_appVars
  /\ \A t \in Askers : WF_jobVars(RProceed(t))
  /\ \A w \in Resolvers : WF_jobVars(RResolve(w))
  /\ \A x \in Timers : WF_pointerVars(Fire(x) \/ Forget(x) \/ Release(x))

\* The state of all four parts is well formed.
AppTypeOK == HTypeOK /\ MTypeOK /\ RTypeOK /\ DTypeOK
=============================================================================
