------------------------------ MODULE CastPlayer ------------------------------
(***************************************************************************)
(* The player of the TV box (skeleton_media/cast/player.py, and            *)
(* play_channel of cast/iptv.py): one mpv, the files that say what it      *)
(* plays, and three kinds of requests that change them.                    *)
(*                                                                         *)
(*   video   plays a video or stops the player (routes of app.py);         *)
(*   tune    plays a live channel (iptv.py, under its own lock);           *)
(*   switch  changes the TV mode (switch_mode, under app.py's mode lock).  *)
(*                                                                         *)
(* play, stop and save_current_progress hold the playback lock; switch_mode*)
(* and play_channel do not, they only call these three.  A monitor thread  *)
(* saves the progress from time to time.  Subprocess waits and mpv answers *)
(* are steps that may fail, with their effect or without it; an effect that*)
(* a timed-out command has later still is left out.                        *)
(*                                                                         *)
(* A position is 0 (too near the beginning to resume from), anything       *)
(* between, or End (completed).  Commands that go from the phone straight  *)
(* to mpv (pause, seek, tracks) are left out; the mode scripts themselves  *)
(* are external: a unit that starts writes the mode file.                  *)
(***************************************************************************)
EXTENDS Naturals

CONSTANTS
  Vods,         \* videos: seekable, remembered
  Lives,        \* live channels
  None,         \* no title, no thread
  End,          \* the position at which a video counts as completed
  MaxRequests,  \* bound: how many requests a behaviour has
  MaxFaults     \* bound: how many failing steps, dying players and restarts

ASSUME PlayerAssumption ==
  /\ End \in Nat \ {0}
  /\ MaxRequests \in Nat
  /\ MaxFaults \in Nat
  /\ Vods \cap Lives = {}
  /\ None \notin Vods \cup Lives \cup {"video", "tune", "switch"}

VARIABLES
  mpv,          \* what the player process has loaded, where, and paused or not
  tvMode,       \* the mode file
  current,      \* current.json: the title that is said to play
  lastVod,      \* last_vod.json: the video to return to
  history,      \* the resume position of each video, 0 when there is none
  marker,       \* the file that says an IPTV transition is under way
  lock,         \* who holds the playback lock
  pc,           \* where the request of each thread is
  arg,          \* the title each thread is to play
  goal,         \* the mode each thread is to end in
  saw,          \* the mode the switch found
  parked,       \* the switch leaves mpv paused in the background
  snapshot,     \* what suspend_current_vod says of its save: done, or None
  still,        \* since the switch saw its video, nobody else has touched mpv or the mode
  resume,       \* the resume position of the play that holds the lock
  coldStart,    \* that play has given up on the running mpv
  astray,       \* mpv plays what a play has loaded that ended without naming it
  requests,
  faults

deskVars == <<mpv, tvMode, current, lastVod, history, marker>>
playVars == <<lock, resume, coldStart, astray>>
planVars == <<arg, goal, saw, parked, snapshot>>
callVars == <<pc, planVars, still>>
playerVars == <<deskVars, playVars, callVars, requests, faults>>

Threads == {"video", "tune", "switch"}
Titles == Vods \cup Lives
Modes == {"mpv", "kiosk", "games"}
Phases == {"idle", "want", "load", "await", "seek", "name", "remember", "cold", "boot",
           "suspend", "pause", "checkpoint", "mark", "unmark", "halt", "leave",
           "unit", "refresh", "clear", "restore", "empty", "unpause"}

Off == [file |-> None, pos |-> 0, paused |-> FALSE]
Alive == mpv.file # None

CInit ==
  /\ mpv = Off
  /\ tvMode = "kiosk"
  /\ current = None
  /\ lastVod = None
  /\ history = [v \in Vods |-> 0]
  /\ marker = FALSE
  /\ lock = None
  /\ pc = [t \in Threads |-> "idle"]
  /\ arg = [t \in Threads |-> None]
  /\ goal = [t \in Threads |-> "mpv"]
  /\ saw = "kiosk"
  /\ parked = FALSE
  /\ snapshot = FALSE
  /\ still = FALSE
  /\ resume = 0
  /\ coldStart = FALSE
  /\ astray = FALSE
  /\ requests = 0
  /\ faults = 0

Goto(t, phase) == pc' = [pc EXCEPT ![t] = phase]

\* Another request than the switch changes what mpv plays, or the mode.
Touch(t) == still' = (still /\ t = "switch")

\* A step of a request that fails, counted against the bound.
Fault == faults < MaxFaults /\ faults' = faults + 1

\* What is remembered of a position: nothing near either end of the video.
Stored(p) == IF p >= End THEN 0 ELSE p

\* save_current_progress: files what mpv reports under the title current.json
\* names.  It needs the playback lock, which is reentrant.  mpv may not answer,
\* or a file may not be written: play, stop and the monitor pass over that.
Filing == Alive /\ tvMode = "mpv" /\ current \in Vods
Filed == [history EXCEPT ![current] = Stored(mpv.pos)]

SaveProgress ==
  \/ Filing /\ history' = Filed /\ lastVod' = current
  \/ UNCHANGED <<history, lastVod>>

\* stop: saves, quits mpv, removes its socket; current.json stays.
StopPlayer == SaveProgress /\ mpv' = Off /\ astray' = FALSE

\* The unit does not stop in time: stop raises, and mpv may be there still.
StopRaises ==
  /\ Alive /\ Fault
  /\ SaveProgress
  /\ mpv' \in {mpv, Off}

\* Where a thread goes when its play has ended, well or not.
AfterPlay(t, well) ==
  Goto(t, IF t = "tune" THEN "unmark"
          ELSE IF t = "switch" /\ well THEN "unpause" ELSE "idle")

-----------------------------------------------------------------------------
(* play *)

\* play takes the lock, saves what was playing, probes the source and looks up
\* where to resume.  A running mpv in its mode is reused.
Enter(t) ==
  /\ pc[t] = "want" /\ lock = None
  /\ lock' = t
  /\ SaveProgress
  /\ resume' = IF arg[t] \in Vods THEN history'[arg[t]] ELSE 0
  /\ coldStart' = FALSE
  /\ Goto(t, IF tvMode = "mpv" /\ Alive THEN "load" ELSE "cold")
  /\ UNCHANGED <<mpv, tvMode, current, marker, astray, planVars, requests, faults, still>>

\* The probe finds no source with sound: play raises.
ProbeFails(t) ==
  /\ pc[t] = "want" /\ lock = None
  /\ SaveProgress
  /\ Fault
  /\ AfterPlay(t, FALSE)
  /\ UNCHANGED <<mpv, tvMode, current, marker, playVars, planVars,
                 requests, still>>

\* _replace_active_mpv: loadfile ... replace, then unpause and come to the front.
Load(t) ==
  /\ pc[t] = "load" /\ Alive
  /\ mpv' = [file |-> arg[t], pos |-> 0, paused |-> FALSE]
  /\ Goto(t, "await")
  /\ Touch(t)
  /\ UNCHANGED <<tvMode, current, lastVod, history, marker, playVars, planVars, requests, faults>>

\* mpv is gone or refuses: play falls through to the cold start.
LoadFails(t) ==
  /\ pc[t] = "load"
  /\ IF Alive THEN Fault ELSE UNCHANGED faults
  /\ Goto(t, "cold")
  /\ UNCHANGED <<deskVars, playVars, planVars, requests, still>>

\* Mutant of ColdStop.
ColdStopPlainLock(t) ==
  /\ pc[t] = "cold" /\ lock = None
  /\ StopPlayer
  /\ coldStart' = TRUE
  /\ Goto(t, "boot")
  /\ Touch(t)
  /\ UNCHANGED <<tvMode, current, marker, lock, resume, planVars, requests, faults>>

\* The cold start stops whatever runs, ...
ColdStop(t) ==
  /\ pc[t] = "cold"
  /\ StopPlayer
  /\ coldStart' = TRUE
  /\ Goto(t, "boot")
  /\ Touch(t)
  /\ UNCHANGED <<tvMode, current, marker, lock, resume, planVars, requests, faults>>

\* play raises.  If mpv goes on with the file it has loaded, nobody names it.
PlayRaises(t) ==
  /\ lock' = None
  /\ astray' = (mpv'.file # None /\ (astray \/ mpv'.file = arg[t]))
  /\ AfterPlay(t, FALSE)
  /\ Touch(t)
  /\ UNCHANGED <<current, marker, resume, coldStart, planVars, requests>>

\* Or that does not work, and nothing catches it.
ColdStopRaises(t) ==
  /\ pc[t] = "cold"
  /\ StopRaises
  /\ PlayRaises(t)
  /\ UNCHANGED tvMode

\* ... enters the mpv mode and starts the player unit with the file.
Boot(t) ==
  /\ pc[t] = "boot"
  /\ tvMode' = "mpv"
  /\ mpv' = [file |-> arg[t], pos |-> 0, paused |-> FALSE]
  /\ Goto(t, "await")
  /\ Touch(t)
  /\ UNCHANGED <<current, lastVod, history, marker, playVars, planVars, requests, faults>>

\* The mode unit or the player unit does not start: play raises.  So it does
\* behind the start of the unit, when the start has timed out, its process id
\* does not show up or the PID file cannot be written; mpv then plays the file,
\* and nothing stops it.
BootFails(t) ==
  /\ pc[t] = "boot"
  /\ Fault
  /\ \/ tvMode' \in {tvMode, "mpv"} /\ mpv' = mpv
     \/ tvMode' = "mpv" /\ mpv' = [file |-> arg[t], pos |-> 0, paused |-> FALSE]
  /\ PlayRaises(t)
  /\ UNCHANGED <<lastVod, history>>

\* The file is seen to be loaded, with a picture on the TV's terminal.
WaitLoaded(t) ==
  /\ pc[t] = "await" /\ mpv.file = arg[t]
  /\ Goto(t, "seek")
  /\ UNCHANGED <<deskVars, playVars, planVars, requests, faults, still>>

\* Seek to the resume position, then hear the sound.
Seek(t) ==
  /\ pc[t] = "seek" /\ mpv.file = arg[t]
  /\ mpv' = [mpv EXCEPT !.pos = IF resume > 0 THEN resume ELSE @]
  /\ Goto(t, "name")
  /\ Touch(t)
  /\ UNCHANGED <<tvMode, current, lastVod, history, marker, playVars, planVars, requests, faults>>

\* The new file is not seen to play, or its name cannot be written.  A replaced
\* mpv is then started cold; a cold start stops it and raises, whether it could
\* be stopped or not.
NotSeen(t) ==
  /\ pc[t] \in {"await", "seek", "name", "remember"}
  /\ IF mpv.file = arg[t] THEN Fault ELSE UNCHANGED faults
  /\ IF coldStart
     THEN SaveProgress /\ mpv' \in {mpv, Off} /\ PlayRaises(t)
     ELSE /\ Goto(t, "cold") /\ Touch(t)
          /\ UNCHANGED <<mpv, current, lastVod, history, marker, playVars, planVars, requests>>
  /\ UNCHANGED tvMode

\* Mutant of Name.
NameVodsOnly(t) ==
  /\ pc[t] = "name"
  /\ current' = IF arg[t] \in Vods THEN arg[t] ELSE current
  /\ astray' = FALSE
  /\ Goto(t, "remember")
  /\ UNCHANGED <<mpv, tvMode, lastVod, history, marker, lock, resume, coldStart,
                 planVars, requests, faults, still>>

\* The verified file is named in current.json, ...
Name(t) ==
  /\ pc[t] = "name"
  /\ current' = arg[t]
  /\ astray' = FALSE
  /\ Goto(t, "remember")
  /\ UNCHANGED <<mpv, tvMode, lastVod, history, marker, lock, resume, coldStart,
                 planVars, requests, faults, still>>

\* ... and a video in last_vod.json; play returns.
Remember(t) ==
  /\ pc[t] = "remember"
  /\ lastVod' = IF arg[t] \in Vods THEN arg[t] ELSE lastVod
  /\ lock' = None
  /\ AfterPlay(t, TRUE)
  /\ UNCHANGED <<mpv, tvMode, current, history, marker, resume, coldStart,
                 astray, planVars, requests, faults, still>>

Play(t) ==
  \/ Enter(t) \/ Load(t) \/ LoadFails(t) \/ ColdStop(t) \/ Boot(t)
  \/ WaitLoaded(t) \/ Seek(t) \/ Name(t) \/ Remember(t)
PlayFails(t) == ProbeFails(t) \/ ColdStopRaises(t) \/ BootFails(t) \/ NotSeen(t)

-----------------------------------------------------------------------------
(* suspend_current_vod, which switch_mode and play_channel call *)

AfterSuspend(t, suspended) ==
  /\ Goto(t, IF t = "tune" THEN "mark"
             ELSE IF suspended /\ goal[t] = "kiosk" THEN "leave" ELSE "halt")
  /\ parked' = IF t = "switch" THEN suspended /\ goal[t] = "kiosk" ELSE parked

\* It decides by current.json, without the lock.
Suspend(t) ==
  /\ pc[t] = "suspend"
  /\ IF Alive /\ tvMode = "mpv" /\ current \in Vods
     THEN /\ Goto(t, "pause")
          /\ still' = (still \/ t = "switch")
          /\ UNCHANGED parked
     ELSE AfterSuspend(t, FALSE) /\ UNCHANGED still
  /\ UNCHANGED <<deskVars, playVars, arg, goal, saw, snapshot, requests, faults>>

\* Whatever mpv plays now is paused; without an mpv the request raises.
Pause(t) ==
  /\ pc[t] = "pause"
  /\ mpv' = IF Alive THEN [mpv EXCEPT !.paused = TRUE] ELSE mpv
  /\ Goto(t, IF Alive THEN "checkpoint" ELSE "idle")
  /\ UNCHANGED <<tvMode, current, lastVod, history, marker, playVars, planVars,
                 requests, faults, still>>

\* save_current_progress tells whether it has saved, and the video is parked
\* in either case.
Snapshot(t, saved) == snapshot' = IF t = "switch" THEN saved ELSE snapshot

\* Mutant of Checkpoint.
CheckpointUnsaved(t) ==
  /\ pc[t] = "checkpoint" /\ lock = None
  /\ UNCHANGED <<history, lastVod>>
  /\ Snapshot(t, Filing)
  /\ AfterSuspend(t, TRUE)
  /\ UNCHANGED <<mpv, tvMode, current, marker, playVars, arg, goal, saw,
                 requests, faults, still>>

Checkpoint(t) ==
  /\ pc[t] = "checkpoint" /\ lock = None
  /\ \/ Filing /\ history' = Filed /\ lastVod' = current /\ Snapshot(t, TRUE)
     \/ UNCHANGED <<history, lastVod>> /\ Snapshot(t, FALSE)
  /\ AfterSuspend(t, TRUE)
  /\ UNCHANGED <<mpv, tvMode, current, marker, playVars, arg, goal, saw,
                 requests, faults, still>>

\* mpv does not take the pause, or a file cannot be written: the request raises.
SuspendRaises(t) ==
  /\ Alive /\ Fault
  /\ \/ /\ pc[t] = "pause"
        /\ mpv' \in {mpv, [mpv EXCEPT !.paused = TRUE]}
        /\ UNCHANGED <<history, lastVod>>
     \/ /\ pc[t] = "checkpoint" /\ lock = None
        /\ SaveProgress
        /\ UNCHANGED mpv
  /\ Goto(t, "idle")
  /\ UNCHANGED <<tvMode, current, marker, playVars, planVars, requests, still>>

-----------------------------------------------------------------------------
(* play_channel and switch_mode *)

Mark ==
  /\ pc["tune"] = "mark"
  /\ marker' = TRUE
  /\ Goto("tune", "want")
  /\ UNCHANGED <<mpv, tvMode, current, lastVod, history, playVars, planVars, requests, faults, still>>

Unmark ==
  /\ pc["tune"] = "unmark"
  /\ marker' = FALSE
  /\ Goto("tune", "idle")
  /\ UNCHANGED <<mpv, tvMode, current, lastVod, history, playVars, planVars, requests, faults, still>>

\* mode_status: live television is a mode of its own.
ModeStatus ==
  IF marker \/ (tvMode = "mpv" /\ Alive /\ current \in Lives) THEN "tv" ELSE tvMode

\* The mode is looked at once, at the beginning.
Decide(mode) ==
  /\ pc["switch"] = "idle"
  /\ saw' = ModeStatus
  /\ goal' = [goal EXCEPT !["switch"] = mode]
  /\ parked' = FALSE /\ snapshot' = FALSE /\ still' = FALSE
  /\ Goto("switch", IF mode = "mpv" THEN "restore"
                    ELSE IF ModeStatus = mode
                         THEN IF mode = "kiosk" THEN "refresh" ELSE "idle"
                    ELSE IF ModeStatus = "mpv" THEN "suspend"
                    ELSE IF ModeStatus = "tv" THEN "halt" ELSE "leave")
  /\ UNCHANGED <<deskVars, playVars, arg, faults>>

\* stop, called by switch_mode or by control('stop').
Halt(t) ==
  /\ pc[t] = "halt" /\ lock = None
  /\ StopPlayer
  /\ Goto(t, IF t = "video" THEN "unit" ELSE "leave")
  /\ Touch(t)
  /\ UNCHANGED <<tvMode, current, marker, lock, resume, coldStart, planVars, requests, faults>>

\* It raises, and the request with it.
HaltRaises(t) ==
  /\ \/ pc[t] = "halt"
     \/ pc[t] = "refresh" /\ current \in Lives
     \/ pc[t] = "empty" /\ saw = "tv"
  /\ lock = None
  /\ StopRaises
  /\ astray' = (astray /\ mpv'.file # None)
  /\ Goto(t, "idle")
  /\ Touch(t)
  /\ UNCHANGED <<tvMode, current, marker, lock, resume, coldStart, planVars, requests>>

\* Only a mode that can have a parked video behind it keeps current.json.
Leave ==
  /\ pc["switch"] = "leave"
  /\ current' = IF goal["switch"] = "kiosk" THEN current ELSE None
  /\ Goto("switch", "unit")
  /\ UNCHANGED <<mpv, tvMode, lastVod, history, marker, playVars, planVars, requests, faults, still>>

\* The unit of the new mode starts and writes the mode file, or it fails.
Unit(t) ==
  /\ pc[t] = "unit"
  /\ \/ tvMode' = goal[t] /\ UNCHANGED faults
     \/ Fault /\ tvMode' \in {tvMode, goal[t]}
  /\ Goto(t, "idle")
  /\ Touch(t)
  /\ UNCHANGED <<mpv, current, lastVod, history, marker, playVars, planVars, requests>>

\* Kiosk again: a live stream that runs beside it is stopped ...
Refresh ==
  /\ pc["switch"] = "refresh"
  /\ IF Alive /\ current \in Lives
     THEN lock = None /\ StopPlayer /\ Goto("switch", "clear")
     ELSE UNCHANGED <<mpv, history, lastVod, astray>> /\ Goto("switch", "idle")
  /\ UNCHANGED <<tvMode, current, marker, lock, resume, coldStart, planVars,
                 requests, faults, still>>

\* ... and forgotten.
Clear ==
  /\ pc["switch"] = "clear"
  /\ current' = None
  /\ marker' = FALSE
  /\ Goto("switch", "idle")
  /\ UNCHANGED <<mpv, tvMode, lastVod, history, playVars, planVars,
                 requests, faults, still>>

\* restore_last_vod: a parked video comes back as it is, else the last one is
\* played, in place when live television runs.
Restore ==
  /\ pc["switch"] = "restore"
  /\ arg' = [arg EXCEPT !["switch"] = lastVod]
  /\ IF Alive /\ current \in Vods
     THEN tvMode' = "mpv" /\ Goto("switch", "unpause")
     ELSE IF lastVod # None
          THEN tvMode' = "mpv" /\ Goto("switch", "want")
          ELSE UNCHANGED tvMode /\ Goto("switch", "empty")
  /\ UNCHANGED <<mpv, current, lastVod, history, marker, playVars, goal, saw,
                 parked, snapshot, requests, faults, still>>

\* The unit of the mpv mode does not start, before anything else was touched.
RestoreFails ==
  /\ pc["switch"] = "restore" /\ tvMode # "mpv"
  /\ Fault
  /\ tvMode' \in {tvMode, "mpv"}
  /\ Goto("switch", "idle")
  /\ UNCHANGED <<mpv, current, lastVod, history, marker, playVars, planVars, requests, still>>

\* No video to return to: live television stops, the mode is mpv without one.
Empty ==
  /\ pc["switch"] = "empty"
  /\ IF saw = "tv" THEN lock = None /\ StopPlayer
                   ELSE UNCHANGED <<mpv, history, lastVod, astray>>
  /\ Goto("switch", "unit")
  /\ UNCHANGED <<tvMode, current, marker, lock, resume, coldStart, planVars,
                 requests, faults, still>>

\* The video goes on, unless mpv does not answer.
Unpause ==
  /\ pc["switch"] = "unpause"
  /\ \/ mpv' = [mpv EXCEPT !.paused = FALSE] /\ UNCHANGED faults
     \/ mpv' = mpv /\ IF Alive THEN Fault ELSE UNCHANGED faults
  /\ Goto("switch", "idle")
  /\ UNCHANGED <<tvMode, current, lastVod, history, marker, playVars, planVars,
                 requests, still>>

-----------------------------------------------------------------------------
(* Requests, the monitor, and what happens of itself *)

Request == requests < MaxRequests /\ requests' = requests + 1

\* The route /play, and control('stop'), which mpv's mode passes on to stop.
AskVideo ==
  /\ Request
  /\ pc["video"] = "idle"
  /\ \/ \E v \in Vods : /\ arg' = [arg EXCEPT !["video"] = v]
                        /\ Goto("video", "want")
                        /\ UNCHANGED goal
     \/ /\ tvMode = "mpv" /\ Alive
        /\ goal' = [goal EXCEPT !["video"] = "kiosk"]
        /\ Goto("video", "halt")
        /\ UNCHANGED arg
  /\ UNCHANGED <<deskVars, playVars, saw, parked, snapshot, faults, still>>

AskChannel ==
  /\ Request
  /\ pc["tune"] = "idle"
  /\ \E x \in Lives : arg' = [arg EXCEPT !["tune"] = x]
  /\ Goto("tune", "suspend")
  /\ UNCHANGED <<deskVars, playVars, goal, saw, parked, snapshot, faults, still>>

AskMode == Request /\ \E mode \in Modes : Decide(mode)

\* Mutant of Monitor.
MonitorUnlocked ==
  /\ SaveProgress
  /\ UNCHANGED <<mpv, tvMode, current, marker, playVars, callVars, requests, faults>>

Monitor ==
  /\ lock = None
  /\ SaveProgress
  /\ UNCHANGED <<mpv, tvMode, current, marker, playVars, callVars, requests, faults>>

Advance ==
  /\ Alive /\ ~mpv.paused /\ mpv.pos < End
  /\ mpv' = [mpv EXCEPT !.pos = @ + 1]
  /\ UNCHANGED <<tvMode, current, lastVod, history, marker, playVars, callVars,
                 requests, faults>>

PlayerDies ==
  /\ Alive /\ Fault
  /\ mpv' = Off
  /\ astray' = FALSE
  /\ UNCHANGED <<tvMode, current, lastVod, history, marker, lock, resume, coldStart,
                 callVars, requests>>

\* The web process restarts: its threads and locks are gone, mpv and the files
\* stay.
Restart ==
  /\ Fault
  /\ pc' = [t \in Threads |-> "idle"]
  /\ lock' = None
  /\ astray' = (Alive /\ (astray \/ lock # None))
  /\ UNCHANGED <<deskVars, resume, coldStart, planVars, requests, still>>

\* Mutant of MarkerExpires.
MarkerStays == FALSE /\ UNCHANGED playerVars

\* A marker older than two minutes no longer counts; none of the live requests
\* takes that long.
MarkerExpires ==
  /\ marker /\ pc["tune"] = "idle"
  /\ marker' = FALSE
  /\ UNCHANGED <<mpv, tvMode, current, lastVod, history, playVars, callVars,
                 requests, faults>>

\* What a request does next, of itself; only a bounded number of steps fail.
Proceed(t) ==
  \/ Play(t) \/ PlayFails(t)
  \/ Suspend(t) \/ Pause(t) \/ Checkpoint(t) \/ SuspendRaises(t)
  \/ Halt(t) \/ HaltRaises(t) \/ Unit(t)

ProceedTune == Proceed("tune") \/ Mark \/ Unmark
ProceedSwitch ==
  \/ Proceed("switch")
  \/ Leave \/ Refresh \/ Clear \/ Restore \/ RestoreFails \/ Empty \/ Unpause

CNext ==
  \/ AskVideo \/ AskChannel \/ AskMode
  \/ Proceed("video") \/ ProceedTune \/ ProceedSwitch
  \/ Monitor \/ Advance \/ PlayerDies \/ Restart \/ MarkerExpires

\* Threads run and time passes; nobody has to ask, and nothing has to fail.
CSpec ==
  /\ CInit /\ [][CNext]_playerVars
  /\ WF_playerVars(Proceed("video"))
  /\ WF_playerVars(ProceedTune)
  /\ WF_playerVars(ProceedSwitch)
  /\ WF_playerVars(MarkerExpires)

-----------------------------------------------------------------------------
(* Properties *)

\* The state of the player is well formed.
CTypeOK ==
  /\ mpv \in [file: Titles \cup {None}, pos: 0..End, paused: BOOLEAN]
  /\ tvMode \in Modes
  /\ current \in Titles \cup {None}
  /\ lastVod \in Vods \cup {None}
  /\ history \in [Vods -> 0..(End - 1)]
  /\ marker \in BOOLEAN
  /\ lock \in Threads \cup {None}
  /\ pc \in [Threads -> Phases]
  /\ arg \in [Threads -> Titles \cup {None}]
  /\ goal \in [Threads -> Modes]
  /\ saw \in Modes \cup {"tv"}
  /\ {parked, snapshot, still} \subseteq BOOLEAN
  /\ resume \in 0..(End - 1)
  /\ coldStart \in BOOLEAN
  /\ astray \in BOOLEAN
  /\ requests \in 0..MaxRequests
  /\ faults \in 0..MaxFaults

\* Whenever nobody is in the middle of play, current.json names what mpv really
\* has loaded, or nothing: the progress monitor, the mode display and the hand-off
\* all believe it.  What fails in play is followed by a cold start or a stop, so
\* that the two agree again; the exceptions are a play that a restart cuts off,
\* and one that raises while its mpv cannot be stopped or, behind the start of
\* the unit (player.py:1221), is not even told to (player.py, play and
\* _replace_active_mpv).
CurrentNamesFile ==
  Alive /\ lock = None /\ ~astray => current \in {mpv.file, None}

\* A resume position changes only by what its own video was seen to do, never
\* because another title was playing.  The exceptions are the fall-back of play
\* - when a replaced mpv is not seen to play, stop files the new file's position
\* under the old title - and a file that a play has left behind without naming
\* it: the monitor goes on to file its position under the old title (player.py,
\* save_current_progress and play).
WatchedIsRecorded ==
  [][\A v \in Vods :
       history'[v] # history[v] =>
         \/ mpv.file = v
         \/ \E t \in Threads :
              pc[t] = "cold" \/ (pc[t] \in {"await", "seek", "name"} /\ coldStart)
         \/ astray]_playerVars

\* A video that a mode switch has parked with a snapshot stands where the history
\* says, so that nothing is lost when the box is turned off in the other mode
\* (suspend_current_vod pauses before it saves), as long as no other request
\* has touched the player or the mode since the switch saw the video: without
\* the playback lock, a play or a stop may come in between.  Without a snapshot
\* the place is not saved, and the switch parks the video all the same.
ParkedPlaceSaved ==
  (pc["switch"] \in {"leave", "unit"} /\ parked /\ snapshot /\ still
     /\ mpv.file = current /\ current \in Vods)
  => history[current] = Stored(mpv.pos)

\* A playback or mode request ends, whatever the others do with mpv and the lock.
RequestsEnd == \A t \in Threads : pc[t] # "idle" ~> pc[t] = "idle"

\* The display does not stay in an IPTV transition for ever, even when the
\* process that began it was restarted (_iptv_transition_active).
TransitionEnds == marker ~> ~marker

\* "Live TV is stopped, never parked in a growing paused buffer" (switch_mode).
LiveNeverParked ==
  pc["switch"] = "unit" /\ parked => ~(mpv.paused /\ mpv.file \in Lives)
=============================================================================
