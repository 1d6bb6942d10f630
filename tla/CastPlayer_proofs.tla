-------------------------- MODULE CastPlayer_proofs --------------------------
(***************************************************************************)
(* What the player promises, for any titles, positions and numbers of      *)
(* requests and failures.                                                  *)
(***************************************************************************)
EXTENDS CastPlayer, TLAPS

\* The steps of play that hold the playback lock.
InPlay == {"load", "await", "seek", "name", "remember", "cold", "boot"}

LockInv == \A t \in Threads : pc[t] \in InPlay <=> lock = t

\* Outside of play, current.json names what mpv has loaded, unless a play has left
\* its file behind; inside, mpv has what it had before or what the play has given
\* it, or nothing.
FileInv ==
  /\ lock = None => CurrentNamesFile
  /\ \A t \in Threads :
       /\ pc[t] = "boot" => ~Alive
       /\ pc[t] \in {"load", "cold"} /\ Alive /\ ~astray =>
            current \in {mpv.file, None} \/ mpv.file = arg[t]
       /\ pc[t] \in {"await", "seek", "name", "remember"} => mpv.file \in {arg[t], None}
       /\ pc[t] = "remember" => current \in {arg[t], None}

\* Once a switch has parked what it saw, and nobody has touched it since, mpv
\* stands still, no play is about to name another file, and the place is saved.
ParkInv ==
  /\ parked => pc["switch"] \in {"leave", "unit", "idle"}
  /\ still /\ pc["switch"] \in {"pause", "checkpoint"} => tvMode = "mpv"
  /\ still /\ pc["switch"] = "checkpoint" /\ Alive => mpv.paused
  /\ still /\ parked /\ pc["switch"] \in {"leave", "unit"} =>
       /\ Alive => mpv.paused
       /\ \A t \in Threads : pc[t] \notin {"boot", "await", "seek", "name"}
  /\ ParkedPlaceSaved

PlayerInv == CTypeOK /\ LockInv /\ FileInv /\ ParkInv

\* A step is a step of one of the requests, of the monitor, or of nobody.
LEMMA PlayerSteps ==
  ASSUME [CNext]_playerVars
  PROVE  \/ \E t \in Threads :
              \/ Enter(t) \/ Load(t) \/ LoadFails(t) \/ ColdStop(t) \/ Boot(t)
              \/ WaitLoaded(t) \/ Seek(t) \/ Name(t) \/ Remember(t)
              \/ ProbeFails(t) \/ BootFails(t) \/ NotSeen(t)
              \/ Suspend(t) \/ Pause(t) \/ Checkpoint(t) \/ Halt(t) \/ Unit(t)
              \/ ColdStopRaises(t) \/ SuspendRaises(t) \/ HaltRaises(t)
         \/ Mark \/ Unmark \/ Leave \/ Refresh \/ Clear \/ Restore \/ RestoreFails
         \/ Empty \/ Unpause
         \/ AskVideo \/ AskChannel \/ AskMode \/ Monitor \/ Advance \/ PlayerDies
         \/ Restart \/ MarkerExpires
         \/ UNCHANGED playerVars
PROOF BY DEF CNext, Proceed, ProceedTune, ProceedSwitch, Play, PlayFails, Threads

\* What saving does to the history.
LEMMA Saved ==
  ASSUME CTypeOK, SaveProgress
  PROVE  /\ history' \in [Vods -> 0..(End - 1)]
         /\ lastVod' \in Vods \cup {None}
         /\ \A v \in Vods : history'[v] # history[v] =>
              Alive /\ current = v
         /\ \A v \in Vods :
              history'[v] = history[v] \/ (v = current /\ history'[v] = Stored(mpv.pos))
PROOF
  <1>1. Stored(mpv.pos) \in 0..(End - 1)
    BY PlayerAssumption DEF CTypeOK, Stored
  <1> QED BY <1>1 DEF CTypeOK, SaveProgress, Filing, Filed

\* No player is a player, too.
LEMMA OffIsTyped == Off \in [file: Titles \cup {None}, pos: 0..End, paused: BOOLEAN]
PROOF BY PlayerAssumption DEF Off

\* The type invariant in parts: the player process, the threads, what is
\* remembered, and the rest.
MpvOK == mpv \in [file: Titles \cup {None}, pos: 0..End, paused: BOOLEAN]
PhasesOK == pc \in [Threads -> Phases]
MemoryOK == history \in [Vods -> 0..(End - 1)] /\ lastVod \in Vods \cup {None}
RestOK ==
  /\ tvMode \in Modes
  /\ current \in Titles \cup {None}
  /\ marker \in BOOLEAN
  /\ lock \in Threads \cup {None}
  /\ arg \in [Threads -> Titles \cup {None}]
  /\ goal \in [Threads -> Modes]
  /\ saw \in Modes \cup {"tv"}
  /\ {parked, snapshot, still} \subseteq BOOLEAN
  /\ resume \in 0..(End - 1)
  /\ coldStart \in BOOLEAN
  /\ astray \in BOOLEAN
  /\ requests \in 0..MaxRequests
  /\ faults \in 0..MaxFaults

\* A thread is always at one of the phases.
LEMMA PhasesStay ==
  ASSUME PhasesOK, [CNext]_playerVars
  PROVE  PhasesOK'
PROOF
  <1> USE DEF PhasesOK, Goto, callVars, planVars, Phases, Threads
  <1>1. ASSUME NEW t \in Threads, Enter(t) PROVE PhasesOK'
    BY <1>1 DEF Enter
  <1>2. ASSUME NEW t \in Threads, Load(t) PROVE PhasesOK'
    BY <1>2 DEF Load
  <1>3. ASSUME NEW t \in Threads, LoadFails(t) PROVE PhasesOK'
    BY <1>3 DEF LoadFails
  <1>4. ASSUME NEW t \in Threads, ColdStop(t) PROVE PhasesOK'
    BY <1>4 DEF ColdStop
  <1>5. ASSUME NEW t \in Threads, Boot(t) PROVE PhasesOK'
    BY <1>5 DEF Boot
  <1>6. ASSUME NEW t \in Threads, WaitLoaded(t) PROVE PhasesOK'
    BY <1>6 DEF WaitLoaded
  <1>7. ASSUME NEW t \in Threads, Seek(t) PROVE PhasesOK'
    BY <1>7 DEF Seek
  <1>8. ASSUME NEW t \in Threads, Name(t) PROVE PhasesOK'
    BY <1>8 DEF Name
  <1>9. ASSUME NEW t \in Threads, Remember(t) PROVE PhasesOK'
    BY <1>9 DEF Remember, AfterPlay
  <1>10. ASSUME NEW t \in Threads, ProbeFails(t) PROVE PhasesOK'
    BY <1>10 DEF ProbeFails, AfterPlay
  <1>11. ASSUME NEW t \in Threads, BootFails(t) PROVE PhasesOK'
    BY <1>11 DEF BootFails, PlayRaises, AfterPlay
  <1>12. ASSUME NEW t \in Threads, NotSeen(t) PROVE PhasesOK'
    BY <1>12 DEF NotSeen, PlayRaises, AfterPlay
  <1>13. ASSUME NEW t \in Threads, Suspend(t) PROVE PhasesOK'
    BY <1>13 DEF Suspend, AfterSuspend
  <1>14. ASSUME NEW t \in Threads, Pause(t) PROVE PhasesOK'
    BY <1>14 DEF Pause
  <1>15. ASSUME NEW t \in Threads, Checkpoint(t) PROVE PhasesOK'
    BY <1>15 DEF Checkpoint, AfterSuspend
  <1>16. ASSUME NEW t \in Threads, Halt(t) PROVE PhasesOK'
    BY <1>16 DEF Halt
  <1>17. ASSUME NEW t \in Threads, Unit(t) PROVE PhasesOK'
    BY <1>17 DEF Unit
  <1>18. ASSUME NEW t \in Threads, ColdStopRaises(t) PROVE PhasesOK'
    BY <1>18 DEF ColdStopRaises, PlayRaises, AfterPlay
  <1>19. ASSUME NEW t \in Threads, SuspendRaises(t) PROVE PhasesOK'
    BY <1>19 DEF SuspendRaises
  <1>20. ASSUME NEW t \in Threads, HaltRaises(t) PROVE PhasesOK'
    BY <1>20 DEF HaltRaises
  <1>21. CASE Mark
    BY <1>21 DEF Mark
  <1>22. CASE Unmark
    BY <1>22 DEF Unmark
  <1>23. CASE Leave
    BY <1>23 DEF Leave
  <1>24. CASE Refresh
    BY <1>24 DEF Refresh
  <1>25. CASE Clear
    BY <1>25 DEF Clear
  <1>26. CASE Restore
    BY <1>26 DEF Restore
  <1>27. CASE RestoreFails
    BY <1>27 DEF RestoreFails
  <1>28. CASE Empty
    BY <1>28 DEF Empty
  <1>29. CASE Unpause
    BY <1>29 DEF Unpause
  <1>30. CASE AskVideo
    BY <1>30 DEF AskVideo, Request
  <1>31. CASE AskChannel
    BY <1>31 DEF AskChannel, Request
  <1>32. CASE AskMode
    BY <1>32 DEF AskMode, Decide, Request
  <1>33. CASE Monitor
    BY <1>33 DEF Monitor
  <1>34. CASE Advance
    BY <1>34 DEF Advance
  <1>35. CASE PlayerDies
    BY <1>35 DEF PlayerDies
  <1>36. CASE Restart
    BY <1>36 DEF Restart
  <1>37. CASE MarkerExpires
    BY <1>37 DEF MarkerExpires
  <1>38. CASE UNCHANGED playerVars
    BY <1>38 DEF playerVars
  <1> QED
    BY PlayerSteps, <1>1, <1>2, <1>3, <1>4, <1>5, <1>6, <1>7, <1>8, <1>9,
       <1>10, <1>11, <1>12, <1>13, <1>14, <1>15, <1>16, <1>17, <1>18, <1>19,
       <1>20, <1>21, <1>22, <1>23, <1>24, <1>25, <1>26, <1>27, <1>28, <1>29,
       <1>30, <1>31, <1>32, <1>33, <1>34, <1>35, <1>36, <1>37, <1>38

\* What mpv is said to do is well formed.
LEMMA MpvStays ==
  ASSUME MpvOK, arg \in [Threads -> Titles \cup {None}], resume \in 0..(End - 1),
         [CNext]_playerVars
  PROVE  MpvOK'
PROOF
  <1> USE PlayerAssumption, OffIsTyped DEF MpvOK, deskVars
  <1>1. ASSUME NEW t \in Threads, Enter(t) PROVE MpvOK'
    BY <1>1 DEF Enter
  <1>2. ASSUME NEW t \in Threads, Load(t) PROVE MpvOK'
    BY <1>2 DEF Load
  <1>3. ASSUME NEW t \in Threads, LoadFails(t) PROVE MpvOK'
    BY <1>3 DEF LoadFails
  <1>4. ASSUME NEW t \in Threads, ColdStop(t) PROVE MpvOK'
    BY <1>4 DEF ColdStop, StopPlayer
  <1>5. ASSUME NEW t \in Threads, Boot(t) PROVE MpvOK'
    BY <1>5 DEF Boot
  <1>6. ASSUME NEW t \in Threads, WaitLoaded(t) PROVE MpvOK'
    BY <1>6 DEF WaitLoaded
  <1>7. ASSUME NEW t \in Threads, Seek(t) PROVE MpvOK'
    BY <1>7 DEF Seek
  <1>8. ASSUME NEW t \in Threads, Name(t) PROVE MpvOK'
    BY <1>8 DEF Name
  <1>9. ASSUME NEW t \in Threads, Remember(t) PROVE MpvOK'
    BY <1>9 DEF Remember
  <1>10. ASSUME NEW t \in Threads, ProbeFails(t) PROVE MpvOK'
    BY <1>10 DEF ProbeFails
  <1>11. ASSUME NEW t \in Threads, BootFails(t) PROVE MpvOK'
    <2>1. mpv' \in {mpv, [file |-> arg[t], pos |-> 0, paused |-> FALSE]}
      BY <1>11 DEF BootFails
    <2>2. arg[t] \in Titles \cup {None} /\ 0 \in 0..End
      OBVIOUS
    <2>3. [file |-> arg[t], pos |-> 0, paused |-> FALSE]
            \in [file: Titles \cup {None}, pos: 0..End, paused: BOOLEAN]
      BY <2>2
    <2> QED BY <2>1, <2>3
  <1>12. ASSUME NEW t \in Threads, NotSeen(t) PROVE MpvOK'
    BY <1>12 DEF NotSeen, PlayRaises, StopPlayer
  <1>13. ASSUME NEW t \in Threads, Suspend(t) PROVE MpvOK'
    BY <1>13 DEF Suspend
  <1>14. ASSUME NEW t \in Threads, Pause(t) PROVE MpvOK'
    BY <1>14 DEF Pause
  <1>15. ASSUME NEW t \in Threads, Checkpoint(t) PROVE MpvOK'
    BY <1>15 DEF Checkpoint
  <1>16. ASSUME NEW t \in Threads, Halt(t) PROVE MpvOK'
    BY <1>16 DEF Halt, StopPlayer
  <1>17. ASSUME NEW t \in Threads, Unit(t) PROVE MpvOK'
    BY <1>17 DEF Unit
  <1>18. ASSUME NEW t \in Threads, ColdStopRaises(t) PROVE MpvOK'
    BY <1>18 DEF ColdStopRaises, StopRaises
  <1>19. ASSUME NEW t \in Threads, SuspendRaises(t) PROVE MpvOK'
    BY <1>19 DEF SuspendRaises
  <1>20. ASSUME NEW t \in Threads, HaltRaises(t) PROVE MpvOK'
    BY <1>20 DEF HaltRaises, StopRaises
  <1>21. CASE Mark
    BY <1>21 DEF Mark
  <1>22. CASE Unmark
    BY <1>22 DEF Unmark
  <1>23. CASE Leave
    BY <1>23 DEF Leave
  <1>24. CASE Refresh
    BY <1>24 DEF Refresh, StopPlayer
  <1>25. CASE Clear
    BY <1>25 DEF Clear
  <1>26. CASE Restore
    BY <1>26 DEF Restore
  <1>27. CASE RestoreFails
    BY <1>27 DEF RestoreFails
  <1>28. CASE Empty
    BY <1>28 DEF Empty, StopPlayer
  <1>29. CASE Unpause
    BY <1>29 DEF Unpause
  <1>30. CASE AskVideo
    BY <1>30 DEF AskVideo, Request
  <1>31. CASE AskChannel
    BY <1>31 DEF AskChannel, Request
  <1>32. CASE AskMode
    BY <1>32 DEF AskMode, Decide, Request
  <1>33. CASE Monitor
    BY <1>33 DEF Monitor
  <1>34. CASE Advance
    BY <1>34 DEF Advance
  <1>35. CASE PlayerDies
    BY <1>35 DEF PlayerDies
  <1>36. CASE Restart
    BY <1>36 DEF Restart
  <1>37. CASE MarkerExpires
    BY <1>37 DEF MarkerExpires
  <1>38. CASE UNCHANGED playerVars
    BY <1>38 DEF playerVars
  <1> QED
    BY PlayerSteps, <1>1, <1>2, <1>3, <1>4, <1>5, <1>6, <1>7, <1>8, <1>9,
       <1>10, <1>11, <1>12, <1>13, <1>14, <1>15, <1>16, <1>17, <1>18, <1>19,
       <1>20, <1>21, <1>22, <1>23, <1>24, <1>25, <1>26, <1>27, <1>28, <1>29,
       <1>30, <1>31, <1>32, <1>33, <1>34, <1>35, <1>36, <1>37, <1>38

\* The history and the video to return to are well formed.
LEMMA MemoryStays ==
  ASSUME CTypeOK, [CNext]_playerVars
  PROVE  MemoryOK'
PROOF
  <1> USE DEF CTypeOK, MemoryOK, deskVars, Titles
  <1>1. ASSUME NEW t \in Threads, Enter(t) PROVE MemoryOK'
    BY <1>1, Saved DEF Enter
  <1>2. ASSUME NEW t \in Threads, Load(t) PROVE MemoryOK'
    BY <1>2 DEF Load
  <1>3. ASSUME NEW t \in Threads, LoadFails(t) PROVE MemoryOK'
    BY <1>3 DEF LoadFails
  <1>4. ASSUME NEW t \in Threads, ColdStop(t) PROVE MemoryOK'
    BY <1>4, Saved DEF ColdStop, StopPlayer
  <1>5. ASSUME NEW t \in Threads, Boot(t) PROVE MemoryOK'
    BY <1>5 DEF Boot
  <1>6. ASSUME NEW t \in Threads, WaitLoaded(t) PROVE MemoryOK'
    BY <1>6 DEF WaitLoaded
  <1>7. ASSUME NEW t \in Threads, Seek(t) PROVE MemoryOK'
    BY <1>7 DEF Seek
  <1>8. ASSUME NEW t \in Threads, Name(t) PROVE MemoryOK'
    BY <1>8 DEF Name
  <1>9. ASSUME NEW t \in Threads, Remember(t) PROVE MemoryOK'
    BY <1>9 DEF Remember
  <1>10. ASSUME NEW t \in Threads, ProbeFails(t) PROVE MemoryOK'
    BY <1>10, Saved DEF ProbeFails
  <1>11. ASSUME NEW t \in Threads, BootFails(t) PROVE MemoryOK'
    BY <1>11 DEF BootFails, PlayRaises
  <1>12. ASSUME NEW t \in Threads, NotSeen(t) PROVE MemoryOK'
    BY <1>12, Saved DEF NotSeen, PlayRaises, StopPlayer
  <1>13. ASSUME NEW t \in Threads, Suspend(t) PROVE MemoryOK'
    BY <1>13 DEF Suspend
  <1>14. ASSUME NEW t \in Threads, Pause(t) PROVE MemoryOK'
    BY <1>14 DEF Pause
  <1>15. ASSUME NEW t \in Threads, Checkpoint(t) PROVE MemoryOK'
    BY <1>15, Saved DEF Checkpoint, SaveProgress
  <1>16. ASSUME NEW t \in Threads, Halt(t) PROVE MemoryOK'
    BY <1>16, Saved DEF Halt, StopPlayer
  <1>17. ASSUME NEW t \in Threads, Unit(t) PROVE MemoryOK'
    BY <1>17 DEF Unit
  <1>18. ASSUME NEW t \in Threads, ColdStopRaises(t) PROVE MemoryOK'
    BY <1>18, Saved DEF ColdStopRaises, StopRaises
  <1>19. ASSUME NEW t \in Threads, SuspendRaises(t) PROVE MemoryOK'
    BY <1>19, Saved DEF SuspendRaises
  <1>20. ASSUME NEW t \in Threads, HaltRaises(t) PROVE MemoryOK'
    BY <1>20, Saved DEF HaltRaises, StopRaises
  <1>21. CASE Mark
    BY <1>21 DEF Mark
  <1>22. CASE Unmark
    BY <1>22 DEF Unmark
  <1>23. CASE Leave
    BY <1>23 DEF Leave
  <1>24. CASE Refresh
    BY <1>24, Saved DEF Refresh, StopPlayer
  <1>25. CASE Clear
    BY <1>25 DEF Clear
  <1>26. CASE Restore
    BY <1>26 DEF Restore
  <1>27. CASE RestoreFails
    BY <1>27 DEF RestoreFails
  <1>28. CASE Empty
    BY <1>28, Saved DEF Empty, StopPlayer
  <1>29. CASE Unpause
    BY <1>29 DEF Unpause
  <1>30. CASE AskVideo
    BY <1>30 DEF AskVideo, Request
  <1>31. CASE AskChannel
    BY <1>31 DEF AskChannel, Request
  <1>32. CASE AskMode
    BY <1>32 DEF AskMode, Decide, Request
  <1>33. CASE Monitor
    BY <1>33, Saved DEF Monitor
  <1>34. CASE Advance
    BY <1>34 DEF Advance
  <1>35. CASE PlayerDies
    BY <1>35 DEF PlayerDies
  <1>36. CASE Restart
    BY <1>36 DEF Restart
  <1>37. CASE MarkerExpires
    BY <1>37 DEF MarkerExpires
  <1>38. CASE UNCHANGED playerVars
    BY <1>38 DEF playerVars
  <1> QED
    BY PlayerSteps, <1>1, <1>2, <1>3, <1>4, <1>5, <1>6, <1>7, <1>8, <1>9,
       <1>10, <1>11, <1>12, <1>13, <1>14, <1>15, <1>16, <1>17, <1>18, <1>19,
       <1>20, <1>21, <1>22, <1>23, <1>24, <1>25, <1>26, <1>27, <1>28, <1>29,
       <1>30, <1>31, <1>32, <1>33, <1>34, <1>35, <1>36, <1>37, <1>38

\* The files and the requests stay well formed.
LEMMA RestStays ==
  ASSUME CTypeOK, [CNext]_playerVars
  PROVE  RestOK'
PROOF
  <1> USE PlayerAssumption DEF CTypeOK, RestOK, Touch, Fault, deskVars,
          playVars, callVars, planVars, Titles, Modes, Threads
  <1>1. ASSUME NEW t \in Threads, Enter(t) PROVE RestOK'
    <2>1. history' \in [Vods -> 0..(End - 1)]
      BY <1>1, Saved DEF Enter
    <2>2. resume' \in 0..(End - 1)
      BY <1>1, <2>1, PlayerAssumption DEF Enter
    <2> QED BY <1>1, <2>2 DEF Enter
  <1>2. ASSUME NEW t \in Threads, Load(t) PROVE RestOK'
    BY <1>2 DEF Load
  <1>3. ASSUME NEW t \in Threads, LoadFails(t) PROVE RestOK'
    BY <1>3 DEF LoadFails
  <1>4. ASSUME NEW t \in Threads, ColdStop(t) PROVE RestOK'
    BY <1>4 DEF ColdStop, StopPlayer
  <1>5. ASSUME NEW t \in Threads, Boot(t) PROVE RestOK'
    BY <1>5 DEF Boot
  <1>6. ASSUME NEW t \in Threads, WaitLoaded(t) PROVE RestOK'
    BY <1>6 DEF WaitLoaded
  <1>7. ASSUME NEW t \in Threads, Seek(t) PROVE RestOK'
    BY <1>7 DEF Seek
  <1>8. ASSUME NEW t \in Threads, Name(t) PROVE RestOK'
    <2>1. UNCHANGED <<tvMode, marker, lock, arg, goal, saw, parked, snapshot, still,
                   resume, coldStart, requests, faults>>
      BY <1>8 DEF Name
    <2>2. current' \in Titles \cup {None} /\ astray' = FALSE
      BY <1>8 DEF Name
    <2> QED BY <2>1, <2>2
  <1>9. ASSUME NEW t \in Threads, Remember(t) PROVE RestOK'
    BY <1>9 DEF Remember
  <1>10. ASSUME NEW t \in Threads, ProbeFails(t) PROVE RestOK'
    BY <1>10 DEF ProbeFails
  <1>11. ASSUME NEW t \in Threads, BootFails(t) PROVE RestOK'
    <2>1. tvMode' \in Modes
      BY <1>11 DEF BootFails, PlayRaises
    <2>2. faults' \in 0..MaxFaults
      BY <1>11 DEF BootFails, PlayRaises
    <2> QED BY <1>11, <2>1, <2>2 DEF BootFails, PlayRaises
  <1>12. ASSUME NEW t \in Threads, NotSeen(t) PROVE RestOK'
    <2>1. lock' \in Threads \cup {None}
      BY <1>12 DEF NotSeen, PlayRaises
    <2>2. faults' \in 0..MaxFaults
      BY <1>12 DEF NotSeen, PlayRaises
    <2>3. still' \in BOOLEAN
      BY <1>12 DEF NotSeen, PlayRaises
    <2> QED BY <1>12, <2>1, <2>2, <2>3 DEF NotSeen, PlayRaises
  <1>13. ASSUME NEW t \in Threads, Suspend(t) PROVE RestOK'
    <2>1. parked' \in BOOLEAN
      BY <1>13 DEF Suspend, AfterSuspend
    <2>2. still' \in BOOLEAN
      BY <1>13 DEF Suspend
    <2> QED BY <1>13, <2>1, <2>2 DEF Suspend
  <1>14. ASSUME NEW t \in Threads, Pause(t) PROVE RestOK'
    BY <1>14 DEF Pause
  <1>15. ASSUME NEW t \in Threads, Checkpoint(t) PROVE RestOK'
    <2>1. parked' \in BOOLEAN
      BY <1>15 DEF Checkpoint, AfterSuspend
    <2>2. snapshot' \in BOOLEAN
      BY <1>15 DEF Checkpoint, Snapshot
    <2> QED BY <1>15, <2>1, <2>2 DEF Checkpoint
  <1>16. ASSUME NEW t \in Threads, Halt(t) PROVE RestOK'
    BY <1>16 DEF Halt, StopPlayer
  <1>17. ASSUME NEW t \in Threads, Unit(t) PROVE RestOK'
    BY <1>17 DEF Unit
  <1>18. ASSUME NEW t \in Threads, ColdStopRaises(t) PROVE RestOK'
    BY <1>18 DEF ColdStopRaises, StopRaises, PlayRaises
  <1>19. ASSUME NEW t \in Threads, SuspendRaises(t) PROVE RestOK'
    BY <1>19 DEF SuspendRaises
  <1>20. ASSUME NEW t \in Threads, HaltRaises(t) PROVE RestOK'
    BY <1>20 DEF HaltRaises, StopRaises
  <1>21. CASE Mark
    BY <1>21 DEF Mark
  <1>22. CASE Unmark
    <2>1. UNCHANGED <<tvMode, current, lock, arg, goal, saw, parked, snapshot, still,
                   resume, coldStart, astray, requests, faults>>
      BY <1>22 DEF Unmark
    <2>2. marker' \in BOOLEAN
      BY <1>22 DEF Unmark
    <2> QED BY <2>1, <2>2
  <1>23. CASE Leave
    BY <1>23 DEF Leave
  <1>24. CASE Refresh
    BY <1>24 DEF Refresh, StopPlayer
  <1>25. CASE Clear
    BY <1>25 DEF Clear
  <1>26. CASE Restore
    BY <1>26 DEF Restore
  <1>27. CASE RestoreFails
    BY <1>27 DEF RestoreFails
  <1>28. CASE Empty
    BY <1>28 DEF Empty, StopPlayer
  <1>29. CASE Unpause
    BY <1>29 DEF Unpause
  <1>30. CASE AskVideo
    BY <1>30 DEF AskVideo, Request
  <1>31. CASE AskChannel
    BY <1>31 DEF AskChannel, Request
  <1>32. CASE AskMode
    <2>1. PICK mode \in Modes : Decide(mode)
      BY <1>32 DEF AskMode
    <2>2. saw' \in Modes \cup {"tv"}
      BY <2>1 DEF Decide, ModeStatus
    <2>3. goal' \in [Threads -> Modes]
      BY <2>1 DEF Decide
    <2>4. UNCHANGED <<deskVars, playVars, arg, faults>> /\ parked' = FALSE
         /\ snapshot' = FALSE /\ still' = FALSE
      BY <2>1 DEF Decide
    <2>5. requests' \in 0..MaxRequests
      BY <1>32 DEF AskMode, Request
    <2> QED BY <2>2, <2>3, <2>4, <2>5
  <1>33. CASE Monitor
    BY <1>33 DEF Monitor
  <1>34. CASE Advance
    BY <1>34 DEF Advance
  <1>35. CASE PlayerDies
    <2>1. UNCHANGED <<tvMode, current, marker, lock, arg, goal, saw, parked,
                   snapshot, still, resume, coldStart, requests>>
      BY <1>35 DEF PlayerDies
    <2>2. astray' = FALSE /\ faults' \in 0..MaxFaults
      BY <1>35 DEF PlayerDies
    <2> QED BY <2>1, <2>2
  <1>36. CASE Restart
    BY <1>36 DEF Restart
  <1>37. CASE MarkerExpires
    <2>1. UNCHANGED <<tvMode, current, lock, arg, goal, saw, parked, snapshot, still,
                   resume, coldStart, astray, requests, faults>>
      BY <1>37 DEF MarkerExpires
    <2>2. marker' \in BOOLEAN
      BY <1>37 DEF MarkerExpires
    <2> QED BY <2>1, <2>2
  <1>38. CASE UNCHANGED playerVars
    BY <1>38 DEF playerVars
  <1> QED
    BY PlayerSteps, <1>1, <1>2, <1>3, <1>4, <1>5, <1>6, <1>7, <1>8, <1>9,
       <1>10, <1>11, <1>12, <1>13, <1>14, <1>15, <1>16, <1>17, <1>18, <1>19,
       <1>20, <1>21, <1>22, <1>23, <1>24, <1>25, <1>26, <1>27, <1>28, <1>29,
       <1>30, <1>31, <1>32, <1>33, <1>34, <1>35, <1>36, <1>37, <1>38

\* The state stays well formed.
LEMMA TypeInductive ==
  ASSUME CTypeOK, [CNext]_playerVars
  PROVE  CTypeOK'
PROOF
  <1>1. CTypeOK <=> MpvOK /\ PhasesOK /\ MemoryOK /\ RestOK
    BY DEF CTypeOK, MpvOK, PhasesOK, MemoryOK, RestOK
  <1>2. arg \in [Threads -> Titles \cup {None}] /\ resume \in 0..(End - 1)
    BY DEF CTypeOK
  <1>3. MpvOK' /\ PhasesOK' /\ MemoryOK' /\ RestOK'
    BY <1>1, <1>2, PhasesStay, MpvStays, MemoryStays, RestStays
  <1> QED BY <1>3 DEF CTypeOK, MpvOK, PhasesOK, MemoryOK, RestOK

\* The playback lock is held by the one thread in play.
LEMMA LockStays ==
  ASSUME CTypeOK, LockInv, [CNext]_playerVars
  PROVE  LockInv'
PROOF
  <1> USE PlayerAssumption DEF CTypeOK, LockInv, InPlay, Goto, Threads,
          deskVars, playVars, callVars, planVars
  <1>1. ASSUME NEW t \in Threads, Enter(t) PROVE LockInv'
    BY <1>1 DEF Enter
  <1>2. ASSUME NEW t \in Threads, Load(t) PROVE LockInv'
    BY <1>2 DEF Load
  <1>3. ASSUME NEW t \in Threads, LoadFails(t) PROVE LockInv'
    BY <1>3 DEF LoadFails
  <1>4. ASSUME NEW t \in Threads, ColdStop(t) PROVE LockInv'
    BY <1>4 DEF ColdStop, StopPlayer
  <1>5. ASSUME NEW t \in Threads, Boot(t) PROVE LockInv'
    BY <1>5 DEF Boot
  <1>6. ASSUME NEW t \in Threads, WaitLoaded(t) PROVE LockInv'
    BY <1>6 DEF WaitLoaded
  <1>7. ASSUME NEW t \in Threads, Seek(t) PROVE LockInv'
    BY <1>7 DEF Seek
  <1>8. ASSUME NEW t \in Threads, Name(t) PROVE LockInv'
    BY <1>8 DEF Name
  <1>9. ASSUME NEW t \in Threads, Remember(t) PROVE LockInv'
    BY <1>9 DEF Remember, AfterPlay
  <1>10. ASSUME NEW t \in Threads, ProbeFails(t) PROVE LockInv'
    BY <1>10 DEF ProbeFails, AfterPlay
  <1>11. ASSUME NEW t \in Threads, BootFails(t) PROVE LockInv'
    BY <1>11 DEF BootFails, PlayRaises, AfterPlay
  <1>12. ASSUME NEW t \in Threads, NotSeen(t) PROVE LockInv'
    BY <1>12 DEF NotSeen, PlayRaises, StopPlayer, AfterPlay
  <1>13. ASSUME NEW t \in Threads, Suspend(t) PROVE LockInv'
    BY <1>13 DEF Suspend, AfterSuspend
  <1>14. ASSUME NEW t \in Threads, Pause(t) PROVE LockInv'
    BY <1>14 DEF Pause
  <1>15. ASSUME NEW t \in Threads, Checkpoint(t) PROVE LockInv'
    BY <1>15 DEF Checkpoint, AfterSuspend
  <1>16. ASSUME NEW t \in Threads, Halt(t) PROVE LockInv'
    BY <1>16 DEF Halt, StopPlayer
  <1>17. ASSUME NEW t \in Threads, Unit(t) PROVE LockInv'
    BY <1>17 DEF Unit
  <1>18. ASSUME NEW t \in Threads, ColdStopRaises(t) PROVE LockInv'
    BY <1>18 DEF ColdStopRaises, PlayRaises, AfterPlay
  <1>19. ASSUME NEW t \in Threads, SuspendRaises(t) PROVE LockInv'
    BY <1>19 DEF SuspendRaises
  <1>20. ASSUME NEW t \in Threads, HaltRaises(t) PROVE LockInv'
    BY <1>20 DEF HaltRaises
  <1>21. CASE Mark
    BY <1>21 DEF Mark
  <1>22. CASE Unmark
    BY <1>22 DEF Unmark
  <1>23. CASE Leave
    BY <1>23 DEF Leave
  <1>24. CASE Refresh
    BY <1>24 DEF Refresh, StopPlayer
  <1>25. CASE Clear
    BY <1>25 DEF Clear
  <1>26. CASE Restore
    BY <1>26 DEF Restore
  <1>27. CASE RestoreFails
    BY <1>27 DEF RestoreFails
  <1>28. CASE Empty
    BY <1>28 DEF Empty, StopPlayer
  <1>29. CASE Unpause
    BY <1>29 DEF Unpause
  <1>30. CASE AskVideo
    BY <1>30 DEF AskVideo, Request
  <1>31. CASE AskChannel
    BY <1>31 DEF AskChannel, Request
  <1>32. CASE AskMode
    BY <1>32 DEF AskMode, Decide, Request
  <1>33. CASE Monitor
    BY <1>33 DEF Monitor
  <1>34. CASE Advance
    BY <1>34 DEF Advance
  <1>35. CASE PlayerDies
    BY <1>35 DEF PlayerDies
  <1>36. CASE Restart
    BY <1>36 DEF Restart
  <1>37. CASE MarkerExpires
    BY <1>37 DEF MarkerExpires
  <1>38. CASE UNCHANGED playerVars
    BY <1>38 DEF playerVars
  <1> QED
    BY PlayerSteps, <1>1, <1>2, <1>3, <1>4, <1>5, <1>6, <1>7, <1>8, <1>9,
       <1>10, <1>11, <1>12, <1>13, <1>14, <1>15, <1>16, <1>17, <1>18, <1>19,
       <1>20, <1>21, <1>22, <1>23, <1>24, <1>25, <1>26, <1>27, <1>28, <1>29,
       <1>30, <1>31, <1>32, <1>33, <1>34, <1>35, <1>36, <1>37, <1>38

\* A play that raises leaves nobody in play.
LEMMA PhasesRaise ==
  ASSUME CTypeOK, NEW t \in Threads, PlayRaises(t)
  PROVE  /\ pc' \in [Threads -> Phases]
         /\ pc'[t] \notin InPlay
         /\ \A u \in Threads : u # t => pc'[u] = pc[u]
PROOF BY DEF CTypeOK, PlayRaises, AfterPlay, Goto, Phases, InPlay, Threads

\* current.json names what mpv has loaded.
LEMMA FileStays ==
  ASSUME CTypeOK, LockInv, FileInv, [CNext]_playerVars
  PROVE  FileInv'
PROOF
  <1> USE PlayerAssumption DEF CTypeOK, LockInv, FileInv, CurrentNamesFile,
          Alive, Off, InPlay, Goto, Threads, deskVars, playVars, callVars, planVars
  <1>1. ASSUME NEW t \in Threads, Enter(t) PROVE FileInv'
    BY <1>1 DEF Enter
  <1>2. ASSUME NEW t \in Threads, Load(t) PROVE FileInv'
    BY <1>2 DEF Load
  <1>3. ASSUME NEW t \in Threads, LoadFails(t) PROVE FileInv'
    BY <1>3 DEF LoadFails
  <1>4. ASSUME NEW t \in Threads, ColdStop(t) PROVE FileInv'
    BY <1>4 DEF ColdStop, StopPlayer
  <1>5. ASSUME NEW t \in Threads, Boot(t) PROVE FileInv'
    BY <1>5 DEF Boot
  <1>6. ASSUME NEW t \in Threads, WaitLoaded(t) PROVE FileInv'
    BY <1>6 DEF WaitLoaded
  <1>7. ASSUME NEW t \in Threads, Seek(t) PROVE FileInv'
    BY <1>7 DEF Seek
  <1>8. ASSUME NEW t \in Threads, Name(t) PROVE FileInv'
    BY <1>8 DEF Name
  <1>9. ASSUME NEW t \in Threads, Remember(t) PROVE FileInv'
    BY <1>9 DEF Remember, AfterPlay
  <1>10. ASSUME NEW t \in Threads, ProbeFails(t) PROVE FileInv'
    BY <1>10 DEF ProbeFails, AfterPlay
  <1>11. ASSUME NEW t \in Threads, BootFails(t) PROVE FileInv'
    <2>1. /\ pc[t] = "boot" /\ lock = t /\ mpv.file = None
          /\ lock' = None /\ arg' = arg /\ current' = current
      BY <1>11 DEF BootFails, PlayRaises
    <2>2. mpv'.file \in {None, arg[t]}
      BY <1>11, <2>1 DEF BootFails
    <2>3. Alive' => astray'
      BY <1>11, <2>2 DEF BootFails, PlayRaises
    <2>4. pc' \in [Threads -> Phases]
          /\ \A u \in Threads : pc'[u] \in InPlay => u # t /\ pc[u] \in InPlay
      BY <1>11, PhasesRaise DEF BootFails
    <2>5. \A u \in Threads : pc'[u] \notin InPlay
      BY <2>1, <2>4
    <2> QED BY <2>1, <2>3, <2>5
  <1>12. ASSUME NEW t \in Threads, NotSeen(t) PROVE FileInv'
    BY <1>12 DEF NotSeen, PlayRaises, StopPlayer, AfterPlay
  <1>13. ASSUME NEW t \in Threads, Suspend(t) PROVE FileInv'
    BY <1>13 DEF Suspend, AfterSuspend
  <1>14. ASSUME NEW t \in Threads, Pause(t) PROVE FileInv'
    BY <1>14 DEF Pause
  <1>15. ASSUME NEW t \in Threads, Checkpoint(t) PROVE FileInv'
    BY <1>15 DEF Checkpoint, AfterSuspend
  <1>16. ASSUME NEW t \in Threads, Halt(t) PROVE FileInv'
    BY <1>16 DEF Halt, StopPlayer
  <1>17. ASSUME NEW t \in Threads, Unit(t) PROVE FileInv'
    BY <1>17 DEF Unit
  <1>18. ASSUME NEW t \in Threads, ColdStopRaises(t) PROVE FileInv'
    <2>1. /\ pc[t] = "cold" /\ lock = t
          /\ lock' = None /\ arg' = arg /\ current' = current
      BY <1>18 DEF ColdStopRaises, PlayRaises
    <2>2. mpv'.file \in {None, mpv.file}
      BY <1>18 DEF ColdStopRaises, StopRaises
    <2>3. Alive' /\ ~astray' => mpv'.file = mpv.file /\ ~astray /\ mpv.file # arg[t]
      BY <1>18, <2>2 DEF ColdStopRaises, PlayRaises
    <2>4. CurrentNamesFile'
      BY <2>1, <2>2, <2>3
    <2>5. \A u \in Threads : pc'[u] \notin InPlay
      BY <1>18, <2>1, PhasesRaise DEF ColdStopRaises
    <2> QED BY <2>1, <2>4, <2>5
  <1>19. ASSUME NEW t \in Threads, SuspendRaises(t) PROVE FileInv'
    BY <1>19 DEF SuspendRaises
  <1>20. ASSUME NEW t \in Threads, HaltRaises(t) PROVE FileInv'
    BY <1>20 DEF HaltRaises, StopRaises
  <1>21. CASE Mark
    BY <1>21 DEF Mark
  <1>22. CASE Unmark
    BY <1>22 DEF Unmark
  <1>23. CASE Leave
    BY <1>23 DEF Leave
  <1>24. CASE Refresh
    BY <1>24 DEF Refresh, StopPlayer
  <1>25. CASE Clear
    BY <1>25 DEF Clear
  <1>26. CASE Restore
    BY <1>26 DEF Restore
  <1>27. CASE RestoreFails
    BY <1>27 DEF RestoreFails
  <1>28. CASE Empty
    BY <1>28 DEF Empty, StopPlayer
  <1>29. CASE Unpause
    BY <1>29 DEF Unpause
  <1>30. CASE AskVideo
    BY <1>30 DEF AskVideo, Request
  <1>31. CASE AskChannel
    BY <1>31 DEF AskChannel, Request
  <1>32. CASE AskMode
    BY <1>32 DEF AskMode, Decide, Request
  <1>33. CASE Monitor
    BY <1>33 DEF Monitor
  <1>34. CASE Advance
    BY <1>34 DEF Advance
  <1>35. CASE PlayerDies
    BY <1>35 DEF PlayerDies
  <1>36. CASE Restart
    BY <1>36 DEF Restart
  <1>37. CASE MarkerExpires
    BY <1>37 DEF MarkerExpires
  <1>38. CASE UNCHANGED playerVars
    BY <1>38 DEF playerVars
  <1> QED
    BY PlayerSteps, <1>1, <1>2, <1>3, <1>4, <1>5, <1>6, <1>7, <1>8, <1>9,
       <1>10, <1>11, <1>12, <1>13, <1>14, <1>15, <1>16, <1>17, <1>18, <1>19,
       <1>20, <1>21, <1>22, <1>23, <1>24, <1>25, <1>26, <1>27, <1>28, <1>29,
       <1>30, <1>31, <1>32, <1>33, <1>34, <1>35, <1>36, <1>37, <1>38

\* What a switch has parked stands still, and its place is saved.
LEMMA ParkStays ==
  ASSUME CTypeOK, LockInv, FileInv, ParkInv, [CNext]_playerVars
  PROVE  ParkInv'
PROOF
  <1> USE PlayerAssumption DEF CTypeOK, LockInv, ParkInv, ParkedPlaceSaved,
          Alive, Off, InPlay, Goto, Touch, Threads, deskVars, playVars, callVars, planVars
  <1>1. ASSUME NEW t \in Threads, Enter(t) PROVE ParkInv'
    BY <1>1, Saved DEF Enter
  <1>2. ASSUME NEW t \in Threads, Load(t) PROVE ParkInv'
    BY <1>2 DEF Load
  <1>3. ASSUME NEW t \in Threads, LoadFails(t) PROVE ParkInv'
    BY <1>3 DEF LoadFails
  <1>4. ASSUME NEW t \in Threads, ColdStop(t) PROVE ParkInv'
    BY <1>4, Saved DEF ColdStop, StopPlayer
  <1>5. ASSUME NEW t \in Threads, Boot(t) PROVE ParkInv'
    BY <1>5 DEF Boot
  <1>6. ASSUME NEW t \in Threads, WaitLoaded(t) PROVE ParkInv'
    BY <1>6 DEF WaitLoaded
  <1>7. ASSUME NEW t \in Threads, Seek(t) PROVE ParkInv'
    BY <1>7 DEF Seek
  <1>8. ASSUME NEW t \in Threads, Name(t) PROVE ParkInv'
    BY <1>8 DEF Name
  <1>9. ASSUME NEW t \in Threads, Remember(t) PROVE ParkInv'
    BY <1>9 DEF Remember, AfterPlay
  <1>10. ASSUME NEW t \in Threads, ProbeFails(t) PROVE ParkInv'
    BY <1>10, Saved DEF ProbeFails, AfterPlay
  <1>11. ASSUME NEW t \in Threads, BootFails(t) PROVE ParkInv'
    BY <1>11 DEF BootFails, PlayRaises, AfterPlay
  <1>12. ASSUME NEW t \in Threads, NotSeen(t) PROVE ParkInv'
    BY <1>12, Saved DEF NotSeen, PlayRaises, StopPlayer, AfterPlay
  <1>13. ASSUME NEW t \in Threads, Suspend(t) PROVE ParkInv'
    BY <1>13 DEF Suspend, AfterSuspend
  <1>14. ASSUME NEW t \in Threads, Pause(t) PROVE ParkInv'
    BY <1>14 DEF Pause
  <1>15. ASSUME NEW t \in Threads, Checkpoint(t) PROVE ParkInv'
    <2>1. ASSUME t = "switch" PROVE ParkInv'
      BY <1>15, <2>1 DEF Checkpoint, AfterSuspend, Snapshot, Filing, Filed
    <2>2. ASSUME t # "switch" PROVE ParkInv'
      <3>1. SaveProgress
        BY <1>15 DEF Checkpoint, SaveProgress
      <3> QED BY <1>15, <2>2, <3>1, Saved DEF Checkpoint, AfterSuspend, Snapshot
    <2> QED BY <2>1, <2>2
  <1>16. ASSUME NEW t \in Threads, Halt(t) PROVE ParkInv'
    BY <1>16, Saved DEF Halt, StopPlayer
  <1>17. ASSUME NEW t \in Threads, Unit(t) PROVE ParkInv'
    BY <1>17 DEF Unit
  <1>18. ASSUME NEW t \in Threads, ColdStopRaises(t) PROVE ParkInv'
    BY <1>18, Saved DEF ColdStopRaises, StopRaises, PlayRaises, AfterPlay
  <1>19. ASSUME NEW t \in Threads, SuspendRaises(t) PROVE ParkInv'
    BY <1>19, Saved DEF SuspendRaises
  <1>20. ASSUME NEW t \in Threads, HaltRaises(t) PROVE ParkInv'
    BY <1>20, Saved DEF HaltRaises, StopRaises
  <1>21. CASE Mark
    BY <1>21 DEF Mark
  <1>22. CASE Unmark
    BY <1>22 DEF Unmark
  <1>23. CASE Leave
    BY <1>23 DEF Leave
  <1>24. CASE Refresh
    BY <1>24, Saved DEF Refresh, StopPlayer
  <1>25. CASE Clear
    BY <1>25 DEF Clear
  <1>26. CASE Restore
    BY <1>26 DEF Restore
  <1>27. CASE RestoreFails
    BY <1>27 DEF RestoreFails
  <1>28. CASE Empty
    BY <1>28, Saved DEF Empty, StopPlayer
  <1>29. CASE Unpause
    BY <1>29 DEF Unpause
  <1>30. CASE AskVideo
    BY <1>30 DEF AskVideo, Request
  <1>31. CASE AskChannel
    BY <1>31 DEF AskChannel, Request
  <1>32. CASE AskMode
    BY <1>32 DEF AskMode, Decide, Request
  <1>33. CASE Monitor
    BY <1>33, Saved DEF Monitor
  <1>34. CASE Advance
    BY <1>34 DEF Advance
  <1>35. CASE PlayerDies
    BY <1>35 DEF PlayerDies
  <1>36. CASE Restart
    BY <1>36 DEF Restart
  <1>37. CASE MarkerExpires
    BY <1>37 DEF MarkerExpires
  <1>38. CASE UNCHANGED playerVars
    BY <1>38 DEF playerVars
  <1> QED
    BY PlayerSteps, <1>1, <1>2, <1>3, <1>4, <1>5, <1>6, <1>7, <1>8, <1>9,
       <1>10, <1>11, <1>12, <1>13, <1>14, <1>15, <1>16, <1>17, <1>18, <1>19,
       <1>20, <1>21, <1>22, <1>23, <1>24, <1>25, <1>26, <1>27, <1>28, <1>29,
       <1>30, <1>31, <1>32, <1>33, <1>34, <1>35, <1>36, <1>37, <1>38

\* The invariant holds of the beginning, ...
LEMMA PlayerBegins ==
  ASSUME CInit
  PROVE  PlayerInv
PROOF
  <1> USE PlayerAssumption DEF CInit
  <1>1. mpv \in [file: Titles \cup {None}, pos: 0..End, paused: BOOLEAN]
    BY OffIsTyped
  <1>2. /\ pc \in [Threads -> Phases]
        /\ arg \in [Threads -> Titles \cup {None}]
        /\ goal \in [Threads -> Modes]
        /\ history \in [Vods -> 0..(End - 1)]
    BY DEF Modes, Phases
  <1>3. /\ tvMode \in Modes /\ saw \in Modes \cup {"tv"}
        /\ resume \in 0..(End - 1) /\ requests \in 0..MaxRequests /\ faults \in 0..MaxFaults
    BY DEF Modes
  <1>4. CTypeOK
    BY <1>1, <1>2, <1>3 DEF CTypeOK, Titles
  <1>5. LockInv /\ FileInv /\ ParkInv
    BY DEF LockInv, InPlay, FileInv, CurrentNamesFile, Alive, Off, ParkInv,
       ParkedPlaceSaved, Threads
  <1> QED BY <1>4, <1>5 DEF PlayerInv

\* ... and of every state that follows.
LEMMA PlayerGoesOn == CSpec => []PlayerInv
PROOF
  <1>1. PlayerInv /\ [CNext]_playerVars => PlayerInv'
    BY TypeInductive, LockStays, FileStays, ParkStays DEF PlayerInv
  <1> QED BY PlayerBegins, <1>1, PTL DEF CSpec

\* The state of the player stays well formed in every run.
THEOREM PlayerTypeCorrect == CSpec => []CTypeOK
PROOF
  <1>1. PlayerInv => CTypeOK
    BY DEF PlayerInv
  <1> QED BY PlayerGoesOn, <1>1, PTL

\* current.json never names another title than the one that mpv has loaded, once
\* play has let go of the lock, unless a play has left its file behind unnamed.
THEOREM NamedIsLoaded == CSpec => []CurrentNamesFile
PROOF
  <1>1. PlayerInv => CurrentNamesFile
    BY DEF PlayerInv, FileInv, CurrentNamesFile
  <1> QED BY PlayerGoesOn, <1>1, PTL

\* A video that is parked with a snapshot, and that nobody has touched, has its
\* place saved.
THEOREM ParkedIsSaved == CSpec => []ParkedPlaceSaved
PROOF
  <1>1. PlayerInv => ParkedPlaceSaved
    BY DEF PlayerInv, ParkInv
  <1> QED BY PlayerGoesOn, <1>1, PTL

\* A save by one who has the lock to take, or by a play that gives up.
HistoryChanges == history' # history
SavesInTurn ==
  /\ SaveProgress
  /\ \/ lock = None
     \/ \E t \in Threads :
          \/ pc[t] \in {"cold", "remember"}
          \/ pc[t] \in {"await", "seek", "name"} /\ coldStart

\* The history changes only by a save, with the lock free or in the fall-back.
LEMMA SaversSave ==
  ASSUME HistoryChanges, [CNext]_playerVars
  PROVE  SavesInTurn
PROOF
  <1> USE DEF HistoryChanges, SavesInTurn, deskVars
  <1>1. ASSUME NEW t \in Threads, Enter(t) PROVE SavesInTurn
    BY <1>1 DEF Enter
  <1>2. ASSUME NEW t \in Threads, Load(t) PROVE SavesInTurn
    BY <1>2 DEF Load
  <1>3. ASSUME NEW t \in Threads, LoadFails(t) PROVE SavesInTurn
    BY <1>3 DEF LoadFails
  <1>4. ASSUME NEW t \in Threads, ColdStop(t) PROVE SavesInTurn
    BY <1>4 DEF ColdStop, StopPlayer
  <1>5. ASSUME NEW t \in Threads, Boot(t) PROVE SavesInTurn
    BY <1>5 DEF Boot
  <1>6. ASSUME NEW t \in Threads, WaitLoaded(t) PROVE SavesInTurn
    BY <1>6 DEF WaitLoaded
  <1>7. ASSUME NEW t \in Threads, Seek(t) PROVE SavesInTurn
    BY <1>7 DEF Seek
  <1>8. ASSUME NEW t \in Threads, Name(t) PROVE SavesInTurn
    BY <1>8 DEF Name
  <1>9. ASSUME NEW t \in Threads, Remember(t) PROVE SavesInTurn
    BY <1>9 DEF Remember
  <1>10. ASSUME NEW t \in Threads, ProbeFails(t) PROVE SavesInTurn
    BY <1>10 DEF ProbeFails
  <1>11. ASSUME NEW t \in Threads, BootFails(t) PROVE SavesInTurn
    BY <1>11 DEF BootFails, PlayRaises
  <1>12. ASSUME NEW t \in Threads, NotSeen(t) PROVE SavesInTurn
    BY <1>12 DEF NotSeen, PlayRaises, StopPlayer
  <1>13. ASSUME NEW t \in Threads, Suspend(t) PROVE SavesInTurn
    BY <1>13 DEF Suspend
  <1>14. ASSUME NEW t \in Threads, Pause(t) PROVE SavesInTurn
    BY <1>14 DEF Pause
  <1>15. ASSUME NEW t \in Threads, Checkpoint(t) PROVE SavesInTurn
    BY <1>15 DEF Checkpoint, SaveProgress
  <1>16. ASSUME NEW t \in Threads, Halt(t) PROVE SavesInTurn
    BY <1>16 DEF Halt, StopPlayer
  <1>17. ASSUME NEW t \in Threads, Unit(t) PROVE SavesInTurn
    BY <1>17 DEF Unit
  <1>18. ASSUME NEW t \in Threads, ColdStopRaises(t) PROVE SavesInTurn
    BY <1>18 DEF ColdStopRaises, StopRaises
  <1>19. ASSUME NEW t \in Threads, SuspendRaises(t) PROVE SavesInTurn
    BY <1>19 DEF SuspendRaises
  <1>20. ASSUME NEW t \in Threads, HaltRaises(t) PROVE SavesInTurn
    BY <1>20 DEF HaltRaises, StopRaises
  <1>21. CASE Mark
    BY <1>21 DEF Mark
  <1>22. CASE Unmark
    BY <1>22 DEF Unmark
  <1>23. CASE Leave
    BY <1>23 DEF Leave
  <1>24. CASE Refresh
    BY <1>24 DEF Refresh, StopPlayer
  <1>25. CASE Clear
    BY <1>25 DEF Clear
  <1>26. CASE Restore
    BY <1>26 DEF Restore
  <1>27. CASE RestoreFails
    BY <1>27 DEF RestoreFails
  <1>28. CASE Empty
    BY <1>28 DEF Empty, StopPlayer
  <1>29. CASE Unpause
    BY <1>29 DEF Unpause
  <1>30. CASE AskVideo
    BY <1>30 DEF AskVideo, Request
  <1>31. CASE AskChannel
    BY <1>31 DEF AskChannel, Request
  <1>32. CASE AskMode
    BY <1>32 DEF AskMode, Decide, Request
  <1>33. CASE Monitor
    BY <1>33 DEF Monitor
  <1>34. CASE Advance
    BY <1>34 DEF Advance
  <1>35. CASE PlayerDies
    BY <1>35 DEF PlayerDies
  <1>36. CASE Restart
    BY <1>36 DEF Restart
  <1>37. CASE MarkerExpires
    BY <1>37 DEF MarkerExpires
  <1>38. CASE UNCHANGED playerVars
    BY <1>38 DEF playerVars
  <1> QED
    BY PlayerSteps, <1>1, <1>2, <1>3, <1>4, <1>5, <1>6, <1>7, <1>8, <1>9,
       <1>10, <1>11, <1>12, <1>13, <1>14, <1>15, <1>16, <1>17, <1>18, <1>19,
       <1>20, <1>21, <1>22, <1>23, <1>24, <1>25, <1>26, <1>27, <1>28, <1>29,
       <1>30, <1>31, <1>32, <1>33, <1>34, <1>35, <1>36, <1>37, <1>38

\* A resume position changes by what its own video was seen to do, or in the
\* fall-back of play, or under a file that a play has left behind unnamed.
THEOREM OwnVideoRecorded == CSpec => WatchedIsRecorded
PROOF
  <1>1. ASSUME PlayerInv, [CNext]_playerVars, NEW v \in Vods, history'[v] # history[v]
        PROVE  \/ mpv.file = v
               \/ \E t \in Threads : pc[t] = "cold" \/ (pc[t] \in {"await", "seek", "name"} /\ coldStart)
               \/ astray
    <2>1. SavesInTurn
      BY <1>1, SaversSave DEF HistoryChanges
    <2>2. Alive /\ current = v
      BY <1>1, <2>1, Saved DEF SavesInTurn, PlayerInv
    <2>3. lock = None /\ ~astray => mpv.file = v
      BY <1>1, <2>2, PlayerAssumption DEF PlayerInv, FileInv, CurrentNamesFile
    <2>4. ASSUME NEW t \in Threads, pc[t] = "remember" PROVE mpv.file = v
      BY <1>1, <2>2, <2>4, PlayerAssumption DEF PlayerInv, FileInv, Alive
    <2> QED BY <2>1, <2>3, <2>4 DEF SavesInTurn
  <1>2. PlayerInv /\ [CNext]_playerVars =>
          [\A v \in Vods :
             history'[v] # history[v] =>
               \/ mpv.file = v
               \/ \E t \in Threads : pc[t] = "cold" \/ (pc[t] \in {"await", "seek", "name"} /\ coldStart)
               \/ astray]_playerVars
    BY <1>1
  <1> QED BY PlayerGoesOn, <1>2, PTL DEF CSpec, WatchedIsRecorded
=============================================================================
