-------------------------- MODULE MCServices_proofs --------------------------
(***************************************************************************)
(* What the services promise, for every value of their constants.  The     *)
(* services share no state, so that each promise has an inductive          *)
(* invariant over its own service alone; a step of another service, or of  *)
(* none, leaves it as it is.                                               *)
(***************************************************************************)
EXTENDS MCServices, FiniteSetTheorems, TLAPS

\* A step of the bundle is, for each service, one of its own or a stutter.
LEMMA OneServiceSteps ==
  ASSUME [ServicesNext]_serviceVars
  PROVE  /\ [GNext]_pageVars /\ [CNext]_posterVars /\ [KNext]_metadataVars
         /\ [VNext]_discoveryVars /\ [ONext]_displayVars
         /\ [SNext]_snapshotVars /\ [BNext]_bootVars /\ [RNext]_monitorVars
         /\ [TNext]_outboxVars /\ [XNext]_inputVars
PROOF
  <1>1. CASE UNCHANGED serviceVars
    BY <1>1 DEF serviceVars
  <1>2. CASE ServicesNext
    BY <1>2 DEF ServicesNext, Follow, RestOf
  <1> QED BY <1>1, <1>2

LEMMA EveryServiceBegins ==
  ASSUME ServicesInit
  PROVE  GInit /\ CInit /\ KInit /\ VInit /\ OInit /\ SInit /\ BInit /\ RInit
         /\ TInit /\ XInit
PROOF BY DEF ServicesInit

(* ------------------------ Display ownership ---------------------------- *)
Marks == {"running", "not running", "unpaused", "paused", "playing", "stopped",
          "session plays", "session rests", "session active"}

ProbeStates ==
  [at : {"off", "second", "decided"}, mode : DisplayModes \cup {"none"},
   marks : SUBSET Marks, state : {"none", "OWNER", "CLEAR", "UNKNOWN"}, moved : BOOLEAN]

AskedModes == ModeDesktopVideo \cup ModeAndroidVideo \cup ModeAndroidAmbiguous

\* A probe between its two questions has the mode that the display still has,
\* unless the display has moved.
DisplayInv ==
  /\ display \in DisplayModes /\ showing \in BOOLEAN
  /\ probe \in ProbeStates
  /\ probe.at = "second" => probe.mode \in AskedModes /\ (probe.moved \/ probe.mode = display)
  /\ DecisionIsTrue

\* The player's own answer is never misread.
LEMMA PlayerToldTrue ==
  ASSUME NEW marks \in TruePlayer, showing \in BOOLEAN
  PROVE  /\ PlayerObservation(marks) \in {"OWNER", "CLEAR", "UNKNOWN"}
         /\ PlayerObservation(marks) = "CLEAR" => ~showing
         /\ PlayerObservation(marks) = "OWNER" => showing
PROOF
  <1>1. PlayerObservation(marks) \in {"OWNER", "CLEAR", "UNKNOWN"}
    BY DEF PlayerObservation
  <1>2. CASE showing
    <2>1. /\ "not running" \notin marks /\ "paused" \notin marks
          /\ "stopped" \in marks => "playing" \in marks
      BY <1>2 DEF TruePlayer
    <2> QED BY <1>1, <1>2, <2>1 DEF PlayerObservation
  <1>3. CASE ~showing
    <2>1. "unpaused" \notin marks /\ "playing" \notin marks
      BY <1>3 DEF TruePlayer
    <2>2. PlayerObservation(marks) # "OWNER"
      BY <2>1 DEF PlayerObservation
    <2> QED BY <1>1, <1>3, <2>2
  <1> QED BY <1>2, <1>3

LEMMA MarksOfAnswers == PlayerMarks \subseteq SUBSET Marks /\ AndroidMarks \subseteq SUBSET Marks
PROOF
  <1>1. ASSUME NEW s \in PlayerMarks PROVE s \subseteq Marks
    BY DEF PlayerMarks, Marks
  <1>2. ASSUME NEW s \in AndroidMarks PROVE s \subseteq Marks
    BY DEF AndroidMarks, Marks
  <1> QED BY <1>1, <1>2

LEMMA DisplayInductive ==
  ASSUME DisplayInv, [ONext]_displayVars
  PROVE  DisplayInv'
PROOF
  <1> USE DEF ModeOff, ModeForegroundOwner, ModeDesktopVideo, ModeAndroidVideo,
              ModeAndroidAmbiguous, KnownModes, DisplayModes, AskedModes
  <1>1. CASE AskMode
    <2>1. CASE display \in AskedModes
      BY <1>1, <2>1 DEF AskMode, DisplayInv, Unprobed, ProbeStates, DecisionIsTrue, Still
    <2>2. CASE display \notin AskedModes
      <3>1. Decides(display, {}, Decision(display, {})) /\ Still
        BY <1>1, <2>2 DEF AskMode
      <3>2. display \in {"off", "games", "new"}
        BY <2>2 DEF DisplayInv
      <3>3. Decision(display, {}) = CASE display = "games" -> "OWNER"
                                      [] display = "off" -> "CLEAR"
                                      [] OTHER -> "UNKNOWN"
        BY <3>2 DEF Decision
      <3> QED BY <3>1, <3>2, <3>3 DEF Decides, DisplayInv, ProbeStates, DecisionIsTrue, Still
    <2> QED BY <2>1, <2>2
  <1>2. CASE AskModeFails \/ AskSecondFails
    <2>1. PICK m \in DisplayModes \cup {"none"} : Decides(m, {}, "UNKNOWN") /\ Still
      BY <1>2 DEF AskModeFails, AskSecondFails, DisplayInv, ProbeStates
    <2>2. /\ probe' \in ProbeStates /\ probe'.at = "decided" /\ probe'.state = "UNKNOWN"
          /\ UNCHANGED <<display, showing>>
      BY <2>1 DEF Decides, DisplayInv, ProbeStates, Still
    <2> QED BY <2>2 DEF DisplayInv, DecisionIsTrue
  <1>3. CASE AskPlayerStatus
    <2>1. PICK marks \in PlayerMarks :
            /\ display \in ModeDesktopVideo => marks \in TruePlayer
            /\ Decides(probe.mode, marks, Decision(probe.mode, marks))
      BY <1>3 DEF AskPlayerStatus, TruePlayer
    <2>2. probe.mode \in ModeDesktopVideo /\ Still /\ probe.at = "second"
      BY <1>3 DEF AskPlayerStatus
    <2>3. Decision(probe.mode, marks) = PlayerObservation(marks)
      BY <2>2 DEF Decision
    <2>4. PlayerObservation(marks) \in {"OWNER", "CLEAR", "UNKNOWN"}
      BY DEF PlayerObservation
    <2>5. probe' = [probe EXCEPT !.at = "decided", !.marks = marks, !.state = PlayerObservation(marks),
                                 !.mode = probe.mode]
      BY <2>1, <2>3 DEF Decides
    <2>6. probe' \in ProbeStates
      BY <2>4, <2>5, MarksOfAnswers DEF DisplayInv, ProbeStates
    <2>7. ~probe.moved => marks \in TruePlayer
      BY <2>1, <2>2 DEF DisplayInv
    <2>8. DecisionIsTrue'
      BY <2>2, <2>5, <2>7, PlayerToldTrue DEF DisplayInv, ProbeStates, DecisionIsTrue, Still
    <2> QED BY <2>2, <2>5, <2>6, <2>8 DEF DisplayInv, ProbeStates, Still
  <1>4. CASE AskAndroid
    <2>1. PICK marks \in AndroidMarks :
            /\ display \in ModeAndroidVideo \cup ModeAndroidAmbiguous => marks \in TrueAndroid
            /\ Decides(probe.mode, marks, Decision(probe.mode, marks))
      BY <1>4 DEF AskAndroid, TrueAndroid
    <2>2. probe.mode \in ModeAndroidVideo \cup ModeAndroidAmbiguous /\ Still /\ probe.at = "second"
      BY <1>4 DEF AskAndroid
    <2>3. Decision(probe.mode, marks) = AndroidObservation(marks, probe.mode \in ModeAndroidVideo)
      <3>1. CASE probe.mode \in ModeAndroidVideo
        BY <3>1 DEF Decision
      <3>2. CASE probe.mode = "android"
        <4>1. probe.mode \notin ModeForegroundOwner \cup ModeOff \cup ModeDesktopVideo \cup ModeAndroidVideo
          BY <3>2
        <4> QED BY <3>2, <4>1 DEF Decision, AndroidObservation
      <3> QED BY <2>2, <3>1, <3>2
    <2>4. DEFINE state == Decision(probe.mode, marks)
    <2>5. state \in {"OWNER", "CLEAR", "UNKNOWN"}
      BY <2>3 DEF AndroidObservation
    <2>6. probe' = [probe EXCEPT !.at = "decided", !.marks = marks, !.state = state, !.mode = probe.mode]
      BY <2>1 DEF Decides
    <2> HIDE DEF state
    <2>7. probe' \in ProbeStates
      BY <2>5, <2>6, MarksOfAnswers DEF DisplayInv, ProbeStates
    <2>8. ~probe.moved => display = probe.mode /\ marks \in TrueAndroid
      BY <2>1, <2>2 DEF DisplayInv
    <2>9. ~probe.moved /\ state = "CLEAR" => ~showing
      BY <2>3, <2>8 DEF state, AndroidObservation, TrueAndroid
    <2>10. state = "OWNER" => probe.mode \in ModeAndroidVideo
      BY <2>3 DEF state, AndroidObservation
    <2>11. DecisionIsTrue'
      BY <2>2, <2>6, <2>8, <2>9, <2>10 DEF DisplayInv, ProbeStates, DecisionIsTrue, Still
    <2> QED BY <2>2, <2>6, <2>7, <2>11 DEF DisplayInv, ProbeStates, Still
  <1>5. CASE EndProbe
    BY <1>5 DEF EndProbe, Unprobed, DisplayInv, ProbeStates, DecisionIsTrue, Still
  <1>6. CASE DisplayChanges
    BY <1>6 DEF DisplayChanges, DisplayInv, ProbeStates, DecisionIsTrue
  <1>7. CASE UNCHANGED displayVars
    BY <1>7 DEF displayVars, DisplayInv, DecisionIsTrue
  <1> QED BY <1>1, <1>2, <1>3, <1>4, <1>5, <1>6, <1>7 DEF ONext

\* The probe's invariant holds throughout.
LEMMA DisplayInvariant == ServicesSpec => []DisplayInv
PROOF
  <1>1. ServicesInit => DisplayInv
    <2>1. ASSUME ServicesInit PROVE DisplayInv
      <3>1. Unprobed \in ProbeStates
        BY DEF Unprobed, ProbeStates, DisplayModes
      <3>2. OInit
        BY <2>1, EveryServiceBegins
      <3>3. probe.at = "off"
        BY <3>2 DEF OInit, Unprobed
      <3> QED BY <3>1, <3>2, <3>3 DEF OInit, DisplayInv, DecisionIsTrue
    <2> QED BY <2>1
  <1>2. DisplayInv /\ [ServicesNext]_serviceVars => DisplayInv'
    BY OneServiceSteps, DisplayInductive
  <1> QED BY <1>1, <1>2, PTL DEF ServicesSpec

\* While the display stays with one mode, the probe's decision is true of it,
\* whatever starts or stops between its two questions (media_display_ownership.py,
\* decide_from_snapshots).
THEOREM DecisionHolds == ServicesSpec => []DecisionIsTrue
PROOF
  <1>1. DisplayInv => DecisionIsTrue
    BY DEF DisplayInv
  <1> QED BY <1>1, DisplayInvariant, PTL

\* What the display's invariant adds to its types: the decision comes last.
DecidedLast == probe.state # "none" <=> probe.at = "decided"

LEMMA ModesDecide ==
  ASSUME NEW mode, NEW marks
  PROVE  Decision(mode, marks) # "none"
PROOF
  <1>1. PlayerObservation(marks) # "none"
    BY DEF PlayerObservation
  <1>2. AndroidObservation(marks, TRUE) # "none" /\ AndroidObservation(marks, FALSE) # "none"
    BY DEF AndroidObservation
  <1> QED BY <1>1, <1>2 DEF Decision

LEMMA DecidedInductive ==
  ASSUME DisplayInv, DecidedLast, [ONext]_displayVars
  PROVE  DecidedLast'
PROOF
  <1>0. DOMAIN probe = {"at", "mode", "marks", "state", "moved"} /\ probe \in ProbeStates
    BY DEF DisplayInv, ProbeStates
  <1>1. ASSUME NEW mode, NEW marks, NEW state, state # "none", Decides(mode, marks, state)
        PROVE  DecidedLast'
    BY <1>0, <1>1 DEF Decides, DecidedLast
  <1>2. CASE AskMode
    <2>1. CASE Decides(display, {}, Decision(display, {}))
      BY <1>1, <2>1, ModesDecide
    <2>2. CASE probe' = [Unprobed EXCEPT !.at = "second", !.mode = display]
      BY <2>2 DEF Unprobed, DecidedLast
    <2> QED BY <1>2, <2>1, <2>2 DEF AskMode
  <1>3. CASE AskModeFails \/ AskSecondFails
    BY <1>1, <1>3 DEF AskModeFails, AskSecondFails
  <1>4. CASE AskPlayerStatus
    <2>1. PICK marks \in PlayerMarks : Decides(probe.mode, marks, Decision(probe.mode, marks))
      BY <1>4 DEF AskPlayerStatus, TruePlayer
    <2> QED BY <1>1, <2>1, ModesDecide
  <1>5. CASE AskAndroid
    <2>1. PICK marks \in AndroidMarks : Decides(probe.mode, marks, Decision(probe.mode, marks))
      BY <1>5 DEF AskAndroid, TrueAndroid
    <2> QED BY <1>1, <2>1, ModesDecide
  <1>6. CASE EndProbe
    BY <1>6 DEF EndProbe, Unprobed, DecidedLast
  <1>7. CASE DisplayChanges
    BY <1>0, <1>7 DEF DisplayChanges, DecidedLast
  <1>8. CASE UNCHANGED displayVars
    BY <1>8 DEF displayVars, DecidedLast
  <1> QED BY <1>2, <1>3, <1>4, <1>5, <1>6, <1>7, <1>8 DEF ONext

LEMMA DisplayTypes == DisplayInv /\ DecidedLast => DisplayTypeOK
PROOF BY DEF DisplayInv, ProbeStates, DecidedLast, DisplayTypeOK

\* The probe is well formed throughout.
LEMMA DisplayTyped == ServicesSpec => []DisplayTypeOK
PROOF
  <1>1. ServicesInit => DecidedLast
    BY EveryServiceBegins DEF OInit, Unprobed, DecidedLast
  <1>2. DisplayInv /\ DecidedLast /\ [ServicesNext]_serviceVars => DecidedLast'
    BY OneServiceSteps, DecidedInductive
  <1> QED BY <1>1, <1>2, DisplayInvariant, DisplayTypes, PTL DEF ServicesSpec

(* ----------------------------- Page resolver --------------------------- *)
Arriving == {"idle", "cooldown"}
Noting == Arriving \cup {"marking"}
PageFields == {"at", "site", "warned", "touched", "noted", "next", "seen", "todo", "gave", "answer"}

\* The mark in the file is the last one written, as long as that is in force:
\* so a request that comes while it is finds it, and goes no further.
PageInv ==
  /\ clock \in Nat /\ mark \in Nat /\ newest \in Nat
  /\ clock < newest => mark = newest
  /\ DOMAIN page = Pages
  /\ \A r \in Pages :
       /\ DOMAIN page[r] = PageFields
       /\ page[r].noted \in Nat
       /\ page[r].at = "marking" => page[r].next \notin Noting
       /\ page[r].warned => page[r].at = "protected" /\ ~page[r].touched
       /\ page[r].at \in {"idle", "cooldown"} => ~page[r].touched

LEMMA PageChanges ==
  ASSUME NEW r \in Pages, NEW fields, PageInv, Change(r, fields)
  PROVE  /\ DOMAIN page' = Pages
         /\ \A q \in Pages : q # r => page'[q] = page[q]
         /\ DOMAIN page'[r] = PageFields
         /\ \A f \in PageFields :
              page'[r][f] = IF f \in DOMAIN fields THEN fields[f] ELSE page[r][f]
PROOF BY DEF Change, PageInv

\* A change that neither warns nor touches, of a request that is not warned.
LEMMA UnwarnedPageChanges ==
  ASSUME NEW r \in Pages, NEW fields, PageInv, Change(r, fields),
         page[r].at # "protected",
         DOMAIN fields \subseteq PageFields \ {"warned"},
         "noted" \in DOMAIN fields => fields.noted \in Nat,
         "at" \in DOMAIN fields =>
           /\ fields.at \notin Arriving
           /\ fields.at = "marking" => "next" \in DOMAIN fields /\ fields.next \notin Noting,
         "at" \notin DOMAIN fields => page[r].at \notin Noting,
         UNCHANGED <<clock, mark, newest>>
  PROVE  PageInv'
PROOF
  <1>1. /\ DOMAIN page' = Pages
        /\ \A q \in Pages : q # r => page'[q] = page[q]
        /\ DOMAIN page'[r] = PageFields
        /\ \A f \in PageFields :
             page'[r][f] = IF f \in DOMAIN fields THEN fields[f] ELSE page[r][f]
    BY PageChanges
  <1>2. /\ page'[r].noted \in Nat /\ page'[r].at \notin Arriving /\ ~page'[r].warned
        /\ page'[r].at = "marking" => page'[r].next \notin Noting
    <2>1. page[r].noted \in Nat /\ ~page[r].warned
      BY DEF PageInv
    <2>2. {"noted", "at", "next", "warned"} \subseteq PageFields /\ "warned" \notin DOMAIN fields
      BY DEF PageFields
    <2>3. page'[r].warned = page[r].warned
      BY <1>1, <2>2
    <2>4. page'[r].noted \in Nat
      BY <1>1, <2>1, <2>2
    <2>5. page'[r].at \notin Arriving /\ (page'[r].at = "marking" => page'[r].next \notin Noting)
      <3>1. CASE "at" \in DOMAIN fields
        BY <1>1, <2>2, <3>1
      <3>2. CASE "at" \notin DOMAIN fields
        BY <1>1, <2>2, <3>2 DEF Noting
      <3> QED BY <3>1, <3>2
    <2> QED BY <2>1, <2>3, <2>4, <2>5
  <1> QED BY <1>1, <1>2 DEF PageInv, Arriving

LEMMA PageInductive ==
  ASSUME PageInv, [GNext]_pageVars
  PROVE  PageInv'
PROOF
  <1> USE DEF At, Unmarked, PageFields, Arriving, Noting
  <1>1. CASE Tick
    BY <1>1 DEF Tick, PageInv
  <1>2. ASSUME NEW r \in Pages, Open(r) PROVE PageInv'
    <2>1. PICK point \in {"cooldown", "curl"} : \E site : Change(r, [at |-> point, site |-> site])
      BY <1>2 DEF Open
    <2>2. UNCHANGED <<clock, mark, newest>> /\ ~page[r].warned /\ ~page[r].touched
      BY <1>2 DEF Open, PageInv
    <2>3. /\ DOMAIN page' = Pages /\ DOMAIN page'[r] = PageFields
          /\ \A q \in Pages : q # r => page'[q] = page[q]
          /\ page'[r].noted = page[r].noted /\ page'[r].warned = page[r].warned
          /\ page'[r].touched = page[r].touched /\ page'[r].at = point
      <3>1. PICK site : Change(r, [at |-> point, site |-> site])
        BY <2>1
      <3> QED BY <3>1, PageChanges
    <2> QED BY <2>2, <2>3 DEF PageInv
  <1>3. ASSUME NEW r \in Pages, CheckCooldown(r) PROVE PageInv'
    <2>1. /\ Change(r, [at |-> IF mark > clock THEN "protected" ELSE "curl", warned |-> clock < newest])
          /\ mark' = IF mark > clock THEN mark ELSE 0
          /\ UNCHANGED <<clock, newest>>
      BY <1>3 DEF CheckCooldown
    <2>2. /\ ~page[r].touched /\ page[r].noted \in Nat
          /\ clock < newest => mark > clock
      BY <1>3 DEF CheckCooldown, PageInv
    <2>3. /\ DOMAIN page' = Pages /\ DOMAIN page'[r] = PageFields
          /\ \A q \in Pages : q # r => page'[q] = page[q]
          /\ \A f \in {"noted", "next", "touched"} : page'[r][f] = page[r][f]
          /\ page'[r].at = IF mark > clock THEN "protected" ELSE "curl"
          /\ page'[r].warned = (clock < newest)
      BY <2>1, PageChanges
    <2> QED BY <2>1, <2>2, <2>3 DEF PageInv
  <1>4. ASSUME NEW r \in Pages, Curl(r) PROVE PageInv'
    <2>1. PICK fields :
            /\ Change(r, fields) /\ DOMAIN fields \subseteq {"at", "seen", "touched"}
            /\ "at" \in DOMAIN fields /\ fields.at \notin Noting
      <3>1. CASE Change(r, [at |-> OnText.curl, seen |-> TRUE, touched |-> Origin(r)])
        BY <3>1 DEF OnText
      <3>2. ASSUME NEW point \in {OnFailure.curl, Continue(r, "render")},
                   Change(r, [at |-> point, touched |-> Origin(r)])
            PROVE  \E fields :
                     /\ Change(r, fields) /\ DOMAIN fields \subseteq {"at", "seen", "touched"}
                     /\ "at" \in DOMAIN fields /\ fields.at \notin Noting
        <4>1. point \notin Noting
          BY <3>2 DEF OnFailure, Continue
        <4> QED BY <3>2, <4>1
      <3> QED BY <1>4, <3>1, <3>2 DEF Curl
    <2> QED BY <1>4, <2>1, UnwarnedPageChanges DEF Curl
  <1>5. ASSUME NEW r \in Pages, page[r].at \in {"browser", "render", "mirror", "again"},
               NEW touched, Fetched(r, touched), Unmarked
        PROVE  PageInv'
    <2>1. PICK fields :
            /\ Change(r, fields) /\ DOMAIN fields \subseteq PageFields \ {"warned"}
            /\ "at" \in DOMAIN fields /\ fields.at \notin Arriving
            /\ "noted" \in DOMAIN fields => fields.noted \in Nat
            /\ fields.at = "marking" => "next" \in DOMAIN fields /\ fields.next \notin Noting
      <3>1. CASE Change(r, [at |-> OnText[page[r].at], seen |-> TRUE, touched |-> touched])
        BY <1>5, <3>1 DEF OnText
      <3>2. CASE Change(r, [at |-> Continue(r, OnFailure[page[r].at]), touched |-> touched])
        <4>1. Continue(r, OnFailure[page[r].at]) \notin Noting
          BY <1>5 DEF OnFailure, Continue
        <4> QED BY <3>2, <4>1
      <3>3. CASE Change(r, [at |-> "marking", next |-> Continue(r, OnBlock[page[r].at]),
                            noted |-> clock, touched |-> touched])
        <4>1. Continue(r, OnBlock[page[r].at]) \notin Noting /\ clock \in Nat
          BY <1>5 DEF OnBlock, Continue, PageInv
        <4> QED BY <3>3, <4>1
      <3> QED BY <1>5, <3>1, <3>2, <3>3 DEF Fetched
    <2> QED BY <1>5, <2>1, UnwarnedPageChanges
  <1>6. ASSUME NEW r \in Pages, Browse(r) \/ AskMirror(r) PROVE PageInv'
    BY <1>5, <1>6 DEF Browse, AskMirror
  <1>7. ASSUME NEW r \in Pages, Mark(r) PROVE PageInv'
    <2>1. Change(r, [at |-> page[r].next, next |-> "idle", noted |-> 0])
      BY <1>7 DEF Mark
    <2>2. mark' \in Nat /\ newest' = mark' /\ clock' = clock /\ ~page[r].warned
      BY <1>7, PageAssumption DEF Mark, PageInv
    <2>3. page[r].next \notin Noting
      BY <1>7 DEF PageInv, Mark
    <2>4. /\ DOMAIN page' = Pages /\ DOMAIN page'[r] = PageFields
          /\ \A q \in Pages : q # r => page'[q] = page[q]
          /\ page'[r].warned = page[r].warned /\ page'[r].at = page[r].next
          /\ page'[r].next = "idle" /\ page'[r].noted = 0
      BY <2>1, PageChanges
    <2> QED BY <2>2, <2>3, <2>4 DEF PageInv
  <1>8. ASSUME NEW r \in Pages, ReadPlaylist(r) PROVE PageInv'
    <2>1. page[r].at \in Reading /\ UNCHANGED <<clock, mark, newest>>
      BY <1>8 DEF ReadPlaylist
    <2>2. OnFailure[page[r].at] \notin Noting
      BY <2>1 DEF Reading, OnFailure
    <2>3. PICK fields :
            /\ Change(r, fields) /\ DOMAIN fields \subseteq {"at", "todo", "touched"}
            /\ "at" \in DOMAIN fields /\ fields.at \notin Noting
      <3>1. PICK asked \in BOOLEAN, found \in SUBSET Targets :
              LET touched == page[r].touched \/ (Origin(r) /\ asked)
              IN \/ Change(r, [at |-> "pool", todo |-> found, touched |-> touched])
                 \/ Change(r, [at |-> IF Origin(r) THEN OnFailure[page[r].at] ELSE "embeds",
                               touched |-> touched])
        BY <1>8 DEF ReadPlaylist
      <3> QED BY <2>2, <3>1
    <2> QED BY <2>1, <2>3, UnwarnedPageChanges DEF Reading
  <1>9. ASSUME NEW r \in Pages, ScanEmbeds(r) PROVE PageInv'
    <2>1. PICK fields :
            /\ Change(r, fields) /\ DOMAIN fields \subseteq {"at", "todo"}
            /\ "at" \in DOMAIN fields /\ fields.at \notin Noting
      <3>1. ASSUME NEW found, Change(r, [at |-> "pool", todo |-> found]) 
          PROVE  \E fields : /\ Change(r, fields) /\ DOMAIN fields \subseteq {"at", "todo"}
                              /\ "at" \in DOMAIN fields /\ fields.at \notin Noting
        BY <3>1
      <3>2. ASSUME Change(r, [at |-> "failed"]) 
          PROVE  \E fields : /\ Change(r, fields) /\ DOMAIN fields \subseteq {"at", "todo"}
                              /\ "at" \in DOMAIN fields /\ fields.at \notin Noting
        BY <3>2
      <3> QED BY <1>9, <3>1, <3>2 DEF ScanEmbeds
    <2> QED BY <1>9, <2>1, UnwarnedPageChanges DEF ScanEmbeds
  <1>10. ASSUME NEW r \in Pages, NEW t \in Targets, AskPlayer(r, t) PROVE PageInv'
    <2>1. PICK streams \in Answers(t) :
            Change(r, [todo |-> page[r].todo \ {t}, gave |-> page[r].gave \cup streams])
      BY <1>10 DEF AskPlayer
    <2> QED BY <1>10, <2>1, UnwarnedPageChanges DEF AskPlayer
  <1>11. ASSUME NEW r \in Pages, Answer(r) PROVE PageInv'
    <2>1. PICK streams \in Deduplicated(page[r].gave) :
            Change(r, [at |-> IF streams = {} THEN "failed" ELSE "answered", answer |-> streams])
      BY <1>11 DEF Answer
    <2> QED BY <1>11, <2>1, UnwarnedPageChanges DEF Answer
  <1>12. ASSUME NEW r \in Pages, OpenAgain(r) PROVE PageInv'
    BY <1>12 DEF OpenAgain, Fresh, PageInv
  <1>13. ASSUME NEW r \in Pages, NEW t \in Targets, PlayerBlocked(r, t) PROVE PageInv'
    BY <1>13, PageAssumption DEF PlayerBlocked, PageInv
  <1>14. CASE UNCHANGED pageVars
    BY <1>14 DEF pageVars, PageInv
  <1> QED BY <1>1, <1>2, <1>3, <1>4, <1>6, <1>7, <1>8, <1>9, <1>10, <1>11, <1>12, <1>13, <1>14 DEF GNext

\* The requests' invariant holds throughout.
LEMMA PageInvariant == ServicesSpec => []PageInv
PROOF
  <1>1. ServicesInit => PageInv
    BY EveryServiceBegins DEF GInit, Fresh, PageInv, PageFields
  <1>2. PageInv /\ [ServicesNext]_serviceVars => PageInv'
    BY OneServiceSteps, PageInductive
  <1> QED BY <1>1, <1>2, PTL DEF ServicesSpec

\* A request that comes to the cooldown while the last block noted is in force
\* never asks the protected origin, whatever the others find, note or clear
\* away (resolver.py, _anitube_cooldown_remaining).
THEOREM CooldownKept == ServicesSpec => []ProtectedLeftAlone
PROOF
  <1>1. PageInv => ProtectedLeftAlone
    BY DEF PageInv, ProtectedLeftAlone
  <1> QED BY <1>1, PageInvariant, PTL

\* Of a request: only the protected origin is touched, and what it answers is
\* of what the players of its targets gave.
RequestOK(r) ==
  /\ page[r].noted \in 0..MaxClock
  /\ page[r].touched => Origin(r)
  /\ page[r].answer \subseteq page[r].gave
  /\ page[r].gave \subseteq Streams /\ page[r].todo \subseteq Targets

RequestsOK ==
  /\ clock \in 0..MaxClock /\ {mark, newest} \subseteq 0..(MaxClock + Cooldown)
  /\ \A r \in Pages : RequestOK(r)

LEMMA PlayersGiveStreams ==
  ASSUME NEW t \in Targets, NEW streams \in Answers(t)
  PROVE  streams \subseteq Streams
PROOF
  <1>1. PICK items \in Listed, again \in Listed : streams = Gives(t, items, again)
    BY DEF Answers
  <1>2. items \subseteq Streams /\ again \subseteq Streams
    BY DEF Listed
  <1>3. /\ CinemarStreams(items) \subseteq Streams /\ ZenithStreams(items) \subseteq Streams
        /\ AshdiStreams(items) \subseteq Streams /\ YtDlpStreams(items, again) \subseteq Streams
    BY <1>2 DEF CinemarStreams, ZenithStreams, AshdiStreams, YtDlpStreams
  <1> QED BY <1>1, <1>3 DEF Gives

\* A change of a request, by what it makes of the fields that are bounded.
LEMMA RequestChanges ==
  ASSUME NEW r \in Pages, NEW fields, PageInv, RequestsOK, Change(r, fields),
         "noted" \in DOMAIN fields => fields.noted \in 0..MaxClock,
         "touched" \in DOMAIN fields => (fields.touched => Origin(r)) /\ "site" \notin DOMAIN fields,
         "site" \in DOMAIN fields => ~page[r].touched,
         "answer" \in DOMAIN fields => fields.answer \subseteq page[r].gave,
         "gave" \in DOMAIN fields => page[r].gave \subseteq fields.gave /\ fields.gave \subseteq Streams,
         "todo" \in DOMAIN fields => fields.todo \subseteq Targets
  PROVE  \A q \in Pages : RequestOK(q)'
PROOF
  <1>1. /\ \A q \in Pages : q # r => page'[q] = page[q]
        /\ \A f \in PageFields :
             page'[r][f] = IF f \in DOMAIN fields THEN fields[f] ELSE page[r][f]
    BY PageChanges
  <1>2. {"noted", "touched", "site", "answer", "gave", "todo"} \subseteq PageFields
    BY DEF PageFields
  <1>3. RequestOK(r)
    BY DEF RequestsOK
  <1>4. page'[r].noted \in 0..MaxClock
    BY <1>1, <1>2, <1>3 DEF RequestOK
  <1>5. page'[r].touched => page'[r].site = "anitube"
    BY <1>1, <1>2, <1>3 DEF RequestOK, Origin
  <1>6. page'[r].answer \subseteq page'[r].gave /\ page'[r].gave \subseteq Streams
    BY <1>1, <1>2, <1>3 DEF RequestOK
  <1>7. page'[r].todo \subseteq Targets
    BY <1>1, <1>2, <1>3 DEF RequestOK
  <1>8. RequestOK(r)'
    BY <1>4, <1>5, <1>6, <1>7 DEF RequestOK, Origin
  <1>9. ASSUME NEW q \in Pages, q # r PROVE RequestOK(q)'
    BY <1>1, <1>9 DEF RequestsOK, RequestOK, Origin
  <1> QED BY <1>8, <1>9

LEMMA RequestsInductive ==
  ASSUME PageInv, RequestsOK, [GNext]_pageVars
  PROVE  RequestsOK'
PROOF
  <1> USE PageAssumption DEF Unmarked
  <1>0. clock \in 0..MaxClock /\ \A r \in Pages : RequestOK(r)
    BY DEF RequestsOK
  <1>1. ASSUME UNCHANGED <<clock, mark, newest>>, \A r \in Pages : RequestOK(r)' PROVE RequestsOK'
    BY <1>1 DEF RequestsOK
  <1>2. CASE Tick
    BY <1>2 DEF Tick, RequestsOK, RequestOK, Origin
  <1>3. ASSUME NEW r \in Pages, Open(r) PROVE RequestsOK'
    <2>1. ~page[r].touched
      BY <1>3 DEF Open, At, PageInv
    <2>2. PICK point, site : Change(r, [at |-> point, site |-> site])
      BY <1>3 DEF Open
    <2>3. \A q \in Pages : RequestOK(q)'
      BY <2>1, <2>2, RequestChanges
    <2> QED BY <1>1, <1>3, <2>3 DEF Open
  <1>4. ASSUME NEW r \in Pages, CheckCooldown(r) PROVE RequestsOK'
    <2>1. PICK point, warned : Change(r, [at |-> point, warned |-> warned])
      BY <1>4 DEF CheckCooldown
    <2>2. \A q \in Pages : RequestOK(q)'
      BY <2>1, RequestChanges
    <2>3. mark' \in {mark, 0} /\ UNCHANGED <<clock, newest>>
      BY <1>4 DEF CheckCooldown
    <2> QED BY <2>2, <2>3 DEF RequestsOK
  <1>5. ASSUME NEW r \in Pages, Curl(r) PROVE RequestsOK'
    <2>1. \/ Change(r, [at |-> OnText.curl, seen |-> TRUE, touched |-> Origin(r)])
          \/ \E point : Change(r, [at |-> point, touched |-> Origin(r)])
      BY <1>5 DEF Curl
    <2>2. Origin(r) \in BOOLEAN
      BY DEF Origin
    <2>3. \A q \in Pages : RequestOK(q)'
      BY <2>1, <2>2, RequestChanges
    <2> QED BY <1>1, <1>5, <2>3 DEF Curl
  <1>6. ASSUME NEW r \in Pages, NEW touched, Fetched(r, touched), touched => Origin(r)
        PROVE  \A q \in Pages : RequestOK(q)'
    <2>1. \/ \E point : Change(r, [at |-> point, seen |-> TRUE, touched |-> touched])
          \/ \E point : Change(r, [at |-> point, touched |-> touched])
          \/ \E point, next : Change(r, [at |-> point, next |-> next, noted |-> clock, touched |-> touched])
      BY <1>6 DEF Fetched
    <2>2. CASE \E point : Change(r, [at |-> point, seen |-> TRUE, touched |-> touched])
      BY <1>6, <2>2, RequestChanges
    <2>3. CASE \E point : Change(r, [at |-> point, touched |-> touched])
      BY <1>6, <2>3, RequestChanges
    <2>4. CASE \E point, next : Change(r, [at |-> point, next |-> next, noted |-> clock, touched |-> touched])
      BY <1>0, <1>6, <2>4, RequestChanges
    <2> QED BY <2>1, <2>2, <2>3, <2>4
  <1>7. ASSUME NEW r \in Pages, Browse(r) \/ AskMirror(r) PROVE RequestsOK'
    <2>1. PICK touched \in {Origin(r), page[r].touched} : Fetched(r, touched)
      BY <1>7 DEF Browse, AskMirror
    <2>2. touched => Origin(r)
      BY <1>0, <2>1 DEF RequestOK, Origin
    <2>3. \A q \in Pages : RequestOK(q)'
      BY <1>6, <2>1, <2>2
    <2> QED BY <1>1, <1>7, <2>3 DEF Browse, AskMirror
  <1>8. ASSUME NEW r \in Pages, Mark(r) PROVE RequestsOK'
    <2>1. Change(r, [at |-> page[r].next, next |-> "idle", noted |-> 0]) /\ 0 \in 0..MaxClock
      BY <1>8 DEF Mark
    <2>2. \A q \in Pages : RequestOK(q)'
      BY <2>1, RequestChanges
    <2>3. mark' \in 0..(MaxClock + Cooldown) /\ newest' = mark' /\ UNCHANGED clock
      BY <1>0, <1>8 DEF Mark, RequestOK
    <2> QED BY <2>2, <2>3 DEF RequestsOK
  <1>9. ASSUME NEW r \in Pages, ReadPlaylist(r) PROVE RequestsOK'
    <2>1. PICK asked \in BOOLEAN, found \in SUBSET Targets :
            LET touched == page[r].touched \/ (Origin(r) /\ asked)
            IN \/ \E point : Change(r, [at |-> point, todo |-> found, touched |-> touched])
               \/ \E point : Change(r, [at |-> point, touched |-> touched])
      BY <1>9 DEF ReadPlaylist
    <2> DEFINE touched == page[r].touched \/ (Origin(r) /\ asked)
    <2>2. touched => Origin(r)
      BY <1>0 DEF RequestOK
    <2>3. \/ \E point : Change(r, [at |-> point, todo |-> found, touched |-> touched])
          \/ \E point : Change(r, [at |-> point, touched |-> touched])
      BY <2>1
    <2> HIDE DEF touched
    <2>4. \A q \in Pages : RequestOK(q)'
      BY <2>2, <2>3, RequestChanges
    <2> QED BY <1>1, <1>9, <2>4 DEF ReadPlaylist
  <1>10. ASSUME NEW r \in Pages, ScanEmbeds(r) PROVE RequestsOK'
    <2>1. \/ \E found \in SUBSET Targets : Change(r, [at |-> "pool", todo |-> found])
          \/ Change(r, [at |-> "failed"])
      BY <1>10 DEF ScanEmbeds
    <2>2. \A q \in Pages : RequestOK(q)'
      BY <2>1, RequestChanges
    <2> QED BY <1>1, <1>10, <2>2 DEF ScanEmbeds
  <1>11. ASSUME NEW r \in Pages, NEW t \in Targets, AskPlayer(r, t) PROVE RequestsOK'
    <2>1. PICK streams \in Answers(t) :
            Change(r, [todo |-> page[r].todo \ {t}, gave |-> page[r].gave \cup streams])
      BY <1>11 DEF AskPlayer
    <2>2. /\ page[r].todo \ {t} \subseteq Targets
          /\ page[r].gave \subseteq page[r].gave \cup streams
          /\ page[r].gave \cup streams \subseteq Streams
      BY <1>0, PlayersGiveStreams DEF RequestOK
    <2>3. \A q \in Pages : RequestOK(q)'
      BY <2>1, <2>2, RequestChanges
    <2> QED BY <1>1, <1>11, <2>3 DEF AskPlayer
  <1>12. ASSUME NEW r \in Pages, Answer(r) PROVE RequestsOK'
    <2>1. PICK streams \in SUBSET page[r].gave :
            Change(r, [at |-> IF streams = {} THEN "failed" ELSE "answered", answer |-> streams])
      BY <1>12 DEF Answer, Deduplicated
    <2>2. \A q \in Pages : RequestOK(q)'
      BY <2>1, RequestChanges
    <2> QED BY <1>1, <1>12, <2>2 DEF Answer
  <1>13. ASSUME NEW r \in Pages, OpenAgain(r) PROVE RequestsOK'
    <2>1. \A q \in Pages : page'[q] = IF q = r THEN Fresh ELSE page[q]
      BY <1>13 DEF OpenAgain, PageInv
    <2>2. /\ Fresh.noted = 0 /\ Fresh.touched = FALSE /\ Fresh.answer = {} /\ Fresh.gave = {}
          /\ Fresh.todo = {}
      BY DEF Fresh
    <2>3. \A q \in Pages : RequestOK(q)'
      BY <1>0, <2>1, <2>2 DEF RequestOK, Origin
    <2> QED BY <1>1, <1>13, <2>3 DEF OpenAgain
  <1>14. ASSUME NEW r \in Pages, NEW t \in Targets, PlayerBlocked(r, t) PROVE RequestsOK'
    <2>1. PICK seen \in 0..clock : mark' = seen + Cooldown
      BY <1>14 DEF PlayerBlocked
    <2>2. seen + Cooldown \in 0..(MaxClock + Cooldown)
      BY <2>1, PageAssumption DEF RequestsOK
    <2> QED BY <1>14, <2>1, <2>2 DEF PlayerBlocked, RequestsOK, RequestOK, Origin
  <1>15. CASE UNCHANGED pageVars
    BY <1>15 DEF pageVars, RequestsOK, RequestOK, Origin
  <1> QED
    BY <1>2, <1>3, <1>4, <1>5, <1>7, <1>8, <1>9, <1>10, <1>11, <1>12, <1>13, <1>14, <1>15 DEF GNext

LEMMA PageTypes == RequestsOK => GTypeOK
PROOF BY DEF RequestsOK, RequestOK, Origin, GTypeOK

\* The requests are well formed throughout.
LEMMA PageTyped == ServicesSpec => []GTypeOK
PROOF
  <1>1. ServicesInit => RequestsOK
    BY EveryServiceBegins, PageAssumption DEF GInit, Fresh, RequestsOK, RequestOK, Origin
  <1>2. PageInv /\ RequestsOK /\ [ServicesNext]_serviceVars => RequestsOK'
    BY OneServiceSteps, RequestsInductive
  <1> QED BY <1>1, <1>2, PageInvariant, PageTypes, PTL DEF ServicesSpec

(* ------------------------------ Discovery ------------------------------ *)
HuntFields == {"at", "job", "force", "season", "found", "tries", "page", "sound"}

\* A discovery goes by pages of the work, and one that was told to search does
\* not get to an end before it has.
HuntOK(r) ==
  /\ DOMAIN r = HuntFields
  /\ r.at # "idle" => r.job \in Works
  /\ r.at \in {"resolve", "nothing"} => ~r.force
  /\ r.found \subseteq Candidate
  /\ r.page \in Candidate \cup {NoPage}
  /\ r.at = "found" => r.page # NoPage
  /\ r.sound = TRUE

\* A row has a page exactly when it says "ready"; a negative one is of a
\* discovery that came to nothing by itself.
RowOK(r) ==
  /\ r.page \in Candidate \cup {NoPage}
  /\ r.status = "ready" <=> r.page # NoPage
  /\ r.status = "no_verified_sources" => r.at \in Nat /\ r.at <= barren /\ barren <= ticks

HuntsOK == DOMAIN hunt = Hunters /\ \A h \in Hunters : HuntOK(hunt[h])
RowsOK == DOMAIN row = Works /\ \A d \in Works : RowOK(row[d])

DiscoveryInv ==
  /\ ticks \in 0..MaxTicks /\ barren \in Nat
  /\ HuntsOK /\ RowsOK
  /\ ready \in [Works -> Candidate \cup {NoPage}]

\* What Set makes of a discovery.
After(h, fields) == [f \in HuntFields |-> IF f \in DOMAIN fields THEN fields[f] ELSE hunt[h][f]]

LEMMA HuntChanges ==
  ASSUME NEW h \in Hunters, NEW fields, HuntsOK, Set(h, fields), HuntOK(After(h, fields))
  PROVE  HuntsOK'
PROOF
  <1>1. DOMAIN hunt' = Hunters /\ \A x \in Hunters : x # h => hunt'[x] = hunt[x]
    BY DEF Set, HuntsOK
  <1>2. hunt'[h] = After(h, fields)
    BY DEF Set, HuntsOK, HuntOK, After
  <1> QED BY <1>1, <1>2 DEF HuntsOK

LEMMA HuntEnds ==
  ASSUME NEW h \in Hunters, HuntsOK, hunt' = [hunt EXCEPT ![h] = NoHunt]
  PROVE  HuntsOK'
PROOF
  <1>1. HuntOK(NoHunt)
    BY DEF NoHunt, HuntOK, HuntFields
  <1> QED BY <1>1 DEF HuntsOK

LEMMA RowsStay ==
  ASSUME RowsOK, UNCHANGED <<row, ticks, barren>>
  PROVE  RowsOK'
PROOF BY DEF RowsOK, RowOK

LEMMA RowPersisted ==
  ASSUME NEW d \in Works, NEW status, NEW shown \in Candidate \cup {NoPage}, DiscoveryInv,
         status = "ready" <=> shown # NoPage, Persist(d, status, shown), ticks' = ticks,
         barren' = ticks \/ (barren' = barren /\ status # "no_verified_sources")
  PROVE  RowsOK'
PROOF
  <1>1. /\ DOMAIN row' = Works /\ \A x \in Works : x # d => row'[x] = row[x]
        /\ row'[d] = [status |-> status, page |-> shown,
                      at |-> IF status = "no_verified_sources" THEN ticks ELSE 0]
    BY DEF Persist, DiscoveryInv, RowsOK
  <1>2. ticks \in Nat /\ barren \in Nat /\ ticks' = ticks
    BY DiscoveryAssumption DEF DiscoveryInv
  <1>3. RowOK(row[d])' /\ \A x \in Works : x # d => RowOK(row[x])'
    <2>1. RowOK(row[d])'
      BY <1>1, <1>2 DEF RowOK
    <2>2. ASSUME NEW x \in Works, x # d PROVE RowOK(row[x])'
      <3>1. RowOK(row[x]) /\ row'[x] = row[x]
        BY <1>1, <2>2 DEF DiscoveryInv, RowsOK
      <3> QED BY <3>1, <1>2 DEF RowOK
    <2> QED BY <2>1, <2>2
  <1> QED BY <1>1, <1>3 DEF RowsOK

\* What the ledger says within the time to live is sound.
LEMMA NegativeIsSound ==
  ASSUME DiscoveryInv, RecentNegative
  PROVE  Sound = TRUE
PROOF
  <1>1. PICK d \in Works : row[d].status = "no_verified_sources" /\ ticks - row[d].at < NegativeTtl
    BY DEF RecentNegative
  <1>2. row[d].at \in Nat /\ row[d].at <= barren /\ barren <= ticks
    BY <1>1 DEF DiscoveryInv, RowsOK, RowOK
  <1>3. ticks \in Nat /\ barren \in Nat /\ ticks <= MaxTicks /\ {MaxTicks, NegativeTtl} \subseteq Nat
    BY DiscoveryAssumption DEF DiscoveryInv
  <1>4. barren <= MaxTicks /\ ticks - barren < NegativeTtl
    BY <1>1, <1>2, <1>3
  <1> QED BY <1>4 DEF Sound

LEMMA VerifiedArePages ==
  ASSUME DiscoveryInv
  PROVE  ReadyPages \subseteq Candidate /\ Verified \subseteq Candidate
PROOF
  <1>1. ReadyPages \subseteq Candidate
    BY DEF ReadyPages, DiscoveryInv
  <1>2. ASSUME NEW d \in Works, row[d].status = "ready" PROVE row[d].page \in Candidate
    BY <1>2 DEF DiscoveryInv, RowsOK, RowOK
  <1> QED BY <1>1, <1>2 DEF Verified

LEMMA ConsultKeeps ==
  ASSUME DiscoveryInv, NEW h \in Hunters, Consult(h)
  PROVE  HuntsOK'
PROOF
  <1>1. HuntOK(hunt[h]) /\ hunt[h].at = "negative"
    BY DEF DiscoveryInv, HuntsOK, Consult, Is
  <1>2. CASE AnswerNegative(h)
    <2>1. Set(h, [at |-> "nothing", sound |-> TRUE, season |-> FALSE]) /\ ~hunt[h].force
      BY <1>2, NegativeIsSound DEF AnswerNegative
    <2>2. HuntOK(After(h, [at |-> "nothing", sound |-> TRUE, season |-> FALSE]))
      BY <1>1, <2>1 DEF HuntOK, After, HuntFields
    <2> QED BY <2>1, <2>2, HuntChanges DEF DiscoveryInv
  <1>3. CASE UseVerified(h)
    <2>1. PICK vouched \in (SUBSET Verified) \ {{}} : \E kept \in OfSeason(h, vouched) :
            Set(h, [at |-> "resolve", found |-> kept, season |-> FALSE])
      BY <1>3 DEF UseVerified
    <2>2. PICK kept \in OfSeason(h, vouched) :
            Set(h, [at |-> "resolve", found |-> kept, season |-> FALSE])
      BY <2>1
    <2>3. kept \subseteq Candidate /\ ~hunt[h].force
      BY <1>3, <2>1, <2>2, VerifiedArePages DEF OfSeason, UseVerified
    <2>4. HuntOK(After(h, [at |-> "resolve", found |-> kept, season |-> FALSE]))
      BY <1>1, <2>3 DEF HuntOK, After, HuntFields
    <2> QED BY <2>2, <2>4, HuntChanges DEF DiscoveryInv
  <1>4. CASE BeginSearch(h)
    <2>1. PICK history \in SUBSET ReadyPages : Set(h, [at |-> "search", found |-> history])
      BY <1>4 DEF BeginSearch
    <2>2. history \subseteq Candidate
      BY <2>1, VerifiedArePages
    <2>3. HuntOK(After(h, [at |-> "search", found |-> history]))
      BY <1>1, <2>2 DEF HuntOK, After, HuntFields
    <2> QED BY <2>1, <2>3, HuntChanges DEF DiscoveryInv
  <1> QED BY <1>2, <1>3, <1>4 DEF Consult

LEMMA GatherKeeps ==
  ASSUME DiscoveryInv, NEW h \in Hunters, Gather(h)
  PROVE  HuntsOK'
PROOF
  <1>1. HuntOK(hunt[h])
    BY DEF DiscoveryInv, HuntsOK
  <1>2. PICK paid \in PaidIndex, site \in SiteSearch, index \in FreeIndex :
          \E kept \in OfSeason(h, hunt[h].found \cup paid \cup site \cup index) :
            Set(h, [at |-> "resolve", found |-> kept, force |-> FALSE, season |-> FALSE])
    BY DEF Gather
  <1>3. PICK kept \in OfSeason(h, hunt[h].found \cup paid \cup site \cup index) :
          Set(h, [at |-> "resolve", found |-> kept, force |-> FALSE, season |-> FALSE])
    BY <1>2
  <1>4. hunt[h].found \cup paid \cup site \cup index \subseteq Candidate
    BY <1>1, <1>2 DEF HuntOK, PaidIndex, SiteSearch, FreeIndex, Passing
  <1>5. kept \subseteq Candidate
    BY <1>3, <1>4 DEF OfSeason
  <1>6. hunt[h].job \in Works
    BY <1>1 DEF HuntOK, Gather, Is
  <1>7. HuntOK(After(h, [at |-> "resolve", found |-> kept, force |-> FALSE, season |-> FALSE]))
    BY <1>1, <1>5, <1>6 DEF HuntOK, After, HuntFields
  <1> QED BY <1>3, <1>7, HuntChanges DEF DiscoveryInv

LEMMA ResolvePageKeeps ==
  ASSUME DiscoveryInv, NEW h \in Hunters, ResolvePage(h)
  PROVE  HuntsOK' /\ RowsOK'
PROOF
  <1>1. HuntOK(hunt[h]) /\ hunt[h].at = "resolve" /\ hunt[h].job \in Works
    BY DEF DiscoveryInv, HuntsOK, HuntOK, ResolvePage, Is
  <1>2. PICK p \in hunt[h].found : \E outcome \in Outcomes(p) :
          \/ /\ Set(h, [at |-> "found", page |-> p, found |-> {}, tries |-> TriedPages])
             /\ Persist(hunt[h].job, "ready", p)
          \/ /\ Set(h, [found |-> hunt[h].found \ {p}, tries |-> hunt[h].tries - 1])
             /\ UNCHANGED row
    BY DEF ResolvePage
  <1>3. p \in Candidate /\ p # NoPage
    BY <1>1, <1>2, PageAddresses DEF HuntOK
  <1>4. UNCHANGED <<ticks, barren>>
    BY DEF ResolvePage
  <1>5. CASE /\ Set(h, [at |-> "found", page |-> p, found |-> {}, tries |-> TriedPages])
             /\ Persist(hunt[h].job, "ready", p)
    <2>1. HuntOK(After(h, [at |-> "found", page |-> p, found |-> {}, tries |-> TriedPages]))
      BY <1>1, <1>3 DEF HuntOK, After, HuntFields
    <2>2. HuntsOK'
      BY <1>5, <2>1, HuntChanges DEF DiscoveryInv
    <2>3. RowsOK'
      BY <1>1, <1>3, <1>4, <1>5, RowPersisted
    <2> QED BY <2>2, <2>3
  <1>6. CASE /\ Set(h, [found |-> hunt[h].found \ {p}, tries |-> hunt[h].tries - 1])
             /\ UNCHANGED row
    <2>1. HuntOK(After(h, [found |-> hunt[h].found \ {p}, tries |-> hunt[h].tries - 1]))
      BY <1>1 DEF HuntOK, After, HuntFields
    <2> QED BY <1>4, <1>6, <2>1, HuntChanges, RowsStay DEF DiscoveryInv
  <1> QED BY <1>2, <1>5, <1>6

LEMMA ComeToNothingKeeps ==
  ASSUME DiscoveryInv, NEW h \in Hunters, ComeToNothing(h)
  PROVE  HuntsOK' /\ RowsOK'
PROOF
  <1>1. HuntOK(hunt[h]) /\ hunt[h].at = "resolve" /\ hunt[h].job \in Works
    BY DEF DiscoveryInv, HuntsOK, HuntOK, ComeToNothing, Is
  <1>2. Set(h, [at |-> "nothing", found |-> {}, tries |-> TriedPages])
    BY DEF ComeToNothing
  <1>3. HuntOK(After(h, [at |-> "nothing", found |-> {}, tries |-> TriedPages]))
    BY <1>1 DEF HuntOK, After, HuntFields
  <1>4. HuntsOK'
    BY <1>2, <1>3, HuntChanges DEF DiscoveryInv
  <1>5. RowsOK'
    BY <1>1, RowPersisted DEF ComeToNothing
  <1> QED BY <1>4, <1>5

LEMMA IdentifyKeeps ==
  ASSUME DiscoveryInv, NEW h \in Hunters, Identify(h)
  PROVE  DiscoveryInv'
PROOF
  <1>1. PICK d \in Works, force \in BOOLEAN, season \in BOOLEAN, begun \in {"kept", "searching"} :
          /\ hunt' = [hunt EXCEPT ![h] = [NoHunt EXCEPT !.at = "negative", !.job = d,
                                                        !.force = force, !.season = season]]
          /\ ready' = [ready EXCEPT ![d] = IF begun = "kept" THEN @ ELSE NoPage]
          /\ Persist(d, "identified", NoPage)
    BY DEF Identify
  <1>2. UNCHANGED <<ticks, barren>>
    BY DEF Identify
  <1>3. HuntOK([NoHunt EXCEPT !.at = "negative", !.job = d, !.force = force, !.season = season])
    BY DEF NoHunt, HuntOK, HuntFields
  <1>4. HuntsOK'
    BY <1>1, <1>3 DEF DiscoveryInv, HuntsOK
  <1>5. RowsOK'
    BY <1>1, <1>2, RowPersisted
  <1>6. ready' \in [Works -> Candidate \cup {NoPage}]
    BY <1>1 DEF DiscoveryInv
  <1> QED BY <1>2, <1>4, <1>5, <1>6 DEF DiscoveryInv

LEMMA SavesKeep ==
  ASSUME DiscoveryInv, NEW h \in Hunters, SaveReady(h) \/ SaveNothing(h) \/ HuntBreaks(h)
  PROVE  DiscoveryInv'
PROOF
  <1>1. hunt' = [hunt EXCEPT ![h] = NoHunt] /\ UNCHANGED <<row, barren, ticks>>
    BY DEF SaveReady, SaveNothing, HuntBreaks, LedgerKept
  <1>2. HuntsOK' /\ RowsOK'
    BY <1>1, HuntEnds, RowsStay DEF DiscoveryInv
  <1>3. hunt[h].page \in Candidate \cup {NoPage}
    BY DEF DiscoveryInv, HuntsOK, HuntOK
  <1>4. ready' \in [Works -> Candidate \cup {NoPage}]
    BY <1>3 DEF SaveReady, SaveNothing, HuntBreaks, DiscoveryInv
  <1> QED BY <1>1, <1>2, <1>4 DEF DiscoveryInv

LEMMA TimePassesKeeps ==
  ASSUME DiscoveryInv, TimePasses
  PROVE  DiscoveryInv'
PROOF
  <1>1. /\ ticks \in Nat /\ ticks < MaxTicks /\ MaxTicks \in Nat /\ ticks' = ticks + 1
        /\ UNCHANGED <<row, ready, hunt, barren>>
    BY DiscoveryAssumption DEF TimePasses, DiscoveryInv
  <1>2. ASSUME NEW d \in Works PROVE RowOK(row[d])'
    <2>1. RowOK(row[d]) /\ barren \in Nat
      BY DEF DiscoveryInv, RowsOK
    <2> QED BY <1>1, <2>1 DEF RowOK
  <1>3. RowsOK'
    BY <1>1, <1>2 DEF DiscoveryInv, RowsOK
  <1>4. HuntsOK'
    BY <1>1 DEF DiscoveryInv, HuntsOK
  <1> QED BY <1>1, <1>3, <1>4 DEF DiscoveryInv

LEMMA DiscoveryInductive ==
  ASSUME DiscoveryInv, [VNext]_discoveryVars
  PROVE  DiscoveryInv'
PROOF
  <1>1. ASSUME NEW h \in Hunters, Consult(h) \/ Gather(h) PROVE DiscoveryInv'
    <2>1. UNCHANGED <<row, barren, ticks, ready>>
      BY <1>1 DEF Consult, AnswerNegative, UseVerified, BeginSearch, Gather, LedgerKept
    <2>2. HuntsOK'
      BY <1>1, ConsultKeeps, GatherKeeps
    <2> QED BY <2>1, <2>2, RowsStay DEF DiscoveryInv
  <1>2. ASSUME NEW h \in Hunters, ResolvePage(h) \/ ComeToNothing(h) PROVE DiscoveryInv'
    <2>1. UNCHANGED <<ticks, ready>> /\ barren' \in {barren, ticks}
      BY <1>2 DEF ResolvePage, ComeToNothing
    <2>2. HuntsOK' /\ RowsOK'
      BY <1>2, ResolvePageKeeps, ComeToNothingKeeps
    <2>3. barren' \in Nat
      BY <2>1, DiscoveryAssumption DEF DiscoveryInv
    <2> QED BY <2>1, <2>2, <2>3 DEF DiscoveryInv
  <1>3. CASE UNCHANGED discoveryVars
    BY <1>3, RowsStay DEF discoveryVars, DiscoveryInv, HuntsOK
  <1> QED
    BY <1>1, <1>2, <1>3, IdentifyKeeps, SavesKeep, TimePassesKeeps DEF VNext

LEMMA DiscoveryBegins == ASSUME VInit PROVE DiscoveryInv
PROOF
  <1>1. HuntOK(NoHunt)
    BY DEF NoHunt, HuntOK, HuntFields
  <1>2. HuntsOK
    BY <1>1 DEF VInit, HuntsOK
  <1>3. RowsOK
    BY DEF VInit, RowsOK, RowOK
  <1> QED BY <1>2, <1>3, DiscoveryAssumption DEF VInit, DiscoveryInv

\* The discoveries' invariant holds throughout.
LEMMA DiscoveryInvariant == ServicesSpec => []DiscoveryInv
PROOF
  <1>1. ServicesInit => DiscoveryInv
    BY EveryServiceBegins, DiscoveryBegins
  <1>2. DiscoveryInv /\ [ServicesNext]_serviceVars => DiscoveryInv'
    BY OneServiceSteps, DiscoveryInductive
  <1> QED BY <1>1, <1>2, PTL DEF ServicesSpec

\* "No verified sources" is only answered while a discovery of the work that came
\* to nothing by itself is recent, however many discoveries of it overlap, and a
\* forced discovery says so only after a search of its own (media_discovery.py,
\* _recent_negative, candidates, discover).
THEOREM NegativesAreFresh == ServicesSpec => []NegativeIsFresh
PROOF
  <1>1. DiscoveryInv => NegativeIsFresh
    BY DEF DiscoveryInv, HuntsOK, HuntOK, NegativeIsFresh, Is
  <1> QED BY <1>1, DiscoveryInvariant, PTL

LEMMA DiscoveryTypes == DiscoveryInv => DiscoveryTypeOK
PROOF BY DEF DiscoveryInv, RowsOK, RowOK, DiscoveryTypeOK

\* The ledger and the discoveries are well formed throughout.
LEMMA DiscoveryTyped == ServicesSpec => []DiscoveryTypeOK
PROOF BY DiscoveryInvariant, DiscoveryTypes, PTL

(* ------------------------- The media box's setup ----------------------- *)
ScriptFields == {"at", "pre", "added", "manifest", "needs", "todo", "unseen", "unread", "began"}
NoManifest == [c \in {} |-> "absent"]
Found == script.began
Seen == Packages \ script.unseen
WasIn(p) == Found.package[p] = "in"

\* Of the packages it sees, the run knows which were there when it began ...
StockKnown == \A p \in Seen : p \in script.pre <=> WasIn(p)
\* ... apt-get install removes none ...
NoneLost == \A p \in Seen : WasIn(p) => package[p] # "out"
\* ... and those it has noted are all that it has added.
AddedKnown ==
  \A p \in Seen : IF WasIn(p) THEN package[p] = "in" /\ p \notin script.added
                  ELSE p \in script.added \/ package[p] = "out"
PackagesBack ==
  \A p \in Seen : IF WasIn(p) THEN package[p] # "out" ELSE package[p] = "out"

\* What the files were is noted, or is still what they are.
FilesKnown ==
  \/ script.manifest = Found.config
  \/ script.manifest = NoManifest /\ config = Found.config

\* How much of what it found a run still knows, at each of its steps.
BootInv ==
  /\ DOMAIN script = ScriptFields
  /\ package \in [Packages -> PackageStates]
  /\ config \in [Configs -> ConfigStates]
  /\ Found.config \in [Configs -> ConfigStates]
  /\ script.added \cap script.pre \subseteq script.unseen
  /\ script.at \in {"checks", "guards", "update", "install", "note", "noteFailed", "record", "exit20"} =>
       script.manifest = NoManifest /\ config = Found.config
  /\ script.at \in {"checks", "guards", "update", "install", "exit20"} =>
       package = Found.package /\ script.added = {}
  /\ script.at \in {"update", "install", "note", "noteFailed"} => StockKnown /\ NoneLost
  /\ script.at \in {"record", "write", "verify", "remove"} => AddedKnown
  /\ script.at \in {"write", "verify"} => script.manifest = Found.config
  /\ script.at = "remove" => FilesKnown
  /\ script.at = "restore" =>
       /\ PackagesBack
       /\ script.todo \subseteq DOMAIN script.manifest
       /\ \A c \in DOMAIN script.manifest : c \in Configs /\ script.manifest[c] = Found.config[c]
       /\ script.unread \/ \A c \in Configs \ script.todo : config[c] = Found.config[c]
  /\ script.at = "unrestored" =>
       \A c \in script.todo : c \in Configs /\ script.manifest[c] \in ConfigStates
  /\ script.at = "exit50" => PackagesBack /\ (script.unread \/ config = Found.config)

LEMMA GoChanges ==
  ASSUME NEW fields, DOMAIN script = ScriptFields, Go(fields)
  PROVE  /\ DOMAIN script' = ScriptFields
         /\ \A f \in ScriptFields :
              script'[f] = IF f \in DOMAIN fields THEN fields[f] ELSE script[f]
PROOF BY DEF Go

\* A step that changes no more than where the run is and what it has to do yet.
LEMMA GoesOn ==
  ASSUME NEW fields, BootInv, Go(fields), DOMAIN fields \subseteq {"at", "todo"}
  PROVE  /\ DOMAIN script' = ScriptFields
         /\ \A f \in ScriptFields \ {"at", "todo"} : script'[f] = script[f]
         /\ Found' = Found /\ Seen' = Seen
         /\ \A p : WasIn(p)' <=> WasIn(p)
         /\ package' = package =>
              /\ StockKnown => StockKnown'
              /\ NoneLost => NoneLost'
              /\ AddedKnown => AddedKnown'
              /\ PackagesBack => PackagesBack'
         /\ config' = config /\ FilesKnown => FilesKnown'
PROOF
  <1>1. /\ DOMAIN script' = ScriptFields
        /\ \A f \in ScriptFields \ {"at", "todo"} : script'[f] = script[f]
    BY GoChanges DEF BootInv, ScriptFields
  <1>2. /\ script'.began = script.began /\ script'.unseen = script.unseen
        /\ script'.added = script.added /\ script'.pre = script.pre
        /\ script'.manifest = script.manifest
    BY <1>1 DEF ScriptFields
  <1>3. Found' = Found /\ Seen' = Seen /\ \A p : WasIn(p)' <=> WasIn(p)
    BY <1>2 DEF Found, Seen, WasIn
  <1>4. ASSUME package' = package
        PROVE  /\ StockKnown => StockKnown'
               /\ NoneLost => NoneLost'
               /\ AddedKnown => AddedKnown'
               /\ PackagesBack => PackagesBack'
    BY <1>2, <1>3, <1>4 DEF StockKnown, NoneLost, AddedKnown, PackagesBack
  <1>5. config' = config /\ FilesKnown => FilesKnown'
    BY <1>2, <1>3 DEF FilesKnown
  <1> QED BY <1>1, <1>3, <1>4, <1>5

LEMMA TakeStockKeeps ==
  ASSUME BootInv, TakeStock
  PROVE  BootInv'
PROOF
  <1> USE DEF ScriptFields, Box, Doing
  <1>1. PICK told \in SUBSET Installed, missing \in BOOLEAN, differs \in BOOLEAN :
          /\ told # Packages => missing
          /\ Go([at |-> IF missing THEN "update" ELSE "record",
                 pre |-> told, needs |-> differs, unseen |-> Installed \ told])
    BY DEF TakeStock
  <1>2. /\ DOMAIN script' = ScriptFields /\ script'.pre = told /\ script'.unseen = Installed \ told
        /\ script'.added = script.added /\ script'.manifest = script.manifest
        /\ script'.began = script.began
        /\ script'.at = IF missing THEN "update" ELSE "record"
    BY <1>1, GoChanges DEF BootInv
  <1>3. /\ script.added = {} /\ package = Found.package /\ config = Found.config
        /\ script.manifest = NoManifest /\ UNCHANGED <<package, config>>
    BY DEF TakeStock, BootInv
  <1>4. \A p \in Packages : p \in Installed <=> WasIn(p)
    BY <1>3 DEF Installed, WasIn
  <1>5. StockKnown' /\ NoneLost'
    BY <1>1, <1>2, <1>3, <1>4 DEF StockKnown, NoneLost, Seen, WasIn, Found
  <1>6. CASE missing
    BY <1>2, <1>3, <1>5, <1>6 DEF BootInv, Found
  <1>7. CASE ~missing
    <2>1. told = Packages
      BY <1>1, <1>7
    <2>2. AddedKnown'
      BY <1>1, <1>2, <1>3, <2>1 DEF AddedKnown, Seen, WasIn, Found, Installed
    <2> QED BY <1>2, <1>3, <1>7, <2>2 DEF BootInv, Found
  <1> QED BY <1>6, <1>7

LEMMA AptInstallKeeps ==
  ASSUME BootInv, AptInstall
  PROVE  BootInv'
PROOF
  <1>1. PICK at \in {"note", "noteFailed"} : Go([at |-> at])
    BY DEF AptInstall
  <1>2. /\ DOMAIN script' = ScriptFields /\ script'.at = at
        /\ \A f \in ScriptFields \ {"at"} : script'[f] = script[f]
    BY <1>1, GoChanges DEF BootInv, ScriptFields
  <1>3. script.at = "install" /\ config' = config
    BY DEF AptInstall, Doing
  <1>4. /\ package' \in [Packages -> PackageStates]
        /\ \A p \in Packages : package[p] = "in" => package'[p] # "out"
    <2>1. CASE package' = [p \in Packages |-> "in"]
      BY <2>1 DEF PackageStates
    <2>2. CASE package' \in PartlyInstalled
      BY <2>2 DEF PartlyInstalled, InstallLeaves
    <2> QED BY <2>1, <2>2 DEF AptInstall
  <1>5. StockKnown /\ package = Found.package
    BY <1>3 DEF BootInv
  <1>6. Found' = Found /\ Seen' = Seen /\ script'.pre = script.pre
    BY <1>2 DEF Found, Seen, ScriptFields
  <1>7. StockKnown' /\ NoneLost'
    BY <1>4, <1>5, <1>6 DEF StockKnown, NoneLost, WasIn, Seen
  <1> QED BY <1>2, <1>3, <1>4, <1>6, <1>7 DEF BootInv, ScriptFields

LEMMA NoteKeeps ==
  ASSUME BootInv, Note
  PROVE  BootInv'
PROOF
  <1> USE DEF ScriptFields, Box, Doing
  <1> DEFINE half == {p \in Packages : package[p] = "half"}
  <1>1. PICK told \in SUBSET Installed, known \in SUBSET script.pre :
          Go([at |-> IF Doing("note") THEN "record" ELSE "remove",
              added |-> told \ known,
              unseen |-> script.unseen \cup (Installed \ told) \cup (script.pre \ known) \cup half])
    BY DEF Note, NoteAdded
  <1>2. /\ DOMAIN script' = ScriptFields /\ script'.added = told \ known
        /\ script'.unseen = script.unseen \cup (Installed \ told) \cup (script.pre \ known) \cup half
        /\ script'.pre = script.pre /\ script'.manifest = script.manifest
        /\ script'.began = script.began /\ script'.at \in {"record", "remove"}
    BY <1>1, GoChanges DEF BootInv
  <1>3. /\ StockKnown /\ NoneLost /\ config = Found.config /\ script.manifest = NoManifest
        /\ UNCHANGED <<package, config>>
    BY DEF Note, BootInv
  <1>4. ASSUME NEW p \in Seen'
        PROVE  IF WasIn(p)' THEN package'[p] = "in" /\ p \notin script'.added
               ELSE p \in script'.added \/ package'[p] = "out"
    <2>1. /\ p \in Seen /\ p \in Packages /\ package[p] \in {"in", "out"}
          /\ p \in Installed => p \in told
          /\ p \in script.pre => p \in known
      BY <1>2, <1>4 DEF Seen, BootInv, PackageStates
    <2>2. WasIn(p)' <=> WasIn(p)
      BY <1>2 DEF WasIn, Found
    <2>3. CASE WasIn(p)
      BY <1>2, <1>3, <2>1, <2>2, <2>3 DEF StockKnown, NoneLost
    <2>4. CASE ~WasIn(p)
      BY <1>1, <1>2, <1>3, <2>1, <2>2, <2>4 DEF StockKnown, Installed
    <2> QED BY <2>3, <2>4
  <1>5. AddedKnown'
    BY <1>4 DEF AddedKnown
  <1>6. FilesKnown' /\ (script.added \cap script.pre \subseteq script.unseen)'
    BY <1>2, <1>3 DEF FilesKnown, Found
  <1> QED BY <1>2, <1>3, <1>5, <1>6 DEF BootInv, Found

LEMMA RemovedLeavesPackages ==
  ASSUME BootInv, package' \in PartlyRemoved
  PROVE  package' \in [Packages -> PackageStates]
PROOF
  <1>1. \A p \in Packages : RemoveLeaves(p) \subseteq PackageStates
    BY DEF RemoveLeaves, PackageStates, BootInv
  <1> QED BY <1>1 DEF PartlyRemoved

LEMMA RemoveAddedKeeps ==
  ASSUME BootInv, RemoveAdded
  PROVE  BootInv'
PROOF
  <1>1. /\ config' = config /\ script.at = "remove" /\ AddedKnown /\ FilesKnown
        /\ package' \in PartlyRemoved
    BY DEF RemoveAdded, BootInv, Doing
  <1>2. package' \in [Packages -> PackageStates]
    BY <1>1, RemovedLeavesPackages
  <1>3. CASE Go([at |-> "exit60"])
    <2>1. /\ DOMAIN script' = ScriptFields /\ script'.at = "exit60"
          /\ \A f \in ScriptFields \ {"at"} : script'[f] = script[f]
      BY <1>3, GoChanges DEF BootInv, ScriptFields
    <2> QED BY <1>1, <1>2, <2>1 DEF BootInv, ScriptFields, Found
  <1>4. CASE /\ \A p \in script.added : package'[p] = "out"
             /\ Go([at |-> "restore", todo |-> DOMAIN script.manifest])
    <2>1. /\ DOMAIN script' = ScriptFields /\ script'.at = "restore" /\ script'.todo = DOMAIN script.manifest
          /\ \A f \in ScriptFields \ {"at", "todo"} : script'[f] = script[f]
      BY <1>4, GoChanges DEF BootInv, ScriptFields
    <2>2. Found' = Found /\ Seen' = Seen /\ script'.manifest = script.manifest
      BY <2>1 DEF Found, Seen, ScriptFields
    <2>3. ASSUME NEW p \in Seen
          PROVE  IF WasIn(p) THEN package'[p] # "out" ELSE package'[p] = "out"
      <3>1. p \in Packages /\ package'[p] \in RemoveLeaves(p)
        BY <1>1 DEF Seen, PartlyRemoved
      <3>2. IF WasIn(p) THEN package[p] = "in" /\ p \notin script.added
            ELSE p \in script.added \/ package[p] = "out"
        BY <1>1 DEF AddedKnown
      <3> QED BY <1>4, <3>1, <3>2 DEF RemoveLeaves
    <2>4. PackagesBack'
      BY <2>2, <2>3 DEF PackagesBack, WasIn
    <2>5. /\ \A c \in DOMAIN script.manifest : c \in Configs /\ script.manifest[c] = Found.config[c]
          /\ \A c \in Configs \ DOMAIN script.manifest : config[c] = Found.config[c]
      <3>1. CASE script.manifest = Found.config
        BY <3>1 DEF BootInv
      <3>2. CASE script.manifest = NoManifest /\ config = Found.config
        BY <3>2 DEF NoManifest
      <3> QED BY <1>1, <3>1, <3>2 DEF FilesKnown
    <2> QED BY <1>1, <1>2, <2>1, <2>2, <2>4, <2>5 DEF BootInv, ScriptFields
  <1> QED BY <1>3, <1>4 DEF RemoveAdded

LEMMA RestoreConfigKeeps ==
  ASSUME BootInv, NEW c \in Configs, RestoreConfig(c)
  PROVE  BootInv'
PROOF
  <1>1. package' = package /\ script.at = "restore" /\ c \in script.todo
    BY DEF RestoreConfig, Doing
  <1>2. CASE config' = [config EXCEPT ![c] = script.manifest[c]] /\ Go([todo |-> script.todo \ {c}])
    <2>1. /\ DOMAIN script' = ScriptFields /\ script'.todo = script.todo \ {c}
          /\ \A f \in ScriptFields \ {"todo"} : script'[f] = script[f]
      BY <1>2, GoChanges DEF BootInv, ScriptFields
    <2>2. Found' = Found /\ (PackagesBack => PackagesBack')
      BY <1>1, <1>2, GoesOn
    <2>3. script.manifest[c] = Found.config[c]
      BY <1>1 DEF BootInv
    <2>4. config' \in [Configs -> ConfigStates]
      BY <1>2, <2>3 DEF BootInv
    <2>5. script.unread \/ \A x \in Configs \ script'.todo : config'[x] = Found.config[x]
      BY <1>1, <1>2, <2>1, <2>3 DEF BootInv
    <2> QED BY <1>1, <2>1, <2>2, <2>4, <2>5 DEF BootInv, ScriptFields
  <1>3. CASE \E left \in {config[c], "cut"} :
               /\ config' = [config EXCEPT ![c] = left]
               /\ Go([todo |-> script.todo \ {c}, at |-> "unrestored"])
    <2>1. /\ DOMAIN script' = ScriptFields /\ script'.at = "unrestored"
          /\ script'.todo = script.todo \ {c}
          /\ \A f \in ScriptFields \ {"at", "todo"} : script'[f] = script[f]
      BY <1>3, GoChanges DEF BootInv, ScriptFields
    <2>2. config' \in [Configs -> ConfigStates]
      BY <1>3 DEF BootInv, ConfigStates
    <2>3. \A x \in script.todo : x \in Configs /\ script.manifest[x] \in ConfigStates
      BY <1>1 DEF BootInv
    <2>4. Found' = Found
      BY <2>1 DEF Found, ScriptFields
    <2> QED BY <1>1, <2>1, <2>2, <2>3, <2>4 DEF BootInv, ScriptFields
  <1> QED BY <1>2, <1>3 DEF RestoreConfig

LEMMA RollbackEndsKeeps ==
  ASSUME BootInv, ManifestUnread \/ RollbackEnds
  PROVE  BootInv'
PROOF
  <1>1. CASE ManifestUnread
    <2>1. /\ script.at \in {"restore", "unrestored"} /\ Go([todo |-> {}, unread |-> TRUE])
          /\ UNCHANGED <<package, config>>
      BY <1>1 DEF ManifestUnread, Box
    <2>2. /\ DOMAIN script' = ScriptFields /\ script'.todo = {} /\ script'.unread = TRUE
          /\ \A f \in ScriptFields \ {"todo", "unread"} : script'[f] = script[f]
      BY <2>1, GoChanges DEF BootInv, ScriptFields
    <2>3. Found' = Found /\ Seen' = Seen
      BY <2>2 DEF Found, Seen, ScriptFields
    <2>4. PackagesBack => PackagesBack'
      BY <2>1, <2>3 DEF PackagesBack, WasIn
    <2> QED BY <2>1, <2>2, <2>3, <2>4 DEF BootInv, ScriptFields
  <1>2. CASE RollbackEnds
    <2>1. PICK at \in {"exit50", "exit60"} :
            /\ Go([at |-> at]) /\ UNCHANGED <<package, config>> /\ script.todo = {}
            /\ at = "exit50" => script.at = "restore"
      BY <1>2 DEF RollbackEnds, Box, Doing
    <2>2. /\ DOMAIN script' = ScriptFields /\ script'.at = at
          /\ \A f \in ScriptFields \ {"at"} : script'[f] = script[f]
      BY <2>1, GoChanges DEF BootInv, ScriptFields
    <2>3. Found' = Found /\ (PackagesBack => PackagesBack')
      BY <2>1, GoesOn
    <2>4. at = "exit50" => PackagesBack /\ (script.unread \/ config = Found.config)
      BY <2>1 DEF BootInv
    <2> QED BY <2>1, <2>2, <2>3, <2>4 DEF BootInv, ScriptFields
  <1> QED BY <1>1, <1>2

LEMMA BootInductive ==
  ASSUME BootInv, [BNext]_bootVars
  PROVE  BootInv'
PROOF
  <1> USE DEF Doing, Box
  <1>1. CASE RunScript
    <2>1. /\ script' = [Off EXCEPT !.at = "checks", !.todo = guards,
                           !.began = [package |-> package, config |-> config]]
          /\ UNCHANGED <<package, config, guards>>
      BY <1>1 DEF RunScript
    <2> QED BY <2>1 DEF Off, BootInv, NoManifest, ScriptFields, Found
  <1>2. CASE CheckFails \/ ChecksPass \/ AptUpdate
    <2>1. PICK at \in {"exit10", "guards", "install", "exit20"} :
            /\ Go([at |-> at]) /\ UNCHANGED <<package, config>>
            /\ \/ script.at \in {"checks", "guards"} /\ at \in {"exit10", "guards"}
               \/ script.at = "update" /\ at \in {"install", "exit20"}
      BY <1>2 DEF CheckFails, ChecksPass, AptUpdate
    <2>2. /\ DOMAIN script' = ScriptFields /\ script'.at = at
          /\ \A f \in ScriptFields \ {"at"} : script'[f] = script[f]
      BY <2>1, GoChanges DEF BootInv, ScriptFields
    <2>3. /\ Found' = Found /\ (StockKnown => StockKnown') /\ (NoneLost => NoneLost')
      BY <2>1, GoesOn
    <2> QED BY <2>1, <2>2, <2>3 DEF BootInv, ScriptFields
  <1>3. ASSUME NEW g \in Guards, DisableGuard(g) PROVE BootInv'
    <2>1. /\ DOMAIN script' = ScriptFields
          /\ \A f \in ScriptFields \ {"todo"} : script'[f] = script[f]
      BY <1>3, GoChanges DEF DisableGuard, BootInv, ScriptFields
    <2> QED BY <1>3, <2>1 DEF DisableGuard, BootInv, ScriptFields, Found
  <1>4. CASE RecordConfig
    <2>1. CASE Go([at |-> IF script.needs THEN "write" ELSE "verify", manifest |-> config, todo |-> Configs])
      <3>1. /\ DOMAIN script' = ScriptFields
            /\ \A f \in {"pre", "added", "unseen", "began"} : script'[f] = script[f]
            /\ script'.manifest = config /\ script'.at \in {"write", "verify"}
        BY <2>1, GoChanges DEF BootInv, ScriptFields
      <3> QED BY <1>4, <3>1 DEF RecordConfig, BootInv, AddedKnown, Seen, WasIn, Found
    <2>2. CASE Go([at |-> "exit10"])
      <3>1. /\ DOMAIN script' = ScriptFields /\ script'.at = "exit10"
            /\ \A f \in ScriptFields \ {"at"} : script'[f] = script[f]
        BY <2>2, GoChanges DEF BootInv, ScriptFields
      <3> QED BY <1>4, <3>1 DEF RecordConfig, BootInv, ScriptFields, Found
    <2> QED BY <1>4, <2>1, <2>2 DEF RecordConfig
  <1>5. ASSUME NEW c \in Configs, WriteConfig(c) PROVE BootInv'
    <2>1. script.at = "write" /\ script'.at \in {"write", "remove"}
      BY <1>5, GoChanges DEF WriteConfig, BootInv, ScriptFields
    <2>2. PICK fields : Go(fields) /\ DOMAIN fields \subseteq {"at", "todo"}
      BY <1>5 DEF WriteConfig
    <2>3. config' \in [Configs -> ConfigStates] /\ package' = package
      BY <1>5 DEF WriteConfig, BootInv, ConfigStates
    <2>4. /\ DOMAIN script' = ScriptFields /\ Found' = Found /\ AddedKnown'
          /\ \A f \in ScriptFields \ {"at", "todo"} : script'[f] = script[f]
      BY <2>1, <2>2, <2>3, GoesOn DEF BootInv
    <2> QED BY <2>1, <2>3, <2>4 DEF BootInv, FilesKnown, ScriptFields
  <1>6. CASE WritesDone \/ Verify
    <2>1. PICK at \in {"verify", "exit0", "remove"} :
            Go([at |-> at]) /\ UNCHANGED <<package, config>> /\ script.at \in {"write", "verify"}
      BY <1>6 DEF WritesDone, Verify
    <2>2. /\ DOMAIN script' = ScriptFields /\ script'.at = at
          /\ \A f \in ScriptFields \ {"at"} : script'[f] = script[f]
      BY <2>1, GoChanges DEF BootInv, ScriptFields
    <2>3. Found' = Found /\ (AddedKnown => AddedKnown')
      BY <2>1, GoesOn
    <2> QED BY <2>1, <2>2, <2>3 DEF BootInv, FilesKnown, ScriptFields
  <1>7. ASSUME NEW c \in Configs, RestoreAfterFailure(c) PROVE BootInv'
    <2>1. /\ DOMAIN script' = ScriptFields /\ script'.todo = script.todo \ {c}
          /\ \A f \in ScriptFields \ {"todo"} : script'[f] = script[f]
      BY <1>7, GoChanges DEF RestoreAfterFailure, BootInv, ScriptFields
    <2>2. config' \in [Configs -> ConfigStates]
      BY <1>7 DEF RestoreAfterFailure, BootInv, ConfigStates
    <2> QED BY <1>7, <2>1, <2>2 DEF RestoreAfterFailure, BootInv, ScriptFields, Found
  <1>8. CASE KillScript
    <2>1. config' \in [Configs -> ConfigStates]
      BY <1>8 DEF KillScript, Torn, BootInv
    <2>2. script' = Off
      BY <1>8 DEF KillScript
    <2>3. package' \in [Packages -> PackageStates]
      <3>1. CASE package' \in PartlyRemoved
        BY <3>1, RemovedLeavesPackages
      <3>2. CASE package' \in PartlyInstalled
        BY <3>2 DEF PartlyInstalled
      <3> QED BY <1>8, <3>1, <3>2 DEF KillScript, BootInv
    <2> QED BY <2>1, <2>2, <2>3 DEF Off, BootInv, ScriptFields, Found, ConfigStates
  <1>9. CASE UNCHANGED bootVars
    BY <1>9 DEF bootVars, BootInv, StockKnown, NoneLost, AddedKnown, PackagesBack, FilesKnown, Seen, WasIn, Found
  <1> QED
    BY <1>1, <1>2, <1>3, <1>4, <1>5, <1>6, <1>7, <1>8, <1>9, TakeStockKeeps, AptInstallKeeps,
       NoteKeeps, RemoveAddedKeeps, RestoreConfigKeeps, RollbackEndsKeeps
    DEF BNext

\* The run's invariant holds throughout.
LEMMA BootInvariant == ServicesSpec => []BootInv
PROOF
  <1>1. ServicesInit => BootInv
    <2>1. ASSUME ServicesInit PROVE BootInv
      <3>1. /\ script = Off /\ config \in [Configs -> ConfigStates]
            /\ package \in [Packages -> PackageStates]
        BY <2>1, EveryServiceBegins DEF BInit, ConfigStates
      <3> QED BY <3>1 DEF Off, BootInv, ScriptFields, Found, ConfigStates
    <2> QED BY <2>1
  <1>2. BootInv /\ [ServicesNext]_serviceVars => BootInv'
    BY OneServiceSteps, BootInductive
  <1> QED BY <1>1, <1>2, PTL DEF ServicesSpec

\* A run that says it has rolled back has put the files back, leaves no listed
\* package installed that was not and has removed none that was, but for those that
\* were half installed when it looked, those a look of its own failed of, and the
\* files of a manifest it could not read, whichever tool has failed and whatever a
\* killed run had left (debian_media_bootstrap.py, fail_after_mutation,
\* rollback_new_packages, restore_configs).
THEOREM RollbackIsWhole == ServicesSpec => []FailedRunRestores
PROOF
  <1>1. BootInv => FailedRunRestores
    BY DEF BootInv, FailedRunRestores, PackagesBack, Seen, WasIn, Found, Doing
  <1> QED BY <1>1, BootInvariant, PTL

\* The guards that are still enabled are some of the script's.
LEMMA GuardsTyped == ServicesSpec => [](guards \subseteq Guards)
PROOF
  <1>1. ServicesInit => guards \subseteq Guards
    BY EveryServiceBegins DEF BInit
  <1>2. ASSUME guards \subseteq Guards, [BNext]_bootVars PROVE guards' \subseteq Guards
    <2>1. guards' = guards \/ \E g \in Guards : guards' = guards \ {g}
      BY <1>2 DEF BNext, RunScript, CheckFails, ChecksPass, DisableGuard, TakeStock, AptUpdate, AptInstall,
         Note, RecordConfig, WriteConfig, WritesDone, Verify, RemoveAdded, RestoreConfig,
         RestoreAfterFailure, ManifestUnread, RollbackEnds, KillScript, Box, bootVars
    <2> QED BY <1>2, <2>1
  <1>3. guards \subseteq Guards /\ [ServicesNext]_serviceVars => (guards \subseteq Guards)'
    BY <1>2, OneServiceSteps
  <1> QED BY <1>1, <1>3, PTL DEF ServicesSpec

\* The run and the box are well formed throughout.
LEMMA BootTyped == ServicesSpec => []BootTypeOK
PROOF
  <1>1. BootInv /\ guards \subseteq Guards => BootTypeOK
    BY DEF BootInv, BootTypeOK
  <1> QED BY <1>1, BootInvariant, GuardsTyped, PTL

(* ----------------------------- Source snapshot ------------------------- *)
CaptureFields == {"at", "lstat", "handle", "bytes", "met"}

\* While nothing has moved the file's modification time since a run's lstat,
\* what the run has open is the file, and what it has read is what is there.
Reads(r) ==
  capture[r].at \in {"open", "read", "rest", "compare"} =>
    /\ capture[r].lstat.mtime \in Nat /\ capture[r].lstat.mtime <= source.mtime
    /\ capture[r].lstat.mtime = source.mtime =>
         /\ capture[r].at \in {"read", "rest"} => capture[r].handle = Live
         /\ capture[r].at = "rest" => capture[r].bytes[1] = source.halves[1]
         /\ capture[r].at = "compare" => capture[r].bytes = source.halves

\* What passed the comparison is a version of the file that is valid.
Checked(r) ==
  /\ capture[r].at \in {"reply", "link"} => capture[r].bytes \in had /\ ValidSource(capture[r].bytes)
  /\ capture[r].at = "verify" => capture[r].bytes = artifact /\ artifact # NoContent
  /\ capture[r].at = "met" => capture[r].met = artifact /\ artifact # NoContent

SnapshotInv ==
  /\ DOMAIN source = {"ino", "mtime", "halves"}
  /\ source.mtime \in Nat /\ had \subseteq Nat \X Nat /\ source.halves \in had
  /\ artifact # NoContent => artifact \in had /\ ValidSource(artifact)
  /\ DOMAIN capture = Captures
  /\ \A r \in Captures : DOMAIN capture[r] = CaptureFields /\ Reads(r) /\ Checked(r)

\* The two validations agree: what the script at the box lets through, the run
\* takes for valid.
LEMMA BoxAgrees ==
  ASSUME NEW content, ~BoxRefuses(Text(content))
  PROVE  ValidSource(content)
PROOF
  <1> DEFINE text == Text(content)
  <1>1. \A i \in DOMAIN text : text[i].is # "broken" /\ ~(text[i].is = "literal" /\ LiveSecret(text[i]))
    BY DEF BoxRefuses
  <1>2. Having(text, "broken") = {} /\ CredentialLiterals(text) = {}
    BY <1>1 DEF Having, CredentialLiterals
  <1>3. PICK app \in FlaskAppNames(text), i \in DOMAIN text :
          text[i].is = "route" /\ text[i].name = app /\ text[i].path = "/video"
    BY DEF BoxRefuses
  <1>4. PICK app2 \in FlaskAppNames(text), j \in DOMAIN text :
          text[j].is = "route" /\ text[j].name = app2 /\ text[j].path \in {"/health", "/healthz"}
    BY DEF BoxRefuses
  <1>5. "/video" \in RoutePaths(text)
    BY <1>3 DEF RoutePaths, Having
  <1>6. RoutePaths(text) \cap {"/health", "/healthz"} # {}
    BY <1>4 DEF RoutePaths, Having
  <1>7. IdentityMarkers(text)
    BY DEF BoxRefuses, IdentityMarkers, Having
  <1> QED BY <1>2, <1>5, <1>6, <1>7 DEF ValidSource, RouteMarkers

LEMMA CaptureChanges ==
  ASSUME NEW r \in Captures, NEW fields, SnapshotInv, Put(r, fields)
  PROVE  /\ DOMAIN capture' = Captures
         /\ \A q \in Captures : q # r => capture'[q] = capture[q]
         /\ DOMAIN capture'[r] = CaptureFields
         /\ \A f \in CaptureFields :
              capture'[r][f] = IF f \in DOMAIN fields THEN fields[f] ELSE capture[r][f]
PROOF BY DEF Put, SnapshotInv

\* A step of one run that leaves the file and the artifact alone.
LEMMA OneRunSteps ==
  ASSUME SnapshotInv, UNCHANGED <<source, had, artifact>>, NEW r \in Captures,
         DOMAIN capture' = Captures, DOMAIN capture'[r] = CaptureFields,
         \A q \in Captures : q # r => capture'[q] = capture[q],
         Reads(r)', Checked(r)'
  PROVE  SnapshotInv'
PROOF BY DEF SnapshotInv, Reads, Checked

\* A write to the file moves its modification time.
LEMMA WritesMoveTime ==
  ASSUME SnapshotInv,
         NEW halves \in Nat \X Nat, DOMAIN source' = {"ino", "mtime", "halves"},
         source'.mtime = source.mtime + 1, source'.halves = halves,
         had' = had \cup {source'.halves}, artifact' = artifact,
         DOMAIN capture' = Captures,
         \A r \in Captures : /\ DOMAIN capture'[r] = CaptureFields
                             /\ \A f \in CaptureFields \ {"handle"} : capture'[r][f] = capture[r][f]
  PROVE  SnapshotInv'
PROOF
  <1>1. ASSUME NEW r \in Captures PROVE Reads(r)' /\ Checked(r)'
    <2>1. /\ capture'[r].at = capture[r].at /\ capture'[r].lstat = capture[r].lstat
          /\ capture'[r].bytes = capture[r].bytes /\ capture'[r].met = capture[r].met
      BY DEF CaptureFields
    <2>2. Reads(r)'
      BY <2>1 DEF SnapshotInv, Reads
    <2>3. Checked(r)'
      BY <2>1 DEF SnapshotInv, Checked
    <2> QED BY <2>2, <2>3
  <1> QED BY <1>1 DEF SnapshotInv

LEMMA SnapshotInductive ==
  ASSUME SnapshotInv, [SNext]_snapshotVars
  PROVE  SnapshotInv'
PROOF
  <1> USE DEF Has, Remains
  <1>1. ASSUME NEW half \in {1, 2}, EditInPlace(half) PROVE SnapshotInv'
    <2>1. source' = [source EXCEPT !.mtime = @ + 1, !.halves[half] = source.mtime + 1]
      BY <1>1 DEF EditInPlace
    <2>2. /\ DOMAIN source' = {"ino", "mtime", "halves"} /\ source'.mtime = source.mtime + 1
          /\ source'.halves = [source.halves EXCEPT ![half] = source.mtime + 1]
      BY <2>1 DEF SnapshotInv
    <2>3. source'.halves \in Nat \X Nat
      BY <2>2 DEF SnapshotInv
    <2> QED BY <1>1, <2>2, <2>3, WritesMoveTime DEF EditInPlace, SnapshotInv
  <1>2. CASE ReplaceSource
    <2> DEFINE new == source.mtime + 1
    <2>1. source' = [ino |-> source.ino + 1, mtime |-> new, halves |-> <<new, new>>]
      BY <1>2 DEF ReplaceSource
    <2>2. <<new, new>> \in Nat \X Nat
      BY DEF SnapshotInv
    <2>3. \A r \in Captures :
            capture'[r] = IF capture[r].handle = Live /\ capture[r].at \in {"read", "rest"}
                            THEN [capture[r] EXCEPT !.handle = source.halves] ELSE capture[r]
      BY <1>2 DEF ReplaceSource
    <2>4. ASSUME NEW r \in Captures
          PROVE  /\ DOMAIN capture'[r] = CaptureFields
                 /\ \A f \in CaptureFields \ {"handle"} : capture'[r][f] = capture[r][f]
      <3>1. DOMAIN capture[r] = CaptureFields
        BY DEF SnapshotInv
      <3>2. \/ capture'[r] = capture[r]
            \/ capture'[r] = [capture[r] EXCEPT !.handle = source.halves]
        BY <2>3
      <3> QED BY <3>1, <3>2
    <2>5. DOMAIN capture' = Captures
      BY <1>2 DEF ReplaceSource
    <2> QED BY <1>2, <2>1, <2>2, <2>4, <2>5, WritesMoveTime DEF ReplaceSource
  <1>3. ASSUME NEW r \in Captures, NEW at \in {"request", "blocked", "lstat"}, Put(r, [at |-> at]),
               UNCHANGED <<source, had, artifact>>
        PROVE  SnapshotInv'
    <2>1. capture'[r].at = at
      BY <1>3, CaptureChanges DEF CaptureFields
    <2> QED BY <1>3, <2>1, CaptureChanges, OneRunSteps DEF Reads, Checked
  <1>4. ASSUME NEW r \in Captures, Start(r) PROVE SnapshotInv'
    <2>1. CASE artifact = NoContent \/ ~ValidSource(artifact)
      BY <1>3, <1>4, <2>1 DEF Start
    <2>2. CASE artifact # NoContent /\ ValidSource(artifact)
      <3>1. Put(r, [at |-> "met", met |-> artifact]) /\ UNCHANGED <<source, had, artifact>>
        BY <1>4, <2>2 DEF Start
      <3>2. capture'[r].at = "met" /\ capture'[r].met = artifact
        BY <3>1, CaptureChanges DEF CaptureFields
      <3>3. Reads(r)' /\ Checked(r)'
        BY <2>2, <3>1, <3>2 DEF Reads, Checked
      <3> QED BY <3>1, <3>3, CaptureChanges, OneRunSteps
    <2> QED BY <2>1, <2>2
  <1>5. ASSUME NEW r \in Captures, Blocked(r) \/ SignAndSend(r) PROVE SnapshotInv'
    BY <1>3, <1>5 DEF Blocked, SignAndSend
  <1>6. ASSUME NEW r \in Captures, LstatSource(r) PROVE SnapshotInv'
    <2>1. Put(r, [at |-> "open", lstat |-> Lstat]) /\ UNCHANGED <<source, had, artifact>>
      BY <1>6 DEF LstatSource
    <2>2. capture'[r].at = "open" /\ capture'[r].lstat = Lstat
      BY <2>1, CaptureChanges DEF CaptureFields
    <2>3. Reads(r)' /\ Checked(r)'
      BY <2>1, <2>2 DEF Reads, Checked, Lstat, SnapshotInv
    <2> QED BY <2>1, <2>3, CaptureChanges, OneRunSteps
  <1>7. ASSUME NEW r \in Captures, OpenSource(r) PROVE SnapshotInv'
    <2>1. Put(r, [at |-> "read", handle |-> Live]) /\ UNCHANGED <<source, had, artifact>>
      BY <1>7 DEF OpenSource
    <2>2. capture'[r].at = "read" /\ capture'[r].handle = Live /\ capture'[r].lstat = capture[r].lstat
      BY <2>1, CaptureChanges DEF CaptureFields
    <2>3. Reads(r)' /\ Checked(r)'
      BY <1>7, <2>1, <2>2 DEF OpenSource, Reads, Checked, SnapshotInv
    <2> QED BY <2>1, <2>3, CaptureChanges, OneRunSteps
  <1>8. ASSUME NEW r \in Captures, ReadHalf(r) PROVE SnapshotInv'
    <2>1. Put(r, [at |-> "rest", bytes |-> <<Halves(r)[1]>>]) /\ UNCHANGED <<source, had, artifact>>
      BY <1>8 DEF ReadHalf
    <2>2. /\ capture'[r].at = "rest" /\ capture'[r].handle = capture[r].handle
          /\ capture'[r].lstat = capture[r].lstat /\ capture'[r].bytes = <<Halves(r)[1]>>
      BY <2>1, CaptureChanges DEF CaptureFields
    <2>3. capture'[r].bytes[1] = Halves(r)[1]
      BY <2>2
    <2>4. Reads(r)' /\ Checked(r)'
      BY <1>8, <2>1, <2>2, <2>3 DEF ReadHalf, Halves, Reads, Checked, SnapshotInv
    <2> QED BY <2>1, <2>4, CaptureChanges, OneRunSteps
  <1>9. ASSUME NEW r \in Captures, ReadRest(r) PROVE SnapshotInv'
    <2> DEFINE content == <<capture[r].bytes[1], Halves(r)[2]>>
    <2>1. /\ Put(r, [at |-> "compare", bytes |-> content, handle |-> Live])
          /\ UNCHANGED <<source, had, artifact>>
      BY <1>9 DEF ReadRest
    <2>2. /\ capture'[r].at = "compare" /\ capture'[r].lstat = capture[r].lstat
          /\ capture'[r].bytes = content
      BY <2>1, CaptureChanges DEF CaptureFields
    <2>3. capture[r].lstat.mtime = source.mtime => content = source.halves
      <3>1. source.halves = <<source.halves[1], source.halves[2]>>
        BY DEF SnapshotInv
      <3>2. capture[r].lstat.mtime = source.mtime =>
              Halves(r) = source.halves /\ capture[r].bytes[1] = source.halves[1]
        BY <1>9 DEF ReadRest, Halves, Reads, SnapshotInv
      <3> QED BY <3>1, <3>2
    <2>4. Reads(r)' /\ Checked(r)'
      BY <1>9, <2>1, <2>2, <2>3 DEF ReadRest, Reads, Checked, SnapshotInv
    <2> QED BY <2>1, <2>4, CaptureChanges, OneRunSteps
  <1>10. ASSUME NEW r \in Captures, CompareAndValidate(r) PROVE SnapshotInv'
    <2>1. CASE SameFile(capture[r].lstat) /\ ~BoxRefuses(Text(capture[r].bytes))
      <3>1. Put(r, [at |-> "reply"]) /\ UNCHANGED <<source, had, artifact>> /\ capture[r].at = "compare"
        BY <1>10, <2>1 DEF CompareAndValidate
      <3>2. capture'[r].at = "reply" /\ capture'[r].bytes = capture[r].bytes
        BY <3>1, CaptureChanges DEF CaptureFields
      <3>3. capture[r].bytes = source.halves /\ source.halves \in had
        BY <2>1, <3>1 DEF SameFile, Lstat, Reads, SnapshotInv
      <3>4. ValidSource(capture[r].bytes)
        BY <2>1, BoxAgrees
      <3>5. Reads(r)' /\ Checked(r)'
        BY <3>1, <3>2, <3>3, <3>4 DEF Reads, Checked
      <3> QED BY <3>1, <3>5, CaptureChanges, OneRunSteps
    <2>2. CASE ~(SameFile(capture[r].lstat) /\ ~BoxRefuses(Text(capture[r].bytes)))
      BY <1>3, <1>10, <2>2 DEF CompareAndValidate
    <2> QED BY <2>1, <2>2
  <1>11. ASSUME NEW r \in Captures, ValidateReply(r) PROVE SnapshotInv'
    <2>1. CASE ValidSource(capture[r].bytes)
      <3>1. Put(r, [at |-> "link"]) /\ UNCHANGED <<source, had, artifact>> /\ capture[r].at = "reply"
        BY <1>11, <2>1 DEF ValidateReply
      <3>2. capture'[r].at = "link" /\ capture'[r].bytes = capture[r].bytes
        BY <3>1, CaptureChanges DEF CaptureFields
      <3>3. Reads(r)' /\ Checked(r)'
        BY <2>1, <3>1, <3>2 DEF Reads, Checked, SnapshotInv
      <3> QED BY <3>1, <3>3, CaptureChanges, OneRunSteps
    <2>2. CASE ~ValidSource(capture[r].bytes)
      BY <1>3, <1>11, <2>2 DEF ValidateReply
    <2> QED BY <2>1, <2>2
  <1>12. ASSUME NEW r \in Captures, LinkArtifact(r) PROVE SnapshotInv'
    <2>1. CASE artifact = NoContent
      <3>1. /\ artifact' = capture[r].bytes /\ UNCHANGED <<source, had>>
            /\ Put(r, [at |-> "verify"]) /\ capture[r].at = "link"
        BY <1>12, <2>1 DEF LinkArtifact
      <3>2. capture'[r].at = "verify" /\ capture'[r].bytes = capture[r].bytes
        BY <3>1, CaptureChanges DEF CaptureFields
      <3>3. capture[r].bytes \in had /\ ValidSource(capture[r].bytes)
        BY <3>1 DEF Checked, SnapshotInv
      <3>4. capture[r].bytes # NoContent
        BY <3>3 DEF SnapshotInv, NoContent
      <3>5. ASSUME NEW q \in Captures PROVE Reads(q)' /\ Checked(q)'
        <4>1. CASE q = r
          BY <3>1, <3>2, <3>4, <4>1 DEF Reads, Checked
        <4>2. CASE q # r
          <5>1. capture'[q] = capture[q]
            BY <3>1, <4>2, CaptureChanges
          <5> QED BY <2>1, <3>1, <5>1 DEF Reads, Checked, SnapshotInv
        <4> QED BY <4>1, <4>2
      <3> QED BY <3>1, <3>3, <3>5, CaptureChanges DEF SnapshotInv
    <2>2. CASE artifact # NoContent
      BY <1>3, <1>12, <2>2 DEF LinkArtifact
    <2> QED BY <2>1, <2>2
  <1>13. ASSUME NEW r \in Captures, VerifyArtifact(r) PROVE SnapshotInv'
    <2>1. CASE artifact = capture[r].bytes
      <3>1. /\ Put(r, [at |-> "met", met |-> capture[r].bytes]) /\ UNCHANGED <<source, had, artifact>>
            /\ capture[r].at = "verify"
        BY <1>13, <2>1 DEF VerifyArtifact
      <3>2. capture'[r].at = "met" /\ capture'[r].met = artifact
        BY <2>1, <3>1, CaptureChanges DEF CaptureFields
      <3>3. Reads(r)' /\ Checked(r)'
        BY <3>1, <3>2 DEF Reads, Checked, SnapshotInv
      <3> QED BY <3>1, <3>3, CaptureChanges, OneRunSteps
    <2>2. CASE artifact # capture[r].bytes
      BY <1>3, <1>13, <2>2 DEF VerifyArtifact
    <2> QED BY <2>1, <2>2
  <1>14. ASSUME NEW r \in Captures, EndCapture(r) PROVE SnapshotInv'
    <2>1. /\ capture' = [capture EXCEPT ![r] = NoCapture] /\ UNCHANGED <<source, had, artifact>>
      BY <1>14 DEF EndCapture
    <2>2. DOMAIN capture' = Captures /\ capture'[r] = NoCapture
          /\ \A q \in Captures : q # r => capture'[q] = capture[q]
      BY <2>1 DEF SnapshotInv
    <2>3. DOMAIN NoCapture = CaptureFields /\ NoCapture.at = "idle"
      BY DEF NoCapture, CaptureFields
    <2>4. Reads(r)' /\ Checked(r)'
      BY <2>2, <2>3 DEF Reads, Checked
    <2> QED BY <2>1, <2>2, <2>3, <2>4, OneRunSteps
  <1>15. CASE UNCHANGED snapshotVars
    BY <1>15 DEF snapshotVars, SnapshotInv, Reads, Checked
  <1> QED BY <1>1, <1>2, <1>4, <1>5, <1>6, <1>7, <1>8, <1>9, <1>10, <1>11, <1>12, <1>13, <1>14, <1>15 DEF SNext

\* The captures' invariant holds throughout.
LEMMA SnapshotInvariant == ServicesSpec => []SnapshotInv
PROOF
  <1>1. ServicesInit => SnapshotInv
    <2>1. ASSUME SInit PROVE SnapshotInv
      BY <2>1 DEF SInit, NoCapture, SnapshotInv, Reads, Checked, CaptureFields
    <2> QED BY <2>1, EveryServiceBegins
  <1>2. SnapshotInv /\ [ServicesNext]_serviceVars => SnapshotInv'
    BY OneServiceSteps, SnapshotInductive
  <1> QED BY <1>1, <1>2, PTL DEF ServicesSpec

\* What a run reports as captured is what the file was at one moment, and valid,
\* whatever edits fall into the reading (media_source_snapshot.py, main of
\* SNAPSHOT_SCRIPT, _write_private_artifact).
THEOREM OneVersion == ServicesSpec => []SnapshotIsOneVersion
PROOF
  <1>1. SnapshotInv => SnapshotIsOneVersion
    BY DEF SnapshotInv, Checked, SnapshotIsOneVersion, Has
  <1> QED BY <1>1, SnapshotInvariant, PTL

\* The bound of the edits bounds what the file, and so the artifact, can hold.
ContentsInv ==
  /\ source.mtime \in 0..MaxEdits /\ had \subseteq Contents
  /\ \A r \in Captures : capture[r].met \in Contents \cup {NoContent}

LEMMA ContentsInductive ==
  ASSUME SnapshotInv, ContentsInv, [SNext]_snapshotVars
  PROVE  ContentsInv'
PROOF
  <1> USE DEF Has
  <1>1. artifact \in Contents \cup {NoContent} /\ source.halves \in Contents
    BY DEF SnapshotInv, ContentsInv
  <1>2. {"at", "met"} \subseteq CaptureFields
    BY DEF CaptureFields
  <1>3. ASSUME NEW r \in Captures, NEW fields, Put(r, fields), UNCHANGED <<source, had>>,
               "met" \in DOMAIN fields => fields.met \in Contents \cup {NoContent}
        PROVE  ContentsInv'
    <2>1. /\ \A q \in Captures : q # r => capture'[q] = capture[q]
          /\ capture'[r].met = IF "met" \in DOMAIN fields THEN fields.met ELSE capture[r].met
      BY <1>2, <1>3, CaptureChanges
    <2>2. ASSUME NEW q \in Captures PROVE capture'[q].met \in Contents \cup {NoContent}
      BY <1>3, <2>1 DEF ContentsInv
    <2> QED BY <1>3, <2>2 DEF ContentsInv
  <1>4. ASSUME NEW half \in {1, 2}, EditInPlace(half) PROVE ContentsInv'
    <2>1. source' = [source EXCEPT !.mtime = @ + 1, !.halves[half] = source.mtime + 1]
      BY <1>4 DEF EditInPlace
    <2>2. /\ source'.mtime = source.mtime + 1
          /\ source'.halves = [source.halves EXCEPT ![half] = source.mtime + 1]
      BY <2>1 DEF SnapshotInv
    <2>3. source'.mtime \in 0..MaxEdits
      BY <1>4, <2>2, CaptureAssumption DEF EditInPlace, ContentsInv
    <2>4. source'.halves \in Contents
      BY <1>1, <2>2, <2>3 DEF Contents
    <2> QED BY <1>4, <2>3, <2>4 DEF EditInPlace, ContentsInv
  <1>5. CASE ReplaceSource
    <2>1. DEFINE new == source.mtime + 1
    <2>2. new \in 0..MaxEdits
      BY <1>5, CaptureAssumption DEF ReplaceSource, ContentsInv
    <2>3. source'.mtime = new /\ source'.halves = <<new, new>>
      BY <1>5 DEF ReplaceSource
    <2>4. source'.halves \in Contents
      BY <2>2, <2>3 DEF Contents
    <2>5. ASSUME NEW r \in Captures PROVE capture'[r].met = capture[r].met
      <3>1. DOMAIN capture[r] = CaptureFields
        BY DEF SnapshotInv
      <3>2. \/ capture'[r] = capture[r]
            \/ capture'[r] = [capture[r] EXCEPT !.handle = source.halves]
        BY <1>5 DEF ReplaceSource
      <3> QED BY <3>1, <3>2 DEF CaptureFields
    <2> QED BY <1>5, <2>2, <2>3, <2>4, <2>5 DEF ReplaceSource, ContentsInv
  <1>6. ASSUME NEW r \in Captures, Start(r) PROVE ContentsInv'
    BY <1>1, <1>3, <1>6 DEF Start, Remains
  <1>7. ASSUME NEW r \in Captures,
               Blocked(r) \/ SignAndSend(r) \/ LstatSource(r) \/ OpenSource(r) \/ ReadHalf(r)
               \/ ReadRest(r) \/ CompareAndValidate(r) \/ ValidateReply(r)
        PROVE  ContentsInv'
    <2>1. PICK fields : Put(r, fields) /\ "met" \notin DOMAIN fields
      BY <1>7 DEF Blocked, SignAndSend, LstatSource, OpenSource, ReadHalf, ReadRest,
                  CompareAndValidate, ValidateReply
    <2>2. UNCHANGED <<source, had>>
      BY <1>7 DEF Blocked, SignAndSend, LstatSource, OpenSource, ReadHalf, ReadRest,
                  CompareAndValidate, ValidateReply, Remains
    <2> QED BY <1>3, <2>1, <2>2
  <1>8. ASSUME NEW r \in Captures, LinkArtifact(r) PROVE ContentsInv'
    BY <1>3, <1>8 DEF LinkArtifact
  <1>9. ASSUME NEW r \in Captures, VerifyArtifact(r) PROVE ContentsInv'
    BY <1>1, <1>3, <1>9 DEF VerifyArtifact, Remains
  <1>10. ASSUME NEW r \in Captures, EndCapture(r) PROVE ContentsInv'
    <2>1. \A q \in Captures : capture'[q] = IF q = r THEN NoCapture ELSE capture[q]
      BY <1>10 DEF EndCapture, SnapshotInv
    <2>2. NoCapture.met = NoContent
      BY DEF NoCapture
    <2> QED BY <1>10, <2>1, <2>2 DEF EndCapture, Remains, ContentsInv
  <1>11. CASE UNCHANGED snapshotVars
    BY <1>11 DEF snapshotVars, ContentsInv
  <1> QED BY <1>4, <1>5, <1>6, <1>7, <1>8, <1>9, <1>10, <1>11 DEF SNext

LEMMA SnapshotTypes == SnapshotInv /\ ContentsInv => SnapshotTypeOK
PROOF BY DEF SnapshotInv, ContentsInv, SnapshotTypeOK

\* The file, the artifact and the captures are well formed throughout.
LEMMA SnapshotTyped == ServicesSpec => []SnapshotTypeOK
PROOF
  <1>1. ServicesInit => ContentsInv
    BY EveryServiceBegins, CaptureAssumption DEF SInit, NoCapture, ContentsInv, Contents
  <1>2. SnapshotInv /\ ContentsInv /\ [ServicesNext]_serviceVars => ContentsInv'
    BY OneServiceSteps, ContentsInductive
  <1> QED BY <1>1, <1>2, SnapshotInvariant, SnapshotTypes, PTL DEF ServicesSpec

(* ------------------------------ Poster cache --------------------------- *)
WorkerFields == {"at", "fd", "from", "left"}
Busy(w) == worker[w].at \notin {"idle", "served"}

\* What a request that is alone at the picture can rely on: it is the only one
\* that writes, and what it goes on with is whole.
Alone(w) ==
  /\ worker[w].at = "writing" => worker[w].fd = "temp" /\ file["temp"] = w
  /\ worker[w].at = "saving" => worker[w].fd = "scratch" /\ file["scratch"] = w
  /\ worker[w].at \notin {"writing", "saving"} => worker[w].fd = "none"
  /\ worker[w].at = "saved" => file["scratch"] = "whole"
  /\ worker[w].at \in {"inspect", "open", "decoded", "saving", "saved", "keep"}
       /\ worker[w].from = "temp" => file["temp"] = "whole"
  /\ worker[w].at \in {"download", "writing", "inspect", "discard"} => worker[w].from = "temp"
  /\ worker[w].from = "raw" => file["raw"] = "whole" /\ kind = "page"
  /\ worker[w].from \in {"temp", "raw"}

PosterShape ==
  /\ DOMAIN worker = Workers /\ DOMAIN file = Places
  /\ \A w \in Workers : DOMAIN worker[w] = WorkerFields

NothingSpoiled == \A p \in Places : file[p] # "spoiled"
CacheIsWhole == \A p \in Cached : file[p] \in {"absent", "whole"}

PosterInv ==
  /\ PosterShape
  /\ ~broken => NothingSpoiled
  /\ ~shared => /\ CacheIsWhole
                /\ \A v, w \in Workers : Busy(v) /\ Busy(w) => v = w
                /\ \A w \in Workers : Busy(w) => Alone(w)
                /\ \A w \in Workers : ~Busy(w) => worker[w].fd = "none"

\* A step of a request that is busy, with the others where they were.
LEMMA BusySteps ==
  ASSUME PosterInv, NEW w \in Workers, Busy(w), UNCHANGED <<kind, shared>>, PosterShape',
         ~broken' => NothingSpoiled',
         \A v \in Workers \ {w} : worker'[v].at = worker[v].at,
         \A v \in Workers \ {w} : worker[v].fd = "none" => worker'[v].fd = "none",
         ~shared => CacheIsWhole' /\ (Busy(w)' => Alone(w)') /\ (~Busy(w)' => worker'[w].fd = "none")
  PROVE  PosterInv'
PROOF
  <1>1. CASE shared
    BY <1>1 DEF PosterInv
  <1>2. CASE ~shared
    <2>1. \A v \in Workers \ {w} : ~Busy(v) /\ ~Busy(v)' /\ worker'[v].fd = "none"
      BY <1>2 DEF PosterInv, Busy
    <2> QED BY <1>2, <2>1 DEF PosterInv
  <1> QED BY <1>1, <1>2

LEMMA RenamedFds ==
  ASSUME PosterInv, NEW w \in Workers, NEW p, NEW q, NEW v \in Workers
  PROVE  /\ DOMAIN Renamed(w, p, q) = Workers
         /\ DOMAIN Renamed(w, p, q)[v] = WorkerFields
         /\ \A f \in {"at", "from", "left"} : Renamed(w, p, q)[v][f] = worker[v][f]
         /\ Renamed(w, p, q)[v].fd =
              IF worker[v].fd = p THEN q ELSE IF worker[v].fd = q THEN "gone" ELSE worker[v].fd
PROOF BY DEF Renamed, PosterInv, PosterShape, WorkerFields

\* A step that renames or unlinks what has the name p, in steps that write none.
LEMMA RenamingSteps ==
  ASSUME PosterInv, NEW w \in Workers, NEW p \in Places, NEW q \in Places \cup {"gone"}, NEW at,
         worker' = [Renamed(w, p, q) EXCEPT ![w].at = at]
  PROVE  /\ DOMAIN worker' = Workers
         /\ \A v \in Workers : DOMAIN worker'[v] = WorkerFields
         /\ \A v \in Workers \ {w} : worker'[v].at = worker[v].at
         /\ \A v \in Workers : worker[v].fd = "none" => worker'[v].fd = "none"
         /\ worker'[w].at = at /\ worker'[w].from = worker[w].from
PROOF BY RenamedFds DEF WorkerFields, Places

LEMMA PosterInductive ==
  ASSUME PosterInv, [CNext]_posterVars
  PROVE  PosterInv'
PROOF
  <1> USE PosterAssumption
  <1> USE DEF Busy, Places, Cached, WorkerFields, PosterShape, Same
  <1>0. \A w \in Workers : w \notin {"absent", "whole", "spoiled"}
    OBVIOUS
  <1>1. CASE RestartCache
    <2>1. /\ file' = [p \in Places |-> IF file[p] \in Workers THEN "spoiled" ELSE file[p]]
          /\ worker' = [w \in Workers |-> Resting] /\ broken' = TRUE /\ UNCHANGED <<kind, shared>>
      BY <1>1 DEF RestartCache
    <2>2. PosterShape'
      BY <2>1 DEF Resting
    <2>3. \A w \in Workers : ~Busy(w)' /\ worker'[w].fd = "none"
      BY <2>1 DEF Resting
    <2>4. ~shared => CacheIsWhole'
      BY <1>0, <2>1 DEF PosterInv, CacheIsWhole
    <2> QED BY <2>1, <2>2, <2>3, <2>4 DEF PosterInv
  <1>2. ASSUME NEW w \in Workers, Look(w) PROVE PosterInv'
    <2>1. PICK at \in {"served", "open", "download"}, from \in {"raw", "temp"} :
            /\ worker' = [worker EXCEPT ![w] = [Resting EXCEPT !.at = at, !.from = from]]
            /\ from = "raw" => There("raw") /\ kind = "page"
            /\ at = "download" => from = "temp"
            /\ at = "open" => from = "raw"
      <3>1. PICK small \in BOOLEAN :
              worker' = [worker EXCEPT ![w] =
                [Resting EXCEPT !.at =
                   IF LooksGood("canonical", small) THEN "served"
                   ELSE IF kind = "page" /\ LooksGood("raw", small) THEN "open" ELSE "download",
                 !.from = IF kind = "page" /\ LooksGood("raw", small) THEN "raw" ELSE "temp"]]
        BY <1>2 DEF Look
      <3>2. LooksGood("raw", small) => There("raw")
        BY DEF LooksGood
      <3>3. CASE kind = "page" /\ LooksGood("raw", small)
        BY <3>1, <3>2, <3>3
      <3>4. CASE ~(kind = "page" /\ LooksGood("raw", small))
        BY <3>1, <3>4
      <3> QED BY <3>3, <3>4
    <2>2. /\ shared' = (shared \/ \E v \in Workers \ {w} : worker[v].at \notin {"idle", "served"})
          /\ UNCHANGED <<kind, file, broken, crashes>>
      BY <1>2 DEF Look
    <2>3. /\ PosterShape' /\ worker'[w].at = at /\ worker'[w].fd = "none" /\ worker'[w].from = from
          /\ \A v \in Workers \ {w} : worker'[v] = worker[v]
      BY <2>1, <2>2 DEF PosterInv, Resting
    <2>4. CASE shared'
      BY <2>2, <2>3, <2>4 DEF PosterInv, NothingSpoiled
    <2>5. CASE ~shared'
      <3>1. ~shared /\ \A v \in Workers \ {w} : ~Busy(v) /\ ~Busy(v)'
        BY <2>2, <2>3, <2>5
      <3>2. from = "raw" => file["raw"] = "whole"
        BY <2>1, <3>1 DEF PosterInv, CacheIsWhole, There
      <3>3. Alone(w)'
        BY <2>1, <2>2, <2>3, <3>2 DEF Alone
      <3> QED BY <2>2, <2>3, <3>1, <3>3 DEF PosterInv, NothingSpoiled, CacheIsWhole
    <2> QED BY <2>4, <2>5
  <1>3. ASSUME NEW w \in Workers, Busy(w), NEW at, at # "writing", at # "saving",
               worker' = [worker EXCEPT ![w].at = at], worker[w].at \notin {"writing", "saving"},
               UNCHANGED <<kind, file, shared>>, ~broken' => ~broken,
               ~shared /\ Alone(w) /\ at \notin {"idle", "served"} =>
                 /\ at = "saved" => file["scratch"] = "whole"
                 /\ at \in {"inspect", "open", "decoded", "saved", "keep"} /\ worker[w].from = "temp"
                      => file["temp"] = "whole"
                 /\ at \in {"download", "inspect", "discard"} => worker[w].from = "temp"
        PROVE  PosterInv'
    <2>1. /\ PosterShape' /\ worker'[w].at = at /\ worker'[w].fd = worker[w].fd
          /\ worker'[w].from = worker[w].from
          /\ \A v \in Workers \ {w} : worker'[v] = worker[v]
      BY <1>3 DEF PosterInv
    <2>2. ~shared => CacheIsWhole' /\ (Busy(w)' => Alone(w)') /\ (~Busy(w)' => worker'[w].fd = "none")
      BY <1>3, <2>1 DEF PosterInv, Alone, CacheIsWhole
    <2> QED BY <1>3, <2>1, <2>2, BusySteps DEF PosterInv, NothingSpoiled
  <1>4. ASSUME NEW w \in Workers, Busy(w), NEW p \in {"temp", "scratch"}, NEW at, Truncate(w, p, at),
               at = IF p = "temp" THEN "writing" ELSE "saving",
               worker[w].at \notin {"writing", "saving"},
               ~shared /\ Alone(w) =>
                 /\ p = "temp" => worker[w].from = "temp"
                 /\ p = "scratch" /\ worker[w].from = "temp" => file["temp"] = "whole"
        PROVE  PosterInv'
    <2>1. /\ file' = [file EXCEPT ![p] = w] /\ UNCHANGED <<kind, shared, broken>>
          /\ worker' = [worker EXCEPT ![w].at = at, ![w].fd = p]
      BY <1>4 DEF Truncate
    <2>2. /\ PosterShape' /\ worker'[w].at = at /\ worker'[w].fd = p
          /\ worker'[w].from = worker[w].from
          /\ \A v \in Workers \ {w} : worker'[v] = worker[v]
          /\ file'[p] = w /\ \A q \in Places \ {p} : file'[q] = file[q]
      BY <2>1 DEF PosterInv
    <2>3. ~shared => CacheIsWhole' /\ Alone(w)'
      BY <1>4, <2>1, <2>2 DEF PosterInv, Alone, CacheIsWhole
    <2>4. ~broken' => NothingSpoiled'
      BY <1>0, <2>1, <2>2 DEF PosterInv, NothingSpoiled
    <2> QED BY <1>4, <2>1, <2>2, <2>3, <2>4, BusySteps
  <1>5. ASSUME NEW w \in Workers, Download(w) PROVE PosterInv'
    <2>1. CASE worker[w].left = 0
      <3>1. /\ worker' = [worker EXCEPT ![w].at = "served"] /\ UNCHANGED <<kind, file, shared, broken>>
            /\ worker[w].at = "download"
        BY <1>5, <2>1 DEF Download, Step
      <3>2. ~broken' => ~broken
        BY <3>1
      <3> QED BY <1>3, <3>1, <3>2
    <2>2. CASE worker[w].left # 0
      BY <1>4, <1>5, <2>2 DEF Download, Alone
    <2> QED BY <2>1, <2>2
  <1>6. ASSUME NEW w \in Workers, Refused(w) PROVE PosterInv'
    BY <1>3, <1>6 DEF Refused, Step, Alone
  <1>7. ASSUME NEW w \in Workers, worker[w].at \in {"writing", "saving"}, NEW as, NEW at,
               Finish(w, as), worker' = [worker EXCEPT ![w].at = at, ![w].fd = "none"],
               UNCHANGED <<kind, shared>>,
               \/ as = "whole" /\ UNCHANGED broken
               \/ broken' /\ at = "discard" /\ worker[w].at = "writing",
               at = IF worker[w].at = "saving" THEN "saved" ELSE IF as = "whole" THEN "inspect" ELSE "discard"
        PROVE  PosterInv'
    <2>1. /\ DOMAIN file' = Places
          /\ \A p \in Places : file'[p] = IF worker[w].fd = p /\ file[p] = w THEN as ELSE file[p]
      BY <1>7 DEF Finish
    <2>2. /\ PosterShape' /\ worker'[w].at = at /\ worker'[w].fd = "none"
          /\ worker'[w].from = worker[w].from
          /\ \A v \in Workers \ {w} : worker'[v] = worker[v]
      BY <1>7, <2>1 DEF PosterInv
    <2>3. ~broken' => NothingSpoiled'
      <3>1. ASSUME ~broken' PROVE ~broken /\ as = "whole"
        <4>1. as = "whole" /\ broken' = broken
          BY <1>7, <3>1
        <4> QED BY <3>1, <4>1
      <3> QED BY <2>1, <3>1 DEF PosterInv, NothingSpoiled
    <2>4. ~shared => CacheIsWhole'
      BY <1>0, <2>1 DEF PosterInv, CacheIsWhole
    <2>5. ~shared => Alone(w)'
      <3>1. ASSUME ~shared PROVE Alone(w)
        BY <1>7, <3>1 DEF PosterInv
      <3>2. CASE worker[w].at = "writing"
        BY <1>0, <1>7, <2>1, <2>2, <3>1, <3>2 DEF Alone
      <3>3. CASE worker[w].at = "saving"
        BY <1>0, <1>7, <2>1, <2>2, <3>1, <3>3 DEF Alone
      <3> QED BY <1>7, <3>2, <3>3
    <2> QED BY <1>7, <2>2, <2>3, <2>4, <2>5, BusySteps
  <1>8. ASSUME NEW w \in Workers, Downloaded(w) \/ DownloadFails(w) \/ Saved(w) PROVE PosterInv'
    <2>1. CASE Downloaded(w)
      BY <1>7, <2>1 DEF Downloaded
    <2>2. CASE DownloadFails(w)
      BY <1>7, <2>2 DEF DownloadFails
    <2>3. CASE Saved(w)
      BY <1>7, <2>3 DEF Saved
    <2> QED BY <1>8, <2>1, <2>2, <2>3
  <1>9. ASSUME NEW w \in Workers, Inspect(w) PROVE PosterInv'
    BY <1>3, <1>9 DEF Inspect, Step, Alone
  <1>10. ASSUME NEW w \in Workers, OpenPicture(w) PROVE PosterInv'
    <2>1. PICK at \in {"clean", "decoded"} :
            worker' = [worker EXCEPT ![w].at = at]
      BY <1>10 DEF OpenPicture, Step
    <2> QED BY <1>3, <1>10, <2>1 DEF OpenPicture, Alone
  <1>11. ASSUME NEW w \in Workers, Save(w) PROVE PosterInv'
    BY <1>4, <1>11 DEF Save, Alone
  <1>12. ASSUME NEW w \in Workers, Busy(w), worker[w].at \notin {"writing", "saving"},
                NEW p \in {"temp", "scratch"}, NEW q \in Cached \cup {"gone"}, NEW at,
                worker' = [Renamed(w, p, q) EXCEPT ![w].at = at],
                at \in {"served", "clean"},
                UNCHANGED <<kind, shared, broken>>,
                DOMAIN file' = Places, file'[p] = "absent",
                \A x \in Places \ {p} : file'[x] = IF x = q THEN file[p] ELSE file[x],
                ~shared /\ Alone(w) /\ q \in Cached => file[p] = "whole"
         PROVE  PosterInv'
    <2>1. /\ DOMAIN worker' = Workers
          /\ \A v \in Workers : DOMAIN worker'[v] = WorkerFields
          /\ \A v \in Workers \ {w} : worker'[v].at = worker[v].at
          /\ \A v \in Workers : worker[v].fd = "none" => worker'[v].fd = "none"
          /\ worker'[w].at = at /\ worker'[w].from = worker[w].from
      BY <1>12, RenamingSteps
    <2>2. ~broken' => NothingSpoiled'
      BY <1>12 DEF PosterInv, NothingSpoiled
    <2>3. ~shared => CacheIsWhole' /\ (Busy(w)' => Alone(w)') /\ worker'[w].fd = "none"
      <3>1. ASSUME ~shared PROVE Alone(w) /\ CacheIsWhole
        BY <1>12, <3>1 DEF PosterInv
      <3>2. ASSUME ~shared PROVE CacheIsWhole'
        BY <1>12, <3>1, <3>2 DEF CacheIsWhole
      <3>3. ASSUME ~shared PROVE Alone(w)' /\ worker'[w].fd = "none"
        BY <1>12, <2>1, <3>1, <3>3 DEF Alone
      <3> QED BY <3>2, <3>3
    <2> QED BY <1>12, <2>1, <2>2, <2>3, BusySteps
  <1>13. ASSUME NEW w \in Workers, Discard(w) PROVE PosterInv'
    <2>1. /\ file' = [file EXCEPT !["temp"] = "absent"] /\ worker[w].at = "discard"
          /\ worker' = [Renamed(w, "temp", "gone") EXCEPT ![w].at = "download", ![w].left = @ - 1]
          /\ UNCHANGED <<kind, shared, broken>>
      BY <1>13 DEF Discard
    <2>2. /\ PosterShape' /\ worker'[w].at = "download" /\ worker'[w].from = worker[w].from
          /\ \A v \in Workers \ {w} : worker'[v].at = worker[v].at
          /\ \A v \in Workers : worker[v].fd = "none" => worker'[v].fd = "none"
      BY <2>1, RenamedFds DEF PosterInv
    <2>3. ~broken' => NothingSpoiled'
      BY <2>1 DEF PosterInv, NothingSpoiled
    <2>4. ~shared => CacheIsWhole' /\ Alone(w)'
      BY <2>1, <2>2 DEF PosterInv, CacheIsWhole, Alone
    <2> QED BY <2>1, <2>2, <2>3, <2>4, BusySteps
  <1>14. ASSUME NEW w \in Workers, SaveFails(w) PROVE PosterInv'
    <2>1. /\ file' = [p \in Places |->
                IF p = "scratch" THEN "absent"
                ELSE IF worker[w].fd = p /\ file[p] = w THEN "spoiled" ELSE file[p]]
          /\ worker' = [Renamed(w, "scratch", "gone") EXCEPT ![w].at = "keep", ![w].fd = "none"]
          /\ broken' = TRUE /\ UNCHANGED <<kind, shared>> /\ worker[w].at = "saving"
      BY <1>14 DEF SaveFails
    <2>2. /\ PosterShape' /\ worker'[w].at = "keep" /\ worker'[w].from = worker[w].from
          /\ worker'[w].fd = "none"
          /\ \A v \in Workers \ {w} : worker'[v].at = worker[v].at
          /\ \A v \in Workers : worker[v].fd = "none" => worker'[v].fd = "none"
      BY <2>1, RenamedFds DEF PosterInv
    <2>3. ~shared => CacheIsWhole' /\ Alone(w)'
      BY <1>0, <2>1, <2>2 DEF PosterInv, CacheIsWhole, Alone
    <2> QED BY <2>1, <2>2, <2>3, BusySteps
  <1>15. ASSUME NEW w \in Workers, PublishCanonical(w) PROVE PosterInv'
    <2>1. CASE There("scratch")
      <3>1. /\ file' = [file EXCEPT !["canonical"] = file["scratch"], !["scratch"] = "absent"]
            /\ worker' = [Renamed(w, "scratch", "canonical") EXCEPT ![w].at = "clean"]
            /\ worker[w].at = "saved" /\ UNCHANGED <<kind, shared, broken>>
        BY <1>15, <2>1 DEF PublishCanonical
      <3>2. /\ DOMAIN file' = Places /\ file'["scratch"] = "absent"
            /\ \A x \in Places \ {"scratch"} : file'[x] = IF x = "canonical" THEN file["scratch"] ELSE file[x]
        BY <3>1 DEF PosterInv
      <3> QED BY <1>12, <2>1, <3>1, <3>2 DEF Alone
    <2>2. CASE ~There("scratch")
      BY <1>3, <1>15, <2>2 DEF PublishCanonical, Step, Alone
    <2> QED BY <2>1, <2>2
  <1>16. ASSUME NEW w \in Workers, Clean(w) PROVE PosterInv'
    <2>1. CASE worker[w].from = "temp"
      <3>1. /\ file' = [file EXCEPT !["temp"] = "absent"]
            /\ worker' = [Renamed(w, "temp", "gone") EXCEPT ![w].at = "served"]
            /\ worker[w].at = "clean" /\ UNCHANGED <<kind, shared, broken>>
        BY <1>16, <2>1 DEF Clean
      <3>2. /\ DOMAIN file' = Places /\ file'["temp"] = "absent"
            /\ \A x \in Places \ {"temp"} : file'[x] = IF x = "gone" THEN file["temp"] ELSE file[x]
        BY <3>1 DEF PosterInv
      <3> QED BY <1>12, <3>1, <3>2
    <2>2. CASE worker[w].from # "temp"
      BY <1>3, <1>16, <2>2 DEF Clean, Step, Alone
    <2> QED BY <2>1, <2>2
  <1>17. ASSUME NEW w \in Workers, KeepRaw(w) PROVE PosterInv'
    <2>1. CASE worker[w].from # "raw" /\ kind # "youtube" /\ There("temp")
      <3>1. /\ file' = [file EXCEPT !["raw"] = file["temp"], !["temp"] = "absent"]
            /\ worker' = [Renamed(w, "temp", "raw") EXCEPT ![w].at = "served"]
            /\ worker[w].at = "keep" /\ UNCHANGED <<kind, shared, broken>>
        BY <1>17, <2>1 DEF KeepRaw
      <3>2. /\ DOMAIN file' = Places /\ file'["temp"] = "absent"
            /\ \A x \in Places \ {"temp"} : file'[x] = IF x = "raw" THEN file["temp"] ELSE file[x]
        BY <3>1 DEF PosterInv
      <3>3. ~shared /\ Alone(w) => worker[w].from = "temp"
        BY <2>1 DEF Alone
      <3> QED BY <1>12, <2>1, <3>1, <3>2, <3>3 DEF Alone
    <2>2. CASE ~(worker[w].from # "raw" /\ kind # "youtube" /\ There("temp"))
      <3>1. PICK at \in {"served", "discard"} :
              /\ worker' = [worker EXCEPT ![w].at = at] /\ UNCHANGED <<file, kind, shared, broken>>
              /\ worker[w].at = "keep" /\ (at = "discard" => worker[w].from # "raw")
        BY <1>17, <2>2 DEF KeepRaw, Step
      <3> QED BY <1>3, <3>1 DEF Alone
    <2> QED BY <2>1, <2>2
  <1>18. ASSUME NEW w \in Workers, AskForIt(w) PROVE PosterInv'
    <2>1. /\ worker' = [worker EXCEPT ![w] = Resting] /\ UNCHANGED <<file, kind, shared, broken>>
          /\ worker[w].at = "served"
      BY <1>18 DEF AskForIt
    <2>2. /\ PosterShape' /\ worker'[w].at = "idle" /\ worker'[w].fd = "none"
          /\ \A v \in Workers \ {w} : worker'[v] = worker[v]
      BY <2>1 DEF PosterInv, Resting
    <2> QED BY <2>1, <2>2 DEF PosterInv, NothingSpoiled, CacheIsWhole, Alone
  <1>19. ASSUME NEW w \in Workers, OpenFails(w) PROVE PosterInv'
    <2>1. /\ file' = [file EXCEPT !["scratch"] = "absent"] /\ worker[w].at = "open"
          /\ worker' = [Renamed(w, "scratch", "gone") EXCEPT ![w].at = "keep"]
          /\ UNCHANGED <<kind, shared, broken>>
      BY <1>19 DEF OpenFails
    <2>2. /\ PosterShape' /\ worker'[w].at = "keep" /\ worker'[w].from = worker[w].from
          /\ \A v \in Workers \ {w} : worker'[v].at = worker[v].at
          /\ \A v \in Workers : worker[v].fd = "none" => worker'[v].fd = "none"
      BY <2>1, RenamedFds DEF PosterInv
    <2>3. ~broken' => NothingSpoiled'
      BY <2>1 DEF PosterInv, NothingSpoiled
    <2>4. ~shared => CacheIsWhole' /\ Alone(w)'
      BY <2>1, <2>2 DEF PosterInv, CacheIsWhole, Alone
    <2> QED BY <2>1, <2>2, <2>3, <2>4, BusySteps
  <1>20. CASE UNCHANGED posterVars
    BY <1>20 DEF posterVars, PosterInv, NothingSpoiled, CacheIsWhole, Alone
  <1> QED BY <1>1, <1>2, <1>5, <1>6, <1>8, <1>9, <1>10, <1>11, <1>13, <1>14, <1>15, <1>16, <1>17,
             <1>18, <1>19, <1>20 DEF CNext

\* The posters' invariant holds throughout.
LEMMA PosterInvariant == ServicesSpec => []PosterInv
PROOF
  <1>1. ServicesInit => PosterInv
    <2>1. ASSUME CInit PROVE PosterInv
      BY <2>1 DEF CInit, Resting, PosterInv, PosterShape, NothingSpoiled, CacheIsWhole, Busy, Alone,
                  WorkerFields, Places, Cached
    <2> QED BY <2>1, EveryServiceBegins
  <1>2. PosterInv /\ [ServicesNext]_serviceVars => PosterInv'
    BY OneServiceSteps, PosterInductive
  <1> QED BY <1>1, <1>2, PTL DEF ServicesSpec

\* A picture that is cut short gets into the cache only when two requests were
\* at it at a time and one of them broke off (resolver.py, _cache_poster).
THEOREM SpoilingNeedsOverlap == ServicesSpec => []SpoiledNeedsOverlap
PROOF
  <1>1. PosterInv => SpoiledNeedsOverlap
    BY DEF PosterInv, NothingSpoiled, CacheIsWhole, SpoiledNeedsOverlap, Cached, Places
  <1> QED BY <1>1, PosterInvariant, PTL

HasFile(w) == worker[w].at \in {"writing", "saving"}

\* A request that has begun with a candidate has one left to give up.
PosterTypes ==
  /\ file \in [Places -> Workers \cup {"absent", "whole", "spoiled"}]
  /\ \A w \in Workers :
       /\ worker[w].fd \in Places \cup {"none", "gone"}
       /\ worker[w].left \in 0..Candidates
       /\ worker[w].at \notin {"idle", "download", "served"} => worker[w].left > 0
       /\ worker[w].fd # "none" <=> HasFile(w)

\* A step of one request moves it, and leaves the descriptors of the others open.
LEMMA OneRequestTyped ==
  ASSUME PosterTypes, NEW w \in Workers,
         file' \in [Places -> Workers \cup {"absent", "whole", "spoiled"}],
         \A v \in Workers \ {w} :
           /\ worker'[v].at = worker[v].at /\ worker'[v].left = worker[v].left
           /\ worker'[v].fd \in Places \cup {"none", "gone"}
           /\ worker'[v].fd = "none" <=> worker[v].fd = "none",
         worker'[w].fd \in Places \cup {"none", "gone"},
         worker'[w].left \in 0..Candidates,
         worker'[w].at \notin {"idle", "download", "served"} => worker'[w].left > 0,
         worker'[w].fd # "none" <=> HasFile(w)'
  PROVE  PosterTypes'
PROOF
  <1>1. ASSUME NEW v \in Workers \ {w}
        PROVE  /\ worker'[v].fd \in Places \cup {"none", "gone"}
               /\ worker'[v].left \in 0..Candidates
               /\ worker'[v].at \notin {"idle", "download", "served"} => worker'[v].left > 0
               /\ worker'[v].fd # "none" <=> HasFile(v)'
    <2>1. /\ worker[v].left \in 0..Candidates
          /\ worker[v].at \notin {"idle", "download", "served"} => worker[v].left > 0
          /\ worker[v].fd # "none" <=> HasFile(v)
      BY DEF PosterTypes
    <2> QED BY <1>1, <2>1 DEF HasFile
  <1> QED BY <1>1 DEF PosterTypes

\* A request goes on to a place where it writes no file.
LEMMA RequestGoesOn ==
  ASSUME PosterShape, PosterTypes, NEW w \in Workers, NEW at,
         worker' = [worker EXCEPT ![w].at = at]
           \/ worker' = [worker EXCEPT ![w].at = at, ![w].fd = "none"],
         worker[w].fd = "none" \/ worker'[w].fd = "none",
         at \notin {"writing", "saving"},
         worker[w].left > 0 \/ at \in {"idle", "download", "served"},
         file' \in [Places -> Workers \cup {"absent", "whole", "spoiled"}]
  PROVE  PosterTypes'
PROOF
  <1>1. DOMAIN worker[w] = WorkerFields /\ w \in DOMAIN worker /\ DOMAIN worker = Workers
    BY DEF PosterShape
  <1>2. /\ \A v \in Workers \ {w} : worker'[v] = worker[v]
        /\ worker'[w].at = at /\ worker'[w].fd = "none" /\ worker'[w].left = worker[w].left
    BY <1>1 DEF WorkerFields
  <1>3. /\ \A v \in Workers : worker[v].fd \in Places \cup {"none", "gone"}
        /\ worker[w].left \in 0..Candidates
    BY DEF PosterTypes
  <1>4. HasFile(w)' <=> FALSE
    BY <1>2 DEF HasFile
  <1> QED BY <1>2, <1>3, <1>4, OneRequestTyped

\* A request renames or unlinks p on its way, with what others have open of it.
LEMMA RequestRenames ==
  ASSUME PosterInv, PosterTypes, NEW w \in Workers, worker[w].fd = "none",
         NEW p \in Places, NEW q \in Places \cup {"gone"}, NEW at, NEW left \in 0..Candidates,
         \/ worker' = [Renamed(w, p, q) EXCEPT ![w].at = at] /\ left = worker[w].left
         \/ worker' = [Renamed(w, p, q) EXCEPT ![w].at = at, ![w].left = left],
         at \notin {"writing", "saving"},
         left > 0 \/ at \in {"idle", "download", "served"},
         file' \in [Places -> Workers \cup {"absent", "whole", "spoiled"}]
  PROVE  PosterTypes'
PROOF
  <1>1. /\ DOMAIN Renamed(w, p, q) = Workers
        /\ \A v \in Workers : DOMAIN Renamed(w, p, q)[v] = WorkerFields
    BY RenamedFds
  <1>2. /\ \A v \in Workers \ {w} : worker'[v] = Renamed(w, p, q)[v]
        /\ worker'[w].at = at /\ worker'[w].fd = Renamed(w, p, q)[w].fd /\ worker'[w].left = left
    <2>1. Renamed(w, p, q)[w].left = worker[w].left
      BY RenamedFds
    <2> QED BY <1>1, <2>1 DEF WorkerFields
  <1>3. "none" \notin Places /\ q # "none"
    BY DEF Places
  <1>4. ASSUME NEW v \in Workers
        PROVE  /\ Renamed(w, p, q)[v].at = worker[v].at /\ Renamed(w, p, q)[v].left = worker[v].left
               /\ Renamed(w, p, q)[v].fd \in Places \cup {"none", "gone"}
               /\ Renamed(w, p, q)[v].fd = "none" <=> worker[v].fd = "none"
    <2>1. /\ Renamed(w, p, q)[v].fd =
                IF worker[v].fd = p THEN q ELSE IF worker[v].fd = q THEN "gone" ELSE worker[v].fd
          /\ Renamed(w, p, q)[v].at = worker[v].at /\ Renamed(w, p, q)[v].left = worker[v].left
      BY RenamedFds
    <2>2. worker[v].fd \in Places \cup {"none", "gone"}
      BY DEF PosterTypes
    <2> QED BY <1>3, <2>1, <2>2
  <1>5. worker'[w].fd = "none"
    BY <1>2, <1>4
  <1>6. HasFile(w)' <=> FALSE
    BY <1>2 DEF HasFile
  <1> QED BY <1>2, <1>4, <1>5, <1>6, OneRequestTyped

LEMMA PosterTypesInductive ==
  ASSUME PosterInv, PosterTypes, [CNext]_posterVars
  PROVE  PosterTypes'
PROOF
  <1> USE PosterAssumption DEF Same
  <1> DEFINE Files == [Places -> Workers \cup {"absent", "whole", "spoiled"}]
  <1>0. PosterShape /\ file \in Files
    BY DEF PosterInv, PosterTypes
  <1>1. ASSUME NEW w \in Workers
        PROVE  /\ worker[w].fd \in Places \cup {"none", "gone"} /\ worker[w].left \in 0..Candidates
               /\ worker[w].at \notin {"idle", "download", "served"} => worker[w].left > 0
               /\ worker[w].fd = "none" \/ HasFile(w)
    BY DEF PosterTypes
  <1>2. CASE RestartCache
    <2>1. \A w \in Workers : worker'[w] = Resting
      BY <1>2 DEF RestartCache
    <2>2. file' \in Files
      BY <1>0, <1>2 DEF RestartCache
    <2> QED BY <2>1, <2>2 DEF Resting, HasFile, PosterTypes
  <1>3. ASSUME NEW w \in Workers, Look(w) PROVE PosterTypes'
    <2>1. PICK at \in {"served", "open", "download"}, from \in {"raw", "temp"} :
            worker' = [worker EXCEPT ![w] = [Resting EXCEPT !.at = at, !.from = from]]
      BY <1>3 DEF Look
    <2>2. /\ \A v \in Workers \ {w} : worker'[v] = worker[v]
          /\ worker'[w].at = at /\ worker'[w].fd = "none" /\ worker'[w].left = Candidates
      BY <1>0, <2>1 DEF PosterShape, Resting
    <2>3. HasFile(w)' <=> FALSE
      BY <2>2 DEF HasFile
    <2>4. file' \in Files /\ Candidates \in 0..Candidates /\ Candidates > 0
      BY <1>0, <1>3 DEF Look
    <2> QED BY <1>1, <2>2, <2>3, <2>4, OneRequestTyped
  <1>4. ASSUME NEW w \in Workers, NEW p \in Places, NEW at \in {"writing", "saving"}, Truncate(w, p, at),
               worker[w].left > 0
        PROVE  PosterTypes'
    <2>1. /\ \A v \in Workers \ {w} : worker'[v] = worker[v]
          /\ worker'[w].at = at /\ worker'[w].fd = p /\ worker'[w].left = worker[w].left
      BY <1>0, <1>4 DEF Truncate, PosterShape, WorkerFields
    <2>2. (HasFile(w)' <=> TRUE) /\ p # "none"
      BY <2>1 DEF HasFile, Places
    <2>3. file' \in Files
      BY <1>0, <1>4 DEF Truncate
    <2> QED BY <1>1, <1>4, <2>1, <2>2, <2>3, OneRequestTyped
  <1>5. ASSUME NEW w \in Workers, NEW at, Step(w, at), file' = file, ~HasFile(w),
               at \notin {"writing", "saving"},
               worker[w].left > 0 \/ at \in {"idle", "download", "served"}
        PROVE  PosterTypes'
    <2>1. worker[w].fd = "none" /\ worker' = [worker EXCEPT ![w].at = at]
      BY <1>1, <1>5 DEF Step
    <2> QED BY <1>0, <1>5, <2>1, RequestGoesOn
  <1>6. ASSUME NEW w \in Workers, Download(w) PROVE PosterTypes'
    <2>1. ~HasFile(w)
      BY <1>1, <1>6 DEF Download, HasFile
    <2>2. CASE worker[w].left = 0
      <3>1. PICK at \in {"served"} : Step(w, at) /\ file' = file
        BY <1>6, <2>2 DEF Download
      <3> QED BY <1>5, <2>1, <3>1
    <2>3. CASE worker[w].left # 0
      <3>1. Truncate(w, "temp", "writing") /\ worker[w].left > 0
        BY <1>1, <1>6, <2>3 DEF Download
      <3> QED BY <1>4, <3>1 DEF Places
    <2> QED BY <2>2, <2>3
  <1>7. ASSUME NEW w \in Workers, Refused(w) PROVE PosterTypes'
    BY <1>5, <1>7 DEF Refused, HasFile
  <1>8. ASSUME NEW w \in Workers, Inspect(w) PROVE PosterTypes'
    <2>1. PICK at \in {"open", "discard"} : Step(w, at)
      BY <1>8 DEF Inspect
    <2>2. ~HasFile(w) /\ worker[w].left > 0 /\ file' = file
      BY <1>1, <1>8 DEF Inspect, HasFile
    <2> QED BY <1>5, <2>1, <2>2
  <1>9. ASSUME NEW w \in Workers, OpenPicture(w) PROVE PosterTypes'
    <2>1. PICK at \in {"clean", "decoded"} : Step(w, at)
      BY <1>9 DEF OpenPicture
    <2>2. ~HasFile(w) /\ worker[w].left > 0 /\ file' = file
      BY <1>1, <1>9 DEF OpenPicture, HasFile
    <2> QED BY <1>5, <2>1, <2>2
  <1>10. ASSUME NEW w \in Workers, NEW at \in {"inspect", "discard", "saved"}, NEW as \in {"whole", "spoiled"},
                HasFile(w), Finish(w, as), worker' = [worker EXCEPT ![w].at = at, ![w].fd = "none"]
         PROVE  PosterTypes'
    <2>1. worker[w].left > 0 /\ worker'[w].fd = "none"
      BY <1>0, <1>1, <1>10 DEF HasFile, PosterShape, WorkerFields
    <2>2. file' \in Files
      BY <1>0, <1>10 DEF Finish
    <2> QED BY <1>0, <1>10, <2>1, <2>2, RequestGoesOn
  <1>11. ASSUME NEW w \in Workers, Downloaded(w) \/ DownloadFails(w) \/ Saved(w) PROVE PosterTypes'
    <2>1. HasFile(w)
      BY <1>11 DEF Downloaded, DownloadFails, Saved, HasFile
    <2>2. \E at \in {"inspect", "discard", "saved"}, as \in {"whole", "spoiled"} :
            Finish(w, as) /\ worker' = [worker EXCEPT ![w].at = at, ![w].fd = "none"]
      BY <1>11 DEF Downloaded, DownloadFails, Saved
    <2> QED BY <1>10, <2>1, <2>2
  <1>12. ASSUME NEW w \in Workers, Discard(w) PROVE PosterTypes'
    <2>1. /\ worker[w].fd = "none" /\ worker[w].left > 0
          /\ DOMAIN Renamed(w, "temp", "gone")[w] = WorkerFields
          /\ Renamed(w, "temp", "gone")[w].left = worker[w].left
          /\ DOMAIN Renamed(w, "temp", "gone") = Workers
      BY <1>1, <1>12, RenamedFds DEF Discard, HasFile
    <2>2. worker[w].left - 1 \in 0..Candidates
      BY <1>1, <2>1
    <2>3. worker' = [Renamed(w, "temp", "gone") EXCEPT ![w].at = "download", ![w].left = worker[w].left - 1]
      BY <1>12, <2>1 DEF Discard, WorkerFields
    <2>4. file' \in Files
      BY <1>0, <1>12 DEF Discard
    <2>5. "temp" \in Places
      BY DEF Places
    <2>6. PICK at \in {"download"}, left \in 0..Candidates :
            worker' = [Renamed(w, "temp", "gone") EXCEPT ![w].at = at, ![w].left = left]
      BY <2>2, <2>3
    <2> QED BY <2>1, <2>4, <2>5, <2>6, RequestRenames
  <1>13. ASSUME NEW w \in Workers, Save(w) PROVE PosterTypes'
    <2>1. worker[w].left > 0
      BY <1>1, <1>13 DEF Save
    <2> QED BY <1>4, <1>13, <2>1 DEF Save, Places
  <1>14. ASSUME NEW w \in Workers, SaveFails(w) PROVE PosterTypes'
    <2>1. /\ DOMAIN Renamed(w, "scratch", "gone") = Workers
          /\ \A v \in Workers : DOMAIN Renamed(w, "scratch", "gone")[v] = WorkerFields
      BY <1>0, RenamedFds DEF Places
    <2>2. /\ \A v \in Workers \ {w} : worker'[v] = Renamed(w, "scratch", "gone")[v]
          /\ worker'[w].at = "keep" /\ worker'[w].fd = "none"
          /\ worker'[w].left = Renamed(w, "scratch", "gone")[w].left
      BY <1>14, <2>1 DEF SaveFails, WorkerFields
    <2>3. ASSUME NEW v \in Workers
          PROVE  /\ Renamed(w, "scratch", "gone")[v].at = worker[v].at
                 /\ Renamed(w, "scratch", "gone")[v].left = worker[v].left
                 /\ Renamed(w, "scratch", "gone")[v].fd \in Places \cup {"none", "gone"}
                 /\ Renamed(w, "scratch", "gone")[v].fd = "none" <=> worker[v].fd = "none"
      <3>1. /\ Renamed(w, "scratch", "gone")[v].fd =
                 IF worker[v].fd = "scratch" THEN "gone"
                 ELSE IF worker[v].fd = "gone" THEN "gone" ELSE worker[v].fd
            /\ Renamed(w, "scratch", "gone")[v].at = worker[v].at
            /\ Renamed(w, "scratch", "gone")[v].left = worker[v].left
        BY RenamedFds
      <3> QED BY <1>1, <3>1
    <2>4. worker[w].left > 0 /\ (HasFile(w)' <=> FALSE)
      BY <1>1, <1>14, <2>2 DEF SaveFails, HasFile
    <2>5. file' \in Files
      BY <1>0, <1>14 DEF SaveFails
    <2> QED BY <1>1, <2>2, <2>3, <2>4, <2>5, OneRequestTyped
  <1>15. ASSUME NEW w \in Workers, NEW p \in Places, NEW q \in Places \cup {"gone"},
                NEW at \in {"clean", "served", "keep"}, worker[w].left > 0 \/ at = "served", ~HasFile(w),
                worker' = [Renamed(w, p, q) EXCEPT ![w].at = at], file' \in Files
         PROVE  PosterTypes'
    <2>1. worker[w].fd = "none" /\ worker[w].left \in 0..Candidates
      BY <1>1, <1>15
    <2> QED BY <1>15, <2>1, RequestRenames
  <1>16. ASSUME NEW w \in Workers, PublishCanonical(w) PROVE PosterTypes'
    <2>1. worker[w].left > 0 /\ ~HasFile(w)
      BY <1>1, <1>16 DEF PublishCanonical, HasFile
    <2>2. CASE There("scratch")
      <3>1. /\ file' = [file EXCEPT !["canonical"] = file["scratch"], !["scratch"] = "absent"]
            /\ worker' = [Renamed(w, "scratch", "canonical") EXCEPT ![w].at = "clean"]
        BY <1>16, <2>2 DEF PublishCanonical
      <3>2. file' \in Files
        BY <1>0, <3>1 DEF Places
      <3> QED BY <1>15, <2>1, <3>1, <3>2 DEF Places
    <2>3. CASE ~There("scratch")
      BY <1>5, <1>16, <2>1, <2>3 DEF PublishCanonical
    <2> QED BY <2>2, <2>3
  <1>17. ASSUME NEW w \in Workers, Clean(w) PROVE PosterTypes'
    <2>1. worker[w].left > 0 /\ ~HasFile(w)
      BY <1>1, <1>17 DEF Clean, HasFile
    <2>2. CASE worker[w].from = "temp"
      <3>1. /\ file' = [file EXCEPT !["temp"] = "absent"]
            /\ worker' = [Renamed(w, "temp", "gone") EXCEPT ![w].at = "served"]
        BY <1>17, <2>2 DEF Clean
      <3>2. file' \in Files
        BY <1>0, <3>1
      <3> QED BY <1>15, <2>1, <3>1, <3>2 DEF Places
    <2>3. CASE worker[w].from # "temp"
      BY <1>5, <1>17, <2>1, <2>3 DEF Clean
    <2> QED BY <2>2, <2>3
  <1>18. ASSUME NEW w \in Workers, KeepRaw(w) PROVE PosterTypes'
    <2>1. worker[w].left > 0 /\ ~HasFile(w)
      BY <1>1, <1>18 DEF KeepRaw, HasFile
    <2>2. \/ \E at \in {"served", "discard"} : Step(w, at) /\ file' = file
          \/ /\ file' = [file EXCEPT !["raw"] = file["temp"], !["temp"] = "absent"]
             /\ worker' = [Renamed(w, "temp", "raw") EXCEPT ![w].at = "served"]
      BY <1>18 DEF KeepRaw
    <2>3. CASE \E at \in {"served", "discard"} : Step(w, at) /\ file' = file
      BY <1>5, <2>1, <2>3
    <2>4. CASE /\ file' = [file EXCEPT !["raw"] = file["temp"], !["temp"] = "absent"]
               /\ worker' = [Renamed(w, "temp", "raw") EXCEPT ![w].at = "served"]
      <3>1. file' \in Files
        BY <1>0, <2>4 DEF Places
      <3> QED BY <1>15, <2>1, <2>4, <3>1 DEF Places
    <2> QED BY <2>2, <2>3, <2>4
  <1>19. ASSUME NEW w \in Workers, AskForIt(w) PROVE PosterTypes'
    <2>1. \A v \in Workers : worker'[v] = IF v = w THEN Resting ELSE worker[v]
      BY <1>0, <1>19 DEF AskForIt, PosterShape
    <2>2. file' = file
      BY <1>19 DEF AskForIt
    <2> QED BY <2>1, <2>2 DEF Resting, HasFile, PosterTypes
  <1>20. ASSUME NEW w \in Workers, OpenFails(w) PROVE PosterTypes'
    <2>1. worker[w].left > 0 /\ ~HasFile(w)
      BY <1>1, <1>20 DEF OpenFails, HasFile
    <2>2. /\ file' = [file EXCEPT !["scratch"] = "absent"]
          /\ worker' = [Renamed(w, "scratch", "gone") EXCEPT ![w].at = "keep"]
      BY <1>20 DEF OpenFails
    <2>3. file' \in Files
      BY <1>0, <2>2
    <2> QED BY <1>15, <2>1, <2>2, <2>3 DEF Places
  <1>21. CASE UNCHANGED posterVars
    BY <1>21 DEF posterVars, PosterTypes, HasFile
  <1> QED
    BY <1>2, <1>3, <1>6, <1>7, <1>8, <1>9, <1>11, <1>12, <1>13, <1>14, <1>16, <1>17, <1>18,
       <1>19, <1>20, <1>21
    DEF CNext

LEMMA CacheTypes == PosterTypes => CacheTypeOK
PROOF BY DEF PosterTypes, HasFile, CacheTypeOK

\* The pictures and the requests for them are well formed throughout.
LEMMA PosterTyped == ServicesSpec => []CacheTypeOK
PROOF
  <1>1. ServicesInit => PosterTypes
    BY EveryServiceBegins, PosterAssumption DEF CInit, Resting, PosterTypes, HasFile
  <1>2. PosterInv /\ PosterTypes /\ [ServicesNext]_serviceVars => PosterTypes'
    BY OneServiceSteps, PosterTypesInductive
  <1> QED BY <1>1, <1>2, PosterInvariant, CacheTypes, PTL DEF ServicesSpec

(* ----------------------------- Metadata caches ------------------------- *)
LookerFields == {"at", "work", "copy", "blind", "fd", "mixed"}
JsonRows == [Titles -> SUBSET ({"row"} \cup Parts)]
AtWork(l) == looker[l].at # "idle"

\* Rows that still tell what has been told.
Keeping(rows) ==
  \A k \in Titles : /\ "row" \in ever[k] => "row" \in rows[k]
                    /\ cache = "ratings" => ever[k] \subseteq rows[k]

\* What a lookup that has the file for itself carries from step to step.
Carries(l) ==
  /\ looker[l].at \in {"fetch", "write", "writing"} /\ ~looker[l].blind => Keeping(looker[l].copy)
  /\ looker[l].at = "writing" => looker[l].fd = "tmp" /\ looker[l].mixed = FALSE
  /\ looker[l].at # "writing" => looker[l].fd = "none"
  /\ looker[l].at = "replace" =>
       json["tmp"].is = "json" /\ (~looker[l].blind => Keeping(json["tmp"].rows))

MetadataShape ==
  /\ cache \in Caches
  /\ DOMAIN json = {"cache", "tmp"}
  /\ \A p \in {"cache", "tmp"} : DOMAIN json[p] = {"is", "rows"} /\ json[p].rows \in JsonRows
  /\ ever \in JsonRows
  /\ DOMAIN looker = Lookers
  /\ \A l \in Lookers :
       /\ DOMAIN looker[l] = LookerFields /\ looker[l].copy \in JsonRows
       /\ looker[l].at = "fetch" => looker[l].work \in Titles

MetadataInv ==
  /\ MetadataShape
  /\ ~overlapping => /\ json["cache"].is # "torn" /\ Keeping(json["cache"].rows)
                     /\ \A l, m \in Lookers : AtWork(l) /\ AtWork(m) => l = m
                     /\ \A l \in Lookers : Carries(l)

LEMMA UnaskedLooker ==
  /\ DOMAIN Unasked = LookerFields /\ Unasked.at = "idle" /\ Unasked.fd = "none"
  /\ Unasked.copy = NoRows /\ NoRows \in JsonRows
PROOF BY DEF Unasked, LookerFields, NoRows, JsonRows

\* A step of a lookup at work, with the file in the cache as it was.
LEMMA LookerSteps ==
  ASSUME MetadataInv, NEW l \in Lookers, AtWork(l), MetadataShape', UNCHANGED <<cache, ever, overlapping>>,
         json'["cache"] = json["cache"],
         \A m \in Lookers \ {l} : looker[m].at = "idle" => looker'[m] = looker[m],
         ~overlapping => Carries(l)'
  PROVE  MetadataInv'
PROOF
  <1>1. CASE overlapping
    BY <1>1 DEF MetadataInv
  <1>2. CASE ~overlapping
    <2>1. \A m \in Lookers \ {l} : looker[m].at = "idle" /\ looker'[m] = looker[m] /\ Carries(m)
      BY <1>2 DEF MetadataInv, AtWork
    <2>2. \A m \in Lookers \ {l} : ~AtWork(m)' /\ Carries(m)'
      BY <2>1 DEF AtWork, Carries
    <2>3. Keeping(json["cache"].rows)'
      BY <1>2 DEF MetadataInv, Keeping
    <2> QED BY <1>2, <2>2, <2>3 DEF MetadataInv
  <1> QED BY <1>1, <1>2

\* Whatever the row is made of, the new one is a row, and ratings only grow.
LEMMA NewRows ==
  ASSUME cache \in Caches, NEW old \in SUBSET ({"row"} \cup Parts), NEW fresh \in NewRowOf(old)
  PROVE  /\ fresh \in SUBSET ({"row"} \cup Parts) /\ "row" \in fresh
         /\ cache = "ratings" => old \subseteq fresh
PROOF
  <1>1. CASE cache = "translations"
    BY <1>1 DEF NewRowOf, NewTranslation
  <1>2. CASE cache = "seasons"
    BY <1>2 DEF NewRowOf, NewSeason
  <1>3. CASE cache = "ui"
    BY <1>3 DEF NewRowOf, NewUi
  <1>4. CASE cache = "details"
    BY <1>4 DEF NewRowOf, NewDetails
  <1>5. CASE cache = "ratings"
    BY <1>5 DEF NewRowOf, NewRatings
  <1> QED BY <1>1, <1>2, <1>3, <1>4, <1>5 DEF Caches

LEMMA MetadataInductive ==
  ASSUME MetadataInv, [KNext]_metadataVars
  PROVE  MetadataInv'
PROOF
  <1>1. CASE RestartLookups
    <2>1. looker' = [l \in Lookers |-> Unasked] /\ UNCHANGED <<cache, json, ever, overlapping>>
      BY <1>1 DEF RestartLookups
    <2>2. MetadataShape'
      BY <2>1, UnaskedLooker DEF MetadataInv, MetadataShape
    <2>3. \A l \in Lookers : ~AtWork(l)' /\ Carries(l)'
      BY <2>1, UnaskedLooker DEF AtWork, Carries
    <2> QED BY <2>1, <2>2, <2>3 DEF MetadataInv, Keeping
  <1>2. ASSUME NEW l \in Lookers, NEW k \in Titles, LookUp(l, k) PROVE MetadataInv'
    <2>0. PICK failed \in BOOLEAN :
            looker' = [looker EXCEPT ![l] =
              [Unasked EXCEPT !.at = "fetch", !.work = k, !.blind = failed,
                              !.copy = IF failed THEN NoRows ELSE json["cache"].rows]]
      BY <1>2 DEF LookUp
    <2> DEFINE new == [Unasked EXCEPT !.at = "fetch", !.work = k, !.blind = failed,
                                      !.copy = IF failed THEN NoRows ELSE json["cache"].rows]
    <2>1. /\ looker' = [looker EXCEPT ![l] = new]
          /\ overlapping' = (overlapping \/ \E m \in Lookers \ {l} : looker[m].at # "idle")
          /\ ever' = IF overlapping' THEN NoRows ELSE ever
          /\ UNCHANGED <<cache, json>>
      BY <1>2, <2>0 DEF LookUp
    <2>e. ever' \in JsonRows
      BY <2>1 DEF MetadataInv, MetadataShape, JsonRows, NoRows
    <2>2. /\ DOMAIN new = LookerFields /\ new.at = "fetch" /\ new.work = k /\ new.fd = "none"
          /\ new.blind = failed /\ new.copy = IF failed THEN NoRows ELSE json["cache"].rows
      BY UnaskedLooker DEF LookerFields
    <2>3. /\ DOMAIN looker' = Lookers /\ looker'[l] = new
          /\ \A m \in Lookers \ {l} : looker'[m] = looker[m]
      BY <2>1 DEF MetadataInv, MetadataShape
    <2> HIDE DEF new
    <2>4. MetadataShape'
      BY <2>e, <2>1, <2>2, <2>3, UnaskedLooker DEF MetadataInv, MetadataShape
    <2>5. CASE ~overlapping'
      <3>1. ~overlapping /\ ever' = ever /\ \A m \in Lookers \ {l} : looker[m].at = "idle"
        BY <2>1, <2>5
      <3>2. Keeping(json["cache"].rows)' /\ (~failed => Keeping(looker[l].copy)')
        BY <2>1, <2>2, <2>3, <3>1 DEF MetadataInv, Keeping
      <3>3. Carries(l)'
        BY <2>2, <2>3, <3>2 DEF Carries
      <3>4. \A m \in Lookers \ {l} : ~AtWork(m)' /\ Carries(m)'
        BY <2>3, <3>1 DEF MetadataInv, Carries, AtWork
      <3> QED BY <2>1, <2>4, <3>1, <3>2, <3>3, <3>4 DEF MetadataInv
    <2> QED BY <2>4, <2>5 DEF MetadataInv
  <1>3. ASSUME NEW l \in Lookers, AtWork(l), Leaves(l), UNCHANGED <<cache, json, ever, overlapping>>
        PROVE  MetadataInv'
    <2>1. /\ DOMAIN looker' = Lookers /\ looker'[l] = Unasked
          /\ \A m \in Lookers \ {l} : looker'[m] = looker[m]
      BY <1>3 DEF Leaves, MetadataInv, MetadataShape
    <2>2. MetadataShape'
      BY <1>3, <2>1, UnaskedLooker DEF MetadataInv, MetadataShape
    <2>3. Carries(l)'
      BY <2>1, UnaskedLooker DEF Carries
    <2> QED BY <1>3, <2>1, <2>2, <2>3, LookerSteps
  <1>4. ASSUME NEW l \in Lookers, FetchFails(l) \/ WriteFails(l) PROVE MetadataInv'
    BY <1>3, <1>4 DEF FetchFails, WriteFails, AtWork
  <1>5. ASSUME NEW l \in Lookers, Fetch(l) PROVE MetadataInv'
    <2> DEFINE k == looker[l].work
    <2> DEFINE copy == looker[l].copy
    <2>1. looker[l].at = "fetch" /\ k \in Titles /\ copy \in JsonRows
      BY <1>5 DEF Fetch, MetadataInv, MetadataShape
    <2>2. PICK fresh \in NewRowOf(copy[k]) :
            looker' = [looker EXCEPT ![l].at = "write", ![l].copy[k] = fresh, ![l].work = Unasked.work]
      BY <1>5 DEF Fetch
    <2>3. copy[k] \in SUBSET ({"row"} \cup Parts) /\ cache \in Caches
      BY <2>1 DEF JsonRows, MetadataInv, MetadataShape
    <2>4. /\ fresh \in SUBSET ({"row"} \cup Parts) /\ "row" \in fresh
          /\ cache = "ratings" => copy[k] \subseteq fresh
      BY <2>3, NewRows
    <2>5. /\ DOMAIN looker' = Lookers /\ looker'[l].at = "write" /\ DOMAIN looker'[l] = LookerFields
          /\ looker'[l].copy = [copy EXCEPT ![k] = fresh] /\ looker'[l].fd = looker[l].fd
          /\ looker'[l].blind = looker[l].blind
          /\ \A m \in Lookers \ {l} : looker'[m] = looker[m]
      BY <2>2 DEF MetadataInv, MetadataShape, LookerFields
    <2>6. UNCHANGED <<cache, json, ever, overlapping>>
      BY <1>5 DEF Fetch
    <2>7. looker'[l].copy \in JsonRows
      BY <2>1, <2>4, <2>5 DEF JsonRows
    <2>8. MetadataShape'
      BY <2>5, <2>6, <2>7 DEF MetadataInv, MetadataShape
    <2>9. ~overlapping => Carries(l)'
      <3>1. ASSUME ~overlapping, ~looker[l].blind PROVE Keeping(looker[l].copy)'
        <4>1. Keeping(copy)
          BY <2>1, <3>1 DEF MetadataInv, Carries
        <4>2. ASSUME NEW x \in Titles
              PROVE  /\ "row" \in ever[x] => "row" \in looker'[l].copy[x]
                     /\ cache = "ratings" => ever[x] \subseteq looker'[l].copy[x]
          <5>0. /\ "row" \in ever[x] => "row" \in copy[x]
                /\ cache = "ratings" => ever[x] \subseteq copy[x]
            BY <4>1 DEF Keeping
          <5>1. looker'[l].copy[x] = IF x = k THEN fresh ELSE copy[x]
            BY <2>1, <2>5 DEF JsonRows
          <5> QED BY <2>4, <5>0, <5>1
        <4> QED BY <2>6, <4>2 DEF Keeping
      <3>2. ASSUME ~overlapping PROVE looker[l].fd = "none"
        BY <2>1, <3>2 DEF MetadataInv, Carries
      <3> QED BY <2>5, <3>1, <3>2 DEF Carries
    <2> QED BY <2>1, <2>5, <2>6, <2>8, <2>9, LookerSteps DEF AtWork
  <1>6. ASSUME NEW l \in Lookers, TruncateTmp(l) PROVE MetadataInv'
    <2>1. /\ looker[l].at = "write" /\ json' = [json EXCEPT !["tmp"] = HalfWritten]
          /\ looker' = [m \in Lookers |->
               IF m = l THEN [looker[l] EXCEPT !.at = "writing", !.fd = "tmp", !.mixed = Writers("tmp") # {}]
               ELSE IF m \in Writers("tmp") THEN [looker[m] EXCEPT !.mixed = TRUE] ELSE looker[m]]
          /\ UNCHANGED <<cache, ever, overlapping>>
      BY <1>6 DEF TruncateTmp, Truncated
    <2>2. /\ DOMAIN looker' = Lookers /\ DOMAIN looker'[l] = LookerFields
          /\ looker'[l].at = "writing" /\ looker'[l].fd = "tmp" /\ looker'[l].copy = looker[l].copy
          /\ looker'[l].mixed = (Writers("tmp") # {}) /\ looker'[l].blind = looker[l].blind
      BY <2>1 DEF MetadataInv, MetadataShape, LookerFields
    <2>3. \A m \in Lookers \ {l} :
            /\ DOMAIN looker'[m] = LookerFields
            /\ \A f \in LookerFields \ {"mixed"} : looker'[m][f] = looker[m][f]
            /\ m \notin Writers("tmp") => looker'[m] = looker[m]
      BY <2>1 DEF MetadataInv, MetadataShape
    <2>4. /\ json'["cache"] = json["cache"] /\ DOMAIN json' = {"cache", "tmp"}
          /\ json'["tmp"] = HalfWritten
      BY <2>1 DEF MetadataInv, MetadataShape
    <2>5. MetadataShape'
      <3>1. DOMAIN json'["tmp"] = {"is", "rows"} /\ json'["tmp"].rows \in JsonRows
        BY <2>4, UnaskedLooker DEF HalfWritten
      <3>2. ASSUME NEW m \in Lookers
            PROVE  /\ DOMAIN looker'[m] = LookerFields /\ looker'[m].copy \in JsonRows
                   /\ looker'[m].at = "fetch" => looker'[m].work \in Titles
        <4>1. CASE m = l
          BY <2>2, <4>1 DEF MetadataInv, MetadataShape
        <4>2. CASE m # l
          <5>1. /\ looker'[m].copy = looker[m].copy /\ looker'[m].at = looker[m].at
                /\ looker'[m].work = looker[m].work /\ DOMAIN looker'[m] = LookerFields
            BY <2>3, <4>2 DEF LookerFields
          <5> QED BY <5>1 DEF MetadataInv, MetadataShape
        <4> QED BY <4>1, <4>2
      <3> QED BY <2>1, <2>2, <2>4, <3>1, <3>2 DEF MetadataInv, MetadataShape
    <2>6. CASE overlapping
      BY <2>1, <2>5, <2>6 DEF MetadataInv
    <2>7. CASE ~overlapping
      <3>1. \A m \in Lookers : looker[m].fd = "none"
        BY <2>1, <2>7 DEF MetadataInv, AtWork, Carries
      <3>2. Writers("tmp") = {}
        BY <3>1 DEF Writers
      <3>3. Carries(l)'
        BY <2>1, <2>2, <2>7, <3>2 DEF MetadataInv, Carries, Keeping
      <3> QED BY <2>1, <2>3, <2>4, <2>5, <3>2, <3>3, LookerSteps DEF AtWork
    <2> QED BY <2>6, <2>7
  <1>7. ASSUME NEW l \in Lookers, Fill(l) PROVE MetadataInv'
    <2> DEFINE p == looker[l].fd
    <2>1. /\ looker[l].at = "writing"
          /\ looker' = [looker EXCEPT ![l].at = "replace", ![l].fd = "none", ![l].mixed = FALSE, ![l].copy = NoRows]
          /\ UNCHANGED <<cache, ever, overlapping>>
      BY <1>7 DEF Fill
    <2>2. PICK now \in {Holding(looker[l].copy), HalfWritten} :
            /\ json' = json \/ json' = [json EXCEPT ![p] = now]
            /\ p = "tmp" /\ looker[l].mixed = FALSE =>
                 json' = [json EXCEPT !["tmp"] = Holding(looker[l].copy)]
      BY <1>7 DEF Fill
    <2>3. /\ DOMAIN looker' = Lookers /\ DOMAIN looker'[l] = LookerFields
          /\ looker'[l].at = "replace" /\ looker'[l].fd = "none" /\ looker'[l].copy = NoRows
          /\ looker'[l].blind = looker[l].blind
          /\ \A m \in Lookers \ {l} : looker'[m] = looker[m]
      BY <2>1 DEF MetadataInv, MetadataShape, LookerFields
    <2>4. /\ DOMAIN json' = {"cache", "tmp"}
          /\ \A q \in {"cache", "tmp"} : json'[q] = json[q] \/ json'[q] = now
      BY <2>2 DEF MetadataInv, MetadataShape
    <2>5. DOMAIN now = {"is", "rows"} /\ now.rows \in JsonRows
      BY <2>2, UnaskedLooker DEF Holding, HalfWritten, MetadataInv, MetadataShape
    <2>6. MetadataShape'
      BY <2>1, <2>3, <2>4, <2>5, UnaskedLooker DEF MetadataInv, MetadataShape
    <2>7. CASE overlapping
      BY <2>1, <2>6, <2>7 DEF MetadataInv
    <2>8. CASE ~overlapping
      <3>1. /\ p = "tmp" /\ looker[l].mixed = FALSE
            /\ ~looker[l].blind => Keeping(looker[l].copy)
        BY <2>1, <2>8 DEF MetadataInv, Carries
      <3>2. /\ json'["cache"] = json["cache"] /\ json'["tmp"] = Holding(looker[l].copy)
        BY <2>2, <3>1 DEF MetadataInv, MetadataShape
      <3>3. (~looker[l].blind => Keeping(json["tmp"].rows)') /\ json'["tmp"].is = "json"
        BY <2>1, <3>1, <3>2 DEF Keeping, Holding
      <3>4. Carries(l)'
        BY <2>3, <3>3 DEF Carries
      <3> QED BY <2>1, <2>3, <2>6, <3>2, <3>4, LookerSteps DEF AtWork
    <2> QED BY <2>7, <2>8
  <1>8. ASSUME NEW l \in Lookers, Publish(l) PROVE MetadataInv'
    <2>1. CASE json["tmp"].is = "absent"
      BY <1>3, <1>8, <2>1 DEF Publish, AtWork
    <2>2. CASE json["tmp"].is # "absent"
      <3>1. /\ json' = [json EXCEPT !["cache"] = json["tmp"], !["tmp"] = Absent]
            /\ ever' = IF overlapping THEN NoRows ELSE [k \in Titles |->
                         (IF looker[l].blind THEN {} ELSE ever[k]) \cup json["tmp"].rows[k]]
            /\ looker' = [m \in Lookers |->
               IF m = l THEN Unasked
               ELSE IF looker[m].fd = "tmp" THEN [looker[m] EXCEPT !.fd = "cache"]
               ELSE IF looker[m].fd = "cache" THEN [looker[m] EXCEPT !.fd = "gone"] ELSE looker[m]]
            /\ looker[l].at = "replace" /\ UNCHANGED <<cache, overlapping>>
        BY <1>8, <2>2 DEF Publish
      <3>2. /\ DOMAIN json' = {"cache", "tmp"} /\ json'["cache"] = json["tmp"] /\ json'["tmp"] = Absent
        BY <3>1 DEF MetadataInv, MetadataShape
      <3>3. /\ DOMAIN looker' = Lookers /\ looker'[l] = Unasked
            /\ \A m \in Lookers \ {l} :
                 /\ DOMAIN looker'[m] = LookerFields
                 /\ \A f \in LookerFields \ {"fd"} : looker'[m][f] = looker[m][f]
                 /\ looker[m].fd = "none" => looker'[m] = looker[m]
        BY <3>1 DEF MetadataInv, MetadataShape
      <3>4. ever' \in JsonRows
        BY <3>1 DEF MetadataInv, MetadataShape, JsonRows, NoRows
      <3>5. MetadataShape'
        BY <3>1, <3>2, <3>3, <3>4, UnaskedLooker DEF MetadataInv, MetadataShape, Absent, LookerFields
      <3>6. CASE overlapping
        BY <3>1, <3>5, <3>6 DEF MetadataInv
      <3>7. CASE ~overlapping
        <4>1. json["tmp"].is = "json" /\ (~looker[l].blind => Keeping(json["tmp"].rows))
          BY <3>1, <3>7 DEF MetadataInv, Carries
        <4>2. ASSUME NEW k \in Titles
              PROVE  /\ "row" \in ever'[k] => "row" \in json["tmp"].rows[k]
                     /\ cache = "ratings" => ever'[k] \subseteq json["tmp"].rows[k]
          BY <3>1, <3>7, <4>1 DEF Keeping
        <4>3. Keeping(json["cache"].rows)'
          BY <3>1, <3>2, <4>2 DEF Keeping
        <4>4. \A m \in Lookers \ {l} : looker[m].at = "idle" /\ looker[m].fd = "none"
          BY <3>1, <3>7 DEF MetadataInv, AtWork, Carries
        <4>5. \A m \in Lookers : ~AtWork(m)' /\ Carries(m)'
          BY <3>3, <4>4, UnaskedLooker DEF AtWork, Carries
        <4> QED BY <3>1, <3>2, <3>5, <4>1, <4>3, <4>5 DEF MetadataInv
      <3> QED BY <3>6, <3>7
    <2> QED BY <2>1, <2>2
  <1>9. CASE UNCHANGED metadataVars
    <2>1. UNCHANGED <<cache, json, looker, ever, overlapping>>
      BY <1>9 DEF metadataVars
    <2> QED BY <2>1 DEF MetadataInv, MetadataShape, Keeping, Carries, AtWork
  <1> QED BY <1>1, <1>2, <1>4, <1>5, <1>6, <1>7, <1>8, <1>9 DEF KNext

\* The lookups' invariant holds throughout.
LEMMA MetadataInvariant == ServicesSpec => []MetadataInv
PROOF
  <1>1. ServicesInit => MetadataInv
    <2>1. ASSUME KInit PROVE MetadataInv
      <3>1. MetadataShape
        BY <2>1, UnaskedLooker DEF KInit, MetadataShape, Absent
      <3>2. Keeping(json["cache"].rows) /\ json["cache"].is # "torn"
        BY <2>1 DEF KInit, Keeping, NoRows, Absent
      <3>3. \A l \in Lookers : ~AtWork(l) /\ Carries(l)
        BY <2>1, UnaskedLooker DEF KInit, AtWork, Carries
      <3> QED BY <3>1, <3>2, <3>3 DEF MetadataInv
    <2> QED BY <2>1, EveryServiceBegins
  <1>2. MetadataInv /\ [ServicesNext]_serviceVars => MetadataInv'
    BY OneServiceSteps, MetadataInductive
  <1> QED BY <1>1, <1>2, PTL DEF ServicesSpec

\* As long as no two lookups of a file overlap, it is never half written, and
\* only a lookup that could not read it loses what it has told of, whatever else
\* fails and whenever the process is restarted (media_discovery.py, the five
\* caches).
THEOREM RecordsAreKept == ServicesSpec => []RecordsKept
PROOF
  <1>1. MetadataInv => RecordsKept
    BY DEF MetadataInv, Keeping, RecordsKept
  <1> QED BY <1>1, MetadataInvariant, PTL

Writing(l) == looker[l].at = "writing"

\* A row that is there is marked as one, in the files and in every copy; a
\* lookup has a file open exactly while it writes.
MetadataTypes ==
  /\ \A p \in {"cache", "tmp"} : json[p].is \in {"absent", "torn", "json"} /\ json[p].rows \in [Titles -> Rows]
  /\ \A l \in Lookers : looker[l].copy \in [Titles -> Rows] /\ (Writing(l) <=> looker[l].fd # "none")

LEMMA NewRowsAreRows ==
  ASSUME cache \in Caches, NEW old \in Rows, NEW fresh \in NewRowOf(old)
  PROVE  fresh \in Rows
PROOF
  <1>1. \A got \in SUBSET Parts : {"row"} \cup got \in Rows
    BY DEF Rows
  <1>2. CASE cache = "translations"
    BY <1>1, <1>2 DEF NewRowOf, NewTranslation
  <1>3. CASE cache = "seasons"
    BY <1>1, <1>3 DEF NewRowOf, NewSeason
  <1>4. CASE cache = "ui"
    BY <1>1, <1>4 DEF NewRowOf, NewUi
  <1>5. CASE cache = "details"
    BY <1>1, <1>5 DEF NewRowOf, NewDetails
  <1>6. CASE cache = "ratings"
    <2>1. PICK got \in SUBSET Parts : fresh = old \cup {"row"} \cup got
      BY <1>6 DEF NewRowOf, NewRatings
    <2>2. PICK some \in SUBSET Parts : old = {} \/ old = {"row"} \cup some
      BY DEF Rows
    <2>3. \/ fresh = {"row"} \cup got
          \/ fresh = {"row"} \cup (some \cup got)
      BY <2>1, <2>2
    <2>4. some \cup got \in SUBSET Parts
      OBVIOUS
    <2> QED BY <1>1, <2>3, <2>4
  <1> QED BY <1>2, <1>3, <1>4, <1>5, <1>6 DEF Caches

LEMMA NothingRead ==
  /\ NoRows \in [Titles -> Rows] /\ Unasked.at = "idle" /\ Unasked.fd = "none" /\ Unasked.copy = NoRows
  /\ Absent.is = "absent" /\ Absent.rows = NoRows
  /\ HalfWritten.is = "torn" /\ HalfWritten.rows = NoRows
PROOF BY DEF NoRows, Rows, Unasked, Absent, HalfWritten

LEMMA MetadataTypesInductive ==
  ASSUME MetadataShape, MetadataTypes, [KNext]_metadataVars
  PROVE  MetadataTypes'
PROOF
  <1>0. /\ DOMAIN looker = Lookers /\ DOMAIN json = {"cache", "tmp"} /\ cache \in Caches
        /\ \A l \in Lookers : DOMAIN looker[l] = LookerFields
    BY DEF MetadataShape
  <1>1. CASE RestartLookups
    <2>1. json' = json /\ \A l \in Lookers : looker'[l] = Unasked
      BY <1>1 DEF RestartLookups
    <2> QED BY <2>1, NothingRead DEF MetadataTypes, Writing
  <1>2. ASSUME NEW l \in Lookers, json' = json, \A m \in Lookers \ {l} : looker'[m] = looker[m],
               looker'[l].copy \in [Titles -> Rows], looker'[l].at # "writing", looker'[l].fd = "none"
        PROVE  MetadataTypes'
    <2>1. ASSUME NEW m \in Lookers
          PROVE  looker'[m].copy \in [Titles -> Rows] /\ (Writing(m)' <=> looker'[m].fd # "none")
      <3>1. CASE m = l
        BY <1>2, <3>1 DEF Writing
      <3>2. CASE m # l
        BY <1>2, <3>2 DEF MetadataTypes, Writing
      <3> QED BY <3>1, <3>2
    <2> QED BY <1>2, <2>1 DEF MetadataTypes
  <1>3. ASSUME NEW l \in Lookers, Leaves(l), json' = json PROVE MetadataTypes'
    <2>1. looker'[l] = Unasked /\ \A m \in Lookers \ {l} : looker'[m] = looker[m]
      BY <1>0, <1>3 DEF Leaves
    <2> QED BY <1>2, <1>3, <2>1, NothingRead
  <1>4. ASSUME NEW l \in Lookers, NEW k \in Titles, LookUp(l, k) PROVE MetadataTypes'
    <2>1. PICK failed \in BOOLEAN :
            looker' = [looker EXCEPT ![l] =
              [Unasked EXCEPT !.at = "fetch", !.work = k, !.blind = failed,
                              !.copy = IF failed THEN NoRows ELSE json["cache"].rows]]
      BY <1>4 DEF LookUp
    <2> DEFINE rows == IF failed THEN NoRows ELSE json["cache"].rows
    <2>2. /\ looker'[l] = [Unasked EXCEPT !.at = "fetch", !.work = k, !.blind = failed, !.copy = rows]
          /\ \A m \in Lookers \ {l} : looker'[m] = looker[m]
          /\ json' = json
      BY <1>0, <1>4, <2>1 DEF LookUp
    <2>3. looker'[l].at = "fetch" /\ looker'[l].copy = rows /\ looker'[l].fd = "none"
      BY <2>2, UnaskedLooker DEF LookerFields
    <2>4. rows \in [Titles -> Rows]
      BY NothingRead DEF MetadataTypes
    <2> HIDE DEF rows
    <2> QED BY <1>2, <2>1, <2>2, <2>3, <2>4
  <1>5. ASSUME NEW l \in Lookers, Fetch(l) PROVE MetadataTypes'
    <2> DEFINE k == looker[l].work
    <2> DEFINE copy == looker[l].copy
    <2>1. looker[l].at = "fetch" /\ k \in Titles /\ copy \in [Titles -> Rows] /\ json' = json
      BY <1>5 DEF Fetch, MetadataShape, MetadataTypes
    <2>2. PICK fresh \in NewRowOf(copy[k]) :
            looker' = [looker EXCEPT ![l].at = "write", ![l].copy[k] = fresh, ![l].work = Unasked.work]
      BY <1>5 DEF Fetch
    <2>3. copy[k] \in Rows
      BY <2>1
    <2>4. fresh \in Rows
      BY <1>0, <2>3, NewRowsAreRows
    <2>5. /\ looker'[l].at = "write" /\ looker'[l].copy = [copy EXCEPT ![k] = fresh]
          /\ looker'[l].fd = looker[l].fd
          /\ \A m \in Lookers \ {l} : looker'[m] = looker[m]
      BY <1>0, <2>2 DEF LookerFields
    <2>6. looker'[l].copy \in [Titles -> Rows]
      BY <2>1, <2>4, <2>5
    <2>7. looker[l].fd = "none"
      BY <2>1 DEF MetadataTypes, Writing
    <2> QED BY <1>2, <2>1, <2>5, <2>6, <2>7
  <1>6. ASSUME NEW l \in Lookers, FetchFails(l) \/ WriteFails(l) PROVE MetadataTypes'
    BY <1>3, <1>6 DEF FetchFails, WriteFails
  <1>7. ASSUME NEW l \in Lookers, TruncateTmp(l) PROVE MetadataTypes'
    <2>1. /\ json' = [json EXCEPT !["tmp"] = HalfWritten]
          /\ looker' = [m \in Lookers |->
               IF m = l THEN [looker[l] EXCEPT !.at = "writing", !.fd = "tmp", !.mixed = Writers("tmp") # {}]
               ELSE IF m \in Writers("tmp") THEN [looker[m] EXCEPT !.mixed = TRUE] ELSE looker[m]]
      BY <1>7 DEF TruncateTmp, Truncated
    <2>2. /\ looker'[l].at = "writing" /\ looker'[l].fd = "tmp" /\ looker'[l].copy = looker[l].copy
      BY <1>0, <2>1 DEF LookerFields
    <2>3. ASSUME NEW m \in Lookers \ {l}
          PROVE  /\ looker'[m].at = looker[m].at /\ looker'[m].copy = looker[m].copy
                 /\ looker'[m].fd = looker[m].fd
      <3>1. looker'[m] = looker[m] \/ looker'[m] = [looker[m] EXCEPT !.mixed = TRUE]
        BY <2>1
      <3> QED BY <1>0, <3>1 DEF LookerFields
    <2>4. \A m \in Lookers : looker'[m].copy \in [Titles -> Rows] /\ (Writing(m)' <=> looker'[m].fd # "none")
      BY <2>2, <2>3 DEF MetadataTypes, Writing
    <2>5. json'["cache"] = json["cache"] /\ json'["tmp"] = HalfWritten
      BY <1>0, <2>1
    <2> QED BY <2>4, <2>5, NothingRead DEF MetadataTypes
  <1>8. ASSUME NEW l \in Lookers, Fill(l) PROVE MetadataTypes'
    <2>1. looker' = [looker EXCEPT ![l].at = "replace", ![l].fd = "none", ![l].mixed = FALSE, ![l].copy = NoRows]
      BY <1>8 DEF Fill
    <2>2. PICK now \in {Holding(looker[l].copy), HalfWritten} :
            json' = json \/ json' = [json EXCEPT ![looker[l].fd] = now]
      BY <1>8 DEF Fill
    <2>3. now.is \in {"torn", "json"} /\ now.rows \in [Titles -> Rows]
      BY <2>2, NothingRead DEF Holding, MetadataTypes
    <2>4. \A q \in {"cache", "tmp"} : json'[q] = json[q] \/ json'[q] = now
      BY <1>0, <2>2
    <2>5. /\ looker'[l].at = "replace" /\ looker'[l].fd = "none" /\ looker'[l].copy = NoRows
          /\ \A m \in Lookers \ {l} : looker'[m] = looker[m]
      BY <1>0, <2>1 DEF LookerFields
    <2>6. \A m \in Lookers : looker'[m].copy \in [Titles -> Rows] /\ (Writing(m)' <=> looker'[m].fd # "none")
      BY <2>5, NothingRead DEF MetadataTypes, Writing
    <2>7. \A q \in {"cache", "tmp"} :
            json'[q].is \in {"absent", "torn", "json"} /\ json'[q].rows \in [Titles -> Rows]
      BY <2>3, <2>4 DEF MetadataTypes
    <2> QED BY <2>6, <2>7 DEF MetadataTypes
  <1>9. ASSUME NEW l \in Lookers, Publish(l) PROVE MetadataTypes'
    <2>1. CASE json["tmp"].is = "absent"
      BY <1>3, <1>9, <2>1 DEF Publish
    <2>2. CASE json["tmp"].is # "absent"
      <3>1. /\ json' = [json EXCEPT !["cache"] = json["tmp"], !["tmp"] = Absent]
            /\ looker' = [m \in Lookers |->
               IF m = l THEN Unasked
               ELSE IF looker[m].fd = "tmp" THEN [looker[m] EXCEPT !.fd = "cache"]
               ELSE IF looker[m].fd = "cache" THEN [looker[m] EXCEPT !.fd = "gone"] ELSE looker[m]]
        BY <1>9, <2>2 DEF Publish
      <3>2. json'["cache"] = json["tmp"] /\ json'["tmp"] = Absent
        BY <1>0, <3>1
      <3>3. looker'[l] = Unasked
        BY <3>1
      <3>4. ASSUME NEW m \in Lookers \ {l}
            PROVE  /\ looker'[m].at = looker[m].at /\ looker'[m].copy = looker[m].copy
                   /\ looker'[m].fd = "none" <=> looker[m].fd = "none"
        <4>1. \/ looker[m].fd \in {"tmp", "cache"} /\ looker'[m] = [looker[m] EXCEPT !.fd = "cache"]
              \/ looker[m].fd \in {"tmp", "cache"} /\ looker'[m] = [looker[m] EXCEPT !.fd = "gone"]
              \/ looker'[m] = looker[m]
          BY <3>1
        <4> QED BY <1>0, <4>1 DEF LookerFields
      <3>5. \A m \in Lookers : looker'[m].copy \in [Titles -> Rows] /\ (Writing(m)' <=> looker'[m].fd # "none")
        BY <3>3, <3>4, NothingRead DEF MetadataTypes, Writing
      <3> QED BY <3>2, <3>5, NothingRead DEF MetadataTypes
    <2> QED BY <2>1, <2>2
  <1>10. CASE UNCHANGED metadataVars
    BY <1>10 DEF metadataVars, MetadataTypes, Writing
  <1> QED BY <1>1, <1>4, <1>5, <1>6, <1>7, <1>8, <1>9, <1>10 DEF KNext

LEMMA CachesTyped == MetadataShape /\ MetadataTypes => MetadataTypeOK
PROOF BY DEF MetadataShape, MetadataTypes, Writing, MetadataTypeOK

\* The files and the lookups are well formed throughout.
LEMMA MetadataTyped == ServicesSpec => []MetadataTypeOK
PROOF
  <1>1. ServicesInit => MetadataTypes
    BY EveryServiceBegins, NothingRead DEF KInit, MetadataTypes, Writing
  <1>2. MetadataInv /\ MetadataTypes /\ [ServicesNext]_serviceVars => MetadataTypes'
    BY OneServiceSteps, MetadataTypesInductive DEF MetadataInv
  <1>3. MetadataInv /\ MetadataTypes => MetadataTypeOK
    BY CachesTyped DEF MetadataInv
  <1> QED BY <1>1, <1>2, <1>3, MetadataInvariant, PTL DEF ServicesSpec

(* ---------------------------- Release monitor -------------------------- *)
RowStates == {"OFF", "MONITORED", "WAITING_FOR_TRANSLATION", "LOCALIZATION_AVAILABLE", "NOTIFIED"}
MonitorRows ==
  [enabled : BOOLEAN, baseline : Episodes, pending : Episodes, notified : Episodes,
   claim : Occurrences \cup {None}, state : RowStates]
Ticks ==
  [at : {"due", "catalogue", "probe", "found", "claim", "alerted", "done"},
   row : MonitorRows, found : Episodes]

MonitorShape ==
  /\ monitor \in MonitorRows /\ aired \in Episodes
  /\ tick \in [Occurrences -> Ticks]
  /\ alerts \in [Episodes -> Nat] /\ freed \in [Episodes -> Nat]

\* The watch is behind e, or e has been acknowledged.
Past(e) == e < monitor.baseline \/ e = monitor.notified
\* Alerts of e that are still out.
Out(e) == IF monitor.claim # None /\ monitor.pending = e THEN 1 ELSE 0

\* Calls that do not overlap: the row a tick goes by is the row there is, and
\* the alert that is out is of the claim in the row.
TicksAgree ==
  /\ \A o, p \in Occurrences : Working(o) /\ Working(p) => o = p
  /\ \A o \in Occurrences :
       /\ tick[o].at = "catalogue" =>
            /\ tick[o].row.baseline = monitor.baseline /\ tick[o].row.pending = monitor.pending
            /\ tick[o].row.notified = monitor.notified
       /\ tick[o].at \in {"probe", "found", "claim", "alerted"} =>
            tick[o].found = monitor.pending /\ monitor.pending # 0
       /\ tick[o].at = "claim" => Unclaimed(monitor, tick[o].found)
       /\ tick[o].at = "alerted" => monitor.claim = o
  /\ monitor.claim # None => tick[monitor.claim].at = "alerted"

RowAgrees ==
  /\ monitor.notified # 0 => monitor.notified = monitor.baseline
  /\ monitor.pending # 0 => monitor.baseline # 0 /\ monitor.pending >= monitor.baseline

AlertsCounted ==
  \A e \in Episodes \ {0} : alerts[e] <= freed[e] + (IF Past(e) THEN 1 ELSE Out(e))

MonitorInv ==
  /\ MonitorShape
  /\ ~racing => TicksAgree /\ RowAgrees /\ AlertsCounted

\* The user's calls touch the switch, and a baseline or a pending episode only
\* where there was none.
UserChange ==
  /\ monitor' \in MonitorRows
  /\ monitor'.notified = monitor.notified /\ monitor'.claim = monitor.claim
  /\ monitor.baseline # 0 => monitor'.baseline = monitor.baseline
  /\ monitor.pending # 0 => monitor'.pending = monitor.pending
  /\ monitor.pending = 0 => monitor'.pending \in {0, monitor'.baseline}

LEMMA UserChanges ==
  ASSUME monitor \in MonitorRows, aired \in Episodes, SetForJob
  PROVE  UserChange
PROOF
  <1>1. 0 \in Episodes
    BY MonitorAssumption DEF Episodes
  <1>2. ASSUME NEW full \in BOOLEAN, TurnOn(full) PROVE UserChange
    <2>1. PICK known \in {aired, 0} :
            LET base == IF monitor.baseline = 0 THEN known ELSE monitor.baseline
                wait == ~full /\ monitor.pending = 0 /\ base # 0 IN
              monitor' = [monitor EXCEPT
                !.enabled = TRUE, !.baseline = base,
                !.pending = IF wait THEN base ELSE @,
                !.state = IF wait THEN "WAITING_FOR_TRANSLATION"
                          ELSE IF monitor.pending # 0 THEN @ ELSE "MONITORED"]
      BY <1>2 DEF TurnOn
    <2>2. known \in Episodes
      BY <1>1
    <2> HIDE DEF UserChange
    <2>3. CASE monitor.baseline = 0
      BY <2>1, <2>2, <2>3 DEF UserChange, MonitorRows, RowStates
    <2>4. CASE monitor.baseline # 0
      BY <2>1, <2>2, <2>4 DEF UserChange, MonitorRows, RowStates
    <2> QED BY <2>3, <2>4
  <1>3. CASE TurnOff
    BY <1>3, <1>1 DEF TurnOff, UserChange, MonitorRows, RowStates
  <1> QED BY <1>2, <1>3 DEF SetForJob, EnsureAuto

LEMMA MonitorInductive ==
  ASSUME MonitorInv, [RNext]_monitorVars
  PROVE  MonitorInv'
PROOF
  <1> USE MonitorAssumption
  <1> USE DEF World, Told
  <1>1. CASE SetForJob
    <2>1. /\ racing' = (racing \/ \E o \in Occurrences : Working(o))
          /\ UNCHANGED <<tick, aired, dubbed, alerts, freed>>
      BY <1>1 DEF SetForJob
    <2>2. UserChange
      BY <1>1, UserChanges DEF MonitorInv, MonitorShape
    <2> USE <2>2 DEF UserChange, MonitorRows
    <2>4. MonitorShape'
      BY <2>1 DEF MonitorInv, MonitorShape
    <2>5. CASE ~racing'
      <3>1. ~racing /\ \A o \in Occurrences : ~Working(o)
        BY <2>1, <2>5
      <3>2. TicksAgree /\ RowAgrees /\ AlertsCounted
        BY <3>1 DEF MonitorInv
      <3>3. \A o \in Occurrences : tick[o].at \notin {"catalogue", "probe", "found", "claim"}
        BY <3>1 DEF Working
      <3>4. TicksAgree'
        <4>1. \A p, r \in Occurrences : Working(p)' /\ Working(r)' => p = r
          BY <2>1, <3>1 DEF Working
        <4>2. monitor.claim # None => tick[monitor.claim].at = "alerted"
          BY <3>2 DEF TicksAgree
        <4>3. \A o \in Occurrences : tick[o].at = "alerted" =>
                tick[o].found = monitor.pending /\ monitor.pending # 0 /\ monitor.claim = o
          BY <3>2 DEF TicksAgree
        <4> QED BY <2>1, <3>3, <4>1, <4>2, <4>3 DEF TicksAgree
      <3>5. RowAgrees'
        <4>1. monitor.baseline \in Nat /\ monitor'.baseline \in Nat /\ monitor'.pending \in Nat
          BY DEF MonitorInv, MonitorShape, Episodes
        <4> QED BY <3>2, <4>1 DEF RowAgrees
      <3>6. \A e \in Episodes \ {0} : (Past(e) => Past(e)') /\ Out(e)' = Out(e)
        <4>1. monitor.claim # None => monitor.pending # 0
          BY <3>2 DEF TicksAgree, MonitorInv, MonitorShape, MonitorRows
        <4>2. monitor.baseline \in Nat /\ monitor'.baseline \in Nat
          BY DEF MonitorInv, MonitorShape, Episodes
        <4>3. \A e \in Episodes \ {0} : e \in Nat /\ (e < monitor.baseline => monitor.baseline # 0)
          BY <4>2 DEF Episodes
        <4> QED BY <4>1, <4>3 DEF Past, Out
      <3>7. \A e \in Episodes \ {0} : alerts'[e] \in Nat /\ freed'[e] \in Nat /\ Out(e) \in {0, 1}
        BY <2>4 DEF MonitorShape, Out
      <3>8. AlertsCounted'
        BY <2>1, <3>2, <3>6, <3>7 DEF AlertsCounted
      <3> QED BY <2>4, <3>4, <3>5, <3>8 DEF MonitorInv
    <2> QED BY <2>4, <2>5 DEF MonitorInv
  <1>2. CASE EpisodeAirs \/ EpisodeDubbed
    <2>1. UNCHANGED <<monitor, tick, alerts, freed, racing>> /\ aired' \in Episodes
      BY <1>2 DEF EpisodeAirs, EpisodeDubbed, MonitorInv, MonitorShape, Episodes
    <2> QED BY <2>1 DEF MonitorInv, MonitorShape, TicksAgree, RowAgrees, AlertsCounted, Past, Out, Working, Unclaimed
  <1>3. CASE UNCHANGED monitorVars
    BY <1>3 DEF monitorVars, MonitorInv, MonitorShape, TicksAgree, RowAgrees, AlertsCounted, Past, Out, Working, Unclaimed
  <1>4. ASSUME NEW o \in Occurrences, BeginTick(o) PROVE MonitorInv'
    <2>1. /\ racing' = (racing \/ \E p \in Occurrences : Working(p))
          /\ UNCHANGED <<monitor, aired, dubbed, alerts, freed>>
          /\ tick[o].at = "due"
      BY <1>4 DEF BeginTick
    <2>2. PICK at \in {"catalogue", "done"} : tick' = [tick EXCEPT ![o] = [at |-> at, row |-> monitor, found |-> 0]]
      BY <1>4 DEF BeginTick
    <2>3. 0 \in Episodes
      BY DEF Episodes
    <2>4. MonitorShape'
      BY <2>1, <2>2, <2>3 DEF MonitorInv, MonitorShape, Ticks
    <2>5. CASE ~racing'
      <3>1. ~racing /\ \A p \in Occurrences : ~Working(p)
        BY <2>1, <2>5
      <3>2. TicksAgree /\ RowAgrees /\ AlertsCounted
        BY <3>1 DEF MonitorInv
      <3>3. \A p \in Occurrences \ {o} : tick'[p] = tick[p] /\ ~Working(p)'
        BY <2>2, <3>1 DEF Working, MonitorInv, MonitorShape
      <3>4. tick'[o].at \in {"catalogue", "done"} /\ tick'[o].row = monitor
        BY <2>2 DEF MonitorInv, MonitorShape
      <3>5. TicksAgree'
        BY <2>1, <3>2, <3>3, <3>4 DEF TicksAgree, Working, Unclaimed, MonitorInv, MonitorShape, MonitorRows
      <3>6. RowAgrees' /\ AlertsCounted'
        BY <2>1, <3>2 DEF RowAgrees, AlertsCounted, Past, Out
      <3> QED BY <2>4, <3>5, <3>6 DEF MonitorInv
    <2> QED BY <2>4, <2>5 DEF MonitorInv
  <1>5. ASSUME NEW o \in Occurrences, Catalogue(o) PROVE MonitorInv'
    <2>1. /\ UNCHANGED <<racing, aired, dubbed, alerts, freed>>
          /\ tick[o].at = "catalogue"
      BY <1>5 DEF Catalogue
    <2> DEFINE old == tick[o].row
    <2>2. PICK new \in {old, News(old)} :
            LET changed == [monitor EXCEPT
                   !.baseline = IF new.baseline # old.baseline THEN new.baseline ELSE @,
                   !.pending = IF new.pending # old.pending THEN new.pending ELSE @,
                   !.state = IF new # old THEN new.state ELSE @] IN
               /\ monitor' = changed
               /\ tick' = [tick EXCEPT ![o] =
                    [at |-> IF changed.pending = 0 THEN "done" ELSE "probe", row |-> NoRow, found |-> changed.pending]]
      BY <1>5 DEF Catalogue
    <2>3. old \in MonitorRows /\ NoRow \in MonitorRows
      BY DEF MonitorInv, MonitorShape, Ticks, NoRow, MonitorRows, RowStates, Episodes
    <2>4. /\ new \in MonitorRows /\ new.notified = old.notified
          /\ old.baseline # 0 => new.baseline = old.baseline
          /\ new.pending # old.pending =>
               old.pending = 0 /\ old.baseline # 0 /\ new.pending > old.baseline
      <3>1. CASE old.baseline = 0
        <4>1. new = old \/ new = [old EXCEPT !.baseline = aired, !.state = "MONITORED"]
          BY <2>2, <3>1 DEF News
        <4>2. aired \in Episodes
          BY DEF MonitorInv, MonitorShape
        <4> HIDE DEF old
        <4> QED BY <4>1, <4>2, <2>3, <3>1 DEF MonitorRows, RowStates
      <3>2. CASE old.baseline # 0
        <4>1. new = old \/ (/\ new = [old EXCEPT !.pending = aired, !.state = "WAITING_FOR_TRANSLATION"]
                           /\ old.pending = 0 /\ aired > old.baseline)
          BY <2>2, <3>2 DEF News
        <4>2. aired \in Episodes
          BY DEF MonitorInv, MonitorShape
        <4> HIDE DEF old
        <4> QED BY <4>1, <4>2, <2>3, <3>2 DEF MonitorRows, RowStates
      <3> QED BY <3>1, <3>2
    <2>5. /\ monitor' \in MonitorRows
          /\ monitor'.notified = monitor.notified /\ monitor'.claim = monitor.claim
          /\ monitor'.baseline = IF new.baseline # old.baseline THEN new.baseline ELSE monitor.baseline
          /\ monitor'.pending = IF new.pending # old.pending THEN new.pending ELSE monitor.pending
      BY <2>2, <2>4 DEF MonitorInv, MonitorShape, MonitorRows
    <2>6. /\ tick' = [tick EXCEPT ![o] = [at |-> IF monitor'.pending = 0 THEN "done" ELSE "probe",
                                           row |-> NoRow, found |-> monitor'.pending]]
          /\ monitor'.pending \in Episodes
      BY <2>2, <2>5 DEF MonitorRows
    <2> HIDE DEF old
    <2>7. MonitorShape'
      BY <2>1, <2>3, <2>5, <2>6 DEF MonitorInv, MonitorShape, Ticks
    <2>8. CASE ~racing
      <3>1. TicksAgree /\ RowAgrees /\ AlertsCounted
        BY <2>8 DEF MonitorInv
      <3>2. \A p \in Occurrences \ {o} : tick'[p] = tick[p] /\ ~Working(p)
        BY <2>1, <2>6, <3>1 DEF TicksAgree, Working, MonitorInv, MonitorShape
      <3>3. /\ tick'[o].at \in {"done", "probe"} /\ tick'[o].found = monitor'.pending
            /\ tick'[o].at = "probe" => monitor'.pending # 0
        BY <2>6 DEF MonitorInv, MonitorShape
      <3>4. old.baseline = monitor.baseline /\ old.pending = monitor.pending
        BY <2>1, <3>1 DEF TicksAgree, old
      <3>5. \A p \in Occurrences : tick[p].at = "alerted" => monitor.pending # 0 /\ monitor'.pending = monitor.pending
        BY <2>4, <2>5, <3>1, <3>4 DEF TicksAgree
      <3>6. TicksAgree'
        <4>1. \A p, r \in Occurrences : Working(p)' /\ Working(r)' => p = r
          BY <3>2 DEF Working
        <4>2. \A p \in Occurrences \ {o} : tick[p].at \in {"due", "alerted", "done"}
          BY <3>2 DEF Working
        <4>3. monitor'.claim # None => tick'[monitor'.claim].at = "alerted"
          BY <2>1, <2>5, <3>1, <3>2 DEF TicksAgree, MonitorInv, MonitorShape, MonitorRows
        <4> QED BY <4>1, <4>2, <4>3, <2>5, <3>1, <3>2, <3>3, <3>5 DEF TicksAgree
      <3>7. /\ monitor'.baseline \in Nat /\ monitor'.pending \in Nat /\ monitor.baseline \in Nat
            /\ monitor.pending \in Nat /\ new.pending \in Nat
        BY <2>4, <2>5 DEF MonitorInv, MonitorShape, MonitorRows, Episodes
      <3>8. monitor.baseline # 0 => monitor'.baseline = monitor.baseline
        BY <2>4, <2>5, <3>4
      <3>9. RowAgrees'
        BY <2>4, <2>5, <3>1, <3>4, <3>7, <3>8 DEF RowAgrees
      <3>10. monitor.claim # None => monitor'.pending = monitor.pending
        BY <3>1, <3>5 DEF TicksAgree, MonitorInv, MonitorShape, MonitorRows
      <3>11. \A e \in Episodes \ {0} : (Past(e) => Past(e)') /\ Out(e)' = Out(e)
        BY <2>5, <3>7, <3>8, <3>10 DEF Past, Out, Episodes
      <3>12. \A e \in Episodes \ {0} : alerts[e] \in Nat /\ freed[e] \in Nat /\ Out(e) \in {0, 1}
        BY DEF MonitorInv, MonitorShape, Out
      <3>13. AlertsCounted'
        BY <2>1, <3>1, <3>11, <3>12 DEF AlertsCounted
      <3> QED BY <2>7, <3>6, <3>9, <3>13 DEF MonitorInv
    <2> QED BY <2>1, <2>7, <2>8 DEF MonitorInv
  \* The ticks' steps that leave the row alone.
  <1>6. ASSUME NEW o \in Occurrences, Probe(o) \/ CheckClaim(o) PROVE MonitorInv'
    <2>1. /\ UNCHANGED <<monitor, racing, aired, dubbed, alerts, freed>>
          /\ tick[o].at \in {"probe", "found"}
      BY <1>6 DEF Probe, CheckClaim
    <2>2. PICK at \in {"found", "claim", "done"} :
            /\ tick' = [tick EXCEPT ![o].at = at, ![o].row = NoRow]
            /\ at = "claim" => Unclaimed(monitor, tick[o].found)
      BY <1>6 DEF Probe, CheckClaim, Turns
    <2>3. NoRow \in MonitorRows
      BY DEF NoRow, MonitorRows, RowStates, Episodes
    <2>4. /\ \A p \in Occurrences \ {o} : tick'[p] = tick[p]
          /\ tick'[o] = [at |-> at, row |-> NoRow, found |-> tick[o].found]
          /\ tick' \in [Occurrences -> Ticks]
      BY <2>2, <2>3 DEF MonitorInv, MonitorShape, Ticks
    <2>5. MonitorShape'
      BY <2>1, <2>4 DEF MonitorInv, MonitorShape
    <2>6. CASE ~racing
      <3>1. TicksAgree /\ RowAgrees /\ AlertsCounted
        BY <2>6 DEF MonitorInv
      <3>2. \A p \in Occurrences \ {o} : ~Working(p) /\ ~Working(p)'
        BY <2>1, <2>4, <3>1 DEF TicksAgree, Working
      <3>3. tick'[o].at = at /\ tick'[o].found = tick[o].found /\ tick[o].found = monitor.pending /\ monitor.pending # 0
        BY <2>1, <2>4, <3>1 DEF TicksAgree
      <3>4. \A p \in Occurrences \ {o} : tick[p].at \in {"due", "alerted", "done"}
        BY <3>2 DEF Working
      <3>5. TicksAgree'
        <4>1. \A p, r \in Occurrences : Working(p)' /\ Working(r)' => p = r
          BY <3>2
        <4>2. monitor'.claim # None => tick'[monitor'.claim].at = "alerted"
          BY <2>1, <2>4, <3>1 DEF TicksAgree, MonitorInv, MonitorShape, MonitorRows
        <4> QED BY <2>1, <2>2, <2>4, <3>1, <3>3, <3>4, <4>1, <4>2 DEF TicksAgree, Unclaimed
      <3>6. RowAgrees' /\ AlertsCounted'
        BY <2>1, <3>1 DEF RowAgrees, AlertsCounted, Past, Out
      <3> QED BY <2>5, <3>5, <3>6 DEF MonitorInv
    <2> QED BY <2>1, <2>5, <2>6 DEF MonitorInv
  <1>7. ASSUME NEW o \in Occurrences, Claim(o) PROVE MonitorInv'
    <2> DEFINE new == tick[o].found
    <2>1. /\ UNCHANGED <<racing, aired, dubbed, freed>>
          /\ tick[o].at = "claim"
          /\ monitor' = [monitor EXCEPT !.claim = o, !.state = "LOCALIZATION_AVAILABLE"]
          /\ alerts' = [alerts EXCEPT ![new] = @ + 1]
          /\ tick' = [tick EXCEPT ![o].at = "alerted", ![o].row = NoRow]
      BY <1>7 DEF Claim, Turns
    <2>2. NoRow \in MonitorRows
      BY DEF NoRow, MonitorRows, RowStates, Episodes
    <2>3. /\ \A p \in Occurrences \ {o} : tick'[p] = tick[p]
          /\ tick'[o] = [at |-> "alerted", row |-> NoRow, found |-> new]
          /\ tick' \in [Occurrences -> Ticks] /\ new \in Episodes
      BY <2>1, <2>2 DEF MonitorInv, MonitorShape, Ticks
    <2>4. /\ monitor' \in MonitorRows /\ monitor'.claim = o
          /\ monitor'.notified = monitor.notified /\ monitor'.baseline = monitor.baseline
          /\ monitor'.pending = monitor.pending
      BY <2>1 DEF MonitorInv, MonitorShape, MonitorRows, RowStates
    <2>5. /\ alerts' \in [Episodes -> Nat] /\ alerts'[new] = alerts[new] + 1
          /\ \A e \in Episodes \ {new} : alerts'[e] = alerts[e]
      BY <2>1, <2>3 DEF MonitorInv, MonitorShape
    <2>6. MonitorShape'
      BY <2>1, <2>3, <2>4, <2>5 DEF MonitorInv, MonitorShape
    <2>7. CASE ~racing
      <3>1. TicksAgree /\ RowAgrees /\ AlertsCounted
        BY <2>7 DEF MonitorInv
      <3>2. \A p \in Occurrences \ {o} : ~Working(p) /\ ~Working(p)'
        BY <2>1, <2>3, <3>1 DEF TicksAgree, Working
      <3>3. new = monitor.pending /\ new # 0 /\ monitor.notified # new /\ monitor.claim = None
        BY <2>1, <3>1 DEF TicksAgree, Unclaimed
      <3>4. \A p \in Occurrences \ {o} : tick[p].at \in {"due", "done"}
        BY <3>1, <3>2, <3>3 DEF Working, TicksAgree, MonitorInv, MonitorShape, MonitorAssumption
      <3>5. TicksAgree'
        <4>1. \A p, r \in Occurrences : Working(p)' /\ Working(r)' => p = r
          BY <3>2
        <4> QED BY <2>3, <2>4, <3>3, <3>4, <4>1 DEF TicksAgree
      <3>6. RowAgrees'
        BY <2>4, <3>1 DEF RowAgrees
      <3>7. AlertsCounted'
        <4> SUFFICES ASSUME NEW e \in Episodes \ {0}
                     PROVE  alerts'[e] <= freed'[e] + (IF Past(e)' THEN 1 ELSE Out(e)')
          BY DEF AlertsCounted
        <4>1. alerts[e] \in Nat /\ freed[e] \in Nat /\ monitor.baseline \in Nat /\ monitor.pending \in Nat
          BY DEF MonitorInv, MonitorShape, MonitorRows, Episodes
        <4>2. Past(e)' <=> Past(e)
          BY <2>4 DEF Past
        <4>3. CASE e # new
          <5>1. Out(e)' = 0 /\ Out(e) = 0
            BY <2>4, <3>3, <4>3 DEF Out
          <5> QED BY <2>1, <2>5, <3>1, <4>2, <4>3, <5>1 DEF AlertsCounted
        <4>4. CASE e = new
          <5>1. Out(e)' = 1 /\ Out(e) = 0
            BY <2>4, <3>3, <4>4 DEF Out
          <5>2. ~Past(e)
            BY <3>1, <3>3, <4>1, <4>4 DEF Past, RowAgrees
          <5>3. alerts[e] <= freed[e]
            BY <3>1, <5>1, <5>2, <4>1 DEF AlertsCounted
          <5> QED BY <2>1, <2>5, <4>1, <4>2, <4>4, <5>1, <5>2, <5>3
        <4> QED BY <4>3, <4>4
      <3> QED BY <2>6, <3>5, <3>6, <3>7 DEF MonitorInv
    <2> QED BY <2>1, <2>6, <2>7 DEF MonitorInv
  <1>8. ASSUME NEW o \in Occurrences, Ack(o) PROVE MonitorInv'
    <2> DEFINE new == tick[o].found
    <2>1. /\ UNCHANGED <<aired, dubbed, alerts, freed>>
          /\ tick[o].at = "alerted"
          /\ racing' = (racing \/ \E p \in Occurrences : Working(p))
          /\ tick' = [tick EXCEPT ![o].at = "done", ![o].row = NoRow]
      BY <1>8 DEF Ack, Turns
    <2>2. NoRow \in MonitorRows
      BY DEF NoRow, MonitorRows, RowStates, Episodes
    <2>3. /\ \A p \in Occurrences \ {o} : tick'[p] = tick[p]
          /\ tick'[o].at = "done"
          /\ tick' \in [Occurrences -> Ticks] /\ new \in Episodes
      BY <2>1, <2>2 DEF MonitorInv, MonitorShape, Ticks
    <2>4. \/ monitor' = monitor /\ ~(monitor.pending = new /\ monitor.claim = o)
          \/ /\ monitor' = [monitor EXCEPT !.notified = new, !.baseline = new,
                              !.pending = 0, !.state = "NOTIFIED", !.claim = None]
             /\ monitor.pending = new /\ monitor.claim = o
      BY <1>8 DEF Ack
    <2>5. MonitorShape'
      <3>1. 0 \in Episodes /\ monitor \in MonitorRows /\ "NOTIFIED" \in RowStates
        BY DEF MonitorInv, MonitorShape, Episodes, RowStates
      <3> HIDE DEF new
      <3>2. monitor' \in MonitorRows
        BY <2>3, <2>4, <3>1 DEF MonitorRows
      <3> QED BY <2>1, <2>3, <3>2 DEF MonitorInv, MonitorShape
    <2>6. CASE ~racing'
      <3>1. ~racing /\ \A p \in Occurrences : ~Working(p)
        BY <2>1, <2>6
      <3>2. TicksAgree /\ RowAgrees /\ AlertsCounted
        BY <3>1 DEF MonitorInv
      <3>3. new = monitor.pending /\ new # 0 /\ monitor.claim = o
        BY <2>1, <3>2 DEF TicksAgree
      <3>4. /\ monitor'.notified = new /\ monitor'.baseline = new
            /\ monitor'.pending = 0 /\ monitor'.claim = None
        BY <2>4, <3>3 DEF MonitorInv, MonitorShape, MonitorRows
      <3>5. \A p \in Occurrences : tick'[p].at \in {"due", "done"}
        BY <2>3, <3>1, <3>2, <3>3 DEF Working, TicksAgree
      <3>6. TicksAgree'
        BY <3>4, <3>5 DEF TicksAgree, Working
      <3>7. RowAgrees'
        BY <3>4 DEF RowAgrees
      <3>8. AlertsCounted'
        <4> SUFFICES ASSUME NEW e \in Episodes \ {0}
                     PROVE  alerts'[e] <= freed'[e] + (IF Past(e)' THEN 1 ELSE Out(e)')
          BY DEF AlertsCounted
        <4>1. /\ e \in Nat /\ alerts[e] \in Nat /\ freed[e] \in Nat
              /\ monitor.baseline \in Nat /\ new \in Nat
          BY <2>3 DEF MonitorInv, MonitorShape, MonitorRows, Episodes
        <4>2. Out(e) = (IF e = new THEN 1 ELSE 0) /\ Out(e)' = 0
          BY <3>3, <3>4, MonitorAssumption DEF Out
        <4>3. Past(e) => Past(e)'
          <5>1. monitor.baseline <= new
            BY <3>2, <3>3, <4>1 DEF RowAgrees
          <5>2. monitor.notified = e => monitor.baseline = e
            BY <3>2 DEF RowAgrees
          <5> QED BY <3>4, <4>1, <5>1, <5>2 DEF Past
        <4>4. e = new => Past(e)'
          BY <3>4 DEF Past
        <4>5. alerts[e] <= freed[e] + (IF Past(e) THEN 1 ELSE Out(e))
          BY <3>2 DEF AlertsCounted
        <4> QED BY <2>1, <4>1, <4>2, <4>3, <4>4, <4>5
      <3> QED BY <2>5, <3>6, <3>7, <3>8 DEF MonitorInv
    <2> QED BY <2>5, <2>6 DEF MonitorInv
  <1>9. ASSUME NEW o \in Occurrences, ReleaseClaim(o) PROVE MonitorInv'
    <2> DEFINE new == tick[o].found
    <2>1. /\ UNCHANGED <<aired, dubbed, alerts, racing>>
          /\ tick[o].at = "alerted"
          /\ tick' = [tick EXCEPT ![o].at = "done", ![o].row = NoRow]
      BY <1>9 DEF ReleaseClaim, Turns
    <2>2. NoRow \in MonitorRows
      BY DEF NoRow, MonitorRows, RowStates, Episodes
    <2>3. /\ \A p \in Occurrences \ {o} : tick'[p] = tick[p]
          /\ tick'[o].at = "done"
          /\ tick' \in [Occurrences -> Ticks] /\ new \in Episodes
      BY <2>1, <2>2 DEF MonitorInv, MonitorShape, Ticks
    <2>4. \/ monitor' = monitor /\ freed' = freed /\ monitor.claim # o
          \/ /\ monitor' = [monitor EXCEPT !.claim = None,
                   !.state = IF monitor.pending # 0 THEN "WAITING_FOR_TRANSLATION" ELSE @]
             /\ freed' = [freed EXCEPT ![new] = @ + 1]
             /\ monitor.claim = o
      BY <1>9 DEF ReleaseClaim
    <2>5. MonitorShape'
      <3>1. monitor \in MonitorRows /\ "WAITING_FOR_TRANSLATION" \in RowStates
        BY DEF MonitorInv, MonitorShape, RowStates
      <3> HIDE DEF new
      <3>2. monitor' \in MonitorRows
        BY <2>4, <3>1 DEF MonitorRows
      <3>3. freed' \in [Episodes -> Nat]
        BY <2>3, <2>4 DEF MonitorInv, MonitorShape
      <3> QED BY <2>1, <2>3, <3>2, <3>3 DEF MonitorInv, MonitorShape
    <2>6. CASE ~racing
      <3>1. TicksAgree /\ RowAgrees /\ AlertsCounted
        BY <2>6 DEF MonitorInv
      <3>2. new = monitor.pending /\ new # 0 /\ monitor.claim = o
        BY <2>1, <3>1 DEF TicksAgree
      <3>3. /\ monitor'.notified = monitor.notified /\ monitor'.baseline = monitor.baseline
            /\ monitor'.pending = monitor.pending /\ monitor'.claim = None
        BY <2>4, <3>2 DEF MonitorInv, MonitorShape, MonitorRows
      <3>4. /\ freed'[new] = freed[new] + 1
            /\ \A e \in Episodes \ {new} : freed'[e] = freed[e]
        BY <2>3, <2>4, <3>2 DEF MonitorInv, MonitorShape
      <3>5. \A p \in Occurrences : tick'[p].at \notin {"claim", "alerted"}
        BY <2>3, <3>1, <3>2 DEF TicksAgree, Unclaimed
      <3>6. \A p, r \in Occurrences : Working(p)' /\ Working(r)' => p = r
        BY <2>3, <3>1 DEF TicksAgree, Working
      <3>7. TicksAgree'
        BY <2>3, <3>1, <3>3, <3>5, <3>6 DEF TicksAgree
      <3>8. RowAgrees'
        BY <3>1, <3>3 DEF RowAgrees
      <3>9. AlertsCounted'
        <4> SUFFICES ASSUME NEW e \in Episodes \ {0}
                     PROVE  alerts'[e] <= freed'[e] + (IF Past(e)' THEN 1 ELSE Out(e)')
          BY DEF AlertsCounted
        <4>1. alerts[e] \in Nat /\ freed[e] \in Nat
          BY DEF MonitorInv, MonitorShape
        <4>2. Out(e) = (IF e = new THEN 1 ELSE 0) /\ Out(e)' = 0
          BY <3>2, <3>3, MonitorAssumption DEF Out
        <4>3. Past(e)' <=> Past(e)
          BY <3>3 DEF Past
        <4>4. freed'[e] = freed[e] + (IF e = new THEN 1 ELSE 0)
          BY <3>4, <4>1
        <4>5. alerts[e] <= freed[e] + (IF Past(e) THEN 1 ELSE Out(e))
          BY <3>1 DEF AlertsCounted
        <4> QED BY <2>1, <4>1, <4>2, <4>3, <4>4, <4>5
      <3> QED BY <2>5, <3>7, <3>8, <3>9 DEF MonitorInv
    <2> QED BY <2>1, <2>5, <2>6 DEF MonitorInv
  <1> QED BY <1>1, <1>2, <1>3, <1>4, <1>5, <1>6, <1>7, <1>8, <1>9 DEF RNext

LEMMA MonitorBegins == RInit => MonitorInv
PROOF
  <1> SUFFICES ASSUME RInit PROVE MonitorInv
    OBVIOUS
  <1>1. 0 \in Episodes /\ monitor.claim = None
    BY MonitorAssumption DEF RInit, NoRow, Episodes
  <1>2. MonitorShape
    BY <1>1 DEF RInit, NoRow, MonitorShape, MonitorRows, RowStates, Ticks
  <1>3. TicksAgree /\ RowAgrees
    BY <1>1 DEF RInit, NoRow, TicksAgree, RowAgrees, Working
  <1>4. AlertsCounted
    BY <1>1, <1>2 DEF RInit, AlertsCounted, Out
  <1> QED BY <1>2, <1>3, <1>4 DEF MonitorInv

LEMMA MonitorKeepsAnnouncedOnce == MonitorInv => AnnouncedOnce
PROOF
  <1> SUFFICES ASSUME MonitorInv, ~racing, NEW e \in Episodes \ {0}
               PROVE  alerts[e] <= 1 + freed[e] /\ (monitor.notified = e => monitor.baseline >= e)
    BY DEF AnnouncedOnce
  <1>1. /\ alerts[e] \in Nat /\ freed[e] \in Nat /\ Out(e) \in {0, 1}
        /\ monitor.baseline \in Nat
    BY DEF MonitorInv, MonitorShape, MonitorRows, Episodes, Out
  <1>2. alerts[e] <= freed[e] + (IF Past(e) THEN 1 ELSE Out(e))
    BY DEF MonitorInv, AlertsCounted
  <1>3. monitor.notified = e => monitor.baseline = e
    BY DEF MonitorInv, RowAgrees
  <1> QED BY <1>1, <1>2, <1>3

\* The watch's invariant holds throughout.
LEMMA MonitorInvariant == ServicesSpec => []MonitorInv
PROOF
  <1>1. ServicesInit => MonitorInv
    BY MonitorBegins, EveryServiceBegins
  <1>2. MonitorInv /\ [ServicesNext]_serviceVars => MonitorInv'
    BY MonitorInductive, OneServiceSteps
  <1> QED BY <1>1, <1>2, PTL DEF ServicesSpec

\* As long as the monitor's calls do not overlap, an episode is announced once
\* for the watch and once more for each claim its sender gave back, and the watch
\* stands at or after what it has announced last.
THEOREM EpisodeAnnouncedOnce == ServicesSpec => []AnnouncedOnce
PROOF BY MonitorInvariant, MonitorKeepsAnnouncedOnce, PTL

LEMMA MonitorTypes == MonitorInv => MonitorTypeOK
PROOF BY DEF MonitorInv, MonitorShape, MonitorRows, Ticks, MonitorTypeOK

(* ----------------------------- The outbox ------------------------------ *)
\* Stamps are taken in the order in which events are noted.
StampsInOrder ==
  \A m \in Media : \A i \in 1..Len(accepted[m]) :
    /\ accepted[m][i] <= second
    /\ noting # Nothing => accepted[m][i] <= noting.stamp
    /\ \A j \in 1..Len(accepted[m]) : i <= j => accepted[m][i] <= accepted[m][j]

\* A row is of the newest event of its title.
TableCurrent(table) ==
  \A m \in Media : table[m] # Nothing =>
    /\ Len(accepted[m]) > 0
    /\ table[m].event = Len(accepted[m])
    /\ table[m].stamp = accepted[m][Len(accepted[m])]

\* The newest event that is not in the table has been taken, or is undated.
TableSafe(table) ==
  \A m \in Media :
    \/ Len(accepted[m]) = 0 \/ Undated(m) \/ Len(accepted[m]) \in arrived[m]
    \/ table[m] # Nothing

\* A call works on events that were noted; one it takes for sent was taken; and
\* it commits its own transaction.
BatchSound(f) ==
  /\ \A n \in 1..Len(flush[f].todo) :
       LET x == flush[f].todo[n] IN
         /\ x.row.event \in 1..Len(accepted[x.of])
         /\ x.row.stamp = accepted[x.of][x.row.event]
  /\ flush[f].at \in {"post", "record"} => flush[f].todo # <<>>
  /\ flush[f].at = "record" /\ flush[f].taken =>
       flush[f].todo[1].row.event \in arrived[flush[f].todo[1].of]
  /\ flush[f].at = "commit" => locker = f

OutboxInv ==
  /\ OutboxTypeOK /\ StampsInOrder
  /\ TableCurrent(outbox) /\ TableSafe(outbox)
  /\ locker # Nothing => TableCurrent(draft) /\ TableSafe(draft)
  /\ \A f \in Flushers : BatchSound(f)

\* Events stay, and what Trakt has taken stays taken.
OutboxGrows ==
  \A m \in Media :
    /\ Len(accepted'[m]) \in Nat /\ Len(accepted[m]) <= Len(accepted'[m])
    /\ \A i \in 1..Len(accepted[m]) : accepted'[m][i] = accepted[m][i]
    /\ arrived[m] \subseteq arrived'[m]

LEMMA GrownKeeps ==
  ASSUME OutboxGrows, NEW m \in Media, Len(accepted[m]) \in Nat,
         NEW i \in 1..Len(accepted[m])
  PROVE  i \in 1..Len(accepted'[m]) /\ accepted'[m][i] = accepted[m][i]
PROOF
  <1>1. /\ Len(accepted'[m]) \in Nat /\ Len(accepted[m]) <= Len(accepted'[m])
        /\ accepted'[m][i] = accepted[m][i]
    BY DEF OutboxGrows
  <1> QED BY <1>1

LEMMA CallStaysSound ==
  ASSUME OutboxTypeOK, NEW g \in Flushers, BatchSound(g), OutboxGrows,
         flush'[g] = flush[g], flush[g].at = "commit" => locker' = locker
  PROVE  BatchSound(g)'
PROOF
  <1> DEFINE todo == flush[g].todo
  <1>1. flush[g] \in FlushCall
    BY DEF OutboxTypeOK
  <1>2. todo \in Seq(BatchItem)
    BY <1>1 DEF FlushCall
  <1>3. ASSUME NEW n \in 1..Len(todo)
        PROVE  /\ todo[n].row.event \in 1..Len(accepted'[todo[n].of])
               /\ todo[n].row.stamp = accepted'[todo[n].of][todo[n].row.event]
    <2>1. todo[n] \in BatchItem
      BY <1>2
    <2>2. todo[n].of \in Media
      BY <2>1 DEF BatchItem
    <2>3. /\ todo[n].row.event \in 1..Len(accepted[todo[n].of])
          /\ todo[n].row.stamp = accepted[todo[n].of][todo[n].row.event]
      BY DEF BatchSound
    <2>4. Len(accepted[todo[n].of]) \in Nat
      BY <2>2 DEF OutboxTypeOK
    <2> QED BY <2>2, <2>3, <2>4, GrownKeeps
  <1>4. ASSUME flush[g].at = "record", flush[g].taken
        PROVE  todo[1].row.event \in arrived'[todo[1].of]
    <2>1. todo # <<>> /\ todo[1].row.event \in arrived[todo[1].of]
      BY <1>4 DEF BatchSound
    <2>2. 1 \in 1..Len(todo)
      BY <1>2, <2>1
    <2>3. todo[1] \in BatchItem
      BY <1>2, <2>2
    <2>4. todo[1].of \in Media
      BY <2>3 DEF BatchItem
    <2> QED BY <2>1, <2>4 DEF OutboxGrows
  <1> QED BY <1>3, <1>4 DEF BatchSound

LEMMA NothingGrows ==
  ASSUME OutboxTypeOK, UNCHANGED <<accepted, arrived>>
  PROVE  OutboxGrows
PROOF
  <1>1. ASSUME NEW m \in Media PROVE Len(accepted[m]) \in Nat
    BY DEF OutboxTypeOK
  <1> QED BY <1>1 DEF OutboxGrows

\* The tables are judged by the events alone.
LEMMA TablesKept ==
  ASSUME NEW t, UNCHANGED <<accepted, arrived>>
  PROVE  /\ TableCurrent(t) =>
              \A m \in Media : t[m] # Nothing =>
                /\ Len(accepted'[m]) > 0
                /\ t[m].event = Len(accepted'[m])
                /\ t[m].stamp = accepted'[m][Len(accepted'[m])]
         /\ TableSafe(t) =>
              \A m \in Media :
                \/ Len(accepted'[m]) = 0 \/ Undated(m)' \/ Len(accepted'[m]) \in arrived'[m]
                \/ t[m] # Nothing
PROOF BY DEF TableCurrent, TableSafe, Undated

\* An earlier event with the stamp of the newest one leaves no room for another
\* stamp in between.
LEMMA SameSecond ==
  ASSUME accepted \in [Media -> Seq(Nat)], StampsInOrder, NEW m \in Media,
         NEW e \in 1..Len(accepted[m]), e # Len(accepted[m]),
         accepted[m][e] = accepted[m][Len(accepted[m])]
  PROVE  Undated(m)
PROOF
  <1> DEFINE S == accepted[m]
             n == Len(accepted[m])
  <1>1. \A i, j \in 1..n : i <= j => S[i] <= S[j]
    BY DEF StampsInOrder
  <1>2. S \in Seq(Nat) /\ n \in Nat
    OBVIOUS
  <1>3. n > 1 /\ n - 1 \in 1..n /\ n \in 1..n /\ e <= n - 1 /\ n - 1 <= n
    BY <1>2
  <1>4. S[e] \in Nat /\ S[n - 1] \in Nat /\ S[n] \in Nat /\ S[e] = S[n]
    BY <1>2, <1>3
  <1>5. S[e] <= S[n - 1] /\ S[n - 1] <= S[n]
    <2> HIDE DEF S, n
    <2> QED BY <1>1, <1>3
  <1>6. S[n] = S[n - 1]
    <2> HIDE DEF S, n
    <2> QED BY <1>4, <1>5
  <1> QED BY <1>3, <1>6 DEF Undated

\* An event is only deleted when it is the one Trakt has taken, or when the
\* newest event is undated.
LEMMA DeletedIsSafe ==
  ASSUME NEW table \in OutboxTable, NEW x \in BatchItem,
         accepted \in [Media -> Seq(Nat)], StampsInOrder,
         TableCurrent(table), TableSafe(table),
         x.row.event \in 1..Len(accepted[x.of]),
         x.row.stamp = accepted[x.of][x.row.event],
         x.row.event \in arrived[x.of]
  PROVE  /\ Deleted(table, x) \in OutboxTable
         /\ TableCurrent(Deleted(table, x)) /\ TableSafe(Deleted(table, x))
PROOF
  <1> DEFINE new == Deleted(table, x)
  <1>1. x.of \in Media
    BY DEF BatchItem
  <1>2. /\ new \in OutboxTable
        /\ \A m \in Media : new[m] = table[m] \/ (m = x.of /\ new[m] = Nothing /\ table[m] # Nothing /\ table[m].stamp = x.row.stamp)
    BY <1>1 DEF Deleted, OutboxTable
  <1>3. TableCurrent(new)
    BY <1>2 DEF TableCurrent
  <1>4. ASSUME NEW m \in Media,
               Len(accepted[m]) # 0, Len(accepted[m]) \notin arrived[m], new[m] = Nothing
        PROVE  Undated(m)
    <2> DEFINE n == Len(accepted[m])
    <2>1. CASE new[m] = table[m]
      BY <1>4, <2>1 DEF TableSafe
    <2>2. CASE m = x.of /\ table[m] # Nothing /\ table[m].stamp = x.row.stamp
      <3> DEFINE e == x.row.event
      <3>1. e \in 1..n /\ e # n
        BY <2>2, <1>4
      <3>2. accepted[m][e] = accepted[m][n]
        BY <2>2 DEF TableCurrent
      <3> HIDE DEF e
      <3> QED BY <3>1, <3>2, SameSecond
    <2> QED BY <1>2, <1>4, <2>1, <2>2
  <1>5. TableSafe(new)
    BY <1>4 DEF TableSafe
  <1> QED BY <1>2, <1>3, <1>5

LEMMA RetryDelayIsNat == ASSUME NEW n \in Nat \ {0} PROVE RetryDelay(n) \in Nat
PROOF
  <1>1. Smaller(n, 6) \in 1..6
    BY DEF Smaller
  <1>2. ASSUME NEW k \in 1..6 PROVE <<2, 4, 8, 16, 32, 64>>[k] \in Nat
    <2>1. k = 1 \/ k = 2 \/ k = 3 \/ k = 4 \/ k = 5 \/ k = 6
      OBVIOUS
    <2> QED BY <2>1
  <1>3. RetryBase * <<2, 4, 8, 16, 32, 64>>[Smaller(n, 6)] \in Nat
    BY <1>1, <1>2, OutboxAssumption
  <1> QED BY <1>3, OutboxAssumption DEF RetryDelay, Smaller

LEMMA PostponedIsSafe ==
  ASSUME NEW table \in OutboxTable, NEW x \in BatchItem, NEW now \in Nat,
         TableCurrent(table), TableSafe(table)
  PROVE  /\ Postponed(table, x, now) \in OutboxTable
         /\ TableCurrent(Postponed(table, x, now)) /\ TableSafe(Postponed(table, x, now))
PROOF
  <1> DEFINE new == Postponed(table, x, now)
             wait == now + RetryDelay(x.row.attempts + 1)
  <1>1. x.of \in Media /\ x.row.attempts + 1 \in Nat \ {0}
    BY DEF BatchItem, OutboxRow
  <1>2. wait \in Nat
    BY <1>1, RetryDelayIsNat
  <1>3. ASSUME NEW m \in Media
        PROVE  /\ new[m] \in OutboxRow \cup {Nothing}
               /\ (new[m] = Nothing) <=> (table[m] = Nothing)
               /\ new[m].event = table[m].event /\ new[m].stamp = table[m].stamp
    <2>1. table[m] \in OutboxRow \cup {Nothing}
      BY DEF OutboxTable
    <2>2. CASE m # x.of \/ table[m] = Nothing
      BY <2>1, <2>2 DEF Postponed, OutboxTable
    <2>3. CASE m = x.of /\ table[m] # Nothing
      <3>1. new[m] = [table[m] EXCEPT !.attempts = x.row.attempts + 1, !.due = wait]
        BY <2>3 DEF Postponed, OutboxTable
      <3>2. table[m] \in OutboxRow
        BY <2>1, <2>3
      <3>3. new[m] \in OutboxRow /\ new[m].event = table[m].event /\ new[m].stamp = table[m].stamp
        BY <1>1, <1>2, <3>1, <3>2 DEF OutboxRow
      <3> QED BY <2>3, <3>3, OutboxAssumption
    <2> QED BY <2>2, <2>3
  <1>4. new \in OutboxTable
    <2>1. new = [m \in Media |-> new[m]]
      BY DEF Postponed, OutboxTable
    <2> QED BY <1>3, <2>1 DEF OutboxTable
  <1>5. TableCurrent(new) /\ TableSafe(new)
    BY <1>3 DEF TableCurrent, TableSafe
  <1> QED BY <1>4, <1>5

\* Note: an event is added at the end, and its row with it.
LEMMA NotedIsSafe ==
  ASSUME OutboxInv, NoteEvent
  PROVE  OutboxInv'
PROOF
  <1> DEFINE m0 == noting.of
             n0 == Len(accepted[m0])
             newRow == [event |-> n0 + 1, stamp |-> noting.stamp, attempts |-> 0, due |-> 0]
  <1>1. /\ noting # Nothing /\ m0 \in Media /\ noting.stamp \in Nat /\ noting.stamp <= second
        /\ locker = Nothing /\ noting' = Nothing
        /\ accepted' = [accepted EXCEPT ![m0] = Append(@, noting.stamp)]
        /\ outbox' = [outbox EXCEPT ![m0] = newRow]
        /\ UNCHANGED <<draft, locker, flush, arrived, second>>
    BY DEF OutboxInv, OutboxTypeOK, NoteEvent
  <1>2. accepted \in [Media -> Seq(Nat)] /\ accepted[m0] \in Seq(Nat) /\ n0 \in Nat
    BY <1>1 DEF OutboxInv, OutboxTypeOK
  <1>3. /\ accepted' \in [Media -> Seq(Nat)]
        /\ \A m \in Media \ {m0} : accepted'[m] = accepted[m]
        /\ accepted'[m0] = Append(accepted[m0], noting.stamp)
    BY <1>1, <1>2
  <1>4. /\ Len(accepted'[m0]) = n0 + 1
        /\ \A i \in 1..n0 : accepted'[m0][i] = accepted[m0][i]
        /\ accepted'[m0][n0 + 1] = noting.stamp
    BY <1>1, <1>2, <1>3
  <1>5. newRow \in OutboxRow /\ newRow # Nothing
    BY <1>1, <1>2, OutboxAssumption DEF OutboxRow
  <1>6. /\ outbox' \in OutboxTable
        /\ \A m \in Media \ {m0} : outbox'[m] = outbox[m]
        /\ outbox'[m0] = newRow
    BY <1>1, <1>5 DEF OutboxInv, OutboxTypeOK, OutboxTable
  <1>7. OutboxTypeOK'
    BY <1>1, <1>3, <1>6 DEF OutboxInv, OutboxTypeOK
  <1>8. OutboxGrows
    <2>1. ASSUME NEW m \in Media PROVE Len(accepted[m]) \in Nat
      BY <1>2
    <2> QED BY <1>1, <1>2, <1>3, <1>4, <2>1 DEF OutboxGrows
  <1>9. StampsInOrder'
    <2>1. ASSUME NEW m \in Media, NEW i \in 1..Len(accepted'[m])
          PROVE  /\ accepted'[m][i] <= second'
                 /\ \A j \in 1..Len(accepted'[m]) : i <= j => accepted'[m][i] <= accepted'[m][j]
      <3>1. CASE m # m0
        BY <1>1, <1>3, <3>1 DEF OutboxInv, StampsInOrder
      <3>2. CASE m = m0
        <4>1. \A k \in 1..n0 : accepted[m0][k] <= second /\ accepted[m0][k] <= noting.stamp
          BY <1>1 DEF OutboxInv, StampsInOrder
        <4>2. \A k, l \in 1..n0 : k <= l => accepted[m0][k] <= accepted[m0][l]
          BY <1>1 DEF OutboxInv, StampsInOrder
        <4>3. i \in 1..n0 \/ i = n0 + 1
          BY <1>2, <1>4, <3>2
        <4>4. ASSUME NEW j \in 1..Len(accepted'[m]), i <= j
              PROVE  accepted'[m][i] <= accepted'[m][j]
          <5>1. j \in 1..n0 \/ j = n0 + 1
            BY <1>2, <1>4, <3>2
          <5> QED BY <1>1, <1>2, <1>4, <3>2, <4>1, <4>2, <4>3, <4>4, <5>1
        <4> QED BY <1>1, <1>4, <3>2, <4>1, <4>3, <4>4
      <3> QED BY <3>1, <3>2
    <2> QED BY <1>1, <2>1 DEF StampsInOrder
  <1>10. TableCurrent(outbox)'
    <2>1. ASSUME NEW m \in Media, outbox'[m] # Nothing
          PROVE  /\ Len(accepted'[m]) > 0
                 /\ outbox'[m].event = Len(accepted'[m])
                 /\ outbox'[m].stamp = accepted'[m][Len(accepted'[m])]
      <3>1. CASE m # m0
        BY <1>3, <1>6, <2>1, <3>1 DEF OutboxInv, TableCurrent
      <3>2. CASE m = m0
        BY <1>2, <1>4, <1>6, <3>2
      <3> QED BY <3>1, <3>2
    <2> QED BY <2>1 DEF TableCurrent
  <1>11. TableSafe(outbox)'
    <2>1. ASSUME NEW m \in Media
          PROVE  \/ Len(accepted'[m]) = 0 \/ Undated(m)' \/ Len(accepted'[m]) \in arrived'[m]
                 \/ outbox'[m] # Nothing
      <3>1. CASE m # m0
        BY <1>1, <1>3, <1>6, <3>1 DEF OutboxInv, TableSafe, Undated
      <3>2. CASE m = m0
        BY <1>5, <1>6, <3>2
      <3> QED BY <3>1, <3>2
    <2> QED BY <2>1 DEF TableSafe
  <1>12. ASSUME NEW g \in Flushers PROVE BatchSound(g)'
    BY <1>1, <1>8, CallStaysSound DEF OutboxInv
  <1> QED BY <1>1, <1>7, <1>9, <1>10, <1>11, <1>12 DEF OutboxInv

\* What a call of flush changes about itself.
FlushMoves(f, new) ==
  /\ new \in FlushCall
  /\ flush' = [flush EXCEPT ![f] = new]
  /\ UNCHANGED <<noting, accepted, second>>

LEMMA MovedCalls ==
  ASSUME NEW f \in Flushers, NEW new, FlushMoves(f, new), OutboxTypeOK
  PROVE  /\ flush' \in [Flushers -> FlushCall]
         /\ flush'[f] = new
         /\ \A g \in Flushers \ {f} : flush'[g] = flush[g]
PROOF BY DEF FlushMoves, OutboxTypeOK

\* The events are as they were.
LEMMA StampsStay ==
  ASSUME StampsInOrder, OutboxTypeOK, UNCHANGED accepted,
         second' \in Nat, second <= second',
         noting' = noting \/ noting' = Nothing
                          \/ (noting' # Nothing /\ noting'.stamp = second)
  PROVE  StampsInOrder'
PROOF
  <1>1. ASSUME NEW m \in Media, NEW i \in 1..Len(accepted[m])
        PROVE  /\ accepted[m][i] \in Nat /\ accepted[m][i] <= second'
               /\ noting' # Nothing => accepted[m][i] <= noting'.stamp
    <2>1. accepted[m] \in Seq(Nat)
      BY DEF OutboxTypeOK
    <2>2. accepted[m][i] \in Nat /\ second \in Nat
      BY <2>1 DEF OutboxTypeOK
    <2>3. accepted[m][i] <= second /\ (noting # Nothing => accepted[m][i] <= noting.stamp)
      BY DEF StampsInOrder
    <2> QED BY <2>2, <2>3
  <1> QED BY <1>1 DEF StampsInOrder

LEMMA BegunIsSound ==
  ASSUME OutboxInv, NEW f \in Flushers, BeginFlush(f)
  PROVE  OutboxInv'
PROOF
  <1>1. PICK size \in 1..BatchLimit : \E rows \in [1..size -> OutboxRows] :
          /\ IsBatch(rows)
          /\ flush' = [flush EXCEPT ![f] =
               [at |-> "post", todo |-> rows, taken |-> FALSE, clock |-> second]]
    BY DEF BeginFlush
  <1>2. PICK rows \in [1..size -> OutboxRows] :
          flush' = [flush EXCEPT ![f] =
            [at |-> "post", todo |-> rows, taken |-> FALSE, clock |-> second]]
    BY <1>1
  <1> DEFINE new == [at |-> "post", todo |-> rows, taken |-> FALSE, clock |-> second]
  <1>3. size \in Nat \ {0}
    BY OutboxAssumption
  <1>4. ASSUME NEW n \in 1..size
        PROVE  /\ rows[n].of \in Media /\ rows[n] \in BatchItem
               /\ rows[n].row = outbox[rows[n].of] /\ rows[n].row # Nothing
    <2>1. PICK m \in Titled : rows[n] = [of |-> m, row |-> outbox[m]]
      BY DEF OutboxRows
    <2>2. m \in Media /\ outbox[m] # Nothing /\ outbox[m] \in OutboxRow
      BY DEF Titled, OutboxInv, OutboxTypeOK, OutboxTable
    <2> QED BY <2>1, <2>2 DEF BatchItem
  <1>5. rows \in Seq(BatchItem) /\ Len(rows) = size /\ rows # <<>>
    <2>1. rows \in [1..size -> BatchItem]
      BY <1>4
    <2> QED BY <1>3, <2>1
  <1>6. FlushMoves(f, new) /\ UNCHANGED <<outbox, draft, locker, arrived>>
    BY <1>2, <1>5 DEF FlushMoves, FlushCall, BeginFlush, OutboxInv, OutboxTypeOK
  <1>7. OutboxTypeOK /\ OutboxTypeOK'
    BY <1>6, MovedCalls DEF FlushMoves, OutboxInv, OutboxTypeOK
  <1>8. OutboxGrows
    BY <1>6, <1>7, NothingGrows DEF FlushMoves
  <1>9. BatchSound(f)'
    <2>1. flush'[f] = new
      BY <1>6, <1>7, MovedCalls
    <2>2. ASSUME NEW n \in 1..Len(rows)
          PROVE  /\ rows[n].row.event \in 1..Len(accepted'[rows[n].of])
                 /\ rows[n].row.stamp = accepted'[rows[n].of][rows[n].row.event]
      <3>1. rows[n].of \in Media /\ rows[n].row = outbox[rows[n].of] /\ outbox[rows[n].of] # Nothing
        BY <1>4, <1>5
      <3>2. Len(accepted[rows[n].of]) \in Nat
        BY <1>7, <3>1 DEF OutboxTypeOK
      <3> QED BY <1>6, <3>1, <3>2 DEF OutboxInv, TableCurrent, FlushMoves
    <2> QED BY <1>5, <2>1, <2>2 DEF BatchSound
  <1>10. ASSUME NEW g \in Flushers PROVE BatchSound(g)'
    <2>1. CASE g = f
      BY <1>9, <2>1
    <2>2. CASE g # f
      BY <1>6, <1>7, <1>8, <2>2, MovedCalls, CallStaysSound DEF OutboxInv
    <2> QED BY <2>1, <2>2
  <1>11. StampsInOrder'
    BY <1>6, <1>7, StampsStay DEF OutboxInv, OutboxTypeOK, FlushMoves
  <1> QED BY <1>6, <1>7, <1>10, <1>11 DEF OutboxInv, FlushMoves, TableCurrent, TableSafe, Undated

\* _post: what Trakt takes is the event of the first row.
LEMMA PostedIsSound ==
  ASSUME OutboxInv, NEW f \in Flushers, Post(f)
  PROVE  OutboxInv'
PROOF
  <1> DEFINE x == Head(flush[f].todo)
  <1>1. PICK taken \in BOOLEAN :
          /\ flush' = [flush EXCEPT ![f].at = "record", ![f].taken = taken]
          /\ arrived' = [arrived EXCEPT ![x.of] = IF taken THEN @ \cup {x.row.event} ELSE @]
    BY DEF Post
  <1> DEFINE new == [flush[f] EXCEPT !.at = "record", !.taken = taken]
  <1>2. flush[f] \in FlushCall /\ flush[f].at = "post" /\ flush[f].todo # <<>>
    BY DEF OutboxInv, OutboxTypeOK, BatchSound, Post
  <1>3. /\ flush[f].todo \in Seq(BatchItem) /\ x = flush[f].todo[1] /\ x \in BatchItem
        /\ x.of \in Media /\ x.row.event \in Nat
    <2>1. flush[f].todo \in Seq(BatchItem)
      BY <1>2 DEF FlushCall
    <2>2. x = flush[f].todo[1] /\ x \in BatchItem
      BY <1>2, <2>1
    <2> QED BY <2>1, <2>2 DEF BatchItem, OutboxRow
  <1>4. FlushMoves(f, new) /\ UNCHANGED <<outbox, draft, locker>>
    <2>1. new \in FlushCall
      BY <1>2 DEF FlushCall
    <2>2. flush' = [flush EXCEPT ![f] = new]
      BY <1>1 DEF OutboxInv, OutboxTypeOK
    <2> QED BY <2>1, <2>2 DEF FlushMoves, Post
  <1>5. /\ arrived' \in [Media -> SUBSET Nat]
        /\ \A m \in Media : arrived[m] \subseteq arrived'[m]
        /\ taken => x.row.event \in arrived'[x.of]
    BY <1>1, <1>3 DEF OutboxInv, OutboxTypeOK
  <1>6. OutboxTypeOK /\ OutboxTypeOK'
    BY <1>4, <1>5, MovedCalls DEF FlushMoves, OutboxInv, OutboxTypeOK
  <1>7. OutboxGrows
    <2>1. ASSUME NEW m \in Media PROVE Len(accepted[m]) \in Nat
      BY <1>6 DEF OutboxTypeOK
    <2> QED BY <1>4, <1>5, <2>1 DEF OutboxGrows, FlushMoves
  <1>8. BatchSound(f)'
    <2>1. flush'[f] = new /\ new.at = "record" /\ new.todo = flush[f].todo /\ new.taken = taken
      BY <1>2, <1>4, <1>6, MovedCalls DEF FlushCall
    <2>2. accepted' = accepted
      BY <1>4 DEF FlushMoves
    <2>3. \A n \in 1..Len(flush[f].todo) :
            LET y == flush[f].todo[n] IN
              /\ y.row.event \in 1..Len(accepted[y.of])
              /\ y.row.stamp = accepted[y.of][y.row.event]
      BY DEF BatchSound, OutboxInv
    <2>4. \A n \in 1..Len(flush'[f].todo) :
            LET y == flush'[f].todo[n] IN
              /\ y.row.event \in 1..Len(accepted'[y.of])
              /\ y.row.stamp = accepted'[y.of][y.row.event]
      <3>1. accepted' = accepted /\ flush'[f].todo = flush[f].todo
        BY <2>1, <2>2
      <3> HIDE DEF x, new
      <3> QED BY <2>3, <3>1
    <2>5. /\ flush'[f].at = "record" /\ flush'[f].todo # <<>>
          /\ flush'[f].taken => x.row.event \in arrived'[x.of]
          /\ x = flush'[f].todo[1]
      BY <1>2, <1>3, <1>5, <2>1
    <2> QED BY <2>4, <2>5 DEF BatchSound
  <1>9. ASSUME NEW g \in Flushers PROVE BatchSound(g)'
    <2>1. CASE g = f
      BY <1>8, <2>1
    <2>2. CASE g # f
      BY <1>4, <1>6, <1>7, <2>2, MovedCalls, CallStaysSound DEF OutboxInv
    <2> QED BY <2>1, <2>2
  <1>10. StampsInOrder'
    BY <1>4, <1>6, StampsStay DEF OutboxInv, OutboxTypeOK, FlushMoves
  <1>11. /\ TableCurrent(outbox)' /\ TableSafe(outbox)'
         /\ locker' # Nothing => TableCurrent(draft)' /\ TableSafe(draft)'
    BY <1>4, <1>5 DEF OutboxInv, FlushMoves, TableCurrent, TableSafe, Undated
  <1> QED BY <1>6, <1>9, <1>10, <1>11 DEF OutboxInv

\* The answer to a request goes into the transaction.
LEMMA RecordedIsSafe ==
  ASSUME OutboxInv, NEW f \in Flushers, Record(f)
  PROVE  OutboxInv'
PROOF
  <1> DEFINE x == Head(flush[f].todo)
             rest == Tail(flush[f].todo)
  <1>1. PICK barred \in BOOLEAN :
          flush' = [flush EXCEPT ![f].at = IF rest = <<>> \/ barred THEN "commit" ELSE "post",
                                 ![f].todo = rest, ![f].taken = FALSE]
    BY DEF Record
  <1> DEFINE step == IF rest = <<>> \/ barred THEN "commit" ELSE "post"
             new == [flush[f] EXCEPT !.at = step, !.todo = rest, !.taken = FALSE]
  <1>2. /\ flush[f] \in FlushCall /\ flush[f].at = "record" /\ flush[f].todo # <<>>
        /\ locker' = f /\ locker \in {Nothing, f}
        /\ UNCHANGED <<outbox, noting, accepted, arrived, second>>
    BY DEF OutboxInv, OutboxTypeOK, BatchSound, Record
  <1>3. /\ flush[f].todo \in Seq(BatchItem) /\ x = flush[f].todo[1] /\ x \in BatchItem
        /\ rest \in Seq(BatchItem) /\ Len(rest) = Len(flush[f].todo) - 1
        /\ \A n \in 1..Len(rest) : n + 1 \in 1..Len(flush[f].todo) /\ rest[n] = flush[f].todo[n + 1]
        /\ 1 \in 1..Len(flush[f].todo) /\ flush[f].clock \in Nat
    BY <1>2 DEF FlushCall
  <1>4. FlushMoves(f, new)
    <2>1. new \in FlushCall
      BY <1>2, <1>3 DEF FlushCall
    <2>2. flush' = [flush EXCEPT ![f] = new]
      BY <1>1 DEF OutboxInv, OutboxTypeOK
    <2> QED BY <1>2, <2>1, <2>2 DEF FlushMoves
  <1>5. Sees(f) \in OutboxTable /\ TableCurrent(Sees(f)) /\ TableSafe(Sees(f))
    <2>1. f # Nothing
      BY OutboxAssumption
    <2>2. CASE locker = f
      BY <2>1, <2>2 DEF Sees, OutboxInv, OutboxTypeOK
    <2>3. CASE locker # f
      BY <2>3 DEF Sees, OutboxInv, OutboxTypeOK
    <2> QED BY <2>2, <2>3
  <1>6. draft' \in OutboxTable /\ TableCurrent(draft') /\ TableSafe(draft')
    <2>1. CASE flush[f].taken
      <3>1. /\ x.row.event \in 1..Len(accepted[x.of])
            /\ x.row.stamp = accepted[x.of][x.row.event]
            /\ x.row.event \in arrived[x.of]
        <4>1. BatchSound(f) /\ 1 \in 1..Len(flush[f].todo)
          BY <1>3 DEF OutboxInv
        <4>2. LET y == flush[f].todo[1] IN
                /\ y.row.event \in 1..Len(accepted[y.of])
                /\ y.row.stamp = accepted[y.of][y.row.event]
          BY <4>1 DEF BatchSound
        <4>3. flush[f].todo[1].row.event \in arrived[flush[f].todo[1].of]
          BY <1>2, <2>1, <4>1 DEF BatchSound
        <4> QED BY <1>3, <4>2, <4>3
      <3>2. draft' = Deleted(Sees(f), x)
        BY <2>1 DEF Record
      <3>3. accepted \in [Media -> Seq(Nat)] /\ StampsInOrder
        BY DEF OutboxInv, OutboxTypeOK
      <3> QED BY <1>3, <1>5, <3>1, <3>2, <3>3, DeletedIsSafe
    <2>2. CASE ~flush[f].taken
      <3>1. draft' = Postponed(Sees(f), x, flush[f].clock)
        BY <2>2 DEF Record
      <3> QED BY <1>3, <1>5, <3>1, PostponedIsSafe
    <2> QED BY <2>1, <2>2
  <1>7. OutboxTypeOK /\ OutboxTypeOK'
    BY <1>2, <1>4, <1>6, MovedCalls DEF OutboxInv, OutboxTypeOK
  <1>8. OutboxGrows
    BY <1>2, <1>7, NothingGrows
  <1>9. BatchSound(f)'
    <2>1. flush'[f] = new /\ new.at = step /\ new.todo = rest /\ ~new.taken
      BY <1>2, <1>4, <1>7, MovedCalls DEF FlushCall
    <2>2. ASSUME NEW n \in 1..Len(rest)
          PROVE  /\ rest[n].row.event \in 1..Len(accepted[rest[n].of])
                 /\ rest[n].row.stamp = accepted[rest[n].of][rest[n].row.event]
      BY <1>3 DEF OutboxInv, BatchSound
    <2>3. \A n \in 1..Len(flush'[f].todo) :
            LET y == flush'[f].todo[n] IN
              /\ y.row.event \in 1..Len(accepted'[y.of])
              /\ y.row.stamp = accepted'[y.of][y.row.event]
      <3>1. accepted' = accepted /\ flush'[f].todo = rest
        BY <1>2, <2>1
      <3> HIDE DEF rest, new
      <3> QED BY <2>2, <3>1
    <2>4. /\ flush'[f].at # "record" /\ (flush'[f].at = "post" => flush'[f].todo # <<>>)
          /\ flush'[f].at = "commit" => locker' = f
      BY <1>2, <2>1
    <2> QED BY <2>3, <2>4 DEF BatchSound
  <1>10. ASSUME NEW g \in Flushers PROVE BatchSound(g)'
    <2>1. CASE g = f
      BY <1>9, <2>1
    <2>2. CASE g # f
      <3>1. flush'[g] = flush[g]
        BY <1>4, <1>7, <2>2, MovedCalls
      <3>2. flush[g].at # "commit"
        BY <1>2, <2>2, OutboxAssumption DEF OutboxInv, BatchSound
      <3> QED BY <1>7, <1>8, <3>1, <3>2, CallStaysSound DEF OutboxInv
    <2> QED BY <2>1, <2>2
  <1>11. StampsInOrder'
    BY <1>2, <1>7, StampsStay DEF OutboxInv, OutboxTypeOK
  <1>12. /\ TableCurrent(outbox)' /\ TableSafe(outbox)'
         /\ TableCurrent(draft)' /\ TableSafe(draft)'
    BY <1>2, <1>6 DEF OutboxInv, TableCurrent, TableSafe, Undated
  <1> QED BY <1>7, <1>10, <1>11, <1>12 DEF OutboxInv

\* The end of a call, with its transaction or without.
LEMMA EndedIsSafe ==
  ASSUME OutboxInv, NEW f \in Flushers, Commit(f) \/ BreakOff(f)
  PROVE  OutboxInv'
PROOF
  <1>1. /\ flush' = [flush EXCEPT ![f] = Idle]
        /\ UNCHANGED <<noting, accepted, arrived, second>>
        /\ \/ outbox' = draft /\ draft' = Empty /\ locker' = Nothing /\ flush[f].at = "commit"
           \/ outbox' = outbox /\ draft' = Empty /\ locker' = Nothing /\ locker = f
           \/ UNCHANGED <<outbox, draft, locker>>
    BY DEF Commit, BreakOff
  <1>2. f # Nothing /\ (flush[f].at = "commit" => locker = f)
    BY OutboxAssumption DEF OutboxInv, BatchSound
  <1>3. Idle \in FlushCall /\ Idle.at = "idle" /\ Len(Idle.todo) = 0
    BY DEF Idle, FlushCall
  <1>4. FlushMoves(f, Idle)
    BY <1>1, <1>3 DEF FlushMoves
  <1>5. /\ outbox' \in OutboxTable /\ draft' \in OutboxTable
        /\ outbox' = outbox \/ (outbox' = draft /\ locker # Nothing)
        /\ locker' = Nothing \/ (locker' = locker /\ draft' = draft)
    BY <1>1, <1>2 DEF OutboxInv, OutboxTypeOK, Empty, OutboxTable
  <1>6. OutboxTypeOK /\ OutboxTypeOK'
    BY <1>1, <1>4, <1>5, MovedCalls DEF OutboxInv, OutboxTypeOK
  <1>7. OutboxGrows
    BY <1>1, <1>6, NothingGrows
  <1>8. ASSUME NEW g \in Flushers PROVE BatchSound(g)'
    <2>1. CASE g = f
      <3>1. flush'[f] = Idle
        BY <1>4, <1>6, MovedCalls
      <3> QED BY <1>3, <2>1, <3>1 DEF BatchSound
    <2>2. CASE g # f
      <3>1. flush'[g] = flush[g]
        BY <1>4, <1>6, <2>2, MovedCalls
      <3>2. flush[g].at = "commit" => locker = g
        BY DEF OutboxInv, BatchSound
      <3>3. flush[g].at = "commit" => locker' = locker
        BY <1>1, <1>2, <2>2, <3>2
      <3> QED BY <1>6, <1>7, <3>1, <3>3, CallStaysSound DEF OutboxInv
    <2> QED BY <2>1, <2>2
  <1>9. StampsInOrder'
    BY <1>1, <1>6, StampsStay DEF OutboxInv, OutboxTypeOK
  <1>10. TableCurrent(outbox)' /\ TableSafe(outbox)'
    BY <1>1, <1>5 DEF OutboxInv, TableCurrent, TableSafe, Undated
  <1>11. locker' # Nothing => TableCurrent(draft)' /\ TableSafe(draft)'
    BY <1>1, <1>5 DEF OutboxInv, TableCurrent, TableSafe, Undated
  <1> QED BY <1>6, <1>8, <1>9, <1>10, <1>11 DEF OutboxInv

\* The player and the clock.
LEMMA WorldKeepsOutbox ==
  ASSUME OutboxInv,
         (\E m \in Media : BeginNote(m)) \/ GiveUpNote \/ SecondPasses \/ UNCHANGED outboxVars
  PROVE  OutboxInv'
PROOF
  <1>1. /\ UNCHANGED <<outbox, draft, locker, flush, accepted, arrived>>
        /\ second' = second \/ second' = second + 1
        /\ \/ noting' = noting \/ noting' = Nothing
           \/ \E m \in Media : noting' = [of |-> m, stamp |-> second] /\ second' = second
    BY DEF BeginNote, GiveUpNote, SecondPasses, outboxVars
  <1>2. second \in Nat /\ second' \in Nat /\ second <= second'
    BY <1>1 DEF OutboxInv, OutboxTypeOK
  <1>3. noting' # Nothing => noting'.of \in Media /\ noting'.stamp \in Nat /\ noting'.stamp <= second'
    BY <1>1, <1>2 DEF OutboxInv, OutboxTypeOK
  <1>4. OutboxTypeOK /\ OutboxTypeOK'
    BY <1>1, <1>2, <1>3 DEF OutboxInv, OutboxTypeOK
  <1>5. StampsInOrder'
    BY <1>1, <1>2, <1>4, StampsStay DEF OutboxInv
  <1>6. OutboxGrows
    BY <1>1, <1>4, NothingGrows
  <1>7. ASSUME NEW g \in Flushers PROVE BatchSound(g)'
    BY <1>1, <1>4, <1>6, CallStaysSound DEF OutboxInv
  <1>8. /\ TableCurrent(outbox)' /\ TableSafe(outbox)'
        /\ locker' # Nothing => TableCurrent(draft)' /\ TableSafe(draft)'
    BY <1>1 DEF OutboxInv, TableCurrent, TableSafe, Undated
  <1> QED BY <1>4, <1>5, <1>7, <1>8 DEF OutboxInv

LEMMA OutboxInductive ==
  ASSUME OutboxInv, [TNext]_outboxVars
  PROVE  OutboxInv'
PROOF
  <1>1. CASE NoteEvent
    BY <1>1, NotedIsSafe
  <1>2. CASE (\E m \in Media : BeginNote(m)) \/ GiveUpNote \/ SecondPasses \/ UNCHANGED outboxVars
    BY <1>2, WorldKeepsOutbox
  <1>3. ASSUME NEW f \in Flushers, BeginFlush(f) PROVE OutboxInv'
    BY <1>3, BegunIsSound
  <1>4. ASSUME NEW f \in Flushers, Post(f) PROVE OutboxInv'
    BY <1>4, PostedIsSound
  <1>5. ASSUME NEW f \in Flushers, Record(f) PROVE OutboxInv'
    BY <1>5, RecordedIsSafe
  <1>6. ASSUME NEW f \in Flushers, Commit(f) \/ BreakOff(f) PROVE OutboxInv'
    BY <1>6, EndedIsSafe
  <1> QED BY <1>1, <1>2, <1>3, <1>4, <1>5, <1>6 DEF TNext

LEMMA OutboxBegins == ASSUME TInit PROVE OutboxInv
PROOF
  <1>1. /\ \A m \in Media : outbox[m] = Nothing /\ accepted[m] = <<>> /\ Len(accepted[m]) = 0
        /\ locker = Nothing /\ noting = Nothing
        /\ \A f \in Flushers : flush[f] = Idle
    BY DEF TInit, Empty
  <1>2. Idle \in FlushCall /\ Idle.at = "idle" /\ Len(Idle.todo) = 0
    BY DEF Idle, FlushCall
  <1>3. OutboxTypeOK
    BY <1>2 DEF TInit, Empty, OutboxTypeOK, OutboxTable
  <1>4. ASSUME NEW f \in Flushers PROVE BatchSound(f)
    BY <1>1, <1>2 DEF BatchSound
  <1> QED BY <1>1, <1>3, <1>4 DEF OutboxInv, StampsInOrder, TableCurrent, TableSafe

LEMMA OutboxInvMeans == OutboxInv => NewestReachesTrakt
PROOF BY DEF OutboxInv, TableCurrent, TableSafe, NewestReachesTrakt

\* The outbox's invariant holds throughout.
LEMMA OutboxInvariant == ServicesSpec => []OutboxInv
PROOF
  <1>1. ServicesInit => OutboxInv
    BY EveryServiceBegins, OutboxBegins
  <1>2. OutboxInv /\ [ServicesNext]_serviceVars => OutboxInv'
    BY OneServiceSteps, OutboxInductive
  <1> QED BY <1>1, <1>2, PTL DEF ServicesSpec

\* What was noted last about a title waits in the outbox or has been taken by
\* Trakt, unless it came within the second of the one before it
\* (enqueue_progress, flush), for any titles, calls of flush, limits and delays.
THEOREM NewestEventSurvives == ServicesSpec => []NewestReachesTrakt
PROOF BY OutboxInvariant, OutboxInvMeans, PTL

(* ------------------------------ Home input ----------------------------- *)
LEMMA ForgottenHolds ==
  ASSUME NEW keys
  PROVE  /\ DOMAIN Forgotten(keys) = DOMAIN held \ keys
         /\ \A k \in DOMAIN held \ keys : Forgotten(keys)[k] = held[k]
PROOF BY DEF Forgotten, Restrict

\* A release forgets some of the matching holds; of these, it leaves down at
\* most the one whose "up" the sink has refused.
LEMMA ReleasesForget ==
  ASSUME NEW matching, ReleaseMatching(matching)
  PROVE  \E gone \in SUBSET matching : \E refused \in SUBSET gone : Released(gone, refused)
PROOF
  <1>1. CASE Released(matching, {})
    BY <1>1
  <1>2. CASE \E gone \in SUBSET matching : \E refused \in gone : Released(gone, {refused})
    <2>1. PICK gone \in SUBSET matching : \E refused \in gone : Released(gone, {refused})
      BY <1>2
    <2>2. PICK refused \in gone : Released(gone, {refused})
      BY <2>1
    <2>3. {refused} \in SUBSET gone
      BY <2>2
    <2> QED BY <2>2, <2>3
  <1> QED BY <1>1, <1>2 DEF ReleaseMatching

\* The steps of the broker, and what each does to the holds.
LEMMA InputSteps ==
  ASSUME [XNext]_inputVars
  PROVE  \/ \E k \in Keys : Press(k)
         \/ \E k \in Keys : LetGo(k)
         \/ \E gone \in SUBSET DOMAIN held : \E refused \in SUBSET gone : Released(gone, refused)
         \/ HourPasses
         \/ UNCHANGED inputVars
PROOF
  <1>1. CASE ReleaseAll
    BY <1>1, ReleasesForget DEF ReleaseAll
  <1>2. CASE ReleaseExpired
    <2>1. DEFINE expired == {k \in DOMAIN held : hour - held[k] >= MaxHold}
    <2>2. ReleaseMatching(expired)
      BY <1>2 DEF ReleaseExpired
    <2>3. expired \subseteq DOMAIN held
      OBVIOUS
    <2> HIDE DEF expired
    <2>4. PICK gone \in SUBSET expired : \E refused \in SUBSET gone : Released(gone, refused)
      BY <2>2, ReleasesForget
    <2>5. gone \in SUBSET DOMAIN held
      BY <2>3, <2>4
    <2> QED BY <2>4, <2>5
  <1> QED BY <1>1, <1>2 DEF XNext

LEMMA DownInductive ==
  ASSUME DownIsHeld, [XNext]_inputVars
  PROVE  DownIsHeld'
PROOF
  <1> USE DEF DownIsHeld
  <1>1. ASSUME NEW k \in Keys, Press(k) PROVE DownIsHeld'
    <2>1. DOMAIN held' = DOMAIN held \cup {k}
      BY <1>1 DEF Press, Pressed
    <2> QED BY <1>1, <2>1 DEF Press
  <1>2. ASSUME NEW k \in Keys, LetGo(k) PROVE DownIsHeld'
    <2>1. DOMAIN held' = DOMAIN held \ {k}
      BY <1>2, ForgottenHolds DEF LetGo
    <2> QED BY <1>2, <2>1 DEF LetGo
  <1>3. ASSUME NEW gone \in SUBSET DOMAIN held, NEW refused \in SUBSET gone, Released(gone, refused)
        PROVE  DownIsHeld'
    <2>1. DOMAIN held' = DOMAIN held \ gone
      BY <1>3, ForgottenHolds DEF Released
    <2> QED BY <1>3, <2>1 DEF Released
  <1>4. CASE HourPasses
    BY <1>4 DEF HourPasses
  <1>5. CASE UNCHANGED inputVars
    BY <1>5 DEF inputVars
  <1> QED BY <1>1, <1>2, <1>3, <1>4, <1>5, InputSteps

LEMMA InputTypeInductive ==
  ASSUME InputTypeOK, [XNext]_inputVars
  PROVE  InputTypeOK'
PROOF
  <1> DEFINE Known == {k \in Keys : k[2] \in Mapped}
  <1>1. ASSUME NEW k \in Keys, Press(k) PROVE InputTypeOK'
    <2>1. held' = Pressed(k) /\ hour' = hour /\ k \in Known
      BY <1>1 DEF Press, Valid, Steady
    <2>2. DOMAIN held' = DOMAIN held \cup {k}
      BY <2>1 DEF Pressed
    <2>3. \A x \in DOMAIN held' : held'[x] = IF x = k THEN hour ELSE held[x]
      BY <2>1, <2>2 DEF Pressed
    <2>4. \A x \in DOMAIN held' : held'[x] \in 0..hour'
      BY <2>1, <2>2, <2>3, HomeInputAssumption DEF InputTypeOK
    <2>5. down' \subseteq Keys /\ dropped' \subseteq Keys
      BY <1>1 DEF Press, InputTypeOK
    <2> QED BY <2>1, <2>2, <2>4, <2>5 DEF InputTypeOK
  <1>2. ASSUME NEW k \in Keys, LetGo(k) PROVE InputTypeOK'
    <2>1. held' = Forgotten({k}) /\ hour' = hour
      BY <1>2 DEF LetGo, Steady
    <2>2. DOMAIN held' \subseteq DOMAIN held /\ \A x \in DOMAIN held' : held'[x] = held[x]
      BY <2>1, ForgottenHolds
    <2>3. down' \subseteq Keys /\ dropped' \subseteq Keys
      BY <1>2 DEF LetGo, InputTypeOK
    <2> QED BY <2>1, <2>2, <2>3 DEF InputTypeOK
  <1>3. ASSUME NEW gone \in SUBSET DOMAIN held, NEW refused \in SUBSET gone, Released(gone, refused)
        PROVE  InputTypeOK'
    <2>1. held' = Forgotten(gone) /\ hour' = hour
      BY <1>3 DEF Released, Steady
    <2>2. DOMAIN held' \subseteq DOMAIN held /\ \A x \in DOMAIN held' : held'[x] = held[x]
      BY <2>1, ForgottenHolds
    <2>3. down' \subseteq Keys /\ dropped' \subseteq Keys
      BY <1>3 DEF Released, InputTypeOK
    <2> QED BY <2>1, <2>2, <2>3 DEF InputTypeOK
  <1>4. CASE HourPasses
    <2>1. hour' \in 0..MaxNow /\ \A t \in 0..hour : t \in 0..hour'
      BY <1>4, HomeInputAssumption DEF HourPasses, InputTypeOK
    <2> QED BY <1>4, <2>1 DEF HourPasses, InputTypeOK
  <1>5. CASE UNCHANGED inputVars
    BY <1>5 DEF inputVars, InputTypeOK
  <1> QED BY <1>1, <1>2, <1>3, <1>4, <1>5, InputSteps

LEMMA InputTypeBegins == XInit => InputTypeOK /\ DownIsHeld
PROOF BY HomeInputAssumption DEF XInit, InputTypeOK, DownIsHeld

\* A button that is down for the sink is remembered, so that the next release
\* lets it go, whatever the sink refuses on the way (adaptive_remote.py,
\* dispatch and _release_matching).
THEOREM DownStaysHeld == ServicesSpec => []DownIsHeld
PROOF
  <1>1. ServicesInit => DownIsHeld
    BY EveryServiceBegins, InputTypeBegins
  <1>2. DownIsHeld /\ [ServicesNext]_serviceVars => DownIsHeld'
    BY OneServiceSteps, DownInductive
  <1> QED BY <1>1, <1>2, PTL DEF ServicesSpec

LEMMA InputTyped == ServicesSpec => []InputTypeOK
PROOF
  <1>1. ServicesInit => InputTypeOK
    BY EveryServiceBegins, InputTypeBegins
  <1>2. InputTypeOK /\ [ServicesNext]_serviceVars => InputTypeOK'
    BY OneServiceSteps, InputTypeInductive
  <1> QED BY <1>1, <1>2, PTL DEF ServicesSpec

(* -------------------------- All of the services ------------------------ *)
\* The state of every service stays well formed: what each of them counts stays
\* within its bounds, and what it points at exists.
THEOREM ServicesStayTyped == ServicesSpec => []ServicesTypeOK
PROOF
  <1>1. OutboxInv => OutboxTypeOK
    BY DEF OutboxInv
  <1>2. /\ GTypeOK /\ CacheTypeOK /\ MetadataTypeOK /\ DiscoveryTypeOK /\ MonitorTypeOK
        /\ InputTypeOK /\ DisplayTypeOK /\ SnapshotTypeOK /\ BootTypeOK /\ OutboxTypeOK
        => ServicesTypeOK
    BY DEF ServicesTypeOK
  <1> QED
    BY <1>1, <1>2, PageTyped, PosterTyped, MetadataTyped, DiscoveryTyped, MonitorInvariant,
       MonitorTypes, InputTyped, DisplayTyped, SnapshotTyped, BootTyped, OutboxInvariant, PTL
=============================================================================
