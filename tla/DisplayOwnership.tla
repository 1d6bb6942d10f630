-------------------------- MODULE DisplayOwnership --------------------------
(***************************************************************************)
(* Who owns the display (skeleton_media/home_edge/                         *)
(* media_display_ownership.py): before the visual saver starts, a probe    *)
(* asks the cast service for the mode, then, by the mode, for its player   *)
(* or adb for the Android media sessions, and decides OWNER, CLEAR or      *)
(* UNKNOWN.  The display may change hands between the two questions, and   *)
(* either may fail.                                                        *)
(*                                                                         *)
(* An answer is abstracted to the marks that the probe looks for in it.    *)
(* What is asked answers truly of its own player, with whichever of the    *)
(* marks its version has.                                                  *)
(***************************************************************************)
EXTENDS Naturals, FiniteSets

VARIABLES
  display,   \* the mode that the cast service has
  showing,   \* the player of that mode plays a video
  probe      \* step, mode and marks that were seen, the decision

displayVars == <<display, showing, probe>>

ModeOff == {"off"}
ModeForegroundOwner == {"games"}
ModeDesktopVideo == {"mpv", "vlc", "chrome", "kiosk"}
ModeAndroidVideo == {"youtube", "airscreen"}
ModeAndroidAmbiguous == {"android"}
KnownModes == ModeOff \cup ModeForegroundOwner \cup ModeDesktopVideo
              \cup ModeAndroidVideo \cup ModeAndroidAmbiguous
DisplayModes == KnownModes \cup {"new"}   \* one that this version does not know

Unprobed == [at |-> "off", mode |-> "none", marks |-> {}, state |-> "none", moved |-> FALSE]

OInit ==
  /\ display \in DisplayModes
  /\ showing \in BOOLEAN
  /\ probe = Unprobed

(* ------------------------ What answers can say ------------------------- *)
\* A payload of the player: whether it runs and is paused, or other markers of
\* playback at any depth, or none of these.
PlayerMarks ==
  {{"running", "unpaused"}, {"running", "paused"}, {"running"}, {"not running"}}
    \cup (SUBSET {"playing", "stopped"}) \cup {{"running", "playing"}, {"running", "stopped"}}

TruePlayer ==
  IF showing THEN {s \in PlayerMarks : s \cap {"not running", "paused"} = {} /\ ("stopped" \in s => "playing" \in s)}
  ELSE {s \in PlayerMarks : s \cap {"unpaused", "playing"} = {}}

\* A dump of the media sessions: those that play, those that do not, others
\* that are active.  A session that plays need not be a video's.
AndroidMarks == SUBSET {"session plays", "session rests", "session active"}
TrueAndroid == {s \in AndroidMarks : showing => "session plays" \in s}

(* --------------------------- The decision ------------------------------ *)
\* player_observation: the canonical fields, then the markers.
PlayerObservation(marks) ==
  IF marks \cap {"not running", "paused"} # {} THEN "CLEAR"
  ELSE IF "unpaused" \in marks \/ "playing" \in marks THEN "OWNER"
  ELSE IF "stopped" \in marks THEN "CLEAR" ELSE "UNKNOWN"

\* Mutant of AndroidObservation: a session that rests is looked for first.
AndroidObservationRest(marks, video) ==
  IF "session rests" \in marks \/ "session active" \notin marks THEN "CLEAR"
  ELSE IF "session plays" \in marks /\ video THEN "OWNER" ELSE "UNKNOWN"

\* android_media_observation: any session that plays comes first.
AndroidObservation(marks, video) ==
  IF "session plays" \in marks THEN (IF video THEN "OWNER" ELSE "UNKNOWN")
  ELSE IF "session rests" \in marks \/ "session active" \notin marks THEN "CLEAR"
  ELSE "UNKNOWN"

\* decide_from_snapshots
Decision(mode, marks) ==
  CASE mode \in ModeForegroundOwner -> "OWNER"
    [] mode \in ModeOff -> "CLEAR"
    [] mode \in ModeDesktopVideo -> PlayerObservation(marks)
    [] mode \in ModeAndroidVideo -> AndroidObservation(marks, TRUE)
    [] mode \in ModeAndroidAmbiguous -> AndroidObservation(marks, FALSE)
    [] OTHER -> "UNKNOWN"   \* mode_unresolved

Decides(mode, marks, state) ==
  probe' = [probe EXCEPT !.at = "decided", !.mode = mode, !.marks = marks, !.state = state]
Still == UNCHANGED <<display, showing>>

(* ----------------------------- The probe ------------------------------- *)
\* live_decision: the mode is asked for first.
AskMode ==
  /\ probe.at = "off"
  /\ IF display \in ModeDesktopVideo \cup ModeAndroidVideo \cup ModeAndroidAmbiguous
       THEN probe' = [Unprobed EXCEPT !.at = "second", !.mode = display]
       ELSE Decides(display, {}, Decision(display, {}))
  /\ Still

\* Without the mode nothing else is asked.
AskModeFails == probe.at = "off" /\ Decides("none", {}, "UNKNOWN") /\ Still

\* The player of the mode that was seen: it may not be the display's any more.
AskPlayerStatus ==
  /\ probe.at = "second" /\ probe.mode \in ModeDesktopVideo
  /\ \E marks \in IF display \in ModeDesktopVideo THEN TruePlayer ELSE PlayerMarks :
       Decides(probe.mode, marks, Decision(probe.mode, marks))
  /\ Still

AskAndroid ==
  /\ probe.at = "second" /\ probe.mode \in ModeAndroidVideo \cup ModeAndroidAmbiguous
  /\ \E marks \in IF display \in ModeAndroidVideo \cup ModeAndroidAmbiguous
                    THEN TrueAndroid ELSE AndroidMarks :
       Decides(probe.mode, marks, Decision(probe.mode, marks))
  /\ Still

\* No answer, one that is no JSON, no adb or no serial number.
AskSecondFails == probe.at = "second" /\ Decides(probe.mode, {}, "UNKNOWN") /\ Still

EndProbe == probe.at = "decided" /\ probe' = Unprobed /\ Still

\* The display changes hands, or its player starts or stops.
DisplayChanges ==
  /\ probe.at # "decided"
  /\ display' \in DisplayModes /\ showing' \in BOOLEAN
  /\ probe' = [probe EXCEPT !.moved = probe.at = "second" /\ (@ \/ display' # display)]

ONext ==
  \/ AskMode \/ AskModeFails \/ AskPlayerStatus \/ AskAndroid \/ AskSecondFails
  \/ EndProbe \/ DisplayChanges

DisplayTypeOK ==
  /\ display \in DisplayModes /\ showing \in BOOLEAN
  /\ probe.state \in {"none", "OWNER", "CLEAR", "UNKNOWN"}
  /\ probe.state # "none" <=> probe.at = "decided"

\* While the display stays with one mode, the probe is never wrong, whatever
\* starts or stops in between and whichever marks the answers have: CLEAR, on
\* which the saver starts, is not decided while a video of that mode or a game
\* is on, nor OWNER while nothing is (decide_from_snapshots).  A change of the
\* mode between the two questions, in either direction, does make it wrong.
DecisionIsTrue ==
  probe.at = "decided" /\ ~probe.moved =>
    /\ probe.state = "CLEAR" =>
         display \notin ModeForegroundOwner /\ (showing => display \in ModeOff)
    /\ probe.state = "OWNER" => display \in ModeForegroundOwner \/ showing
                                \/ display \in ModeAndroidVideo
=============================================================================
