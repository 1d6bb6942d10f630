---------------------------- MODULE RemotePointer ----------------------------
(***************************************************************************)
(* Dragging with the remote's touch pad                                    *)
(* (ops/skeleton_cast/runtime/app.py): the phone holds the pointer's       *)
(* button by drag_start and lets it go by drag_end.  A timer, renewed by   *)
(* every move, lets it go when the phone has fallen silent.                *)
(*                                                                         *)
(* A pointer request runs under the pointer lock from beginning to end, so *)
(* it is one step.  The callback of a timer takes the lock to forget the   *)
(* drag, and sends the "up" when it has given the lock back.  A timer      *)
(* whose callback already waits for the lock cannot be cancelled any more. *)
(*                                                                         *)
(* The pointer broker is external: it does what it is told, or the call    *)
(* fails, with or without effect.                                          *)
(***************************************************************************)
EXTENDS Naturals

CONSTANTS
  Timers,        \* bound: timers there can be at a time
  NoTimer,
  MaxGestures,   \* bound: requests of the phone
  MaxOutages     \* bound: failing calls of the broker

ASSUME PointerAssumption ==
  NoTimer \notin Timers /\ MaxGestures \in Nat /\ MaxOutages \in Nat

VARIABLES
  button,    \* the button as the broker holds it: "up" or "down"
  dragging,  \* _REMOTE_DRAG_MODE is set
  timer,     \* _REMOTE_DRAG_TIMER
  phase,     \* of each timer: "none", "armed", "fired" or "releasing"
  gestures,
  outages,
  stuck      \* a broker call failed after the button last went up

pointerVars == <<button, dragging, timer, phase, gestures, outages, stuck>>

DInit ==
  /\ button = "up"
  /\ dragging = FALSE
  /\ timer = NoTimer
  /\ phase = [x \in Timers |-> "none"]
  /\ gestures = 0
  /\ outages = 0
  /\ stuck = FALSE

Gesture == gestures < MaxGestures /\ gestures' = gestures + 1

Outage ==
  /\ outages < MaxOutages
  /\ outages' = outages + 1
  /\ stuck' = TRUE

\* _cancel_drag_timer: only a timer that has not fired is stopped.
Cancelled ==
  [x \in Timers |-> IF x = timer /\ phase[x] = "armed" THEN "none" ELSE phase[x]]

\* Mutant of ArmTimer.
ArmTimerOnce ==
  /\ dragging' = TRUE
  /\ IF timer # NoTimer THEN UNCHANGED timer /\ phase' = Cancelled
     ELSE \E x \in Timers : /\ Cancelled[x] = "none"
                            /\ timer' = x
                            /\ phase' = [Cancelled EXCEPT ![x] = "armed"]

\* _arm_drag_timer
ArmTimer ==
  /\ dragging' = TRUE
  /\ \E x \in Timers : /\ Cancelled[x] = "none"
                       /\ timer' = x
                       /\ phase' = [Cancelled EXCEPT ![x] = "armed"]

DragStart ==
  /\ Gesture
  /\ ArmTimer
  /\ button' = "down"
  /\ UNCHANGED <<outages, stuck>>

\* The "up" before it or the "down" fails: no timer is armed.
DragStartFails ==
  /\ Gesture /\ Outage
  /\ button' \in IF dragging THEN {"up", "down"} ELSE {button, "down"}
  /\ UNCHANGED <<dragging, timer, phase>>

DragMove ==
  /\ Gesture
  /\ IF dragging THEN ArmTimer ELSE UNCHANGED <<dragging, timer, phase>>
  /\ UNCHANGED <<button, outages, stuck>>

\* The broker fails before the timer is renewed.
DragMoveFails ==
  /\ Gesture /\ Outage
  /\ UNCHANGED <<button, dragging, timer, phase>>

\* A tap is a press and a release of the same button.
Tap ==
  /\ Gesture
  /\ button' = "up"
  /\ UNCHANGED <<dragging, timer, phase, outages, stuck>>

DragEnd ==
  /\ Gesture
  /\ phase' = Cancelled /\ timer' = NoTimer
  /\ button' = "up"
  /\ dragging' = FALSE
  /\ stuck' = FALSE
  /\ UNCHANGED outages

\* The timer is cancelled first; when the "up" fails, the drag stays on.
DragEndFails ==
  /\ Gesture /\ Outage
  /\ phase' = Cancelled /\ timer' = NoTimer
  /\ button' \in {button, "up"}
  /\ UNCHANGED dragging

Fire(x) ==
  /\ phase[x] = "armed"
  /\ phase' = [phase EXCEPT ![x] = "fired"]
  /\ UNCHANGED <<button, dragging, timer, gestures, outages, stuck>>

\* _force_desktop_drag_release, under the lock: whatever drag is on is
\* forgotten, be it a later one than the timer's ...
Forget(x) ==
  /\ phase[x] = "fired"
  /\ phase' = [phase EXCEPT ![x] = IF dragging THEN "releasing" ELSE "none"]
  /\ dragging' = FALSE
  /\ timer' = NoTimer
  /\ UNCHANGED <<button, gestures, outages, stuck>>

\* ... and the button goes up; an error is swallowed.
Release(x) ==
  /\ phase[x] = "releasing"
  /\ phase' = [phase EXCEPT ![x] = "none"]
  /\ \/ button' = "up" /\ UNCHANGED <<outages, stuck>>
     \/ Outage /\ UNCHANGED button
  /\ UNCHANGED <<dragging, timer, gestures>>

DNext ==
  \/ DragStart \/ DragStartFails \/ DragMove \/ DragMoveFails \/ Tap
  \/ DragEnd \/ DragEndFails
  \/ \E x \in Timers : Fire(x) \/ Forget(x) \/ Release(x)

DTypeOK ==
  /\ button \in {"up", "down"}
  /\ dragging \in BOOLEAN /\ stuck \in BOOLEAN
  /\ timer \in Timers \cup {NoTimer}
  /\ phase \in [Timers -> {"none", "armed", "fired", "releasing"}]

\* A button that a drag holds is let go some day although the phone never says
\* so, whatever timers fire late, unless a call of the broker has failed
\* (app.py, _arm_drag_timer and _force_desktop_drag_release).
HeldButtonReleased == button = "down" ~> button = "up" \/ stuck
=============================================================================
