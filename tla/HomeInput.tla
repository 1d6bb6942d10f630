----------------------------- MODULE HomeInput -----------------------------
(***************************************************************************)
(* The home input broker (skeleton_media/home_edge/adaptive_remote.py).    *)
(* Buttons of the phone's remote and gamepad go down, up or are tapped;    *)
(* the broker remembers what is held, so that it can send the "up" of it   *)
(* when the phone loses its focus or is silent for MAX_HOLD_SECONDS.       *)
(*                                                                         *)
(* A call runs from beginning to end without another.  The sink it sends   *)
(* to may raise, and has then not taken the command: the call ends there,  *)
(* with what it has changed.  A release goes through the holds in the      *)
(* order of the dictionary; the model allows every order, which no         *)
(* property tells apart.                                                   *)
(***************************************************************************)
EXTENDS Naturals, Functions

CONSTANTS
  Buttons,   \* of each interface, its allowed buttons
  Mapped,    \* the buttons that BROKER_MAPPING knows
  Pointers,  \* fingers
  MaxHold,   \* MAX_HOLD_SECONDS, in ticks
  MaxNow     \* bound: ticks of the clock

ASSUME HomeInputAssumption == MaxHold \in Nat \ {0} /\ MaxNow \in Nat

VARIABLES
  held,     \* active_holds: of each key that is held, the time of its press
  down,     \* the keys that are down for the sink
  dropped,  \* keys whose last "up" or "tap" the sink has refused
  hour      \* the clock

inputVars == <<held, down, dropped, hour>>

\* A hold is of a button of an interface under one pointer.
Keys == UNION {{<<i, b, p>> : b \in Buttons[i], p \in Pointers} : i \in DOMAIN Buttons}

\* Mutant of Valid.
ValidUnmapped(k) == k \in Keys

\* _validate_event: the interface's own buttons, and a mapping for them.
Valid(k) == k \in Keys /\ k[2] \in Mapped

XInit ==
  /\ held = [k \in {} |-> 0] /\ down = {} /\ dropped = {}
  /\ hour = 0

Steady == UNCHANGED hour

\* A dictionary after a key is set, and after keys are popped.
Pressed(k) == [x \in DOMAIN held \cup {k} |-> IF x = k THEN hour ELSE held[x]]
Forgotten(keys) == Restrict(held, DOMAIN held \ keys)

\* dispatch of a "down": the hold is noted first, then sent.
Press(k) ==
  /\ Valid(k)
  /\ held' = Pressed(k)
  /\ \/ down' = down \cup {k} /\ dropped' = dropped \ {k}
     \/ UNCHANGED <<down, dropped>>
  /\ Steady

\* dispatch of an "up" or a "tap": the hold is forgotten first, then sent.
LetGo(k) ==
  /\ Valid(k)
  /\ held' = Forgotten({k})
  /\ \/ down' = down \ {k} /\ dropped' = dropped \ {k}
     \/ UNCHANGED down /\ dropped' = dropped \cup {k}
  /\ Steady

\* These holds are forgotten, each before its "up" is sent.
Released(gone, refused) ==
  /\ held' = Forgotten(gone)
  /\ down' = down \ (gone \ refused)
  /\ dropped' = (dropped \ gone) \cup refused
  /\ Steady

\* Mutant of ReleaseMatching: all matching holds are forgotten before the first
\* is sent.
ReleaseMatchingAtOnce(matching) ==
  \/ Released(matching, {})
  \/ \E sent \in SUBSET matching : \E refused \in matching \ sent :
       /\ held' = Forgotten(matching)
       /\ down' = down \ sent
       /\ dropped' = (dropped \ sent) \cup {refused}
       /\ Steady

\* _release_matching: one after the other, to the end or to the one at which the
\* sink raises; those behind it stay for the next release.
ReleaseMatching(matching) ==
  \/ Released(matching, {})
  \/ \E gone \in SUBSET matching : \E refused \in gone : Released(gone, {refused})

ReleaseAll == ReleaseMatching(DOMAIN held)
ReleaseExpired == ReleaseMatching({k \in DOMAIN held : hour - held[k] >= MaxHold})

HourPasses ==
  /\ hour < MaxNow
  /\ hour' = hour + 1
  /\ UNCHANGED <<held, down, dropped>>

XNext ==
  \/ \E k \in Keys : Press(k) \/ LetGo(k)
  \/ ReleaseAll \/ ReleaseExpired \/ HourPasses

\* A release looks up the action of every hold: each has one.
InputTypeOK ==
  /\ hour \in 0..MaxNow
  /\ down \subseteq Keys /\ dropped \subseteq Keys
  /\ DOMAIN held \subseteq {k \in Keys : k[2] \in Mapped}
  /\ \A k \in DOMAIN held : held[k] \in 0..hour

\* A button that is down for the sink is held, so that the next release lets
\* it go, unless the sink has refused the very "up" of it: one refusal in the
\* middle of a release does not leave the others down for ever
\* (_release_matching), and no finger's "up" takes another finger's hold along.
DownIsHeld == down \subseteq DOMAIN held \cup dropped
=============================================================================
