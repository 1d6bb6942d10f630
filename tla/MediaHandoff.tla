---------------------------- MODULE MediaHandoff ----------------------------
(***************************************************************************)
(* Moving playback between the TV box and the Samsung receiver             *)
(* (ops/skeleton_cast/runtime/app.py): a capture (the "charge") names what *)
(* an endpoint plays; a hand-off starts it at the other endpoint, waits    *)
(* until that endpoint is seen to play it, pauses the source and makes the *)
(* destination the target.  A resume from the history starts a source at   *)
(* the receiver and waits for nothing.                                     *)
(*                                                                         *)
(* Requests run in threads of their own, without a lock.  The desired      *)
(* state of the receiver is written through one temporary file, which all  *)
(* of them share: a replace publishes what another request has written to  *)
(* it, or raises because another one has moved it away.                    *)
(*                                                                         *)
(* The receiver is a page on another device.  It polls the desired state   *)
(* and posts its status, and a post may be on its way while the desired    *)
(* state changes.  A status tells a revision, a mode and whether it plays, *)
(* never the title: the verification takes the title from the desired      *)
(* state.  Of a YouTube clip only the revision and the mode are asked.     *)
(*                                                                         *)
(* Positions are left out, and a source stands for the streams of one      *)
(* title among which adapt_source chooses.  Of media_target.json only the  *)
(* charge is here, nothing in a hand-off asks for the selected endpoint; it*)
(* and the status are read and written in one step, and a write to a       *)
(* temporary file is one step.                                             *)
(***************************************************************************)
EXTENDS Naturals

CONSTANTS
  Movers,      \* requests that move or resume a source
  Sources,     \* the sources that can play
  Clips,       \* those of YouTube
  NoSource,
  MaxRevision, \* bound: revisions of the desired state
  MaxMoves     \* bound: hand-offs and resumes of a behaviour

ASSUME HandoffAssumption ==
  /\ Clips \subseteq Sources /\ NoSource \notin Sources
  /\ MaxRevision \in Nat /\ MaxMoves \in Nat

VARIABLES
  charge,    \* the capture in media_target.json, or NoCharge
  tv,        \* what the TV box has loaded, and whether it plays
  desired,   \* the desired state of the receiver
  scratch,   \* the temporary file of the desired state, NoDesire when there is none
  receiver,  \* what the receiver has applied
  post,      \* a status on its way from the receiver, or NoPost
  status,    \* the status file
  mpc,       \* where each request is
  cap,       \* the capture it moves
  draft,     \* the desired state it has made, and waits for
  moves,
  shown,     \* history: every revision and source the receiver has applied
  top,       \* history: the highest revision that was ever desired
  alone      \* history: since the request chose a revision nobody had used
             \* before, no other request has written the desired state

deviceVars == <<tv, receiver, post, status, shown>>
desireVars == <<desired, scratch, top, alone>>
moverVars == <<mpc, cap, draft, moves>>
mediaVars == <<charge, deviceVars, desireVars, moverVars>>

Endpoints == {"tv", "samsung"}
Words == {"yes", "no", "unknown"}
Actions == {"play", "pause"}
NoCharge == [from |-> "none", source |-> NoSource, playing |-> FALSE, paused |-> FALSE]
Charges == [from: Endpoints, source: Sources, playing: BOOLEAN, paused: BOOLEAN]
NoPost == [rev |-> 0, clip |-> FALSE, playing |-> "unknown"]
NoDesire == [rev |-> 0, source |-> NoSource, action |-> "play"]
Greater(a, b) == IF a > b THEN a ELSE b

MInit ==
  /\ charge = NoCharge
  /\ \E s \in Sources : tv = [source |-> s, playing |-> TRUE]
  /\ desired = NoDesire /\ scratch = NoDesire
  /\ receiver = [rev |-> 0, source |-> NoSource, playing |-> FALSE]
  /\ post = NoPost /\ status = NoPost
  /\ mpc = [m \in Movers |-> "rest"]
  /\ cap = [m \in Movers |-> NoCharge]
  /\ draft = [m \in Movers |-> NoDesire]
  /\ moves = 0
  /\ shown = {} /\ top = 0
  /\ alone = [m \in Movers |-> FALSE]

MGoto(m, phase) == mpc' = [mpc EXCEPT ![m] = phase]
Rest(m) ==
  /\ MGoto(m, "rest")
  /\ cap' = [cap EXCEPT ![m] = NoCharge]
  /\ draft' = [draft EXCEPT ![m] = NoDesire]

Move == moves < MaxMoves /\ moves' = moves + 1

\* _charge_media_capture: what the endpoint plays; of the receiver, what the
\* status says, and failing that the desired state, which alone tells a pause.
Capture ==
  /\ \/ charge' = [from |-> "tv", source |-> tv.source,
                    playing |-> tv.playing, paused |-> ~tv.playing]
     \/ /\ desired.source # NoSource
        /\ charge' = [from |-> "samsung", source |-> desired.source,
                      playing |-> IF status.playing = "unknown" THEN desired.action = "play"
                                  ELSE status.playing = "yes",
                      paused |-> desired.action = "pause"]
  /\ UNCHANGED <<deviceVars, desireVars, moverVars>>

\* _handoff_capture_to_endpoint; at its own source the charge is let go.
LetGo ==
  /\ charge # NoCharge
  /\ charge' = NoCharge
  /\ UNCHANGED <<deviceVars, desireVars, moverVars>>

Handoff(m) ==
  /\ mpc[m] = "rest" /\ charge # NoCharge
  /\ Move
  /\ cap' = [cap EXCEPT ![m] = charge]
  /\ MGoto(m, IF charge.from = "tv" THEN "revise" ELSE "play")
  /\ UNCHANGED <<charge, deviceVars, desireVars, draft>>

\* _history_resume at the receiver; one at the TV box is a Zap.
Resume(m) ==
  /\ mpc[m] = "rest"
  /\ Move
  /\ \E s \in Sources : cap' = [cap EXCEPT ![m] = [NoCharge EXCEPT !.source = s]]
  /\ MGoto(m, "revise")
  /\ UNCHANGED <<charge, deviceVars, desireVars, draft>>

\* _next_samsung_revision, from two files; one that cannot be read counts as 0.
Revise(m) ==
  /\ mpc[m] = "revise"
  /\ \E d \in {desired.rev, 0}, s \in {status.rev, 0} :
       LET next == Greater(d, s) + 1
       IN /\ next <= MaxRevision
          /\ draft' = [draft EXCEPT ![m] =
                         [rev |-> next, source |-> cap[m].source, action |-> "play"]]
          /\ alone' = [alone EXCEPT ![m] = next > top]
  /\ MGoto(m, "write")
  /\ UNCHANGED <<charge, deviceVars, desired, scratch, top, cap, moves>>

\* Whoever writes disturbs the others.
Disturb(m) == alone' = [n \in Movers |-> alone[n] /\ n = m]

\* _atomic: the temporary file, ...
WriteDraft(m, from, to) ==
  /\ mpc[m] = from
  /\ scratch' = draft[m]
  /\ Disturb(m)
  /\ MGoto(m, to)
  /\ UNCHANGED <<charge, deviceVars, desired, top, cap, draft, moves>>

\* ... and its replacing, which raises when the file has gone.
ReplaceDesired(m) ==
  /\ mpc[m] \in {"replace", "quieten"}
  /\ scratch # NoDesire
  /\ desired' = scratch
  /\ scratch' = NoDesire
  /\ top' = Greater(top, scratch.rev)
  /\ Disturb(m)
  /\ IF cap[m].from = "none" THEN Rest(m)
     ELSE /\ MGoto(m, IF mpc[m] = "quieten" THEN "settle"
                      ELSE IF cap[m].paused /\ draft[m].action = "play" THEN "hold"
                      ELSE "await")
          /\ UNCHANGED <<cap, draft>>
  /\ UNCHANGED <<charge, deviceVars, moves>>

\* _write_samsung_action('pause'): another action of the revision that is
\* desired now, for a capture that is paused, or for a source that was playing.
Hold(m) ==
  /\ mpc[m] \in {"hold", "hush"}
  /\ desired # NoDesire
  /\ draft' = [draft EXCEPT ![m] = [desired EXCEPT !.action = "pause"]]
  /\ MGoto(m, IF mpc[m] = "hold" THEN "write" ELSE "overwrite")
  /\ UNCHANGED <<charge, deviceVars, desireVars, cap, moves>>

\* Mutant of Verified.
VerifiedByPlaying(m) ==
  /\ desired.source = draft[m].source
  /\ status.playing = (IF draft[m].action = "pause" THEN "no" ELSE "yes")

\* _receiver_acknowledged, and _destination_verified
Verified(m) ==
  /\ status.rev >= draft[m].rev
  /\ \/ draft[m].source \in Clips /\ status.clip
     \/ /\ desired.source = draft[m].source
        /\ status.playing = (IF draft[m].action = "pause" THEN "no" ELSE "yes")

Await(m) ==
  /\ mpc[m] = "await"
  /\ Verified(m)
  /\ MGoto(m, "quiet")
  /\ UNCHANGED <<charge, deviceVars, desireVars, cap, draft, moves>>

\* The TV box plays the source, at the position and paused as captured, ...
PlayOnTv(m) ==
  /\ mpc[m] = "play"
  /\ tv' = [source |-> cap[m].source, playing |-> ~cap[m].paused]
  /\ MGoto(m, "watch")
  /\ UNCHANGED <<charge, receiver, post, status, shown, desireVars, cap, draft, moves>>

\* ... and is seen to do so.
Watch(m) ==
  /\ mpc[m] = "watch"
  /\ tv = [source |-> cap[m].source, playing |-> ~cap[m].paused]
  /\ MGoto(m, "quiet")
  /\ UNCHANGED <<charge, deviceVars, desireVars, cap, draft, moves>>

\* A wait times out, or a step raises: the request fails and nothing is undone.
GiveUp(m) ==
  /\ mpc[m] # "rest"
  /\ Rest(m)
  /\ alone' = [alone EXCEPT ![m] = FALSE]
  /\ UNCHANGED <<charge, deviceVars, desired, scratch, top, moves>>

\* pause_source_after_move: what was playing is paused.
Quiet(m) ==
  /\ mpc[m] = "quiet"
  /\ tv' = IF cap[m].playing /\ cap[m].from = "tv"
           THEN [tv EXCEPT !.playing = FALSE] ELSE tv
  /\ MGoto(m, IF cap[m].playing /\ cap[m].from = "samsung" THEN "hush" ELSE "settle")
  /\ UNCHANGED <<charge, receiver, post, status, shown, desireVars, cap, draft, moves>>

Settle(m) ==
  /\ mpc[m] = "settle"
  /\ charge' = NoCharge
  /\ Rest(m)
  /\ alone' = [alone EXCEPT ![m] = FALSE]
  /\ UNCHANGED <<deviceVars, desired, scratch, top, moves>>

\* The receiver polls the desired state and applies what is new in it.
Poll ==
  /\ desired # NoDesire
  /\ receiver' = [rev |-> desired.rev,
                  source |-> IF desired.rev # receiver.rev THEN desired.source
                             ELSE receiver.source,
                  playing |-> desired.action = "play"]
  /\ shown' = shown \cup {<<receiver'.rev, receiver'.source>>}
  /\ UNCHANGED <<charge, tv, post, status, desireVars, moverVars>>

\* It sends its status: whether it plays, other fields of the playback without
\* that ("same"), or none of them; the last one it sends may overtake an earlier
\* one that is lost.
Send ==
  /\ \E word \in {IF receiver.playing THEN "yes" ELSE "no", "same", "unknown"} :
       post' = [rev |-> receiver.rev, clip |-> receiver.source \in Clips, playing |-> word]
  /\ UNCHANGED <<charge, tv, receiver, status, shown, desireVars, moverVars>>

\* samsung_status_post: what the post leaves out is kept from the previous status,
\* unless the revision is another one and no field of the playback is told.
Receive ==
  /\ post # NoPost
  /\ \E clip \in {post.clip, status.clip} :
       status' = [rev |-> post.rev, clip |-> clip,
                  playing |-> IF post.playing = "same"
                                 \/ (post.playing = "unknown" /\ post.rev = status.rev)
                              THEN status.playing ELSE post.playing]
  /\ post' = NoPost
  /\ UNCHANGED <<charge, tv, receiver, shown, desireVars, moverVars>>

\* Somebody plays another source at the TV box.
Zap ==
  /\ \E s \in Sources : tv' = [source |-> s, playing |-> TRUE]
  /\ UNCHANGED <<charge, receiver, post, status, shown, desireVars, moverVars>>

MoverStep(m) ==
  \/ Handoff(m) \/ Resume(m) \/ Revise(m)
  \/ WriteDraft(m, "write", "replace") \/ WriteDraft(m, "overwrite", "quieten")
  \/ ReplaceDesired(m) \/ Hold(m) \/ Await(m) \/ GiveUp(m)
  \/ PlayOnTv(m) \/ Watch(m) \/ Quiet(m) \/ Settle(m)

MNext ==
  \/ \E m \in Movers : MoverStep(m)
  \/ Capture \/ LetGo \/ Poll \/ Send \/ Receive \/ Zap

MPhases == {"rest", "revise", "write", "replace", "hold", "await", "play", "watch",
            "quiet", "hush", "overwrite", "quieten", "settle"}
Wishes == [rev: 0..MaxRevision, source: Sources \cup {NoSource}, action: Actions]

MTypeOK ==
  /\ charge \in Charges \cup {NoCharge}
  /\ tv \in [source: Sources, playing: BOOLEAN]
  /\ {desired, scratch} \subseteq Wishes
  /\ post \in [rev: 0..MaxRevision, clip: BOOLEAN, playing: Words \cup {"same"}]
  /\ status \in [rev: 0..MaxRevision, clip: BOOLEAN, playing: Words]
  /\ mpc \in [Movers -> MPhases]
  /\ draft \in [Movers -> Wishes]
  /\ alone \in [Movers -> BOOLEAN]
  /\ moves \in 0..MaxMoves /\ top \in 0..MaxRevision

\* A hand-off to the receiver pauses its source only after the receiver has
\* applied this very revision with this very source, in spite of late and
\* partial posts of earlier revisions; one that fails before leaves the source
\* playing.  It holds as long as no other hand-off and no resume writes the
\* desired state meanwhile, and the revision is a new one: no lock keeps them
\* apart, two may choose one revision, or publish one another's wishes, and
\* then a source is paused whose place was never taken over (app.py,
\* _wait_for_samsung_postcondition and _handoff_capture_to_endpoint).
MovedBeforePaused ==
  \A m \in Movers :
    mpc[m] = "quiet" /\ cap[m].from = "tv" /\ alone[m]
    => <<draft[m].rev, cap[m].source>> \in shown
=============================================================================
