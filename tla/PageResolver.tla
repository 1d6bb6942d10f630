---------------------------- MODULE PageResolver ----------------------------
(***************************************************************************)
(* Resolving a page into streams (skeleton_media/cast/resolver.py).        *)
(* discover fetches a page by curl, by a browser and by a mirror and reads *)
(* player targets off it; resolve_page asks every target in a pool.  The   *)
(* protected origin (anitube) is left alone while a cooldown mark, a file  *)
(* with an expiry, is in force.                                            *)
(*                                                                         *)
(* A page's text, its targets and their streams are abstracted to what was *)
(* found; the sites, the mirror and the players are external and answer as *)
(* they like.  Time passes in units of the cooldown's fractions.           *)
(***************************************************************************)
EXTENDS Naturals, FiniteSets

CONSTANTS
  Pages,         \* requests to resolve a page, one after another each
  Targets,       \* player targets a page can have
  PlayerOf,      \* of each target: "cinemar", "zenith", "ashdi" or "other"
  Streams,       \* what players can name
  Private,       \* those of them that are not public addresses
  StreamKey,     \* of each stream: its (url, group, episode)
  Cooldown,      \* ANITUBE_COOLDOWN_SECONDS, in ticks
  MaxClock       \* bound: ticks

ASSUME PageAssumption ==
  Cooldown \in Nat \ {0} /\ MaxClock \in Nat /\ DOMAIN PlayerOf = Targets
  /\ Private \subseteq Streams /\ DOMAIN StreamKey = Streams

VARIABLES
  clock,
  mark,      \* expiry in the cooldown file; 0: there is no file
  newest,    \* expiry of the mark that was written last
  page       \* of each request: where it is and what it has

pageVars == <<clock, mark, newest, page>>

Reading == {"read", "readRendered", "readMirrored"}

Fresh == [at |-> "idle", site |-> "other", warned |-> FALSE, touched |-> FALSE,
          noted |-> 0, next |-> "idle", seen |-> FALSE,
          todo |-> {}, gave |-> {}, answer |-> {}]

GInit ==
  /\ clock = 0 /\ mark = 0 /\ newest = 0
  /\ page = [r \in Pages |-> Fresh]

At(r, point) == page[r].at = point
Origin(r) == page[r].site = "anitube"
Change(r, fields) ==
  page' = [page EXCEPT ![r] = [f \in DOMAIN @ |-> IF f \in DOMAIN fields THEN fields[f] ELSE @[f]]]
Unmarked == UNCHANGED <<clock, mark, newest>>

\* Where discover goes on with a text, without one, and behind a hard block.
\* _curl_text swallows the block that its browser or its mirror has met.
OnText == [curl |-> "read", browser |-> "read", mirror |-> "read",
           render |-> "readRendered", again |-> "readMirrored"]
OnFailure == [curl |-> "browser", browser |-> "mirror", mirror |-> "render",
              render |-> "again", again |-> "embeds",
              read |-> "render", readRendered |-> "again", readMirrored |-> "embeds"]
OnBlock == [browser |-> "mirror", mirror |-> "render",
            render |-> "protected", again |-> "protected"]

\* Other sites have the one attempt of _curl_text.
Continue(r, point) == IF ~Origin(r) /\ point = "render" THEN "failed" ELSE point

Open(r) ==
  /\ At(r, "idle")
  /\ \/ Change(r, [at |-> "cooldown", site |-> "anitube"])
     \/ Change(r, [at |-> "curl", site |-> "other"])
  /\ Unmarked

\* Mutant of CheckCooldown: the expired file is read, and unlinked in a later
\* step, without the lock across.
CheckCooldownUnlocked(r) ==
  \/ /\ At(r, "cooldown")
     /\ Change(r, [at |-> IF mark > clock THEN "protected" ELSE "unlink",
                   warned |-> clock < newest])
     /\ Unmarked
  \/ /\ At(r, "unlink")
     /\ mark' = 0
     /\ Change(r, [at |-> "curl"])
     /\ UNCHANGED <<clock, newest>>

\* _anitube_cooldown_remaining: reads, compares and unlinks under its lock.
CheckCooldown(r) ==
  /\ At(r, "cooldown")
  /\ IF mark > clock
       THEN Change(r, [at |-> "protected", warned |-> clock < newest]) /\ UNCHANGED mark
       ELSE Change(r, [at |-> "curl", warned |-> clock < newest]) /\ mark' = 0
  /\ UNCHANGED <<clock, newest>>

\* Every address of the host by curl.  A TimeoutExpired leaves _curl_text.
Curl(r) ==
  /\ At(r, "curl")
  /\ \/ Change(r, [at |-> OnText.curl, seen |-> TRUE, touched |-> Origin(r)])
     \/ \E point \in {OnFailure.curl, Continue(r, "render")} :
          Change(r, [at |-> point, touched |-> Origin(r)])
  /\ Unmarked

\* What a fetch that knows a hard block ends in.
Fetched(r, touched) ==
  LET here == page[r].at
  IN \/ Change(r, [at |-> OnText[here], seen |-> TRUE, touched |-> touched])
     \/ Change(r, [at |-> Continue(r, OnFailure[here]), touched |-> touched])
     \/ Change(r, [at |-> "marking", next |-> Continue(r, OnBlock[here]),
                   noted |-> clock, touched |-> touched])

\* _chrome_text; discover treats a challenge in its own attempt as a block.
Browse(r) == page[r].at \in {"browser", "render"} /\ Fetched(r, Origin(r)) /\ Unmarked

\* _public_html_mirror
AskMirror(r) == page[r].at \in {"mirror", "again"} /\ Fetched(r, page[r].touched) /\ Unmarked

\* _mark_anitube_origin_protected: the time was taken before the lock.
Mark(r) ==
  /\ At(r, "marking")
  /\ mark' = page[r].noted + Cooldown
  /\ newest' = mark'
  /\ Change(r, [at |-> page[r].next, next |-> "idle", noted |-> 0])
  /\ UNCHANGED clock

\* _playlist_targets: the list is in the page, or the site is asked for it.
ReadPlaylist(r) ==
  /\ page[r].at \in Reading
  /\ \E asked \in BOOLEAN, found \in SUBSET Targets :
       LET touched == page[r].touched \/ (Origin(r) /\ asked)
       IN IF found # {}
            THEN Change(r, [at |-> "pool", todo |-> found, touched |-> touched])
            ELSE Change(r, [at |-> IF Origin(r) THEN OnFailure[page[r].at] ELSE "embeds",
                            touched |-> touched])
  /\ Unmarked

\* _generic_embed_scan of the last page seen; another site's page is a target
\* itself when it embeds nothing.
ScanEmbeds(r) ==
  /\ At(r, "embeds")
  /\ \/ \E found \in (SUBSET Targets) \ {{}} :
          page[r].seen /\ Change(r, [at |-> "pool", todo |-> found])
     \/ Origin(r) /\ Change(r, [at |-> "failed"])
  /\ Unmarked

\* What the players' pages give, of the items they list; a page that gives
\* nothing, or cannot be had, is an error.  Ashdi's manifest is all or nothing.
CinemarStreams(items) == items \ Private
ZenithStreams(items) == items \ Private
AshdiStreams(items) == IF items \cap Private = {} THEN items ELSE {}

\* yt-dlp, twice, and last the address itself when it is a file.
YtDlpStreams(first, second) == IF first # {} THEN first ELSE second

Gives(t, items, second) ==
  CASE PlayerOf[t] = "cinemar" -> CinemarStreams(items)
    [] PlayerOf[t] = "zenith" -> ZenithStreams(items)
    [] PlayerOf[t] = "ashdi" -> AshdiStreams(items)
    [] OTHER -> YtDlpStreams(items, second)

Key(streams) == {StreamKey[x] : x \in streams}

\* _decode_cinemar_payload, _balanced_json_value: what a page can be decoded to.
Listed == SUBSET Streams

Answers(t) == {Gives(t, items, second) : items, second \in Listed}

\* _resolve_one in a thread of the pool: a player's error is an answer, too.
AskPlayer(r, t) ==
  /\ At(r, "pool") /\ t \in page[r].todo
  /\ \E streams \in Answers(t) :
       Change(r, [todo |-> page[r].todo \ {t}, gave |-> page[r].gave \cup streams])
  /\ Unmarked

\* A player's page comes by _curl_text: its browser or its mirror may note a hard
\* block, with the time from before the lock, and go on.
PlayerBlocked(r, t) ==
  /\ At(r, "pool") /\ t \in page[r].todo /\ PlayerOf[t] # "other"
  /\ \E seen \in 0..clock : mark' = seen + Cooldown
  /\ newest' = mark'
  /\ UNCHANGED <<clock, page>>

\* Of the streams with one key the one that came last stays: any of them.
Deduplicated(streams) ==
  {s \in SUBSET streams : Key(s) = Key(streams) /\ Cardinality(s) = Cardinality(Key(s))}

\* resolve_page, when every future has completed.
Answer(r) ==
  /\ At(r, "pool") /\ page[r].todo = {}
  /\ \E streams \in Deduplicated(page[r].gave) :
       Change(r, [at |-> IF streams = {} THEN "failed" ELSE "answered", answer |-> streams])
  /\ Unmarked

OpenAgain(r) ==
  /\ page[r].at \in {"protected", "failed", "answered"}
  /\ page' = [page EXCEPT ![r] = Fresh]
  /\ Unmarked

Tick == clock < MaxClock /\ clock' = clock + 1 /\ UNCHANGED <<mark, newest, page>>

GNext ==
  \/ Tick
  \/ \E r \in Pages :
       \/ Open(r) \/ CheckCooldown(r) \/ Curl(r) \/ Browse(r) \/ AskMirror(r) \/ Mark(r) \/ ReadPlaylist(r)
       \/ ScanEmbeds(r) \/ Answer(r) \/ OpenAgain(r)
       \/ \E t \in Targets : AskPlayer(r, t) \/ PlayerBlocked(r, t)

GTypeOK ==
  /\ clock \in 0..MaxClock
  /\ {mark, newest} \subseteq 0..(MaxClock + Cooldown)
  /\ \A r \in Pages :
       /\ page[r].touched => page[r].site = "anitube"
       /\ page[r].answer \subseteq page[r].gave
       /\ page[r].gave \subseteq Streams /\ page[r].todo \subseteq Targets

\* A request that comes to the cooldown while the last block the service has
\* noted is in force never asks the origin, whatever other requests find, note
\* or clear away at the same time (resolver.py, _anitube_cooldown_remaining,
\* discover).
ProtectedLeftAlone == \A r \in Pages : page[r].warned => ~page[r].touched
=============================================================================
