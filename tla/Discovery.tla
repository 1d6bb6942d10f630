------------------------------ MODULE Discovery ------------------------------
(***************************************************************************)
(* Finding pages that show a work (skeleton_media/cast/media_discovery.py).*)
(* A discovery of a job records what became of it in the ledger, one row   *)
(* per job; a row "no_verified_sources" spares others of the same work the *)
(* search while it is recent, a row "ready" and a ready job give them      *)
(* candidates.  Discoveries of the work overlap freely, those of one job   *)
(* included.                                                               *)
(*                                                                         *)
(* The paid index is part of every search and never gives anything: its    *)
(* booking reads a clock that the module does not import and raises, and   *)
(* the search swallows the error (see PaidIndex).                          *)
(*                                                                         *)
(* All jobs are of one work.  The caller, which saves the job it gave to   *)
(* discover, the search engines and the sites are external; scores and     *)
(* matching of titles are abstracted to which pages pass.                  *)
(***************************************************************************)
EXTENDS Naturals, FiniteSets

CONSTANTS
  Hunters,        \* threads that run a discovery
  Works,          \* jobs of the work
  Candidate,      \* pages that may show it
  NegativeTtl,    \* NEGATIVE_CACHE_SECONDS, in ticks
  TriedPages,     \* candidates that are resolved: 6, or 4 for a film
  MaxTicks        \* bound

ASSUME DiscoveryAssumption == {NegativeTtl, TriedPages, MaxTicks} \subseteq Nat

NoPage == "no page"
NoWork == "no work"

\* What stands for no page is the address of none.
ASSUME PageAddresses == NoPage \notin Candidate

VARIABLES
  ticks,
  row,        \* ledger row of each job: status, page and time
  ready,      \* of each job: the page its saved streams are of
  hunt,       \* of each thread: its discovery; force: a search is asked for,
              \* and none has been made yet
  barren      \* when a discovery came to nothing by itself last; none: MaxTicks + 1

discoveryVars == <<ticks, row, ready, hunt, barren>>

NoHunt == [at |-> "idle", job |-> NoWork, force |-> FALSE, season |-> FALSE,
           found |-> {}, tries |-> TriedPages, page |-> NoPage, sound |-> TRUE]

VInit ==
  /\ ticks = 0
  /\ row = [d \in Works |-> [status |-> "none", page |-> NoPage, at |-> 0]]
  /\ ready = [d \in Works |-> NoPage]
  /\ hunt = [h \in Hunters |-> NoHunt]
  /\ barren = MaxTicks + 1

Is(h, point) == hunt[h].at = point
Set(h, fields) ==
  hunt' = [hunt EXCEPT ![h] = [f \in DOMAIN @ |-> IF f \in DOMAIN fields THEN fields[f] ELSE @[f]]]
LedgerKept == UNCHANGED <<row, barren>>

\* _persist: the upsert of the job's row.
Persist(d, status, page) ==
  row' = [row EXCEPT ![d] = [status |-> status, page |-> page,
                             at |-> IF status = "no_verified_sources" THEN ticks ELSE 0]]

\* discover begins: the row of the job starts anew.  The caller may have saved
\* the job as searching, and asks for one season or for the whole work.
Identify(h) ==
  /\ Is(h, "idle")
  /\ \E d \in Works, force, season \in BOOLEAN, begun \in {"kept", "searching"} :
       /\ hunt' = [hunt EXCEPT ![h] = [NoHunt EXCEPT !.at = "negative", !.job = d,
                                                     !.force = force, !.season = season]]
       /\ ready' = [ready EXCEPT ![d] = IF begun = "kept" THEN @ ELSE NoPage]
       /\ Persist(d, "identified", NoPage)
  /\ UNCHANGED <<ticks, barren>>

\* _recent_negative: the last negative row of the work.
RecentNegative ==
  \E d \in Works : row[d].status = "no_verified_sources" /\ ticks - row[d].at < NegativeTtl

\* A negative answer is sound when a discovery came to nothing within the time.
Sound == barren <= MaxTicks /\ ticks - barren < NegativeTtl

\* Mutant of AnswerNegative: what the ledger answered is recorded like a search.
AnswerNegativeRecorded(h) ==
  /\ ~hunt[h].force /\ RecentNegative
  /\ Set(h, [at |-> "nothing", sound |-> Sound, season |-> FALSE])
  /\ Persist(hunt[h].job, "no_verified_sources", NoPage)
  /\ UNCHANGED barren

\* discover returns before candidates: the row stays "identified".
AnswerNegative(h) ==
  /\ ~hunt[h].force /\ RecentNegative
  /\ Set(h, [at |-> "nothing", sound |-> Sound, season |-> FALSE])
  /\ LedgerKept

\* _candidate_from_job, _meta_matches_job: what the ready jobs of the work show.
ReadyPages == {ready[d] : d \in Works} \ {NoPage}

\* _cached_verified_candidates: of ready jobs and of ready rows; what the
\* history knows (_history_candidates) are ready jobs, too.
Verified == ReadyPages \cup {row[d].page : d \in {x \in Works : row[x].status = "ready"}}

\* _candidate_content_compatible, _strong_title_identity: of what a search
\* gives, any pages may pass for the work.
Passing == SUBSET Candidate

\* _candidate_season: of the pages any may be of the season that is asked for.
OfSeason(h, pages) == IF hunt[h].season THEN SUBSET pages ELSE {pages}

\* Pages the history or the cache vouches for end the search before it begins;
\* those of another season are dropped afterwards, which may leave none.
UseVerified(h) ==
  /\ ~hunt[h].force
  /\ \E vouched \in (SUBSET Verified) \ {{}} : \E kept \in OfSeason(h, vouched) :
       Set(h, [at |-> "resolve", found |-> kept, season |-> FALSE])
  /\ LedgerKept

\* A search starts from the history.  A read of the ledger that fails is the
\* answer that there is nothing in it.
BeginSearch(h) ==
  /\ \E history \in SUBSET ReadyPages : Set(h, [at |-> "search", found |-> history])
  /\ LedgerKept

Consult(h) ==
  /\ Is(h, "negative")
  /\ AnswerNegative(h) \/ UseVerified(h) \/ BeginSearch(h)
  /\ UNCHANGED <<ticks, ready>>

\* _uakino_search, rendered by a browser when the site is shielded, and
\* _indexed_site_search, which is free: an error gives no pages.
SiteSearch == Passing
FreeIndex == Passing

\* _brave_search, _brave_domain_search, _availability_search: with a key each of
\* them books its request first, and _brave_budget_reserve raises a NameError
\* before anything is booked or sent; without a key there is nothing to ask.
PaidIndex == {{}}

\* The indexes and the site's own search; a season asked for leaves those of
\* the pages that are of it.
Gather(h) ==
  /\ Is(h, "search")
  /\ \E paid \in PaidIndex, site \in SiteSearch, index \in FreeIndex :
       \E kept \in OfSeason(h, hunt[h].found \cup paid \cup site \cup index) :
         Set(h, [at |-> "resolve", found |-> kept, force |-> FALSE, season |-> FALSE])
  /\ LedgerKept /\ UNCHANGED <<ticks, ready>>

\* _resolve_candidate: a ready job of the page is reused without the network;
\* else the resolver is asked, and no source of the work may be left.
Outcomes(p) == IF p \in ReadyPages THEN {"reused", "resolved", "none"} ELSE {"resolved", "none"}

\* The candidates in their order, the selected one and its show first.
ResolvePage(h) ==
  /\ Is(h, "resolve") /\ hunt[h].tries > 0
  /\ \E p \in hunt[h].found : \E outcome \in Outcomes(p) :
       \/ /\ outcome # "none"
          /\ Set(h, [at |-> "found", page |-> p, found |-> {}, tries |-> TriedPages])
          /\ Persist(hunt[h].job, "ready", p)
       \/ /\ outcome = "none"
          /\ Set(h, [found |-> hunt[h].found \ {p}, tries |-> hunt[h].tries - 1])
          /\ UNCHANGED row
  /\ UNCHANGED <<ticks, ready, barren>>

\* No page passed, or none of those that were tried gave a source.
ComeToNothing(h) ==
  /\ Is(h, "resolve") /\ (hunt[h].found = {} \/ hunt[h].tries = 0)
  /\ barren' = ticks
  /\ Persist(hunt[h].job, "no_verified_sources", NoPage)
  /\ Set(h, [at |-> "nothing", found |-> {}, tries |-> TriedPages])
  /\ UNCHANGED <<ticks, ready>>

\* The caller saves the job with its streams.
SaveReady(h) ==
  /\ Is(h, "found")
  /\ ready' = [ready EXCEPT ![hunt[h].job] = hunt[h].page]
  /\ hunt' = [hunt EXCEPT ![h] = NoHunt]
  /\ LedgerKept /\ UNCHANGED ticks

\* Or as one that has none.
SaveNothing(h) ==
  /\ Is(h, "nothing")
  /\ ready' = [ready EXCEPT ![hunt[h].job] = NoPage]
  /\ hunt' = [hunt EXCEPT ![h] = NoHunt]
  /\ LedgerKept /\ UNCHANGED ticks

\* A step raises, such as a _persist that finds the database locked, or the
\* process is killed; what is in the database and the jobs stays.
HuntBreaks(h) ==
  /\ ~Is(h, "idle")
  /\ hunt' = [hunt EXCEPT ![h] = NoHunt]
  /\ LedgerKept /\ UNCHANGED <<ticks, ready>>

TimePasses ==
  /\ ticks < MaxTicks /\ ticks' = ticks + 1
  /\ UNCHANGED <<row, ready, hunt, barren>>

VNext ==
  \/ TimePasses
  \/ \E h \in Hunters :
       \/ Identify(h) \/ Consult(h) \/ Gather(h) \/ ResolvePage(h)
       \/ ComeToNothing(h) \/ SaveReady(h) \/ SaveNothing(h) \/ HuntBreaks(h)

DiscoveryTypeOK ==
  /\ ready \in [Works -> Candidate \cup {NoPage}]
  /\ \A d \in Works : row[d].status = "ready" <=> row[d].page # NoPage

\* "No verified sources" is only answered while another discovery of the work
\* that came to nothing by itself is recent: an answer out of the ledger does not
\* itself keep the ledger's word alive, however discoveries of one work or of one
\* job overlap.  By itself a discovery comes to nothing when a search finds no
\* page, when none of the pages gives a source, or, without any search, when all
\* pages the cache vouches for are of another season than the one asked for.  A
\* forced discovery says so only after a search of its own
\* (media_discovery.py, _recent_negative, candidates, discover).
NegativeIsFresh ==
  \A h \in Hunters : Is(h, "nothing") => hunt[h].sound /\ ~hunt[h].force
=============================================================================
