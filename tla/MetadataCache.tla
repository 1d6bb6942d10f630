--------------------------- MODULE MetadataCache ---------------------------
(***************************************************************************)
(* The five metadata caches of skeleton_media/cast/media_discovery.py:     *)
(* translations, seasons, ratings, details of a work, and its TMDB page.   *)
(* Each is one JSON file.  A lookup reads the whole of it, asks the        *)
(* network when its row will not do, and writes the whole of it back       *)
(* through a temporary file that all lookups share; no lock is held.  A    *)
(* file that cannot be read counts as empty, and is written back with the  *)
(* new row alone.                                                          *)
(*                                                                         *)
(* A row is the set of what it holds: "row" for itself, and the parts that *)
(* make it complete.  Its age is a free choice of the reader, since any    *)
(* time may have passed.                                                   *)
(***************************************************************************)
EXTENDS Naturals, FiniteSets

CONSTANTS
  Lookers,   \* requests that look something up
  Titles,     \* the keys of the file
  Parts      \* what a complete row holds

VARIABLES
  cache,       \* which of the caches it is
  json,        \* content of the "cache" file and of its "tmp" file
  looker,      \* of each lookup: step, work, its copy of the file, whether
               \* its read has failed, open file
  ever,        \* of each work: what a published row of it has ever held, since
               \* a lookup whose read had failed has published; forgotten when
               \* lookups have overlapped
  overlapping  \* two lookups have been past their read at a time

metadataVars == <<cache, json, looker, ever, overlapping>>

Caches == {"translations", "seasons", "ui", "details", "ratings"}
Rows == {{}} \cup {{"row"} \cup S : S \in SUBSET Parts}
NoRows == [k \in Titles |-> {}]
Absent == [is |-> "absent", rows |-> NoRows]
HalfWritten == [is |-> "torn", rows |-> NoRows]
Holding(rows) == [is |-> "json", rows |-> rows]
Unasked == [at |-> "idle", work |-> CHOOSE k \in Titles : TRUE, copy |-> NoRows,
            blind |-> FALSE, fd |-> "none", mixed |-> FALSE]

KInit ==
  /\ cache \in Caches
  /\ json = [p \in {"cache", "tmp"} |-> Absent]
  /\ looker = [l \in Lookers |-> Unasked]
  /\ ever = NoRows
  /\ overlapping = FALSE

Leaves(l) == looker' = [looker EXCEPT ![l] = Unasked]

(* ------------------------- The row will do ----------------------------- *)
\* _local_translate_uk: a translation does at any age.
TranslationServes(row) == row # {}

\* tmdb_season_metadata: a fresh row with episodes, unless forced.
SeasonServes(row, fresh, force) == Parts \subseteq row /\ row # {} /\ fresh /\ ~force

\* tmdb_ui_metadata: a fresh row.
UiServes(row, fresh) == row # {} /\ fresh

\* tmdb_work_details: a fresh row with a running time.
DetailsServe(row, fresh) == row # {} /\ fresh /\ Parts \subseteq row

\* media_ratings_metadata: a fresh row with every rating.
RatingsServe(row, fresh) == row # {} /\ fresh /\ Parts \subseteq row

Serves(row, fresh, force) ==
  CASE cache = "translations" -> TranslationServes(row)
    [] cache = "seasons" -> SeasonServes(row, fresh, force)
    [] cache = "ui" -> UiServes(row, fresh)
    [] cache = "details" -> DetailsServe(row, fresh)
    [] cache = "ratings" -> RatingsServe(row, fresh)

\* The file is read, or fails to be, and the row will not do, so the network is
\* asked.  (When the row does, or the request may not use the network, nothing
\* changes.)
LookUp(l, k) ==
  /\ looker[l].at = "idle"
  /\ \E failed \in BOOLEAN :
       LET rows == IF failed THEN NoRows ELSE json["cache"].rows IN
       /\ \E fresh, force \in BOOLEAN : ~Serves(rows[k], fresh, force)
       /\ looker' = [looker EXCEPT ![l] =
            [Unasked EXCEPT !.at = "fetch", !.work = k, !.copy = rows, !.blind = failed]]
  /\ overlapping' = (overlapping \/ \E m \in Lookers \ {l} : looker[m].at # "idle")
  /\ ever' = IF overlapping' THEN NoRows ELSE ever
  /\ UNCHANGED <<cache, json>>

(* --------------------------- The new row ------------------------------- *)
\* A translation is stored only when its quality is good.
NewTranslation == {{"row"} \cup Parts}

\* A season replaces the row, also when its page lists no episode.
NewSeason(got) == {"row"} \cup got

\* The page's rating and IMDb number, as far as it shows them.
NewUi(got) == {"row"} \cup got

\* Details replace the row: what this page does not show is forgotten.
NewDetails(got) == {"row"} \cup got

\* Ratings are added to the row; of four sources each may fail unnoticed.
NewRatings(row, got) == row \cup {"row"} \cup got

NewRowOf(row) ==
  CASE cache = "translations" -> NewTranslation
    [] cache = "seasons" -> {NewSeason(got) : got \in SUBSET Parts}
    [] cache = "ui" -> {NewUi(got) : got \in SUBSET Parts}
    [] cache = "details" -> {NewDetails(got) : got \in SUBSET Parts}
    [] cache = "ratings" -> {NewRatings(row, got) : got \in SUBSET Parts}

Fetch(l) ==
  /\ looker[l].at = "fetch"
  /\ \E row \in NewRowOf(looker[l].copy[looker[l].work]) :
       looker' = [looker EXCEPT ![l].at = "write", ![l].copy[looker[l].work] = row,
                                ![l].work = Unasked.work]
  /\ UNCHANGED <<cache, json, ever, overlapping>>

\* The old row is the answer; a translation that fails answers nothing.  The
\* ratings' sources never fail the lookup.
FetchFails(l) ==
  /\ looker[l].at = "fetch" /\ cache # "ratings"
  /\ Leaves(l)
  /\ UNCHANGED <<cache, json, ever, overlapping>>

(* ------------------------- The file is written ------------------------- *)
Writers(p) == {l \in Lookers : looker[l].fd = p}

Truncated(l, p) ==
  /\ looker[l].at = "write"
  /\ json' = [json EXCEPT ![p] = HalfWritten]
  /\ looker' = [m \in Lookers |->
       IF m = l THEN [looker[l] EXCEPT !.at = "writing", !.fd = p, !.mixed = Writers(p) # {}]
       ELSE IF m \in Writers(p) THEN [looker[m] EXCEPT !.mixed = TRUE] ELSE looker[m]]
  /\ UNCHANGED <<cache, ever, overlapping>>

\* Mutant of TruncateTmp: the cache is written in place.
TruncateInPlace(l) == Truncated(l, "cache")

\* write_text truncates the shared temporary file ...
TruncateTmp(l) == Truncated(l, "tmp")

\* ... and fills it; what two write at a time may end as a mixture.
Fill(l) ==
  /\ looker[l].at = "writing"
  /\ LET p == looker[l].fd IN
       IF p = "gone" THEN UNCHANGED json
       ELSE \E now \in {Holding(looker[l].copy)} \cup (IF looker[l].mixed THEN {HalfWritten} ELSE {}) :
              json' = [json EXCEPT ![p] = now]
  /\ looker' = [looker EXCEPT ![l].at = "replace", ![l].fd = "none", ![l].mixed = FALSE,
                                   ![l].copy = NoRows]
  /\ UNCHANGED <<cache, ever, overlapping>>

\* A full disk, and whatever else makes a step of the writing raise: the lookup
\* answers the old row (that of the ratings raises) and leaves the temporary file.
WriteFails(l) ==
  /\ looker[l].at \in {"write", "writing", "replace"}
  /\ Leaves(l)
  /\ UNCHANGED <<cache, json, ever, overlapping>>

\* os.replace: a file still open elsewhere goes along with its writer; when
\* another lookup has renamed the file already, there is none and it raises.
Publish(l) ==
  /\ looker[l].at = "replace"
  /\ IF json["tmp"].is = "absent" THEN Leaves(l) /\ UNCHANGED <<json, ever>>
     ELSE /\ json' = [json EXCEPT !["cache"] = json["tmp"], !["tmp"] = Absent]
          /\ ever' = IF overlapping THEN NoRows ELSE [k \in Titles |->
                       (IF looker[l].blind THEN {} ELSE ever[k]) \cup json["tmp"].rows[k]]
          /\ looker' = [m \in Lookers |->
               IF m = l THEN Unasked
               ELSE IF looker[m].fd = "tmp" THEN [looker[m] EXCEPT !.fd = "cache"]
               ELSE IF looker[m].fd = "cache" THEN [looker[m] EXCEPT !.fd = "gone"] ELSE looker[m]]
  /\ UNCHANGED <<cache, overlapping>>

\* The process is restarted: its lookups end where they are.
RestartLookups ==
  /\ \E l \in Lookers : looker[l].at # "idle"
  /\ looker' = [l \in Lookers |-> Unasked]
  /\ UNCHANGED <<cache, json, ever, overlapping>>

KNext ==
  \/ RestartLookups
  \/ \E l \in Lookers :
       \/ \E k \in Titles : LookUp(l, k)
       \/ Fetch(l) \/ FetchFails(l) \/ TruncateTmp(l) \/ Fill(l) \/ WriteFails(l) \/ Publish(l)

MetadataTypeOK ==
  /\ cache \in Caches
  /\ \A p \in DOMAIN json : json[p].is \in {"absent", "torn", "json"} /\ json[p].rows \in [Titles -> Rows]
  /\ \A l \in Lookers :
       /\ looker[l].copy \in [Titles -> Rows]
       /\ looker[l].at = "writing" <=> looker[l].fd # "none"

\* As long as no two lookups of a file overlap, it is never half written, and
\* only a lookup that could not read it loses what it has told of: no row
\* disappears otherwise, and ratings never get poorer, whatever fails and whenever
\* the process is restarted.  (One that could not read it publishes its row alone;
\* overlapping lookups lose rows as well, and may spoil the file: nothing locks it.)
RecordsKept ==
  ~overlapping =>
    /\ json["cache"].is # "torn"
    /\ \A k \in Titles :
         /\ "row" \in ever[k] => "row" \in json["cache"].rows[k]
         /\ cache = "ratings" => ever[k] \subseteq json["cache"].rows[k]
=============================================================================
