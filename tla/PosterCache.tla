----------------------------- MODULE PosterCache -----------------------------
(***************************************************************************)
(* The cache of posters (skeleton_media/cast/resolver.py).  Requests that  *)
(* show one picture download it into one temporary file, named after the   *)
(* picture and shared by them all, normalize it through a second such file *)
(* and rename the result into the cache, where it is served for ever.      *)
(*                                                                         *)
(* A file's content is whole, spoiled (cut short), or in the making: then  *)
(* it is the name of the worker that truncated it last.  A worker goes on  *)
(* writing to the file it opened, wherever that is renamed to.  The bytes  *)
(* of a picture are the same in every download.                            *)
(***************************************************************************)
EXTENDS Naturals, FiniteSets

CONSTANTS
  Workers,       \* requests of the one picture, as strings
  Candidates,    \* bound: addresses of its host, or thumbnails of the video
  MaxCrashes     \* bound: restarts of the process

ASSUME PosterAssumption ==
  /\ Workers \cap {"absent", "whole", "spoiled"} = {}
  /\ Candidates \in Nat \ {0} /\ MaxCrashes \in Nat

VARIABLES
  kind,      \* "page" picture, or "youtube" thumbnail
  file,      \* content of "temp", "scratch", "raw" and "canonical"
  worker,    \* of each request: step, file it writes, candidates left
  shared,    \* two requests have been at the picture at a time
  broken,    \* a download or a save has failed, or the process was restarted
  crashes

posterVars == <<kind, file, worker, shared, broken, crashes>>

Places == {"temp", "scratch", "raw", "canonical"}
Cached == {"raw", "canonical"}
Resting == [at |-> "idle", fd |-> "none", from |-> "temp", left |-> Candidates]

CInit ==
  /\ kind \in {"page", "youtube"}
  /\ file = [p \in Places |-> "absent"]
  /\ worker = [w \in Workers |-> Resting]
  /\ shared = FALSE /\ broken = FALSE /\ crashes = 0

There(p) == file[p] # "absent"
Cut(p) == file[p] \in Workers \cup {"spoiled"}

\* A file cut short may be too small to be taken for a picture.
LooksGood(p, small) == There(p) /\ ~(small /\ Cut(p))

Step(w, at) == worker' = [worker EXCEPT ![w].at = at]
Same == UNCHANGED <<kind, shared, broken, crashes>>

\* The files of other workers' descriptors when p is renamed to q, or unlinked.
Renamed(w, p, q) ==
  [v \in Workers |->
    [worker[v] EXCEPT !.fd = IF @ = p THEN q ELSE IF @ = q THEN "gone" ELSE @]]

\* _cache_poster, _cache_youtube_poster: what is there is taken as it is.
Look(w) ==
  /\ worker[w].at = "idle"
  /\ \E small \in BOOLEAN :
       worker' = [worker EXCEPT ![w] =
         [Resting EXCEPT !.at =
            IF LooksGood("canonical", small) THEN "served"
            ELSE IF kind = "page" /\ LooksGood("raw", small) THEN "open" ELSE "download",
          !.from = IF kind = "page" /\ LooksGood("raw", small) THEN "raw" ELSE "temp"]]
  /\ shared' = (shared \/ \E v \in Workers \ {w} : worker[v].at \notin {"idle", "served"})
  /\ UNCHANGED <<kind, file, broken, crashes>>

\* curl -o, write_bytes and Image.save truncate the file that has the name.
Truncate(w, p, at) ==
  /\ file' = [file EXCEPT ![p] = w]
  /\ worker' = [worker EXCEPT ![w].at = at, ![w].fd = p]
  /\ Same

\* The writer has written all of it, or gives up: what others have truncated
\* meanwhile is not its own any more.
Finish(w, as) ==
  file' = [p \in Places |-> IF worker[w].fd = p /\ file[p] = w THEN as ELSE file[p]]

Download(w) ==
  /\ worker[w].at = "download"
  /\ IF worker[w].left = 0 THEN Step(w, "served") /\ UNCHANGED file /\ Same
     ELSE Truncate(w, "temp", "writing")

\* The host refuses: nothing has been written.
Refused(w) ==
  /\ worker[w].at = "download" /\ worker[w].left > 0
  /\ Step(w, "discard")
  /\ broken' = TRUE
  /\ UNCHANGED <<kind, file, shared, crashes>>

Downloaded(w) ==
  /\ worker[w].at = "writing"
  /\ Finish(w, "whole")
  /\ worker' = [worker EXCEPT ![w].at = "inspect", ![w].fd = "none"]
  /\ Same

\* Mutant of DownloadFails: curl's return code is not looked at.
DownloadFailsUnseen(w) ==
  /\ worker[w].at = "writing"
  /\ Finish(w, "spoiled")
  /\ worker' = [worker EXCEPT ![w].at = "inspect", ![w].fd = "none"]
  /\ broken' = TRUE
  /\ UNCHANGED <<kind, shared, crashes>>

DownloadFails(w) ==
  /\ worker[w].at = "writing"
  /\ Finish(w, "spoiled")
  /\ worker' = [worker EXCEPT ![w].at = "discard", ![w].fd = "none"]
  /\ broken' = TRUE
  /\ UNCHANGED <<kind, shared, crashes>>

\* temp.unlink: whosever it is by now.
Discard(w) ==
  /\ worker[w].at = "discard"
  /\ file' = [file EXCEPT !["temp"] = "absent"]
  /\ worker' = [Renamed(w, "temp", "gone") EXCEPT
                  ![w].at = "download", ![w].left = @ - 1]
  /\ Same

\* The size and the head of the temporary file; the thumbnail is probed.
Inspect(w) ==
  /\ worker[w].at = "inspect"
  /\ \E small \in BOOLEAN : Step(w, IF LooksGood("temp", small) THEN "open" ELSE "discard")
  /\ UNCHANGED file /\ Same

\* _normalize_poster, _normalize_youtube_poster: only a whole picture can be
\* decoded.
OpenPicture(w) ==
  /\ worker[w].at = "open"
  /\ \E small \in BOOLEAN :
       IF LooksGood("canonical", small) THEN Step(w, "clean")
       ELSE file[worker[w].from] = "whole" /\ Step(w, "decoded")
  /\ UNCHANGED file /\ Same

\* Not every picture can be decoded: the scratch file is unlinked, whosever it is.
OpenFails(w) ==
  /\ worker[w].at = "open"
  /\ \E small \in BOOLEAN : ~LooksGood("canonical", small)
  /\ file' = [file EXCEPT !["scratch"] = "absent"]
  /\ worker' = [Renamed(w, "scratch", "gone") EXCEPT ![w].at = "keep"]
  /\ Same

Save(w) == worker[w].at = "decoded" /\ Truncate(w, "scratch", "saving")

Saved(w) ==
  /\ worker[w].at = "saving"
  /\ Finish(w, "whole")
  /\ worker' = [worker EXCEPT ![w].at = "saved", ![w].fd = "none"]
  /\ Same

\* The save raises (a full disk): the scratch file is unlinked.
SaveFails(w) ==
  /\ worker[w].at = "saving"
  /\ file' = [p \in Places |->
                IF p = "scratch" THEN "absent"
                ELSE IF worker[w].fd = p /\ file[p] = w THEN "spoiled" ELSE file[p]]
  /\ worker' = [Renamed(w, "scratch", "gone") EXCEPT ![w].at = "keep", ![w].fd = "none"]
  /\ broken' = TRUE
  /\ UNCHANGED <<kind, shared, crashes>>

\* os.replace(temp, final); the scratch file may have been renamed by another.
PublishCanonical(w) ==
  /\ worker[w].at = "saved"
  /\ IF There("scratch")
       THEN /\ file' = [file EXCEPT !["canonical"] = file["scratch"], !["scratch"] = "absent"]
            /\ worker' = [Renamed(w, "scratch", "canonical") EXCEPT ![w].at = "clean"]
       ELSE Step(w, "keep") /\ UNCHANGED file
  /\ Same

\* The normalized picture is there: the download is removed.
Clean(w) ==
  /\ worker[w].at = "clean"
  /\ IF worker[w].from = "temp"
       THEN /\ file' = [file EXCEPT !["temp"] = "absent"]
            /\ worker' = [Renamed(w, "temp", "gone") EXCEPT ![w].at = "served"]
       ELSE Step(w, "served") /\ UNCHANGED file
  /\ Same

\* It cannot be normalized: the download itself goes into the cache, or the
\* rename finds no file and raises.  A thumbnail is given up.
KeepRaw(w) ==
  /\ worker[w].at = "keep"
  /\ IF worker[w].from = "raw" THEN Step(w, "served") /\ UNCHANGED file
     ELSE IF kind = "youtube" THEN Step(w, "discard") /\ UNCHANGED file
     ELSE IF There("temp")
       THEN /\ file' = [file EXCEPT !["raw"] = file["temp"], !["temp"] = "absent"]
            /\ worker' = [Renamed(w, "temp", "raw") EXCEPT ![w].at = "served"]
       ELSE Step(w, "served") /\ UNCHANGED file
  /\ Same

AskForIt(w) ==
  /\ worker[w].at = "served"
  /\ worker' = [worker EXCEPT ![w] = Resting]
  /\ UNCHANGED file /\ Same

\* The web process is restarted, its downloads with it; the files stay.
RestartCache ==
  /\ crashes < MaxCrashes
  /\ crashes' = crashes + 1
  /\ file' = [p \in Places |-> IF file[p] \in Workers THEN "spoiled" ELSE file[p]]
  /\ worker' = [w \in Workers |-> Resting]
  /\ broken' = TRUE
  /\ UNCHANGED <<kind, shared>>

CNext ==
  \/ RestartCache
  \/ \E w \in Workers :
       \/ Look(w) \/ Download(w) \/ Refused(w) \/ Downloaded(w) \/ DownloadFails(w)
       \/ Discard(w) \/ Inspect(w) \/ OpenPicture(w) \/ OpenFails(w) \/ Save(w) \/ Saved(w)
       \/ SaveFails(w) \/ PublishCanonical(w) \/ Clean(w) \/ KeepRaw(w) \/ AskForIt(w)

CacheTypeOK ==
  /\ file \in [Places -> Workers \cup {"absent", "whole", "spoiled"}]
  /\ \A w \in Workers :
       /\ worker[w].fd \in Places \cup {"none", "gone"}
       /\ worker[w].left \in 0..Candidates
       /\ worker[w].fd # "none" <=> worker[w].at \in {"writing", "saving"}

\* A picture cut short gets into the cache, to be served for ever, only when
\* two requests were at it at a time and one of them broke off: no failing
\* download, full disk or restart spoils it alone, and no overlap does when all
\* goes well (resolver.py, _cache_poster and _normalize_poster).
SpoiledNeedsOverlap ==
  \A p \in Cached : file[p] = "spoiled" => shared /\ broken
=============================================================================
