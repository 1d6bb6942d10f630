---------------------------- MODULE SourceSnapshot ----------------------------
(***************************************************************************)
(* Taking a copy of the program that runs on the media box                 *)
(* (skeleton_media/home_edge/media_source_snapshot.py).  A run asks the    *)
(* box, by a signed request, for the file; the script that runs there      *)
(* compares what lstat says before and after it reads; the run validates   *)
(* the bytes again and links them into place, once and for all.            *)
(*                                                                         *)
(* The file is two halves, each with the number of the write it is from;   *)
(* a write moves the modification time.  Editors at the box, the transport *)
(* and its timeouts are external.  Signing is abstracted to whether it     *)
(* passes, a source to the statements that its validation looks at.        *)
(***************************************************************************)
EXTENDS Naturals, Sequences

CONSTANTS
  Captures,      \* runs of the maintenance task
  Statements,    \* of each half of each write: the statements in it
  MaxEdits       \* bound: writes to the file at the box

ASSUME CaptureAssumption == MaxEdits \in Nat

Contents == (0..MaxEdits) \X (0..MaxEdits)
NoContent == <<>>
Live == "live"

\* A statement is [is |-> "import", name], an import of Flask under a name;
\* [is |-> "app", name, calls], name = calls(...); [is |-> "route", name, path],
\* a function under @name.route(path); [is |-> "literal", secret, live], a
\* string given to a name, or to a key of a dictionary; or [is |-> "broken"],
\* which Python cannot parse.
Text(content) == Statements[1][content[1]] \o Statements[2][content[2]]
Having(text, kind) == {i \in DOMAIN text : text[i].is = kind}

\* _secret_identifier, _literal_is_live_secret: a placeholder is none, nor a
\* short string.
LiveSecret(s) == s.secret /\ s.live

\* credential_literal_names: none in what cannot be parsed.
CredentialLiterals(text) ==
  IF Having(text, "broken") # {} THEN {}
  ELSE {i \in Having(text, "literal") : LiveSecret(text[i])}

\* _flask_app_names: a call counts by the names imported before it.
FlaskAppNames(text) ==
  {text[i].name : i \in {k \in Having(text, "app") :
     text[k].calls \in {"Flask"} \cup {text[j].name : j \in Having(text, "import") \cap (1..k)}}}

\* _route_path, of the routes at an application
RoutePaths(text) ==
  {text[i].path : i \in {k \in Having(text, "route") : text[k].name \in FlaskAppNames(text)}}

\* _route_markers
RouteMarkers(text) == "/video" \in RoutePaths(text) /\ RoutePaths(text) \cap {"/health", "/healthz"} # {}

\* _identity_markers: an import of flask, and words every source here has.
IdentityMarkers(text) == Having(text, "import") # {}

\* _validate_source_bytes
ValidSource(content) ==
  LET text == Text(content)
  IN /\ CredentialLiterals(text) = {} /\ Having(text, "broken") = {}
     /\ RouteMarkers(text) /\ IdentityMarkers(text)

\* The same, as the script at the box does it: it parses first, and walks the
\* tree with helpers of its own.
BoxRefuses(text) ==
  \/ \E i \in DOMAIN text : text[i].is = "broken" \/ (text[i].is = "literal" /\ LiveSecret(text[i]))
  \/ \A app \in FlaskAppNames(text), i \in DOMAIN text :
       ~(text[i].is = "route" /\ text[i].name = app /\ text[i].path = "/video")
  \/ \A app \in FlaskAppNames(text), i \in DOMAIN text :
       ~(text[i].is = "route" /\ text[i].name = app /\ text[i].path \in {"/health", "/healthz"})
  \/ \A i \in DOMAIN text : text[i].is # "import"

VARIABLES
  source,     \* the file at the box: inode, modification time, halves
  had,        \* all contents it has had
  artifact,   \* the private artifact; NoContent: there is none
  capture     \* of each run: step, first lstat, open file, halves read, receipt

snapshotVars == <<source, had, artifact, capture>>

NoCapture == [at |-> "idle", lstat |-> [ino |-> 0, mtime |-> 0], handle |-> Live,
              bytes |-> NoContent, met |-> NoContent]

SInit ==
  /\ source = [ino |-> 0, mtime |-> 0, halves |-> <<0, 0>>]
  /\ had = {<<0, 0>>}
  /\ artifact = NoContent
  /\ capture = [r \in Captures |-> NoCapture]

Has(r, step) == capture[r].at = step
Put(r, fields) ==
  capture' = [capture EXCEPT ![r] = [f \in DOMAIN @ |-> IF f \in DOMAIN fields THEN fields[f] ELSE @[f]]]
Lstat == [ino |-> source.ino, mtime |-> source.mtime]
Remains == UNCHANGED <<source, had, artifact>>

\* An editor writes one half in place, ...
EditInPlace(half) ==
  /\ source.mtime < MaxEdits
  /\ source' = [source EXCEPT !.mtime = @ + 1, !.halves[half] = source.mtime + 1]
  /\ had' = had \cup {source'.halves}
  /\ UNCHANGED <<artifact, capture>>

\* ... or renames a new file into place: who has the old one open keeps it.
ReplaceSource ==
  /\ source.mtime < MaxEdits
  /\ LET new == source.mtime + 1
     IN source' = [ino |-> source.ino + 1, mtime |-> new, halves |-> <<new, new>>]
  /\ had' = had \cup {source'.halves}
  /\ capture' = [r \in Captures |->
       IF capture[r].handle = Live /\ capture[r].at \in {"read", "rest"}
         THEN [capture[r] EXCEPT !.handle = source.halves] ELSE capture[r]]
  /\ UNCHANGED artifact

\* execute_media_source_snapshot_task: an artifact that is there is the answer.
Start(r) ==
  /\ Has(r, "idle")
  /\ IF artifact = NoContent THEN Put(r, [at |-> "request"])
     ELSE IF ~ValidSource(artifact) THEN Put(r, [at |-> "blocked"])
     ELSE Put(r, [at |-> "met", met |-> artifact])
  /\ Remains

\* The request cannot be signed, times out, or its answer is not one.
Blocked(r) ==
  /\ capture[r].at \in {"request", "lstat", "read", "rest", "compare", "reply"}
  /\ Put(r, [at |-> "blocked"])
  /\ Remains

SignAndSend(r) == Has(r, "request") /\ Put(r, [at |-> "lstat"]) /\ Remains

\* main of the script at the box: lstat, ...
LstatSource(r) ==
  /\ Has(r, "lstat")
  /\ Put(r, [at |-> "open", lstat |-> Lstat])
  /\ Remains

\* ... open, and read to the end, which takes more than a moment, ...
OpenSource(r) == Has(r, "open") /\ Put(r, [at |-> "read", handle |-> Live]) /\ Remains

Halves(r) == IF capture[r].handle = Live THEN source.halves ELSE capture[r].handle

ReadHalf(r) ==
  /\ Has(r, "read")
  /\ Put(r, [at |-> "rest", bytes |-> <<Halves(r)[1]>>])
  /\ Remains

ReadRest(r) ==
  /\ Has(r, "rest")
  /\ Put(r, [at |-> "compare", bytes |-> <<capture[r].bytes[1], Halves(r)[2]>>, handle |-> Live])
  /\ Remains

\* Mutant of SameFile: size and inode alone are compared.
SameInode(before) == before.ino = source.ino

\* same_file, file_id
SameFile(before) == before = Lstat

\* ... lstat again, and validate.
CompareAndValidate(r) ==
  /\ Has(r, "compare")
  /\ Put(r, [at |-> IF SameFile(capture[r].lstat) /\ ~BoxRefuses(Text(capture[r].bytes))
                      THEN "reply" ELSE "blocked"])
  /\ Remains

\* The run validates what it was sent; the bytes go to a temporary file of its
\* own, which is synced and compared before it is linked.
ValidateReply(r) ==
  /\ Has(r, "reply")
  /\ Put(r, [at |-> IF ValidSource(capture[r].bytes) THEN "link" ELSE "blocked"])
  /\ Remains

\* _write_private_artifact: os.link never replaces.
LinkArtifact(r) ==
  /\ Has(r, "link")
  /\ IF artifact = NoContent
       THEN /\ artifact' = capture[r].bytes
            /\ Put(r, [at |-> "verify"])
       ELSE Put(r, [at |-> "blocked"]) /\ UNCHANGED artifact
  /\ UNCHANGED <<source, had>>

VerifyArtifact(r) ==
  /\ Has(r, "verify")
  /\ IF artifact = capture[r].bytes
       THEN Put(r, [at |-> "met", met |-> capture[r].bytes])
       ELSE Put(r, [at |-> "blocked"])
  /\ Remains

\* The run is over, or was killed at any point; the next one begins.
EndCapture(r) ==
  /\ ~Has(r, "idle")
  /\ capture' = [capture EXCEPT ![r] = NoCapture]
  /\ Remains

SNext ==
  \/ \E half \in {1, 2} : EditInPlace(half)
  \/ ReplaceSource
  \/ \E r \in Captures :
       \/ Start(r) \/ Blocked(r) \/ SignAndSend(r) \/ LstatSource(r) \/ OpenSource(r)
       \/ ReadHalf(r) \/ ReadRest(r) \/ CompareAndValidate(r) \/ ValidateReply(r)
       \/ LinkArtifact(r) \/ VerifyArtifact(r) \/ EndCapture(r)

SnapshotTypeOK ==
  /\ source.halves \in Contents /\ source.mtime \in 0..MaxEdits
  /\ artifact \in Contents \cup {NoContent}
  /\ \A r \in Captures : capture[r].met \in Contents \cup {NoContent}

\* What a run reports as captured is the artifact's content, the same for every
\* run, and is what the file was at one moment, with nothing in it that the
\* validation refuses: no mixture of what it was before and after an edit that
\* fell into the reading, whatever runs race for the artifact or are killed;
\* and the two copies of the validation agree on it (media_source_snapshot.py, main of SNAPSHOT_SCRIPT, _write_private_artifact).
SnapshotIsOneVersion ==
  /\ artifact # NoContent => artifact \in had /\ ValidSource(artifact)
  /\ \A r \in Captures :
       /\ Has(r, "met") => capture[r].met = artifact
       /\ Has(r, "reply") => ValidSource(capture[r].bytes)
=============================================================================
