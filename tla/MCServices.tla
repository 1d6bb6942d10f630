----------------------------- MODULE MCServices -----------------------------
(* Services around the player and the media box that share no state.  A    *)
(* behaviour follows one of them, chosen at the beginning; the others rest. *)
EXTENDS PageResolver, PosterCache, MetadataCache, Discovery, ReleaseMonitor,
  HomeInput, DisplayOwnership, SourceSnapshot, MediaBootstrap, TraktOutbox

VARIABLE focus

serviceVars ==
  <<focus, pageVars, posterVars, metadataVars, discoveryVars, monitorVars,
    inputVars, displayVars, snapshotVars, bootVars, outboxVars>>

MCButtons == [i \in {"remote", "gamepad"} |-> IF i = "remote" THEN {"ok", "extra"} ELSE {"a"}]
MCPlayerOf == [t \in Targets |-> IF t = "a" THEN "cinemar" ELSE "other"]
MCStreamKey == [x \in Streams |-> IF x = "u" THEN "k" ELSE "l"]

\* The first half imports and makes the application, the second has its routes;
\* the first write spoils either, the second renames the import.
MCStatements ==
  << [v \in 0..2 |-> <<[is |-> "import", name |-> IF v = 2 THEN "F" ELSE "Flask"],
                      [is |-> "app", name |-> "app", calls |-> IF v = 2 THEN "F" ELSE "Flask"],
                      [is |-> "literal", secret |-> TRUE, live |-> v = 1]>>],
     [v \in 0..2 |-> <<[is |-> "route", name |-> "app", path |-> "/video"],
                      IF v = 1 THEN [is |-> "broken"]
                      ELSE [is |-> "route", name |-> "app", path |-> "/healthz"]>>] >>

ServicesInit ==
  /\ focus \in {"page", "poster", "metadata", "discovery", "monitor", "input",
                "display", "snapshot", "bootstrap", "outbox"}
  /\ GInit /\ CInit /\ KInit /\ VInit /\ RInit /\ XInit /\ OInit /\ SInit /\ BInit /\ TInit
  /\ focus # "poster" => kind = "page"
  /\ focus # "metadata" => cache = "ui"
  /\ focus # "monitor" => aired = 0
  /\ focus # "display" => display = "off" /\ ~showing
  /\ focus # "bootstrap" => package = [p \in Packages |-> "out"] /\ \A c \in Configs : config[c] = "absent"

Follow(part) == focus = part /\ UNCHANGED focus
RestOf(part) ==
  /\ part # "page" => UNCHANGED pageVars
  /\ part # "poster" => UNCHANGED posterVars
  /\ part # "metadata" => UNCHANGED metadataVars
  /\ part # "discovery" => UNCHANGED discoveryVars
  /\ part # "monitor" => UNCHANGED monitorVars
  /\ part # "input" => UNCHANGED inputVars
  /\ part # "display" => UNCHANGED displayVars
  /\ part # "snapshot" => UNCHANGED snapshotVars
  /\ part # "bootstrap" => UNCHANGED bootVars
  /\ part # "outbox" => UNCHANGED outboxVars

ServicesNext ==
  \/ Follow("page") /\ GNext /\ RestOf("page")
  \/ Follow("poster") /\ CNext /\ RestOf("poster")
  \/ Follow("metadata") /\ KNext /\ RestOf("metadata")
  \/ Follow("discovery") /\ VNext /\ RestOf("discovery")
  \/ Follow("monitor") /\ RNext /\ RestOf("monitor")
  \/ Follow("input") /\ XNext /\ RestOf("input")
  \/ Follow("display") /\ ONext /\ RestOf("display")
  \/ Follow("snapshot") /\ SNext /\ RestOf("snapshot")
  \/ Follow("bootstrap") /\ BNext /\ RestOf("bootstrap")
  \/ Follow("outbox") /\ TNext /\ RestOf("outbox")

ServicesSpec == ServicesInit /\ [][ServicesNext]_serviceVars

\* The state of every service is well formed.
ServicesTypeOK ==
  /\ GTypeOK /\ CacheTypeOK /\ MetadataTypeOK /\ DiscoveryTypeOK
  /\ MonitorTypeOK /\ InputTypeOK /\ DisplayTypeOK /\ SnapshotTypeOK /\ BootTypeOK
  /\ OutboxTypeOK
=============================================================================
