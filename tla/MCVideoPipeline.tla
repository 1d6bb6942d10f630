--------------------------- MODULE MCVideoPipeline ---------------------------
(* Two video jobs for one source, one of them with two possible outcomes,  *)
(* and a transcript job; any two of the three meet.                        *)
EXTENDS VideoPipeline, TLC

MCTargetOf == <<"video", "video", "transcript">>
MCTargets == {"video", "transcript"}
MCContents == <<{"understood", "fallback"}, {"other mode"}, {"text"}>>
MCHashes == {"understood", "fallback", "other mode", "text"}

WorkersAreAlike == Permutations(Workers)
AnyTwoJobs == Cardinality(accepted) <= 2
=============================================================================
