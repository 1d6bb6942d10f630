---------------------------- MODULE MCFileQueue ----------------------------
(* Two jobs and two workers, each with an id of its own: its own name. *)
EXTENDS FileQueue, TLC

MCWorkerId == [p \in Procs |-> p]
MCWorkerNames == Procs

WorkersAreAlike == Permutations(Procs)
=============================================================================
