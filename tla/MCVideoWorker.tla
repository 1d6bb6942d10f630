--------------------------- MODULE MCVideoWorker ---------------------------
(* The service and a worker started by hand, both with the installed id. *)
EXTENDS VideoWorker

MCWorkerNames == {"hetzner-video-worker-1"}
MCWorkerId == [p \in Procs |-> "hetzner-video-worker-1"]
=============================================================================
