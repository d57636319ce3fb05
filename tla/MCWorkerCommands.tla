------------------------- MODULE MCWorkerCommands -------------------------
(* One session of two attempts with a queue of two commands. *)
EXTENDS WorkerCommands
=============================================================================
