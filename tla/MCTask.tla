------------------------------- MODULE MCTask -------------------------------
(* The tasks of start_scheduler, and one that returns, for TLC. *)
EXTENDS Task

CONSTANTS w1, w2, job

MCWorkers == <<w1, w2, job>>
MCBuilt   == <<w1, w2>>
=============================================================================
