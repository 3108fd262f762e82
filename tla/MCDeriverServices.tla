-------------------------- MODULE MCDeriverServices -------------------------
(* DeriverServices for TLC: names of the tasks and the processes. *)
EXTENDS DeriverServices

CONSTANTS i1, i2, cleanup, spawned
=============================================================================
