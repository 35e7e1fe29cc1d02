-------------------------------- MODULE MCJobs --------------------------------
(* An instance of Jobs for TLC. *)
EXTENDS Jobs

CONSTANTS j1, j2, p1, p2, c1
==============================================================================
