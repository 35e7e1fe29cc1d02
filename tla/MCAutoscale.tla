---------------------------- MODULE MCAutoscale -----------------------------
(* Instances of Autoscale for TLC: each .cfg gives the constants. *)
EXTENDS Autoscale
=============================================================================
