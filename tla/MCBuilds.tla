------------------------------- MODULE MCBuilds -------------------------------
(* Builds for TLC. *)
EXTENDS Builds, TLC
===============================================================================
