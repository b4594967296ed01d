----------------------------- MODULE MCBuildLogs -----------------------------
(* BuildLogs for TLC. *)
EXTENDS BuildLogs, TLC
=============================================================================
