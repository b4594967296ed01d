-------------------------------- MODULE MCApi --------------------------------
(* Api for TLC. *)
EXTENDS Api, TLC

MCSymmetry == Permutations(Keys) \cup Permutations(Reqs) \cup Permutations(IPs)
                \cup Permutations(Tenants)
=============================================================================
