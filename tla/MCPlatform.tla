------------------------------ MODULE MCPlatform ------------------------------
(* Platform for TLC: one tenant owns every service; container, worker and
   request identifiers are interchangeable. *)
EXTENDS Platform, TLC

MCTenantOf == [s \in Services |-> CHOOSE t \in Tenants : TRUE]

MCSymmetry == Permutations(Containers) \cup Permutations(Workers)
                \cup Permutations(Clients) \cup Permutations(Services)
=============================================================================
