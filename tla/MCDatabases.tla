------------------------------ MODULE MCDatabases ------------------------------
(* Databases for TLC: one tenant; ids and requests are interchangeable. *)
EXTENDS Databases, TLC

CONSTANT Tenant

MCTenantOf == [d \in Dbs |-> Tenant]

MCSymmetry == Permutations(Dbs) \cup Permutations(Deleters)
=============================================================================
