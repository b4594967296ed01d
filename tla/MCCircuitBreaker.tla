--------------------------- MODULE MCCircuitBreaker ---------------------------
(* CircuitBreaker for TLC: one tenant; a back-off long against the clock. *)
EXTENDS CircuitBreaker

CONSTANT Tenant

MCTenantOf == [s \in Services |-> Tenant]

\* circuitRetryBackoff: 30 min, 1 h, 4 h against a ten-minute window of 2.
MCRetryBackoff(n) == CASE n <= 1 -> 6 [] n = 2 -> 12 [] OTHER -> 48
=============================================================================
