-------------------------- MODULE MCCircuitBreaker --------------------------
(* Instances of CircuitBreaker for TLC. *)
EXTENDS CircuitBreaker

\* Two policies in force at once (a sync changed the policy while requests
\* that cloned the old one are still running), and the breaker switched off.
MCPolicies == { [enabled |-> TRUE,  threshold |-> 2, cooldown |-> 2],
                [enabled |-> TRUE,  threshold |-> 1, cooldown |-> 3],
                [enabled |-> FALSE, threshold |-> 2, cooldown |-> 2] }
=============================================================================
