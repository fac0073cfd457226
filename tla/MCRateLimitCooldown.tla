------------------------- MODULE MCRateLimitCooldown -------------------------
(* Instances of RateLimitCooldown for TLC. *)
EXTENDS RateLimitCooldown

\* The ends of the jitter, per mille.
MCJitter == {800, 1200}
=============================================================================
