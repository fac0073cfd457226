-------------------------- MODULE MCProxyFailover --------------------------
(* Instances of ProxyFailover for TLC. *)
EXTENDS ProxyFailover, TLC

CONSTANTS a, b, c, d

MCChannels == {a, b, c, d}

\* Two channels that serve the request as it is, one of each other kind.
MCMode == (a :> "native") @@ (b :> "native") @@ (c :> "chat") @@ (d :> "disabled")

Defaults == [enabled |-> TRUE, maxFallback |-> 2, retryAttempts |-> 1,
             on429 |-> TRUE, on5xx |-> TRUE, onTimeout |-> TRUE, onNetwork |-> TRUE,
             breaker |-> TRUE]

\* The defaults; a wider retry budget over one fallback; each trigger switched
\* off in turn; no fallbacks; failover disabled altogether.
MCPolicies ==
  { Defaults,
    [Defaults EXCEPT !.maxFallback = 1, !.retryAttempts = 2],
    [Defaults EXCEPT !.on429 = FALSE, !.breaker = FALSE],
    [Defaults EXCEPT !.on5xx = FALSE, !.onTimeout = FALSE, !.onNetwork = FALSE],
    [Defaults EXCEPT !.maxFallback = 0],
    [Defaults EXCEPT !.enabled = FALSE] }

MCDefault == {Defaults}
=============================================================================
