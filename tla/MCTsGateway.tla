---------------------------- MODULE MCTsGateway ----------------------------
(* Instances of TsGateway for TLC. *)
EXTENDS TsGateway, TLC

CONSTANTS a, b, c, d

\* Three routes that take the request as it is, one that may not convert it.
MCMode == (a :> "native") @@ (b :> "native") @@ (c :> "native") @@ (d :> "chat")

\* None; one; a fallback rule and the site's policy that offer the same route;
\* one that answers locally.
MCCandidates == {<<>>, <<b>>, <<b, c>>, <<b, b>>, <<d, b>>}

Defaults == [enabled |-> TRUE, maxFallback |-> 2, retryAttempts |-> 1,
             on429 |-> TRUE, on5xx |-> TRUE, onTimeout |-> TRUE, onNetwork |-> TRUE]

MCPolicies ==
  { Defaults,
    [Defaults EXCEPT !.maxFallback = 1, !.retryAttempts = 0],
    [Defaults EXCEPT !.on429 = FALSE, !.onTimeout = FALSE],
    [Defaults EXCEPT !.enabled = FALSE] }
=============================================================================
