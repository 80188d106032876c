---------------------------- MODULE MCThrottler ----------------------------
(* Instantiates Throttler with two sessions and a few request shapes.      *)
EXTENDS Throttler

CONSTANTS s1, s2, none

MCSessions == {s1, s2}

\* A request with a session id (or none) in each place SessionId looks at
Req(q, b, x, a) == [query |-> q, body |-> b, xapitoken |-> x, authorization |-> a]

\* Query, X-Api-Token, Authorization and body sessions, and no session
MixedRequests ==
    {Req(s1, none, none, none), Req(none, none, s1, none),
     Req(none, none, none, s2), Req(none, s2, none, none),
     Req(none, none, none, none)}

=============================================================================
