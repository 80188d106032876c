-------------------------- MODULE MCRequestRouting --------------------------
(* Instantiates RequestRouting with two configs and a few requests.         *)
(* Rules rB and rC tie on weight and specificity; rD has proportion 0;      *)
(* region ap has a status that is neither ONLINE nor OFFLINE; LON and DUB   *)
(* map to different regions.                                                *)
EXTENDS RequestRouting

CONSTANTS q1, q2

Rule(w, path, src, hob, sampler, prop, action) ==
    [weight |-> w, path |-> path, source |-> src, hob |-> hob,
     sampler |-> sampler, prop |-> prop, action |-> action]

rA == Rule(0, <<"a">>, "", {}, RandomSampler, Scale, ActionProxyToH1)
rB == Rule(0, <<>>, "", {"LON", "DUB"}, CustomerSampler, Scale \div 2, ActionThrottle)
rC == Rule(0, <<>>, "driver", {}, RandomSampler, Scale, ActionSendToH2)
rD == Rule(1, <<"b">>, "", {}, RandomSampler, 0, ActionDeprecate)

Reg(status, failover) ==
    [status |-> status, failover |-> failover,
     apps |-> [a \in {"default", "driver"} |-> IF a = "driver" THEN "drv." \o status ELSE "api." \o status]]

Config1 ==
    [rules |-> {rA, rB, rC, rD},
     regions |-> [id \in {"ap", "eu", "us"} |->
                    CASE id = "ap" -> Reg("DRAINING", <<>>)
                      [] id = "eu" -> Reg("ONLINE", <<>>)
                      [] id = "us" -> Reg("OFFLINE", <<"xx", "ap", "eu">>)],
     hobRegions |-> [h \in {"LON", "DUB"} |-> IF h = "LON" THEN "us" ELSE "eu"],
     hobModes |-> [h \in {"LON", "default"} |-> IF h = "LON" THEN "h1" ELSE "h2"],
     version |-> 1]

Config2 ==
    [rules |-> {rA, rC},
     regions |-> [id \in {"eu", "us"} |->
                    IF id = "eu" THEN Reg("OFFLINE", <<"us">>) ELSE Reg("ONLINE", <<>>)],
     hobRegions |-> [h \in {"default"} |-> "eu"],
     hobModes |-> [h \in {"default"} |-> "h1"],
     version |-> 2]

MCConfigs == {Config1, Config2}

\* H2 answers: no pinning headers, and a pin to DUB (a region other than
\* the one LON requests resolve to)
MCResponses == {[hob |-> "", pinning |-> FALSE], [hob |-> "DUB", pinning |-> TRUE]}
MCRegionIdOrder == <<"ap", "eu", "us", "xx">>
\* The bytes of the sampled values: two keys of rules_test.go, "foobar"
\* (rejected at 0.5) and "foobarbaz11" (accepted at 0.5)
MCKeyBytes == [v \in {"", "c1", "c2"} |->
                 CASE v = "c1" -> Foobar [] v = "c2" -> FoobarbazKey(11) [] OTHER -> <<>>]

\* hostMap entries and the substring tests of Source, for the hosts used
LonDriverHost == "api-driver-london.elasticride.com"
CustomerHost == "api-customer.elasticride.com"
MCHostMap == LonDriverHost :> "LON"
MCHostWord == [h \in {LonDriverHost, CustomerHost, "api.ONLINE", "x"} |->
                 CASE h = LonDriverHost -> "driver"
                   [] h = CustomerHost -> "customer"
                   [] OTHER -> ""]

NoParams == [k \in {} |-> ""]
NoHeader == [upper |-> "", exact |-> TRUE]
Header(v, exact) == [upper |-> v, exact |-> exact]

Raw(method, path, host, query, body, formOk, src, route, xtok, auth) ==
    [method |-> method, path |-> path, host |-> host, query |-> query, body |-> body,
     formOk |-> formOk, srcHeader |-> src, route |-> route, xApiToken |-> xtok,
     authorization |-> auth]

\* Raw requests that reach every rule, region and mode lookup: a hob from
\* the host, from the body over the query, lost with an unparsable body,
\* and from the host when the body's city is empty; two session headers
MixedInputs ==
    {Raw("GET", <<"a", "b">>, LonDriverHost, [customer |-> "c1"], NoParams, TRUE,
         "", NoHeader, "", NoAuth),
     Raw("POST", <<"b">>, "api.ONLINE", [hob |-> "MAD"], [city |-> "DUB", customer |-> "c2"],
         TRUE, "customer", NoHeader, "", NoAuth),
     Raw("POST", <<"c">>, "x", [city |-> "MAD"], [customer |-> "c1"], FALSE,
         "customer", NoHeader, "", NoAuth),
     Raw("GET", <<"c">>, "x", NoParams, NoParams, TRUE, "driver", Header("H1", TRUE),
         "c1", [scheme |-> "token", token |-> "c2"]),
     Raw("GET", <<"c">>, CustomerHost, [city |-> "LON", customer |-> "c1"], NoParams, TRUE,
         "", Header("OTHER", TRUE), "", NoAuth),
     Raw("POST", <<"a">>, LonDriverHost, [city |-> "DUB"], [city |-> ""], TRUE,
         "", NoHeader, "", NoAuth)}

=============================================================================
