--------------------------- MODULE RequestRouting ---------------------------
(***************************************************************************)
(* Requests handled by Handler (src/handler/handler.go) while the control  *)
(* plane publishes new snapshots.  Each request asks its RuleRouter, in    *)
(* turn, for the route (Route), the region pinning (CorrectHostname, which *)
(* calls Region) and the hob mode (GetHobMode); each of these that reads   *)
(* the config loads the snapshot pointer again.  A publish installs one of *)
(* a few configs with one of the orders Rules.Sort can give its rules.    *)
(***************************************************************************)
EXTENDS Router, Extractor

CONSTANTS
    Configs,        \* configs: [rules, regions, hobRegions, hobModes, version]
    InitConfig,     \* the config published first
    RequestInputs,  \* raw requests (see Extractor)
    Reqs,           \* concurrent request handlers (model values)
    MaxPublishes,   \* bound on publishes
    MaxRequests,    \* bound on requests handled
    Responses       \* X-H-Hob and X-H-Pinning of the H2 answers: [hob, pinning]

ASSUME InitConfig \in Configs

\* A snapshot: a config and the order its sorted rules came out in
Snapshots == UNION {{[cfg |-> c, order |-> o] : o \in SortedOrders(c.rules)} : c \in Configs}

NoSnap == [none |-> "snapshot"]

\* What the extractor of some raw request yields
Requests == UNION {Features(r) : r \in RequestInputs}

VARIABLES
    snap,       \* *_loadedConfig
    rpc,        \* rpc[i]: the step of Handler request i is at
    input,      \* input[i]: the request's features, as its extractor yields them
    rule,       \* rule[i]: what Route returned
    routeSnap,  \* routeSnap[i]: the snapshot Route read (NoSnap if none)
    region,     \* region[i]: what Region returned
    regionSnap, \* regionSnap[i]: the snapshot Region read (NoSnap if none)
    pinned,     \* pinned[i]: the URL the response is pinned to, or ""
    pinTs,      \* pinTs[i]: its X-H-ENDPOINT-TIMESTAMP, NoTs when not set
    resp,       \* resp[i]: the X-H-Hob and X-H-Pinning of the H2 response
    mode,       \* mode[i]: the X-H-Mode the response carries
    seen,       \* seen[i]: the snapshots request i read
    publishes, handled

vars == <<snap, rpc, input, rule, routeSnap, region, regionSnap, pinned, pinTs, resp,
          mode, seen, publishes, handled>>

AllRules == UNION {c.rules : c \in Configs}
RegionIds == UNION {DOMAIN c.regions : c \in Configs}

NoTs == -1
ASSUME Responses \subseteq [hob : Hobs \cup {""}, pinning : BOOLEAN]

\* No X-H-Hob, no X-H-Pinning
NoResp == [hob |-> "", pinning |-> FALSE]

\* The action a rule names: a forced rule carries it as forced
ActionOf(r) == IF "forced" \in DOMAIN r THEN r.forced ELSE r.action

TypeOK ==
    /\ snap \in Snapshots
    /\ rpc \in [Reqs -> {"idle", "route", "pin", "mode", "dispatch", "h2", "done"}]
    /\ input \in [Reqs -> Requests]
    /\ rule \in [Reqs -> AllRules \cup Range(ForcedRoutes) \cup {NoRule}]
    /\ region \in [Reqs -> RegionIds \cup {NoRegion}]
    /\ routeSnap \in [Reqs -> Snapshots \cup {NoSnap}]
    /\ regionSnap \in [Reqs -> Snapshots \cup {NoSnap}]
    /\ seen \in [Reqs -> SUBSET Snapshots]
    /\ pinTs \in [Reqs -> {c.version : c \in Configs} \cup {NoTs}]
    /\ resp \in [Reqs -> Responses \cup {NoResp}]

Init ==
    /\ snap \in {s \in Snapshots : s.cfg = InitConfig}
    /\ rpc = [i \in Reqs |-> "idle"]
    /\ input \in [Reqs -> Requests]
    /\ rule = [i \in Reqs |-> NoRule]
    /\ routeSnap = [i \in Reqs |-> NoSnap]
    /\ region = [i \in Reqs |-> NoRegion]
    /\ regionSnap = [i \in Reqs |-> NoSnap]
    /\ pinned = [i \in Reqs |-> ""]
    /\ pinTs = [i \in Reqs |-> NoTs]
    /\ resp = [i \in Reqs |-> NoResp]
    /\ mode = [i \in Reqs |-> ""]
    /\ seen = [i \in Reqs |-> {}]
    /\ publishes = 0 /\ handled = 0

-----------------------------------------------------------------------------

\* tryLoad publishes another config (controlplane.go, atomic.StorePointer)
Publish ==
    /\ publishes < MaxPublishes
    /\ publishes' = publishes + 1
    /\ \E s \in Snapshots \ {snap} : snap' = s
    /\ UNCHANGED <<rpc, input, rule, routeSnap, region, regionSnap, pinned, pinTs, resp,
                   mode, seen, handled>>

\* A request reaches Handler; srv.Control.Router(r) wraps it in a new
\* extractor
Arrive(i) ==
    /\ rpc[i] \in {"idle", "done"}
    /\ handled < MaxRequests
    /\ handled' = handled + 1
    /\ \E r \in RequestInputs : \E f \in Features(r) : input' = [input EXCEPT ![i] = f]
    /\ rpc' = [rpc EXCEPT ![i] = "route"]
    /\ rule' = [rule EXCEPT ![i] = NoRule]
    /\ routeSnap' = [routeSnap EXCEPT ![i] = NoSnap]
    /\ region' = [region EXCEPT ![i] = NoRegion]
    /\ regionSnap' = [regionSnap EXCEPT ![i] = NoSnap]
    /\ pinned' = [pinned EXCEPT ![i] = ""]
    /\ pinTs' = [pinTs EXCEPT ![i] = NoTs]
    /\ resp' = [resp EXCEPT ![i] = NoResp]
    /\ mode' = [mode EXCEPT ![i] = ""]
    /\ seen' = [seen EXCEPT ![i] = {}]
    /\ UNCHANGED <<snap, publishes>>

\* router.Route(): a forced route reads no config; otherwise Rules()
\* loads the snapshot and the first matching rule is taken
RouteStep(i) ==
    /\ rpc[i] = "route"
    /\ \E r \in Route(snap.order, input[i]) : rule' = [rule EXCEPT ![i] = r]
    /\ IF input[i].route.upper # "" /\ ForceRoute(input[i].route) # NoRule
       THEN UNCHANGED <<routeSnap, seen>>
       ELSE /\ routeSnap' = [routeSnap EXCEPT ![i] = snap]
            /\ seen' = [seen EXCEPT ![i] = @ \cup {snap}]
    /\ rpc' = [rpc EXCEPT ![i] = "pin"]
    /\ UNCHANGED <<snap, input, region, regionSnap, pinned, pinTs, resp, mode,
                   publishes, handled>>

\* maybePinRequestToHostname: CorrectHostname gives up without a hob; else
\* Region() loads the snapshot once, and the response is pinned to the
\* region's api URL for the source, stamped with the config version,
\* when the Host differs from it
PinStep(i) ==
    /\ rpc[i] = "pin"
    /\ IF input[i].hob = ""
       THEN UNCHANGED <<region, regionSnap, pinned, pinTs, seen>>
       ELSE LET reg == Region(snap.cfg.regions, snap.cfg.hobRegions, input[i].hob)
                url == IF reg = NoRegion THEN ""
                       ELSE Urls(snap.cfg.regions[reg], input[i].source)
            IN  /\ region' = [region EXCEPT ![i] = reg]
                /\ regionSnap' = [regionSnap EXCEPT ![i] = snap]
                /\ seen' = [seen EXCEPT ![i] = @ \cup {snap}]
                /\ IF reg # NoRegion /\ input[i].host # url
                   THEN /\ pinned' = [pinned EXCEPT ![i] = url]
                        /\ pinTs' = [pinTs EXCEPT ![i] = snap.cfg.version]
                   ELSE UNCHANGED <<pinned, pinTs>>
    /\ rpc' = [rpc EXCEPT ![i] = "mode"]
    /\ UNCHANGED <<snap, input, rule, routeSnap, resp, mode, publishes, handled>>

\* router.GetHobMode(): a forced H1/H2 reads no config; otherwise
\* HobModes() loads the snapshot
ModeStep(i) ==
    /\ rpc[i] = "mode"
    /\ mode' = [mode EXCEPT ![i] = HobMode(snap.cfg.hobModes, input[i])]
    /\ IF input[i].route.exact /\ input[i].route.upper \in {"H1", "H2"}
       THEN UNCHANGED seen
       ELSE seen' = [seen EXCEPT ![i] = @ \cup {snap}]
    /\ rpc' = [rpc EXCEPT ![i] = "dispatch"]
    /\ UNCHANGED <<snap, input, rule, routeSnap, region, regionSnap, pinned, pinTs, resp,
                   publishes, handled>>

\* The switch on route.Action: no route, an H2 rule and an unknown action
\* go to h2Handler; H1, throttle and deprecate end the request here
Dispatch(i) ==
    /\ rpc[i] = "dispatch"
    /\ rpc' = [rpc EXCEPT ![i] =
                 IF rule[i] = NoRule \/ ActionOf(rule[i]) \notin
                        {ActionProxyToH1, ActionThrottle, ActionDeprecate}
                 THEN "h2" ELSE "done"]
    /\ UNCHANGED <<snap, input, rule, routeSnap, region, regionSnap, pinned, pinTs, resp,
                   mode, seen, publishes, handled>>

\* h2Handler returns after h2error.Write when the request cannot be turned
\* into a proto, names no handler, or the RPC fails: no regionPinning
H2Fails(i) ==
    /\ rpc[i] = "h2"
    /\ rpc' = [rpc EXCEPT ![i] = "done"]
    /\ UNCHANGED <<snap, input, rule, routeSnap, region, regionSnap, pinned, pinTs, resp,
                   mode, seen, publishes, handled>>

\* CorrectHostname for hob, then pinRequestToHostname: Region() loads the
\* snapshot; unless it finds no region, the timestamp and URL headers are
\* Set, whether or not the Host is already correct
PinTo(i, hob) ==
    LET reg == Region(snap.cfg.regions, snap.cfg.hobRegions, hob)
    IN  /\ seen' = [seen EXCEPT ![i] = @ \cup {snap}]
        /\ IF reg # NoRegion
           THEN /\ pinned' = [pinned EXCEPT ![i] = Urls(snap.cfg.regions[reg], input[i].source)]
                /\ pinTs' = [pinTs EXCEPT ![i] = snap.cfg.version]
           ELSE UNCHANGED <<pinned, pinTs>>

\* Mutant: SetHob on an extractor that has not parsed the request, so the
\* request's own city (vs[0]) wins over the appended code
RegionPinningRequestHob(i) ==
    /\ rpc[i] = "h2"
    /\ \E rsp \in Responses :
        /\ resp' = [resp EXCEPT ![i] = rsp]
        /\ IF rsp.hob # "" /\ rsp.pinning
           THEN PinTo(i, IF input[i].hob # "" THEN input[i].hob ELSE rsp.hob)
           ELSE UNCHANGED <<seen, pinned, pinTs>>
    /\ rpc' = [rpc EXCEPT ![i] = "done"]
    /\ UNCHANGED <<snap, input, rule, routeSnap, region, regionSnap, mode, publishes, handled>>

\* The RPC answered: its headers are copied to the response, then
\* regionPinning.  With X-H-Hob set and X-H-Pinning "1" it calls SetHob
\* (CorrectHostname has already parsed the request, so the code replaces
\* the extracted city) and pins by CorrectHostname for that hob.  Its
\* early return (no X-H-Hob, a timestamp already set) changes nothing the
\* second test would not.
RegionPinning(i) ==
    /\ rpc[i] = "h2"
    /\ \E rsp \in Responses :
        /\ resp' = [resp EXCEPT ![i] = rsp]
        /\ IF rsp.hob # "" /\ rsp.pinning
           THEN PinTo(i, rsp.hob)
           ELSE UNCHANGED <<seen, pinned, pinTs>>
    /\ rpc' = [rpc EXCEPT ![i] = "done"]
    /\ UNCHANGED <<snap, input, rule, routeSnap, region, regionSnap, mode, publishes, handled>>

Handle(i) ==
    RouteStep(i) \/ PinStep(i) \/ ModeStep(i) \/ Dispatch(i) \/ H2Fails(i) \/ RegionPinning(i)

Next ==
    \/ Publish
    \/ \E i \in Reqs : Arrive(i) \/ Handle(i)

Spec == Init /\ [][Next]_vars

-----------------------------------------------------------------------------
(* Properties.  The references below are written from the rules of the    *)
(* spec (section 4.D), not from the operators of Router.                   *)

\* A request past Route, and one that has also resolved its region
Routed(i) == rpc[i] \in {"pin", "mode", "dispatch", "h2", "done"}
Finished(i) == rpc[i] \in {"dispatch", "h2", "done"}

\* Rule ranking: weight, then 10 for a path, 5 for a hob, 5 for a source
RankSpecificity(r) ==
    10 * (IF r.path = <<>> THEN 0 ELSE 1)
    + 5 * (IF r.hob = {} THEN 0 ELSE 1)
    + 5 * (IF r.source = "" THEN 0 ELSE 1)
Outranks(a, b) ==
    \/ a.weight > b.weight
    \/ a.weight = b.weight /\ RankSpecificity(a) > RankSpecificity(b)

\* Route returns a rule that matches, and every rule ranked above it could
\* have failed to match this request; it returns none only when every rule
\* could fail.  Whichever order of tied rules the sort produced.
RouteIsBestMatch ==
    \A i \in Reqs : Routed(i) /\ routeSnap[i] # NoSnap =>
        LET rules == routeSnap[i].cfg.rules
            req == input[i]
        IN  IF rule[i] = NoRule
            THEN \A r \in rules : CanFail(r, req)
            ELSE /\ rule[i] \in rules
                 /\ CanMatch(rule[i], req)
                 /\ \A r \in rules : Outranks(r, rule[i]) => CanFail(r, req)

\* The region a request is pinned by: the hob's region (else "default"'s,
\* else the smallest id) when it is online; else the first online region of
\* its failover list; else that region anyway.  Anything but status OFFLINE
\* is online.
RegionIsSpecRegion ==
    \A i \in Reqs : Finished(i) /\ regionSnap[i] # NoSnap =>
        LET c == regionSnap[i].cfg
            up(id) == id \in DOMAIN c.regions /\ c.regions[id].status # "OFFLINE"
            wanted == IF input[i].hob \in DOMAIN c.hobRegions THEN c.hobRegions[input[i].hob]
                      ELSE IF "default" \in DOMAIN c.hobRegions THEN c.hobRegions["default"]
                      ELSE ""
            home == IF wanted \in DOMAIN c.regions THEN wanted
                    ELSE CHOOSE id \in DOMAIN c.regions :
                             \A j \in 1..Len(RegionIdOrder) :
                                 RegionIdOrder[j] \in DOMAIN c.regions =>
                                     \E k \in 1..j : RegionIdOrder[k] = id
            fo == c.regions[home].failover
            firstUp == {k \in 1..Len(fo) : up(fo[k]) /\ \A j \in 1..(k - 1) : ~up(fo[j])}
        IN  region[i] = IF up(home) \/ firstUp = {} THEN home
                        ELSE fo[CHOOSE k \in firstUp : TRUE]

\* All the config one request acts on (its rule, its region and pinning
\* version, its mode) comes from one snapshot.
OneSnapshotPerRequest == \A i \in Reqs : rpc[i] = "done" => Cardinality(seen[i]) <= 1

\* When the H2 service answers with X-H-Hob and X-H-Pinning "1" (a driver
\* whose city is known only after login), the response pins the client to
\* that hob's region, not the request's: its X-H-ENDPOINT URL is the one
\* the config stamped in X-H-ENDPOINT-TIMESTAMP gives that hob's region,
\* whatever maybePinRequestToHostname set before and whatever was
\* published in between.
PinnedToResponseHob ==
    \A i \in Reqs :
        rpc[i] = "done" /\ resp[i].hob # "" /\ resp[i].pinning =>
            \E c \in Configs :
                /\ c.version = pinTs[i]
                /\ LET reg == Region(c.regions, c.hobRegions, resp[i].hob)
                   IN  reg # NoRegion /\ pinned[i] = Urls(c.regions[reg], input[i].source)

\* Routing agrees with what rules_test.go asserts of hashSample: no
\* request whose sampled value is "foobar" is routed by a rule that
\* hash-samples it at proportion 0.5 or less, and the hash accepts exactly
\* 480 of the test's foobarbaz keys at 0.5 (the 64-bit FNV arithmetic, its
\* reduction mod 10^6 and the bucket comparison all take part).
HashSampleAgreesWithTests ==
    /\ Foobarbaz480
    /\ \A i \in Reqs :
        Routed(i) /\ rule[i] \in AllRules /\ rule[i].sampler # RandomSampler
            /\ rule[i].prop <= Scale \div 2
        => KeyBytes[input[i].values[SampledParam[rule[i].sampler]]] # Foobar

=============================================================================
