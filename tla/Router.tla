------------------------------- MODULE Router -------------------------------
(***************************************************************************)
(* The rule matcher and region resolution of the control plane, as         *)
(* operators (src/controlplane/rules.go, router.go, regions.go, types.go). *)
(*                                                                         *)
(* A rule is a record of its weight, its match fields and its action.  A   *)
(* request is the record of what the extractor returns for it.  Where the  *)
(* code depends on map iteration order (the rules map handed to sort.Sort) *)
(* or on a random roll, an operator returns the set of possible results.   *)
(***************************************************************************)
EXTENDS Integers, Sequences, SequencesExt, FiniteSets, Sampling

CONSTANTS
    Hobs,         \* city codes (strings)
    Sources,      \* values of the request source ("customer", "driver")
    SampleValues, \* values of the customer / driver / device / session_id parameters
    KeyBytes,     \* KeyBytes[v]: the bytes of the string v ("" is <<>>)
    RegionIdOrder \* every region id, in the order sort.Strings puts them

\* Sampler constants of types.go
RandomSampler == 0
CustomerSampler == 1
DriverSampler == 2
DeviceSampler == 3
SessionSampler == 4

ActionProxyToH1 == 1
ActionSendToH2 == 2
ActionThrottle == 3
ActionDeprecate == 4

\* The parameter each hash sampler reads
SampledParam == [s \in {CustomerSampler, DriverSampler, DeviceSampler, SessionSampler} |->
                    CASE s = CustomerSampler -> "customer"
                      [] s = DriverSampler -> "driver"
                      [] s = DeviceSampler -> "device"
                      [] s = SessionSampler -> "session_id"]

\* Proportions are kept as uint64(prop*1000000), the only form the code
\* compares; a Random roll is in [0,1) and compared with prop: "zero" is a
\* roll of exactly 0.0, "low" one in (0, 0.5], "high" one in (0.5, 1).
Scale == 1000000
Rolls == {"zero", "low", "high"}
RollPasses(roll, prop) ==
    \/ roll = "zero"
    \/ roll = "low" /\ prop >= Scale \div 2
    \/ roll = "high" /\ prop >= Scale

NoRule == [none |-> "rule"]
NoRegion == ""

-----------------------------------------------------------------------------
(* Ordering: SortedRules.Less and Rule.Specificity                         *)

Specificity(r) ==
    (IF r.hob # {} THEN 5 ELSE 0)
    + (IF r.source # "" THEN 5 ELSE 0)
    + (IF r.path # <<>> THEN 10 ELSE 0)

\* Mutant: the tie on weight broken by the smaller specificity
LessBySmallerSpecificity(a, b) ==
    IF a.weight # b.weight THEN a.weight > b.weight
    ELSE Specificity(a) < Specificity(b)

\* a sorts before b
Less(a, b) ==
    IF a.weight # b.weight THEN a.weight > b.weight
    ELSE Specificity(a) > Specificity(b)

\* Rules.Sort: the map is copied into a slice in iteration order and
\* sort.Sort, which is not stable, orders it; any order Less accepts can
\* come out
SortedOrders(rules) ==
    {s \in SetToSeqs(rules) : \A i, j \in 1..Len(s) : i < j => ~Less(s[j], s[i])}

-----------------------------------------------------------------------------
(* Matching: Match.matches, sample, hashSample, withinCsv                  *)

\* withinCsv: the hob field is kept as the set of its comma-separated
\* values; {} stands for the empty field
WithinCsv(csv, test) == test \in csv

\* hashSample of a key given by its bytes
HashSample(key, prop) ==
    IF key = <<>> THEN TRUE
    ELSE IF prop <= 0 THEN FALSE
    ELSE FnvBucket(key) <= prop

\* The outcomes sample can have for this request
SampleOutcomes(m, req) ==
    IF m.sampler = RandomSampler
    THEN {RollPasses(roll, m.prop) : roll \in Rolls}
    ELSE {HashSample(KeyBytes[req.values[SampledParam[m.sampler]]], m.prop)}

\* The checks of matches before sampling: path prefix, source, hob
FieldsMatch(m, req) ==
    /\ m.path # <<>> => IsPrefix(m.path, req.path)
    /\ m.source # "" => req.source = m.source
    /\ m.hob # {} => WithinCsv(m.hob, req.hob)

\* Rule.Matches can return TRUE, can return FALSE
CanMatch(r, req) == FieldsMatch(r, req) /\ TRUE \in SampleOutcomes(r, req)
CanFail(r, req) == ~FieldsMatch(r, req) \/ FALSE \in SampleOutcomes(r, req)

\* The loop of Route over the sorted rules: each rule is tried in turn
\* with its own roll; the rules it can return
RECURSIVE FirstMatches(_, _)
FirstMatches(order, req) ==
    IF order = <<>> THEN {NoRule}
    ELSE (IF CanMatch(Head(order), req) THEN {Head(order)} ELSE {})
         \cup (IF CanFail(Head(order), req) THEN FirstMatches(Tail(order), req) ELSE {})

\* The rules forceRoute synthesises, by upper-cased header value
ForcedRule(action) == [forced |-> action]
ForcedRoutes == [h \in {"H1", "H2", "DEPRECATE", "THROTTLE"} |->
                    CASE h = "H1" -> ForcedRule(ActionProxyToH1)
                      [] h = "H2" -> ForcedRule(ActionSendToH2)
                      [] h = "DEPRECATE" -> ForcedRule(ActionDeprecate)
                      [] h = "THROTTLE" -> ForcedRule(ActionThrottle)]

\* A header value is kept as its upper-cased form plus whether it was
\* written in upper case
UpperRoute(hdr) == hdr.upper

\* Mutant: an unknown header value synthesises an empty rule
ForceRouteDefaultRule(hdr) ==
    IF UpperRoute(hdr) \in DOMAIN ForcedRoutes THEN ForcedRoutes[UpperRoute(hdr)]
    ELSE ForcedRule(0)

\* forceRoute: the synthesised rule, or NoRule for an unknown value
ForceRoute(hdr) ==
    IF UpperRoute(hdr) \in DOMAIN ForcedRoutes THEN ForcedRoutes[UpperRoute(hdr)]
    ELSE NoRule

\* Route: a forced route when the header names one, else the first match
Route(order, req) ==
    IF req.route.upper # "" /\ ForceRoute(req.route) # NoRule
    THEN {ForceRoute(req.route)}
    ELSE FirstMatches(order, req)

-----------------------------------------------------------------------------
(* Regions: HobRegions.Find, HobModes.Find, IsOnline, Urls, Region        *)

\* Find in a map keyed by hob, falling back to "default", else ""
Find(map, hob) ==
    IF hob \in DOMAIN map THEN map[hob]
    ELSE IF "default" \in DOMAIN map THEN map["default"]
    ELSE ""

\* Mutant: only the word ONLINE keeps a region online
IsOnlineOnlyWhenOnline(regions, id) ==
    id \in DOMAIN regions /\ regions[id].status = "ONLINE"

\* A nil region is offline; only the word OFFLINE takes a region offline
IsOnline(regions, id) ==
    id \in DOMAIN regions /\ regions[id].status # "OFFLINE"

\* Region.Urls: the app's URLs, else the "default" app's, else none
Urls(region, app) ==
    IF app \in DOMAIN region.apps THEN region.apps[app]
    ELSE IF "default" \in DOMAIN region.apps THEN region.apps["default"]
    ELSE ""

\* The smallest region id (sort.Strings, then keys[0])
FirstId(ids) == Head(SelectSeq(RegionIdOrder, LAMBDA id : id \in ids))

\* RuleRouter.Region for a snapshot's regions and hob mapping: the hob's
\* region, else the lexicographically first; if offline, the first online
\* failover, else the offline region anyway
Region(regions, hobRegions, hob) ==
    LET found == Find(hobRegions, hob)
        primary == IF found \in DOMAIN regions THEN found
                   ELSE IF DOMAIN regions # {} THEN FirstId(DOMAIN regions)
                   ELSE NoRegion
        fo == IF primary = NoRegion THEN <<>> ELSE regions[primary].failover
        online == SelectSeq(fo, LAMBDA id : IsOnline(regions, id))
    IN  IF primary = NoRegion \/ IsOnline(regions, primary) THEN primary
        ELSE IF online # <<>> THEN Head(online)
        ELSE primary

\* GetHobMode: the mode a forced H1 or H2 route names (exact match only),
\* else the hob's mode
HobMode(hobModes, req) ==
    IF req.route.upper = "H1" /\ req.route.exact THEN "h1"
    ELSE IF req.route.upper = "H2" /\ req.route.exact THEN "h2"
    ELSE Find(hobModes, req.hob)

-----------------------------------------------------------------------------
(* The keys and the count of the repository's hashSample test             *)

\* The keys of TestHashSampleOnEmptyString (rules_test.go): "foobar", and
\* fmt.Sprintf("foobarbaz%v", i) for i in 0..999
Foobar == <<102, 111, 111, 98, 97, 114>>
FoobarbazKey(i) == Foobar \o <<98, 97, 122>> \o Decimal(i)

\* The count rules_test.go asserts: exactly 480 of the 1000 foobarbaz keys
\* are accepted at proportion 0.5
Foobarbaz480 ==
    Cardinality({i \in 0..999 : HashSample(FoobarbazKey(i), Scale \div 2)}) = 480

=============================================================================
