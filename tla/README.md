# TLA+ models of api-proxy

This directory has TLA+ models of the HailoOSS API proxy (`src/`). They
are checked with TLC. The models cover the parts of the proxy where
concurrency, shared state and failure make the behaviour hard to test:

- the control plane's config reload;
- the throttler's lock-free counting;
- the AZ self-health arbiter's coordinator lock;
- the rule and region choices a request depends on, with the 64-bit
  FNV hash of the samplers;
- the PCI filter's and host mappings' config reloads.

`PROJECT.json` lists every component, run, mutant, the source lines each
definition models (`map`), the findings and the hazards.

## 1. Inventory

### Components, their state and operations

| Component | Source | State | Operations |
|---|---|---|---|
| Config snapshot | `controlplane/controlplane.go` | `_loadedConfig`: pointer to an immutable `loadedCpConfig` (sorted rules, regions, hobRegions, hobModes, version, hash) | `loadedConfig` (atomic load), `Rules`, `Regions`, `HobRegions`, `HobModes` |
| Control plane reload | `controlplane/controlplane.go` | `loadCycleLock`, the tomb, the change channel from `config.SubscribeChanges`, the last-good file | `LoadLastGoodConfig` (startup), `New` (goroutine plus a synchronous `tryLoad`), `loadCycle` (retries every second), `tryLoad` (read raw, parse, sort, validate, hash, save file, publish), `saveConfigToFile` (temp file plus rename) |
| Rule matcher | `controlplane/rules.go`, `types.go` | none: operators over a rule set | `Sort`/`Less` (weight, then specificity), `Matches`, `sample`, `hashSample` (FNV mod 10^6), `withinCsv` |
| Router / region resolution | `controlplane/router.go`, `regions.go` | an extractor and the control plane | `Route` (forced route header, else first match), `GetHobMode`, `Region` (hob to region, lexicographic default, one level of failover), `CorrectHostname` |
| Request feature extractor | `controlplane/extractor.go`, `citymapping.go` | per-request cache `extractedValues` | `Hob`, `CityOrHob`, `SetHob`, `Value`, `Path`, `Source`, `doExtraction` (drains and restores the body) |
| Session id | `session/session.go` | none | `SessionId`: query, form, then the header extractors (held in a map) |
| Throttler | `handler/throttling.go`, `throttlesync.go`, `throttlingscoper.go` | `bucketBuffer` (pointer to a map of counter pointers), `throttledBuckets` (pointer to a set), `ingesterChan` (capacity 500000) | `ServeHTTP` (bucket, non-blocking send, 429 if throttled), `ingesterWorker` (increment, or copy plus CAS for a new key), `synchroniser` (every 5 s: swap the buffer, `reportIncrements`, replace the throttled set; the empty set on error) |
| AZ arbiter | `statusmonitor/types.go`, `zk.go`, `statusmonitor.go` | `IsHealthy`, `FailureType`, `LastChanged`, `lockHandle`; shared ZooKeeper node `/hailo-2-api-az-failover` | `monitor` loop (every 5 s), `interpretRavenStatus`, `interpretAZStatus`, `failoverAZ` (Create, else Get and adopt or abort), `recoverAZ` (Delete if holding the handle) |
| Request dispatch | `handler/handler.go`, `throttle.go`, `deprecate.go`, `endpoints.go` | per request | `Handler`: `Route`, `maybePinRequestToHostname`, `GetHobMode`, then dispatch on the action; `regionPinning` after H2 |
| H1 proxy | `handler/h1.go`, `hostmapping/hostmapping.go` | `mappings` (RWMutex), reload goroutine | reverse proxy, CORS header filtering, canned 500 body |
| H2 / RPC bridge | `handler/h2.go`, `h2rpc.go`, `marshaling.go` | none | HTTP to protobuf translation and back |
| PCI filter | `handler/pcifilter.go` | `sensitivePaths`, proxy URL (RWMutex), reload goroutine | `IsSensitiveRequest`, `loadConfig` |
| Collaborators | `handler/cors.go`, `realip.go`, `errors/`, `trace/`, `stats/`, `healthcheck/`, `main.go`, `server.go` | stats counters, trace settings | header rewriting, error encoding, metrics |

### How the components interact

- The request chain is RealIP, then Throttler, then PCI filter, then CORS,
  then the mux, which ends in `Handler`. `Handler` asks the control plane
  for a `Router`. The router calls `Rules()`, `Region()` and `HobModes()`,
  and each call loads the snapshot pointer again.
- The throttler's `ServeHTTP` talks to two background goroutines. It sends
  to the ingester over a channel. The ingester and the synchroniser share
  the buffer pointer. The synchroniser publishes the throttled set that
  `ServeHTTP` reads.
- The control plane, the PCI filter and the host mappings each subscribe to
  config change notifications. Each one reloads on its own goroutine.
- Every proxy instance runs its own AZ arbiter. The arbiters interact only
  through the ZooKeeper node. The load balancer reads `IsHealthy` through
  `/v2/az/status`.

### What is hard

- **Interleavings between instances.** AZ arbiters of the same AZ and of
  other AZs take turns at ZooKeeper between `Create`, `Get` and `Delete`.
- **Crashes and expiry.** The coordinator node is ephemeral. It goes away
  when its process dies. It also goes away when its ZooKeeper session
  expires while the process keeps running.
- **Lock-free publication.** The ingester can act on a buffer pointer it
  loaded before the synchroniser swapped the buffer. A new bucket is added
  by copying the map and publishing the copy with a CAS.
- **Concurrent config loads.** The synchronous first `tryLoad` in `New` runs
  without `loadCycleLock`, at the same time as the reload goroutine. The
  file is saved before the snapshot is published.
- **Multiple snapshot reads per request.** A reload can land between the
  rule choice and the region choice of one request.
- **Retries and failure.** `loadCycle` retries forever, one second apart.
  The throttler fails open. The AZ monitor keeps its state when the
  monitoring RPC fails.
- **Numeric edges.** Sampling bounds (proportion 0 and 1, a roll of exactly
  0.0) and FNV-64 reduced mod 10^6.

### What makes each component correct

- **AZ arbiter.**
  - At most one AZ is out of the pool at any time.
  - An instance out of the pool is covered by the coordinator node.
  - A node is always deleted by the instance that created it.
  - Every instance returns to the pool once its environment is healthy.
- **Control plane.**
  - Once loads are quiescent, the published snapshot is the controlPlane
    section of the latest valid raw config.
  - Once the config stops changing, the loads settle on it and stop.
  - The last-good file only ever holds a validated config.
- **Throttler.**
  - No counted request is reported twice.
  - At most one increment is lost per buffer swap.
- **Router.**
  - The chosen rule is the first match in weight and specificity order,
    whichever tied order the sort produced.
  - The region is the hob's region, else the default, else the smallest id.
    The first online failover replaces an offline region.
- **Request dispatch.** The rule, the region and the mode of one request
  come from one snapshot.
- **PCI filter and host mappings.** Once the config stops changing, each
  holds the keys of the config the process holds.

## 2. Plan

The modules in build order, the most important behaviour first, and
where each stands:

1. **`AZFailover`** (done). The cross-instance protocol: N monitor loops
   and one coordinator node, with broker, monitoring, crash and
   session-expiry faults. `MCAZFailover` instantiates it.
2. **`ControlPlane`** (done). The reload goroutine, the synchronous first
   load, notifications, the last-good file and restarts.
3. **`Throttler`** (done). `ServeHTTP`, the ingester, the synchroniser
   and a stub throttling service, with ghost counts of accepted,
   reported, discarded and lost increments.
4. **`Router`** and **`Extractor`** (done). Pure operators for the rule
   order, matching, sampling, forced routes, region resolution and hob
   modes, and for what the extractor finds in a raw request.
5. **`RequestRouting`** (done). The steps of `Handler` interleaved with
   snapshot publishes.
6. **`ConfigSnapshot`** (done). The abstract register `ControlPlane`
   implements, through a refinement mapping.
7. **`Sampling`** (done). The 64-bit FNV-1 arithmetic of `hashSample` in
   8-bit limbs, with `Bitwise` for the xor.
8. **`ConfigSubscribers`** (done). The PCI filter and the host mappings
   against the config service.
9. **Shutdown** (done). `HailoServer.Kill` and each goroutine's `Dying`
   case, in `ControlPlane`, `Throttler` and `ConfigSubscribers`.
10. **`regionPinning`** (done). The H2 answer's re-pin, with `SetHob`, in
    `RequestRouting`.

H1/H2 translation, CORS, RealIP, stats, trace and errors are not
modelled. They are per-request transformations with no shared state. See
section 4.

## 3. Modules and runs

### AZFailover

- **State.**
  - Per instance: `healthy` (`IsHealthy`), `failure` (`FailureType`) and
    `handle` (`lockHandle # ""`).
  - Per instance, control: `pc`, `attempt` and `after`. `pc` is where the
    `monitor` goroutine is. `attempt` is the failure that `failoverAZ` was
    called with. `after` is where the interpret function continues.
  - Shared: `node`, the ZooKeeper node at the lock path, recorded with its
    data (the AZ) and its owning session.
  - Environment: `connected`, `azUp`, `monUp` and a fault count.
- **Actions.** Each action is one step of the loop that ends at a ZooKeeper
  call or the monitoring RPC:
  - `RavenCheck` is `interpretRavenStatus`.
  - `Monitor` is `checkAZStatus` plus `interpretAZStatus`.
  - `Create`, `Get` and `Delete` are the bodies of `failoverAZ` and
    `recoverAZ` around `lock`, `readLock` and `unlock`.
  - `Create` overwrites the handle with `""` on failure, as line 136 does.
  - `Delete` removes whatever node is at the path, as `zk.Delete(path, 0)`
    does.
  - The environment actions are disconnect/reconnect, AZ fail/recover,
    monitoring down/up, process `Crash` (restart plus release of the
    session's node) and `SessionExpires`.
- **Fairness.** Each instance's loop steps are weakly fair. The goroutine
  is never blocked except by its 5-second timer. The environment is not
  fair.
- **Bounds.**
  - Two or three instances and two AZs.
  - `MaxFaults = 3` environment failures. That is enough for
    disconnect, failover, a second disconnect, and a crash or expiry plus a
    failure in the other AZ. Every counterexample below needs at most
    three.

| Run | Cfg | Expect | Checks |
|---|---|---|---|
| `az_one_per_az` | `MCAZFailover_one.cfg` | pass | `TypeOK`, `FailedAZHoldsLock` (one instance per AZ, crashes) |
| `az_recovery` | `MCAZFailover_live.cfg` | pass | `RecoversWhenHealthy`: `<>[]EnvHealthy => <>[]` all healthy (two instances in one AZ, crash and expiry) |
| `az_adopt_two_failed` | `MCAZFailover_adopt.cfg` | violation | `AtMostOneFailedAZ`: an adopter outlives the owner's node |
| `az_orphan_lock` | `MCAZFailover_orphan.cfg` | violation | `NoOrphanLock`: the handle is lost on a second failover |
| `az_session_expiry` | `MCAZFailover_expiry.cfg` | violation | `AtMostOneFailedAZ`: session expiry under a failed instance |

The passing run shows that, with one instance per AZ and sessions that die
only with their process, an instance is out of the pool only while the
node names its AZ. That is the guarantee the design relies on. The three
violations are the ways the code leaves that guarantee. They are listed
under `findings` in `PROJECT.json`.

### ControlPlane

- **State.** `remote` is the config service's copy. `raw` is
  `config.Raw()` in the process. `notified` is a pending change
  notification. `published` is the controlPlane section of
  `_loadedConfig`. `file` is the last-good file. `pc` and `seen` hold the
  control state of the two goroutines that run `tryLoad`: `init` is
  New's synchronous call and `loop` is the reload goroutine.
- **Data.** A raw config is a pair of its controlPlane section (what the
  hash covers) and the rest of the document. It can also be empty or
  invalid.
- **Actions.** `tryLoad` is split where the other goroutine can act:
  - `ReadOk` / `ReadFails` is read, parse, sort and validate;
  - `Compare` is the hash test;
  - `Save` is the file write, which may fail;
  - `Publish` is the pointer store.

  `Receive` is the select of the reload goroutine. `Exit` is its other
  case, the return on `Dying`. `CycleDying` is `loadCycle`'s check of
  `Dying` at the top of each retry, which abandons the load. The
  environment is `ConfigChange`, `Fetch` (the config library loads and
  notifies), `Restart` and `Kill` (`Control.Kill` from
  `HailoServer.Kill`, setting `dying`).
- **Fairness.** Weak fairness on `Receive`, `Exit` and each goroutine's
  load steps. Both goroutines are runnable whenever they have a step. The
  environment is not fair.
- **Bounds.** Two controlPlane sections and two other parts. 3 changes,
  1 restart, 1 failed save.

| Run | Cfg | Expect | Checks |
|---|---|---|---|
| `cp_reload` | `MCControlPlane_fresh.cfg` | pass | `TypeOK` (the file only ever holds a valid config), `FreshWhenQuiescent`, `ConvergesToValidConfig`, `ImplementsConfigSnapshot`, `ShutdownCompletes` |
| `cp_startup_race` | `MCControlPlane_startup.cfg` | violation | `FreshWhenQuiescent` when a change arrives before New returns |

`ChangesDuringStartup = FALSE` keeps changes away until New's own load
has finished. Under that assumption the two loads never leave an older
config published. The violation shows what happens without it: the
unlocked synchronous load publishes after the goroutine did.

**Refinement.** `ConfigSnapshot` says what readers of the snapshot may
rely on, with no goroutines, hash or file:
- `snapshot` is one register. `Install` writes it only with the section
  of a load in flight. `Restart` empties it.
- A load (`BeginLoad`) starts only from a valid config the process
  holds. It ends by `Install`, or by `Drop` when its section is already
  installed.
- The loads in flight are a bag, because both goroutines can carry the
  same section.

`ControlPlane` maps onto it with `cfg <- raw` and `snapshot <- published`.
`loads` maps to the bag of sections held by goroutines at `compare`,
`save` or `publish`. `ImplementsConfigSnapshot` (`Abstract!Spec`) is
checked in `cp_reload`. Its mutant takes the published section from
`config.Raw()` again at the store, instead of from the config the load
read, and the refinement fails on that `Publish` step.

### Throttler

- **State.**
  - `chan` is `ingesterChan`.
  - `buf` / `ver` is the buffer map and the version of the pointer that
    published it.
  - `ipc`, `ikey` and `iver` are the ingester's step, key and loaded
    pointer.
  - `spc`, `sbuf` and `sver` are the synchroniser's step and the buffer it
    swapped out.
  - `throttled` is the published set.
  - The ghost counters are `enq`, `svc` and `discarded`; `rejected` records
    the sessions answered 429.
- **Actions.**
  - `ServeHTTP` is the bucket, the non-blocking send and the 429 test.
  - `Recv`, `Add` and `Cas` are the ingester. An add to a buffer that was
    swapped out after the pointer was loaded lands in the swapped-out map,
    or is lost once that map was reported.
  - `Tick` (swap) and `Report` are the synchroniser. `Report` covers the
    flag being off, success, and failure before or after delivery.
  - `IngesterExit` and `SynchroniserExit` are the `Dying` cases of the
    two selects, and `Kill` is `srv.Tomb.Kill`. Go picks at random among
    ready cases, so `Recv` and `Tick` stay possible while dying.
- **Fairness.** Weak fairness on the ingester (it blocks only on its
  channel and `Dying`) and on the synchroniser (it blocks only on its
  ticker and `Dying`).
- **Bounds.** Two sessions, channel capacity 2, `Limit = 2`, 4 requests,
  3 swaps. That is enough for a drop at a full channel, a swap between
  the pointer load and the add, a new key's copy-and-CAS losing to a
  swap, and a 429.

| Run | Cfg | Expect | Checks |
|---|---|---|---|
| `throttle_counting` | `MCThrottler_count.cfg` | pass | `TypeOK`, `NoDoubleCount`, `LostAtMostOnePerSwap`, `ThrottlerShutdown` |

### Router, Extractor and RequestRouting

- **`Router`.** Operators for `Specificity`, `Less`, the orders
  `Rules.Sort` can produce (`SortedOrders`: every order `Less` accepts,
  since the sort is unstable over map order), `matches`, `sample` (a
  Random roll of exactly 0, a low roll or a high roll), `hashSample`,
  `withinCsv`, `forceRoute`, `Route` (a RECURSIVE walk returning every
  rule some roll can pick), `Find`, `IsOnline`, `Urls`, `Region` and
  `GetHobMode`.
- **`Extractor`.** What `doExtraction`, `Hob`, `Source` and `SessionId`
  find in a raw request:
  - the query, overridden by the body for POST/PUT, overridden by the
    session id;
  - query values only when the body cannot be drained or parsed;
  - the header extractors in either map order.

  One goroutine owns an extractor, and every caller reads the hob before
  any `SetHob`. So the lazy cache only decides when extraction runs, and
  the features are a function of the raw request.
- **`RequestRouting`.**
  - **State.** `snap` is `_loadedConfig`: a config plus the order its
    rules were sorted in. For each concurrent request: its features, the
    rule and region chosen, the snapshots read, the pin headers (URL and
    `X-H-ENDPOINT-TIMESTAMP`), the mode, and the `X-H-Hob` /
    `X-H-Pinning` headers of the H2 answer.
  - **Actions.** `Arrive`, then `RouteStep`, `PinStep`
    (`maybePinRequestToHostname`), `ModeStep` and `Dispatch`. H1,
    throttle and deprecate end at `Dispatch`. No route, an H2 rule and
    an unknown action go on to `h2Handler`. There, `H2Fails` is one of
    its error returns, and `RegionPinning` is an answer followed by
    `regionPinning`. With `X-H-Hob` and `X-H-Pinning: 1`, that calls
    `SetHob`, then `CorrectHostname` again, which reloads the snapshot,
    then `PinTo` (`pinRequestToHostname`), which Sets the headers even
    when the Host is already right. Any step can interleave with
    `Publish`.
  - **Fairness.** None. Only safety is checked.
- **`Sampling`.** `hashSample`'s `fnv.New64` (FNV-1: multiply by the
  prime, then xor the byte) and `% 1000000`, over 8 limbs of 8 bits each.
  TLC's integers are 32-bit. The multiplication by 2^40 + 0x1b3 is a
  shifted add, and the carries go up the limbs with the top one dropped,
  which is the uint64 wrap-around. `Fnv64` is a `FoldLeft` over the
  key's bytes.
  - The check is the repository's test (`rules_test.go`): "foobar" is
    rejected at 0.5, and exactly 480 of "foobarbaz0".."foobarbaz999" are
    accepted.
  - The spec says FNV-1a. FNV-1a accepts 498 of the test keys and samples
    "foobar", so the code is FNV-1. The mutant `Fnv1aStep` shows that
    `HashSampleAgreesWithTests` tells the two apart.
  - In `MCRequestRouting` the sampled values `c1` and `c2` have the bytes
    of "foobar" and "foobarbaz11". Rule `rB` samples customers at 0.5, so
    it can route `c2` and can never route `c1`.
- **Bounds.** Two configs (4 and 2 rules; 3 and 2 regions; DRAINING,
  OFFLINE and missing failover ids; LON and DUB in different regions),
  two requests, 3 arrivals, 2 publishes, and six raw requests. There are
  two H2 answers: one without pinning headers, and one naming DUB, so a
  LON request is re-pinned to another region. The raw requests take their hob from
  the host, from the body over the query, from the host when the body's
  city is empty, and from the query alone with an unparsable body. One of
  them carries both session headers.

| Run | Cfg | Expect | Checks |
|---|---|---|---|
| `routing` | `MCRequestRouting_route.cfg` | pass | `TypeOK`, `RouteIsBestMatch`, `RegionIsSpecRegion` (references written from the spec's ranking and failover rules), `HashSampleAgreesWithTests`, `PinnedToResponseHob` |
| `routing_snapshot_mix` | `MCRequestRouting_snapshot.cfg` | violation | `OneSnapshotPerRequest`: a publish between `Route` and `CorrectHostname` |

`PinnedToResponseHob`:
- **What it says.** After an H2 answer asks for pinning, the response's
  URL is the one that the config stamped in its timestamp gives the
  answer's hob. This holds after any earlier pin and any publish in
  between.
- **Its mutant** lets the request's own city win over the answer's
  hob, as `SetHob` on an unparsed extractor would (`extractor.go:40`).
  The code never does that, because `CorrectHostname` has always
  parsed the request first, so this is not listed as a hazard.

### ConfigSubscribers

- **Parts.** The PCI filter (`handler/pcifilter.go`) and the host
  mappings (`hostmapping/hostmapping.go`), each against the config
  service. A config is a record of the three keys they read:
  `pci.encryptionProxyUrl`, `pci.sensitivePaths` and
  `api.proxyMappings`.
- **PCI filter.** `NewPCIFilter` runs `loadConfig`, then
  `SubscribeChanges`, then starts `listenConfig`. `loadConfig` reads its
  two keys with two `AtPath` calls, so it is two steps, `LoadUrl` and
  `LoadPaths`. The lock it holds does not stop a config reload between
  them. `ListenConfig` receives a notification and runs `loadConfig`
  again. `ListenExit` is its other case, the return on the server
  tomb's `Dying`, which `Kill` sets once `NewServer` has returned.
- **Host mappings.** Package `init` subscribes, starts the goroutine and
  sends on `im`. `Trigger` is the goroutine's select on `ch` or `im`.
  `LoadMappings` is `loadMappings`, whose retry loop runs once because
  `AsStringMap` never fails.
- **Config service.** `ConfigChange` changes the remote config. `Fetch`
  loads it and notifies every subscribed channel. A channel holds at most
  one pending notification, so notifications coalesce.
- **Fairness.** Weak fairness on each goroutine. Each one blocks only on
  its channel. The config service is not fair.
- **Bounds.** Two values of each key (8 configs) and 2 changes. That is
  enough for a change inside `loadConfig`, one before the subscription,
  and two changes coalescing into one notification.

| Run | Cfg | Expect | Checks |
|---|---|---|---|
| `subscribers_reload` | `MCConfigSubscribers_fresh.cfg` | pass | `TypeOK`, `MappingsConverge`, `PCIFilterConverges` with no change before the PCI filter subscribes, `PCIListenerExits` |
| `pci_startup_window` | `MCConfigSubscribers_startup.cfg` | violation | `PCIFilterConverges`: a change fetched between `loadConfig` and `SubscribeChanges` is never applied |

`ChangesBeforeSubscribe` plays the same part as `ChangesDuringStartup` in
`ControlPlane`.
- The host mappings and `controlplane.New` subscribe before they load,
  so they do not have the window.
- `NewPCIFilter` loads first. The counterexample reads the URL and the
  paths, then lets a change land before `Subscribe`. The filter then
  keeps the old URL for good.

### Shutdown

`HailoServer.Kill` kills the server tomb, `Control` and `Monitor`, then
waits on each. Each tomb-based module has a `dying` flag and a `Kill`
action. Every goroutine's `Dying` case is an action, and one liveness
property says the goroutine returns:
- `ShutdownCompletes` (`cp_reload`): the reload goroutine returns after
  `Control.Kill`, even while `loadCycle` retries an invalid config. Its
  mutant drops the `Dying` check in `loadCycle`. The retry loop then
  runs forever.
- `ThrottlerShutdown` (`throttle_counting`): both throttler goroutines
  return while requests keep arriving. The mutant drops the ingester's
  `Dying` case, and the ingester then blocks on an empty channel.
- `PCIListenerExits` (`subscribers_reload`): `listenConfig` returns,
  with config changes still being notified. `PCIFilterConverges` allows
  an exited listener.

A load abandoned by shutdown leaves the snapshot stale. So
`FreshWhenQuiescent` counts a control plane as quiescent only while its
tomb is alive. The host mapping goroutine is not on a tomb and never
returns, so `MappingsConverge` is unchanged. The monitor's return on
`Dying` changes no state and is not modelled.

### Mutants

Each property of a passing run has a mutant in `PROJECT.json`: a
plausible bug in one mapped definition that TLC must catch under the
run's own configuration. Examples:
- the loop retrying after a successful load;
- the file written before validation;
- the CAS replaced by a plain store;
- the swap without a reset;
- FNV-1a instead of FNV-1;
- the host mapping goroutine without its `im` trigger;
- a goroutine's select without its `Dying` case;
- ties broken by the smaller specificity;
- only ONLINE regions counted as online.

### Observed but not kept as runs

These are recorded as hazard notes in `PROJECT.json`:
- The last-good file is not rewritten when only non-controlPlane keys
  change (`controlplane.go:212`).
- Tied rules route by map order (`rules.go:24`).
- A Random roll of exactly 0.0 matches a rule of proportion 0
  (`rules.go:133`).
- `SessionId` picks either session header by map order
  (`session.go:45`).
- `regionPinning` pins whenever the H2 answer names a hob, even when
  the Host is already that region's. The spec (hostname correction)
  attaches the headers only when they differ (`handler.go:73`).
- The throttler counts no session id sent only in the body, because
  `r.Form` is still nil when it runs (`throttling.go:157`).
- `GetHobMode` compares the forced route case-sensitively, and
  `forceRoute` does not (`router.go:57`).
- The drop-off health check reports a 100% drop-off whenever the saved
  rate is 0 and the new one is positive, that is when traffic starts or
  resumes (`healthcheck.go:90`). This was found by reading the code.
- `AzStatusChecker` reads `IsHealthy` and `FailureType` without
  synchronisation. `failoverAZ` writes them in two statements, so the
  details can pair "unhealthy" with "No failures detected". The verdict
  is taken from `IsHealthy` alone (`statusmonitor.go:55`).

An earlier version checked the last two as violation runs. They were
retired in favour of `pci_startup_window`. Each is a single-request
disagreement that a unit test reaches directly.

## 4. Not modelled, and why

- **H1 reverse proxy, H2 marshalling, RPC bridge, errors, CORS, RealIP,
  trace, stats, healthcheck.** Each is a per-request transformation of
  headers and bodies, or network I/O, with no shared state that a
  model checker could usefully explore.
- **Readers of the PCI filter and the host mappings.**
  `IsSensitiveRequest`, `Forward` and `Map` only read under the
  RWMutex.
- **`NewServer` and `main`.** Construction of the handler chain and
  flag parsing hold no state beyond what the component modules start
  with. `HailoServer.Kill` is modelled (see Shutdown).
- **`StatusHandler`.** It dials external hosts, which is pure I/O.
- **The H1, throttle and deprecate backends, the H2 exchange,
  `throttlingscoper.go`.** Each is a per-request translation or network
  call. The handler reads back only the H2 answer's pinning headers,
  which are modelled.
- **The request body after extraction.** When `drainBody` fails, the
  body is restored as nil (`extractor.go:140`). Nothing downstream of
  the extractor is modelled.
- **Random numbers.** `rand.Float32` of the Random sampler is a choice
  among a roll of exactly 0, a low roll and a high roll.
