-------------------------- MODULE ConfigSubscribers --------------------------
(***************************************************************************)
(* Two more readers of the config service: the PCI filter                  *)
(* (src/handler/pcifilter.go) and the H1 host mappings                     *)
(* (src/hostmapping/hostmapping.go).  Each keeps its own copy of its keys  *)
(* and reloads it when the config service notifies the channel it got     *)
(* from config.SubscribeChanges.                                           *)
(*                                                                         *)
(*   NewPCIFilter: loadConfig (pci.encryptionProxyUrl, then                *)
(*     pci.sensitivePaths, each read with its own AtPath), then            *)
(*     SubscribeChanges, then listenConfig reloads on every notification.  *)
(*   hostmapping init(): SubscribeChanges, start the goroutine, send on    *)
(*     its own channel im; the goroutine loads on ch or im.                *)
(*                                                                         *)
(* A config document is abstracted to the three keys these read.          *)
(***************************************************************************)
EXTENDS Naturals

CONSTANTS
    Urls,        \* values of pci.encryptionProxyUrl
    PathSets,    \* values of pci.sensitivePaths
    MapSets,     \* values of api.proxyMappings
    NoUrl,       \* currentProxyURL before the first load (nil)
    NoPaths,     \* sensitivePaths before the first load (nil map)
    NoMaps,      \* mappings before the first load (empty map)
    MaxChanges,  \* bound on changes of the remote config
    ChangesBeforeSubscribe  \* whether a change can land before NewPCIFilter subscribes

Configs == [url : Urls, paths : PathSets, maps : MapSets]

VARIABLES
    remote,     \* the config held by the config service
    raw,        \* the config loaded in this process
    pciPc,      \* where NewPCIFilter / listenConfig is
    pciUrl,     \* f.currentProxyURL
    pciPaths,   \* f.sensitivePaths
    pciSub,     \* the PCI filter has subscribed
    pciCh,      \* a notification is pending on the PCI filter's channel
    hmPc,       \* where the host mapping goroutine is
    hmCh,       \* a notification is pending on its channel
    hmIm,       \* the init trigger is pending on im
    mappings,   \* the host mappings
    dying,      \* srv.Tomb is dying (server Kill has run)
    changes

vars == <<remote, raw, pciPc, pciUrl, pciPaths, pciSub, pciCh, hmPc, hmCh, hmIm,
          mappings, dying, changes>>

TypeOK ==
    /\ remote \in Configs /\ raw \in Configs
    /\ pciPc \in {"initUrl", "initPaths", "subscribe", "wait", "loadUrl", "loadPaths", "exited"}
    /\ pciUrl \in Urls \cup {NoUrl}
    /\ pciPaths \in PathSets \cup {NoPaths}
    /\ mappings \in MapSets \cup {NoMaps}
    /\ {pciSub, pciCh, hmCh, hmIm, dying} \subseteq BOOLEAN
    /\ hmPc \in {"wait", "load"}
    /\ changes \in 0..MaxChanges

\* Package init has run (host mappings subscribed, im sent); the server
\* is about to call NewPCIFilter
Init ==
    /\ remote \in Configs
    /\ raw \in Configs
    /\ pciPc = "initUrl" /\ pciUrl = NoUrl /\ pciPaths = NoPaths
    /\ pciSub = FALSE /\ pciCh = FALSE
    /\ hmPc = "wait" /\ hmCh = FALSE /\ hmIm = TRUE /\ mappings = NoMaps
    /\ dying = FALSE /\ changes = 0

-----------------------------------------------------------------------------
(* The PCI filter                                                          *)

\* loadConfig, first half: url.Parse(AtPath("pci","encryptionProxyUrl"));
\* the proxy is rebuilt when the pointer differs, which a new parse always does
LoadUrl ==
    /\ pciPc \in {"initUrl", "loadUrl"}
    /\ pciUrl' = raw.url
    /\ pciPc' = IF pciPc = "initUrl" THEN "initPaths" ELSE "loadPaths"
    /\ UNCHANGED <<dying, remote, raw, pciPaths, pciSub, pciCh, hmPc, hmCh, hmIm, mappings, changes>>

\* loadConfig, second half: sensitivePaths from AtPath("pci","sensitivePaths")
LoadPaths ==
    /\ pciPc \in {"initPaths", "loadPaths"}
    /\ pciPaths' = raw.paths
    /\ pciPc' = IF pciPc = "initPaths" THEN "subscribe" ELSE "wait"
    /\ UNCHANGED <<dying, remote, raw, pciUrl, pciSub, pciCh, hmPc, hmCh, hmIm, mappings, changes>>

\* ch := config.SubscribeChanges(), then listenConfig starts
Subscribe ==
    /\ pciPc = "subscribe"
    /\ pciSub' = TRUE
    /\ pciPc' = "wait"
    /\ UNCHANGED <<dying, remote, raw, pciUrl, pciPaths, pciCh, hmPc, hmCh, hmIm, mappings, changes>>

\* Mutant: a notification reloads the sensitive paths only
ListenConfigPathsOnly ==
    /\ pciPc = "wait"
    /\ pciCh
    /\ pciCh' = FALSE
    /\ pciPc' = "loadPaths"
    /\ UNCHANGED <<dying, remote, raw, pciUrl, pciPaths, pciSub, hmPc, hmCh, hmIm, mappings, changes>>

\* listenConfig: case <-ch
ListenConfig ==
    /\ pciPc = "wait"
    /\ pciCh
    /\ pciCh' = FALSE
    /\ pciPc' = "loadUrl"
    /\ UNCHANGED <<dying, remote, raw, pciUrl, pciPaths, pciSub, hmPc, hmCh, hmIm, mappings, changes>>

\* listenConfig: case <-tomb.Dying(), return.  Go picks at random when a
\* change is pending too, so ListenConfig stays possible.
ListenExit ==
    /\ pciPc = "wait"
    /\ dying
    /\ pciPc' = "exited"
    /\ UNCHANGED <<remote, raw, pciUrl, pciPaths, pciSub, pciCh, hmPc, hmCh, hmIm, mappings,
                   dying, changes>>

\* Mutant: listenConfig's select without the case on Dying
PCIFilterNoDying == LoadUrl \/ LoadPaths \/ Subscribe \/ ListenConfig

PCIFilter == LoadUrl \/ LoadPaths \/ Subscribe \/ ListenConfig \/ ListenExit

-----------------------------------------------------------------------------
(* The host mappings                                                       *)

\* Mutant: the goroutine blocks on the change channel only
TriggerChangesOnly ==
    /\ hmPc = "wait"
    /\ hmCh /\ hmCh' = FALSE /\ UNCHANGED hmIm
    /\ hmPc' = "load"
    /\ UNCHANGED <<dying, remote, raw, pciPc, pciUrl, pciPaths, pciSub, pciCh, mappings, changes>>

\* The goroutine's select: either a change notification or the init trigger
Trigger ==
    /\ hmPc = "wait"
    /\ \/ hmCh /\ hmCh' = FALSE /\ UNCHANGED hmIm
       \/ hmIm /\ hmIm' = FALSE /\ UNCHANGED hmCh
    /\ hmPc' = "load"
    /\ UNCHANGED <<dying, remote, raw, pciPc, pciUrl, pciPaths, pciSub, pciCh, mappings, changes>>

\* Mutant: AtPath("api") read instead of AtPath("api", "proxyMappings")
LoadMappingsParentKey ==
    /\ hmPc = "load"
    /\ mappings' = raw
    /\ hmPc' = "wait"
    /\ UNCHANGED <<dying, remote, raw, pciPc, pciUrl, pciPaths, pciSub, pciCh, hmCh, hmIm, changes>>

\* loadMappings: AsStringMap never fails, so the retry loop runs once
LoadMappings ==
    /\ hmPc = "load"
    /\ mappings' = raw.maps
    /\ hmPc' = "wait"
    /\ UNCHANGED <<dying, remote, raw, pciPc, pciUrl, pciPaths, pciSub, pciCh, hmCh, hmIm, changes>>

HostMappings == Trigger \/ LoadMappings

-----------------------------------------------------------------------------
(* The config service                                                      *)

ConfigChange ==
    /\ changes < MaxChanges
    /\ \E c \in Configs \ {remote} : remote' = c
    /\ changes' = changes + 1
    /\ UNCHANGED <<dying, raw, pciPc, pciUrl, pciPaths, pciSub, pciCh, hmPc, hmCh, hmIm, mappings>>

\* The process loads the new config and notifies every subscribed channel
Fetch ==
    /\ raw # remote
    /\ ChangesBeforeSubscribe \/ pciSub
    /\ raw' = remote
    /\ pciCh' = (pciCh \/ pciSub)
    /\ hmCh' = TRUE
    /\ UNCHANGED <<dying, remote, pciPc, pciUrl, pciPaths, pciSub, hmPc, hmIm, mappings, changes>>

\* HailoServer.Kill, once NewServer has returned (so after NewPCIFilter
\* started listenConfig): srv.Tomb.Kill closes Dying.  The host mapping
\* goroutine is not on the tomb and runs on.
Kill ==
    /\ pciSub
    /\ ~dying
    /\ dying' = TRUE
    /\ UNCHANGED <<remote, raw, pciPc, pciUrl, pciPaths, pciSub, pciCh, hmPc, hmCh, hmIm,
                   mappings, changes>>

Next == PCIFilter \/ HostMappings \/ ConfigChange \/ Fetch \/ Kill

\* Both goroutines run whenever they have a step to take; the config
\* service is not fair
Spec == Init /\ [][Next]_vars /\ WF_vars(PCIFilter) /\ WF_vars(HostMappings)

-----------------------------------------------------------------------------
(* Properties                                                              *)

\* Once the config stops changing, the host mappings used by the H1 proxy
\* are eventually and forever those of the config the process holds,
\* including when no change ever arrives (the init trigger on im).
MappingsConverge == <>[](mappings = raw.maps)

\* Once the config stops changing, the PCI filter eventually and forever
\* filters with the sensitive paths and forwards to the proxy URL of the
\* config the process holds, unless the server was killed and
\* listenConfig returned.
PCIFilterConverges ==
    <>[](pciPc = "exited" \/ (pciUrl = raw.url /\ pciPaths = raw.paths))

\* Once the server is killed, listenConfig eventually returns, even with
\* config changes still arriving on its channel, so the Tomb.Wait in
\* HailoServer.Kill is not held up by the PCI filter.
PCIListenerExits == dying ~> pciPc = "exited"

=============================================================================
