---------------------------- MODULE ControlPlane ----------------------------
(***************************************************************************)
(* The control plane's config reload (src/controlplane/controlplane.go).   *)
(*                                                                         *)
(* Two goroutines run tryLoad: the one New starts, which waits for a       *)
(* change notification and then runs loadCycle (under loadCycleLock,       *)
(* retrying until tryLoad succeeds), and New's own synchronous first       *)
(* tryLoad, which takes no lock.  tryLoad is split where another goroutine *)
(* can act between its parts: reading config.Raw() (and parsing,           *)
(* validating), comparing the hash with the current snapshot's, writing    *)
(* the last-good file, and storing the new snapshot pointer.               *)
(*                                                                         *)
(* A raw config is abstracted to its controlPlane section (what the hash   *)
(* covers) and the rest of the document, or to an empty or invalid one.    *)
(***************************************************************************)
EXTENDS Naturals, FiniteSets

CONSTANTS
    CPs,                   \* controlPlane sections (model values)
    Others,                \* the rest of a config document (model values)
    MaxChanges,            \* bound on changes of the remote config
    MaxRestarts,           \* bound on process restarts
    MaxSaveFailures,       \* bound on failed writes of the last-good file
    ChangesDuringStartup   \* whether a change can arrive before New returns

ASSUME MaxChanges \in Nat /\ MaxRestarts \in Nat /\ MaxSaveFailures \in Nat
ASSUME ChangesDuringStartup \in BOOLEAN

\* A config that parses and passes SortedRules.Validate and Regions.Validate
ValidRaw == [cp : CPs, other : Others]

\* config.Raw() of zero length, and a document failing to parse or validate
Empty == [bad |-> "empty"]
Invalid == [bad |-> "invalid"]
BadRaw == {Empty, Invalid}

RawConfigs == ValidRaw \cup BadRaw

\* loadedCpConfig{}: the snapshot before the first load (configHash "")
NoSnapshot == "none"

\* the last-good file before anything was saved
NoFile == [bad |-> "nofile"]

\* the goroutines running tryLoad
Procs == {"init", "loop"}

VARIABLES
    remote,     \* the config held by the config service
    raw,        \* config.Raw() in this process
    notified,   \* a change notification is pending on the subscription
    published,  \* the controlPlane section of *_loadedConfig
    file,       \* the last-good file
    pc,         \* pc[p]: next step of goroutine p
    seen,       \* seen[p]: the config tryLoad of p read
    dying,      \* the control plane's tomb has been killed
    changes, restarts, saveFailures

vars == <<remote, raw, notified, published, file, pc, seen, dying, changes, restarts, saveFailures>>

TypeOK ==
    /\ remote \in RawConfigs
    /\ raw \in RawConfigs
    /\ notified \in BOOLEAN
    /\ published \in CPs \cup {NoSnapshot}
    /\ file \in ValidRaw \cup {NoFile}
    /\ pc \in [Procs -> {"read", "compare", "save", "publish", "done", "wait", "exited"}]
    /\ dying \in BOOLEAN
    /\ seen \in [Procs -> ValidRaw \cup {NoFile}]
    /\ changes \in 0..MaxChanges
    /\ restarts \in 0..MaxRestarts
    /\ saveFailures \in 0..MaxSaveFailures

\* LoadLastGoodConfig: config.Load of the last-good file, if there is one
RawAfterStart(f) == IF f = NoFile THEN Empty ELSE f

\* Process start: init() loads the last-good file, then New subscribes,
\* starts the reload goroutine and runs the synchronous tryLoad
Start(f) ==
    /\ raw = RawAfterStart(f)
    /\ notified = FALSE
    /\ published = NoSnapshot
    /\ pc = [p \in Procs |-> IF p = "init" THEN "read" ELSE "wait"]
    /\ seen = [p \in Procs |-> NoFile]
    /\ dying = FALSE

Init ==
    /\ file \in ValidRaw \cup {NoFile}
    /\ remote \in RawConfigs
    /\ Start(file)
    /\ changes = 0 /\ restarts = 0 /\ saveFailures = 0

-----------------------------------------------------------------------------
(* tryLoad, one step per part, for goroutine p.                            *)

\* Mutant: a break that leaves only the select, so loadCycle loads again
SucceedRetries(p) == pc' = [pc EXCEPT ![p] = IF p = "init" THEN "done" ELSE "read"]

\* tryLoad returned: the synchronous first load is over; loadCycle returns
\* to the select of the reload goroutine
Succeed(p) == pc' = [pc EXCEPT ![p] = IF p = "init" THEN "done" ELSE "wait"]

\* The reload goroutine's select: a change notification starts loadCycle
Receive ==
    /\ pc["loop"] = "wait"
    /\ notified
    /\ notified' = FALSE
    /\ pc' = [pc EXCEPT !["loop"] = "read"]
    /\ UNCHANGED <<remote, raw, published, file, seen, dying, changes, restarts, saveFailures>>

\* rawConfig := config.Raw(); json.Unmarshal; Sort; Validate (in loadCycle,
\* after the select at the top of the loop found the tomb alive)
ReadOk(p) ==
    /\ pc[p] = "read"
    /\ ~dying
    /\ raw \in ValidRaw
    /\ seen' = [seen EXCEPT ![p] = raw]
    /\ pc' = [pc EXCEPT ![p] = "compare"]
    /\ UNCHANGED <<remote, raw, notified, published, file, dying, changes, restarts, saveFailures>>

\* Mutant helper: a failed load retried without looking at the tomb
ReadFailsUnguarded(p) ==
    /\ pc[p] = "read"
    /\ raw \in BadRaw
    /\ pc' = [pc EXCEPT ![p] = IF p = "init" THEN "done" ELSE "read"]
    /\ UNCHANGED <<remote, raw, notified, published, file, seen, dying, changes, restarts, saveFailures>>

\* tryLoad returns an error: New logs it; loadCycle sleeps reloadFailDelay
\* and tries again
ReadFails(p) ==
    /\ pc[p] = "read"
    /\ ~dying
    /\ raw \in BadRaw
    /\ pc' = [pc EXCEPT ![p] = IF p = "init" THEN "done" ELSE "read"]
    /\ UNCHANGED <<remote, raw, notified, published, file, seen, dying, changes, restarts, saveFailures>>

\* loadCycle's select at the top of the loop: the tomb is dying, so it
\* breaks out and returns to the reload goroutine's select
CycleDying(p) ==
    /\ pc[p] = "read"
    /\ p = "loop"
    /\ dying
    /\ pc' = [pc EXCEPT ![p] = "wait"]
    /\ UNCHANGED <<remote, raw, notified, published, file, seen, dying, changes, restarts, saveFailures>>

\* Mutant: compared with the last-good file instead of the snapshot
CompareWithFile(p) ==
    /\ pc[p] = "compare"
    /\ IF file # NoFile /\ seen[p].cp = file.cp
       THEN Succeed(p)
       ELSE pc' = [pc EXCEPT ![p] = "save"]
    /\ UNCHANGED <<remote, raw, notified, published, file, seen, dying, changes, restarts, saveFailures>>

\* newHash == cp.currentHash(): nothing to do when the controlPlane section
\* is the published one
Compare(p) ==
    /\ pc[p] = "compare"
    /\ IF seen[p].cp = published
       THEN Succeed(p)
       ELSE pc' = [pc EXCEPT ![p] = "save"]
    /\ UNCHANGED <<remote, raw, notified, published, file, seen, dying, changes, restarts, saveFailures>>

\* Mutant: the file written before the config is validated
SaveUnvalidated(p) ==
    /\ pc[p] = "save"
    /\ file' = raw
    /\ pc' = [pc EXCEPT ![p] = "publish"]
    /\ UNCHANGED <<remote, raw, notified, published, seen, dying, changes, restarts, saveFailures>>

\* tmp.saveConfigToFile(rawConfig): temp file then rename, so the file is
\* either replaced whole or left as it was (the error is only logged)
Save(p) ==
    /\ pc[p] = "save"
    /\ \/ /\ file' = seen[p]
          /\ UNCHANGED saveFailures
       \/ /\ saveFailures < MaxSaveFailures
          /\ saveFailures' = saveFailures + 1
          /\ UNCHANGED file
    /\ pc' = [pc EXCEPT ![p] = "publish"]
    /\ UNCHANGED <<remote, raw, notified, published, seen, dying, changes, restarts>>

\* Mutant: the section taken from config.Raw() again at the store
PublishRereads(p) ==
    /\ pc[p] = "publish"
    /\ published' = IF raw \in ValidRaw THEN raw.cp ELSE seen[p].cp
    /\ Succeed(p)
    /\ UNCHANGED <<remote, raw, notified, file, seen, dying, changes, restarts, saveFailures>>

\* atomic.StorePointer(&cp._loadedConfig, ...)
Publish(p) ==
    /\ pc[p] = "publish"
    /\ published' = seen[p].cp
    /\ Succeed(p)
    /\ UNCHANGED <<remote, raw, notified, file, seen, dying, changes, restarts, saveFailures>>

\* The reload goroutine's select: the tomb is dying, the goroutine returns
Exit ==
    /\ pc["loop"] = "wait"
    /\ dying
    /\ pc' = [pc EXCEPT !["loop"] = "exited"]
    /\ UNCHANGED <<remote, raw, notified, published, file, seen, dying, changes, restarts, saveFailures>>

-----------------------------------------------------------------------------
(* The environment: the config service, process restarts and shutdown.    *)

\* HailoServer.Kill: Control.Kill on the server New returned, then
\* Control.Wait until the reload goroutine has returned
Kill ==
    /\ pc["init"] = "done"
    /\ ~dying
    /\ dying' = TRUE
    /\ UNCHANGED <<remote, raw, notified, published, file, pc, seen, changes, restarts, saveFailures>>

\* The config changes at its source
ConfigChange ==
    /\ changes < MaxChanges
    /\ \E c \in RawConfigs \ {remote} : remote' = c
    /\ changes' = changes + 1
    /\ UNCHANGED <<raw, notified, published, file, pc, seen, dying, restarts, saveFailures>>

\* The config service loads the new config and notifies its subscribers
Fetch ==
    /\ raw # remote
    /\ ChangesDuringStartup \/ pc["init"] = "done"
    /\ raw' = remote
    /\ notified' = TRUE
    /\ UNCHANGED <<remote, published, file, pc, seen, dying, changes, restarts, saveFailures>>

\* The process dies at any point and is started again; only the file and
\* the remote config survive
Restart ==
    /\ restarts < MaxRestarts
    /\ restarts' = restarts + 1
    /\ raw' = RawAfterStart(file)
    /\ notified' = FALSE
    /\ published' = NoSnapshot
    /\ pc' = [p \in Procs |-> IF p = "init" THEN "read" ELSE "wait"]
    /\ seen' = [p \in Procs |-> NoFile]
    /\ dying' = FALSE
    /\ UNCHANGED <<remote, file, changes, saveFailures>>

-----------------------------------------------------------------------------

\* Mutant: loadCycle without the select on Dying at the top of its loop
LoadStepNoDying(p) ==
    ReadOk(p) \/ ReadFailsUnguarded(p) \/ Compare(p) \/ Save(p) \/ Publish(p)

LoadStep(p) ==
    ReadOk(p) \/ ReadFails(p) \/ CycleDying(p) \/ Compare(p) \/ Save(p) \/ Publish(p)

Next ==
    \/ Receive \/ Exit
    \/ \E p \in Procs : LoadStep(p)
    \/ ConfigChange \/ Fetch \/ Restart \/ Kill

\* Both goroutines are runnable whenever they have a step to take; the
\* select takes the Dying case when it is the only one ready
Spec ==
    /\ Init /\ [][Next]_vars
    /\ WF_vars(Receive) /\ WF_vars(Exit) /\ \A p \in Procs : WF_vars(LoadStep(p))

-----------------------------------------------------------------------------
(* Refinement of ConfigSnapshot.  A goroutine between its read and the    *)
(* end of its tryLoad carries a load; the loads in flight are the bag of  *)
(* the sections those goroutines read.                                     *)

Loading == {p \in Procs : pc[p] \in {"compare", "save", "publish"}}

LoadsInFlight ==
    [c \in {seen[p].cp : p \in Loading} |->
        Cardinality({p \in Loading : seen[p].cp = c})]

Abstract == INSTANCE ConfigSnapshot WITH cfg <- raw, snapshot <- published, loads <- LoadsInFlight

-----------------------------------------------------------------------------
(* Properties                                                              *)

\* No load is running or due: New has returned, the reload goroutine waits
\* on its select, no notification is pending and no shutdown has abandoned
\* a load
Quiescent == pc["init"] = "done" /\ pc["loop"] = "wait" /\ ~notified /\ ~dying

\* Once loading is quiescent, the published snapshot is the controlPlane
\* section of the config the process holds, whenever that config is valid
\* (the loads of New and of the reload goroutine together never leave an
\* older config published).
FreshWhenQuiescent ==
    Quiescent /\ raw \in ValidRaw => published = raw.cp

\* Once the config service stops changing, the loads settle: whenever the
\* process holds a valid config, eventually and from then on loadCycle has
\* returned, no notification is pending and that config is published.
\* (While the config is invalid loadCycle retries every second forever.)
\* After a shutdown nothing is reloaded any more.
ConvergesToValidConfig ==
    <>[](pc["loop"] = "exited" \/ (raw \in ValidRaw => Quiescent /\ published = raw.cp))

\* The reload of New and loadCycle implements the atomic snapshot register:
\* every publish installs the section of a validated config some tryLoad
\* read, and every tryLoad that stops at the hash test stops because its
\* section is the published one.
ImplementsConfigSnapshot == Abstract!Spec


\* A shutdown completes: once HailoServer.Kill has killed the control
\* plane's tomb, the reload goroutine eventually returns, so Control.Wait
\* returns, even while loadCycle is retrying an invalid config (unless the
\* process dies first).
ShutdownCompletes == dying ~> (pc["loop"] = "exited" \/ ~dying)

=============================================================================
