----------------------------- MODULE AZFailover -----------------------------
(***************************************************************************)
(* The AZ self-health arbiter of src/statusmonitor: every API instance runs *)
(* StatusMonitor.monitor, a loop that checks its RabbitMQ connectivity and *)
(* the monitoring service's verdict on its AZ, and takes itself out of the *)
(* load-balancer pool (IsHealthy = false) after taking or adopting the     *)
(* ephemeral ZooKeeper node /hailo-2-api-az-failover.                       *)
(*                                                                         *)
(* One step per ZooKeeper call or RPC, since those are where the loops of  *)
(* the instances interleave.  The environment (broker connectivity, AZ     *)
(* health, monitoring reachability, process crashes and ZooKeeper session  *)
(* expiry) changes by actions of its own, at most MaxFaults failures.      *)
(***************************************************************************)
EXTENDS Naturals, FiniteSets

CONSTANTS
    Instances,      \* API instances (model values)
    AZs,            \* availability zones (model values)
    AZOf,           \* AZOf[i]: the AZName of instance i
    MaxFaults,      \* bound on environment failures (disconnects, crashes...)
    SessionsExpire  \* whether a ZooKeeper session may expire under a live process

ASSUME AZOf \in [Instances -> AZs] /\ MaxFaults \in Nat /\ SessionsExpire \in BOOLEAN

\* Failure (types.go): NoFailure, ConnectivityFailure, MonitoringFailure
Failures == {"NoFailure", "ConnectivityFailure", "MonitoringFailure"}

\* The absent ZooKeeper node
NoNode == [az |-> "none", owner |-> "none"]

\* Where an instance's monitor goroutine is:
\*  "raven"   about to call raven.IsConnected / interpretRavenStatus
\*  "monitor" about to call checkAZStatus / interpretAZStatus
\*  "create"  failoverAZ: about to zk.Create the lock node
\*  "get"     failoverAZ: Create failed, about to zk.Get the node
\*  "delete"  recoverAZ: about to zk.Delete the node
Pcs == {"raven", "monitor", "create", "get", "delete"}

VARIABLES
    healthy,    \* healthy[i]: StatusMonitor.IsHealthy
    failure,    \* failure[i]: StatusMonitor.FailureType
    handle,     \* handle[i]: lockHandle # ""
    pc,         \* pc[i]: next step of the monitor loop
    attempt,    \* attempt[i]: the Failure failoverAZ was called with
    after,      \* after[i]: the pc the current failover/recovery returns to
    node,       \* the ZooKeeper node at lockPath, or NoNode
    connected,  \* connected[i]: raven.IsConnected() for instance i
    azUp,       \* azUp[a]: what the monitoring service reports for AZ a
    monUp,      \* whether the monitoring service answers at all
    faults      \* environment failures so far

local == <<healthy, failure, handle, pc, attempt, after>>
env == <<connected, azUp, monUp, faults>>
vars == <<healthy, failure, handle, pc, attempt, after, node, connected, azUp, monUp, faults>>

TypeOK ==
    /\ healthy \in [Instances -> BOOLEAN]
    /\ failure \in [Instances -> Failures]
    /\ handle \in [Instances -> BOOLEAN]
    /\ pc \in [Instances -> Pcs]
    /\ attempt \in [Instances -> Failures]
    /\ after \in [Instances -> {"raven", "monitor"}]
    /\ node \in {NoNode} \cup [az : AZs, owner : Instances]
    /\ connected \in [Instances -> BOOLEAN]
    /\ azUp \in [AZs -> BOOLEAN]
    /\ monUp \in BOOLEAN
    /\ faults \in 0..MaxFaults

\* NewStatusMonitor: healthy, no failure, no lock handle
Fresh(i) ==
    /\ healthy' = [healthy EXCEPT ![i] = TRUE]
    /\ failure' = [failure EXCEPT ![i] = "NoFailure"]
    /\ handle' = [handle EXCEPT ![i] = FALSE]

Init ==
    /\ healthy = [i \in Instances |-> TRUE]
    /\ failure = [i \in Instances |-> "NoFailure"]
    /\ handle = [i \in Instances |-> FALSE]
    /\ pc = [i \in Instances |-> "raven"]
    /\ attempt = [i \in Instances |-> "NoFailure"]
    /\ after = [i \in Instances |-> "raven"]
    /\ node = NoNode
    /\ connected = [i \in Instances |-> TRUE]
    /\ azUp = [a \in AZs |-> TRUE]
    /\ monUp = TRUE
    /\ faults = 0

-----------------------------------------------------------------------------
(* failoverAZ and recoverAZ, entered from the two interpret functions.     *)

\* failoverAZ(f): the next step is zk.Create; return to ret afterwards
StartFailover(i, f, ret) ==
    /\ pc' = [pc EXCEPT ![i] = "create"]
    /\ attempt' = [attempt EXCEPT ![i] = f]
    /\ after' = [after EXCEPT ![i] = ret]
    /\ UNCHANGED <<healthy, failure, handle>>

\* Mutant: the state is only cleared on the path that deletes the node
StartRecoverOnlyWithHandle(i, ret) ==
    IF handle[i]
    THEN /\ pc' = [pc EXCEPT ![i] = "delete"]
         /\ after' = [after EXCEPT ![i] = ret]
         /\ UNCHANGED <<healthy, failure, handle, attempt>>
    ELSE /\ pc' = [pc EXCEPT ![i] = ret]
         /\ UNCHANGED <<healthy, failure, handle, attempt, after>>

\* recoverAZ: with a lock handle the next step is zk.Delete; without one
\* the state is cleared at once
StartRecover(i, ret) ==
    IF handle[i]
    THEN /\ pc' = [pc EXCEPT ![i] = "delete"]
         /\ after' = [after EXCEPT ![i] = ret]
         /\ UNCHANGED <<healthy, failure, handle, attempt>>
    ELSE /\ Fresh(i)
         /\ pc' = [pc EXCEPT ![i] = ret]
         /\ UNCHANGED <<attempt, after>>

\* the tail of failoverAZ: IsHealthy = false, FailureType = attempt
MarkFailed(i) ==
    /\ healthy' = [healthy EXCEPT ![i] = FALSE]
    /\ failure' = [failure EXCEPT ![i] = attempt[i]]

\* Mutant: the continuation and the failure type mixed up
ReturnSwapped(i) == pc' = [pc EXCEPT ![i] = attempt[i]]

\* back in the interpret function that called failoverAZ / recoverAZ
Return(i) == pc' = [pc EXCEPT ![i] = after[i]]

-----------------------------------------------------------------------------
(* The monitor loop of one instance.                                       *)

\* ravenStatus := raven.IsConnected(); interpretRavenStatus(ravenStatus).
\* Without connectivity, failoverAZ runs and the loop then sleeps (the
\* monitoring service is only called when connected).
RavenCheck(i) ==
    /\ pc[i] = "raven"
    /\ IF ~connected[i]
       THEN StartFailover(i, "ConnectivityFailure", "raven")
       ELSE IF ~healthy[i] /\ failure[i] = "ConnectivityFailure"
            THEN StartRecover(i, "monitor")
            ELSE /\ pc' = [pc EXCEPT ![i] = "monitor"]
                 /\ UNCHANGED <<healthy, failure, handle, attempt, after>>
    /\ UNCHANGED <<node, env>>

\* checkAZStatus (no retries); on error the loop sleeps in its current
\* state; otherwise interpretAZStatus(azStatus)
Monitor(i) ==
    /\ pc[i] = "monitor"
    /\ LET azStatus == azUp[AZOf[i]] IN
       IF ~monUp
       THEN /\ pc' = [pc EXCEPT ![i] = "raven"]
            /\ UNCHANGED <<healthy, failure, handle, attempt, after>>
       ELSE IF ~azStatus /\ healthy[i]
            THEN StartFailover(i, "MonitoringFailure", "raven")
            ELSE IF azStatus /\ ~healthy[i]
                 THEN StartRecover(i, "raven")
                 ELSE /\ pc' = [pc EXCEPT ![i] = "raven"]
                      /\ UNCHANGED <<healthy, failure, handle, attempt, after>>
    /\ UNCHANGED <<node, env>>

\* s.lockHandle, err = lock(s.AZName): zk.Create of an ephemeral node.  On
\* success this instance owns the failover.  On failure Create returns ""
\* and lockHandle is overwritten with it, whatever it held before.
Create(i) ==
    /\ pc[i] = "create"
    /\ IF node = NoNode
       THEN /\ node' = [az |-> AZOf[i], owner |-> i]
            /\ handle' = [handle EXCEPT ![i] = TRUE]
            /\ MarkFailed(i)
            /\ Return(i)
       ELSE /\ handle' = [handle EXCEPT ![i] = FALSE]
            /\ pc' = [pc EXCEPT ![i] = "get"]
            /\ UNCHANGED <<node, healthy, failure>>
    /\ UNCHANGED <<attempt, after, env>>

\* Mutant: the failedAZ != s.AZName check dropped
GetAdoptsAny(i) ==
    /\ pc[i] = "get"
    /\ IF node # NoNode THEN MarkFailed(i) ELSE UNCHANGED <<healthy, failure>>
    /\ Return(i)
    /\ UNCHANGED <<handle, attempt, after, node, env>>

\* failedAZ, errr := readLock(): a read error returns; another AZ's name
\* aborts the failover; this AZ's name adopts the failed state
Get(i) ==
    /\ pc[i] = "get"
    /\ IF node # NoNode /\ node.az = AZOf[i]
       THEN MarkFailed(i)
       ELSE UNCHANGED <<healthy, failure>>
    /\ Return(i)
    /\ UNCHANGED <<handle, attempt, after, node, env>>

\* recoverAZ with a handle: unlock(lockHandle) is zk.Delete(lockPath, 0),
\* which removes whatever node is at the path (its error is ignored); then
\* the state is cleared
Delete(i) ==
    /\ pc[i] = "delete"
    /\ node' = NoNode
    /\ Fresh(i)
    /\ Return(i)
    /\ UNCHANGED <<attempt, after, env>>

-----------------------------------------------------------------------------
(* The environment.                                                        *)

Fault == faults < MaxFaults /\ faults' = faults + 1

Disconnect(i) ==
    /\ connected[i] /\ Fault
    /\ connected' = [connected EXCEPT ![i] = FALSE]
    /\ UNCHANGED <<azUp, monUp, local, node>>

Reconnect(i) ==
    /\ ~connected[i]
    /\ connected' = [connected EXCEPT ![i] = TRUE]
    /\ UNCHANGED <<azUp, monUp, faults, local, node>>

AZFails(a) ==
    /\ azUp[a] /\ Fault
    /\ azUp' = [azUp EXCEPT ![a] = FALSE]
    /\ UNCHANGED <<connected, monUp, local, node>>

AZRecovers(a) ==
    /\ ~azUp[a]
    /\ azUp' = [azUp EXCEPT ![a] = TRUE]
    /\ UNCHANGED <<connected, monUp, faults, local, node>>

MonitoringFails ==
    /\ monUp /\ Fault
    /\ monUp' = FALSE
    /\ UNCHANGED <<connected, azUp, local, node>>

MonitoringRecovers ==
    /\ ~monUp
    /\ monUp' = TRUE
    /\ UNCHANGED <<connected, azUp, faults, local, node>>

\* The ephemeral node dies with the session that created it
ReleaseSessionOf(i) ==
    node' = IF node # NoNode /\ node.owner = i THEN NoNode ELSE node

\* The process dies and is restarted: NewStatusMonitor and a new session
Crash(i) ==
    /\ Fault
    /\ ReleaseSessionOf(i)
    /\ Fresh(i)
    /\ pc' = [pc EXCEPT ![i] = "raven"]
    /\ UNCHANGED <<attempt, after, connected, azUp, monUp>>

\* The ZooKeeper session expires while the process lives on; the client
\* reconnects with a new session, the StatusMonitor keeps its state
SessionExpires(i) ==
    /\ SessionsExpire /\ Fault
    /\ node # NoNode /\ node.owner = i
    /\ ReleaseSessionOf(i)
    /\ UNCHANGED <<local, connected, azUp, monUp>>

-----------------------------------------------------------------------------

MonitorStep(i) ==
    \/ RavenCheck(i) \/ Monitor(i) \/ Create(i) \/ Get(i) \/ Delete(i)

Environment ==
    \/ \E i \in Instances :
          Disconnect(i) \/ Reconnect(i) \/ Crash(i) \/ SessionExpires(i)
    \/ \E a \in AZs : AZFails(a) \/ AZRecovers(a)
    \/ MonitoringFails \/ MonitoringRecovers

Next == (\E i \in Instances : MonitorStep(i)) \/ Environment

\* Every monitor goroutine runs its loop every retryDelay; the environment
\* is not fair
Spec == Init /\ [][Next]_vars /\ \A i \in Instances : WF_vars(MonitorStep(i))

-----------------------------------------------------------------------------
(* Properties                                                              *)

\* The set of AZs with an instance out of the load-balancer pool
FailedAZs == {AZOf[i] : i \in {j \in Instances : ~healthy[j]}}

\* At most one AZ is failed over cluster-wide at any time (the rule the
\* ZooKeeper node of failoverAZ exists to enforce).
AtMostOneFailedAZ == Cardinality(FailedAZs) <= 1

\* An instance out of the pool is covered by the coordinator node: the node
\* exists and names its AZ (failoverAZ only marks itself failed after
\* creating the node or reading its own AZ from it, and recoverAZ is the
\* only place a node is deleted).
FailedAZHoldsLock ==
    \A i \in Instances : ~healthy[i] => node # NoNode /\ node.az = AZOf[i]

\* A coordinator node is always remembered by the instance that created it,
\* so that its recoverAZ deletes it (lockHandle is the only way back to
\* the node).
NoOrphanLock == node # NoNode => handle[node.owner]

\* The environment is healthy: broker connected, monitoring reachable and
\* reporting every AZ healthy
EnvHealthy ==
    /\ \A i \in Instances : connected[i]
    /\ \A a \in AZs : azUp[a]
    /\ monUp

\* Once the environment stays healthy, every instance returns to the pool
\* for good (recoverAZ after interpretRavenStatus / interpretAZStatus).
RecoversWhenHealthy ==
    <>[]EnvHealthy => <>[](\A i \in Instances : healthy[i])

=============================================================================
