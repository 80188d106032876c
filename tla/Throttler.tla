------------------------------ MODULE Throttler ------------------------------
(***************************************************************************)
(* The throttling handler (src/handler/throttling.go, throttlesync.go).    *)
(*                                                                         *)
(* Requests run ServeHTTP concurrently: each sends its bucket key on the   *)
(* bounded ingester channel (dropping it when the channel is full) and     *)
(* answers 429 when the bucket is in the throttled set.  One ingester      *)
(* goroutine adds each key to the bucket buffer published by an atomic     *)
(* pointer: an atomic add for a key the buffer has, a copy of the map plus *)
(* a compare-and-swap of the pointer for a new key.  One synchroniser      *)
(* goroutine swaps the buffer for an empty one on every tick, reports the  *)
(* old one to the throttling service and publishes the set it answers.    *)
(*                                                                         *)
(* A buffer map is identified by the version of the pointer that published *)
(* it; counts are kept per session bucket.  The throttling service is a    *)
(* stub that throttles a bucket once it was reported Limit increments.     *)
(***************************************************************************)
EXTENDS Integers, Sequences, Functions

CONSTANTS
    Sessions,     \* session ids (model values); bucket "sessId:<s>"
    NoSession,    \* the empty session id
    Requests,     \* requests, as the session id found in each place
    ChanCap,      \* capacity of ingesterChan
    Limit,        \* reported increments after which the service throttles
    MaxRequests,  \* bound on requests served
    MaxSwaps      \* bound on synchroniser ticks

\* The places session.SessionId looks in, each holding a session id or
\* NoSession (an Authorization header holds one only with scheme "token")
Places == {"query", "body", "xapitoken", "authorization"}

ASSUME Requests \subseteq [Places -> Sessions \cup {NoSession}]
ASSUME ChanCap \in Nat \ {0} /\ Limit \in Nat \ {0}
ASSUME MaxRequests \in Nat /\ MaxSwaps \in Nat

\* An empty bucket buffer (a count of 0 means the key is absent)
EmptyBuffer == [s \in Sessions |-> 0]

VARIABLES
    chan,          \* ingesterChan
    buf, ver,      \* the map *bucketBuffer points to, and the pointer's version
    ipc, ikey, iver, \* ingester: next step, key received, pointer loaded
    spc, sbuf, sver, \* synchroniser: next step, the swapped-out map and its version
    throttled,     \* *throttledBuckets
    reportFlag,    \* hailo.service.api.throttling.reportIncrements
    svc,           \* increments the throttling service has received
    \* history of the run, for the properties
    enq,           \* increments handed to the ingester, per session
    discarded,     \* increments dropped with a report that did not reach the service
    dying,         \* srv.Tomb is dying (server Kill has run)
    rejected,      \* sessions that have been answered 429
    requests, swaps

vars == <<chan, buf, ver, ipc, ikey, iver, spc, sbuf, sver, throttled, reportFlag,
          svc, enq, discarded, dying, rejected, requests, swaps>>

TypeOK ==
    /\ chan \in Seq(Sessions) /\ Len(chan) <= ChanCap
    /\ buf \in [Sessions -> Nat] /\ sbuf \in [Sessions -> Nat]
    /\ ver \in Nat /\ iver \in Nat /\ sver \in Nat
    /\ ipc \in {"recv", "add", "cas", "exited"} /\ ikey \in Sessions \cup {NoSession}
    /\ spc \in {"tick", "report", "exited"}
    /\ throttled \subseteq Sessions
    /\ {reportFlag, dying} \subseteq BOOLEAN
    /\ svc \in [Sessions -> Nat] /\ enq \in [Sessions -> Nat]
    /\ discarded \in [Sessions -> Nat]
    /\ rejected \subseteq Sessions

Init ==
    /\ chan = <<>>
    /\ buf = EmptyBuffer /\ ver = 0
    /\ ipc = "recv" /\ ikey = NoSession /\ iver = 0
    /\ spc = "tick" /\ sbuf = EmptyBuffer /\ sver = 0
    /\ throttled = {}
    /\ reportFlag \in BOOLEAN
    /\ svc = EmptyBuffer /\ enq = EmptyBuffer /\ discarded = EmptyBuffer
    /\ dying = FALSE /\ rejected = {}
    /\ requests = 0 /\ swaps = 0

-----------------------------------------------------------------------------
(* session.SessionId as the throttler sees it.  The throttler runs before  *)
(* any handler calls ParseForm, so r.Form is empty and the body is never   *)
(* looked at; the header extractors are held in a map, so either header   *)
(* may be tried first.                                                     *)

SessionIds(r) ==
    LET headers == {r.xapitoken, r.authorization} \ {NoSession}
    IN  IF r.query # NoSession THEN {r.query}
        ELSE IF headers # {} THEN headers
        ELSE {NoSession}

\* Mutant: buckets without the check for an empty session id
ServeHTTPEmptyBucket ==
    /\ requests < MaxRequests
    /\ requests' = requests + 1
    /\ \E r \in Requests : \E sid \in SessionIds(r) :
        /\ IF Len(chan) < ChanCap
           THEN /\ chan' = Append(chan, sid)
                /\ enq' = [enq EXCEPT ![sid] = @ + 1]
           ELSE UNCHANGED <<chan, enq>>
        /\ rejected' = IF sid \in throttled THEN rejected \cup {sid} ELSE rejected
    /\ UNCHANGED <<dying, buf, ver, ipc, ikey, iver, spc, sbuf, sver, throttled, reportFlag,
                   svc, discarded, swaps>>

\* ServeHTTP: buckets, a non-blocking send of each, then anyThrottled
ServeHTTP ==
    /\ requests < MaxRequests
    /\ requests' = requests + 1
    /\ \E r \in Requests : \E sid \in SessionIds(r) :
        /\ IF sid # NoSession /\ Len(chan) < ChanCap
           THEN /\ chan' = Append(chan, sid)
                /\ enq' = [enq EXCEPT ![sid] = @ + 1]
           ELSE UNCHANGED <<chan, enq>>
        /\ rejected' = IF sid \in throttled THEN rejected \cup {sid} ELSE rejected
    /\ UNCHANGED <<dying, buf, ver, ipc, ikey, iver, spc, sbuf, sver, throttled, reportFlag,
                   svc, discarded, swaps>>

-----------------------------------------------------------------------------
(* The ingester goroutine                                                  *)

\* Mutant: the buffer pointer loaded once, outside the receive loop
RecvStalePointer ==
    /\ ipc = "recv"
    /\ chan # <<>>
    /\ ikey' = Head(chan)
    /\ chan' = Tail(chan)
    /\ UNCHANGED iver
    /\ ipc' = IF buf[Head(chan)] > 0 THEN "add" ELSE "cas"
    /\ UNCHANGED <<dying, buf, ver, spc, sbuf, sver, throttled, reportFlag, svc, enq,
                   discarded, rejected, requests, swaps>>

\* Receive a key, load the buffer pointer and look the key up in that map
Recv ==
    /\ ipc = "recv"
    /\ chan # <<>>
    /\ ikey' = Head(chan)
    /\ chan' = Tail(chan)
    /\ iver' = ver
    /\ ipc' = IF buf[Head(chan)] > 0 THEN "add" ELSE "cas"
    /\ UNCHANGED <<dying, buf, ver, spc, sbuf, sver, throttled, reportFlag, svc, enq,
                   discarded, rejected, requests, swaps>>

\* atomic.AddUint64 on the counter of the map loaded: the current buffer,
\* the swapped-out one not yet read by reportIncrements, or a map nobody
\* will read again (the increment is lost)
Add ==
    /\ ipc = "add"
    /\ IF iver = ver
       THEN /\ buf' = [buf EXCEPT ![ikey] = @ + 1]
            /\ UNCHANGED sbuf
       ELSE IF iver = sver /\ spc = "report"
       THEN /\ sbuf' = [sbuf EXCEPT ![ikey] = @ + 1]
            /\ UNCHANGED buf
       ELSE UNCHANGED <<buf, sbuf>>
    /\ ipc' = "recv" /\ ikey' = NoSession
    /\ UNCHANGED <<dying, chan, ver, iver, spc, sver, throttled, reportFlag, svc, enq,
                   discarded, rejected, requests, swaps>>

\* Mutant: the copy published with a plain store instead of the CAS
StoreCopy ==
    /\ ipc = "cas"
    /\ buf' = [s \in Sessions |-> IF s = ikey THEN 1
                                 ELSE IF iver = ver THEN buf[s]
                                 ELSE IF iver = sver THEN sbuf[s] ELSE 0]
    /\ ver' = ver + 1
    /\ ipc' = "recv" /\ ikey' = NoSession
    /\ UNCHANGED <<dying, chan, iver, spc, sbuf, sver, throttled, reportFlag, svc, enq,
                   discarded, rejected, requests, swaps>>

\* Copy the loaded map, add the key with count 1 and CompareAndSwapPointer;
\* when the pointer moved, reload it and go again
Cas ==
    /\ ipc = "cas"
    /\ IF iver = ver
       THEN /\ buf' = [buf EXCEPT ![ikey] = 1]
            /\ ver' = ver + 1
            /\ ipc' = "recv" /\ ikey' = NoSession
            /\ UNCHANGED iver
       ELSE /\ iver' = ver
            /\ UNCHANGED <<buf, ver, ipc, ikey>>
    /\ UNCHANGED <<dying, chan, spc, sbuf, sver, throttled, reportFlag, svc, enq,
                   discarded, rejected, requests, swaps>>

-----------------------------------------------------------------------------
(* The synchroniser goroutine                                              *)

\* On a tick, SwapPointer the buffer for a new empty map
Tick ==
    /\ spc = "tick"
    /\ swaps < MaxSwaps
    /\ swaps' = swaps + 1
    /\ sbuf' = buf /\ sver' = ver
    /\ buf' = EmptyBuffer /\ ver' = ver + 1
    /\ spc' = "report"
    /\ UNCHANGED <<dying, chan, ipc, ikey, iver, throttled, reportFlag, svc, enq,
                   discarded, rejected, requests>>

\* The stub throttling service's answer after receiving the totals t
ThrottledBy(t) == {s \in Sessions : t[s] >= Limit}

\* reportIncrements, then StorePointer of the throttled set.  With the flag
\* off nothing is sent and the set is empty.  The checkin call either
\* succeeds, or fails (before or after the service took the increments)
\* and the synchroniser stores the empty set.
Report ==
    /\ spc = "report"
    /\ LET sent == Pointwise(svc, sbuf, +)
       IN \/ /\ ~reportFlag
             /\ discarded' = Pointwise(discarded, sbuf, +)
             /\ throttled' = {}
             /\ UNCHANGED svc
          \/ /\ reportFlag
             /\ svc' = sent
             /\ throttled' = ThrottledBy(sent)
             /\ UNCHANGED discarded
          \/ /\ reportFlag
             /\ \/ svc' = sent /\ UNCHANGED discarded
                \/ discarded' = Pointwise(discarded, sbuf, +) /\ UNCHANGED svc
             /\ throttled' = {}
    /\ spc' = "tick"
    /\ UNCHANGED <<dying, chan, buf, ver, ipc, ikey, iver, sbuf, sver, reportFlag, enq,
                   rejected, requests, swaps>>

-----------------------------------------------------------------------------

\* The ingester's select finds the tomb dying and returns.  Go picks at
\* random among ready cases, so Recv stays possible while keys are queued.
IngesterExit ==
    /\ ipc = "recv"
    /\ dying
    /\ ipc' = "exited"
    /\ UNCHANGED <<chan, buf, ver, ikey, iver, spc, sbuf, sver, throttled, reportFlag,
                   svc, enq, discarded, dying, rejected, requests, swaps>>

\* The synchroniser's select finds the tomb dying and returns (a report
\* under way is finished first: Dying is looked at only in the select)
SynchroniserExit ==
    /\ spc = "tick"
    /\ dying
    /\ spc' = "exited"
    /\ UNCHANGED <<chan, buf, ver, ipc, ikey, iver, sbuf, sver, throttled, reportFlag,
                   svc, enq, discarded, dying, rejected, requests, swaps>>

\* HailoServer.Kill: srv.Tomb.Kill closes Dying
Kill ==
    /\ ~dying
    /\ dying' = TRUE
    /\ UNCHANGED <<chan, buf, ver, ipc, ikey, iver, spc, sbuf, sver, throttled, reportFlag,
                   svc, enq, discarded, rejected, requests, swaps>>

-----------------------------------------------------------------------------

\* Mutant: ingesterWorker's select without the case on Dying
IngesterNoDying == Recv \/ Add \/ Cas

Ingester == Recv \/ Add \/ Cas \/ IngesterExit

Synchroniser == Tick \/ Report \/ SynchroniserExit

Next == ServeHTTP \/ Ingester \/ Synchroniser \/ Kill

\* Both goroutines run whenever they have work: the ingester blocks only on
\* its channel and Dying, the synchroniser only on its ticker and Dying
Spec == Init /\ [][Next]_vars /\ WF_vars(Ingester) /\ WF_vars(Synchroniser)

-----------------------------------------------------------------------------
(* Properties                                                              *)

\* Increments of session s still on their way to the service
Pending(s) ==
    Len(SelectSeq(chan, LAMBDA k : k = s))
    + buf[s]
    + (IF spc = "report" THEN sbuf[s] ELSE 0)
    + (IF ipc \in {"add", "cas"} /\ ikey = s THEN 1 ELSE 0)

\* Increments handed to the ingester that are neither pending, received by
\* the service nor dropped with a failed or disabled report: the lost ones
Lost(s) == enq[s] - svc[s] - discarded[s] - Pending(s)

\* No increment reaches the throttling service twice: the buffer swap, the
\* copy-and-CAS of a new key and the counters shared between copies never
\* make the service see more increments of a session than were sent.
NoDoubleCount == \A s \in Sessions : Lost(s) >= 0

\* The comment of ingesterWorker: an increment in flight when the
\* synchroniser swaps the buffer may be lost, at most one per swap.
LostAtMostOnePerSwap == SumFunction([s \in Sessions |-> Lost(s)]) <= swaps

\* Once the server is killed, both goroutines started on srv.Tomb eventually
\* return, so the Tomb.Wait in HailoServer.Kill does not wait on them
\* forever, whatever requests keep arriving meanwhile.
ThrottlerShutdown == dying ~> (ipc = "exited" /\ spc = "exited")

=============================================================================
