---------------------------- MODULE LoadShedding ----------------------------
(***************************************************************************)
(* The load shedder: QueueDepthMonitor (internal/streams/monitor.go), the  *)
(* check IngestWebhook makes of it (internal/handler/webhooks.go), and the *)
(* work queue whose backlog it samples.                                    *)
(*                                                                         *)
(* The API may run in several copies, each with a monitor of its own.  A   *)
(* monitor's goroutine samples lag + pending with XINFO GROUPS and then    *)
(* applies the sample; request goroutines read only the flag, and publish  *)
(* some time later.  The client of Redis sends a command again when its    *)
(* reply is lost, and an XADD that took effect before queues a second      *)
(* entry.  The consumers here are the workers of Worker reduced to what    *)
(* the backlog sees: a batch is taken, each of its ids is acked, or left   *)
(* pending for good when a worker crashes, stops or fails to ack it.       *)
(***************************************************************************)
EXTENDS WorkQueue

CONSTANTS
    Apis,           \* the copies of the API process
    HighWater,      \* cfg.IngestMaxQueueDepth; 0 disables shedding
    LowWaterPct,    \* cfg.QueueDepthLowWaterPct
    Requests,       \* request goroutines of one copy
    Sends,          \* how often the client sends a command at most
    Burst,          \* bound on the environment: entries queued between two
                    \* steps of a monitor
    MaxAbandoned,   \* bound of the model: entries left pending by their worker
    MaxRestarts     \* bound of the model: restarts of copies

ASSUME SheddingAssumption ==
    /\ HighWater \in Nat /\ LowWaterPct \in Int
    /\ Sends \in Nat \ {0} /\ Burst \in Nat
    /\ MaxAbandoned \in Nat /\ MaxRestarts \in Nat

VARIABLES
    due,        \* sendings of admitted requests' XADDs that may still take place
    inHand,     \* pending ids that a worker will still ack
    sample,     \* by copy: what XINFO GROUPS returned to poll, or NoSample
    backlog,    \* by copy: m.backlog, the last sample applied
    shedding,   \* by copy: m.shedding
    burst,      \* entries queued since each copy's monitor last stepped
    restarts    \* how often a copy restarted

monitor == <<sample, backlog, shedding>>
vars == <<qvars, due, inHand, monitor, burst, restarts>>

NoSample == -1

\* What a request that was just admitted may send, and what is left of it.
Sendings(a, r) == {a} \X {r} \X (1 .. Sends)

Left(a, r) == due \cap Sendings(a, r)

\* What the system has taken on: queued, pending, or still to be queued.
Demand == Lag + Pending + Cardinality(due)

Stranded == pel \ inHand

----------------------------------------------------------------------------
\* NewQueueDepthMonitor: the percentage clamped to 0 .. 100, then taken of
\* HighWater with integer division.
LowWater ==
    LET pct == IF LowWaterPct < 0 THEN 0 ELSE IF LowWaterPct > 100 THEN 100 ELSE LowWaterPct
    IN  (HighWater * pct) \div 100

\* Faulty variant: the request path compares the last sample with HighWater
\* instead of reading the flag.
ShouldShedByDepth(a) == HighWater > 0 /\ backlog[a] > HighWater

ShouldShed(a) == HighWater > 0 /\ shedding[a]

\* Faulty variants: the low mark is never looked at, or never reached.
SheddingAfterNoRelease(up, b) == up \/ b >= HighWater
SheddingAfterAbove(up, b) == IF up THEN b > LowWater ELSE b > HighWater + 1

\* Update: what a sample b does to a flag.
SheddingAfter(up, b) ==
    IF HighWater = 0 THEN up
    ELSE IF up THEN b > LowWater ELSE b >= HighWater

\* Every copy has booted: the group exists, nothing is sampled yet.
Init ==
    /\ stream = <<>> /\ trimmed = 0
    /\ origin = 0 /\ last = 0
    /\ pel = {} /\ delivered = {}
    /\ due = {} /\ inHand = {}
    /\ sample = [a \in Apis |-> NoSample]
    /\ backlog = [a \in Apis |-> 0]
    /\ shedding = [a \in Apis |-> FALSE]
    /\ burst = [a \in Apis |-> 0]
    /\ restarts = 0

----------------------------------------------------------------------------
\* IngestWebhook up to the shed check.  A request that is shed is answered 429
\* and changes nothing.
Admit(a, r) ==
    /\ Left(a, r) = {}
    /\ ~ShouldShed(a)
    /\ due' = due \cup Sendings(a, r)
    /\ UNCHANGED <<qvars, inHand, monitor, burst, restarts>>

\* An XADD of a request takes effect.
Queued(e) ==
    /\ \A a \in Apis : burst[a] < Burst
    /\ Publish(e)
    /\ burst' = [a \in Apis |-> burst[a] + 1]
    /\ UNCHANGED <<inHand, monitor, restarts>>

\* The rest of IngestWebhook: the event is queued (202) ...
Enqueue(a, r, e) ==
    /\ Left(a, r) # {}
    /\ Queued(e)
    /\ due' = due \ Left(a, r)

\* ... queued by an XADD whose reply is lost, so that the client sends it again,
\* if it has not done so often enough already (500).  A sending that reaches
\* Redis after the request gave up is one of a request that gives up later ...
EnqueueReplyLost(a, r, e) ==
    \E s \in Left(a, r) :
       /\ \A t \in Left(a, r) : s[3] <= t[3]
       /\ Queued(e)
       /\ due' = due \ {s}

\* ... or refused: a missing header, an unreadable body (400), Redis (500).
Refuse(a, r) ==
    /\ Left(a, r) # {}
    /\ due' = due \ Left(a, r)
    /\ UNCHANGED <<qvars, inHand, monitor, burst, restarts>>

\* A worker reads a batch, and acks one of the entries it holds.
Take ==
    /\ Read
    /\ inHand' = inHand \cup (NextId .. BatchEnd)
    /\ UNCHANGED <<due, monitor, burst, restarts>>

Finish(i) ==
    /\ i \in inHand
    /\ Ack(i)
    /\ inHand' = inHand \ {i}
    /\ UNCHANGED <<due, monitor, burst, restarts>>

\* It crashes, is stopped or fails to ack before it has finished the entry.
Abandon(i) ==
    /\ i \in inHand
    /\ Cardinality(Stranded) < MaxAbandoned
    /\ inHand' = inHand \ {i}
    /\ UNCHANGED <<qvars, due, monitor, burst, restarts>>

(***************************************************************************)
(* One tick of Run: poll's XINFO GROUPS, then Update.  A poll that fails   *)
(* (Redis out of reach, group missing, lag unknown) changes nothing.       *)
(***************************************************************************)
PollSample(a) ==
    /\ sample[a] = NoSample
    /\ sample' = [sample EXCEPT ![a] = Lag + Pending]
    /\ burst' = [burst EXCEPT ![a] = 0]
    /\ UNCHANGED <<qvars, due, inHand, backlog, shedding, restarts>>

PollUpdate(a) ==
    /\ sample[a] # NoSample
    /\ backlog' = [backlog EXCEPT ![a] = sample[a]]
    /\ shedding' = [shedding EXCEPT ![a] = SheddingAfter(@, sample[a])]
    /\ sample' = [sample EXCEPT ![a] = NoSample]
    /\ burst' = [burst EXCEPT ![a] = 0]
    /\ UNCHANGED <<qvars, due, inHand, restarts>>

\* A copy restarts: its requests and its monitor start from nothing, the group
\* is there already, and boot cuts the stream to its cap.
ApiRestart(a) ==
    /\ restarts < MaxRestarts
    /\ restarts' = restarts + 1
    /\ EnsureGroup
    /\ due' = {s \in due : s[1] # a}
    /\ sample' = [sample EXCEPT ![a] = NoSample]
    /\ backlog' = [backlog EXCEPT ![a] = 0]
    /\ shedding' = [shedding EXCEPT ![a] = FALSE]
    /\ UNCHANGED <<inHand, burst>>

BootTrim(a) ==
    /\ restarts > 0 /\ sample[a] = NoSample /\ backlog[a] = 0
    /\ Trim
    /\ UNCHANGED <<due, inHand, monitor, burst, restarts>>

Request(a, r) ==
    \/ Admit(a, r) \/ Refuse(a, r)
    \/ \E e \in Entry : Enqueue(a, r, e) \/ EnqueueReplyLost(a, r, e)

Next ==
    \/ \E a \in Apis : \E r \in Requests : Request(a, r)
    \/ Take
    \/ \E i \in pel : Finish(i) \/ Abandon(i)
    \/ \E a \in Apis :
          PollSample(a) \/ PollUpdate(a) \/ ApiRestart(a) \/ BootTrim(a)

Spec == Init /\ [][Next]_vars

(***************************************************************************)
(* Each ticker keeps polling, and workers keep reading and acking what     *)
(* they hold.  Nothing makes clients send.                                 *)
(***************************************************************************)
Fairness ==
    /\ \A a \in Apis : WF_vars(PollSample(a)) /\ WF_vars(PollUpdate(a))
    /\ WF_vars(Take)
    /\ WF_vars(\E i \in pel : Finish(i))

FairSpec == Spec /\ Fairness

----------------------------------------------------------------------------
\* The types of the shedder's variables, over those of the queue.
TypeOK ==
    /\ QTypeOK
    /\ due \subseteq Apis \X Requests \X (1 .. Sends)
    /\ inHand \subseteq pel
    /\ sample \in [Apis -> {NoSample} \cup Nat]
    /\ backlog \in [Apis -> Nat]
    /\ shedding \in [Apis -> BOOLEAN]
    /\ burst \in [Apis -> 0 .. Burst]
    /\ restarts \in 0 .. MaxRestarts

\* While every copy sheds, what the system has taken on (queued, pending, or
\* admitted and about to be queued, a second time too when a reply is lost)
\* never grows, although requests that read the flag before it flipped still
\* publish.  One copy that does not shed is enough to make it grow.
SheddingStopsGrowth ==
    [][(\A a \in Apis : shedding[a] /\ shedding'[a]) => Demand' <= Demand]_vars

\* When every copy sheds, the workers catch up and one of them stops to, unless
\* entries nobody will ack any more hold the backlog above the low mark.
SheddingEnds ==
    (\A a \in Apis : shedding[a])
        ~> ((\E a \in Apis : ~shedding[a]) \/ Cardinality(Stranded) > LowWater)

\* A backlog that stays at or above the high mark is met with shedding by every
\* copy.
OverloadIsShed ==
    \A a \in Apis :
       <>[](HighWater > 0 /\ Lag + Pending >= HighWater) => <>[](shedding[a])

\* With the default cap of twice the high mark, and room between the two for
\* bursts and for whatever was admitted, MAXLEN never cuts an entry away before
\* a worker has it: shedding keeps the backlog below the cap although each copy
\* acts on samples of its own that are out of date, and resent XADDs queue more
\* than was admitted.  (A restarted copy sheds nothing until its first poll, and
\* may overshoot.)
NothingEvicted == restarts = 0 => \A i \in 1 .. trimmed : i \in delivered

=============================================================================
