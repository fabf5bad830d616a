------------------------------- MODULE Worker -------------------------------
(***************************************************************************)
(* The worker fleet and the events it processes: cmd/worker/main.go and    *)
(* internal/service/processor.go over the queue of WorkQueue, fed by the   *)
(* API's boot (cmd/api/main.go) and IngestWebhook.                         *)
(*                                                                         *)
(* Each worker process is one goroutine: it reads a batch, and for each    *)
(* message takes the idempotency lock of the message's event id, runs the  *)
(* business handler with retries, routes the event to the DLQ when they    *)
(* are exhausted, and acks.  Every Redis command is one step.  Between two *)
(* steps other workers run, the process may crash or be told to stop.      *)
(*                                                                         *)
(* A command can fail without effect ("error"), or take effect and lose    *)
(* its reply ("lostReply"); go-redis then sends it again, so a lost reply  *)
(* leaves the caller where it was.  Once the worker's context is cancelled *)
(* every new command fails without effect.                                 *)
(***************************************************************************)
EXTENDS WorkQueue

CONSTANTS
    Tenant,     \* tenants
    EventId,    \* values of X-Event-Id
    Workers,    \* worker processes of the consumer group
    MaxRetries, \* cfg.WorkerMaxRetries
    Lapsing,    \* events whose lock may expire (TTL) or be evicted (volatile-lru)
    FaultKinds, \* which faults happen: a subset of AllFaults
    MaxFaults   \* bound of the model: how many of them happen

AllFaults == {"crash", "stop", "error", "lostReply"}

ASSUME WorkerAssumption ==
    /\ Entry \subseteq [tenant : Tenant, event : EventId]
    /\ MaxRetries \in Nat
    /\ Lapsing \subseteq EventId
    /\ FaultKinds \subseteq AllFaults
    /\ MaxFaults \in Nat

VARIABLES
    api,        \* the API process: "down", "trim" (booting) or "up"
    pc,         \* where each worker is in main's loop and ProcessMessage
    cur, end,   \* the ids cur .. end of its batch are still to be finished
    attempt,    \* the handler attempt of ProcessMessage, 1-based
    stopping,   \* its context was cancelled by SIGINT or SIGTERM
    claims,     \* history: ids whose SET NX event_lock:{event_id} succeeded
    lapsed,     \* those whose lock is gone again
    effects,    \* history: every XADD to a tenant stream or to the DLQ
    errored,    \* history: ids for which ProcessMessage returned an error
    ambiguous,  \* history: ids for which a reply was lost on the way
    faults      \* how many faults have happened

local == <<pc, cur, end, attempt, stopping>>
history == <<effects, errored, ambiguous>>
locks == <<claims, lapsed>>
vars == <<qvars, api, local, locks, history, faults>>

----------------------------------------------------------------------------
\* Inside ProcessMessage with the lock taken; and anywhere inside a batch.
Claimed == {"handler", "backoff", "dlq"}
Busy == Claimed \cup {"lock", "ack"}

SameEvent(i, j) == stream[i].event = stream[j].event

\* Faulty variant: the lock key is the stream id, not the event id.
LockedById(i) == i \in claims \ lapsed

\* event_lock:{event_id} of entry i exists.  The key does not name the tenant.
Locked(i) == \E j \in claims \ lapsed : SameEvent(i, j)

\* A fault of kind k happens.
Fault(k) == k \in FaultKinds /\ faults < MaxFaults /\ faults' = faults + 1

\* A command of worker w fails without effect: its context is cancelled, or
\* Redis is out of reach for as long as the client retries.
CommandFails(w) == \/ stopping[w] /\ UNCHANGED faults
                   \/ ~stopping[w] /\ Fault("error")

Goto(w, l) == pc' = [pc EXCEPT ![w] = l]

\* The XADD of entry i to its tenant's stream or to the DLQ.
Record(i, k) == effects' = Append(effects, [id |-> i, kind |-> k])

----------------------------------------------------------------------------
Init ==
    /\ QInit
    /\ api = "down"
    /\ pc = [w \in Workers |-> "down"]
    /\ cur = [w \in Workers |-> 0]
    /\ end = [w \in Workers |-> 0]
    /\ attempt = [w \in Workers |-> 0]
    /\ stopping = [w \in Workers |-> FALSE]
    /\ claims = {} /\ lapsed = {}
    /\ effects = <<>> /\ errored = {} /\ ambiguous = {}
    /\ faults = 0

(***************************************************************************)
(* The API: boot ensures the group, then cuts the stream to its cap (an    *)
(* XTRIM that fails is only logged), and only then serves POST             *)
(* /v1/webhooks.  A request that could not be queued is a 500 and leaves   *)
(* nothing; one whose reply was lost is an entry the client sends again.   *)
(***************************************************************************)
ApiEnsureGroup ==
    /\ api = "down"
    /\ EnsureGroup
    /\ api' = "trim"
    /\ UNCHANGED <<local, locks, history, faults>>

ApiBootTrim ==
    /\ api = "trim"
    /\ Trim \/ UNCHANGED qvars
    /\ api' = "up"
    /\ UNCHANGED <<local, locks, history, faults>>

ApiCrash ==
    /\ api # "down"
    /\ Fault("crash")
    /\ api' = "down"
    /\ UNCHANGED <<qvars, local, locks, history>>

Ingest(e) ==
    /\ api = "up"
    /\ Publish(e)
    /\ UNCHANGED <<api, local, locks, history, faults>>

----------------------------------------------------------------------------
(***************************************************************************)
(* A worker's life: main ensures the group, loops until the context is     *)
(* cancelled, and exits.  The supervisor starts it again.                  *)
(***************************************************************************)

\* Faulty variant: a worker that starts moves the cursor back to what is
\* pending, to recover it.
StartRewinds(w) ==
    /\ pc[w] = "down"
    /\ origin # NoGroup
    /\ last' = IF pel = {} THEN last
               ELSE (CHOOSE i \in pel : \A j \in pel : i <= j) - 1
    /\ Goto(w, "loop")
    /\ UNCHANGED <<stream, trimmed, origin, pel, delivered>>
    /\ UNCHANGED <<api, cur, end, attempt, stopping, locks, history, faults>>

Start(w) ==
    /\ pc[w] = "down"
    /\ EnsureGroup
    /\ Goto(w, "loop")
    /\ UNCHANGED <<api, cur, end, attempt, stopping, locks, history, faults>>

\* The process is gone, and with it the batch it held.
Down(w) ==
    /\ Goto(w, "down")
    /\ cur' = [cur EXCEPT ![w] = 0]
    /\ end' = [end EXCEPT ![w] = 0]
    /\ attempt' = [attempt EXCEPT ![w] = 0]
    /\ stopping' = [stopping EXCEPT ![w] = FALSE]
    /\ UNCHANGED <<qvars, api, locks, history>>

Crash(w) == pc[w] # "down" /\ Fault("crash") /\ Down(w)

Signal(w) ==
    /\ pc[w] # "down" /\ ~stopping[w]
    /\ Fault("stop")
    /\ stopping' = [stopping EXCEPT ![w] = TRUE]
    /\ UNCHANGED <<qvars, api, pc, cur, end, attempt, locks, history>>

\* The check of ctx.Err() at the top of the loop.
LoopAgain(w) ==
    /\ pc[w] = "loop" /\ ~stopping[w]
    /\ Goto(w, "read")
    /\ UNCHANGED <<qvars, api, cur, end, attempt, stopping, locks, history, faults>>

LoopExit(w) ==
    /\ pc[w] = "loop" /\ stopping[w]
    /\ Down(w)
    /\ UNCHANGED faults

(***************************************************************************)
(* reader.Read.  A cancelled context does not interrupt an XREADGROUP that *)
(* is already blocked, so a batch may still arrive after the signal.       *)
(***************************************************************************)
ReadBatch(w) ==
    /\ pc[w] = "read"
    /\ Read
    /\ Goto(w, "lock")
    /\ cur' = [cur EXCEPT ![w] = NextId]
    /\ end' = [end EXCEPT ![w] = BatchEnd]
    /\ UNCHANGED <<api, attempt, stopping, locks, history, faults>>

\* BLOCK elapsed with nothing to hand out, or the read failed: back to the top.
ReadNothing(w) ==
    /\ pc[w] = "read"
    /\ \/ Lag = 0 /\ UNCHANGED faults
       \/ Fault("error")
    /\ Goto(w, "loop")
    /\ UNCHANGED <<qvars, api, cur, end, attempt, stopping, locks, history>>

\* context.Canceled breaks out of the loop.
ReadCancelled(w) ==
    /\ pc[w] = "read" /\ stopping[w]
    /\ Down(w)
    /\ UNCHANGED faults

\* Redis handed the batch out and the reply never arrived.
ReadReplyLost(w) ==
    /\ pc[w] = "read"
    /\ Read
    /\ Fault("lostReply")
    /\ UNCHANGED <<api, local, locks, history>>

----------------------------------------------------------------------------
(***************************************************************************)
(* ProcessMessage for the entry cur[w]: the idempotency lock.              *)
(***************************************************************************)

\* Where a message goes that has the lock: with no attempts allowed, straight to
\* the DLQ.
FirstStop == IF MaxRetries = 0 THEN "dlq" ELSE "handler"

LockAcquired(w) ==
    /\ pc[w] = "lock" /\ ~stopping[w]
    /\ ~Locked(cur[w])
    /\ claims' = claims \cup {cur[w]}
    /\ Goto(w, FirstStop)
    /\ attempt' = [attempt EXCEPT ![w] = IF FirstStop = "handler" THEN 1 ELSE 0]
    /\ UNCHANGED <<qvars, api, cur, end, stopping, lapsed, history, faults>>

LockDuplicate(w) ==
    /\ pc[w] = "lock" /\ ~stopping[w]
    /\ Locked(cur[w])
    /\ Goto(w, "ack")
    /\ UNCHANGED <<qvars, api, cur, end, attempt, stopping, locks, history, faults>>

LockFails(w) ==
    /\ pc[w] = "lock"
    /\ CommandFails(w)
    /\ errored' = errored \cup {cur[w]}
    /\ Goto(w, "ack")
    /\ UNCHANGED <<qvars, api, cur, end, attempt, stopping, locks, effects, ambiguous>>

LockReplyLost(w) ==
    /\ pc[w] = "lock" /\ ~stopping[w]
    /\ ~Locked(cur[w])
    /\ Fault("lostReply")
    /\ claims' = claims \cup {cur[w]}
    /\ ambiguous' = ambiguous \cup {cur[w]}
    /\ UNCHANGED <<qvars, api, local, lapsed, effects, errored>>

(***************************************************************************)
(* The business handler, which appends the payload to the tenant's stream, *)
(* and the wait between two attempts.                                      *)
(***************************************************************************)

\* Faulty variant: success does not return from the retry loop.
HandlerRunsOn(w) ==
    /\ pc[w] = "handler" /\ ~stopping[w]
    /\ Record(cur[w], "published")
    /\ Goto(w, IF attempt[w] < MaxRetries THEN "backoff" ELSE "ack")
    /\ UNCHANGED <<qvars, api, cur, end, attempt, stopping, locks, errored, ambiguous, faults>>

HandlerOk(w) ==
    /\ pc[w] = "handler" /\ ~stopping[w]
    /\ Record(cur[w], "published")
    /\ Goto(w, "ack")
    /\ attempt' = [attempt EXCEPT ![w] = 0]
    /\ UNCHANGED <<qvars, api, cur, end, stopping, locks, errored, ambiguous, faults>>

\* Faulty variants: the retry loop allows one attempt more; a failure of the
\* last attempt is dropped instead of dispatched to the DLQ.
AfterFailureOneMore(w) == IF attempt[w] <= MaxRetries THEN "backoff" ELSE "dlq"
AfterFailureDrops(w) == IF attempt[w] < MaxRetries THEN "backoff" ELSE "ack"

\* Where an attempt that failed leads: wait and retry, or the DLQ.
AfterFailure(w) == IF attempt[w] < MaxRetries THEN "backoff" ELSE "dlq"

\* The handler may fail whenever it likes (an XADD that Redis refuses); the
\* retry loop bounds how often.
HandlerFails(w) ==
    /\ pc[w] = "handler"
    /\ Goto(w, AfterFailure(w))
    /\ UNCHANGED <<qvars, api, cur, end, attempt, stopping, locks, history, faults>>

HandlerReplyLost(w) ==
    /\ pc[w] = "handler" /\ ~stopping[w]
    /\ Fault("lostReply")
    /\ Record(cur[w], "published")
    /\ ambiguous' = ambiguous \cup {cur[w]}
    /\ UNCHANGED <<qvars, api, local, locks, errored>>

\* The timer fires.  If the context is done as well, select may still pick it.
BackoffElapsed(w) ==
    /\ pc[w] = "backoff"
    /\ Goto(w, "handler")
    /\ attempt' = [attempt EXCEPT ![w] = @ + 1]
    /\ UNCHANGED <<qvars, api, cur, end, stopping, locks, history, faults>>

BackoffCancelled(w) ==
    /\ pc[w] = "backoff" /\ stopping[w]
    /\ errored' = errored \cup {cur[w]}
    /\ Goto(w, "ack")
    /\ attempt' = [attempt EXCEPT ![w] = 0]
    /\ UNCHANGED <<qvars, api, cur, end, stopping, locks, effects, ambiguous, faults>>

(***************************************************************************)
(* dispatchToDLQ.                                                          *)
(***************************************************************************)
DlqOk(w) ==
    /\ pc[w] = "dlq" /\ ~stopping[w]
    /\ Record(cur[w], "deadLettered")
    /\ Goto(w, "ack")
    /\ attempt' = [attempt EXCEPT ![w] = 0]
    /\ UNCHANGED <<qvars, api, cur, end, stopping, locks, errored, ambiguous, faults>>

DlqFails(w) ==
    /\ pc[w] = "dlq"
    /\ CommandFails(w)
    /\ errored' = errored \cup {cur[w]}
    /\ Goto(w, "ack")
    /\ attempt' = [attempt EXCEPT ![w] = 0]
    /\ UNCHANGED <<qvars, api, cur, end, stopping, locks, effects, ambiguous>>

DlqReplyLost(w) ==
    /\ pc[w] = "dlq" /\ ~stopping[w]
    /\ Fault("lostReply")
    /\ Record(cur[w], "deadLettered")
    /\ ambiguous' = ambiguous \cup {cur[w]}
    /\ UNCHANGED <<qvars, api, local, locks, errored>>

----------------------------------------------------------------------------
(***************************************************************************)
(* Back in main: the ack, which follows whether or not ProcessMessage      *)
(* returned an error, and the next message of the batch.                   *)
(***************************************************************************)
NextMessage(w) ==
    \/ /\ cur[w] < end[w]
       /\ cur' = [cur EXCEPT ![w] = @ + 1]
       /\ Goto(w, "lock")
       /\ UNCHANGED end
    \/ /\ cur[w] = end[w]
       /\ cur' = [cur EXCEPT ![w] = 0]
       /\ end' = [end EXCEPT ![w] = 0]
       /\ Goto(w, "loop")

\* Faulty variant: every ack names the last message of the batch.
AckTargetLast(w) == end[w]

\* The id the ack names: m.ID.
AckTarget(w) == cur[w]

AckOk(w) ==
    /\ pc[w] = "ack" /\ ~stopping[w]
    /\ Ack(AckTarget(w))
    /\ NextMessage(w)
    /\ UNCHANGED <<api, attempt, stopping, locks, history, faults>>

AckFails(w) ==
    /\ pc[w] = "ack"
    /\ CommandFails(w)
    /\ NextMessage(w)
    /\ UNCHANGED <<qvars, api, attempt, stopping, locks, history>>

\* The lock of an event is lost: EX ran out, or volatile-lru evicted the key.
LockLapses(i) ==
    /\ i \in claims \ lapsed
    /\ stream[i].event \in Lapsing
    /\ lapsed' = lapsed \cup {i}
    /\ UNCHANGED <<qvars, api, local, claims, history, faults>>

----------------------------------------------------------------------------
ApiBoot == ApiEnsureGroup \/ ApiBootTrim

\* What worker w does when nothing goes wrong around it.
Proceed(w) ==
    \/ LoopAgain(w) \/ LoopExit(w)
    \/ ReadBatch(w) \/ ReadNothing(w) \/ ReadCancelled(w)
    \/ LockAcquired(w) \/ LockDuplicate(w) \/ LockFails(w)
    \/ HandlerOk(w) \/ HandlerFails(w)
    \/ BackoffElapsed(w) \/ BackoffCancelled(w)
    \/ DlqOk(w) \/ DlqFails(w)
    \/ AckOk(w) \/ AckFails(w)

ReplyLost(w) ==
    ReadReplyLost(w) \/ LockReplyLost(w) \/ HandlerReplyLost(w) \/ DlqReplyLost(w)

Next ==
    \/ ApiBoot \/ ApiCrash
    \/ \E e \in Entry : Ingest(e)
    \/ \E w \in Workers :
          Start(w) \/ Crash(w) \/ Signal(w) \/ Proceed(w) \/ ReplyLost(w)
    \/ \E i \in claims : LockLapses(i)

Spec == Init /\ [][Next]_vars

(***************************************************************************)
(* Redis answers, the goroutines are scheduled, and the supervisor restarts*)
(* what has exited (restart: unless-stopped in docker-compose.yml).        *)
(***************************************************************************)
Fairness ==
    /\ WF_vars(ApiBoot)
    /\ \A w \in Workers : WF_vars(Start(w)) /\ WF_vars(Proceed(w))

FairSpec == Spec /\ Fairness

----------------------------------------------------------------------------
\* The types of the worker's variables, over those of the queue.
TypeOK ==
    /\ QTypeOK
    /\ api \in {"down", "trim", "up"}
    /\ pc \in [Workers -> Busy \cup {"down", "loop", "read"}]
    /\ cur \in [Workers -> 0 .. Len(stream)]
    /\ end \in [Workers -> 0 .. Len(stream)]
    /\ attempt \in [Workers -> 0 .. MaxRetries]
    /\ stopping \in [Workers -> BOOLEAN]
    /\ claims \subseteq Ids /\ lapsed \subseteq claims
    /\ effects \in Seq([id : Ids, kind : {"published", "deadLettered"}])
    /\ errored \subseteq Ids /\ ambiguous \subseteq Ids
    /\ faults \in 0 .. MaxFaults

\* The ids worker w has yet to finish; the one it is about to ack is done.
Held(w) ==
    IF pc[w] \notin Busy THEN {}
    ELSE (IF pc[w] = "ack" THEN cur[w] + 1 ELSE cur[w]) .. end[w]

Effects(i) == {k \in DOMAIN effects : effects[k].id = i}

\* What a worker still has to finish is pending, and no other worker has it:
\* the consumer group shares the stream out, whatever crashes and restarts.
BatchesAreExclusive ==
    \A w \in Workers :
        /\ Held(w) \subseteq pel
        /\ \A v \in Workers \ {w} : Held(w) \cap Held(v) = {}

\* No accepted event is passed over: what the group's cursor has passed was handed
\* to a worker, or cut away.  The group starts at "$", so this stands on the order
\* of boot, in which nothing is accepted before the group exists, over every
\* restart of the API and of workers that ensure the group once more.
AcceptedAreInReach ==
    \A i \in 1 .. last : i \in delivered \/ i <= trimmed

\* An entry leads to at most one XADD downstream, to its tenant's stream or to
\* the DLQ but not to both, unless a reply was lost while it was processed.
OneEffect ==
    \A k, l \in DOMAIN effects :
        effects[k].id = effects[l].id /\ effects[k].id \notin ambiguous => k = l

\* The two together, as the README promises it: one X-Event-Id leads to one
\* effect, as long as its locks last and no reply is lost.
ProcessedOnce ==
    \A k, l \in DOMAIN effects :
        LET i == effects[k].id  j == effects[l].id IN
        SameEvent(i, j) /\ {i, j} \cap (lapsed \cup ambiguous) = {} => k = l

\* An entry that was delivered and is no longer pending had its effect, or is
\* a duplicate of another entry that took the lock, or an error was logged for
\* it, or a reply about it was lost.
AckedIsAccountedFor ==
    \A i \in delivered \ pel :
        \/ Effects(i) # {}
        \/ \E j \in claims \ {i} : SameEvent(i, j)
        \/ i \in errored \cup ambiguous

\* Pending entries that no worker holds.
Stranded == {i \in pel : \A w \in Workers :
                i \notin Held(w) /\ ~(pc[w] = "ack" /\ cur[w] = i)}

\* What became of entry i: it came out, or a worker has it in hand, or nobody has
\* it although it is pending, or an error about it was logged, or a reply lost.
Fate(i) ==
    \/ Effects(i) # {}
    \/ \E w \in Workers : i \in Held(w)
    \/ i \in Stranded \cup errored \cup ambiguous

\* No entry that was handed out vanishes: it has a fate, or it gave way to an
\* entry of the same event id that has one.  An event that is acked as a
\* duplicate is one whose other entry came out, is at work or can be found.
NoEventVanishes ==
    \A i \in delivered : Fate(i) \/ \E j \in claims : SameEvent(i, j) /\ Fate(j)

\* Nothing reads the pending list back: what a crash, a failed ack or a lost
\* reply left there stays there for good.
StrandedForGood == [][Stranded \subseteq Stranded']_vars

\* Events of one tenant reach its stream in the order the API queued them.
\* (Of one worker: two workers share a tenant's events without an order.)
TenantOrder ==
    \A k, l \in DOMAIN effects :
        /\ k < l
        /\ effects[k].kind = "published" /\ effects[l].kind = "published"
        /\ stream[effects[k].id].tenant = stream[effects[l].id].tenant
        => effects[k].id <= effects[l].id

\* Every queued entry is delivered to a worker, or cut away by MAXLEN, even if
\* workers crash and are restarted: the cursor never stops short of it.
EveryEntryIsDelivered ==
    \A i \in 1 .. MaxEntries :
        i \in Ids ~> (i \in delivered \/ i <= trimmed)

\* Entry i, or an entry with the same event id, was published or dead-lettered.
CameOut(i) == i \in Ids /\ \E k \in DOMAIN effects : SameEvent(effects[k].id, i)

\* As long as no fault happens every event that was handed out came out or is in
\* the hands of a running worker, in its own entry or in another one's.
EveryEventIsKept ==
    faults = 0 =>
        \A i \in delivered :
            CameOut(i) \/ \E w \in Workers : \E j \in Held(w) : SameEvent(j, i)

\* As long as no fault happens every event that is queued comes out, whatever
\* the handler does, and its entry is acked, unless MAXLEN cut the entry away.
EveryEventComesOut ==
    \A i \in 1 .. MaxEntries :
        i \in Ids ~> \/ CameOut(i) /\ i \in delivered \ pel
                     \/ i <= trimmed
                     \/ faults > 0

----------------------------------------------------------------------------
(***************************************************************************)
(* What comments and documents of the repository say of the worker, which  *)
(* the code does not do.                                                   *)
(***************************************************************************)

\* cmd/worker/main.go: when ProcessMessage returns an error "the message will
\* stay pending and be reclaimed manually".
ErroredStaysPending == errored \subseteq pel

\* docs/docs/intro.md: "guarantee at-least-once delivery", across a crash.
AtLeastOnce ==
    \A i \in 1 .. MaxEntries : i \in Ids ~> CameOut(i) \/ i <= trimmed

\* docs/docs/intro.md: "Isolated multi-tenancy".  What is acked without an
\* error is processed, or duplicates an event of the same tenant.
TenantsAreIsolated ==
    \A i \in (delivered \ pel) \ (errored \cup ambiguous) :
        \E j \in claims : SameEvent(i, j) /\ stream[i].tenant = stream[j].tenant
=============================================================================
