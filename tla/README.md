# EasyHooks: a TLA+ verification project

EasyHooks accepts webhooks over HTTP, queues them in one Redis Stream, lets a
fleet of workers run them exactly once into a stream per tenant, and feeds each
tenant's stream live to its WebSocket clients. The code is Go, under
`src/go-api`; `src/docs` is its documentation site. This directory models what
in it is concurrent or can fail half way, checks the models with TLC, and proves
all of their safety properties with TLAPS for every value of the constants.

    tlc -workers 2 -config MCWorkerSafety.cfg MCWorker.tla
    tlapm WorkerProofs.tla

Contents: [1 the system](#1-the-system), [2 plan](#2-plan),
[3 modules and code](#3-modules-and-code), [4 runs](#4-runs),
[5 proofs](#5-proofs), [6 disagreements with the documents](#6-where-code-and-documents-disagree),
[7 what is not modelled](#7-what-is-not-modelled).

## 1 The system

    client --POST--> IngestWebhook --XADD--> events:in --XREADGROUP--> worker(s)
                        ^ shed?                 |  ^                    |  SET NX event_lock
                        |                       |  `------ XACK --------|  XADD stream:{tenant}
                 QueueDepthMonitor <--XINFO-----'                       `- XADD events:failed
                                                                              
    WebSocket client <- forwarder <- channel <- TenantFanout <- XREAD <- stream:{tenant}

Two kinds of process, the API (`cmd/api`) and the worker (`cmd/worker`), share
nothing but Redis. Both may run in several copies, both are restarted by their
supervisor (`restart: unless-stopped` in `docker-compose.yml`).

| Component | State | Operations | What is hard | What makes it correct |
|---|---|---|---|---|
| **Work queue** `streams/queue.go` | stream `events:in`, the group's cursor, its pending list | EnsureGroup, Publish (XADD MAXLEN), TrimMaxLenApprox, Read (XREADGROUP `>`), Ack | group creation at `$` races with the first events; MAXLEN cuts what nobody has read; a lost XREADGROUP reply | every entry is handed out at most once and in order; none is passed over that is still there |
| **Worker fleet** `cmd/worker/main.go`, `service/processor.go` | a batch per process, the `event_lock:` keys, retry counter, context | loop, lock (SET NX), handler with backoff, DLQ, ack | crash, signal, failed command or lost reply between any two Redis commands; duplicates in several workers; locks that lapse | exclusive batches, one effect per event id, nothing acked in silence, order per tenant, everything comes out |
| **Business handler** `service/streams.go` | `stream:{tenant}` | PublishTenantEvent | its XADD may succeed without the worker knowing | part of the worker's one effect |
| **Load shedder** `streams/monitor.go` | the last sample of lag + pending, the shedding flag | poll, Update, ShouldShed | flag and sample are out of date when used; every copy of the API has its own; an XADD may be sent twice; hysteresis; entries nobody will ack | load does not grow while every copy sheds; shedding ends; a lasting overload is shed; the cap is not reached |
| **Ingestion endpoint** `handler/webhooks.go` | none | IngestWebhook | check, then publish some time later | see the shedder |
| **Tenant fan-out** `service/fanout.go`, `StreamTenantEvents` | registered channels, f.cancel; currentID of each XREAD loop | Subscribe, unsub, fanOut, readerLoop | a channel closed at two places; lock upgrade in the middle of fanOut; old and new readers overlap; `$`; STREAM_MAX_LEN cuts while a reader is held up | no send on a closed channel; whoever is registered is fed; one reader unless somebody was dropped; one reader repeats nothing and skips only what was cut; the reader ends when its last subscriber leaves |
| **WebSocket endpoint** `handler/ws.go` | three goroutines per connection, the range of history still to send | handshake, history, heartbeat, forward, read loop | who ends whom; two writers of one connection; no write deadline; the seam between history and live; several shared readers; STREAM_MAX_LEN | goroutines end with the client; an open connection has a forwarder; the history has no gap, and what one reader feeds is in order and lacks only what was cut |
| **Tenant and admin credentials** `service/tenant.go`, `redisstore/admin.go` | `tenant_auth:`, `tenant_hmac_key:`, `admin:token_hash` | CreateTenant, SeedSuperAdmin, AdminAuth | second SET fails, so does the clean-up; the client leaves; two processes seed at once | a tenant is whole or cannot be used; one token is the admin's for good |
| **Request authentication** `middleware/auth.go` | `auth_session:` cache | TenantAuth by HMAC and by Bearer | the cached session answers for the stored hash; its errors count as no session | exactly those are let in who present their own tenant's secret |
| **Configuration** `config/config.go` | none | applyProfileDefaults, and the fallbacks where a setting is used | zero, negative and left-out settings in four profiles | the default cap is twice the shedding mark, so no accepted event is cut before shedding sets in |
| **API boot** `cmd/api/main.go` | none | SeedSuperAdmin, EnsureGroup, boot trim, monitor start | a restart in the middle of everything | folded into Credentials, Worker and LoadShedding |
| **Tokens** `security/security.go`, `handler/tokens.go` | none | VerifySignedToken | a valid token of another tenant | what WSEvents tells apart, in WSConnection |
| Redis client, metrics, tracing, health, documentation site | none that another part reads | | | not modelled, see section 7 |

`PROJECT.json` lists the same components with their files, and every hazard at
the line where it bites.

## 2 Plan

Order of work, the most important behaviour first:

1. `WorkQueue`: the queue every other part stands on, with its proofs. **Done.**
2. `Worker`: the fleet over the queue, with faults; `OnceOnly`, what it promises
   of event ids; `WorkerRefinement`; `WorkerProofs`. **Done**, see section 5.
3. `LoadShedding`: the monitor over the queue, with `SheddingProofs`. **Done.**
4. `TenantFanout`: the live feed of one tenant, with `FanoutProofs`. **Done.**
5. `WSConnection`: the goroutines of one WebSocket, its history, its feed and the
   seam between them, with `ConnectionProofs`. **Done.**
6. `Credentials`: SeedSuperAdmin, CreateTenant and TenantAuth with several API
   processes, crashes and failing commands, with `CredentialsProofs`. **Done.**
7. `Config`: where the constants of the other modules come from, with
   `ConfigProofs`. **Done.**
8. `RefinementProofs`: that Worker implements OnceOnly. **Done.**
9. `Registry`, what the credentials promise together, and that they implement it
   (`CredentialsRefinement`, proved in `CredentialsProofs`). **Done.**
10. Left: Redis restarting without its last writes, section 7.

Compositions: Worker EXTENDS WorkQueue (and its API boot and Ingest are the
API's side of it); LoadShedding EXTENDS WorkQueue; WorkerRefinement maps Worker
to OnceOnly, CredentialsRefinement maps Credentials to Registry; MCLoadShedding EXTENDS LoadShedding and Config, so that the instance
gets its marks and its cap the way a process does. WSConnection has the
connection's own XREAD loop in full; of the shared readers it has what one
subscriber can see of them, which is what TenantFanout shows them to be: several
may run, one may be behind, and each gives in the order of the stream, leaves out
only what was cut, and drops whoever is full. What connections and readers do to
each other is TenantFanout's subject, and the product of the two would repeat both.

Runs: one per component and kind of question. The safety of the fleet needs two
workers (they race), three entries (two of one tenant with different ids, one of
another tenant that reuses an id) and one fault; order, and the queue under it,
needs one worker but more faults; liveness runs are smaller because TLC's check
of them costs more.

## 3 Modules and code

A stream entry's id is its position in the stream. Every Redis command is one
atomic step, and so is every section of Go code under a mutex; what lies between
two steps can be interleaved with anything.

### WorkQueue

`stream`, `trimmed`, `origin`, `last`, `pel` are the Redis Stream `events:in` and
its consumer group: what was added, how much MAXLEN has cut off its old end,
where the group was created, its last-delivered-id, its pending list.
`delivered` is history. Actions: `EnsureGroup`, `Publish`, `Trim`, `Read`, `Ack`,
one per function of `queue.go`. `MAXLEN ~` cuts any number of entries as long as
MaxLen stay (`Cuts`), since Redis drops whole nodes. `Lag` is exact, as it is in
the Redis versions that report it while nothing is deleted from the middle.

### Worker

One goroutine per worker process: `pc` is its place in main's loop and in
ProcessMessage (`loop`, `read`, `lock`, `handler`, `backoff`, `dlq`, `ack`,
`down`), `cur .. end` the part of its batch still to be finished, `attempt` the
retry counter, `stopping` whether its context was cancelled. `claims` minus
`lapsed` are the locks that exist: the key carries the event id and no tenant,
so `Locked(i)` asks for any claimed entry of the same event. `effects` records
every XADD downstream, `errored` and `ambiguous` remember for which entries
ProcessMessage returned an error or a reply was lost.

Faults: a *crash* drops the process and its batch; *stop* is SIGTERM, after which
each new command fails and a blocked XREADGROUP may still return; *error* is a
command that has no effect; *lostReply* is one that takes effect and is sent
again by the client. The handler may also fail by itself, as often as it likes.
MaxFaults bounds the faults of the first four kinds.

The API's side is `ApiEnsureGroup`, `ApiBootTrim` (may fail, which is only
logged), `Ingest` and `ApiCrash`.

### OnceOnly and WorkerRefinement

What the README calls idempotency, without queue, workers or retries: an event is
claimed once and comes out at most once. The mapping takes `claims` to the
events they are of, and `effects` to the events that came out. It holds while no
lock lapses and no reply is lost; with either, the code does run an event twice
and OneEffect and ProcessedOnce say exactly which entries are exempt.

`NoEventVanishes` follows an event id to the end: of its entries, one came out, is
in a batch, lies in the pending list with nobody to read it, or met an error or a
lost reply (`Fate`). `EveryEventIsKept` says that without a fault only the first two
are left.

### LoadShedding

Each copy of the API (`Apis`) has a monitor and a flag of its own, and requests that
read only that flag. `poll` is two steps, the XINFO and the Update, because
requests and workers move between them. A request is admitted in one step and
publishes in later ones: `due` is what the XADDs of admitted requests may still do
to the queue, one token for each time the client would send the command. An XADD
that is answered takes all tokens of its request (`Enqueue`), one whose reply is
lost takes one and leaves the others to queue the event again
(`EnqueueReplyLost`), and a request that is refused queues nothing more. The
workers of Worker are reduced to what lag + pending sees: `Take` a batch,
`Finish` an entry, or `Abandon` it (crash, stop, failed ack), which leaves it
pending for good. `ApiRestart` loses one copy's requests, sample and flag.

### TenantFanout

One tenant in one API process; FanoutManager only looks a tenant up. A reader is
the pair of goroutines Subscribe starts: `prod`, `from`, `upto`, `started` are the
XREAD loop of StreamTenantEvents (currentID is `$` until its first event, and `$`
is resolved when XREAD arrives), `pipe` its channel, `loop` and `dead` the
fan-out goroutine. `subs`, `cancel`, `buf`, `closed` are f.subs, f.cancel and the
subscribers' channels; `conn` is the forwarder of WSEvents. `fanOut` is two steps
(`FanOut` under the read lock, `Prune` under the write lock). A second close of a
channel sets `panicked`, after which nothing happens any more.

`Event` is a worker's XADD with STREAM_MAX_LEN: it may cut the old end of the
tenant's stream (`cut`), and Redis hands it in the same step to every XREAD that
is blocked there. A reader that asks for what was cut gets what is left
(`StartOf`).

### WSConnection

One call of WSEvents. `handler` is its own goroutine: the handshake and its
answers, the history (`history` is what XREVRANGE returned and what of it is left
to send), and then the read loop, which is all it looks at. `fwd` and `beat` are
the forwarder and the heartbeat it starts, `hand` the event being written.
The mode of WS_USE_FANOUT is chosen at the start (`useFanout`). Without it the feed
is the connection's own XREAD loop (`xread`, `started`, `from`, `upto`), which a cut
of the tenant's stream (`cut`) may overtake while it is held up. With it, the shared
readers in `feeding` are each somewhere in the stream (`at`) when the connection
subscribes: which ones run, and where, is any choice, because other subscribers,
dropped ones among them, have left them there. A reader gives the next event, finds
the channel full (`foundFull`), and then closes it (`Drop`), in two steps as in
fanOut. A reader that was cancelled may give no more at any point, so nothing is
owed by one. `buf` and `closed` are the forwarder's channel; `given`, `replayed` and
`sent` record what was put on it, sent as history, and sent from it, each fed event
with the reader it came from. `client` may take bytes,
stall or be gone. `Returned` is both the deferred conn.Close and the cancel of
the request's context. gorilla/websocket does not allow two writers: when
heartbeat and forwarder are in WriteMessage at once (`overlapped`), the process
panics, the message is spoilt, or all goes well, each a possible outcome. The
token is only what VerifySignedToken tells apart: signed, expired, whose.

### Credentials

One step per Redis command of SeedSuperAdmin, CreateTenant and TenantAuth, with
the code up to the next command. `boot`, `create` and `login` are where each
process, creation and request is, or what it was answered. A creation stands for
its tenant and for its secret; a hash is what it is a hash of, so bcrypt and
HMAC are the comparison of identities. Clients present secrets they were given
(`Known`) or none (`NoSecret`). Faults: *crash* of a process, *error* (no effect),
*lostReply* (effect, but the caller sees an error), *cancel* (the client of a
creation leaves and the request's context is cancelled, after which no command
of it is sent). `raced`, `accepted` and `spoilt` are history for the properties.

### Registry and CredentialsRefinement

What POST /admin/tenants and TenantAuth promise together: a tenant that was handed
out is registered for ever, and a request is let in if and only if it presents a
registered tenant's own secret; it may also end in a 500 or in no answer. The
mapping takes the creations answered 201 to the registered tenants (`Known`), and
`login` to the request and its outcome: 200 is granted, 401 and 403 are refused,
500 is a breakdown, and the steps in between, cached session included, are one
question. Half a tenant, a session that lapses and a crash of a process are
invisible or a request that is forgotten.

### Config

`applyProfileDefaults` is a function of the environment, a record in which 0 means
left out; `Cap`, `HighMark`, `ChannelRoom` and `BatchSize` are what the code that
uses a setting makes of it. No state.

## 4 Runs

| Run | Instance | States | Properties |
|---|---|---|---|
| MCWorkerSafety | 2 workers, 2 tenants, 3 kinds of entry, 3 entries, 2 attempts, one lock may lapse, one fault of any kind | 1.88 M | TypeOK, BatchesAreExclusive, OneEffect, ProcessedOnce, AckedIsAccountedFor, NoEventVanishes, EveryEventIsKept |
| MCWorkerOrder | 1 worker, 3 entries, MaxLen 1, batches of 2, 3 faults of any kind | 962 k | AcceptedAreInReach, PendingWasDelivered, TenantOrder, HandedOutOnceInOrder, StrandedForGood |
| MCWorkerLive | 2 workers, 2 entries, MaxLen 1, 2 faults (no lost replies), fair | 251 k | EveryEntryIsDelivered, EveryEventComesOut, ImplementsOnceOnly |
| MCShedding | 2 copies of the API, high mark 1, low mark 0, cap 7, batches of 2; 1 request a copy, each XADD sent up to twice, bursts of 1, 8 entries | 1.91 M | TypeOK, NothingEvicted, SheddingStopsGrowth |
| MCSheddingLive | settings through Config: high mark 3, low mark 1, cap 6 (the default, twice the high mark), batches of 2; 1 copy, 1 request, bursts of 1, 3 abandoned entries, 1 restart, 7 entries, fair | 684 k | NothingEvicted, SheddingEnds, OverloadIsShed |
| MCFanout | 2 connections, buffers of 1, STREAM_MAX_LEN 1, 3 events, fair | 392 k | TypeOK, RegisteredIsOpen, SubscribersHaveReader, OneReaderUnlessDropped, OnlyCutIsSkipped, LiveEventArrives, ReadersEnd |
| MCConnection | both modes, every token, history of 2, a channel of 1, STREAM_MAX_LEN 1, 1 shared reader, 3 events, fair | 62.8 k | TypeOK, HistoryThenLive, OpenMeansFed, EverythingEnds, HandedIsSent |
| MCCredentials | 2 processes with different seed tokens, 3 creations (two of one admin, one of the other), 1 client of the tenant routes, 2 faults of any kind | 403 k | TypeOK, ReturnedIsWhole, LoginIsRight, FailedLeavesNothing, OneAdmin, ImplementsRegistry |
| MCFind* | see section 6 | | one each, violated |

States are distinct states. MCFanout takes about three and a half minutes,
MCSheddingLive two and a half, the others less.

Why these bounds are enough to be interesting:

- *Fleet*: a duplicate needs two entries, its victim a third; a race needs two
  workers; two attempts reach both outcomes of AfterFailure. One fault can hit
  any command; combinations of faults are in MCWorkerOrder (three) and
  MCWorkerLive (two). MaxRetries = 0 is allowed by the module and covered by the
  proofs.
- *Queue*, checked inside MCWorkerOrder: three entries over a cap of one and
  batches of two reach cuts below, at and beyond the cursor and short batches. A
  group that is younger than its first entries is not reached, and cannot be: the
  API accepts nothing before it has ensured the group, which is what
  AcceptedAreInReach is about.
- *Shedder*: between a sample and the moment a copy's flag goes up there are three
  windows of one burst each, plus whatever the requests already admitted may still
  send. With the high mark H, bursts B and T sendings (copies times requests times
  how often an XADD is sent) the backlog reaches H - 1 + 3B + T. That is exactly the
  cap in both runs: 1 - 1 + 3 + 4 = 7 with two copies, 3 - 1 + 3 + 1 = 6 with the
  default cap of one; one more entry than the cap would show an eviction. Burst is an
  assumption on the environment: nothing in the code limits how much arrives
  between two polls, so NothingEvicted holds for the cap only as far as bursts
  fit between the high mark and the cap (`Roomy`, section 5), and it is claimed
  only until a copy restarts, because a restarted monitor sheds nothing until
  its first poll. Three abandoned entries are the high mark, which is what makes
  an overload last. For two copies the default cap is room enough from a mark of 6
  on, with thirteen entries, which is beyond TLC and left to the proof.
- *Fan-out*: two connections are enough for two readers to overlap, a newcomer
  after a drop, and the last one leaving while the other subscribes; three events
  over a cap of one show a reader that skips or repeats one, and one that is
  overtaken by a cut. Any number of connections is covered by the proofs.
- *Connection*: three events over a cap of one are a history, an event a held-up
  loop loses and one it gets after it; a channel of one is full while one event waits
  behind the one in hand. With two shared readers and a channel of two the three
  invariants hold as well, in 7.72 M states (SPECIFICATION Spec, SharedReaders = 2,
  BufSize = 2); any number of readers and any cap is covered by the proofs.
- *Credentials*: OneAdmin needs two seeds and an admin of each; LoginIsRight needs
  two tenants and a half one, which needs an error and a second fault.

MCWorkerSafety and MCShedding use the symmetry of workers and of copies of the
API; runs with liveness properties use none. Deadlock is checked except in the fan-out and the
connection, where everything may come to rest: every client gone, or the process
dead.

Fairness. `Worker!Fairness`: Redis answers and the goroutine is scheduled
(`Proceed`), and the supervisor starts what has exited (`Start`, `ApiBoot`), as
`restart: unless-stopped` says. No fairness on faults, requests or lapses.
`LoadShedding!Fairness`: every copy's ticker keeps ticking, workers keep reading and
keep acking what they hold; nothing makes clients send. While one copy sheds
another may admit, so SheddingEnds starts from all of them shedding.
`TenantFanout!Fairness`: each of a reader's two goroutines is scheduled; clients owe nothing, so a slow one
may stop reading for ever. `WSConnection!Fairness`: each goroutine is scheduled,
Redis answers, the ticker ticks; a write that succeeds is owed only while the
client takes bytes, and clients need not leave; the shared readers owe nothing
(what they owe is LiveEventArrives, in TenantFanout).

EveryEventComesOut ends its claim at the first fault, because after one it is not
true (section 6); EveryEntryIsDelivered and the refinement hold through faults.

Every property has a mutant in PROJECT.json, a plausible slip in the code it is
about (`...Rewinds`, `...OneMore`, `CancelAlways`, `PruneKeeps` and so on, each
defined just above the definition it replaces), under which TLC finds it violated.

## 5 Proofs

Each proof is for every value of the constants: any number of workers, processes,
tenants, events, connections and faults, batches, channels and caps of any size.
Assumed are only the ASSUMEs of the modules (the constants are numbers and sets
of the right kind), and what a theorem names itself (`Roomy`, `Alone`, finite
Requests, no lapse and no lost reply in the refinement of OnceOnly, and the
settings DefaultsEvictNothing is about; at least one copy of the API, and finitely
many, in NoGrowthWhileShedding).

`WorkQueueProofs`. QInv == QTypeOK /\ NothingSkipped /\ PendingWasDelivered is
inductive as it stands. From it follow QueueInvariant and NeverHandedOutTwice
(everything delivered is at or before the cursor, and a read starts after it);
HandedOutStep states the latter of a single step, for whoever uses the queue.

`WorkerProofs`. StepsAreQueueSteps shows that every step of the fleet is a step of
the queue or leaves it alone, so the queue's invariant carries over, and with it the
whole specification: FleetUsesQueue (Spec => QSpec) gives FleetQueueKeepsFaith. The queue by
itself skips what is older than the group; NothingIsPassedOver adds what the order of
boot contributes, that the group exists before the first event is accepted and is
never moved (GroupFirst). The fleet's
inductive invariant, FleetInv, has five parts, each a lemma of its own with one
step per action:

- **TInv** types, and where `cur` and `end` may be for each `pc`: without it the
  id a worker is at is not known to be an entry.
- **BInv** batches: what a worker holds is pending, delivered and nobody else's.
  A read hands out only ids beyond everything delivered, which is why exclusivity
  needs the queue's PendingWasDelivered.
- **CInv** claims: a worker past the lock holds the claim of its entry, and
  unlapsed claims of one event are one. This is what makes SET NX exclude.
- **EInv** effects: an entry with an effect was claimed, and an entry that a
  worker is still running has no effect yet, unless a reply was lost. Together
  with BInv (nobody else runs it) and CInv this gives one effect.
- **AInv** acks: an entry at the ack, or acked, had its effect, is a duplicate of
  a claimed one, errored, or is ambiguous.

On top of it, NothingIsReclaimed (an id in nobody's batch is at or before the
cursor, and reads start after it) and OneWorkerKeepsOrder, with an invariant of
its own, OInv: what a worker alone has recorded is never younger than the entry
it is at.

EveryEventHasAFate needs one more fact, Recorded (RInv): a claim of an entry that
is acked, or about to be, has had its effect, or an error or a lost reply was recorded
for it. An entry that was acked as a duplicate then owes its fate to the entry that
holds the claim (ClaimsHaveFate). NothingLostWithoutFault adds that nothing is
errored, ambiguous or stranded before the first fault (Unharmed).

OnlySharedIdsMix bounds a disagreement of section 6: as long as tenants do not share
event ids (OwnEventIds), TenantsAreIsolated holds.

`RefinementProofs`. With no lapse and no lost reply, LockAcquired is OnceOnly's
Claim (CInv: no other live claim of the event), HandlerOk and DlqOk are its
ComeOut (EInv: nothing has come out yet), and every other step leaves the mapped
variables alone, because the queue never rewrites an entry.

`SheddingProofs`. NothingEvicted is a matter of counting. `Below` bounds the
backlog by what each copy's monitor knows of it: at most its last sample and one
burst while a sample is held; at most H - 1 + B and the burst that is arriving while
none is, with its flag down. One copy whose flag is down therefore keeps the backlog
low, whatever the others do; and once all flags are up (`Shared`), backlog plus
sendings that are still due share H - 1 + 3B + T. `Roomy` says that this fits under
the cap, and it is tight: both runs reach their cap. NoGrowthWhileShedding needs
that a raised flag admits nobody, and that an XADD that takes effect uses up one of
the sendings of its request, so that a resent one does not make the load grow: it
was counted when the request was admitted.
SheddingQueueKeepsFaith carries the queue's promises over to the queue the shedders
sample, whose group is there from the start, so that Spec => QSpec is not to be
had; the step lemmas of WorkQueueProofs are enough. DefaultsEvictNothing joins
ConfigProofs and RoomIsEnough: with INGEST_STREAM_MAX_LEN left out the cap is twice
the mark, so Roomy comes down to a low-water percentage below 100 and to three
bursts and every sending of every request of every copy fitting in HighWater + 1
(25001 in the medium profile).

`FanoutProofs`. Lifecycle (a registered channel has an open forwarder and is not
closed) gives NeverSendsOnClosed; Reading (while somebody is registered, f.cancel
is a reader that runs and that nobody stopped) gives RegisteredAreFed. Single
adds that, as long as nobody was dropped, it is the only such reader, and that
there is none when nobody is registered: exactly what the drop of the last
subscriber breaks.

NothingElseIsSkipped is about order, and its invariant, OrderInv, follows an event
from the stream to a subscriber's channel. Pipes: what a reader holds is increasing
and at or before `from`. Gapless: from the head of its pipe up to `from` only what
was cut away is missing. Handed: all of it comes after what it gave already, and as
long as a subscriber is registered and not found full, every later event up to
`from` was given to it, is in the pipe, or was cut away (`Reached`). A subscriber
found full falls out of the last part, and is pruned before the same reader gives
anybody the next event: it is dropped, never skipped.

PanicNeedsFullChannel bounds another disagreement of section 6: a channel that is
closed while its forwarder runs was found full, so it was given at least BufSize
events (FullFirst), and until some connection was, DropIsHarmless holds.

`ConnectionProofs`. HistoryIsFollowed follows an event from the socket back to the
stream. Line: what is sent, in hand and in the channel are consecutive parts of
what was given. FeedInv is about what was given: what one source gave is increasing
and lacks only what was cut (OnlyCutIsMissing(given)), and it goes up to where that
source is (Reaching), which is what makes the next one fit. Replay says that the
history sent is a run that `history.next` continues, Ahead that a loop of the
connection's own never falls behind it, and Modes who puts events on the channel.
Closing says why a channel is closed and why a forwarder ends, for OpenIsFed.

`CredentialsProofs`. KeysInv says which keys exist at each place a creation can be
at, SessionInv that a cached session is of a created tenant and its own secret,
LoginInv what a request knows, and AdminInv that without a race one process seeds,
and only while there is no hash. CredentialsAreARegistry takes each step to one of
Registry: the second SET that returns is Register, the begin of a request is Ask,
each place where TenantAuth writes an answer is Grant, Refuse or BreakDown
(AnswersRight; that the answer is the right one is what KeysInv, SessionInv and
LoginInv are for), a crash is Forget, and all else changes nothing, because nobody
who was answered 201 stops being so (KnownForGood).

`ConfigProofs`. DefaultCapIsAboveMark: a cap that is left out is twice the shedding
mark, in every profile.

| Theorem | Property |
|---|---|
| QueueInvariant, NeverHandedOutTwice | QTypeOK, NothingSkipped, PendingWasDelivered; HandedOutOnceInOrder |
| TypeCorrect, PendingIsDelivered | Worker's TypeOK; PendingWasDelivered inside the fleet |
| NothingIsPassedOver | AcceptedAreInReach |
| ExclusiveBatches | BatchesAreExclusive |
| OneEffectPerEntry, OneEffectPerEvent | OneEffect, ProcessedOnce |
| EveryEventHasAFate, NothingLostWithoutFault, OnlySharedIdsMix | NoEventVanishes, EveryEventIsKept; TenantsAreIsolated of tenants with ids of their own |
| FleetUsesQueue, FleetQueueKeepsFaith | WorkQueue's QSpec; HandedOutOnceInOrder inside the fleet |
| NoSilentAck, NothingIsReclaimed, OneWorkerKeepsOrder | AckedIsAccountedFor, StrandedForGood, TenantOrder |
| FleetImplementsOnceOnly | ImplementsOnceOnly |
| SheddingTypes, RoomIsEnough, NoGrowthWhileShedding | LoadShedding's TypeOK, NothingEvicted, SheddingStopsGrowth |
| SheddingQueueKeepsFaith, DefaultsEvictNothing | NothingSkipped, PendingWasDelivered and HandedOutOnceInOrder inside the shedder; NothingEvicted from the settings |
| FanoutTypes, NeverSendsOnClosed, RegisteredAreFed, OneReader | TenantFanout's TypeOK, RegisteredIsOpen, SubscribersHaveReader, OneReaderUnlessDropped |
| NothingElseIsSkipped, PanicNeedsFullChannel | OnlyCutIsSkipped; DropIsHarmless while no channel was filled |
| ConnectionTypes, OpenIsFed, HistoryIsFollowed | WSConnection's TypeOK, OpenMeansFed, HistoryThenLive |
| CredTypes, WholeTenants, RightLogins, NoHalfTenants, OneAdminForGood | Credentials' TypeOK, ReturnedIsWhole, LoginIsRight, FailedLeavesNothing, OneAdmin |
| CredentialsAreARegistry | ImplementsRegistry |
| DefaultCapIsAboveMark | |

Only model-checked is liveness, which is out of the prover's reach:
EveryEntryIsDelivered, EveryEventComesOut, SheddingEnds, OverloadIsShed,
LiveEventArrives, ReadersEnd, EverythingEnds and HandedIsSent. Every invariant and
action property that a passing run checks has a theorem.

## 6 Where code and documents disagree

Four runs check what a document or a comment says, and TLC finds it violated:

- MCFindErrored: `main.go` acks a message whose processing returned an error; the
  comment above says it stays pending.
- MCFindAtLeastOnce: nothing reads the pending list back, so a crash between the
  read and the handler's XADD loses the event; the introduction promises
  at-least-once.
- MCFindTenants: the lock's key carries no tenant, so a tenant that uses another
  tenant's X-Event-Id loses its event.
- MCFindPanic: fanOut closes a full subscriber's channel, and its unsub closes it
  again: the API process panics.

More can be had from the same modules by changing an instance or reading a branch,
and is only noted here.

*Fan-out.* After the last subscriber was dropped its reader goes on, f.cancel is
still set, and the next Subscribe starts a second reader, which hands every event
out again, although `fanout.go` speaks of a single XREAD loop.
OneReaderUnlessDropped says that a drop is the only way to get there, and
ReadersEnd, which is about readers whose last subscriber left by itself, that there
is no other leak. An event appended before a new reader's first XREAD, or between
two that timed out, never reaches a subscriber that is already registered, although
the introduction says that processed events are delivered to connected clients;
OnlyCutIsSkipped says that a reader does so only until it has got its first event,
and LiveEventArrives is about events a reader has in hand.

*WebSocket.* A valid token of another tenant makes `err` nil and `err.Error()`
panics; the router recovers and answers 500 instead of the documented 403
(`recovered`). `protocolo.md` says there are no application-level pings and that a
connection without pong is closed after some 20 seconds; the code sends a
`{"type":"ping"}` every 30 seconds and has neither read nor write deadlines. The
handler does not look at the forwarder's end: the double close is all that keeps a
dropped client from waiting on a connection nobody feeds, and mending only that
would break OpenMeansFed (its mutant does so).

*Credentials.* The clean-up of a creation runs with the request's context: if the
client leaves after the first SET, half a tenant stays for ever (FailedLeavesNothing
names that exception; LoginIsRight says it lets nobody in). bcrypt looks at no
more than 72 bytes, so a SECRET_KEY_BYTES above 54 or a longer ADMIN_SEED_TOKEN
fails to hash; the model has that only as one of the errors a creation may meet.

*LoadShedding.* With INGEST_STREAM_MAX_LEN below the high mark accepted entries are
cut away unseen, although `.env.example` says the cap can be tuned freely; with
QUEUE_DEPTH_LOW_WATER_PCT at 0 shedding lasts until the backlog is empty, although
the comment on lowWaterPct says hysteresis is then disabled, and at 100 it is
released at the high mark, not below; more stranded entries than the low mark keep
shedding on for ever, although the comment on the choice of lag + pending says the
signal goes to zero when workers are in sync (SheddingEnds names that exception).

## 7 What is not modelled

- Redis losing writes or the stream. Redis is durable here, and the group, once
  created, stays. In the code EnsureGroup runs only when a process starts, so
  after such a loss every XREADGROUP fails, and the worker repeats it without a
  pause, until some process is restarted; the group is then created at `$` and
  what was queued in between is skipped. What is lost depends on the persistence
  settings of Redis, outside the program.
- A stored entry without the fields the code expects (ExtractEnvelope's and
  StreamTenantEvents' error paths): the only writers in the system always set
  them. The DLQ's own cap: nothing reads the DLQ back.
- Order over several workers: no document promises one, and TenantOrder is about
  one worker.
- Requests that are refused before any state is looked at (missing headers,
  malformed tenant ids, bodies that do not parse), the HTTP server and its
  graceful shutdown.
- Time: BLOCK, backoff, TTL, the ticker and the polling interval are
  nondeterministic choices, so every duration is covered, none is measured.
- Cryptography, parsing of the environment, settings that drive nothing modelled,
  the Redis client, metrics, tracing, health and the documentation site: no state
  another part depends on, see the notes in PROJECT.json.
