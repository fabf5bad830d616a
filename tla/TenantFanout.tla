---------------------------- MODULE TenantFanout ----------------------------
(***************************************************************************)
(* The live feed of one tenant inside one API process: TenantFanout        *)
(* (internal/service/fanout.go), the XREAD goroutine it starts             *)
(* (StreamTenantEvents in internal/service/streams.go), and the goroutine  *)
(* of WSEvents that forwards a subscriber's channel to its WebSocket       *)
(* (internal/handler/ws.go).                                               *)
(*                                                                         *)
(* A reader is a pair of goroutines joined by a channel, its pipe: one     *)
(* blocks in XREAD and sends what it gets into the pipe, the other takes   *)
(* from the pipe and fans out.  Subscribe starts a reader, and nothing     *)
(* waits for the previous one to have ended.  Sections of code under the   *)
(* mutex are one step; the fan-out, which lets the read lock go before it  *)
(* takes the write lock, is two.                                           *)
(***************************************************************************)
EXTENDS Integers, Sequences, FiniteSets

CONSTANTS
    Conns,      \* WebSocket connections; each subscribes at most once
    BufSize,    \* cfg.WSFanoutBufferSize, of a channel and of a pipe
    StreamMaxLen, \* cfg.StreamMaxLen; 0 means the stream is never cut
    MaxEvents   \* bound of the model: events of the tenant's stream

ASSUME FanoutAssumption ==
    /\ IsFiniteSet(Conns) /\ BufSize \in Nat \ {0}
    /\ StreamMaxLen \in Nat /\ MaxEvents \in Nat

\* Readers are numbered as they start; no more start than there are Subscribes.
Readers == 1 .. Cardinality(Conns)

None == 0

VARIABLES
    events,     \* how many events were added to the tenant's stream, and ...
    cut,        \* ... how many of them MAXLEN has cut: it holds cut + 1 .. events
    subs,       \* f.subs: the connections whose channel is registered
    cancel,     \* f.cancel: the reader it would cancel, or None
    buf,        \* a connection's channel: what is buffered in it ...
    closed,     \* ... and the connections whose channel is closed
    conn,       \* a connection's forwarder: "idle", "open" or "gone"
    received,   \* history: what was put on its channel, and by which reader
    prod,       \* a reader's XREAD goroutine
    started,    \* readers whose currentID is an id; before that it is "$"
    from, upto, \* XREAD asks for what is after from; its batch ends at upto
    pipe,       \* the channel between a reader's two goroutines
    loop,       \* a reader's fan-out goroutine
    dead,       \* the subscribers its fanOut found full
    cancelled,  \* readers whose context is cancelled
    panicked    \* a goroutine panicked: the process is gone

tenantStream == <<events, cut>>
channels == <<buf, closed>>
clients == <<conn, received>>
registry == <<subs, cancel>>
xread == <<prod, started, from, upto>>
fan == <<loop, dead>>
vars == <<tenantStream, registry, channels, clients, xread, pipe, fan, cancelled, panicked>>

Live(r) == loop[r] \in {"recv", "prune"}
NotStarted == {r \in Readers : loop[r] = "none"}

Init ==
    /\ events = 0 /\ cut = 0
    /\ subs = {} /\ cancel = None
    /\ buf = [c \in Conns |-> <<>>] /\ closed = {}
    /\ conn = [c \in Conns |-> "idle"] /\ received = [c \in Conns |-> <<>>]
    /\ prod = [r \in Readers |-> "none"] /\ started = {}
    /\ from = [r \in Readers |-> 0] /\ upto = [r \in Readers |-> 0]
    /\ pipe = [r \in Readers |-> <<>>]
    /\ loop = [r \in Readers |-> "none"] /\ dead = [r \in Readers |-> {}]
    /\ cancelled = {} /\ panicked = FALSE

\* Readers whose XREAD is blocked, and the rest of what an XREAD needs: the
\* first id it can still return, after from.
Blocked == {r \in Readers : prod[r] = "blocked"}

After(n) == IF n < cut THEN cut ELSE n

\* A worker appends an event (PublishTenantEvent: XADD MAXLEN ~), and Redis
\* hands it at once to every XREAD that is blocked on the stream.
Event ==
    /\ events < MaxEvents
    /\ events' = events + 1
    /\ cut' \in {n \in cut .. events' :
                   n = cut \/ (StreamMaxLen > 0 /\ events' - n >= StreamMaxLen)}
    /\ prod' = [r \in Readers |-> IF r \in Blocked THEN "send" ELSE prod[r]]
    /\ upto' = [r \in Readers |-> IF r \in Blocked THEN events' ELSE upto[r]]
    /\ UNCHANGED <<registry, channels, clients, started, from, pipe, fan, cancelled, panicked>>

----------------------------------------------------------------------------
\* Subscribe: the channel is registered; if it is the only one, a reader is
\* started and replaces whatever f.cancel was.
Subscribe(c) ==
    /\ conn[c] = "idle"
    /\ conn' = [conn EXCEPT ![c] = "open"]
    /\ subs' = subs \cup {c}
    /\ IF Cardinality(subs') = 1
       THEN \E r \in NotStarted :
               /\ \A q \in NotStarted : r <= q
               /\ cancel' = r
               /\ prod' = [prod EXCEPT ![r] = "top"]
               /\ loop' = [loop EXCEPT ![r] = "recv"]
       ELSE UNCHANGED <<cancel, prod, loop>>
    /\ UNCHANGED <<tenantStream, channels, received, started, from, upto, pipe, dead, cancelled, panicked>>

\* Faulty variants: the reader is stopped whoever leaves; or never.
CancelAlways(remaining) ==
    /\ cancelled' = IF cancel # None THEN cancelled \cup {cancel} ELSE cancelled
    /\ cancel' = None

CancelNever(remaining) == UNCHANGED <<cancel, cancelled>>

\* The reader is stopped when the last subscriber leaves.
CancelIfLast(remaining) ==
    IF remaining = {} /\ cancel # None
    THEN cancelled' = cancelled \cup {cancel} /\ cancel' = None
    ELSE UNCHANGED <<cancel, cancelled>>

\* unsub, deferred by the forwarder: delete, then close, which panics if the
\* channel is closed already, then the cancel.
Unsub(c) ==
    /\ conn' = [conn EXCEPT ![c] = "gone"]
    /\ subs' = subs \ {c}
    /\ IF c \in closed
       THEN panicked' = TRUE /\ UNCHANGED <<closed, cancel, cancelled>>
       ELSE /\ closed' = closed \cup {c}
            /\ CancelIfLast(subs \ {c})
            /\ UNCHANGED panicked
    /\ UNCHANGED <<tenantStream, buf, received, xread, pipe, fan>>

\* The forwarder takes an event and writes it to the WebSocket.
Forward(c) ==
    /\ conn[c] = "open" /\ buf[c] # <<>>
    /\ buf' = [buf EXCEPT ![c] = Tail(@)]
    /\ UNCHANGED <<tenantStream, registry, closed, clients, xread, pipe, fan, cancelled, panicked>>

\* It ends because the write fails or the context is done, at any time ...
Leave(c) == conn[c] = "open" /\ Unsub(c)

\* ... or because its channel is closed and drained.
SeeClosed(c) == conn[c] = "open" /\ c \in closed /\ buf[c] = <<>> /\ Unsub(c)

----------------------------------------------------------------------------
(***************************************************************************)
(* The goroutine of StreamTenantEvents, started with "$".                  *)
(***************************************************************************)

\* Where XREAD starts when it is issued: Redis resolves "$" at that moment.
StartOf(r) == IF r \in started THEN After(from[r]) ELSE events

\* XREAD returns what is there, or blocks.
Issue(r) ==
    /\ prod[r] = "top" /\ r \notin cancelled
    /\ from' = [from EXCEPT ![r] = StartOf(r)]
    /\ upto' = [upto EXCEPT ![r] = events]
    /\ prod' = [prod EXCEPT ![r] = IF StartOf(r) < events THEN "send" ELSE "blocked"]
    /\ UNCHANGED <<tenantStream, registry, channels, clients, started, pipe, fan, cancelled, panicked>>

\* BLOCK elapses with nothing new; the loop comes round with the same id.  A
\* cancel does not interrupt it.
Timeout(r) ==
    /\ prod[r] = "blocked"
    /\ prod' = [prod EXCEPT ![r] = "top"]
    /\ UNCHANGED <<tenantStream, registry, channels, clients, started, from, upto, pipe, fan, cancelled, panicked>>

\* Faulty variant: currentID stays what it was called with.
StartedNever(r) == UNCHANGED started

Advance(r) == started' = started \cup {r}

\* The next event of the batch goes into the pipe, when there is room.
Send(r) ==
    /\ prod[r] = "send" /\ Len(pipe[r]) < BufSize
    /\ pipe' = [pipe EXCEPT ![r] = Append(@, from[r] + 1)]
    /\ from' = [from EXCEPT ![r] = @ + 1]
    /\ Advance(r)
    /\ prod' = [prod EXCEPT ![r] = IF from'[r] = upto[r] THEN "top" ELSE "send"]
    /\ UNCHANGED <<tenantStream, registry, channels, clients, upto, fan, cancelled, panicked>>

\* ctx.Done, seen at the top of the loop or instead of a send.
ProdExit(r) ==
    /\ prod[r] \in {"top", "send"} /\ r \in cancelled
    /\ prod' = [prod EXCEPT ![r] = "done"]
    /\ UNCHANGED <<tenantStream, registry, channels, clients, started, from, upto, pipe, fan, cancelled, panicked>>

----------------------------------------------------------------------------
(***************************************************************************)
(* The goroutine of readerLoop.  With its context done and an event in the *)
(* pipe, select may pick either.                                           *)
(***************************************************************************)
\* Faulty variant: a channel counts as full one event too late.
FullLate == {c \in subs : Len(buf[c]) > BufSize}

Full == {c \in subs : Len(buf[c]) >= BufSize}

\* fanOut under the read lock: the event goes to every channel with room.
FanOut(r) ==
    /\ loop[r] = "recv" /\ pipe[r] # <<>>
    /\ pipe' = [pipe EXCEPT ![r] = Tail(@)]
    /\ buf' = [c \in Conns |->
                  IF c \in subs \ Full THEN Append(buf[c], Head(pipe[r])) ELSE buf[c]]
    /\ received' = [c \in Conns |->
                  IF c \in subs \ Full THEN Append(received[c], [by |-> r, event |-> Head(pipe[r])])
                                       ELSE received[c]]
    /\ dead' = [dead EXCEPT ![r] = Full]
    /\ loop' = [loop EXCEPT ![r] = IF Full = {} THEN "recv" ELSE "prune"]
    /\ UNCHANGED <<tenantStream, registry, closed, conn, xread, cancelled, panicked>>

\* Faulty variant: the channel is closed but stays registered.
PruneKeeps(r) ==
    /\ loop[r] = "prune"
    /\ closed' = closed \cup (dead[r] \cap subs)
    /\ dead' = [dead EXCEPT ![r] = {}]
    /\ loop' = [loop EXCEPT ![r] = "recv"]
    /\ UNCHANGED <<tenantStream, subs, cancel, buf, clients, xread, pipe, cancelled, panicked>>

\* fanOut under the write lock: those found full, and still registered, are
\* closed and removed.  f.cancel is not looked at.
Prune(r) ==
    /\ loop[r] = "prune"
    /\ closed' = closed \cup (dead[r] \cap subs)
    /\ subs' = subs \ dead[r]
    /\ dead' = [dead EXCEPT ![r] = {}]
    /\ loop' = [loop EXCEPT ![r] = "recv"]
    /\ UNCHANGED <<tenantStream, cancel, buf, clients, xread, pipe, cancelled, panicked>>

\* ctx.Done, or the pipe closed by an XREAD goroutine that has ended.
LoopExit(r) ==
    /\ loop[r] = "recv"
    /\ r \in cancelled \/ (prod[r] = "done" /\ pipe[r] = <<>>)
    /\ loop' = [loop EXCEPT ![r] = "done"]
    /\ UNCHANGED <<tenantStream, registry, channels, clients, xread, pipe, dead, cancelled, panicked>>

ReaderStep(r) ==
    \/ Issue(r) \/ Timeout(r) \/ Send(r) \/ ProdExit(r)
    \/ FanOut(r) \/ Prune(r) \/ LoopExit(r)

Next ==
    /\ ~panicked
    /\ \/ Event
       \/ \E c \in Conns : Subscribe(c) \/ Forward(c) \/ Leave(c) \/ SeeClosed(c)
       \/ \E r \in Readers : ReaderStep(r)

Spec == Init /\ [][Next]_vars

(***************************************************************************)
(* Every goroutine of a reader is scheduled and Redis answers; clients owe *)
(* nothing: they may read slowly, leave or stay.                           *)
(***************************************************************************)
Fairness ==
    \A r \in Readers :
        /\ WF_vars(~panicked /\ (Issue(r) \/ Timeout(r) \/ Send(r) \/ ProdExit(r)))
        /\ WF_vars(~panicked /\ (FanOut(r) \/ Prune(r) \/ LoopExit(r)))

FairSpec == Spec /\ Fairness

----------------------------------------------------------------------------
\* The types of the variables.
TypeOK ==
    /\ events \in 0 .. MaxEvents /\ cut \in 0 .. events
    /\ subs \subseteq Conns /\ closed \subseteq Conns
    /\ cancel \in Readers \cup {None}
    /\ conn \in [Conns -> {"idle", "open", "gone"}]
    /\ buf \in [Conns -> Seq(1 .. events)] /\ \A c \in Conns : Len(buf[c]) <= BufSize
    /\ received \in [Conns -> Seq([by : Readers, event : 1 .. events])]
    /\ prod \in [Readers -> {"none", "top", "blocked", "send", "done"}]
    /\ loop \in [Readers -> {"none", "recv", "prune", "done"}]
    /\ from \in [Readers -> 0 .. events] /\ upto \in [Readers -> 0 .. events]
    /\ pipe \in [Readers -> Seq(1 .. events)] /\ \A r \in Readers : Len(pipe[r]) <= BufSize
    /\ dead \in [Readers -> SUBSET Conns]
    /\ started \subseteq Readers /\ cancelled \subseteq Readers
    /\ panicked \in BOOLEAN

\* A registered channel is open: no fan-out, of whichever reader, ever sends on
\* a closed channel, although a channel is closed at two places.
RegisteredIsOpen == subs \cap closed = {}

\* Somebody who is registered is fed: a reader is running that nobody stopped,
\* through every order of subscribing, leaving and being dropped.
SubscribersHaveReader ==
    subs # {} => \E r \in Readers : Live(r) /\ r \notin cancelled

\* Only a drop makes a second reader: as long as fanOut has dropped nobody, at
\* most one reader runs that nobody has stopped, however subscribers come and
\* go.  (fanout.go: "a single XREAD loop feeds all subscriber channels".)
Dropped == {c \in closed : conn[c] = "open"}

OneReaderUnlessDropped ==
    Dropped = {} /\ ~panicked =>
        \A q, r \in Readers \ cancelled : Live(q) /\ Live(r) => q = r

\* What one reader gives one subscriber is in the order of the stream, without
\* repetition, and leaves out only what MAXLEN cut away while the reader was
\* held up: a subscriber without room is dropped, never skipped.
OnlyCutIsSkipped ==
    \A c \in Conns : \A i, j \in DOMAIN received[c] :
        LET x == received[c][i]  y == received[c][j]
        IN  i < j /\ x.by = y.by =>
            /\ x.event < y.event
            /\ \A n \in x.event + 1 .. y.event - 1 :
                   n <= cut \/ \E k \in i + 1 .. j - 1 : received[c][k] = [x EXCEPT !.event = n]

\* An event a running reader has got from Redis reaches each subscriber's
\* channel, or the subscriber is dropped, or leaves.
Given(c, n) == \E k \in DOMAIN received[c] : received[c][k].event = n

HasInHand(r, n) == prod[r] = "send" /\ from[r] < n /\ n <= upto[r]

LiveEventArrives ==
    \A c \in Conns, n \in 1 .. MaxEvents :
        (c \in subs /\ \E r \in Readers \ cancelled : Live(r) /\ HasInHand(r, n))
            ~> (Given(c, n) \/ c \notin subs \/ panicked)

\* When the last subscriber leaves by itself, the reader it had stops, both its
\* goroutines, even if somebody subscribes in the meantime.  A reader whose last
\* subscriber was dropped is not among them: nobody stops it, and the next
\* Subscribe starts a second one (see OneReaderUnlessDropped).
Ended(r) == ~Live(r) /\ prod[r] \in {"none", "done"}

ReadersEnd ==
    \A r \in Readers :
        (Live(r) /\ subs = {} /\ Dropped = {}) ~> (panicked \/ Ended(r))

----------------------------------------------------------------------------
(***************************************************************************)
(* What comments and documents of the repository say of the fan-out, which *)
(* the code does not do.                                                   *)
(***************************************************************************)

\* fanout.go on readerLoop: "Drop-on-full: disconnect slow subscribers when
\* their buffer is full".  Only the subscriber goes, not the process.
DropIsHarmless == ~panicked
=============================================================================
