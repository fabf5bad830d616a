---------------------------- MODULE WSConnection ----------------------------
(***************************************************************************)
(* One WebSocket connection: WSEvents (internal/handler/ws.go), the token  *)
(* it asks for (VerifySignedToken in internal/security/security.go), the   *)
(* history it replays (ReadTenantHistory) and the feed it forwards.        *)
(*                                                                         *)
(* The handler's goroutine answers the handshake, sends the history,       *)
(* starts a heartbeat and a forwarder, and then only reads, to see the     *)
(* client go.  It is the only one of the three that closes the connection. *)
(*                                                                         *)
(* Without WSUseFanout the feed is an XREAD loop of the connection's own   *)
(* (StreamTenantEvents), which waits for room in the channel.  With it,    *)
(* the readers of TenantFanout fill the channel, and drop a subscriber     *)
(* whose channel is full.  What they are to one subscriber is modelled:    *)
(* there may be several, one that runs may be behind, and each gives in    *)
(* the order of the stream and leaves out only what MAXLEN has cut (the    *)
(* OnlyCutIsSkipped of TenantFanout, which has their goroutines).          *)
(***************************************************************************)
EXTENDS Integers, Sequences, FiniteSets

CONSTANTS
    HistoryCount,   \* cfg.StreamHistoryCount
    BufSize,        \* cfg.WSFanoutBufferSize, of the forwarder's channel
    StreamMaxLen,   \* cfg.StreamMaxLen; 0 means the stream is never cut
    SharedReaders,  \* bound of the model: shared readers that run at once
    MaxEvents       \* bound of the model: events of the tenant's stream

ASSUME ConnectionAssumption ==
    /\ HistoryCount \in Nat /\ BufSize \in Nat \ {0} /\ StreamMaxLen \in Nat
    /\ SharedReaders \in Nat \ {0} /\ MaxEvents \in Nat

\* What puts events on the channel: the shared readers, or the loop of its own.
Readers == 1 .. SharedReaders
Own == 0
Fed == [by : Readers \cup {Own}, event : 1 .. MaxEvents]

VARIABLES
    useFanout,  \* cfg.WSUseFanout
    token,      \* the token of the request
    events,     \* how many events were added to the tenant's stream, and ...
    cut,        \* ... how many of them MAXLEN has cut: it holds cut + 1 .. events
    handler,    \* the handler's place in WSEvents
    client,     \* "reading", "stalled" (takes nothing for now) or "gone"
    history,    \* the range of events XREVRANGE returned, and what of it is left
    fwd,        \* the forwarder: "none", "start", "wait", "write", "unsub", "ended"
    hand,       \* what it is writing
    beat,       \* the heartbeat: "none", "wait", "write" or "ended"
    xread,      \* its own loop: "none", "top", "blocked", "send" or "done"
    started,    \* the loop's currentID is an id and no longer "$"
    from, upto, \* it asks for what is after from; its batch ends at upto
    feeding,    \* the shared readers that run while it is subscribed, and ...
    at,         \* ... the event each has reached: it fans out what is after it
    foundFull,  \* readers that found the channel full and are about to close it
    buf,        \* the forwarder's channel, and ...
    closed,     \* ... whether its sender has closed it
    given,      \* history: what was put on the channel
    replayed,   \* history: the events sent as history
    sent,       \* history: what the forwarder has sent
    failed,     \* history: a write of the forwarder has failed
    overlapped, \* history: heartbeat and forwarder were in WriteMessage at once
    panicked    \* a goroutine panicked: the process is gone

request == <<useFanout, token>>
handling == <<handler, history>>
tenantStream == <<events, cut>>
forwarding == <<fwd, hand, failed>>
loop == <<xread, started, from, upto>>
shared == <<feeding, at, foundFull>>
channel == <<buf, closed, given>>
outcome == <<replayed, sent>>
clash == <<overlapped, panicked>>
vars == <<request, tenantStream, handling, client, forwarding, beat, loop, shared,
          channel, outcome, clash>>

Nothing == [by |-> Own, event |-> 0]

Tokens == [signed : BOOLEAN, sub : {"own", "other"}, expired : BOOLEAN]

Init ==
    /\ useFanout \in BOOLEAN /\ token \in Tokens
    /\ events = 0 /\ cut = 0
    /\ handler = "handshake" /\ history = [next |-> 1, end |-> 0]
    /\ client = "reading"
    /\ fwd = "none" /\ hand = Nothing /\ failed = FALSE
    /\ beat = "none"
    /\ xread = "none" /\ started = FALSE /\ from = 0 /\ upto = 0
    /\ feeding = {} /\ at = [r \in Readers |-> 0] /\ foundFull = {}
    /\ buf = <<>> /\ closed = FALSE /\ given = <<>>
    /\ replayed = <<>> /\ sent = <<>>
    /\ overlapped = FALSE /\ panicked = FALSE

\* ServeHTTP has returned: conn.Close was deferred, and net/http cancels the
\* request's context, of a hijacked connection too.
Returned == handler = "returned"

\* A write to the connection can fail once either side has closed it, and can
\* wait as long as the client takes nothing: there is no write deadline.
CanFail == Returned \/ client = "gone"

----------------------------------------------------------------------------
\* A worker appends an event (PublishTenantEvent: XADD MAXLEN ~); an XREAD
\* blocked on the stream returns it.
Event ==
    /\ events < MaxEvents
    /\ events' = events + 1
    /\ cut' \in {n \in cut .. events' :
                   n = cut \/ (StreamMaxLen > 0 /\ events' - n >= StreamMaxLen)}
    /\ IF xread = "blocked"
       THEN xread' = "send" /\ upto' = events'
       ELSE UNCHANGED <<xread, upto>>
    /\ UNCHANGED <<request, handling, client, forwarding, beat, started, from,
                   shared, channel, outcome, clash>>

\* The first event after the n-th that the stream still holds is after After(n).
After(n) == IF n < cut THEN cut ELSE n

\* The client stops taking bytes, takes them again, or is seen to be gone.
ClientMoves ==
    /\ client # "gone"
    /\ client' \in {"reading", "stalled", "gone"} \ {client}
    /\ UNCHANGED <<request, tenantStream, handling, forwarding, beat, loop, shared,
                   channel,
                   outcome, clash>>

----------------------------------------------------------------------------
(***************************************************************************)
(* The handler.                                                            *)
(***************************************************************************)

\* VerifySignedToken returns the tenant of a token that is signed and has not
\* expired, and an error for any other.
TokenError == ~token.signed \/ token.expired

\* Refused are a tenant_id that is no UUID and an Upgrade that fails.  A bad
\* token is answered 401.  With another tenant's err is nil, and the answer's
\* err.Error() panics; the router's Recoverer answers 500.
Handshake ==
    /\ handler = "handshake"
    /\ handler' \in {"refused", IF TokenError THEN "unauthorized"
                                ELSE IF token.sub = "own" THEN "history"
                                ELSE "recovered"}
    /\ UNCHANGED <<request, tenantStream, history, client, forwarding, beat, loop, shared,
                   channel, outcome, clash>>

\* XREVRANGE + - COUNT n, in chronological order.
LastOf(n) ==
    [next |-> After(IF events < n THEN 0 ELSE events - n) + 1, end |-> events]

\* ReadTenantHistory; when it fails, that is logged and there is no history.
ReadHistory ==
    /\ handler = "history"
    /\ history' \in {LastOf(HistoryCount), [next |-> 1, end |-> 0]}
    /\ handler' = "send"
    /\ UNCHANGED <<request, tenantStream, client, forwarding, beat, loop, shared,
                   channel,
                   outcome, clash>>

SendHistory ==
    /\ handler = "send" /\ history.next <= history.end
    /\ replayed' = Append(replayed, history.next)
    /\ history' = [history EXCEPT !.next = @ + 1]
    /\ UNCHANGED <<request, tenantStream, handler, client, forwarding, beat, loop,
                   shared, channel, sent, clash>>

SendHistoryFails ==
    /\ handler = "send" /\ history.next <= history.end
    /\ client = "gone"
    /\ handler' = "returned"
    /\ UNCHANGED <<request, tenantStream, history, client, forwarding, beat, loop, shared,
                   channel, outcome, clash>>

StartGoroutines ==
    /\ handler = "send" /\ history.next > history.end
    /\ handler' = "read" /\ beat' = "wait" /\ fwd' = "start"
    /\ UNCHANGED <<request, tenantStream, history, client, hand, failed, loop, shared,
                   channel, outcome, clash>>

\* ReadMessage fails; what it returns before that is thrown away.
ReadFails ==
    /\ handler = "read" /\ client = "gone"
    /\ handler' = "returned"
    /\ UNCHANGED <<request, tenantStream, history, client, forwarding, beat, loop, shared,
                   channel, outcome, clash>>

----------------------------------------------------------------------------
(***************************************************************************)
(* The XREAD loop of its own.                                              *)
(***************************************************************************)

\* Where XREAD starts when it is issued: Redis resolves "$" at that moment.
StartOf == IF started THEN After(from) ELSE events

Issue ==
    /\ xread = "top" /\ ~Returned
    /\ from' = StartOf /\ upto' = events
    /\ xread' = IF StartOf < events THEN "send" ELSE "blocked"
    /\ UNCHANGED <<request, tenantStream, handling, client, forwarding, beat, started,
                   shared, channel, outcome, clash>>

\* BLOCK elapses with nothing new.
Timeout ==
    /\ xread = "blocked" /\ xread' = "top"
    /\ UNCHANGED <<request, tenantStream, handling, client, forwarding, beat, started,
                   from, upto, shared, channel, outcome, clash>>

\* An event goes into the forwarder's channel.
Put(s, n) ==
    /\ buf' = Append(buf, [by |-> s, event |-> n])
    /\ given' = Append(given, [by |-> s, event |-> n])

\* Faulty variant: nobody waits for room.
GiveAnyway ==
    /\ xread = "send"
    /\ Put(Own, from + 1)
    /\ from' = from + 1 /\ started' = TRUE
    /\ xread' = IF from' = upto THEN "top" ELSE "send"
    /\ UNCHANGED <<request, tenantStream, handling, client, forwarding, beat, upto,
                   shared, closed, outcome, clash>>

\* The next event of the batch, when there is room.
Give ==
    /\ xread = "send" /\ Len(buf) < BufSize
    /\ Put(Own, from + 1)
    /\ from' = from + 1 /\ started' = TRUE
    /\ xread' = IF from' = upto THEN "top" ELSE "send"
    /\ UNCHANGED <<request, tenantStream, handling, client, forwarding, beat, upto,
                   shared, closed, outcome, clash>>

\* The loop sees its context done and closes the channel.
FeedEnds ==
    /\ Returned /\ xread \in {"top", "send"}
    /\ closed' = TRUE /\ xread' = "done"
    /\ UNCHANGED <<request, tenantStream, handling, client, forwarding, beat, started,
                   from, upto, shared, buf, given, outcome, clash>>

----------------------------------------------------------------------------
(***************************************************************************)
(* The shared readers, as this subscriber meets them.  One that has been   *)
(* cancelled may still give something; one that does no more has ended.    *)
(***************************************************************************)

\* f.subs has the channel.
Registered == useFanout /\ fwd \notin {"none", "start"} /\ ~closed

\* What a reader may fan out next.
NextOf(r) == {n \in at[r] + 1 .. events : n <= After(at[r]) + 1}

\* Faulty variant: a full channel misses the event and stays subscribed.
FanOutSkips(r) ==
    /\ Registered /\ r \in feeding \ foundFull
    /\ \E n \in NextOf(r) :
           /\ at' = [at EXCEPT ![r] = n]
           /\ IF Len(buf) < BufSize THEN Put(r, n) ELSE UNCHANGED <<buf, given>>
    /\ UNCHANGED <<request, tenantStream, handling, client, forwarding, beat, loop,
                   feeding, foundFull, closed, outcome, clash>>

\* fanOut under the read lock: the event goes into the channel, or the channel is
\* found full.
FanOut(r) ==
    /\ Registered /\ r \in feeding \ foundFull
    /\ \E n \in NextOf(r) :
           IF Len(buf) < BufSize
           THEN Put(r, n) /\ at' = [at EXCEPT ![r] = n] /\ UNCHANGED foundFull
           ELSE foundFull' = foundFull \cup {r} /\ UNCHANGED <<buf, given, at>>
    /\ UNCHANGED <<request, tenantStream, handling, client, forwarding, beat, loop,
                   feeding, closed, outcome, clash>>

\* fanOut under the write lock: if it is still registered, it is closed and
\* forgotten.
Drop ==
    /\ Registered /\ foundFull # {}
    /\ closed' = TRUE
    /\ UNCHANGED <<request, tenantStream, handling, client, forwarding, beat, loop,
                   shared, buf, given, outcome, clash>>

----------------------------------------------------------------------------
(***************************************************************************)
(* The forwarder.  A panic of this goroutine, or of the heartbeat, is      *)
(* recovered by nobody.                                                    *)
(***************************************************************************)

\* Subscribe starts a reader if nobody else is registered.  Others may be running
\* already, wherever they are: the one of the subscribers there are, and those
\* that earlier ones left behind.  One whose "$" is not resolved yet starts at
\* any later event.  Or else it is a loop of its own from "$".
Subscribe ==
    /\ fwd = "start" /\ fwd' = "wait"
    /\ IF useFanout
       THEN /\ feeding' \in SUBSET Readers \ {{}}
            /\ at' \in [Readers -> 0 .. MaxEvents]
            /\ \A r \in Readers \ feeding' : at'[r] = 0
            /\ UNCHANGED xread
       ELSE xread' = "top" /\ UNCHANGED <<feeding, at>>
    /\ UNCHANGED <<request, tenantStream, handling, client, hand, failed, beat, started,
                   from, upto, foundFull, channel, outcome, clash>>

\* gorilla/websocket allows one writer at a time.  When a second one comes in,
\* it panics, or the two make one frame of their messages, or all goes well.
BeginWrite(other) ==
    /\ overlapped' = (overlapped \/ other = "write")
    /\ panicked' \in IF other = "write" THEN BOOLEAN ELSE {FALSE}

Take ==
    /\ fwd = "wait" /\ buf # <<>>
    /\ fwd' = "write" /\ hand' = Head(buf) /\ buf' = Tail(buf)
    /\ BeginWrite(beat)
    /\ UNCHANGED <<request, tenantStream, handling, client, failed, beat, loop, shared,
                   closed, given, outcome>>

\* Faulty variant: the forwarder sends one event and returns.
WriteOkOnce ==
    /\ fwd = "write" /\ ~Returned
    /\ fwd' = "unsub"
    /\ sent' = Append(sent, hand)
    /\ UNCHANGED <<request, tenantStream, handling, client, hand, failed, beat, loop,
                   shared, channel, replayed, clash>>

WriteOk ==
    /\ fwd = "write" /\ ~Returned
    /\ fwd' = "wait"
    /\ sent' = Append(sent, hand) \/ (overlapped /\ UNCHANGED sent)
    /\ UNCHANGED <<request, tenantStream, handling, client, hand, failed, beat, loop,
                   shared, channel, replayed, clash>>

WriteFails ==
    /\ fwd = "write" /\ CanFail
    /\ fwd' = "unsub" /\ failed' = TRUE
    /\ UNCHANGED <<request, tenantStream, handling, client, hand, beat, loop, shared,
                   channel, outcome, clash>>

\* Faulty variant: only the channel ends the loop.
FeedIsOverNoContext == closed /\ buf = <<>>

\* What the forwarder's select sees besides an event: its channel closed and
\* drained, or its context done.
FeedIsOver == Returned \/ (closed /\ buf = <<>>)

SeeEnd ==
    /\ fwd = "wait" /\ FeedIsOver
    /\ fwd' = "unsub"
    /\ UNCHANGED <<request, tenantStream, handling, client, hand, failed, beat, loop,
                   shared, channel, outcome, clash>>

\* Faulty variant: a channel that is closed already is left alone.
UnsubOnce ==
    /\ fwd = "unsub"
    /\ fwd' = "ended" /\ closed' = (closed \/ useFanout)
    /\ UNCHANGED <<request, tenantStream, handling, client, hand, failed, beat, loop,
                   shared, buf, given, outcome, clash>>

\* The deferred unsub, then close(done).  unsub closes the channel, which
\* panics if fanOut has closed it already.
Unsub ==
    /\ fwd = "unsub"
    /\ IF useFanout /\ closed
       THEN panicked' = TRUE /\ UNCHANGED <<fwd, closed>>
       ELSE /\ fwd' = "ended" /\ closed' = (closed \/ useFanout)
            /\ UNCHANGED panicked
    /\ UNCHANGED <<request, tenantStream, handling, client, hand, failed, beat, loop,
                   shared, buf, given, outcome, overlapped>>

----------------------------------------------------------------------------
(***************************************************************************)
(* The heartbeat.                                                          *)
(***************************************************************************)
Tick ==
    /\ beat = "wait" /\ beat' = "write"
    /\ BeginWrite(fwd)
    /\ UNCHANGED <<request, tenantStream, handling, client, forwarding, loop, shared,
                   channel, outcome>>

BeatOk ==
    /\ beat = "write" /\ ~Returned
    /\ beat' = "wait"
    /\ UNCHANGED <<request, tenantStream, handling, client, forwarding, loop, shared,
                   channel, outcome, clash>>

\* Its write fails, or done is closed.
BeatEnds ==
    /\ (beat = "write" /\ CanFail) \/ (beat = "wait" /\ fwd = "ended")
    /\ beat' = "ended"
    /\ UNCHANGED <<request, tenantStream, handling, client, forwarding, loop, shared,
                   channel, outcome, clash>>

----------------------------------------------------------------------------
HandlerStep ==
    Handshake \/ ReadHistory \/ SendHistory \/ SendHistoryFails
        \/ StartGoroutines \/ ReadFails

LoopStep == Issue \/ Timeout \/ Give \/ FeedEnds

SharedStep == (\E r \in Readers : FanOut(r)) \/ Drop

ForwarderStep ==
    Subscribe \/ Take \/ WriteOk \/ WriteFails \/ SeeEnd \/ Unsub

BeatStep == Tick \/ BeatOk \/ BeatEnds

Next ==
    /\ ~panicked
    /\ \/ Event \/ ClientMoves \/ HandlerStep \/ LoopStep \/ SharedStep
       \/ ForwarderStep \/ BeatStep

Spec == Init /\ [][Next]_vars

(***************************************************************************)
(* Every goroutine is scheduled, Redis answers and the ticker ticks.  A    *)
(* write that succeeds is owed only while the client takes bytes.  Nothing *)
(* is owed by the shared readers: LiveEventArrives of TenantFanout is.     *)
(***************************************************************************)
Owed == client # "stalled"

Fairness ==
    /\ WF_vars(~panicked /\ HandlerStep /\ (SendHistory => Owed))
    /\ WF_vars(~panicked /\ LoopStep)
    /\ WF_vars(~panicked /\ ForwarderStep /\ (WriteOk => Owed))
    /\ WF_vars(~panicked /\ BeatStep /\ (BeatOk => Owed))

FairSpec == Spec /\ Fairness

----------------------------------------------------------------------------
\* The types of the variables.
TypeOK ==
    /\ useFanout \in BOOLEAN /\ token \in Tokens
    /\ events \in 0 .. MaxEvents /\ cut \in 0 .. events
    /\ handler \in {"handshake", "unauthorized", "recovered", "refused", "history",
                    "send", "read", "returned"}
    /\ history \in [next : 1 .. MaxEvents + 1, end : 0 .. MaxEvents]
    /\ client \in {"reading", "stalled", "gone"}
    /\ fwd \in {"none", "start", "wait", "write", "unsub", "ended"}
    /\ hand \in Fed \cup {Nothing} /\ failed \in BOOLEAN
    /\ beat \in {"none", "wait", "write", "ended"}
    /\ xread \in {"none", "top", "blocked", "send", "done"}
    /\ started \in BOOLEAN
    /\ from \in 0 .. events /\ upto \in 0 .. events
    /\ feeding \subseteq Readers /\ at \in [Readers -> 0 .. MaxEvents]
    /\ foundFull \subseteq feeding
    /\ buf \in Seq(Fed) /\ Len(buf) <= BufSize
    /\ closed \in BOOLEAN /\ given \in Seq(Fed)
    /\ replayed \in Seq(1 .. MaxEvents) /\ sent \in Seq(Fed)
    /\ overlapped \in BOOLEAN /\ panicked \in BOOLEAN

\* What a client is sent: first the history, the end of the stream as it was,
\* without a gap; then the feed, in which what one reader gave is in the order of
\* the stream, without repetition, and lacks only what MAXLEN cut away while the
\* reader was held up (unless two goroutines have written at once).  A loop of
\* its own sends nothing of the history again; the shared readers may, and two
\* of them send an event twice.
Last(s) == s[Len(s)]

NoGap == \A i \in 1 .. Len(replayed) - 1 : replayed[i + 1] = replayed[i] + 1

OnlyCutIsMissing(s) ==
    \A i, j \in DOMAIN s :
        i < j /\ s[i].by = s[j].by =>
            /\ s[i].event < s[j].event
            /\ \A n \in s[i].event + 1 .. s[j].event - 1 :
                   n <= cut \/ \E k \in i + 1 .. j - 1 : s[k] = [by |-> s[i].by, event |-> n]

HistoryThenLive ==
    /\ NoGap
    /\ sent # <<>> => handler \in {"read", "returned"}
    /\ ~overlapped => OnlyCutIsMissing(sent)
    /\ ~useFanout /\ replayed # <<>> =>
           \A i \in DOMAIN sent : Last(replayed) < sent[i].event

\* No client is left on an open connection that nothing feeds: while the handler
\* waits for the client, the forwarder runs, unless a write to that client has
\* failed.  (The handler does not look at done.)
OpenMeansFed ==
    handler = "read" /\ ~panicked => fwd # "ended" \/ failed

\* When the client is gone, everything that was started for it ends.
EverythingEnds ==
    client = "gone" ~>
        \/ panicked
        \/ /\ handler \in {"unauthorized", "recovered", "refused", "returned"}
           /\ fwd \in {"none", "ended"} /\ beat \in {"none", "ended"}
           /\ xread \in {"none", "done"} /\ ~Registered

\* An event on the forwarder's channel is sent to a client that takes what it
\* is sent, or a write to that client overlaps with another.
HandedIsSent ==
    \A x \in Fed :
        (\E i \in DOMAIN buf : buf[i] = x)
            ~> (\/ \E i \in DOMAIN sent : sent[i] = x
                \/ client # "reading" \/ overlapped \/ panicked)
=============================================================================
