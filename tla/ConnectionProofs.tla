--------------------------- MODULE ConnectionProofs ---------------------------
(***************************************************************************)
(* The safety of a WebSocket connection, for a history, a channel and a    *)
(* stream of any length, any cap and any number of shared readers.         *)
(***************************************************************************)
EXTENDS WSConnection, SequenceTheorems, TLAPS

USE ConnectionAssumption

(***************************************************************************)
(* The inductive invariant, in parts.  Bounds: what is held is an event of *)
(* the stream, and the forwarder starts when the history has been sent.    *)
(* Closing: why a channel is closed and why a forwarder ends.              *)
(* Modes: who puts events on the channel, and when the first comes.        *)
(* Replay: the history sent is a run that history.next continues.  Line:   *)
(* what is sent, in hand and in the channel are consecutive parts of what  *)
(* was given.  Reaching: what a reader has given goes up to where it is,   *)
(* and only what was cut is missing.  Ahead: a loop of its own is never    *)
(* behind the history.                                                     *)
(***************************************************************************)
Bounds ==
    /\ history.next <= history.end + 1 /\ history.end <= events
    /\ xread = "send" => from < upto
    /\ fwd = "write" => hand \in Fed
    /\ fwd # "none" => handler \in {"read", "returned"}
    /\ fwd \in {"none", "start"} => foundFull = {}

Closing ==
    /\ closed => useFanout \/ Returned
    /\ fwd = "unsub" => failed \/ Returned \/ (useFanout /\ closed)
    /\ fwd = "ended" => failed \/ Returned

Modes ==
    /\ useFanout => xread = "none"
    /\ fwd \in {"none", "start"} => given = <<>> /\ xread = "none" /\ ~started
    /\ ~useFanout /\ ~started => given = <<>>
    /\ \A i \in DOMAIN given : given[i].by = Own <=> ~useFanout

Replay ==
    /\ handler \in {"handshake", "history"} => replayed = <<>>
    /\ handler = "send" /\ replayed # <<>> => Last(replayed) = history.next - 1
    /\ NoGap
    /\ \A i \in DOMAIN replayed : replayed[i] <= events

Taken == Len(given) - Len(buf)

Line ==
    /\ Taken >= 0
    /\ \A i \in 1 .. Len(buf) : buf[i] = given[Taken + i]
    /\ fwd = "write" => Taken > 0 /\ hand = given[Taken]
    /\ ~overlapped =>
         /\ Len(sent) <= Taken
         /\ \A i \in 1 .. Len(sent) : sent[i] = given[i]
         /\ fwd = "wait" => Len(sent) = Taken
         /\ fwd = "write" => Len(sent) = Taken - 1
    /\ \A i \in 1 .. Len(sent) : \E j \in DOMAIN given : sent[i] = given[j]

Reach == [s \in Readers \cup {Own} |-> IF s = Own THEN from ELSE at[s]]

Reaching ==
    \A i \in DOMAIN given :
        /\ given[i].event <= Reach[given[i].by]
        /\ \A n \in given[i].event + 1 .. Reach[given[i].by] :
               n <= cut \/ \E k \in DOMAIN given : i < k /\ given[k] = [by |-> given[i].by, event |-> n]

Ahead ==
    ~useFanout /\ replayed # <<>> =>
        /\ started \/ xread \in {"blocked", "send"} => Last(replayed) <= from
        /\ \A i \in DOMAIN given : Last(replayed) < given[i].event

FeedInv == OnlyCutIsMissing(given) /\ Reaching

ConnInv ==
    TypeOK /\ Bounds /\ Closing /\ Modes /\ Replay /\ Line /\ FeedInv /\ Ahead

\* The invariant holds before the handshake.
LEMMA InitConn == Init => ConnInv
<1> SUFFICES ASSUME Init PROVE ConnInv
  OBVIOUS
<1>1. TypeOK
  <2>1. useFanout \in BOOLEAN /\ token \in Tokens
    BY DEF Init
  <2>2. failed \in BOOLEAN /\ started \in BOOLEAN /\ closed \in BOOLEAN
        /\ overlapped \in BOOLEAN /\ panicked \in BOOLEAN
    BY Zenon DEF Init
  <2>3. /\ buf \in Seq(Fed) /\ sent \in Seq(Fed) /\ given \in Seq(Fed)
        /\ replayed \in Seq(1 .. MaxEvents) /\ Len(buf) = 0
    BY EmptySeq DEF Init
  <2>4. history \in [next : 1 .. MaxEvents + 1, end : 0 .. MaxEvents]
    BY DEF Init
  <2>5. at \in [Readers -> 0 .. MaxEvents] /\ feeding \subseteq Readers
        /\ foundFull \subseteq feeding
    BY DEF Init
  <2>6. QED
    BY <2>1, <2>2, <2>3, <2>4, <2>5 DEF Init, TypeOK
<1>2. Bounds /\ Closing
  BY DEF Init, Bounds, Closing
<1>3. Modes /\ Replay /\ Ahead
  BY DEF Init, Modes, Replay, NoGap, Ahead
<1>4. Line
  BY DEF Init, Line, Taken
<1>5. FeedInv
  BY DEF Init, FeedInv, OnlyCutIsMissing, Reaching
<1>6. QED
  BY <1>1, <1>2, <1>3, <1>4, <1>5 DEF ConnInv

\* Appending to a sequence.
LEMMA Grown ==
  ASSUME NEW S, NEW s \in Seq(S), NEW e \in S
  PROVE  /\ Append(s, e) \in Seq(S)
         /\ Len(Append(s, e)) = Len(s) + 1 /\ Len(s) \in Nat
         /\ DOMAIN Append(s, e) = 1 .. Len(s) + 1 /\ DOMAIN s = 1 .. Len(s)
         /\ Append(s, e)[Len(s) + 1] = e
         /\ \A i \in 1 .. Len(s) : Append(s, e)[i] = s[i]
  BY AppendProperties

----------------------------------------------------------------------------
(***************************************************************************)
(* The types.                                                              *)
(***************************************************************************)

\* The steps that touch no sequence, no event and no reader.
Quiet ==
    UNCHANGED <<request, tenantStream, history, hand, from, upto, shared, buf, given, outcome>>

QuietAction ==
    \/ ClientMoves \/ Handshake \/ SendHistoryFails \/ StartGoroutines \/ ReadFails
    \/ Timeout \/ FeedEnds \/ Drop \/ WriteFails \/ SeeEnd \/ Unsub
    \/ Tick \/ BeatOk \/ BeatEnds

LEMMA QuietSteps ==
  ASSUME TypeOK, Bounds, QuietAction
  PROVE  Quiet /\ TypeOK' /\ Bounds'
<1> USE DEF request, tenantStream, handling, forwarding, loop, shared, channel, outcome, clash,
            QuietAction
<1>1. Quiet
  BY DEF Quiet, ClientMoves, Handshake, SendHistoryFails, StartGoroutines, ReadFails, Timeout,
         Drop, FeedEnds, WriteFails, SeeEnd, Unsub, Tick, BeatOk, BeatEnds
<1>2. /\ fwd' = "write" => fwd = "write"
      /\ fwd' \in {"none", "start"} => fwd \in {"none", "start"}
      /\ fwd' # "none" => handler' \in {"read", "returned"}
      /\ xread' = "send" => xread = "send"
  BY DEF ClientMoves, Handshake, SendHistoryFails, StartGoroutines, ReadFails, Timeout,
         Drop, FeedEnds, WriteFails, SeeEnd, Unsub, Tick, BeatOk, BeatEnds, Bounds
<1>3. /\ handler' \in {"handshake", "unauthorized", "recovered", "refused", "history",
                       "send", "read", "returned"}
      /\ client' \in {"reading", "stalled", "gone"}
      /\ fwd' \in {"none", "start", "wait", "write", "unsub", "ended"}
      /\ beat' \in {"none", "wait", "write", "ended"}
      /\ xread' \in {"none", "top", "blocked", "send", "done"}
  BY DEF TypeOK, ClientMoves, Handshake, SendHistoryFails, StartGoroutines, ReadFails, Timeout,
         Drop, FeedEnds, WriteFails, SeeEnd, Unsub, Tick, BeatOk, BeatEnds
<1>4. failed' \in BOOLEAN /\ started' \in BOOLEAN /\ closed' \in BOOLEAN
  BY DEF TypeOK, ClientMoves, Handshake, SendHistoryFails, StartGoroutines, ReadFails, Timeout,
         Drop, FeedEnds, WriteFails, SeeEnd, Unsub, Tick, BeatOk, BeatEnds
<1>5. overlapped' \in BOOLEAN /\ panicked' \in BOOLEAN
  BY DEF TypeOK, ClientMoves, Handshake, SendHistoryFails, StartGoroutines, ReadFails, Timeout,
         Drop, FeedEnds, WriteFails, SeeEnd, Unsub, Tick, BeatOk, BeatEnds, BeginWrite
<1>6. TypeOK'
  BY <1>1, <1>3, <1>4, <1>5 DEF TypeOK, Quiet
<1>7. Bounds'
  BY <1>1, <1>2 DEF Bounds, Quiet
<1>8. QED
  BY <1>1, <1>6, <1>7

\* What the actions that are not quiet do.
LEMMA NextCases ==
  ASSUME [Next]_vars
  PROVE  \/ QuietAction \/ Event \/ ReadHistory \/ SendHistory \/ Issue \/ Give
         \/ (\E r \in Readers : FanOut(r)) \/ Subscribe \/ Take \/ WriteOk
         \/ UNCHANGED vars
  BY DEF Next, HandlerStep, LoopStep, SharedStep, ForwarderStep, BeatStep, QuietAction

\* Every history starts after what was cut.
LEMMA HistoryRange ==
  ASSUME TypeOK
  PROVE  /\ LastOf(HistoryCount) \in [next : 1 .. MaxEvents + 1, end : 0 .. MaxEvents]
         /\ LastOf(HistoryCount).next <= LastOf(HistoryCount).end + 1
         /\ LastOf(HistoryCount).end = events
<1>1. events \in 0 .. MaxEvents /\ cut \in 0 .. events
  BY DEF TypeOK
<1>2. After(IF events < HistoryCount THEN 0 ELSE events - HistoryCount) \in 0 .. events
  BY <1>1 DEF After
<1>3. QED
  BY <1>1, <1>2 DEF LastOf

\* What SendHistory sends is an event of the stream.
LEMMA NextOfHistory ==
  ASSUME TypeOK, Bounds, SendHistory
  PROVE  history.next \in 1 .. events /\ events \in 0 .. MaxEvents
<1>1. history.next <= history.end
  BY DEF SendHistory
<1>2. /\ history \in [next : 1 .. MaxEvents + 1, end : 0 .. MaxEvents]
      /\ history.end <= events /\ events \in 0 .. MaxEvents
  BY DEF TypeOK, Bounds
<1>3. QED
  BY <1>1, <1>2

\* What the loop of its own gives, and what a shared reader gives.
LEMMA GiveFed ==
  ASSUME TypeOK, Bounds, Give
  PROVE  /\ [by |-> Own, event |-> from + 1] \in Fed
         /\ from \in Nat /\ from < upto /\ upto \in 0 .. events /\ events \in Nat
<1>1. /\ xread = "send" /\ from < upto /\ from \in 0 .. events /\ upto \in 0 .. events
      /\ events \in 0 .. MaxEvents
  BY DEF Give, TypeOK, Bounds
<1>2. from + 1 \in 1 .. MaxEvents
  BY <1>1
<1>3. QED
  BY <1>1, <1>2 DEF Fed

LEMMA NextFed ==
  ASSUME TypeOK, NEW r \in Readers, NEW n \in NextOf(r)
  PROVE  /\ [by |-> r, event |-> n] \in Fed /\ r # Own
         /\ n \in 1 .. MaxEvents /\ at[r] \in Nat /\ at[r] < n
         /\ \A m \in at[r] + 1 .. n - 1 : m <= cut
<1>1. /\ at[r] \in 0 .. MaxEvents /\ events \in 0 .. MaxEvents /\ cut \in 0 .. events
      /\ n \in at[r] + 1 .. events /\ n <= After(at[r]) + 1
  BY DEF TypeOK, NextOf
<1>2. n \in 1 .. MaxEvents /\ \A m \in at[r] + 1 .. n - 1 : m <= cut
  BY <1>1 DEF After
<1>3. QED
  BY <1>1, <1>2 DEF Fed, Readers, Own

\* Every step preserves the types.
LEMMA TypeStep ==
  ASSUME TypeOK, Bounds, [Next]_vars
  PROVE  TypeOK' /\ Bounds'
<1> USE DEF request, tenantStream, handling, forwarding, loop, shared, channel, outcome, clash
<1>1. CASE QuietAction
  BY <1>1, QuietSteps
<1>2. CASE Event
  <2>1. events' \in 0 .. MaxEvents /\ events' = events + 1 /\ events \in Nat
        /\ cut' \in 0 .. events'
    BY <1>2 DEF Event, TypeOK
  <2>2. /\ xread' \in {"none", "top", "blocked", "send", "done"}
        /\ from' = from /\ from' \in 0 .. events' /\ upto' \in 0 .. events'
        /\ xread' = "send" => from' < upto'
    <3>1. from \in 0 .. events /\ upto \in 0 .. events /\ (xread = "send" => from < upto)
          /\ xread \in {"none", "top", "blocked", "send", "done"}
      BY DEF TypeOK, Bounds
    <3>2. from' = from /\ IF xread = "blocked" THEN xread' = "send" /\ upto' = events'
                                              ELSE UNCHANGED <<xread, upto>>
      BY <1>2 DEF Event
    <3>3. QED
      BY <2>1, <3>1, <3>2
  <2>3. UNCHANGED <<request, handling, client, forwarding, beat, started, shared, channel,
                    outcome, clash>>
    BY <1>2 DEF Event
  <2>4. TypeOK'
    BY <2>1, <2>2, <2>3 DEF TypeOK
  <2>5. Bounds'
    <3>1. history.end \in Nat /\ history.end <= events
      BY DEF TypeOK, Bounds
    <3>2. QED
      BY <2>1, <2>2, <2>3, <3>1 DEF Bounds
  <2>6. QED
    BY <2>4, <2>5
<1>3. CASE ReadHistory
  <2>1. history' \in [next : 1 .. MaxEvents + 1, end : 0 .. MaxEvents]
        /\ history'.next <= history'.end + 1 /\ history'.end <= events
    <3>1. CASE history' = [next |-> 1, end |-> 0]
      BY <3>1 DEF TypeOK
    <3>2. CASE history' = LastOf(HistoryCount)
      BY <3>2, HistoryRange DEF TypeOK
    <3>3. QED
      BY <1>3, <3>1, <3>2 DEF ReadHistory
  <2>2. UNCHANGED <<request, tenantStream, client, forwarding, beat, loop, shared, channel,
                    outcome, clash>>
        /\ handler' = "send" /\ fwd = "none"
    BY <1>3 DEF ReadHistory, Bounds, TypeOK
  <2>3. QED
    BY <2>1, <2>2 DEF TypeOK, Bounds
<1>4. CASE SendHistory
  <2>1. history.next \in 1 .. MaxEvents
    BY <1>4, NextOfHistory
  <2>2. replayed' \in Seq(1 .. MaxEvents)
    BY <1>4, <2>1, AppendProperties DEF SendHistory, TypeOK
  <2>3. history' \in [next : 1 .. MaxEvents + 1, end : 0 .. MaxEvents]
        /\ history'.next <= history'.end + 1 /\ history'.end <= events
    <3>1. history' = [history EXCEPT !.next = history.next + 1] /\ history.next <= history.end
      BY <1>4 DEF SendHistory
    <3>2. /\ history \in [next : 1 .. MaxEvents + 1, end : 0 .. MaxEvents]
          /\ history.end <= events
      BY DEF TypeOK, Bounds
    <3>3. QED
      BY <2>1, <3>1, <3>2
  <2>4. UNCHANGED <<request, tenantStream, handler, client, forwarding, beat, loop, shared,
                    channel, sent, clash>>
    BY <1>4 DEF SendHistory
  <2>5. QED
    BY <2>2, <2>3, <2>4 DEF TypeOK, Bounds
<1>5. CASE Issue
  <2>1. StartOf \in 0 .. events
    BY DEF StartOf, After, TypeOK
  <2>2. /\ from' = StartOf /\ upto' = events
        /\ xread' = IF StartOf < events THEN "send" ELSE "blocked"
        /\ UNCHANGED <<request, tenantStream, handling, client, forwarding, beat, started,
                       shared, channel, outcome, clash>>
    BY <1>5 DEF Issue
  <2>3. QED
    BY <2>1, <2>2 DEF TypeOK, Bounds
<1>6. CASE Give
  <2>1. from + 1 \in 1 .. events /\ from + 1 <= upto
    <3>1. from \in Nat /\ from < upto /\ upto \in 0 .. events /\ events \in Nat
      BY <1>6, GiveFed
    <3>2. QED
      BY <3>1
  <2>2. buf' \in Seq(Fed) /\ Len(buf') <= BufSize /\ given' \in Seq(Fed)
    <3>1. Len(buf) < BufSize /\ Len(buf) \in Nat /\ buf \in Seq(Fed) /\ given \in Seq(Fed)
      BY <1>6 DEF Give, TypeOK
    <3>2. QED
      BY <1>6, <3>1, GiveFed, AppendProperties DEF Give, Put
  <2>3. /\ from' = from + 1 /\ started' \in BOOLEAN
        /\ xread' = IF from' = upto THEN "top" ELSE "send"
        /\ UNCHANGED <<request, tenantStream, handling, client, forwarding, beat, upto,
                       shared, closed, outcome, clash>>
    BY <1>6 DEF Give
  <2>4. QED
    BY <2>1, <2>2, <2>3 DEF TypeOK, Bounds
<1>7. CASE \E r \in Readers : FanOut(r)
  <2>1. PICK r \in Readers : FanOut(r)
    BY <1>7
  <2>2. /\ fwd \notin {"none", "start"} /\ r \in feeding
        /\ UNCHANGED <<request, tenantStream, handling, client, forwarding, beat, loop,
                       feeding, closed, outcome, clash>>
    BY <2>1 DEF FanOut, Registered
  <2>3. PICK n \in NextOf(r) :
           IF Len(buf) < BufSize
           THEN Put(r, n) /\ at' = [at EXCEPT ![r] = n] /\ UNCHANGED foundFull
           ELSE foundFull' = foundFull \cup {r} /\ UNCHANGED <<buf, given, at>>
    BY <2>1 DEF FanOut
  <2>4. /\ buf' \in Seq(Fed) /\ Len(buf') <= BufSize /\ given' \in Seq(Fed)
        /\ at' \in [Readers -> 0 .. MaxEvents] /\ foundFull' \subseteq feeding
    <3>1. /\ Len(buf) \in Nat /\ buf \in Seq(Fed) /\ given \in Seq(Fed) /\ Len(buf) <= BufSize
          /\ at \in [Readers -> 0 .. MaxEvents] /\ foundFull \subseteq feeding
      BY DEF TypeOK
    <3>2. [by |-> r, event |-> n] \in Fed /\ n \in 0 .. MaxEvents
      BY NextFed
    <3>3. CASE Len(buf) < BufSize
      <4>1. /\ buf' = Append(buf, [by |-> r, event |-> n])
            /\ given' = Append(given, [by |-> r, event |-> n])
            /\ at' = [at EXCEPT ![r] = n] /\ UNCHANGED foundFull
        BY <2>3, <3>3 DEF Put
      <4>2. buf' \in Seq(Fed) /\ Len(buf') = Len(buf) + 1 /\ given' \in Seq(Fed)
        BY <3>1, <3>2, <4>1, Grown
      <4>3. Len(buf') <= BufSize
        BY <3>1, <3>3, <4>2
      <4>4. QED
        BY <3>1, <3>2, <4>1, <4>2, <4>3
    <3>4. CASE ~(Len(buf) < BufSize)
      BY <2>2, <2>3, <3>1, <3>4
    <3>5. QED
      BY <3>3, <3>4
  <2>5. QED
    BY <2>2, <2>4 DEF TypeOK, Bounds
<1>8. CASE Subscribe
  <2>1. /\ fwd' = "wait" /\ foundFull = {} /\ handler \in {"read", "returned"}
        /\ UNCHANGED <<request, tenantStream, handling, client, hand, failed, beat, started,
                       from, upto, foundFull, channel, outcome, clash>>
    BY <1>8 DEF Subscribe, Bounds
  <2>2. /\ feeding' \subseteq Readers /\ at' \in [Readers -> 0 .. MaxEvents]
        /\ xread' \in {"none", "top", "blocked", "send", "done"}
        /\ xread' = "send" => xread = "send"
    BY <1>8 DEF Subscribe, TypeOK
  <2>3. QED
    BY <2>1, <2>2 DEF TypeOK, Bounds
<1>9. CASE Take
  <2>1. Head(buf) \in Fed /\ Tail(buf) \in Seq(Fed) /\ Len(Tail(buf)) <= BufSize
    BY <1>9, HeadTailProperties DEF Take, TypeOK
  <2>2. overlapped' \in BOOLEAN /\ panicked' \in BOOLEAN
    BY <1>9 DEF Take, BeginWrite, TypeOK
  <2>3. /\ fwd' = "write" /\ hand' = Head(buf) /\ buf' = Tail(buf)
        /\ handler \in {"read", "returned"}
        /\ UNCHANGED <<request, tenantStream, handling, client, failed, beat, loop, shared,
                       closed, given, outcome>>
    BY <1>9 DEF Take, Bounds
  <2>4. TypeOK'
    <3>1. /\ fwd' = "write" /\ hand' \in Fed \cup {Nothing}
          /\ buf' \in Seq(Fed) /\ Len(buf') <= BufSize
      BY <2>1, <2>3
    <3>2. UNCHANGED <<useFanout, token, events, cut, handler, history, client, failed, beat,
                      xread, started, from, upto, feeding, at, foundFull, closed, given,
                      replayed, sent>>
      BY <2>3
    <3>3. QED
      BY <2>2, <3>1, <3>2 DEF TypeOK
  <2>5. Bounds'
    BY <2>1, <2>3 DEF Bounds
  <2>6. QED
    BY <2>4, <2>5
<1>10. CASE WriteOk
  <2>1. sent' \in Seq(Fed)
    <3>1. sent \in Seq(Fed) /\ hand \in Fed
      BY <1>10 DEF WriteOk, TypeOK, Bounds
    <3>2. QED
      BY <1>10, <3>1, AppendProperties DEF WriteOk
  <2>2. /\ fwd' = "wait" /\ handler \in {"read", "returned"}
        /\ UNCHANGED <<request, tenantStream, handling, client, hand, failed, beat, loop,
                       shared, channel, replayed, clash>>
    BY <1>10 DEF WriteOk, Bounds
  <2>3. QED
    BY <2>1, <2>2 DEF TypeOK, Bounds
<1>11. CASE UNCHANGED vars
  BY <1>11 DEF vars, TypeOK, Bounds
<1>12. QED
  BY <1>1, <1>2, <1>3, <1>4, <1>5, <1>6, <1>7, <1>8, <1>9, <1>10, <1>11, NextCases

----------------------------------------------------------------------------
(***************************************************************************)
(* Who ends whom, and who fills the channel.                               *)
(***************************************************************************)

\* A forwarder ends only after a failed write, when the handler has returned
\* or because fanOut closed its channel, and then unsub panics.
LEMMA ClosingStep ==
  ASSUME TypeOK, Closing, [Next]_vars
  PROVE  Closing'
<1> USE DEF Closing, Returned, request, tenantStream, handling, forwarding, loop, shared, channel,
            outcome, clash
<1>1. CASE SendHistoryFails \/ ReadFails \/ Drop \/ FeedEnds
  BY <1>1 DEF SendHistoryFails, ReadFails, Drop, Registered, FeedEnds
<1>2. CASE StartGoroutines
  BY <1>2 DEF StartGoroutines
<1>3. CASE Handshake \/ ReadHistory
  BY <1>3 DEF Handshake, ReadHistory
<1>4. CASE fwd' \in {"wait", "write"} /\ UNCHANGED <<useFanout, handler, closed>>
  BY <1>4
<1>5. CASE WriteFails \/ SeeEnd
  BY <1>5 DEF WriteFails, SeeEnd, FeedIsOver
<1>6. CASE Unsub
  BY <1>6 DEF Unsub
<1>7. CASE UNCHANGED <<useFanout, handler, fwd, failed, closed>>
  BY <1>7
<1>8. QED
  BY <1>1, <1>2, <1>3, <1>4, <1>5, <1>6, <1>7, NextCases
     DEF QuietAction, vars, Event, ClientMoves, FanOut,
         Subscribe, Take, WriteOk, SendHistory, Issue, Timeout, Give, Tick, BeatOk, BeatEnds

\* The loop of its own fills the channel, or the shared readers do; neither
\* before the forwarder has asked for it.
LEMMA ModesStep ==
  ASSUME TypeOK, Bounds, Modes, [Next]_vars
  PROVE  Modes'
<1> USE DEF request, tenantStream, handling, forwarding, loop, shared, channel, outcome, clash
<1>0. given \in Seq(Fed) /\ Len(given) \in Nat
  BY DEF TypeOK
<1>1. CASE Give
  <2>1. ~useFanout /\ given' = Append(given, [by |-> Own, event |-> from + 1])
        /\ started' /\ fwd \notin {"none", "start"} /\ UNCHANGED <<useFanout, fwd>>
    BY <1>1 DEF Give, Put, Modes
  <2>2. /\ DOMAIN given' = 1 .. Len(given) + 1 /\ DOMAIN given = 1 .. Len(given)
        /\ given'[Len(given) + 1].by = Own
        /\ \A i \in 1 .. Len(given) : given'[i] = given[i]
    BY <1>0, <1>1, <2>1, GiveFed, Grown
  <2>3. \A i \in DOMAIN given' : given'[i].by = Own <=> ~useFanout'
    <3>1. SUFFICES ASSUME NEW i \in 1 .. Len(given) + 1
                   PROVE  given'[i].by = Own
      BY <2>1, <2>2
    <3>2. CASE i \in 1 .. Len(given)
      BY <2>1, <2>2, <3>2 DEF Modes
    <3>3. QED
      BY <1>0, <2>2, <3>2
  <2>4. QED
    BY <2>1, <2>3 DEF Modes
<1>2. CASE \E r \in Readers : FanOut(r)
  <2>1. PICK r \in Readers : FanOut(r)
    BY <1>2
  <2>2. /\ useFanout /\ fwd \notin {"none", "start"}
        /\ UNCHANGED <<useFanout, fwd, xread, started>>
    BY <2>1 DEF FanOut, Registered
  <2>3. CASE UNCHANGED given
    BY <2>2, <2>3 DEF Modes
  <2>4. ASSUME NEW n \in NextOf(r), given' = Append(given, [by |-> r, event |-> n])
        PROVE  Modes'
    <3>1. /\ DOMAIN given' = 1 .. Len(given) + 1 /\ DOMAIN given = 1 .. Len(given)
          /\ given'[Len(given) + 1].by = r /\ r # Own
          /\ \A i \in 1 .. Len(given) : given'[i] = given[i]
      BY <1>0, <2>4, NextFed, Grown
    <3>2. \A i \in DOMAIN given' : given'[i].by # Own
      <4>1. SUFFICES ASSUME NEW i \in 1 .. Len(given) + 1
                     PROVE  given'[i].by # Own
        BY <3>1
      <4>2. CASE i \in 1 .. Len(given)
        BY <2>2, <3>1, <4>2 DEF Modes
      <4>3. QED
        BY <1>0, <3>1, <4>2
    <3>3. QED
      BY <2>2, <3>2 DEF Modes
  <2>5. QED
    BY <2>1, <2>3, <2>4 DEF FanOut, Put
<1>3. CASE Subscribe
  BY <1>3 DEF Subscribe, Modes
<1>4. CASE /\ UNCHANGED <<useFanout, given>>
           /\ fwd' \in {"none", "start"} => fwd \in {"none", "start"}
           /\ xread = "none" => xread' = "none"
           /\ started' = started
  BY <1>4 DEF Modes
<1>5. QED
  <2>1. CASE Handshake \/ ReadHistory \/ SendHistory \/ SendHistoryFails \/ ReadFails
    BY <1>4, <2>1 DEF Handshake, ReadHistory, SendHistory, SendHistoryFails, ReadFails
  <2>2. CASE StartGoroutines
    BY <1>4, <2>2 DEF StartGoroutines, Bounds
  <2>3. CASE Event \/ ClientMoves \/ Issue \/ Timeout \/ Drop \/ FeedEnds
    BY <1>4, <2>3 DEF Event, ClientMoves, Issue, Timeout, Drop, FeedEnds
  <2>4. CASE Take \/ WriteOk \/ WriteFails \/ SeeEnd \/ Unsub \/ Tick \/ BeatOk \/ BeatEnds
    BY <1>4, <2>4 DEF Take, WriteOk, WriteFails, SeeEnd, Unsub, Tick, BeatOk, BeatEnds
  <2>5. CASE UNCHANGED vars
    BY <1>4, <2>5 DEF vars
  <2>6. QED
    BY <1>1, <1>2, <1>3, <2>1, <2>2, <2>3, <2>4, <2>5, NextCases DEF QuietAction

----------------------------------------------------------------------------
(***************************************************************************)
(* What is sent.                                                           *)
(***************************************************************************)

\* The history is a run, and so it stays once the feed has started.
LEMMA ReplayStep ==
  ASSUME TypeOK, Bounds, Replay, [Next]_vars
  PROVE  Replay'
<1> USE DEF request, tenantStream, handling, forwarding, loop, shared, channel, outcome, clash
<1>0. Len(replayed) \in Nat /\ replayed \in Seq(1 .. MaxEvents) /\ events \in Nat
  BY DEF TypeOK
<1>1. CASE ReadHistory
  BY <1>1 DEF ReadHistory, Replay, NoGap, Last
<1>2. CASE SendHistory
  <2>1. history.next \in 1 .. events /\ history.next \in 1 .. MaxEvents
    BY <1>2, NextOfHistory
  <2>2. /\ Len(replayed') = Len(replayed) + 1 /\ replayed'[Len(replayed) + 1] = history.next
        /\ DOMAIN replayed' = 1 .. Len(replayed) + 1 /\ DOMAIN replayed = 1 .. Len(replayed)
        /\ \A i \in 1 .. Len(replayed) : replayed'[i] = replayed[i]
    BY <1>0, <1>2, <2>1, Grown DEF SendHistory
  <2>3. handler = "send" /\ history'.next = history.next + 1 /\ UNCHANGED <<handler, events>>
    BY <1>2 DEF SendHistory, TypeOK
  <2>4. Len(replayed) > 0 => replayed[Len(replayed)] = history.next - 1
    BY <1>0, <2>3 DEF Replay, Last
  <2>5. NoGap'
    <3>1. SUFFICES ASSUME NEW i \in 1 .. Len(replayed)
                   PROVE  replayed'[i + 1] = replayed'[i] + 1
      BY <1>0, <2>2 DEF NoGap
    <3>2. CASE i = Len(replayed)
      BY <1>0, <2>1, <2>2, <2>4, <3>2
    <3>3. CASE i # Len(replayed)
      <4>1. i \in 1 .. Len(replayed) - 1 /\ i + 1 \in 1 .. Len(replayed)
        BY <1>0, <3>3
      <4>2. replayed[i + 1] = replayed[i] + 1
        BY <4>1 DEF Replay, NoGap
      <4>3. QED
        BY <2>2, <4>1, <4>2
    <3>4. QED
      BY <3>2, <3>3
  <2>6. Last(replayed') = history'.next - 1
    BY <1>0, <2>1, <2>2, <2>3 DEF Last
  <2>7. \A i \in DOMAIN replayed' : replayed'[i] <= events'
    <3>1. \A i \in 1 .. Len(replayed) : replayed'[i] <= events
      BY <2>2 DEF Replay
    <3>2. replayed'[Len(replayed) + 1] <= events
      BY <2>1, <2>2
    <3>3. \A i \in DOMAIN replayed' : i \in 1 .. Len(replayed) \/ i = Len(replayed) + 1
      BY <1>0, <2>2
    <3>4. QED
      BY <2>3, <3>1, <3>2, <3>3
  <2>8. QED
    BY <2>3, <2>5, <2>6, <2>7 DEF Replay
<1>3. CASE Event
  <2>1. events' = events + 1 /\ UNCHANGED <<handler, history, replayed>>
    BY <1>3 DEF Event
  <2>2. \A i \in DOMAIN replayed : replayed[i] <= events + 1
    <3>1. SUFFICES ASSUME NEW i \in DOMAIN replayed PROVE replayed[i] <= events + 1
      OBVIOUS
    <3>2. replayed[i] \in 1 .. MaxEvents
      BY <1>0
    <3>3. replayed[i] <= events
      BY DEF Replay
    <3>4. QED
      BY <1>0, <3>2, <3>3
  <2>3. QED
    BY <2>1, <2>2 DEF Replay, NoGap, Last
<1>4. CASE /\ UNCHANGED <<events, replayed>>
           /\ handler' \in {"handshake", "history"} => handler \in {"handshake", "history"}
           /\ handler' = "send" => handler = "send" /\ history' = history
  BY <1>4 DEF Replay, NoGap, Last
<1>5. QED
  <2>1. CASE Handshake \/ SendHistoryFails \/ StartGoroutines \/ ReadFails
    BY <1>4, <2>1 DEF Handshake, SendHistoryFails, StartGoroutines, ReadFails
  <2>2. CASE ClientMoves \/ Issue \/ Timeout \/ Give \/ (\E r \in Readers : FanOut(r)) \/ Drop
               \/ FeedEnds
    BY <1>4, <2>2 DEF ClientMoves, Issue, Timeout, Give, FanOut, Drop, FeedEnds
  <2>3. CASE Subscribe \/ Take \/ WriteOk \/ WriteFails \/ SeeEnd \/ Unsub \/ Tick \/ BeatOk
               \/ BeatEnds
    BY <1>4, <2>3 DEF Subscribe, Take, WriteOk, WriteFails, SeeEnd, Unsub, Tick, BeatOk, BeatEnds
  <2>4. CASE UNCHANGED vars
    BY <1>4, <2>4 DEF vars
  <2>5. QED
    BY <1>1, <1>2, <1>3, <2>1, <2>2, <2>3, <2>4, NextCases DEF QuietAction

\* What is sent, in hand and in the channel are consecutive parts of what was
\* given: events are taken in the order in which they were put there.
LEMMA LineStep ==
  ASSUME TypeOK, Bounds, Modes, Line, [Next]_vars
  PROVE  Line'
<1> USE DEF request, tenantStream, handling, forwarding, loop, shared, channel, outcome, clash
<1>0. /\ Len(sent) \in Nat /\ Len(buf) \in Nat /\ Len(given) \in Nat /\ Taken \in Nat
      /\ buf \in Seq(Fed) /\ sent \in Seq(Fed) /\ given \in Seq(Fed)
      /\ DOMAIN given = 1 .. Len(given) /\ Taken = Len(given) - Len(buf)
  BY DEF TypeOK, Line, Taken
<1>1. ASSUME NEW e \in Fed, buf' = Append(buf, e), given' = Append(given, e),
             UNCHANGED <<fwd, hand, sent, overlapped>>
      PROVE  Line'
  <2>1. /\ Len(given') = Len(given) + 1 /\ given'[Len(given) + 1] = e
        /\ \A i \in 1 .. Len(given) : given'[i] = given[i]
        /\ DOMAIN given' = 1 .. Len(given) + 1
    BY <1>0, <1>1, Grown
  <2>2. /\ Len(buf') = Len(buf) + 1 /\ buf'[Len(buf) + 1] = e
        /\ \A i \in 1 .. Len(buf) : buf'[i] = buf[i]
    BY <1>0, <1>1, Grown
  <2>3. Taken' = Taken
    BY <1>0, <2>1, <2>2 DEF Taken
  <2>4. \A i \in 1 .. Len(buf') : buf'[i] = given'[Taken' + i]
    <3>1. SUFFICES ASSUME NEW i \in 1 .. Len(buf')
                   PROVE  buf'[i] = given'[Taken + i]
      BY <2>3
    <3>2. CASE i \in 1 .. Len(buf)
      <4>1. Taken + i \in 1 .. Len(given)
        BY <1>0, <3>2
      <4>2. QED
        BY <2>1, <2>2, <3>2, <4>1 DEF Line
    <3>3. CASE i = Len(buf) + 1
      BY <1>0, <2>1, <2>2, <3>3
    <3>4. QED
      BY <1>0, <2>2, <3>2, <3>3
  <2>5. fwd' = "write" => Taken' > 0 /\ hand' = given'[Taken']
    <3>1. fwd = "write" => Taken > 0 /\ hand = given[Taken]
      BY DEF Line
    <3>2. Taken > 0 => given'[Taken] = given[Taken]
      BY <1>0, <2>1
    <3>3. QED
      BY <1>1, <2>3, <3>1, <3>2
  <2>6. ~overlapped' => \A i \in 1 .. Len(sent') : sent'[i] = given'[i]
    <3>1. ~overlapped => Len(sent) <= Taken /\ \A i \in 1 .. Len(sent) : sent[i] = given[i]
      BY DEF Line
    <3>2. Len(sent) <= Taken => \A i \in 1 .. Len(sent) : given'[i] = given[i]
      BY <1>0, <2>1
    <3>3. QED
      BY <1>1, <3>1, <3>2
  <2>7. \A i \in 1 .. Len(sent') : \E j \in DOMAIN given' : sent'[i] = given'[j]
    <3>1. \A i \in 1 .. Len(sent) : \E j \in 1 .. Len(given) : sent[i] = given[j]
      BY <1>0 DEF Line
    <3>2. 1 .. Len(given) \subseteq DOMAIN given'
      BY <1>0, <2>1
    <3>3. QED
      BY <1>1, <2>1, <3>1, <3>2
  <2>8. Taken' >= 0
    BY <1>0, <2>3
  <2>9. ~overlapped' => /\ Len(sent') <= Taken'
                        /\ fwd' = "wait" => Len(sent') = Taken'
                        /\ fwd' = "write" => Len(sent') = Taken' - 1
    BY <1>1, <2>3 DEF Line
  <2>10. QED
    BY <2>4, <2>5, <2>6, <2>7, <2>8, <2>9 DEF Line
<1>2. CASE Give
  BY <1>1, <1>2, GiveFed DEF Give, Put
<1>3. CASE /\ UNCHANGED <<buf, given, hand, sent>>
           /\ fwd' \in {"wait", "write"} => fwd' = fwd
           /\ overlapped => overlapped'
  BY <1>3 DEF Line, Taken
<1>4. CASE \E r \in Readers : FanOut(r)
  <2>1. PICK r \in Readers : FanOut(r)
    BY <1>4
  <2>2. UNCHANGED <<fwd, hand, sent, overlapped>>
    BY <2>1 DEF FanOut
  <2>3. ASSUME NEW n \in NextOf(r), Put(r, n)
        PROVE  Line'
    BY <1>1, <2>2, <2>3, NextFed DEF Put
  <2>4. QED
    BY <1>3, <2>1, <2>2, <2>3 DEF FanOut
<1>5. CASE Subscribe
  <2>1. given = <<>> /\ fwd' = "wait" /\ UNCHANGED <<buf, given, hand, sent, overlapped>>
    BY <1>5 DEF Subscribe, Modes
  <2>2. Len(given) = 0 /\ Len(buf) = 0 /\ Taken = 0
    BY <1>0, <2>1
  <2>3. Len(sent) = 0
    <3>1. ~(1 \in 1 .. Len(sent))
      BY <1>0, <2>2 DEF Line
    <3>2. QED
      BY <1>0, <3>1
  <2>4. QED
    BY <2>1, <2>2, <2>3 DEF Line, Taken
<1>6. CASE Take
  <2>1. /\ Len(buf') = Len(buf) - 1 /\ hand' = buf[1] /\ Len(buf) > 0
        /\ \A i \in 1 .. Len(buf') : buf'[i] = buf[i + 1]
    BY <1>0, <1>6, HeadTailProperties DEF Take
  <2>2. /\ fwd = "wait" /\ fwd' = "write" /\ UNCHANGED <<given, sent>>
        /\ overlapped => overlapped'
    BY <1>6 DEF Take, BeginWrite
  <2>3. Taken' = Taken + 1
    BY <1>0, <2>1, <2>2 DEF Taken
  <2>4. \A i \in 1 .. Len(buf') : buf'[i] = given'[Taken' + i]
    <3>1. SUFFICES ASSUME NEW i \in 1 .. Len(buf')
                   PROVE  buf'[i] = given[Taken + 1 + i]
      BY <2>2, <2>3
    <3>2. i + 1 \in 1 .. Len(buf) /\ Taken + (i + 1) = Taken + 1 + i
      BY <1>0, <2>1
    <3>3. buf[i + 1] = given[Taken + (i + 1)]
      BY <3>2 DEF Line
    <3>4. QED
      BY <2>1, <3>2, <3>3
  <2>5. hand' = given'[Taken']
    <3>1. buf[1] = given[Taken + 1]
      <4>1. 1 \in 1 .. Len(buf)
        BY <1>0, <2>1
      <4>2. QED
        BY <4>1 DEF Line
    <3>2. QED
      BY <2>1, <2>2, <2>3, <3>1
  <2>6. ~overlapped' => Len(sent') = Taken' - 1 /\ \A i \in 1 .. Len(sent') : sent'[i] = given'[i]
    <3>1. ~overlapped => Len(sent) = Taken /\ \A i \in 1 .. Len(sent) : sent[i] = given[i]
      BY <2>2 DEF Line
    <3>2. Taken = Taken + 1 - 1
      BY <1>0
    <3>3. QED
      BY <2>2, <2>3, <3>1, <3>2
  <2>7. \A i \in 1 .. Len(sent') : \E j \in DOMAIN given' : sent'[i] = given'[j]
    BY <2>2 DEF Line
  <2>8. Taken' > 0 /\ Taken' >= 0 /\ (~overlapped' => Len(sent') <= Taken')
    BY <1>0, <2>3, <2>6
  <2>9. QED
    BY <2>2, <2>4, <2>5, <2>6, <2>7, <2>8 DEF Line
<1>7. CASE WriteOk
  <2>1. /\ fwd = "write" /\ fwd' = "wait"
        /\ UNCHANGED <<hand, buf, given, overlapped>>
    BY <1>7 DEF WriteOk
  <2>2. hand \in Fed /\ Taken > 0 /\ hand = given[Taken] /\ Taken' = Taken
        /\ Taken \in DOMAIN given
    <3>1. hand \in Fed /\ Taken > 0 /\ hand = given[Taken]
      BY <2>1 DEF Line, Bounds
    <3>2. Taken' = Taken
      BY <2>1 DEF Taken
    <3>3. QED
      BY <1>0, <3>1, <3>2
  <2>3. CASE sent' = Append(sent, hand)
    <3>1. /\ Len(sent') = Len(sent) + 1 /\ sent'[Len(sent) + 1] = hand
          /\ \A i \in 1 .. Len(sent) : sent'[i] = sent[i]
      BY <1>0, <2>2, <2>3, Grown
    <3>2. \A i \in 1 .. Len(sent') : i \in 1 .. Len(sent) \/ i = Len(sent) + 1
      BY <1>0, <3>1
    <3>3. ~overlapped => /\ Len(sent') = Taken
                         /\ \A i \in 1 .. Len(sent') : sent'[i] = given[i]
      <4>1. ~overlapped => Len(sent) = Taken - 1 /\ \A i \in 1 .. Len(sent) : sent[i] = given[i]
        BY <2>1 DEF Line
      <4>2. Len(sent) = Taken - 1 => Len(sent) + 1 = Taken
        BY <1>0
      <4>3. QED
        BY <2>2, <3>1, <3>2, <4>1, <4>2
    <3>4. \A i \in 1 .. Len(sent') : \E j \in DOMAIN given : sent'[i] = given[j]
      BY <2>2, <3>1, <3>2 DEF Line
    <3>5. \A i \in 1 .. Len(buf) : buf[i] = given[Taken + i]
      BY DEF Line
    <3>6. Taken' = Taken /\ Taken >= 0 /\ (Len(sent') = Taken => Len(sent') <= Taken)
      <4>1. Taken' = Taken
        BY <2>2
      <4>2. Taken >= 0
        BY <1>0
      <4>3. Len(sent') = Taken => Len(sent') <= Taken
        BY <1>0, <3>1
      <4>4. QED
        BY <4>1, <4>2, <4>3
    <3>7. QED
      BY <2>1, <2>2, <3>3, <3>4, <3>5, <3>6 DEF Line
  <2>4. CASE overlapped /\ UNCHANGED sent
    BY <1>0, <2>1, <2>2, <2>4 DEF Line
  <2>5. QED
    BY <1>7, <2>3, <2>4 DEF WriteOk
<1>8. QED
  <2>1. CASE Handshake \/ ReadHistory \/ SendHistory \/ SendHistoryFails \/ StartGoroutines
               \/ ReadFails
    BY <1>3, <2>1 DEF Handshake, ReadHistory, SendHistory, SendHistoryFails, StartGoroutines,
         ReadFails
  <2>2. CASE Event \/ ClientMoves \/ Issue \/ Timeout \/ Drop \/ FeedEnds
    BY <1>3, <2>2 DEF Event, ClientMoves, Issue, Timeout, Drop, FeedEnds
  <2>3. CASE WriteFails \/ SeeEnd \/ Unsub \/ Tick \/ BeatOk \/ BeatEnds
    BY <1>3, <2>3 DEF WriteFails, SeeEnd, Unsub, Tick, BeatOk, BeatEnds, BeginWrite
  <2>4. CASE UNCHANGED vars
    BY <1>3, <2>4 DEF vars
  <2>5. QED
    BY <1>2, <1>4, <1>5, <1>6, <1>7, <2>1, <2>2, <2>3, <2>4, NextCases DEF QuietAction

\* Giving an event that comes after where its giver was keeps the order, and
\* what lies between is in what was given or was cut.
LEMMA GivenGrows ==
  ASSUME TypeOK, FeedInv, cut' = cut,
         NEW x \in Fed, given' = Append(given, x),
         Reach[x.by] \in Nat, Reach[x.by] < x.event,
         \A n \in Reach[x.by] + 1 .. x.event - 1 : n <= cut,
         \A s \in Readers \cup {Own} :
             Reach'[s] = IF s = x.by THEN x.event ELSE Reach[s]
  PROVE  FeedInv'
<1>0. /\ given \in Seq(Fed) /\ Len(given) \in Nat /\ DOMAIN given = 1 .. Len(given)
      /\ DOMAIN given' = 1 .. Len(given) + 1 /\ given'[Len(given) + 1] = x
      /\ \A i \in 1 .. Len(given) : given'[i] = given[i]
      /\ \A i \in 1 .. Len(given) : given[i] \in Fed
  BY Grown, ElementOfSeq DEF TypeOK
<1>1. /\ x.event \in Nat /\ x.by \in Readers \cup {Own}
      /\ \A i \in 1 .. Len(given) : given[i].event \in Nat /\ given[i].by \in Readers \cup {Own}
  BY <1>0 DEF Fed
<1> DEFINE Filled(i, n) ==
        n <= cut \/ \E k \in DOMAIN given' : i < k /\ given'[k] = [by |-> given'[i].by, event |-> n]
<1>2. ASSUME NEW i \in 1 .. Len(given), given[i].by = x.by,
             NEW n \in given[i].event + 1 .. x.event
      PROVE  given[i].event < x.event /\ Filled(i, n)
  <2>1. given[i].event <= Reach[x.by]
    BY <1>0, <1>2 DEF FeedInv, Reaching
  <2>2. ASSUME n \in given[i].event + 1 .. Reach[x.by]
        PROVE  Filled(i, n)
    <3>1. n <= cut \/ \E k \in DOMAIN given : i < k /\ given[k] = [by |-> given[i].by, event |-> n]
      BY <1>0, <1>2, <2>2 DEF FeedInv, Reaching
    <3>2. QED
      BY <1>0, <3>1
  <2>3. ASSUME n \in Reach[x.by] + 1 .. x.event - 1
        PROVE  Filled(i, n)
    BY <2>3
  <2>4. ASSUME n = x.event
        PROVE  Filled(i, n)
    <3>1. x = [by |-> given[i].by, event |-> n]
      BY <1>0, <1>2, <2>4 DEF Fed
    <3>2. /\ Len(given) + 1 \in DOMAIN given' /\ i < Len(given) + 1
          /\ given'[Len(given) + 1] = [by |-> given'[i].by, event |-> n]
      BY <1>0, <1>2, <3>1
    <3>3. QED
      BY <3>2
  <2>5. given[i].event < x.event
    BY <1>1, <1>2, <2>1
  <2>6. n \in given[i].event + 1 .. Reach[x.by] \/ n \in Reach[x.by] + 1 .. x.event - 1 \/ n = x.event
    BY <1>1, <1>2
  <2>7. QED
    BY <2>2, <2>3, <2>4, <2>5, <2>6
<1>3. \A i \in 1 .. Len(given) : given[i].by = x.by => given[i].event < x.event
  <2>1. SUFFICES ASSUME NEW i \in 1 .. Len(given), given[i].by = x.by
                 PROVE  given[i].event < x.event
    OBVIOUS
  <2>2. given[i].event <= Reach[x.by]
    BY <1>0, <2>1 DEF FeedInv, Reaching
  <2>3. QED
    BY <1>1, <2>2
<1>4. \A i, j \in DOMAIN given' :
        i < j /\ given'[i].by = given'[j].by =>
            /\ given'[i].event < given'[j].event
            /\ \A n \in given'[i].event + 1 .. given'[j].event - 1 :
                 n <= cut \/ \E k \in i + 1 .. j - 1 : given'[k] = [by |-> given'[i].by, event |-> n]
  <2> TAKE i, j \in DOMAIN given'
  <2>1. HAVE i < j /\ given'[i].by = given'[j].by
  <2>2. i \in 1 .. Len(given)
    BY <1>0, <2>1
  <2>3. CASE j \in 1 .. Len(given)
    <3>1. /\ given[i].event < given[j].event
          /\ \A n \in given[i].event + 1 .. given[j].event - 1 :
               n <= cut \/ \E k \in i + 1 .. j - 1 : given[k] = [by |-> given[i].by, event |-> n]
      BY <1>0, <2>1, <2>2, <2>3 DEF FeedInv, OnlyCutIsMissing
    <3>2. \A k \in i + 1 .. j - 1 : k \in 1 .. Len(given)
      BY <1>0, <2>2, <2>3
    <3>3. QED
      BY <1>0, <2>2, <2>3, <3>1, <3>2
  <2>4. CASE j = Len(given) + 1
    <3>1. given[i].by = x.by /\ given[i].event < x.event
      BY <1>0, <1>3, <2>1, <2>2, <2>4
    <3>2. ASSUME NEW n \in given[i].event + 1 .. x.event - 1, ~(n <= cut)
          PROVE  \E k \in i + 1 .. j - 1 : given'[k] = [by |-> given'[i].by, event |-> n]
      <4>1. n \in given[i].event + 1 .. x.event /\ n # x.event
        BY <1>0, <1>1, <2>2, <3>2
      <4>2. PICK k \in DOMAIN given' : i < k /\ given'[k] = [by |-> given'[i].by, event |-> n]
        BY <1>2, <2>2, <3>1, <3>2, <4>1
      <4>3. given'[k].event = n
        BY <1>0, <2>2, <4>2 DEF Fed
      <4>4. k # j
        BY <1>0, <2>4, <4>1, <4>3
      <4>5. QED
        BY <1>0, <2>2, <2>4, <4>2, <4>4
    <3>3. QED
      BY <1>0, <2>2, <2>4, <3>1, <3>2
  <2>5. j \in 1 .. Len(given) \/ j = Len(given) + 1
    BY <1>0
  <2>6. QED
    BY <2>3, <2>4, <2>5
<1>5. Reaching'
  <2>1. SUFFICES ASSUME NEW i \in DOMAIN given'
                 PROVE  /\ given'[i].event <= Reach'[given'[i].by]
                        /\ \A n \in given'[i].event + 1 .. Reach'[given'[i].by] : Filled(i, n)
    BY DEF Reaching
  <2>2. CASE i = Len(given) + 1
    <3>1. given'[i] = x /\ Reach'[given'[i].by] = x.event
      BY <1>0, <1>1, <2>2
    <3>2. QED
      BY <1>1, <3>1
  <2>3. CASE i \in 1 .. Len(given) /\ given[i].by = x.by
    <3>1. given'[i] = given[i] /\ Reach'[given'[i].by] = x.event
      BY <1>0, <1>1, <2>3
    <3>2. given[i].event < x.event
      BY <1>3, <2>3
    <3>3. \A n \in given[i].event + 1 .. x.event : Filled(i, n)
      BY <1>2, <2>3
    <3>4. QED
      BY <1>1, <2>3, <3>1, <3>2, <3>3
  <2>4. CASE i \in 1 .. Len(given) /\ given[i].by # x.by
    <3>1. Reach'[given'[i].by] = Reach[given[i].by] /\ given'[i] = given[i]
      BY <1>0, <1>1, <2>4
    <3>2. /\ given[i].event <= Reach[given[i].by]
          /\ \A n \in given[i].event + 1 .. Reach[given[i].by] :
               n <= cut \/ \E k \in DOMAIN given : i < k /\ given[k] = [by |-> given[i].by, event |-> n]
      BY <1>0, <2>4 DEF FeedInv, Reaching
    <3>3. QED
      BY <1>0, <3>1, <3>2
  <2>5. i \in 1 .. Len(given) \/ i = Len(given) + 1
    BY <1>0
  <2>6. QED
    BY <2>2, <2>3, <2>4, <2>5
<1>6. QED
  BY <1>4, <1>5 DEF FeedInv, OnlyCutIsMissing

\* In what was given, a reader's events are in order and only what was cut is
\* missing, up to where the reader is.
LEMMA FeedStep ==
  ASSUME TypeOK, Bounds, Modes, FeedInv, [Next]_vars
  PROVE  FeedInv'
<1> USE DEF request, tenantStream, handling, forwarding, loop, shared, channel, outcome, clash
<1>0. /\ given \in Seq(Fed) /\ DOMAIN given = 1 .. Len(given)
      /\ from \in Nat /\ cut \in Nat /\ events \in Nat
  BY DEF TypeOK
<1>1. \A i \in DOMAIN given : /\ given[i].event \in Nat /\ given[i].by \in Readers \cup {Own}
                              /\ Reach[given[i].by] \in Nat
  <2>1. SUFFICES ASSUME NEW i \in DOMAIN given
                 PROVE  /\ given[i].event \in Nat /\ given[i].by \in Readers \cup {Own}
                        /\ Reach[given[i].by] \in Nat
    OBVIOUS
  <2>2. given[i] \in Fed
    BY <1>0, ElementOfSeq
  <2>3. \A s \in Readers \cup {Own} : Reach[s] \in Nat
    BY DEF Reach, TypeOK
  <2>4. QED
    BY <2>2, <2>3 DEF Fed
<1>2. ASSUME given' = <<>>
      PROVE  FeedInv'
  BY <1>2 DEF FeedInv, OnlyCutIsMissing, Reaching
<1>3. ASSUME given' = given, cut' \in Nat, cut <= cut',
             \A i \in DOMAIN given :
                 /\ Reach'[given[i].by] \in Nat /\ Reach[given[i].by] <= Reach'[given[i].by]
                 /\ \A n \in Reach[given[i].by] + 1 .. Reach'[given[i].by] : n <= cut'
      PROVE  FeedInv'
  <2>1. \A i, j \in DOMAIN given :
            i < j /\ given[i].by = given[j].by =>
                /\ given[i].event < given[j].event
                /\ \A n \in given[i].event + 1 .. given[j].event - 1 :
                     n <= cut' \/ \E k \in i + 1 .. j - 1 : given[k] = [by |-> given[i].by, event |-> n]
    <3>1. SUFFICES ASSUME NEW i \in DOMAIN given, NEW j \in DOMAIN given,
                          i < j, given[i].by = given[j].by
                   PROVE  /\ given[i].event < given[j].event
                          /\ \A n \in given[i].event + 1 .. given[j].event - 1 :
                               n <= cut' \/ \E k \in i + 1 .. j - 1 :
                                               given[k] = [by |-> given[i].by, event |-> n]
      OBVIOUS
    <3>2. /\ given[i].event < given[j].event
          /\ \A n \in given[i].event + 1 .. given[j].event - 1 :
               n <= cut \/ \E k \in i + 1 .. j - 1 : given[k] = [by |-> given[i].by, event |-> n]
      BY <3>1 DEF FeedInv, OnlyCutIsMissing
    <3>3. \A n \in given[i].event + 1 .. given[j].event - 1 : n <= cut => n <= cut'
      BY <1>0, <1>1, <1>3
    <3>4. QED
      BY <3>2, <3>3
  <2>2. \A i \in DOMAIN given :
            /\ given[i].event <= Reach'[given[i].by]
            /\ \A n \in given[i].event + 1 .. Reach'[given[i].by] :
                 n <= cut' \/ \E k \in DOMAIN given : i < k /\ given[k] = [by |-> given[i].by, event |-> n]
    <3>1. SUFFICES ASSUME NEW i \in DOMAIN given
                   PROVE  /\ given[i].event <= Reach'[given[i].by]
                          /\ \A n \in given[i].event + 1 .. Reach'[given[i].by] :
                               n <= cut' \/ \E k \in DOMAIN given :
                                               i < k /\ given[k] = [by |-> given[i].by, event |-> n]
      OBVIOUS
    <3>2. /\ given[i].event <= Reach[given[i].by]
          /\ \A n \in given[i].event + 1 .. Reach[given[i].by] :
               n <= cut \/ \E k \in DOMAIN given : i < k /\ given[k] = [by |-> given[i].by, event |-> n]
      BY DEF FeedInv, Reaching
    <3>3. \A n \in given[i].event + 1 .. Reach'[given[i].by] :
             n \in given[i].event + 1 .. Reach[given[i].by] \/ n \in Reach[given[i].by] + 1 .. Reach'[given[i].by]
      BY <1>1, <1>3
    <3>4. \A n \in Nat : n <= cut => n <= cut'
      BY <1>0, <1>3
    <3>5. \A n \in given[i].event + 1 .. Reach'[given[i].by] : n \in Nat
      BY <1>1, <1>3
    <3>6. given[i].event <= Reach'[given[i].by]
      BY <1>1, <1>3, <3>2
    <3>7. QED
      BY <1>3, <3>2, <3>3, <3>4, <3>5, <3>6
  <2>3. QED
    BY <1>3, <2>1, <2>2 DEF FeedInv, OnlyCutIsMissing, Reaching
<1>4. ASSUME UNCHANGED <<given, from, at>>, cut' \in Nat, cut <= cut'
      PROVE  FeedInv'
  <2>1. Reach' = Reach
    BY <1>4 DEF Reach
  <2>2. \A i \in DOMAIN given :
            /\ Reach'[given[i].by] \in Nat /\ Reach[given[i].by] <= Reach'[given[i].by]
            /\ \A n \in Reach[given[i].by] + 1 .. Reach'[given[i].by] : n <= cut'
    BY <1>1, <2>1
  <2>3. QED
    BY <1>3, <1>4, <2>2
<1>5. CASE Event
  <2>1. cut' \in Nat /\ cut <= cut' /\ UNCHANGED <<given, from, at>>
    BY <1>0, <1>5 DEF Event
  <2>2. QED
    BY <1>4, <2>1
<1>6. CASE Issue
  <2>1. /\ from' = StartOf /\ ~useFanout /\ UNCHANGED <<cut, given, at, started>>
    BY <1>6 DEF Issue, Modes
  <2>2. CASE ~started
    BY <1>2, <2>1, <2>2 DEF Modes
  <2>3. CASE started
    <3>1. /\ from' \in Nat /\ from <= from' /\ \A n \in from + 1 .. from' : n <= cut
      BY <1>0, <2>1, <2>3 DEF StartOf, After
    <3>2. \A i \in DOMAIN given : given[i].by = Own
      BY <2>1 DEF Modes
    <3>3. Reach[Own] = from /\ Reach'[Own] = from'
      BY DEF Reach
    <3>4. \A i \in DOMAIN given :
              /\ Reach'[given[i].by] \in Nat /\ Reach[given[i].by] <= Reach'[given[i].by]
              /\ \A n \in Reach[given[i].by] + 1 .. Reach'[given[i].by] : n <= cut'
      BY <2>1, <3>1, <3>2, <3>3
    <3>5. QED
      BY <1>0, <1>3, <2>1, <3>4
  <2>4. QED
    BY <2>2, <2>3
<1>7. CASE Give
  <2>1. /\ given' = Append(given, [by |-> Own, event |-> from + 1])
        /\ from' = from + 1 /\ UNCHANGED <<cut, at>>
    BY <1>7 DEF Give, Put
  <2>2. Reach[Own] = from /\ \A s \in Readers \cup {Own} :
            Reach'[s] = IF s = Own THEN from + 1 ELSE Reach[s]
    BY <2>1 DEF Reach
  <2>3. [by |-> Own, event |-> from + 1] \in Fed
    BY <1>7, GiveFed
  <2>4. /\ from < from + 1 /\ \A n \in from + 1 .. from + 1 - 1 : n <= cut
    BY <1>0
  <2>5. QED
    BY <1>0, <2>1, <2>2, <2>3, <2>4, GivenGrows
<1>8. CASE \E r \in Readers : FanOut(r)
  <2>1. PICK r \in Readers : FanOut(r)
    BY <1>8
  <2>2. UNCHANGED <<cut, from>>
    BY <2>1 DEF FanOut
  <2>3. ASSUME NEW n \in NextOf(r), given' = Append(given, [by |-> r, event |-> n]),
               at' = [at EXCEPT ![r] = n]
        PROVE  FeedInv'
    <3>1. /\ [by |-> r, event |-> n] \in Fed /\ r # Own /\ at[r] \in Nat /\ at[r] < n
          /\ \A m \in at[r] + 1 .. n - 1 : m <= cut
      BY NextFed
    <3>2. Reach[r] = at[r] /\ \A s \in Readers \cup {Own} :
              Reach'[s] = IF s = r THEN n ELSE Reach[s]
      <4>1. at \in [Readers -> 0 .. MaxEvents] /\ Own \notin Readers
        BY DEF TypeOK, Own, Readers
      <4>2. QED
        BY <2>2, <2>3, <3>1, <4>1 DEF Reach
    <3>3. QED
      BY <2>2, <2>3, <3>1, <3>2, GivenGrows
  <2>4. CASE UNCHANGED <<given, at>>
    BY <1>0, <1>4, <2>2, <2>4
  <2>5. QED
    BY <2>1, <2>3, <2>4 DEF FanOut, Put
<1>9. CASE Subscribe
  BY <1>2, <1>9 DEF Subscribe, Modes
<1>10. CASE QuietAction \/ ReadHistory \/ SendHistory \/ Take \/ WriteOk \/ UNCHANGED vars
  <2>1. UNCHANGED <<given, from, at, cut>>
    BY <1>10, QuietSteps DEF Quiet, ReadHistory, SendHistory, Take, WriteOk, vars
  <2>2. QED
    BY <1>0, <1>4, <2>1
<1>11. QED
  BY <1>5, <1>6, <1>7, <1>8, <1>9, <1>10, NextCases

\* A loop of its own starts from "$" when the history has been sent, and is
\* ahead of it from then on.
LEMMA AheadStep ==
  ASSUME TypeOK, Bounds, Modes, Replay, Ahead, [Next]_vars
  PROVE  Ahead'
<1> USE DEF request, tenantStream, handling, forwarding, loop, shared, channel, outcome, clash
<1> SUFFICES ASSUME ~useFanout', replayed' # <<>>
             PROVE  /\ started' \/ xread' \in {"blocked", "send"} => Last(replayed') <= from'
                    /\ \A i \in DOMAIN given' : Last(replayed') < given'[i].event
  BY DEF Ahead, Last
<1>0. /\ given \in Seq(Fed) /\ Len(given) \in Nat /\ DOMAIN given = 1 .. Len(given)
      /\ from \in Nat /\ cut \in Nat /\ events \in Nat
      /\ replayed \in Seq(1 .. MaxEvents)
  BY DEF TypeOK
<1>1. ~useFanout
  <2>1. useFanout' = useFanout
    BY QuietSteps, NextCases
       DEF Quiet, vars, Event, ReadHistory, SendHistory, Issue, Give, FanOut, Subscribe, Take, WriteOk
  <2>2. QED
    BY <2>1
<1>2. ASSUME replayed' = replayed
      PROVE  /\ Last(replayed') = Last(replayed) /\ Last(replayed) \in Nat /\ Last(replayed) <= events
             /\ replayed # <<>>
  <2>1. replayed # <<>> /\ Len(replayed) \in DOMAIN replayed
    BY <1>0, <1>2
  <2>2. replayed[Len(replayed)] \in 1 .. MaxEvents
    BY <1>0, <2>1
  <2>3. QED
    BY <1>2, <2>1, <2>2 DEF Last, Replay
<1>3. CASE SendHistory
  <2>1. /\ fwd = "none" /\ given = <<>> /\ ~started /\ xread = "none"
        /\ UNCHANGED <<given, started, xread>>
    BY <1>3 DEF SendHistory, Bounds, Modes
  <2>2. QED
    BY <2>1
<1>4. CASE Issue
  <2>1. UNCHANGED <<replayed, given, started>> /\ from' = StartOf
    BY <1>4 DEF Issue
  <2>2. CASE started
    <3>1. from <= from' /\ from' \in Nat
      BY <1>0, <2>1, <2>2 DEF StartOf, After
    <3>2. QED
      BY <1>0, <1>1, <1>2, <2>1, <2>2, <3>1 DEF Ahead
  <2>3. CASE ~started
    <3>1. given = <<>> /\ from' = events
      BY <1>1, <2>1, <2>3 DEF Modes, StartOf
    <3>2. QED
      BY <1>2, <2>1, <3>1
  <2>4. QED
    BY <2>2, <2>3
<1>5. CASE Give
  <2>1. /\ from' = from + 1 /\ given' = Append(given, [by |-> Own, event |-> from + 1])
        /\ xread = "send" /\ UNCHANGED replayed
    BY <1>5 DEF Give, Put
  <2>2. /\ DOMAIN given' = 1 .. Len(given) + 1 /\ given'[Len(given) + 1].event = from + 1
        /\ \A i \in 1 .. Len(given) : given'[i] = given[i]
    BY <1>0, <1>5, <2>1, GiveFed, Grown
  <2>3. Last(replayed) <= from /\ \A i \in DOMAIN given : Last(replayed) < given[i].event
    BY <1>1, <1>2, <2>1 DEF Ahead
  <2>4. Last(replayed) < from + 1 /\ Last(replayed) <= from'
    BY <1>0, <1>2, <2>1, <2>3
  <2>5. \A i \in DOMAIN given' : i \in DOMAIN given \/ i = Len(given) + 1
    BY <1>0, <2>2
  <2>6. QED
    BY <1>0, <1>2, <2>1, <2>2, <2>3, <2>4, <2>5
<1>6. CASE Subscribe
  <2>1. /\ given = <<>> /\ ~started /\ UNCHANGED <<given, started>> /\ xread' = "top"
    BY <1>1, <1>6 DEF Subscribe, Modes
  <2>2. QED
    BY <2>1
<1>7. CASE /\ UNCHANGED <<from, replayed, given, started>>
           /\ xread' \in {"blocked", "send"} => xread \in {"blocked", "send"}
  BY <1>1, <1>2, <1>7 DEF Ahead
<1>8. QED
  <2>1. CASE Handshake \/ ReadHistory \/ SendHistoryFails \/ StartGoroutines \/ ReadFails
    BY <1>7, <2>1 DEF Handshake, ReadHistory, SendHistoryFails, StartGoroutines, ReadFails
  <2>2. CASE Event \/ ClientMoves \/ Timeout \/ Drop \/ FeedEnds
    BY <1>7, <2>2 DEF Event, ClientMoves, Timeout, Drop, FeedEnds
  <2>3. CASE Take \/ WriteOk \/ WriteFails \/ SeeEnd \/ Unsub \/ Tick \/ BeatOk \/ BeatEnds
    BY <1>7, <2>3 DEF Take, WriteOk, WriteFails, SeeEnd, Unsub, Tick, BeatOk, BeatEnds
  <2>4. CASE UNCHANGED vars
    BY <1>7, <2>4 DEF vars
  <2>5. CASE \E r \in Readers : FanOut(r)
    BY <1>1, <2>5 DEF FanOut, Registered
  <2>6. QED
    BY <1>3, <1>4, <1>5, <1>6, <2>1, <2>2, <2>3, <2>4, <2>5, NextCases DEF QuietAction

LEMMA ConnInvariance == Spec => []ConnInv
<1>1. ConnInv /\ [Next]_vars => ConnInv'
  BY TypeStep, ClosingStep, ModesStep, ReplayStep, LineStep, FeedStep, AheadStep DEF ConnInv
<1>2. QED
  BY <1>1, InitConn, PTL DEF Spec

----------------------------------------------------------------------------
\* The connection's variables keep their types.
THEOREM ConnectionTypes == Spec => []TypeOK
<1>1. ConnInv => TypeOK
  BY DEF ConnInv
<1>2. QED
  BY <1>1, ConnInvariance, PTL

\* No client waits on an open connection that nothing feeds.
THEOREM OpenIsFed == Spec => []OpenMeansFed
<1>1. ConnInv => OpenMeansFed
  BY DEF ConnInv, Closing, Returned, OpenMeansFed
<1>2. QED
  BY <1>1, ConnInvariance, PTL

\* A client is sent the end of the stream without a gap, and then, of each reader
\* that feeds it, what MAXLEN left of the stream, each event once and in order,
\* however many readers there are and however far behind.
THEOREM HistoryIsFollowed == Spec => []HistoryThenLive
<1>1. ASSUME ConnInv PROVE HistoryThenLive
  <2>0. /\ given \in Seq(Fed) /\ sent \in Seq(Fed) /\ Len(sent) \in Nat /\ Len(given) \in Nat
        /\ DOMAIN sent = 1 .. Len(sent) /\ DOMAIN given = 1 .. Len(given)
        /\ Len(buf) \in Nat
    BY <1>1 DEF ConnInv, TypeOK
  <2>1. NoGap
    BY <1>1 DEF ConnInv, Replay
  <2>2. \A i \in DOMAIN sent : \E j \in DOMAIN given : sent[i] = given[j]
    BY <1>1, <2>0 DEF ConnInv, Line
  <2>3. sent # <<>> => handler \in {"read", "returned"}
    <3>1. sent # <<>> => 1 \in DOMAIN sent
      BY <2>0
    <3>2. sent # <<>> => given # <<>>
      BY <2>2, <3>1
    <3>3. QED
      BY <1>1, <3>2 DEF ConnInv, Modes, Bounds
  <2>4. ASSUME ~overlapped PROVE OnlyCutIsMissing(sent)
    <3>1. Len(sent) <= Len(given) /\ \A i \in 1 .. Len(sent) : sent[i] = given[i]
      <4>1. Len(sent) <= Taken /\ \A i \in 1 .. Len(sent) : sent[i] = given[i]
        BY <1>1, <2>4 DEF ConnInv, Line
      <4>2. Taken <= Len(given) /\ Taken \in Int
        BY <2>0 DEF Taken
      <4>3. QED
        BY <2>0, <4>1, <4>2
    <3>2. SUFFICES ASSUME NEW i \in 1 .. Len(sent), NEW j \in 1 .. Len(sent),
                          i < j, sent[i].by = sent[j].by
                   PROVE  /\ sent[i].event < sent[j].event
                          /\ \A n \in sent[i].event + 1 .. sent[j].event - 1 :
                               n <= cut \/ \E k \in i + 1 .. j - 1 :
                                               sent[k] = [by |-> sent[i].by, event |-> n]
      BY <2>0 DEF OnlyCutIsMissing
    <3>3. i \in DOMAIN given /\ j \in DOMAIN given /\ \A k \in i + 1 .. j - 1 : k \in 1 .. Len(sent)
      BY <2>0, <3>1
    <3>4. /\ given[i].event < given[j].event
          /\ \A n \in given[i].event + 1 .. given[j].event - 1 :
               n <= cut \/ \E k \in i + 1 .. j - 1 : given[k] = [by |-> given[i].by, event |-> n]
      BY <1>1, <3>1, <3>2, <3>3 DEF ConnInv, FeedInv, OnlyCutIsMissing
    <3>5. QED
      BY <3>1, <3>2, <3>3, <3>4
  <2>5. ~useFanout /\ replayed # <<>> => \A i \in DOMAIN sent : Last(replayed) < sent[i].event
    BY <1>1, <2>2 DEF ConnInv, Ahead
  <2>6. QED
    BY <2>1, <2>3, <2>4, <2>5 DEF HistoryThenLive
<1>2. QED
  BY <1>1, ConnInvariance, PTL
=============================================================================
