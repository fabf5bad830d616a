---------------------------- MODULE FanoutProofs ----------------------------
(***************************************************************************)
(* The safety of the fan-out, for any number of connections, buffers of    *)
(* any size and streams of any length.                                     *)
(***************************************************************************)
EXTENDS TenantFanout, FiniteSetTheorems, SequenceTheorems, TLAPS

USE FanoutAssumption

(***************************************************************************)
(* The inductive invariant.  Sends: a reader with a batch in hand has not  *)
(* sent all of it.  Lifecycle: a channel is registered only while its      *)
(* forwarder runs and closed only after it was registered.  Reading: while *)
(* somebody is registered, f.cancel is a reader that runs and that nobody  *)
(* has stopped; only a stopped one ends.  Single: as long as nobody was    *)
(* dropped, that is the only reader nobody has stopped, and there is none  *)
(* when nobody is registered.  Pipes: what a reader has asked for and not  *)
(* yet fanned out is in the order of the stream, none of it after from;    *)
(* the subscribers it found full are known only until it prunes them.      *)
(* Gapless: from the head of its pipe up to from, only what was cut away   *)
(* is missing.  Handed: all a reader has still to fan out comes after what *)
(* it gave a subscriber already, and while that one is registered and not  *)
(* found full every later event up to from was given to it too, is in the  *)
(* pipe, or was cut away.                                                  *)
(***************************************************************************)
Sends == \A r \in Readers : prod[r] = "send" => from[r] < upto[r]

Lifecycle ==
    \A c \in Conns :
        /\ c \in subs => conn[c] = "open" /\ c \notin closed
        /\ conn[c] = "idle" => c \notin closed
        /\ conn[c] = "open" => c \in subs \/ c \in closed

Reading ==
    /\ subs # {} => cancel \in Readers /\ Live(cancel) /\ cancel \notin cancelled
    /\ \A r \in Readers : prod[r] = "done" => r \in cancelled
    /\ \A r \in cancelled : loop[r] # "none"
    /\ cancel \in Readers => loop[cancel] # "none"

Single ==
    Dropped = {} /\ ~panicked =>
        \A r \in Readers : Live(r) /\ r \notin cancelled => r = cancel /\ subs # {}

Pipes ==
    \A r \in Readers :
        /\ loop[r] # "prune" => dead[r] = {}
        /\ \A i \in DOMAIN pipe[r] : r \in started /\ pipe[r][i] <= from[r]
        /\ \A i, j \in DOMAIN pipe[r] : i < j => pipe[r][i] < pipe[r][j]

Gapless ==
    \A r \in Readers : \A i \in DOMAIN pipe[r] :
        \A n \in pipe[r][i] + 1 .. from[r] : n <= cut \/ \E j \in DOMAIN pipe[r] : pipe[r][j] = n

\* Where event n is, which reader r got after the i-th event c was given.
Reached(c, r, i, n) ==
    \/ n <= cut
    \/ \E j \in DOMAIN pipe[r] : pipe[r][j] = n
    \/ \E k \in DOMAIN received[c] : i < k /\ received[c][k] = [by |-> r, event |-> n]

Handed ==
    \A c \in Conns, r \in Readers : \A i \in DOMAIN received[c] :
        received[c][i].by = r =>
            /\ r \in started /\ conn[c] # "idle" /\ received[c][i].event <= from[r]
            /\ \A j \in DOMAIN pipe[r] : received[c][i].event < pipe[r][j]
            /\ c \in subs \ dead[r] =>
                  \A n \in received[c][i].event + 1 .. from[r] : Reached(c, r, i, n)

FanoutInv == TypeOK /\ Sends /\ Lifecycle /\ Reading /\ Single

OrderInv == Pipes /\ Gapless /\ Handed /\ OnlyCutIsSkipped

\* Subscribe starts a reader exactly when nobody is registered.
LEMMA OnlySubscriber ==
  ASSUME TypeOK, NEW c \in Conns, c \notin subs
  PROVE  Cardinality(subs \cup {c}) = 1 <=> subs = {}
<1>1. IsFiniteSet(subs)
  BY FS_Subset DEF TypeOK
<1>2. Cardinality(subs \cup {c}) = Cardinality(subs) + 1 /\ Cardinality(subs) \in Nat
  BY <1>1, FS_AddElement, FS_CardinalityType
<1>3. QED
  BY <1>1, <1>2, FS_EmptySet

\* The readers' numbers are natural numbers, and None is not one of them.
LEMMA ReadersAreNumbers == Readers \subseteq Nat /\ None \notin Readers
  BY FS_CardinalityType DEF Readers, None

\* Nothing has started.
LEMMA InitFanout == Init => FanoutInv
<1> SUFFICES ASSUME Init PROVE FanoutInv
  OBVIOUS
<1> USE DEF Init
<1>1. TypeOK
  <2>1. /\ buf \in [Conns -> Seq(1 .. events)] /\ \A c \in Conns : Len(buf[c]) <= BufSize
        /\ received \in [Conns -> Seq([by : Readers, event : 1 .. events])]
        /\ pipe \in [Readers -> Seq(1 .. events)] /\ \A r \in Readers : Len(pipe[r]) <= BufSize
    BY EmptySeq
  <2>2. panicked \in BOOLEAN
    BY Zenon
  <2>3. events \in 0 .. MaxEvents /\ cut \in 0 .. events /\ subs \subseteq Conns /\ closed \subseteq Conns
    OBVIOUS
  <2>4. /\ prod \in [Readers -> {"none", "top", "blocked", "send", "done"}]
        /\ loop \in [Readers -> {"none", "recv", "prune", "done"}]
        /\ from \in [Readers -> 0 .. events] /\ upto \in [Readers -> 0 .. events]
        /\ dead \in [Readers -> SUBSET Conns]
        /\ conn \in [Conns -> {"idle", "open", "gone"}]
    OBVIOUS
  <2>5. QED
    BY <2>1, <2>2, <2>3, <2>4 DEF TypeOK
<1>2. Sends /\ Lifecycle /\ Reading /\ Single
  BY ReadersAreNumbers DEF Sends, Lifecycle, Reading, Single, Live, None
<1>3. QED
  BY <1>1, <1>2 DEF FanoutInv

----------------------------------------------------------------------------
\* A stream of events stays one when the tenant's stream grows.
LEMMA MoreEvents ==
  ASSUME NEW m \in Nat, NEW n \in Nat, m <= n
  PROVE  /\ Seq(1 .. m) \subseteq Seq(1 .. n)
         /\ Seq([by : Readers, event : 1 .. m]) \subseteq Seq([by : Readers, event : 1 .. n])
<1>1. 1 .. m \subseteq 1 .. n
  OBVIOUS
<1>2. [by : Readers, event : 1 .. m] \subseteq [by : Readers, event : 1 .. n]
  BY <1>1
<1>3. ASSUME NEW S, NEW T, S \subseteq T
      PROVE  Seq(S) \subseteq Seq(T)
  BY <1>3
<1>4. QED
  BY <1>1, <1>2, <1>3

\* Every step preserves the types of the variables.
LEMMA TypeStep ==
  ASSUME TypeOK, Sends, [Next]_vars
  PROVE  TypeOK' /\ Sends'
<1> USE ReadersAreNumbers
        DEF TypeOK, Sends, tenantStream, channels, clients, registry, xread, fan, vars
<1>1. CASE Event
  <2>1. events' \in 0 .. MaxEvents /\ events <= events' /\ events \in Nat /\ events' \in Nat
    BY <1>1 DEF Event
  <2>2. cut' \in 0 .. events'
    BY <1>1, <2>1 DEF Event
  <2>3. /\ buf' \in [Conns -> Seq(1 .. events')] /\ \A c \in Conns : Len(buf'[c]) <= BufSize
        /\ received' \in [Conns -> Seq([by : Readers, event : 1 .. events'])]
        /\ pipe' \in [Readers -> Seq(1 .. events')] /\ \A r \in Readers : Len(pipe'[r]) <= BufSize
    BY <1>1, <2>1, MoreEvents DEF Event
  <2>4. /\ prod' \in [Readers -> {"none", "top", "blocked", "send", "done"}]
        /\ from' \in [Readers -> 0 .. events'] /\ upto' \in [Readers -> 0 .. events']
        /\ \A r \in Readers : prod'[r] = "send" => from'[r] < upto'[r]
    BY <1>1, <2>1 DEF Event, Blocked
  <2>5. QED
    BY <1>1, <2>1, <2>2, <2>3, <2>4 DEF Event
<1>2. ASSUME NEW c \in Conns, Subscribe(c)
      PROVE  TypeOK' /\ Sends'
  <2>1. /\ subs' \subseteq Conns /\ cancel' \in Readers \cup {None}
        /\ conn' \in [Conns -> {"idle", "open", "gone"}]
        /\ loop' \in [Readers -> {"none", "recv", "prune", "done"}]
        /\ prod' \in [Readers -> {"none", "top", "blocked", "send", "done"}]
        /\ \A r \in Readers : prod'[r] = "send" => prod[r] = "send"
    <3>1. subs' = subs \cup {c} /\ conn' = [conn EXCEPT ![c] = "open"]
      BY <1>2 DEF Subscribe
    <3>2. \/ \E r \in Readers : /\ cancel' = r
                                /\ prod' = [prod EXCEPT ![r] = "top"]
                                /\ loop' = [loop EXCEPT ![r] = "recv"]
          \/ UNCHANGED <<cancel, prod, loop>>
      BY <1>2 DEF Subscribe, NotStarted
    <3>3. QED
      BY <3>1, <3>2
  <2>2. UNCHANGED <<tenantStream, channels, received, started, from, upto, pipe, dead, cancelled,
                    panicked>>
    BY <1>2 DEF Subscribe
  <2>3. QED
    BY <2>1, <2>2
<1>3. ASSUME NEW c \in Conns, Forward(c)
      PROVE  TypeOK' /\ Sends'
  <2>1. Tail(buf[c]) \in Seq(1 .. events) /\ Len(Tail(buf[c])) <= BufSize
    BY <1>3, HeadTailProperties DEF Forward
  <2>2. buf' \in [Conns -> Seq(1 .. events)] /\ \A d \in Conns : Len(buf'[d]) <= BufSize
    BY <1>3, <2>1 DEF Forward
  <2>3. QED
    BY <1>3, <2>2 DEF Forward
<1>4. ASSUME NEW c \in Conns, Unsub(c)
      PROVE  TypeOK' /\ Sends'
  BY <1>4 DEF Unsub, CancelIfLast
<1>5. ASSUME NEW r \in Readers, Issue(r)
      PROVE  TypeOK' /\ Sends'
  <2>1. StartOf(r) \in 0 .. events
    BY DEF StartOf, After
  <2>2. /\ from' = [from EXCEPT ![r] = StartOf(r)]
        /\ upto' = [upto EXCEPT ![r] = events]
        /\ prod' = [prod EXCEPT ![r] = IF StartOf(r) < events THEN "send" ELSE "blocked"]
        /\ UNCHANGED <<tenantStream, registry, channels, clients, started, pipe, fan, cancelled, panicked>>
    BY <1>5 DEF Issue
  <2>3. Sends' /\ from' \in [Readers -> 0 .. events] /\ upto' \in [Readers -> 0 .. events]
    BY <2>1, <2>2
  <2>4. QED
    BY <2>2, <2>3
<1>6. ASSUME NEW r \in Readers, Timeout(r) \/ ProdExit(r)
      PROVE  TypeOK' /\ Sends'
  BY <1>6 DEF Timeout, ProdExit
<1>7. ASSUME NEW r \in Readers, Send(r)
      PROVE  TypeOK' /\ Sends'
  <2>1. from[r] + 1 \in 1 .. events /\ from[r] + 1 <= upto[r]
    BY <1>7 DEF Send
  <2>2. /\ Append(pipe[r], from[r] + 1) \in Seq(1 .. events)
        /\ Len(Append(pipe[r], from[r] + 1)) <= BufSize
    BY <1>7, <2>1, AppendProperties DEF Send
  <2>3. pipe' \in [Readers -> Seq(1 .. events)] /\ \A q \in Readers : Len(pipe'[q]) <= BufSize
    BY <1>7, <2>2 DEF Send
  <2>4. from' \in [Readers -> 0 .. events] /\ Sends'
    BY <1>7, <2>1 DEF Send
  <2>5. QED
    BY <1>7, <2>3, <2>4 DEF Send, Advance
<1>8. ASSUME NEW r \in Readers, FanOut(r)
      PROVE  TypeOK' /\ Sends'
  <2> DEFINE e == Head(pipe[r])
  <2>1. e \in 1 .. events /\ Tail(pipe[r]) \in Seq(1 .. events) /\ Len(Tail(pipe[r])) <= BufSize
    BY <1>8, HeadTailProperties DEF FanOut
  <2>2. \A c \in subs \ Full :
            Append(buf[c], e) \in Seq(1 .. events) /\ Len(Append(buf[c], e)) <= BufSize
    BY <2>1, AppendProperties DEF Full
  <2>3. \A c \in Conns :
            Append(received[c], [by |-> r, event |-> e]) \in Seq([by : Readers, event : 1 .. events])
    <3> DEFINE x == [by |-> r, event |-> e]
    <3>1. x \in [by : Readers, event : 1 .. events]
      BY <2>1
    <3> HIDE DEF x
    <3>2. \A c \in Conns : Append(received[c], x) \in Seq([by : Readers, event : 1 .. events])
      BY <3>1, AppendProperties
    <3>3. QED
      BY <3>2 DEF x
  <2>4. /\ UNCHANGED <<tenantStream, registry, closed, conn, xread, cancelled, panicked>>
        /\ loop' = [loop EXCEPT ![r] = IF Full = {} THEN "recv" ELSE "prune"]
        /\ dead' = [dead EXCEPT ![r] = Full]
        /\ pipe' = [pipe EXCEPT ![r] = Tail(pipe[r])]
        /\ buf' = [c \in Conns |-> IF c \in subs \ Full THEN Append(buf[c], e) ELSE buf[c]]
        /\ received' = [c \in Conns |->
              IF c \in subs \ Full THEN Append(received[c], [by |-> r, event |-> e])
                                   ELSE received[c]]
    BY <1>8 DEF FanOut
  <2> HIDE DEF e
  <2>5. buf' \in [Conns -> Seq(1 .. events)] /\ \A c \in Conns : Len(buf'[c]) <= BufSize
    BY <2>2, <2>4
  <2>6. received' \in [Conns -> Seq([by : Readers, event : 1 .. events])]
    BY <2>3, <2>4
  <2>7. pipe' \in [Readers -> Seq(1 .. events)] /\ \A q \in Readers : Len(pipe'[q]) <= BufSize
    BY <2>1, <2>4
  <2>8. /\ loop' \in [Readers -> {"none", "recv", "prune", "done"}]
        /\ dead' \in [Readers -> SUBSET Conns]
    BY <2>4 DEF Full
  <2>9. QED
    BY <2>4, <2>5, <2>6, <2>7, <2>8
<1>9. ASSUME NEW r \in Readers, Prune(r) \/ LoopExit(r)
      PROVE  TypeOK' /\ Sends'
  <2>1. /\ subs' \subseteq Conns /\ closed' \subseteq Conns
        /\ loop' \in [Readers -> {"none", "recv", "prune", "done"}]
        /\ dead' \in [Readers -> SUBSET Conns]
    <3>1. CASE Prune(r)
      BY <3>1 DEF Prune
    <3>2. CASE LoopExit(r)
      BY <3>2 DEF LoopExit
    <3>3. QED
      BY <1>9, <3>1, <3>2
  <2>2. UNCHANGED <<tenantStream, cancel, buf, clients, xread, pipe, cancelled, panicked>>
    BY <1>9 DEF Prune, LoopExit
  <2>3. QED
    BY <2>1, <2>2
<1>10. CASE UNCHANGED vars
  BY <1>10
<1>11. QED
  BY <1>1, <1>2, <1>3, <1>4, <1>5, <1>6, <1>7, <1>8, <1>9, <1>10
     DEF Next, Leave, SeeClosed, ReaderStep

\* Channels are opened, registered, closed and forgotten in that order, at
\* whichever of the two places the closing happens.
LEMMA LifecycleStep ==
  ASSUME TypeOK, Lifecycle, [Next]_vars
  PROVE  Lifecycle'
<1> USE DEF TypeOK, Lifecycle, tenantStream, channels, clients, registry, xread, fan, vars
<1>1. CASE UNCHANGED <<subs, closed, conn>>
  BY <1>1
<1>2. ASSUME NEW c \in Conns, Subscribe(c)
      PROVE  Lifecycle'
  BY <1>2 DEF Subscribe
<1>3. ASSUME NEW c \in Conns, conn[c] = "open", Unsub(c)
      PROVE  Lifecycle'
  BY <1>3 DEF Unsub
<1>4. ASSUME NEW r \in Readers, Prune(r)
      PROVE  Lifecycle'
  BY <1>4 DEF Prune
<1>5. QED
  BY <1>1, <1>2, <1>3, <1>4
     DEF Next, Event, Forward, Leave, SeeClosed, ReaderStep, Issue, Timeout, Send, ProdExit,
         FanOut, LoopExit

\* A reader that is needed is not stopped, and does not stop by itself.
LEMMA ReadingStep ==
  ASSUME TypeOK, Lifecycle, Reading, [Next]_vars
  PROVE  Reading'
<1> USE ReadersAreNumbers
        DEF TypeOK, Reading, Live, tenantStream, channels, clients, registry, xread, fan, vars
<1>1. ASSUME NEW c \in Conns, Subscribe(c)
      PROVE  Reading'
  <2>1. c \notin subs
    BY <1>1 DEF Subscribe, Lifecycle
  <2>2. CASE subs = {}
    <3>1. PICK r \in NotStarted : /\ cancel' = r
                                  /\ prod' = [prod EXCEPT ![r] = "top"]
                                  /\ loop' = [loop EXCEPT ![r] = "recv"]
      BY <1>1, <2>1, <2>2, OnlySubscriber DEF Subscribe
    <3>2. UNCHANGED cancelled
      BY <1>1 DEF Subscribe
    <3>3. QED
      BY <3>1, <3>2 DEF NotStarted
  <2>3. CASE subs # {}
    <3>1. UNCHANGED <<cancel, prod, loop, cancelled>>
      BY <1>1, <2>1, <2>3, OnlySubscriber DEF Subscribe
    <3>2. QED
      BY <3>1, <2>3
  <2>4. QED
    BY <2>2, <2>3
<1>2. ASSUME NEW c \in Conns, Unsub(c)
      PROVE  Reading'
  <2>1. UNCHANGED <<prod, loop>> /\ subs' = subs \ {c}
    BY <1>2 DEF Unsub
  <2>2. CASE UNCHANGED <<cancel, cancelled>>
    BY <2>1, <2>2
  <2>3. CASE subs' = {} /\ cancel # None /\ cancelled' = cancelled \cup {cancel} /\ cancel' = None
    BY <2>1, <2>3
  <2>4. QED
    BY <1>2, <2>1, <2>2, <2>3 DEF Unsub, CancelIfLast
<1>3. ASSUME NEW r \in Readers, Issue(r) \/ Timeout(r) \/ Send(r) \/ ProdExit(r)
      PROVE  Reading'
  BY <1>3 DEF Issue, Timeout, Send, ProdExit
<1>4. ASSUME NEW r \in Readers, FanOut(r) \/ Prune(r)
      PROVE  Reading'
  <2>1. /\ subs' \subseteq subs /\ UNCHANGED <<cancel, prod, cancelled>>
        /\ \/ loop' = [loop EXCEPT ![r] = "recv"]
           \/ loop' = [loop EXCEPT ![r] = "prune"]
        /\ Live(r)
    BY <1>4 DEF FanOut, Prune
  <2>2. QED
    BY <2>1
<1>5. ASSUME NEW r \in Readers, LoopExit(r)
      PROVE  Reading'
  BY <1>5 DEF LoopExit
<1>6. CASE Event
  BY <1>6 DEF Event, Blocked
<1>7. CASE UNCHANGED <<registry, prod, loop, cancelled>>
  BY <1>7
<1>8. QED
  BY <1>1, <1>2, <1>3, <1>4, <1>5, <1>6, <1>7
     DEF Next, Forward, Leave, SeeClosed, ReaderStep

\* Without a drop there is one reader that nobody has stopped: the next one is
\* started only when the last one was stopped.
LEMMA SingleStep ==
  ASSUME TypeOK, Lifecycle, Reading, Single, [Next]_vars
  PROVE  Single'
<1> USE ReadersAreNumbers
        DEF TypeOK, Lifecycle, Reading, Single, Dropped, Live, tenantStream, channels, clients,
            registry, xread, fan, vars
<1>1. ASSUME NEW c \in Conns, Subscribe(c)
      PROVE  Single'
  <2>1. c \notin subs /\ c \notin closed /\ subs' # {}
        /\ UNCHANGED <<closed, cancelled, panicked>>
    BY <1>1 DEF Subscribe, channels
  <2>2. Dropped' = {} => Dropped = {}
    BY <1>1, <2>1 DEF Subscribe
  <2>3. CASE subs = {}
    <3>1. PICK r \in NotStarted : cancel' = r /\ loop' = [loop EXCEPT ![r] = "recv"]
      BY <1>1, <2>1, <2>3, OnlySubscriber DEF Subscribe
    <3>2. QED
      BY <2>1, <2>2, <2>3, <3>1 DEF NotStarted
  <2>4. CASE subs # {}
    <3>1. UNCHANGED <<cancel, loop>>
      BY <1>1, <2>1, <2>4, OnlySubscriber DEF Subscribe
    <3>2. QED
      BY <2>1, <2>2, <2>4, <3>1
  <2>5. QED
    BY <2>3, <2>4
<1>2. ASSUME NEW c \in Conns, conn[c] = "open", Unsub(c)
      PROVE  Single'
  <2>1. CASE c \in closed
    BY <1>2, <2>1 DEF Unsub
  <2>2. CASE c \notin closed
    <3>1. closed' = closed \cup {c} /\ conn' = [conn EXCEPT ![c] = "gone"] /\ UNCHANGED loop
          /\ subs' = subs \ {c} /\ UNCHANGED panicked /\ CancelIfLast(subs \ {c})
      BY <1>2, <2>2 DEF Unsub
    <3>2. Dropped' = Dropped
      BY <1>2, <2>2, <3>1
    <3>3. CASE subs \ {c} = {}
      BY <3>1, <3>2, <3>3, <1>2 DEF CancelIfLast
    <3>4. CASE subs \ {c} # {}
      BY <3>1, <3>2, <3>4 DEF CancelIfLast
    <3>5. QED
      BY <3>3, <3>4
  <2>3. QED
    BY <2>1, <2>2
<1>3. ASSUME NEW r \in Readers, FanOut(r) \/ LoopExit(r)
      PROVE  Single'
  <2>1. /\ UNCHANGED <<registry, closed, conn, cancelled, panicked>>
        /\ \/ Live(r) /\ loop' = [loop EXCEPT ![r] = "recv"]
           \/ Live(r) /\ loop' = [loop EXCEPT ![r] = "prune"]
           \/ loop' = [loop EXCEPT ![r] = "done"]
    BY <1>3 DEF FanOut, LoopExit
  <2>2. QED
    BY <2>1
<1>4. ASSUME NEW r \in Readers, Prune(r)
      PROVE  Single'
  <2>1. Dropped' = {} => Dropped = {} /\ subs' = subs
    BY <1>4 DEF Prune
  <2>2. QED
    BY <1>4, <2>1 DEF Prune
<1>5. CASE UNCHANGED <<registry, closed, conn, loop, cancelled, panicked>>
  BY <1>5
<1>6. QED
  BY <1>1, <1>2, <1>3, <1>4, <1>5
     DEF Next, Event, Forward, Leave, SeeClosed, ReaderStep, Issue, Timeout, Send, ProdExit

----------------------------------------------------------------------------
\* What a sequence holds.
LEMMA Elements ==
  ASSUME NEW S, NEW s \in Seq(S)
  PROVE  \A i \in DOMAIN s : s[i] \in S /\ i \in Nat /\ i \in 1 .. Len(s)
  OBVIOUS

LEMMA PipeElements ==
  ASSUME TypeOK, NEW r \in Readers
  PROVE  /\ pipe[r] \in Seq(1 .. events)
         /\ \A i \in DOMAIN pipe[r] : pipe[r][i] \in 1 .. events /\ pipe[r][i] \in Nat /\ i \in Nat
<1>1. pipe[r] \in Seq(1 .. events) /\ events \in Nat
  BY DEF TypeOK
<1>2. QED
  BY <1>1, Elements

\* What is behind the head of a pipe, and what is in front of a new event.
LEMMA TailOf ==
  ASSUME NEW S, NEW s \in Seq(S), s # <<>>
  PROVE  /\ Head(s) = s[1] /\ 1 \in DOMAIN s
         /\ \A i \in DOMAIN Tail(s) : i + 1 \in DOMAIN s /\ Tail(s)[i] = s[i + 1] /\ i \in Nat \ {0}
         /\ \A i \in DOMAIN s : i = 1 \/ (i - 1 \in DOMAIN Tail(s) /\ Tail(s)[i - 1] = s[i])
  OBVIOUS

LEMMA AppendOf ==
  ASSUME NEW S, NEW s \in Seq(S), NEW x \in S
  PROVE  /\ DOMAIN Append(s, x) = DOMAIN s \cup {Len(s) + 1} /\ Len(s) \in Nat
         /\ Append(s, x)[Len(s) + 1] = x
         /\ \A i \in DOMAIN s : Append(s, x)[i] = s[i] /\ i \in 1 .. Len(s)
  OBVIOUS

\* A pipe stays in the order of the stream.
LEMMA PipesStep ==
  ASSUME TypeOK, Sends, Pipes, Handed, [Next]_vars
  PROVE  Pipes'
<1> USE ReadersAreNumbers
        DEF Pipes, tenantStream, channels, clients, registry, xread, fan, vars
<1>1. CASE UNCHANGED <<started, from, pipe, fan>>
  BY <1>1
<1>2. ASSUME NEW c \in Conns, Subscribe(c)
      PROVE  Pipes'
  <2>1. \A r \in Readers : loop'[r] # "prune" => loop[r] # "prune"
    <3>1. \/ UNCHANGED loop
          \/ \E r \in NotStarted : loop' = [loop EXCEPT ![r] = "recv"]
      BY <1>2 DEF Subscribe
    <3>2. QED
      BY <3>1 DEF TypeOK, NotStarted
  <2>2. QED
    BY <1>2, <2>1 DEF Subscribe
<1>3. ASSUME NEW r \in Readers, Issue(r)
      PROVE  Pipes'
  <2>1. r \in started => from[r] <= StartOf(r) /\ StartOf(r) \in Nat
    BY DEF StartOf, After, TypeOK
  <2>2. \A q \in Readers : \A i \in DOMAIN pipe[q] : pipe[q][i] \in Nat
    BY PipeElements
  <2>3. from' = [from EXCEPT ![r] = StartOf(r)] /\ UNCHANGED <<started, pipe, fan>>
    BY <1>3 DEF Issue
  <2>4. \A q \in Readers : \A i \in DOMAIN pipe[q] : q \in started /\ pipe[q][i] <= from'[q]
    BY <2>1, <2>2, <2>3 DEF TypeOK
  <2>5. QED
    BY <2>3, <2>4
<1>4. ASSUME NEW r \in Readers, Send(r)
      PROVE  Pipes'
  <2>1. /\ pipe' = [pipe EXCEPT ![r] = Append(pipe[r], from[r] + 1)]
        /\ from' = [from EXCEPT ![r] = from[r] + 1]
        /\ started' = started \cup {r} /\ UNCHANGED fan
        /\ from[r] + 1 \in 1 .. events
    BY <1>4 DEF Send, Advance, TypeOK, Sends
  <2>2. pipe[r] \in Seq(1 .. events)
    BY DEF TypeOK
  <2>3. pipe'[r] = Append(pipe[r], from[r] + 1) /\ from'[r] = from[r] + 1
    BY <2>1 DEF TypeOK
  <2>4. \A i \in DOMAIN pipe'[r] : r \in started' /\ pipe'[r][i] <= from'[r]
    BY <2>1, <2>2, <2>3, AppendOf DEF TypeOK
  <2>5. \A i, j \in DOMAIN pipe'[r] : i < j => pipe'[r][i] < pipe'[r][j]
    <3> DEFINE s == pipe[r]  x == from[r] + 1
    <3>1. /\ \A i \in DOMAIN s : s[i] < x
          /\ \A i, j \in DOMAIN s : i < j => s[i] < s[j]
      <4>1. \A i \in DOMAIN s : s[i] \in Nat /\ s[i] <= from[r]
        BY PipeElements
      <4>2. from[r] \in Nat
        BY DEF TypeOK
      <4>3. QED
        BY <4>1, <4>2
    <3>2. s \in Seq(1 .. events) /\ x \in 1 .. events'
      BY <2>1, <2>2, <1>4 DEF Send
    <3>3. x \in 1 .. events /\ pipe'[r] = Append(s, x)
      BY <2>1, <2>3
    <3> HIDE DEF s, x
    <3>4. /\ DOMAIN Append(s, x) = DOMAIN s \cup {Len(s) + 1} /\ Len(s) \in Nat
          /\ Append(s, x)[Len(s) + 1] = x
          /\ \A i \in DOMAIN s : Append(s, x)[i] = s[i] /\ i \in 1 .. Len(s)
      BY <3>2, <3>3, AppendOf
    <3>5. ASSUME NEW i \in DOMAIN pipe'[r], NEW j \in DOMAIN pipe'[r], i < j
          PROVE  pipe'[r][i] < pipe'[r][j]
      <4>1. i \in DOMAIN s
        BY <3>3, <3>4, <3>5
      <4>2. CASE j \in DOMAIN s
        BY <3>1, <3>3, <3>4, <3>5, <4>1, <4>2
      <4>3. CASE j = Len(s) + 1
        BY <3>1, <3>3, <3>4, <4>1, <4>3
      <4>4. QED
        BY <3>3, <3>4, <3>5, <4>2, <4>3
    <3>6. QED
      BY <3>5
  <2>6. \A q \in Readers : q # r => pipe'[q] = pipe[q] /\ from'[q] = from[q]
    BY <2>1 DEF TypeOK
  <2>7. QED
    BY <2>1, <2>4, <2>5, <2>6
<1>5. ASSUME NEW r \in Readers, FanOut(r)
      PROVE  Pipes'
  <2>1. /\ pipe[r] # <<>> /\ pipe' = [pipe EXCEPT ![r] = Tail(pipe[r])]
        /\ dead' = [dead EXCEPT ![r] = Full]
        /\ loop' = [loop EXCEPT ![r] = IF Full = {} THEN "recv" ELSE "prune"]
        /\ UNCHANGED <<started, from>>
    BY <1>5 DEF FanOut
  <2>2. pipe[r] \in Seq(1 .. events) /\ pipe'[r] = Tail(pipe[r])
    BY <2>1 DEF TypeOK
  <2>3. \A i \in DOMAIN pipe'[r] : i + 1 \in DOMAIN pipe[r] /\ pipe'[r][i] = pipe[r][i + 1] /\ i \in Nat
    <3>1. \A i \in DOMAIN Tail(pipe[r]) :
              i + 1 \in DOMAIN pipe[r] /\ Tail(pipe[r])[i] = pipe[r][i + 1] /\ i \in Nat \ {0}
      BY <2>1, <2>2, TailOf
    <3>2. QED
      BY <2>2, <3>1
  <2>4. /\ \A i \in DOMAIN pipe'[r] : r \in started' /\ pipe'[r][i] <= from'[r]
        /\ \A i, j \in DOMAIN pipe'[r] : i < j => pipe'[r][i] < pipe'[r][j]
    BY <2>1, <2>3
  <2>5. \A q \in Readers : q # r => pipe'[q] = pipe[q]
    BY <2>1 DEF TypeOK
  <2>6. \A q \in Readers : loop'[q] # "prune" => dead'[q] = {}
    BY <2>1 DEF TypeOK
  <2>7. QED
    BY <2>1, <2>4, <2>5, <2>6
<1>6. ASSUME NEW r \in Readers, Prune(r) \/ LoopExit(r)
      PROVE  Pipes'
  <2>1. \A q \in Readers : loop'[q] # "prune" => dead'[q] = {}
    BY <1>6 DEF Prune, LoopExit, TypeOK
  <2>2. UNCHANGED <<started, from, pipe>>
    BY <1>6 DEF Prune, LoopExit
  <2>3. QED
    BY <2>1, <2>2
<1>7. QED
  BY <1>1, <1>2, <1>3, <1>4, <1>5, <1>6
     DEF Next, Event, Forward, Leave, SeeClosed, Unsub, ReaderStep, Timeout, ProdExit

\* What was cut away stays cut away.
LEMMA CutGrows ==
  ASSUME TypeOK, [Next]_vars
  PROVE  cut \in Nat /\ cut' \in Nat /\ cut <= cut'
<1> USE DEF tenantStream, channels, clients, registry, xread, fan, vars
<1>1. CASE Event
  BY <1>1 DEF Event, TypeOK
<1>2. CASE UNCHANGED cut
  BY <1>2 DEF TypeOK
<1>3. QED
  BY <1>1, <1>2
     DEF Next, Subscribe, Forward, Leave, SeeClosed, Unsub, ReaderStep, Issue, Timeout, Send,
         ProdExit, FanOut, Prune, LoopExit

\* The missing events of a pipe were cut away before XREAD started after them.
LEMMA GaplessStep ==
  ASSUME TypeOK, Sends, Pipes, Gapless, [Next]_vars
  PROVE  Gapless'
<1> USE ReadersAreNumbers DEF tenantStream, channels, clients, registry, xread, fan, vars
<1> SUFFICES ASSUME NEW r \in Readers, NEW i \in DOMAIN pipe'[r],
                    NEW n \in pipe'[r][i] + 1 .. from'[r]
             PROVE  n <= cut' \/ \E j \in DOMAIN pipe'[r] : pipe'[r][j] = n
  BY DEF Gapless
<1>1. cut \in Nat /\ cut' \in Nat /\ cut <= cut'
  BY CutGrows
<1>2. from[r] \in Nat /\ \A j \in DOMAIN pipe[r] : pipe[r][j] \in Nat
  <2>1. from[r] \in Nat
    BY DEF TypeOK
  <2>2. QED
    BY <2>1, PipeElements
<1>3. CASE UNCHANGED <<pipe, from>>
  <2>1. n \in Nat
    BY <1>2, <1>3
  <2>2. n <= cut \/ \E j \in DOMAIN pipe[r] : pipe[r][j] = n
    BY <1>3 DEF Gapless
  <2>3. QED
    BY <1>1, <1>3, <2>1, <2>2
<1>4. ASSUME NEW q \in Readers, Issue(q)
      PROVE  n <= cut' \/ \E j \in DOMAIN pipe'[r] : pipe'[r][j] = n
  <2>1. from' = [from EXCEPT ![q] = StartOf(q)] /\ UNCHANGED <<pipe, tenantStream>>
    BY <1>4 DEF Issue
  <2>2. r \in started
    BY <2>1 DEF Pipes
  <2>3. from'[r] = from[r] \/ from'[r] = After(from[r])
    BY <2>1, <2>2 DEF StartOf, TypeOK
  <2>4. n \in pipe[r][i] + 1 .. from[r] \/ n <= cut
    BY <1>1, <1>2, <2>1, <2>3 DEF After
  <2>5. QED
    BY <2>1, <2>4 DEF Gapless
<1>5. ASSUME NEW q \in Readers, Send(q)
      PROVE  n <= cut' \/ \E j \in DOMAIN pipe'[r] : pipe'[r][j] = n
  <2>1. /\ pipe' = [pipe EXCEPT ![q] = Append(pipe[q], from[q] + 1)]
        /\ from' = [from EXCEPT ![q] = from[q] + 1] /\ UNCHANGED tenantStream
        /\ from[q] + 1 \in 1 .. events
    BY <1>5 DEF Send, TypeOK, Sends
  <2>2. CASE q # r
    <3>1. pipe'[r] = pipe[r] /\ from'[r] = from[r]
      BY <2>1, <2>2 DEF TypeOK
    <3>2. i \in DOMAIN pipe[r] /\ n \in pipe[r][i] + 1 .. from[r]
      BY <2>1, <3>1
    <3>3. n <= cut \/ \E j \in DOMAIN pipe[r] : pipe[r][j] = n
      BY <3>2 DEF Gapless
    <3>4. QED
      BY <2>1, <3>1, <3>3
  <2>3. CASE q = r
    <3> DEFINE s == pipe[r]  x == from[r] + 1
    <3>1. s \in Seq(1 .. events) /\ x \in 1 .. events /\ pipe'[r] = Append(s, x) /\ from'[r] = x
      BY <2>1, <2>3 DEF TypeOK
    <3>2. /\ DOMAIN Append(s, x) = DOMAIN s \cup {Len(s) + 1} /\ Len(s) \in Nat
          /\ Append(s, x)[Len(s) + 1] = x
          /\ \A j \in DOMAIN s : Append(s, x)[j] = s[j]
      <4> HIDE DEF s, x
      <4>1. QED
        BY <3>1, AppendOf
    <3>3. CASE n = x
      BY <3>1, <3>2, <3>3
    <3>4. CASE n # x
      <4>1. i \in DOMAIN s
        BY <3>1, <3>2, <3>4, <1>2
      <4>2. pipe'[r][i] = s[i]
        BY <3>1, <3>2, <4>1
      <4>3. n \in s[i] + 1 .. from[r]
        BY <1>2, <3>1, <3>4, <4>1, <4>2
      <4>4. n <= cut \/ \E j \in DOMAIN s : s[j] = n
        BY <4>1, <4>3 DEF Gapless
      <4>5. CASE n <= cut
        BY <2>1, <4>5
      <4>6. CASE \E j \in DOMAIN s : s[j] = n
        <5> HIDE DEF s, x
        <5>1. QED
          BY <3>1, <3>2, <4>6
      <4>7. QED
        BY <4>4, <4>5, <4>6
    <3>5. QED
      BY <3>3, <3>4
  <2>4. QED
    BY <2>2, <2>3
<1>6. ASSUME NEW q \in Readers, FanOut(q)
      PROVE  n <= cut' \/ \E j \in DOMAIN pipe'[r] : pipe'[r][j] = n
  <2>1. /\ pipe[q] # <<>> /\ pipe' = [pipe EXCEPT ![q] = Tail(pipe[q])]
        /\ UNCHANGED <<from, tenantStream>>
    BY <1>6 DEF FanOut
  <2>2. CASE q # r
    <3>1. pipe'[r] = pipe[r]
      BY <2>1, <2>2 DEF TypeOK
    <3>2. i \in DOMAIN pipe[r] /\ n \in pipe[r][i] + 1 .. from[r]
      BY <2>1, <3>1
    <3>3. n <= cut \/ \E j \in DOMAIN pipe[r] : pipe[r][j] = n
      BY <3>2 DEF Gapless
    <3>4. QED
      BY <2>1, <3>1, <3>3
  <2>3. CASE q = r
    <3> DEFINE s == pipe[r]
    <3>1. s \in Seq(1 .. events) /\ s # <<>> /\ pipe'[r] = Tail(s)
      BY <2>1, <2>3 DEF TypeOK
    <3>2. /\ 1 \in DOMAIN s
          /\ \A j \in DOMAIN Tail(s) : j + 1 \in DOMAIN s /\ Tail(s)[j] = s[j + 1] /\ j \in Nat \ {0}
          /\ \A j \in DOMAIN s : j = 1 \/ (j - 1 \in DOMAIN Tail(s) /\ Tail(s)[j - 1] = s[j])
      <4> HIDE DEF s
      <4>1. QED
        BY <3>1, TailOf
    <3>3. i + 1 \in DOMAIN s /\ pipe'[r][i] = s[i + 1] /\ i \in Nat \ {0}
      BY <3>1, <3>2
    <3>4. n \in s[i + 1] + 1 .. from[r] /\ s[1] < s[i + 1]
      BY <2>1, <3>2, <3>3 DEF Pipes
    <3>5. n <= cut \/ \E j \in DOMAIN s : s[j] = n
      BY <3>3, <3>4 DEF Gapless
    <3>6. CASE \E j \in DOMAIN s : s[j] = n
      <4>1. PICK j \in DOMAIN s : s[j] = n
        BY <3>6
      <4>2. j # 1
        BY <1>2, <3>2, <3>3, <3>4, <4>1
      <4>3. j - 1 \in DOMAIN pipe'[r] /\ pipe'[r][j - 1] = n
        <5> HIDE DEF s
        <5>1. QED
          BY <3>1, <3>2, <4>1, <4>2
      <4>4. QED
        BY <4>3
    <3>7. QED
      BY <2>1, <3>5, <3>6
  <2>4. QED
    BY <2>2, <2>3
<1>7. QED
  BY <1>3, <1>4, <1>5, <1>6
     DEF Next, Event, Subscribe, Forward, Leave, SeeClosed, Unsub, ReaderStep, Timeout, ProdExit,
         Prune, LoopExit

\* What was given is a reader, and an event before those it has still to give.
LEMMA GivenTypes ==
  ASSUME TypeOK, NEW c \in Conns, NEW i \in DOMAIN received[c]
  PROVE  /\ received[c][i] \in [by : Readers, event : 1 .. events]
         /\ received[c][i].by \in Readers /\ received[c][i].event \in Nat /\ i \in Nat
         /\ i \in 1 .. Len(received[c]) /\ DOMAIN received[c] = 1 .. Len(received[c])
         /\ Len(received[c]) \in Nat
<1> DEFINE T == [by : Readers, event : 1 .. events]
<1>1. received \in [Conns -> Seq(T)]
  BY Zenon DEF TypeOK
<1>2. events \in Nat
  BY DEF TypeOK
<1> HIDE DEF T
<1>3. received[c] \in Seq(T)
  BY <1>1
<1>4. /\ received[c][i] \in T /\ i \in Nat /\ i \in 1 .. Len(received[c])
      /\ DOMAIN received[c] = 1 .. Len(received[c]) /\ Len(received[c]) \in Nat
  BY <1>3, Elements
<1>5. QED
  BY <1>2, <1>4 DEF T

\* A step that gives nobody anything keeps what was given in front of what is
\* still to be given, if each event of a reader stays where it is, and each new
\* one is in its pipe or cut away.
LEMMA HandedOn ==
  ASSUME TypeOK, Handed, UNCHANGED received, cut <= cut', cut \in Nat, cut' \in Nat,
         started \subseteq started',
         \A c \in Conns : conn'[c] = "idle" => conn[c] = "idle",
         \A c \in Conns : conn[c] # "idle" /\ c \in subs' => c \in subs,
         \A c \in Conns, r \in Readers :
             conn[c] # "idle" /\ c \in subs' \ dead'[r] => c \in subs \ dead[r],
         \A r \in Readers : r \in started =>
             /\ from[r] <= from'[r] /\ from'[r] \in Nat
             /\ \A j \in DOMAIN pipe[r] : \E k \in DOMAIN pipe'[r] : pipe'[r][k] = pipe[r][j]
             /\ \A k \in DOMAIN pipe'[r] :
                    \/ \E j \in DOMAIN pipe[r] : pipe'[r][k] = pipe[r][j]
                    \/ pipe'[r][k] \in Nat /\ from[r] < pipe'[r][k]
             /\ \A n \in from[r] + 1 .. from'[r] :
                    n <= cut' \/ \E k \in DOMAIN pipe'[r] : pipe'[r][k] = n
  PROVE  Handed'
<1> SUFFICES ASSUME NEW c \in Conns, NEW r \in Readers, NEW i \in DOMAIN received[c],
                    received[c][i].by = r
             PROVE  /\ r \in started' /\ conn'[c] # "idle" /\ received[c][i].event <= from'[r]
                    /\ \A j \in DOMAIN pipe'[r] : received[c][i].event < pipe'[r][j]
                    /\ c \in subs' \ dead'[r] =>
                          \A n \in received[c][i].event + 1 .. from'[r] : Reached(c, r, i, n)'
  BY DEF Handed
<1> DEFINE e == received[c][i].event
<1>1. /\ r \in started /\ conn[c] # "idle" /\ e <= from[r]
      /\ \A j \in DOMAIN pipe[r] : e < pipe[r][j]
      /\ c \in subs \ dead[r] => \A n \in e + 1 .. from[r] : Reached(c, r, i, n)
  BY DEF Handed
<1>2. e \in Nat /\ from[r] \in Nat
  <2>1. e \in Nat
    BY GivenTypes
  <2>2. QED
    BY <2>1 DEF TypeOK
<1> HIDE DEF e
<1>3. r \in started' /\ conn'[c] # "idle" /\ e <= from'[r]
  BY <1>1, <1>2
<1>4. \A j \in DOMAIN pipe'[r] : e < pipe'[r][j]
  BY <1>1, <1>2
<1>5. ASSUME c \in subs' \ dead'[r], NEW n \in e + 1 .. from'[r]
      PROVE  Reached(c, r, i, n)'
  <2>1. CASE n <= from[r]
    <3>1. Reached(c, r, i, n)
      BY <1>1, <1>2, <1>3, <1>5, <2>1
    <3>2. n \in Nat
      BY <1>2
    <3>3. CASE n <= cut
      BY <3>2, <3>3 DEF Reached
    <3>4. CASE \E j \in DOMAIN pipe[r] : pipe[r][j] = n
      BY <1>1, <3>4 DEF Reached
    <3>5. CASE \E k \in DOMAIN received[c] : i < k /\ received[c][k] = [by |-> r, event |-> n]
      BY <3>5 DEF Reached
    <3>6. QED
      BY <3>1, <3>3, <3>4, <3>5 DEF Reached
  <2>2. CASE from[r] < n
    <3>1. n \in from[r] + 1 .. from'[r]
      BY <1>1, <1>2, <2>2
    <3>2. n <= cut' \/ \E k \in DOMAIN pipe'[r] : pipe'[r][k] = n
      BY <1>1, <3>1
    <3>3. QED
      BY <3>2 DEF Reached
  <2>3. QED
    BY <1>2, <2>1, <2>2
<1>6. QED
  BY <1>3, <1>4, <1>5 DEF e

\* In particular a step that leaves the readers where they are.
LEMMA HandedInPlace ==
  ASSUME TypeOK, Handed, UNCHANGED <<received, started, from, pipe>>,
         cut <= cut', cut \in Nat, cut' \in Nat,
         \A c \in Conns : conn'[c] = "idle" => conn[c] = "idle",
         \A c \in Conns : conn[c] # "idle" /\ c \in subs' => c \in subs,
         \A c \in Conns, r \in Readers :
             conn[c] # "idle" /\ c \in subs' \ dead'[r] => c \in subs \ dead[r]
  PROVE  Handed'
<1>1. ASSUME NEW r \in Readers
      PROVE  /\ from[r] <= from'[r] /\ from'[r] \in Nat
             /\ \A n \in from[r] + 1 .. from'[r] : FALSE
  <2>1. from[r] \in Nat /\ from'[r] = from[r]
    BY DEF TypeOK
  <2>2. QED
    BY <2>1
<1>2. ASSUME NEW r \in Readers
      PROVE  /\ \A j \in DOMAIN pipe[r] : \E k \in DOMAIN pipe'[r] : pipe'[r][k] = pipe[r][j]
             /\ \A k \in DOMAIN pipe'[r] : \E j \in DOMAIN pipe[r] : pipe'[r][k] = pipe[r][j]
  <2>1. pipe'[r] = pipe[r]
    OBVIOUS
  <2>2. QED
    BY <2>1
<1>3. UNCHANGED received /\ started \subseteq started'
  OBVIOUS
<1>4. QED
  BY <1>1, <1>2, <1>3, HandedOn

\* What fanOut adds to a channel, and to which.
LEMMA FanOutGives ==
  ASSUME TypeOK, NEW r \in Readers, FanOut(r), NEW c \in Conns
  PROVE  /\ c \notin subs \ Full => received'[c] = received[c]
         /\ c \in subs \ Full =>
               /\ DOMAIN received'[c] = DOMAIN received[c] \cup {Len(received[c]) + 1}
               /\ received'[c][Len(received[c]) + 1] = [by |-> r, event |-> pipe[r][1]]
         /\ Len(received[c]) \in Nat
         /\ \A i \in DOMAIN received[c] :
               i \in DOMAIN received'[c] /\ received'[c][i] = received[c][i] /\ i \in 1 .. Len(received[c])
<1> DEFINE T == [by : Readers, event : 1 .. events]  x == [by |-> r, event |-> pipe[r][1]]
<1>1. received \in [Conns -> Seq(T)]
  BY Zenon DEF TypeOK
<1>2. pipe[r] \in Seq(1 .. events) /\ pipe[r] # <<>>
  BY DEF FanOut, TypeOK
<1>3. Head(pipe[r]) = pipe[r][1] /\ pipe[r][1] \in 1 .. events
  BY <1>2, TailOf, Elements
<1>4. x \in T
  BY <1>3
<1>5. received' = [d \in Conns |-> IF d \in subs \ Full THEN Append(received[d], x) ELSE received[d]]
  BY <1>3 DEF FanOut
<1> HIDE DEF T, x
<1>6. received[c] \in Seq(T)
  BY <1>1
<1>7. /\ DOMAIN Append(received[c], x) = DOMAIN received[c] \cup {Len(received[c]) + 1}
      /\ Len(received[c]) \in Nat
      /\ Append(received[c], x)[Len(received[c]) + 1] = x
      /\ \A i \in DOMAIN received[c] :
            Append(received[c], x)[i] = received[c][i] /\ i \in 1 .. Len(received[c])
  BY <1>4, <1>6, AppendOf
<1>8. CASE c \in subs \ Full
  BY <1>5, <1>7, <1>8 DEF x
<1>9. CASE c \notin subs \ Full
  BY <1>5, <1>7, <1>9
<1>10. QED
  BY <1>8, <1>9

\* The fan-out hands on the head of the pipe, which every subscriber that is not
\* found full gets, and nobody else is registered any longer when the next one
\* is handed on.
LEMMA HandedFanOut ==
  ASSUME TypeOK, Lifecycle, Pipes, Gapless, Handed, NEW r \in Readers, FanOut(r)
  PROVE  Handed'
<1> USE ReadersAreNumbers DEF tenantStream, channels, clients, registry, xread, fan
<1>1. /\ pipe[r] # <<>> /\ pipe' = [pipe EXCEPT ![r] = Tail(pipe[r])]
      /\ dead' = [dead EXCEPT ![r] = Full] /\ dead[r] = {}
      /\ UNCHANGED <<subs, conn, from, started, cut, events>>
  BY DEF FanOut, Pipes
<1> DEFINE s == pipe[r]
<1>2. s \in Seq(1 .. events) /\ s # <<>> /\ pipe'[r] = Tail(s)
  BY <1>1 DEF TypeOK
<1>3. /\ 1 \in DOMAIN s
      /\ \A j \in DOMAIN pipe'[r] : j + 1 \in DOMAIN s /\ pipe'[r][j] = s[j + 1] /\ j \in Nat \ {0}
      /\ \A j \in DOMAIN s : j = 1 \/ (j - 1 \in DOMAIN pipe'[r] /\ pipe'[r][j - 1] = s[j])
  <2> HIDE DEF s
  <2>1. QED
    BY <1>2, TailOf
<1>4. /\ \A q \in Readers : q # r => pipe'[q] = pipe[q] /\ dead'[q] = dead[q]
      /\ dead'[r] = Full
  BY <1>1 DEF TypeOK
<1>5. ASSUME NEW c \in Conns, NEW q \in Readers, NEW i \in DOMAIN received'[c],
             received'[c][i].by = q
      PROVE  /\ q \in started' /\ conn'[c] # "idle" /\ received'[c][i].event <= from'[q]
             /\ \A j \in DOMAIN pipe'[q] : received'[c][i].event < pipe'[q][j]
             /\ c \in subs' \ dead'[q] =>
                   \A n \in received'[c][i].event + 1 .. from'[q] : Reached(c, q, i, n)'
  <2>1. CASE i \in DOMAIN received[c]
    <3>1. received'[c][i] = received[c][i] /\ i \in 1 .. Len(received[c]) /\ Len(received[c]) \in Nat
      BY <2>1, FanOutGives
    <3>2. /\ q \in started /\ conn[c] # "idle" /\ received[c][i].event <= from[q]
          /\ \A j \in DOMAIN pipe[q] : received[c][i].event < pipe[q][j]
          /\ c \in subs \ dead[q] =>
                \A n \in received[c][i].event + 1 .. from[q] : Reached(c, q, i, n)
      BY <1>5, <2>1, <3>1 DEF Handed
    <3>3. \A j \in DOMAIN pipe'[q] : received'[c][i].event < pipe'[q][j]
      BY <1>3, <1>4, <3>1, <3>2
    <3>4. ASSUME c \in subs' \ dead'[q], NEW n \in received'[c][i].event + 1 .. from'[q]
          PROVE  Reached(c, q, i, n)'
      <4>1. c \in subs \ dead[q] /\ (q = r => c \in subs \ Full)
        BY <1>1, <1>4, <3>4
      <4>2. Reached(c, q, i, n)
        BY <1>1, <3>1, <3>2, <3>4, <4>1
      <4>3. CASE n <= cut
        BY <1>1, <4>3 DEF Reached
      <4>4. CASE \E k \in DOMAIN received[c] : i < k /\ received[c][k] = [by |-> q, event |-> n]
        <5>1. PICK k \in DOMAIN received[c] : i < k /\ received[c][k] = [by |-> q, event |-> n]
          BY <4>4
        <5>2. k \in DOMAIN received'[c] /\ received'[c][k] = received[c][k]
          BY FanOutGives
        <5>3. QED
          BY <5>1, <5>2 DEF Reached
      <4>5. CASE \E j \in DOMAIN pipe[q] : pipe[q][j] = n
        <5>1. CASE q # r
          BY <1>4, <4>5, <5>1 DEF Reached
        <5>2. CASE q = r
          <6>1. PICK j \in DOMAIN s : s[j] = n
            BY <4>5, <5>2
          <6>2. CASE j = 1
            <7>1. /\ Len(received[c]) + 1 \in DOMAIN received'[c]
                  /\ received'[c][Len(received[c]) + 1] = [by |-> q, event |-> n]
                  /\ i < Len(received[c]) + 1
              BY <3>1, <4>1, <5>2, <6>1, <6>2, FanOutGives
            <7>2. QED
              BY <7>1 DEF Reached
          <6>3. CASE j # 1
            BY <1>3, <5>2, <6>1, <6>3 DEF Reached
          <6>4. QED
            BY <6>2, <6>3
        <5>3. QED
          BY <5>1, <5>2
      <4>6. QED
        BY <4>2, <4>3, <4>4, <4>5 DEF Reached
    <3>5. QED
      BY <1>1, <3>1, <3>2, <3>3, <3>4
  <2>2. CASE i \notin DOMAIN received[c]
    <3>1. c \in subs \ Full /\ received'[c][i] = [by |-> r, event |-> s[1]]
      BY <1>5, <2>2, FanOutGives
    <3>2. q = r /\ received'[c][i].event = s[1]
      BY <1>5, <3>1
    <3>3. r \in started /\ s[1] <= from[r] /\ conn[c] # "idle"
      BY <1>3, <3>1 DEF Pipes, Lifecycle
    <3>4. \A j \in DOMAIN pipe'[r] : s[1] < pipe'[r][j]
      BY <1>3 DEF Pipes
    <3>5. ASSUME NEW n \in s[1] + 1 .. from[r]
          PROVE  Reached(c, r, i, n)'
      <4>1. n <= cut \/ \E j \in DOMAIN s : s[j] = n
        BY <1>3 DEF Gapless
      <4>2. CASE n <= cut
        BY <1>1, <4>2 DEF Reached
      <4>3. CASE \E j \in DOMAIN s : s[j] = n
        <5>1. PICK j \in DOMAIN s : s[j] = n
          BY <4>3
        <5>2. j # 1
          <6>1. s[1] \in Nat /\ from[r] \in Nat
            <7>1. s[1] \in Nat
              BY <1>3, PipeElements
            <7>2. QED
              BY <7>1 DEF TypeOK
          <6>2. QED
            BY <5>1, <6>1
        <5>3. QED
          BY <1>3, <5>1, <5>2 DEF Reached
      <4>4. QED
        BY <4>1, <4>2, <4>3
    <3>6. QED
      BY <1>1, <3>2, <3>3, <3>4, <3>5
  <2>3. QED
    BY <2>1, <2>2
<1>6. QED
  BY <1>5 DEF Handed

\* Every other step leaves what was given alone, and moves events towards the
\* pipe or away.
LEMMA HandedStep ==
  ASSUME TypeOK, Sends, Lifecycle, Pipes, Gapless, Handed, [Next]_vars
  PROVE  Handed'
<1> USE ReadersAreNumbers DEF tenantStream, channels, clients, registry, xread, fan, vars
<1>1. cut \in Nat /\ cut' \in Nat /\ cut <= cut' /\ \A r \in Readers : from[r] \in Nat
  <2>1. \A r \in Readers : from[r] \in Nat
    BY DEF TypeOK
  <2>2. QED
    BY <2>1, CutGrows
<1>2. CASE UNCHANGED <<received, started, from, pipe, dead, conn, subs>>
  <2>1. UNCHANGED <<received, started, from, pipe>> /\ UNCHANGED <<dead, conn, subs>>
    BY <1>2
  <2>2. QED
    BY <1>1, <2>1, HandedInPlace
<1>3. ASSUME NEW c \in Conns, Subscribe(c)
      PROVE  Handed'
  <2>1. /\ UNCHANGED <<received, started, from, pipe, dead>> /\ conn[c] = "idle"
        /\ subs' = subs \cup {c} /\ conn' = [conn EXCEPT ![c] = "open"]
    BY <1>3 DEF Subscribe
  <2>2. \A d \in Conns : conn'[d] = "idle" => conn[d] = "idle"
    BY <2>1 DEF TypeOK
  <2>3. QED
    BY <1>1, <2>1, <2>2, HandedInPlace
<1>4. ASSUME NEW c \in Conns, Unsub(c)
      PROVE  Handed'
  <2>1. /\ UNCHANGED <<received, started, from, pipe, dead>>
        /\ subs' = subs \ {c} /\ conn' = [conn EXCEPT ![c] = "gone"]
    BY <1>4 DEF Unsub
  <2>2. \A d \in Conns : conn'[d] = "idle" => conn[d] = "idle"
    BY <2>1 DEF TypeOK
  <2>3. QED
    BY <1>1, <2>1, <2>2, HandedInPlace
<1>5. ASSUME NEW r \in Readers, Issue(r)
      PROVE  Handed'
  <2>1. /\ UNCHANGED <<received, started, pipe, dead, conn, subs, cut>>
        /\ from' = [from EXCEPT ![r] = StartOf(r)]
    BY <1>5 DEF Issue
  <2>2. r \in started => StartOf(r) = from[r] \/ (from[r] < StartOf(r) /\ StartOf(r) = cut)
    BY <1>1 DEF StartOf, After
  <2>3. \A q \in Readers : q \in started =>
            from'[q] = from[q] \/ (from[q] < from'[q] /\ from'[q] = cut')
    BY <2>1, <2>2 DEF TypeOK
  <2>4. \A q \in Readers : q \in started =>
            /\ from[q] <= from'[q] /\ from'[q] \in Nat
            /\ \A n \in from[q] + 1 .. from'[q] : n <= cut'
    BY <1>1, <2>3
  <2>5. QED
    BY <1>1, <2>1, <2>4, HandedOn
<1>6. ASSUME NEW r \in Readers, Send(r)
      PROVE  Handed'
  <2> DEFINE x == from[r] + 1
  <2>1. /\ pipe' = [pipe EXCEPT ![r] = Append(pipe[r], x)]
        /\ from' = [from EXCEPT ![r] = x] /\ started' = started \cup {r}
        /\ UNCHANGED <<received, dead, conn, subs, cut>> /\ x \in 1 .. events
    BY <1>6 DEF Send, Advance, TypeOK, Sends
  <2>2. pipe[r] \in Seq(1 .. events) /\ pipe'[r] = Append(pipe[r], x) /\ from'[r] = x
    BY <2>1 DEF TypeOK
  <2>3. /\ DOMAIN pipe'[r] = DOMAIN pipe[r] \cup {Len(pipe[r]) + 1}
        /\ pipe'[r][Len(pipe[r]) + 1] = x
        /\ \A j \in DOMAIN pipe[r] : pipe'[r][j] = pipe[r][j]
    <3> HIDE DEF x
    <3>1. QED
      BY <2>1, <2>2, AppendOf
  <2>4. \A q \in Readers : q # r => pipe'[q] = pipe[q] /\ from'[q] = from[q]
    BY <2>1 DEF TypeOK
  <2>5. ASSUME NEW q \in Readers
        PROVE  /\ from[q] <= from'[q] /\ from'[q] \in Nat
               /\ \A j \in DOMAIN pipe[q] : \E k \in DOMAIN pipe'[q] : pipe'[q][k] = pipe[q][j]
               /\ \A k \in DOMAIN pipe'[q] :
                      \/ \E j \in DOMAIN pipe[q] : pipe'[q][k] = pipe[q][j]
                      \/ pipe'[q][k] \in Nat /\ from[q] < pipe'[q][k]
               /\ \A n \in from[q] + 1 .. from'[q] :
                      n <= cut' \/ \E k \in DOMAIN pipe'[q] : pipe'[q][k] = n
    <3>1. CASE q # r
      BY <1>1, <2>4, <3>1
    <3>2. CASE q = r
      <4>1. from[q] <= from'[q] /\ from'[q] \in Nat
        BY <1>1, <2>2, <3>2
      <4>2. \A n \in from[q] + 1 .. from'[q] : n = x
        BY <1>1, <2>2, <3>2
      <4>3. x \in Nat /\ from[q] < x
        BY <1>1, <3>2
      <4> HIDE DEF x
      <4>4. QED
        BY <2>3, <3>2, <4>1, <4>2, <4>3
    <3>3. QED
      BY <3>1, <3>2
  <2>6. QED
    BY <1>1, <2>1, <2>5, HandedOn
<1>7. ASSUME NEW r \in Readers, Prune(r)
      PROVE  Handed'
  <2>1. /\ UNCHANGED <<received, started, from, pipe, conn>>
        /\ subs' = subs \ dead[r] /\ dead' = [dead EXCEPT ![r] = {}]
    BY <1>7 DEF Prune
  <2>2. \A c \in Conns, q \in Readers : c \in subs' \ dead'[q] => c \in subs \ dead[q]
    BY <2>1 DEF TypeOK
  <2>3. QED
    BY <1>1, <2>1, <2>2, HandedInPlace
<1>8. QED
  BY <1>2, <1>3, <1>4, <1>5, <1>6, <1>7, HandedFanOut
     DEF Next, Event, Forward, Leave, SeeClosed, ReaderStep, Timeout, ProdExit, LoopExit

\* What is given next comes after what was given, and nothing but what was cut
\* away lies between.
LEMMA CutStep ==
  ASSUME TypeOK, Pipes, Handed, OnlyCutIsSkipped, [Next]_vars
  PROVE  OnlyCutIsSkipped'
<1> USE ReadersAreNumbers DEF tenantStream, channels, clients, registry, xread, fan, vars
<1>1. cut \in Nat /\ cut' \in Nat /\ cut <= cut'
  BY CutGrows
<1>2. CASE UNCHANGED received
  <2> SUFFICES ASSUME NEW c \in Conns, NEW i \in DOMAIN received[c], NEW j \in DOMAIN received[c],
                      i < j, received[c][i].by = received[c][j].by
               PROVE  /\ received[c][i].event < received[c][j].event
                      /\ \A n \in received[c][i].event + 1 .. received[c][j].event - 1 :
                            n <= cut' \/ \E k \in i + 1 .. j - 1 :
                                             received[c][k] = [received[c][i] EXCEPT !.event = n]
    BY <1>2 DEF OnlyCutIsSkipped
  <2>1. received[c][i].event \in Nat /\ received[c][j].event \in Nat
    BY GivenTypes
  <2>2. /\ received[c][i].event < received[c][j].event
        /\ \A n \in received[c][i].event + 1 .. received[c][j].event - 1 :
              n <= cut \/ \E k \in i + 1 .. j - 1 :
                             received[c][k] = [received[c][i] EXCEPT !.event = n]
    BY DEF OnlyCutIsSkipped
  <2>3. \A n \in received[c][i].event + 1 .. received[c][j].event - 1 : n <= cut => n <= cut'
    BY <1>1, <2>1
  <2>4. QED
    BY <2>2, <2>3
<1>3. ASSUME NEW r \in Readers, FanOut(r)
      PROVE  OnlyCutIsSkipped'
  <2>1. pipe[r] \in Seq(1 .. events) /\ pipe[r] # <<>> /\ dead[r] = {} /\ UNCHANGED cut
    BY <1>3 DEF FanOut, TypeOK, Pipes
  <2>2. 1 \in DOMAIN pipe[r]
    BY <2>1, TailOf
  <2>3. /\ pipe[r][1] \in Nat /\ pipe[r][1] <= from[r]
        /\ \A j \in DOMAIN pipe[r] : pipe[r][1] <= pipe[r][j]
    <3>1. \A j \in DOMAIN pipe[r] : pipe[r][j] \in Nat /\ j \in 1 .. Len(pipe[r])
      BY <2>1, Elements DEF TypeOK
    <3>2. QED
      BY <2>2, <3>1 DEF Pipes
  <2>4. ASSUME NEW c \in Conns, NEW i \in DOMAIN received'[c], NEW j \in DOMAIN received'[c],
               i < j, received'[c][i].by = received'[c][j].by
        PROVE  /\ received'[c][i].event < received'[c][j].event
               /\ \A n \in received'[c][i].event + 1 .. received'[c][j].event - 1 :
                     n <= cut' \/ \E k \in i + 1 .. j - 1 :
                                      received'[c][k] = [received'[c][i] EXCEPT !.event = n]
    <3>1. /\ Len(received[c]) \in Nat
          /\ \A k \in DOMAIN received[c] :
                k \in DOMAIN received'[c] /\ received'[c][k] = received[c][k] /\ k \in 1 .. Len(received[c])
          /\ \A k \in DOMAIN received'[c] \ DOMAIN received[c] :
                /\ c \in subs \ Full /\ k = Len(received[c]) + 1
                /\ received'[c][k] = [by |-> r, event |-> pipe[r][1]]
      BY <1>3, FanOutGives
    <3>2. i \in DOMAIN received[c]
      BY <2>4, <3>1
    <3> DEFINE x == received[c][i]
    <3>3. received'[c][i] = x /\ x \in [by : Readers, event : 1 .. events] /\ x.event \in Nat /\ x.by \in Readers
      BY <3>1, <3>2, GivenTypes
    <3>4. CASE j \in DOMAIN received[c]
      <4>1. /\ x.event < received[c][j].event
            /\ \A n \in x.event + 1 .. received[c][j].event - 1 :
                  n <= cut \/ \E k \in i + 1 .. j - 1 : received[c][k] = [x EXCEPT !.event = n]
        <5>1. x.by = received[c][j].by
          BY <2>4, <3>1, <3>3, <3>4
        <5>2. QED
          BY <2>4, <3>2, <3>4, <5>1 DEF OnlyCutIsSkipped
      <4>2. \A k \in i + 1 .. j - 1 : k \in DOMAIN received[c]
        BY <3>1, <3>2, <3>4, GivenTypes
      <4>3. QED
        BY <2>1, <3>1, <3>3, <3>4, <4>1, <4>2
    <3>5. CASE j \notin DOMAIN received[c]
      <4>1. /\ c \in subs /\ j = Len(received[c]) + 1
            /\ received'[c][j] = [by |-> r, event |-> pipe[r][1]]
        BY <3>1, <3>5
      <4>2. x.by = r /\ received'[c][j].event = pipe[r][1]
        BY <2>4, <3>3, <4>1
      <4>3. /\ \A k \in DOMAIN pipe[r] : x.event < pipe[r][k]
            /\ \A n \in x.event + 1 .. from[r] : Reached(c, r, i, n)
        BY <2>1, <3>2, <4>1, <4>2 DEF Handed
      <4>4. ASSUME NEW n \in x.event + 1 .. pipe[r][1] - 1
            PROVE  n <= cut' \/ \E k \in i + 1 .. j - 1 :
                                   received'[c][k] = [x EXCEPT !.event = n]
        <5>1. n \in x.event + 1 .. from[r]
          <6>1. from[r] \in Nat
            BY DEF TypeOK
          <6>2. QED
            BY <2>3, <3>3, <6>1
        <5>2. ~\E k \in DOMAIN pipe[r] : pipe[r][k] = n
          <6>1. \A k \in DOMAIN pipe[r] : pipe[r][k] \in Nat
            BY PipeElements
          <6>2. QED
            BY <2>3, <3>3, <6>1
        <5>3. CASE n <= cut
          BY <2>1, <5>3
        <5>4. CASE \E k \in DOMAIN received[c] : i < k /\ received[c][k] = [by |-> r, event |-> n]
          <6>1. PICK k \in DOMAIN received[c] : i < k /\ received[c][k] = [by |-> r, event |-> n]
            BY <5>4
          <6>2. k \in i + 1 .. j - 1 /\ received'[c][k] = [by |-> r, event |-> n]
            BY <3>1, <3>2, <4>1, <6>1
          <6>3. [x EXCEPT !.event = n] = [by |-> r, event |-> n]
            BY <3>3, <4>2
          <6>4. QED
            BY <6>2, <6>3
        <5>5. QED
          BY <4>3, <5>1, <5>2, <5>3, <5>4 DEF Reached
      <4>5. QED
        BY <2>2, <3>3, <4>2, <4>3, <4>4
    <3>6. QED
      BY <3>4, <3>5
  <2>5. QED
    BY <2>4 DEF OnlyCutIsSkipped
<1>4. QED
  BY <1>2, <1>3
     DEF Next, Event, Subscribe, Forward, Leave, SeeClosed, Unsub, ReaderStep, Issue, Timeout, Send,
         ProdExit, Prune, LoopExit

\* Every step preserves the invariant.
LEMMA FanoutStep == FanoutInv /\ [Next]_vars => FanoutInv'
  BY TypeStep, LifecycleStep, ReadingStep, SingleStep DEF FanoutInv

LEMMA OrderStep == FanoutInv /\ OrderInv /\ [Next]_vars => OrderInv'
  BY PipesStep, GaplessStep, HandedStep, CutStep DEF FanoutInv, OrderInv

LEMMA OrderInit == Init => OrderInv
  BY DEF Init, OrderInv, Pipes, Gapless, Handed, OnlyCutIsSkipped

LEMMA Invariance == Spec => []FanoutInv
<1>1. QED
  BY InitFanout, FanoutStep, PTL DEF Spec

----------------------------------------------------------------------------
\* The fan-out's variables keep their types.
THEOREM FanoutTypes == Spec => []TypeOK
<1>1. FanoutInv => TypeOK
  BY DEF FanoutInv
<1>2. QED
  BY <1>1, Invariance, PTL

\* No fan-out sends on a closed channel: a registered one is open.
THEOREM NeverSendsOnClosed == Spec => []RegisteredIsOpen
<1>1. FanoutInv => RegisteredIsOpen
  BY DEF FanoutInv, TypeOK, Lifecycle, RegisteredIsOpen
<1>2. QED
  BY <1>1, Invariance, PTL

\* Whoever is registered is fed by a reader that nobody has stopped.
THEOREM RegisteredAreFed == Spec => []SubscribersHaveReader
<1>1. FanoutInv => SubscribersHaveReader
  BY DEF FanoutInv, Reading, SubscribersHaveReader
<1>2. QED
  BY <1>1, Invariance, PTL

\* As long as nobody was dropped, at most one reader runs that nobody stopped.
THEOREM OneReader == Spec => []OneReaderUnlessDropped
<1>1. FanoutInv => OneReaderUnlessDropped
  BY DEF FanoutInv, Single, OneReaderUnlessDropped
<1>2. QED
  BY <1>1, Invariance, PTL

\* What one reader gives one subscriber is in the order of the stream, and only
\* what MAXLEN cut away is left out, for any number of connections and readers,
\* buffers of any size and any cap: a subscriber without room is never skipped.
THEOREM NothingElseIsSkipped == Spec => []OnlyCutIsSkipped
<1>1. FanoutInv /\ OrderInv /\ [Next]_vars => OrderInv'
  BY OrderStep
<1>2. OrderInv => OnlyCutIsSkipped
  BY DEF OrderInv
<1>3. QED
  BY OrderInit, Invariance, <1>1, <1>2, PTL DEF Spec

----------------------------------------------------------------------------
(***************************************************************************)
(* What a panic takes.  The second close of a channel needs a first one,   *)
(* by the fan-out, of a channel that was found full; and a channel is full *)
(* only after it was given as many events as it has room for.              *)
(***************************************************************************)
Filled(c) == Len(received[c]) >= BufSize

FullFirst ==
    /\ \A c \in Conns : Len(buf[c]) <= Len(received[c])
    /\ \A r \in Readers : \A c \in dead[r] : Filled(c)
    /\ \A c \in closed : conn[c] = "open" => Filled(c)
    /\ panicked => \E c \in Conns : Filled(c)

\* Lengths are numbers, and what was given is never taken back.
LEMMA Lengths ==
  ASSUME TypeOK, NEW c \in Conns
  PROVE  /\ Len(received[c]) \in Nat /\ Len(buf[c]) \in Nat
         /\ buf[c] # <<>> => Len(Tail(buf[c])) = Len(buf[c]) - 1
<1>1. received[c] \in Seq([by : Readers, event : 1 .. events]) /\ buf[c] \in Seq(1 .. events)
  BY DEF TypeOK
<1>2. ASSUME NEW S, NEW s \in Seq(S)
      PROVE  Len(s) \in Nat /\ (s # <<>> => Len(Tail(s)) = Len(s) - 1)
  OBVIOUS
<1>3. QED
  BY <1>1, <1>2

LEMMA FanOutLengths ==
  ASSUME TypeOK, NEW r \in Readers, FanOut(r), NEW c \in Conns
  PROVE  \/ buf'[c] = buf[c] /\ received'[c] = received[c]
         \/ Len(buf'[c]) = Len(buf[c]) + 1 /\ Len(received'[c]) = Len(received[c]) + 1
<1>1. received[c] \in Seq([by : Readers, event : 1 .. events]) /\ buf[c] \in Seq(1 .. events)
  BY DEF TypeOK
<1>2. ASSUME NEW S, NEW s \in Seq(S), NEW x
      PROVE  Len(Append(s, x)) = Len(s) + 1
  OBVIOUS
<1>3. \/ buf'[c] = buf[c] /\ received'[c] = received[c]
      \/ /\ buf'[c] = Append(buf[c], Head(pipe[r]))
         /\ received'[c] = Append(received[c], [by |-> r, event |-> Head(pipe[r])])
  BY DEF FanOut
<1>4. QED
  BY <1>1, <1>2, <1>3

LEMMA FullFirstStep ==
  ASSUME TypeOK, Lifecycle, FullFirst, [Next]_vars
  PROVE  FullFirst'
<1> USE DEF FullFirst, tenantStream, channels, clients, registry, xread, fan, vars
<1>1. CASE UNCHANGED <<buf, received, dead, closed, conn, panicked>>
  BY <1>1 DEF Filled
<1>2. ASSUME NEW c \in Conns, Subscribe(c)
      PROVE  FullFirst'
  <2>1. c \notin closed /\ conn' = [conn EXCEPT ![c] = "open"]
    BY <1>2 DEF Subscribe, Lifecycle
  <2>2. UNCHANGED <<buf, received, dead, closed, panicked>>
    BY <1>2 DEF Subscribe
  <2>3. \A d \in Conns : d # c => conn'[d] = conn[d]
    BY <2>1 DEF TypeOK
  <2>4. QED
    BY <2>1, <2>2, <2>3 DEF TypeOK, Filled
<1>3. ASSUME NEW c \in Conns, Forward(c)
      PROVE  FullFirst'
  <2>1. /\ UNCHANGED <<received, dead, closed, conn, panicked>> /\ buf[c] # <<>>
        /\ buf' = [buf EXCEPT ![c] = Tail(buf[c])]
    BY <1>3 DEF Forward
  <2>2. \A d \in Conns : buf'[d] = IF d = c THEN Tail(buf[c]) ELSE buf[d]
    BY <2>1 DEF TypeOK
  <2>3. \A d \in Conns : Len(buf'[d]) <= Len(received'[d])
    BY <2>1, <2>2, Lengths
  <2>4. QED
    BY <2>1, <2>3 DEF Filled
<1>4. ASSUME NEW c \in Conns, conn[c] = "open", Unsub(c)
      PROVE  FullFirst'
  <2>1. /\ UNCHANGED <<buf, received, dead>>
        /\ conn' = [conn EXCEPT ![c] = "gone"]
        /\ closed' \subseteq closed \cup {c}
        /\ panicked' => panicked \/ c \in closed
    BY <1>4 DEF Unsub
  <2>2. \A d \in Conns : conn'[d] = IF d = c THEN "gone" ELSE conn[d]
    BY <2>1 DEF TypeOK
  <2>3. QED
    BY <1>4, <2>1, <2>2 DEF TypeOK, Filled
<1>5. ASSUME NEW r \in Readers, FanOut(r)
      PROVE  FullFirst'
  <2>1. UNCHANGED <<closed, conn, panicked>> /\ dead' = [dead EXCEPT ![r] = Full]
    BY <1>5 DEF FanOut
  <2>2. \A c \in Conns : Len(buf'[c]) <= Len(received'[c])
    BY <1>5, FanOutLengths, Lengths
  <2>3. \A c \in Conns : Filled(c) => Len(received'[c]) >= BufSize
    BY <1>5, FanOutLengths, Lengths DEF Filled
  <2>4. \A c \in Full : Filled(c) /\ c \in Conns
    BY Lengths DEF Full, Filled, TypeOK
  <2>5. \A q \in Readers : dead'[q] = IF q = r THEN Full ELSE dead[q]
    BY <2>1 DEF TypeOK
  <2>6. \A q \in Readers : dead[q] \subseteq Conns
    BY DEF TypeOK
  <2>7. QED
    BY <2>1, <2>2, <2>3, <2>4, <2>5, <2>6 DEF Filled, TypeOK
<1>6. ASSUME NEW r \in Readers, Prune(r)
      PROVE  FullFirst'
  <2>1. /\ UNCHANGED <<buf, received, conn, panicked>>
        /\ closed' = closed \cup (dead[r] \cap subs)
        /\ dead' = [dead EXCEPT ![r] = {}]
    BY <1>6 DEF Prune
  <2>2. \A q \in Readers : dead'[q] \subseteq dead[q]
    BY <2>1 DEF TypeOK
  <2>3. QED
    BY <2>1, <2>2 DEF Filled
<1>7. QED
  BY <1>1, <1>2, <1>3, <1>4, <1>5, <1>6
     DEF Next, Event, Leave, SeeClosed, ReaderStep, Issue, Timeout, Send, ProdExit, LoopExit

\* As long as no connection was given as many events as its channel has room
\* for, a drop cannot bring the process down: what fanout.go's comment says of
\* the fan-out is wrong only of a feed that is at least one buffer long.
THEOREM PanicNeedsFullChannel ==
  Spec => []((\A c \in Conns : Len(received[c]) < BufSize) => DropIsHarmless)
<1>1. Init => FullFirst
  BY DEF Init, FullFirst
<1>2. FanoutInv /\ FullFirst /\ [Next]_vars => FullFirst'
  BY FullFirstStep DEF FanoutInv
<1>3. FanoutInv /\ FullFirst =>
        ((\A c \in Conns : Len(received[c]) < BufSize) => DropIsHarmless)
  BY Lengths DEF FanoutInv, FullFirst, Filled, DropIsHarmless
<1>4. QED
  BY <1>1, <1>2, <1>3, Invariance, PTL DEF Spec
=============================================================================
