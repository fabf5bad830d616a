---------------------------- MODULE SheddingProofs ----------------------------
(***************************************************************************)
(* Theorems about the load shedder, for any marks, caps, bursts and        *)
(* numbers of copies of the API, requests and sendings.                    *)
(***************************************************************************)
EXTENDS LoadShedding, WorkQueueProofs, ConfigProofs, FiniteSetTheorems, FunctionTheorems

USE SheddingAssumption

\* What XINFO GROUPS counts: what is queued and what is pending.
Load == Lag + Pending

\* The counts are numbers.
LEMMA Counts ==
  ASSUME QTypeOK
  PROVE  /\ IsFiniteSet(pel) /\ Pending \in Nat /\ Lag \in Nat /\ Load \in Nat
         /\ Len(stream) \in Nat
<1>1. Len(stream) \in Nat
  BY DEF QTypeOK
<1>2. IsFiniteSet(pel)
  <2>1. IsFiniteSet(1 .. Len(stream)) /\ pel \in SUBSET (1 .. Len(stream))
    BY <1>1, FS_Interval DEF QTypeOK, Ids
  <2>2. QED
    BY <2>1, FS_Subset
<1>3. QED
  BY <1>1, <1>2, FS_CardinalityType DEF QTypeOK, Pending, Lag, NextId, Load

\* ... as a fact of any state, the next one included.
LEMMA LoadIsNat == QTypeOK => Load \in Nat
  BY Counts

\* An event that is published adds one to the load, at most.
LEMMA PublishAddsOne ==
  ASSUME QTypeOK, NEW e \in Entry, Publish(e)
  PROVE  Load' <= Load + 1
<1>1. Len(stream) \in Nat /\ Len(stream') = Len(stream) + 1
  BY DEF QTypeOK, Publish
<1>2. Lag' <= Lag + 1
  BY <1>1 DEF QTypeOK, Publish, Cuts, Lag, NextId
<1>3. Pending' = Pending
  BY DEF Publish, Pending
<1>4. Lag' \in Int
  BY <1>1 DEF QTypeOK, Publish, Cuts, Lag, NextId
<1>5. QED
  BY <1>2, <1>3, <1>4, Counts DEF Load

\* Reading a batch moves its entries from the lag to the pending ones.
LEMMA ReadAddsNothing ==
  ASSUME QTypeOK, Read
  PROVE  Load' <= Load
<1>1. BatchEnd \in NextId .. Len(stream) /\ NextId \in 1 .. Len(stream) + 1
  BY BatchBounds DEF Read
<1>2. Lag' = Lag - (BatchEnd - NextId + 1)
  BY <1>1, BatchBounds DEF Read, Lag, NextId, QTypeOK
<1>3. /\ IsFiniteSet(NextId .. BatchEnd)
      /\ Cardinality(NextId .. BatchEnd) = BatchEnd - NextId + 1
  BY <1>1, BatchBounds, FS_Interval
<1>4. Pending' <= Pending + (BatchEnd - NextId + 1) /\ Pending' \in Nat
  <2>1. pel' = pel \cup (NextId .. BatchEnd)
    BY DEF Read
  <2>2. IsFiniteSet(pel \cap (NextId .. BatchEnd))
    BY <1>3, FS_Subset
  <2>3. /\ IsFiniteSet(pel \cup (NextId .. BatchEnd))
        /\ Cardinality(pel \cup (NextId .. BatchEnd)) =
             Cardinality(pel) + Cardinality(NextId .. BatchEnd)
                 - Cardinality(pel \cap (NextId .. BatchEnd))
    BY <1>3, Counts, FS_Union
  <2>4. /\ Cardinality(pel \cap (NextId .. BatchEnd)) \in Nat
        /\ Cardinality(pel \cup (NextId .. BatchEnd)) \in Nat
    BY <2>2, <2>3, FS_CardinalityType
  <2>5. Cardinality(pel) \in Nat
    BY Counts DEF Pending
  <2>6. QED
    BY <1>1, <1>3, <2>1, <2>3, <2>4, <2>5, BatchBounds DEF Pending
<1>5. BatchEnd - NextId + 1 \in Int
  BY <1>1, BatchBounds
<1>6. Lag \in Int /\ Pending \in Int
  BY Counts
<1>7. QED
  BY <1>2, <1>4, <1>5, <1>6 DEF Load

\* An ack takes one off.
LEMMA AckAddsNothing ==
  ASSUME QTypeOK, NEW i \in pel, Ack(i)
  PROVE  Load' <= Load
<1>1. Lag' = Lag
  BY DEF Ack, Lag, NextId
<1>2. Pending' = Pending - 1
  BY Counts, FS_RemoveElement DEF Ack, Pending
<1>3. QED
  BY <1>1, <1>2, Counts DEF Load

\* XTRIM adds nothing either.
LEMMA TrimAddsNothing ==
  ASSUME QTypeOK, Trim
  PROVE  Load' <= Load
<1>1. Len(stream) \in Nat
  BY DEF QTypeOK
<1>2. Lag' <= Lag /\ Lag' \in Int
  BY <1>1 DEF QTypeOK, Trim, Cuts, Lag, NextId
<1>3. Pending' = Pending
  BY DEF Trim, Pending
<1>4. QED
  BY <1>2, <1>3, Counts DEF Load

----------------------------------------------------------------------------
\* The low mark is a number.
LEMMA LowWaterIsInt == LowWater \in Int
<1>1. LET pct == IF LowWaterPct < 0 THEN 0 ELSE IF LowWaterPct > 100 THEN 100 ELSE LowWaterPct
      IN  pct \in Nat
  OBVIOUS
<1>2. \A p \in Nat : (HighWater * p) \div 100 \in Int
  OBVIOUS
<1>3. QED
  BY <1>1, <1>2 DEF LowWater

\* A sample puts a flag up or down.
LEMMA AfterIsBoolean ==
  ASSUME NEW b \in Nat, NEW up \in BOOLEAN
  PROVE  SheddingAfter(up, b) \in BOOLEAN
<1>1. (b > LowWater) \in BOOLEAN /\ (b >= HighWater) \in BOOLEAN
  BY LowWaterIsInt
<1>2. QED
  BY <1>1, Zenon DEF SheddingAfter

\* ... and down only below the high mark.
LEMMA ReleasedIsBelow ==
  ASSUME NEW b \in Nat, NEW up \in BOOLEAN, HighWater > 0, LowWater < HighWater,
         ~SheddingAfter(up, b)
  PROVE  b < HighWater
<1>0. HighWater # 0
  OBVIOUS
<1>1. CASE up
  <2>1. ~(b > LowWater)
    BY <1>0, <1>1, Zenon DEF SheddingAfter
  <2>2. QED
    BY <2>1, LowWaterIsInt, SheddingAssumption
<1>2. CASE ~up
  <2>1. ~(b >= HighWater)
    BY <1>0, <1>2, Zenon DEF SheddingAfter
  <2>2. QED
    BY <2>1, SheddingAssumption
<1>3. QED
  BY <1>1, <1>2

\* All the sendings there can be.
Tokens == Apis \X Requests \X (1 .. Sends)

LEMMA TokensAreFinite ==
  ASSUME IsFiniteSet(Apis), IsFiniteSet(Requests)
  PROVE  /\ IsFiniteSet(Tokens)
         /\ Cardinality(Tokens) = Cardinality(Apis) * Cardinality(Requests) * Sends
<1> DEFINE Pairs == (Apis \X Requests) \X (1 .. Sends)
           flat == [t \in Pairs |-> <<t[1][1], t[1][2], t[2]>>]
<1>1. IsFiniteSet(1 .. Sends) /\ Cardinality(1 .. Sends) = Sends
  BY FS_Interval, SheddingAssumption
<1>2. /\ IsFiniteSet(Pairs)
      /\ Cardinality(Pairs) = Cardinality(Apis) * Cardinality(Requests) * Sends
  <2>1. /\ IsFiniteSet(Apis \X Requests)
        /\ Cardinality(Apis \X Requests) = Cardinality(Apis) * Cardinality(Requests)
    BY FS_Product
  <2>2. /\ IsFiniteSet(Pairs)
        /\ Cardinality(Pairs) = Cardinality(Apis \X Requests) * Cardinality(1 .. Sends)
    BY <1>1, <2>1, FS_Product, Zenon
  <2>3. QED
    BY <1>1, <2>1, <2>2, Zenon
<1>3. flat \in Bijection(Pairs, Tokens)
  <2>1. flat \in [Pairs -> Tokens]
    BY DEF Tokens
  <2>2. \A t, u \in Pairs : flat[t] = flat[u] => t = u
    OBVIOUS
  <2>3. ASSUME NEW s \in Tokens
        PROVE  \E t \in Pairs : flat[t] = s
    <3>1. <<<<s[1], s[2]>>, s[3]>> \in Pairs /\ flat[<<<<s[1], s[2]>>, s[3]>>] = s
      BY DEF Tokens
    <3>2. QED
      BY <3>1
  <2>4. QED
    <3> HIDE DEF flat, Pairs
    <3>1. flat \in Surjection(Pairs, Tokens)
      BY <2>1, <2>3 DEF Surjection
    <3>2. QED
      BY <2>1, <2>2, <3>1, Fun_IsBij
<1>4. ExistsBijection(Pairs, Tokens)
  BY <1>3, Fun_ExistsBij
<1>5. QED
  BY <1>2, <1>4, FS_Bijection

\* Every step is an operation of queue.go or leaves the queue alone.
LEMMA StepsAreQueueSteps ==
  ASSUME [Next]_vars
  PROVE  [QNext]_qvars
<1>1. ASSUME NEW a \in Apis, NEW r \in Requests, Request(a, r)
      PROVE  [QNext]_qvars
  <2>1. CASE Admit(a, r) \/ Refuse(a, r)
    BY <2>1 DEF Admit, Refuse
  <2>2. ASSUME NEW e \in Entry, Enqueue(a, r, e) \/ EnqueueReplyLost(a, r, e)
        PROVE  [QNext]_qvars
    BY <2>2 DEF Enqueue, EnqueueReplyLost, Queued, QNext
  <2>3. QED
    BY <1>1, <2>1, <2>2 DEF Request
<1>2. CASE Take \/ \E i \in pel : Finish(i) \/ Abandon(i)
  BY <1>2 DEF Take, Finish, Abandon, QNext
<1>3. ASSUME NEW a \in Apis, PollSample(a) \/ PollUpdate(a) \/ ApiRestart(a) \/ BootTrim(a)
      PROVE  [QNext]_qvars
  BY <1>3 DEF PollSample, PollUpdate, ApiRestart, BootTrim, QNext
<1>4. CASE UNCHANGED vars
  BY <1>4 DEF vars
<1>5. QED
  BY <1>1, <1>2, <1>3, <1>4 DEF Next

\* What an XADD of a request does besides publishing: one of its sendings, at
\* least, is not due any more.
LEMMA SendingIsUsed ==
  ASSUME NEW a \in Apis, NEW r \in Requests, NEW e \in Entry,
         Enqueue(a, r, e) \/ EnqueueReplyLost(a, r, e)
  PROVE  /\ Queued(e) /\ Publish(e)
         /\ \E s \in due : due' \subseteq due \ {s}
  BY DEF Enqueue, EnqueueReplyLost, Queued, Left

\* The types and what is known of the queue hold initially ...
LEMMA InitTypes == Init => TypeOK /\ QInv
<1> SUFFICES ASSUME Init PROVE TypeOK /\ QInv
  OBVIOUS
<1>1. QInv
  BY DEF Init, QInv, QTypeOK, NothingSkipped, PendingWasDelivered, Ids, NoGroup
<1>2. shedding \in [Apis -> BOOLEAN]
  BY DEF Init
<1>3. due \subseteq Tokens /\ inHand \subseteq pel
  BY DEF Init
<1>4. /\ sample \in [Apis -> {NoSample} \cup Nat] /\ backlog \in [Apis -> Nat]
      /\ burst \in [Apis -> 0 .. Burst] /\ restarts \in 0 .. MaxRestarts
  BY DEF Init
<1>5. QED
  BY <1>1, <1>2, <1>3, <1>4 DEF QInv, TypeOK, Tokens

\* ... and after every step.
LEMMA TypesStep ==
  ASSUME TypeOK, QInv, [Next]_vars
  PROVE  TypeOK' /\ QInv'
<1>1. QInv' /\ QTypeOK'
  BY StepsAreQueueSteps, QInvStep DEF QInv
<1> USE DEF TypeOK, monitor
<1>2. ASSUME NEW a \in Apis, NEW r \in Requests, NEW e \in Entry,
             Enqueue(a, r, e) \/ EnqueueReplyLost(a, r, e)
      PROVE  TypeOK'
  <2>1. /\ \A b \in Apis : burst[b] < Burst
        /\ burst' = [b \in Apis |-> burst[b] + 1]
        /\ UNCHANGED <<inHand, pel, sample, backlog, shedding, restarts>>
    BY <1>2, SendingIsUsed DEF Queued, Publish
  <2>2. due' \subseteq due
    BY <1>2, SendingIsUsed
  <2>3. QED
    BY <1>1, <2>1, <2>2
<1>3. ASSUME NEW a \in Apis, NEW r \in Requests, Admit(a, r) \/ Refuse(a, r)
      PROVE  TypeOK'
  BY <1>1, <1>3 DEF Admit, Refuse, Sendings, qvars
<1>4. CASE Take
  BY <1>1, <1>4 DEF Take, Read
<1>5. ASSUME NEW i \in pel, Finish(i) \/ Abandon(i)
      PROVE  TypeOK'
  BY <1>1, <1>5 DEF Finish, Abandon, Ack, qvars
<1>6. ASSUME NEW a \in Apis, PollSample(a)
      PROVE  TypeOK'
  <2>1. Lag + Pending \in Nat
    BY Counts DEF Load
  <2>2. QED
    BY <1>1, <1>6, <2>1 DEF PollSample, qvars
<1>7. ASSUME NEW a \in Apis, PollUpdate(a)
      PROVE  TypeOK'
  <2>1. sample[a] \in Nat
    BY <1>7 DEF PollUpdate
  <2>2. SheddingAfter(shedding[a], sample[a]) \in BOOLEAN
    BY <2>1, AfterIsBoolean
  <2>3. shedding' \in [Apis -> BOOLEAN]
    BY <1>7, <2>2 DEF PollUpdate
  <2>4. QED
    BY <1>1, <1>7, <2>1, <2>3 DEF PollUpdate, qvars
<1>8. ASSUME NEW a \in Apis, ApiRestart(a)
      PROVE  TypeOK'
  <2>1. pel' = pel /\ UNCHANGED <<inHand, burst>> /\ due' \subseteq due
    BY <1>8 DEF ApiRestart, EnsureGroup, qvars
  <2>2. shedding' \in [Apis -> BOOLEAN]
    BY <1>8 DEF ApiRestart
  <2>3. /\ sample' \in [Apis -> {NoSample} \cup Nat] /\ backlog' \in [Apis -> Nat]
        /\ restarts' \in 0 .. MaxRestarts
    BY <1>8 DEF ApiRestart
  <2>4. QED
    BY <1>1, <2>1, <2>2, <2>3
<1>9. ASSUME NEW a \in Apis, BootTrim(a)
      PROVE  TypeOK'
  BY <1>1, <1>9 DEF BootTrim, Trim
<1>10. CASE UNCHANGED vars
  BY <1>1, <1>10 DEF vars, qvars
<1>11. ASSUME NEW a \in Apis, NEW r \in Requests, Request(a, r)
       PROVE  TypeOK'
  BY <1>2, <1>3, <1>11 DEF Request
<1>12. QED
  BY <1>1, <1>4, <1>5, <1>6, <1>7, <1>8, <1>9, <1>10, <1>11 DEF Next

----------------------------------------------------------------------------
(***************************************************************************)
(* Room for everything that can still come while the flags lag behind: a   *)
(* backlog just below the high mark, one burst before the sample, one      *)
(* until it is applied and one more after the sample that crosses the      *)
(* mark, and whatever the requests that read a flag before it flipped      *)
(* still send, each XADD as often as the client repeats it.                *)
(***************************************************************************)
Roomy ==
    /\ IsFiniteSet(Tokens) /\ HighWater > 0 /\ LowWater < HighWater
    /\ HighWater + 3 * Burst + Cardinality(Tokens) <= MaxLen + 1

\* The most the load comes to by the time the last flag is up.
Crest == HighWater - 1 + 3 * Burst

AllShed == \A a \in Apis : shedding[a]

(***************************************************************************)
(* The inductive invariant.  Below: what the load can be, by what each     *)
(* copy's monitor knows of it; once all of them shed, the load and what is *)
(* still due share what is left of the room.  EvictInv: so, until a copy   *)
(* restarts, nothing is cut away that was not delivered.  OnlyIfEnabled:   *)
(* a flag means nothing without a high mark, and is not set then.          *)
(***************************************************************************)
Known(a) ==
    /\ sample[a] # NoSample => Load <= sample[a] + burst[a]
    /\ ~shedding[a] /\ sample[a] = NoSample => Load <= HighWater - 1 + Burst + burst[a]
    /\ ~shedding[a] /\ sample[a] # NoSample => sample[a] <= HighWater - 1 + 2 * Burst

Shared == AllShed => Load + Cardinality(due) <= Crest + Cardinality(Tokens)

Below == (\A a \in Apis : Known(a)) /\ Shared

EvictInv ==
    Roomy /\ restarts = 0 => origin = 0 /\ Below /\ \A i \in 1 .. trimmed : i \in delivered

OnlyIfEnabled == \A a \in Apis : shedding[a] => HighWater > 0

SheddingInv == TypeOK /\ QInv /\ OnlyIfEnabled /\ EvictInv

\* The sendings that are due can be counted, and only fewer are left when some
\* are taken away.
LEMMA DueIsFinite ==
  ASSUME IsFiniteSet(Tokens), TypeOK
  PROVE  /\ IsFiniteSet(due) /\ Cardinality(due) \in Nat /\ Cardinality(Tokens) \in Nat
         /\ Cardinality(due) <= Cardinality(Tokens)
  BY FS_Subset, FS_CardinalityType DEF TypeOK, Tokens

LEMMA FewerAreDue ==
  ASSUME IsFiniteSet(due), due' \subseteq due
  PROVE  /\ Cardinality(due') \in Nat /\ Cardinality(due') <= Cardinality(due)
         /\ (\E s \in due : due' \subseteq due \ {s}) => Cardinality(due') <= Cardinality(due) - 1
<1>1. /\ IsFiniteSet(due') /\ Cardinality(due') \in Nat /\ Cardinality(due) \in Nat
      /\ Cardinality(due') <= Cardinality(due)
  BY FS_Subset, FS_CardinalityType
<1>2. ASSUME NEW s \in due, due' \subseteq due \ {s}
      PROVE  Cardinality(due') <= Cardinality(due) - 1
  <2>1. IsFiniteSet(due \ {s}) /\ Cardinality(due \ {s}) = Cardinality(due) - 1
    BY FS_RemoveElement
  <2>2. QED
    BY <1>2, <2>1, FS_Subset
<1>3. QED
  BY <1>1, <1>2

\* A copy that does not shed bounds the load.
LEMMA UnshedBounds ==
  ASSUME TypeOK, NEW a \in Apis, Known(a), ~shedding[a], HighWater > 0, Load \in Nat
  PROVE  Load <= HighWater - 1 + 2 * Burst + burst[a]
<1>1. /\ sample[a] \in {NoSample} \cup Nat /\ burst[a] \in 0 .. Burst
  BY DEF TypeOK
<1>2. QED
  BY <1>1, SheddingAssumption DEF Known, NoSample

\* What MAXLEN cuts away in a roomy system has been delivered.
LEMMA CutIsDelivered ==
  ASSUME QInv, origin = 0, \A i \in 1 .. trimmed : i \in delivered, Load < MaxLen,
         NEW e \in Entry, Publish(e)
  PROVE  \A i \in 1 .. trimmed' : i \in delivered'
<1> SUFFICES ASSUME NEW i \in 1 .. trimmed', i > trimmed
             PROVE  i \in delivered
  BY DEF Publish, QInv, QTypeOK, Cuts
<1>1. Len(stream) + 1 - i >= MaxLen /\ MaxLen \in Nat /\ Len(stream) \in Nat
  BY QueueAssumption DEF Publish, Cuts, QInv, QTypeOK
<1>2. Lag < MaxLen
  BY <1>1, Counts DEF QInv, Load
<1>3. i <= last
  <2>1. last \in Nat /\ trimmed \in Nat /\ i \in Nat
    BY DEF QInv, QTypeOK, Publish, Cuts
  <2>2. QED
    BY <1>1, <1>2, <2>1 DEF Lag, NextId
<1>4. QED
  BY <1>3 DEF QInv, NothingSkipped, QTypeOK, Publish, Cuts

\* The invariant holds initially ...
LEMMA InitEvict == Init => EvictInv
<1> SUFFICES ASSUME Init, Roomy
             PROVE  origin = 0 /\ Below /\ \A i \in 1 .. trimmed : i \in delivered
  BY DEF EvictInv
<1>1. Lag = 0 /\ Pending = 0 /\ Load = 0
  BY FS_EmptySet DEF Init, Lag, NextId, Pending, Load
<1>2. /\ \A a \in Apis : ~shedding[a] /\ sample[a] = NoSample /\ burst[a] = 0
      /\ due = {} /\ origin = 0 /\ trimmed = 0
  BY DEF Init
<1>3. Cardinality(due) = 0 /\ Cardinality(Tokens) \in Nat
  BY <1>2, FS_EmptySet, FS_CardinalityType DEF Roomy
<1>4. \A a \in Apis : Known(a)
  BY <1>1, <1>2, SheddingAssumption DEF Known, Roomy
<1>5. Shared
  BY <1>1, <1>3, SheddingAssumption DEF Shared, Crest, Roomy
<1>6. QED
  BY <1>2, <1>4, <1>5 DEF Below

\* A step that adds nothing to the load, lets nothing more be due and touches no
\* monitor keeps the bounds.
LEMMA QuietStep ==
  ASSUME TypeOK, Roomy, Below, Load \in Nat, Load' \in Nat, Load' <= Load,
         due' \subseteq due, UNCHANGED <<sample, shedding, burst>>
  PROVE  Below'
<1>1. IsFiniteSet(due) /\ Cardinality(due) \in Nat /\ Cardinality(Tokens) \in Nat
  BY DueIsFinite DEF Roomy
<1>2. Cardinality(due') \in Nat /\ Cardinality(due') <= Cardinality(due)
  BY <1>1, FewerAreDue
<1>3. ASSUME NEW a \in Apis
      PROVE  Known(a)'
  <2>1. /\ sample[a] \in {NoSample} \cup Nat /\ burst[a] \in 0 .. Burst /\ Known(a)
        /\ sample'[a] = sample[a] /\ burst'[a] = burst[a] /\ shedding'[a] = shedding[a]
    BY DEF TypeOK, Below
  <2>2. QED
    BY <2>1, SheddingAssumption DEF Known, NoSample
<1>4. Shared'
  <2>1. AllShed' = AllShed
    BY DEF AllShed
  <2>2. QED
    BY <1>1, <1>2, <2>1, SheddingAssumption DEF Below, Shared, Crest
<1>5. QED
  BY <1>3, <1>4 DEF Below

\* A published event meets the bounds, and a stream with room for it.
LEMMA QueuedStep ==
  ASSUME TypeOK, QInv, Roomy, Below, Load \in Nat, Load' \in Nat,
         NEW a \in Apis, NEW e \in Entry, Queued(e),
         \E s \in due : due' \subseteq due \ {s}
  PROVE  Below' /\ Load < MaxLen
<1>1. /\ \A b \in Apis : burst[b] < Burst
      /\ burst' = [b \in Apis |-> burst[b] + 1]
      /\ UNCHANGED <<sample, shedding>>
  BY DEF Queued, monitor
<1>2. Load' <= Load + 1
  BY PublishAddsOne DEF Queued, TypeOK
<1>3. /\ IsFiniteSet(due) /\ Cardinality(due) \in Nat /\ Cardinality(Tokens) \in Nat
      /\ Cardinality(due) <= Cardinality(Tokens)
      /\ Cardinality(due') \in Nat /\ Cardinality(due') <= Cardinality(due) - 1
  BY DueIsFinite, FewerAreDue DEF Roomy
<1>4. ASSUME NEW b \in Apis
      PROVE  Known(b)'
  <2>1. /\ sample[b] \in {NoSample} \cup Nat /\ burst[b] \in 0 .. Burst /\ Known(b)
        /\ sample'[b] = sample[b] /\ burst'[b] = burst[b] + 1 /\ shedding'[b] = shedding[b]
    BY <1>1 DEF TypeOK, Below
  <2>2. QED
    BY <1>2, <2>1, SheddingAssumption DEF Known, NoSample
<1>5. Shared'
  <2>1. AllShed' = AllShed
    BY <1>1 DEF AllShed
  <2>2. QED
    BY <1>2, <1>3, <2>1, SheddingAssumption DEF Below, Shared, Crest
<1>6. Load < MaxLen
  <2>1. CASE AllShed
    BY <1>3, <2>1, SheddingAssumption, QueueAssumption DEF Below, Shared, Crest, Roomy
  <2>2. CASE ~AllShed
    <3>1. PICK b \in Apis : ~shedding[b]
      BY <2>2 DEF AllShed
    <3>2. burst[b] \in 0 .. Burst /\ burst[b] < Burst
      BY <1>1 DEF TypeOK
    <3>3. Load <= HighWater - 1 + 2 * Burst + burst[b]
      BY <3>1, UnshedBounds DEF Below, Roomy
    <3>4. QED
      BY <1>3, <3>2, <3>3, SheddingAssumption, QueueAssumption DEF Roomy
  <2>3. QED
    BY <2>1, <2>2
<1>7. QED
  BY <1>4, <1>5, <1>6 DEF Below

\* Admitting needs a flag that is down, under which the load is bounded whatever
\* is due.
LEMMA AdmitStep ==
  ASSUME TypeOK, Roomy, Below, NEW a \in Apis, NEW r \in Requests, Admit(a, r)
  PROVE  Below'
<1>1. /\ ~shedding[a] /\ UNCHANGED <<sample, shedding, burst>> /\ Load' = Load
  BY DEF Admit, ShouldShed, Roomy, qvars, monitor, Load, Lag, NextId, Pending
<1>2. \A b \in Apis : Known(b)'
  BY <1>1 DEF Below, Known
<1>3. Shared'
  BY <1>1 DEF Shared, AllShed
<1>4. QED
  BY <1>2, <1>3 DEF Below

\* A sample is what the load is now.
LEMMA SampleStep ==
  ASSUME TypeOK, Roomy, Below, Load \in Nat, NEW a \in Apis, PollSample(a)
  PROVE  Below'
<1>1. /\ sample[a] = NoSample
      /\ sample' = [sample EXCEPT ![a] = Load] /\ burst' = [burst EXCEPT ![a] = 0]
      /\ UNCHANGED <<due, shedding>> /\ Load' = Load
  BY DEF PollSample, qvars, Load, Lag, NextId, Pending
<1>2. ASSUME NEW b \in Apis
      PROVE  Known(b)'
  <2>1. Known(b) /\ burst[b] \in 0 .. Burst
    BY DEF Below, TypeOK
  <2>2. CASE b = a
    <3>1. sample'[a] = Load /\ burst'[a] = 0 /\ shedding'[a] = shedding[a]
      BY <1>1 DEF TypeOK
    <3>2. QED
      BY <1>1, <2>1, <2>2, <3>1, SheddingAssumption DEF Known, NoSample
  <2>3. CASE b # a
    <3>1. sample'[b] = sample[b] /\ burst'[b] = burst[b] /\ shedding'[b] = shedding[b]
      BY <1>1, <2>3 DEF TypeOK
    <3>2. QED
      BY <1>1, <2>1, <3>1 DEF Known
  <2>4. QED
    BY <2>2, <2>3
<1>3. Shared'
  BY <1>1 DEF Below, Shared, AllShed
<1>4. QED
  BY <1>2, <1>3 DEF Below

\* Applying a sample leaves the flag down only below the high mark.  When it puts
\* the last flag up, the load is no more than the sample and one burst.
LEMMA UpdateStep ==
  ASSUME TypeOK, Roomy, Below, Load \in Nat, NEW a \in Apis, PollUpdate(a)
  PROVE  Below'
<1>1. /\ sample[a] # NoSample
      /\ sample' = [sample EXCEPT ![a] = NoSample] /\ burst' = [burst EXCEPT ![a] = 0]
      /\ shedding' = [shedding EXCEPT ![a] = SheddingAfter(shedding[a], sample[a])]
      /\ UNCHANGED due /\ Load' = Load
  BY DEF PollUpdate, qvars, Load, Lag, NextId, Pending
<1>2. /\ sample[a] \in Nat /\ Load <= sample[a] + burst[a] /\ burst[a] \in 0 .. Burst
      /\ HighWater > 0 /\ LowWater < HighWater /\ LowWater \in Int
      /\ ~shedding[a] => sample[a] <= HighWater - 1 + 2 * Burst
  BY <1>1, LowWaterIsInt DEF Below, Known, TypeOK, Roomy
<1>3. /\ sample'[a] = NoSample /\ burst'[a] = 0
      /\ shedding'[a] = SheddingAfter(shedding[a], sample[a])
      /\ \A b \in Apis \ {a} : /\ sample'[b] = sample[b] /\ burst'[b] = burst[b]
                               /\ shedding'[b] = shedding[b]
  BY <1>1 DEF TypeOK
<1>4. ~shedding'[a] => sample[a] < HighWater
  BY <1>2, <1>3, ReleasedIsBelow DEF TypeOK
<1>5. ASSUME NEW b \in Apis
      PROVE  Known(b)'
  <2>1. CASE b = a
    <3>1. ~shedding'[a] => Load <= HighWater - 1 + Burst
      BY <1>2, <1>4, SheddingAssumption
    <3>2. QED
      BY <1>1, <1>3, <2>1, <3>1, SheddingAssumption DEF Known
  <2>2. CASE b # a
    BY <1>1, <1>3, <2>2 DEF Below, Known
  <2>3. QED
    BY <2>1, <2>2
<1>6. Shared'
  <2>1. /\ Cardinality(due) \in Nat /\ Cardinality(Tokens) \in Nat
        /\ Cardinality(due) <= Cardinality(Tokens)
    BY DueIsFinite DEF Roomy
  <2>2. CASE shedding[a]
    <3>1. AllShed' => AllShed
      BY <1>3, <2>2 DEF AllShed
    <3>2. QED
      BY <1>1, <3>1 DEF Below, Shared, Crest
  <2>3. CASE ~shedding[a]
    <3>1. Load <= Crest
      BY <1>2, <2>3, SheddingAssumption DEF Crest
    <3>2. QED
      BY <1>1, <2>1, <3>1, SheddingAssumption DEF Shared, Crest
  <2>4. QED
    BY <2>2, <2>3
<1>7. QED
  BY <1>5, <1>6 DEF Below

\* The invariant holds after every step: admitting, publishing, reading, acking,
\* sampling and applying the sample.
LEMMA EvictStep ==
  ASSUME TypeOK, QInv, EvictInv, [Next]_vars
  PROVE  EvictInv'
<1> SUFFICES ASSUME Roomy, restarts' = 0
             PROVE  /\ origin' = 0 /\ Below'
                    /\ \A i \in 1 .. trimmed' : i \in delivered'
  BY DEF EvictInv, Roomy
<1>1. /\ restarts = 0
      /\ \A a \in Apis : ~ApiRestart(a) /\ ~BootTrim(a)
  <2>1. ASSUME NEW a \in Apis, ApiRestart(a)
        PROVE  FALSE
    BY <2>1 DEF ApiRestart, TypeOK
  <2>2. restarts' = restarts
    BY <2>1 DEF Next, Request, Admit, Refuse, Enqueue, EnqueueReplyLost, Queued, Take, Finish,
       Abandon, PollSample, PollUpdate, BootTrim, vars
  <2>3. QED
    BY <2>1, <2>2 DEF BootTrim
<1>2. /\ origin = 0 /\ Below /\ QTypeOK
      /\ \A i \in 1 .. trimmed : i \in delivered
  BY <1>1 DEF EvictInv, TypeOK
<1>3. Load \in Nat /\ Load' \in Nat
  <2>1. QTypeOK'
    BY TypesStep DEF TypeOK
  <2>2. (QTypeOK => Load \in Nat)'
    BY LoadIsNat, PTL
  <2>3. QED
    BY <1>2, <2>1, <2>2, LoadIsNat
<1>4. ASSUME UNCHANGED qvars
      PROVE  UNCHANGED <<origin, trimmed, delivered, Load>>
  BY <1>4 DEF qvars, Load, Lag, NextId, Pending
<1>5. ASSUME NEW a \in Apis, NEW r \in Requests, Admit(a, r)
      PROVE  origin' = 0 /\ Below' /\ \A i \in 1 .. trimmed' : i \in delivered'
  BY <1>2, <1>4, <1>5, AdmitStep DEF Admit
<1>6. ASSUME NEW a \in Apis, NEW r \in Requests, NEW e \in Entry,
             Enqueue(a, r, e) \/ EnqueueReplyLost(a, r, e)
      PROVE  origin' = 0 /\ Below' /\ \A i \in 1 .. trimmed' : i \in delivered'
  <2>1. Queued(e) /\ Publish(e) /\ \E s \in due : due' \subseteq due \ {s}
    BY <1>6, SendingIsUsed
  <2>2. Below' /\ Load < MaxLen
    BY <1>2, <1>3, <2>1, QueuedStep
  <2>3. \A i \in 1 .. trimmed' : i \in delivered'
    BY <1>2, <2>1, <2>2, CutIsDelivered
  <2>4. QED
    BY <1>2, <2>1, <2>2, <2>3 DEF Publish
<1>7. ASSUME NEW a \in Apis, NEW r \in Requests, Refuse(a, r)
      PROVE  origin' = 0 /\ Below' /\ \A i \in 1 .. trimmed' : i \in delivered'
  <2>1. Load' <= Load /\ due' \subseteq due /\ UNCHANGED <<sample, shedding, burst>>
    BY <1>3, <1>4, <1>7 DEF Refuse, monitor
  <2>2. QED
    BY <1>2, <1>3, <1>4, <1>7, <2>1, QuietStep DEF Refuse
<1>8. ASSUME Load' <= Load, UNCHANGED <<origin, trimmed, due, sample, shedding, burst>>,
             delivered \subseteq delivered'
      PROVE  origin' = 0 /\ Below' /\ \A i \in 1 .. trimmed' : i \in delivered'
  BY <1>2, <1>3, <1>8, QuietStep
<1>9. CASE Take
  <2>1. Load' <= Load
    BY <1>2, <1>9, ReadAddsNothing DEF Take
  <2>2. QED
    BY <1>8, <1>9, <2>1 DEF Take, Read, monitor
<1>10. ASSUME NEW i \in pel, Finish(i)
       PROVE  origin' = 0 /\ Below' /\ \A k \in 1 .. trimmed' : k \in delivered'
  <2>1. Load' <= Load
    BY <1>2, <1>10, AckAddsNothing DEF Finish
  <2>2. QED
    BY <1>8, <1>10, <2>1 DEF Finish, Ack, monitor
<1>11. ASSUME NEW i \in pel, Abandon(i)
       PROVE  origin' = 0 /\ Below' /\ \A k \in 1 .. trimmed' : k \in delivered'
  BY <1>3, <1>4, <1>8, <1>11 DEF Abandon, monitor
<1>12. ASSUME NEW a \in Apis, PollSample(a)
       PROVE  origin' = 0 /\ Below' /\ \A i \in 1 .. trimmed' : i \in delivered'
  BY <1>2, <1>3, <1>4, <1>12, SampleStep DEF PollSample
<1>13. ASSUME NEW a \in Apis, PollUpdate(a)
       PROVE  origin' = 0 /\ Below' /\ \A i \in 1 .. trimmed' : i \in delivered'
  BY <1>2, <1>3, <1>4, <1>13, UpdateStep DEF PollUpdate
<1>14. CASE UNCHANGED vars
  BY <1>3, <1>4, <1>8, <1>14 DEF vars, monitor
<1>15. ASSUME NEW a \in Apis, NEW r \in Requests, Request(a, r)
       PROVE  origin' = 0 /\ Below' /\ \A i \in 1 .. trimmed' : i \in delivered'
  BY <1>5, <1>6, <1>7, <1>15 DEF Request
<1>16. QED
  BY <1>1, <1>9, <1>10, <1>11, <1>12, <1>13, <1>14, <1>15 DEF Next

\* Without a high mark there is no shedding.
LEMMA EnabledStep ==
  ASSUME TypeOK, OnlyIfEnabled, [Next]_vars
  PROVE  OnlyIfEnabled'
<1>1. ASSUME NEW a \in Apis, PollUpdate(a)
      PROVE  OnlyIfEnabled'
  <2>1. /\ shedding'[a] = SheddingAfter(shedding[a], sample[a])
        /\ \A b \in Apis \ {a} : shedding'[b] = shedding[b]
    BY <1>1 DEF PollUpdate, TypeOK
  <2>2. QED
    BY <2>1, SheddingAssumption DEF SheddingAfter, OnlyIfEnabled
<1>2. ASSUME NEW a \in Apis, ApiRestart(a)
      PROVE  OnlyIfEnabled'
  BY <1>2 DEF ApiRestart, OnlyIfEnabled, TypeOK
<1>3. CASE UNCHANGED shedding
  BY <1>3 DEF OnlyIfEnabled
<1>4. QED
  BY <1>1, <1>2, <1>3
     DEF Next, Request, Admit, Enqueue, EnqueueReplyLost, Queued, Refuse, Take, Finish, Abandon,
         PollSample, BootTrim, monitor, vars

LEMMA SheddingInvariance == Spec => []SheddingInv
<1>1. Init => SheddingInv
  BY InitTypes, InitEvict DEF SheddingInv, OnlyIfEnabled, Init
<1>2. SheddingInv /\ [Next]_vars => SheddingInv'
  BY TypesStep, EvictStep, EnabledStep DEF SheddingInv
<1>3. QED
  BY <1>1, <1>2, PTL DEF Spec

----------------------------------------------------------------------------
\* The shedder's variables keep their types.
THEOREM SheddingTypes == Spec => []TypeOK
<1>1. SheddingInv => TypeOK
  BY DEF SheddingInv
<1>2. QED
  BY <1>1, SheddingInvariance, PTL

\* With room for what can come while the flag lags behind, the cap on events:in
\* cuts nothing away that no worker has had.
THEOREM RoomIsEnough == Spec => [](Roomy => NothingEvicted)
<1>1. SheddingInv => (Roomy => NothingEvicted)
  BY DEF SheddingInv, EvictInv, NothingEvicted
<1>2. QED
  BY <1>1, SheddingInvariance, PTL

\* While every copy sheds, what the system has taken on does not grow, although
\* XADDs whose replies are lost are sent again.
THEOREM NoGrowthWhileShedding ==
  ASSUME Apis # {}, IsFiniteSet(Apis), IsFiniteSet(Requests)
  PROVE  Spec => SheddingStopsGrowth
<1>1. ASSUME TypeOK, QInv, OnlyIfEnabled, Next,
             \A a \in Apis : shedding[a] /\ shedding'[a]
      PROVE  Demand' <= Demand
  <2>1. /\ IsFiniteSet(due) /\ Cardinality(due) \in Nat
        /\ Load \in Nat /\ Load' \in Nat /\ QTypeOK
    <3>1. QTypeOK /\ QTypeOK'
      BY <1>1, TypesStep DEF TypeOK
    <3>2. (QTypeOK => Load \in Nat)'
      BY LoadIsNat, PTL
    <3>3. IsFiniteSet(due) /\ Cardinality(due) \in Nat
      BY <1>1, TokensAreFinite, DueIsFinite
    <3>4. QED
      BY <3>1, <3>2, <3>3, LoadIsNat
  <2>2. Demand = Load + Cardinality(due) /\ Demand' = Load' + Cardinality(due')
    BY DEF Demand, Load
  <2>3. ASSUME Load' <= Load, due' \subseteq due
        PROVE  Demand' <= Demand
    BY <2>1, <2>2, <2>3, FewerAreDue
  <2>4. ASSUME UNCHANGED qvars
        PROVE  Load' <= Load
    BY <2>1, <2>4 DEF qvars, Load, Lag, NextId, Pending
  <2>5. ASSUME NEW a \in Apis, NEW r \in Requests, Admit(a, r)
        PROVE  FALSE
    BY <1>1, <2>5 DEF Admit, ShouldShed, OnlyIfEnabled
  <2>6. ASSUME NEW a \in Apis, NEW r \in Requests, NEW e \in Entry,
               Enqueue(a, r, e) \/ EnqueueReplyLost(a, r, e)
        PROVE  Demand' <= Demand
    <3>1. Publish(e) /\ \E s \in due : due' \subseteq due \ {s}
      BY <2>6, SendingIsUsed
    <3>2. Load' <= Load + 1
      BY <2>1, <3>1, PublishAddsOne
    <3>3. Cardinality(due') \in Nat /\ Cardinality(due') <= Cardinality(due) - 1
      BY <2>1, <3>1, FewerAreDue
    <3>4. QED
      BY <2>1, <2>2, <3>2, <3>3
  <2>7. ASSUME NEW a \in Apis, NEW r \in Requests, Refuse(a, r)
        PROVE  Demand' <= Demand
    BY <2>3, <2>4, <2>7 DEF Refuse
  <2>8. CASE Take
    BY <2>1, <2>3, <2>8, ReadAddsNothing DEF Take
  <2>9. ASSUME NEW i \in pel, Finish(i) \/ Abandon(i)
        PROVE  Demand' <= Demand
    <3>1. Load' <= Load
      BY <2>1, <2>4, <2>9, AckAddsNothing DEF Finish, Abandon
    <3>2. QED
      BY <2>3, <2>9, <3>1 DEF Finish, Abandon
  <2>10. ASSUME NEW a \in Apis, PollSample(a) \/ PollUpdate(a)
         PROVE  Demand' <= Demand
    BY <2>3, <2>4, <2>10 DEF PollSample, PollUpdate
  <2>11. ASSUME NEW a \in Apis, ApiRestart(a)
         PROVE  FALSE
    BY <1>1, <2>11 DEF ApiRestart, TypeOK
  <2>12. ASSUME NEW a \in Apis, BootTrim(a)
         PROVE  Demand' <= Demand
    BY <2>1, <2>3, <2>12, TrimAddsNothing DEF BootTrim
  <2>13. ASSUME NEW a \in Apis, NEW r \in Requests, Request(a, r)
         PROVE  Demand' <= Demand
    BY <2>5, <2>6, <2>7, <2>13 DEF Request
  <2>14. QED
    BY <1>1, <2>8, <2>9, <2>10, <2>11, <2>12, <2>13 DEF Next
<1>2. SheddingInv /\ [Next]_vars =>
        [(\A a \in Apis : shedding[a] /\ shedding'[a]) => Demand' <= Demand]_vars
  BY <1>1 DEF SheddingInv
<1>3. QED
  BY <1>2, SheddingInvariance, PTL DEF Spec, SheddingStopsGrowth

\* The backlog the shedder looks at is of a queue that keeps its promises, over
\* restarts of the API too: the group skips nothing that was not cut away, and
\* is handed each entry once and in order.
THEOREM SheddingQueueKeepsFaith ==
  Spec => [](NothingSkipped /\ PendingWasDelivered) /\ HandedOutOnceInOrder
<1>1. SheddingInv => QInv /\ NothingSkipped /\ PendingWasDelivered
  BY DEF SheddingInv, QInv
<1>2. [Next]_vars => [QNext]_qvars
  BY StepsAreQueueSteps
<1>3. Spec => [](NothingSkipped /\ PendingWasDelivered)
  BY <1>1, SheddingInvariance, PTL
<1>4. Spec => HandedOutOnceInOrder
  BY <1>1, <1>2, OrderedStep, SheddingInvariance, PTL DEF Spec, HandedOutOnceInOrder
<1>5. QED
  BY <1>3, <1>4

----------------------------------------------------------------------------
(***************************************************************************)
(* The cap that applyProfileDefaults derives is room enough.               *)
(***************************************************************************)

\* A percentage below 100 puts the low mark below the high one.
LEMMA LowIsBelowHigh ==
  ASSUME HighWater > 0, LowWaterPct < 100
  PROVE  LowWater < HighWater
<1> DEFINE pct == IF LowWaterPct < 0 THEN 0 ELSE IF LowWaterPct > 100 THEN 100 ELSE LowWaterPct
<1>1. pct \in 0 .. 99
  OBVIOUS
<1>2. LowWater = (HighWater * pct) \div 100
  BY DEF LowWater
<1> HIDE DEF pct
<1>3. HighWater * pct \in Nat /\ HighWater * pct <= HighWater * 99
  BY <1>1
<1>4. \A n \in Nat : n <= HighWater * 99 => n \div 100 < HighWater
  OBVIOUS
<1>5. QED
  BY <1>2, <1>3, <1>4

\* An environment that leaves INGEST_STREAM_MAX_LEN out and sheds at all loses
\* no accepted event to MAXLEN before a worker has had it (until a copy of the
\* API restarts), as long as bursts and the requests in flight are small beside
\* the mark: three bursts and all the XADDs that the requests of all copies may
\* send together fit in HighWater + 1.
THEOREM DefaultsEvictNothing ==
  ASSUME NEW env \in Env, Accepted(env), env.IngestStreamMaxLen = 0,
         HighWater = HighMark(applyProfileDefaults(env)), HighWater > 0,
         LowWaterPct = applyProfileDefaults(env).QueueDepthLowWaterPct, LowWaterPct < 100,
         MaxLen = Cap(applyProfileDefaults(env).IngestStreamMaxLen),
         IsFiniteSet(Apis), IsFiniteSet(Requests),
         3 * Burst + Cardinality(Apis) * Cardinality(Requests) * Sends <= HighWater + 1
  PROVE  Spec => []NothingEvicted
<1>1. MaxLen = 2 * HighWater
  BY DefaultCapIsAboveMark
<1>2. /\ IsFiniteSet(Tokens) /\ Cardinality(Tokens) \in Nat
      /\ Cardinality(Tokens) = Cardinality(Apis) * Cardinality(Requests) * Sends
  BY TokensAreFinite, FS_CardinalityType
<1>3. Roomy
  BY <1>1, <1>2, LowIsBelowHigh, SheddingAssumption DEF Roomy
<1>4. (Roomy => NothingEvicted) => NothingEvicted
  BY <1>3
<1>5. QED
  BY <1>4, RoomIsEnough, PTL
=============================================================================
