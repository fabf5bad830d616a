----------------------------- MODULE WorkerProofs -----------------------------
(***************************************************************************)
(* Theorems about the worker fleet, for any number of workers, tenants,    *)
(* events and faults, any batch size and any cap.                          *)
(***************************************************************************)
EXTENDS Worker, WorkQueueProofs

(***************************************************************************)
(* The queue is touched only by its own operations, so that what is proved *)
(* of WorkQueue holds inside the fleet.                                    *)
(***************************************************************************)

\* Every step of the fleet is an operation of queue.go or leaves it alone.
LEMMA StepsAreQueueSteps ==
  ASSUME Next
  PROVE  [QNext]_qvars
<1> USE DEF vars
<1>1. CASE ApiBoot \/ ApiCrash
  BY <1>1 DEF ApiBoot, ApiEnsureGroup, ApiBootTrim, ApiCrash, QNext
<1>2. CASE \E e \in Entry : Ingest(e)
  BY <1>2 DEF Ingest, QNext
<1>3. ASSUME NEW w \in Workers, Start(w) \/ Crash(w) \/ Signal(w)
      PROVE  [QNext]_qvars
  BY <1>3 DEF Start, Crash, Signal, Down, QNext
<1>4. ASSUME NEW w \in Workers, Proceed(w)
      PROVE  [QNext]_qvars
  <2>1. CASE LoopAgain(w) \/ LoopExit(w) \/ ReadBatch(w) \/ ReadNothing(w) \/ ReadCancelled(w)
    BY <2>1 DEF LoopAgain, LoopExit, ReadBatch, ReadNothing, ReadCancelled, Down, QNext
  <2>2. CASE LockAcquired(w) \/ LockDuplicate(w) \/ LockFails(w)
    BY <2>2 DEF LockAcquired, LockDuplicate, LockFails
  <2>3. CASE HandlerOk(w) \/ HandlerFails(w) \/ BackoffElapsed(w) \/ BackoffCancelled(w)
    BY <2>3 DEF HandlerOk, HandlerFails, BackoffElapsed, BackoffCancelled
  <2>4. CASE DlqOk(w) \/ DlqFails(w) \/ AckFails(w)
    BY <2>4 DEF DlqOk, DlqFails, AckFails
  <2>5. CASE AckOk(w)
    <3>1. CASE AckTarget(w) \in pel
      BY <2>5, <3>1 DEF AckOk, QNext
    <3>2. CASE AckTarget(w) \notin pel
      <4>1. pel \ {AckTarget(w)} = pel
        BY <3>2
      <4>2. QED
        BY <2>5, <4>1 DEF AckOk, Ack, qvars
    <3>3. QED
      BY <3>1, <3>2
  <2>6. QED
    BY <1>4, <2>1, <2>2, <2>3, <2>4, <2>5 DEF Proceed
<1>5. ASSUME NEW w \in Workers, ReplyLost(w)
      PROVE  [QNext]_qvars
  BY <1>5 DEF ReplyLost, ReadReplyLost, LockReplyLost, HandlerReplyLost, DlqReplyLost, QNext
<1>6. ASSUME NEW i \in claims, LockLapses(i)
      PROVE  [QNext]_qvars
  BY <1>6 DEF LockLapses
<1>7. QED
  BY <1>1, <1>2, <1>3, <1>4, <1>5, <1>6 DEF Next

\* The stream, the cursor and what was delivered only grow.
LEMMA QueueGrows ==
  ASSUME QTypeOK, [QNext]_qvars
  PROVE  /\ Len(stream) \in Nat /\ Len(stream') \in Nat
         /\ Len(stream) <= Len(stream') /\ Ids \subseteq Ids'
         /\ \A i \in Ids : stream'[i] = stream[i]
         /\ last <= last' /\ delivered \subseteq delivered'
<1>0. Len(stream) \in Nat
  BY DEF QTypeOK
<1> USE <1>0 DEF QTypeOK, Ids
<1>1. CASE EnsureGroup
  BY <1>1 DEF EnsureGroup, qvars, NoGroup
<1>2. ASSUME NEW e \in Entry, Publish(e)
      PROVE  /\ Len(stream') \in Nat
             /\ Len(stream) <= Len(stream') /\ Ids \subseteq Ids'
             /\ \A i \in Ids : stream'[i] = stream[i]
             /\ last <= last' /\ delivered \subseteq delivered'
  BY <1>2 DEF Publish
<1>3. CASE Read
  BY <1>3, BatchBounds DEF Read
<1>4. CASE Trim \/ (\E i \in pel : Ack(i)) \/ UNCHANGED qvars
  BY <1>4 DEF Trim, Ack, qvars
<1>5. QED
  BY <1>1, <1>2, <1>3, <1>4 DEF QNext

----------------------------------------------------------------------------
(***************************************************************************)
(* Types.  A worker inside ProcessMessage is at an id of its batch, and    *)
(* one that waits between attempts has attempts left: TypeOK needs both.   *)
(***************************************************************************)
BatchShape ==
    \A w \in Workers :
        /\ pc[w] \in Busy => /\ cur[w] \in 1 .. end[w]
                            /\ end[w] <= last
        /\ pc[w] = "backoff" => attempt[w] < MaxRetries

TInv == TypeOK /\ QInv /\ BatchShape

\* The fleet starts with the right types.
LEMMA InitTInv == Init => TInv
  BY QInitInv, WorkerAssumption DEF Init, TInv, TypeOK, BatchShape, QInv, QInit, Busy, Claimed

\* A sequence over a set is one over any larger set.
LEMMA SeqGrows ==
  ASSUME NEW S, NEW T, S \subseteq T, NEW s \in Seq(S)
  PROVE  s \in Seq(T)
  OBVIOUS

\* Every step preserves the types of the fleet's variables.
LEMMA TInvStep ==
  ASSUME TInv, Next
  PROVE  TInv'
<1> DEFINE E(S) == [id : S, kind : {"published", "deadLettered"}]
<1>1. QTypeOK' /\ QInv'
  BY StepsAreQueueSteps, QInvStep DEF TInv, QInv
<1>2. /\ Len(stream) \in Nat /\ Len(stream') \in Nat /\ Len(stream) <= Len(stream')
      /\ Ids \subseteq Ids' /\ last \in Nat /\ last' \in Nat /\ last <= last'
      /\ last <= Len(stream) /\ last' <= Len(stream')
  BY <1>1, StepsAreQueueSteps, QueueGrows DEF TInv, TypeOK, QTypeOK
<1>3. /\ cur \in [Workers -> 0 .. Len(stream')] /\ end \in [Workers -> 0 .. Len(stream')]
      /\ claims \subseteq Ids' /\ errored \subseteq Ids' /\ ambiguous \subseteq Ids'
      /\ \A w \in Workers : pc[w] \in Busy => cur[w] \in Ids /\ cur[w] \in Ids'
  BY <1>2 DEF TInv, TypeOK, BatchShape, Ids
<1>4. effects \in Seq(E(Ids'))
  <2>1. E(Ids) \subseteq E(Ids')
    BY <1>2
  <2>2. effects \in Seq(E(Ids))
    BY DEF TInv, TypeOK
  <2>3. QED
    BY <2>1, <2>2, SeqGrows
<1>5. \A i \in Ids', k \in {"published", "deadLettered"} :
          Append(effects, [id |-> i, kind |-> k]) \in Seq(E(Ids'))
  BY <1>4
<1> HIDE DEF E
<1>6. faults \in 0 .. MaxFaults /\ MaxFaults \in Nat /\ \A k : Fault(k) => faults' \in 0 .. MaxFaults
  BY WorkerAssumption DEF TInv, TypeOK, Fault
<1> DEFINE T == /\ api' \in {"down", "trim", "up"}
                /\ pc' \in [Workers -> Busy \cup {"down", "loop", "read"}]
                /\ cur' \in [Workers -> 0 .. Len(stream')]
                /\ end' \in [Workers -> 0 .. Len(stream')]
                /\ attempt' \in [Workers -> 0 .. MaxRetries]
                /\ stopping' \in [Workers -> BOOLEAN]
                /\ claims' \subseteq Ids' /\ lapsed' \subseteq claims'
                /\ effects' \in Seq(E(Ids'))
                /\ errored' \subseteq Ids' /\ ambiguous' \subseteq Ids'
                /\ faults' \in 0 .. MaxFaults
<1>7. T /\ BatchShape'
  <2>0. TypeOK /\ BatchShape /\ MaxRetries \in Nat
    BY WorkerAssumption DEF TInv
  <2> USE <1>2, <1>3, <1>4, <1>5, <1>6, <2>0
      DEF TypeOK, BatchShape, Busy, Claimed, Goto, Record, CommandFails, AfterFailure,
          local, locks, history
  <2>1. CASE ApiBoot
    BY <2>1 DEF ApiBoot, ApiEnsureGroup, ApiBootTrim
  <2>2. CASE ApiCrash
    BY <2>2 DEF ApiCrash, qvars
  <2>3. ASSUME NEW e \in Entry, Ingest(e)
        PROVE  T /\ BatchShape'
    BY <2>3 DEF Ingest
  <2>4. ASSUME NEW w \in Workers, Start(w)
        PROVE  T /\ BatchShape'
    BY <2>4 DEF Start
  <2>5. ASSUME NEW w \in Workers, Crash(w) \/ LoopExit(w) \/ ReadCancelled(w)
        PROVE  T /\ BatchShape'
    <3>1. Down(w) /\ faults' \in 0 .. MaxFaults
      BY <2>5 DEF Crash, LoopExit, ReadCancelled
    <3>2. QED
      BY <3>1 DEF Down, qvars
  <2>6. ASSUME NEW w \in Workers, Signal(w) \/ LoopAgain(w) \/ ReadNothing(w)
        PROVE  T /\ BatchShape'
    BY <2>6 DEF Signal, LoopAgain, ReadNothing, qvars
  <2>7. ASSUME NEW w \in Workers, ReadBatch(w)
        PROVE  T /\ BatchShape'
    <3>1. NextId \in 1 .. BatchEnd /\ BatchEnd \in 1 .. Len(stream') /\ last' = BatchEnd
      BY <2>7, BatchBounds DEF ReadBatch, Read
    <3>2. QED
      BY <2>7, <3>1 DEF ReadBatch
  <2>8. ASSUME NEW w \in Workers, LockAcquired(w) \/ LockDuplicate(w) \/ LockFails(w)
        PROVE  T /\ BatchShape'
    <3>1. CASE LockAcquired(w)
      BY <3>1 DEF LockAcquired, FirstStop, qvars
    <3>2. CASE LockDuplicate(w)
      BY <3>2 DEF LockDuplicate, qvars
    <3>3. CASE LockFails(w)
      BY <3>3 DEF LockFails, qvars
    <3>4. QED
      BY <2>8, <3>1, <3>2, <3>3
  <2>9. ASSUME NEW w \in Workers, HandlerOk(w) \/ DlqOk(w)
        PROVE  T /\ BatchShape'
    <3>1. CASE HandlerOk(w)
      <4>1. effects' \in Seq(E(Ids'))
        BY <1>3, <1>5, <3>1 DEF HandlerOk, Record, Busy, Claimed
      <4>2. QED
        BY <3>1, <4>1 DEF HandlerOk, qvars
    <3>2. CASE DlqOk(w)
      <4>1. effects' \in Seq(E(Ids'))
        BY <1>3, <1>5, <3>2 DEF DlqOk, Record, Busy, Claimed
      <4>2. QED
        BY <3>2, <4>1 DEF DlqOk, qvars
    <3>3. QED
      BY <2>9, <3>1, <3>2
  <2>10. ASSUME NEW w \in Workers, HandlerFails(w)
        PROVE  T /\ BatchShape'
    BY <2>10 DEF HandlerFails, qvars
  <2>11. ASSUME NEW w \in Workers, BackoffElapsed(w)
        PROVE  T /\ BatchShape'
    BY <2>11 DEF BackoffElapsed, qvars
  <2>12. ASSUME NEW w \in Workers, BackoffCancelled(w) \/ DlqFails(w)
        PROVE  T /\ BatchShape'
    <3>1. CASE BackoffCancelled(w)
      BY <3>1 DEF BackoffCancelled, qvars
    <3>2. CASE DlqFails(w)
      BY <3>2 DEF DlqFails, qvars
    <3>3. QED
      BY <2>12, <3>1, <3>2
  <2>13. ASSUME NEW w \in Workers, AckOk(w) \/ AckFails(w)
        PROVE  T /\ BatchShape'
    <3>1. NextMessage(w) /\ pc[w] = "ack" /\ UNCHANGED <<api, attempt, stopping, locks, history>>
          /\ faults' \in 0 .. MaxFaults
      BY <2>13 DEF AckOk, AckFails
    <3>2. CASE cur[w] < end[w]
      <4>1. /\ cur' = [cur EXCEPT ![w] = cur[w] + 1]
            /\ pc' = [pc EXCEPT ![w] = "lock"] /\ end' = end
        BY <3>1, <3>2 DEF NextMessage
      <4>2. cur[w] + 1 \in 1 .. end[w] /\ cur[w] + 1 \in 0 .. Len(stream')
        BY <3>1, <3>2
      <4>3. T
        BY <3>1, <4>1, <4>2
      <4>4. BatchShape'
        BY <3>1, <4>1, <4>2
      <4>5. QED
        BY <4>3, <4>4
    <3>3. CASE cur[w] = end[w]
      <4>1. /\ cur' = [cur EXCEPT ![w] = 0] /\ end' = [end EXCEPT ![w] = 0]
            /\ pc' = [pc EXCEPT ![w] = "loop"]
        BY <3>1, <3>3 DEF NextMessage
      <4>2. T
        BY <3>1, <4>1
      <4>3. BatchShape'
        BY <3>1, <4>1
      <4>4. QED
        BY <4>2, <4>3
    <3>4. QED
      BY <3>1, <3>2, <3>3 DEF NextMessage
  <2>14. ASSUME NEW w \in Workers, ReadReplyLost(w)
        PROVE  T /\ BatchShape'
    <3>1. /\ UNCHANGED <<api, pc, cur, end, attempt, stopping, claims, lapsed>>
          /\ UNCHANGED <<effects, errored, ambiguous>> /\ faults' \in 0 .. MaxFaults
      BY <2>14 DEF ReadReplyLost
    <3>2. T
      BY <3>1
    <3>3. BatchShape'
      BY <3>1
    <3>4. QED
      BY <3>2, <3>3
  <2>15. ASSUME NEW w \in Workers, LockReplyLost(w) \/ HandlerReplyLost(w) \/ DlqReplyLost(w)
        PROVE  T /\ BatchShape'
    BY <2>15 DEF LockReplyLost, HandlerReplyLost, DlqReplyLost, qvars
  <2>16. ASSUME NEW i \in claims, LockLapses(i)
        PROVE  T /\ BatchShape'
    BY <2>16 DEF LockLapses, qvars
  <2>17. QED
    BY <2>1, <2>2, <2>3, <2>4, <2>5, <2>6, <2>7, <2>8, <2>9, <2>10, <2>11, <2>12, <2>13,
       <2>14, <2>15, <2>16 DEF Next, Proceed, ReplyLost
<1>8. QED
  BY <1>1, <1>7 DEF TInv, TypeOK, E

\* The same as a temporal fact.
LEMMA TInvAlways == Spec => []TInv
<1>1. ASSUME TInv, UNCHANGED vars
      PROVE  TInv'
  BY <1>1 DEF TInv, TypeOK, BatchShape, QInv, QTypeOK, NothingSkipped, PendingWasDelivered,
              Ids, vars, qvars, local, locks, history
<1>2. TInv /\ [Next]_vars => TInv'
  BY <1>1, TInvStep
<1>3. QED
  BY <1>2, InitTInv, PTL DEF Spec

\* The variables keep their types, and what is proved of the queue alone holds
\* of the queue inside the fleet.
THEOREM TypeCorrect == Spec => [](TypeOK /\ NothingSkipped /\ PendingWasDelivered)
<1>1. TInv => TypeOK /\ NothingSkipped /\ PendingWasDelivered
  BY DEF TInv, QInv
<1>2. QED
  BY <1>1, TInvAlways, PTL

----------------------------------------------------------------------------
(***************************************************************************)
(* The group and the first event.  The queue by itself skips what is older *)
(* than the group; the order of boot leaves nothing that is.               *)
(***************************************************************************)
GroupFirst ==
    /\ origin = NoGroup => stream = <<>>
    /\ origin # NoGroup => origin = 0
    /\ api # "down" => origin # NoGroup

\* Only boot takes the API up, and only an API that is up adds an entry.
LEMMA GroupFirstStep ==
  ASSUME TInv, GroupFirst, [Next]_vars
  PROVE  GroupFirst'
<1>1. Len(stream) \in Nat /\ (stream = <<>> => Len(stream) = 0)
  BY DEF TInv, TypeOK, QTypeOK
<1>2. ASSUME EnsureGroup
      PROVE  stream' = stream /\ origin' # NoGroup /\ origin' = 0
  BY <1>1, <1>2 DEF EnsureGroup, GroupFirst, NoGroup, qvars
<1>3. CASE ApiBoot
  BY <1>2, <1>3 DEF ApiBoot, ApiEnsureGroup, ApiBootTrim, Trim, GroupFirst, qvars
<1>4. CASE ApiCrash
  BY <1>4 DEF ApiCrash, GroupFirst, qvars
<1>5. ASSUME NEW e \in Entry, Ingest(e)
      PROVE  GroupFirst'
  BY <1>5 DEF Ingest, Publish, GroupFirst
<1>6. ASSUME NEW w \in Workers, Start(w)
      PROVE  GroupFirst'
  BY <1>2, <1>6 DEF Start, GroupFirst
<1>7. ASSUME UNCHANGED <<stream, origin, api>>
      PROVE  GroupFirst'
  BY <1>7 DEF GroupFirst
<1>8. ASSUME NEW w \in Workers, Crash(w) \/ Signal(w)
      PROVE  GroupFirst'
  BY <1>7, <1>8 DEF Crash, Signal, Down, qvars
<1>9. ASSUME NEW w \in Workers, Proceed(w)
      PROVE  GroupFirst'
  BY <1>7, <1>9 DEF Proceed, LoopAgain, LoopExit, ReadBatch, ReadNothing, ReadCancelled, Down,
     Read, LockAcquired, LockDuplicate, LockFails, HandlerOk, HandlerFails, BackoffElapsed,
     BackoffCancelled, DlqOk, DlqFails, AckOk, AckFails, Ack, qvars
<1>10. ASSUME NEW w \in Workers, ReplyLost(w)
       PROVE  GroupFirst'
  BY <1>7, <1>10 DEF ReplyLost, ReadReplyLost, Read, LockReplyLost, HandlerReplyLost,
     DlqReplyLost, qvars
<1>11. ASSUME NEW i \in claims, LockLapses(i)
       PROVE  GroupFirst'
  BY <1>7, <1>11 DEF LockLapses, qvars
<1>12. CASE UNCHANGED vars
  BY <1>7, <1>12 DEF vars, qvars
<1>13. QED
  BY <1>3, <1>4, <1>5, <1>6, <1>8, <1>9, <1>10, <1>11, <1>12 DEF Next

\* The cursor passes no accepted event that was not handed out or cut away: none
\* is older than the group.
THEOREM NothingIsPassedOver == Spec => []AcceptedAreInReach
<1>1. Init => GroupFirst
  BY DEF Init, QInit, GroupFirst, NoGroup
<1>2. Spec => []GroupFirst
  BY <1>1, GroupFirstStep, TInvAlways, PTL DEF Spec
<1>3. TInv /\ GroupFirst => AcceptedAreInReach
  BY DEF TInv, TypeOK, QTypeOK, QInv, NothingSkipped, GroupFirst, NoGroup, AcceptedAreInReach
<1>4. QED
  BY <1>2, <1>3, TInvAlways, PTL

----------------------------------------------------------------------------
(***************************************************************************)
(* Batches.  Held leaves out the id being acked, which another worker must *)
(* not have either, so the invariant speaks of the whole rest of a batch.  *)
(* A new batch starts behind the cursor and every older one ends before it.*)
(***************************************************************************)
Batch(w) == IF pc[w] \in Busy THEN cur[w] .. end[w] ELSE {}

BInv == \A w \in Workers :
            /\ Held(w) \subseteq pel
            /\ \A v \in Workers \ {w} : Batch(w) \cap Batch(v) = {}

\* Nobody holds anything at first.
LEMMA InitBInv == Init => BInv
  BY DEF Init, BInv, Held, Batch, Busy, Claimed

\* A step that leaves the pending list alone, and moves at most one worker,
\* which keeps its batch and what it holds or gives up some of it.
LEMMA BatchKept ==
  ASSUME BInv, NEW w \in Workers, pel \subseteq pel',
         Batch(w)' \subseteq Batch(w), Held(w)' \subseteq Held(w),
         \A v \in Workers \ {w} : Batch(v)' = Batch(v) /\ Held(v)' = Held(v)
  PROVE  BInv'
  BY DEF BInv

\* The same of a step of worker w inside its batch.
LEMMA BatchMove ==
  ASSUME TInv, BInv, NEW w \in Workers, NEW l \in Busy \cup {"down", "loop", "read"},
         l \in Busy => pc[w] \in Busy \ {"ack"}, Goto(w, l), pel \subseteq pel',
         l \in Busy => UNCHANGED <<cur, end>>,
         \A v \in Workers \ {w} : cur'[v] = cur[v] /\ end'[v] = end[v]
  PROVE  BInv'
<1>1. pc' = [pc EXCEPT ![w] = l] /\ pc \in [Workers -> Busy \cup {"down", "loop", "read"}]
  BY DEF Goto, TInv, TypeOK
<1>2. \A v \in Workers \ {w} : Batch(v)' = Batch(v) /\ Held(v)' = Held(v)
  BY <1>1 DEF Batch, Held
<1>3. Batch(w)' \subseteq Batch(w) /\ Held(w)' \subseteq Held(w)
  <2>1. CASE l \in Busy
    <3>1. cur[w] \in Int /\ end[w] \in Int
      BY DEF TInv, TypeOK
    <3>2. QED
      BY <1>1, <2>1, <3>1 DEF Batch, Held
  <2>2. CASE l \notin Busy
    BY <1>1, <2>2 DEF Batch, Held
  <2>3. QED
    BY <2>1, <2>2
<1>4. QED
  BY <1>2, <1>3, BatchKept

\* Every step keeps batches exclusive and pending.
LEMMA BInvStep ==
  ASSUME TInv, BInv, Next
  PROVE  BInv'
<1> USE DEF local, locks, history, qvars
<1>1. ASSUME UNCHANGED <<pc, cur, end>>, pel \subseteq pel'
      PROVE  BInv'
  BY <1>1 DEF BInv, Batch, Held
<1>2. CASE ApiBoot \/ ApiCrash \/ \E e \in Entry : Ingest(e)
  BY <1>1, <1>2 DEF ApiBoot, ApiEnsureGroup, ApiBootTrim, ApiCrash, Ingest, EnsureGroup, Trim, Publish
<1>3. CASE \E i \in claims : LockLapses(i)
  BY <1>1, <1>3 DEF LockLapses
<1>4. ASSUME NEW w \in Workers, Signal(w) \/ ReplyLost(w)
      PROVE  BInv'
  BY <1>1, <1>4 DEF Signal, ReplyLost, ReadReplyLost, LockReplyLost, HandlerReplyLost, DlqReplyLost, Read
<1>5. ASSUME NEW w \in Workers, Start(w)
      PROVE  BInv'
  BY <1>5, BatchMove DEF Start, EnsureGroup, Busy, Claimed
<1>6. ASSUME NEW w \in Workers, Crash(w) \/ LoopExit(w) \/ ReadCancelled(w)
      PROVE  BInv'
  <2>1. /\ Goto(w, "down") /\ UNCHANGED pel
        /\ \A v \in Workers \ {w} : cur'[v] = cur[v] /\ end'[v] = end[v]
    BY <1>6 DEF Crash, LoopExit, ReadCancelled, Down, TInv, TypeOK
  <2>2. QED
    BY <2>1, BatchMove DEF Busy, Claimed
<1>7. ASSUME NEW w \in Workers, LoopAgain(w) \/ ReadNothing(w)
      PROVE  BInv'
  BY <1>7, BatchMove DEF LoopAgain, ReadNothing, Busy, Claimed
<1>8. ASSUME NEW w \in Workers,
             \/ LockAcquired(w) \/ LockDuplicate(w) \/ LockFails(w)
             \/ HandlerOk(w) \/ HandlerFails(w) \/ BackoffElapsed(w) \/ BackoffCancelled(w)
             \/ DlqOk(w) \/ DlqFails(w)
      PROVE  BInv'
  <2>1. /\ \E l \in Busy : Goto(w, l)
        /\ pc[w] \in Busy \ {"ack"} /\ UNCHANGED <<cur, end, pel>>
    BY <1>8 DEF LockAcquired, FirstStop, LockDuplicate, LockFails, HandlerOk, HandlerFails, AfterFailure,
                BackoffElapsed, BackoffCancelled, DlqOk, DlqFails, Busy, Claimed
  <2>2. QED
    BY <2>1, BatchMove
<1>9. ASSUME NEW w \in Workers, ReadBatch(w)
      PROVE  BInv'
  <2>1. /\ pc' = [pc EXCEPT ![w] = "lock"] /\ cur' = [cur EXCEPT ![w] = NextId]
        /\ end' = [end EXCEPT ![w] = BatchEnd] /\ pel' = pel \cup (NextId .. BatchEnd)
        /\ pc[w] = "read" /\ Lag > 0
    BY <1>9 DEF ReadBatch, Read, Goto
  <2>2. /\ Batch(w)' = NextId .. BatchEnd /\ Held(w)' = NextId .. BatchEnd
        /\ \A v \in Workers \ {w} : Batch(v)' = Batch(v) /\ Held(v)' = Held(v)
    BY <2>1 DEF TInv, TypeOK, Batch, Held, Busy, Claimed
  <2>3. \A v \in Workers : \A i \in Batch(v) : i \in Int /\ i <= last
    BY DEF TInv, TypeOK, QTypeOK, BatchShape, Batch
  <2>4. \A i \in NextId .. BatchEnd : i \in Int /\ ~(i <= last)
    BY <2>1, BatchBounds DEF TInv, TypeOK, QTypeOK
  <2>5. \A v \in Workers : Batch(v) \cap (NextId .. BatchEnd) = {}
    BY <2>3, <2>4
  <2>6. pel \subseteq pel' /\ Held(w)' \subseteq pel'
    BY <2>1, <2>2
  <2>7. \A v \in Workers : Held(v)' \subseteq pel'
    BY <2>2, <2>6 DEF BInv
  <2>8. \A u \in Workers : \A v \in Workers \ {u} : Batch(u)' \cap Batch(v)' = {}
    <3>1. \A v \in Workers \ {w} : Batch(w)' \cap Batch(v)' = {}
      BY <2>2, <2>5
    <3>2. \A u, v \in Workers \ {w} : u # v => Batch(u)' \cap Batch(v)' = {}
      BY <2>2 DEF BInv
    <3>3. QED
      BY <3>1, <3>2
  <2>9. QED
    BY <2>7, <2>8 DEF BInv
<1>10. ASSUME NEW w \in Workers, AckOk(w) \/ AckFails(w)
       PROVE  BInv'
  <2>1. pc[w] = "ack" /\ NextMessage(w) /\ pel \ {cur[w]} \subseteq pel'
    BY <1>10 DEF AckOk, AckFails, Ack, AckTarget
  <2>2. cur[w] \in 1 .. end[w] /\ end[w] \in Int
    BY <2>1 DEF TInv, TypeOK, BatchShape, Busy, Claimed
  <2>3. \A v \in Workers \ {w} : Batch(v)' = Batch(v) /\ Held(v)' = Held(v)
    BY <2>1 DEF NextMessage, Goto, TInv, TypeOK, Batch, Held
  <2>4. /\ Batch(w)' \subseteq Batch(w) /\ Held(w)' \subseteq Held(w)
        /\ cur[w] \notin Held(w)' /\ cur[w] \in Batch(w)
    <3>1. CASE cur[w] < end[w]
      <4>1. /\ cur' = [cur EXCEPT ![w] = cur[w] + 1] /\ end' = end
            /\ pc' = [pc EXCEPT ![w] = "lock"]
        BY <2>1, <2>2, <3>1 DEF NextMessage, Goto
      <4>2. cur'[w] = cur[w] + 1 /\ end'[w] = end[w] /\ pc'[w] = "lock"
        BY <4>1 DEF TInv, TypeOK
      <4>3. QED
        BY <2>1, <2>2, <4>2 DEF Batch, Held, Busy, Claimed
    <3>2. CASE cur[w] = end[w]
      <4>1. pc'[w] = "loop"
        BY <2>1, <2>2, <3>2 DEF NextMessage, Goto, TInv, TypeOK
      <4>2. QED
        BY <2>1, <2>2, <4>1 DEF Batch, Held, Busy, Claimed
    <3>3. QED
      BY <2>2, <3>1, <3>2
  <2>5. \A v \in Workers \ {w} : cur[w] \notin Held(v)
    <3>1. \A v \in Workers : Held(v) \subseteq Batch(v)
      BY DEF TInv, TypeOK, Held, Batch
    <3>2. QED
      BY <2>4, <3>1 DEF BInv
  <2>6. QED
    BY <2>1, <2>3, <2>4, <2>5 DEF BInv
<1>11. QED
  BY <1>2, <1>3, <1>4, <1>5, <1>6, <1>7, <1>8, <1>9, <1>10 DEF Next, Proceed

\* What a worker still has to finish is pending and nobody else's, always.
THEOREM ExclusiveBatches == Spec => []BatchesAreExclusive
<1>1. TInv /\ BInv /\ [Next]_vars => BInv'
  <2>1. ASSUME BInv, UNCHANGED vars
        PROVE  BInv'
    BY <2>1 DEF BInv, Batch, Held, vars, qvars, local
  <2>2. QED
    BY <2>1, BInvStep
<1>2. TInv /\ BInv => BatchesAreExclusive
  <2>1. TInv => \A w \in Workers : Held(w) \subseteq Batch(w)
    BY DEF TInv, TypeOK, Held, Batch
  <2>2. QED
    BY <2>1 DEF BInv, BatchesAreExclusive
<1>3. QED
  BY <1>1, <1>2, TInvAlways, InitBInv, PTL DEF Spec

----------------------------------------------------------------------------
(***************************************************************************)
(* Claims.  The lock is taken where it is not held, so at most one entry of*)
(* an event holds it.  That a worker claims only the id it is at, and never*)
(* an id it has yet to come to, is what OneEffect and AckedIsAccountedFor  *)
(* need to know of it.                                                     *)
(***************************************************************************)
Ahead(w) == IF pc[w] \in Busy THEN (cur[w] + 1) .. end[w] ELSE {}

OneLiveClaim ==
    \A i, j \in claims \ lapsed : SameEvent(i, j) => i = j

CInv ==
    /\ claims \subseteq delivered
    /\ OneLiveClaim
    /\ \A w \in Workers :
        /\ pc[w] \in Claimed => cur[w] \in claims
        /\ Ahead(w) \cap claims = {}
        /\ pc[w] = "lock" /\ cur[w] \in claims => cur[w] \in ambiguous

\* Nothing is claimed at first.
LEMMA InitCInv == Init => CInv
  BY DEF Init, CInv, OneLiveClaim, Ahead, Busy, Claimed

\* What two old entries have in common never changes.
LEMMA SameEventFixed ==
  ASSUME QTypeOK, [QNext]_qvars, NEW i \in Ids, NEW j \in Ids
  PROVE  SameEvent(i, j)' <=> SameEvent(i, j)
  BY QueueGrows DEF SameEvent

\* Every step keeps claims unique and in their place.
LEMMA CInvStep ==
  ASSUME TInv, BInv, CInv, Next
  PROVE  CInv'
<1> USE DEF local, locks, history, qvars, Goto, FirstStop
<1>1. /\ delivered \subseteq delivered' /\ claims \subseteq Ids
      /\ \A i, j \in Ids : SameEvent(i, j)' <=> SameEvent(i, j)
  BY StepsAreQueueSteps, QueueGrows, SameEventFixed DEF TInv, TypeOK
<1>2. \A w \in Workers : cur[w] \in Int /\ end[w] \in Int
  BY DEF TInv, TypeOK
<1>3. ASSUME claims' = claims, lapsed \subseteq lapsed'
      PROVE  (claims \subseteq delivered)' /\ OneLiveClaim'
  BY <1>1, <1>3 DEF CInv, OneLiveClaim
<1>4. ASSUME claims' = claims, lapsed \subseteq lapsed', ambiguous \subseteq ambiguous',
             UNCHANGED <<pc, cur, end>>
      PROVE  CInv'
  BY <1>3, <1>4 DEF CInv, Ahead
<1>5. ASSUME NEW w \in Workers, NEW l \in Busy \cup {"down", "loop", "read"},
             pc' = [pc EXCEPT ![w] = l], UNCHANGED <<claims, lapsed>>, ambiguous \subseteq ambiguous',
             \/ l \notin Busy
             \/ l # "lock" /\ pc[w] \in Busy /\ UNCHANGED <<cur, end>> /\ (l \in Claimed => pc[w] \in Claimed),
             \A v \in Workers \ {w} : cur'[v] = cur[v] /\ end'[v] = end[v]
      PROVE  CInv'
  <2>1. \A v \in Workers \ {w} : pc'[v] = pc[v] /\ Ahead(v)' = Ahead(v)
    BY <1>5 DEF Ahead
  <2>2. pc'[w] = l
    BY <1>5 DEF TInv, TypeOK
  <2>3. Ahead(w)' \subseteq Ahead(w)
    BY <1>5, <2>2 DEF Ahead
  <2>4. QED
    BY <1>3, <1>5, <2>1, <2>2, <2>3 DEF CInv, Busy, Claimed
<1>6. ASSUME NEW w \in Workers, pc[w] = "lock", ~Locked(cur[w]),
             claims' = claims \cup {cur[w]}, UNCHANGED <<lapsed, cur, end>>,
             \/ pc' = [pc EXCEPT ![w] = FirstStop] /\ UNCHANGED ambiguous
             \/ UNCHANGED pc /\ ambiguous' = ambiguous \cup {cur[w]}
      PROVE  CInv'
  <2>1. cur[w] \in Batch(w) /\ cur[w] \in Ids /\ cur[w] \notin Ahead(w)
    BY <1>2, <1>6 DEF TInv, TypeOK, QTypeOK, BatchShape, Batch, Ahead, Busy, Claimed, Ids
  <2>2. cur[w] \in delivered
    <3>1. cur[w] \in Held(w)
      BY <2>1, <1>6 DEF Held, Batch, Busy, Claimed
    <3>2. QED
      BY <3>1 DEF BInv, TInv, QInv, PendingWasDelivered
  <2>3. OneLiveClaim'
    BY <1>1, <1>6, <2>1 DEF CInv, OneLiveClaim, Locked, SameEvent
  <2>4. \A v \in Workers : Ahead(v)' = Ahead(v)
    BY <1>6 DEF Ahead, TInv, TypeOK, Busy, Claimed
  <2>5. \A v \in Workers \ {w} : cur[w] \notin Ahead(v) /\ (pc[v] \in Busy => cur[v] # cur[w])
    <3>1. \A v \in Workers : Ahead(v) \subseteq Batch(v) /\ (pc[v] \in Busy => cur[v] \in Batch(v))
      BY <1>2 DEF TInv, BatchShape, Ahead, Batch
    <3>2. QED
      BY <2>1, <3>1 DEF BInv
  <2>6. QED
    BY <1>1, <1>6, <2>1, <2>2, <2>3, <2>4, <2>5 DEF CInv, TInv, TypeOK, Busy, Claimed
<1>7. CASE ApiBoot \/ ApiCrash \/ \E e \in Entry : Ingest(e)
  BY <1>4, <1>7 DEF ApiBoot, ApiEnsureGroup, ApiBootTrim, ApiCrash, Ingest
<1>8. CASE \E i \in claims : LockLapses(i)
  BY <1>4, <1>8 DEF LockLapses
<1>9. ASSUME NEW w \in Workers, Signal(w) \/ ReadReplyLost(w) \/ HandlerReplyLost(w) \/ DlqReplyLost(w)
      PROVE  CInv'
  BY <1>4, <1>9 DEF Signal, ReadReplyLost, HandlerReplyLost, DlqReplyLost
<1>10. ASSUME NEW w \in Workers, LockReplyLost(w) \/ LockAcquired(w)
       PROVE  CInv'
  BY <1>6, <1>10 DEF LockReplyLost, LockAcquired
<1>11. ASSUME NEW w \in Workers,
              \/ Start(w) \/ Crash(w) \/ LoopExit(w) \/ ReadCancelled(w)
              \/ LoopAgain(w) \/ ReadNothing(w)
       PROVE  CInv'
  <2>1. /\ \E l \in {"down", "loop", "read"} : pc' = [pc EXCEPT ![w] = l]
        /\ UNCHANGED <<claims, lapsed, ambiguous>>
        /\ \A v \in Workers \ {w} : cur'[v] = cur[v] /\ end'[v] = end[v]
    BY <1>11 DEF Start, Crash, LoopExit, ReadCancelled, LoopAgain, ReadNothing, Down, TInv, TypeOK
  <2>2. QED
    BY <1>5, <2>1 DEF Busy, Claimed
<1>12. ASSUME NEW w \in Workers,
              \/ LockDuplicate(w) \/ LockFails(w)
              \/ HandlerOk(w) \/ HandlerFails(w) \/ BackoffElapsed(w) \/ BackoffCancelled(w)
              \/ DlqOk(w) \/ DlqFails(w)
       PROVE  CInv'
  <2>1. pc[w] \in Busy /\ UNCHANGED <<cur, end, claims, lapsed, ambiguous>>
    BY <1>12 DEF LockDuplicate, LockFails, HandlerOk, HandlerFails,
                 BackoffElapsed, BackoffCancelled, DlqOk, DlqFails, Busy, Claimed
  <2>2. PICK l \in Busy \ {"lock"} :
              pc' = [pc EXCEPT ![w] = l] /\ (l \in Claimed => pc[w] \in Claimed)
    <3>1. CASE LockDuplicate(w) \/ LockFails(w) \/ HandlerOk(w) \/ BackoffCancelled(w)
               \/ DlqOk(w) \/ DlqFails(w)
      <4>1. pc' = [pc EXCEPT ![w] = "ack"]
        BY <3>1 DEF LockDuplicate, LockFails, HandlerOk, BackoffCancelled, DlqOk, DlqFails
      <4>2. "ack" \in Busy \ {"lock"} /\ "ack" \notin Claimed
        BY DEF Busy, Claimed
      <4>3. QED
        BY <4>1, <4>2
    <3>2. CASE HandlerFails(w)
      BY <3>2 DEF HandlerFails, AfterFailure, Busy, Claimed
    <3>3. CASE BackoffElapsed(w)
      BY <3>3 DEF BackoffElapsed, Busy, Claimed
    <3>4. QED
      BY <1>12, <3>1, <3>2, <3>3
  <2>3. QED
    BY <1>5, <2>1, <2>2
<1>13. ASSUME NEW w \in Workers, ReadBatch(w)
       PROVE  CInv'
  <2>1. /\ pc' = [pc EXCEPT ![w] = "lock"] /\ cur' = [cur EXCEPT ![w] = NextId]
        /\ end' = [end EXCEPT ![w] = BatchEnd] /\ UNCHANGED <<claims, lapsed, ambiguous>>
    BY <1>13 DEF ReadBatch
  <2>2. \A i \in claims : i \in Int /\ i < NextId
    BY BatchBounds DEF CInv, TInv, TypeOK, QTypeOK, QInv, PendingWasDelivered, Ids
  <2>3. NextId \notin claims /\ Ahead(w)' \cap claims = {}
    <3>1. Ahead(w)' = (NextId + 1) .. BatchEnd
      BY <2>1 DEF Ahead, TInv, TypeOK, Busy, Claimed
    <3>2. NextId \in Int
      BY BatchBounds DEF TInv, TypeOK
    <3>3. QED
      BY <2>2, <3>1, <3>2
  <2>4. \A v \in Workers \ {w} : pc'[v] = pc[v] /\ cur'[v] = cur[v] /\ Ahead(v)' = Ahead(v)
    BY <2>1 DEF Ahead
  <2>5. pc'[w] = "lock" /\ cur'[w] = NextId
    BY <2>1 DEF TInv, TypeOK
  <2>6. QED
    BY <1>3, <2>1, <2>3, <2>4, <2>5 DEF CInv, Claimed
<1>14. ASSUME NEW w \in Workers, AckOk(w) \/ AckFails(w)
       PROVE  CInv'
  <2>1. pc[w] = "ack" /\ NextMessage(w) /\ UNCHANGED <<claims, lapsed, ambiguous>>
    BY <1>14 DEF AckOk, AckFails
  <2>2. CASE cur[w] < end[w]
    <3>1. /\ cur' = [cur EXCEPT ![w] = cur[w] + 1] /\ end' = end
          /\ pc' = [pc EXCEPT ![w] = "lock"]
      BY <1>2, <2>1, <2>2 DEF NextMessage
    <3>2. /\ cur'[w] = cur[w] + 1 /\ pc'[w] = "lock" /\ end'[w] = end[w]
          /\ \A v \in Workers \ {w} : pc'[v] = pc[v] /\ cur'[v] = cur[v] /\ Ahead(v)' = Ahead(v)
      BY <3>1 DEF TInv, TypeOK, Ahead
    <3>3. cur[w] + 1 \in Ahead(w) /\ Ahead(w)' \subseteq Ahead(w)
      BY <1>2, <2>1, <2>2, <3>2 DEF Ahead, Busy, Claimed
    <3>4. QED
      BY <1>3, <2>1, <3>2, <3>3 DEF CInv, Claimed
  <2>3. CASE cur[w] = end[w]
    <3>1. /\ pc' = [pc EXCEPT ![w] = "loop"]
          /\ \A v \in Workers \ {w} : cur'[v] = cur[v] /\ end'[v] = end[v]
      BY <1>2, <2>1, <2>3 DEF NextMessage, TInv, TypeOK
    <3>2. QED
      BY <1>5, <2>1, <3>1 DEF Busy, Claimed
  <2>4. QED
    BY <2>1, <2>2, <2>3 DEF NextMessage
<1>15. QED
  BY <1>7, <1>8, <1>9, <1>10, <1>11, <1>12, <1>13, <1>14 DEF Next, Proceed, ReplyLost

----------------------------------------------------------------------------
(***************************************************************************)
(* Effects.  A worker that has claimed its id and not yet had its effect is*)
(* the only one that can: nobody else is at that id, and nobody gets there *)
(* again.                                                                  *)
(***************************************************************************)
EInv ==
    /\ \A k \in DOMAIN effects : effects[k].id \in claims
    /\ OneEffect
    /\ \A w \in Workers : pc[w] \in Claimed /\ cur[w] \notin ambiguous => Effects(cur[w]) = {}

\* Nothing has come out at first.
LEMMA InitEInv == Init => EInv
  BY DEF Init, EInv, OneEffect, Effects, Claimed

\* Every step keeps effects unique.
LEMMA EInvStep ==
  ASSUME TInv, BInv, CInv, EInv, Next
  PROVE  EInv'
<1> USE DEF local, locks, history, qvars, Goto, FirstStop
<1>1. ASSUME UNCHANGED effects, claims \subseteq claims', ambiguous \subseteq ambiguous',
             \A w \in Workers : pc'[w] \in Claimed =>
                 \/ pc[w] \in Claimed /\ cur'[w] = cur[w]
                 \/ cur'[w] \notin claims
      PROVE  EInv'
  BY <1>1 DEF EInv, OneEffect, Effects
<1>2. ASSUME NEW w \in Workers, pc[w] \in Claimed, NEW k, Record(cur[w], k),
             UNCHANGED <<claims, cur>>,
             \/ pc' = [pc EXCEPT ![w] = "ack"] /\ UNCHANGED ambiguous
             \/ UNCHANGED pc /\ ambiguous' = ambiguous \cup {cur[w]}
      PROVE  EInv'
  <2>1. /\ Len(effects) \in Nat /\ DOMAIN effects = 1 .. Len(effects)
        /\ DOMAIN effects' = 1 .. (Len(effects) + 1)
        /\ \A l \in DOMAIN effects : effects'[l] = effects[l]
        /\ effects'[Len(effects) + 1].id = cur[w]
    BY <1>2 DEF Record, TInv, TypeOK
  <2>2. \A l \in DOMAIN effects' : effects'[l].id \in claims'
    BY <1>2, <2>1 DEF EInv, CInv
  <2>3. OneEffect'
    BY <1>2, <2>1 DEF EInv, OneEffect, Effects
  <2>4. \A v \in Workers \ {w} : pc[v] \in Claimed => cur[v] # cur[w]
    <3>1. \A v \in Workers : pc[v] \in Claimed => cur[v] \in Batch(v)
      BY DEF TInv, TypeOK, BatchShape, Batch, Busy, Claimed
    <3>2. QED
      BY <1>2, <3>1 DEF BInv
  <2>5. \A v \in Workers \ {w} : pc'[v] = pc[v]
    BY <1>2 DEF TInv, TypeOK
  <2>6. pc'[w] \in Claimed => cur[w] \in ambiguous'
    BY <1>2 DEF TInv, TypeOK, Claimed
  <2>7. \A v \in Workers : pc'[v] \in Claimed /\ cur'[v] \notin ambiguous' => Effects(cur[v])' = {}
    BY <1>2, <2>1, <2>4, <2>5, <2>6 DEF EInv, Effects
  <2>8. QED
    BY <1>2, <2>2, <2>3, <2>7 DEF EInv, Effects
<1>3. CASE ApiBoot \/ ApiCrash \/ \E e \in Entry : Ingest(e)
  BY <1>1, <1>3 DEF ApiBoot, ApiEnsureGroup, ApiBootTrim, ApiCrash, Ingest
<1>4. CASE \E i \in claims : LockLapses(i)
  BY <1>1, <1>4 DEF LockLapses
<1>5. ASSUME NEW w \in Workers, Signal(w) \/ ReadReplyLost(w) \/ LockReplyLost(w)
      PROVE  EInv'
  BY <1>1, <1>5 DEF Signal, ReadReplyLost, LockReplyLost
<1>6. ASSUME NEW w \in Workers, LockAcquired(w)
      PROVE  EInv'
  <2>1. cur[w] \notin claims \/ cur[w] \in ambiguous
    BY <1>6 DEF CInv, LockAcquired
  <2>2. CASE cur[w] \notin claims
    BY <1>1, <1>6, <2>2 DEF LockAcquired
  <2>3. CASE cur[w] \in ambiguous
    <3>1. \A v \in Workers \ {w} : pc'[v] = pc[v]
      BY <1>6 DEF LockAcquired
    <3>2. QED
      BY <1>6, <2>3, <3>1 DEF LockAcquired, EInv, OneEffect, Effects
  <2>4. QED
    BY <2>1, <2>2, <2>3
<1>7. ASSUME NEW w \in Workers,
             \/ Start(w) \/ Crash(w) \/ LoopExit(w) \/ ReadCancelled(w)
             \/ LoopAgain(w) \/ ReadNothing(w) \/ ReadBatch(w)
             \/ LockDuplicate(w) \/ LockFails(w) \/ HandlerFails(w) \/ BackoffElapsed(w)
             \/ BackoffCancelled(w) \/ DlqFails(w) \/ AckOk(w) \/ AckFails(w)
      PROVE  EInv'
  <2>1. /\ UNCHANGED <<effects, claims, ambiguous>>
        /\ \A v \in Workers \ {w} : pc'[v] = pc[v] /\ cur'[v] = cur[v]
        /\ pc'[w] \in Claimed => pc[w] \in Claimed /\ cur'[w] = cur[w]
    <3>1. CASE Start(w) \/ Crash(w) \/ LoopExit(w) \/ ReadCancelled(w)
      BY <3>1 DEF Start, Crash, LoopExit, ReadCancelled, Down, TInv, TypeOK, Claimed
    <3>2. CASE LoopAgain(w) \/ ReadNothing(w) \/ ReadBatch(w)
      BY <3>2 DEF LoopAgain, ReadNothing, ReadBatch, TInv, TypeOK, Claimed
    <3>3. CASE LockDuplicate(w) \/ LockFails(w) \/ BackoffCancelled(w) \/ DlqFails(w)
      BY <3>3 DEF LockDuplicate, LockFails, BackoffCancelled, DlqFails, TInv, TypeOK, Claimed
    <3>4. CASE HandlerFails(w) \/ BackoffElapsed(w)
      BY <3>4 DEF HandlerFails, BackoffElapsed, TInv, TypeOK, Claimed
    <3>5. CASE AckOk(w) \/ AckFails(w)
      BY <3>5 DEF AckOk, AckFails, NextMessage, TInv, TypeOK, Claimed
    <3>6. QED
      BY <1>7, <3>1, <3>2, <3>3, <3>4, <3>5
  <2>2. QED
    BY <1>1, <2>1
<1>8. ASSUME NEW w \in Workers, HandlerOk(w) \/ HandlerReplyLost(w)
      PROVE  EInv'
  BY <1>2, <1>8 DEF HandlerOk, HandlerReplyLost, Claimed
<1>9. ASSUME NEW w \in Workers, DlqOk(w) \/ DlqReplyLost(w)
      PROVE  EInv'
  BY <1>2, <1>9 DEF DlqOk, DlqReplyLost, Claimed
<1>10. QED
  BY <1>3, <1>4, <1>5, <1>6, <1>7, <1>8, <1>9 DEF Next, Proceed, ReplyLost

----------------------------------------------------------------------------
(***************************************************************************)
(* Nothing is acked in silence.  What reaches the ack has an effect, or a  *)
(* duplicate that holds the lock, or an error that was logged; and what    *)
(* was delivered and is no longer pending reached the ack.                 *)
(***************************************************************************)
Accounted(i) ==
    \/ Effects(i) # {}
    \/ \E j \in claims \ {i} : SameEvent(i, j)
    \/ i \in errored \cup ambiguous

AInv ==
    /\ \A i \in delivered \ pel : Accounted(i)
    /\ \A w \in Workers : pc[w] = "ack" => Accounted(cur[w])

\* Nothing is acked at first.
LEMMA InitAInv == Init => AInv
  BY DEF Init, AInv, QInit

\* The record the account is read from only grows.
RecordGrows ==
    /\ claims \subseteq claims' /\ errored \subseteq errored' /\ ambiguous \subseteq ambiguous'
    /\ \A k \in DOMAIN effects : k \in DOMAIN effects' /\ effects'[k] = effects[k]

\* Appending to effects keeps what was there.
LEMMA RecordAppends ==
  ASSUME TInv, NEW i, NEW k, Record(i, k)
  PROVE  /\ \A n \in DOMAIN effects : n \in DOMAIN effects' /\ effects'[n] = effects[n]
         /\ \E n \in DOMAIN effects' : effects'[n].id = i
<1> DEFINE e == [id |-> i, kind |-> k]
<1>1. effects' = Append(effects, e) /\ e.id = i
  BY DEF Record
<1>2. Len(effects) \in Nat /\ DOMAIN effects = 1 .. Len(effects)
  BY DEF TInv, TypeOK
<1> HIDE DEF e
<1>3. /\ DOMAIN effects' = 1 .. (Len(effects) + 1)
      /\ \A n \in 1 .. Len(effects) : effects'[n] = effects[n]
      /\ effects'[Len(effects) + 1] = e
  BY <1>1, <1>2 DEF TInv, TypeOK
<1>4. QED
  BY <1>1, <1>2, <1>3

\* What is accounted for stays accounted for.
LEMMA AccountedKept ==
  ASSUME TInv, [QNext]_qvars, RecordGrows, NEW i \in Ids, Accounted(i)
  PROVE  Accounted(i)'
<1>1. CASE Effects(i) # {}
  BY <1>1 DEF Effects, RecordGrows, Accounted
<1>2. CASE \E j \in claims \ {i} : SameEvent(i, j)
  <2>1. PICK j \in claims \ {i} : SameEvent(i, j)
    BY <1>2
  <2>2. SameEvent(i, j)'
    BY <2>1, SameEventFixed DEF TInv, TypeOK
  <2>3. QED
    BY <2>1, <2>2 DEF Accounted, RecordGrows
<1>3. CASE i \in errored \cup ambiguous
  BY <1>3 DEF Accounted, RecordGrows
<1>4. QED
  BY <1>1, <1>2, <1>3 DEF Accounted

\* Every step keeps the account.
LEMMA AInvStep ==
  ASSUME TInv, BInv, CInv, AInv, Next
  PROVE  AInv'
<1> USE DEF local, locks, history, qvars, Goto, FirstStop
<1>1. ASSUME RecordGrows
      PROVE  \A i \in Ids : Accounted(i) => Accounted(i)'
  BY <1>1, AccountedKept, StepsAreQueueSteps
<1>2. \A w \in Workers : pc[w] \in Busy => cur[w] \in Ids
  BY DEF TInv, TypeOK, BatchShape, Ids
<1>3. ASSUME RecordGrows, (delivered \ pel)' \subseteq delivered \ pel,
             \A w \in Workers : pc'[w] = "ack" => pc[w] = "ack" /\ cur'[w] = cur[w]
      PROVE  AInv'
  <2>1. \A i \in (delivered \ pel)' : Accounted(i)'
    BY <1>1, <1>3 DEF AInv, TInv, TypeOK, QTypeOK
  <2>2. ASSUME NEW w \in Workers, pc'[w] = "ack"
        PROVE  Accounted(cur[w])'
    <3>1. PICK i \in Ids : i = cur[w]
      BY <1>2, <1>3, <2>2 DEF Busy
    <3>2. Accounted(i)'
      BY <1>1, <1>3, <2>2, <3>1 DEF AInv
    <3>3. i = cur'[w]
      BY <1>3, <2>2, <3>1
    <3>4. QED
      BY <3>2, <3>3 DEF Accounted, Effects, SameEvent
  <2>3. QED
    BY <2>1, <2>2 DEF AInv
<1>4. ASSUME RecordGrows, NEW w \in Workers, NEW i \in Ids, i = cur[w], cur' = cur, Accounted(i)',
             (delivered \ pel)' \subseteq (delivered \ pel) \cup {i},
             \A v \in Workers \ {w} : pc'[v] = pc[v]
      PROVE  AInv'
  <2>1. \A j \in (delivered \ pel)' : Accounted(j)'
    BY <1>1, <1>4 DEF AInv, TInv, TypeOK, QTypeOK
  <2>2. ASSUME NEW v \in Workers, pc'[v] = "ack"
        PROVE  Accounted(cur[v])'
    <3>1. v = w \/ pc[v] = "ack"
      BY <1>4, <2>2
    <3>2. PICK j \in Ids : j = cur[v]
      BY <1>2, <1>4, <3>1 DEF Busy
    <3>3. Accounted(j)'
      BY <1>1, <1>4, <3>1, <3>2 DEF AInv
    <3>4. QED
      BY <1>4, <3>2, <3>3 DEF Accounted, Effects, SameEvent
  <2>3. QED
    BY <2>1, <2>2 DEF AInv
<1>5. UNCHANGED <<claims, history>> => RecordGrows
  BY DEF RecordGrows
<1>6. CASE ApiBoot \/ ApiCrash \/ \E e \in Entry : Ingest(e)
  <2>1. UNCHANGED <<claims, history, pc, cur, delivered, pel>>
    BY <1>6 DEF ApiBoot, ApiEnsureGroup, ApiBootTrim, ApiCrash, Ingest, EnsureGroup, Trim, Publish
  <2>2. QED
    BY <1>3, <1>5, <2>1
<1>7. CASE \E i \in claims : LockLapses(i)
  BY <1>3, <1>5, <1>7 DEF LockLapses
<1>8. ASSUME NEW w \in Workers,
             \/ Start(w) \/ Crash(w) \/ LoopExit(w) \/ ReadCancelled(w)
             \/ LoopAgain(w) \/ ReadNothing(w) \/ ReadBatch(w)
             \/ LockAcquired(w) \/ BackoffElapsed(w)
      PROVE  AInv'
  <2>1. RecordGrows
    BY <1>8 DEF Start, Crash, LoopExit, ReadCancelled, LoopAgain, ReadNothing, ReadBatch,
                LockAcquired, BackoffElapsed, Down, RecordGrows
  <2>2. (delivered \ pel)' \subseteq delivered \ pel
    BY <1>8 DEF Start, Crash, LoopExit, ReadCancelled, LoopAgain, ReadNothing, ReadBatch,
                LockAcquired, BackoffElapsed, Down, EnsureGroup, Read
  <2>3. \A v \in Workers : pc'[v] = "ack" => pc[v] = "ack" /\ cur'[v] = cur[v]
    BY <1>8 DEF Start, Crash, LoopExit, ReadCancelled, LoopAgain, ReadNothing, ReadBatch,
                LockAcquired, BackoffElapsed, Down, TInv, TypeOK
  <2>4. QED
    BY <1>3, <2>1, <2>2, <2>3
<1>9. ASSUME NEW w \in Workers, Signal(w) \/ ReadReplyLost(w) \/ LockReplyLost(w)
      PROVE  AInv'
  <2>1. RecordGrows /\ UNCHANGED <<pc, cur>>
    BY <1>9 DEF Signal, ReadReplyLost, LockReplyLost, RecordGrows
  <2>2. (delivered \ pel)' \subseteq delivered \ pel
    BY <1>9 DEF Signal, ReadReplyLost, LockReplyLost, Read
  <2>3. QED
    BY <1>3, <2>1, <2>2
<1>10. ASSUME NEW w \in Workers, HandlerOk(w) \/ HandlerReplyLost(w) \/ DlqOk(w) \/ DlqReplyLost(w)
       PROVE  AInv'
  <2>1. PICK k : Record(cur[w], k)
    BY <1>10 DEF HandlerOk, HandlerReplyLost, DlqOk, DlqReplyLost
  <2>2. PICK i \in Ids : i = cur[w]
    BY <1>2, <1>10 DEF HandlerOk, HandlerReplyLost, DlqOk, DlqReplyLost, Busy, Claimed
  <2>3. /\ UNCHANGED <<claims, errored, cur, delivered, pel>> /\ ambiguous \subseteq ambiguous'
        /\ \A v \in Workers \ {w} : pc'[v] = pc[v]
    BY <1>10 DEF HandlerOk, HandlerReplyLost, DlqOk, DlqReplyLost, TInv, TypeOK
  <2>4. RecordGrows /\ Accounted(i)'
    BY <2>1, <2>2, <2>3, RecordAppends DEF RecordGrows, Accounted, Effects
  <2>5. QED
    BY <1>4, <2>2, <2>3, <2>4
<1>11. ASSUME NEW w \in Workers, LockDuplicate(w)
       PROVE  AInv'
  <2>1. PICK i \in Ids : i = cur[w]
    BY <1>2, <1>11 DEF LockDuplicate, Busy
  <2>2. PICK j \in claims : SameEvent(i, j)
    BY <1>11, <2>1 DEF LockDuplicate, Locked
  <2>3. Accounted(i)
    BY <1>11, <2>1, <2>2 DEF LockDuplicate, CInv, Accounted
  <2>4. /\ UNCHANGED <<claims, history, cur, delivered, pel>>
        /\ \A v \in Workers \ {w} : pc'[v] = pc[v]
    BY <1>11 DEF LockDuplicate, TInv, TypeOK
  <2>5. QED
    BY <1>1, <1>4, <1>5, <2>1, <2>3, <2>4
<1>12. ASSUME NEW w \in Workers, HandlerFails(w)
       PROVE  AInv'
  <2>1. UNCHANGED <<claims, history, cur, delivered, pel>>
    BY <1>12 DEF HandlerFails
  <2>2. \A v \in Workers : pc'[v] = "ack" => pc[v] = "ack"
    BY <1>12 DEF HandlerFails, AfterFailure, TInv, TypeOK
  <2>3. QED
    BY <1>3, <1>5, <2>1, <2>2
<1>13. ASSUME NEW w \in Workers, LockFails(w) \/ BackoffCancelled(w) \/ DlqFails(w)
       PROVE  AInv'
  <2>1. PICK i \in Ids : i = cur[w]
    BY <1>2, <1>13 DEF LockFails, BackoffCancelled, DlqFails, Busy, Claimed
  <2>2. /\ UNCHANGED <<claims, ambiguous, effects, cur, delivered, pel>>
        /\ errored' = errored \cup {i}
        /\ \A v \in Workers \ {w} : pc'[v] = pc[v]
    BY <1>13, <2>1 DEF LockFails, BackoffCancelled, DlqFails, TInv, TypeOK
  <2>3. RecordGrows /\ Accounted(i)'
    BY <2>2 DEF RecordGrows, Accounted
  <2>4. QED
    BY <1>4, <2>1, <2>2, <2>3
<1>14. ASSUME NEW w \in Workers, AckOk(w) \/ AckFails(w)
       PROVE  AInv'
  <2>1. PICK i \in Ids : i = cur[w]
    BY <1>2, <1>14 DEF AckOk, AckFails, Busy
  <2>2. Accounted(i) /\ RecordGrows
    BY <1>14, <1>5, <2>1 DEF AckOk, AckFails, AInv
  <2>3. Accounted(i)'
    BY <1>1, <2>2
  <2>4. (delivered \ pel)' \subseteq (delivered \ pel) \cup {i}
    BY <1>14, <2>1 DEF AckOk, AckFails, Ack, AckTarget
  <2>5. \A v \in Workers : pc'[v] = "ack" => pc[v] = "ack" /\ cur'[v] = cur[v]
    BY <1>14 DEF AckOk, AckFails, NextMessage, TInv, TypeOK
  <2>6. \A j \in (delivered \ pel)' : Accounted(j)'
    BY <1>1, <2>2, <2>3, <2>4 DEF AInv, TInv, TypeOK, QTypeOK
  <2>7. ASSUME NEW v \in Workers, pc'[v] = "ack"
        PROVE  Accounted(cur[v])'
    <3>1. PICK j \in Ids : j = cur[v]
      BY <1>2, <2>5, <2>7 DEF Busy
    <3>2. Accounted(j)' /\ j = cur'[v]
      BY <1>1, <2>2, <2>5, <2>7, <3>1 DEF AInv
    <3>3. QED
      BY <3>2 DEF Accounted, Effects, SameEvent
  <2>8. QED
    BY <2>6, <2>7 DEF AInv
<1>15. QED
  BY <1>6, <1>7, <1>8, <1>9, <1>10, <1>11, <1>12, <1>13, <1>14 DEF Next, Proceed, ReplyLost

----------------------------------------------------------------------------
\* The inductive invariant of the fleet.
FleetInv == TInv /\ BInv /\ CInv /\ EInv /\ AInv

\* It holds in every state the fleet reaches.
LEMMA FleetInvAlways == Spec => []FleetInv
<1>1. Init => FleetInv
  BY InitTInv, InitBInv, InitCInv, InitEInv, InitAInv DEF FleetInv
<1>2. FleetInv /\ [Next]_vars => FleetInv'
  <2>1. ASSUME FleetInv, Next
        PROVE  FleetInv'
    BY <2>1, TInvStep, BInvStep, CInvStep, EInvStep, AInvStep DEF FleetInv
  <2>2. ASSUME FleetInv, UNCHANGED vars
        PROVE  FleetInv'
    <3> USE <2>2 DEF FleetInv, vars, qvars, local, locks, history
    <3>1. TInv'
      BY DEF TInv, TypeOK, BatchShape, QTypeOK, QInv, NothingSkipped, PendingWasDelivered,
             Ids, NextId, Lag
    <3>2. BInv'
      BY DEF BInv, Batch, Held
    <3>3. CInv'
      BY DEF CInv, OneLiveClaim, SameEvent, Ahead
    <3>4. EInv'
      BY DEF EInv, OneEffect, Effects
    <3>5. AInv'
      BY DEF AInv, Accounted, SameEvent, Effects
    <3>6. QED
      BY <3>1, <3>2, <3>3, <3>4, <3>5
  <2>3. QED
    BY <2>1, <2>2
<1>3. QED
  BY <1>1, <1>2, PTL DEF Spec

\* An entry leads to at most one XADD downstream, unless a reply was lost.
THEOREM OneEffectPerEntry == Spec => []OneEffect
<1>1. FleetInv => OneEffect
  BY DEF FleetInv, EInv
<1>2. QED
  BY <1>1, FleetInvAlways, PTL

\* One X-Event-Id leads to one XADD downstream, over all its entries and all
\* workers, as long as its locks last and no reply is lost.
THEOREM OneEffectPerEvent == Spec => []ProcessedOnce
<1>1. FleetInv => ProcessedOnce
  <2>1. ASSUME FleetInv, NEW k \in DOMAIN effects, NEW l \in DOMAIN effects,
               SameEvent(effects[k].id, effects[l].id),
               {effects[k].id, effects[l].id} \cap (lapsed \cup ambiguous) = {}
        PROVE  k = l
    <3>1. {effects[k].id, effects[l].id} \subseteq claims \ lapsed
      BY <2>1 DEF FleetInv, EInv
    <3>2. effects[k].id = effects[l].id
      BY <2>1, <3>1 DEF FleetInv, CInv, OneLiveClaim
    <3>3. QED
      BY <2>1, <3>2 DEF FleetInv, EInv, OneEffect
  <2>2. QED
    BY <2>1 DEF ProcessedOnce
<1>2. QED
  BY <1>1, FleetInvAlways, PTL

\* What is acked had its effect, or duplicates an event that holds the lock, or
\* left an error in the log, or lost a reply on the way.
THEOREM NoSilentAck == Spec => []AckedIsAccountedFor
<1>1. FleetInv => AckedIsAccountedFor
  BY DEF FleetInv, AInv, Accounted, AckedIsAccountedFor
<1>2. QED
  BY <1>1, FleetInvAlways, PTL

----------------------------------------------------------------------------
(***************************************************************************)
(* Stranded entries.  They are the pending ones in nobody's batch: a new   *)
(* batch starts behind all of them, and an ack names one of a batch.       *)
(***************************************************************************)

\* An entry is stranded when it is pending and in no batch.
LEMMA StrandedMeans ==
  TInv => Stranded = {i \in pel : \A w \in Workers : i \notin Batch(w)}
<1> SUFFICES ASSUME TInv, NEW i \in pel, NEW w \in Workers
             PROVE  i \notin Held(w) /\ ~(pc[w] = "ack" /\ cur[w] = i) <=> i \notin Batch(w)
  BY DEF Stranded
<1>1. cur[w] \in Int /\ end[w] \in Int /\ i \in Int
  BY DEF TInv, TypeOK, QTypeOK, Ids
<1>2. pc[w] \in Busy => cur[w] <= end[w]
  BY DEF TInv, TypeOK, BatchShape
<1>3. QED
  BY <1>1, <1>2 DEF Held, Batch, Busy, Claimed

\* A step of worker w that does not ack and takes no batch leaves what is
\* pending and outside of the batches there.
LEMMA StrandedKept ==
  ASSUME TInv, NEW w \in Workers, NEW l \in Busy \cup {"down", "loop", "read"},
         l \in Busy => pc[w] \in Busy /\ UNCHANGED <<cur, end>>,
         Goto(w, l), \A v \in Workers \ {w} : cur'[v] = cur[v] /\ end'[v] = end[v]
  PROVE  \A v \in Workers : Batch(v)' \subseteq Batch(v)
<1>1. pc' = [pc EXCEPT ![w] = l] /\ pc \in [Workers -> Busy \cup {"down", "loop", "read"}]
  BY DEF Goto, TInv, TypeOK
<1>2. QED
  BY <1>1 DEF Batch

\* Every step keeps them.
LEMMA StrandedStep ==
  ASSUME TInv, Next, NEW i \in pel, \A w \in Workers : i \notin Batch(w)
  PROVE  i \in pel' /\ \A w \in Workers : i \notin Batch(w)'
<1> USE DEF local, locks, history, qvars
<1>1. ASSUME pel \subseteq pel', \A v \in Workers : Batch(v)' \subseteq Batch(v)
      PROVE  i \in pel' /\ \A w \in Workers : i \notin Batch(w)'
  BY <1>1
<1>2. ASSUME pel \subseteq pel', UNCHANGED <<pc, cur, end>>
      PROVE  i \in pel' /\ \A w \in Workers : i \notin Batch(w)'
  BY <1>2 DEF Batch
<1>3. CASE ApiBoot \/ ApiCrash \/ (\E e \in Entry : Ingest(e)) \/ \E j \in claims : LockLapses(j)
  BY <1>2, <1>3 DEF ApiBoot, ApiEnsureGroup, ApiBootTrim, ApiCrash, Ingest, EnsureGroup, Trim,
                    Publish, LockLapses
<1>4. ASSUME NEW w \in Workers, Signal(w) \/ ReplyLost(w)
      PROVE  i \in pel' /\ \A v \in Workers : i \notin Batch(v)'
  BY <1>2, <1>4 DEF Signal, ReplyLost, ReadReplyLost, LockReplyLost, HandlerReplyLost,
                    DlqReplyLost, Read
<1>5. ASSUME NEW w \in Workers, Start(w) \/ LoopAgain(w) \/ ReadNothing(w)
      PROVE  i \in pel' /\ \A v \in Workers : i \notin Batch(v)'
  <2>1. UNCHANGED <<pel, cur, end>> /\ (Goto(w, "loop") \/ Goto(w, "read"))
    BY <1>5 DEF Start, EnsureGroup, LoopAgain, ReadNothing
  <2>2. QED
    BY <1>1, <2>1, StrandedKept DEF Busy, Claimed
<1>6. ASSUME NEW w \in Workers, Crash(w) \/ LoopExit(w) \/ ReadCancelled(w)
      PROVE  i \in pel' /\ \A v \in Workers : i \notin Batch(v)'
  <2>1. /\ Goto(w, "down") /\ UNCHANGED pel
        /\ \A v \in Workers \ {w} : cur'[v] = cur[v] /\ end'[v] = end[v]
    BY <1>6 DEF Crash, LoopExit, ReadCancelled, Down, TInv, TypeOK
  <2>2. QED
    BY <1>1, <2>1, StrandedKept DEF Busy, Claimed
<1>7. ASSUME NEW w \in Workers,
             \/ LockAcquired(w) \/ LockDuplicate(w) \/ LockFails(w)
             \/ HandlerOk(w) \/ HandlerFails(w) \/ BackoffElapsed(w) \/ BackoffCancelled(w)
             \/ DlqOk(w) \/ DlqFails(w)
      PROVE  i \in pel' /\ \A v \in Workers : i \notin Batch(v)'
  <2>1. /\ \E l \in Busy : Goto(w, l)
        /\ pc[w] \in Busy /\ UNCHANGED <<cur, end, pel>>
    BY <1>7 DEF LockAcquired, FirstStop, LockDuplicate, LockFails, HandlerOk, HandlerFails,
                AfterFailure, BackoffElapsed, BackoffCancelled, DlqOk, DlqFails, Busy, Claimed
  <2>2. QED
    BY <1>1, <2>1, StrandedKept
<1>8. ASSUME NEW w \in Workers, ReadBatch(w)
      PROVE  i \in pel' /\ \A v \in Workers : i \notin Batch(v)'
  <2>1. /\ pc' = [pc EXCEPT ![w] = "lock"] /\ cur' = [cur EXCEPT ![w] = NextId]
        /\ end' = [end EXCEPT ![w] = BatchEnd] /\ pel \subseteq pel'
        /\ pc[w] = "read" /\ Lag > 0
    BY <1>8 DEF ReadBatch, Read, Goto
  <2>2. /\ Batch(w)' = NextId .. BatchEnd
        /\ \A v \in Workers \ {w} : Batch(v)' = Batch(v)
    BY <2>1 DEF TInv, TypeOK, Batch, Busy, Claimed
  <2>3. i \in Int /\ i <= last
    BY DEF TInv, QInv, PendingWasDelivered, TypeOK, QTypeOK, Ids
  <2>4. i \notin NextId .. BatchEnd
    BY <2>1, <2>3, BatchBounds DEF TInv, TypeOK, QTypeOK
  <2>5. QED
    BY <2>1, <2>2, <2>4
<1>9. ASSUME NEW w \in Workers, AckOk(w) \/ AckFails(w)
      PROVE  i \in pel' /\ \A v \in Workers : i \notin Batch(v)'
  <2>1. pc[w] = "ack" /\ NextMessage(w) /\ pel \ {cur[w]} \subseteq pel'
    BY <1>9 DEF AckOk, AckFails, Ack, AckTarget
  <2>2. cur[w] \in 1 .. end[w] /\ end[w] \in Int
    BY <2>1 DEF TInv, TypeOK, BatchShape, Busy, Claimed
  <2>3. cur[w] \in Batch(w)
    BY <2>1, <2>2 DEF Batch, Busy, Claimed
  <2>4. \A v \in Workers \ {w} : Batch(v)' = Batch(v)
    BY <2>1 DEF NextMessage, Goto, TInv, TypeOK, Batch
  <2>5. Batch(w)' \subseteq Batch(w)
    <3>1. CASE cur[w] < end[w]
      <4>1. cur'[w] = cur[w] + 1 /\ end'[w] = end[w]
        BY <2>1, <2>2, <3>1 DEF NextMessage, TInv, TypeOK
      <4>2. QED
        BY <2>1, <2>2, <4>1 DEF Batch, Busy, Claimed
    <3>2. CASE cur[w] = end[w]
      BY <2>1, <2>2, <3>2 DEF NextMessage, Goto, TInv, TypeOK, Batch, Busy, Claimed
    <3>3. QED
      BY <2>2, <3>1, <3>2
  <2>6. QED
    BY <2>1, <2>3, <2>4, <2>5
<1>10. QED
  BY <1>3, <1>4, <1>5, <1>6, <1>7, <1>8, <1>9 DEF Next, Proceed

\* What a crash, a failed ack or a lost reply left pending stays pending, and
\* no worker, whichever restarts, ever has it again.
THEOREM NothingIsReclaimed == Spec => StrandedForGood
<1>1. ASSUME TInv, Next, TInv'
      PROVE  Stranded \subseteq Stranded'
  <2>1. Stranded' = {i \in pel' : \A w \in Workers : i \notin Batch(w)'}
    <3>1. (TInv => Stranded = {i \in pel : \A w \in Workers : i \notin Batch(w)})'
      BY StrandedMeans, PTL
    <3>2. QED
      BY <1>1, <3>1
  <2>2. QED
    BY <1>1, <2>1, StrandedMeans, StrandedStep
<1>2. TInv /\ [Next]_vars => [Stranded \subseteq Stranded']_vars
  BY <1>1, TInvStep
<1>3. QED
  BY <1>2, TInvAlways, PTL DEF Spec, StrandedForGood

----------------------------------------------------------------------------
(***************************************************************************)
(* Order.  A worker alone works through the stream from its old end: what  *)
(* it recorded downstream is never of an entry younger than the one it is  *)
(* at.                                                                     *)
(***************************************************************************)
Alone == \A v, w \in Workers : v = w

OInv ==
    Alone =>
        /\ \A k, l \in DOMAIN effects : k < l => effects[k].id <= effects[l].id
        /\ \A k \in DOMAIN effects : effects[k].id <= last
        /\ \A k \in DOMAIN effects, w \in Workers :
               pc[w] \in Busy => effects[k].id <= cur[w]

\* The elements of a sequence over a set are of that set.
LEMMA ElementsOf ==
  ASSUME NEW S, NEW s \in Seq(S)
  PROVE  /\ DOMAIN s = 1 .. Len(s) /\ Len(s) \in Nat
         /\ \A k \in DOMAIN s : s[k] \in S
  OBVIOUS

\* Every step keeps the order.
LEMMA OInvStep ==
  ASSUME TInv, OInv, Next
  PROVE  OInv'
<1> SUFFICES ASSUME Alone
             PROVE  /\ \A k, l \in DOMAIN effects' : k < l => effects'[k].id <= effects'[l].id
                    /\ \A k \in DOMAIN effects' : effects'[k].id <= last'
                    /\ \A k \in DOMAIN effects', w \in Workers :
                           pc'[w] \in Busy => effects'[k].id <= cur'[w]
  BY DEF OInv, Alone
<1> DEFINE Goal == /\ \A k, l \in DOMAIN effects' : k < l => effects'[k].id <= effects'[l].id
                   /\ \A k \in DOMAIN effects' : effects'[k].id <= last'
                   /\ \A k \in DOMAIN effects', w \in Workers :
                          pc'[w] \in Busy => effects'[k].id <= cur'[w]
<1> USE DEF local, locks, history
<1>1. last \in Nat /\ last' \in Nat /\ last <= last'
  <2>1. QTypeOK /\ QTypeOK'
    BY TInvStep DEF TInv, TypeOK
  <2>2. QED
    BY <2>1, StepsAreQueueSteps, QueueGrows DEF QTypeOK
<1>2. /\ \A k \in DOMAIN effects : effects[k].id \in Nat
      /\ DOMAIN effects = 1 .. Len(effects) /\ Len(effects) \in Nat
      /\ cur \in [Workers -> Nat] /\ pc \in [Workers -> Busy \cup {"down", "loop", "read"}]
  <2>1. /\ effects \in Seq([id : Ids, kind : {"published", "deadLettered"}])
        /\ Len(stream) \in Nat
    BY DEF TInv, TypeOK, QTypeOK
  <2>2. /\ DOMAIN effects = 1 .. Len(effects) /\ Len(effects) \in Nat
        /\ \A k \in DOMAIN effects : effects[k] \in [id : Ids, kind : {"published", "deadLettered"}]
    BY <2>1, ElementsOf
  <2>3. \A k \in DOMAIN effects : effects[k].id \in Nat
    BY <2>1, <2>2 DEF Ids
  <2>4. cur \in [Workers -> Nat] /\ pc \in [Workers -> Busy \cup {"down", "loop", "read"}]
    BY <2>1 DEF TInv, TypeOK
  <2>5. QED
    BY <2>2, <2>3, <2>4
<1>3. ASSUME UNCHANGED effects,
             \A w \in Workers : pc'[w] \in Busy =>
                 cur'[w] \in Nat /\ (last < cur'[w] \/ (pc[w] \in Busy /\ cur[w] <= cur'[w]))
      PROVE  Goal
  <2>1. ASSUME NEW k \in DOMAIN effects, NEW w \in Workers, pc'[w] \in Busy
        PROVE  effects[k].id <= cur'[w]
    BY <1>1, <1>2, <1>3, <2>1 DEF OInv
  <2>2. \A k \in DOMAIN effects : effects[k].id <= last'
    BY <1>1, <1>2 DEF OInv
  <2>3. QED
    BY <1>3, <2>1, <2>2 DEF OInv
<1>4. ASSUME NEW w \in Workers, pc[w] \in Busy, NEW k, Record(cur[w], k), UNCHANGED cur
      PROVE  Goal
  <2>1. /\ DOMAIN effects' = 1 .. (Len(effects) + 1)
        /\ \A n \in DOMAIN effects : effects'[n] = effects[n]
        /\ effects'[Len(effects) + 1].id = cur[w]
    <3> DEFINE e == [id |-> cur[w], kind |-> k]
    <3>1. effects' = Append(effects, e) /\ e.id = cur[w]
      BY <1>4 DEF Record
    <3> HIDE DEF e
    <3>2. QED
      BY <1>2, <3>1 DEF TInv, TypeOK
  <2>2. cur[w] \in Nat /\ cur[w] <= last
    BY <1>1, <1>2, <1>4 DEF TInv, TypeOK, QTypeOK, BatchShape
  <2>3. \A n \in DOMAIN effects : effects'[n].id <= cur[w]
    BY <1>4, <2>1 DEF OInv
  <2>4. \A n \in DOMAIN effects' : effects'[n].id \in Nat /\ effects'[n].id <= cur[w]
    BY <1>2, <2>1, <2>2, <2>3
  <2>5. \A m, n \in DOMAIN effects' : m < n => effects'[m].id <= effects'[n].id
    <3>1. SUFFICES ASSUME NEW m \in DOMAIN effects', NEW n \in DOMAIN effects', m < n
                   PROVE  effects'[m].id <= effects'[n].id
      OBVIOUS
    <3>2. CASE n \in DOMAIN effects
      BY <1>2, <2>1, <3>1, <3>2 DEF OInv
    <3>3. CASE n = Len(effects) + 1
      BY <2>1, <2>4, <3>3
    <3>4. QED
      BY <1>2, <2>1, <3>2, <3>3
  <2>6. \A v \in Workers : cur'[v] = cur[w]
    BY <1>4 DEF Alone
  <2>7. QED
    BY <1>1, <2>2, <2>4, <2>5, <2>6
<1>5. CASE ApiBoot \/ ApiCrash \/ (\E e \in Entry : Ingest(e)) \/ \E j \in claims : LockLapses(j)
  <2>1. UNCHANGED <<effects, pc, cur>>
    BY <1>5 DEF ApiBoot, ApiEnsureGroup, ApiBootTrim, ApiCrash, Ingest, LockLapses
  <2>2. QED
    BY <1>2, <1>3, <2>1
<1>6. ASSUME NEW w \in Workers,
             \/ Start(w) \/ Crash(w) \/ LoopAgain(w) \/ LoopExit(w) \/ ReadNothing(w)
             \/ ReadCancelled(w)
      PROVE  Goal
  <2>1. UNCHANGED effects /\ \E l \in {"down", "loop", "read"} : pc' = [pc EXCEPT ![w] = l]
    BY <1>6 DEF Start, Crash, LoopAgain, LoopExit, ReadNothing, ReadCancelled, Down, Goto
  <2>2. \A v \in Workers : pc'[v] \notin Busy
    BY <1>2, <2>1 DEF Alone, Busy, Claimed
  <2>3. QED
    BY <1>3, <2>1, <2>2
<1>7. ASSUME NEW w \in Workers,
             \/ Signal(w) \/ ReadReplyLost(w) \/ LockReplyLost(w)
             \/ LockAcquired(w) \/ LockDuplicate(w) \/ LockFails(w)
             \/ HandlerFails(w) \/ BackoffElapsed(w) \/ BackoffCancelled(w) \/ DlqFails(w)
      PROVE  Goal
  <2>1. UNCHANGED <<effects, cur>>
    BY <1>7 DEF Signal, ReadReplyLost, LockReplyLost, LockAcquired, LockDuplicate, LockFails,
                HandlerFails, BackoffElapsed, BackoffCancelled, DlqFails
  <2>2. pc' = pc \/ pc[w] \in Busy
    BY <1>7 DEF Signal, ReadReplyLost, LockReplyLost, LockAcquired, LockDuplicate, LockFails,
                HandlerFails, BackoffElapsed, BackoffCancelled, DlqFails, Busy, Claimed
  <2>3. QED
    BY <1>2, <1>3, <2>1, <2>2 DEF Alone
<1>8. ASSUME NEW w \in Workers, HandlerOk(w) \/ HandlerReplyLost(w) \/ DlqOk(w) \/ DlqReplyLost(w)
      PROVE  Goal
  <2>1. /\ pc[w] \in Busy /\ UNCHANGED cur
        /\ Record(cur[w], "published") \/ Record(cur[w], "deadLettered")
    BY <1>8 DEF HandlerOk, HandlerReplyLost, DlqOk, DlqReplyLost, Busy, Claimed
  <2>2. QED
    BY <1>4, <2>1
<1>9. ASSUME NEW w \in Workers, ReadBatch(w)
      PROVE  Goal
  <2>1. UNCHANGED effects /\ cur' = [cur EXCEPT ![w] = NextId]
    BY <1>9 DEF ReadBatch
  <2>2. NextId \in Nat /\ last < NextId
    BY BatchBounds DEF TInv, TypeOK
  <2>3. \A v \in Workers : cur'[v] = NextId
    BY <1>2, <2>1 DEF Alone
  <2>4. QED
    BY <1>3, <2>1, <2>2, <2>3
<1>10. ASSUME NEW w \in Workers, AckOk(w) \/ AckFails(w)
       PROVE  Goal
  <2>1. UNCHANGED effects /\ pc[w] \in Busy /\ NextMessage(w)
    BY <1>10 DEF AckOk, AckFails, Busy
  <2>2. \/ cur'[w] = cur[w] + 1
        \/ pc'[w] = "loop"
    BY <1>2, <2>1 DEF NextMessage, Goto
  <2>3. pc'[w] \in Busy => cur'[w] = cur[w] + 1
    BY <2>2 DEF Busy, Claimed
  <2>4. QED
    BY <1>2, <1>3, <2>1, <2>3 DEF Alone
<1>11. QED
  BY <1>5, <1>6, <1>7, <1>8, <1>9, <1>10 DEF Next, Proceed, ReplyLost

\* One worker alone publishes each tenant's events in the order of the queue,
\* over crashes, restarts, retries and lost replies.
THEOREM OneWorkerKeepsOrder == Spec => [](Alone => TenantOrder)
<1>1. Init => OInv
  BY DEF Init, OInv
<1>2. ASSUME TInv, OInv, [Next]_vars
      PROVE  OInv'
  <2>1. CASE UNCHANGED vars
    BY <1>2, <2>1 DEF OInv, Alone, vars, qvars, local, history
  <2>2. QED
    BY <1>2, <2>1, OInvStep
<1>3. OInv => (Alone => TenantOrder)
  BY DEF OInv, TenantOrder
<1>4. QED
  BY <1>1, <1>2, <1>3, TInvAlways, PTL DEF Spec

\* What is pending was delivered, and nothing is delivered beyond the cursor.
THEOREM PendingIsDelivered == Spec => []PendingWasDelivered
<1>1. TInv => PendingWasDelivered
  BY DEF TInv, QInv
<1>2. QED
  BY <1>1, TInvAlways, PTL

----------------------------------------------------------------------------
(***************************************************************************)
(* What became of an event.  An entry that took the lock is pending until  *)
(* something is recorded of it: an effect, an error, a lost reply.  What   *)
(* is pending is in a batch or stranded, and with the account that AInv    *)
(* keeps of acked entries this leaves nothing out.                         *)
(***************************************************************************)
Recorded(i) == Effects(i) # {} \/ i \in errored \cup ambiguous

RInv ==
    /\ \A i \in claims \ pel : Recorded(i)
    /\ \A w \in Workers : pc[w] = "ack" /\ cur[w] \in claims => Recorded(cur[w])

\* Every step records what it finishes.
LEMMA RInvStep ==
  ASSUME FleetInv, RInv, Next
  PROVE  RInv'
<1> USE DEF local, locks, history, qvars, Goto, FirstStop
<1>0. TInv /\ BInv /\ CInv
  BY DEF FleetInv
<1>1. ASSUME RecordGrows, NEW i, Recorded(i)
      PROVE  Recorded(i)'
  BY <1>1 DEF RecordGrows, Recorded, Effects
<1>2. ASSUME RecordGrows, claims' = claims, pel \subseteq pel',
             \A w \in Workers : pc'[w] = "ack" => pc[w] = "ack" /\ cur'[w] = cur[w]
      PROVE  RInv'
  BY <1>1, <1>2 DEF RInv, Recorded, Effects
<1>3. ASSUME RecordGrows, UNCHANGED <<claims, cur, pel>>, NEW w \in Workers,
             \A v \in Workers \ {w} : pc'[v] = pc[v],
             pc'[w] = "ack" /\ cur[w] \in claims => Recorded(cur[w])'
      PROVE  RInv'
  <2>1. \A i \in claims' \ pel' : Recorded(i)'
    BY <1>1, <1>3 DEF RInv
  <2>2. ASSUME NEW v \in Workers, pc'[v] = "ack", cur'[v] \in claims'
        PROVE  Recorded(cur[v])'
    BY <1>1, <1>3, <2>2 DEF RInv, Recorded, Effects
  <2>3. QED
    BY <2>1, <2>2 DEF RInv
<1>4. UNCHANGED history /\ claims \subseteq claims' => RecordGrows
  BY DEF RecordGrows
<1>5. CASE ApiBoot \/ ApiCrash \/ (\E e \in Entry : Ingest(e)) \/ \E i \in claims : LockLapses(i)
  <2>1. UNCHANGED <<claims, history, pc, cur, pel>>
    BY <1>5 DEF ApiBoot, ApiEnsureGroup, ApiBootTrim, ApiCrash, Ingest, EnsureGroup, Trim, Publish,
                LockLapses
  <2>2. QED
    BY <1>2, <1>4, <2>1
<1>6. ASSUME NEW w \in Workers,
             \/ Start(w) \/ Crash(w) \/ Signal(w) \/ LoopExit(w) \/ ReadCancelled(w)
             \/ LoopAgain(w) \/ ReadNothing(w) \/ ReadBatch(w) \/ ReadReplyLost(w)
             \/ HandlerFails(w) \/ BackoffElapsed(w)
      PROVE  RInv'
  <2>1. UNCHANGED <<claims, history>>
    BY <1>6 DEF Start, Crash, Signal, LoopExit, ReadCancelled, LoopAgain, ReadNothing, ReadBatch,
                ReadReplyLost, HandlerFails, BackoffElapsed, Down
  <2>2. pel \subseteq pel'
    BY <1>6 DEF Start, Crash, Signal, LoopExit, ReadCancelled, LoopAgain, ReadNothing, ReadBatch,
                ReadReplyLost, HandlerFails, BackoffElapsed, Down, EnsureGroup, Read
  <2>3. \A v \in Workers : pc'[v] = "ack" => pc[v] = "ack" /\ cur'[v] = cur[v]
    BY <1>0, <1>6 DEF Start, Crash, Signal, LoopExit, ReadCancelled, LoopAgain, ReadNothing,
                ReadBatch, ReadReplyLost, HandlerFails, AfterFailure, BackoffElapsed, Down, TInv, TypeOK
  <2>4. QED
    BY <1>2, <1>4, <2>1, <2>2, <2>3
<1>7. ASSUME NEW w \in Workers, LockAcquired(w)
      PROVE  RInv'
  <2>1. /\ claims' = claims \cup {cur[w]} /\ UNCHANGED <<history, cur, end, pel>>
        /\ pc[w] = "lock" /\ pc'[w] # "ack" /\ \A v \in Workers \ {w} : pc'[v] = pc[v]
    BY <1>0, <1>7 DEF LockAcquired, TInv, TypeOK
  <2>2. \A v \in Workers : pc[v] \in Busy => cur[v] \in Batch(v)
    BY <1>0 DEF TInv, TypeOK, BatchShape, Batch
  <2>3. cur[w] \in pel
    <3>1. cur[w] \in Held(w)
      BY <2>1, <2>2 DEF Held, Batch, Busy, Claimed
    <3>2. QED
      BY <1>0, <3>1 DEF BInv
  <2>4. \A v \in Workers \ {w} : pc[v] = "ack" => cur[v] # cur[w]
    BY <1>0, <2>1, <2>2 DEF BInv, Busy, Claimed
  <2>5. \A i : Recorded(i) => Recorded(i)'
    BY <1>1, <1>4, <2>1
  <2>6. \A v \in Workers : pc'[v] = "ack" /\ cur'[v] \in claims' => Recorded(cur[v])'
    BY <2>1, <2>4, <2>5 DEF RInv, Recorded, Effects
  <2>7. QED
    BY <2>1, <2>3, <2>5, <2>6 DEF RInv
<1>8. ASSUME NEW w \in Workers, LockReplyLost(w)
      PROVE  RInv'
  <2>1. /\ claims' = claims \cup {cur[w]} /\ ambiguous' = ambiguous \cup {cur[w]}
        /\ UNCHANGED <<effects, errored, cur, pc, pel>>
    BY <1>8 DEF LockReplyLost
  <2>2. RecordGrows
    BY <2>1 DEF RecordGrows
  <2>3. \A i : (Recorded(i) \/ i = cur[w]) => Recorded(i)'
    BY <1>1, <2>1, <2>2 DEF Recorded
  <2>4. QED
    BY <2>1, <2>3 DEF RInv, Recorded, Effects
<1>9. ASSUME NEW w \in Workers, HandlerOk(w) \/ HandlerReplyLost(w) \/ DlqOk(w) \/ DlqReplyLost(w)
      PROVE  RInv'
  <2>1. PICK k : Record(cur[w], k)
    BY <1>9 DEF HandlerOk, HandlerReplyLost, DlqOk, DlqReplyLost
  <2>2. /\ UNCHANGED <<claims, errored, cur, pel>> /\ ambiguous \subseteq ambiguous'
        /\ \A v \in Workers \ {w} : pc'[v] = pc[v]
    BY <1>0, <1>9 DEF HandlerOk, HandlerReplyLost, DlqOk, DlqReplyLost, TInv, TypeOK
  <2>3. RecordGrows /\ Recorded(cur[w])'
    BY <1>0, <2>1, <2>2, RecordAppends DEF RecordGrows, Recorded, Effects
  <2>4. QED
    BY <1>3, <2>2, <2>3
<1>10. ASSUME NEW w \in Workers, LockDuplicate(w)
       PROVE  RInv'
  <2>1. UNCHANGED <<claims, history, cur, pel>> /\ \A v \in Workers \ {w} : pc'[v] = pc[v]
    BY <1>0, <1>10 DEF LockDuplicate, TInv, TypeOK
  <2>2. cur[w] \in claims => cur[w] \in ambiguous'
    BY <1>0, <1>10, <2>1 DEF LockDuplicate, CInv
  <2>3. QED
    BY <1>3, <1>4, <2>1, <2>2 DEF Recorded
<1>11. ASSUME NEW w \in Workers, LockFails(w) \/ BackoffCancelled(w) \/ DlqFails(w)
       PROVE  RInv'
  <2>1. /\ UNCHANGED <<claims, ambiguous, effects, cur, pel>> /\ errored' = errored \cup {cur[w]}
        /\ \A v \in Workers \ {w} : pc'[v] = pc[v]
    BY <1>0, <1>11 DEF LockFails, BackoffCancelled, DlqFails, TInv, TypeOK
  <2>2. RecordGrows /\ Recorded(cur[w])'
    BY <2>1 DEF RecordGrows, Recorded
  <2>3. QED
    BY <1>3, <2>1, <2>2
<1>12. ASSUME NEW w \in Workers, AckOk(w) \/ AckFails(w)
       PROVE  RInv'
  <2>1. /\ UNCHANGED <<claims, history>> /\ pel \ {cur[w]} \subseteq pel' /\ pc[w] = "ack"
        /\ \A v \in Workers : pc'[v] = "ack" => pc[v] = "ack" /\ cur'[v] = cur[v]
    BY <1>0, <1>12 DEF AckOk, AckFails, Ack, AckTarget, NextMessage, TInv, TypeOK
  <2>2. \A i : Recorded(i) => Recorded(i)'
    BY <1>1, <1>4, <2>1
  <2>3. QED
    BY <2>1, <2>2 DEF RInv, Recorded, Effects
<1>13. QED
  BY <1>5, <1>6, <1>7, <1>8, <1>9, <1>10, <1>11, <1>12 DEF Next, Proceed, ReplyLost

\* What is delivered is in a batch, or stranded, or past its ack.
LEMMA DeliveredIs ==
  ASSUME FleetInv, NEW i \in delivered
  PROVE  (\E w \in Workers : i \in Held(w)) \/ i \in Stranded \/ Accounted(i)
<1>1. CASE i \notin pel
  BY <1>1 DEF FleetInv, AInv
<1>2. CASE i \in pel /\ i \notin Stranded
  BY <1>2 DEF Stranded, FleetInv, AInv
<1>3. QED
  BY <1>1, <1>2

\* Whoever took the lock has a fate of its own.
LEMMA ClaimsHaveFate ==
  ASSUME FleetInv, RInv, NEW j \in claims
  PROVE  Fate(j)
<1>1. CASE j \notin pel
  BY <1>1 DEF RInv, Recorded, Fate
<1>2. CASE j \in pel /\ j \notin Stranded
  BY <1>2 DEF Stranded, RInv, Recorded, Fate
<1>3. QED
  BY <1>1, <1>2 DEF Fate

\* No entry vanishes.
LEMMA NothingVanishes ==
  FleetInv /\ RInv => NoEventVanishes
<1> SUFFICES ASSUME FleetInv, RInv, NEW i \in delivered
             PROVE  Fate(i) \/ \E j \in claims : SameEvent(i, j) /\ Fate(j)
  BY DEF NoEventVanishes
<1>1. CASE (\E w \in Workers : i \in Held(w)) \/ i \in Stranded
  BY <1>1 DEF Fate
<1>2. CASE Accounted(i)
  BY <1>2, ClaimsHaveFate DEF Accounted, Fate
<1>3. QED
  BY <1>1, <1>2, DeliveredIs

\* The same as a temporal fact.
LEMMA RInvAlways == Spec => [](FleetInv /\ RInv)
<1>1. Init => RInv
  BY DEF Init, RInv
<1>2. FleetInv /\ RInv /\ [Next]_vars => RInv'
  <2>1. ASSUME RInv, UNCHANGED vars
        PROVE  RInv'
    BY <2>1 DEF RInv, Recorded, Effects, vars, qvars, local, locks, history
  <2>2. QED
    BY <2>1, RInvStep
<1>3. QED
  BY <1>1, <1>2, FleetInvAlways, PTL DEF Spec

\* No event is lost without a trace: every entry handed out came out, or is with
\* a worker, or is stranded, or left an error or a lost reply, or gave way to an
\* entry of the same event id of which one of these is true.
THEOREM EveryEventHasAFate == Spec => []NoEventVanishes
<1>1. QED
  BY NothingVanishes, RInvAlways, PTL

(***************************************************************************)
(* Without a fault nobody is told to stop, no error is logged, no reply is *)
(* lost and everything pending is in the batch of a running worker.        *)
(***************************************************************************)
Unharmed ==
    faults = 0 =>
        /\ \A w \in Workers : ~stopping[w]
        /\ errored = {} /\ ambiguous = {}
        /\ \A i \in pel : \E w \in Workers : i \in Batch(w)

\* Only a fault does harm.
LEMMA UnharmedStep ==
  ASSUME TInv, Unharmed, Next
  PROVE  Unharmed'
<1> SUFFICES ASSUME faults' = 0
             PROVE  /\ \A w \in Workers : ~stopping'[w]
                    /\ errored' = {} /\ ambiguous' = {}
                    /\ \A i \in pel' : \E w \in Workers : i \in Batch(w)'
  BY DEF Unharmed
<1> DEFINE Goal == /\ \A w \in Workers : ~stopping'[w]
                   /\ errored' = {} /\ ambiguous' = {}
                   /\ \A i \in pel' : \E w \in Workers : i \in Batch(w)'
<1> USE DEF local, locks, history, qvars, Goto, FirstStop
<1>1. faults \in Nat /\ \A k : ~Fault(k)
  BY WorkerAssumption DEF TInv, TypeOK, Fault
<1>2. ASSUME faults = 0, UNCHANGED <<stopping, errored, ambiguous>>, pel' \subseteq pel,
             \A w \in Workers : Batch(w) \subseteq Batch(w)'
      PROVE  Goal
  BY <1>2 DEF Unharmed
<1>3. ASSUME faults = 0, NEW w \in Workers, stopping[w] \/ CommandFails(w)
      PROVE  FALSE
  BY <1>1, <1>3 DEF Unharmed, CommandFails
<1>4. CASE ApiBoot \/ ApiCrash \/ (\E e \in Entry : Ingest(e)) \/ \E i \in claims : LockLapses(i)
  <2>1. UNCHANGED <<stopping, errored, ambiguous, faults, pc, cur, end, pel>>
    BY <1>1, <1>4 DEF ApiBoot, ApiEnsureGroup, ApiBootTrim, ApiCrash, Ingest, EnsureGroup, Trim,
                      Publish, LockLapses
  <2>2. QED
    BY <1>2, <2>1 DEF Batch
<1>5. ASSUME NEW w \in Workers, Crash(w) \/ Signal(w) \/ ReplyLost(w)
      PROVE  FALSE
  BY <1>1, <1>5 DEF Crash, Signal, ReplyLost, ReadReplyLost, LockReplyLost, HandlerReplyLost,
                    DlqReplyLost
<1>6. ASSUME NEW w \in Workers,
             LoopExit(w) \/ ReadCancelled(w) \/ BackoffCancelled(w)
      PROVE  FALSE
  BY <1>3, <1>6 DEF LoopExit, ReadCancelled, BackoffCancelled
<1>7. ASSUME NEW w \in Workers, LockFails(w) \/ DlqFails(w) \/ AckFails(w)
      PROVE  FALSE
  <2>1. CommandFails(w)
    BY <1>7 DEF LockFails, DlqFails, AckFails
  <2>2. faults = 0
    BY <1>1, <2>1 DEF CommandFails
  <2>3. QED
    BY <1>3, <2>1, <2>2
<1>8. ASSUME NEW w \in Workers, Start(w) \/ LoopAgain(w) \/ ReadNothing(w)
      PROVE  Goal
  <2>1. /\ UNCHANGED <<stopping, errored, ambiguous, faults, cur, end, pel>> /\ pc[w] \notin Busy
        /\ \A v \in Workers \ {w} : pc'[v] = pc[v]
    BY <1>1, <1>8 DEF Start, EnsureGroup, LoopAgain, ReadNothing, Busy, Claimed, TInv, TypeOK
  <2>2. \A v \in Workers : Batch(v) \subseteq Batch(v)'
    BY <2>1 DEF Batch
  <2>3. QED
    BY <1>2, <2>1, <2>2
<1>9. ASSUME NEW w \in Workers,
             \/ LockAcquired(w) \/ LockDuplicate(w)
             \/ HandlerOk(w) \/ HandlerFails(w) \/ BackoffElapsed(w) \/ DlqOk(w)
      PROVE  Goal
  <2>1. /\ UNCHANGED <<stopping, errored, ambiguous, faults, cur, end, pel>> /\ pc'[w] \in Busy
        /\ pc[w] \in Busy /\ \A v \in Workers \ {w} : pc'[v] = pc[v]
    BY <1>9 DEF LockAcquired, LockDuplicate, HandlerOk, HandlerFails, AfterFailure, BackoffElapsed,
                DlqOk, Busy, Claimed, TInv, TypeOK
  <2>2. \A v \in Workers : Batch(v) \subseteq Batch(v)'
    BY <2>1 DEF Batch
  <2>3. QED
    BY <1>2, <2>1, <2>2
<1>10. ASSUME NEW w \in Workers, ReadBatch(w)
       PROVE  Goal
  <2>1. /\ UNCHANGED <<stopping, errored, ambiguous, faults>> /\ pc[w] = "read"
        /\ pel' = pel \cup (NextId .. BatchEnd)
        /\ pc'[w] = "lock" /\ cur'[w] = NextId /\ end'[w] = BatchEnd
        /\ \A v \in Workers \ {w} : pc'[v] = pc[v] /\ cur'[v] = cur[v] /\ end'[v] = end[v]
    BY <1>10 DEF ReadBatch, Read, TInv, TypeOK
  <2>2. /\ Batch(w) = {} /\ Batch(w)' = NextId .. BatchEnd
        /\ \A v \in Workers \ {w} : Batch(v)' = Batch(v)
    BY <2>1 DEF Batch, Busy, Claimed
  <2>3. QED
    BY <2>1, <2>2 DEF Unharmed
<1>11. ASSUME NEW w \in Workers, AckOk(w)
       PROVE  Goal
  <2>1. /\ UNCHANGED <<stopping, errored, ambiguous, faults>> /\ pc[w] = "ack"
        /\ pel' = pel \ {cur[w]} /\ NextMessage(w)
        /\ \A v \in Workers \ {w} : pc'[v] = pc[v] /\ cur'[v] = cur[v] /\ end'[v] = end[v]
    BY <1>11 DEF AckOk, Ack, AckTarget, NextMessage, TInv, TypeOK
  <2>2. cur[w] \in 1 .. end[w] /\ end[w] \in Int
    BY <2>1 DEF TInv, TypeOK, BatchShape, Busy, Claimed
  <2>3. Batch(w) \subseteq {cur[w]} \cup Batch(w)'
    <3>1. CASE cur[w] < end[w]
      <4>1. cur'[w] = cur[w] + 1 /\ end'[w] = end[w] /\ pc'[w] = "lock"
        BY <2>1, <2>2, <3>1 DEF NextMessage, TInv, TypeOK
      <4>2. QED
        BY <2>2, <4>1 DEF Batch, Busy, Claimed
    <3>2. CASE cur[w] = end[w]
      BY <2>2, <3>2 DEF Batch
    <3>3. QED
      BY <2>2, <3>1, <3>2
  <2>4. \A v \in Workers \ {w} : Batch(v)' = Batch(v)
    BY <2>1 DEF Batch
  <2>5. QED
    BY <2>1, <2>3, <2>4 DEF Unharmed
<1>12. QED
  BY <1>4, <1>5, <1>6, <1>7, <1>8, <1>9, <1>10, <1>11 DEF Next, Proceed

\* Without a fault no event is lost, of however many tenants and workers, and
\* whichever handlers fail however often: it came out or is being worked at.
THEOREM NothingLostWithoutFault == Spec => []EveryEventIsKept
<1>1. Init => Unharmed
  BY DEF Init, QInit, Unharmed
<1>2. TInv /\ Unharmed /\ [Next]_vars => Unharmed'
  <2>1. ASSUME Unharmed, UNCHANGED vars
        PROVE  Unharmed'
    BY <2>1 DEF Unharmed, Batch, vars, qvars, local, history
  <2>2. QED
    BY <2>1, UnharmedStep
<1>3. FleetInv /\ RInv /\ Unharmed => EveryEventIsKept
  <2> SUFFICES ASSUME FleetInv, RInv, Unharmed, faults = 0, NEW i \in delivered
               PROVE  CameOut(i) \/ \E w \in Workers : \E j \in Held(w) : SameEvent(j, i)
    BY DEF EveryEventIsKept
  <2>1. errored = {} /\ ambiguous = {} /\ Stranded = {}
    BY StrandedMeans DEF Unharmed, FleetInv
  <2>2. PICK j \in claims \cup {i} : SameEvent(i, j) /\ Fate(j)
    BY NothingVanishes DEF NoEventVanishes, SameEvent
  <2>3. SameEvent(j, i) /\ i \in Ids
    BY <2>2 DEF SameEvent, FleetInv, TInv, TypeOK, QTypeOK
  <2>4. QED
    BY <2>1, <2>2, <2>3 DEF Fate, Effects, CameOut
<1>4. QED
  BY <1>1, <1>2, <1>3, TInvAlways, RInvAlways, PTL DEF Spec

----------------------------------------------------------------------------
\* No two tenants use the same X-Event-Id.
OwnEventIds == \A e, f \in Entry : e.event = f.event => e.tenant = f.tenant

\* The one way in which tenants get into each other's way is a shared event id:
\* where there is none, what is acked without an error was processed, or
\* duplicates an event of its own tenant.
THEOREM OnlySharedIdsMix == Spec => [](OwnEventIds => TenantsAreIsolated)
<1>1. FleetInv => (OwnEventIds => TenantsAreIsolated)
  <2> SUFFICES ASSUME FleetInv, OwnEventIds, NEW i \in (delivered \ pel) \ (errored \cup ambiguous)
               PROVE  \E j \in claims : SameEvent(i, j) /\ stream[i].tenant = stream[j].tenant
    BY DEF TenantsAreIsolated
  <2>1. Effects(i) # {} \/ \E j \in claims : SameEvent(i, j)
    BY DEF FleetInv, AInv, Accounted
  <2>2. PICK j \in claims : SameEvent(i, j)
    BY <2>1 DEF FleetInv, EInv, Effects, SameEvent
  <2>3. i \in Ids /\ j \in Ids /\ stream \in Seq(Entry)
    BY DEF FleetInv, TInv, TypeOK, QTypeOK
  <2>4. stream[i] \in Entry /\ stream[j] \in Entry
    BY <2>3 DEF Ids
  <2>5. QED
    BY <2>2, <2>4 DEF SameEvent, OwnEventIds
<1>2. QED
  BY <1>1, FleetInvAlways, PTL

----------------------------------------------------------------------------
\* The fleet implements the queue: over all its steps, faults included, the
\* stream and the group behave as those of WorkQueue alone.
THEOREM FleetUsesQueue == Spec => QSpec
<1>1. Init => QInit
  BY DEF Init
<1>2. [Next]_vars => [QNext]_qvars
  BY StepsAreQueueSteps DEF vars
<1>3. QED
  BY <1>1, <1>2, PTL DEF Spec, QSpec

\* So the fleet is handed each entry at most once and in order.
THEOREM FleetQueueKeepsFaith == Spec => HandedOutOnceInOrder
  BY FleetUsesQueue, NeverHandedOutTwice
=============================================================================
