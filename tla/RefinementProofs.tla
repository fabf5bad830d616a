--------------------------- MODULE RefinementProofs ---------------------------
(***************************************************************************)
(* The fleet implements OnceOnly, for any number of workers, tenants,      *)
(* events, crashes, signals and failing commands, as long as locks outlast *)
(* what they guard and no reply is lost.                                   *)
(***************************************************************************)
EXTENDS WorkerRefinement, WorkerProofs

(***************************************************************************)
(* What the mapping reads: every claim and every record is of an entry of  *)
(* the stream, and no claim is in doubt.                                   *)
(***************************************************************************)
Certain == lapsed = {} /\ ambiguous = {}

\* Without lapses and lost replies no claim is ever in doubt.
LEMMA CertainStep ==
  ASSUME Lapsing = {}, "lostReply" \notin FaultKinds, Certain, Next
  PROVE  Certain'
<1> USE DEF Certain, locks, history
<1>1. CASE ApiBoot \/ ApiCrash \/ \E e \in Entry : Ingest(e)
  BY <1>1 DEF ApiBoot, ApiEnsureGroup, ApiBootTrim, ApiCrash, Ingest
<1>2. ASSUME NEW w \in Workers, Start(w) \/ Crash(w) \/ Signal(w)
      PROVE  Certain'
  BY <1>2 DEF Start, Crash, Signal, Down
<1>3. ASSUME NEW w \in Workers, Proceed(w)
      PROVE  Certain'
  BY <1>3 DEF Proceed, LoopAgain, LoopExit, ReadBatch, ReadNothing, ReadCancelled,
              LockAcquired, LockDuplicate, LockFails, HandlerOk, HandlerFails,
              BackoffElapsed, BackoffCancelled, DlqOk, DlqFails, AckOk, AckFails, Down
<1>4. ASSUME NEW w \in Workers, ReplyLost(w)
      PROVE  FALSE
  BY <1>4 DEF ReplyLost, ReadReplyLost, LockReplyLost, HandlerReplyLost, DlqReplyLost, Fault
<1>5. ASSUME NEW i \in claims, LockLapses(i)
      PROVE  FALSE
  BY <1>5 DEF LockLapses
<1>6. QED
  BY <1>1, <1>2, <1>3, <1>4, <1>5 DEF Next

----------------------------------------------------------------------------
\* A claim and a record are of an entry, and the record is a sequence.
LEMMA WhatIsMapped ==
  ASSUME FleetInv
  PROVE  /\ claims \subseteq Ids /\ \A k \in DOMAIN effects : effects[k].id \in claims
         /\ DOMAIN effects = 1 .. Len(effects) /\ Len(effects) \in Nat
         /\ \A i \in Ids : stream[i] \in Entry /\ stream[i].event \in EventId
<1>1. claims \subseteq Ids /\ \A k \in DOMAIN effects : effects[k].id \in claims
  BY DEF FleetInv, TInv, TypeOK, EInv
<1>2. DOMAIN effects = 1 .. Len(effects) /\ Len(effects) \in Nat
  BY ElementsOf DEF FleetInv, TInv, TypeOK
<1>3. stream \in Seq(Entry) /\ DOMAIN stream = Ids
  BY DEF FleetInv, TInv, TypeOK, QTypeOK, Ids
<1>4. \A i \in Ids : stream[i] \in Entry
  BY <1>3, ElementsOf
<1>5. \A x \in Entry : x.event \in EventId
  BY WorkerAssumption
<1>6. QED
  BY <1>1, <1>2, <1>4, <1>5

\* What is claimed and recorded of old entries reads the same after any step.
LEMMA MappedFixed ==
  ASSUME FleetInv, Next
  PROVE  \A i \in claims : stream'[i] = stream[i]
<1>1. QTypeOK
  BY DEF FleetInv, TInv, TypeOK
<1>2. QED
  BY <1>1, StepsAreQueueSteps, QueueGrows, WhatIsMapped

\* A step that neither claims nor records anything is invisible.
LEMMA Invisible ==
  ASSUME FleetInv, Next, UNCHANGED <<claims, effects>>
  PROVE  UNCHANGED <<claimedEvents, eventLog>>
<1>1. claimedEvents' = claimedEvents
  BY MappedFixed DEF claimedEvents
<1>2. \A k \in DOMAIN effects : stream'[effects[k].id] = stream[effects[k].id]
  BY MappedFixed, WhatIsMapped
<1>3. eventLog' = eventLog
  BY <1>2 DEF eventLog
<1>4. QED
  BY <1>1, <1>3

\* SET NX claims an event that nobody has claimed.
LEMMA ClaimIsClaim ==
  ASSUME FleetInv, Certain, NEW w \in Workers, LockAcquired(w)
  PROVE  \E e \in EventId : Promise!Claim(e)
<1> DEFINE e == stream[cur[w]].event
<1>1. cur[w] \in Ids
  BY DEF LockAcquired, FleetInv, TInv, TypeOK, QTypeOK, BatchShape, Busy, Ids
<1>2. e \in EventId
  BY <1>1, WhatIsMapped
<1>3. e \notin claimedEvents
  BY DEF LockAcquired, Locked, SameEvent, Certain, claimedEvents
<1>4. claimedEvents' = claimedEvents \cup {e}
  BY DEF LockAcquired, qvars, claimedEvents
<1>5. UNCHANGED eventLog
  BY DEF LockAcquired, qvars, history, eventLog
<1>6. QED
  BY <1>2, <1>3, <1>4, <1>5 DEF Promise!Claim

\* The handler's XADD, or the DLQ's, is the first of a claimed event.
LEMMA RecordIsComeOut ==
  ASSUME FleetInv, Certain, NEW w \in Workers, pc[w] \in Claimed,
         NEW k \in {"published", "deadLettered"}, Record(cur[w], k),
         UNCHANGED <<stream, claims>>
  PROVE  \E e \in EventId : Promise!ComeOut(e, k)
<1> DEFINE e == stream[cur[w]].event
<1>1. cur[w] \in claims /\ Effects(cur[w]) = {}
  BY DEF FleetInv, CInv, EInv, Certain
<1>2. e \in EventId /\ e \in claimedEvents
  BY <1>1, WhatIsMapped DEF claimedEvents
<1>3. ASSUME NEW n \in DOMAIN eventLog, eventLog[n].event = e
      PROVE  FALSE
  <2>1. n \in DOMAIN effects /\ stream[effects[n].id].event = e
    BY <1>3 DEF eventLog
  <2>2. effects[n].id \in claims \ lapsed /\ cur[w] \in claims \ lapsed
    BY <1>1, <2>1, WhatIsMapped DEF Certain
  <2>3. effects[n].id = cur[w]
    BY <2>1, <2>2 DEF FleetInv, CInv, OneLiveClaim, SameEvent
  <2>4. QED
    BY <1>1, <2>1, <2>3 DEF Effects
<1>4. eventLog' = Append(eventLog, [event |-> e, kind |-> k])
  <2> DEFINE n == Len(effects)
  <2>1. n \in Nat /\ DOMAIN effects = 1 .. n
    BY WhatIsMapped
  <2>2. /\ DOMAIN effects' = 1 .. n + 1
        /\ effects'[n + 1] = [id |-> cur[w], kind |-> k]
        /\ \A i \in 1 .. n : effects'[i] = effects[i]
    BY <2>1 DEF Record, FleetInv, TInv, TypeOK
  <2>3. eventLog' = [i \in 1 .. n + 1 |->
                       IF i = n + 1 THEN [event |-> e, kind |-> k] ELSE eventLog[i]]
    BY <2>1, <2>2 DEF eventLog
  <2>4. eventLog \in Seq([event : {stream[effects[i].id].event : i \in 1 .. n},
                          kind : {effects[i].kind : i \in 1 .. n}]) /\ Len(eventLog) = n
    BY <2>1 DEF eventLog
  <2>5. QED
    BY <2>1, <2>3, <2>4
<1>5. UNCHANGED claimedEvents
  BY DEF claimedEvents
<1>6. QED
  BY <1>2, <1>3, <1>4, <1>5 DEF Promise!ComeOut, Promise!CameOut

\* Every step of the fleet is a step of OnceOnly or invisible there.
LEMMA StepImplements ==
  ASSUME FleetInv, Certain, Next,
         Lapsing = {}, "lostReply" \notin FaultKinds
  PROVE  [Promise!Next]_<<claimedEvents, eventLog>>
<1> USE DEF locks, history
<1>1. CASE ApiBoot \/ ApiCrash \/ \E e \in Entry : Ingest(e)
  BY <1>1, Invisible DEF ApiBoot, ApiEnsureGroup, ApiBootTrim, ApiCrash, Ingest
<1>2. ASSUME NEW w \in Workers, Start(w) \/ Crash(w) \/ Signal(w)
      PROVE  [Promise!Next]_<<claimedEvents, eventLog>>
  BY <1>2, Invisible DEF Start, Crash, Signal, Down
<1>3. ASSUME NEW w \in Workers, Proceed(w)
      PROVE  [Promise!Next]_<<claimedEvents, eventLog>>
  <2>1. CASE LockAcquired(w)
    BY <2>1, ClaimIsClaim DEF Promise!Next
  <2>2. CASE HandlerOk(w)
    <3>1. \E e \in EventId : Promise!ComeOut(e, "published")
      BY <2>2, RecordIsComeOut DEF HandlerOk, Claimed, qvars
    <3>2. QED
      BY <3>1 DEF Promise!Next, Promise!Kind
  <2>3. CASE DlqOk(w)
    <3>1. \E e \in EventId : Promise!ComeOut(e, "deadLettered")
      BY <2>3, RecordIsComeOut DEF DlqOk, Claimed, qvars
    <3>2. QED
      BY <3>1 DEF Promise!Next, Promise!Kind
  <2>4. CASE LoopAgain(w) \/ LoopExit(w) \/ ReadBatch(w) \/ ReadNothing(w) \/ ReadCancelled(w)
             \/ LockDuplicate(w) \/ LockFails(w) \/ HandlerFails(w) \/ BackoffElapsed(w)
             \/ BackoffCancelled(w) \/ DlqFails(w) \/ AckOk(w) \/ AckFails(w)
    BY <2>4, Invisible DEF LoopAgain, LoopExit, ReadBatch, ReadNothing, ReadCancelled, Down,
         LockDuplicate, LockFails, HandlerFails, BackoffElapsed, BackoffCancelled, DlqFails,
         AckOk, AckFails
  <2>5. QED
    BY <1>3, <2>1, <2>2, <2>3, <2>4 DEF Proceed
<1>4. ASSUME NEW w \in Workers, ReplyLost(w)
      PROVE  FALSE
  BY <1>4 DEF ReplyLost, ReadReplyLost, LockReplyLost, HandlerReplyLost, DlqReplyLost, Fault
<1>5. ASSUME NEW i \in claims, LockLapses(i)
      PROVE  FALSE
  BY <1>5 DEF LockLapses
<1>6. QED
  BY <1>1, <1>2, <1>3, <1>4, <1>5 DEF Next

\* Whatever crashes, is told to stop, fails or comes twice, downstream the fleet
\* looks as if each event id had been claimed once and come out at most once.
THEOREM FleetImplementsOnceOnly ==
  ASSUME Lapsing = {}, "lostReply" \notin FaultKinds
  PROVE  Spec => ImplementsOnceOnly
<1>1. Init => Certain /\ Promise!Init
  BY DEF Init, Certain, Promise!Init, claimedEvents, eventLog
<1>2. Certain /\ [Next]_vars => Certain'
  BY CertainStep DEF Certain, vars, locks, history
<1>3. FleetInv /\ Certain /\ [Next]_vars => [Promise!Next]_<<claimedEvents, eventLog>>
  <2>1. UNCHANGED vars => UNCHANGED <<claimedEvents, eventLog>>
    BY DEF vars, qvars, locks, history, claimedEvents, eventLog
  <2>2. QED
    BY <2>1, StepImplements
<1>4. QED
  BY <1>1, <1>2, <1>3, FleetInvAlways, PTL DEF Spec, ImplementsOnceOnly, Promise!Spec
=============================================================================
