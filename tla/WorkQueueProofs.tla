--------------------------- MODULE WorkQueueProofs ---------------------------
(***************************************************************************)
(* Theorems about the work queue, for every cap, batch size and length.    *)
(***************************************************************************)
EXTENDS WorkQueue, TLAPS

USE QueueAssumption

(***************************************************************************)
(* The inductive invariant: the three invariants need each other.  That    *)
(* nothing beyond the cursor was delivered keeps reads from overlapping.   *)
(***************************************************************************)
QInv == QTypeOK /\ NothingSkipped /\ PendingWasDelivered

\* The cursor's successor and the end of a batch lie where they should.
LEMMA BatchBounds ==
  ASSUME QTypeOK
  PROVE  /\ Len(stream) \in Nat
         /\ NextId \in 1 .. Len(stream) + 1 /\ last < NextId
         /\ Lag > 0 => BatchEnd \in NextId .. Len(stream)
  BY DEF QTypeOK, NextId, BatchEnd, Lag

\* The initial queue satisfies the invariant.
LEMMA QInitInv == QInit => QInv
  BY DEF QInit, QInv, QTypeOK, NothingSkipped, PendingWasDelivered, Ids, NoGroup

\* Every operation of queue.go, and a step that leaves the queue alone,
\* preserves the types of its variables.
LEMMA QTypeStep ==
  ASSUME QTypeOK, [QNext]_qvars
  PROVE  QTypeOK'
<1>0. Len(stream) \in Nat
  BY DEF QTypeOK
<1> USE <1>0 DEF QTypeOK, Ids, NoGroup
<1>1. CASE EnsureGroup
  <2>1. CASE /\ origin' = Len(stream) /\ last' = Len(stream)
             /\ UNCHANGED <<stream, trimmed, pel, delivered>>
    BY <2>1
  <2>2. CASE UNCHANGED qvars
    BY <2>2 DEF qvars
  <2>3. QED
    BY <1>1, <2>1, <2>2 DEF EnsureGroup
<1>2. ASSUME NEW e \in Entry, Publish(e)
      PROVE  QTypeOK'
  BY <1>2 DEF Publish, Cuts
<1>3. CASE Trim
  BY <1>3 DEF Trim, Cuts
<1>4. CASE Read
  <2>1. BatchEnd \in NextId .. Len(stream) /\ NextId \in 1 .. Len(stream) + 1
    BY <1>4, BatchBounds DEF Read
  <2>2. NextId .. BatchEnd \subseteq Ids
    BY <2>1
  <2>3. QED
    BY <1>4, <2>1, <2>2 DEF Read
<1>5. ASSUME NEW i \in pel, Ack(i)
      PROVE  QTypeOK'
  BY <1>5 DEF Ack
<1>6. CASE UNCHANGED qvars
  BY <1>6 DEF qvars
<1>7. QED
  BY <1>1, <1>2, <1>3, <1>4, <1>5, <1>6 DEF QNext

\* ... and the invariant.
LEMMA QInvStep ==
  ASSUME QInv, [QNext]_qvars
  PROVE  QInv'
<1>0. QTypeOK'
  BY QTypeStep DEF QInv
<1> USE DEF QInv, QTypeOK, NothingSkipped, PendingWasDelivered, Ids, NoGroup
<1>1. CASE EnsureGroup
  BY <1>0, <1>1 DEF EnsureGroup, qvars
<1>2. ASSUME NEW e \in Entry, Publish(e)
      PROVE  QInv'
  BY <1>0, <1>2 DEF Publish, Cuts
<1>3. CASE Trim
  BY <1>0, <1>3 DEF Trim, Cuts
<1>4. CASE Read
  BY <1>0, <1>4, BatchBounds DEF Read, NextId
<1>5. ASSUME NEW i \in pel, Ack(i)
      PROVE  QInv'
  BY <1>0, <1>5 DEF Ack
<1>6. CASE UNCHANGED qvars
  BY <1>0, <1>6 DEF qvars
<1>7. QED
  BY <1>1, <1>2, <1>3, <1>4, <1>5, <1>6 DEF QNext

\* The queue's types, that nothing is skipped, and that what is pending was
\* delivered hold at all times.
THEOREM QueueInvariant == QSpec => [](QTypeOK /\ NothingSkipped /\ PendingWasDelivered)
<1>1. QSpec => []QInv
  BY QInitInv, QInvStep, PTL DEF QSpec
<1>2. QInv => QTypeOK /\ NothingSkipped /\ PendingWasDelivered
  BY DEF QInv
<1>3. QED
  BY <1>1, <1>2, PTL

\* A step of the queue hands out only what comes after all it handed out before.
LEMMA HandedOutStep ==
  ASSUME QInv, QNext, NEW i \in (pel' \ pel) \cup (delivered' \ delivered),
         NEW j \in delivered
  PROVE  j < i
<1> USE DEF QInv, QTypeOK, PendingWasDelivered, Ids, NoGroup
<1>1. CASE Read
  <2>1. i \in NextId .. BatchEnd
    BY <1>1 DEF Read
  <2>2. j <= last /\ last < NextId
    BY DEF NextId
  <2>3. QED
    BY <2>1, <2>2 DEF NextId, BatchEnd, Lag
<1>2. CASE ~Read
  BY <1>2 DEF QNext, EnsureGroup, Publish, Trim, Ack, qvars
<1>3. QED
  BY <1>1, <1>2

\* This holds of whatever uses the queue through its operations alone, on top of
\* a queue whose group is there already too: of a step, ...
LEMMA OrderedStep ==
  QInv /\ [QNext]_qvars =>
    [\A i \in (pel' \ pel) \cup (delivered' \ delivered) : \A j \in delivered : j < i]_qvars
  BY HandedOutStep

\* ... and of a run: a read never reaches back behind what was handed out.
THEOREM NeverHandedOutTwice == QSpec => HandedOutOnceInOrder
  BY OrderedStep, QInitInv, QInvStep, PTL DEF QSpec, HandedOutOnceInOrder
=============================================================================
