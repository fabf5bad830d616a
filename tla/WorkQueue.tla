------------------------------ MODULE WorkQueue ------------------------------
(***************************************************************************)
(* The ingestion work queue: the Redis Stream events:in and its one        *)
(* consumer group, as internal/streams/queue.go drives them.               *)
(*                                                                         *)
(* An entry's id is its position in the stream, counted from 1.  XACK only *)
(* removes an id from the group's pending list; the entries themselves     *)
(* leave the stream from its old end, when an XADD or XTRIM that carries   *)
(* MAXLEN ~ MaxLen cuts it.  The worker reads with id ">" only, so what    *)
(* the group can still hand out is what was never delivered and is still   *)
(* in the stream.                                                          *)
(***************************************************************************)
EXTENDS Integers, Sequences, FiniteSets

CONSTANTS
    Entry,      \* what an entry carries
    MaxLen,     \* cfg.IngestStreamMaxLen; 0 means the stream is never cut
    Count,      \* the batch size of Reader.Read, cfg.StreamCount
    MaxEntries  \* bound of the model: entries ever added

ASSUME QueueAssumption ==
    MaxLen \in Nat /\ Count \in Nat \ {0} /\ MaxEntries \in Nat

VARIABLES
    stream,     \* every entry ever added, in order
    trimmed,    \* how many of them MAXLEN has cut away: ids 1 .. trimmed
    origin,     \* the stream's length when the group was created, or NoGroup
    last,       \* the group's last-delivered-id
    pel,        \* the group's pending entries list
    delivered   \* history: every id XREADGROUP has handed out

qvars == <<stream, trimmed, origin, last, pel, delivered>>

NoGroup == -1

Ids == 1 .. Len(stream)

(***************************************************************************)
(* XINFO GROUPS: the first id the group would hand out, the number of      *)
(* entries it has yet to hand out (lag), and of those not acked (pending). *)
(***************************************************************************)
NextId == (IF last < trimmed THEN trimmed ELSE last) + 1

Lag == Len(stream) + 1 - NextId

Pending == Cardinality(pel)

\* Where MAXLEN ~ may leave the old end of a stream of length n.  Redis drops
\* whole nodes: any number of entries, as long as MaxLen of them stay.
Cuts(n) == {t \in trimmed .. n : t = trimmed \/ (MaxLen > 0 /\ n - t >= MaxLen)}

----------------------------------------------------------------------------
QInit ==
    /\ stream = <<>>
    /\ trimmed = 0
    /\ origin = NoGroup
    /\ last = 0
    /\ pel = {}
    /\ delivered = {}

\* Faulty variant: on BUSYGROUP the cursor is set to "$" again.
EnsureGroupRewrites ==
    /\ origin' = IF origin = NoGroup THEN Len(stream) ELSE origin
    /\ last' = Len(stream)
    /\ UNCHANGED <<stream, trimmed, pel, delivered>>

\* EnsureGroup: XGROUP CREATE ... MKSTREAM at "$".  An existing group is left
\* as it is (BUSYGROUP).
EnsureGroup ==
    \/ /\ origin = NoGroup
       /\ origin' = Len(stream)
       /\ last' = Len(stream)
       /\ UNCHANGED <<stream, trimmed, pel, delivered>>
    \/ /\ origin # NoGroup
       /\ UNCHANGED qvars

\* Publish: XADD with MAXLEN ~ MaxLen.
Publish(e) ==
    /\ Len(stream) < MaxEntries
    /\ stream' = Append(stream, e)
    /\ trimmed' \in Cuts(Len(stream) + 1)
    /\ UNCHANGED <<origin, last, pel, delivered>>

\* TrimMaxLenApprox: XTRIM ... MAXLEN ~ MaxLen.
Trim ==
    /\ MaxLen > 0
    /\ trimmed' \in Cuts(Len(stream))
    /\ UNCHANGED <<stream, origin, last, pel, delivered>>

\* Faulty variant: the batch is not limited by what the stream holds.
BatchEndUnbounded == NextId + Count - 1

\* The end of the batch XREADGROUP ... COUNT Count hands out now.
BatchEnd == IF Lag < Count THEN Len(stream) ELSE NextId + Count - 1

\* Faulty variant: the cursor moves by one entry whatever the batch.
ReadRewinds ==
    /\ origin # NoGroup /\ Lag > 0
    /\ last' = NextId
    /\ pel' = pel \cup (NextId .. BatchEnd)
    /\ delivered' = delivered \cup (NextId .. BatchEnd)
    /\ UNCHANGED <<stream, trimmed, origin>>

\* Reader.Read when it returns a batch: XREADGROUP with ">".
Read ==
    /\ origin # NoGroup /\ Lag > 0
    /\ last' = BatchEnd
    /\ pel' = pel \cup (NextId .. BatchEnd)
    /\ delivered' = delivered \cup (NextId .. BatchEnd)
    /\ UNCHANGED <<stream, trimmed, origin>>

\* Reader.Ack: XACK, which is a no-op for an id that is not pending.
Ack(i) ==
    /\ pel' = pel \ {i}
    /\ UNCHANGED <<stream, trimmed, origin, last, delivered>>

QNext ==
    \/ EnsureGroup
    \/ \E e \in Entry : Publish(e)
    \/ Trim
    \/ Read
    \/ \E i \in pel : Ack(i)

QSpec == QInit /\ [][QNext]_qvars

----------------------------------------------------------------------------
\* The types of the queue's variables.
QTypeOK ==
    /\ stream \in Seq(Entry)
    /\ trimmed \in 0 .. Len(stream)
    /\ origin \in {NoGroup} \cup 0 .. Len(stream)
    /\ last \in 0 .. Len(stream)
    /\ pel \subseteq Ids
    /\ delivered \subseteq Ids

\* An entry the group's cursor has passed was handed out, unless it was cut
\* away first or was older than the group: XREADGROUP ">" and EnsureGroup
\* between them skip nothing else.
NothingSkipped ==
    \A i \in 1 .. last : i \in delivered \/ i <= trimmed \/ i <= origin

\* A pending entry was handed out, and nothing beyond the cursor was.
PendingWasDelivered ==
    pel \subseteq delivered /\ \A i \in delivered : i <= last

\* Each entry is handed out at most once and in the order of the stream: a
\* read never reaches back, so an entry that was delivered, acked or not, is
\* never handed out again (the worker has no XAUTOCLAIM).
HandedOutOnceInOrder ==
    [][\A i \in (pel' \ pel) \cup (delivered' \ delivered) :
          \A j \in delivered : j < i]_qvars
=============================================================================
