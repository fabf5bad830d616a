------------------------------- MODULE OnceOnly -------------------------------
(***************************************************************************)
(* What the worker promises of event ids, with no queue, workers or        *)
(* retries: an event is claimed once, and an event that was claimed comes  *)
(* out at most once, published or dead-lettered.  (README, "Idempotency":  *)
(* the same X-Event-Id sent N times is processed only once.)               *)
(***************************************************************************)
EXTENDS Sequences

CONSTANT EventId

VARIABLES
    claimed,    \* the events somebody took the idempotency lock of
    log         \* what came out downstream, in order

Kind == {"published", "deadLettered"}

CameOut(e) == \E k \in DOMAIN log : log[k].event = e

Init == claimed = {} /\ log = <<>>

Claim(e) ==
    /\ e \notin claimed
    /\ claimed' = claimed \cup {e}
    /\ UNCHANGED log

ComeOut(e, k) ==
    /\ e \in claimed /\ ~CameOut(e)
    /\ log' = Append(log, [event |-> e, kind |-> k])
    /\ UNCHANGED claimed

Next == \E e \in EventId : Claim(e) \/ \E k \in Kind : ComeOut(e, k)

Spec == Init /\ [][Next]_<<claimed, log>>
=============================================================================
