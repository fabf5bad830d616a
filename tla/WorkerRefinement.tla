--------------------------- MODULE WorkerRefinement ---------------------------
(***************************************************************************)
(* The worker fleet implements OnceOnly, as long as no lock lapses and no  *)
(* reply is lost: whatever crashes, restarts, duplicates and retries.      *)
(***************************************************************************)
EXTENDS Worker

claimedEvents == {stream[i].event : i \in claims}

eventLog == [k \in DOMAIN effects |->
                [event |-> stream[effects[k].id].event, kind |-> effects[k].kind]]

Promise == INSTANCE OnceOnly WITH claimed <- claimedEvents, log <- eventLog

\* Every step of the workers is a claim of an unclaimed event, one XADD of a
\* claimed event that had none, or invisible downstream.
ImplementsOnceOnly == Promise!Spec
=============================================================================
