------------------------------- MODULE MCWorker -------------------------------
(***************************************************************************)
(* Instances of Worker for TLC: two tenants, of which t2 reuses one of     *)
(* t1's event ids, and up to three entries.                                *)
(***************************************************************************)
EXTENDS WorkerRefinement, TLC

CONSTANTS t1, t2, e1, e2, w1, w2

MCTenant == {t1, t2}
MCEventId == {e1, e2}
MCEntry == {[tenant |-> t1, event |-> e1], [tenant |-> t1, event |-> e2],
            [tenant |-> t2, event |-> e1]}
\* For runs about one tenant.
OneTenantEntry == {[tenant |-> t1, event |-> e1], [tenant |-> t1, event |-> e2]}

TwoWorkers == {w1, w2}
OneWorker == {w1}

NoEvents == {}
LapsingE1 == {e1}

NoFaults == {}
OnlyCrash == {"crash"}
OnlyError == {"error"}
NoLostReply == {"crash", "stop", "error"}

Symmetry == Permutations(Workers)
=============================================================================
