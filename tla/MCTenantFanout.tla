---------------------------- MODULE MCTenantFanout ----------------------------
(* Instances of TenantFanout for TLC. *)
EXTENDS TenantFanout

CONSTANTS c1, c2

TwoConns == {c1, c2}
=============================================================================
