---------------------------- MODULE MCCredentials ----------------------------
(***************************************************************************)
(* Instances of Credentials for TLC: two processes whose operators seeded  *)
(* them differently, and an admin of each.                                 *)
(***************************************************************************)
EXTENDS CredentialsRefinement, TLC

CONSTANTS p1, p2, r1, r2, r3, s1, s2

MCProcesses == {p1, p2}
MCCreates == {r1, r2, r3}
MCSeed == p1 :> s1 @@ p2 :> s2
MCAdminToken == r1 :> s1 @@ r2 :> s1 @@ r3 :> s2
MCAt == r1 :> p1 @@ r2 :> p2 @@ r3 :> p2
=============================================================================
