------------------------ MODULE CredentialsRefinement ------------------------
(***************************************************************************)
(* The credentials in Redis, with the clean-ups, cached sessions, races,   *)
(* crashes and lost replies around them, implement Registry.               *)
(***************************************************************************)
EXTENDS Credentials

\* A request is answered, or still to be.
Outcome ==
    CASE login.at = "idle" -> "none"
      [] login.at = "200" -> "granted"
      [] login.at \in {"401", "403"} -> "refused"
      [] login.at = "500" -> "failed"
      [] OTHER -> "asked"

asked == [at |-> Outcome, tenant |-> login.tenant, secret |-> login.secret]

Promise == INSTANCE Registry WITH Tenant <- Creates, tenants <- Known, request <- asked

\* The tenants answered 201 are a registry that forgets none, and TenantAuth
\* lets in who presents a registered tenant's own secret, whatever half-made
\* tenants and cached sessions are in Redis: every step of the code is a step
\* of Registry, or changes nothing a client can tell.
ImplementsRegistry == Promise!Spec
=============================================================================
