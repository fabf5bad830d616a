------------------------------- MODULE Registry -------------------------------
(***************************************************************************)
(* What POST /admin/tenants and TenantAuth promise together, with no keys, *)
(* cached sessions, processes or faults: a tenant that was handed out is   *)
(* registered for ever, and a request is let in if and only if it presents *)
(* a registered tenant's own secret.  The service may break down at any    *)
(* request (500, or no answer at all), and then it says nothing of it.     *)
(***************************************************************************)

CONSTANTS
    Tenant,     \* each stands for its secret as well
    NoSecret    \* a secret that is no tenant's

VARIABLES
    tenants,    \* the tenants that were handed out
    request     \* a client's request, or what came of it

Nothing == [at |-> "none", tenant |-> NoSecret, secret |-> NoSecret]

Init == tenants = {} /\ request = Nothing

Register(t) ==
    /\ t \notin tenants
    /\ tenants' = tenants \cup {t}
    /\ UNCHANGED request

\* Clients know the secrets that were handed out.
Ask(t, s) ==
    /\ request.at # "asked"
    /\ request' = [at |-> "asked", tenant |-> t, secret |-> s]
    /\ UNCHANGED tenants

Comes(answer) ==
    /\ request.at = "asked"
    /\ request' = [request EXCEPT !.at = answer]
    /\ UNCHANGED tenants

Grant == request.tenant \in tenants /\ request.secret = request.tenant /\ Comes("granted")

Refuse == request.secret # request.tenant /\ Comes("refused")

BreakDown == Comes("failed")

\* The server crashes with the request in it, or the client moves on.
Forget == request' = Nothing /\ UNCHANGED tenants

Next ==
    \/ \E t \in Tenant : Register(t) \/ \E s \in tenants \cup {NoSecret} : Ask(t, s)
    \/ Grant \/ Refuse \/ BreakDown \/ Forget

Spec == Init /\ [][Next]_<<tenants, request>>
=============================================================================
