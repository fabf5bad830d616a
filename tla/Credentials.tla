----------------------------- MODULE Credentials -----------------------------
(***************************************************************************)
(* The credentials in Redis and who uses them: the seeding of the admin    *)
(* token at boot (SeedSuperAdmin, cmd/api/main.go), AdminAuth and          *)
(* CreateTenant behind it, and TenantAuth with its session cache           *)
(* (internal/redisstore, internal/service/tenant.go,                       *)
(* internal/middleware/auth.go).                                           *)
(*                                                                         *)
(* Each command to Redis is a step, with what the code does up to the next *)
(* one.  A command fails, or takes effect and its reply is lost, or is not *)
(* sent any more because the client has gone and the request's context is  *)
(* cancelled; a process may crash at any step.                             *)
(***************************************************************************)
EXTENDS Integers, FiniteSets

CONSTANTS
    Processes,  \* API processes
    Seed,       \* each one's ADMIN_SEED_TOKEN
    Creates,    \* POST /admin/tenants: each makes a new id and a new secret, so
                \* the request stands for its tenant and for its secret as well
    AdminToken, \* the Bearer token each of them carries
    At,         \* the process that serves it
    NoToken,    \* no admin:token_hash in Redis
    NoSecret,   \* a secret that is no tenant's
    FaultKinds, \* a subset of AllFaults
    MaxFaults   \* bound of the model: faults

AllFaults == {"crash", "error", "lostReply", "cancel"}

ASSUME CredentialsAssumption ==
    /\ At \in [Creates -> Processes]
    /\ DOMAIN Seed = Processes /\ \A p \in Processes : Seed[p] # NoToken
    /\ DOMAIN AdminToken = Creates
    /\ NoSecret \notin Creates
    /\ FaultKinds \subseteq AllFaults /\ MaxFaults \in Nat

VARIABLES
    adminHash,  \* admin:token_hash: the token it is of, or NoToken
    authKeys,   \* tenants with a tenant_auth: key, the hash of their secret
    hmacKeys,   \* tenants with a tenant_hmac_key: key, their secret
    sessions,   \* the auth_session: keys, as pairs <<tenant, secret>>
    boot,       \* a process: "down", "seed" (it found no hash) or "up"
    create,     \* where each POST /admin/tenants is, or its answer
    login,      \* a client of the tenant routes: where its request is, or its
                \* last answer, and what it presents
    cancelled,  \* creations whose client has gone
    faults,     \* how many faults there were
    raced,      \* history: two processes were between EXISTS and SET at once
    accepted,   \* history: admin tokens that were let through
    spoilt      \* history: creations in which a SET took effect but its reply was
                \* lost, or whose clean-up failed or was not sent

keys == <<adminHash, authKeys, hmacKeys, sessions>>
history == <<raced, accepted, spoilt>>
vars == <<keys, boot, create, login, cancelled, faults, history>>

Idle == [at |-> "idle", tenant |-> NoSecret, secret |-> NoSecret]

Init ==
    /\ adminHash = NoToken /\ authKeys = {} /\ hmacKeys = {} /\ sessions = {}
    /\ boot = [p \in Processes |-> "down"]
    /\ create = [r \in Creates |-> "idle"]
    /\ login = Idle
    /\ cancelled = {} /\ faults = 0
    /\ raced = FALSE /\ accepted = {} /\ spoilt = {}

Fault(kind) ==
    /\ kind \in FaultKinds /\ faults < MaxFaults
    /\ faults' = faults + 1

----------------------------------------------------------------------------
(***************************************************************************)
(* SeedSuperAdmin, at boot, before the server listens.  When it returns an *)
(* error the process exits, and its supervisor starts it again.            *)
(***************************************************************************)

\* Faulty variant: whatever is there is overwritten.
HasHashNever == FALSE

HasHash == adminHash # NoToken

SeedExists(p) ==
    /\ boot[p] = "down"
    /\ boot' = [boot EXCEPT ![p] = IF HasHash THEN "up" ELSE "seed"]
    /\ raced' = (raced \/ (~HasHash /\ \E q \in Processes : boot[q] = "seed"))
    /\ UNCHANGED <<keys, create, login, cancelled, faults, accepted, spoilt>>

SeedSet(p) ==
    /\ boot[p] = "seed"
    /\ adminHash' = Seed[p]
    /\ \/ boot' = [boot EXCEPT ![p] = "up"] /\ UNCHANGED faults
       \/ boot' = [boot EXCEPT ![p] = "down"] /\ Fault("lostReply")
    /\ UNCHANGED <<authKeys, hmacKeys, sessions, create, login, cancelled, history>>

SeedFails(p) ==
    /\ boot[p] = "seed" /\ Fault("error")
    /\ boot' = [boot EXCEPT ![p] = "down"]
    /\ UNCHANGED <<keys, create, login, cancelled, history>>

----------------------------------------------------------------------------
(***************************************************************************)
(* POST /admin/tenants.                                                    *)
(***************************************************************************)
InFlight == {"first", "second", "cleanup"}

Fails(r) == IF r \in cancelled THEN UNCHANGED faults ELSE Fault("error")

Goes(r, where) == create' = [create EXCEPT ![r] = where]

VerifyAdmin(r) == HasHash /\ AdminToken[r] = adminHash

\* AdminAuth and the body, up to the first SET; the error is of the GET, or of
\* making and hashing the secret.
CreateAuth(r) ==
    /\ create[r] = "idle" /\ boot[At[r]] = "up"
    /\ \/ /\ VerifyAdmin(r)
          /\ accepted' = accepted \cup {AdminToken[r]}
          /\ Goes(r, "first") \/ Goes(r, "400")
          /\ UNCHANGED faults
       \/ /\ ~VerifyAdmin(r)
          /\ Goes(r, IF HasHash THEN "403" ELSE "503")
          /\ UNCHANGED <<faults, accepted>>
       \/ Fault("error") /\ Goes(r, "500") /\ UNCHANGED accepted
    /\ UNCHANGED <<keys, boot, login, cancelled, raced, spoilt>>

\* SET tenant_auth:{id}.  When it fails, nothing is cleaned up.
CreateFirst(r) ==
    /\ create[r] = "first"
    /\ \/ /\ r \notin cancelled
          /\ authKeys' = authKeys \cup {r}
          /\ \/ Goes(r, "second") /\ UNCHANGED <<faults, spoilt>>
             \/ Goes(r, "500") /\ Fault("lostReply") /\ spoilt' = spoilt \cup {r}
       \/ /\ Fails(r) /\ Goes(r, "500")
          /\ UNCHANGED <<authKeys, spoilt>>
    /\ UNCHANGED <<adminHash, hmacKeys, sessions, boot, login, cancelled, raced, accepted>>

\* Faulty variants: the error of the second SET is forgotten; or returned at
\* once.
AfterErrorNone == "201"
AfterErrorPlain == "500"

\* What follows when SET tenant_hmac_key:{id} returns an error.
AfterError == "cleanup"

CreateSecond(r) ==
    /\ create[r] = "second"
    /\ \/ /\ r \notin cancelled
          /\ hmacKeys' = hmacKeys \cup {r}
          /\ \/ Goes(r, "201") /\ UNCHANGED <<faults, spoilt>>
             \/ Goes(r, AfterError) /\ Fault("lostReply") /\ spoilt' = spoilt \cup {r}
       \/ /\ Fails(r) /\ Goes(r, AfterError)
          /\ UNCHANGED <<hmacKeys, spoilt>>
    /\ UNCHANGED <<adminHash, authKeys, sessions, boot, login, cancelled, raced, accepted>>

\* DEL tenant_auth:{id}, with the same context; its result is not looked at.
CleanUp(r) ==
    /\ create[r] = "cleanup" /\ Goes(r, "500")
    /\ \/ /\ r \notin cancelled
          /\ authKeys' = authKeys \ {r}
          /\ UNCHANGED <<faults, spoilt>>
       \/ /\ Fails(r) /\ spoilt' = spoilt \cup {r}
          /\ UNCHANGED authKeys
    /\ UNCHANGED <<adminHash, hmacKeys, sessions, boot, login, cancelled, raced, accepted>>

----------------------------------------------------------------------------
(***************************************************************************)
(* TenantAuth.  Clients know the secrets they were given; nobody guesses.  *)
(***************************************************************************)
Known == {r \in Creates : create[r] = "201"}

Answers == {"200", "401", "403", "500"}

Moves(where) == login' = [login EXCEPT !.at = where]

\* A request, signed with the secret or carrying it.
LoginBegins(t, s) ==
    /\ login.at \in Answers \cup {"idle"}
    /\ \E p \in Processes : boot[p] = "up"
    /\ login' \in [at : {"hmac", "session"}, tenant : {t}, secret : {s}]
    /\ UNCHANGED <<keys, boot, create, cancelled, faults, history>>

\* authenticateViaHMAC.
LoginHMAC ==
    /\ login.at = "hmac"
    /\ \/ Fault("error") /\ Moves("500")
       \/ /\ Moves(IF login.tenant \notin hmacKeys THEN "401"
                   ELSE IF login.secret # login.tenant THEN "403" ELSE "200")
          /\ UNCHANGED faults
    /\ UNCHANGED <<keys, boot, create, cancelled, history>>

\* Faulty variant: the key of the session does not name the tenant.
SessionKeyNoTenant == <<NoSecret, login.secret>>

\* auth_session:{tenant}:{hash of the secret}.
SessionKey == <<login.tenant, login.secret>>

\* authenticateViaBearer.  An error of the EXISTS counts as no session.
LoginSession ==
    /\ login.at = "session"
    /\ \/ Fault("error") /\ Moves("get")
       \/ Moves(IF SessionKey \in sessions THEN "200" ELSE "get") /\ UNCHANGED faults
    /\ UNCHANGED <<keys, boot, create, cancelled, history>>

LoginGet ==
    /\ login.at = "get"
    /\ \/ Fault("error") /\ Moves("500")
       \/ /\ Moves(IF login.tenant \notin authKeys THEN "401"
                   ELSE IF login.secret # login.tenant THEN "403" ELSE "save")
          /\ UNCHANGED faults
    /\ UNCHANGED <<keys, boot, create, cancelled, history>>

\* SET auth_session: with its TTL; its error is not looked at.
LoginSave ==
    /\ login.at = "save" /\ Moves("200")
    /\ \/ Fault("error") /\ UNCHANGED sessions
       \/ sessions' = sessions \cup {SessionKey} /\ UNCHANGED faults
    /\ UNCHANGED <<adminHash, authKeys, hmacKeys, boot, create, cancelled, history>>

SessionLapses(x) ==
    /\ sessions' = sessions \ {x}
    /\ UNCHANGED <<adminHash, authKeys, hmacKeys, boot, create, login, cancelled, faults, history>>

----------------------------------------------------------------------------
\* The client of a creation goes away: the request's context is cancelled.
Cancel(r) ==
    /\ create[r] \in InFlight /\ r \notin cancelled /\ Fault("cancel")
    /\ cancelled' = cancelled \cup {r}
    /\ UNCHANGED <<keys, boot, create, login, history>>

\* A process crashes, and the requests it was at are over.
Crash(p) ==
    /\ boot[p] # "down" /\ Fault("crash")
    /\ boot' = [boot EXCEPT ![p] = "down"]
    /\ create' = [r \in Creates |->
                     IF At[r] = p /\ create[r] \in InFlight THEN "lost" ELSE create[r]]
    /\ login' \in {login, Idle}     \* whichever process serves it
    /\ UNCHANGED <<keys, cancelled, history>>

Next ==
    \/ \E p \in Processes : SeedExists(p) \/ SeedSet(p) \/ SeedFails(p) \/ Crash(p)
    \/ \E r \in Creates :
          CreateAuth(r) \/ CreateFirst(r) \/ CreateSecond(r) \/ CleanUp(r) \/ Cancel(r)
    \/ \E t \in Creates, s \in Known \cup {NoSecret} : LoginBegins(t, s)
    \/ LoginHMAC \/ LoginSession \/ LoginGet \/ LoginSave
    \/ \E x \in sessions : SessionLapses(x)

Spec == Init /\ [][Next]_vars

----------------------------------------------------------------------------
\* The types of the variables.
TypeOK ==
    /\ adminHash \in {NoToken} \cup {Seed[p] : p \in Processes}
    /\ authKeys \subseteq Creates /\ hmacKeys \subseteq Creates
    /\ sessions \subseteq Creates \X (Creates \cup {NoSecret})
    /\ boot \in [Processes -> {"down", "seed", "up"}]
    /\ create \in [Creates -> {"idle", "lost", "201", "400", "403", "500", "503"} \cup InFlight]
    /\ login \in [at : {"idle", "hmac", "session", "get", "save"} \cup Answers,
                  tenant : Creates \cup {NoSecret}, secret : Creates \cup {NoSecret}]
    /\ cancelled \subseteq Creates /\ faults \in 0 .. MaxFaults
    /\ raced \in BOOLEAN /\ accepted \subseteq {AdminToken[r] : r \in Creates}
    /\ spoilt \subseteq Creates

\* Whoever was answered 201 has a tenant that can use both ways to
\* authenticate, for ever: no clean-up, of its own or another creation, and no
\* crash takes a key away.
ReturnedIsWhole == \A r \in Known : r \in authKeys /\ r \in hmacKeys

\* A tenant that was created and presents its secret is never refused, and
\* nothing else is let in: not another tenant's secret, through a cached session
\* or without one, and nobody as half a tenant that a failed creation left.
LoginIsRight ==
    /\ login.at = "200" => login.tenant \in Known /\ login.secret = login.tenant
    /\ login.at \in {"401", "403"} => login.secret # login.tenant

\* A creation that failed (500) leaves no key behind, as long as its client
\* stays, no reply is lost and the clean-up itself works.  (A client that goes
\* away after the first SET always leaves half a tenant: the clean-up runs with
\* the context that was cancelled.)
FailedLeavesNothing ==
    \A r \in Creates \ spoilt : create[r] = "500" => r \notin authKeys \cup hmacKeys

\* One token is the admin's for good, whatever tokens later processes are
\* started with, unless two first boots race between EXISTS and SET; and since
\* the server listens only when the token is seeded, no admin is ever told that
\* it is not (503).
OneAdmin ==
    /\ ~raced => \A x, y \in accepted : x = y
    /\ \A r \in Creates : create[r] # "503"
=============================================================================
