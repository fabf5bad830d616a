-------------------------- MODULE CredentialsProofs --------------------------
(***************************************************************************)
(* The safety of the credentials, for any number of processes, tokens,     *)
(* creations and faults.  CredInv is inductive: what is in Redis at each   *)
(* place a creation can be at, what a cached session and a request stand   *)
(* for, and who may be seeding.                                            *)
(***************************************************************************)
EXTENDS CredentialsRefinement, TLAPS

----------------------------------------------------------------------------
(***************************************************************************)
(* The inductive invariant.                                                *)
(***************************************************************************)

\* Which keys a creation has at each place; of a spoilt one less is known.
KeysInv ==
    \A r \in Creates :
        /\ create[r] \in {"idle", "first"} => r \notin authKeys /\ r \notin hmacKeys
        /\ create[r] = "second" => r \in authKeys /\ r \notin hmacKeys
        /\ create[r] = "201" => r \in authKeys /\ r \in hmacKeys
        /\ create[r] = "cleanup" /\ r \notin spoilt => r \notin hmacKeys
        /\ create[r] = "500" /\ r \notin spoilt => r \notin authKeys /\ r \notin hmacKeys

\* A cached session is of a known tenant and its own secret.
SessionInv ==
    \A x \in sessions : \E r \in Creates : x = <<r, r>> /\ create[r] = "201"

\* What a request presents is known to its client, and what its answer says.
LoginInv ==
    /\ login.secret = NoSecret \/ (login.secret \in Creates /\ create[login.secret] = "201")
    /\ login.at # "idle" => login.tenant \in Creates
    /\ login.at \in {"save", "200"} => login.secret = login.tenant
    /\ login.at \in {"401", "403"} => login.secret # login.tenant

\* Who is up has seen the hash; without a race one process seeds, and only
\* while there is no hash; and the token that was let through is the admin's.
AdminInv ==
    /\ \A p \in Processes : boot[p] = "up" => adminHash # NoToken
    /\ \A r \in Creates : create[r] # "503"
    /\ ~raced =>
         /\ \A p, q \in Processes : boot[p] = "seed" /\ boot[q] = "seed" => p = q
         /\ adminHash # NoToken => \A p \in Processes : boot[p] # "seed"
         /\ \A t \in accepted : t = adminHash /\ adminHash # NoToken

CredInv == TypeOK /\ KeysInv /\ SessionInv /\ LoginInv /\ AdminInv

----------------------------------------------------------------------------
\* It holds when nothing has started.
LEMMA InitCred == Init => CredInv
<1> SUFFICES ASSUME Init PROVE CredInv
  OBVIOUS
<1> USE CredentialsAssumption DEF Init
<1>1. TypeOK
  <2>1. login \in [at : {"idle", "hmac", "session", "get", "save"} \cup Answers,
                   tenant : Creates \cup {NoSecret}, secret : Creates \cup {NoSecret}]
    BY DEF Idle
  <2>2. adminHash \in {NoToken} /\ raced \in BOOLEAN
    OBVIOUS
  <2>3. QED
    BY <2>1, <2>2 DEF TypeOK
<1>2. KeysInv
  BY DEF KeysInv
<1>3. SessionInv
  BY DEF SessionInv
<1>4. LoginInv
  BY DEF LoginInv, Idle
<1>5. AdminInv
  BY DEF AdminInv
<1>6. QED
  BY <1>1, <1>2, <1>3, <1>4, <1>5 DEF CredInv

----------------------------------------------------------------------------
\* The types, step by step.
LEMMA TypeStep ==
  ASSUME TypeOK, LoginInv, [Next]_vars
  PROVE  TypeOK'
<1> USE CredentialsAssumption DEF TypeOK, vars, keys, history, InFlight, Answers
<1>1. ASSUME NEW p \in Processes, SeedExists(p) \/ SeedSet(p) \/ SeedFails(p)
      PROVE  TypeOK'
  <2>1. CASE SeedExists(p)
    <3>1. raced' \in BOOLEAN
      BY <2>1, Zenon DEF SeedExists
    <3>2. QED
      BY <2>1, <3>1 DEF SeedExists
  <2>2. CASE SeedSet(p) \/ SeedFails(p)
    BY <2>2 DEF SeedSet, SeedFails, Fault
  <2>3. QED
    BY <1>1, <2>1, <2>2
<1>2. ASSUME NEW p \in Processes, Crash(p)
      PROVE  TypeOK'
  <2>1. login' \in [at : {"idle", "hmac", "session", "get", "save"} \cup Answers,
                    tenant : Creates \cup {NoSecret}, secret : Creates \cup {NoSecret}]
    BY <1>2 DEF Crash, Idle
  <2>2. QED
    BY <1>2, <2>1 DEF Crash, Fault
<1>3. ASSUME NEW r \in Creates, CreateAuth(r)
      PROVE  TypeOK'
  BY <1>3 DEF CreateAuth, Fault, Goes
<1>4. ASSUME NEW r \in Creates, CreateFirst(r) \/ CreateSecond(r) \/ CleanUp(r) \/ Cancel(r)
      PROVE  TypeOK'
  BY <1>4 DEF CreateFirst, CreateSecond, CleanUp, Cancel, Fails, Fault, Goes, AfterError
<1>5. ASSUME NEW t \in Creates, NEW s \in Known \cup {NoSecret}, LoginBegins(t, s)
      PROVE  TypeOK'
  BY <1>5 DEF LoginBegins, Known
<1>6. CASE LoginHMAC \/ LoginSession \/ LoginGet
  BY <1>6 DEF LoginHMAC, LoginSession, LoginGet, Moves, Fault
<1>7. CASE LoginSave
  <2>1. SessionKey \in Creates \X (Creates \cup {NoSecret})
    BY <1>7 DEF LoginSave, SessionKey, LoginInv
  <2>2. QED
    BY <1>7, <2>1 DEF LoginSave, Moves, Fault
<1>8. ASSUME NEW x \in sessions, SessionLapses(x)
      PROVE  TypeOK'
  BY <1>8 DEF SessionLapses
<1>9. CASE UNCHANGED vars
  BY <1>9
<1>10. QED
  BY <1>1, <1>2, <1>3, <1>4, <1>5, <1>6, <1>7, <1>8, <1>9 DEF Next

\* The keys: only a creation's own steps touch them, and its clean-up is not
\* reached once it has answered.
LEMMA KeysStep ==
  ASSUME TypeOK, KeysInv, [Next]_vars
  PROVE  KeysInv'
<1> USE CredentialsAssumption DEF TypeOK, KeysInv, vars, keys, history, InFlight
<1>1. CASE UNCHANGED <<authKeys, hmacKeys, create, spoilt>>
  BY <1>1
<1>2. ASSUME NEW p \in Processes, Crash(p)
      PROVE  KeysInv'
  BY <1>2 DEF Crash
<1>3. ASSUME NEW r \in Creates, CreateAuth(r)
      PROVE  KeysInv'
  BY <1>3 DEF CreateAuth, Goes
<1>4. ASSUME NEW r \in Creates, CreateFirst(r)
      PROVE  KeysInv'
  BY <1>4 DEF CreateFirst, Goes
<1>5. ASSUME NEW r \in Creates, CreateSecond(r)
      PROVE  KeysInv'
  BY <1>5 DEF CreateSecond, Goes, AfterError
<1>6. ASSUME NEW r \in Creates, CleanUp(r)
      PROVE  KeysInv'
  BY <1>6 DEF CleanUp, Goes
<1>7. QED
  BY <1>1, <1>2, <1>3, <1>4, <1>5, <1>6
     DEF Next, SeedExists, SeedSet, SeedFails, Cancel, LoginBegins, LoginHMAC,
         LoginSession, LoginGet, LoginSave, SessionLapses

\* Who was answered 201 stays answered 201.
LEMMA KnownForGood ==
  ASSUME TypeOK, [Next]_vars, NEW r \in Creates, create[r] = "201"
  PROVE  create'[r] = "201"
<1> USE DEF TypeOK, vars, keys, history, InFlight
<1>1. CASE UNCHANGED create
  BY <1>1
<1>2. ASSUME NEW p \in Processes, Crash(p)
      PROVE  create'[r] = "201"
  BY <1>2 DEF Crash
<1>3. ASSUME NEW q \in Creates, CreateAuth(q) \/ CreateFirst(q) \/ CreateSecond(q) \/ CleanUp(q)
      PROVE  create'[r] = "201"
  BY <1>3 DEF CreateAuth, CreateFirst, CreateSecond, CleanUp, Goes
<1>4. QED
  BY <1>1, <1>2, <1>3
     DEF Next, SeedExists, SeedSet, SeedFails, Cancel, LoginBegins, LoginHMAC,
         LoginSession, LoginGet, LoginSave, SessionLapses

\* The cache: a session is saved only after its secret was found to be right.
LEMMA SessionStep ==
  ASSUME TypeOK, SessionInv, LoginInv, [Next]_vars
  PROVE  SessionInv'
<1>1. ASSUME NEW x \in sessions
      PROVE  \E r \in Creates : x = <<r, r>> /\ create'[r] = "201"
  BY KnownForGood DEF SessionInv
<1>2. CASE LoginSave
  <2>1. PICK r \in Creates : SessionKey = <<r, r>> /\ create'[r] = "201"
    BY <1>2, KnownForGood, CredentialsAssumption DEF LoginSave, LoginInv, SessionKey
  <2>2. QED
    BY <1>1, <1>2, <2>1 DEF LoginSave, SessionInv
<1>3. CASE sessions' \subseteq sessions
  BY <1>1, <1>3 DEF SessionInv
<1>4. QED
  BY <1>2, <1>3
     DEF Next, vars, keys, SeedExists, SeedSet, SeedFails, Crash, CreateAuth, CreateFirst,
         CreateSecond, CleanUp, Cancel, LoginBegins, LoginHMAC, LoginSession, LoginGet,
         SessionLapses

\* The answers of TenantAuth: a secret is compared with its tenant's, and the
\* keys of a known tenant are there.
LEMMA LoginStep ==
  ASSUME TypeOK, KeysInv, SessionInv, LoginInv, [Next]_vars
  PROVE  LoginInv'
<1> USE CredentialsAssumption DEF LoginInv, Answers
<1>1. CASE UNCHANGED login
  BY <1>1, KnownForGood
<1>2. ASSUME NEW t \in Creates, NEW s \in Known \cup {NoSecret}, LoginBegins(t, s)
      PROVE  LoginInv'
  BY <1>2 DEF LoginBegins, Known
<1>3. CASE LoginHMAC
  <2>1. UNCHANGED create /\ login.at = "hmac"
    BY <1>3 DEF LoginHMAC
  <2>2. CASE Moves("500")
    BY <2>1, <2>2 DEF Moves, TypeOK
  <2>3. CASE Moves(IF login.tenant \notin hmacKeys THEN "401"
                   ELSE IF login.secret # login.tenant THEN "403" ELSE "200")
    BY <2>1, <2>3 DEF Moves, TypeOK, KeysInv
  <2>4. QED
    BY <1>3, <2>2, <2>3 DEF LoginHMAC
<1>4. CASE LoginSession
  <2>1. SessionKey \in sessions => login.secret = login.tenant
    BY DEF SessionInv, SessionKey
  <2>2. QED
    BY <1>4, <2>1 DEF LoginSession, Moves, TypeOK
<1>5. CASE LoginGet
  <2>1. UNCHANGED create /\ login.at = "get"
    BY <1>5 DEF LoginGet
  <2>2. CASE Moves("500")
    BY <2>1, <2>2 DEF Moves, TypeOK
  <2>3. CASE Moves(IF login.tenant \notin authKeys THEN "401"
                   ELSE IF login.secret # login.tenant THEN "403" ELSE "save")
    BY <2>1, <2>3 DEF Moves, TypeOK, KeysInv
  <2>4. QED
    BY <1>5, <2>2, <2>3 DEF LoginGet
<1>6. CASE LoginSave
  BY <1>6 DEF LoginSave, Moves, TypeOK
<1>7. ASSUME NEW p \in Processes, Crash(p)
      PROVE  LoginInv'
  <2>1. CASE login' = Idle
    BY <2>1 DEF Idle
  <2>2. QED
    BY <1>1, <1>7, <2>1 DEF Crash
<1>8. QED
  BY <1>1, <1>2, <1>3, <1>4, <1>5, <1>6, <1>7
     DEF Next, vars, SeedExists, SeedSet, SeedFails, CreateAuth, CreateFirst,
         CreateSecond, CleanUp, Cancel, SessionLapses

\* The admin: a process that comes up finds a hash or has just set it.
LEMMA AdminStep ==
  ASSUME TypeOK, AdminInv, [Next]_vars
  PROVE  AdminInv'
<1> USE CredentialsAssumption DEF TypeOK, AdminInv, HasHash, InFlight
<1>1. CASE UNCHANGED <<adminHash, boot, create, raced, accepted>>
  BY <1>1
<1>2. ASSUME NEW p \in Processes, SeedExists(p)
      PROVE  AdminInv'
  BY <1>2 DEF SeedExists, keys
<1>3. ASSUME NEW p \in Processes, SeedSet(p)
      PROVE  AdminInv'
  BY <1>3 DEF SeedSet, history
<1>4. ASSUME NEW p \in Processes, SeedFails(p) \/ Crash(p)
      PROVE  AdminInv'
  BY <1>4 DEF SeedFails, Crash, keys, history
<1>5. ASSUME NEW r \in Creates, CreateAuth(r)
      PROVE  AdminInv'
  BY <1>5 DEF CreateAuth, VerifyAdmin, Goes, keys
<1>6. ASSUME NEW r \in Creates, CreateFirst(r) \/ CreateSecond(r) \/ CleanUp(r)
      PROVE  AdminInv'
  BY <1>6 DEF CreateFirst, CreateSecond, CleanUp, Goes, AfterError
<1>7. QED
  BY <1>1, <1>2, <1>3, <1>4, <1>5, <1>6
     DEF Next, vars, keys, history, Cancel, LoginBegins, LoginHMAC, LoginSession,
         LoginGet, LoginSave, SessionLapses

\* Every step preserves the invariant.
LEMMA CredStep == CredInv /\ [Next]_vars => CredInv'
  BY TypeStep, KeysStep, SessionStep, LoginStep, AdminStep DEF CredInv

LEMMA Invariance == Spec => []CredInv
<1>1. QED
  BY InitCred, CredStep, PTL DEF Spec

----------------------------------------------------------------------------
(***************************************************************************)
(* What the runs check, for every value of the constants.                  *)
(***************************************************************************)

\* The variables keep their types (boot, requests, keys and faults).
THEOREM CredTypes == Spec => []TypeOK
<1>1. CredInv => TypeOK
  BY DEF CredInv
<1>2. QED
  BY <1>1, Invariance, PTL

\* A tenant whose creation was answered 201 keeps both of its keys.
THEOREM WholeTenants == Spec => []ReturnedIsWhole
<1>1. CredInv => ReturnedIsWhole
  BY DEF CredInv, KeysInv, ReturnedIsWhole, Known
<1>2. QED
  BY <1>1, Invariance, PTL

\* TenantAuth lets in exactly those who present their own tenant's secret.
THEOREM RightLogins == Spec => []LoginIsRight
<1>1. CredInv => LoginIsRight
  BY CredentialsAssumption DEF CredInv, LoginInv, LoginIsRight, Known
<1>2. QED
  BY <1>1, Invariance, PTL

\* A failed creation that nothing else went wrong with leaves no key.
THEOREM NoHalfTenants == Spec => []FailedLeavesNothing
<1>1. CredInv => FailedLeavesNothing
  BY DEF CredInv, KeysInv, FailedLeavesNothing
<1>2. QED
  BY <1>1, Invariance, PTL

\* The first seeded token stays the only admin's unless two boots raced.
THEOREM OneAdminForGood == Spec => []OneAdmin
<1>1. CredInv => OneAdmin
  BY DEF CredInv, AdminInv, OneAdmin
<1>2. QED
  BY <1>1, Invariance, PTL

----------------------------------------------------------------------------
(***************************************************************************)
(* The credentials implement Registry.  The type and login parts of the    *)
(* invariant say that a request presents what its client may know, and     *)
(* what was compared before it got where it is; KeysInv and SessionInv,    *)
(* which hold of Redis, say that the comparison was with the right secret. *)
(***************************************************************************)

\* What a client sees does not change while its request stays where it is.
LEMMA SameAnswer == UNCHANGED login => UNCHANGED asked
  BY DEF asked, Outcome

\* The registry changes only when a creation is answered 201.
LEMMA SameTenants ==
  ASSUME TypeOK, [Next]_vars, \A r \in Creates : create'[r] = "201" => create[r] = "201"
  PROVE  UNCHANGED Known
  BY KnownForGood DEF Known

\* A request that moves keeps what it presents.
LEMMA Moved ==
  ASSUME TypeOK, NEW where, Moves(where)
  PROVE  /\ login'.at = where
         /\ login'.tenant = login.tenant /\ login'.secret = login.secret
  BY DEF Moves, TypeOK

\* A step of TenantAuth is an answer of Registry, or not yet one.
LEMMA AnswersRight ==
  ASSUME CredInv, NEW where, Moves(where), UNCHANGED Known,
         login.at \in {"hmac", "session", "get", "save"},
         \/ where \in {"get", "save", "500"}
         \/ where = "200" /\ login.secret = login.tenant
         \/ where \in {"401", "403"} /\ login.secret # login.tenant
  PROVE  [Promise!Next]_<<Known, asked>>
<1>1. /\ login'.at = where
      /\ login'.tenant = login.tenant /\ login'.secret = login.secret
  BY Moved DEF CredInv
<1>2. asked.at = "asked" /\ asked.tenant = login.tenant /\ asked.secret = login.secret
  BY DEF asked, Outcome
<1>3. asked' = [asked EXCEPT !.at = Outcome']
  BY <1>1 DEF asked
<1>4. CASE where \in {"get", "save"}
  <2>1. Outcome' = "asked"
    BY <1>1, <1>4 DEF Outcome
  <2>2. UNCHANGED asked
    BY <1>2, <1>3, <2>1 DEF asked
  <2>3. QED
    BY <2>2
<1>5. CASE where = "500"
  <2>1. Outcome' = "failed"
    BY <1>1, <1>5 DEF Outcome
  <2>2. QED
    BY <1>2, <1>3, <2>1 DEF Promise!Next, Promise!BreakDown, Promise!Comes
<1>6. CASE where = "200" /\ login.secret = login.tenant
  <2>1. Outcome' = "granted"
    BY <1>1, <1>6 DEF Outcome
  <2>2. login.tenant \in Known
    BY <1>6, CredentialsAssumption DEF CredInv, LoginInv, Known
  <2>3. QED
    BY <1>2, <1>3, <1>6, <2>1, <2>2 DEF Promise!Next, Promise!Grant, Promise!Comes
<1>7. CASE where \in {"401", "403"} /\ login.secret # login.tenant
  <2>1. Outcome' = "refused"
    BY <1>1, <1>7 DEF Outcome
  <2>2. QED
    BY <1>2, <1>3, <1>7, <2>1 DEF Promise!Next, Promise!Refuse, Promise!Comes
<1>8. QED
  BY <1>4, <1>5, <1>6, <1>7

\* Every step of the code is a step of Registry, or changes nothing of it.
LEMMA RegistryStep ==
  ASSUME CredInv, [Next]_vars
  PROVE  [Promise!Next]_<<Known, asked>>
<1> USE DEF vars, keys, history
<1>1. CASE UNCHANGED <<create, login>>
  <2>1. UNCHANGED <<Known, asked>>
    BY <1>1, SameAnswer DEF Known
  <2>2. QED
    BY <2>1
<1>2. ASSUME NEW r \in Creates, CreateAuth(r) \/ CreateFirst(r) \/ CleanUp(r)
      PROVE  [Promise!Next]_<<Known, asked>>
  <2>1. UNCHANGED asked
    BY <1>2, SameAnswer DEF CreateAuth, CreateFirst, CleanUp
  <2>2. \A q \in Creates : create'[q] = "201" => create[q] = "201"
    BY <1>2 DEF CreateAuth, CreateFirst, CleanUp, Goes, CredInv, TypeOK
  <2>3. UNCHANGED Known
    BY <2>2, SameTenants DEF CredInv
  <2>4. QED
    BY <2>1, <2>3
<1>3. ASSUME NEW r \in Creates, CreateSecond(r)
      PROVE  [Promise!Next]_<<Known, asked>>
  <2>1. UNCHANGED asked
    BY <1>3, SameAnswer DEF CreateSecond
  <2>2. create[r] = "second" /\ (Goes(r, "201") \/ Goes(r, "cleanup"))
    BY <1>3 DEF CreateSecond, AfterError
  <2>3. CASE Goes(r, "201")
    <3>1. r \notin Known /\ Known' = Known \cup {r}
      BY <2>2, <2>3 DEF Goes, Known, CredInv, TypeOK
    <3>2. Promise!Register(r)
      BY <2>1, <3>1 DEF Promise!Register
    <3>3. QED
      BY <3>2 DEF Promise!Next
  <2>4. CASE Goes(r, "cleanup")
    <3>1. \A q \in Creates : create'[q] = "201" => create[q] = "201"
      BY <2>4 DEF Goes, CredInv, TypeOK
    <3>2. UNCHANGED Known
      BY <3>1, SameTenants DEF CredInv
    <3>3. QED
      BY <2>1, <3>2
  <2>5. QED
    BY <2>2, <2>3, <2>4
<1>4. ASSUME NEW t \in Creates, NEW s \in Known \cup {NoSecret}, LoginBegins(t, s)
      PROVE  [Promise!Next]_<<Known, asked>>
  <2>1. UNCHANGED Known
    BY <1>4 DEF LoginBegins, Known
  <2>2. asked.at # "asked"
    BY <1>4 DEF LoginBegins, asked, Outcome, Answers
  <2>3. asked' = [at |-> "asked", tenant |-> t, secret |-> s]
    BY <1>4 DEF LoginBegins, asked, Outcome
  <2>4. Promise!Ask(t, s)
    BY <2>1, <2>2, <2>3 DEF Promise!Ask
  <2>5. QED
    BY <2>4 DEF Promise!Next
<1>5. CASE LoginHMAC
  <2>1. UNCHANGED Known
    BY <1>5 DEF LoginHMAC, Known
  <2>2. CASE Moves("500")
    BY <1>5, <2>1, <2>2, AnswersRight DEF LoginHMAC
  <2>3. CASE login.tenant \notin hmacKeys /\ Moves("401")
    <3>1. login.secret # login.tenant
      BY <1>5, <2>3, CredentialsAssumption DEF LoginHMAC, CredInv, KeysInv, LoginInv, TypeOK
    <3>2. QED
      BY <1>5, <2>1, <2>3, <3>1, AnswersRight DEF LoginHMAC
  <2>4. CASE login.secret # login.tenant /\ Moves("403")
    BY <1>5, <2>1, <2>4, AnswersRight DEF LoginHMAC
  <2>5. CASE login.secret = login.tenant /\ Moves("200")
    BY <1>5, <2>1, <2>5, AnswersRight DEF LoginHMAC
  <2>6. QED
    BY <1>5, <2>2, <2>3, <2>4, <2>5 DEF LoginHMAC
<1>6. CASE LoginSession
  <2>1. UNCHANGED Known
    BY <1>6 DEF LoginSession, Known
  <2>2. CASE Moves("get")
    BY <1>6, <2>1, <2>2, AnswersRight DEF LoginSession
  <2>3. CASE SessionKey \in sessions /\ Moves("200")
    <3>1. login.secret = login.tenant
      BY <2>3 DEF CredInv, SessionInv, SessionKey
    <3>2. QED
      BY <1>6, <2>1, <2>3, <3>1, AnswersRight DEF LoginSession
  <2>4. QED
    BY <1>6, <2>2, <2>3 DEF LoginSession
<1>7. CASE LoginGet
  <2>1. UNCHANGED Known
    BY <1>7 DEF LoginGet, Known
  <2>2. CASE Moves("500") \/ Moves("save")
    BY <1>7, <2>1, <2>2, AnswersRight DEF LoginGet
  <2>3. CASE login.tenant \notin authKeys /\ Moves("401")
    <3>1. login.secret # login.tenant
      BY <1>7, <2>3, CredentialsAssumption DEF LoginGet, CredInv, KeysInv, LoginInv, TypeOK
    <3>2. QED
      BY <1>7, <2>1, <2>3, <3>1, AnswersRight DEF LoginGet
  <2>4. CASE login.secret # login.tenant /\ Moves("403")
    BY <1>7, <2>1, <2>4, AnswersRight DEF LoginGet
  <2>5. QED
    BY <1>7, <2>2, <2>3, <2>4 DEF LoginGet
<1>8. CASE LoginSave
  <2>1. UNCHANGED Known /\ login.secret = login.tenant
    BY <1>8 DEF LoginSave, Known, CredInv, LoginInv
  <2>2. QED
    BY <1>8, <2>1, AnswersRight DEF LoginSave
<1>9. ASSUME NEW p \in Processes, Crash(p)
      PROVE  [Promise!Next]_<<Known, asked>>
  <2>1. \A q \in Creates : create'[q] = "201" => create[q] = "201"
    BY <1>9 DEF Crash, CredInv, TypeOK
  <2>2. UNCHANGED Known
    BY <2>1, SameTenants DEF CredInv
  <2>3. CASE UNCHANGED login
    BY <2>2, <2>3, SameAnswer
  <2>4. CASE login' = Idle
    <3>1. asked' = Promise!Nothing
      BY <2>4 DEF asked, Outcome, Idle, Promise!Nothing
    <3>2. QED
      BY <2>2, <3>1 DEF Promise!Next, Promise!Forget
  <2>5. QED
    BY <1>9, <2>3, <2>4 DEF Crash
<1>10. QED
  BY <1>1, <1>2, <1>3, <1>4, <1>5, <1>6, <1>7, <1>8, <1>9
     DEF Next, SeedExists, SeedSet, SeedFails, Cancel, SessionLapses

\* The tenants answered 201 and the requests to the tenant routes are a
\* registry that forgets nobody and lets in its tenants and no one else,
\* through any clean-ups, cached sessions, races of boots, crashes, lost
\* replies and cancelled creations.
THEOREM CredentialsAreARegistry == Spec => ImplementsRegistry
<1>1. Init => Promise!Init
  BY DEF Init, Promise!Init, Promise!Nothing, Known, asked, Outcome, Idle
<1>2. CredInv /\ [Next]_vars => [Promise!Next]_<<Known, asked>>
  BY RegistryStep
<1>3. QED
  BY <1>1, <1>2, Invariance, PTL DEF Spec, ImplementsRegistry, Promise!Spec
=============================================================================
