----------------------------- MODULE WebProofs -----------------------------
(***************************************************************************)
(* Theorems about Web, for any services, tenants, callers and resources    *)
(* and any bounds.  Its five parts share no variable, so each has an       *)
(* invariant of its own that no step of another part touches:              *)
(*   - keys: between tasks a service signs and trusts with one key, and    *)
(*     has renewed its token in time;                                      *)
(*   - tenants: what a provider owes a caller, and what was announced;     *)
(*   - authentication: what is kept for a token and what each request that *)
(*     waits for an answer is still entitled to;                           *)
(*   - requests: the layers that are yet to come are in the order of their *)
(*     ranks, and what those before them are for has been done;            *)
(*   - calls: what is yet to resolve and what was resolved are together    *)
(*     what was offered.                                                   *)
(***************************************************************************)
EXTENDS Web, SequenceTheorems, TLAPS

\* A step of the composition is a step of each part, or leaves it alone.
LEMMA PartSteps ==
  ASSUME [WebNext /\ UNCHANGED part]_webVars
  PROVE  /\ [Next]_vars
         /\ [Tenancy!Next]_tenantVars
         /\ [Authenticating!Next]_authVars
         /\ [Requests!Next]_requestVars
         /\ [Calls!Next]_callVars
<1>1. CASE UNCHANGED webVars
  BY <1>1 DEF webVars
<1>2. CASE WebNext
  BY <1>2 DEF WebNext
<1> QED
  BY <1>1, <1>2

-----------------------------------------------------------------------------
(* The keys.  OneKey is not inductive: that a service which is not         *)
(* initialized has no key yet depends on its having neither a connection   *)
(* nor a task.                                                             *)

\* A service that cannot connect before initialize() has nothing before it.
NothingBefore ==
  \A s \in Services \ Early : ~initialized[s] =>
    /\ ~connected[s] /\ todo[s] = 0 /\ pc[s] = "idle"
    /\ privateKey[s] = NoKey

\* OneKey at every moment, for the task is alone between its calls.
OneKeyAlways ==
  \A s \in Services : /\ tokenKey[s] = privateKey[s]
                      /\ s \notin Early => publicKey[s] = privateKey[s]

AuthInv == TypeOK /\ NothingBefore /\ OneKeyAlways

\* What the end of a task does to the invariant, whichever key k it has.
LEMMA PreparedKeeps ==
  ASSUME AuthInv, NEW s \in Services, NEW k \in Keys, pc[s] # "idle", Prepared(s, k),
         zkKey' \in Keys, UNCHANGED <<generated, initialized, connected, todo, deletes, breaks, raises>>
  PROVE  AuthInv'
<1>. USE LifetimeAssumption, BoundsAssumption
<1>1. TypeOK'
  BY DEF AuthInv, TypeOK, Prepared, IssueIdToken, IsIdTokenReady, NoKey, Keys
<1>2. s \in Early \/ initialized[s]
  BY DEF AuthInv, NothingBefore
<1>3. NothingBefore'
  BY <1>2 DEF AuthInv, TypeOK, NothingBefore, Prepared
<1>4. OneKeyAlways'
  BY <1>2 DEF AuthInv, TypeOK, OneKeyAlways, Prepared, IssueIdToken
<1>. QED BY <1>1, <1>3, <1>4 DEF AuthInv

LEMMA AuthInvInit == Init => AuthInv
  BY LifetimeAssumption, BoundsAssumption
  DEF Init, AuthInv, TypeOK, NothingBefore, OneKeyAlways, Keys, NoKey

LEMMA AuthInvStep == AuthInv /\ [Next]_vars => AuthInv'
<1>. SUFFICES ASSUME AuthInv, [Next]_vars PROVE AuthInv'
  OBVIOUS
<1>. USE LifetimeAssumption, BoundsAssumption
<1>1. CASE Delete
  BY <1>1 DEF Delete, perService, AuthInv, TypeOK, NothingBefore, OneKeyAlways, Keys, NoKey
<1>2. ASSUME NEW s \in Services, Break(s) PROVE AuthInv'
  BY <1>2 DEF Break, AuthInv, TypeOK, NothingBefore, OneKeyAlways
<1>3. ASSUME NEW s \in Services, Connect(s) PROVE AuthInv'
  BY <1>3 DEF Connect, Schedule, AuthInv, TypeOK, NothingBefore, OneKeyAlways
<1>4. ASSUME NEW s \in Services, Tick(s) PROVE AuthInv'
  BY <1>4 DEF Tick, Schedule, Idle, AuthInv, TypeOK, NothingBefore, OneKeyAlways
<1>5. ASSUME NEW s \in Services, Initialize(s) PROVE AuthInv'
  BY <1>5 DEF Initialize, AuthInv, TypeOK, NothingBefore, OneKeyAlways
<1>6. ASSUME NEW s \in Services, Start(s) PROVE AuthInv'
  BY <1>6 DEF Start, Idle, AuthInv, TypeOK, NothingBefore, OneKeyAlways
<1>7. ASSUME NEW s \in Services, GetFound(s) PROVE AuthInv'
  BY <1>7, PreparedKeeps DEF GetFound, AuthInv, TypeOK
<1>8. ASSUME NEW s \in Services, GetNoNode(s) PROVE AuthInv'
  BY <1>8 DEF GetNoNode, AuthInv, TypeOK, NothingBefore, OneKeyAlways, Keys
<1>9. ASSUME NEW s \in Services, GetLost(s) PROVE AuthInv'
  BY <1>9 DEF GetLost, IssueIdToken, AuthInv, TypeOK, NothingBefore, OneKeyAlways
<1>10. ASSUME NEW s \in Services, CreateDone(s) PROVE AuthInv'
  BY <1>10, PreparedKeeps DEF CreateDone, AuthInv, TypeOK
<1>11. ASSUME NEW s \in Services, CreateExists(s) PROVE AuthInv'
  BY <1>11, PreparedKeeps DEF CreateExists, AuthInv, TypeOK
<1>12. ASSUME NEW s \in Services, CreateLost(s) PROVE AuthInv'
  BY <1>12 DEF CreateLost, AuthInv, TypeOK, NothingBefore, OneKeyAlways, Keys, NoKey
<1>13. ASSUME NEW s \in Services, CallRaises(s) PROVE AuthInv'
  BY <1>13 DEF CallRaises, AuthInv, TypeOK, NothingBefore, OneKeyAlways, Keys, NoKey
<1>14. ASSUME NEW s \in Services, GetAuthorizationHeader(s) PROVE AuthInv'
  BY <1>14 DEF GetAuthorizationHeader, IssueIdToken, AuthInv, TypeOK, NothingBefore, OneKeyAlways
<1>15. CASE UNCHANGED vars
  BY <1>15 DEF vars, perService, AuthInv, TypeOK, NothingBefore, OneKeyAlways
<1>. QED BY <1>1, <1>2, <1>3, <1>4, <1>5, <1>6, <1>7, <1>8, <1>9, <1>10, <1>11, <1>12,
            <1>13, <1>14, <1>15 DEF Next, Task

\* As long as nobody removes the key, a service that has one can find one; it creates a key only
\* as long as it has none, so that a task that is cut off before its end has no token to renew.
KeyStays ==
  /\ \A s \in Services : pc[s] = "create" => own[s] # NoKey
  /\ deletes = 0 =>
       \A s \in Services : /\ privateKey[s] # NoKey => zkKey # NoKey
                           /\ pc[s] = "create" => privateKey[s] = NoKey

RenewInv == KeyStays /\ Renewed

\* What the end of a task does to the second invariant: k is found or has just been created.
LEMMA PreparedRenews ==
  ASSUME TypeOK, RenewInv, NEW s \in Services, NEW k \in Keys \ {NoKey}, pc[s] # "idle",
         Prepared(s, k), zkKey' # NoKey, UNCHANGED <<todo, deletes, raises>>
  PROVE  RenewInv'
<1>. USE LifetimeAssumption, BoundsAssumption
<1>1. KeyStays'
  BY DEF RenewInv, KeyStays, TypeOK, Prepared
<1>2. (tokenAge[s] + Leeway <= Lifetime)'
  BY DEF TypeOK, Prepared, IssueIdToken, IsIdTokenReady, NoKey, Keys
<1>3. \A r \in Services \ {s} : UNCHANGED <<pc[r], privateKey[r], tokenAge[r]>>
  BY DEF TypeOK, Prepared, IssueIdToken
<1>. QED BY <1>1, <1>2, <1>3 DEF RenewInv, Renewed, Idle

LEMMA RenewStep == AuthInv /\ RenewInv /\ [Next]_vars => RenewInv'
<1>. SUFFICES ASSUME AuthInv, RenewInv, [Next]_vars PROVE RenewInv'
  OBVIOUS
<1>. USE LifetimeAssumption, BoundsAssumption
<1>0. TypeOK /\ KeyStays /\ Renewed /\ deletes \in Nat /\ raises \in Nat /\ deletes + 1 # 0
      /\ raises + 1 # 0
  BY DEF AuthInv, RenewInv, TypeOK
<1>1. CASE Delete
  BY <1>0, <1>1 DEF Delete, perService, RenewInv, KeyStays, Renewed
<1>2. ASSUME NEW s \in Services, Break(s) PROVE RenewInv'
  BY <1>0, <1>2 DEF Break, RenewInv, KeyStays, Renewed, Idle
<1>3. ASSUME NEW s \in Services, Connect(s) PROVE RenewInv'
  BY <1>0, <1>3 DEF Connect, Schedule, TypeOK, RenewInv, KeyStays, Renewed, Idle
<1>4. ASSUME NEW s \in Services, Tick(s) PROVE RenewInv'
  BY <1>0, <1>4 DEF Tick, Schedule, TypeOK, RenewInv, KeyStays, Renewed, Idle
<1>5. ASSUME NEW s \in Services, Initialize(s) PROVE RenewInv'
  BY <1>0, <1>5 DEF Initialize, RenewInv, KeyStays, Renewed, Idle
<1>6. ASSUME NEW s \in Services, Start(s) PROVE RenewInv'
  BY <1>0, <1>6 DEF Start, TypeOK, RenewInv, KeyStays, Renewed, Idle
<1>7. ASSUME NEW s \in Services, GetFound(s) PROVE RenewInv'
  BY <1>0, <1>7, PreparedRenews DEF GetFound, RenewInv, TypeOK
<1>8. ASSUME NEW s \in Services, GetNoNode(s) PROVE RenewInv'
  BY <1>0, <1>8 DEF GetNoNode, TypeOK, RenewInv, KeyStays, Renewed, Idle, Keys, NoKey
<1>9. ASSUME NEW s \in Services, GetLost(s) PROVE RenewInv'
  <2>1. KeyStays'
    BY <1>0, <1>9 DEF GetLost, TypeOK, KeyStays
  <2>2. (privateKey[s] # NoKey => tokenAge[s] + Leeway <= Lifetime)'
    BY <1>0, <1>9 DEF GetLost, IssueIdToken, IsIdTokenReady, TypeOK, AuthInv, OneKeyAlways
  <2>3. \A r \in Services \ {s} : UNCHANGED <<pc[r], privateKey[r], tokenAge[r]>>
    BY <1>0, <1>9 DEF GetLost, IssueIdToken, TypeOK
  <2>. QED BY <1>0, <1>9, <2>1, <2>2, <2>3 DEF GetLost, RenewInv, Renewed, Idle
<1>10. ASSUME NEW s \in Services, CreateDone(s) PROVE RenewInv'
  BY <1>0, <1>10, PreparedRenews DEF CreateDone, RenewInv, KeyStays, TypeOK
<1>11. ASSUME NEW s \in Services, CreateExists(s) PROVE RenewInv'
  BY <1>0, <1>11, PreparedRenews DEF CreateExists, RenewInv, KeyStays, TypeOK
<1>12. ASSUME NEW s \in Services, CreateLost(s) PROVE RenewInv'
  BY <1>0, <1>12 DEF CreateLost, TypeOK, RenewInv, KeyStays, Renewed, Idle
<1>13. ASSUME NEW s \in Services, CallRaises(s) PROVE RenewInv'
  BY <1>0, <1>13 DEF CallRaises, TypeOK, RenewInv, KeyStays, Renewed, Idle
<1>14. ASSUME NEW s \in Services, GetAuthorizationHeader(s) PROVE RenewInv'
  BY <1>0, <1>14 DEF GetAuthorizationHeader, IssueIdToken, TypeOK, RenewInv, KeyStays, Renewed, Idle
<1>15. CASE UNCHANGED vars
  BY <1>0, <1>15 DEF vars, perService, RenewInv, KeyStays, Renewed, Idle
<1>. QED BY <1>1, <1>2, <1>3, <1>4, <1>5, <1>6, <1>7, <1>8, <1>9, <1>10, <1>11, <1>12,
            <1>13, <1>14, <1>15 DEF Next, Task

LEMMA RenewInit == Init => RenewInv
  BY LifetimeAssumption DEF Init, RenewInv, KeyStays, Renewed, Idle, NoKey

-----------------------------------------------------------------------------
(* The tenants.                                                            *)

Reading == {Tenancy!Ended, Tenancy!Asked, Tenancy!Listing, Tenancy!Refused, Tenancy!Raises}
             \cup [at : {"got"}, list : Tenancy!Lists]

TenantsType ==
  /\ source \in [Tenancy!Remote -> Tenancy!Lists \cup {NoList}] /\ source["web"] # NoList
  /\ tenants \in [Tenancy!Providers -> Tenancy!Lists]
  /\ ready \in [Tenancy!Providers -> BOOLEAN] /\ isReady \in BOOLEAN /\ announced \in BOOLEAN
  /\ call \in [Caller -> [Tenancy!Remote -> Reading]]
  /\ asks \in [Caller -> TenantId \cup {Tenancy!Nothing, "update"}]
  /\ owed \in [Caller -> SUBSET Tenancy!Remote]

\* What is owed to a task is in the copy of the list when its reading of it has ended.
OwedInv ==
  /\ \A t \in denied : owed[t] = {}
  /\ \A t \in Caller : \A p \in owed[t] : call[t][p] = Tenancy!Ended => asks[t] \in tenants[p]

\* The service knows whether its providers are ready, and says what it knows.
ReadyInv == isReady = announced /\ Tenancy!ReadinessTold

TenantsInv == TenantsType /\ OwedInv /\ ReadyInv /\ denied \subseteq Caller

LEMMA Readings ==
  /\ \A c \in Reading : c.at = "got" => c.list \in Tenancy!Lists
  /\ Tenancy!Asked # Tenancy!Ended
  /\ Tenancy!Listing # Tenancy!Ended
  /\ Tenancy!Refused # Tenancy!Ended
  /\ Tenancy!Raises # Tenancy!Ended
  /\ \A list : Tenancy!Got(list) # Tenancy!Ended
  /\ \A list \in Tenancy!Lists : Tenancy!Got(list) \in Reading
  BY DEF Reading, Tenancy!Asked, Tenancy!Ended, Tenancy!Listing, Tenancy!Refused, Tenancy!Raises,
         Tenancy!Got

\* Where an answer comes, nothing is said of its end.
LEMMA AnswerStep ==
  ASSUME TenantsInv, NEW t \in Caller, NEW p \in Tenancy!Remote, NEW c \in Reading,
         c # Tenancy!Ended, Tenancy!Answers(t, p, c),
         UNCHANGED <<source, tenants, ready, isReady, announced, asks, denied, owed>>
  PROVE  TenantsInv'
<1>1. call' = [call EXCEPT ![t] = [call[t] EXCEPT ![p] = c]]
  BY DEF Tenancy!Answers
<1>2. call' \in [Caller -> [Tenancy!Remote -> Reading]]
  BY <1>1 DEF TenantsInv, TenantsType
<1>3. \A u \in Caller : \A q \in Tenancy!Remote :
        call'[u][q] = Tenancy!Ended => call[u][q] = Tenancy!Ended
  BY <1>1 DEF TenantsInv, TenantsType
<1>4. TenantsType'
  BY <1>2 DEF TenantsInv, TenantsType
<1>5. OwedInv'
  BY <1>3 DEF TenantsInv, OwedInv, TenantsType
<1>6. ReadyInv'
  BY DEF TenantsInv, ReadyInv, Tenancy!ReadinessTold
<1> QED
  BY <1>4, <1>5, <1>6 DEF TenantsInv

LEMMA TenantsStep == TenantsInv /\ [Tenancy!Next]_tenantVars => TenantsInv'
<1> SUFFICES ASSUME TenantsInv, [Tenancy!Next]_tenantVars PROVE TenantsInv'
  OBVIOUS
<1> USE DEF TenantsInv
<1>0. "web" \in Tenancy!Remote /\ "zookeeper" \in Tenancy!Remote
      /\ Tenancy!Remote \subseteq Tenancy!Providers
  BY DEF Tenancy!Remote, Tenancy!Providers
<1>1. ASSUME NEW p \in Tenancy!Remote, NEW list \in Tenancy!Lists \cup {NoList},
             Tenancy!Move(p, list)
      PROVE  TenantsInv'
  <2>1. /\ source' = [source EXCEPT ![p] = list]
        /\ p = "web" => list # NoList
        /\ owed' = [t \in Caller |-> IF list # NoList /\ asks[t] \in list THEN owed[t] ELSE owed[t] \ {p}]
        /\ UNCHANGED <<tenants, ready, isReady, announced, call, asks, denied>>
    BY <1>1 DEF Tenancy!Move
  <2>2. source' \in [Tenancy!Remote -> Tenancy!Lists \cup {NoList}] /\ source'["web"] # NoList
    BY <2>1, <1>0 DEF TenantsType
  <2>3. \A t \in Caller : owed'[t] \subseteq owed[t]
    BY <2>1 DEF TenantsType
  <2>4. owed' \in [Caller -> SUBSET Tenancy!Remote]
    BY <2>1 DEF TenantsType
  <2>5. TenantsType'
    BY <2>1, <2>2, <2>4 DEF TenantsType
  <2>6. OwedInv'
    BY <2>1, <2>3 DEF OwedInv
  <2>7. ReadyInv'
    BY <2>1 DEF ReadyInv, Tenancy!ReadinessTold
  <2> QED
    BY <2>1, <2>5, <2>6, <2>7
<1>2. ASSUME NEW t \in Caller, Tenancy!Gathered(t)
      PROVE  TenantsInv'
  <2>1. /\ asks' = [asks EXCEPT ![t] = Tenancy!Nothing]
        /\ \A p \in Tenancy!Remote : call[t][p] = Tenancy!Ended
        /\ UNCHANGED <<source, tenants, ready, isReady, announced, call>>
        /\ IF asks[t] \in TenantId /\ ~Tenancy!Known(asks[t])
             THEN denied' = denied \cup {t} /\ UNCHANGED owed
             ELSE owed' = [owed EXCEPT ![t] = {}] /\ UNCHANGED denied
    BY <1>2 DEF Tenancy!Gathered
  <2>2. asks[t] \in TenantId /\ ~Tenancy!Known(asks[t]) => owed[t] = {}
    BY <2>1, <1>0 DEF OwedInv, TenantsType, Tenancy!Known
  <2>3. owed'[t] = {} /\ (\A u \in Caller \ {t} : owed'[u] = owed[u])
        /\ owed' \in [Caller -> SUBSET Tenancy!Remote]
        /\ denied' \subseteq denied \cup {t}
    BY <2>1, <2>2 DEF TenantsType
  <2>4. asks' \in [Caller -> TenantId \cup {Tenancy!Nothing, "update"}]
        /\ \A u \in Caller \ {t} : asks'[u] = asks[u]
    BY <2>1 DEF TenantsType
  <2>5. TenantsType'
    BY <2>1, <2>3, <2>4 DEF TenantsType
  <2>6. OwedInv'
    BY <2>1, <2>3, <2>4 DEF OwedInv
  <2>7. ReadyInv'
    BY <2>1 DEF ReadyInv, Tenancy!ReadinessTold
  <2> QED
    BY <2>3, <2>5, <2>6, <2>7
<1>3. ASSUME NEW t \in Caller, NEW x \in TenantId \cup {"update"}, NEW S \in SUBSET Tenancy!Remote,
             owed' = [owed EXCEPT ![t] = S], denied' = denied \ {t}, Tenancy!Reads(t),
             asks' = [asks EXCEPT ![t] = x],
             UNCHANGED <<source, tenants, ready, isReady, announced>>
      PROVE  TenantsInv'
  <2>1. \A p \in Tenancy!Remote : call'[t][p] = Tenancy!Asked
    BY <1>3 DEF Tenancy!Reads, TenantsType
  <2>2. call' \in [Caller -> [Tenancy!Remote -> Reading]]
    BY <1>3 DEF Tenancy!Reads, TenantsType, Reading
  <2>3. owed' \in [Caller -> SUBSET Tenancy!Remote]
    BY <1>3 DEF TenantsType
  <2>4. asks' \in [Caller -> TenantId \cup {Tenancy!Nothing, "update"}]
    BY <1>3 DEF TenantsType
  <2>5. \A u \in Caller \ {t} : call'[u] = call[u] /\ owed'[u] = owed[u] /\ asks'[u] = asks[u]
    BY <1>3 DEF Tenancy!Reads, TenantsType
  <2>6. TenantsType'
    BY <1>3, <2>2, <2>3, <2>4 DEF TenantsType
  <2>7. OwedInv'
    <3>1. \A u \in denied' : owed'[u] = {}
      BY <1>3, <2>5 DEF OwedInv
    <3>2. \A p \in owed'[t] : p \in Tenancy!Remote
      BY <2>3
    <3>3. \A p \in owed'[t] : call'[t][p] # Tenancy!Ended
      BY <2>1, <3>2, Readings
    <3> QED
      BY <1>3, <2>5, <3>1, <3>3 DEF OwedInv
  <2>8. ReadyInv'
    BY <1>3 DEF ReadyInv, Tenancy!ReadinessTold
  <2> QED
    BY <1>3, <2>6, <2>7, <2>8
<1>4. ASSUME NEW t \in Caller, Tenancy!UpdateTenants(t),
             UNCHANGED <<source, tenants, ready, isReady, announced, moves, refusals>>
      PROVE  TenantsInv'
  <2>1. {} \in SUBSET Tenancy!Remote /\ "update" \in TenantId \cup {"update"}
    OBVIOUS
  <2>2. /\ owed' = [owed EXCEPT ![t] = {}] /\ denied' = denied \ {t} /\ Tenancy!Reads(t)
        /\ asks' = [asks EXCEPT ![t] = "update"]
    BY <1>4 DEF Tenancy!UpdateTenants
  <2> QED
    BY <1>3, <1>4, <2>1, <2>2
<1>5. ASSUME NEW t \in Caller, NEW x \in TenantId, Tenancy!IsTenantKnown(t, x),
             UNCHANGED <<source, tenants, ready, isReady, announced, moves, refusals>>
      PROVE  TenantsInv'
  <2>1. Tenancy!Having(x) \in SUBSET Tenancy!Remote
    BY DEF Tenancy!Having
  <2> QED
    BY <1>3, <1>5, <2>1 DEF Tenancy!IsTenantKnown
<1>6. ASSUME NEW t \in Caller,
             Tenancy!AnswerWeb(t) \/ Tenancy!AnswerExists(t) \/ Tenancy!AnswerChildren(t),
             UNCHANGED <<source, tenants, ready, isReady, announced, asks, denied, owed, moves>>
      PROVE  TenantsInv'
  <2>1. PICK p \in Tenancy!Remote, c \in Reading : c # Tenancy!Ended /\ Tenancy!Answers(t, p, c)
    <3>1. Tenancy!Refused \in Reading /\ Tenancy!Raises \in Reading /\ Tenancy!Listing \in Reading
          /\ Tenancy!Got({}) \in Reading /\ Tenancy!Got(source["web"]) \in Reading
          /\ (source["zookeeper"] # NoList => Tenancy!Got(source["zookeeper"]) \in Reading)
      <4>1. {} \in Tenancy!Lists
        BY DEF Tenancy!Lists
      <4>2. source["web"] \in Tenancy!Lists /\ source["zookeeper"] \in Tenancy!Lists \cup {NoList}
        BY <1>0 DEF TenantsType
      <4> QED
        BY <4>1, <4>2, Readings DEF Reading
    <3>2. CASE Tenancy!AnswerWeb(t)
      BY <1>0, <3>1, <3>2, Readings DEF Tenancy!AnswerWeb, Tenancy!Fails
    <3>3. CASE Tenancy!AnswerExists(t)
      BY <1>0, <3>1, <3>3, Readings DEF Tenancy!AnswerExists, Tenancy!Fails
    <3>4. CASE Tenancy!AnswerChildren(t)
      BY <1>0, <3>1, <3>4, Readings DEF Tenancy!AnswerChildren, Tenancy!Fails
    <3> QED
      BY <1>6, <3>2, <3>3, <3>4
  <2> QED
    BY <1>6, <2>1, AnswerStep
<1>7. ASSUME NEW t \in Caller, NEW p \in Tenancy!Remote, Tenancy!Resume(t, p)
      PROVE  TenantsInv'
  <2> DEFINE c == call[t][p]
  <2>1. c \in Reading /\ c.at \in {"got", "refused"} /\ p \in Tenancy!Providers
    BY <1>0, <1>7 DEF Tenancy!Resume, TenantsType
  <2>2. /\ call' = [call EXCEPT ![t] = [call[t] EXCEPT ![p] = Tenancy!Ended]]
        /\ UNCHANGED <<source, asks, denied>>
    BY <1>7 DEF Tenancy!Resume, Tenancy!Answers
  <2>3. call' \in [Caller -> [Tenancy!Remote -> Reading]]
    BY <2>2 DEF TenantsType, Reading
  <2>4. /\ ready' \in [Tenancy!Providers -> BOOLEAN]
        /\ ReadyInv'
        /\ isReady' \in BOOLEAN /\ announced' \in BOOLEAN
    <3>1. CASE c.at = "got" /\ ready[p]
      <4>1. ready' = ready /\ UNCHANGED <<isReady, announced>>
        BY <1>7, <3>1 DEF Tenancy!Resume, TenantsType
      <4> QED
        BY <4>1 DEF ReadyInv, TenantsType, Tenancy!ReadinessTold
    <3>2. CASE ~(c.at = "got" /\ ready[p])
      <4>1. ready' = [ready EXCEPT ![p] = (c.at = "got")] /\ Tenancy!CheckReady(ready')
        BY <1>7, <2>1, <3>2 DEF Tenancy!Resume
      <4>2. ready' \in [Tenancy!Providers -> BOOLEAN]
        BY <4>1 DEF TenantsType
      <4>3. isReady' = (\A q \in Tenancy!Providers : ready'[q])
            /\ announced' = IF isReady = (\A q \in Tenancy!Providers : ready'[q])
                              THEN announced ELSE (\A q \in Tenancy!Providers : ready'[q])
        BY <4>1, Zenon DEF Tenancy!CheckReady
      <4>4. isReady' = announced'
        BY <4>3 DEF ReadyInv
      <4> QED
        BY <4>2, <4>3, <4>4 DEF ReadyInv, Tenancy!ReadinessTold
    <3> QED
      BY <3>1, <3>2
  <2>5. CASE c.at = "got"
    <3>1. /\ tenants' = [tenants EXCEPT ![p] = c.list]
          /\ owed' = [u \in Caller |-> IF asks[u] \in c.list THEN owed[u] ELSE owed[u] \ {p}]
      BY <1>7, <2>5 DEF Tenancy!Resume
    <3>2. c.list \in Tenancy!Lists
      BY <2>1, <2>5, Readings
    <3>3. tenants' \in [Tenancy!Providers -> Tenancy!Lists] /\ owed' \in [Caller -> SUBSET Tenancy!Remote]
      BY <3>1, <3>2 DEF TenantsType
    <3>4. \A u \in Caller : owed'[u] \subseteq owed[u] /\ (p \in owed'[u] => asks[u] \in tenants'[p])
      BY <2>1, <3>1, <3>2 DEF TenantsType
    <3>5. \A u \in Caller : \A q \in Tenancy!Remote \ {p} :
            call'[u][q] = call[u][q] /\ tenants'[q] = tenants[q]
      BY <1>0, <2>2, <3>1 DEF TenantsType
    <3>6. OwedInv'
      <4>1. \A u \in denied' : owed'[u] = {}
        BY <2>2, <3>4 DEF OwedInv
      <4>2. ASSUME NEW u \in Caller, NEW q \in owed'[u], call'[u][q] = Tenancy!Ended
            PROVE  asks'[u] \in tenants'[q]
        <5>1. q \in owed[u] /\ q \in Tenancy!Remote
          BY <3>3, <3>4
        <5>2. CASE q = p
          BY <5>2, <3>4, <2>2
        <5>3. CASE q # p
          BY <5>1, <5>3, <3>5, <4>2, <2>2 DEF OwedInv
        <5> QED
          BY <5>2, <5>3
      <4> QED
        BY <4>1, <4>2 DEF OwedInv
    <3>7. TenantsType'
      BY <2>2, <2>3, <2>4, <3>3 DEF TenantsType
    <3> QED
      BY <2>2, <2>4, <3>6, <3>7
  <2>6. CASE c.at = "refused"
    <3>1. /\ owed' = [owed EXCEPT ![t] = owed[t] \ {p}]
          /\ tenants' = tenants
      BY <1>7, <2>6 DEF Tenancy!Resume
    <3>2. owed' \in [Caller -> SUBSET Tenancy!Remote]
      BY <3>1 DEF TenantsType
    <3>3. \A u \in Caller : owed'[u] \subseteq owed[u] /\ p \notin owed'[t]
      BY <3>1 DEF TenantsType
    <3>4. \A u \in Caller : \A q \in Tenancy!Remote : (u # t \/ q # p) => call'[u][q] = call[u][q]
      BY <2>2 DEF TenantsType
    <3>5. OwedInv'
      <4>1. \A u \in denied' : owed'[u] = {}
        BY <2>2, <3>3 DEF OwedInv
      <4>2. ASSUME NEW u \in Caller, NEW q \in owed'[u], call'[u][q] = Tenancy!Ended
            PROVE  asks'[u] \in tenants'[q]
        <5>1. q \in owed[u] /\ q \in Tenancy!Remote /\ (u # t \/ q # p)
          BY <3>2, <3>3
        <5> QED
          BY <5>1, <3>4, <4>2, <2>2, <3>1 DEF OwedInv
      <4> QED
        BY <4>1, <4>2 DEF OwedInv
    <3>6. TenantsType'
      BY <2>2, <2>3, <2>4, <3>1, <3>2 DEF TenantsType
    <3> QED
      BY <2>2, <2>4, <3>5, <3>6
  <2> QED
    BY <2>1, <2>5, <2>6
<1>8. ASSUME NEW t \in Caller, NEW p \in Tenancy!Remote, Tenancy!GatherRaises(t, p)
      PROVE  TenantsInv'
  <2>1. /\ call' = [call EXCEPT ![t] = [call[t] EXCEPT ![p] = Tenancy!Ended]]
        /\ asks' = [asks EXCEPT ![t] = Tenancy!Nothing]
        /\ owed' = [owed EXCEPT ![t] = {}]
        /\ UNCHANGED <<source, tenants, ready, isReady, announced, denied>>
    BY <1>8 DEF Tenancy!GatherRaises, Tenancy!Answers
  <2>2. /\ call' \in [Caller -> [Tenancy!Remote -> Reading]]
        /\ asks' \in [Caller -> TenantId \cup {Tenancy!Nothing, "update"}]
        /\ owed' \in [Caller -> SUBSET Tenancy!Remote]
    BY <2>1 DEF TenantsType, Reading
  <2>3. owed'[t] = {} /\ \A u \in Caller \ {t} :
                            owed'[u] = owed[u] /\ asks'[u] = asks[u] /\ call'[u] = call[u]
    BY <2>1 DEF TenantsType
  <2>4. TenantsType'
    BY <2>1, <2>2 DEF TenantsType
  <2>5. OwedInv'
    BY <2>1, <2>3 DEF OwedInv
  <2>6. ReadyInv'
    BY <2>1 DEF ReadyInv, Tenancy!ReadinessTold
  <2> QED
    BY <2>1, <2>4, <2>5, <2>6
<1>9. CASE UNCHANGED tenantVars
  BY <1>9 DEF tenantVars, TenantsType, OwedInv, ReadyInv, Tenancy!ReadinessTold
<1> QED
  BY <1>1, <1>2, <1>4, <1>5, <1>6, <1>7, <1>8, <1>9 DEF Tenancy!Next

LEMMA TenantsInit == Tenancy!Init => TenantsInv
<1> SUFFICES ASSUME Tenancy!Init PROVE TenantsInv
  OBVIOUS
<1> USE DEF Tenancy!Init
<1>1. TenantsType
  BY TenantAssumption DEF TenantsType, Reading, Tenancy!Lists
<1>2. OwedInv
  BY DEF OwedInv
<1>3. ReadyInv
  BY DEF ReadyInv, Tenancy!ReadinessTold, Tenancy!Providers, Tenancy!Remote
<1> QED
  BY <1>1, <1>2, <1>3 DEF TenantsInv

-----------------------------------------------------------------------------
(* Calls of other services.                                                *)

\* What is yet to resolve and what was resolved are together what was offered.
ResolveInv ==
  /\ callAt # "idle" /\ (context.authz \/ context.request) => headers # NoToken
  /\ callAt \in {"locating", "undiscovered"} => hosts = {}
  /\ callAt = "locating" => hostname.kind \in {"instance_id", "service_id"}
  /\ callAt = "resolving" => /\ toResolve # {} /\ toResolve \subseteq offered
                             /\ hosts = (offered \ toResolve) \cap resolvable
  /\ callAt = "resolved" => hosts # {} /\ hosts = offered \cap resolvable

CallsInv == Calls!TypeOK /\ ResolveInv

\* The tuples of the cache under a name are those of the instances that are advertised.
LEMMA LocatedAre ==
  ASSUME Calls!TypeOK, NEW n \in Calls!Hostnames
  PROVE  {e.host : e \in Calls!Locate({n})} = {i \in Instance : cache[i] # {} /\ n.id \in {i, Service}}
<1>1. \A e \in Calls!AdvertisedCache :
         /\ e.host \in Instance /\ cache[e.host] # {}
         /\ e.type = "instance_id" => e.id = e.host
         /\ e.type = "service_id" => e.id = Service
         /\ e.type \in {"instance_id", "service_id"}
  BY DEF Calls!AdvertisedCache, Calls!Entries
<1>2. ASSUME NEW i \in Instance, cache[i] # {}
      PROVE  /\ \E e \in Calls!AdvertisedCache : e.host = i /\ e.type = "instance_id" /\ e.id = i
             /\ \E e \in Calls!AdvertisedCache : e.host = i /\ e.type = "service_id" /\ e.id = Service
  <2>1. PICK f \in Calls!Families : f \in cache[i]
    BY <1>2 DEF Calls!TypeOK
  <2>2. [type |-> "instance_id", id |-> i, host |-> i, family |-> f] \in Calls!AdvertisedCache
    BY <2>1 DEF Calls!AdvertisedCache, Calls!Entries
  <2>3. [type |-> "service_id", id |-> Service, host |-> i, family |-> f] \in Calls!AdvertisedCache
    BY <2>1 DEF Calls!AdvertisedCache, Calls!Entries
  <2> QED
    BY <2>2, <2>3
<1>3. Calls!Locate({n}) = {e \in Calls!AdvertisedCache : n.kind = e.type /\ n.id = e.id}
  BY DEF Calls!Locate, Calls!HasAdvertisedEndpoints
<1>4. \/ n.kind = "instance_id" /\ n.id \in Instance
      \/ n.kind = "service_id" /\ n.id = Service
      \/ n.kind \notin {"instance_id", "service_id"} /\ n.id = NoToken
  BY DEF Calls!Hostnames, Calls!Hostname
<1>5. CASE n.kind = "instance_id" /\ n.id \in Instance
  <2>1. n.id # Service
    BY <1>5, CallsAssumption
  <2>2. \A e \in Calls!Locate({n}) : e.host = n.id /\ cache[e.host] # {}
    BY <1>1, <1>3, <1>5
  <2>3. cache[n.id] # {} => \E e \in Calls!Locate({n}) : e.host = n.id
    BY <1>2, <1>3, <1>5
  <2> QED
    BY <1>5, <2>1, <2>2, <2>3
<1>6. CASE n.kind = "service_id" /\ n.id = Service
  BY <1>1, <1>2, <1>3, <1>6, CallsAssumption
<1>7. CASE n.kind \notin {"instance_id", "service_id"} /\ n.id = NoToken
  BY <1>1, <1>3, <1>7, CallsAssumption
<1> QED
  BY <1>4, <1>5, <1>6, <1>7

LEMMA CallsTypeStep == Calls!TypeOK /\ [Calls!Next]_callVars => Calls!TypeOK'
<1> SUFFICES ASSUME Calls!TypeOK, [Calls!Next]_callVars PROVE Calls!TypeOK'
  OBVIOUS
<1> USE DEF Calls!TypeOK
<1>1. ASSUME NEW i \in Instance, NEW f \in SUBSET Calls!Families, Calls!Advertised(i, f) PROVE Calls!TypeOK'
  BY <1>1 DEF Calls!Advertised
<1>2. ASSUME NEW auth \in {NoToken, "request", "internal"}, NEW given \in BOOLEAN, Calls!Session(auth, given)
      PROVE  Calls!TypeOK'
  <2>1. headers' \in Calls!Tokens \cup {NoToken}
    BY <1>2 DEF Calls!Session, Calls!FromContext, Calls!Tokens
  <2> QED
    BY <1>2, <2>1 DEF Calls!Session
<1>3. ASSUME NEW name \in Calls!Hostnames, Calls!Resolve(name) PROVE Calls!TypeOK'
  <2>1. callAt' \in {"dns", "undiscovered", "locating"}
    BY <1>3 DEF Calls!Resolve
  <2> QED
    BY <1>3, <2>1 DEF Calls!Resolve
<1>4. CASE Calls!Located
  <2>1. toResolve' \subseteq Instance
    BY <1>4, LocatedAre DEF Calls!Located
  <2> QED
    BY <1>4, <2>1 DEF Calls!Located
<1>5. ASSUME NEW h \in Instance, Calls!ResolveHost(h) PROVE Calls!TypeOK'
  BY <1>5 DEF Calls!ResolveHost
<1>6. CASE Calls!Answered
  BY <1>6 DEF Calls!Answered
<1>7. CASE UNCHANGED callVars
  BY <1>7 DEF callVars
<1> QED
  BY <1>1, <1>2, <1>3, <1>4, <1>5, <1>6, <1>7 DEF Calls!Next

LEMMA ResolveStep == CallsInv /\ [Calls!Next]_callVars => ResolveInv'
<1> SUFFICES ASSUME Calls!TypeOK, ResolveInv, [Calls!Next]_callVars PROVE ResolveInv'
  BY DEF CallsInv
<1> USE DEF ResolveInv
<1>1. ASSUME NEW i \in Instance, NEW f \in SUBSET Calls!Families, Calls!Advertised(i, f) PROVE ResolveInv'
  BY <1>1 DEF Calls!Advertised
<1>2. ASSUME NEW auth \in {NoToken, "request", "internal"}, NEW given \in BOOLEAN, Calls!Session(auth, given)
      PROVE  ResolveInv'
  <2>1. (context.authz \/ context.request) => headers' # NoToken
    BY <1>2, CallsAssumption DEF Calls!Session, Calls!FromContext, Calls!Tokens
  <2> QED
    BY <1>2, <2>1 DEF Calls!Session
<1>3. ASSUME NEW name \in Calls!Hostnames, Calls!Resolve(name) PROVE ResolveInv'
  <2>1. name.kind \in {"other", "malformed", "instance_id", "service_id"}
    BY DEF Calls!Hostnames, Calls!Hostname
  <2>2. callAt' \in {"dns", "undiscovered", "locating"} /\ hosts' = {} /\ hostname' = name
    BY <1>3, <2>1 DEF Calls!Resolve
  <2>3. callAt' = "locating" => name.kind \in {"instance_id", "service_id"}
    BY <1>3, <2>1 DEF Calls!Resolve
  <2>4. callAt = "opened" /\ UNCHANGED <<headers, context>>
    BY <1>3 DEF Calls!Resolve
  <2> QED
    BY <2>2, <2>3, <2>4
<1>4. CASE Calls!Located
  <2>1. callAt = "locating" /\ hosts' = {} /\ UNCHANGED <<headers, context, resolvable>>
    BY <1>4 DEF Calls!Located
  <2>2. toResolve' = offered'
    BY <1>4, LocatedAre DEF Calls!Located, Calls!TypeOK
  <2>3. IF toResolve' = {} THEN callAt' = "undiscovered" ELSE callAt' = "resolving"
    BY <1>4 DEF Calls!Located
  <2> QED
    BY <2>1, <2>2, <2>3
<1>5. ASSUME NEW h \in Instance, Calls!ResolveHost(h) PROVE ResolveInv'
  <2>1. /\ callAt = "resolving" /\ h \in toResolve
        /\ toResolve' = toResolve \ {h} /\ hosts' = hosts \cup ({h} \cap resolvable)
        /\ UNCHANGED <<headers, context, resolvable, offered>>
        /\ callAt' = IF toResolve' # {} THEN "resolving"
                     ELSE IF hosts' = {} THEN "undiscovered" ELSE "resolved"
    BY <1>5 DEF Calls!ResolveHost
  <2>2. hosts' = (offered' \ toResolve') \cap resolvable'
    BY <2>1
  <2> QED
    BY <2>1, <2>2
<1>6. CASE Calls!Answered
  BY <1>6 DEF Calls!Answered
<1>7. CASE UNCHANGED callVars
  BY <1>7 DEF callVars
<1> QED
  BY <1>1, <1>2, <1>3, <1>4, <1>5, <1>6, <1>7 DEF Calls!Next

LEMMA CallsInit == Calls!Init => CallsInv
  BY DEF Calls!Init, CallsInv, Calls!TypeOK, ResolveInv, Calls!Hostnames, Calls!Hostname

LEMMA CallsImply == CallsInv => Calls!CallsArrive
<1> SUFFICES ASSUME CallsInv PROVE Calls!CallsArrive
  OBVIOUS
<1>1. Calls!TypeOK /\ ResolveInv
  BY DEF CallsInv
<1>2. \A n \in Calls!Hostnames :
        Calls!LocateUrls({n}) = {i \in Instance : cache[i] # {} /\ n.id \in {i, Service}}
  <2> TAKE n \in Calls!Hostnames
  <2>1. Calls!LocateUrls({n}) = {e.host : e \in Calls!Locate({n})}
    <3>1. {p \in {n} : p.kind = "instance_id"} \in {{}, {n}}
      OBVIOUS
    <3>2. {p \in {n} : p.kind = "instance_id"} # {} => {p \in {n} : p.kind = "instance_id"} = {n}
      BY <3>1
    <3> QED
      BY <3>2, Zenon DEF Calls!LocateUrls
  <2> QED
    BY <2>1, <1>1, LocatedAre
<1>3. ASSUME NEW k \in {"instance_id", "service_id"}
      PROVE  {e.host : e \in Calls!Discover(k)} = {i \in Instance : cache[i] # {}}
  <2>1. \A e \in Calls!Discover(k) : e.host \in Instance /\ cache[e.host] # {}
    BY DEF Calls!Discover, Calls!AdvertisedCache, Calls!Entries
  <2>2. ASSUME NEW i \in Instance, cache[i] # {}
        PROVE  \E e \in Calls!Discover(k) : e.host = i
    <3>1. PICK f \in Calls!Families : f \in cache[i]
      BY <1>1, <2>2 DEF Calls!TypeOK
    <3> DEFINE e == [type |-> k, id |-> IF k = "instance_id" THEN i ELSE Service, host |-> i, family |-> f]
    <3>2. e \in Calls!Discover(k)
      BY <3>1 DEF Calls!Discover, Calls!AdvertisedCache, Calls!Entries
    <3>3. e.host = i
      OBVIOUS
    <3> QED
      BY <3>2, <3>3, Zenon
  <2> QED
    BY <2>1, <2>2
<1> QED
  BY <1>1, <1>2, <1>3 DEF ResolveInv, Calls!CallsArrive

-----------------------------------------------------------------------------
(* Authentication.                                                         *)

Token == Authenticating!IdToken \cup Authenticating!AccessToken
Ids == [key : Nat, expiration : Nat]

Requested ==
  {Authenticating!Idle}
    \cup [at : {"provider", "introspect", "reload"}, token : Token \cup {Boot},
          id : Ids \cup Token \cup {Boot}, n : 0..2]
    \cup [at : {"answered"}, token : Token \cup {Boot},
          id : Ids \cup Token \cup {Boot}, n : 0..2, keys : SUBSET Nat]

\* No key is trusted and none is kept that the server has not had.
KeptInv ==
  /\ publicKeys \subseteq 1..serverKey /\ trusted \subseteq 1..serverKey
  /\ authorizations \in [{"id_token", "access_token"} ->
                           SUBSET [token : Token, id : [key : 1..serverKey, expiration : Nat]]]
  /\ \A k \in authorizations["id_token"] : k.id = k.token

\* An open session of which nothing is kept that has expired.
InSession(token) ==
  /\ token.session = "open" /\ mode = "development"
  /\ \A k \in authorizations["access_token"] : k.token = token => clock < k.id.expiration

\* A request r that waits is at a provider of its kind of token, and whoever is entitled has the
\* token, or is about to have the keys, for which that provider asks.
Waiting(t, r) ==
  /\ r.at = "answered" => r.keys \subseteq 1..serverKey
  /\ r.at # "idle" /\ r.token = Boot => r.at \in {"reload", "answered"}
  /\ r.at # "idle" /\ r.token # Boot =>
       /\ mode # "mock" /\ (r.n = 1 \/ (r.n = 2 /\ mode = "development"))
       /\ r.at \in {"provider", "introspect"} => r.n = 2
       /\ r.at \in {"reload", "answered"} =>
            /\ r.id \in Ids
            /\ r.n = 1 => ~Authenticating!Opaque(r.token) /\ r.id = r.token
            /\ r.n = 2 => Authenticating!Opaque(r.token) /\ r.id.expiration >= TokenLifetime
       /\ t \in entitled =>
            /\ ~Authenticating!Opaque(r.token) => r.n = 1
            /\ r.at = "introspect" => r.token.session = "open"
            /\ r.at = "provider" => InSession(r.token)
            /\ r.at \in {"reload", "answered"} => r.id.key = serverKey /\ clock < r.id.expiration
            /\ r.at = "answered" => r.keys = {serverKey}

AnswerInv == Authenticating!AcceptedAreSigned /\ Authenticating!SignedAreAccepted

AuthenticationInv ==
  /\ mode \in {"production", "development", "mock"}
  /\ clock \in Nat /\ serverKey \in Nat \ {0}
  /\ request \in [Caller -> Requested]
  /\ KeptInv
  /\ \A t \in Caller : Waiting(t, request[t])
  /\ \A t, u \in Caller : request[t].at = "provider" /\ request[u].at = "provider" => t = u
  /\ AnswerInv

LEMMA TokenKinds ==
  /\ \A x \in Authenticating!IdToken : /\ ~Authenticating!Opaque(x) /\ x \in Ids
                                       /\ x.expiration = TokenLifetime
  /\ \A x \in Authenticating!AccessToken : Authenticating!Opaque(x)
  /\ \A x \in Token : ~Authenticating!Opaque(x) => x \in Authenticating!IdToken
  /\ Boot \notin Token
  BY TokenAssumption
  DEF Authenticating!IdToken, Authenticating!AccessToken, Authenticating!Opaque, Token, Ids

LEMMA Providers ==
  /\ mode = "production" => Len(Authenticating!Asked) = 1 /\ Authenticating!Asked[1] = "id_token"
  /\ mode = "development" => /\ Len(Authenticating!Asked) = 2 /\ Authenticating!Asked[1] = "id_token"
                             /\ Authenticating!Asked[2] = "access_token"
  /\ mode = "mock" => Authenticating!Asked[1] = "mock"
<1>1. CASE mode = "production"
  BY <1>1 DEF Authenticating!Asked
<1>2. CASE mode = "development"
  BY <1>2 DEF Authenticating!Asked
<1>3. CASE mode = "mock"
  BY <1>3 DEF Authenticating!Asked
<1> QED
  BY <1>1, <1>2, <1>3

\* What a step of the task t leaves alone: the clock, the key, and all other tasks, which are
\* not in between two providers.
Alone(t) ==
  /\ mode' = mode /\ clock' = clock /\ serverKey' = serverKey
  /\ entitled' \ {t} = entitled \ {t}
  /\ \A u \in Caller \ {t} : request[u].at # "provider"

LEMMA OneMoves ==
  ASSUME AuthenticationInv, NEW t \in Caller, Alone(t), KeptInv', AnswerInv', NEW r \in Requested,
         request' = [request EXCEPT ![t] = r], Waiting(t, r)'
  PROVE  AuthenticationInv'
<1>1. request' \in [Caller -> Requested] /\ request'[t] = r
      /\ \A u \in Caller \ {t} : request'[u] = request[u]
  BY DEF AuthenticationInv
<1>2. ASSUME NEW u \in Caller \ {t} PROVE Waiting(u, request[u])'
  <2>1. Waiting(u, request[u]) /\ request[u].at # "provider" /\ (u \in entitled' <=> u \in entitled)
    BY DEF AuthenticationInv, Alone
  <2> QED
    BY <1>1, <2>1 DEF Waiting, Alone
<1>3. \A u \in Caller : Waiting(u, request[u])'
  BY <1>1, <1>2
<1>4. \A u, v \in Caller : request'[u].at = "provider" /\ request'[v].at = "provider" => u = v
  BY <1>1 DEF Alone
<1> QED
  BY <1>1, <1>3, <1>4 DEF AuthenticationInv, Alone

LEMMA AcceptStep ==
  ASSUME AuthenticationInv, NEW t \in Caller, NEW id, Alone(t), KeptInv', Authenticating!Accept(t, id),
         mode # "mock" => id.key \in 1..serverKey /\ clock < id.expiration + TokenLeeway
  PROVE  AuthenticationInv'
<1>1. answer' = [kind |-> "accepted", id |-> id, when |-> clock]
      /\ request' = [request EXCEPT ![t] = Authenticating!Idle]
  BY DEF Authenticating!Accept, Authenticating!Ends, Authenticating!Becomes
<1>2. AnswerInv'
  BY <1>1 DEF AnswerInv, Authenticating!AcceptedAreSigned, Authenticating!SignedAreAccepted, Alone
<1>3. Authenticating!Idle \in Requested /\ Waiting(t, Authenticating!Idle)'
  BY DEF Requested, Waiting, Authenticating!Idle
<1> QED
  BY <1>1, <1>2, <1>3, OneMoves

LEMMA ProceedsStep ==
  ASSUME AuthenticationInv, NEW t \in Caller, NEW r \in Requested, Alone(t), KeptInv',
         Authenticating!Proceeds(t, r), Waiting(t, r)'
  PROVE  AuthenticationInv'
<1>1. answer' = Authenticating!NoAnswer /\ request' = [request EXCEPT ![t] = r]
  BY DEF Authenticating!Proceeds, Authenticating!Becomes
<1>2. AnswerInv'
  BY <1>1 DEF AnswerInv, Authenticating!AcceptedAreSigned, Authenticating!SignedAreAccepted,
              Authenticating!NoAnswer
<1> QED
  BY <1>1, <1>2, OneMoves

\* Only a task that has an open session may be rejected by a provider before the last one.
LEMMA RejectStep ==
  ASSUME AuthenticationInv, NEW t \in Caller, NEW token \in Token, NEW n \in {1, 2}, Alone(t), KeptInv',
         mode # "mock", n = 1 \/ mode = "development",
         t \in entitled' => n = 1 /\ Authenticating!Opaque(token) /\ InSession(token)',
         Authenticating!Reject(t, token, n)
  PROVE  AuthenticationInv'
<1>0. mode \in {"production", "development"}
  BY DEF AuthenticationInv
<1>1. CASE n < Len(Authenticating!Asked)
  <2>1. n = 1 /\ mode = "development"
    <3>1. CASE mode = "production"
      <4>1. Len(Authenticating!Asked) = 1
        BY <3>1, Providers
      <4>2. ~(n < 1)
        OBVIOUS
      <4> QED
        BY <1>1, <4>1, <4>2
    <3>2. CASE mode = "development"
      <4>1. Len(Authenticating!Asked) = 2
        BY <3>2, Providers
      <4> QED
        BY <1>1, <3>2, <4>1
    <3> QED
      BY <1>0, <3>1, <3>2
  <2> DEFINE r == Authenticating!Waits("provider", token, token, 2)
  <2>2. Authenticating!Proceeds(t, r)
    BY <1>1, <2>1 DEF Authenticating!Reject
  <2>3. r \in Requested
    BY DEF Requested, Authenticating!Waits
  <2>4. r.at = "provider" /\ r.token = token /\ r.n = 2
    BY DEF Authenticating!Waits
  <2>5. mode' = "development" /\ token # Boot
    BY <2>1, TokenKinds DEF Alone
  <2> HIDE DEF r
  <2>6. Waiting(t, r)'
    BY <2>4, <2>5 DEF Waiting
  <2> QED
    BY <2>2, <2>3, <2>6, ProceedsStep
<1>2. CASE ~(n < Len(Authenticating!Asked))
  <2>1. t \notin entitled'
    BY <1>0, <1>2, Providers DEF InSession, Alone
  <2>2. answer' = [kind |-> "refused", entitled |-> FALSE]
        /\ request' = [request EXCEPT ![t] = Authenticating!Idle]
    <3>1. answer' = [kind |-> "refused", entitled |-> t \in entitled']
          /\ request' = [request EXCEPT ![t] = Authenticating!Idle]
      BY <1>2 DEF Authenticating!Reject, Authenticating!Ends, Authenticating!Becomes
    <3>2. (t \in entitled') = FALSE
      BY <2>1
    <3> QED
      BY <3>1, <3>2
  <2>3. AnswerInv'
    BY <2>2 DEF AnswerInv, Authenticating!AcceptedAreSigned, Authenticating!SignedAreAccepted
  <2>4. Authenticating!Idle \in Requested /\ Waiting(t, Authenticating!Idle)'
    BY DEF Requested, Waiting, Authenticating!Idle
  <2> QED
    BY <2>2, <2>3, <2>4, OneMoves
<1> QED
  BY <1>1, <1>2

LEMMA VerifiedStep ==
  ASSUME AuthenticationInv, NEW t \in Caller, NEW token \in Token, NEW id \in Ids, NEW n \in {1, 2}, Alone(t),
         publicKeys' \subseteq 1..serverKey, trusted' \subseteq 1..serverKey,
         mode # "mock", n = 1 \/ mode = "development",
         id.key \in 1..serverKey, n = 1 => id = token,
         t \in entitled' => clock < id.expiration,
         Authenticating!Verified(t, Authenticating!Asked[n], token, id, n)
  PROVE  AuthenticationInv'
<1> DEFINE p == Authenticating!Asked[n]
<1>1. p \in {"id_token", "access_token"} /\ (p = "id_token" => n = 1)
  BY Providers DEF AuthenticationInv
<1> HIDE DEF p
<1>2. CASE clock < id.expiration + TokenLeeway
  <2>1. /\ Authenticating!Accept(t, id)
        /\ authorizations' =
             [authorizations EXCEPT ![p] = authorizations[p] \cup {[token |-> token, id |-> id]}]
    BY <1>2 DEF Authenticating!Verified, p
  <2>2. KeptInv'
    <3>1. [token |-> token, id |-> id] \in [token : Token, id : [key : 1..serverKey, expiration : Nat]]
      BY DEF Ids
    <3>2. authorizations' \in [{"id_token", "access_token"} ->
                           SUBSET [token : Token, id : [key : 1..serverKey, expiration : Nat]]]
      BY <2>1, <3>1 DEF AuthenticationInv, KeptInv
    <3>3. \A k \in authorizations'["id_token"] : k \in authorizations["id_token"] \/
             (p = "id_token" /\ k = [token |-> token, id |-> id])
      BY <2>1, <1>1 DEF AuthenticationInv, KeptInv
    <3>4. \A k \in authorizations'["id_token"] : k.id = k.token
      BY <1>1, <3>3 DEF AuthenticationInv, KeptInv
    <3> QED
      BY <3>2, <3>4 DEF KeptInv, Alone
  <2> QED
    BY <1>2, <2>1, <2>2, AcceptStep
<1>3. CASE ~(clock < id.expiration + TokenLeeway)
  <2>1. Authenticating!Reject(t, token, n) /\ authorizations' = authorizations
    BY <1>3 DEF Authenticating!Verified
  <2>2. t \notin entitled'
    BY <1>3, TokenAssumption DEF AuthenticationInv, Ids
  <2>3. KeptInv'
    BY <2>1 DEF AuthenticationInv, KeptInv, Alone
  <2> QED
    BY <2>1, <2>2, <2>3, RejectStep
<1> QED
  BY <1>2, <1>3

LEMMA FirstTryStep ==
  ASSUME AuthenticationInv, NEW t \in Caller, NEW token \in Token, NEW id \in Ids, NEW n \in {1, 2}, Alone(t),
         UNCHANGED <<publicKeys, trusted>>,
         mode # "mock", n = 1 \/ mode = "development",
         n = 1 => id = token, n = 2 => Authenticating!Opaque(token) /\ id.expiration >= TokenLifetime,
         t \in entitled' => id.key = serverKey /\ clock < id.expiration,
         Authenticating!FirstTry(t, Authenticating!Asked[n], token, id, n)
  PROVE  AuthenticationInv'
<1>0. publicKeys' \subseteq 1..serverKey /\ trusted' \subseteq 1..serverKey
  BY DEF AuthenticationInv, KeptInv
<1>1. CASE id.key \in trusted
  <2>1. id.key \in 1..serverKey
    BY <1>1 DEF AuthenticationInv, KeptInv
  <2>2. Authenticating!Verified(t, Authenticating!Asked[n], token, id, n)
    BY <1>1 DEF Authenticating!FirstTry
  <2> QED
    BY <1>0, <2>1, <2>2, VerifiedStep
<1>2. CASE id.key \notin trusted
  <2> DEFINE r == Authenticating!Waits("reload", token, id, n)
  <2>1. Authenticating!Proceeds(t, r) /\ authorizations' = authorizations
    BY <1>2 DEF Authenticating!FirstTry
  <2>2. r \in Requested
    BY DEF Requested, Authenticating!Waits
  <2>3. r.at = "reload" /\ r.token = token /\ r.id = id /\ r.n = n
    BY DEF Authenticating!Waits
  <2>4. KeptInv'
    BY <2>1 DEF AuthenticationInv, KeptInv, Alone
  <2>5. token # Boot /\ (n = 1 => ~Authenticating!Opaque(token))
    BY TokenKinds DEF Ids, Authenticating!Opaque
  <2>6. mode' = mode /\ serverKey' = serverKey /\ clock' = clock
    BY DEF Alone
  <2> HIDE DEF r
  <2>7. Waiting(t, r)'
    <3>1. ~Authenticating!Opaque(token) => n = 1
      OBVIOUS
    <3> QED
      BY <2>3, <2>5, <2>6, <3>1 DEF Waiting
  <2> QED
    BY <2>1, <2>2, <2>4, <2>7, ProceedsStep
<1> QED
  BY <1>1, <1>2

\* The task t is asked for at the provider n with a token; if it is entitled, then by that token.
LEMMA AuthorizeStep ==
  ASSUME AuthenticationInv, NEW t \in Caller, NEW token \in Token, NEW n \in {1, 2}, Alone(t),
         UNCHANGED <<publicKeys, trusted>>,
         n = 1 \/ mode = "development",
         t \in entitled' => IF Authenticating!Opaque(token) THEN InSession(token)
                            ELSE n = 1 /\ token.key = serverKey /\ clock < token.expiration,
         Authenticating!Authorize(t, token, n)
  PROVE  AuthenticationInv'
<1> DEFINE p == Authenticating!Asked[n]
<1>1. CASE mode = "mock"
  <2>1. p = "mock" /\ n = 1
    BY <1>1, Providers
  <2>2. Authenticating!Accept(t, token) /\ UNCHANGED authorizations
    BY <2>1 DEF Authenticating!Authorize
  <2>3. KeptInv'
    BY <2>2 DEF AuthenticationInv, KeptInv, Alone
  <2> QED
    BY <1>1, <2>2, <2>3, AcceptStep
<1>2. CASE mode # "mock"
  <2>1. (n = 1 /\ p = "id_token") \/ (n = 2 /\ p = "access_token" /\ mode = "development")
    BY <1>2, Providers DEF AuthenticationInv
  <2>2. CASE \E k \in authorizations[p] : k.token = token
    <3>1. PICK k \in authorizations[p] : k.token = token /\ Authenticating!Kept(t, p, k, n)
      BY <2>1, <2>2 DEF Authenticating!Authorize
    <3>2. /\ k.id \in [key : 1..serverKey, expiration : Nat]
          /\ n = 1 => k.id = token
      BY <2>1, <3>1 DEF AuthenticationInv, KeptInv
    <3>3. CASE clock < k.id.expiration
      <4>1. Authenticating!Accept(t, k.id) /\ UNCHANGED authorizations
        BY <3>1, <3>3 DEF Authenticating!Kept
      <4>2. KeptInv'
        BY <4>1 DEF AuthenticationInv, KeptInv, Alone
      <4>3. k.id.key \in 1..serverKey /\ clock < k.id.expiration + TokenLeeway
        BY <3>2, <3>3, TokenAssumption DEF AuthenticationInv
      <4> QED
        BY <4>1, <4>2, <4>3, AcceptStep
    <3>4. CASE ~(clock < k.id.expiration)
      <4>1. Authenticating!Reject(t, token, n)
            /\ authorizations' = [authorizations EXCEPT ![p] = authorizations[p] \ {k}]
        BY <3>1, <3>4 DEF Authenticating!Kept
      <4>2. KeptInv'
        <5>1. authorizations' \in [{"id_token", "access_token"} ->
                           SUBSET [token : Token, id : [key : 1..serverKey, expiration : Nat]]]
          BY <2>1, <4>1 DEF AuthenticationInv, KeptInv
        <5>2. authorizations'["id_token"] \subseteq authorizations["id_token"]
          BY <2>1, <4>1 DEF AuthenticationInv, KeptInv
        <5> QED
          BY <5>1, <5>2 DEF AuthenticationInv, KeptInv, Alone
      <4>3. t \notin entitled'
        <5>1. CASE n = 1
          <6>1. k.id = token /\ ~Authenticating!Opaque(token)
            BY <3>2, <5>1 DEF Authenticating!Opaque
          <6> QED
            BY <3>4, <6>1
        <5>2. CASE n = 2
          BY <2>1, <3>1, <3>4, <5>2 DEF InSession
        <5> QED
          BY <5>1, <5>2
      <4> QED
        BY <1>2, <4>1, <4>2, <4>3, RejectStep
    <3> QED
      BY <3>3, <3>4
  <2>3. CASE ~\E k \in authorizations[p] : k.token = token
    <3>0. KeptInv' \/ authorizations' # authorizations
      BY DEF AuthenticationInv, KeptInv, Alone
    <3>1. CASE n = 2
      <4> DEFINE r == Authenticating!Waits("introspect", token, token, 2)
      <4>1. Authenticating!Proceeds(t, r) /\ UNCHANGED authorizations
        BY <2>1, <2>3, <3>1 DEF Authenticating!Authorize
      <4>2. r \in Requested
        BY DEF Requested, Authenticating!Waits
      <4>3. r.at = "introspect" /\ r.token = token /\ r.n = 2
        BY DEF Authenticating!Waits
      <4>4. token # Boot /\ mode' = "development"
        BY <2>1, <3>1, TokenKinds DEF Alone
      <4> HIDE DEF r
      <4>5. Waiting(t, r)'
        BY <3>1, <4>3, <4>4 DEF Waiting, InSession
      <4> QED
        BY <3>0, <4>1, <4>2, <4>5, ProceedsStep
    <3>2. CASE n = 1 /\ Authenticating!Opaque(token)
      <4>1. Authenticating!Reject(t, token, 1) /\ UNCHANGED authorizations
        BY <2>1, <2>3, <3>2 DEF Authenticating!Authorize
      <4>2. t \in entitled' => InSession(token)'
        BY <3>2, <4>1 DEF InSession, Alone
      <4> QED
        BY <1>2, <3>0, <3>2, <4>1, <4>2, RejectStep
    <3>3. CASE n = 1 /\ ~Authenticating!Opaque(token)
      <4>1. Authenticating!FirstTry(t, p, token, token, n)
        BY <2>1, <2>3, <3>3 DEF Authenticating!Authorize
      <4>2. token \in Ids
        BY <3>3, TokenKinds
      <4> QED
        BY <1>2, <3>3, <4>1, <4>2, FirstTryStep
    <3> QED
      BY <3>1, <3>2, <3>3
  <2> QED
    BY <2>2, <2>3
<1> QED
  BY <1>1, <1>2

LEMMA AuthenticationStep ==
  AuthenticationInv /\ [Authenticating!Next]_authVars => AuthenticationInv'
<1> SUFFICES ASSUME AuthenticationInv, [Authenticating!Next]_authVars PROVE AuthenticationInv'
  OBVIOUS
<1>0. /\ mode \in {"production", "development", "mock"} /\ clock \in Nat /\ serverKey \in Nat \ {0}
      /\ request \in [Caller -> Requested] /\ KeptInv
      /\ \A t \in Caller : Waiting(t, request[t])
      /\ \A t, u \in Caller : request[t].at = "provider" /\ request[u].at = "provider" => t = u
  BY DEF AuthenticationInv
<1>1. ASSUME NEW t \in Caller, Authenticating!NextProvider(t) PROVE AuthenticationInv'
  <2> DEFINE r == request[t]
  <2>1. /\ r.at = "provider"
        /\ UNCHANGED <<mode, clock, serverKey, publicKeys, trusted, entitled>>
        /\ Authenticating!Authorize(t, r.token, r.n)
    BY <1>1 DEF Authenticating!NextProvider
  <2>2. Alone(t)
    BY <1>0, <2>1 DEF Alone
  <2>3. r \in Requested /\ Waiting(t, r)
    BY <1>0
  <2> HIDE DEF r
  <2>4. r.token \in Token \cup {Boot}
    BY <2>1, <2>3 DEF Requested, Authenticating!Idle
  <2>5. r.token # Boot
    BY <2>1, <2>3 DEF Waiting
  <2>6. r.n = 2 /\ mode = "development"
    BY <2>1, <2>3, <2>5 DEF Waiting
  <2>7. t \in entitled => Authenticating!Opaque(r.token) /\ InSession(r.token)
    BY <2>1, <2>3, <2>5, <2>6 DEF Waiting
  <2> QED
    BY <2>1, <2>2, <2>4, <2>5, <2>6, <2>7, AuthorizeStep
<1>2. CASE Authenticating!Awaits /\ Authenticating!Pass
  <2>1. /\ clock' = clock + 1
        /\ entitled' = IF clock' < TokenLifetime THEN entitled ELSE {}
        /\ answer' = Authenticating!NoAnswer
        /\ UNCHANGED <<mode, serverKey, publicKeys, trusted, authorizations, request>>
    BY <1>2 DEF Authenticating!Pass
  <2>2. clock' \in Nat /\ \A t \in Caller : request[t].at # "provider"
    BY <1>0, <1>2, <2>1 DEF Authenticating!Awaits
  <2>3. ASSUME NEW t \in Caller PROVE Waiting(t, request[t])'
    <3> DEFINE r == request[t]
    <3>1. Waiting(t, r) /\ r \in Requested /\ r.at # "provider" /\ request'[t] = r
      BY <1>0, <2>1, <2>2
    <3>2. t \in entitled' => t \in entitled /\ clock' < TokenLifetime
      BY <2>1
    <3>3. r.at \in {"reload", "answered"} => r.token \in Token \cup {Boot}
      BY <3>1 DEF Requested, Authenticating!Idle
    <3> HIDE DEF r
    <3>4. r.at \in {"reload", "answered"} /\ r.token # Boot =>
            r.id.expiration >= TokenLifetime /\ r.id.expiration \in Nat
      BY <3>1, <3>3, TokenKinds, TokenAssumption DEF Waiting, Ids
    <3>5. r.at \in {"reload", "answered"} /\ r.token # Boot /\ t \in entitled' => clock' < r.id.expiration
      BY <2>2, <3>2, <3>4, TokenAssumption
    <3> QED
      BY <2>1, <3>1, <3>2, <3>5 DEF Waiting
  <2>4. KeptInv'
    BY <1>0, <2>1 DEF KeptInv
  <2>5. AnswerInv'
    BY <2>1 DEF AnswerInv, Authenticating!AcceptedAreSigned, Authenticating!SignedAreAccepted,
                Authenticating!NoAnswer
  <2> QED
    BY <1>0, <2>1, <2>2, <2>3, <2>4, <2>5 DEF AuthenticationInv
<1>3. CASE Authenticating!Awaits /\ Authenticating!Rotate
  <2>1. /\ serverKey' = serverKey + 1 /\ entitled' = {} /\ answer' = Authenticating!NoAnswer
        /\ UNCHANGED <<mode, clock, publicKeys, trusted, authorizations, request>>
    BY <1>3 DEF Authenticating!Rotate
  <2>2. serverKey' \in Nat \ {0} /\ 1..serverKey \subseteq 1..serverKey'
    BY <1>0, <2>1
  <2>3. ASSUME NEW t \in Caller PROVE Waiting(t, request[t])'
    <3>1. Waiting(t, request[t]) /\ request'[t] = request[t] /\ t \notin entitled'
      BY <1>0, <2>1
    <3> QED
      BY <2>1, <2>2, <3>1 DEF Waiting
  <2>4. KeptInv'
    <3>1. [token : Token, id : [key : 1..serverKey, expiration : Nat]]
            \subseteq [token : Token, id : [key : 1..serverKey', expiration : Nat]]
      BY <2>2
    <3> QED
      BY <1>0, <2>1, <2>2, <3>1 DEF KeptInv
  <2>5. AnswerInv'
    BY <2>1 DEF AnswerInv, Authenticating!AcceptedAreSigned, Authenticating!SignedAreAccepted,
                Authenticating!NoAnswer
  <2> QED
    BY <1>0, <2>1, <2>2, <2>3, <2>4, <2>5 DEF AuthenticationInv
<1>4. CASE Authenticating!Awaits /\ Authenticating!DeleteInvalidAuthorizations
  <2>1. /\ authorizations' =
             [p \in DOMAIN authorizations |-> {k \in authorizations[p] : clock < k.id.expiration}]
        /\ answer' = Authenticating!NoAnswer
        /\ UNCHANGED <<mode, clock, serverKey, publicKeys, trusted, request, entitled>>
    BY <1>4 DEF Authenticating!DeleteInvalidAuthorizations
  <2>2. \A t \in Caller : request[t].at # "provider"
    BY <1>4 DEF Authenticating!Awaits
  <2>3. ASSUME NEW t \in Caller PROVE Waiting(t, request[t])'
    <3>1. Waiting(t, request[t]) /\ request'[t] = request[t] /\ request[t].at # "provider"
      BY <1>0, <2>1, <2>2
    <3> QED
      BY <2>1, <3>1 DEF Waiting
  <2>4. KeptInv'
    <3>1. DOMAIN authorizations = {"id_token", "access_token"}
      BY <1>0 DEF KeptInv
    <3>2. authorizations' \in [{"id_token", "access_token"} ->
                           SUBSET [token : Token, id : [key : 1..serverKey, expiration : Nat]]]
      BY <1>0, <2>1, <3>1 DEF KeptInv
    <3>3. authorizations'["id_token"] \subseteq authorizations["id_token"]
      BY <2>1, <3>1
    <3> QED
      BY <1>0, <2>1, <3>2, <3>3 DEF KeptInv
  <2>5. AnswerInv'
    BY <2>1 DEF AnswerInv, Authenticating!AcceptedAreSigned, Authenticating!SignedAreAccepted,
                Authenticating!NoAnswer
  <2> QED
    BY <1>0, <2>1, <2>3, <2>4, <2>5 DEF AuthenticationInv
<1>5. ASSUME NEW t \in Caller, Authenticating!Awaits,
             NEW token \in {id \in Authenticating!IdToken : id.key <= serverKey}
                             \cup Authenticating!AccessToken,
             Authenticating!Begin(t, token)
      PROVE  AuthenticationInv'
  <2>1. /\ entitled' = IF Authenticating!Entitled(token) THEN entitled \cup {t} ELSE entitled \ {t}
        /\ Authenticating!Authorize(t, token, 1)
        /\ UNCHANGED <<mode, clock, serverKey, publicKeys, trusted>>
    BY <1>5 DEF Authenticating!Begin
  <2>2. Alone(t)
    BY <1>5, <2>1 DEF Alone, Authenticating!Awaits
  <2>3. token \in Token
    BY DEF Token
  <2>4. t \in entitled' => Authenticating!Entitled(token)
    BY <2>1
  <2>5. Authenticating!Entitled(token) =>
          IF Authenticating!Opaque(token) THEN InSession(token)
          ELSE token.key = serverKey /\ clock < token.expiration
    BY DEF Authenticating!Entitled, InSession
  <2> QED
    BY <2>1, <2>2, <2>3, <2>4, <2>5, AuthorizeStep
<1>6. ASSUME NEW t \in Caller, Authenticating!Awaits,
             Authenticating!Introspect(t) \/ Authenticating!IntrospectFails(t)
      PROVE  AuthenticationInv'
  <2> DEFINE r == request[t]
  <2>1. r \in Requested /\ Waiting(t, r) /\ r.at = "introspect"
    BY <1>0, <1>6 DEF Authenticating!Introspect, Authenticating!IntrospectFails
  <2>2. /\ entitled' = entitled \/ entitled' = entitled \ {t}
        /\ UNCHANGED <<mode, clock, serverKey, publicKeys, trusted>>
    BY <1>6 DEF Authenticating!Introspect, Authenticating!IntrospectFails, Authenticating!Refusal
  <2>3. Alone(t)
    BY <1>6, <2>2 DEF Alone, Authenticating!Awaits
  <2> DEFINE id == [key |-> serverKey, expiration |-> clock + TokenLifetime]
             open == Authenticating!Opaque(r.token) /\ r.token.session = "open"
  <2>4. \/ open /\ Authenticating!FirstTry(t, "access_token", r.token, id, r.n)
        \/ /\ t \in entitled' => t \in entitled /\ ~open
           /\ Authenticating!Reject(t, r.token, r.n) /\ authorizations' = authorizations
    <3>1. CASE Authenticating!Introspect(t)
      BY <3>1 DEF Authenticating!Introspect
    <3>2. CASE Authenticating!IntrospectFails(t)
      BY <3>2 DEF Authenticating!IntrospectFails, Authenticating!Refusal
    <3> QED
      BY <1>6, <3>1, <3>2
  <2> HIDE DEF r
  <2>5. r.token \in Token \cup {Boot} /\ r.token # Boot
    BY <2>1 DEF Requested, Waiting, Authenticating!Idle
  <2>6. r.n = 2 /\ mode = "development"
        /\ (t \in entitled => Authenticating!Opaque(r.token) /\ r.token.session = "open")
    BY <2>1, <2>5 DEF Waiting
  <2>7. Authenticating!Asked[2] = "access_token"
    BY <2>6, Providers
  <2>8. id \in Ids /\ id.expiration >= TokenLifetime /\ clock < id.expiration /\ id.key = serverKey
    BY <1>0, TokenAssumption DEF Ids
  <2> HIDE DEF id
  <2>9. CASE Authenticating!Opaque(r.token) /\ Authenticating!FirstTry(t, "access_token", r.token, id, r.n)
    <3>1. Authenticating!FirstTry(t, Authenticating!Asked[2], r.token, id, 2)
      BY <2>6, <2>7, <2>9
    <3> QED
      BY <2>2, <2>3, <2>5, <2>6, <2>8, <2>9, <3>1, FirstTryStep
  <2>10. CASE /\ t \notin entitled' /\ authorizations' = authorizations
              /\ Authenticating!Reject(t, r.token, r.n)
    <3>1. KeptInv'
      BY <1>0, <2>2, <2>10 DEF KeptInv
    <3> QED
      BY <2>3, <2>5, <2>6, <2>10, <3>1, RejectStep
  <2> QED
    BY <2>2, <2>4, <2>6, <2>9, <2>10 DEF id
<1>7. ASSUME NEW t \in Caller, NEW keys \in {{}, {serverKey}}, Authenticating!Awaits,
             Authenticating!Fetched(t, keys), entitled' \subseteq entitled,
             entitled' \ {t} = entitled \ {t},
             t \in entitled' => keys = {serverKey},
             UNCHANGED <<mode, clock, serverKey, publicKeys, trusted, authorizations>>
      PROVE  AuthenticationInv'
  <2>1. PICK r \in Requested : r = request[t] /\ Waiting(t, r) /\ r.at = "reload"
    BY <1>0, <1>7 DEF Authenticating!Fetched
  <2>2. Alone(t) /\ KeptInv'
    BY <1>0, <1>7 DEF Alone, KeptInv, Authenticating!Awaits
  <2>3. r.token \in Token \cup {Boot} /\ r.id \in Ids \cup Token \cup {Boot} /\ r.n \in 0..2
    BY <2>1 DEF Requested, Authenticating!Idle
  <2>4. keys \subseteq 1..serverKey /\ keys \in SUBSET Nat
    BY <1>0
  <2>5. PICK s \in Requested : /\ s.at = "answered" /\ s.token = r.token /\ s.id = r.id /\ s.n = r.n
                              /\ s.keys = keys /\ Authenticating!Proceeds(t, s)
    <3> DEFINE s == [at |-> "answered", token |-> r.token, id |-> r.id, n |-> r.n, keys |-> keys]
    <3>1. Authenticating!Proceeds(t, s)
      BY <1>7, <2>1 DEF Authenticating!Fetched
    <3>2. s \in Requested
      BY <2>3, <2>4 DEF Requested
    <3>3. s.at = "answered" /\ s.token = r.token /\ s.id = r.id /\ s.n = r.n /\ s.keys = keys
      OBVIOUS
    <3> QED
      BY <3>1, <3>2, <3>3
  <2>6. Waiting(t, s)'
    BY <1>7, <2>1, <2>4, <2>5 DEF Waiting
  <2> QED
    BY <2>2, <2>5, <2>6, ProceedsStep
<1>8. ASSUME NEW t \in Caller, Authenticating!Awaits,
             Authenticating!FetchJwks(t) \/ Authenticating!FetchFails(t)
      PROVE  AuthenticationInv'
  <2>1. CASE Authenticating!FetchJwks(t)
    BY <1>7, <1>8, <2>1 DEF Authenticating!FetchJwks
  <2>2. CASE Authenticating!FetchFails(t)
    BY <1>7, <1>8, <2>2 DEF Authenticating!FetchFails, Authenticating!Refusal
  <2> QED
    BY <1>8, <2>1, <2>2
\* What the task of the start, or one that is rejected, leaves behind.
<1>9. ASSUME NEW t \in Caller, Alone(t), KeptInv', Authenticating!Proceeds(t, Authenticating!Idle)
      PROVE  AuthenticationInv'
  <2>1. Authenticating!Idle \in Requested /\ Waiting(t, Authenticating!Idle)'
    BY DEF Requested, Waiting, Authenticating!Idle
  <2> QED
    BY <1>9, <2>1, ProceedsStep
<1>10. ASSUME NEW t \in Caller, Authenticating!Awaits, Authenticating!FetchRaises(t)
       PROVE  AuthenticationInv'
  <2> DEFINE r == request[t]
  <2>1. /\ r.at = "reload" /\ entitled' = entitled \ {t}
        /\ IF r.token = Boot THEN Authenticating!Proceeds(t, Authenticating!Idle)
           ELSE Authenticating!Reject(t, r.token, r.n)
        /\ UNCHANGED <<mode, clock, serverKey, publicKeys, trusted, authorizations>>
    BY <1>10 DEF Authenticating!FetchRaises, Authenticating!Refusal
  <2>2. Alone(t) /\ KeptInv'
    BY <1>0, <1>10, <2>1 DEF Alone, KeptInv, Authenticating!Awaits
  <2>3. r \in Requested /\ Waiting(t, r)
    BY <1>0
  <2> HIDE DEF r
  <2>4. CASE r.token = Boot
    BY <1>9, <2>1, <2>2, <2>4
  <2>5. CASE r.token # Boot
    <3>1. r.token \in Token
      BY <2>1, <2>3, <2>5 DEF Requested, Authenticating!Idle
    <3>2. mode # "mock" /\ r.n \in {1, 2} /\ (r.n = 1 \/ mode = "development")
      BY <2>1, <2>3, <2>5 DEF Waiting
    <3> QED
      BY <2>1, <2>2, <2>5, <3>1, <3>2, RejectStep
  <2> QED
    BY <2>4, <2>5
<1>11. ASSUME NEW t \in Caller, Authenticating!Awaits, Authenticating!SecondTry(t)
       PROVE  AuthenticationInv'
  <2> DEFINE r == request[t]
  <2>1. /\ r.at = "answered"
        /\ publicKeys' = (IF r.keys = {} THEN publicKeys ELSE r.keys) /\ trusted' = publicKeys'
        /\ UNCHANGED <<mode, clock, serverKey, entitled>>
    BY <1>11 DEF Authenticating!SecondTry
  <2>2. Alone(t)
    BY <1>11, <2>1 DEF Alone, Authenticating!Awaits
  <2>3. r \in Requested /\ Waiting(t, r)
    BY <1>0
  <2>4. IF r.token = Boot THEN Authenticating!Proceeds(t, Authenticating!Idle) /\ UNCHANGED authorizations
        ELSE IF r.id.key \in trusted'
          THEN Authenticating!Verified(t, Authenticating!Asked[r.n], r.token, r.id, r.n)
        ELSE Authenticating!Reject(t, r.token, r.n) /\ UNCHANGED authorizations
    BY <1>11 DEF Authenticating!SecondTry
  <2> HIDE DEF r
  <2>5. publicKeys' \subseteq 1..serverKey /\ trusted' \subseteq 1..serverKey
    BY <1>0, <2>1, <2>3 DEF Waiting, KeptInv
  <2>6. authorizations' = authorizations => KeptInv'
    BY <1>0, <2>1, <2>5 DEF KeptInv
  <2>7. CASE r.token = Boot
    BY <1>9, <2>2, <2>4, <2>6, <2>7
  <2>8. CASE r.token # Boot
    <3>1. r.token \in Token
      BY <2>1, <2>3, <2>8 DEF Requested, Authenticating!Idle
    <3>2. /\ mode # "mock" /\ r.n \in {1, 2} /\ (r.n = 1 \/ mode = "development")
          /\ r.id \in Ids /\ (r.n = 1 => r.id = r.token)
      BY <2>1, <2>3, <2>8 DEF Waiting
    <3>3. t \in entitled => r.id.key = serverKey /\ clock < r.id.expiration /\ r.keys = {serverKey}
      BY <2>1, <2>3, <2>8 DEF Waiting
    <3>4. CASE r.id.key \in trusted'
      <4>1. r.id.key \in 1..serverKey
        BY <2>5, <3>4
      <4> QED
        BY <2>1, <2>2, <2>4, <2>5, <2>8, <3>1, <3>2, <3>3, <3>4, <4>1, VerifiedStep
    <3>5. CASE r.id.key \notin trusted'
      <4>1. t \notin entitled'
        BY <2>1, <3>3, <3>5
      <4> QED
        BY <2>2, <2>4, <2>6, <2>8, <3>1, <3>2, <3>5, <4>1, RejectStep
    <3> QED
      BY <3>4, <3>5
  <2> QED
    BY <2>7, <2>8
<1>12. CASE UNCHANGED authVars
  <2>1. UNCHANGED <<mode, clock, serverKey, publicKeys, trusted, authorizations, request, answer, entitled>>
    BY <1>12 DEF authVars
  <2>2. \A t \in Caller : Waiting(t, request[t])'
    BY <1>0, <2>1 DEF Waiting, InSession
  <2>3. KeptInv' /\ AnswerInv'
    BY <2>1 DEF AuthenticationInv, KeptInv, AnswerInv, Authenticating!AcceptedAreSigned,
                Authenticating!SignedAreAccepted
  <2> QED
    BY <1>0, <2>1, <2>2, <2>3 DEF AuthenticationInv
<1> QED
  BY <1>1, <1>2, <1>3, <1>4, <1>5, <1>6, <1>8, <1>10, <1>11, <1>12 DEF Authenticating!Next

LEMMA AuthenticationInit == Authenticating!Init => AuthenticationInv
<1> SUFFICES ASSUME Authenticating!Init PROVE AuthenticationInv
  OBVIOUS
<1> USE DEF Authenticating!Init
<1> DEFINE r == Authenticating!Waits("reload", Boot, Boot, 0)
<1>1. r \in Requested /\ Authenticating!Idle \in Requested
  BY DEF Requested, Authenticating!Waits
<1>2. r.at = "reload" /\ r.token = Boot /\ Authenticating!Idle.at = "idle"
  BY DEF Authenticating!Waits, Authenticating!Idle
<1>3. \A t \in Caller : request[t] \in {r, Authenticating!Idle}
  OBVIOUS
<1> HIDE DEF r
<1>4. \A t \in Caller : Waiting(t, request[t]) /\ request[t].at # "provider"
  BY <1>2, <1>3 DEF Waiting
<1>5. request \in [Caller -> Requested]
  BY <1>1 DEF r
<1>6. KeptInv
  BY DEF KeptInv
<1>7. AnswerInv
  BY DEF AnswerInv, Authenticating!AcceptedAreSigned, Authenticating!SignedAreAccepted,
         Authenticating!NoAnswer
<1>8. mode \in {"production", "development", "mock"} /\ clock \in Nat /\ serverKey \in Nat \ {0}
  OBVIOUS
<1> QED
  BY <1>4, <1>5, <1>6, <1>7, <1>8 DEF AuthenticationInv

-----------------------------------------------------------------------------
(* Requests: the layers, and the order in which the installers put them.   *)

Rank == [w \in {"query", "path", "pass_tenant", "auth", "pass_resources", "require", "handler"} |->
           CASE w \in {"query", "path"} -> 1
             [] w = "pass_tenant"       -> 2
             [] w = "auth"              -> 3
             [] w = "pass_resources"    -> 4
             [] w = "require"           -> 5
             [] w = "handler"           -> 6]
Wrappers == DOMAIN Rank

\* Layers in the order in which a request meets them: the tenant first, the handler last.
Layered(s, ws) ==
  /\ s \in Seq(Wrappers) /\ Requests!Range(s) = ws
  /\ \A i, j \in 1..Len(s) : i < j => Rank[s[i]] < Rank[s[j]]

LEMMA Ranks ==
  /\ Wrappers = {"query", "path", "pass_tenant", "auth", "pass_resources", "require", "handler"}
  /\ Rank["query"] = 1 /\ Rank["path"] = 1 /\ Rank["pass_tenant"] = 2 /\ Rank["auth"] = 3
  /\ Rank["pass_resources"] = 4 /\ Rank["require"] = 5 /\ Rank["handler"] = 6
<1>1. Wrappers = {"query", "path", "pass_tenant", "auth", "pass_resources", "require", "handler"}
  BY DEF Wrappers, Rank
<1>2. /\ Rank["query"] = 1 /\ Rank["path"] = 1 /\ Rank["pass_tenant"] = 2 /\ Rank["auth"] = 3
  BY DEF Rank
<1>3. /\ Rank["pass_resources"] = 4 /\ Rank["require"] = 5 /\ Rank["handler"] = 6
  BY DEF Rank
<1> QED
  BY <1>1, <1>2, <1>3

LEMMA OneLayer ==
  /\ Layered(<<>>, {})
  /\ \A w \in Wrappers : Layered(<<w>>, {w})
<1>1. Layered(<<>>, {})
  <2>1. <<>> \in Seq(Wrappers) /\ Len(<<>>) = 0
    BY EmptySeq
  <2>2. Requests!Range(<<>>) = {}
    BY DEF Requests!Range
  <2> QED
    BY <2>1, <2>2 DEF Layered
<1>2. ASSUME NEW w \in Wrappers PROVE Layered(<<w>>, {w})
  <2>1. <<w>> \in Seq(Wrappers) /\ Len(<<w>>) = 1 /\ DOMAIN <<w>> = {1} /\ <<w>>[1] = w
    OBVIOUS
  <2>2. Requests!Range(<<w>>) = {w}
    BY <2>1 DEF Requests!Range
  <2> QED
    BY <2>1, <2>2 DEF Layered
<1> QED
  BY <1>1, <1>2

LEMMA JoinedLayers ==
  ASSUME NEW a, NEW b, NEW A, NEW B, Layered(a, A), Layered(b, B),
         \A x \in A, y \in B : Rank[x] < Rank[y]
  PROVE  Layered(a \o b, A \cup B)
<1>1. a \in Seq(Wrappers) /\ b \in Seq(Wrappers)
  BY DEF Layered
<1>2. /\ a \o b \in Seq(Wrappers) /\ Len(a \o b) = Len(a) + Len(b)
      /\ \A i \in 1..Len(a) + Len(b) : (a \o b)[i] = IF i <= Len(a) THEN a[i] ELSE b[i - Len(a)]
  BY <1>1, ConcatProperties
<1>3. DOMAIN a = 1..Len(a) /\ DOMAIN b = 1..Len(b) /\ DOMAIN (a \o b) = 1..Len(a) + Len(b)
      /\ Len(a) \in Nat /\ Len(b) \in Nat
  BY <1>1, <1>2, LenProperties
<1>4. (\A i \in 1..Len(a) : a[i] \in A) /\ (\A i \in 1..Len(b) : b[i] \in B)
  BY <1>3 DEF Layered, Requests!Range
<1> HIDE DEF Layered
<1>5. Requests!Range(a \o b) = A \cup B
  <2>1. ASSUME NEW x \in Requests!Range(a \o b) PROVE x \in A \cup B
    <3>1. PICK i \in 1..Len(a) + Len(b) : x = (a \o b)[i]
      BY <1>3, <2>1 DEF Requests!Range
    <3>2. CASE i <= Len(a)
      BY <1>2, <1>3, <1>4, <3>1, <3>2
    <3>3. CASE ~(i <= Len(a))
      <4>1. i - Len(a) \in 1..Len(b)
        BY <1>3, <3>3
      <4> QED
        BY <1>2, <1>4, <3>1, <3>3, <4>1
    <3> QED
      BY <3>2, <3>3
  <2>2. ASSUME NEW x \in A PROVE x \in Requests!Range(a \o b)
    <3>1. PICK i \in 1..Len(a) : x = a[i]
      BY <1>3, <2>2 DEF Layered, Requests!Range
    <3>2. i \in 1..Len(a) + Len(b) /\ i <= Len(a)
      BY <1>3
    <3>3. x = (a \o b)[i]
      BY <1>2, <3>1, <3>2
    <3> QED
      BY <1>3, <3>2, <3>3 DEF Requests!Range
  <2>3. ASSUME NEW x \in B PROVE x \in Requests!Range(a \o b)
    <3>1. PICK i \in 1..Len(b) : x = b[i]
      BY <1>3, <2>3 DEF Layered, Requests!Range
    <3>2. i + Len(a) \in 1..Len(a) + Len(b) /\ ~(i + Len(a) <= Len(a)) /\ i + Len(a) - Len(a) = i
      BY <1>3
    <3>3. x = (a \o b)[i + Len(a)]
      BY <1>2, <3>1, <3>2
    <3> QED
      BY <1>3, <3>2, <3>3 DEF Requests!Range
  <2> QED
    BY <2>1, <2>2, <2>3
<1>6. ASSUME NEW i \in 1..Len(a) + Len(b), NEW j \in 1..Len(a) + Len(b), i < j
      PROVE  Rank[(a \o b)[i]] < Rank[(a \o b)[j]]
  <2>1. CASE j <= Len(a)
    <3>1. i \in 1..Len(a) /\ j \in 1..Len(a)
      BY <1>3, <1>6, <2>1
    <3>2. (a \o b)[i] = a[i] /\ (a \o b)[j] = a[j]
      BY <1>2, <1>3, <3>1
    <3> QED
      BY <1>6, <3>1, <3>2 DEF Layered
  <2>2. CASE i <= Len(a) /\ ~(j <= Len(a))
    <3>1. i \in 1..Len(a) /\ j - Len(a) \in 1..Len(b)
      BY <1>3, <2>2
    <3>2. (a \o b)[i] = a[i] /\ (a \o b)[j] = b[j - Len(a)]
      BY <1>2, <2>2
    <3> QED
      BY <1>4, <3>1, <3>2
  <2>3. CASE ~(i <= Len(a))
    <3>1. i - Len(a) \in 1..Len(b) /\ j - Len(a) \in 1..Len(b) /\ i - Len(a) < j - Len(a) /\ ~(j <= Len(a))
      BY <1>3, <1>6, <2>3
    <3>2. (a \o b)[i] = b[i - Len(a)] /\ (a \o b)[j] = b[j - Len(a)]
      BY <1>2, <2>3, <3>1
    <3> QED
      BY <3>1, <3>2 DEF Layered
  <2> QED
    BY <2>1, <2>2, <2>3
<1> QED
  BY <1>2, <1>5, <1>6 DEF Layered

\* The rest of a request's way: without the first layer, behind which none of its rank comes.
LEMMA NextLayer ==
  ASSUME NEW s, NEW ws, Layered(s, ws), "handler" \in ws
  PROVE  /\ Head(s) \in ws
         /\ Layered(Tail(s), ws \ {Head(s)})
         /\ \A w \in ws \ {Head(s)} : Rank[Head(s)] < Rank[w]
<1>1. s \in Seq(Wrappers) /\ DOMAIN s = 1..Len(s) /\ Len(s) \in Nat
  BY LenProperties DEF Layered
<1>2. s # <<>>
  BY OneLayer DEF Layered
<1>3. Len(s) > 0 /\ Head(s) = s[1]
  BY <1>1, <1>2, EmptySeq
<1>4. /\ Tail(s) \in Seq(Wrappers) /\ Len(Tail(s)) = Len(s) - 1
      /\ \A i \in 1..Len(s) - 1 : Tail(s)[i] = s[i + 1]
  BY <1>1, <1>2, HeadTailProperties
<1>5. DOMAIN Tail(s) = 1..Len(s) - 1
  BY <1>4, LenProperties
<1>6. \A i \in 2..Len(s) : Rank[s[1]] < Rank[s[i]]
  BY <1>1, <1>3 DEF Layered
<1>7. Head(s) \in ws
  BY <1>1, <1>3 DEF Layered, Requests!Range
<1>8. ASSUME NEW w \in ws, w # Head(s) PROVE \E i \in 2..Len(s) : w = s[i]
  <2>1. PICK i \in 1..Len(s) : w = s[i]
    BY <1>1 DEF Layered, Requests!Range
  <2>2. i # 1
    BY <1>3, <1>8, <2>1
  <2> QED
    BY <1>1, <2>1, <2>2
<1>9. \A i \in 2..Len(s) : s[i] \in ws /\ s[i] # s[1]
  <2> SUFFICES ASSUME NEW i \in 2..Len(s) PROVE s[i] \in ws /\ s[i] # s[1]
    OBVIOUS
  <2>1. i \in 1..Len(s) /\ 1 \in 1..Len(s)
    BY <1>1, <1>3
  <2>2. s[1] \in Wrappers /\ s[i] \in Wrappers
    BY <1>1, <2>1
  <2>3. s[i] # s[1]
    BY <1>6, <2>2, Ranks
  <2> QED
    BY <1>1, <2>1, <2>3 DEF Layered, Requests!Range
<1>10. Requests!Range(Tail(s)) = ws \ {Head(s)}
  <2>1. ASSUME NEW x \in Requests!Range(Tail(s)) PROVE x \in ws \ {Head(s)}
    <3>1. PICK i \in 1..Len(s) - 1 : x = Tail(s)[i]
      BY <1>5 DEF Requests!Range
    <3>2. i + 1 \in 2..Len(s)
      BY <1>1
    <3> QED
      BY <1>3, <1>4, <1>9, <3>1, <3>2
  <2>2. ASSUME NEW x \in ws \ {Head(s)} PROVE x \in Requests!Range(Tail(s))
    <3>1. PICK i \in 2..Len(s) : x = s[i]
      BY <1>8
    <3>2. i - 1 \in 1..Len(s) - 1 /\ i - 1 + 1 = i
      BY <1>1
    <3>3. x = Tail(s)[i - 1]
      BY <1>4, <3>1, <3>2
    <3> QED
      BY <1>5, <3>2, <3>3 DEF Requests!Range
  <2> QED
    BY <2>1, <2>2
<1>11. ASSUME NEW i \in 1..Len(s) - 1, NEW j \in 1..Len(s) - 1, i < j
       PROVE  Rank[Tail(s)[i]] < Rank[Tail(s)[j]]
  <2>1. i + 1 \in 1..Len(s) /\ j + 1 \in 1..Len(s) /\ i + 1 < j + 1
    BY <1>1, <1>11
  <2>2. Tail(s)[i] = s[i + 1] /\ Tail(s)[j] = s[j + 1]
    BY <1>4
  <2> QED
    BY <2>1, <2>2 DEF Layered
<1>12. Layered(Tail(s), ws \ {Head(s)})
  BY <1>4, <1>10, <1>11 DEF Layered
<1>13. \A w \in ws \ {Head(s)} : Rank[Head(s)] < Rank[w]
  BY <1>3, <1>6, <1>8
<1> QED
  BY <1>7, <1>12, <1>13
-----------------------------------------------------------------------------
\* What is around the handler of a route.
DeclaredSet(r) == {"handler"} \cup (IF r.require = None THEN {} ELSE {"require"})
AuthSet(r) == IF r.noauth \/ "auth" \in r.exempt THEN {}
              ELSE {"auth"} \cup (IF "resources" \in r.args THEN {"pass_resources"} ELSE {})
TenantSet(r) == IF "tenant" \in r.exempt THEN {}
                ELSE (IF r.pathHas = "nothing" THEN {"query"} ELSE {"path"})
                       \cup (IF "tenant" \in r.args THEN {"pass_tenant"} ELSE {})
WrappedSet(r) == DeclaredSet(r) \cup (IF Requests!Installed("auth") THEN AuthSet(r) ELSE {})
                   \cup (IF Requests!Installed("tenant") THEN TenantSet(r) ELSE {})

LEMMA DeclaredLayers == ASSUME NEW r PROVE Layered(Requests!Declared(r), DeclaredSet(r))
<1>1. Layered(<<"handler">>, {"handler"}) /\ Layered(<<"require">>, {"require"}) /\ Layered(<<>>, {})
  BY OneLayer, Ranks
<1>2. CASE r.require = None
  <2>1. Layered(<<>> \o <<"handler">>, {} \cup {"handler"})
    BY <1>1, JoinedLayers
  <2> QED
    BY <1>2, <2>1 DEF Requests!Declared, DeclaredSet
<1>3. CASE r.require # None
  <2>1. Layered(<<"require">> \o <<"handler">>, {"require"} \cup {"handler"})
    BY <1>1, JoinedLayers, Ranks
  <2> QED
    BY <1>3, <2>1 DEF Requests!Declared, DeclaredSet
<1> QED
  BY <1>2, <1>3

LEMMA AuthLayersAre ==
  ASSUME NEW r, NEW inner, Layered(inner, DeclaredSet(r))
  PROVE  Layered(Requests!AuthLayers(r, inner), AuthSet(r) \cup DeclaredSet(r))
<1>1. Layered(<<"auth">>, {"auth"}) /\ Layered(<<"pass_resources">>, {"pass_resources"})
      /\ Layered(<<>>, {})
  BY OneLayer, Ranks
<1>2. \A w \in DeclaredSet(r) : Rank[w] >= 5
  BY Ranks DEF DeclaredSet
<1>3. CASE r.noauth \/ "auth" \in r.exempt
  BY <1>3 DEF Requests!AuthLayers, AuthSet
<1>4. CASE ~r.noauth /\ "auth" \notin r.exempt /\ "resources" \in r.args
  <2>1. Layered(<<"auth">> \o <<"pass_resources">>, {"auth"} \cup {"pass_resources"})
    BY <1>1, JoinedLayers, Ranks
  <2>2. \A x \in {"auth"} \cup {"pass_resources"}, y \in DeclaredSet(r) : Rank[x] < Rank[y]
    BY <1>2, Ranks DEF DeclaredSet
  <2>3. Layered((<<"auth">> \o <<"pass_resources">>) \o inner,
                ({"auth"} \cup {"pass_resources"}) \cup DeclaredSet(r))
    BY <2>1, <2>2, JoinedLayers
  <2> QED
    BY <1>4, <2>3 DEF Requests!AuthLayers, AuthSet
<1>5. CASE ~r.noauth /\ "auth" \notin r.exempt /\ "resources" \notin r.args
  <2>1. Layered(<<"auth">> \o <<>>, {"auth"} \cup {})
    BY <1>1, JoinedLayers
  <2>2. \A x \in {"auth"} \cup {}, y \in DeclaredSet(r) : Rank[x] < Rank[y]
    BY <1>2, Ranks DEF DeclaredSet
  <2>3. Layered((<<"auth">> \o <<>>) \o inner, ({"auth"} \cup {}) \cup DeclaredSet(r))
    BY <2>1, <2>2, JoinedLayers
  <2> QED
    BY <1>5, <2>3 DEF Requests!AuthLayers, AuthSet
<1> QED
  BY <1>3, <1>4, <1>5

LEMMA TenantLayersAre ==
  ASSUME NEW r, NEW inner, NEW ws \in {DeclaredSet(r), AuthSet(r) \cup DeclaredSet(r)}, Layered(inner, ws)
  PROVE  Layered(Requests!TenantLayers(r, inner), TenantSet(r) \cup ws)
<1>1. Layered(<<"query">>, {"query"}) /\ Layered(<<"path">>, {"path"})
      /\ Layered(<<"pass_tenant">>, {"pass_tenant"}) /\ Layered(<<>>, {})
  BY OneLayer, Ranks
<1> DEFINE first == IF r.pathHas = "nothing" THEN "query" ELSE "path"
<1>2. /\ (IF r.pathHas = "nothing" THEN <<"query">> ELSE <<"path">>) = <<first>>
      /\ (IF r.pathHas = "nothing" THEN {"query"} ELSE {"path"}) = {first}
      /\ Layered(<<first>>, {first}) /\ Rank[first] = 1
  BY <1>1, Ranks
<1> HIDE DEF first
<1>3. \A w \in ws : w \in Wrappers /\ Rank[w] > 2
  BY Ranks DEF DeclaredSet, AuthSet
<1>4. CASE "tenant" \notin r.exempt /\ "tenant" \in r.args
  <2>1. Layered(<<first>> \o <<"pass_tenant">>, {first} \cup {"pass_tenant"})
    BY <1>1, <1>2, JoinedLayers, Ranks
  <2>2. \A x \in {first} \cup {"pass_tenant"}, y \in ws : Rank[x] < Rank[y]
    BY <1>2, <1>3, Ranks
  <2>3. Layered((<<first>> \o <<"pass_tenant">>) \o inner, ({first} \cup {"pass_tenant"}) \cup ws)
    BY <2>1, <2>2, JoinedLayers
  <2> QED
    BY <1>2, <1>4, <2>3 DEF Requests!TenantLayers, TenantSet
<1>5. CASE "tenant" \notin r.exempt /\ "tenant" \notin r.args
  <2>1. Layered(<<first>> \o <<>>, {first} \cup {})
    BY <1>1, <1>2, JoinedLayers
  <2>2. \A x \in {first} \cup {}, y \in ws : Rank[x] < Rank[y]
    BY <1>2, <1>3, Ranks
  <2>3. Layered((<<first>> \o <<>>) \o inner, ({first} \cup {}) \cup ws)
    BY <2>1, <2>2, JoinedLayers
  <2> QED
    BY <1>2, <1>5, <2>3 DEF Requests!TenantLayers, TenantSet
<1>6. CASE "tenant" \in r.exempt
  BY <1>6 DEF Requests!TenantLayers, TenantSet
<1> QED
  BY <1>4, <1>5, <1>6

Startups == {<<>>, <<"tenant">>, <<"auth">>, <<"auth", "tenant">>}

LEMMA StartupFacts ==
  ASSUME onStartup \in Startups
  PROVE  /\ \/ Len(onStartup) = 0
            \/ Len(onStartup) = 1 /\ onStartup[1] \in {"tenant", "auth"}
            \/ Len(onStartup) = 2 /\ onStartup[1] = "auth" /\ onStartup[2] = "tenant"
         /\ \A w : Requests!Installed(w) <=> \E i \in 1..Len(onStartup) : w = onStartup[i]
<1>1. onStartup \in Seq({"tenant", "auth"})
  <2>1. <<>> \in Seq({"tenant", "auth"})
    BY EmptySeq
  <2>2. <<"tenant">> \in Seq({"tenant", "auth"}) /\ <<"auth">> \in Seq({"tenant", "auth"})
        /\ <<"auth", "tenant">> \in Seq({"tenant", "auth"})
    OBVIOUS
  <2> QED
    BY <2>1, <2>2 DEF Startups
<1>2. DOMAIN onStartup = 1..Len(onStartup)
  BY <1>1, LenProperties
<1>3. \A w : Requests!Installed(w) <=> \E i \in 1..Len(onStartup) : w = onStartup[i]
  BY <1>2 DEF Requests!Installed, Requests!Range
<1>4. CASE onStartup = <<>>
  BY <1>3, <1>4
<1>5. CASE onStartup = <<"tenant">>
  BY <1>3, <1>5
<1>6. CASE onStartup = <<"auth">>
  BY <1>3, <1>6
<1>7. CASE onStartup = <<"auth", "tenant">>
  BY <1>3, <1>7
<1> QED
  BY <1>4, <1>5, <1>6, <1>7 DEF Startups

LEMMA WrappedLayers ==
  ASSUME NEW r, onStartup \in Startups
  PROVE  Layered(Requests!Wrapped(r), WrappedSet(r))
<1> DEFINE wrapped == CHOOSE f : f = [i \in 0..Len(onStartup) |->
              IF i = 0 THEN Requests!Declared(r)
              ELSE IF onStartup[i] = "tenant" THEN Requests!TenantLayers(r, f[i - 1])
              ELSE Requests!AuthLayers(r, f[i - 1])]
           d == Requests!Declared(r)
           a == Requests!AuthLayers(r, d)
           Step(f, i) == IF i = 0 THEN d
                         ELSE IF onStartup[i] = "tenant" THEN Requests!TenantLayers(r, f[i - 1])
                         ELSE Requests!AuthLayers(r, f[i - 1])
           g == [i \in 0..Len(onStartup) |->
                  IF i = 0 THEN d
                  ELSE IF i = 1 THEN IF onStartup[1] = "tenant" THEN Requests!TenantLayers(r, d) ELSE a
                  ELSE Requests!TenantLayers(r, a)]
<1>1. Requests!Wrapped(r) = wrapped[Len(onStartup)]
  BY DEF Requests!Wrapped
<1>2. Layered(d, DeclaredSet(r)) /\ Layered(a, AuthSet(r) \cup DeclaredSet(r))
  BY DeclaredLayers, AuthLayersAre
<1>3. a = Requests!AuthLayers(r, d)
  OBVIOUS
<1>4. ASSUME \E f : f = [i \in 0..Len(onStartup) |-> Step(f, i)]
      PROVE  wrapped = [i \in 0..Len(onStartup) |-> Step(wrapped, i)]
  BY <1>4
<1> HIDE DEF a, d, wrapped
<1>5. wrapped = [i \in 0..Len(onStartup) |-> Step(wrapped, i)]
  <2>1. ASSUME NEW i \in 0..Len(onStartup) PROVE g[i] = Step(g, i)
    <3>1. CASE i = 0
      BY <3>1
    <3>2. CASE i = 1
      <4>1. g[0] = d /\ i - 1 = 0 /\ onStartup[1] \in {"tenant", "auth"}
        BY <3>2, StartupFacts
      <4> QED
        BY <1>3, <3>2, <4>1
    <3>3. CASE i = 2
      <4>1. g[1] = a /\ i - 1 = 1 /\ onStartup[2] = "tenant"
        BY <3>3, StartupFacts
      <4> QED
        BY <3>3, <4>1
    <3> QED
      BY <3>1, <3>2, <3>3, StartupFacts
  <2>2. g = [i \in 0..Len(onStartup) |-> Step(g, i)]
    BY <2>1
  <2> QED
    BY <1>4, <2>2
<1>6. \A i \in 0..Len(onStartup) : wrapped[i] = Step(wrapped, i)
  BY <1>5
<1>7. CASE Len(onStartup) = 0
  <2>1. wrapped[0] = d /\ ~Requests!Installed("auth") /\ ~Requests!Installed("tenant")
    BY <1>6, <1>7, StartupFacts
  <2> QED
    BY <1>1, <1>2, <1>7, <2>1 DEF WrappedSet
<1>8. CASE Len(onStartup) = 1 /\ onStartup[1] = "tenant"
  <2>1. ~Requests!Installed("auth") /\ Requests!Installed("tenant")
    BY <1>8, StartupFacts
  <2>2. wrapped[0] = d
    BY <1>6, <1>8
  <2>3. wrapped[1] = Requests!TenantLayers(r, d)
    BY <1>6, <1>8, <2>2
  <2>4. Layered(wrapped[1], TenantSet(r) \cup DeclaredSet(r))
    BY <1>2, <2>3, TenantLayersAre
  <2>5. WrappedSet(r) = TenantSet(r) \cup DeclaredSet(r)
    BY <2>1 DEF WrappedSet
  <2> QED
    BY <1>1, <1>8, <2>4, <2>5
<1>9. CASE Len(onStartup) = 1 /\ onStartup[1] = "auth"
  <2>1. Requests!Installed("auth") /\ ~Requests!Installed("tenant")
    BY <1>9, StartupFacts
  <2>2. wrapped[0] = d
    BY <1>6, <1>9
  <2>3. wrapped[1] = a
    BY <1>3, <1>6, <1>9, <2>2
  <2>4. WrappedSet(r) = AuthSet(r) \cup DeclaredSet(r)
    BY <2>1 DEF WrappedSet
  <2> QED
    BY <1>1, <1>2, <1>9, <2>3, <2>4
<1>10. CASE Len(onStartup) = 2
  <2>0. onStartup[1] = "auth" /\ onStartup[2] = "tenant"
    BY <1>10, StartupFacts
  <2>1. Requests!Installed("auth") /\ Requests!Installed("tenant")
    BY <1>10, <2>0, StartupFacts
  <2>2. wrapped[0] = d
    BY <1>6, <1>10
  <2>3. wrapped[1] = a
    BY <1>3, <1>6, <1>10, <2>0, <2>2
  <2>4. wrapped[2] = Requests!TenantLayers(r, a)
    BY <1>6, <1>10, <2>0, <2>3
  <2>5. Layered(wrapped[2], TenantSet(r) \cup (AuthSet(r) \cup DeclaredSet(r)))
    BY <1>2, <2>4, TenantLayersAre
  <2>6. WrappedSet(r) = TenantSet(r) \cup (AuthSet(r) \cup DeclaredSet(r))
    BY <2>1 DEF WrappedSet
  <2> QED
    BY <1>1, <1>10, <2>5, <2>6
<1> QED
  BY <1>7, <1>8, <1>9, <1>10, StartupFacts
-----------------------------------------------------------------------------
(* Requests: the way through the layers.                                   *)

\* What a handler requires of its authorization.
Allowed ==
  /\ authz # Unset
  /\ \/ Requests!IsSuperuser(authz.claim)
     \/ /\ route.require = "resource"
        /\ LET scope == IF Requests!InContext THEN tenant ELSE "*"
           IN  scope \in DOMAIN authz.claim /\ Resource \subseteq authz.claim[scope]

\* The layers ws are yet to come: what the others are for has been done, with the tenant first.
Passed(ws) ==
  /\ "handler" \in ws /\ route \in Requests!Route
  /\ "query" \in ws => route.pathHas = "nothing"
  /\ "path" \in ws => route.pathHas # "nothing"
  /\ "require" \in ws => route.require # None
  /\ route.pathHas # "nothing" => path \in TenantId \cup {Stranger}
  /\ ws \cap {"query", "path", "auth"} # {} =>
       authz = Unset /\ (route.require # None => "require" \in ws)
  /\ Requests!Guards("tenant", route) /\ ws \cap {"query", "path"} = {} =>
       /\ tenant = IF route.pathHas = "nothing" THEN query ELSE path
       /\ tenant = NoTenant => route.allowNoTenant
  /\ Requests!Guards("auth", route) /\ ~route.noauth /\ "auth" \notin ws => authz # Unset
  /\ authz # Unset /\ Requests!InContext => Requests!ClaimHasTenant(authz.claim, tenant)
  /\ route.require # None /\ "require" \notin ws => Allowed

RequestInv ==
  /\ stage \in {"set-up", "failed", "request", "ended"}
  /\ onStartup \in Startups
  /\ stage # "ended" => status = 0
  /\ stage = "set-up" => authz = Unset
  /\ stage = "request" => \E ws : Layered(layers, ws) /\ Passed(ws)
  /\ Requests!ServedAreEntitled

Outcomes == {"ok", "NotAuthenticatedError", "AccessDeniedError", "ValueError"}

LEMMA RequireOutcomes ==
  ASSUME NEW a, NEW w, NEW rs, NEW x, NEW match
  PROVE  /\ Requests!RequireTenantAccess(a, w, x) \in Outcomes
         /\ Requests!RequireTenantAccess(a, w, x) = "ok" => Requests!ClaimHasTenant(a.claim, x)
         /\ Requests!RequireSuperuserAccess(a, w) \in Outcomes
         /\ Requests!RequireSuperuserAccess(a, w) = "ok" => Requests!IsSuperuser(a.claim)
         /\ Requests!RequireResourceAccess(a, w, rs, x, match) \in Outcomes
         /\ Requests!RequireResourceAccess(a, w, rs, x, match) = "ok" =>
              rs # {} /\ Requests!ClaimHasResources(a.claim, rs, x, match)
         /\ Requests!RequireValid(a, w) \in Outcomes
<1>1. Requests!RequireValid(a, w) \in {"ok", "NotAuthenticatedError"}
      /\ (Requests!RequireValid(a, w) = "ok" <=> Requests!IsValid(a, w))
  BY DEF Requests!RequireValid
<1>2. ASSUME NEW access \in BOOLEAN
      PROVE  /\ Requests!Require(a, w, access) \in {"ok", "NotAuthenticatedError", "AccessDeniedError"}
             /\ Requests!Require(a, w, access) = "ok" => Requests!IsValid(a, w) /\ access
  <2>1. CASE Requests!RequireValid(a, w) # "ok"
    BY <1>1, <2>1 DEF Requests!Require
  <2>2. CASE Requests!RequireValid(a, w) = "ok"
    BY <1>1, <2>2 DEF Requests!Require
  <2> QED
    BY <2>1, <2>2
<1>3. Requests!IsSuperuser(a.claim) \in BOOLEAN
  BY DEF Requests!IsSuperuser
<1>4. Requests!ClaimHasTenant(a.claim, x) \in BOOLEAN
  BY DEF Requests!ClaimHasTenant
<1>5. Requests!ClaimHasResources(a.claim, rs, x, match) \in BOOLEAN
  BY DEF Requests!ClaimHasResources
<1>6. /\ Requests!RequireTenantAccess(a, w, x) \in Outcomes
      /\ Requests!RequireTenantAccess(a, w, x) = "ok" => Requests!ClaimHasTenant(a.claim, x)
  BY <1>2, <1>4 DEF Requests!RequireTenantAccess, Outcomes
<1>7. /\ Requests!RequireSuperuserAccess(a, w) \in Outcomes
      /\ Requests!RequireSuperuserAccess(a, w) = "ok" => Requests!IsSuperuser(a.claim)
  BY <1>2, <1>3 DEF Requests!RequireSuperuserAccess, Outcomes
<1>8. /\ Requests!RequireResourceAccess(a, w, rs, x, match) \in Outcomes
      /\ Requests!RequireResourceAccess(a, w, rs, x, match) = "ok" =>
           rs # {} /\ Requests!ClaimHasResources(a.claim, rs, x, match)
  BY <1>1, <1>2, <1>5 DEF Requests!RequireResourceAccess, Outcomes
<1> QED
  BY <1>1, <1>6, <1>7, <1>8 DEF Outcomes

\* A request that is refused is served by nobody.
LEMMA RefusedStep ==
  ASSUME RequestInv, stage' = "ended", status' # 200, onStartup' = onStartup
  PROVE  RequestInv'
  BY DEF RequestInv, Requests!ServedAreEntitled

LEMMA AnsweredStep ==
  ASSUME RequestInv, NEW outcome \in Outcomes, Requests!Answer(outcome), onStartup' = onStartup
  PROVE  RequestInv' \/ (outcome = "ok" /\ Requests!Enter /\ UNCHANGED <<tenant, authz>>)
<1>1. CASE outcome = "ok"
  BY <1>1 DEF Requests!Answer
<1>2. CASE outcome = "NotAuthenticatedError"
  BY <1>2, RefusedStep DEF Requests!Answer, Requests!Respond
<1>3. CASE outcome = "AccessDeniedError"
  BY <1>3, RefusedStep DEF Requests!Answer, Requests!Respond
<1>4. CASE outcome = "ValueError"
  BY <1>4, RefusedStep DEF Requests!Answer, Requests!Respond
<1> QED
  BY <1>1, <1>2, <1>3, <1>4 DEF Outcomes

\* One layer is passed.
LEMMA EnteredStep ==
  ASSUME RequestInv, stage = "request", onStartup' = onStartup, Requests!Enter,
         NEW ws, NEW h, Layered(layers, ws), "handler" \in ws, h = Head(layers), Passed(ws \ {h})'
  PROVE  RequestInv'
<1>1. layers' = Tail(layers) /\ stage' = stage /\ status' = status
  BY DEF Requests!Enter
<1>2. Layered(layers', ws \ {h})
  BY <1>1, NextLayer
<1>3. Layered(layers, ws \ {h})'
  BY <1>2 DEF Layered
<1>4. status' # 200 /\ Requests!ServedAreEntitled'
  BY <1>1 DEF RequestInv, Requests!ServedAreEntitled
<1> QED
  BY <1>1, <1>3, <1>4 DEF RequestInv

LEMMA LayerStep == RequestInv /\ Requests!Layer => RequestInv'
<1> SUFFICES ASSUME RequestInv, Requests!Layer PROVE RequestInv'
  OBVIOUS
<1>0. stage = "request" /\ UNCHANGED <<onStartup, route, query, path, now>> /\ onStartup \in Startups
  BY DEF Requests!Layer, RequestInv
<1>1. PICK ws : Layered(layers, ws) /\ Passed(ws)
  BY <1>0 DEF RequestInv
<1>2. PICK h \in ws : h = Head(layers) /\ \A w \in ws \ {h} : Rank[h] < Rank[w]
  BY <1>1, NextLayer DEF Passed
<1>3. /\ h = "query"          => Requests!FromQuery
      /\ h = "path"           => Requests!FromPath
      /\ h = "pass_tenant"    => Requests!PassTenant
      /\ h = "auth"           => Requests!AuthorizeHandler
      /\ h = "pass_resources" => Requests!PassResources
      /\ h = "require"        => Requests!RequireDeclared
      /\ h = "handler"        => Requests!Respond(200)
  BY <1>2 DEF Requests!Layer
<1>4. h \in Wrappers
  BY <1>1, <1>2, LenProperties DEF Layered, Requests!Range
<1>5. ASSUME Requests!Enter, Passed(ws \ {h})' PROVE RequestInv'
  BY <1>0, <1>1, <1>2, <1>5, EnteredStep DEF Passed
<1>6. ASSUME NEW code, Requests!Respond(code), code # 200 PROVE RequestInv'
  BY <1>0, <1>6, RefusedStep DEF Requests!Respond
<1>7. \A w : Requests!Guards(w, route)' <=> Requests!Guards(w, route)
  BY <1>0 DEF Requests!Guards, Requests!Installed
<1>8. ASSUME NEW x \in {query, path}, h \in {"query", "path"}, Requests!SetTenant(x),
             x = IF route.pathHas = "nothing" THEN query ELSE path,
             x = NoTenant => route.allowNoTenant
      PROVE  RequestInv'
  <2>1. tenant' = x /\ Requests!Enter /\ authz' = authz
    BY <1>8 DEF Requests!SetTenant
  <2>2. authz = Unset /\ (route.require # None => "require" \in ws)
    BY <1>1, <1>2, <1>8 DEF Passed
  <2>3. Requests!Guards("auth", route) /\ ~route.noauth => "auth" \in ws
    BY <1>1, <2>2 DEF Passed
  <2>4. Passed(ws \ {h})'
    BY <1>0, <1>1, <1>7, <1>8, <2>1, <2>2, <2>3 DEF Passed
  <2> QED
    BY <1>5, <2>1, <2>4
<1>9. CASE h = "query"
  <2>1. route.pathHas = "nothing"
    BY <1>1, <1>2, <1>9 DEF Passed
  <2>2. Requests!FromQuery
    BY <1>3, <1>9
  <2>3. CASE query = NoTenant /\ route.allowNoTenant
    BY <1>8, <1>9, <2>1, <2>2, <2>3 DEF Requests!FromQuery
  <2>4. CASE query = NoTenant /\ ~route.allowNoTenant
    BY <1>6, <2>2, <2>4 DEF Requests!FromQuery
  <2>5. CASE query # NoTenant /\ query = Stranger
    BY <1>6, <2>2, <2>5 DEF Requests!FromQuery
  <2>6. CASE query # NoTenant /\ query # Stranger
    BY <1>8, <1>9, <2>1, <2>2, <2>6 DEF Requests!FromQuery
  <2> QED
    BY <2>3, <2>4, <2>5, <2>6
<1>10. CASE h = "path"
  <2>1. route.pathHas # "nothing" /\ path # NoTenant
    BY <1>1, <1>2, <1>10, ContextAssumption DEF Passed
  <2>2. Requests!FromPath
    BY <1>3, <1>10
  <2>3. CASE query = NoTenant /\ path # Stranger
    BY <1>8, <1>10, <2>1, <2>2, <2>3 DEF Requests!FromPath
  <2>4. CASE query # NoTenant
    BY <1>6, <2>2, <2>4 DEF Requests!FromPath
  <2>5. CASE query = NoTenant /\ path = Stranger
    BY <1>6, <2>2, <2>5 DEF Requests!FromPath
  <2> QED
    BY <2>3, <2>4, <2>5
\* Behind the layers of the tenant it does not change.
<1>11. ASSUME h \notin {"query", "path"} PROVE ws \cap {"query", "path"} = {}
  BY <1>2, <1>4, <1>11, Ranks
<1>12. ASSUME Requests!Enter, UNCHANGED <<tenant, authz>>, h \in {"pass_tenant", "pass_resources", "require"},
              h = "require" => route.require = None \/ Allowed
       PROVE  RequestInv'
  <2>1. ws \cap {"query", "path"} = {} /\ (ws \ {h}) \cap {"query", "path"} = {}
    BY <1>11, <1>12
  <2>2. "auth" \in ws \ {h} => h # "require"
    BY <1>2, Ranks
  <2>3. Allowed' <=> Allowed
    BY <1>0, <1>12 DEF Allowed, Requests!InContext, Requests!IsSuperuser, Requests!AuthorizedResources
  <2>4. Requests!InContext' = Requests!InContext
    BY <1>12 DEF Requests!InContext
  <2>5. route.require # None /\ "require" \notin ws \ {h} => Allowed
    BY <1>1, <1>12 DEF Passed
  <2>6. Passed(ws \ {h})'
    BY <1>0, <1>1, <1>7, <1>12, <2>1, <2>2, <2>3, <2>4, <2>5 DEF Passed, Requests!ClaimHasTenant
  <2> QED
    BY <1>5, <1>12, <2>6
<1>13. CASE h = "pass_tenant"
  <2>1. Requests!PassTenant
    BY <1>3, <1>13
  <2>2. Requests!Respond(404) \/ (Requests!Enter /\ UNCHANGED <<tenant, authz>>)
    BY <2>1 DEF Requests!PassTenant
  <2> QED
    BY <1>6, <1>12, <1>13, <2>2
<1>14. CASE h = "auth"
  <2>1. authz = Unset /\ (route.require # None => "require" \in ws)
    BY <1>1, <1>2, <1>14 DEF Passed
  <2>2. CASE Requests!Respond(401)
    BY <1>6, <2>2
  <2>3. ASSUME NEW claim \in Requests!Claims, NEW outcome, NEW new,
               new = [claim |-> claim, expiration |-> 1],
               outcome = IF Requests!InContext THEN Requests!RequireTenantAccess(new, now, tenant) ELSE "ok",
               IF outcome = "ok" THEN Requests!Enter /\ authz' = new /\ UNCHANGED tenant
                                 ELSE Requests!Answer(outcome)
        PROVE  RequestInv'
    <3>1. outcome \in Outcomes
      BY <2>3, RequireOutcomes DEF Outcomes
    <3>2. CASE outcome # "ok"
      BY <1>0, <2>3, <3>1, <3>2, AnsweredStep
    <3>3. CASE outcome = "ok"
      <4>1. Requests!Enter /\ authz' = new /\ tenant' = tenant
        BY <2>3, <3>3
      <4>2. new # Unset /\ new.claim = claim
        BY <2>3, ContextAssumption
      <4>3. Requests!InContext => Requests!ClaimHasTenant(claim, tenant)
        BY <2>3, <3>3, <4>2, RequireOutcomes
      <4>4. /\ (Requests!InContext)' = Requests!InContext
            /\ Requests!ClaimHasTenant(authz.claim, tenant)' = Requests!ClaimHasTenant(claim, tenant)
        BY <4>1, <4>2 DEF Requests!InContext, Requests!ClaimHasTenant, Requests!IsSuperuser,
                          Requests!AuthorizedResources
      <4>5. (ws \ {h}) \cap {"query", "path", "auth"} = {} /\ ws \cap {"query", "path"} = {}
        BY <1>11, <1>14
      <4>6. route.require # None => "require" \in ws \ {h}
        BY <1>14, <2>1
      <4>7. Passed(ws \ {h})'
        BY <1>0, <1>1, <1>7, <1>14, <4>1, <4>2, <4>3, <4>4, <4>5, <4>6 DEF Passed
      <4> QED
        BY <1>5, <4>1, <4>7
    <3> QED
      BY <3>2, <3>3
  <2>4. Requests!AuthorizeHandler
    BY <1>3, <1>14
  <2> QED
    BY <2>2, <2>3, <2>4 DEF Requests!AuthorizeHandler
<1>15. CASE h = "pass_resources"
  <2>1. Requests!PassResources
    BY <1>3, <1>15
  <2>2. CASE authz = Unset
    BY <1>12, <1>15, <2>1, <2>2 DEF Requests!PassResources
  <2>3. CASE authz # Unset
    BY <1>0, <1>12, <1>15, <2>1, <2>3, RequireOutcomes, AnsweredStep DEF Requests!PassResources
  <2> QED
    BY <2>2, <2>3
<1>16. CASE h = "require"
  <2>1. Requests!RequireDeclared
    BY <1>3, <1>16
  <2>2. CASE authz = Unset
    BY <1>6, <2>1, <2>2 DEF Requests!RequireDeclared
  <2>3. CASE authz # Unset /\ route.require = "resource"
    <3> DEFINE outcome == Requests!RequireResourceAccess(authz, now, Resource, Requests!Context, "all")
    <3>1. Requests!Answer(outcome) /\ outcome \in Outcomes
      BY <2>1, <2>3, RequireOutcomes DEF Requests!RequireDeclared
    <3>2. outcome = "ok" => Resource # {}
                 /\ Requests!ClaimHasResources(authz.claim, Resource, Requests!Context, "all")
      BY RequireOutcomes
    <3>3. Requests!ClaimHasResources(authz.claim, Resource, Requests!Context, "all")
             => \/ Requests!IsSuperuser(authz.claim)
                \/ Resource \subseteq Requests!AuthorizedResources(authz.claim, Requests!Context)
      BY DEF Requests!ClaimHasResources
    <3>4. LET scope == IF Requests!InContext THEN tenant ELSE "*"
          IN  Requests!AuthorizedResources(authz.claim, Requests!Context)
                = IF scope \in DOMAIN authz.claim THEN authz.claim[scope] ELSE {}
      BY DEF Requests!AuthorizedResources, Requests!Context, Requests!InContext
    <3>5. outcome = "ok" => Allowed
      BY <2>3, <3>2, <3>3, <3>4 DEF Allowed
    <3> HIDE DEF outcome
    <3> QED
      BY <1>0, <1>12, <1>16, <3>1, <3>5, AnsweredStep
  <2>4. CASE authz # Unset /\ route.require = "superuser"
    <3> DEFINE outcome == Requests!RequireSuperuserAccess(authz, now)
    <3>1. Requests!Answer(outcome) /\ outcome \in Outcomes
      BY <2>1, <2>4, RequireOutcomes DEF Requests!RequireDeclared
    <3>2. outcome = "ok" => Allowed
      BY <2>4, RequireOutcomes DEF Allowed
    <3> HIDE DEF outcome
    <3> QED
      BY <1>0, <1>12, <1>16, <3>1, <3>2, AnsweredStep
  <2>5. route.require \in {None, "resource", "superuser"}
    BY <1>1 DEF Passed, Requests!Route, Requests!Routes
  <2>6. route.require # None
    BY <1>1, <1>16 DEF Passed
  <2> QED
    BY <2>2, <2>3, <2>4, <2>5, <2>6
<1>17. CASE h = "handler"
  <2>1. Requests!Respond(200)
    BY <1>3, <1>17
  <2>2. ws \ {h} = {}
    <3>1. ASSUME NEW w \in ws \ {h} PROVE FALSE
      <4>1. w \in Wrappers /\ Rank["handler"] < Rank[w]
        BY <1>1, <1>2, <1>17, LenProperties DEF Layered, Requests!Range
      <4> QED
        BY <4>1, Ranks
    <3> QED
      BY <3>1
  <2>3. UNCHANGED <<tenant, authz>> /\ stage' = "ended"
    BY <2>1 DEF Requests!Respond
  <2>4. Requests!ServedAreEntitled'
    BY <1>0, <1>1, <1>7, <1>17, <2>2, <2>3
    DEF Passed, Allowed, Requests!ServedAreEntitled, Requests!InContext, Requests!ClaimHasTenant,
        Requests!IsSuperuser, Requests!AuthorizedResources
  <2> QED
    BY <1>0, <2>3, <2>4 DEF RequestInv
<1> QED
  BY <1>4, <1>9, <1>10, <1>13, <1>14, <1>15, <1>16, <1>17, Ranks

\* Two sequences of one wrapper each, one behind the other.
LEMMA Pairs ==
  ASSUME NEW a, NEW b
  PROVE  <<a>> \o <<b>> = <<a, b>> /\ Append(<<a>>, b) = <<a, b>>
<1>0. PICK S : a \in S /\ b \in S
  <2>1. a \in {a, b} /\ b \in {a, b}
    OBVIOUS
  <2> QED
    BY <2>1
<1>1. <<a>> \in Seq(S) /\ <<b>> \in Seq(S) /\ <<a, b>> \in Seq(S)
  BY <1>0
<1>2. Len(<<a, b>>) = 2 /\ <<a, b>>[1] = a /\ <<a, b>>[2] = b
  OBVIOUS
<1>3. ASSUME NEW s \in Seq(S), Len(s) = 2, s[1] = a, s[2] = b
      PROVE  s = <<a, b>>
  <2>1. \A i \in 1..Len(s) : i = 1 \/ i = 2
    BY <1>3
  <2>2. \A i \in 1..Len(s) : s[i] = <<a, b>>[i]
    BY <1>2, <1>3, <2>1
  <2> QED
    BY <1>1, <1>2, <1>3, <2>2, SeqEqual
<1>4. /\ <<a>> \o <<b>> \in Seq(S) /\ Len(<<a>> \o <<b>>) = 2
      /\ (<<a>> \o <<b>>)[1] = a /\ (<<a>> \o <<b>>)[2] = b
  BY <1>0, <1>1, ConcatProperties
<1>5. /\ Append(<<a>>, b) \in Seq(S) /\ Len(Append(<<a>>, b)) = 2
      /\ Append(<<a>>, b)[1] = a /\ Append(<<a>>, b)[2] = b
  BY <1>0, <1>1, AppendProperties
<1> QED
  BY <1>3, <1>4, <1>5

LEMMA RequestStep == RequestInv /\ [Requests!Next]_requestVars => RequestInv'
<1> SUFFICES ASSUME RequestInv, [Requests!Next]_requestVars PROVE RequestInv'
  OBVIOUS
<1>1. onStartup \in Startups /\ (stage # "ended" => status = 0) /\ (stage = "set-up" => authz = Unset)
  BY DEF RequestInv
<1>2. ASSUME stage = "set-up", stage' \in {"set-up", "failed"}, onStartup' \in Startups,
             UNCHANGED <<tenant, authz, status>>
      PROVE  RequestInv'
  BY <1>1, <1>2 DEF RequestInv, Requests!ServedAreEntitled
<1>3. ASSUME NEW strictly \in BOOLEAN, Requests!InstallTenant(strictly)
      PROVE  onStartup' \in Startups /\ stage' \in {stage, "failed"}
  <2>1. CASE Requests!Installed("tenant")
    BY <1>1, <1>3, <2>1 DEF Requests!InstallTenant
  <2>2. CASE ~Requests!Installed("tenant")
    <3>1. onStartup \in {<<>>, <<"auth">>}
      BY <1>1, <2>2 DEF Startups, Requests!Installed, Requests!Range
    <3>2. onStartup' = Append(onStartup, "tenant") /\ stage' = stage
      BY <1>3, <2>2 DEF Requests!InstallTenant
    <3>3. CASE onStartup = <<>>
      <4>1. Append(<<>>, "tenant") = <<"tenant">>
        OBVIOUS
      <4> QED
        BY <3>2, <3>3, <4>1 DEF Startups
    <3>4. CASE onStartup = <<"auth">>
      <4>1. Append(<<"auth">>, "tenant") = <<"auth", "tenant">>
        BY Pairs
      <4> QED
        BY <3>2, <3>4, <4>1 DEF Startups
    <3> QED
      BY <3>1, <3>3, <3>4
  <2> QED
    BY <2>1, <2>2
<1>4. ASSUME Requests!InstallAuth PROVE onStartup' \in Startups /\ stage' \in {stage, "failed"}
  <2>1. CASE Requests!Installed("auth")
    BY <1>1, <1>4, <2>1 DEF Requests!InstallAuth
  <2>2. CASE ~Requests!Installed("auth")
    <3>1. onStartup \in {<<>>, <<"tenant">>}
      BY <1>1, <2>2 DEF Startups, Requests!Installed, Requests!Range
    <3>2. CASE onStartup = <<>>
      <4>1. ~Requests!Installed("tenant")
        BY <1>1, <3>2, StartupFacts
      <4>2. Append(<<>>, "auth") = <<"auth">>
        OBVIOUS
      <4> QED
        BY <1>4, <2>2, <3>2, <4>1, <4>2 DEF Requests!InstallAuth, Startups
    <3>3. CASE onStartup = <<"tenant">>
      <4>1. Requests!Installed("tenant")
        BY <1>1, <3>3, StartupFacts
      <4>2. <<"auth">> \o <<"tenant">> = <<"auth", "tenant">>
        BY Pairs
      <4> QED
        BY <1>4, <2>2, <3>3, <4>1, <4>2 DEF Requests!InstallAuth, Startups
    <3> QED
      BY <3>1, <3>2, <3>3
  <2> QED
    BY <2>1, <2>2
<1>5. ASSUME stage = "set-up", UNCHANGED <<now, tenant, authz, status>>,
             Requests!CreateContainer \/ Requests!CreateAuthService \/ Requests!Install
               \/ \E strictly, auto \in BOOLEAN : Requests!CreateTenantService(strictly, auto)
      PROVE  RequestInv'
  <2>1. CASE Requests!CreateContainer
    BY <1>1, <1>2, <1>5, <2>1 DEF Requests!CreateContainer
  <2>2. CASE Requests!CreateAuthService
    BY <1>1, <1>2, <1>4, <1>5, <2>2 DEF Requests!CreateAuthService
  <2>3. CASE Requests!Install
    BY <1>1, <1>2, <1>3, <1>4, <1>5, <2>3 DEF Requests!Install
  <2>4. ASSUME NEW strictly \in BOOLEAN, NEW auto \in BOOLEAN,
               Requests!CreateTenantService(strictly, auto)
        PROVE  RequestInv'
    BY <1>1, <1>2, <1>3, <1>5, <2>4 DEF Requests!CreateTenantService
  <2> QED
    BY <1>5, <2>1, <2>2, <2>3, <2>4
<1>6. ASSUME NEW r \in Requests!Route, Requests!Start(r), stage = "set-up",
             UNCHANGED <<now, tenant, authz, status>>
      PROVE  RequestInv'
  <2>1. route' = r /\ onStartup' = onStartup /\ authz = Unset /\ authz' = Unset /\ status' = 0
    BY <1>1, <1>6 DEF Requests!Start
  <2>2. CASE stage' = "failed"
    BY <1>1, <1>2, <1>6, <2>1, <2>2
  <2>3. CASE stage' # "failed"
    <3>1. /\ stage' = "request" /\ layers' = Requests!Wrapped(r)
          /\ path' \in IF r.pathHas = "nothing" THEN {NoTenant} ELSE TenantId \cup {Stranger}
      BY <1>6, <2>3 DEF Requests!Start
    <3>2. PICK ws : ws = WrappedSet(r)
      OBVIOUS
    <3>3. Layered(layers, ws)'
      <4>1. Layered(layers', ws)
        BY <1>1, <3>1, <3>2, WrappedLayers
      <4> QED
        BY <4>1 DEF Layered
    <3>4. \A w : Requests!Guards(w, route)' <=> Requests!Guards(w, r)
      BY <2>1 DEF Requests!Guards, Requests!Installed
    <3>5. /\ "handler" \in ws
          /\ "query" \in ws => r.pathHas = "nothing"
          /\ "path" \in ws => r.pathHas # "nothing"
          /\ "require" \in ws <=> r.require # None
          /\ Requests!Guards("tenant", r) => ws \cap {"query", "path"} # {}
          /\ Requests!Guards("auth", r) /\ ~r.noauth => "auth" \in ws
      BY <3>2 DEF WrappedSet, DeclaredSet, AuthSet, TenantSet, Requests!Guards
    <3>6. Passed(ws)'
      BY <2>1, <3>1, <3>4, <3>5 DEF Passed
    <3> QED
      BY <1>1, <2>1, <3>1, <3>3, <3>6 DEF RequestInv, Requests!ServedAreEntitled
  <2> QED
    BY <2>2, <2>3
<1>7. CASE Requests!Layer
  BY <1>7, LayerStep
<1>8. ASSUME UNCHANGED <<stage, onStartup, route, layers, query, path, tenant, authz, status>>
      PROVE  RequestInv'
  <2>1. \A w : Requests!Guards(w, route)' <=> Requests!Guards(w, route)
    BY <1>8 DEF Requests!Guards, Requests!Installed
  <2>2. Requests!InContext' = Requests!InContext
    BY <1>8 DEF Requests!InContext
  <2>3. Requests!ServedAreEntitled'
    BY <1>8, <2>1, <2>2 DEF RequestInv, Requests!ServedAreEntitled, Requests!ClaimHasTenant,
       Requests!IsSuperuser, Requests!AuthorizedResources
  <2>4. ASSUME NEW ws, Layered(layers, ws), Passed(ws) PROVE Layered(layers, ws)' /\ Passed(ws)'
    BY <1>8, <2>1, <2>2, <2>4 DEF Layered, Passed, Allowed, Requests!ClaimHasTenant,
       Requests!IsSuperuser, Requests!AuthorizedResources
  <2> QED
    BY <1>8, <2>3, <2>4 DEF RequestInv
<1>9. CASE Requests!Pass
  BY <1>8, <1>9 DEF Requests!Pass, Requests!setupVars
<1>10. CASE UNCHANGED requestVars
  BY <1>8, <1>10 DEF requestVars
<1> QED
  BY <1>5, <1>6, <1>7, <1>9, <1>10 DEF Requests!Next

LEMMA RequestInit == Requests!Init => RequestInv
<1> SUFFICES ASSUME Requests!Init PROVE RequestInv
  OBVIOUS
<1>1. /\ stage = "set-up" /\ onStartup = <<>> /\ status = 0 /\ authz = Unset
  BY DEF Requests!Init
<1> QED
  BY <1>1 DEF RequestInv, Startups, Requests!ServedAreEntitled

\* The methods that answer and those that raise are of one mind, whatever the claims.
LEMMA AnswersDoAgree == Requests!AnswersAgree
<1> SUFFICES ASSUME authz # Unset
             PROVE  /\ Requests!HasSuperuserAccess(authz, now)
                          <=> Requests!RequireSuperuserAccess(authz, now) = "ok"
                    /\ \A match \in {"all", "any"}, rs \in (SUBSET Resource) \ {{}} :
                         Requests!HasResourceAccess(authz, now, rs, Requests!Context, match)
                           <=> Requests!RequireResourceAccess(authz, now, rs, Requests!Context, match) = "ok"
                    /\ \A x \in TenantId : Requests!HasTenantAccess(authz, now, x)
                           <=> Requests!RequireTenantAccess(authz, now, x) = "ok"
                    /\ Requests!IsValid(authz, now) =>
                         \A r \in Requests!PassedResources(authz, now, Requests!Context) :
                           Requests!HasResourceAccess(authz, now, {r}, Requests!Context, "all")
  BY DEF Requests!AnswersAgree
<1>1. ASSUME NEW access \in BOOLEAN
      PROVE  Requests!Require(authz, now, access) = "ok" <=> Requests!IsValid(authz, now) /\ access
  BY DEF Requests!Require, Requests!RequireValid
<1>2. Requests!IsSuperuser(authz.claim) \in BOOLEAN
  BY DEF Requests!IsSuperuser
<1>3. \A x : Requests!ClaimHasTenant(authz.claim, x) \in BOOLEAN
  BY DEF Requests!ClaimHasTenant
<1>4. \A rs, x, match : Requests!ClaimHasResources(authz.claim, rs, x, match) \in BOOLEAN
  BY DEF Requests!ClaimHasResources
<1>5. Requests!HasSuperuserAccess(authz, now) <=> Requests!RequireSuperuserAccess(authz, now) = "ok"
  BY <1>1, <1>2 DEF Requests!HasSuperuserAccess, Requests!RequireSuperuserAccess
<1>6. ASSUME NEW match \in {"all", "any"}, NEW rs \in (SUBSET Resource) \ {{}}
      PROVE  Requests!HasResourceAccess(authz, now, rs, Requests!Context, match)
               <=> Requests!RequireResourceAccess(authz, now, rs, Requests!Context, match) = "ok"
  BY <1>1, <1>4 DEF Requests!HasResourceAccess, Requests!RequireResourceAccess
<1>7. ASSUME NEW x \in TenantId
      PROVE  Requests!HasTenantAccess(authz, now, x) <=> Requests!RequireTenantAccess(authz, now, x) = "ok"
  BY <1>1, <1>3, ContextAssumption DEF Requests!HasTenantAccess, Requests!RequireTenantAccess
<1>8. ASSUME Requests!IsValid(authz, now),
             NEW r \in Requests!PassedResources(authz, now, Requests!Context)
      PROVE  Requests!HasResourceAccess(authz, now, {r}, Requests!Context, "all")
  <2>1. CASE r \in Requests!AuthorizedResources(authz.claim, Requests!Context)
    BY <1>8, <2>1 DEF Requests!HasResourceAccess, Requests!ClaimHasResources
  <2>2. CASE Requests!HasSuperuserAccess(authz, now)
    BY <1>8, <2>2 DEF Requests!HasResourceAccess, Requests!ClaimHasResources, Requests!HasSuperuserAccess
  <2> QED
    BY <1>8, <2>1, <2>2 DEF Requests!PassedResources
<1> QED
  BY <1>5, <1>6, <1>7, <1>8
-----------------------------------------------------------------------------
(* The composition.                                                        *)

WebInv == /\ AuthInv /\ RenewInv
          /\ TenantsInv /\ AuthenticationInv /\ RequestInv /\ CallsInv

LEMMA WebInvInit == WebInit => WebInv
  BY AuthInvInit, RenewInit, TenantsInit, AuthenticationInit, RequestInit, CallsInit
  DEF WebInit, WebInv

LEMMA WebInvStep == WebInv /\ [WebNext /\ UNCHANGED part]_webVars => WebInv'
<1> SUFFICES ASSUME WebInv, [WebNext /\ UNCHANGED part]_webVars PROVE WebInv'
  OBVIOUS
<1>1. AuthInv' /\ RenewInv'
  BY PartSteps, AuthInvStep, RenewStep DEF WebInv
<1>2. TenantsInv'
  BY PartSteps, TenantsStep DEF WebInv
<1>3. AuthenticationInv'
  BY PartSteps, AuthenticationStep DEF WebInv
<1>4. RequestInv'
  BY PartSteps, RequestStep DEF WebInv
<1>5. CallsInv'
  <2>1. Calls!TypeOK' /\ ResolveInv'
    BY PartSteps, CallsTypeStep, ResolveStep DEF WebInv, CallsInv
  <2> QED
    BY <2>1 DEF CallsInv
<1> QED
  BY <1>1, <1>2, <1>3, <1>4, <1>5 DEF WebInv

LEMMA WebInvAlways == WebSpec => []WebInv
  BY WebInvInit, WebInvStep, PTL DEF WebSpec

\* Every variable of the keys keeps its type (internal_auth.py).
THEOREM AuthTypeCorrect == WebSpec => []TypeOK
<1>1. WebInv => TypeOK
  BY DEF WebInv, AuthInv
<1> QED
  BY <1>1, WebInvAlways, PTL

\* Between its tasks a service signs with its private key, and trusts the public key of the
\* same pair unless it could connect before initialize(): _prepare_keys_and_tokens() changes
\* all of them or none (internal_auth.py:112-121).
THEOREM OneKeyHolds == WebSpec => []OneKey
<1>1. WebInv => OneKey
  BY DEF WebInv, AuthInv, OneKeyAlways, OneKey
<1> QED
  BY <1>1, WebInvAlways, PTL

\* Whatever keys come and go, whatever is kept of earlier requests, in whatever order containers
\* and services were made and installed: who is accepted has a token that the server has signed,
\* and who is served has access to the tenant of the URL and what the handler requires there
\* (auth/service.py, id_token.py, decorator.py).
THEOREM ServedEntitled == WebSpec => []ServedAreEntitled
<1>1. WebInv => ServedAreEntitled
  BY DEF WebInv, AuthenticationInv, AnswerInv, RequestInv, ServedAreEntitled
<1> QED
  BY <1>1, WebInvAlways, PTL

\* A service has renewed its token in time after each of its tasks, a tenant that a list has had
\* since it was asked for is not refused, and neither is a valid token of the newest key, but for
\* calls that fail (internal_auth.py:120, tenant/service.py:119-146, id_token.py:138-152).
THEOREM EntitledServed == WebSpec => []EntitledAreServed
<1>1. WebInv => EntitledAreServed
  <2>1. WebInv => Renewed
    BY DEF WebInv, RenewInv
  <2>2. WebInv => Tenancy!KnownIsFound
    BY DEF WebInv, TenantsInv, OwedInv, Tenancy!KnownIsFound
  <2>3. WebInv => Authenticating!SignedAreAccepted
    BY DEF WebInv, AuthenticationInv, AnswerInv
  <2> QED
    BY <2>1, <2>2, <2>3 DEF EntitledAreServed
<1> QED
  BY <1>1, WebInvAlways, PTL

\* Readiness is announced exactly when every provider of tenants is ready, the methods that
\* answer agree with those that raise, and a call reaches the hosts that the name has and that
\* resolve (tenant/service.py:187-213, authorization.py, api/discovery.py:122-194, 458-500).
THEOREM ToldTrue == WebSpec => []ToldIsTrue
<1>1. WebInv => ToldIsTrue
  <2>1. WebInv => Tenancy!ReadinessTold
    BY DEF WebInv, TenantsInv, ReadyInv
  <2>2. WebInv => Calls!CallsArrive
    BY CallsImply DEF WebInv
  <2> QED
    BY <2>1, <2>2, AnswersDoAgree DEF ToldIsTrue
<1> QED
  BY <1>1, WebInvAlways, PTL
=============================================================================
