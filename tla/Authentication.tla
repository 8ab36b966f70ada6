--------------------------- MODULE Authentication ---------------------------
(***************************************************************************)
(* How a request comes to its Authorization (asab/web/auth/service.py and  *)
(* providers/).  The providers are asked one after the other.  A provider  *)
(* verifies an ID token with the public keys it trusts; when it has no key *)
(* for the token, all key providers read theirs anew, and it tries again.  *)
(* Requests overlap at every reading.  An Authorization is kept for the    *)
(* next request with the same token, until it has expired.                 *)
(*                                                                         *)
(* A token is an ID token, or an opaque one that the introspection turns   *)
(* into an ID token.  Keys are numbered in the order in which the          *)
(* authorization server takes them; 0 is the key of somebody else.         *)
(***************************************************************************)
EXTENDS Naturals, Sequences

CONSTANTS
  Caller,         \* tasks of requests
  Boot,           \* one of them reads the keys at the start, before its first request
  MaxKey,         \* bound on the keys of the authorization server
  Lifetime,       \* of a token
  Leeway,         \* jwcrypto accepts a token so long after its expiration
  MaxClock,       \* bound on the clock
  MaxRefusals     \* bound on calls that fail

VARIABLES
  mode,           \* auth.enabled: "production", "development" or "mock"
  clock,
  serverKey,      \* the key that the authorization server signs with and publishes
  publicKeys,     \* PublicKeySet of the UrlPublicKeyProvider
  trusted,        \* TrustedJwkSet of the providers: both collect the same keys at once
  authorizations, \* Authorizations of each provider: the ID token that is kept of a token
  request,        \* where each task is
  answer,         \* history: how the last step answered a request
  entitled,       \* history: the tasks whose token has been signed by the key of the server,
                  \* and valid, since they began, and whose calls have not failed
  refused         \* bounded failures

authVars == <<mode, clock, serverKey, publicKeys, trusted, authorizations, request, answer,
              entitled, refused>>

IdToken == [key : 0..MaxKey, expiration : {Lifetime}]
AccessToken == [session : {"open", "closed"}]
Opaque(token) == "session" \in DOMAIN token

\* Type of the providers in the order in which they are asked.
Asked == CASE mode = "production"  -> <<"id_token">>
           [] mode = "development" -> <<"id_token", "access_token">>
           [] mode = "mock"        -> <<"mock", "id_token">>

NoAnswer == [kind |-> "none"]
Idle == [at |-> "idle"]
\* The task is at the provider n with its token; of that it has the ID token id.
Waits(at, token, id, n) == [at |-> at, token |-> token, id |-> id, n |-> n]

Init ==
  /\ mode \in {"production", "development", "mock"}
  /\ clock = 0 /\ serverKey = 1
  /\ publicKeys = {} /\ trusted = {}
  /\ authorizations = [p \in {"id_token", "access_token"} |-> {}]
  /\ request = [t \in Caller |-> IF t = Boot THEN Waits("reload", Boot, Boot, 0) ELSE Idle]
  /\ answer = NoAnswer /\ entitled = {} /\ refused = 0
-----------------------------------------------------------------------------
\* Time passes, and the server takes another key.

Pass ==
  /\ clock < MaxClock /\ clock' = clock + 1
  /\ entitled' = IF clock' < Lifetime THEN entitled ELSE {}
  /\ answer' = NoAnswer
  /\ UNCHANGED <<mode, serverKey, publicKeys, trusted, authorizations, request, refused>>

Rotate ==
  /\ serverKey < MaxKey /\ serverKey' = serverKey + 1
  /\ entitled' = {}
  /\ answer' = NoAnswer
  /\ UNCHANGED <<mode, clock, publicKeys, trusted, authorizations, request, refused>>
-----------------------------------------------------------------------------
Becomes(t, r) == request' = [request EXCEPT ![t] = r]
Ends(t) == Becomes(t, Idle)

Proceeds(t, r) == Becomes(t, r) /\ answer' = NoAnswer

Accept(t, id) == Ends(t) /\ answer' = [kind |-> "accepted", id |-> id, when |-> clock]

\* NotAuthenticatedError or another exception of the provider n: the next one is asked,
\* and after the last one the request is refused.
Reject(t, token, n) ==
  IF n < Len(Asked) THEN Proceeds(t, Waits("provider", token, token, n + 1))
  ELSE Ends(t) /\ answer' = [kind |-> "refused", entitled |-> t \in entitled']


\* An Authorization of an earlier request with the token: it must not have expired.
Kept(t, p, k, n) ==
  IF clock < k.id.expiration
    THEN Accept(t, k.id) /\ UNCHANGED authorizations
    ELSE Reject(t, k.token, n) /\ authorizations' = [authorizations EXCEPT ![p] = @ \ {k}]

\* get_id_token_claims() with a key for the ID token: then it must not have expired for
\* jwcrypto.  The Authorization is made and kept.
Verified(t, p, token, id, n) ==
  IF clock < id.expiration + Leeway
    THEN Accept(t, id) /\ authorizations' = [authorizations EXCEPT ![p] =
                                               @ \cup {[token |-> token, id |-> id]}]
    ELSE Reject(t, token, n) /\ UNCHANGED authorizations

\* Mutant of FirstTry: a token that no trusted key has signed is refused.
FirstTryIsLast(t, p, token, id, n) ==
  IF id.key \in trusted THEN Verified(t, p, token, id, n)
  ELSE Reject(t, token, n) /\ UNCHANGED authorizations

\* _get_claims_from_id_token(): without a key for the token the keys are read anew.
FirstTry(t, p, token, id, n) ==
  IF id.key \in trusted THEN Verified(t, p, token, id, n)
  ELSE Proceeds(t, Waits("reload", token, id, n)) /\ UNCHANGED authorizations

\* authorize() of the provider n.
Authorize(t, token, n) ==
  LET p == Asked[n] IN
  IF p = "mock" THEN Accept(t, token) /\ UNCHANGED authorizations
  ELSE IF \E k \in authorizations[p] : k.token = token
    THEN \E k \in authorizations[p] : k.token = token /\ Kept(t, p, k, n)
  ELSE IF p = "access_token"
    THEN Proceeds(t, Waits("introspect", token, token, n)) /\ UNCHANGED authorizations
  ELSE IF Opaque(token) THEN Reject(t, token, n) /\ UNCHANGED authorizations
  ELSE FirstTry(t, p, token, token, n)

Entitled(token) ==
  IF Opaque(token) THEN /\ token.session = "open" /\ mode = "development"
                        /\ \A k \in authorizations["access_token"] :
                              k.token = token => clock < k.id.expiration
  ELSE token.key = serverKey /\ clock < token.expiration

\* authorize_request() with one of the tokens there are: those that the server has signed,
\* somebody else's, and opaque ones.
Begin(t, token) ==
  /\ request[t] = Idle
  /\ entitled' = IF Entitled(token) THEN entitled \cup {t} ELSE entitled \ {t}
  /\ Authorize(t, token, 1)
  /\ UNCHANGED <<mode, clock, serverKey, publicKeys, trusted, refused>>

NextProvider(t) ==
  /\ request[t].at = "provider"
  /\ UNCHANGED entitled
  /\ Authorize(t, request[t].token, request[t].n)
  /\ UNCHANGED <<mode, clock, serverKey, publicKeys, trusted, refused>>

Refusal(t) == /\ refused < MaxRefusals /\ refused' = refused + 1
              /\ entitled' = entitled \ {t}

\* The introspection answers with an ID token of the open session of an opaque token.
Introspect(t) ==
  LET r == request[t] IN
  /\ r.at = "introspect"
  /\ UNCHANGED entitled
  /\ IF Opaque(r.token) /\ r.token.session = "open"
       THEN FirstTry(t, "access_token", r.token,
                     [key |-> serverKey, expiration |-> clock + Lifetime], r.n)
       ELSE Reject(t, r.token, r.n) /\ UNCHANGED authorizations
  /\ UNCHANGED <<mode, clock, serverKey, publicKeys, trusted, refused>>

IntrospectFails(t) ==
  /\ request[t].at = "introspect" /\ Refusal(t)
  /\ Reject(t, request[t].token, request[t].n)
  /\ UNCHANGED <<mode, clock, serverKey, publicKeys, trusted, authorizations>>
-----------------------------------------------------------------------------
\* reload_keys() of the UrlPublicKeyProvider: keys is what it has got.
Fetched(t, keys) ==
  LET r == request[t] IN
  /\ r.at = "reload"
  /\ Proceeds(t, [at |-> "answered", token |-> r.token, id |-> r.id, n |-> r.n, keys |-> keys])

\* The server answers with its keys, ...
FetchJwks(t) ==
  /\ Fetched(t, {serverKey})
  /\ UNCHANGED <<mode, clock, serverKey, publicKeys, trusted, authorizations, entitled, refused>>

\* ... or with nothing that can be used, or not at all.
FetchFails(t) ==
  /\ Fetched(t, {}) /\ Refusal(t)
  /\ UNCHANGED <<mode, clock, serverKey, publicKeys, trusted, authorizations>>

\* reload_keys() raises: the exception is that of the provider.
FetchRaises(t) ==
  /\ request[t].at = "reload" /\ Refusal(t)
  /\ IF request[t].token = Boot THEN Proceeds(t, Idle)
     ELSE Reject(t, request[t].token, request[t].n)
  /\ UNCHANGED <<mode, clock, serverKey, publicKeys, trusted, authorizations>>

\* _set_keys() publishes PublicKey.updated!, upon which all providers collect the keys of all
\* key providers; then the second and last try.
SecondTry(t) ==
  LET r == request[t] IN
  /\ r.at = "answered"
  /\ publicKeys' = IF r.keys = {} THEN publicKeys ELSE r.keys
  /\ trusted' = publicKeys'
  /\ UNCHANGED entitled
  /\ IF r.token = Boot THEN Proceeds(t, Idle) /\ UNCHANGED authorizations
     ELSE IF r.id.key \in trusted' THEN Verified(t, Asked[r.n], r.token, r.id, r.n)
     ELSE Reject(t, r.token, r.n) /\ UNCHANGED authorizations
  /\ UNCHANGED <<mode, clock, serverKey, refused>>

\* Application.housekeeping!: what has expired is not kept.
DeleteInvalidAuthorizations ==
  LET valid(k) == clock < k.id.expiration IN
  /\ \E p \in DOMAIN authorizations : \E k \in authorizations[p] : ~valid(k)
  /\ authorizations' = [p \in DOMAIN authorizations |-> {k \in authorizations[p] : valid(k)}]
  /\ answer' = NoAnswer
  /\ UNCHANGED <<mode, clock, serverKey, publicKeys, trusted, request, entitled, refused>>

\* From one provider to the next nothing is awaited.
Awaits == \A t \in Caller : request[t].at # "provider"

Next ==
  \/ \E t \in Caller : NextProvider(t)
  \/ /\ Awaits
     /\ \/ Pass \/ Rotate \/ DeleteInvalidAuthorizations
        \/ \E t \in Caller :
             \/ \E token \in {id \in IdToken : id.key <= serverKey} \cup AccessToken : Begin(t, token)
             \/ Introspect(t) \/ IntrospectFails(t)
             \/ FetchJwks(t) \/ FetchFails(t) \/ FetchRaises(t) \/ SecondTry(t)

AuthenticationSpec == Init /\ [][Next]_authVars
-----------------------------------------------------------------------------
(* Properties.                                                             *)

\* Whatever keys come and go and whatever is kept: who is accepted has a token that the
\* server has signed, of the present key or an earlier one, and no older than jwcrypto allows;
\* unless authorization is a mock (service.py:130-190).
AcceptedAreSigned ==
  answer.kind = "accepted" /\ mode # "mock" => /\ answer.id.key \in 1..serverKey
                                                /\ answer.when < answer.id.expiration + Leeway

\* Whoever has a valid token of the present key, or an open session of which nothing is kept
\* that has expired, is accepted at the first request, though the service has not seen that key yet and older keys arrive for other
\* requests meanwhile, unless a call for this very request fails (id_token.py:137-153).
SignedAreAccepted == answer.kind = "refused" => ~answer.entitled
=============================================================================
