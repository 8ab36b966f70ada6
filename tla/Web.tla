-------------------------------- MODULE Web --------------------------------
(***************************************************************************)
(* Who may use a service over the web.  The keys with which the services   *)
(* of a cluster sign for each other, the tenants that a service knows,     *)
(* the authentication of requests, the way of a request through its        *)
(* wrappers, and its calls of other services share no state but what these *)
(* modules take as given: each is on its own here, the first one extended  *)
(* and the others as instances.                                            *)
(***************************************************************************)
EXTENDS InternalAuth

CONSTANTS
  Caller,                                                   \* tasks that ask the service
  TenantId, Configured, NoList, MaxMoves, MaxRefusals,      \* of Tenants
  Boot, MaxKey, TokenLifetime, TokenLeeway, MaxClock,       \* of Authentication
  NoTenant, Resource, Superuser, Stranger, Unset, None,     \* of WebRequests
  Instance, Service, NoToken                                \* of ServiceCalls

VARIABLES
  part,        \* the part that was chosen
  source, tenants, ready, isReady, announced, call, asks, denied, owed, moves, refusals,
  mode, clock, serverKey, publicKeys, trusted, authorizations, request, answer, entitled, refused,
  stage, containers, tenantService, authService, onStartup, strict, route, layers, query, path,
  now, tenant, authz, status,
  cache, readyEvent, resolvable, context, headers, callAt, hostname, toResolve, hosts, offered

Tenancy == INSTANCE Tenants
Authenticating == INSTANCE Authentication WITH
  Lifetime <- TokenLifetime, Leeway <- TokenLeeway
Requests == INSTANCE WebRequests
Calls == INSTANCE ServiceCalls

\* What is not there is none of what could be there, and a token lives for a while.
ASSUME TenantAssumption == Configured \subseteq TenantId
ASSUME TokenAssumption == /\ TokenLifetime \in Nat \ {0} /\ TokenLeeway \in Nat
                          /\ MaxKey \in Nat
                          /\ Boot \notin Authenticating!IdToken \cup Authenticating!AccessToken
ASSUME ContextAssumption ==
  /\ NoTenant \notin TenantId \cup {Stranger}
  /\ Unset \notin TenantId \cup {Stranger, NoTenant}
  /\ Unset \notin [claim : Requests!Claims, expiration : {1}]
  /\ None \notin {"resource", "superuser"}
ASSUME CallsAssumption == /\ Service \notin Instance
                          /\ NoToken \notin Instance \cup {Service} \cup Calls!Tokens

tenantVars == <<source, tenants, ready, isReady, announced, call, asks, denied, owed, moves,
                refusals>>
authVars == <<mode, clock, serverKey, publicKeys, trusted, authorizations, request, answer,
              entitled, refused>>
requestVars == <<stage, containers, tenantService, authService, onStartup, strict, route, layers,
                 query, path, now, tenant, authz, status>>
callVars == <<cache, readyEvent, resolvable, context, headers, callAt, hostname, toResolve,
              hosts, offered>>
webVars == <<part, vars, tenantVars, authVars, requestVars, callVars>>

WebInit ==
  /\ part \in {"keys", "tenants", "authentication", "requests", "calls"}
  /\ Init /\ Requests!Init
  /\ Tenancy!Init /\ (part = "tenants" \/ source = [p \in Tenancy!Remote |-> {}])
  /\ Calls!Init /\ (part = "calls" \/ (resolvable = {} /\ ~context.authz /\ ~context.request))
  /\ Authenticating!Init /\ (part = "authentication" \/ mode = "production")

WebNext ==
  \/ part = "keys" /\ Next /\ UNCHANGED <<tenantVars, authVars, requestVars, callVars>>
  \/ part = "tenants" /\ Tenancy!Next
     /\ UNCHANGED <<vars, authVars, requestVars, callVars>>
  \/ part = "authentication" /\ Authenticating!Next
     /\ UNCHANGED <<vars, tenantVars, requestVars, callVars>>
  \/ part = "requests" /\ Requests!Next
     /\ UNCHANGED <<vars, tenantVars, authVars, callVars>>
  \/ part = "calls" /\ Calls!Next
     /\ UNCHANGED <<vars, tenantVars, authVars, requestVars>>

\* The fairness of InternalAuth.
KeysFairness ==
  \A s \in Services :
    /\ WF_vars(part = "keys" /\ Initialize(s)) /\ WF_vars(part = "keys" /\ Connect(s))
    /\ WF_vars(part = "keys" /\ Tick(s)) /\ WF_vars(part = "keys" /\ Task(s))

WebSpec == WebInit /\ [][WebNext /\ UNCHANGED part]_webVars /\ KeysFairness
-----------------------------------------------------------------------------
(* Properties.  OneKey is checked under its own name.                      *)

\* All services agree on the key in the end (internal_auth.py:124-165).
KeysConverge == part = "keys" => Converges

\* Nobody is served who was not authenticated with a token of the server, or has no access to
\* the tenant of the URL, or lacks what the handler requires; in whatever order services were
\* installed, keys replaced and authorizations kept (auth/service.py, id_token.py).
ServedAreEntitled == Authenticating!AcceptedAreSigned /\ Requests!ServedAreEntitled

\* Who has a right to be served is: a service renews its own token in time, a tenant that is
\* on a list is found, and a token that was signed with a new key is accepted; but for calls
\* that fail (internal_auth.py:120, tenant/service.py:119-146, id_token.py:138-152).
EntitledAreServed == Renewed /\ Tenancy!KnownIsFound /\ Authenticating!SignedAreAccepted

\* What is said of tenants, authorizations and services is so, whichever way one asks: the
\* messages of readiness, the methods that answer and those that raise, and the hosts of a name
\* (tenant/service.py:187-213, authorization.py, api/discovery.py:122-194, 458-500).
ToldIsTrue == Tenancy!ReadinessTold /\ Requests!AnswersAgree /\ Calls!CallsArrive
=============================================================================
