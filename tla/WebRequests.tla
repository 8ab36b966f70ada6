----------------------------- MODULE WebRequests -----------------------------
(***************************************************************************)
(* From a request to its handler (asab/web/auth/service.py, decorator.py   *)
(* and asab/web/tenant/installer.py).  An application creates its web      *)
(* containers, TenantService and AuthService and installs them on a        *)
(* container, in the order it likes; when the container starts, each wraps *)
(* the handlers, and what is applied last sees a request first.            *)
(*                                                                         *)
(* One container with one route and one request is enough: what a request  *)
(* has in its context variables belongs to its task.  Which tenants are    *)
(* known and who is authenticated are left to Tenants and Authentication.  *)
(***************************************************************************)
EXTENDS Authorization, Sequences, Functions

CONSTANTS
  Stranger,       \* the name of a tenant that no provider knows
  Unset,          \* a context variable that is not set
  None            \* no service, no requirement

VARIABLES
  stage,          \* "set-up", "started", "failed", then those of the request
  containers,     \* number of web containers; ours is the first
  tenantService,  \* whether there is a TenantService
  authService,    \* whether there is an AuthService
  onStartup,      \* the installers of our container in the order in which they run
  strict,         \* whether that of the tenants is strict
  route,          \* the route of our container, which matters when it starts
  layers,         \* its handler with its wrappers, the outermost first
  query,          \* the request: its tenant in the path and in the query
  path,
  now,            \* 0, then 1, when tokens expire
  tenant, authz,  \* context variables of the request
  status          \* how the request ended

requestVars == <<stage, containers, tenantService, authService, onStartup, strict, route, layers,
                 query, path, now, tenant, authz, status>>
setupVars == <<containers, tenantService, authService, onStartup, strict, route, layers>>

\* What a handler declares.  "first" is a path that begins with "/{tenant}".  Installers pass
\* over OPTIONS routes and handlers that are no coroutines, and that of the tenants over the
\* paths of NO_TENANT_ROUTES as well (metrics, logs and documentation of an application).
Routes == [pathHas : {"first", "later", "nothing"}, allowNoTenant : BOOLEAN, noauth : BOOLEAN,
           exempt : {{}, {"tenant"}, {"tenant", "auth"}},
           args : SUBSET {"tenant", "resources"}, require : {None, "resource", "superuser"}]
\* @noauth refuses handlers that ask for the authorization.
Route == {r \in Routes : r.noauth => "resources" \notin r.args}
NoRoute == [pathHas |-> "nothing"]

Init ==
  /\ stage = "set-up" /\ containers = 0
  /\ tenantService = FALSE /\ authService = FALSE /\ strict = FALSE
  /\ onStartup = <<>> /\ layers = <<>> /\ route = NoRoute
  /\ query = NoTenant /\ path = NoTenant /\ now = 0
  /\ tenant = Unset /\ authz = Unset /\ status = 0
-----------------------------------------------------------------------------
(* Set-up.                                                                 *)

CreateContainer ==
  /\ containers < 2 /\ containers' = containers + 1
  /\ UNCHANGED <<stage, tenantService, authService, onStartup, strict>>

Installed(wrapper) == wrapper \in Range(onStartup)

\* TenantService.install(); a second time it raises RuntimeError.
InstallTenant(strictly) ==
  IF Installed("tenant") THEN stage' = "failed" /\ UNCHANGED <<onStartup, strict>>
  ELSE onStartup' = Append(onStartup, "tenant") /\ strict' = strictly /\ UNCHANGED stage

\* Mutant of InstallAuth: always the last one.
InstallAuthLast ==
  IF Installed("auth") THEN stage' = "failed" /\ UNCHANGED onStartup
  ELSE onStartup' = Append(onStartup, "auth") /\ UNCHANGED stage

\* AuthService.install(): before the wrapper of the tenants, which is to see requests first;
\* that is the only one there may be.
InstallAuth ==
  IF Installed("auth") THEN stage' = "failed" /\ UNCHANGED onStartup
  ELSE /\ onStartup' = IF Installed("tenant") THEN <<"auth">> \o onStartup
                                               ELSE Append(onStartup, "auth")
       /\ UNCHANGED stage

\* The constructor refuses to be the second; with exactly one container it installs itself.
CreateTenantService(strictly, autoInstall) ==
  /\ ~tenantService
  /\ IF authService THEN stage' = "failed" /\ UNCHANGED <<tenantService, onStartup, strict>>
     ELSE /\ tenantService' = TRUE
          /\ IF autoInstall /\ containers = 1 THEN InstallTenant(strictly)
             ELSE UNCHANGED <<stage, onStartup, strict>>
  /\ UNCHANGED <<containers, authService>>

CreateAuthService ==
  /\ ~authService /\ authService' = TRUE
  /\ IF containers = 1 THEN InstallAuth ELSE UNCHANGED <<stage, onStartup>>
  /\ UNCHANGED <<containers, tenantService, strict>>

\* The application installs them itself, and may say how strict it wants to be.
Install ==
  /\ containers > 0
  /\ \/ tenantService /\ \E strictly \in BOOLEAN : InstallTenant(strictly)
     \/ authService /\ InstallAuth /\ UNCHANGED strict
  /\ UNCHANGED <<containers, tenantService, authService>>

\* The installer of that wrapper does not pass the route over.
Guards(wrapper, r) == Installed(wrapper) /\ wrapper \notin r.exempt

Declared(r) ==
  (IF r.require = None THEN <<>> ELSE <<"require">>) \o <<"handler">>

\* TenantWebWrapperInstaller.set_handler_tenant().
TenantLayers(r, inner) ==
  IF "tenant" \in r.exempt THEN inner
  ELSE (IF r.pathHas = "nothing" THEN <<"query">> ELSE <<"path">>)
         \o (IF "tenant" \in r.args THEN <<"pass_tenant">> ELSE <<>>) \o inner

TenantRefuses(r) ==
  IF strict THEN r.pathHas # "first" \/ r.allowNoTenant
  ELSE r.pathHas = "first"

\* _set_handler_auth().
AuthLayers(r, inner) ==
  IF r.noauth \/ "auth" \in r.exempt THEN inner
  ELSE <<"auth">> \o (IF "resources" \in r.args THEN <<"pass_resources">> ELSE <<>>) \o inner

\* The handler when the first i installers have run, each upon what those before it have made.
Wrapped(r) ==
  LET wrapped[i \in 0..Len(onStartup)] ==
        IF i = 0 THEN Declared(r)
        ELSE IF onStartup[i] = "tenant" THEN TenantLayers(r, wrapped[i - 1])
        ELSE AuthLayers(r, wrapped[i - 1])
  IN  wrapped[Len(onStartup)]

\* on_startup of the container; the request comes.  Arguments that nobody passes make the
\* handler raise TypeError: such routes are not of interest.
Start(declared) ==
  /\ containers > 0 /\ route' = declared
  /\ "tenant" \in declared.args => Guards("tenant", declared)
  /\ "resources" \in declared.args => Guards("auth", declared)
  /\ IF Guards("tenant", declared) /\ TenantRefuses(declared)
       THEN stage' = "failed" /\ UNCHANGED <<layers, query, path>>
       ELSE /\ stage' = "request"
            /\ layers' = Wrapped(declared)
            /\ query' \in TenantId \cup {Stranger, NoTenant}
            /\ path' \in IF declared.pathHas = "nothing" THEN {NoTenant} ELSE TenantId \cup {Stranger}
  /\ UNCHANGED <<containers, tenantService, authService, onStartup, strict>>
-----------------------------------------------------------------------------
(* The request: one step for each layer.                                   *)

Respond(code) == stage' = "ended" /\ status' = code /\ UNCHANGED <<layers, tenant, authz>>
Enter == layers' = Tail(layers) /\ UNCHANGED <<stage, status>>

SetTenant(x) == tenant' = x /\ Enter /\ UNCHANGED authz

\* _set_tenant_context_from_url_query()
FromQuery ==
  IF query = NoTenant THEN IF route.allowNoTenant THEN SetTenant(NoTenant) ELSE Respond(404)
  ELSE IF query = Stranger THEN Respond(404) ELSE SetTenant(query)

\* _set_tenant_context_from_url_path()
FromPath ==
  IF query # NoTenant THEN Respond(400)
  ELSE IF path = Stranger THEN Respond(404) ELSE SetTenant(path)

\* _pass_tenant(): the same question once more.
PassTenant ==
  IF (tenant = NoTenant /\ ~route.allowNoTenant) \/ tenant = Stranger THEN Respond(404)
  ELSE Enter /\ UNCHANGED <<tenant, authz>>

Answer(outcome) == CASE outcome = "NotAuthenticatedError" -> Respond(401)
                     [] outcome = "AccessDeniedError" -> Respond(403)
                     [] outcome = "ValueError" -> Respond(500)
                     [] outcome = "ok" -> Enter /\ UNCHANGED <<tenant, authz>>

InContext == tenant \notin {Unset, NoTenant}

\* _authorize_handler(): nobody, or somebody whose token may be in its leeway.
AuthorizeHandler ==
  \/ Respond(401)
  \/ \E claim \in Claims :
       LET new == [claim |-> claim, expiration |-> 1]
           outcome == IF InContext THEN RequireTenantAccess(new, now, tenant) ELSE "ok"
       IN  IF outcome = "ok" THEN Enter /\ authz' = new /\ UNCHANGED tenant ELSE Answer(outcome)

Context == IF InContext THEN tenant ELSE NoTenant

PassResources ==
  IF authz = Unset THEN Enter /\ UNCHANGED <<tenant, authz>> ELSE Answer(RequireValid(authz, now))

\* @require and @require_superuser: without an authorization the context variable raises.
RequireDeclared ==
  CASE authz = Unset -> Respond(500)
    [] authz # Unset /\ route.require = "resource" ->
         Answer(RequireResourceAccess(authz, now, Resource, Context, "all"))
    [] authz # Unset /\ route.require = "superuser" -> Answer(RequireSuperuserAccess(authz, now))

Layer ==
  /\ stage = "request"
  /\ CASE Head(layers) = "query"          -> FromQuery
       [] Head(layers) = "path"           -> FromPath
       [] Head(layers) = "pass_tenant"    -> PassTenant
       [] Head(layers) = "auth"           -> AuthorizeHandler
       [] Head(layers) = "pass_resources" -> PassResources
       [] Head(layers) = "require"        -> RequireDeclared
       [] Head(layers) = "handler"        -> Respond(200)
  /\ UNCHANGED <<containers, tenantService, authService, onStartup, strict, route, query, path,
                 now>>

Pass ==
  /\ stage = "request" /\ now = 0 /\ now' = 1
  /\ UNCHANGED <<setupVars, stage, query, path, tenant, authz, status>>

Next ==
  \/ /\ stage = "set-up"
     /\ \/ /\ \/ CreateContainer \/ CreateAuthService \/ Install
              \/ \E strictly, auto \in BOOLEAN : CreateTenantService(strictly, auto)
           /\ UNCHANGED <<route, layers, query, path>>
        \/ \E r \in Route : Start(r)
     /\ UNCHANGED <<now, tenant, authz, status>>
  \/ Layer
  \/ Pass

RequestsSpec == Init /\ [][Next]_requestVars
-----------------------------------------------------------------------------
(* Properties.                                                             *)

\* Whatever the order in which services and containers were made and installed: a handler that
\* the installers of the container do not pass over is reached only for the tenant of the URL,
\* and, unless it is @noauth, by somebody who is authenticated and has access to that tenant.
\* Whatever a handler requires, it is never reached by somebody without those resources in the
\* very tenant, also where the installers pass it over: an OPTIONS route, a handler that is no
\* coroutine, a path of NO_TENANT_ROUTES (service.py:251-321, installer.py:26-82, decorator.py).
ServedAreEntitled ==
  status = 200 =>
    /\ Guards("tenant", route) => /\ tenant = IF route.pathHas = "nothing" THEN query ELSE path
                                  /\ tenant = NoTenant => route.allowNoTenant
    /\ Guards("auth", route) /\ ~route.noauth => authz # Unset
    /\ authz # Unset /\ InContext => ClaimHasTenant(authz.claim, tenant)
    /\ route.require # None =>
         /\ authz # Unset
         /\ \/ IsSuperuser(authz.claim)
            \/ /\ route.require = "resource"
               /\ LET scope == IF InContext THEN tenant ELSE "*"
                  IN  scope \in DOMAIN authz.claim /\ Resource \subseteq authz.claim[scope]

\* The methods that answer and those that raise agree at every moment of a request, and the
\* resources that a handler is given are those it would be allowed (authorization.py).
AnswersAgree ==
  authz # Unset =>
    /\ HasSuperuserAccess(authz, now) <=> RequireSuperuserAccess(authz, now) = "ok"
    /\ \A match \in {"all", "any"}, rs \in (SUBSET Resource) \ {{}} :
         HasResourceAccess(authz, now, rs, Context, match)
           <=> RequireResourceAccess(authz, now, rs, Context, match) = "ok"
    /\ \A x \in TenantId : HasTenantAccess(authz, now, x) <=> RequireTenantAccess(authz, now, x) = "ok"
    /\ IsValid(authz, now) =>
         \A r \in PassedResources(authz, now, Context) :
           HasResourceAccess(authz, now, {r}, Context, "all")
=============================================================================
