---------------------------- MODULE Authorization ----------------------------
(***************************************************************************)
(* What an Authorization allows (asab/web/auth/authorization.py).  The     *)
(* claims of a token name resources, for everything ("*") and for tenants; *)
(* the two families of methods, has_...() that answer and require_...()    *)
(* that raise, are written independently of each other.                    *)
(*                                                                         *)
(* An Authorization is a record of its resources claim, a function of "*"  *)
(* and of tenants, and its expiration; NoTenant is None.                   *)
(***************************************************************************)
EXTENDS Naturals, FiniteSets

CONSTANTS
  TenantId,       \* names of tenants
  NoTenant,       \* None: no tenant in the context
  Resource,       \* names of resources
  Superuser       \* "authz:superuser"

Scope == TenantId \cup {"*"}

\* The resources claims there can be.
Claims == UNION {[S -> SUBSET (Resource \cup {Superuser})] : S \in SUBSET Scope}

\* _authorized_resources(); None stands for the global scope.
AuthorizedResources(claim, tenant) ==
  LET scope == IF tenant = NoTenant THEN "*" ELSE tenant
  IN  IF scope \in DOMAIN claim THEN claim[scope] ELSE {}

IsSuperuser(claim) == Superuser \in AuthorizedResources(claim, NoTenant)

\* has_resource_access(); an empty list of resources and another match raise ValueError.
ClaimHasResources(claim, resources, tenant, match) ==
  \/ IsSuperuser(claim)
  \/ match = "all" /\ resources \subseteq AuthorizedResources(claim, tenant)
  \/ match = "any" /\ resources \cap AuthorizedResources(claim, tenant) # {}

ClaimHasTenant(claim, tenant) == IsSuperuser(claim) \/ tenant \in DOMAIN claim

IsValid(authz, now) == now < authz.expiration
-----------------------------------------------------------------------------
\* The methods that answer.

HasSuperuserAccess(authz, now) == IsValid(authz, now) /\ IsSuperuser(authz.claim)

\* Mutant of HasResourceAccess: expiration is not considered.
HasResourceAccessEver(authz, now, resources, tenant, match) ==
  ClaimHasResources(authz.claim, resources, tenant, match)

HasResourceAccess(authz, now, resources, tenant, match) ==
  IsValid(authz, now) /\ ClaimHasResources(authz.claim, resources, tenant, match)

\* Without a tenant in the context has_tenant_access() raises ValueError.
HasTenantAccess(authz, now, tenant) == IsValid(authz, now) /\ ClaimHasTenant(authz.claim, tenant)
-----------------------------------------------------------------------------
\* The methods that raise: "ok", or the exception.

RequireValid(authz, now) == IF IsValid(authz, now) THEN "ok" ELSE "NotAuthenticatedError"

Require(authz, now, access) ==
  IF RequireValid(authz, now) # "ok" THEN RequireValid(authz, now)
  ELSE IF access THEN "ok" ELSE "AccessDeniedError"

RequireSuperuserAccess(authz, now) == Require(authz, now, IsSuperuser(authz.claim))

RequireResourceAccess(authz, now, resources, tenant, match) ==
  IF IsValid(authz, now) /\ resources = {} THEN "ValueError"
  ELSE Require(authz, now, ClaimHasResources(authz.claim, resources, tenant, match))

RequireTenantAccess(authz, now, tenant) ==
  IF IsValid(authz, now) /\ tenant = NoTenant THEN "ValueError"
  ELSE Require(authz, now, ClaimHasTenant(authz.claim, tenant))

\* _resources() of a valid authorization: what handlers with the deprecated argument are given.
PassedResources(authz, now, tenant) ==
  AuthorizedResources(authz.claim, tenant)
    \cup (IF HasSuperuserAccess(authz, now) THEN {Superuser} ELSE {})
=============================================================================
