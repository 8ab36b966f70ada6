----------------------------- MODULE LibraryTargets -----------------------------
(***************************************************************************)
(* Subscriptions to scopes of the library: subscribe() of LibraryService   *)
(* and of the ZooKeeper provider, and _on_library_changed() of the latter  *)
(* (asab/library/service.py, providers/zookeeper.py), for one path.        *)
(*                                                                         *)
(* LibraryChanges has how one digest is made while a directory is edited.  *)
(* Here a digest is made in one step, and there are several directories:   *)
(* the path is there for all, for tenants and for credentials of a tenant. *)
(***************************************************************************)
EXTENDS Naturals, FiniteSets, Functions

CONSTANTS
  Tenant,       \* tenants
  Owner,        \* the one that has credentials with items
  Person,       \* these credentials
  None,         \* no tenant, or no credentials
  MaxEdits, MaxAsks

VARIABLES
  content,      \* of the path in each place, as far as digests tell: 0 is nothing
  ready,        \* whether the library is
  subscriptions,  \* Subscriptions: their targets
  actual,       \* SubscriptionActualPaths of the personal targets
  digests,      \* NodeDigests: that of the content then
  edits,
  asks,         \* history: who subscribed, and what is known to whom
  checked,      \* history: nothing happened since a whole check
  hidden        \* history: places that a subscriber knows in another state than their digests

targetVars == <<content, ready, subscriptions, actual, digests, edits, asks, checked, hidden>>

Everywhere == <<>>
OfTenant(t) == <<".tenants", t>>
OfPerson(t, p) == <<".personal", t, p>>
Place == {Everywhere} \cup {OfTenant(t) : t \in Tenant} \cup {OfPerson(Owner, Person)}

Target(kind, id) == [kind |-> kind, id |-> id]
Personal == {Target("personal", None), Target("personal", Person)}
Targets == Personal \cup {Target("global", None), Target("tenant", None), Target("tenant", Owner)}
Contexts == [tenant: {Owner, None}, cred: {Person, None}]
Nobody == [tenant |-> None, cred |-> None]

TypeOK ==
  /\ content \in [Place -> 0..2] /\ ready \in BOOLEAN
  /\ subscriptions \subseteq Targets
  /\ DOMAIN actual \subseteq Personal /\ \A t \in DOMAIN actual : actual[t] \subseteq Place
  /\ DOMAIN digests \subseteq Place
  /\ edits \in 0..MaxEdits /\ checked \in BOOLEAN /\ hidden \subseteq Place

Init ==
  /\ content \in {c \in [Place -> {0, 1}] : c[Everywhere] = 1}
  /\ ready \in BOOLEAN
  /\ subscriptions = {} /\ actual = [t \in {} |-> {}] /\ digests = [p \in {} |-> 0]
  /\ edits = 0 /\ asks = {} /\ checked = FALSE /\ hidden = {}
-----------------------------------------------------------------------------
(* The cluster.                                                            *)

\* Somebody edits what is in a place, changes it back, or removes all of it.
Edit(p, new) ==
  /\ edits < MaxEdits /\ new # content[p]
  /\ edits' = edits + 1
  /\ content' = [content EXCEPT ![p] = new]
  /\ checked' = FALSE
  /\ UNCHANGED <<ready, subscriptions, actual, digests, asks, hidden>>

\* The connection breaks, or is there again.
Turn ==
  /\ ready' = ~ready /\ checked' = FALSE
  /\ UNCHANGED <<content, subscriptions, actual, digests, edits, asks, hidden>>
-----------------------------------------------------------------------------
(* Subscriptions.                                                          *)

\* _get_tenants(): those that have anything.
GetTenants == {t \in Tenant : content[OfTenant(t)] # 0}

\* _subscription_personal_path(): nothing, unless the tenant and the credentials are known.
SubscriptionPersonalPath(target, c) ==
  LET cred == IF target.id # None THEN target.id ELSE c.cred
  IN  IF None \in {c.tenant, cred} THEN {} ELSE {OfPerson(c.tenant, cred)}

ActualPaths(target, c) ==
  CASE target.kind = "global"                       -> {Everywhere}
    [] target.kind = "tenant" /\ target.id = None   -> {OfTenant(t) : t \in GetTenants}
    [] target.kind = "tenant" /\ target.id # None   -> {OfTenant(target.id)}
    [] target.kind = "personal"                     -> SubscriptionPersonalPath(target, c)

\* The places that a subscriber means (service.py:993-999).
Meant(target, c) ==
  CASE target.kind = "tenant" /\ target.id = None -> {OfTenant(t) : t \in Tenant}
    [] OTHER -> ActualPaths(target, c)

\* subscribe() of the provider: digests of what is there now, whoever else has subscribed.
ProviderSubscribe(target, c) ==
  LET paths == ActualPaths(target, c)
  IN
  /\ subscriptions' = subscriptions \cup {target}
  /\ actual' = IF target \in Personal
               THEN [t \in DOMAIN actual \cup {target} |-> IF t = target THEN paths ELSE actual[t]]
               ELSE actual
  /\ digests' = [p \in DOMAIN digests \cup paths |->
                   IF p \in paths THEN content[p] ELSE digests[p]]

\* The places whose digests are older than the content, but for some paths.
Outdated(paths) == {p \in DOMAIN digests \ paths : digests[p] # content[p]}

\* subscribe() of the library, which has to be ready.  The subscriber has read the path before.
Subscribe(target, c) ==
  /\ ready /\ Cardinality(asks) < MaxAsks
  /\ ProviderSubscribe(target, c)
  /\ hidden' = hidden \cup (Outdated(ActualPaths(target, c)) \cap Meant(target, c))
                      \cup {p \in ActualPaths(target, c) :
                              \E a \in asks : p \in DOMAIN a.known /\ a.known[p] # content[p]}
  /\ asks' = asks \cup {[target |-> target, context |-> c,
                         known |-> [p \in Meant(target, c) |-> content[p]]]}
  /\ checked' = FALSE
  /\ UNCHANGED <<content, ready, edits>>
-----------------------------------------------------------------------------
(* Checks.                                                                 *)

\* The paths that are checked for a target; those of all tenants are listed anew.
CheckedPaths(target) ==
  IF target \in Personal THEN actual[target] ELSE ActualPaths(target, Nobody)

\* _on_library_changed(), until the connection breaks or all subscriptions are checked.
\* Library.change! has the path but no target: whoever subscribed to it reads anew.
OnLibraryChanged(done) ==
  LET paths == UNION {CheckedPaths(t) : t \in done}
      changed == {p \in paths : p \notin DOMAIN digests \/ digests[p] # content[p]}
  IN
  /\ ready /\ subscriptions # {}
  /\ digests' = [p \in DOMAIN digests \cup paths |->
                   IF p \in paths THEN content[p] ELSE digests[p]]
  /\ asks' = IF changed = {} THEN asks
             ELSE {[a EXCEPT !.known = [p \in DOMAIN a.known |-> content[p]]] : a \in asks}
  /\ hidden' = IF changed = {} THEN hidden
               ELSE Outdated(paths) \cap UNION {DOMAIN a.known : a \in asks}
  /\ ready' = (done = subscriptions)
  /\ checked' = (done = subscriptions)
  /\ UNCHANGED <<content, subscriptions, actual, edits>>

Next ==
  \/ \E p \in Place, new \in 0..2 : Edit(p, new)
  \/ Turn
  \/ \E t \in Targets \ Personal : Subscribe(t, Nobody)
  \/ \E t \in Personal, c \in Contexts : Subscribe(t, c)
  \/ \E done \in SUBSET subscriptions : OnLibraryChanged(done)
-----------------------------------------------------------------------------
(* Property.                                                               *)

\* Another subscription to the same personal target, from another context, has taken its place.
Replaced(a) == a.target \in Personal /\ actual[a.target] # ActualPaths(a.target, a.context)

\* After a whole check every subscriber knows what is in the places that it means, whoever else
\* subscribed and whenever the connection broke; but for a tenant of "all tenants" whose items
\* are all gone, a personal subscription that another one has replaced, and a change that a
\* later subscription took for known (zookeeper.py:494-619).
TargetsKnown ==
  checked => \A a \in asks : Replaced(a) \/
    \A p \in Meant(a.target, a.context) \ hidden :
      \/ a.known[p] = content[p]
      \/ content[p] = 0 /\ a.target = Target("tenant", None)
=============================================================================
