------------------------------- MODULE Tenants -------------------------------
(***************************************************************************)
(* The tenants that a service knows (asab/web/tenant/service.py and its    *)
(* providers).  Each provider has a copy of a list that it is given by a   *)
(* configuration, a web server or ZooKeeper.  Every five minutes, and      *)
(* whenever somebody asks for a tenant that no copy has, all providers     *)
(* read their lists anew, each for itself: readings of several tasks       *)
(* overlap, and their answers are resumed in any order.                    *)
(***************************************************************************)
EXTENDS Naturals, FiniteSets

CONSTANTS
  TenantId,       \* names of tenants
  Configured,     \* the tenants of the configuration
  NoList,         \* the server has no list: the znode is missing
  Caller,         \* tasks that use the service
  MaxMoves,       \* bound on changes of the lists
  MaxRefusals     \* bound on readings that fail

Remote == {"web", "zookeeper"}
Providers == {"static"} \cup Remote
Lists == SUBSET TenantId

VARIABLES
  source,         \* the list of the web server and that in ZooKeeper
  tenants,        \* Tenants of each provider
  ready,          \* _IsReady of each provider
  isReady,        \* _IsReady of the service
  announced,      \* what the last message said: Tenants.ready! or Tenants.not_ready!
  call,           \* of each task, its reading at each remote provider
  asks,           \* what each task asks for: nothing, an update, or a tenant
  denied,         \* the tasks whose last is_tenant_known() has returned False
  owed,           \* history: the lists that have had the tenant since the task asked for it,
                  \* were read for it without failure and were not overwritten by older ones
  moves, refusals

tenantVars == <<source, tenants, ready, isReady, announced, call, asks, denied, owed, moves,
                refusals>>

Nothing == "nothing"
Ended == [at |-> "ended"]
Asked == [at |-> "asked"]
Listing == [at |-> "listing"]
Got(list) == [at |-> "got", list |-> list]
Refused == [at |-> "refused"]
Raises == [at |-> "raises"]

Known(x) == \E p \in Providers : x \in tenants[p]

\* StaticTenantProvider is ready before it is in the list of providers.
Init ==
  /\ source \in [Remote -> Lists \cup {NoList}] /\ source["web"] # NoList
  /\ tenants = [p \in Providers |-> IF p = "static" THEN Configured ELSE {}]
  /\ ready = [p \in Providers |-> p = "static"]
  /\ isReady = FALSE /\ announced = FALSE
  /\ call = [t \in Caller |-> [p \in Remote |-> Ended]]
  /\ asks = [t \in Caller |-> Nothing] /\ denied = {}
  /\ owed = [t \in Caller |-> {}]
  /\ moves = 0 /\ refusals = 0
-----------------------------------------------------------------------------
\* The lists are changed; the copies learn of it when they read again.
Move(p, list) ==
  /\ moves < MaxMoves /\ list # source[p]
  /\ p = "web" => list # NoList
  /\ source' = [source EXCEPT ![p] = list]
  /\ owed' = [t \in Caller |-> IF list # NoList /\ asks[t] \in list THEN owed[t] ELSE owed[t] \ {p}]
  /\ moves' = moves + 1
  /\ UNCHANGED <<tenants, ready, isReady, announced, call, asks, denied, refusals>>

\* check_ready() when the providers in r are ready: an edge is announced.  is_ready() calls
\* it too, which matters only where there is no remote provider.  The message is published
\* before _IsReady is set, but both are one step: publish() calls the handlers at once and
\* nothing else runs in between, and a handler that calls is_ready() there only has the same
\* message published again, until Python's limit of recursion, which publish() catches.
CheckReady(r) ==
  LET now == \A p \in Providers : r[p]
  IN /\ isReady' = now
     /\ announced' = IF isReady = now THEN announced ELSE now

\* The readings of the task at all providers begin; that of "static" has nothing to do.
Reads(t) == call' = [call EXCEPT ![t] = [p \in Remote |-> Asked]]
Free(t) == asks[t] = Nothing /\ \A p \in Remote : call[t][p] = Ended

\* update_tenants(), of initialize(), of tick/300 or of get_tenants().
UpdateTenants(t) ==
  /\ Free(t) /\ Reads(t)
  /\ asks' = [asks EXCEPT ![t] = "update"]
  /\ denied' = denied \ {t} /\ owed' = [owed EXCEPT ![t] = {}]

Having(x) == {p \in Remote : source[p] # NoList /\ x \in source[p]}

\* is_tenant_known(): a tenant that no provider knows makes all of them read again.
IsTenantKnown(t, x) ==
  /\ Free(t) /\ ~Known(x)
  /\ owed' = [owed EXCEPT ![t] = Having(x)]
  /\ denied' = denied \ {t}
  /\ Reads(t) /\ asks' = [asks EXCEPT ![t] = x]

\* The server or ZooKeeper answers: with its list, with a refusal that the provider handles,
\* or with what it does not expect.  The provider of ZooKeeper asks whether the node exists
\* and then for its children; a node that vanishes in between makes it raise.
Answers(t, p, c) == call' = [call EXCEPT ![t][p] = c]
Fails(c) == refusals < MaxRefusals /\ c \in {Refused, Raises} /\ refusals' = refusals + 1

AnswerWeb(t) ==
  /\ call[t]["web"] = Asked
  /\ \/ Answers(t, "web", Got(source["web"])) /\ UNCHANGED refusals
     \/ \E c \in {Refused, Raises} : Fails(c) /\ Answers(t, "web", c)

AnswerExists(t) ==
  /\ call[t]["zookeeper"] = Asked
  /\ \/ /\ Answers(t, "zookeeper", IF source["zookeeper"] = NoList THEN Got({}) ELSE Listing)
        /\ UNCHANGED refusals
     \/ Fails(Refused) /\ Answers(t, "zookeeper", Refused)

AnswerChildren(t) ==
  /\ call[t]["zookeeper"] = Listing
  /\ \/ /\ Answers(t, "zookeeper", IF source["zookeeper"] = NoList THEN Raises
                                  ELSE Got(source["zookeeper"]))
        /\ UNCHANGED refusals
     \/ Fails(Refused) /\ Answers(t, "zookeeper", Refused)

\* The rest of update() of a provider: the list replaces the copy, whatever it is by now.
Resume(t, p) ==
  LET c == call[t][p] IN
  /\ c.at \in {"got", "refused"}
  /\ IF c.at = "got"
       THEN /\ tenants' = [tenants EXCEPT ![p] = c.list]
            /\ ready' = [ready EXCEPT ![p] = TRUE]
            /\ IF ready[p] THEN UNCHANGED <<isReady, announced>> ELSE CheckReady(ready')
            /\ owed' = [u \in Caller |-> IF asks[u] \in c.list THEN owed[u] ELSE owed[u] \ {p}]
       ELSE /\ ready' = [ready EXCEPT ![p] = FALSE] /\ CheckReady(ready')
            /\ owed' = [owed EXCEPT ![t] = @ \ {p}]
            /\ UNCHANGED tenants
  /\ Answers(t, p, Ended)
  /\ UNCHANGED <<source, asks, denied, moves, refusals>>

\* gather() returns when all readings have ended: the providers are asked again.
Gathered(t) ==
  /\ asks[t] # Nothing /\ \A p \in Remote : call[t][p] = Ended
  /\ asks' = [asks EXCEPT ![t] = Nothing]
  /\ IF asks[t] \in TenantId /\ ~Known(asks[t])
       THEN denied' = denied \cup {t} /\ UNCHANGED owed
       ELSE owed' = [owed EXCEPT ![t] = {}] /\ UNCHANGED denied
  /\ UNCHANGED <<source, tenants, ready, isReady, announced, call, moves, refusals>>

\* ... or raises with the first that raises; the others go on for nobody.
GatherRaises(t, p) ==
  /\ call[t][p] = Raises
  /\ Answers(t, p, Ended)
  /\ asks' = [asks EXCEPT ![t] = Nothing]
  /\ owed' = [owed EXCEPT ![t] = {}]
  /\ UNCHANGED <<source, tenants, ready, isReady, announced, denied, moves, refusals>>

Next ==
  \/ \E p \in Remote, list \in Lists \cup {NoList} : Move(p, list)
  \/ \E t \in Caller :
       \/ Gathered(t)
       \/ /\ UpdateTenants(t) \/ \E x \in TenantId : IsTenantKnown(t, x)
          /\ UNCHANGED <<source, tenants, ready, isReady, announced, moves, refusals>>
       \/ /\ AnswerWeb(t) \/ AnswerExists(t) \/ AnswerChildren(t)
          /\ UNCHANGED <<source, tenants, ready, isReady, announced, asks, denied, owed, moves>>
       \/ \E p \in Remote : Resume(t, p) \/ GatherRaises(t, p)

TenantsSpec == Init /\ [][Next]_tenantVars
-----------------------------------------------------------------------------
(* Properties.                                                             *)

\* Whoever asks for a tenant that a list has had since is not told that it is unknown, though
\* the copies were made before and other tasks make them anew meanwhile: only when a reading
\* fails, or an older answer that is resumed late replaces the one that was read for it.
KnownIsFound == \A t \in denied : owed[t] = {}

\* What was announced is what the providers are, whoever of them changed (check_ready()).
ReadinessTold == (\A p \in Providers : ready[p]) <=> announced
=============================================================================
