------------------------------ MODULE ServiceCalls ------------------------------
(***************************************************************************)
(* A service calls another: session() of the discovery service, the        *)
(* resolver of its URLs, and locate() (asab/api/discovery.py:122-194,      *)
(* 366-500).  Discovery has how the cache follows the cluster; here the    *)
(* cache changes at any moment.                                            *)
(*                                                                         *)
(* Every instance is on a host of its own, and all are of one service.     *)
(***************************************************************************)
EXTENDS FiniteSets

CONSTANTS
  Instance,     \* identifiers of instances, and of their hosts
  Service,      \* the identifier of their service
  NoToken       \* no authorization

VARIABLES
  cache,        \* the families at which each instance has a usable web entry
  readyEvent,   \* _ready_event: a scan was done
  resolvable,   \* the hosts whose names the network knows
  context,      \* of the caller: its Authz and its Request, each with a token or not
  headers,      \* Authorization of the session
  callAt,       \* "idle", "opened", "locating", "resolving", "resolved", "dns", "undiscovered"
  hostname,     \* what is resolved
  toResolve, hosts,   \* hosts yet to resolve, and those that were
  offered       \* history: who was advertised under that name when it was located

callVars == <<cache, readyEvent, resolvable, context, headers, callAt, hostname, toResolve,
              hosts, offered>>

Families == {"AF_INET", "AF_INET6"}

\* Whose token it is: that of the user of the context, that of a request which is passed, the
\* service's own, or one from the caller's headers.
Tokens == {"user", "request", "internal", "given"}

Hostname(kind, id) == [kind |-> kind, id |-> id]
Hostnames ==
  {Hostname("instance_id", i) : i \in Instance}
    \cup {Hostname("service_id", Service), Hostname("malformed", NoToken), Hostname("other", NoToken)}

TypeOK ==
  /\ cache \in [Instance -> SUBSET Families] /\ readyEvent \in BOOLEAN
  /\ resolvable \subseteq Instance
  /\ context \in [authz: BOOLEAN, request: BOOLEAN]
  /\ headers \in Tokens \cup {NoToken}
  /\ callAt \in {"idle", "opened", "locating", "resolving", "resolved", "dns", "undiscovered"}
  /\ hostname \in Hostnames
  /\ toResolve \subseteq Instance /\ hosts \subseteq Instance /\ offered \subseteq Instance

Init ==
  /\ cache = [i \in Instance |-> {}] /\ readyEvent = FALSE
  /\ resolvable \in SUBSET Instance
  /\ context \in [authz: BOOLEAN, request: BOOLEAN]
  /\ headers = NoToken /\ callAt = "idle" /\ hostname = Hostname("other", NoToken)
  /\ toResolve = {} /\ hosts = {} /\ offered = {}
-----------------------------------------------------------------------------
(* The cache.                                                              *)

\* An instance comes, goes or listens elsewhere, and the cache is built anew.
Advertised(i, families) ==
  /\ cache' = [cache EXCEPT ![i] = families]
  /\ readyEvent' = TRUE
  /\ UNCHANGED <<resolvable, context, headers, callAt, hostname, toResolve, hosts, offered>>

\* _advertised_cache: tuples for each kind of identifier.
Entries ==
  {e \in [type : {"instance_id", "service_id"}, id : Instance \cup {Service},
          host : Instance, family : Families] :
     e.id = IF e.type = "instance_id" THEN e.host ELSE Service}
AdvertisedCache == {e \in Entries : e.family \in cache[e.host]}

\* _has_advertised_endpoints()
HasAdvertisedEndpoints == AdvertisedCache # {}

\* _locate(): whatever matches one of the parameters.
Locate(params) ==
  IF ~HasAdvertisedEndpoints THEN {}
  ELSE {e \in AdvertisedCache : \E p \in params : p.kind = e.type /\ p.id = e.id}

\* locate(): URLs, in which the families of a host are one; instance_id goes before all else.
LocateUrls(params) ==
  LET byInstance == {p \in params : p.kind = "instance_id"}
  IN  {e.host : e \in Locate(IF byInstance # {} THEN byInstance ELSE params)}

\* discover(): all of them, for each kind of identifier.
Discover(kind) == {e \in AdvertisedCache : e.type = kind}
-----------------------------------------------------------------------------
(* session().                                                              *)

\* Without a choice: the token of the user in the context, or else that of the request.
FromContext ==
  IF context.authz THEN "user" ELSE IF context.request THEN "request" ELSE NoToken

\* What the caller passes as headers comes last.
Session(auth, given) ==
  /\ callAt = "idle"
  /\ callAt' = "opened"
  /\ headers' = IF given THEN "given" ELSE IF auth = NoToken THEN FromContext ELSE auth
  /\ UNCHANGED <<cache, readyEvent, resolvable, context, hostname, toResolve, hosts, offered>>
-----------------------------------------------------------------------------
(* resolve().                                                              *)

Resolve(name) ==
  /\ callAt = "opened"
  /\ hostname' = name /\ hosts' = {}
  /\ callAt' = CASE name.kind = "other"     -> "dns"
                 [] name.kind = "malformed" -> "undiscovered"
                 [] OTHER                   -> "locating"
  /\ UNCHANGED <<cache, readyEvent, resolvable, context, headers, toResolve, offered>>

Located ==
  /\ callAt = "locating" /\ readyEvent
  /\ toResolve' = {e.host : e \in Locate({hostname})}
  /\ callAt' = IF toResolve' = {} THEN "undiscovered" ELSE "resolving"
  /\ offered' = {i \in Instance : cache[i] # {} /\ hostname.id \in {i, Service}}
  /\ UNCHANGED <<cache, readyEvent, resolvable, context, headers, hostname, hosts>>

\* One host after the other; one that cannot be resolved is skipped.
ResolveHost(h) ==
  /\ callAt = "resolving" /\ h \in toResolve
  /\ toResolve' = toResolve \ {h}
  /\ hosts' = hosts \cup ({h} \cap resolvable)
  /\ callAt' = IF toResolve' # {} THEN callAt
               ELSE IF hosts' = {} THEN "undiscovered" ELSE "resolved"
  /\ UNCHANGED <<cache, readyEvent, resolvable, context, headers, hostname, offered>>

\* The session goes on to another URL, with the headers that it was opened with.
Answered ==
  /\ callAt \in {"resolved", "dns", "undiscovered"}
  /\ callAt' = "opened"
  /\ UNCHANGED <<cache, readyEvent, resolvable, context, headers, hostname, toResolve, hosts, offered>>

Next ==
  \/ \E i \in Instance, f \in SUBSET Families : Advertised(i, f)
  \/ \E auth \in {NoToken, "request", "internal"}, given \in BOOLEAN : Session(auth, given)
  \/ \E name \in Hostnames : Resolve(name)
  \/ Located
  \/ \E h \in Instance : ResolveHost(h)
  \/ Answered
-----------------------------------------------------------------------------
(* Property.                                                               *)

\* A call goes to the hosts that were advertised under the name when it was looked up and that
\* the network knows, all of them and no other, however the cache changes under the call; and
\* what the API tells of a name is what the resolver finds.  It carries an authorization, if
\* there is one in the context (discovery.py:122-194, 402-429, 458-500).
CallsArrive ==
  /\ callAt # "idle" /\ (context.authz \/ context.request) => headers # NoToken
  /\ callAt = "resolved" => hosts = offered \cap resolvable /\ hosts # {}
  /\ callAt = "undiscovered" => hosts = {}
  /\ \A n \in Hostnames :
       LocateUrls({n}) = {i \in Instance : cache[i] # {} /\ n.id \in {i, Service}}
  /\ \A k \in {"instance_id", "service_id"} :
       {e.host : e \in Discover(k)} = {i \in Instance : cache[i] # {}}
=============================================================================
