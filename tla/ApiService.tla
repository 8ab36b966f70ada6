------------------------------ MODULE ApiService ------------------------------
(***************************************************************************)
(* The two sides on which an application meets others through ZooKeeper    *)
(* (src/asab/api/): it advertises itself by ZooKeeperContainer, and        *)
(* DiscoveryService mirrors what others advertise.  They share nothing in  *)
(* one process but the client, so each is checked on its own: one of the   *)
(* parts is chosen in the beginning, and the other stays as it is.         *)
(***************************************************************************)
EXTENDS Advertisement

CONSTANTS Item, MaxChanges, MaxSuspends, MaxFailures, Ticks   \* of Discovery

ASSUME DiscoveryAssumption ==
  {MaxChanges, MaxSuspends, MaxFailures} \subseteq Nat /\ Ticks \in BOOLEAN

VARIABLES
  part,                                          \* the part that is checked
  tree, deleted, changes, suspends, failures, connected, connectDue, watched, events,
  tasks, raw, ready, requested, scan, toGet, got, disturbed, outcome   \* of Discovery

Cache == INSTANCE Discovery

cacheVars == <<tree, deleted, changes, suspends, failures, connected, connectDue, watched,
               events, tasks, raw, ready, requested, scan, toGet, got, disturbed, outcome>>

Advertises == part = "advertisement"
Discovers == part = "discovery"

ApiInit == part \in {"advertisement", "discovery"} /\ Init /\ Cache!Init

ApiNext ==
  \/ Advertises /\ Next /\ UNCHANGED cacheVars
  \/ Discovers /\ Cache!Next /\ UNCHANGED vars

\* The fairness of Advertisement and of Discovery, each of the part that is chosen.
AdvertisementFairness ==
  /\ \A w \in Worker : WF_vars(Advertises /\ Publication(w))
  /\ WF_vars(Advertises /\ AdvertiseVersion)
  /\ WF_vars(Advertises /\ OnTick300)
  /\ WF_vars(Advertises /\ (Connect \/ Reconnect \/ Lose))
  /\ WF_vars(Advertises /\ ExpireAbandoned)

DiscoveryFairness ==
  /\ WF_cacheVars(Discovers /\ Cache!Connect)
  /\ WF_cacheVars(Discovers /\ Cache!OnTick600)
  /\ WF_cacheVars(Discovers /\ Cache!OnChangeThread)
  /\ WF_cacheVars(Discovers /\ Cache!OnZkReady)
  /\ WF_cacheVars(Discovers /\ Cache!StartTask)
  /\ WF_cacheVars(Discovers /\ Cache!Swap)
  /\ WF_cacheVars(Discovers /\ Cache!Thread)

ApiSpec ==
  /\ ApiInit /\ [][ApiNext /\ UNCHANGED part]_<<vars, cacheVars, part>>
  /\ AdvertisementFairness /\ DiscoveryFairness
-----------------------------------------------------------------------------
(* Properties; NeverOlder is that of Advertisement.                        *)

\* When nothing is on its way to the cache, discover() returns what is advertised, but for
\* an item that changed while the last scan ran and after a scan that failed
\* (discovery.py:217-268, 329-353).
SettledAgrees == Cache!SettledAgrees

\* Each side mirrors the other in the end, whatever breaks of the connection, failed calls
\* and overlapping publications and scans came before: what is advertised is in ZooKeeper,
\* unless it was changed while a publication ran (container.py:252-306), and what is in
\* ZooKeeper is in the cache (discovery.py:58-120, 217-268).
MirroredInTheEnd ==
  <>[](/\ Advertises => AllPublished
       /\ Discovers => Cache!Mirrors)
=============================================================================
