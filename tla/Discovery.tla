------------------------------ MODULE Discovery ------------------------------
(***************************************************************************)
(* The cache of DiscoveryService (src/asab/api/discovery.py): what other   *)
(* services advertise in ZooKeeper under /run is mirrored by full scans,   *)
(* which run in a thread, and by a recursive watch, whose callback runs in *)
(* the thread of kazoo.                                                    *)
(*                                                                         *)
(* Scans and updates are tasks that TaskService starts in order.  The two  *)
(* dictionaries _advertised_raw and _advertised_cache are one variable:    *)
(* nothing is awaited between a change of the first and the rebuilding of  *)
(* the second, and _cache_lock is never found locked.                      *)
(***************************************************************************)
EXTENDS Naturals, Sequences

CONSTANTS
  Item,         \* the znodes under /run; their names are never used again
  MaxChanges,   \* bound of the changes made to them
  MaxSuspends,  \* bound of the breaks of the connection
  MaxFailures,  \* bound of the scans that fail though the connection holds
  Ticks         \* does the application live until tick/600 after tick/600

VARIABLES
  tree,       \* the data of each znode; 0 when there is none
  deleted,    \* the znodes that are no more
  changes, suspends, failures,   \* counters
  connected,  \* is the client connected
  connectDue, \* is ZooKeeperContainer.state/CONNECTED! to be delivered
  watched,    \* has the server our watch
  events,     \* those of the watch that wait for the thread of kazoo
  tasks,      \* those that TaskService has to start
  raw,        \* _advertised_raw: the data of each item; 0 when it has none
  ready,      \* _ready_event
  requested,  \* _rescan_requested
  scan,       \* where the scan is that holds _rescan_lock
  toGet, got, \* in get_items(): the children left to read, the result
  disturbed,  \* history: the items changed while the last scan ran
  outcome     \* history: has that scan come to nothing, or raised

serverVars == <<tree, deleted, changes>>
connVars == <<suspends, connected, connectDue, watched>>
cacheVars == <<raw, ready>>
scanVars == <<failures, requested, scan, toGet, got>>
historyVars == <<disturbed, outcome>>
vars == <<serverVars, connVars, events, tasks, cacheVars, scanVars, historyVars>>

Nothing == [i \in Item |-> 0]

Rescan == [kind |-> "rescan"]
Update(i, d) == [kind |-> "update", item |-> i, data |-> d]
Task == {Rescan} \cup {Update(i, d) : i \in Item, d \in 0..MaxChanges}

TypeOK ==
  /\ tree \in [Item -> 0..MaxChanges]
  /\ deleted \subseteq Item
  /\ changes \in 0..MaxChanges /\ suspends \in 0..MaxSuspends
  /\ failures \in 0..MaxFailures
  /\ connected \in BOOLEAN /\ connectDue \in BOOLEAN /\ watched \in BOOLEAN
  /\ events \in Seq([item : Item, type : {"WRITTEN", "DELETED"}])
  /\ tasks \in Seq(Task)
  /\ raw \in [Item -> 0..MaxChanges]
  /\ ready \in BOOLEAN
  /\ requested \in BOOLEAN
  /\ scan \in {"no", "children", "get", "swap"}
  /\ toGet \subseteq Item
  /\ got \in [Item -> 0..MaxChanges]
  /\ disturbed \subseteq Item
  /\ outcome \in {"whole", "nothing", "raised"}

\* The service has subscribed; the connection is still to come.
Init ==
  /\ tree = Nothing /\ deleted = {} /\ changes = 0
  /\ suspends = 0 /\ failures = 0
  /\ connected = FALSE /\ connectDue = FALSE /\ watched = FALSE
  /\ events = <<>> /\ tasks = <<>>
  /\ raw = Nothing /\ ready = FALSE
  /\ requested = FALSE /\ scan = "no"
  /\ toGet = {} /\ got = Nothing
  /\ disturbed = {} /\ outcome = "whole"

-----------------------------------------------------------------------------
(* ZooKeeper: other services, the connection.                              *)

\* A service advertises itself, anew, or no longer.
Change(i, data) ==
  /\ changes < MaxChanges
  /\ i \notin deleted /\ data # tree[i]
  /\ changes' = changes + 1
  /\ tree' = [tree EXCEPT ![i] = data]
  /\ deleted' = IF data = 0 THEN deleted \cup {i} ELSE deleted
  /\ events' = IF connected /\ watched
                 THEN Append(events, [item |-> i,
                                      type |-> IF data = 0 THEN "DELETED" ELSE "WRITTEN"])
                 ELSE events
  /\ disturbed' = IF scan = "no" THEN disturbed ELSE disturbed \cup {i}
  /\ UNCHANGED <<connVars, tasks, cacheVars, scanVars, outcome>>

\* Every change writes what was not there before.
AnyChange == \E i \in Item : Change(i, changes + 1) \/ (tree[i] # 0 /\ Change(i, 0))

Suspend ==
  /\ connected
  /\ suspends < MaxSuspends
  /\ suspends' = suspends + 1
  /\ connected' = FALSE
  /\ UNCHANGED <<serverVars, connectDue, watched, events, tasks, cacheVars, scanVars, historyVars>>

\* kazoo may or may not restore the watch; what happened meanwhile it does not tell.
Connect ==
  /\ ~connected
  /\ connected' = TRUE
  /\ connectDue' = TRUE
  /\ watched' \in {FALSE, watched}
  /\ UNCHANGED <<serverVars, suspends, events, tasks, cacheVars, scanVars, historyVars>>

-----------------------------------------------------------------------------
(* What schedules tasks.                                                   *)

\* Ten minutes are enough for the tasks before to be started.
OnTick600 ==
  /\ Ticks
  /\ tasks = <<>>
  /\ tasks' = <<Rescan>>
  /\ UNCHANGED <<serverVars, connVars, events, cacheVars, scanVars, historyVars>>

\* Mutant of OnZkReady: only the watch is set.
OnZkReadyWatch ==
  /\ connectDue
  /\ connectDue' = FALSE
  /\ watched' = (watched \/ connected)
  /\ UNCHANGED <<serverVars, suspends, connected, events, tasks, cacheVars, scanVars, historyVars>>

\* The rescan is scheduled first; add_watch() fails when the connection has broken
\* again.
OnZkReady ==
  /\ connectDue
  /\ connectDue' = FALSE
  /\ tasks' = Append(tasks, Rescan)
  /\ watched' = (watched \/ connected)
  /\ UNCHANGED <<serverVars, suspends, connected, events, cacheVars, scanVars, historyVars>>

\* The thread of kazoo reads the data of what was created or changed; when it cannot,
\* because of the connection or because the znode is gone, the event is lost.
OnChangeThread ==
  /\ events # <<>>
  /\ events' = Tail(events)
  /\ LET i == Head(events).item
         lost == Head(events).type = "WRITTEN" /\ (~connected \/ tree[i] = 0)
         data == IF Head(events).type = "WRITTEN" THEN tree[i] ELSE 0
     IN tasks' = IF lost THEN tasks ELSE Append(tasks, Update(i, data))
  /\ UNCHANGED <<serverVars, connVars, cacheVars, scanVars, historyVars>>

-----------------------------------------------------------------------------
(* The tasks.                                                              *)

\* _on_change(): what was not there and is deleted changes nothing.
OnChange ==
  /\ tasks # <<>>
  /\ Head(tasks).kind = "update"
  /\ tasks' = Tail(tasks)
  /\ LET i == Head(tasks).item
         d == Head(tasks).data
     IN /\ raw' = [raw EXCEPT ![i] = d]
        /\ ready' = (ready \/ d # 0 \/ raw[i] # 0)
  /\ UNCHANGED <<serverVars, connVars, events, scanVars, historyVars>>

ScanStart ==
  /\ requested' = FALSE
  /\ scan' = "children"
  /\ toGet' = {} /\ got' = Nothing
  /\ disturbed' = {} /\ outcome' = "whole"

\* _rescan_advertised_instances(), to its first await: a scan that runs is asked to go
\* round once more.
RescanBegin ==
  /\ tasks # <<>>
  /\ Head(tasks) = Rescan
  /\ tasks' = Tail(tasks)
  /\ IF scan = "no" THEN ScanStart
     ELSE requested' = TRUE /\ UNCHANGED <<scan, toGet, got, historyVars>>
  /\ UNCHANGED <<serverVars, connVars, events, cacheVars, failures>>

\* get_items() in its thread has no result, for which _iter_zk_items() returns an empty
\* one: it loses the connection, or one of the calls for the children raises anything at
\* all, as create() does when another service has made the base path meanwhile.
ScanLost ==
  /\ \/ scan \in {"children", "get"} /\ ~connected /\ UNCHANGED failures
     \/ scan = "children" /\ connected /\ failures < MaxFailures /\ failures' = failures + 1
  /\ scan' = "swap"
  /\ toGet' = {} /\ got' = Nothing
  /\ outcome' = "nothing"
  /\ UNCHANGED <<serverVars, connVars, events, tasks, cacheVars, requested, disturbed>>

ScanChildren ==
  /\ scan = "children"
  /\ connected
  /\ scan' = "get"
  /\ toGet' = {i \in Item : tree[i] # 0}
  /\ UNCHANGED <<serverVars, connVars, events, tasks, cacheVars, failures, requested, got, historyVars>>

\* One child is read; one that is gone is passed over.
ScanGet ==
  /\ scan = "get"
  /\ connected
  /\ \E i \in toGet : toGet' = toGet \ {i} /\ got' = [got EXCEPT ![i] = tree[i]]
  /\ UNCHANGED <<serverVars, connVars, events, tasks, cacheVars, failures, requested, scan, historyVars>>

\* Any other error of get() or of the data leaves the scan, for good.
ScanRaises ==
  /\ scan = "get"
  /\ failures < MaxFailures
  /\ toGet # {}
  /\ failures' = failures + 1
  /\ scan' = "no"
  /\ toGet' = {} /\ got' = Nothing
  /\ outcome' = "raised"
  /\ UNCHANGED <<serverVars, connVars, events, tasks, cacheVars, requested, disturbed>>

ScanDone ==
  /\ scan = "get"
  /\ toGet = {}
  /\ scan' = "swap"
  /\ UNCHANGED <<serverVars, connVars, events, tasks, cacheVars, failures, requested, toGet,
                 got, historyVars>>

SwapNext ==
  IF requested THEN ScanStart
  ELSE scan' = "no" /\ toGet' = {} /\ got' = Nothing /\ UNCHANGED <<requested, historyVars>>

\* Mutant of Swap: what the scan has not found is kept.
SwapKeeps ==
  /\ scan = "swap"
  /\ raw' = [i \in Item |-> IF got[i] = 0 THEN raw[i] ELSE got[i]]
  /\ ready' = TRUE
  /\ SwapNext
  /\ UNCHANGED <<serverVars, connVars, events, tasks, failures>>

\* The result replaces what was known, the watch's updates of the meantime too.
Swap ==
  /\ scan = "swap"
  /\ raw' = got
  /\ ready' = TRUE
  /\ SwapNext
  /\ UNCHANGED <<serverVars, connVars, events, tasks, failures>>

-----------------------------------------------------------------------------
StartTask == OnChange \/ RescanBegin

Thread == ScanLost \/ ScanChildren \/ ScanGet \/ ScanRaises \/ ScanDone

Next ==
  \/ AnyChange \/ Suspend \/ Connect
  \/ OnTick600 \/ OnChangeThread
  \/ OnZkReady \/ StartTask \/ Swap
  \/ Thread

Spec == Init /\ [][Next]_vars

\* The loop runs each callback and task that is ready, in order, and the two threads
\* what they are given; the client reconnects and, while the application lives, the
\* tick comes again.
FairSpec ==
  /\ Spec
  /\ WF_vars(Connect) /\ WF_vars(OnTick600) /\ WF_vars(OnChangeThread)
  /\ WF_vars(OnZkReady) /\ WF_vars(StartTask) /\ WF_vars(Swap) /\ WF_vars(Thread)

-----------------------------------------------------------------------------
(* Properties.                                                             *)

\* Nothing is on its way from ZooKeeper to the cache.
Settled ==
  /\ connected /\ ~connectDue
  /\ events = <<>> /\ tasks = <<>> /\ scan = "no"

\* When all that is known of has been applied, discover() returns what an item advertises,
\* but for one that changed while the last scan ran, which the swap may have undone, and
\* after a scan that raised.  A scan that came to nothing has removed what was known: of
\* what has not changed since, discover() then returns nothing, but nothing wrong.
SettledAgrees ==
  Settled /\ outcome # "raised" =>
    \A i \in Item \ disturbed : raw[i] = tree[i] \/ (outcome = "nothing" /\ raw[i] = 0)

\* The cache is there and agrees with the cluster.
Mirrors == ready /\ raw = tree
=============================================================================
