---------------------------- MODULE Advertisement ----------------------------
(***************************************************************************)
(* Service advertisement of ZooKeeperContainer (src/asab/zookeeper/        *)
(* container.py): what the application advertises under a path is kept in  *)
(* an ephemeral sequential znode.                                          *)
(*                                                                         *)
(* The main loop changes an advertisement and schedules a publication; a   *)
(* publication is run by a worker thread of the proactor, which gives up   *)
(* at once when another one holds AdvertismentsLock.  The lock orders the  *)
(* workers, not the main loop: advertise() changes data and version while  *)
(* a worker is between two steps of its round.                             *)
(*                                                                         *)
(* Data is the number of the advertise() call it comes from, so "newer" is *)
(* ">".  ZooKeeper and the connection are external.                        *)
(***************************************************************************)
EXTENDS Integers

CONSTANTS
  Path,             \* the advertised paths
  Worker,           \* the worker threads of the proactor
  NoWorker,         \* stands for "nobody holds the lock"
  NoPath,           \* stands for "no path"
  MaxData,          \* bound: advertise() calls per path
  MaxJobs,          \* bound: publications scheduled by ticks and calls
  MaxRounds,        \* the rounds of one publication (10 in the code)
  MaxDisturbances   \* bound: breaks of the connection

ASSUME AbsentAssumption == NoWorker \notin Worker /\ NoPath \notin Path
ASSUME BoundAssumption ==
  {MaxData, MaxJobs, MaxRounds, MaxDisturbances} \subseteq Nat

VARIABLES
  data,          \* adv.data, 0 before the path is advertised
  version,       \* adv.version
  realPath,      \* adv.real_path: the id of a znode, 0 for None
  changing,      \* the path whose data advertise() has set, its version not yet
  jobs,          \* publications scheduled and not begun
  lock,          \* who holds AdvertismentsLock
  pc,            \* where each worker is
  left,          \* the advertisements a worker has still to see in its round
  path,          \* the one it is at
  payload,       \* the data of its next call
  stat,          \* the answer of its last: a znode's version, or a new znode's id
  count,         \* its rounds so far
  znodes,        \* the znodes of this container at the server
  created,       \* how many znodes the server has created for it
  conn,          \* the client's connection; "expired" is suspended to the client
  session,       \* the client's session, 0 without one
  sessions,      \* how many sessions the server has opened
  disturbances,  \* breaks of the connection so far
  overlapped     \* history: has advertise() changed data while a publication ran

advVars    == <<data, version, realPath>>
workerVars == <<lock, pc, left, path, payload, stat, count>>
zkVars     == <<znodes, created>>
connVars   == <<conn, session, sessions>>
histVars   == <<disturbances, overlapped>>
vars == <<advVars, changing, jobs, workerVars, zkVars, connVars, histVars>>

Znode == [id : Nat, path : Path, session : Nat, data : Nat, version : Nat]
Pc    == {"idle", "round", "next", "compare", "set", "stored", "create", "created",
          "release"}

TypeOK ==
  /\ data \in [Path -> Nat]
  /\ version \in [Path -> Int]
  /\ realPath \in [Path -> Nat]
  /\ changing \in Path \cup {NoPath}
  /\ jobs \in Nat
  /\ lock \in Worker \cup {NoWorker}
  /\ pc \in [Worker -> Pc]
  /\ left \in [Worker -> SUBSET Path]
  /\ path \in [Worker -> Path \cup {NoPath}]
  /\ payload \in [Worker -> Nat]
  /\ stat \in [Worker -> Nat]
  /\ count \in [Worker -> Nat]
  /\ znodes \subseteq Znode
  /\ created \in Nat
  /\ conn \in {"connected", "suspended", "expired", "lost"}
  /\ session \in Nat
  /\ sessions \in Nat
  /\ disturbances \in Nat
  /\ overlapped \in BOOLEAN

Init ==
  /\ data = [p \in Path |-> 0]
  /\ version = [p \in Path |-> -1]
  /\ realPath = [p \in Path |-> 0]
  /\ changing = NoPath
  /\ jobs = 0
  /\ lock = NoWorker
  /\ pc = [w \in Worker |-> "idle"]
  /\ left = [w \in Worker |-> {}]
  /\ path = [w \in Worker |-> NoPath]
  /\ payload = [w \in Worker |-> 0]
  /\ stat = [w \in Worker |-> 0]
  /\ count = [w \in Worker |-> 0]
  /\ znodes = {}
  /\ created = 0
  /\ conn = "lost"
  /\ session = 0
  /\ sessions = 0
  /\ disturbances = 0
  /\ overlapped = FALSE

Advertised == {p \in Path : data[p] > 0}

Goto(w, place) == pc' = [pc EXCEPT ![w] = place]

\* The znode of an id, as a set of at most one.
ZnodeAt(id) == {z \in znodes : z.id = id}

-----------------------------------------------------------------------------
(* The main loop.                                                          *)

\* ProactorService.schedule(self._publish_adv_at_proactor_thread)
Schedule == jobs < MaxJobs /\ jobs' = jobs + 1

\* advertise() of a path not advertised before.
AdvertiseNew(p) ==
  /\ changing = NoPath
  /\ data[p] = 0
  /\ data' = [data EXCEPT ![p] = 1]
  /\ Schedule
  /\ UNCHANGED <<version, realPath, changing, workerVars, zkVars, connVars,
                 histVars>>

\* advertise() of one that exists sets the data ...
AdvertiseData(p) ==
  /\ changing = NoPath
  /\ data[p] \in 1..(MaxData - 1)
  /\ data' = [data EXCEPT ![p] = @ + 1]
  /\ changing' = p
  /\ overlapped' = (overlapped \/ lock # NoWorker)
  /\ UNCHANGED <<version, realPath, jobs, workerVars, zkVars, connVars,
                 disturbances>>

\* ... and then the version; a worker may run in between.
AdvertiseVersion ==
  /\ changing \in Path
  /\ version' = [version EXCEPT ![changing] = -1]
  /\ changing' = NoPath
  /\ Schedule
  /\ UNCHANGED <<data, realPath, workerVars, zkVars, connVars, histVars>>

OnTick300 ==
  /\ changing = NoPath
  /\ Advertised # {}
  /\ Schedule
  /\ UNCHANGED <<advVars, changing, workerVars, zkVars, connVars, histVars>>

-----------------------------------------------------------------------------
(* _publish_adv_at_proactor_thread                                         *)

\* Mutant of Begin: nobody asks for the lock.
BeginUnlocked(w) ==
  /\ pc[w] = "idle"
  /\ jobs > 0
  /\ jobs' = jobs - 1
  /\ IF conn = "connected"
       THEN lock' = w /\ Goto(w, "round") /\ count' = [count EXCEPT ![w] = 0]
       ELSE UNCHANGED <<lock, pc, count>>
  /\ UNCHANGED <<advVars, changing, left, path, payload, stat, zkVars, connVars,
                 histVars>>

Begin(w) ==
  /\ pc[w] = "idle"
  /\ jobs > 0
  /\ jobs' = jobs - 1
  /\ IF conn = "connected" /\ lock = NoWorker
       THEN lock' = w /\ Goto(w, "round") /\ count' = [count EXCEPT ![w] = 0]
       ELSE UNCHANGED <<lock, pc, count>>
  /\ UNCHANGED <<advVars, changing, left, path, payload, stat, zkVars, connVars,
                 histVars>>

\* advs = [*self.Advertisments.values()].  Their order is left open.
Round(w) ==
  /\ pc[w] = "round"
  /\ left' = [left EXCEPT ![w] = Advertised]
  /\ Goto(w, "next")
  /\ UNCHANGED <<advVars, changing, jobs, lock, path, payload, stat, count, zkVars,
                 connVars, histVars>>

\* Mutant of Exists: a znode that is gone is not missed.
ExistsKeeps(w) ==
  /\ pc[w] = "next"
  /\ \E p \in left[w] :
       /\ left' = [left EXCEPT ![w] = @ \ {p}]
       /\ path' = [path EXCEPT ![w] = p]
       /\ realPath[p] # 0
       /\ conn = "connected"
       /\ IF ZnodeAt(realPath[p]) = {}
            THEN UNCHANGED <<stat, pc>>
            ELSE /\ \E z \in ZnodeAt(realPath[p]) :
                      stat' = [stat EXCEPT ![w] = z.version]
                 /\ Goto(w, "compare")
  /\ UNCHANGED <<advVars, payload, changing, jobs, lock, count, zkVars, connVars,
                 histVars>>

\* exists() is asked for a znode published before; one that is gone is forgotten.
Exists(w) ==
  /\ pc[w] = "next"
  /\ \E p \in left[w] :
       /\ left' = [left EXCEPT ![w] = @ \ {p}]
       /\ path' = [path EXCEPT ![w] = p]
       /\ realPath[p] # 0
       /\ conn = "connected"
       /\ IF ZnodeAt(realPath[p]) = {}
            THEN /\ realPath' = [realPath EXCEPT ![p] = 0]
                 /\ payload' = [payload EXCEPT ![w] = data[p]]
                 /\ Goto(w, "create")
                 /\ UNCHANGED stat
            ELSE /\ \E z \in ZnodeAt(realPath[p]) :
                      stat' = [stat EXCEPT ![w] = z.version]
                 /\ Goto(w, "compare")
                 /\ UNCHANGED <<realPath, payload>>
  /\ UNCHANGED <<data, version, changing, jobs, lock, count, zkVars, connVars,
                 histVars>>

NeverPublished(w) ==
  /\ pc[w] = "next"
  /\ \E p \in left[w] :
       /\ left' = [left EXCEPT ![w] = @ \ {p}]
       /\ path' = [path EXCEPT ![w] = p]
       /\ realPath[p] = 0
       /\ payload' = [payload EXCEPT ![w] = data[p]]
       /\ Goto(w, "create")
  /\ UNCHANGED <<advVars, changing, jobs, lock, stat, count, zkVars, connVars,
                 histVars>>

\* if stats.version != adv.version: the data is read for the call of set().
Compare(w) ==
  /\ pc[w] = "compare"
  /\ IF stat[w] # version[path[w]]
       THEN payload' = [payload EXCEPT ![w] = data[path[w]]] /\ Goto(w, "set")
       ELSE Goto(w, "next") /\ UNCHANGED payload
  /\ UNCHANGED <<advVars, changing, jobs, lock, left, path, stat, count, zkVars,
                 connVars, histVars>>

Overwritten(z, d) == [id |-> z.id, path |-> z.path, session |-> z.session,
                      data |-> d, version |-> z.version + 1]

\* set() names no version, so it meets no conflict.
Set(w) ==
  /\ pc[w] = "set"
  /\ conn = "connected"
  /\ \E z \in ZnodeAt(realPath[path[w]]) :
       /\ znodes' = (znodes \ {z}) \cup {Overwritten(z, payload[w])}
       /\ stat' = [stat EXCEPT ![w] = z.version + 1]
  /\ Goto(w, "stored")
  /\ UNCHANGED <<advVars, changing, jobs, lock, left, path, payload, count, created,
                 connVars, histVars>>

\* NoNodeError: the znode has gone since exists(), and is created again.
SetGone(w) ==
  /\ pc[w] = "set"
  /\ conn = "connected"
  /\ ZnodeAt(realPath[path[w]]) = {}
  /\ realPath' = [realPath EXCEPT ![path[w]] = 0]
  /\ payload' = [payload EXCEPT ![w] = data[path[w]]]
  /\ Goto(w, "create")
  /\ UNCHANGED <<data, version, changing, jobs, lock, left, path, stat, count,
                 zkVars, connVars, histVars>>

\* adv.version = stats.version, whatever advertise() has put there meanwhile.
StoreVersion(w) ==
  /\ pc[w] = "stored"
  /\ version' = [version EXCEPT ![path[w]] = stat[w]]
  /\ Goto(w, "next")
  /\ UNCHANGED <<data, realPath, changing, jobs, lock, left, path, payload, stat,
                 count, zkVars, connVars, histVars>>

Create(w) ==
  /\ pc[w] = "create"
  /\ conn = "connected"
  /\ created' = created + 1
  /\ znodes' = znodes \cup {[id |-> created', path |-> path[w], session |-> session,
                             data |-> payload[w], version |-> 0]}
  /\ stat' = [stat EXCEPT ![w] = created']
  /\ Goto(w, "created")
  /\ UNCHANGED <<advVars, changing, jobs, lock, left, path, payload, count, connVars,
                 histVars>>

StoreCreated(w) ==
  /\ pc[w] = "created"
  /\ realPath' = [realPath EXCEPT ![path[w]] = stat[w]]
  /\ version' = [version EXCEPT ![path[w]] = 0]
  /\ Goto(w, "next")
  /\ UNCHANGED <<data, changing, jobs, lock, left, path, payload, stat, count,
                 zkVars, connVars, histVars>>

\* The end of a round: another one, if something has changed meanwhile.
EndRound(w) ==
  /\ pc[w] = "next"
  /\ left[w] = {}
  /\ count' = [count EXCEPT ![w] = @ + 1]
  /\ Goto(w, IF /\ conn = "connected"
                /\ count'[w] <= MaxRounds
                /\ \E p \in Advertised : version[p] = -1 \/ realPath[p] = 0
               THEN "round" ELSE "release")
  /\ UNCHANGED <<advVars, changing, jobs, lock, left, path, payload, stat, zkVars,
                 connVars, histVars>>

Leave(w) ==
  /\ lock' = NoWorker
  /\ pc' = [pc EXCEPT ![w] = "idle"]
  /\ left' = [left EXCEPT ![w] = {}]
  /\ path' = [path EXCEPT ![w] = NoPath]
  /\ payload' = [payload EXCEPT ![w] = 0]
  /\ stat' = [stat EXCEPT ![w] = 0]
  /\ count' = [count EXCEPT ![w] = 0]

Release(w) ==
  /\ pc[w] = "release"
  /\ Leave(w)
  /\ UNCHANGED <<advVars, changing, jobs, zkVars, connVars, histVars>>

-----------------------------------------------------------------------------
(* ZooKeeper and the connection (external).                                *)

\* A call outstanding when the connection breaks may raise, whether the server
\* applied it or not: "except Exception", and the lock is released.
FailCall ==
  \/ UNCHANGED workerVars
  \/ \E w \in Worker : pc[w] \notin {"idle", "round", "release"} /\ Leave(w)

\* Connecting schedules _on_connected_at_proactor_thread, which publishes.
Connect ==
  /\ conn = "lost"
  /\ conn' = "connected"
  /\ sessions' = sessions + 1
  /\ session' = sessions'
  /\ jobs' = jobs + 1
  /\ UNCHANGED <<advVars, changing, workerVars, zkVars, histVars>>

Reconnect ==
  /\ conn = "suspended"
  /\ conn' = "connected"
  /\ jobs' = jobs + 1
  /\ UNCHANGED <<advVars, changing, workerVars, zkVars, session, sessions,
                 histVars>>

Suspend ==
  /\ conn = "connected"
  /\ disturbances < MaxDisturbances
  /\ disturbances' = disturbances + 1
  /\ UNCHANGED overlapped
  /\ conn' = "suspended"
  /\ FailCall
  /\ UNCHANGED <<advVars, changing, jobs, zkVars, session, sessions>>

\* The client gives up, or learns that its session has expired.
Lose ==
  /\ conn \in {"suspended", "expired"}
  /\ conn' = "lost"
  /\ session' = 0
  /\ FailCall
  /\ UNCHANGED <<advVars, changing, jobs, zkVars, sessions, histVars>>

Drop(s) == znodes' = {z \in znodes : z.session # s}

Expire ==
  /\ conn = "suspended"
  /\ conn' = "expired"
  /\ Drop(session)
  /\ UNCHANGED <<advVars, changing, jobs, workerVars, created, session, sessions,
                 histVars>>

\* The server expires a session its client has given up.
ExpireAbandoned ==
  /\ \E z \in znodes : z.session # session /\ Drop(z.session)
  /\ UNCHANGED <<advVars, changing, jobs, workerVars, created, connVars, histVars>>

-----------------------------------------------------------------------------
Publication(w) ==
  \/ Begin(w) \/ Round(w) \/ Exists(w) \/ NeverPublished(w) \/ Compare(w) \/ Set(w)
  \/ SetGone(w) \/ StoreVersion(w) \/ Create(w) \/ StoreCreated(w) \/ EndRound(w) \/ Release(w)

Advertise == \E p \in Path : AdvertiseNew(p) \/ AdvertiseData(p)

Client == Connect \/ Reconnect \/ Suspend \/ Lose \/ Expire \/ ExpireAbandoned

Next ==
  \/ \E w \in Worker : Publication(w)
  \/ Advertise \/ AdvertiseVersion \/ OnTick300 \/ Client

Spec == Init /\ [][Next]_vars

\* Workers run, advertise() returns, the ticks go on, kazoo connects again and
\* the server expires the sessions that nobody keeps alive.
Fairness ==
  /\ \A w \in Worker : WF_vars(Publication(w))
  /\ WF_vars(AdvertiseVersion)
  /\ WF_vars(OnTick300)
  /\ WF_vars(Connect \/ Reconnect \/ Lose)
  /\ WF_vars(ExpireAbandoned)

FairSpec == Spec /\ Fairness

-----------------------------------------------------------------------------
(* Properties.                                                             *)

Published(p) == \E z \in ZnodeAt(realPath[p]) : z.session = session /\ z.data = data[p]

\* No write of a publication replaces advertised data by older data, although
\* set() names no version: AdvertismentsLock orders the writers.
NeverOlder ==
  [][\A z \in znodes, z2 \in znodes' : z.id = z2.id => z.data <= z2.data]_vars

\* Everything advertised is published under the session the client has, unless
\* advertise() has changed data while a publication ran.
AllPublished == overlapped \/ (conn = "connected" /\ \A p \in Advertised : Published(p))
=============================================================================
