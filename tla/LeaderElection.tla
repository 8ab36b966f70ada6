--------------------------- MODULE LeaderElection ---------------------------
(***************************************************************************)
(* LeaderService (src/asab/zookeeper/leader_svc.py): instances of one      *)
(* application elect a leader by creating an ephemeral znode.              *)
(*                                                                         *)
(* Three parties act on an instance's leadership concurrently:             *)
(*   - worker threads (the proactor pool, kazoo's watch thread) run the    *)
(*     election, the step-down and the set-up, one at a time, under        *)
(*     _election_lock;                                                     *)
(*   - the main event loop runs the handlers of CONNECTED, SUSPENDED and   *)
(*     LOST, and the ticks, WITHOUT the lock;                              *)
(*   - kazoo and the ZooKeeper server change the connection, the session   *)
(*     and the znode (external: modelled from how src/ uses them).         *)
(*                                                                         *)
(* One action is what one of them does between two points at which another *)
(* may interleave.  A ZooKeeper call made by a thread waits until the      *)
(* client is connected, takes effect at the server in one step, and may    *)
(* fail with a KazooException whenever the connection breaks, whether the  *)
(* server applied it or not.                                               *)
(***************************************************************************)
EXTENDS Naturals, Sequences

CONSTANTS
  Instance,         \* the application instances that share one election scope
  Nobody,           \* stands for "no instance"
  Suspending,       \* the instances whose connection may break
  Crashing,         \* the instances whose process may crash and restart
  Resigning,        \* the instances that may call StepDown() and SetUp()
  MaxDisturbances,  \* bound: breaks, crashes, StepDown() and SetUp() calls
  MaxLoop           \* bound: a tick or an API call needs a shorter loop queue

ASSUME NobodyAssumption == Nobody \notin Instance
ASSUME BoundAssumption == MaxDisturbances \in Nat /\ MaxLoop \in Nat

VARIABLES
  node,           \* the election znode: its creator, session and czxid
  zxid,           \* the transaction id of the last creation of the znode
  sessions,       \* how many sessions the server has opened
  conn,           \* the client's connection; "expired" is suspended to the client
  session,        \* the client's session id, 0 without one
  participating,  \* _participating
  leaderZxid,     \* _leader_zxid, 0 for None
  key,            \* is _election_key what the running election stored in it
  todo,           \* jobs that wait for a thread or for _election_lock
  pc,             \* where the thread that holds _election_lock is
  reply,          \* that thread's result of create() or get()
  mine,           \* that thread's leader_zxid, in a step-down
  loop,           \* callbacks and tasks queued on the main event loop, in order
  announced,      \* was LEADER! the last LeaderService.state event published
  disturbances    \* disturbances so far

zkVars      == <<node, zxid, sessions>>
clientVars  == <<conn, session>>
threadVars  == <<pc, reply, mine>>
loopVars    == <<loop, announced>>
vars == <<zkVars, clientVars, participating, leaderZxid, key, todo, threadVars,
          loopVars, disturbances>>

Znode  == [owner : Instance \cup {Nobody}, session : Nat, czxid : Nat]
NoNode == [owner |-> Nobody, session |-> 0, czxid |-> 0]
Job    == {"elect", "stepDown", "setUp"}
Pc     == {"idle", "create", "get", "check", "won", "claim", "recheck",
           "announce", "sdGet", "sdDelete", "sdDone"}

\* What is queued on the loop: the connection events of the container, the task
\* the async handler of LOST becomes, and the events the threads publish.
Callback == {"SUSPENDED", "LOST", "onLost", "LEADER", "FOLLOWER"}

\* Places where the thread that holds the lock is inside a ZooKeeper call: not
\* sent or not answered in the first set, applied but not answered in the other.
Calling  == {"create", "get", "sdGet", "sdDelete"}
Answered == {"check", "won", "sdDone"}

TypeOK ==
  /\ node \in Znode
  /\ zxid \in Nat
  /\ sessions \in Nat
  /\ conn \in [Instance -> {"connected", "suspended", "expired", "lost"}]
  /\ session \in [Instance -> Nat]
  /\ participating \in [Instance -> BOOLEAN]
  /\ leaderZxid \in [Instance -> Nat]
  /\ key \in [Instance -> BOOLEAN]
  /\ todo \in [Instance -> SUBSET Job]
  /\ pc \in [Instance -> Pc]
  /\ reply \in [Instance -> Znode]
  /\ mine \in [Instance -> Nat]
  /\ loop \in [Instance -> Seq(Callback)]
  /\ announced \in [Instance -> BOOLEAN]
  /\ disturbances \in Nat

Init ==
  /\ node = NoNode
  /\ zxid = 0
  /\ sessions = 0
  /\ conn = [i \in Instance |-> "lost"]
  /\ session = [i \in Instance |-> 0]
  /\ participating = [i \in Instance |-> TRUE]
  /\ leaderZxid = [i \in Instance |-> 0]
  /\ key = [i \in Instance |-> FALSE]
  /\ todo = [i \in Instance |-> {}]
  /\ pc = [i \in Instance |-> "idle"]
  /\ reply = [i \in Instance |-> NoNode]
  /\ mine = [i \in Instance |-> 0]
  /\ loop = [i \in Instance |-> <<>>]
  /\ announced = [i \in Instance |-> FALSE]
  /\ disturbances = 0

-----------------------------------------------------------------------------
(* Helpers.                                                                *)

IsLeader(i) == leaderZxid[i] # 0

\* publish_threadsafe(): call_soon_threadsafe() appends to the loop's queue.
Enqueue(i, e) == loop' = [loop EXCEPT ![i] = Append(@, e)]

Request(i, job) == todo' = [todo EXCEPT ![i] = @ \cup {job}]

Goto(i, place) == pc' = [pc EXCEPT ![i] = place]

\* The thread leaves the "with self._election_lock" block.
Release(i) ==
  /\ pc' = [pc EXCEPT ![i] = "idle"]
  /\ reply' = [reply EXCEPT ![i] = NoNode]
  /\ mine' = [mine EXCEPT ![i] = 0]

Claim(i, z) == leaderZxid' = [leaderZxid EXCEPT ![i] = z]

Disturb ==
  /\ disturbances < MaxDisturbances
  /\ disturbances' = disturbances + 1

Room(i) == Len(loop[i]) < MaxLoop

\* _on_zk_ready() only schedules setup(), whose election waits for the lock like
\* any other; both are taken together with the event that leads to them.
OnZkReady(i) == Request(i, "elect")

-----------------------------------------------------------------------------
(* ZooKeeper: the server, and kazoo's view of the connection (external).   *)

\* kazoo connects and is given a new session (the first time, or after LOST,
\* when ZooKeeperContainer._on_tick60 starts the client again).
Connect(i) ==
  /\ conn[i] = "lost"
  /\ sessions' = sessions + 1
  /\ session' = [session EXCEPT ![i] = sessions']
  /\ conn' = [conn EXCEPT ![i] = "connected"]
  /\ OnZkReady(i)
  /\ UNCHANGED <<node, zxid, participating, leaderZxid, key, threadVars,
                 loopVars, disturbances>>

\* A call of the lock holder that is outstanding when its connection breaks may
\* fail; the exception leaves the lock (a step-down catches it and returns).
FailCall(i) ==
  \/ pc[i] \in Calling \cup Answered /\ Release(i)
  \/ UNCHANGED threadVars

\* The connection breaks; the session may go on.
Suspend(i) ==
  /\ i \in Suspending
  /\ conn[i] = "connected"
  /\ Disturb
  /\ conn' = [conn EXCEPT ![i] = "suspended"]
  /\ FailCall(i)
  /\ Enqueue(i, "SUSPENDED")
  /\ UNCHANGED <<zkVars, session, participating, leaderZxid, key, todo, announced>>

\* The client reaches a server again before its session has expired.
Reconnect(i) ==
  /\ conn[i] = "suspended"
  /\ conn' = [conn EXCEPT ![i] = "connected"]
  /\ OnZkReady(i)
  /\ UNCHANGED <<zkVars, session, participating, leaderZxid, key, threadVars,
                 loopVars, disturbances>>

\* The client learns that its session expired, or gives up (KazooWrapper allows
\* it two tries) while the server still holds the session to be alive.
Lose(i) ==
  /\ conn[i] \in {"suspended", "expired"}
  /\ conn' = [conn EXCEPT ![i] = "lost"]
  /\ session' = [session EXCEPT ![i] = 0]
  /\ FailCall(i)
  /\ Enqueue(i, "LOST")
  /\ UNCHANGED <<zkVars, participating, leaderZxid, key, todo, announced, disturbances>>

\* The server expires a session it no longer hears from; the ephemeral znode goes
\* with it.  The client is told when it reaches a server again.
Expire(i) ==
  /\ conn[i] = "suspended"
  /\ conn' = [conn EXCEPT ![i] = "expired"]
  /\ node' = IF node.session = session[i] THEN NoNode ELSE node
  /\ UNCHANGED <<zxid, sessions, session, participating, leaderZxid, key, todo,
                 threadVars, loopVars, disturbances>>

\* The same for a session its client has given up.
ExpireAbandoned ==
  /\ node # NoNode
  /\ \A i \in Instance : session[i] # node.session
  /\ node' = NoNode
  /\ UNCHANGED <<zxid, sessions, clientVars, participating, leaderZxid, key, todo,
                 threadVars, loopVars, disturbances>>

\* The process dies and a new one starts; the server still holds the session.
Crash(i) ==
  /\ i \in Crashing
  /\ session[i] # 0
  /\ Disturb
  /\ conn' = [conn EXCEPT ![i] = "lost"]
  /\ session' = [session EXCEPT ![i] = 0]
  /\ participating' = [participating EXCEPT ![i] = TRUE]
  /\ Claim(i, 0)
  /\ key' = [key EXCEPT ![i] = FALSE]
  /\ todo' = [todo EXCEPT ![i] = {}]
  /\ Release(i)
  /\ loop' = [loop EXCEPT ![i] = <<>>]
  /\ announced' = [announced EXCEPT ![i] = FALSE]
  /\ UNCHANGED zkVars

-----------------------------------------------------------------------------
(* The main event loop of an instance: no action here takes the lock.      *)

NextUp(i, e) == loop[i] # <<>> /\ Head(loop[i]) = e
Consume(i)  == loop' = [loop EXCEPT ![i] = Tail(@)]

\* _on_zk_lost is async: it runs as a task that joins the end of the queue.
DeferLost(i) ==
  /\ NextUp(i, "LOST")
  /\ loop' = [loop EXCEPT ![i] = Append(Tail(@), "onLost")]
  /\ UNCHANGED <<zkVars, clientVars, participating, leaderZxid, key, todo,
                 threadVars, announced, disturbances>>

OnZkSuspended(i) ==
  /\ NextUp(i, "SUSPENDED")
  /\ Consume(i)
  /\ key' = [key EXCEPT ![i] = FALSE]
  /\ UNCHANGED <<zkVars, clientVars, participating, leaderZxid, todo, threadVars,
                 announced, disturbances>>

OnZkLost(i) ==
  /\ NextUp(i, "onLost")
  /\ Consume(i)
  /\ key' = [key EXCEPT ![i] = FALSE]
  /\ Claim(i, 0)
  /\ announced' = [announced EXCEPT ![i] = FALSE]
  /\ UNCHANGED <<zkVars, clientVars, participating, todo, threadVars, disturbances>>

\* in_main_thread() of publish_threadsafe(): the subscribers are called.
Publish(i) ==
  \E e \in {"LEADER", "FOLLOWER"} :
    /\ NextUp(i, e)
    /\ Consume(i)
    /\ announced' = [announced EXCEPT ![i] = (e = "LEADER")]
    /\ UNCHANGED <<zkVars, clientVars, participating, leaderZxid, key, todo,
                   threadVars, disturbances>>

\* Mutant of OnTick60: participating followers do not ask for an election.
OnTick60NeverElects(i) ==
  /\ Room(i)
  /\ ~participating[i] /\ IsLeader(i)
  /\ Request(i, "stepDown")
  /\ UNCHANGED <<zkVars, clientVars, participating, leaderZxid, key, threadVars,
                 loopVars, disturbances>>

\* Application.tick/60!, and the watch callback _on_change_zookeeper_thread: both
\* look at the claim before any thread takes the lock.  The watch is recursive on
\* a path that every scope shares, so its callback may come at any time.
OnTick60(i) ==
  /\ Room(i)
  /\ IF participating[i]
       THEN ~IsLeader(i) /\ Request(i, "elect")
       ELSE IsLeader(i) /\ Request(i, "stepDown")
  /\ UNCHANGED <<zkVars, clientVars, participating, leaderZxid, key, threadVars,
                 loopVars, disturbances>>

\* The application calls StepDown().
StepDown(i) ==
  /\ i \in Resigning
  /\ Room(i)
  /\ Disturb
  /\ Request(i, "stepDown")
  /\ UNCHANGED <<zkVars, clientVars, participating, leaderZxid, key, threadVars,
                 loopVars>>

\* The application calls SetUp().
SetUp(i) ==
  /\ i \in Resigning
  /\ Room(i)
  /\ Disturb
  /\ Request(i, "setUp")
  /\ UNCHANGED <<zkVars, clientVars, participating, leaderZxid, key, threadVars,
                 loopVars>>

-----------------------------------------------------------------------------
(* _election_thread, step by step under _election_lock.                    *)

\* Mutant of ElectBegin: an election does not ask whether it takes part.
ElectBeginAnyway(i) ==
  /\ pc[i] = "idle"
  /\ "elect" \in todo[i]
  /\ todo' = [todo EXCEPT ![i] = @ \ {"elect"}]
  /\ IF conn[i] = "connected"
       THEN key' = [key EXCEPT ![i] = TRUE] /\ Goto(i, "create")
       ELSE UNCHANGED <<key, pc>>
  /\ UNCHANGED <<zkVars, clientVars, participating, leaderZxid, reply, mine,
                 loopVars, disturbances>>

\* The lock is taken and the key stored, unless there is no connection.  (A break
\* between capturing the key and storing it leaves what one before both leaves.)
ElectBegin(i) ==
  /\ pc[i] = "idle"
  /\ "elect" \in todo[i]
  /\ todo' = [todo EXCEPT ![i] = @ \ {"elect"}]
  /\ IF participating[i] /\ conn[i] = "connected"
       THEN key' = [key EXCEPT ![i] = TRUE] /\ Goto(i, "create")
       ELSE UNCHANGED <<key, pc>>
  /\ UNCHANGED <<zkVars, clientVars, participating, leaderZxid, reply, mine,
                 loopVars, disturbances>>

ElectCreate(i) ==
  /\ pc[i] = "create"
  /\ conn[i] = "connected"
  /\ node = NoNode
  /\ zxid' = zxid + 1
  /\ node' = [owner |-> i, session |-> session[i], czxid |-> zxid']
  /\ reply' = [reply EXCEPT ![i] = node']
  /\ Goto(i, "won")
  /\ UNCHANGED <<sessions, clientVars, participating, leaderZxid, key,
                 todo, mine, loopVars, disturbances>>

\* NodeExistsError
ElectExists(i) ==
  /\ pc[i] = "create"
  /\ conn[i] = "connected"
  /\ node # NoNode
  /\ Goto(i, "get")
  /\ UNCHANGED <<zkVars, clientVars, participating, leaderZxid, key, todo, reply,
                 mine, loopVars, disturbances>>

\* NoNodeError, when the znode went away meanwhile, is not caught.
ElectGet(i) ==
  /\ pc[i] = "get"
  /\ conn[i] = "connected"
  /\ IF node = NoNode
       THEN Release(i)
       ELSE /\ reply' = [reply EXCEPT ![i] = node]
            /\ Goto(i, "check")
            /\ UNCHANGED mine
  /\ UNCHANGED <<zkVars, clientVars, participating, leaderZxid, key, todo,
                 loopVars, disturbances>>

\* Mutant of ElectCheck: the czxid read from the znode becomes the claim.
ElectCheckAdopts(i) ==
  /\ pc[i] = "check"
  /\ Release(i)
  /\ IF key[i] THEN Claim(i, reply[i].czxid) ELSE UNCHANGED leaderZxid
  /\ UNCHANGED <<zkVars, clientVars, participating, key, todo, loopVars, disturbances>>

\* Mutant of ElectCheck: who follows already says nothing.
ElectCheckQuiet(i) ==
  /\ pc[i] = "check"
  /\ Release(i)
  /\ IF key[i] /\ reply[i].czxid # leaderZxid[i] /\ IsLeader(i)
       THEN Claim(i, 0) /\ Enqueue(i, "FOLLOWER")
       ELSE UNCHANGED <<leaderZxid, loop>>
  /\ UNCHANGED <<zkVars, clientVars, participating, key, todo, announced, disturbances>>

\* The znode is somebody's: still mine, or I follow.
ElectCheck(i) ==
  /\ pc[i] = "check"
  /\ Release(i)
  /\ IF key[i] /\ reply[i].czxid # leaderZxid[i]
       THEN Claim(i, 0) /\ Enqueue(i, "FOLLOWER")
       ELSE UNCHANGED <<leaderZxid, loop>>
  /\ UNCHANGED <<zkVars, clientVars, participating, key, todo, announced, disturbances>>

ElectWon(i) ==
  /\ pc[i] = "won"
  /\ IF key[i]
       THEN Goto(i, "claim") /\ UNCHANGED <<reply, mine, loop>>
       ELSE Release(i) /\ Enqueue(i, "FOLLOWER")
  /\ UNCHANGED <<zkVars, clientVars, participating, leaderZxid, key, todo,
                 announced, disturbances>>

ElectClaim(i) ==
  /\ pc[i] = "claim"
  /\ Claim(i, reply[i].czxid)
  /\ Goto(i, "recheck")
  /\ UNCHANGED <<zkVars, clientVars, participating, key, todo, reply, mine,
                 loopVars, disturbances>>

\* Mutant of ElectRecheck: the key is not looked at again.
ElectRecheckBlind(i) ==
  /\ pc[i] = "recheck"
  /\ Goto(i, "announce")
  /\ UNCHANGED <<zkVars, clientVars, participating, leaderZxid, key, todo, reply,
                 mine, loopVars, disturbances>>

ElectRecheck(i) ==
  /\ pc[i] = "recheck"
  /\ IF key[i]
       THEN Goto(i, "announce") /\ UNCHANGED <<reply, mine, leaderZxid>>
       ELSE Release(i) /\ Claim(i, 0)
  /\ UNCHANGED <<zkVars, clientVars, participating, key, todo, loopVars, disturbances>>

ElectAnnounce(i) ==
  /\ pc[i] = "announce"
  /\ Enqueue(i, "LEADER")
  /\ Release(i)
  /\ UNCHANGED <<zkVars, clientVars, participating, leaderZxid, key, todo,
                 announced, disturbances>>

-----------------------------------------------------------------------------
(* _step_down_thread and _set_up_thread, under _election_lock.             *)

StepDownBegin(i) ==
  /\ pc[i] = "idle"
  /\ "stepDown" \in todo[i]
  /\ todo' = [todo EXCEPT ![i] = @ \ {"stepDown"}]
  /\ participating' = [participating EXCEPT ![i] = FALSE]
  /\ key' = [key EXCEPT ![i] = FALSE]
  /\ IF IsLeader(i)
       THEN /\ mine' = [mine EXCEPT ![i] = leaderZxid[i]]
            /\ Goto(i, "sdGet")
            /\ UNCHANGED <<reply, loop>>
       ELSE /\ Enqueue(i, "FOLLOWER")
            /\ UNCHANGED threadVars
  /\ UNCHANGED <<zkVars, clientVars, leaderZxid, announced, disturbances>>

StepDownGet(i) ==
  /\ pc[i] = "sdGet"
  /\ conn[i] = "connected"
  /\ Goto(i, IF node # NoNode /\ node.czxid = mine[i] THEN "sdDelete" ELSE "sdDone")
  /\ UNCHANGED <<zkVars, clientVars, participating, leaderZxid, key, todo, reply,
                 mine, loopVars, disturbances>>

\* delete(path) names no version: it deletes whatever znode is there now.
StepDownDelete(i) ==
  /\ pc[i] = "sdDelete"
  /\ conn[i] = "connected"
  /\ node' = NoNode
  /\ Goto(i, "sdDone")
  /\ UNCHANGED <<zxid, sessions, clientVars, participating, leaderZxid, key,
                 todo, reply, mine, loopVars, disturbances>>

StepDownDone(i) ==
  /\ pc[i] = "sdDone"
  /\ Claim(i, 0)
  /\ Enqueue(i, "FOLLOWER")
  /\ Release(i)
  /\ UNCHANGED <<zkVars, clientVars, participating, key, todo, announced, disturbances>>

SetUpThread(i) ==
  /\ pc[i] = "idle"
  /\ "setUp" \in todo[i]
  /\ participating' = [participating EXCEPT ![i] = TRUE]
  /\ todo' = [todo EXCEPT ![i] = (@ \ {"setUp"}) \cup {"elect"}]
  /\ UNCHANGED <<zkVars, clientVars, leaderZxid, key, threadVars, loopVars, disturbances>>

-----------------------------------------------------------------------------
ElectionThread(i) ==
  \/ ElectBegin(i) \/ ElectCreate(i) \/ ElectExists(i) \/ ElectGet(i)
  \/ ElectCheck(i) \/ ElectWon(i) \/ ElectClaim(i) \/ ElectRecheck(i)
  \/ ElectAnnounce(i)

StepDownThread(i) ==
  StepDownBegin(i) \/ StepDownGet(i) \/ StepDownDelete(i) \/ StepDownDone(i)

Threads(i) ==
  ElectionThread(i) \/ StepDownThread(i) \/ SetUpThread(i)

MainLoop(i) ==
  DeferLost(i) \/ OnZkSuspended(i) \/ OnZkLost(i) \/ Publish(i)

Client(i) ==
  Connect(i) \/ Suspend(i) \/ Reconnect(i) \/ Lose(i) \/ Expire(i) \/ Crash(i)

Next ==
  \/ \E i \in Instance : \/ Threads(i) \/ MainLoop(i) \/ Client(i)
                         \/ OnTick60(i) \/ StepDown(i) \/ SetUp(i)
  \/ ExpireAbandoned

Spec == Init /\ [][Next]_vars

\* Threads run, the loop and its ticks go on, kazoo connects again and the
\* server expires the sessions nobody keeps alive.  Nothing makes an application call
\* the API, a connection break or a process crash.
Fairness ==
  /\ \A i \in Instance :
       /\ WF_vars(Threads(i))
       /\ WF_vars(MainLoop(i))
       /\ WF_vars(OnTick60(i))
       /\ WF_vars(Connect(i) \/ Reconnect(i) \/ Lose(i))
  /\ WF_vars(ExpireAbandoned)

FairSpec == Spec /\ Fairness

-----------------------------------------------------------------------------
(* Properties.                                                             *)

\* No two instances ever believe in the same election: a claim is the czxid of
\* a znode that its holder created, and NodeExistsError never makes a follower
\* adopt the czxid it read (leader_svc.py, _election_thread).
ClaimsDistinct ==
  \A i, j \in Instance : IsLeader(i) /\ leaderZxid[i] = leaderZxid[j] => i = j

\* Whose claim is the znode that is there now, is the one who created it.
ClaimIsOwnNode ==
  \A i \in Instance :
    IsLeader(i) /\ leaderZxid[i] = node.czxid
      => node.owner = i

\* The loss of the session is on its way to the instance's main loop.
LossPending(i) ==
  conn[i] = "lost" \/ \E k \in DOMAIN loop[i] : loop[i][k] \in {"LOST", "onLost"}

\* A leader that has a session, and no loss of one still to be told, holds the
\* znode under that very session: what IsLeader() promises while the client is
\* connected.  The two places where its own thread is about to correct the
\* claim are left out: "recheck", and a step-down that has deleted the znode.
LeaderHoldsNode ==
  \A i \in Instance :
    /\ IsLeader(i)
    /\ conn[i] = "connected"
    /\ ~LossPending(i)
    /\ pc[i] \notin {"recheck", "sdDone"}
    => node = [owner |-> i, session |-> session[i], czxid |-> leaderZxid[i]]

\* An instance gains a claim only in the election and only while it takes part:
\* after StepDown has run, no election that was in flight or was waiting for
\* the lock makes it the leader again before SetUp.
NoClaimAfterStepDown ==
  [][\A i \in Instance :
       leaderZxid'[i] \notin {0, leaderZxid[i]} => participating[i] /\ pc[i] = "claim"]_vars

\* Threads queue LEADER! behind what the loop has published already, so that a loss may be
\* told before the claim it ended is (_election_thread, _on_zk_lost), and a claim withdrawn
\* at "recheck" is withdrawn without a word.  But no such announcement stays: when the
\* breaks and crashes are over, who announced LEADER! last leads, and nobody else does.
AnnouncementsSettle ==
  <>[](\A i \in Instance : announced[i] <=> IsLeader(i))

\* When the breaks, crashes and calls are over, somebody leads, holds the znode
\* and has announced it, and nobody else's last announcement is LEADER!.
EventuallyLed ==
  <>[](\E i \in Instance :
         /\ IsLeader(i) /\ node.czxid = leaderZxid[i]
         /\ announced[i] /\ \A j \in Instance \ {i} : ~announced[j])
=============================================================================
