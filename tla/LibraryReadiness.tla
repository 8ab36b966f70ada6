-------------------------- MODULE LibraryReadiness --------------------------
(***************************************************************************)
(* Readiness of the library and its list of disabled items                 *)
(* (asab/library/service.py, asab/library/providers/zookeeper.py), for a   *)
(* library whose layers are all ZooKeeper providers, each with a container *)
(* and a client of its own.                                                *)
(*                                                                         *)
(* The handlers of CONNECTED and the reads of '/.disabled.yaml' are        *)
(* coroutines of the event loop.  Each of them waits for calls that a      *)
(* thread makes, and anything may happen while it waits: a task is one     *)
(* such coroutine with the call it waits for.                              *)
(*                                                                         *)
(* What subscribers are told of the disabled items is left out.            *)
(***************************************************************************)
EXTENDS Naturals, Sequences

CONSTANTS
  Providers,      \* the providers of the library
  Top,            \* the first of them, which owns '/.disabled.yaml'
  Lists,          \* lists of disabled items that an editor may write
  Nothing,        \* the list that disables nothing
  Tasks,          \* slots for the coroutines: the bound on those that run at once
  MaxBreaks,      \* bound on the breaks of connections
  MaxEdits        \* bound on the edits of '/.disabled.yaml'

ASSUME ProvidersAssumption == Top \in Providers /\ Nothing \notin Lists
ASSUME BoundsAssumption == MaxBreaks \in Nat /\ MaxEdits \in Nat

VARIABLES
  state,          \* the state that the kazoo client of a provider has told last
  events,         \* ZooKeeperContainer.state/ messages on their way to a provider
  isReady,        \* IsReady of each provider
  isReadyLast,    \* __is_ready_last, which LibraryReadyEvent repeats
  task,           \* what each task waits for
  pending,        \* reads with publish_changes that are scheduled in TaskService
  file,           \* the content of '/.disabled.yaml'
  seen,           \* what the DisabledWatch of Top has seen last
  disabled,       \* Disabled and DisabledPaths
  breaks, edits   \* how many there were

env == <<state, file, breaks, edits>>
vars == <<state, events, isReady, isReadyLast, task, pending, file, seen,
          disabled, breaks, edits>>

\* Besides a list there may be none: the file is missing, empty or cannot be
\* parsed.  What parses as neither a mapping nor a set is left out: it makes
\* _read_disabled() raise.
Contents == Lists \cup {"no list"}
Parsed(content) == IF content \in Lists THEN content ELSE Nothing

\* A task waits for the installation of a watch, for an answer of ZooKeeper to
\* a read, for the loop to resume it with the answer, or for '/.favorites.yaml'.
Steps == {"idle", "version", "watch", "read", "resume", "favorites"}

States == {"CONNECTED", "SUSPENDED", "LOST"}

\* A read of '/.disabled.yaml' belongs to a handler of CONNECTED, or was started
\* by a tick or by the watch.
TaskRecord == [step: Steps, kind: {"handler", "reload"}, provider: Providers,
               broken: BOOLEAN, content: Contents]

TypeOK ==
  /\ state \in [Providers -> States]
  /\ events \in [Providers -> Seq(States)]
  /\ isReady \in [Providers -> BOOLEAN]
  /\ isReadyLast \in BOOLEAN
  /\ task \in [Tasks -> TaskRecord]
  /\ pending \in Nat
  /\ file \in Contents
  /\ seen \in Contents \cup {"no watch", "unseen"}
  /\ disabled \in Lists \cup {Nothing}
  /\ breaks \in Nat
  /\ edits \in Nat

Idle == [step |-> "idle", kind |-> "reload", provider |-> Top, broken |-> FALSE,
         content |-> "no list"]

Init ==
  /\ state = [p \in Providers |-> "LOST"]
  /\ events = [p \in Providers |-> <<>>]
  /\ isReady = [p \in Providers |-> FALSE]
  /\ isReadyLast = FALSE
  /\ task = [t \in Tasks |-> Idle]
  /\ pending = 0
  /\ file \in Contents
  /\ seen = "no watch"
  /\ disabled = Nothing
  /\ breaks = 0
  /\ edits = 0
-----------------------------------------------------------------------------
(* Editors, ZooKeeper and its client.                                      *)

Edit(content) ==
  /\ edits < MaxEdits
  /\ content # file
  /\ file' = content
  /\ edits' = edits + 1
  /\ UNCHANGED <<state, events, isReady, isReadyLast, task, pending, seen,
                 disabled, breaks>>

\* The listener of the container posts every new state to the loop.
Post(p, s) == /\ state' = [state EXCEPT ![p] = s]
              /\ events' = [events EXCEPT ![p] = Append(@, s)]

Connect(p) ==
  /\ state[p] # "CONNECTED"
  /\ Post(p, "CONNECTED")
  /\ UNCHANGED <<isReady, isReadyLast, task, pending, file, seen, disabled,
                 breaks, edits>>

\* A break may make the calls fail that are under way.
Suspend(p) ==
  /\ breaks < MaxBreaks
  /\ state[p] = "CONNECTED"
  /\ Post(p, "SUSPENDED")
  /\ breaks' = breaks + 1
  /\ task' = [t \in Tasks |-> IF task[t].step # "idle" /\ task[t].provider = p
                                THEN [task[t] EXCEPT !.broken = TRUE]
                                ELSE task[t]]
  /\ UNCHANGED <<isReady, isReadyLast, pending, file, seen, disabled, edits>>

Lose(p) ==
  /\ state[p] = "SUSPENDED"
  /\ Post(p, "LOST")
  /\ UNCHANGED <<isReady, isReadyLast, task, pending, file, seen, disabled,
                 breaks, edits>>

\* on_disabled_changed: a DataWatch calls it, on a thread of kazoo, with every
\* content that differs from the last one it has seen.
OnDisabledChanged ==
  /\ state[Top] = "CONNECTED"
  /\ seen \notin {"no watch", file}
  /\ seen' = file
  /\ pending' = pending + 1
  /\ UNCHANGED <<env, events, isReady, isReadyLast, task, disabled>>
-----------------------------------------------------------------------------
(* Handlers and coroutines of the event loop.                              *)

AllReady(ready) == \A p \in Providers : ready[p]

\* LibraryService._set_ready, from the computation of the edge on.
Edge(ready) == isReadyLast' = AllReady(ready)

\* What a task is when it has just begun to wait for a call of provider p.
Waiting(step, kind, p) ==
  [step |-> step, kind |-> kind, provider |-> p, broken |-> state[p] # "CONNECTED",
   content |-> "no list"]

\* _read_disabled() up to its only await.
Reading(kind) == Waiting("read", kind, Top)

OnConnected(p, t) ==
  /\ task[t] = Idle
  /\ events[p] # <<>> /\ Head(events[p]) = "CONNECTED"
  /\ events' = [events EXCEPT ![p] = Tail(@)]
  /\ task' = [task EXCEPT ![t] = Waiting("version", "handler", p)]
  /\ UNCHANGED <<env, isReady, isReadyLast, pending, seen, disabled>>

\* _on_zk_lost(), of LOST and of SUSPENDED.  It never waits: _set_ready() reads
\* nothing for a provider that is not ready.
OnLost(p) ==
  /\ events[p] # <<>> /\ Head(events[p]) # "CONNECTED"
  /\ events' = [events EXCEPT ![p] = Tail(@)]
  /\ isReady' = [isReady EXCEPT ![p] = FALSE]
  /\ Edge(isReady')
  /\ UNCHANGED <<env, task, pending, seen, disabled>>

\* install_watcher() returns.  A DataWatch swallows ConnectionClosedError, so
\* the installation may return without a connection too.
VersionWatched(t) ==
  /\ task[t].step = "version"
  /\ task' = [task EXCEPT ![t] = Waiting("watch", "handler", task[t].provider)]
  /\ UNCHANGED <<env, events, isReady, isReadyLast, pending, seen, disabled>>

\* A new watch calls on_disabled_changed with what it finds; the watch of
\* another layer watches a file that the library never reads.
InstallDisabledWatch(p) ==
  /\ pending' = IF state[p] = "CONNECTED" THEN pending + 1 ELSE pending
  /\ seen' = CASE p # Top -> seen
               [] p = Top /\ state[p] = "CONNECTED" -> file
               [] OTHER -> IF seen = "no watch" THEN "unseen" ELSE seen

\* install_disabled_watcher() returns and the handler goes on: IsReady is set,
\* the first provider reads '/.disabled.yaml', any other computes the edge.
DisabledWatched(t) ==
  LET p == task[t].provider IN
  /\ task[t].step = "watch"
  /\ InstallDisabledWatch(p)
  /\ isReady' = [isReady EXCEPT ![p] = TRUE]
  /\ IF p = Top
       THEN /\ task' = [task EXCEPT ![t] = Reading("handler")]
            /\ UNCHANGED isReadyLast
       ELSE /\ task' = [task EXCEPT ![t] = Idle]
            /\ Edge(isReady')
  /\ UNCHANGED <<env, events, disabled>>

\* An installation raises what a DataWatch does not swallow, and ends the handler.
InstallRaises(t) ==
  /\ task[t].step \in {"version", "watch"}
  /\ task[t].broken
  /\ task' = [task EXCEPT ![t] = Idle]
  /\ UNCHANGED <<env, events, isReady, isReadyLast, pending, seen, disabled>>

\* _on_tick60()
OnTick60(t) ==
  /\ task[t] = Idle
  /\ isReady[Top]
  /\ task' = [task EXCEPT ![t] = Reading("reload")]
  /\ UNCHANGED <<env, events, isReady, isReadyLast, pending, seen, disabled>>

\* TaskService starts a scheduled _read_disabled(publish_changes=True).
StartScheduled(t) ==
  /\ task[t] = Idle
  /\ pending > 0
  /\ pending' = pending - 1
  /\ task' = [task EXCEPT ![t] = Reading("reload")]
  /\ UNCHANGED <<env, events, isReady, isReadyLast, seen, disabled>>

\* Where a task is after _read_disabled(): _set_ready() goes on to the favorites,
\* and no other caller has anything more to do with what is modelled here.
AfterRead(t) == IF task[t].kind = "handler"
                  THEN Waiting("favorites", "handler", Top)
                  ELSE Idle

\* ZooKeeper answers the read; the loop will resume the task with the answer.
ReadAnswered(t) ==
  /\ task[t].step = "read"
  /\ state[Top] = "CONNECTED"
  /\ task' = [task EXCEPT ![t].step = "resume", ![t].content = file]
  /\ UNCHANGED <<env, events, isReady, isReadyLast, pending, seen, disabled>>

\* The read raises: _read_disabled() leaves everything as it is.
ReadRaises(t) ==
  /\ task[t].step = "read"
  /\ task[t].broken
  /\ task' = [task EXCEPT ![t] = AfterRead(t)]
  /\ UNCHANGED <<env, events, isReady, isReadyLast, pending, seen, disabled>>

\* Mutant of ReadResumed: a file without a list leaves the disabled items as they were.
ReadResumedKeeps(t) ==
  /\ task[t].step = "resume"
  /\ disabled' = IF task[t].content = "no list" THEN disabled ELSE Parsed(task[t].content)
  /\ task' = [task EXCEPT ![t] = AfterRead(t)]
  /\ UNCHANGED <<env, events, isReady, isReadyLast, pending, seen>>

\* The rest of _read_disabled().
ReadResumed(t) ==
  /\ task[t].step = "resume"
  /\ disabled' = Parsed(task[t].content)
  /\ task' = [task EXCEPT ![t] = AfterRead(t)]
  /\ UNCHANGED <<env, events, isReady, isReadyLast, pending, seen>>

\* Mutant of FavoritesRead: what _read_favorites() raises ends the handler.
FavoritesRaise(t) ==
  /\ task[t].step = "favorites"
  /\ task[t].broken \/ state[Top] = "CONNECTED"
  /\ task' = [task EXCEPT ![t] = Idle]
  /\ IF task[t].broken THEN UNCHANGED isReadyLast ELSE Edge(isReady)
  /\ UNCHANGED <<env, events, isReady, pending, seen, disabled>>

\* _read_favorites() returns, whatever it has met, and _set_ready() goes on.
FavoritesRead(t) ==
  /\ task[t].step = "favorites"
  /\ task[t].broken \/ state[Top] = "CONNECTED"
  /\ task' = [task EXCEPT ![t] = Idle]
  /\ Edge(isReady)
  /\ UNCHANGED <<env, events, isReady, pending, seen, disabled>>
-----------------------------------------------------------------------------
TaskStep(t) ==
  \/ VersionWatched(t) \/ DisabledWatched(t) \/ InstallRaises(t)
  \/ ReadAnswered(t) \/ ReadRaises(t) \/ ReadResumed(t) \/ FavoritesRead(t)

Next ==
  \/ \E content \in Contents : Edit(content)
  \/ \E p \in Providers : Connect(p) \/ Suspend(p) \/ Lose(p) \/ OnLost(p)
  \/ \E p \in Providers, t \in Tasks : OnConnected(p, t)
  \/ \E t \in Tasks : OnTick60(t) \/ StartScheduled(t) \/ TaskStep(t)
  \/ OnDisabledChanged

Spec == Init /\ [][Next]_vars

\* Clients reconnect, kazoo and the loop deliver what is posted, calls end, and
\* ticks come.  The loop starts what it is to start whatever else is running: a
\* slot that is free again and again is given to each in the end.
Fairness ==
  /\ \A p \in Providers : /\ WF_vars(Connect(p))
                          /\ WF_vars(OnLost(p))
                          /\ SF_vars(\E t \in Tasks : OnConnected(p, t))
  /\ WF_vars(OnDisabledChanged)
  /\ SF_vars(\E t \in Tasks : StartScheduled(t))
  /\ \A t \in Tasks : WF_vars(TaskStep(t))
  /\ SF_vars(\E t \in Tasks : OnTick60(t))

FairSpec == Spec /\ Fairness
-----------------------------------------------------------------------------
(* Properties.                                                             *)

\* Whoever waits for Library.ready! learns of every change of readiness: the
\* library has announced the state that its providers are in, or the handler
\* that will announce it is on its way (LibraryService._set_ready, which awaits
\* two reads before it computes the edge).
ReadinessAnnounced ==
  (isReadyLast # AllReady(isReady)) =>
     \E t \in Tasks : /\ task[t].kind = "handler"
                      /\ task[t].step \in {"read", "resume", "favorites"}

\* Once connections and '/.disabled.yaml' rest, the library is ready in the end
\* and disables what the file says, whatever the reads, the ticks and the
\* watches that overlapped have done (zookeeper.py _on_zk_connected,
\* service.py _on_tick60, _read_disabled).
Converges == <>[](isReadyLast /\ disabled = Parsed(file))
=============================================================================
