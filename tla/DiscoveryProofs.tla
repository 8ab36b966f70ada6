--------------------------- MODULE DiscoveryProofs ---------------------------
(***************************************************************************)
(* A theorem about Discovery, for any items, changes, breaks of the        *)
(* connection and failed scans.                                            *)
(*                                                                         *)
(* The cache is right when nothing is on its way to it because at every    *)
(* moment what is wrong in it has its correction in the queue of events,   *)
(* in that of tasks, or in a scan that is to come (CacheInv).              *)
(***************************************************************************)
EXTENDS Discovery, SequenceTheorems, TLAPS

LEMMA AppendFacts ==
  ASSUME NEW S, NEW s \in Seq(S), NEW e \in S
  PROVE  /\ Append(s, e) \in Seq(S)
         /\ DOMAIN s = 1..Len(s) /\ Len(s) \in Nat
         /\ DOMAIN Append(s, e) = 1..(Len(s) + 1)
         /\ \A i \in 1..Len(s) : Append(s, e)[i] = s[i]
         /\ Append(s, e)[Len(s) + 1] = e
  BY LenProperties

LEMMA TailFacts ==
  ASSUME NEW S, NEW s \in Seq(S), s # <<>>
  PROVE  /\ Tail(s) \in Seq(S) /\ Head(s) = s[1] /\ Head(s) \in S
         /\ DOMAIN s = 1..Len(s) /\ Len(s) \in Nat \ {0}
         /\ DOMAIN Tail(s) = 1..(Len(s) - 1)
         /\ \A i \in 1..(Len(s) - 1) : Tail(s)[i] = s[i + 1]
  BY HeadTailProperties, LenProperties, EmptySeq

Event == [item : Item, type : {"WRITTEN", "DELETED"}]
AnyTask == {Rescan} \cup {Update(i, d) : i \in Item, d \in Nat}

CacheTyped ==
  /\ tree \in [Item -> Nat] /\ raw \in [Item -> Nat] /\ got \in [Item -> Nat]
  /\ changes \in Nat
  /\ events \in Seq(Event) /\ tasks \in Seq(AnyTask)

\* Another scan is to come.
Rescans == \E k \in DOMAIN tasks : tasks[k] = Rescan
Coming == ~connected \/ connectDue \/ requested \/ Rescans

\* An event of i waits that will have the task made which tells what i is now.
Fresh(i) ==
  \E k \in DOMAIN events :
    events[k].item = i /\ (events[k].type = "DELETED" \/ tree[i] # 0)

UpdateOf(t, i) == t.kind = "update" /\ t.item = i
Superseded(k) ==
  \E l \in DOMAIN tasks :
    k < l /\ (tasks[l] = Rescan \/ UpdateOf(tasks[l], tasks[k].item))

\* What the k-th update tells is so, or something behind it will put it right.
Right(k) == tasks[k].data = tree[tasks[k].item] \/ Fresh(tasks[k].item) \/ Superseded(k)

\* What is deleted stays so.
GoneStay ==
  /\ \A i \in deleted : tree[i] = 0
  /\ \A k \in DOMAIN events : events[k].type = "DELETED" => events[k].item \in deleted

\* Who has been told of the connection watches; who was asked for another scan does it next,
\* unless the one under way raises.
WatchedSoon ==
  /\ connected /\ ~connectDue => watched
  /\ requested => scan # "no" \/ outcome = "raised"

\* An update that is not true any more is not the last word on its item.
UpdatesFit ==
  connected /\ ~connectDue =>
    \A k \in DOMAIN tasks : tasks[k].kind = "update" => Right(k)

\* What a scan has read of an item that nothing disturbed; without a result, nothing.
Read(i) == got[i] = tree[i] \/ (outcome = "nothing" /\ got[i] = 0)

ScanFits ==
  outcome # "raised" =>
    /\ scan = "children" => got = Nothing
    /\ scan = "get" => \A i \in (Item \ toGet) \ disturbed : Read(i)
    /\ scan = "swap" => \A i \in Item \ disturbed : Read(i)

\* What the cache has of an item, but for what is on its way.
Cached(i) ==
  \/ raw[i] = tree[i] \/ (outcome = "nothing" /\ raw[i] = 0)
  \/ Fresh(i)
  \/ \E k \in DOMAIN tasks : UpdateOf(tasks[k], i)

CacheFits ==
  outcome # "raised" /\ scan = "no" /\ ~Coming => \A i \in Item \ disturbed : Cached(i)

CacheInv == CacheTyped /\ GoneStay /\ WatchedSoon /\ UpdatesFit /\ ScanFits /\ CacheFits

\* The tasks that there are.
LEMMA Kinds ==
  /\ Rescan \in AnyTask /\ Rescan.kind = "rescan"
  /\ \A i \in Item, d \in Nat : /\ Update(i, d) \in AnyTask
                                /\ Update(i, d).kind = "update"
                                /\ Update(i, d).item = i /\ Update(i, d).data = d
  /\ \A t \in AnyTask : t.kind = "update" => t.item \in Item /\ t.data \in Nat
  /\ \A t \in AnyTask : t.kind # "update" => t = Rescan
<1>1. Rescan \in AnyTask /\ Rescan.kind = "rescan"
  BY DEF AnyTask, Rescan
<1>2. ASSUME NEW i \in Item, NEW d \in Nat
      PROVE  /\ Update(i, d) \in AnyTask
             /\ Update(i, d).kind = "update"
             /\ Update(i, d).item = i /\ Update(i, d).data = d
  <2>1. Update(i, d) \in AnyTask
    BY DEF AnyTask
  <2> QED
    BY <2>1 DEF Update
<1>3. ASSUME NEW t \in AnyTask PROVE t = Rescan \/ \E i \in Item, d \in Nat : t = Update(i, d)
  BY DEF AnyTask
<1> QED
  BY <1>1, <1>2, <1>3

\* A task at the end does not bring back what was superseded.
LEMMA AppendKeeps ==
  ASSUME CacheTyped, NEW t \in AnyTask, tasks' = Append(tasks, t)
  PROVE  /\ DOMAIN tasks = 1..Len(tasks) /\ Len(tasks) \in Nat
         /\ DOMAIN tasks' = 1..(Len(tasks) + 1)
         /\ tasks'[Len(tasks) + 1] = t
         /\ \A k \in DOMAIN tasks : tasks'[k] = tasks[k] /\ (Superseded(k) => Superseded(k)')
         /\ Rescans' <=> Rescans \/ t = Rescan
<1>1. /\ DOMAIN tasks = 1..Len(tasks) /\ Len(tasks) \in Nat
      /\ DOMAIN tasks' = 1..(Len(tasks) + 1)
      /\ tasks'[Len(tasks) + 1] = t
      /\ \A k \in 1..Len(tasks) : tasks'[k] = tasks[k]
  BY AppendFacts DEF CacheTyped
<1>2. 1..Len(tasks) \subseteq 1..(Len(tasks) + 1)
  BY <1>1
<1>3. ASSUME NEW k \in DOMAIN tasks, Superseded(k) PROVE Superseded(k)'
  <2>1. PICK l \in DOMAIN tasks :
          k < l /\ (tasks[l] = Rescan \/ UpdateOf(tasks[l], tasks[k].item))
    BY <1>3 DEF Superseded
  <2> QED
    BY <1>1, <1>2, <2>1 DEF Superseded, Rescan
<1>4. Rescans' <=> Rescans \/ t = Rescan
  <2>1. \A k \in DOMAIN tasks' : k \in DOMAIN tasks \/ k = Len(tasks) + 1
    BY <1>1
  <2>2. Len(tasks) + 1 \in DOMAIN tasks'
    BY <1>1
  <2> QED
    BY <1>1, <1>2, <2>1, <2>2 DEF Rescans, Rescan
<1> QED
  BY <1>1, <1>3, <1>4

\* Nor does the start of the first task.
LEMMA TailKeeps ==
  ASSUME CacheTyped, tasks # <<>>, tasks' = Tail(tasks)
  PROVE  /\ Head(tasks) = tasks[1] /\ Head(tasks) \in AnyTask /\ 1 \in DOMAIN tasks
         /\ \A k \in DOMAIN tasks' : /\ k + 1 \in DOMAIN tasks /\ tasks'[k] = tasks[k + 1]
                                     /\ Superseded(k + 1) => Superseded(k)'
         /\ \A k \in DOMAIN tasks : k # 1 => k - 1 \in DOMAIN tasks' /\ tasks'[k - 1] = tasks[k]
         /\ Rescans' => Rescans
         /\ Rescans => Rescans' \/ Head(tasks) = Rescan
<1>1. /\ Head(tasks) = tasks[1] /\ Head(tasks) \in AnyTask
      /\ DOMAIN tasks = 1..Len(tasks) /\ Len(tasks) \in Nat \ {0}
      /\ DOMAIN tasks' = 1..(Len(tasks) - 1)
      /\ \A i \in 1..(Len(tasks) - 1) : tasks'[i] = tasks[i + 1]
  BY TailFacts DEF CacheTyped
<1>2. /\ 1 \in DOMAIN tasks
      /\ \A k \in DOMAIN tasks' : k \in Int /\ k + 1 \in DOMAIN tasks /\ tasks'[k] = tasks[k + 1]
  BY <1>1
<1>3. \A k \in DOMAIN tasks : k # 1 => k - 1 \in DOMAIN tasks' /\ tasks'[k - 1] = tasks[k]
  BY <1>1
<1>4. ASSUME NEW k \in DOMAIN tasks', Superseded(k + 1) PROVE Superseded(k)'
  <2>1. PICK l \in DOMAIN tasks :
          k + 1 < l /\ (tasks[l] = Rescan \/ UpdateOf(tasks[l], tasks[k + 1].item))
    BY <1>4 DEF Superseded
  <2>2. l # 1 /\ k < l - 1
    BY <1>1, <2>1
  <2> QED
    BY <1>2, <1>3, <2>1, <2>2 DEF Superseded, Rescan
<1>5. (Rescans' => Rescans) /\ (Rescans => Rescans' \/ Head(tasks) = Rescan)
  BY <1>1, <1>2, <1>3 DEF Rescans, Rescan
<1> QED
  BY <1>1, <1>2, <1>3, <1>4, <1>5

\* What was right behind the first task is so at its start.
LEMMA LaterRight ==
  ASSUME CacheTyped, tasks # <<>>, tasks' = Tail(tasks), UNCHANGED <<tree, events>>,
         NEW k \in DOMAIN tasks', Right(k + 1)
  PROVE  Right(k)'
<1>1. tasks'[k] = tasks[k + 1] /\ (Superseded(k + 1) => Superseded(k)')
  BY TailKeeps
<1>2. Fresh(tasks[k + 1].item) => Fresh(tasks[k].item)'
  BY <1>1 DEF Fresh
<1> QED
  BY <1>1, <1>2 DEF Right

LEMMA CacheInit == Init => CacheInv
<1> SUFFICES ASSUME Init PROVE CacheInv
  OBVIOUS
<1>1. Nothing \in [Item -> Nat] /\ DOMAIN tasks = {} /\ DOMAIN events = {}
  BY DEF Init, Nothing
<1>2. CacheTyped
  BY <1>1 DEF Init, CacheTyped
<1> QED
  BY <1>1, <1>2 DEF Init, CacheInv, GoneStay, WatchedSoon, UpdatesFit, ScanFits, CacheFits, Coming

\* A step of the server.
LEMMA ChangeFits ==
  ASSUME CacheInv, AnyChange
  PROVE  CacheInv'
<1>1. PICK i \in Item, told \in Nat :
        /\ Change(i, told) /\ (told = 0 \/ told = changes + 1)
  BY DEF AnyChange, CacheInv, CacheTyped
<1>2. PICK e \in Event :
        /\ e.item = i /\ (e.type = "DELETED" <=> told = 0)
        /\ events' = IF connected /\ watched THEN Append(events, e) ELSE events
  <2>1. CASE told = 0
    BY <1>1, <2>1 DEF Change, Event
  <2>2. CASE told # 0
    BY <1>1, <2>2 DEF Change, Event
  <2> QED
    BY <2>1, <2>2
<1>3. /\ i \notin deleted /\ changes' = changes + 1 /\ changes \in Nat
      /\ tree' = [tree EXCEPT ![i] = told]
      /\ deleted' = IF told = 0 THEN deleted \cup {i} ELSE deleted
      /\ disturbed' = IF scan = "no" THEN disturbed ELSE disturbed \cup {i}
      /\ UNCHANGED <<connected, connectDue, watched, tasks, raw, requested, scan, toGet, got, outcome>>
  BY <1>1 DEF Change, connVars, cacheVars, scanVars, CacheInv, CacheTyped
<1>4. /\ tree' \in [Item -> Nat] /\ tree'[i] = told
      /\ \A j \in Item : j # i => tree'[j] = tree[j]
      /\ events \in Seq(Event) /\ events' \in Seq(Event)
  BY <1>1, <1>2, <1>3, AppendFacts DEF CacheInv, CacheTyped
<1>5. /\ \A k \in DOMAIN events : k \in DOMAIN events' /\ events'[k] = events[k]
      /\ connected /\ watched => \E k \in DOMAIN events' : events'[k] = e
      /\ \A k \in DOMAIN events' : events'[k] = e \/ (k \in DOMAIN events /\ events'[k] = events[k])
  <2>1. CASE connected /\ watched
    <3>1. events' = Append(events, e)
      BY <1>2, <2>1
    <3>2. /\ DOMAIN events = 1..Len(events) /\ Len(events) \in Nat
          /\ DOMAIN events' = 1..(Len(events) + 1)
          /\ \A k \in 1..Len(events) : events'[k] = events[k]
          /\ events'[Len(events) + 1] = e
      BY <1>4, <3>1, AppendFacts
    <3>3. \A k \in DOMAIN events' : k \in DOMAIN events \/ k = Len(events) + 1
      BY <3>2
    <3>4. Len(events) + 1 \in DOMAIN events' /\ \A k \in DOMAIN events : k \in DOMAIN events'
      BY <3>2
    <3> QED
      BY <3>2, <3>3, <3>4
  <2>2. CASE ~(connected /\ watched)
    BY <1>2, <2>2
  <2> QED
    BY <2>1, <2>2
<1>6. CacheTyped'
  BY <1>3, <1>4 DEF CacheInv, CacheTyped
<1>7. connected /\ ~connectDue => Fresh(i)'
  BY <1>2, <1>3, <1>4, <1>5 DEF CacheInv, WatchedSoon, Fresh
<1>8. \A j \in Item : j # i /\ Fresh(j) => Fresh(j)'
  BY <1>4, <1>5 DEF Fresh
<1>9. GoneStay'
  BY <1>2, <1>3, <1>4, <1>5 DEF CacheInv, GoneStay
<1>10. WatchedSoon'
  BY <1>3 DEF CacheInv, WatchedSoon
<1>11. UpdatesFit'
  <2> SUFFICES ASSUME connected, ~connectDue, NEW k \in DOMAIN tasks, tasks[k].kind = "update"
               PROVE  Right(k)'
    BY <1>3 DEF UpdatesFit
  <2>1. tasks[k].item \in Item /\ tasks'[k] = tasks[k]
    BY <1>3, Kinds DEF CacheInv, CacheTyped
  <2>2. Superseded(k) => Superseded(k)'
    BY <1>3 DEF Superseded
  <2>3. Right(k)
    BY DEF CacheInv, UpdatesFit
  <2>4. CASE tasks[k].item = i
    BY <1>7, <2>1, <2>4 DEF Right
  <2>5. CASE tasks[k].item # i
    BY <1>4, <1>8, <2>1, <2>2, <2>3, <2>5 DEF Right
  <2> QED
    BY <2>4, <2>5
<1>12. ScanFits'
  <2>1. \A j \in Item : scan # "no" /\ j \notin disturbed' => j # i /\ j \notin disturbed
    BY <1>3
  <2>2. \A j \in Item : j # i /\ Read(j) => Read(j)'
    BY <1>3, <1>4 DEF Read
  <2> QED
    BY <1>3, <2>1, <2>2 DEF CacheInv, ScanFits
<1>13. CacheFits'
  <2> SUFFICES ASSUME outcome # "raised", scan = "no", ~Coming, NEW j \in Item \ disturbed
               PROVE  Cached(j)'
    BY <1>3 DEF CacheFits, Coming, Rescans
  <2>1. Cached(j)
    BY DEF CacheInv, CacheFits
  <2>2. CASE j = i
    BY <1>7, <2>2 DEF Cached, Coming
  <2>3. CASE j # i
    BY <1>3, <1>4, <1>8, <2>1, <2>3 DEF Cached
  <2> QED
    BY <2>2, <2>3
<1> QED
  BY <1>6, <1>9, <1>10, <1>11, <1>12, <1>13 DEF CacheInv

\* The connection, and the ticks that make tasks.
LEMMA ConnectionFits ==
  ASSUME CacheInv, Suspend \/ Connect \/ OnTick600 \/ OnZkReady
  PROVE  CacheInv'
<1> USE DEF CacheInv
<1>1. CASE Suspend
  <2>1. /\ ~connected'
        /\ UNCHANGED <<tree, deleted, changes, connectDue, watched, events, tasks, raw, requested,
                       scan, toGet, got, disturbed, outcome>>
    BY <1>1 DEF Suspend, serverVars, cacheVars, scanVars, historyVars
  <2> QED
    BY <2>1 DEF CacheTyped, GoneStay, WatchedSoon, UpdatesFit, ScanFits, CacheFits, Coming, Read
<1>2. CASE Connect
  <2>1. /\ connectDue'
        /\ UNCHANGED <<tree, deleted, changes, events, tasks, raw, requested, scan, toGet, got, disturbed, outcome>>
    BY <1>2 DEF Connect, serverVars, cacheVars, scanVars, historyVars
  <2> QED
    BY <2>1 DEF CacheTyped, GoneStay, WatchedSoon, UpdatesFit, ScanFits, CacheFits, Coming, Read
<1>3. CASE OnTick600
  <2>1. /\ tasks' = <<Rescan>>
        /\ UNCHANGED <<tree, deleted, changes, connected, connectDue, watched, events, raw, requested,
                       scan, toGet, got, disturbed, outcome>>
    BY <1>3 DEF OnTick600, serverVars, connVars, cacheVars, scanVars, historyVars
  <2>2. /\ tasks' \in Seq(AnyTask) /\ DOMAIN tasks' = {1} /\ tasks'[1] = Rescan
        /\ tasks'[1].kind = "rescan"
    BY <2>1, Kinds
  <2>3. Rescans'
    BY <2>2 DEF Rescans, Rescan
  <2> QED
    BY <2>1, <2>2, <2>3 DEF CacheTyped, GoneStay, WatchedSoon, UpdatesFit, ScanFits, CacheFits, Coming, Read
<1>4. CASE OnZkReady
  <2>1. /\ tasks' = Append(tasks, Rescan) /\ watched' = (watched \/ connected)
        /\ UNCHANGED <<tree, deleted, changes, connected, events, raw, requested, scan, toGet, got,
                       disturbed, outcome>>
    BY <1>4 DEF OnZkReady, serverVars, cacheVars, scanVars, historyVars
  <2>2. /\ DOMAIN tasks = 1..Len(tasks) /\ Len(tasks) \in Nat
        /\ DOMAIN tasks' = 1..(Len(tasks) + 1)
        /\ tasks'[Len(tasks) + 1] = Rescan /\ Rescans'
    BY <2>1, AppendKeeps, Kinds
  <2>3. tasks' \in Seq(AnyTask)
    BY <2>1, Kinds, AppendFacts DEF CacheTyped
  <2>4. Len(tasks) + 1 \in DOMAIN tasks' /\ \A k \in DOMAIN tasks' : k # Len(tasks) + 1 => k < Len(tasks) + 1
    BY <2>2
  <2>5. \A k \in DOMAIN tasks' : tasks'[k].kind = "update" => Superseded(k)'
    BY <2>2, <2>4, Kinds DEF Superseded, Rescan
  <2>6. UpdatesFit'
    BY <2>5 DEF UpdatesFit, Right
  <2> QED
    BY <2>1, <2>2, <2>3, <2>6 DEF CacheTyped, GoneStay, WatchedSoon, ScanFits, CacheFits, Coming, Read
<1> QED
  BY <1>1, <1>2, <1>3, <1>4

\* The thread of kazoo: an update that it makes is true at that moment.
LEMMA EventFits ==
  ASSUME CacheInv, OnChangeThread
  PROVE  CacheInv'
<1> DEFINE i == Head(events).item
           written == Head(events).type = "WRITTEN"
           lost == written /\ (~connected \/ tree[i] = 0)
<1>1. /\ events # <<>> /\ events' = Tail(events)
      /\ tasks' = IF lost THEN tasks ELSE Append(tasks, Update(i, IF written THEN tree[i] ELSE 0))
      /\ UNCHANGED <<tree, deleted, changes, connected, connectDue, watched, raw, requested, scan,
                     toGet, got, disturbed, outcome>>
  BY DEF OnChangeThread, serverVars, connVars, cacheVars, scanVars, historyVars
<1>2. /\ events' \in Seq(Event) /\ Head(events) \in Event /\ Head(events) = events[1]
      /\ DOMAIN events = 1..Len(events) /\ Len(events) \in Nat \ {0}
      /\ DOMAIN events' = 1..(Len(events) - 1)
      /\ \A k \in 1..(Len(events) - 1) : events'[k] = events[k + 1]
  BY <1>1, TailFacts DEF CacheInv, CacheTyped
<1>3. /\ 1 \in DOMAIN events /\ i \in Item
      /\ \A k \in DOMAIN events' : k + 1 \in DOMAIN events /\ events'[k] = events[k + 1]
      /\ \A k \in DOMAIN events : k # 1 => k - 1 \in DOMAIN events' /\ events'[k - 1] = events[k]
  BY <1>2 DEF Event
<1>4. tree \in [Item -> Nat] /\ tree[i] \in Nat
  BY <1>3 DEF CacheInv, CacheTyped
<1>5. ~written => tree[i] = 0
  BY <1>2, <1>3 DEF Event, CacheInv, GoneStay
<1>6. ~lost => tasks' = Append(tasks, Update(i, tree[i]))
  BY <1>1, <1>5
<1>7. Update(i, tree[i]) \in AnyTask /\ UpdateOf(Update(i, tree[i]), i)
      /\ Update(i, tree[i]).data = tree[i]
  BY <1>3, <1>4, Kinds DEF UpdateOf
<1>8. ASSUME NEW j \in Item, Fresh(j), connected
      PROVE  Fresh(j)' \/ (j = i /\ ~lost)
  <2>1. PICK k \in DOMAIN events : events[k].item = j /\ (events[k].type = "DELETED" \/ tree[j] # 0)
    BY <1>8 DEF Fresh
  <2>2. CASE k = 1
    BY <1>2, <1>8, <2>1, <2>2
  <2>3. CASE k # 1
    BY <1>1, <1>3, <2>1, <2>3 DEF Fresh
  <2> QED
    BY <2>2, <2>3
<1> HIDE DEF i, written, lost
<1>9. CacheTyped'
  <2>1. tasks' \in Seq(AnyTask)
    BY <1>1, <1>6, <1>7, AppendFacts DEF CacheInv, CacheTyped
  <2> QED
    BY <1>1, <1>2, <2>1 DEF CacheInv, CacheTyped
<1>10. GoneStay' /\ WatchedSoon'
  BY <1>1, <1>3 DEF CacheInv, GoneStay, WatchedSoon
<1>11. /\ DOMAIN tasks \subseteq DOMAIN tasks'
       /\ \A k \in DOMAIN tasks : tasks'[k] = tasks[k] /\ (Superseded(k) => Superseded(k)')
       /\ Rescans' <=> Rescans
       /\ \A k \in DOMAIN tasks' \ DOMAIN tasks : tasks'[k] = Update(i, tree[i])
       /\ ~lost => \E l \in DOMAIN tasks' : /\ tasks'[l] = Update(i, tree[i])
                                            /\ \A k \in DOMAIN tasks : k < l
  <2>1. CASE lost
    <3>1. tasks' = tasks
      BY <1>1, <2>1
    <3> QED
      BY <2>1, <3>1 DEF Rescans, Superseded, Rescan
  <2>2. CASE ~lost
    <3>1. tasks' = Append(tasks, Update(i, tree[i]))
      BY <1>6, <2>2
    <3>2. /\ DOMAIN tasks = 1..Len(tasks) /\ Len(tasks) \in Nat
          /\ DOMAIN tasks' = 1..(Len(tasks) + 1)
          /\ tasks'[Len(tasks) + 1] = Update(i, tree[i])
          /\ \A k \in DOMAIN tasks : tasks'[k] = tasks[k] /\ (Superseded(k) => Superseded(k)')
          /\ Rescans' <=> Rescans \/ Update(i, tree[i]) = Rescan
      BY <1>7, <3>1, AppendKeeps DEF CacheInv
    <3>3. Update(i, tree[i]) # Rescan
      BY <1>3, <1>4, Kinds
    <3>4. /\ DOMAIN tasks \subseteq DOMAIN tasks' /\ Len(tasks) + 1 \in DOMAIN tasks'
          /\ \A k \in DOMAIN tasks' \ DOMAIN tasks : k = Len(tasks) + 1
          /\ \A k \in DOMAIN tasks : k < Len(tasks) + 1
      BY <3>2
    <3> QED
      BY <2>2, <3>2, <3>3, <3>4
  <2> QED
    BY <2>1, <2>2
<1>12. UpdatesFit'
  <2> SUFFICES ASSUME connected, ~connectDue, NEW k \in DOMAIN tasks', tasks'[k].kind = "update"
               PROVE  Right(k)'
    BY <1>1 DEF UpdatesFit
  <2>1. CASE k \notin DOMAIN tasks
    BY <1>1, <1>7, <1>11, <2>1 DEF UpdateOf, Right
  <2>2. CASE k \in DOMAIN tasks
    <3>1. tasks'[k] = tasks[k] /\ tasks[k].item \in Item /\ (Superseded(k) => Superseded(k)') /\ Right(k)
      BY <1>11, <2>2, Kinds DEF CacheInv, CacheTyped, UpdatesFit
    <3>2. CASE Fresh(tasks[k].item)
      <4>1. CASE tasks[k].item = i /\ ~lost
        <5>1. PICK l \in DOMAIN tasks' : tasks'[l] = Update(i, tree[i]) /\ k < l
          BY <1>11, <2>2, <4>1
        <5>2. UpdateOf(tasks'[l], tasks'[k].item)
          BY <1>7, <3>1, <4>1, <5>1
        <5> QED
          BY <5>1, <5>2 DEF Superseded, Right
      <4>2. CASE ~(tasks[k].item = i /\ ~lost)
        <5>1. PICK j \in Item : j = tasks[k].item
          BY <3>1
        <5>2. Fresh(j)'
          BY <1>8, <3>2, <4>2, <5>1
        <5>3. Fresh(tasks[k].item)'
          BY <3>1, <5>1, <5>2 DEF Fresh
        <5> QED
          BY <5>3 DEF Right
      <4> QED
        BY <4>1, <4>2
    <3>3. CASE tasks[k].data = tree[tasks[k].item] \/ Superseded(k)
      BY <1>1, <3>1, <3>3 DEF Right
    <3> QED
      BY <3>1, <3>2, <3>3 DEF Right
  <2> QED
    BY <2>1, <2>2
<1>13. ScanFits'
  BY <1>1 DEF CacheInv, ScanFits, Read
<1>14. CacheFits'
  <2> SUFFICES ASSUME outcome # "raised", scan = "no", ~Coming, NEW j \in Item \ disturbed
               PROVE  Cached(j)'
    BY <1>1, <1>11 DEF CacheFits, Coming
  <2>1. Cached(j)
    BY DEF CacheInv, CacheFits
  <2>2. CASE Fresh(j)
    <3>1. Fresh(j)' \/ (j = i /\ ~lost)
      BY <1>8, <2>2 DEF Coming
    <3> QED
      BY <1>7, <1>11, <3>1 DEF Cached
  <2>3. CASE \E k \in DOMAIN tasks : UpdateOf(tasks[k], j)
    BY <1>11, <2>3 DEF Cached
  <2>4. CASE raw[j] = tree[j] \/ (outcome = "nothing" /\ raw[j] = 0)
    BY <1>1, <2>4 DEF Cached
  <2> QED
    BY <2>1, <2>2, <2>3, <2>4 DEF Cached
<1> QED
  BY <1>9, <1>10, <1>12, <1>13, <1>14 DEF CacheInv

\* Tasks: what is applied is true or not the last word.
LEMMA OnChangeFits ==
  ASSUME CacheInv, OnChange
  PROVE  CacheInv'
<1>1. PICK i : i = Head(tasks).item
  OBVIOUS
<1>2. PICK d : d = Head(tasks).data
  OBVIOUS
<1>3. /\ tasks # <<>> /\ tasks' = Tail(tasks) /\ Head(tasks).kind = "update"
      /\ raw' = [raw EXCEPT ![i] = d]
      /\ UNCHANGED <<tree, deleted, changes, connected, connectDue, watched, events, requested, scan,
                     toGet, got, disturbed, outcome>>
  BY <1>1, <1>2 DEF OnChange, serverVars, connVars, scanVars, historyVars
<1>4. /\ Head(tasks) = tasks[1] /\ Head(tasks) \in AnyTask /\ 1 \in DOMAIN tasks
      /\ \A k \in DOMAIN tasks' : /\ k + 1 \in DOMAIN tasks /\ tasks'[k] = tasks[k + 1]
                                  /\ Superseded(k + 1) => Superseded(k)'
      /\ \A k \in DOMAIN tasks : k # 1 => k - 1 \in DOMAIN tasks' /\ tasks'[k - 1] = tasks[k]
      /\ Rescans' => Rescans
      /\ Rescans => Rescans' \/ Head(tasks) = Rescan
  BY <1>3, TailKeeps DEF CacheInv
<1>5. i \in Item /\ d \in Nat /\ Head(tasks) # Rescan /\ (Rescans' <=> Rescans)
  BY <1>1, <1>2, <1>3, <1>4, Kinds
<1>6. CacheTyped'
  <2>1. tasks' \in Seq(AnyTask)
    BY <1>3, TailFacts DEF CacheInv, CacheTyped
  <2> QED
    BY <1>3, <1>5, <2>1 DEF CacheInv, CacheTyped
<1>7. GoneStay' /\ WatchedSoon'
  BY <1>3 DEF CacheInv, GoneStay, WatchedSoon
<1>8. \A j \in Item : Fresh(j)' <=> Fresh(j)
  BY <1>3 DEF Fresh
<1>9. UpdatesFit'
  <2> SUFFICES ASSUME connected, ~connectDue, NEW k \in DOMAIN tasks', tasks'[k].kind = "update"
               PROVE  Right(k)'
    BY <1>3 DEF UpdatesFit
  <2> QED
    BY <1>3, <1>4, LaterRight DEF CacheInv, UpdatesFit
<1>10. ScanFits'
  BY <1>3 DEF CacheInv, ScanFits, Read
<1>11. CacheFits'
  <2> SUFFICES ASSUME outcome # "raised", scan = "no", ~Coming, NEW j \in Item \ disturbed
               PROVE  Cached(j)'
    BY <1>3, <1>5 DEF CacheFits, Coming
  <2>1. raw \in [Item -> Nat] /\ raw'[i] = d /\ (j # i => raw'[j] = raw[j])
    BY <1>3, <1>5 DEF CacheInv, CacheTyped
  <2>2. CASE \E k \in DOMAIN tasks : k # 1 /\ UpdateOf(tasks[k], j)
    BY <1>4, <2>2 DEF Cached
  <2>3. CASE j # i /\ \A k \in DOMAIN tasks : UpdateOf(tasks[k], j) => k = 1
    <3>1. \A k \in DOMAIN tasks : ~UpdateOf(tasks[k], j)
      BY <1>1, <1>4, <2>3 DEF UpdateOf
    <3>2. raw[j] = tree[j] \/ (outcome = "nothing" /\ raw[j] = 0) \/ Fresh(j)
      BY <3>1 DEF CacheInv, CacheFits, Cached
    <3> QED
      BY <1>3, <1>8, <2>1, <2>3, <3>2 DEF Cached
  <2>4. CASE j = i /\ \A k \in DOMAIN tasks : UpdateOf(tasks[k], j) => k = 1
    <3>1. d = tree[i] \/ Fresh(i) \/ Superseded(1)
      BY <1>1, <1>2, <1>3, <1>4 DEF CacheInv, UpdatesFit, Right, Coming
    <3>2. ~Superseded(1)
      <4>1. \A l \in DOMAIN tasks : tasks[l] # Rescan
        BY DEF Coming, Rescans
      <4>2. \A l \in DOMAIN tasks : ~(1 < l /\ UpdateOf(tasks[l], i))
        BY <2>4
      <4> QED
        BY <1>1, <1>4, <4>1, <4>2 DEF Superseded
    <3> QED
      BY <1>3, <1>8, <2>1, <2>4, <3>1, <3>2 DEF Cached
  <2> QED
    BY <2>2, <2>3, <2>4
<1> QED
  BY <1>6, <1>7, <1>9, <1>10, <1>11 DEF CacheInv

\* A scan begins anew, or is asked to.
LEMMA RescanFits ==
  ASSUME CacheInv, RescanBegin
  PROVE  CacheInv'
<1>1. /\ tasks # <<>> /\ tasks' = Tail(tasks) /\ Head(tasks) = Rescan
      /\ IF scan = "no" THEN ScanStart
         ELSE requested' = TRUE /\ UNCHANGED <<scan, toGet, got, disturbed, outcome>>
      /\ UNCHANGED <<tree, deleted, changes, connected, connectDue, watched, events, raw>>
  BY DEF RescanBegin, serverVars, connVars, cacheVars, historyVars
<1>2. CacheTyped'
  <2>1. tasks' \in Seq(AnyTask)
    BY <1>1, TailFacts DEF CacheInv, CacheTyped
  <2>2. got' \in [Item -> Nat]
    BY <1>1 DEF CacheInv, CacheTyped, ScanStart, Nothing
  <2> QED
    BY <1>1, <2>1, <2>2 DEF CacheInv, CacheTyped
<1>3. GoneStay'
  BY <1>1 DEF CacheInv, GoneStay
<1>4. WatchedSoon' /\ ScanFits' /\ CacheFits'
  BY <1>1 DEF CacheInv, WatchedSoon, ScanFits, CacheFits, Coming, ScanStart, Read
<1>5. UpdatesFit'
  <2> SUFFICES ASSUME connected, ~connectDue, NEW k \in DOMAIN tasks', tasks'[k].kind = "update"
               PROVE  Right(k)'
    BY <1>1 DEF UpdatesFit
  <2>1. k + 1 \in DOMAIN tasks /\ tasks'[k] = tasks[k + 1]
    BY <1>1, TailKeeps DEF CacheInv
  <2> QED
    BY <1>1, <2>1, LaterRight DEF CacheInv, UpdatesFit
<1> QED
  BY <1>2, <1>3, <1>4, <1>5 DEF CacheInv

\* A scan reads; what changes meanwhile spoils it.
LEMMA ScanStepFits ==
  ASSUME CacheInv, Thread \/ Swap
  PROVE  CacheInv'
<1>1. UNCHANGED <<tree, deleted, changes, connected, connectDue, watched, events, tasks>>
  BY DEF Thread, ScanLost, ScanChildren, ScanGet, ScanRaises,
         ScanDone, Swap, serverVars, connVars
<1>2. Nothing \in [Item -> Nat] /\ tree \in [Item -> Nat] /\ got \in [Item -> Nat]
  BY DEF Nothing, CacheInv, CacheTyped
<1>3. GoneStay' /\ UpdatesFit'
  <2>1. \A k \in DOMAIN tasks : Right(k) => Right(k)'
    BY <1>1 DEF Right, Fresh, Superseded
  <2> QED
    BY <1>1, <2>1 DEF CacheInv, GoneStay, UpdatesFit
<1>4. Rescans' <=> Rescans
  BY <1>1 DEF Rescans
<1>5. \A i \in Item : Fresh(i)' <=> Fresh(i)
  BY <1>1 DEF Fresh
<1>6. CASE ScanLost
  <2>1. /\ scan' = "swap" /\ got' = Nothing /\ outcome' = "nothing"
        /\ UNCHANGED <<raw, requested, disturbed>>
    BY <1>6 DEF ScanLost, cacheVars
  <2>2. \A i \in Item : Read(i)'
    BY <2>1 DEF Read, Nothing
  <2> QED
    BY <1>1, <1>2, <1>3, <2>1, <2>2 DEF CacheInv, CacheTyped, WatchedSoon, ScanFits, CacheFits
<1>7. CASE ScanChildren
  <2>1. /\ scan = "children" /\ scan' = "get" /\ toGet' = {i \in Item : tree[i] # 0}
        /\ UNCHANGED <<raw, requested, got, disturbed, outcome>>
    BY <1>7 DEF ScanChildren, cacheVars, historyVars
  <2>2. outcome # "raised" => \A i \in Item \ toGet' : got[i] = tree[i]
    BY <2>1 DEF CacheInv, ScanFits, Nothing
  <2>3. ScanFits'
    BY <1>1, <2>1, <2>2 DEF ScanFits, Read
  <2> QED
    BY <1>1, <1>2, <1>3, <2>1, <2>3 DEF CacheInv, CacheTyped, WatchedSoon, CacheFits
<1>8. CASE ScanGet
  <2>1. PICK i \in toGet : /\ toGet' = toGet \ {i} /\ got' = [got EXCEPT ![i] = tree[i]]
                           /\ scan = "get"
                           /\ UNCHANGED <<raw, requested, scan, disturbed, outcome>>
    BY <1>8 DEF ScanGet, cacheVars, historyVars
  <2>2. got' \in [Item -> Nat]
    BY <1>2, <2>1
  <2>3. outcome # "raised" => \A j \in (Item \ toGet') \ disturbed : Read(j)'
    BY <1>1, <1>2, <2>1 DEF CacheInv, ScanFits, Read
  <2>4. ScanFits'
    BY <1>1, <2>1, <2>3 DEF ScanFits
  <2> QED
    BY <1>1, <1>2, <1>3, <2>1, <2>2, <2>4 DEF CacheInv, CacheTyped, WatchedSoon, CacheFits
<1>9. CASE ScanRaises
  <2>1. outcome' = "raised" /\ got' = Nothing /\ scan' = "no" /\ UNCHANGED <<raw, requested>>
    BY <1>9 DEF ScanRaises, cacheVars
  <2> QED
    BY <1>1, <1>2, <1>3, <2>1 DEF CacheInv, CacheTyped, WatchedSoon, ScanFits, CacheFits
<1>10. CASE ScanDone
  <2>1. /\ scan = "get" /\ scan' = "swap" /\ toGet = {}
        /\ UNCHANGED <<raw, requested, got, disturbed, outcome>>
    BY <1>10 DEF ScanDone, cacheVars, historyVars
  <2>2. ScanFits'
    BY <1>1, <2>1 DEF CacheInv, ScanFits, Read
  <2> QED
    BY <1>1, <1>2, <1>3, <2>1, <2>2 DEF CacheInv, CacheTyped, WatchedSoon, CacheFits
<1>11. CASE Swap
  <2>1. scan = "swap" /\ raw' = got /\ SwapNext
    BY <1>11 DEF Swap
  <2>2. CASE requested
    <3>1. scan' = "children" /\ got' = Nothing /\ ~requested'
      BY <2>1, <2>2 DEF SwapNext, ScanStart
    <3> QED
      BY <1>1, <1>2, <1>3, <2>1, <3>1 DEF CacheInv, CacheTyped, WatchedSoon, ScanFits, CacheFits
  <2>3. CASE ~requested
    <3>1. scan' = "no" /\ got' = Nothing /\ UNCHANGED <<requested, disturbed, outcome>>
      BY <2>1, <2>3 DEF SwapNext, historyVars
    <3>2. outcome # "raised" => \A i \in Item \ disturbed : Cached(i)'
      BY <1>1, <2>1, <3>1 DEF CacheInv, ScanFits, Read, Cached
    <3>3. CacheFits'
      BY <3>1, <3>2 DEF CacheFits
    <3> QED
      BY <1>1, <1>2, <1>3, <2>1, <2>3, <3>1, <3>3
         DEF CacheInv, CacheTyped, WatchedSoon, ScanFits
  <2> QED
    BY <2>2, <2>3
<1> QED
  BY <1>6, <1>7, <1>8, <1>9, <1>10, <1>11 DEF Thread

LEMMA CacheStep == CacheInv /\ [Next]_(vars) => CacheInv'
<1>1. CacheInv /\ Next => CacheInv'
  BY ChangeFits, ConnectionFits, EventFits, OnChangeFits, RescanFits, ScanStepFits
     DEF Next, StartTask
<1>2. CacheInv /\ UNCHANGED vars => CacheInv'
  BY DEF vars, serverVars, connVars, cacheVars, scanVars, historyVars, CacheInv,
         CacheTyped, GoneStay, WatchedSoon, UpdatesFit, ScanFits, CacheFits, Coming, Rescans, Fresh,
         Right, Superseded, Read, Cached
<1> QED
  BY <1>1, <1>2

\* When nothing is on its way to the cache of DiscoveryService, it agrees with what is
\* advertised, but for an item that changed during the last scan and for scans that failed
\* (_rescan_advertised_instances, _iter_zk_items, _on_change): SettledAgrees for any items,
\* changes, breaks and failures.
THEOREM SettledIsRight == Spec => []SettledAgrees
<1>1. CacheInv => SettledAgrees
  <2> SUFFICES ASSUME CacheInv, Settled, outcome # "raised", NEW i \in Item \ disturbed
               PROVE  raw[i] = tree[i] \/ (outcome = "nothing" /\ raw[i] = 0)
    BY DEF SettledAgrees
  <2>1. /\ connected /\ ~connectDue /\ scan = "no" /\ DOMAIN events = {} /\ DOMAIN tasks = {}
    BY DEF Settled
  <2>2. ~requested /\ ~Coming
    BY <2>1 DEF CacheInv, WatchedSoon, Coming, Rescans
  <2> QED
    BY <2>1, <2>2 DEF CacheInv, CacheFits, Cached, Fresh
<1> QED
  BY <1>1, CacheInit, CacheStep, PTL DEF Spec
=============================================================================
