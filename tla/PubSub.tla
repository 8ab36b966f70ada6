------------------------------- MODULE PubSub -------------------------------
(***************************************************************************)
(* Synchronous delivery of one message type by PubSub (src/asab/pubsub.py).*)
(*                                                                         *)
(* publish() walks the very list that subscribe() and unsubscribe() change,*)
(* while the callbacks it calls do just that: they subscribe, unsubscribe  *)
(* and publish the same message again, and subscribers are held weakly and *)
(* may be collected.  Publications nest, so the state is a stack of them.  *)
(*                                                                         *)
(* Message types do not share a list, so one type is enough.  Everything   *)
(* runs on the main thread: publish_threadsafe() only queues a publication *)
(* there, and for a coroutine "called" means that its task was created.    *)
(***************************************************************************)
EXTENDS Naturals, FiniteSets, Sequences, Functions

CONSTANTS
  Callback,    \* the objects (methods, functions, Subscribers) that subscribe
  MaxSubs,     \* bound: calls of subscribe()
  MaxDepth     \* bound: publications inside one another

VARIABLES
  target,      \* the callback of each weak reference, numbered as they are made
  lists,       \* the lists of references ever made
  current,     \* the one in Subscribers[message_type], 0 if there is none
  alive,       \* the callbacks not collected yet
  frames       \* the publications under way, the innermost last

vars == <<target, lists, current, alive, frames>>

Ref   == 1..Len(target)
Dead(r) == target[r] \notin alive
Top   == frames[Len(frames)]

\* A publication: the list it walks, how far it has come, the dead references it
\* will remove, and the one whose callback it is in (0 for none).  History: who
\* was subscribed when it began, whom it called, how many references others
\* have removed from its list since.
Frame == [list : 1..Len(lists), pos : Nat, dead : Seq(Ref), inCall : Ref \cup {0},
          start : SUBSET Ref, called : Seq(Ref), removed : Nat]

TypeOK ==
  /\ target \in Seq(Callback)
  /\ lists \in Seq(Seq(Ref))
  /\ current \in 0..Len(lists)
  /\ alive \subseteq Callback
  /\ frames \in Seq(Frame)

Init ==
  /\ target = <<>>
  /\ lists = <<>>
  /\ current = 0
  /\ alive = Callback
  /\ frames = <<>>

-----------------------------------------------------------------------------
\* Application code runs: outside every publication, or in a callback of one.
AppRuns == frames # <<>> => Top.inCall # 0

\* Frames that walk list l notice that n of its references have gone.
Shortened(fs, l, n) ==
  [k \in DOMAIN fs |->
     IF fs[k].list = l THEN [fs[k] EXCEPT !.removed = @ + n] ELSE fs[k]]

\* A list without some of its references.
Without(s, gone) ==
  LET kept[n \in 0..Len(s)] ==
        IF n = 0 THEN <<>>
        ELSE IF s[n] \in gone THEN kept[n - 1] ELSE Append(kept[n - 1], s[n])
  IN kept[Len(s)]

\* callback_list.remove() for each of refs in turn, until one is not there: what
\* remains of the list, and whether ValueError was not raised.
Sweep(s, refs) ==
  LET there == {n \in DOMAIN refs : \A k \in 1..n : refs[k] \in Range(s)}
  IN [rest |-> Without(s, {refs[n] : n \in there}), ok |-> there = DOMAIN refs]

Subscribe(c) ==
  /\ AppRuns
  /\ c \in alive
  /\ Len(target) < MaxSubs
  /\ target' = Append(target, c)
  /\ IF current = 0
       THEN /\ lists' = Append(lists, <<Len(target')>>)
            /\ current' = Len(lists')
       ELSE /\ lists' = [lists EXCEPT ![current] = Append(@, Len(target'))]
            /\ UNCHANGED current
  /\ UNCHANGED <<alive, frames>>

\* Mutant of Unsubscribe: a new list without c takes the place of the old one.
UnsubscribeCopies(c) ==
  /\ AppRuns
  /\ c \in alive
  /\ current # 0
  /\ lists' = Append(lists, SelectSeq(lists[current], LAMBDA r : target[r] # c))
  /\ current' = IF lists'[Len(lists')] = <<>> THEN 0 ELSE Len(lists')
  /\ UNCHANGED <<target, alive, frames>>

\* The first reference to c is popped, the dead ones met before it are removed,
\* and an empty list is taken out of Subscribers.
Unsubscribe(c) ==
  /\ AppRuns
  /\ c \in alive
  /\ current # 0
  /\ LET s == lists[current]
         mine == {k \in DOMAIN s : target[s[k]] = c}
         at == IF mine = {} THEN Len(s) ELSE CHOOSE k \in mine : \A j \in mine : k <= j
         rest == Without(s, {s[k] : k \in {j \in 1..at : Dead(s[j]) \/ target[s[j]] = c}})
     IN /\ lists' = [lists EXCEPT ![current] = rest]
        /\ current' = IF rest = <<>> THEN 0 ELSE current
        /\ frames' = Shortened(frames, current, Len(s) - Len(rest))
  /\ UNCHANGED <<target, alive>>

\* The subscriber is collected; one that is being called is held until the
\* publication goes on.
Die(c) ==
  /\ AppRuns
  /\ c \in alive
  /\ \A k \in DOMAIN frames : target[frames[k].inCall] # c
  /\ alive' = alive \ {c}
  /\ UNCHANGED <<target, lists, current, frames>>

Publish ==
  /\ AppRuns
  /\ current # 0
  /\ Len(frames) < MaxDepth
  /\ frames' = Append(frames,
       [list |-> current, pos |-> 0, dead |-> <<>>, inCall |-> 0,
        start |-> Range(lists[current]), called |-> <<>>, removed |-> 0])
  /\ UNCHANGED <<target, lists, current, alive>>

SetTop(f) == frames' = [frames EXCEPT ![Len(frames)] = f]

\* _callback_iter() goes on to the next reference: its callback is called ...
Walking == frames # <<>> /\ Top.inCall = 0 /\ Top.pos < Len(lists[Top.list])
NextRef == lists[Top.list][Top.pos + 1]

Call ==
  /\ Walking
  /\ ~Dead(NextRef)
  /\ SetTop([Top EXCEPT !.pos = @ + 1, !.inCall = NextRef,
                        !.called = Append(@, NextRef)])
  /\ UNCHANGED <<target, lists, current, alive>>

\* Mutant of SkipDead: the dead reference is removed at once.
SkipDeadRemoves ==
  /\ Walking
  /\ Dead(NextRef)
  /\ lists' = [lists EXCEPT ![Top.list] = Without(@, {NextRef})]
  /\ frames' = Append(Shortened(SubSeq(frames, 1, Len(frames) - 1), Top.list, 1),
                      [Top EXCEPT !.pos = @ + 1])
  /\ UNCHANGED <<target, current, alive>>

\* ... or it is dead, and noted for removal.
SkipDead ==
  /\ Walking
  /\ Dead(NextRef)
  /\ SetTop([Top EXCEPT !.pos = @ + 1, !.dead = Append(@, NextRef)])
  /\ UNCHANGED <<target, lists, current, alive>>

\* The callback returns, or raises an exception that publish() logs.
Return ==
  /\ frames # <<>>
  /\ Top.inCall # 0
  /\ SetTop([Top EXCEPT !.inCall = 0])
  /\ UNCHANGED <<target, lists, current, alive>>

AtEnd(f) == f.inCall = 0 /\ f.pos >= Len(lists[f.list])

\* The end of the list: the dead references are removed.  The ValueError for one
\* that somebody else has removed leaves publish(); the publication around it,
\* if any, takes it for an error of its callback.
Finish ==
  /\ frames # <<>>
  /\ AtEnd(Top)
  /\ LET swept == Sweep(lists[Top.list], Top.dead)
         n == Len(lists[Top.list]) - Len(swept.rest)
         outer == Shortened(SubSeq(frames, 1, Len(frames) - 1), Top.list, n)
     IN /\ lists' = [lists EXCEPT ![Top.list] = swept.rest]
        /\ frames' = IF swept.ok \/ outer = <<>> THEN outer
                     ELSE [outer EXCEPT ![Len(outer)].inCall = 0]
  /\ UNCHANGED <<target, current, alive>>

Next ==
  \/ \E c \in Callback : Subscribe(c) \/ Unsubscribe(c) \/ Die(c)
  \/ Publish \/ Call \/ SkipDead \/ Return \/ Finish

Spec == Init /\ [][Next]_vars

-----------------------------------------------------------------------------
(* Properties.                                                             *)

\* Nobody is called whose unsubscribe() has returned, although a publication may
\* walk a list that is no longer in Subscribers.
OnlySubscribed ==
  [][Call => current # 0 /\ NextRef \in Range(lists[current])]_vars

\* Whom a publication that has come to its end should have called and did not.
Missed(f) ==
  {r \in f.start : ~Dead(r) /\ r \in Range(lists[f.list]) /\ r \notin Range(f.called)}

\* A publication misses at most as many subscribers as references were removed
\* from under it; when nothing is removed it misses none.
MissedAreShifted ==
  \A k \in DOMAIN frames :
    AtEnd(frames[k]) => Cardinality(Missed(frames[k])) <= frames[k].removed
=============================================================================
