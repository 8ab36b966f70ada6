--------------------------- MODULE LibraryChanges ---------------------------
(***************************************************************************)
(* How a ZooKeeper provider of the library finds out that a directory has  *)
(* changed that somebody has subscribed to, and publishes Library.change!  *)
(* (asab/library/providers/zookeeper.py).                                  *)
(*                                                                         *)
(* Editors write items and then increment the counter in '/.version.yaml'. *)
(* The provider watches the counter and reads it every tick/60; when it is *)
(* not the one that the provider has seen first, and every tick/600, it    *)
(* compares a digest of the directory with the one it has stored.  A       *)
(* thread makes the digest, of the versions of the items, item by item,    *)
(* while editors go on and other digests are made.                         *)
(*                                                                         *)
(* One directory, with items and no subdirectories, stands for all:        *)
(* directories are checked one after the other, each on its own.  The      *)
(* provider is ready exactly while it is connected; what lies between is   *)
(* the matter of LibraryReadiness.                                         *)
(***************************************************************************)
EXTENDS Naturals, Sequences

CONSTANTS
  Items,            \* the items that the directory may hold
  Present,          \* those that it holds when the provider starts
  MaxChecks,        \* bound on the coroutines that wait for a digest at once
  MaxEdits,         \* bound on the edits of items
  MaxVersion,       \* bound on the counter
  MaxScheduled,     \* bound on the scheduled checks
  MaxSubscribes,    \* bound on the calls of subscribe()
  MaxBreaks         \* bound on the breaks of the connection

ASSUME PresentAssumption == Present \subseteq Items
ASSUME BoundsAssumption ==
  {MaxChecks, MaxEdits, MaxVersion, MaxScheduled, MaxSubscribes, MaxBreaks}
    \subseteq Nat

VARIABLES
  version,          \* the version that ZooKeeper gives an item, from 1 on; 0: no such item
  text,             \* the text of an item: the number of the edit that has written it
  counter,          \* the content of '/.version.yaml'
  isReady,          \* whether the provider is connected and ready
  watched,          \* the counter that the VersionWatch has told last
  told,             \* counters on their way to _check_version_counter()
  Version,          \* the Version of the provider, 0 for None
  scheduled,        \* checks that are scheduled in TaskService
  check,            \* what each coroutine is doing
  digest,           \* NodeDigests of the directory: the set of the one that is stored, if any
  turned,           \* history: the items that were created or removed
  returned,         \* history: whether one of them was created or removed again, so that
                    \* a version may have come back
  known,            \* history: the set of the texts that the subscriber has read last
  edits, subscribes, breaks     \* how many there were

directory == <<version, text, turned, returned, edits>>
counters == <<counter, watched, told, Version>>
vars == <<version, text, counter, isReady, watched, told, Version, scheduled,
          check, digest, turned, returned, known, edits, subscribes, breaks>>

Checks == 1..MaxChecks
Versions == [Items -> Nat]
Texts == [Items -> 0..MaxEdits]

TypeOK ==
  /\ version \in Versions
  /\ text \in Texts
  /\ counter \in 1..MaxVersion + 1
  /\ isReady \in BOOLEAN
  /\ watched \in 0..MaxVersion + 1
  /\ told \in Seq(1..MaxVersion + 1)
  /\ Version \in 0..MaxVersion + 1
  /\ scheduled \in 0..MaxScheduled
  /\ check \in [Checks -> [kind: {"idle", "check", "subscribe", "gone"}, listed: BOOLEAN,
                           left: SUBSET Items, made: Versions, broken: BOOLEAN]]
  /\ digest \subseteq Versions
  /\ turned \subseteq Items
  /\ returned \in BOOLEAN
  /\ known \subseteq Texts
  /\ edits \in 0..MaxEdits
  /\ subscribes \in 0..MaxSubscribes
  /\ breaks \in 0..MaxBreaks

Missing == [i \in Items |-> 0]
Begun(kind) == [kind |-> kind, listed |-> FALSE, left |-> {}, made |-> Missing,
                broken |-> FALSE]
\* The thread of a check has raised NoNodeError, of which the coroutine does not know yet.
Gone == [kind |-> "gone", listed |-> TRUE, left |-> {}, made |-> Missing, broken |-> FALSE]
Idle == [kind |-> "idle", listed |-> FALSE, left |-> {}, made |-> Missing, broken |-> FALSE]

Init ==
  /\ version = [i \in Items |-> IF i \in Present THEN 1 ELSE 0]
  /\ text = Missing
  /\ counter = 1
  /\ isReady = FALSE
  /\ watched = 0
  /\ told = <<>>
  /\ Version = 0
  /\ scheduled = 0
  /\ check = [c \in Checks |-> Idle]
  /\ digest = {}
  /\ turned = {}
  /\ returned = FALSE
  /\ known = {}
  /\ edits = 0
  /\ subscribes = 0
  /\ breaks = 0
-----------------------------------------------------------------------------
(* Editors.                                                                *)

Edited(i, v) ==
  /\ edits < MaxEdits
  /\ edits' = edits + 1
  /\ version' = [version EXCEPT ![i] = v]
  /\ text' = [text EXCEPT ![i] = IF v = 0 THEN 0 ELSE edits + 1]
  /\ UNCHANGED <<counters, isReady, scheduled, digest, known, subscribes, breaks>>

Set(i) ==
  /\ version[i] > 0
  /\ Edited(i, version[i] + 1)
  /\ UNCHANGED <<turned, returned, check>>

\* ZooKeeper gives every item that is created the same first version.
Turn(i) ==
  /\ turned' = turned \cup {i}
  /\ returned' = (returned \/ i \in turned)
  /\ Edited(i, IF version[i] = 0 THEN 1 ELSE 0)

CreateOrRemove(i) == Turn(i) /\ UNCHANGED check

IncrementVersion ==
  /\ counter <= MaxVersion
  /\ counter' = counter + 1
  /\ UNCHANGED <<directory, isReady, watched, told, Version, scheduled, check,
                 digest, known, subscribes, breaks>>
-----------------------------------------------------------------------------
(* The connection and the counter.                                         *)

\* A digest is made: no call is left.
Made(c) == check[c].listed /\ check[c].left = {}

Break ==
  /\ breaks < MaxBreaks
  /\ isReady
  /\ breaks' = breaks + 1
  /\ isReady' = FALSE
  /\ check' = [c \in Checks |-> [check[c] EXCEPT
                               !.broken = check[c].kind # "idle" /\ ~Made(c)]]
  /\ UNCHANGED <<directory, counters, scheduled, digest, known, subscribes>>

\* _on_zk_connected(): the new VersionWatch tells the counter that it finds.
Connect ==
  /\ ~isReady
  /\ isReady' = TRUE
  /\ watched' = counter
  /\ told' = Append(told, counter)
  /\ UNCHANGED <<directory, counter, Version, scheduled, check, digest, known,
                 subscribes, breaks>>

\* on_version_changed()
OnVersionChanged ==
  /\ isReady
  /\ watched # counter
  /\ watched' = counter
  /\ told' = Append(told, counter)
  /\ UNCHANGED <<directory, counter, isReady, Version, scheduled, check, digest,
                 known, subscribes, breaks>>

\* _get_version_counter(), at tick/60.
OnTick60 ==
  /\ isReady
  /\ told = <<>>
  /\ told' = <<counter>>
  /\ UNCHANGED <<directory, counter, isReady, watched, Version, scheduled, check,
                 digest, known, subscribes, breaks>>

\* Version stays the counter that was seen first: each later one that differs
\* from it schedules a check.
CheckVersionCounter ==
  /\ told # <<>>
  /\ told' = Tail(told)
  /\ IF Version = 0
       THEN Version' = Head(told) /\ UNCHANGED scheduled
       ELSE /\ UNCHANGED Version
            /\ IF Version = Head(told)
                 THEN UNCHANGED scheduled
                 ELSE scheduled < MaxScheduled /\ scheduled' = scheduled + 1
  /\ UNCHANGED <<directory, counter, watched, isReady, check, digest, known,
                 subscribes, breaks>>
-----------------------------------------------------------------------------
(* Digests.  "broken" is said of the call of ZooKeeper that is under way.   *)

\* A coroutine begins in the first slot that is free.
Free(c) == check[c] = Idle /\ \A d \in 1..c - 1 : check[d] # Idle

\* subscribe(): the first subscriber, or another one of the same directory.
Subscribe(c) ==
  /\ isReady
  /\ subscribes < MaxSubscribes
  /\ Free(c)
  /\ subscribes' = subscribes + 1
  /\ check' = [check EXCEPT ![c] = Begun("subscribe")]
  /\ UNCHANGED <<directory, counters, isReady, scheduled, digest, known, breaks>>

\* _on_library_changed() before its digests: it returns when the provider is not
\* ready or nobody has subscribed.
LibraryChanged(c) ==
  /\ Free(c)
  /\ check' = IF isReady /\ subscribes > 0
                THEN [check EXCEPT ![c] = Begun("check")]
                ELSE check
  /\ UNCHANGED <<directory, counters, isReady, digest, known, subscribes, breaks>>

\* Mutant of OnTick600: the directory is left alone until the counter changes.
OnTick600Counted(c) == counter # Version /\ LibraryChanged(c) /\ UNCHANGED scheduled

OnTick600(c) == LibraryChanged(c) /\ UNCHANGED scheduled

StartScheduled(c) ==
  /\ scheduled > 0
  /\ scheduled' = scheduled - 1
  /\ LibraryChanged(c)

\* _get_directory_hash(): the children of the directory, then one item after the other.
List(c) ==
  /\ check[c].kind # "idle" /\ ~check[c].listed
  /\ isReady
  /\ check' = [check EXCEPT ![c].listed = TRUE, ![c].broken = FALSE,
                            ![c].left = {i \in Items : version[i] > 0}]
  /\ UNCHANGED <<directory, counters, isReady, scheduled, digest, known, subscribes, breaks>>

\* An item that is gone meanwhile has no version to put into the digest, which
\* raises: a check is given up, and so is subscribe().
Visit(c, i) ==
  /\ i \in check[c].left
  /\ isReady
  /\ check' = [check EXCEPT ![c] =
                 IF version[i] = 0
                   THEN Idle
                   ELSE [check[c] EXCEPT !.left = check[c].left \ {i},
                                         !.made[i] = version[i], !.broken = FALSE]]
  /\ UNCHANGED <<directory, counters, isReady, scheduled, digest, known, subscribes, breaks>>

\* An item is removed while a digest looks at it, between exists() and get_children(): subscribe()
\* is given up, and a check goes on with None for its digest.
Vanish(c, i) ==
  /\ i \in check[c].left
  /\ isReady /\ version[i] > 0
  /\ Turn(i)
  /\ check' = [check EXCEPT ![c] = IF check[c].kind = "check" THEN Gone ELSE Idle]

\* A call of ZooKeeper raises because the connection has broken.
DigestRaises(c) ==
  /\ check[c].broken /\ ~Made(c)
  /\ check' = [check EXCEPT ![c] = Idle]
  /\ UNCHANGED <<directory, counters, isReady, scheduled, digest, known, subscribes, breaks>>

\* The rest of subscribe(): the digest is stored, and whoever has subscribed
\* first reads the directory.
SubscribeDone(c) ==
  /\ check[c].kind = "subscribe" /\ Made(c)
  /\ digest' = {check[c].made}
  /\ known' = IF known = {} THEN {text} ELSE known
  /\ check' = [check EXCEPT ![c] = Idle]
  /\ UNCHANGED <<directory, counters, isReady, scheduled, subscribes, breaks>>

\* Mutant of CheckDone: it announces only what has a greater version.
CheckOnlyGreater(c) ==
  /\ check[c].kind = "check" /\ Made(c)
  /\ digest' = {check[c].made}
  /\ known' = IF known # {} /\ \E i \in Items, d \in digest : check[c].made[i] > d[i]
                THEN {text} ELSE known
  /\ check' = [check EXCEPT ![c] = Idle]
  /\ UNCHANGED <<directory, counters, isReady, scheduled, subscribes, breaks>>

\* The rest of do_check_path(): a digest that differs is stored and announced,
\* and whoever has subscribed reads the directory.
CheckDone(c) ==
  /\ check[c].kind = "check" /\ Made(c)
  /\ IF check[c].made \notin digest
       THEN /\ digest' = {check[c].made}
            /\ known' = IF known = {} THEN {} ELSE {text}
       ELSE UNCHANGED <<digest, known>>
  /\ check' = [check EXCEPT ![c] = Idle]
  /\ UNCHANGED <<directory, counters, isReady, scheduled, subscribes, breaks>>

\* The same with the digest None, which is that of no directory.
CheckGone(c) ==
  /\ check[c].kind = "gone"
  /\ digest' = {}
  /\ known' = IF digest = {} \/ known = {} THEN known ELSE {text}
  /\ check' = [check EXCEPT ![c] = Idle]
  /\ UNCHANGED <<directory, counters, isReady, scheduled, subscribes, breaks>>
-----------------------------------------------------------------------------
DigestStep(c) ==
  \/ List(c) \/ DigestRaises(c) \/ SubscribeDone(c) \/ CheckDone(c) \/ CheckGone(c)
  \/ \E i \in Items : Visit(c, i)

Next ==
  \/ \E i \in Items : Set(i) \/ CreateOrRemove(i)
  \/ IncrementVersion \/ Break \/ Connect \/ OnVersionChanged \/ OnTick60
  \/ CheckVersionCounter
  \/ \E c \in Checks : \/ Subscribe(c) \/ OnTick600(c) \/ StartScheduled(c)
                       \/ DigestStep(c) \/ \E i \in Items : Vanish(c, i)

Spec == Init /\ [][Next]_vars

\* The client reconnects, the loop and the threads go on, ticks/600 come.
Fairness ==
  /\ WF_vars(Connect)
  /\ WF_vars(CheckVersionCounter)
  /\ SF_vars(\E c \in Checks : StartScheduled(c))
  /\ SF_vars(\E c \in Checks : OnTick600(c) /\ check' # check)
  /\ \A c \in Checks : WF_vars(DigestStep(c))

FairSpec == Spec /\ Fairness
-----------------------------------------------------------------------------
(* Properties.                                                             *)

\* What the digests rely on: no version has come back, and the digest of the first
\* subscriber was not replaced by that of a second one (subscribe()).
Comparable == ~returned /\ subscribes <= 1

\* When the stored digest is that of the directory as it is, the subscriber
\* knows the directory as it is: otherwise nothing would ever tell him, for
\* every later digest would be equal to the stored one (do_check_path).
DigestIsKnown ==
  (Comparable /\ known # {} /\ digest = {version}) => known = {text}

\* A subscriber learns of every change in the end, whether the counter was
\* incremented or not, a connection broke or digests were made of items that
\* were edited meanwhile: "Library.change! | the content of the Library has
\* changed" (docs/reference/services/library.md:145).
Learns == <>[](Comparable /\ known # {} => known = {text})
=============================================================================
