-------------------------- MODULE FileSystemProvider --------------------------
(***************************************************************************)
(* Changes of files in the provider of a file system                       *)
(* (asab/library/providers/filesystem.py): subscribe() watches a directory *)
(* and everything under it by inotify, the reader of inotify events        *)
(* watches directories that appear, and a timer, restarted by every read   *)
(* of events, announces the subscriptions that the events belong to.       *)
(*                                                                         *)
(* Other processes change the file system at any moment: between the watch *)
(* that is added to a directory and the list that is made of it, too.      *)
(* Layered chooses the reader: that of SimpleFileSystemLibraryProvider,    *)
(* which the cache uses, or that of FileSystemLibraryProvider.             *)
(***************************************************************************)
EXTENDS Naturals, Sequences, SequencesExt

CONSTANTS
  Names,         \* the names of directories
  MaxDepth,      \* bound on the depth of the tree of directories
  Layered,       \* whether the provider is a FileSystemLibraryProvider
  MaxEdits,      \* bound on the changes of the file system
  MaxListFails   \* bound on the lists that meet a file which has just been removed

VARIABLES
  inode,         \* the directory of each path, 0 for none
  kernel,        \* the directories that inotify watches; a wd stands for its inode
  inotify,       \* the events that were not read yet
  wds,           \* WDs: the subscribed path and the path of a wd
  aggr,          \* the wds of AggrEvents
  aggrTimer,     \* whether AggrTimer is started
  reader,        \* what subscribe() or _on_inotify_read() is doing
  fsSubscribed,  \* the subscribed paths
  stale,         \* history: those whose subscribers were not told of a change yet
  lost,          \* history: those that the code leaves untold, for the reasons below
  edits, listFails

fsVars == <<inode, kernel, inotify, wds, aggr, aggrTimer, reader, fsSubscribed, stale, lost,
            edits, listFails>>

Path == UNION {[1..n -> Names] : n \in 0..MaxDepth}
Inodes == 1..(MaxEdits + 1)
Exists(p) == inode[p] # 0
Under(p) == {q \in Path : IsPrefix(p, q)}
Event(i, kind, name) == [wd |-> i, kind |-> kind, name |-> name]
NoName == "none"
Events == [wd: Inodes, kind: {"mkdir", "change", "ignored"}, name: Names \cup {NoName}]
\* The reader has a batch of events, the subscribed path that it watches directories for,
\* those that it has yet to watch, and the one that it watched last and has yet to list.
Idle == [at |-> "idle", batch |-> <<>>, sub |-> <<>>, walk |-> {}, watched |-> {}]
Walking == reader.walk # {} \/ reader.watched # {}

TypeOK ==
  /\ inode \in [Path -> {0} \cup Inodes]
  /\ kernel \subseteq Inodes
  /\ inotify \in Seq(Events)
  /\ DOMAIN wds \subseteq Inodes /\ aggr \subseteq Inodes
  /\ aggrTimer \in BOOLEAN
  /\ reader.at \in {"idle", "subscribe", "events"}
  /\ UNION {fsSubscribed, stale, lost} \subseteq Path
  /\ edits \in 0..MaxEdits /\ listFails \in 0..MaxListFails

\* There is one directory, the base of the provider.
Init ==
  /\ inode = [p \in Path |-> IF p = <<>> THEN 1 ELSE 0]
  /\ kernel = {} /\ inotify = <<>>
  /\ wds = [i \in {} |-> Idle] /\ aggr = {} /\ aggrTimer = FALSE
  /\ reader = Idle
  /\ fsSubscribed = {} /\ stale = {} /\ lost = {}
  /\ edits = 0 /\ listFails = 0
-----------------------------------------------------------------------------
(* Other processes, and inotify.                                           *)

\* inotify queues the events of the directories that it watches.
Queued(e) == IF e.wd \in kernel THEN <<e>> ELSE <<>>

\* Something changed in p, and inotify has queued the events.
Edit(p, events) ==
  /\ edits < MaxEdits
  /\ edits' = edits + 1
  /\ stale' = stale \cup {s \in fsSubscribed : IsPrefix(s, p)}
  /\ inotify' = inotify \o events
  /\ UNCHANGED <<wds, aggr, aggrTimer, reader, fsSubscribed, listFails>>

WriteFile(p) ==
  /\ Exists(p)
  /\ Edit(p, Queued(Event(inode[p], "change", NoName)))
  /\ UNCHANGED <<inode, kernel, lost>>

MakeDirectory(p) ==
  /\ p # <<>> /\ ~Exists(p) /\ Exists(Front(p))
  /\ inode' = [inode EXCEPT ![p] = edits + 2]
  /\ Edit(Front(p), Queued(Event(inode[Front(p)], "mkdir", Last(p))))
  /\ UNCHANGED <<kernel, lost>>

\* A subscription whose directory is removed is forgotten: the events of the directory
\* reach AggrEvents, and then IN_IGNORED removes it from WDs.
RemoveDirectory(p) ==
  /\ p # <<>> /\ {q \in Under(p) : Exists(q)} = {p}
  /\ inode' = [inode EXCEPT ![p] = 0]
  /\ kernel' = kernel \ {inode[p]}
  /\ lost' = lost \cup (fsSubscribed \cap {p})
  /\ Edit(p, Queued(Event(inode[p], "change", NoName)) \o Queued(Event(inode[p], "ignored", NoName))
             \o Queued(Event(inode[Front(p)], "change", NoName)))
-----------------------------------------------------------------------------
(* subscribe(), and _subscribe_recursive().                                *)

Subscribe(p) ==
  /\ reader = Idle /\ Exists(p) /\ p \notin fsSubscribed
  /\ reader' = [Idle EXCEPT !.at = "subscribe", !.sub = p, !.walk = {p}]
  /\ UNCHANGED <<inode, kernel, inotify, wds, aggr, aggrTimer, fsSubscribed, stale, lost,
                 edits, listFails>>

\* inotify_add_watch() of a directory, of the deepest first, as it recurs; the directory may
\* be gone.  One that is watched already now belongs to this subscription.
AddWatch ==
  /\ reader.watched = {}
  /\ \E p \in reader.walk :
       LET i == inode[p] IN
       /\ \A q \in reader.walk : Len(q) <= Len(p)
       /\ IF i = 0
            THEN reader' = [reader EXCEPT !.walk = @ \ {p}] /\ UNCHANGED <<kernel, wds>>
            ELSE /\ kernel' = kernel \cup {i}
                 /\ wds' = [x \in DOMAIN wds \cup {i} |->
                              IF x = i THEN [sub |-> reader.sub, path |-> p] ELSE wds[x]]
                 /\ reader' = [reader EXCEPT !.walk = @ \ {p}, !.watched = {p}]
  /\ UNCHANGED <<inode, inotify, aggr, aggrTimer, fsSubscribed, stale, lost, edits, listFails>>

Children(p) == {q \in Path : q # <<>> /\ Front(q) = p /\ Exists(q)}

\* _list() and the directories in it; a path that is gone is silent.
List ==
  /\ \E p \in reader.watched :
       reader' = [reader EXCEPT !.walk = @ \cup Children(p), !.watched = {}]
  /\ UNCHANGED <<inode, kernel, inotify, wds, aggr, aggrTimer, fsSubscribed, stale, lost,
                 edits, listFails>>

\* A file is removed between the list of names and its stat(): the error leaves the rest
\* of the walk and of the events, and AggrTimer is not restarted; a subscription that
\* failed leaves the watches that it has made.
ListFails ==
  /\ reader.watched # {}
  /\ listFails < MaxListFails
  /\ listFails' = listFails + 1
  /\ reader' = Idle
  /\ lost' = lost \cup fsSubscribed \cup {s \in {reader.sub} : reader.at = "subscribe"}
  /\ UNCHANGED <<inode, kernel, inotify, wds, aggr, aggrTimer, fsSubscribed, stale, edits>>

\* Of two subscriptions that overlap only the later is told of what both contain.
SubscribeDone ==
  /\ reader.at = "subscribe" /\ ~Walking
  /\ reader' = Idle
  /\ fsSubscribed' = fsSubscribed \cup {reader.sub}
  /\ LET others == {s \in fsSubscribed \cup lost :
                      s # reader.sub /\ (IsPrefix(s, reader.sub) \/ IsPrefix(reader.sub, s))}
         missed == ~Exists(reader.sub) \/ inode[reader.sub] \notin kernel IN
     lost' = lost \cup others \cup {s \in {reader.sub} : others # {} \/ missed}
  /\ UNCHANGED <<inode, kernel, inotify, wds, aggr, aggrTimer, stale, edits, listFails>>
-----------------------------------------------------------------------------
(* _on_inotify_read() and _on_aggr_timer().                                *)

ReadEvents ==
  /\ reader = Idle /\ inotify # <<>>
  /\ reader' = [Idle EXCEPT !.at = "events", !.batch = inotify]
  /\ inotify' = <<>>
  /\ UNCHANGED <<inode, kernel, wds, aggr, aggrTimer, fsSubscribed, stale, lost, edits, listFails>>

\* A directory that appears is watched for the subscription of its parent.
WatchNew ==
  /\ reader.at = "events" /\ reader.batch # <<>> /\ ~Walking
  /\ LET e == Head(reader.batch) IN
     /\ e.kind = "mkdir"
     /\ reader' = [reader EXCEPT
          !.batch[1].kind = "change",
          !.sub = wds[e.wd].sub,
          !.walk = {Append(wds[e.wd].path, e.name)}]
  /\ UNCHANGED <<inode, kernel, inotify, wds, aggr, aggrTimer, fsSubscribed, stale, lost,
                 edits, listFails>>

\* An event is recorded in AggrEvents; the reader of the layered provider does not do that.
Record ==
  /\ reader.at = "events" /\ reader.batch # <<>> /\ ~Walking
  /\ LET e == Head(reader.batch) IN
     \/ /\ e.kind = "ignored"
        /\ wds' = [i \in DOMAIN wds \ {e.wd} |-> wds[i]]
        /\ UNCHANGED aggr
     \/ /\ e.kind = "change"
        /\ aggr' = IF Layered THEN aggr ELSE aggr \cup {e.wd}
        /\ UNCHANGED wds
  /\ reader' = [reader EXCEPT !.batch = Tail(reader.batch)]
  /\ UNCHANGED <<inode, kernel, inotify, aggrTimer, fsSubscribed, stale, lost, edits, listFails>>

ReadDone ==
  /\ reader.at = "events" /\ reader.batch = <<>> /\ ~Walking
  /\ aggrTimer' = TRUE
  /\ reader' = Idle
  /\ UNCHANGED <<inode, kernel, inotify, wds, aggr, fsSubscribed, stale, lost, edits, listFails>>

\* The subscriptions of the events are announced, and their subscribers read everything.
OnAggrTimer ==
  /\ aggrTimer /\ reader = Idle
  /\ aggrTimer' = FALSE
  /\ aggr' = {}
  /\ stale' = stale \ {wds[i].sub : i \in aggr \cap DOMAIN wds}
  /\ UNCHANGED <<inode, kernel, inotify, wds, reader, fsSubscribed, lost, edits, listFails>>
-----------------------------------------------------------------------------
ReaderStep ==
  \/ AddWatch \/ List \/ ListFails \/ SubscribeDone
  \/ ReadEvents \/ WatchNew \/ Record \/ ReadDone
  \/ OnAggrTimer

Next ==
  \/ \E p \in Path : WriteFile(p) \/ MakeDirectory(p) \/ RemoveDirectory(p) \/ Subscribe(p)
  \/ ReaderStep
\* The event loop calls the reader of the descriptor and the timer; changes are few, or
\* the timer would be restarted forever.
FilesSpec == Init /\ [][Next]_fsVars /\ WF_fsVars(ReaderStep)
-----------------------------------------------------------------------------
(* Properties.                                                             *)

\* With no event on its way every directory of a subscription is watched, however many
\* appeared while others were listed, as belonging to it; so no change can be missed.
AllWatched ==
  reader = Idle /\ inotify = <<>> =>
    \A s \in fsSubscribed \ lost : \A p \in Under(s) :
      Exists(p) => inode[p] \in DOMAIN wds /\ wds[inode[p]] = [sub |-> s, path |-> p]

\* A change under a subscribed directory is announced, wherever directories appeared and
\* vanished meanwhile, unless the subscription overlaps another, its own directory was
\* removed, or a list has failed.
Reported == stale \subseteq lost

\* "Take a path and subscribe to changes in this directory.  When change occurs, publish
\* PubSub signal "Library.change!"" (asab/library/providers/abc.py:51).
FilesReported == ~Reported ~> Reported
=============================================================================
