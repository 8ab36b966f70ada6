------------------------------ MODULE SoftLock ------------------------------
(***************************************************************************)
(* What the storage service promises to its clients                        *)
(* (asab/storage/service.py, StorageServiceABC): a client that presents    *)
(* the version it has read holds a soft lock on the object.  Its write     *)
(* succeeds exactly when nobody else has written the object since.         *)
(*                                                                         *)
(* The content of an object is the set of the writes that made it.  A      *)
(* client computes the new content from the content it has read, so a      *)
(* write whose author had not seen another one would undo that one.        *)
(***************************************************************************)
CONSTANTS
  Clients,      \* tasks of services that use the storage
  Ids,          \* identifiers of objects
  Writes        \* the identities of writes

VARIABLES
  store,        \* the objects: the content of each, or Absent
  copy          \* what a client has read and not yet written, or NoCopy

Absent == [exists |-> FALSE, by |-> {}]
Content(by) == [exists |-> TRUE, by |-> by]
NoCopy == [held |-> FALSE]

\* There may be objects from before, of which no write is told apart.
Init == /\ store \in [Ids -> {Absent, Content({})}]
        /\ copy = [c \in Clients |-> NoCopy]

\* get() returns an object with its version.
Read(c, i) ==
  /\ store[i].exists
  /\ copy' = [copy EXCEPT ![c] = [held |-> TRUE, id |-> i, by |-> store[i].by]]
  /\ UNCHANGED store

\* execute() with the version that was read: nobody has written since.
Commit(c) ==
  /\ copy[c].held
  /\ store[copy[c].id] = Content(copy[c].by)
  /\ \E w \in Writes \ copy[c].by :
       store' = [store EXCEPT ![copy[c].id] = Content(copy[c].by \cup {w})]
  /\ copy' = [copy EXCEPT ![c] = NoCopy]

\* The same when somebody has: the upsertor fails, and the client starts again.
Refuse(c) ==
  /\ copy[c].held
  /\ store[copy[c].id] # Content(copy[c].by)
  /\ copy' = [copy EXCEPT ![c] = NoCopy]
  /\ UNCHANGED store

\* A new object.
Create(i) ==
  /\ ~store[i].exists
  /\ \E w \in Writes : store' = [store EXCEPT ![i] = Content({w})]
  /\ UNCHANGED copy

\* A write without a version asks for no lock, and may undo any of the writes before.
Overwrite(i) ==
  /\ store[i].exists
  /\ \E kept \in SUBSET store[i].by, w \in Writes :
       store' = [store EXCEPT ![i] = Content(kept \cup {w})]
  /\ UNCHANGED copy

Remove(i) ==
  /\ store[i].exists
  /\ store' = [store EXCEPT ![i] = Absent]
  /\ UNCHANGED copy

Next == \/ \E c \in Clients : \/ \E i \in Ids : Read(c, i)
                              \/ Commit(c) \/ Refuse(c)
        \/ \E i \in Ids : Create(i) \/ Overwrite(i) \/ Remove(i)

Spec == Init /\ [][Next]_<<store, copy>>
=============================================================================
