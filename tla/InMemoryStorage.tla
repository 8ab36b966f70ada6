--------------------------- MODULE InMemoryStorage --------------------------
(***************************************************************************)
(* The storage service in memory (asab/storage/inmemory.py): the objects   *)
(* are dictionaries of the process, and get() returns the very dictionary  *)
(* that is stored.  No coroutine of this module suspends, so each call is  *)
(* one step; components interleave between get() and execute().            *)
(*                                                                         *)
(* The content of an object is the set of the writes that made it, as in   *)
(* SoftLock.  What execute() increments, pushes and pulls it takes from    *)
(* the object as it is; what it sets or unsets its component has computed  *)
(* from what it read, and so undoes what was written since.                *)
(***************************************************************************)
EXTENDS Naturals

CONSTANTS
  Clients,      \* tasks that use the storage
  Ids,          \* identifiers of objects
  MaxWrites,    \* bound on the writes
  MaxDeletes,   \* bound on the deletions
  MaxDecrypts   \* bound on the calls of get() that decrypt

VARIABLES
  docs,         \* the collection
  up,           \* what each client has read for its upsertor
  writes,       \* the number of writes so far; the last one is the newest
  deletes, decrypts

vars == <<docs, up, writes, deletes, decrypts>>

\* by: the writes that made the object; secret: a field that was set with encrypt=True.
Doc == [exists : {TRUE}, v : 1..MaxWrites, by : SUBSET (1..MaxWrites),
        secret : {"cipher", "plain"}]
NoDoc == [exists |-> FALSE, v |-> 0, by |-> {}, secret |-> "plain"]
Idle == [held |-> FALSE]

\* Every variable has its type.
TypeOK ==
  /\ docs \in [Ids -> Doc \cup {NoDoc}]
  /\ up \in [Clients -> {Idle} \cup [held : {TRUE}, id : Ids, v : 1..MaxWrites,
                                     by : SUBSET (1..MaxWrites)]]
  /\ writes \in 0..MaxWrites
  /\ deletes \in 0..MaxDeletes /\ decrypts \in 0..MaxDecrypts

Init ==
  /\ docs = [i \in Ids |-> NoDoc]
  /\ up = [c \in Clients |-> Idle]
  /\ writes = 0 /\ deletes = 0 /\ decrypts = 0
-----------------------------------------------------------------------------
\* ModSet, ModUnset, ModInc, ModPush and ModPull are applied to the stored object, one after
\* the other.  One that raises, as a push to what is no list, leaves what was applied before.
Write(i, d) ==
  /\ writes < MaxWrites
  /\ writes' = writes + 1
  /\ docs' = [docs EXCEPT ![i] = d]

Hold(c, i) == up' = [up EXCEPT ![c] =
  [held |-> TRUE, id |-> i, v |-> docs[i].v, by |-> docs[i].by]]

\* get(), and upsertor() with the version that was read; a missing object raises KeyError.
Get(c, i) ==
  /\ up[c] = Idle
  /\ docs[i].exists
  /\ Hold(c, i)
  /\ UNCHANGED <<docs, writes, deletes, decrypts>>

\* get() with decrypt replaces the field in the stored object; once it is plain, this
\* call raises.
GetDecrypt(c, i) ==
  /\ up[c] = Idle /\ decrypts < MaxDecrypts
  /\ docs[i].exists /\ docs[i].secret = "cipher"
  /\ decrypts' = decrypts + 1
  /\ docs' = [docs EXCEPT ![i].secret = "plain"]
  /\ Hold(c, i)
  /\ UNCHANGED <<writes, deletes>>

\* execute() with a version: the object is modified, whichever version it has.
Update(c) ==
  /\ up[c].held
  /\ docs[up[c].id].exists
  /\ Write(up[c].id, [docs[up[c].id] EXCEPT !.v = @ + 1, !.by = up[c].by \cup {writes + 1}])
  /\ up' = [up EXCEPT ![c] = Idle]
  /\ UNCHANGED <<deletes, decrypts>>

\* get() raises KeyError in execute(): the object was deleted.
UpdateFails(c) ==
  /\ up[c].held
  /\ ~docs[up[c].id].exists
  /\ up' = [up EXCEPT ![c] = Idle]
  /\ UNCHANGED <<docs, writes, deletes, decrypts>>

\* execute() without a version; a missing object raises KeyError here too.
UpdateBlindly(c, i) ==
  /\ up[c] = Idle
  /\ docs[i].exists
  /\ Write(i, [docs[i] EXCEPT !.v = @ + 1, !.by = {writes + 1}])
  /\ UNCHANGED <<up, deletes, decrypts>>

\* execute() with version 0; an object that exists raises DuplicateError in _set().
Insert(c, i) ==
  /\ up[c] = Idle
  /\ ~docs[i].exists
  /\ Write(i, [exists |-> TRUE, v |-> 1, by |-> {writes + 1}, secret |-> "cipher"])
  /\ UNCHANGED <<up, deletes, decrypts>>

\* delete()
Delete(i) ==
  /\ docs[i].exists /\ deletes < MaxDeletes
  /\ deletes' = deletes + 1
  /\ docs' = [docs EXCEPT ![i] = NoDoc]
  /\ UNCHANGED <<up, writes, decrypts>>

Next ==
  \/ \E c \in Clients :
       \/ \E i \in Ids : Get(c, i) \/ GetDecrypt(c, i) \/ UpdateBlindly(c, i) \/ Insert(c, i)
       \/ Update(c) \/ UpdateFails(c)
  \/ \E i \in Ids : Delete(i)

Spec == Init /\ [][Next]_vars
-----------------------------------------------------------------------------
\* The objects and the copies of them, as SoftLock sees them.
Objects == [i \in Ids |-> [exists |-> docs[i].exists, by |-> docs[i].by]]
Copies == [c \in Clients |-> IF up[c].held THEN [held |-> TRUE, id |-> up[c].id, by |-> up[c].by]
                                           ELSE [held |-> FALSE]]
Lock == INSTANCE SoftLock WITH Writes <- 1..MaxWrites, store <- Objects, copy <- Copies

\* A version that was read is a soft lock, as service.py:70 has it of every storage.
Locked == Lock!Spec
=============================================================================
