---------------------------- MODULE MongoStorage ----------------------------
(***************************************************************************)
(* The storage service on MongoDB (asab/storage/mongodb.py).  A component  *)
(* gets an object, makes an upsertor with the version it has read, and     *)
(* executes it; other components insert, delete and write in bulk.         *)
(*                                                                         *)
(* One call of the database is one step: find_one_and_update() is atomic,  *)
(* and execute() of an object without creation time makes a second call.   *)
(* The content of an object is the set of writes that made it, as in       *)
(* SoftLock: the fields a component sets are computed from what it read.   *)
(***************************************************************************)
EXTENDS Naturals

CONSTANTS
  Clients,      \* tasks that use the storage
  Ids,          \* identifiers of objects
  Flawed,       \* objects from before, with a field that was encrypted with flawed padding
  Guarded,      \* objects that upsertors alone change: nobody deletes them or writes them in bulk
  MaxWrites,    \* bound on the writes
  MaxDeletes,   \* bound on the deletions
  MaxBulks,     \* bound on the documents that are written by update_by_bulk()
  MaxFaults     \* bound on calls of the database that fail

ASSUME BoundsAssumption == /\ {MaxWrites, MaxDeletes, MaxBulks, MaxFaults} \subseteq Nat
                           /\ Flawed \subseteq Ids /\ Guarded \subseteq Ids \ Flawed

VARIABLES
  docs,         \* the collection
  up,           \* where each client is, with what it has read
  writes,       \* the number of writes so far; the last one is the newest
  used,         \* the identifiers that were ever in the collection
  deletes, bulks, faults

vars == <<docs, up, writes, used, deletes, bulks, faults>>

\* v is _v, 0 for a document without it; created says whether it has _c.
Doc == [exists : BOOLEAN, v : 0..(MaxWrites + 2), by : SUBSET (1..MaxWrites),
        created : BOOLEAN, flawed : BOOLEAN]
NoDoc == [exists |-> FALSE, v |-> 0, by |-> {}, created |-> FALSE, flawed |-> FALSE]
OldDoc == [exists |-> TRUE, v |-> 1, by |-> {}, created |-> TRUE, flawed |-> TRUE]

Idle == [pc |-> "idle"]
At(pc, i) == [pc |-> pc, id |-> i, v |-> docs[i].v, by |-> docs[i].by]
Upsertors == {Idle} \cup [pc : {"reencrypt", "has", "create"}, id : Ids,
                          v : 0..(MaxWrites + 2), by : SUBSET (1..MaxWrites)]

\* Every variable has its type, and a document that is missing has no fields.
TypeOK ==
  /\ docs \in [Ids -> Doc]
  /\ \A i \in Ids : docs[i].exists \/ docs[i] = NoDoc
  /\ up \in [Clients -> Upsertors]
  /\ writes \in 0..MaxWrites
  /\ used \in SUBSET Ids
  /\ deletes \in 0..MaxDeletes /\ bulks \in 0..MaxBulks /\ faults \in 0..MaxFaults

Init ==
  /\ docs = [i \in Ids |-> IF i \in Flawed THEN OldDoc ELSE NoDoc]
  /\ up = [c \in Clients |-> Idle]
  /\ writes = 0
  /\ used = Flawed
  /\ deletes = 0 /\ bulks = 0 /\ faults = 0
-----------------------------------------------------------------------------
\* The next write puts content by into object i.
Write(i, d) ==
  /\ writes < MaxWrites
  /\ writes' = writes + 1
  /\ docs' = [docs EXCEPT ![i] = d]
  /\ used' = used \cup {i}

\* $inc of _v and $set of the fields of an object: those that were computed from the
\* content by, or, when nothing was read, from nothing.
Modified(i, by) == [docs[i] EXCEPT !.v = @ + 1, !.by = by \cup {writes + 1}]
Inserted(created) == [exists |-> TRUE, v |-> 1, by |-> {writes + 1},
                      created |-> created, flawed |-> FALSE]

\* get() of an object, and upsertor() with its _v; without an object get() raises.
Get(c, i) ==
  /\ up[c] = Idle
  /\ docs[i].exists /\ docs[i].v > 0
  /\ up' = [up EXCEPT ![c] = At("has", i)]
  /\ UNCHANGED <<docs, writes, used, deletes, bulks, faults>>

\* get() with decrypt, of a field with flawed padding: it is encrypted again.
GetDecrypt(c, i) ==
  /\ up[c] = Idle
  /\ docs[i].exists /\ docs[i].v > 0 /\ docs[i].flawed
  /\ up' = [up EXCEPT ![c] = At("reencrypt", i)]
  /\ UNCHANGED <<docs, writes, used, deletes, bulks, faults>>

\* Mutant of Finds: execute() does not filter by version.
FindsAnyVersion(c) == docs[up[c].id].exists

\* Whether the filter of an upsertor with a version finds its object.
Finds(c) == docs[up[c].id].exists /\ docs[up[c].id].v = up[c].v

\* The upsertor of _decrypt() and the end of get(): the object that is returned is the
\* one that was read before.
Reencrypt(c) ==
  /\ up[c].pc = "reencrypt" /\ Finds(c)
  /\ docs' = [docs EXCEPT ![up[c].id].v = @ + 1, ![up[c].id].flawed = FALSE]
  /\ up' = [up EXCEPT ![c].pc = "has"]
  /\ UNCHANGED <<writes, used, deletes, bulks, faults>>

\* The object was changed meanwhile: the upsertor, and with it get(), raises KeyError.
ReencryptFails(c) ==
  /\ up[c].pc = "reencrypt" /\ ~Finds(c)
  /\ up' = [up EXCEPT ![c] = Idle]
  /\ UNCHANGED <<docs, writes, used, deletes, bulks, faults>>

\* execute() with the version that was read.
Update(c) ==
  /\ up[c].pc = "has" /\ Finds(c)
  /\ Write(up[c].id, Modified(up[c].id, up[c].by))
  /\ up' = [up EXCEPT ![c] = Idle]
  /\ UNCHANGED <<deletes, bulks, faults>>

\* execute() finds no such version and raises KeyError.
UpdateFails(c) ==
  /\ up[c].pc = "has" /\ ~Finds(c)
  /\ up' = [up EXCEPT ![c] = Idle]
  /\ UNCHANGED <<docs, writes, used, deletes, bulks, faults>>

\* execute() with version 0: an identifier that exists raises DuplicateError.
Insert(c, i) ==
  /\ up[c] = Idle
  /\ ~docs[i].exists
  /\ Write(i, Inserted(TRUE))
  /\ UNCHANGED <<up, deletes, bulks, faults>>

\* The same without an identifier: MongoDB generates one.
InsertGenerated(c) == \E i \in Ids \ used : Insert(c, i)

\* The second call of execute() follows when the object has version 1 and no _c.
CreationFollows(c, i, d) ==
  IF d.v = 1 /\ ~d.created
    THEN up' = [up EXCEPT ![c] = [pc |-> "create", id |-> i, v |-> 1, by |-> d.by]]
    ELSE UNCHANGED up

\* execute() without a version: the object is updated, or inserted without _c.
Upsert(c, i) ==
  /\ up[c] = Idle
  /\ LET d == IF docs[i].exists THEN Modified(i, {}) ELSE Inserted(FALSE)
     IN  Write(i, d) /\ CreationFollows(c, i, d)
  /\ UNCHANGED <<deletes, bulks, faults>>

\* execute() without a version and without an identifier: the filter is empty and finds
\* any object there is.
UpsertWithoutId(c) ==
  \/ \E i \in Ids : docs[i].exists /\ Upsert(c, i)
  \/ /\ \A i \in Ids : ~docs[i].exists
     /\ \E i \in Ids \ used : Upsert(c, i)

\* The second call sets _c, of whatever object has the identifier now.
SetCreated(c) ==
  /\ up[c].pc = "create"
  /\ docs' = [docs EXCEPT ![up[c].id] = IF @.exists THEN [@ EXCEPT !.created = TRUE] ELSE @]
  /\ up' = [up EXCEPT ![c] = Idle]
  /\ UNCHANGED <<writes, used, deletes, bulks, faults>>

\* The second call fails: execute() raises.
SetCreatedFails(c) ==
  /\ up[c].pc = "create" /\ faults < MaxFaults
  /\ faults' = faults + 1
  /\ up' = [up EXCEPT ![c] = Idle]
  /\ UNCHANGED <<docs, writes, used, deletes, bulks>>

\* delete()
Delete(i) ==
  /\ i \notin Guarded
  /\ docs[i].exists /\ deletes < MaxDeletes
  /\ deletes' = deletes + 1
  /\ docs' = [docs EXCEPT ![i] = NoDoc]
  /\ UNCHANGED <<up, writes, used, bulks, faults>>

\* One document of update_by_bulk(): $set and nothing else, or a document without _v.
UpdateByBulk(i) ==
  /\ i \notin Guarded /\ bulks < MaxBulks
  /\ bulks' = bulks + 1
  /\ Write(i, [(IF docs[i].exists THEN docs[i] ELSE NoDoc) EXCEPT
                 !.exists = TRUE, !.by = {writes + 1}])
  /\ UNCHANGED <<up, deletes, faults>>

Next ==
  \/ \E c \in Clients :
       \/ \E i \in Ids : Get(c, i) \/ GetDecrypt(c, i) \/ Insert(c, i) \/ Upsert(c, i)
       \/ Reencrypt(c) \/ ReencryptFails(c) \/ Update(c) \/ UpdateFails(c)
       \/ InsertGenerated(c) \/ UpsertWithoutId(c) \/ SetCreated(c) \/ SetCreatedFails(c)
  \/ \E i \in Ids : Delete(i) \/ UpdateByBulk(i)

Spec == Init /\ [][Next]_vars
-----------------------------------------------------------------------------
\* The guarded objects and the copies of them, as SoftLock sees them: a copy is what
\* get() has returned.
Holds(c) == up[c].pc = "has" /\ up[c].id \in Guarded
Objects == [i \in Guarded |-> [exists |-> docs[i].exists, by |-> docs[i].by]]
Copies == [c \in Clients |-> IF Holds(c) THEN [held |-> TRUE, id |-> up[c].id, by |-> up[c].by]
                                         ELSE [held |-> FALSE]]

Lock == INSTANCE SoftLock WITH Ids <- Guarded, Writes <- 1..MaxWrites,
                               store <- Objects, copy <- Copies

\* A version that was read is a soft lock on a guarded object: execute() succeeds exactly
\* when nobody else has written the object since (the filter by _v, and $inc of _v, of
\* MongoDBUpsertor), whatever happens to other objects and whichever call fails.
SoftLocked == Lock!Spec

=============================================================================
