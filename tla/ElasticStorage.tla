--------------------------- MODULE ElasticStorage ---------------------------
(***************************************************************************)
(* The storage service on ElasticSearch (asab/storage/elasticsearch.py).   *)
(* Whatever its version, an upsertor with an identifier is one request     *)
(* _update with doc_as_upsert: all the fields it sets are merged into the  *)
(* document, which is created when it is missing; what it increments,      *)
(* pushes, pulls or unsets is not sent.                                    *)
(*                                                                         *)
(* The content of a document is the set of the writes that made the fields *)
(* that components set, as in SoftLock: they are computed from what was    *)
(* read.                                                                   *)
(***************************************************************************)
EXTENDS Naturals

CONSTANTS
  Clients,      \* tasks that use the storage
  Ids,          \* identifiers of objects
  MaxWrites,    \* bound on the writes
  MaxDeletes    \* bound on the deletions

VARIABLES
  docs,         \* the index
  up,           \* what each client has read for its upsertor
  writes,       \* the number of writes so far; the last one is the newest
  used,         \* the identifiers that were ever in the index
  deletes

vars == <<docs, up, writes, used, deletes>>

Doc == [exists : BOOLEAN, by : SUBSET (1..MaxWrites)]
NoDoc == [exists |-> FALSE, by |-> {}]
Idle == [held |-> FALSE]

\* Every variable has its type, and a document that is missing has no fields.
TypeOK ==
  /\ docs \in [Ids -> Doc]
  /\ \A i \in Ids : docs[i].exists \/ docs[i] = NoDoc
  /\ up \in [Clients -> {Idle} \cup [held : {TRUE}, id : Ids, by : SUBSET (1..MaxWrites)]]
  /\ used \in SUBSET Ids
  /\ writes \in 0..MaxWrites /\ deletes \in 0..MaxDeletes

Init ==
  /\ docs = [i \in Ids |-> NoDoc]
  /\ up = [c \in Clients |-> Idle]
  /\ used = {} /\ writes = 0 /\ deletes = 0
-----------------------------------------------------------------------------
\* POST _update with doc_as_upsert: the fields are set, in a document that is there or not.
Merge(i, by) ==
  /\ writes < MaxWrites
  /\ writes' = writes + 1
  /\ docs' = [docs EXCEPT ![i] = [exists |-> TRUE, by |-> by \cup {writes + 1}]]
  /\ used' = used \cup {i}

\* get(), and upsertor() with the version that was read; None is returned for a document
\* that is missing.
Get(c, i) ==
  /\ up[c] = Idle
  /\ docs[i].exists
  /\ up' = [up EXCEPT ![c] = [held |-> TRUE, id |-> i, by |-> docs[i].by]]
  /\ UNCHANGED <<docs, writes, used, deletes>>

\* execute() with a version: _update_existing_object(), whatever is there by now.
Update(c) ==
  /\ up[c].held
  /\ Merge(up[c].id, up[c].by)
  /\ up' = [up EXCEPT ![c] = Idle]
  /\ UNCHANGED deletes

\* execute() with an identifier and version 0 or None, or a document of update_by_bulk(); a
\* document that exists is no error.
Insert(c, i) ==
  /\ up[c] = Idle
  /\ Merge(i, {})
  /\ UNCHANGED <<up, deletes>>

\* execute() without an identifier: _insert_new_object(), of which ElasticSearch generates
\* one.  With something pushed it raises NotImplementedError and nothing is sent.
InsertGenerated(c) == \E i \in Ids \ used : Insert(c, i)

\* delete()
Delete(i) ==
  /\ docs[i].exists /\ deletes < MaxDeletes
  /\ deletes' = deletes + 1
  /\ docs' = [docs EXCEPT ![i] = NoDoc]
  /\ UNCHANGED <<up, writes, used>>

Next ==
  \/ \E c \in Clients, i \in Ids : Get(c, i) \/ Insert(c, i)
  \/ \E c \in Clients : Update(c) \/ InsertGenerated(c)
  \/ \E i \in Ids : Delete(i)

Spec == Init /\ [][Next]_vars
-----------------------------------------------------------------------------
\* The documents and the copies of them, as SoftLock sees them.
Copies == [c \in Clients |-> IF up[c].held THEN [held |-> TRUE, id |-> up[c].id, by |-> up[c].by]
                                           ELSE [held |-> FALSE]]
Lock == INSTANCE SoftLock WITH Writes <- 1..MaxWrites, store <- docs, copy <- Copies

\* A version that was read is a soft lock, as service.py:70 has it of every storage.
Locked == Lock!Spec
=============================================================================
