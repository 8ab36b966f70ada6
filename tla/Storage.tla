------------------------------- MODULE Storage -------------------------------
(***************************************************************************)
(* The storage module (asab/storage/__init__.py): the option type of the   *)
(* configuration selects one of the three storage services, which serves   *)
(* the clients from then on.  MongoStorage is extended, because most is    *)
(* said and proved about it; the other two are instances with a collection *)
(* and an index of their own.                                              *)
(***************************************************************************)
EXTENDS MongoStorage

CONSTANTS
  Types,        \* the types that may be configured
  MaxDecrypts   \* bound on the calls of get() in memory that decrypt

ASSUME StorageAssumption ==
  Types \subseteq {"mongodb", "inmemory", "elasticsearch"} /\ MaxDecrypts \in Nat

VARIABLES
  type,                                         \* asab:storage, type
  mDocs, mUp, mWrites, mDeletes, mDecrypts,     \* the storage in memory
  eDocs, eUp, eWrites, eUsed, eDeletes          \* the storage on ElasticSearch

memoryVars == <<mDocs, mUp, mWrites, mDeletes, mDecrypts>>
elasticVars == <<eDocs, eUp, eWrites, eUsed, eDeletes>>

Memory == INSTANCE InMemoryStorage WITH docs <- mDocs, up <- mUp, writes <- mWrites,
                                        deletes <- mDeletes, decrypts <- mDecrypts
Elastic == INSTANCE ElasticStorage WITH docs <- eDocs, up <- eUp, writes <- eWrites,
                                        used <- eUsed, deletes <- eDeletes

StorageInit ==
  /\ type \in Types
  /\ Init /\ Memory!Init /\ Elastic!Init

StorageNext ==
  \/ type = "mongodb" /\ Next /\ UNCHANGED <<memoryVars, elasticVars>>
  \/ type = "inmemory" /\ Memory!Next /\ UNCHANGED <<vars, elasticVars>>
  \/ type = "elasticsearch" /\ Elastic!Next /\ UNCHANGED <<vars, memoryVars>>

StorageSpec == StorageInit /\ [][StorageNext /\ UNCHANGED type]_<<vars, memoryVars, elasticVars, type>>
-----------------------------------------------------------------------------
\* Every variable of the other two storages has its type, and a document that is missing
\* has no fields.
OthersTypeOK == Memory!TypeOK /\ Elastic!TypeOK

\* A version that was read is a soft lock in memory and on ElasticSearch, too, as service.py:70
\* says of the storage service.  Their upsertors compare no version (inmemory.py:37-38,
\* elasticsearch.py:666-680), and the code violates it.
OthersLocked == Memory!Locked /\ Elastic!Locked
=============================================================================
