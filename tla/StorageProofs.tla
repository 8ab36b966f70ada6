---------------------------- MODULE StorageProofs ----------------------------
(***************************************************************************)
(* Theorems about the storages, for any clients, objects and bounds.       *)
(* First about MongoStorage: its types, and that it implements SoftLock    *)
(* for the guarded objects, whatever happens to the others.  That it does  *)
(* rests on what _v stands for: a client whose version is the current one  *)
(* has read the current content, and one whose version is older has missed *)
(* a write.  At the end about the other two, and Storage as a whole.       *)
(***************************************************************************)
EXTENDS Storage, Integers, TLAPS

\* How far _v can get ahead of the number of writes: an object from before starts at 1,
\* and it is encrypted again once.
VersionBounds ==
  /\ \A i \in Ids : /\ docs[i].v <= writes + 2
                    /\ docs[i].flawed => docs[i].v <= writes + 1
  /\ \A c \in Clients : up[c].pc = "reencrypt" => up[c].v <= writes + 1

TypeInv == TypeOK /\ VersionBounds

LEMMA Bounds == /\ MaxWrites \in Nat /\ MaxDeletes \in Nat /\ MaxBulks \in Nat /\ MaxFaults \in Nat
                /\ Flawed \subseteq Ids /\ Guarded \subseteq Ids \ Flawed
  BY BoundsAssumption

\* What the type of a document, and of what a client holds, says of their parts.
LEMMA DocParts ==
  ASSUME NEW d \in Doc
  PROVE  /\ d.v \in 0..(MaxWrites + 2) /\ d.v \in Nat /\ d.by \in SUBSET (1..MaxWrites)
         /\ d.exists \in BOOLEAN /\ d.created \in BOOLEAN /\ d.flawed \in BOOLEAN
  BY Bounds DEF Doc

LEMMA NoDocType == NoDoc \in Doc /\ NoDoc.v = 0 /\ NoDoc.by = {} /\ ~NoDoc.exists /\ ~NoDoc.flawed
  BY Bounds DEF Doc, NoDoc

LEMMA UpParts ==
  ASSUME NEW u \in Upsertors
  PROVE  \/ u = Idle /\ u.pc = "idle"
         \/ /\ u.pc \in {"reencrypt", "has", "create"} /\ u.id \in Ids
            /\ u.v \in Nat /\ u.by \in SUBSET (1..MaxWrites)
            /\ [u EXCEPT !.pc = "has"] \in Upsertors
  BY Bounds DEF Upsertors, Idle

LEMMA TypeInvInit == Init => TypeInv
  BY Bounds
  DEF Init, TypeInv, TypeOK, VersionBounds, Doc, NoDoc, OldDoc, Idle, Upsertors

\* What the invariant says of one document and of one client.
LEMMA OneOf ==
  ASSUME TypeInv
  PROVE  /\ writes \in Nat /\ writes <= MaxWrites
         /\ \A i \in Ids : /\ docs[i] \in Doc /\ docs[i].v \in Nat
                           /\ docs[i].by \in SUBSET (1..MaxWrites)
                           /\ docs[i].exists \/ docs[i] = NoDoc
                           /\ docs[i].v <= writes + 2
                           /\ docs[i].flawed => docs[i].v <= writes + 1
         /\ \A c \in Clients : /\ up[c] \in Upsertors
                               /\ up[c] # Idle => up[c].id \in Ids /\ up[c].v \in Nat
                                                 /\ up[c].by \in SUBSET (1..MaxWrites)
                               /\ up[c].pc = "reencrypt" => up[c].v <= writes + 1
<1>1. writes \in Nat /\ writes <= MaxWrites
  BY Bounds DEF TypeInv, TypeOK
<1>2. ASSUME NEW i \in Ids
      PROVE  /\ docs[i] \in Doc /\ docs[i].v \in Nat
             /\ docs[i].by \in SUBSET (1..MaxWrites)
             /\ docs[i].exists \/ docs[i] = NoDoc
             /\ docs[i].v <= writes + 2
             /\ docs[i].flawed => docs[i].v <= writes + 1
  <2>1. docs[i] \in Doc /\ (docs[i].exists \/ docs[i] = NoDoc)
    BY DEF TypeInv, TypeOK
  <2>. QED BY <2>1, DocParts DEF TypeInv, VersionBounds
<1>3. ASSUME NEW c \in Clients
      PROVE  /\ up[c] \in Upsertors
             /\ up[c] # Idle => up[c].id \in Ids /\ up[c].v \in Nat
                               /\ up[c].by \in SUBSET (1..MaxWrites)
             /\ up[c].pc = "reencrypt" => up[c].v <= writes + 1
  <2>1. up[c] \in Upsertors
    BY DEF TypeInv, TypeOK
  <2>. QED BY <2>1, UpParts DEF TypeInv, VersionBounds
<1>. QED BY <1>1, <1>2, <1>3

\* A step keeps the types when it changes one document, not too far ahead, and lets no
\* client wait for another one to be encrypted again.
LEMMA PutKeepsTypes ==
  ASSUME TypeInv, NEW i \in Ids, NEW d \in Doc, d.exists \/ d = NoDoc,
         docs' = [docs EXCEPT ![i] = d],
         writes' \in 0..MaxWrites, writes <= writes',
         d.v <= writes' + 2, d.flawed => d.v <= writes' + 1,
         used' \in SUBSET Ids, up' \in [Clients -> Upsertors],
         \A c \in Clients : up'[c].pc = "reencrypt" => up'[c] = up[c],
         deletes' \in 0..MaxDeletes, bulks' \in 0..MaxBulks, faults' \in 0..MaxFaults
  PROVE  TypeInv'
<1>1. docs' \in [Ids -> Doc]
  BY DEF TypeInv, TypeOK
<1>2. docs'[i] = d /\ \A j \in Ids \ {i} : docs'[j] = docs[j]
  BY DEF TypeInv, TypeOK
<1>3. writes \in Nat /\ writes' \in Nat /\ d.v \in Nat
  BY OneOf, Bounds, DocParts
<1>4. ASSUME NEW j \in Ids
      PROVE  /\ docs'[j].exists \/ docs'[j] = NoDoc
             /\ docs'[j].v <= writes' + 2 /\ (docs'[j].flawed => docs'[j].v <= writes' + 1)
  <2>1. CASE j = i
    BY <2>1, <1>2
  <2>2. CASE j # i
    BY <2>2, <1>2, <1>3, OneOf
  <2>. QED BY <2>1, <2>2
<1>5. ASSUME NEW c \in Clients, up'[c].pc = "reencrypt" PROVE up'[c].v <= writes' + 1
  <2>1. up'[c] = up[c] /\ up[c] # Idle
    BY <1>5 DEF Idle
  <2>. QED BY <1>3, <1>5, <2>1, OneOf
<1>6. VersionBounds'
  BY <1>4, <1>5 DEF VersionBounds
<1>. QED BY <1>1, <1>4, <1>6 DEF TypeInv, TypeOK

\* The same for a write.
LEMMA WriteKeepsTypes ==
  ASSUME TypeInv, NEW i \in Ids, NEW d \in Doc, Write(i, d), d.exists,
         d.v <= writes + 3, d.flawed => d.v <= writes + 2,
         up' \in [Clients -> Upsertors],
         \A c \in Clients : up'[c].pc = "reencrypt" => up'[c] = up[c],
         deletes' \in 0..MaxDeletes, bulks' \in 0..MaxBulks, faults' \in 0..MaxFaults
  PROVE  TypeInv'
<1>1. writes \in Nat /\ d.v \in Nat
  BY OneOf, DocParts
<1>2. /\ docs' = [docs EXCEPT ![i] = d] /\ writes' = writes + 1 /\ writes' \in 0..MaxWrites
      /\ writes <= writes' /\ d.v <= writes' + 2 /\ (d.flawed => d.v <= writes' + 1)
  BY <1>1, Bounds DEF Write
<1>3. used' \in SUBSET Ids
  BY DEF Write, TypeInv, TypeOK
<1>. QED BY <1>2, <1>3, PutKeepsTypes

\* The documents that execute() and update_by_bulk() write.
LEMMA ModifiedDoc ==
  ASSUME TypeInv, NEW i \in Ids, NEW by \in SUBSET (1..MaxWrites), writes < MaxWrites,
         docs[i].exists
  PROVE  /\ Modified(i, by) \in Doc /\ Modified(i, by).exists
         /\ Modified(i, by).v = docs[i].v + 1 /\ Modified(i, by).by = by \cup {writes + 1}
         /\ Modified(i, by).flawed = docs[i].flawed
         /\ Modified(i, by).v <= writes + 3
         /\ Modified(i, by).flawed => Modified(i, by).v <= writes + 2
<1>. DEFINE d == docs[i]
<1>1. d \in Doc /\ d.v \in Nat /\ writes \in Nat /\ d.v <= writes + 2 /\ (d.flawed => d.v <= writes + 1)
  BY OneOf
<1>2. d.v + 1 \in 0..(MaxWrites + 2) /\ by \cup {writes + 1} \in SUBSET (1..MaxWrites)
  <2>. HIDE DEF d
  <2>1. d.v + 1 \in 0..(MaxWrites + 2) /\ writes + 1 \in 1..MaxWrites
    BY <1>1, Bounds
  <2>. QED BY <2>1
<1>3. Modified(i, by) = [d EXCEPT !.v = d.v + 1, !.by = by \cup {writes + 1}]
  BY <1>1 DEF Modified, Doc
<1>. HIDE DEF d
<1>4. /\ Modified(i, by) \in Doc /\ Modified(i, by).v = d.v + 1
      /\ Modified(i, by).by = by \cup {writes + 1}
  BY <1>1, <1>2, <1>3 DEF Doc
<1>5. Modified(i, by).flawed = d.flawed /\ Modified(i, by).exists = d.exists
  BY <1>1, <1>3 DEF Doc
<1>. QED BY <1>1, <1>4, <1>5 DEF d

LEMMA InsertedDoc ==
  ASSUME TypeInv, NEW created \in BOOLEAN, writes < MaxWrites
  PROVE  /\ Inserted(created) \in Doc /\ Inserted(created).exists
         /\ Inserted(created).v = 1 /\ Inserted(created).by = {writes + 1}
         /\ ~Inserted(created).flawed
<1>1. writes + 1 \in 1..MaxWrites /\ 1 \in 0..(MaxWrites + 2)
  BY OneOf, Bounds
<1>. QED BY <1>1 DEF Inserted, Doc

LEMMA TypeInvStep == TypeInv /\ [Next]_vars => TypeInv'
<1>. SUFFICES ASSUME TypeInv, [Next]_vars PROVE TypeInv'
  OBVIOUS
<1>. USE Bounds
<1>a. \A c \in Clients : [up EXCEPT ![c] = Idle] \in [Clients -> Upsertors]
  BY DEF TypeInv, TypeOK, Upsertors
<1>b. /\ writes \in 0..MaxWrites /\ writes \in Nat /\ writes <= writes /\ used \in SUBSET Ids
      /\ up \in [Clients -> Upsertors]
      /\ deletes \in 0..MaxDeletes /\ bulks \in 0..MaxBulks /\ faults \in 0..MaxFaults
  BY DEF TypeInv, TypeOK
<1>1. ASSUME NEW c \in Clients, NEW i \in Ids, Get(c, i) PROVE TypeInv'
  <2>1. At("has", i) \in Upsertors /\ At("has", i).pc = "has"
    BY OneOf, DocParts DEF At, Upsertors
  <2>. QED BY <1>1, <2>1 DEF Get, TypeInv, TypeOK, VersionBounds
<1>2. ASSUME NEW c \in Clients, NEW i \in Ids, GetDecrypt(c, i) PROVE TypeInv'
  <2>1. At("reencrypt", i) \in Upsertors /\ At("reencrypt", i).v = docs[i].v
    BY OneOf, DocParts DEF At, Upsertors
  <2>2. docs[i].v <= writes + 1
    BY <1>2, OneOf DEF GetDecrypt
  <2>. QED BY <1>2, <2>1, <2>2 DEF GetDecrypt, TypeInv, TypeOK, VersionBounds
<1>3. ASSUME NEW c \in Clients, Reencrypt(c) PROVE TypeInv'
  <2>. DEFINE i == up[c].id
              d == docs[i]
              e == [d EXCEPT !.v = d.v + 1, !.flawed = FALSE]
  <2>1. /\ up[c] \in Upsertors /\ up[c] # Idle /\ up[c].v <= writes + 1
        /\ docs[up[c].id].exists /\ docs[up[c].id].v = up[c].v
    BY <1>3, OneOf DEF Reencrypt, Finds, Idle
  <2>2. i \in Ids /\ d \in Doc /\ d.v \in Nat /\ d.exists /\ d.v <= writes + 1
    BY <2>1, OneOf
  <2>3. [up[c] EXCEPT !.pc = "has"] \in Upsertors /\ [up[c] EXCEPT !.pc = "has"].pc = "has"
    BY <2>1, UpParts DEF Upsertors
  <2>4. up' \in [Clients -> Upsertors] /\ \A b \in Clients : up'[b].pc = "reencrypt" => up'[b] = up[b]
    BY <1>3, <1>b, <2>3 DEF Reencrypt
  <2>5. docs' = [docs EXCEPT ![i] = e]
    BY <1>3, <2>2 DEF Reencrypt, TypeInv, TypeOK, Doc
  <2>6. d.v + 1 \in 0..(MaxWrites + 2)
    BY <1>b, <2>2
  <2>. HIDE DEF d, i
  <2>7. e \in Doc /\ e.v = d.v + 1 /\ ~e.flawed /\ e.exists = d.exists
    BY <2>2, <2>6 DEF Doc
  <2>8. /\ writes' = writes /\ used' = used
        /\ deletes' = deletes /\ bulks' = bulks /\ faults' = faults
    BY <1>3 DEF Reencrypt
  <2>. HIDE DEF e
  <2>9. e.v <= writes + 2
    BY <1>b, <2>2, <2>7
  <2>. QED BY <1>b, <2>2, <2>4, <2>5, <2>7, <2>8, <2>9, PutKeepsTypes
<1>4. ASSUME NEW c \in Clients, ReencryptFails(c) PROVE TypeInv'
  BY <1>4, <1>a DEF ReencryptFails, TypeInv, TypeOK, VersionBounds, Idle
<1>5. ASSUME NEW c \in Clients, Update(c) PROVE TypeInv'
  <2>. DEFINE d == Modified(up[c].id, up[c].by)
  <2>1. up[c] # Idle /\ docs[up[c].id].exists /\ writes < MaxWrites /\ Write(up[c].id, d)
    BY <1>5 DEF Update, Finds, Write, Idle
  <2>2. up[c].id \in Ids /\ up[c].by \in SUBSET (1..MaxWrites)
    BY <2>1, OneOf
  <2>3. d \in Doc /\ d.exists /\ d.v <= writes + 3 /\ (d.flawed => d.v <= writes + 2)
    BY <2>1, <2>2, ModifiedDoc
  <2>4. /\ up' \in [Clients -> Upsertors]
        /\ \A b \in Clients : up'[b].pc = "reencrypt" => up'[b] = up[b]
        /\ deletes' = deletes /\ bulks' = bulks /\ faults' = faults
    BY <1>5, <1>a, <1>b DEF Update, Idle
  <2>. HIDE DEF d
  <2>. QED BY <1>b, <2>1, <2>2, <2>3, <2>4, WriteKeepsTypes
<1>6. ASSUME NEW c \in Clients, UpdateFails(c) PROVE TypeInv'
  BY <1>6, <1>a DEF UpdateFails, TypeInv, TypeOK, VersionBounds, Idle
<1>7. ASSUME NEW c \in Clients, NEW i \in Ids, Insert(c, i) PROVE TypeInv'
  <2>. DEFINE d == Inserted(TRUE)
  <2>1. writes < MaxWrites /\ Write(i, d)
    BY <1>7 DEF Insert, Write
  <2>2. d \in Doc /\ d.exists /\ d.v = 1 /\ ~d.flawed
    BY <2>1, InsertedDoc
  <2>3. up' = up /\ deletes' = deletes /\ bulks' = bulks /\ faults' = faults
    BY <1>7 DEF Insert
  <2>. HIDE DEF d
  <2>. QED BY <1>b, <2>1, <2>2, <2>3, WriteKeepsTypes
<1>8. ASSUME NEW c \in Clients, NEW i \in Ids, Upsert(c, i) PROVE TypeInv'
  <2>. DEFINE d == IF docs[i].exists THEN Modified(i, {}) ELSE Inserted(FALSE)
              u == [pc |-> "create", id |-> i, v |-> 1, by |-> d.by]
  <2>1. /\ writes < MaxWrites /\ Write(i, d) /\ (up' = up \/ up' = [up EXCEPT ![c] = u])
        /\ deletes' = deletes /\ bulks' = bulks /\ faults' = faults
    BY <1>8 DEF Upsert, Write, CreationFollows
  <2>3. d \in Doc /\ d.exists /\ d.v <= writes + 3 /\ (d.flawed => d.v <= writes + 2)
    <3>1. CASE docs[i].exists
      <4>1. d = Modified(i, {}) /\ {} \in SUBSET (1..MaxWrites)
        BY <3>1
      <4>. QED BY <2>1, <3>1, <4>1, ModifiedDoc
    <3>2. CASE ~docs[i].exists
      <4>1. d = Inserted(FALSE)
        BY <3>2
      <4>2. d \in Doc /\ d.exists /\ d.v = 1 /\ ~d.flawed
        BY <2>1, <4>1, InsertedDoc
      <4>. HIDE DEF d
      <4>. QED BY <1>b, <4>2
    <3>. QED BY <3>1, <3>2
  <2>. HIDE DEF d
  <2>4. u \in Upsertors /\ u.pc = "create"
    BY <2>3, DocParts DEF Upsertors
  <2>5. /\ up' \in [Clients -> Upsertors]
        /\ \A b \in Clients : up'[b].pc = "reencrypt" => up'[b] = up[b]
    <3>. HIDE DEF u
    <3>. QED BY <1>b, <2>1, <2>4
  <2>. QED BY <1>b, <2>1, <2>3, <2>5, WriteKeepsTypes
<1>9. ASSUME NEW c \in Clients, SetCreated(c) PROVE TypeInv'
  <2>. DEFINE i == up[c].id
              d == docs[i]
              e == IF d.exists THEN [d EXCEPT !.created = TRUE] ELSE d
  <2>1. i \in Ids
    <3>1. up[c] # Idle
      BY <1>9 DEF SetCreated, Idle
    <3>. QED BY <3>1, OneOf
  <2>2. /\ d \in Doc /\ (d.exists \/ d = NoDoc) /\ d.v <= writes + 2
        /\ (d.flawed => d.v <= writes + 1)
    BY <2>1, OneOf
  <2>3. docs' = [docs EXCEPT ![i] = e]
    BY <1>9, <2>1 DEF SetCreated, TypeInv, TypeOK, Doc
  <2>. HIDE DEF d, i
  <2>4. e \in Doc /\ e.v = d.v /\ e.flawed = d.flawed /\ e.exists = d.exists
    BY <2>2, DocParts DEF Doc
  <2>5. e.exists \/ e = NoDoc
    BY <2>2, <2>4
  <2>6. /\ writes' = writes /\ used' = used /\ up' = [up EXCEPT ![c] = Idle]
        /\ deletes' = deletes /\ bulks' = bulks /\ faults' = faults
    BY <1>9 DEF SetCreated
  <2>7. up' \in [Clients -> Upsertors] /\ \A b \in Clients : up'[b].pc = "reencrypt" => up'[b] = up[b]
    BY <1>a, <1>b, <2>6 DEF Idle
  <2>. HIDE DEF e
  <2>. QED BY <1>b, <2>1, <2>2, <2>3, <2>4, <2>5, <2>6, <2>7, PutKeepsTypes
<1>10. ASSUME NEW c \in Clients, SetCreatedFails(c) PROVE TypeInv'
  BY <1>10, <1>a DEF SetCreatedFails, TypeInv, TypeOK, VersionBounds, Idle
<1>11. ASSUME NEW i \in Ids, Delete(i) PROVE TypeInv'
  <2>1. /\ writes' = writes /\ used' = used /\ up' = up /\ docs' = [docs EXCEPT ![i] = NoDoc]
        /\ deletes' \in 0..MaxDeletes /\ bulks' = bulks /\ faults' = faults
    BY <1>11, <1>b DEF Delete
  <2>2. NoDoc.v <= writes' + 2 /\ ~NoDoc.flawed
    BY <1>b, <2>1, NoDocType
  <2>3. docs' = [docs EXCEPT ![i] = NoDoc] /\ writes' \in 0..MaxWrites /\ writes <= writes'
    BY <1>b, <2>1
  <2>4. used' \in SUBSET Ids /\ up' \in [Clients -> Upsertors] /\ bulks' \in 0..MaxBulks /\ faults' \in 0..MaxFaults
    BY <1>b, <2>1
  <2>. QED BY <2>1, <2>2, <2>3, <2>4, NoDocType, PutKeepsTypes
<1>12. ASSUME NEW i \in Ids, UpdateByBulk(i) PROVE TypeInv'
  <2>. DEFINE b == IF docs[i].exists THEN docs[i] ELSE NoDoc
              d == [b EXCEPT !.exists = TRUE, !.by = {writes + 1}]
  <2>1. writes < MaxWrites /\ Write(i, d)
    BY <1>12 DEF UpdateByBulk, Write
  <2>2. b \in Doc /\ b.v <= writes + 2 /\ (b.flawed => b.v <= writes + 1) /\ b.v \in Nat
    BY <1>b, OneOf, NoDocType
  <2>3. {writes + 1} \in SUBSET (1..MaxWrites)
    BY <1>b, <2>1
  <2>. HIDE DEF b
  <2>4. d \in Doc /\ d.exists /\ d.v = b.v /\ d.flawed = b.flawed
    BY <2>2, <2>3 DEF Doc
  <2>5. up' = up /\ deletes' = deletes /\ bulks' \in 0..MaxBulks /\ faults' = faults
    BY <1>12, <1>b DEF UpdateByBulk
  <2>. HIDE DEF d
  <2>6. d.v <= writes + 3 /\ (d.flawed => d.v <= writes + 2)
    BY <1>b, <2>2, <2>4
  <2>. QED BY <1>b, <2>1, <2>4, <2>5, <2>6, WriteKeepsTypes
<1>13. CASE UNCHANGED vars
  BY <1>13 DEF vars, TypeInv, TypeOK, VersionBounds
<1>. QED BY <1>1, <1>2, <1>3, <1>4, <1>5, <1>6, <1>7, <1>8, <1>9, <1>10, <1>11, <1>12, <1>13
         DEF Next, InsertGenerated, UpsertWithoutId

\* Every variable of the storage on MongoDB keeps its type.
THEOREM MongoTypeCorrect == Spec => []TypeOK
<1>1. TypeInv => TypeOK
  BY DEF TypeInv
<1>. QED BY <1>1, TypeInvInit, TypeInvStep, PTL DEF Spec
-----------------------------------------------------------------------------
\* What a client holds is what it has read: its version is the current one exactly when
\* nothing was written since.
UpToDate(c) ==
  LET d == docs[up[c].id] IN
  /\ d.exists
  /\ up[c].by \subseteq 1..writes
  /\ up[c].v <= d.v
  /\ up[c].v = d.v => up[c].by = d.by
  /\ up[c].v < d.v => ~(d.by \subseteq up[c].by)

Reencrypts(c) == up[c].pc = "reencrypt" /\ up[c].id \in Guarded

LockInv ==
  /\ \A i \in Guarded : ~docs[i].flawed /\ docs[i].by \subseteq 1..writes
  /\ \A c \in Clients : /\ ~Reencrypts(c)
                        /\ Holds(c) => UpToDate(c)

LEMMA LockInvInit == Init => LockInv
  BY Bounds DEF Init, LockInv, NoDoc, Idle, Holds, Reencrypts

\* A step that leaves the guarded objects alone, and the copies of them.
Apart == LockInv' /\ Objects' = Objects /\ Copies' = Copies

LEMMA OtherStep ==
  ASSUME TypeInv, LockInv, \A i \in Guarded : docs'[i] = docs[i],
         writes' \in Nat, writes <= writes',
         \A c \in Clients : up'[c] = up[c] \/ (~Holds(c) /\ ~Holds(c)' /\ ~Reencrypts(c)')
  PROVE  Apart
<1>1. Objects' = Objects /\ Copies' = Copies
  BY DEF Objects, Copies, Holds
<1>2. writes \in Nat
  BY OneOf
<1>3. \A i \in Guarded : ~docs'[i].flawed /\ docs'[i].by \subseteq 1..writes'
  BY <1>2 DEF LockInv
<1>4. ASSUME NEW c \in Clients PROVE ~Reencrypts(c)' /\ (Holds(c)' => UpToDate(c)')
  <2>1. CASE up'[c] = up[c]
    <3>1. CASE Holds(c)
      <4>1. UpToDate(c) /\ up[c].id \in Guarded
        BY <3>1 DEF LockInv, Holds
      <4>2. docs'[up'[c].id] = docs[up[c].id]
        BY <2>1, <4>1
      <4>. QED BY <1>2, <2>1, <4>1, <4>2 DEF UpToDate, LockInv, Reencrypts
    <3>. QED BY <2>1, <3>1 DEF LockInv, Holds, Reencrypts
  <2>2. CASE up'[c] # up[c]
    BY <2>2
  <2>. QED BY <2>1, <2>2
<1>. QED BY <1>1, <1>3, <1>4 DEF LockInv, Apart

\* A write is one that no client has read yet.
LEMMA WriteKeepsLock ==
  ASSUME TypeInv, LockInv, NEW i \in Guarded, NEW d \in Doc, Write(i, d),
         d.exists, ~d.flawed, d.by \subseteq 1..(writes + 1), writes + 1 \in d.by,
         docs[i].exists => d.v = docs[i].v + 1,
         \A c \in Clients : up'[c] = up[c] \/ up'[c].pc \in {"idle", "create"}
  PROVE  LockInv'
<1>1. /\ writes \in Nat /\ writes' = writes + 1 /\ d.v \in Nat
      /\ docs'[i] = d /\ \A j \in Ids \ {i} : docs'[j] = docs[j]
  BY Bounds, OneOf, DocParts DEF Write, TypeInv, TypeOK
<1>2. ASSUME NEW j \in Guarded PROVE ~docs'[j].flawed /\ docs'[j].by \subseteq 1..writes'
  <2>1. CASE j = i
    BY <1>1, <2>1
  <2>2. CASE j # i
    BY <1>1, <2>2, Bounds DEF LockInv
  <2>. QED BY <2>1, <2>2
<1>3. ASSUME NEW c \in Clients
      PROVE  ~Reencrypts(c)' /\ (Holds(c)' => UpToDate(c)')
  <2>1. CASE up'[c] # up[c]
    BY <2>1 DEF Holds, Reencrypts
  <2>2. CASE up'[c] = up[c] /\ ~Holds(c)
    BY <2>2 DEF LockInv, Holds, Reencrypts
  <2>3. CASE up'[c] = up[c] /\ Holds(c)
    <3>. DEFINE j == up[c].id
    <3>1. UpToDate(c) /\ up[c] # Idle /\ j \in Guarded
      BY <2>3 DEF LockInv, Idle, Holds
    <3>2. /\ j \in Ids /\ up[c].v \in Nat /\ docs[j].v \in Nat /\ docs[j].exists
          /\ up[c].by \subseteq 1..writes /\ up[c].v <= docs[j].v
          /\ up[c].v = docs[j].v => up[c].by = docs[j].by
          /\ up[c].v < docs[j].v => ~(docs[j].by \subseteq up[c].by)
      BY <3>1, OneOf DEF UpToDate
    <3>. up'[c].id = j /\ up'[c].v = up[c].v /\ up'[c].by = up[c].by
      BY <2>3
    <3>a. j \in Guarded
      BY <3>1
    <3>. HIDE DEF j
    <3>3. ASSUME j = i PROVE UpToDate(c)'
      <4>1. up[c].v < d.v /\ docs'[j] = d
        BY <1>1, <3>2, <3>3
      <4>2. ~(d.by \subseteq up[c].by) /\ up[c].by \subseteq 1..writes'
        BY <1>1, <3>2
      <4>. QED BY <1>1, <2>3, <3>2, <4>1, <4>2 DEF UpToDate
    <3>4. ASSUME j # i PROVE UpToDate(c)'
      <4>1. docs'[j] = docs[j] /\ up[c].by \subseteq 1..writes'
        BY <1>1, <3>2, <3>4
      <4>. QED BY <2>3, <3>2, <4>1 DEF UpToDate
    <3>5. UpToDate(c)'
      BY <3>3, <3>4
    <3>. QED BY <2>3, <3>5 DEF LockInv, Reencrypts
  <2>. QED BY <2>1, <2>2, <2>3
<1>. QED BY <1>2, <1>3 DEF LockInv

\* So does a step that writes no content and lets no client hold more.
LEMMA QuietKeepsLock ==
  ASSUME TypeInv, LockInv, writes' = writes,
         \A i \in Guarded : /\ docs'[i].exists = docs[i].exists /\ docs'[i].v = docs[i].v
                           /\ docs'[i].by = docs[i].by /\ docs'[i].flawed = docs[i].flawed,
         \A c \in Clients : \/ up'[c] = up[c]
                           \/ up'[c].pc \in {"idle", "create"}
                           \/ \E i \in Guarded : docs[i].exists /\ up'[c] = At("has", i)
  PROVE  LockInv'
<1>1. ASSUME NEW c \in Clients
      PROVE  ~Reencrypts(c)' /\ (Holds(c)' => UpToDate(c)')
  <2>1. CASE up'[c] = up[c]
    <3>1. CASE Holds(c)
      <4>1. UpToDate(c) /\ up[c].id \in Guarded
        BY <3>1 DEF LockInv, Holds
      <4>. QED BY <2>1, <3>1, <4>1 DEF UpToDate, LockInv, Reencrypts
    <3>. QED BY <2>1, <3>1 DEF LockInv, Holds, Reencrypts
  <2>2. CASE up'[c].pc \in {"idle", "create"}
    BY <2>2 DEF Holds, Reencrypts
  <2>3. ASSUME NEW i \in Guarded, docs[i].exists, up'[c] = At("has", i)
        PROVE  ~Reencrypts(c)' /\ UpToDate(c)'
    <3>1. /\ up'[c].pc = "has" /\ up'[c].id = i
          /\ up'[c].v = docs[i].v /\ up'[c].by = docs[i].by
      BY <2>3 DEF At
    <3>. QED BY <2>3, <3>1, OneOf, Bounds DEF UpToDate, LockInv, Reencrypts
  <2>. QED BY <2>1, <2>2, <2>3
<1>. QED BY <1>1 DEF LockInv

\* The steps of a client that starts with an object that is not guarded, and of those
\* who delete one or write it in bulk.
LEMMA OtherActions ==
  ASSUME TypeInv, LockInv, NEW c \in Clients, NEW i \in Ids \ Guarded,
         \/ Get(c, i) \/ GetDecrypt(c, i) \/ Insert(c, i) \/ Upsert(c, i)
         \/ Delete(i) \/ UpdateByBulk(i)
  PROVE  Apart
<1>1. writes \in Nat /\ docs \in [Ids -> Doc] /\ up \in [Clients -> Upsertors] /\ Guarded \subseteq Ids
  BY OneOf, Bounds DEF TypeInv, TypeOK
<1>2. CASE Get(c, i)
  <2>1. At("has", i).id = i /\ At("has", i).pc = "has"
    BY DEF At
  <2>. QED BY <1>1, <1>2, <2>1, OtherStep DEF Get, Idle, Holds, Reencrypts
<1>3. CASE GetDecrypt(c, i)
  <2>1. At("reencrypt", i).id = i /\ At("reencrypt", i).pc = "reencrypt"
    BY DEF At
  <2>2. /\ docs' = docs /\ writes' = writes /\ up[c] = Idle
        /\ up' = [up EXCEPT ![c] = At("reencrypt", i)]
    BY <1>3 DEF GetDecrypt
  <2>3. ~Holds(c) /\ ~Holds(c)' /\ ~Reencrypts(c)'
    BY <1>1, <2>1, <2>2 DEF Idle, Holds, Reencrypts
  <2>4. \A b \in Clients : up'[b] = up[b] \/ b = c
    BY <1>1, <2>2
  <2>5. /\ \A j \in Guarded : docs'[j] = docs[j]
        /\ writes' \in Nat /\ writes <= writes'
    BY <1>1, <2>2
  <2>6. \A b \in Clients : up'[b] = up[b] \/ (~Holds(b) /\ ~Holds(b)' /\ ~Reencrypts(b)')
    BY <2>3, <2>4
  <2>. QED BY <2>5, <2>6, OtherStep
<1>4. CASE Insert(c, i)
  <2>1. up' = up /\ writes' = writes + 1 /\ \A j \in Guarded : docs'[j] = docs[j]
    BY <1>1, <1>4 DEF Insert, Write
  <2>. QED BY <1>1, <2>1, OtherStep
<1>5. CASE Upsert(c, i)
  <2>. DEFINE d == IF docs[i].exists THEN Modified(i, {}) ELSE Inserted(FALSE)
              u == [pc |-> "create", id |-> i, v |-> 1, by |-> d.by]
  <2>1. /\ Write(i, d) /\ (up' = up \/ up' = [up EXCEPT ![c] = u]) /\ up[c] = Idle
    BY <1>5 DEF Upsert, CreationFollows
  <2>2. u.pc = "create"
    OBVIOUS
  <2>. HIDE DEF d, u
  <2>. QED BY <1>1, <2>1, <2>2, OtherStep DEF Write, Idle, Holds, Reencrypts
<1>6. CASE Delete(i)
  BY <1>1, <1>6, OtherStep DEF Delete
<1>7. CASE UpdateByBulk(i)
  BY <1>1, <1>7, OtherStep DEF UpdateByBulk, Write
<1>. QED BY <1>2, <1>3, <1>4, <1>5, <1>6, <1>7

\* The steps of a client that go on with one.
LEMMA OtherUpsertors ==
  ASSUME TypeInv, LockInv, NEW c \in Clients,
         \/ Reencrypt(c) \/ ReencryptFails(c) \/ SetCreatedFails(c)
         \/ up[c].id \notin Guarded /\ (Update(c) \/ UpdateFails(c) \/ SetCreated(c))
  PROVE  Apart
<1>1. writes \in Nat /\ docs \in [Ids -> Doc] /\ up \in [Clients -> Upsertors] /\ Guarded \subseteq Ids
  BY OneOf, Bounds DEF TypeInv, TypeOK
<1>2. CASE Reencrypt(c)
  <2>1. up[c].pc = "reencrypt" /\ up[c].id \notin Guarded
    BY <1>2 DEF Reencrypt, LockInv, Reencrypts
  <2>2. up[c] \in Upsertors /\ up[c] # Idle
    BY <1>1, <2>1 DEF Idle
  <2>3. [up[c] EXCEPT !.pc = "has"].id = up[c].id
    BY <2>2 DEF Upsertors
  <2>. QED BY <1>1, <1>2, <2>1, <2>3, OtherStep DEF Reencrypt, Holds, Reencrypts
<1>3. CASE ReencryptFails(c)
  BY <1>1, <1>3, OtherStep DEF ReencryptFails, Idle, Holds, Reencrypts
<1>4. CASE SetCreatedFails(c)
  BY <1>1, <1>4, OtherStep DEF SetCreatedFails, Idle, Holds, Reencrypts
<1>5. CASE up[c].id \notin Guarded /\ Update(c)
  BY <1>1, <1>5, OtherStep DEF Update, Write, Idle, Holds, Reencrypts
<1>6. CASE up[c].id \notin Guarded /\ UpdateFails(c)
  BY <1>1, <1>6, OtherStep DEF UpdateFails, Idle, Holds, Reencrypts
<1>7. CASE up[c].id \notin Guarded /\ SetCreated(c)
  BY <1>1, <1>7, OtherStep DEF SetCreated, Idle, Holds, Reencrypts
<1>. QED BY <1>2, <1>3, <1>4, <1>5, <1>6, <1>7

\* So the steps that remain concern a guarded object.
LEMMA GuardedStep ==
  ASSUME TypeInv, LockInv, [Next]_vars, ~Apart
  PROVE  \E c \in Clients :
           \/ \E i \in Guarded : Get(c, i) \/ Insert(c, i) \/ Upsert(c, i)
           \/ up[c].id \in Guarded /\ (Update(c) \/ UpdateFails(c) \/ SetCreated(c))
<1>1. ~UNCHANGED vars
  <2>1. SUFFICES ASSUME UNCHANGED vars PROVE Apart
    OBVIOUS
  <2>. QED BY <2>1, OtherStep, OneOf DEF vars
<1>2. ASSUME NEW i \in Ids PROVE ~Delete(i) /\ ~UpdateByBulk(i)
  <2>1. SUFFICES ASSUME Delete(i) \/ UpdateByBulk(i) PROVE FALSE
    OBVIOUS
  <2>2. i \notin Guarded
    BY <2>1 DEF Delete, UpdateByBulk
  <2>3. docs \in [Ids -> Doc] /\ Guarded \subseteq Ids /\ writes \in Nat
    BY OneOf, Bounds DEF TypeInv, TypeOK
  <2>. QED BY <2>1, <2>2, <2>3, OtherStep DEF Delete, UpdateByBulk, Write
<1>3. ASSUME NEW c \in Clients, NEW i \in Ids, Get(c, i) \/ GetDecrypt(c, i) \/ Insert(c, i) \/ Upsert(c, i)
      PROVE  i \in Guarded /\ ~GetDecrypt(c, i)
  BY <1>3, OtherActions DEF GetDecrypt, LockInv
<1>4. ASSUME NEW c \in Clients
      PROVE  ~Reencrypt(c) /\ ~ReencryptFails(c) /\ ~SetCreatedFails(c)
  BY OtherUpsertors
<1>. QED BY <1>1, <1>2, <1>3, <1>4, OtherUpsertors DEF Next, InsertGenerated, UpsertWithoutId

LEMMA LockInvStep == TypeInv /\ LockInv /\ [Next]_vars => LockInv'
<1>. SUFFICES ASSUME TypeInv, LockInv, [Next]_vars, ~Apart PROVE LockInv'
  BY DEF Apart
<1>. USE Bounds
<1>1. ASSUME NEW c \in Clients, NEW i \in Guarded, Get(c, i) PROVE LockInv'
  BY <1>1, QuietKeepsLock DEF Get, TypeInv, TypeOK
<1>4. ASSUME NEW c \in Clients, up[c].id \in Guarded, Update(c) PROVE LockInv'
  <2>. DEFINE d == Modified(up[c].id, up[c].by)
  <2>1. /\ up[c] # Idle /\ docs[up[c].id].exists /\ UpToDate(c) /\ writes < MaxWrites
        /\ Write(up[c].id, d)
    BY <1>4 DEF Update, Finds, Write, Idle, LockInv, Holds
  <2>2. up[c].id \in Ids /\ up[c].by \in SUBSET (1..MaxWrites) /\ up[c].by \subseteq 1..writes
    BY <2>1, OneOf DEF UpToDate
  <2>3. /\ d \in Doc /\ d.exists /\ ~d.flawed /\ d.by = up[c].by \cup {writes + 1}
        /\ d.v = docs[up[c].id].v + 1
    BY <1>4, <2>1, <2>2, ModifiedDoc DEF LockInv
  <2>. HIDE DEF d
  <2>4. d.by \subseteq 1..(writes + 1) /\ writes + 1 \in d.by
    BY <2>2, <2>3, OneOf
  <2>5. \A b \in Clients : up'[b] = up[b] \/ up'[b].pc \in {"idle", "create"}
    BY <1>4 DEF Update, Idle, TypeInv, TypeOK
  <2>. QED BY <1>4, <2>1, <2>2, <2>3, <2>4, <2>5, WriteKeepsLock
<1>5. ASSUME NEW c \in Clients, UpdateFails(c) PROVE LockInv'
  BY <1>5, QuietKeepsLock DEF UpdateFails, Idle, TypeInv, TypeOK
<1>6. ASSUME NEW c \in Clients, NEW i \in Guarded, Insert(c, i) PROVE LockInv'
  <2>. DEFINE d == Inserted(TRUE)
  <2>1. writes < MaxWrites /\ Write(i, d) /\ ~docs[i].exists /\ up' = up
    BY <1>6 DEF Insert, Write
  <2>2. d \in Doc /\ d.exists /\ ~d.flawed /\ d.by = {writes + 1}
    BY <2>1, InsertedDoc
  <2>. HIDE DEF d
  <2>3. d.by \subseteq 1..(writes + 1) /\ writes + 1 \in d.by
    BY <2>2, OneOf
  <2>. QED BY <2>1, <2>2, <2>3, WriteKeepsLock
<1>7. ASSUME NEW c \in Clients, NEW i \in Guarded, Upsert(c, i) PROVE LockInv'
  <2>. DEFINE d == IF docs[i].exists THEN Modified(i, {}) ELSE Inserted(FALSE)
  <2>1. writes < MaxWrites /\ Write(i, d) /\ CreationFollows(c, i, d)
    BY <1>7 DEF Upsert, Write
  <2>2. /\ d \in Doc /\ d.exists /\ ~d.flawed /\ d.by = {writes + 1}
        /\ docs[i].exists => d.v = docs[i].v + 1
    <3>1. CASE docs[i].exists
      <4>1. d = Modified(i, {}) /\ {} \in SUBSET (1..MaxWrites)
        BY <3>1
      <4>. QED BY <2>1, <3>1, <4>1, ModifiedDoc DEF LockInv
    <3>2. CASE ~docs[i].exists
      <4>1. d = Inserted(FALSE)
        BY <3>2
      <4>. QED BY <2>1, <3>2, <4>1, InsertedDoc
    <3>. QED BY <3>1, <3>2
  <2>. HIDE DEF d
  <2>3. d.by \subseteq 1..(writes + 1) /\ writes + 1 \in d.by
    BY <2>2, OneOf
  <2>4. \A b \in Clients : up'[b] = up[b] \/ up'[b].pc \in {"idle", "create"}
    BY <2>1 DEF CreationFollows, TypeInv, TypeOK
  <2>. QED BY <2>1, <2>2, <2>3, <2>4, WriteKeepsLock
<1>8. ASSUME NEW c \in Clients, up[c].id \in Guarded, SetCreated(c) PROVE LockInv'
  <2>1. up[c] # Idle /\ up[c].id \in Ids
    BY <1>8, OneOf DEF SetCreated, Idle
  <2>2. \A i \in Ids : /\ docs'[i].exists = docs[i].exists /\ docs'[i].v = docs[i].v
                      /\ docs'[i].by = docs[i].by /\ docs'[i].flawed = docs[i].flawed
    BY <1>8, <2>1 DEF SetCreated, TypeInv, TypeOK, Doc
  <2>. QED BY <1>8, <2>2, QuietKeepsLock DEF SetCreated, Idle, TypeInv, TypeOK
<1>. QED BY <1>1, <1>4, <1>5, <1>6, <1>7, <1>8, GuardedStep

-----------------------------------------------------------------------------
\* How a step of the storage looks to SoftLock.

LEMMA ObjectOf ==
  ASSUME TypeInv, NEW i \in Guarded, docs[i].exists
  PROVE  Objects[i] = Lock!Content(docs[i].by) /\ Objects[i].exists /\ Objects[i].by = docs[i].by
<1>1. docs[i].exists = TRUE
  BY OneOf, DocParts, Bounds
<1>. QED BY <1>1 DEF Objects, Lock!Content

\* A write of document d puts its content into the store.
LEMMA WriteOfStore ==
  ASSUME TypeInv, NEW i \in Guarded, NEW d \in Doc, Write(i, d), d.exists
  PROVE  Objects' = [Objects EXCEPT ![i] = Lock!Content(d.by)]
<1>1. docs' = [docs EXCEPT ![i] = d] /\ docs \in [Ids -> Doc]
  BY DEF Write, TypeInv, TypeOK
<1>2. docs'[i] = d /\ \A j \in Ids \ {i} : docs'[j] = docs[j]
  BY <1>1, Bounds
<1>3. d.exists = TRUE
  BY DocParts
<1>. QED BY <1>2, <1>3, Bounds DEF Objects, Lock!Content

LEMMA SameObjects == ASSUME docs' = docs PROVE Objects' = Objects
  BY DEF Objects

\* The copy of a client that goes idle is dropped.
LEMMA DroppedCopy ==
  ASSUME TypeInv, NEW c \in Clients, up' = [up EXCEPT ![c] = Idle]
  PROVE  Copies' = [Copies EXCEPT ![c] = Lock!NoCopy]
<1>1. up'[c] = Idle /\ \A b \in Clients \ {c} : up'[b] = up[b]
  BY DEF TypeInv, TypeOK
<1>2. Idle.pc # "has"
  BY DEF Idle
<1>. QED BY <1>1, <1>2 DEF Copies, Holds, Lock!NoCopy

LEMMA HeldCopy ==
  ASSUME NEW c \in Clients, Holds(c)
  PROVE  Copies[c].held /\ Copies[c].id = up[c].id /\ Copies[c].by = up[c].by
  BY DEF Copies

LEMMA StepRefines ==
  TypeInv /\ LockInv /\ [Next]_vars => [Lock!Next]_<<Objects, Copies>>
<1>. SUFFICES ASSUME TypeInv, LockInv, [Next]_vars, ~Apart PROVE Lock!Next
  BY DEF Apart
<1>. USE Bounds
<1>1. ASSUME NEW c \in Clients, NEW i \in Guarded, Get(c, i) PROVE Lock!Read(c, i)
  <2>1. docs[i].exists /\ Objects' = Objects
    BY <1>1, SameObjects DEF Get
  <2>2. /\ up'[c].pc = "has" /\ up'[c].id = i /\ up'[c].by = docs[i].by
        /\ \A b \in Clients \ {c} : up'[b] = up[b]
    BY <1>1 DEF Get, At, TypeInv, TypeOK
  <2>3. Copies' = [Copies EXCEPT ![c] = [held |-> TRUE, id |-> i, by |-> docs[i].by]]
    BY <2>2 DEF Copies, Holds
  <2>. QED BY <2>1, <2>3, ObjectOf DEF Lock!Read
<1>4. ASSUME NEW c \in Clients, up[c].id \in Guarded, Update(c) PROVE Lock!Commit(c)
  <2>. DEFINE i == up[c].id
              d == Modified(i, up[c].by)
  <2>1. /\ Holds(c) /\ up[c] # Idle /\ docs[i].exists /\ docs[i].v = up[c].v
        /\ UpToDate(c) /\ writes < MaxWrites /\ Write(i, d) /\ up' = [up EXCEPT ![c] = Idle]
    BY <1>4 DEF Update, Finds, Write, Idle, LockInv, Holds
  <2>2. /\ i \in Guarded /\ i \in Ids /\ up[c].by \in SUBSET (1..MaxWrites) /\ up[c].by = docs[i].by
        /\ up[c].by \subseteq 1..writes
    BY <1>4, <2>1, OneOf DEF UpToDate
  <2>3. d \in Doc /\ d.exists /\ d.by = up[c].by \cup {writes + 1}
    BY <2>1, <2>2, ModifiedDoc
  <2>. HIDE DEF d, i
  <2>4. Objects' = [Objects EXCEPT ![i] = Lock!Content(up[c].by \cup {writes + 1})]
    BY <2>1, <2>2, <2>3, WriteOfStore
  <2>5. Objects[i] = Lock!Content(up[c].by)
    BY <2>1, <2>2, ObjectOf
  <2>6. writes + 1 \in (1..MaxWrites) \ up[c].by
    BY <2>1, <2>2, OneOf, Bounds
  <2>7. Copies[c].held /\ Copies[c].id = i /\ Copies[c].by = up[c].by
    BY <2>1, HeldCopy DEF i
  <2>8. Copies' = [Copies EXCEPT ![c] = Lock!NoCopy]
    BY <2>1, DroppedCopy
  <2>. QED BY <2>4, <2>5, <2>6, <2>7, <2>8 DEF Lock!Commit
<1>5. ASSUME NEW c \in Clients, up[c].id \in Guarded, UpdateFails(c) PROVE Lock!Refuse(c)
  <2>. DEFINE i == up[c].id
  <2>1. /\ Holds(c) /\ up[c] # Idle /\ UpToDate(c) /\ docs' = docs
        /\ ~(docs[i].exists /\ docs[i].v = up[c].v) /\ up' = [up EXCEPT ![c] = Idle]
    BY <1>5 DEF UpdateFails, Finds, Idle, LockInv, Holds
  <2>2. /\ i \in Guarded /\ docs[i].exists /\ up[c].v \in Nat /\ docs[i].v \in Nat
        /\ up[c].v <= docs[i].v /\ (up[c].v < docs[i].v => ~(docs[i].by \subseteq up[c].by))
    BY <1>5, <2>1, OneOf DEF UpToDate
  <2>3. docs[i].by # up[c].by
    BY <2>1, <2>2
  <2>. HIDE DEF i
  <2>4. Objects[i].by = docs[i].by
    BY <2>2, ObjectOf
  <2>5. Objects[i] # Lock!Content(up[c].by)
    BY <2>3, <2>4 DEF Lock!Content
  <2>6. Copies[c].held /\ Copies[c].id = i /\ Copies[c].by = up[c].by
    BY <2>1, HeldCopy DEF i
  <2>. QED BY <2>1, <2>5, <2>6, DroppedCopy, SameObjects DEF Lock!Refuse
<1>6. ASSUME NEW c \in Clients, NEW i \in Guarded, Insert(c, i) PROVE Lock!Create(i)
  <2>. DEFINE d == Inserted(TRUE)
  <2>1. writes < MaxWrites /\ Write(i, d) /\ ~docs[i].exists /\ up' = up
    BY <1>6 DEF Insert, Write
  <2>2. d \in Doc /\ d.exists /\ d.by = {writes + 1}
    BY <2>1, InsertedDoc
  <2>. HIDE DEF d
  <2>3. Objects' = [Objects EXCEPT ![i] = Lock!Content({writes + 1})]
    BY <2>1, <2>2, WriteOfStore
  <2>4. writes + 1 \in 1..MaxWrites /\ ~Objects[i].exists /\ Copies' = Copies
    BY <2>1, OneOf, Bounds DEF Objects, Copies, Holds
  <2>. QED BY <2>3, <2>4 DEF Lock!Create
<1>7. ASSUME NEW c \in Clients, NEW i \in Guarded, Upsert(c, i)
      PROVE  Lock!Create(i) \/ Lock!Overwrite(i)
  <2>. DEFINE d == IF docs[i].exists THEN Modified(i, {}) ELSE Inserted(FALSE)
  <2>1. writes < MaxWrites /\ Write(i, d) /\ CreationFollows(c, i, d) /\ up[c] = Idle
    BY <1>7 DEF Upsert, Write
  <2>2. d \in Doc /\ d.exists /\ d.by = {writes + 1}
    <3>1. CASE docs[i].exists
      <4>1. d = Modified(i, {}) /\ {} \in SUBSET (1..MaxWrites)
        BY <3>1
      <4>. QED BY <2>1, <3>1, <4>1, ModifiedDoc
    <3>2. CASE ~docs[i].exists
      <4>1. d = Inserted(FALSE)
        BY <3>2
      <4>. QED BY <2>1, <4>1, InsertedDoc
    <3>. QED BY <3>1, <3>2
  <2>. HIDE DEF d
  <2>3. Objects' = [Objects EXCEPT ![i] = Lock!Content({writes + 1})]
    BY <2>1, <2>2, WriteOfStore
  <2>4. writes + 1 \in 1..MaxWrites
    BY <2>1, OneOf, Bounds
  <2>5. Copies' = Copies
    <3>1. \A b \in Clients : up'[b] = up[b] \/ (up'[b].pc # "has" /\ up[b].pc # "has")
      BY <2>1 DEF CreationFollows, Idle, TypeInv, TypeOK
    <3>. QED BY <3>1 DEF Copies, Holds
  <2>6. CASE docs[i].exists
    <3>1. Objects[i].exists /\ {} \in SUBSET Objects[i].by
      BY <2>6, ObjectOf
    <3>2. Objects' = [Objects EXCEPT ![i] = Lock!Content({} \cup {writes + 1})]
      BY <2>3
    <3>. QED BY <2>4, <2>5, <3>1, <3>2 DEF Lock!Overwrite
  <2>7. CASE ~docs[i].exists
    <3>1. ~Objects[i].exists
      BY <2>7 DEF Objects
    <3>. QED BY <2>3, <2>4, <2>5, <3>1 DEF Lock!Create
  <2>. QED BY <2>6, <2>7
<1>8. ASSUME NEW c \in Clients, up[c].id \in Guarded, SetCreated(c) PROVE FALSE
  <2>1. \A i \in Guarded : docs'[i].exists = docs[i].exists /\ docs'[i].by = docs[i].by
    BY <1>8 DEF SetCreated, TypeInv, TypeOK, Doc
  <2>2. \A b \in Clients : up'[b] = up[b] \/ (up'[b].pc # "has" /\ up[b].pc # "has")
    BY <1>8 DEF SetCreated, Idle, TypeInv, TypeOK
  <2>3. Objects' = Objects /\ Copies' = Copies
    BY <2>1, <2>2 DEF Objects, Copies, Holds
  <2>. QED BY <2>3, LockInvStep DEF Apart
<1>. QED BY <1>1, <1>4, <1>5, <1>6, <1>7, <1>8, GuardedStep DEF Lock!Next

LEMMA InitRefines == Init => Lock!Init
<1>. SUFFICES ASSUME Init PROVE Lock!Init
  OBVIOUS
<1>1. ASSUME NEW i \in Guarded PROVE Objects[i] \in {Lock!Absent, Lock!Content({})}
  BY Bounds DEF Init, Objects, NoDoc, Lock!Absent
<1>2. Objects \in [Guarded -> {Lock!Absent, Lock!Content({})}]
  BY <1>1 DEF Objects
<1>3. Copies = [c \in Clients |-> Lock!NoCopy]
  BY DEF Init, Copies, Holds, Idle, Lock!NoCopy
<1>. QED BY <1>2, <1>3 DEF Lock!Init

\* The storage on MongoDB keeps the promise of SoftLock for guarded objects: a version
\* that was read is a soft lock on the object.
THEOREM MongoSoftLock == Spec => SoftLocked
<1>1. Init => TypeInv /\ LockInv
  BY TypeInvInit, LockInvInit
<1>2. TypeInv /\ LockInv /\ [Next]_vars => (TypeInv /\ LockInv)'
  BY TypeInvStep, LockInvStep
<1>3. TypeInv /\ LockInv /\ [Next]_vars => [Lock!Next]_<<Objects, Copies>>
  BY StepRefines
<1>. QED BY <1>1, <1>2, <1>3, InitRefines, PTL DEF Spec, SoftLocked, Lock!Spec
-----------------------------------------------------------------------------
(* The other two storages, and the one that is configured.                 *)

\* In memory, a version counts writes of its object.
MemoryInv ==
  /\ Memory!TypeOK
  /\ \A i \in Ids : mDocs[i].exists => mDocs[i].v <= mWrites

MemoryCopy == {Memory!Idle} \cup [held : {TRUE}, id : Ids, v : 1..MaxWrites,
                                by : SUBSET (1..MaxWrites)]

LEMMA MemoryParts ==
  ASSUME MemoryInv, NEW i \in Ids, mDocs[i].exists
  PROVE  /\ mDocs[i] \in Memory!Doc
         /\ mDocs[i].v \in 1..MaxWrites /\ mDocs[i].v <= mWrites
         /\ mDocs[i].by \subseteq 1..MaxWrites
         /\ mDocs[i].secret \in {"cipher", "plain"}
<1>1. mDocs[i] \in Memory!Doc \cup {Memory!NoDoc} /\ mDocs[i].v <= mWrites
  BY DEF MemoryInv, Memory!TypeOK
<1>2. Memory!NoDoc.exists = FALSE
  BY DEF Memory!NoDoc
<1>3. mDocs[i] \in Memory!Doc
  BY <1>1, <1>2
<1>. QED BY <1>1, <1>3 DEF Memory!Doc

LEMMA MemoryWrite ==
  ASSUME MemoryInv, NEW i \in Ids, NEW d \in Memory!Doc, d.v <= mWrites + 1,
         Memory!Write(i, d), mUp' \in [Clients -> MemoryCopy],
         UNCHANGED <<mDeletes, mDecrypts>>
  PROVE  MemoryInv'
<1>1. mDocs' = [mDocs EXCEPT ![i] = d] /\ mWrites' = mWrites + 1 /\ mWrites' \in 0..MaxWrites
  BY Bounds DEF Memory!Write, MemoryInv, Memory!TypeOK
<1>2. mDocs' \in [Ids -> Memory!Doc \cup {Memory!NoDoc}]
  BY <1>1 DEF MemoryInv, Memory!TypeOK
<1>3. \A j \in Ids : mDocs'[j].exists => mDocs'[j].v <= mWrites'
  <2>. SUFFICES ASSUME NEW j \in Ids, mDocs'[j].exists PROVE mDocs'[j].v <= mWrites'
    OBVIOUS
  <2>1. mDocs'[j] = IF j = i THEN d ELSE mDocs[j]
    BY <1>1 DEF MemoryInv, Memory!TypeOK
  <2>2. mWrites \in Nat
    BY Bounds DEF MemoryInv, Memory!TypeOK
  <2>. QED BY <1>1, <2>1, <2>2, MemoryParts
<1>. QED BY <1>1, <1>2, <1>3 DEF MemoryInv, Memory!TypeOK, MemoryCopy

LEMMA MemoryStep == MemoryInv /\ [Memory!Next]_memoryVars => MemoryInv'
<1>. SUFFICES ASSUME MemoryInv, [Memory!Next]_memoryVars PROVE MemoryInv'
  OBVIOUS
<1>1. mWrites \in 0..MaxWrites /\ mUp \in [Clients -> MemoryCopy]
  BY DEF MemoryInv, Memory!TypeOK, MemoryCopy
<1>2. ASSUME NEW c \in Clients, mUp' = [mUp EXCEPT ![c] = Memory!Idle]
      PROVE  mUp' \in [Clients -> MemoryCopy]
  BY <1>1, <1>2 DEF MemoryCopy
<1>3. ASSUME NEW c \in Clients, NEW i \in Ids, mDocs[i].exists, Memory!Hold(c, i)
      PROVE  mUp' \in [Clients -> MemoryCopy]
  BY <1>1, <1>3, MemoryParts DEF Memory!Hold, MemoryCopy
<1>4. ASSUME NEW c \in Clients, NEW i \in Ids, Memory!Get(c, i) PROVE MemoryInv'
  BY <1>3, <1>4 DEF Memory!Get, MemoryInv, Memory!TypeOK, MemoryCopy
<1>5. ASSUME NEW c \in Clients, NEW i \in Ids, Memory!GetDecrypt(c, i) PROVE MemoryInv'
  <2>1. mUp' \in [Clients -> MemoryCopy]
    BY <1>3, <1>5 DEF Memory!GetDecrypt
  <2>. DEFINE plain == [mDocs[i] EXCEPT !.secret = "plain"]
  <2>2. plain \in Memory!Doc /\ plain.v = mDocs[i].v
    BY <1>5, MemoryParts DEF Memory!GetDecrypt, Memory!Doc
  <2>3. mDocs' = [mDocs EXCEPT ![i] = plain] /\ mDocs[i].exists
    BY <1>5 DEF Memory!GetDecrypt
  <2>4. mDecrypts' \in 0..MaxDecrypts
    BY <1>5, StorageAssumption DEF Memory!GetDecrypt, MemoryInv, Memory!TypeOK
  <2>. HIDE DEF plain
  <2>5. mDocs' \in [Ids -> Memory!Doc \cup {Memory!NoDoc}]
    BY <2>2, <2>3 DEF MemoryInv, Memory!TypeOK
  <2>6. \A j \in Ids : mDocs'[j].exists => mDocs'[j].v <= mWrites
    BY <2>2, <2>3 DEF MemoryInv, Memory!TypeOK
  <2>. QED BY <1>5, <2>1, <2>4, <2>5, <2>6
       DEF Memory!GetDecrypt, MemoryInv, Memory!TypeOK, MemoryCopy
<1>6. ASSUME NEW i \in Ids, mDocs[i].exists, mWrites < MaxWrites,
             NEW by \in SUBSET (1..MaxWrites)
      PROVE  LET d == [mDocs[i] EXCEPT !.v = mDocs[i].v + 1, !.by = by]
             IN  d \in Memory!Doc /\ d.v <= mWrites + 1
  <2>1. /\ mDocs[i] \in Memory!Doc /\ mDocs[i].v + 1 \in 1..MaxWrites
        /\ mDocs[i].v + 1 <= mWrites + 1
    BY <1>1, <1>6, Bounds, MemoryParts
  <2>. QED BY <1>6, <2>1 DEF Memory!Doc
<1>7. ASSUME NEW c \in Clients, Memory!Update(c) PROVE MemoryInv'
  <2>1. mUp[c].id \in Ids /\ mUp[c].by \subseteq 1..MaxWrites /\ mWrites < MaxWrites
    <3>1. mUp[c] \in MemoryCopy /\ mUp[c].held /\ ~Memory!Idle.held
      BY <1>1, <1>7 DEF Memory!Update, Memory!Idle
    <3>2. mUp[c] \in [held : {TRUE}, id : Ids, v : 1..MaxWrites, by : SUBSET (1..MaxWrites)]
      BY <3>1 DEF MemoryCopy
    <3>. QED BY <1>7, <3>2 DEF Memory!Update, Memory!Write
  <2>2. mUp[c].by \cup {mWrites + 1} \in SUBSET (1..MaxWrites)
    BY <1>1, <2>1, Bounds
  <2>. QED BY <1>2, <1>6, <1>7, <2>1, <2>2, MemoryWrite DEF Memory!Update
<1>8. ASSUME NEW c \in Clients, Memory!UpdateFails(c) PROVE MemoryInv'
  BY <1>2, <1>8 DEF Memory!UpdateFails, MemoryInv, Memory!TypeOK, MemoryCopy
<1>9. ASSUME NEW c \in Clients, NEW i \in Ids, Memory!UpdateBlindly(c, i) PROVE MemoryInv'
  <2>1. mWrites < MaxWrites
    BY <1>9 DEF Memory!UpdateBlindly, Memory!Write
  <2>2. {mWrites + 1} \in SUBSET (1..MaxWrites)
    BY <1>1, <2>1, Bounds
  <2>. QED BY <1>1, <1>6, <1>9, <2>1, <2>2, MemoryWrite DEF Memory!UpdateBlindly
<1>10. ASSUME NEW c \in Clients, NEW i \in Ids, Memory!Insert(c, i) PROVE MemoryInv'
  <2>. DEFINE d == [exists |-> TRUE, v |-> 1, by |-> {mWrites + 1}, secret |-> "cipher"]
  <2>1. mWrites < MaxWrites
    BY <1>10 DEF Memory!Insert, Memory!Write
  <2>2. d \in Memory!Doc /\ d.v <= mWrites + 1
    BY <1>1, <2>1, Bounds DEF Memory!Doc
  <2>3. Memory!Write(i, d) /\ UNCHANGED <<mUp, mDeletes, mDecrypts>>
    BY <1>10 DEF Memory!Insert
  <2>. HIDE DEF d
  <2>. QED BY <1>1, <2>2, <2>3, MemoryWrite
<1>11. ASSUME NEW i \in Ids, Memory!Delete(i) PROVE MemoryInv'
  <2>1. mDeletes' \in 0..MaxDeletes
    BY <1>11, Bounds DEF Memory!Delete, MemoryInv, Memory!TypeOK
  <2>2. mDocs' \in [Ids -> Memory!Doc \cup {Memory!NoDoc}]
    BY <1>11 DEF Memory!Delete, MemoryInv, Memory!TypeOK
  <2>3. \A j \in Ids : mDocs'[j].exists => mDocs'[j] = mDocs[j]
    BY <1>11 DEF Memory!Delete, MemoryInv, Memory!TypeOK, Memory!NoDoc
  <2>. QED BY <1>11, <2>1, <2>2, <2>3 DEF Memory!Delete, MemoryInv, Memory!TypeOK
<1>12. CASE UNCHANGED memoryVars
  BY <1>12 DEF memoryVars, MemoryInv, Memory!TypeOK
<1>. QED BY <1>4, <1>5, <1>7, <1>8, <1>9, <1>10, <1>11, <1>12 DEF Memory!Next

LEMMA ElasticStep ==
  Elastic!TypeOK /\ [Elastic!Next]_elasticVars => Elastic!TypeOK'
<1>. SUFFICES ASSUME Elastic!TypeOK, [Elastic!Next]_elasticVars PROVE Elastic!TypeOK'
  OBVIOUS
<1>. DEFINE Copy == {Elastic!Idle} \cup [held : {TRUE}, id : Ids, by : SUBSET (1..MaxWrites)]
<1>1. /\ eDocs \in [Ids -> Elastic!Doc] /\ eUp \in [Clients -> Copy]
      /\ eWrites \in 0..MaxWrites /\ eUsed \in SUBSET Ids /\ eDeletes \in 0..MaxDeletes
      /\ \A i \in Ids : eDocs[i].exists \/ eDocs[i] = Elastic!NoDoc
  BY DEF Elastic!TypeOK
<1>2. ASSUME NEW i \in Ids, NEW by \in SUBSET (1..MaxWrites),
             Elastic!Merge(i, by), eUp' \in [Clients -> Copy], UNCHANGED eDeletes
      PROVE  Elastic!TypeOK'
  <2>1. eWrites < MaxWrites /\ eWrites' = eWrites + 1 /\ eWrites' \in 0..MaxWrites
    BY <1>1, <1>2, Bounds DEF Elastic!Merge
  <2>2. by \cup {eWrites + 1} \in SUBSET (1..MaxWrites)
    BY <1>1, <2>1, Bounds
  <2>. DEFINE d == [exists |-> TRUE, by |-> by \cup {eWrites + 1}]
  <2>3. d \in Elastic!Doc /\ d.exists
    BY <2>2 DEF Elastic!Doc
  <2>4. eDocs' = [eDocs EXCEPT ![i] = d] /\ eUsed' \in SUBSET Ids
    BY <1>1, <1>2 DEF Elastic!Merge
  <2>. HIDE DEF d
  <2>5. /\ eDocs' \in [Ids -> Elastic!Doc]
        /\ \A j \in Ids : eDocs'[j].exists \/ eDocs'[j] = Elastic!NoDoc
    BY <1>1, <2>3, <2>4
  <2>. QED BY <1>1, <1>2, <2>1, <2>4, <2>5 DEF Elastic!TypeOK
<1>3. ASSUME NEW c \in Clients, NEW i \in Ids, Elastic!Get(c, i) PROVE Elastic!TypeOK'
  <2>1. eDocs[i].by \in SUBSET (1..MaxWrites)
    BY <1>1 DEF Elastic!Doc
  <2>2. eUp' \in [Clients -> Copy]
    BY <1>1, <1>3, <2>1 DEF Elastic!Get
  <2>. QED BY <1>1, <1>3, <2>2 DEF Elastic!Get, Elastic!TypeOK
<1>4. ASSUME NEW c \in Clients, NEW i \in Ids, Elastic!Insert(c, i) PROVE Elastic!TypeOK'
  BY <1>1, <1>2, <1>4 DEF Elastic!Insert
<1>5. ASSUME NEW c \in Clients, Elastic!InsertGenerated(c) PROVE Elastic!TypeOK'
  BY <1>4, <1>5 DEF Elastic!InsertGenerated
<1>6. ASSUME NEW c \in Clients, Elastic!Update(c) PROVE Elastic!TypeOK'
  <2>1. eUp[c] \in Copy /\ eUp[c].held /\ ~Elastic!Idle.held
    BY <1>1, <1>6 DEF Elastic!Update, Elastic!Idle
  <2>2. eUp[c].id \in Ids /\ eUp[c].by \in SUBSET (1..MaxWrites)
    BY <2>1
  <2>3. eUp' \in [Clients -> Copy]
    BY <1>1, <1>6 DEF Elastic!Update
  <2>. QED BY <1>2, <1>6, <2>2, <2>3 DEF Elastic!Update
<1>7. ASSUME NEW i \in Ids, Elastic!Delete(i) PROVE Elastic!TypeOK'
  <2>1. Elastic!NoDoc \in Elastic!Doc
    BY DEF Elastic!NoDoc, Elastic!Doc
  <2>2. eDeletes' \in 0..MaxDeletes
    BY <1>1, <1>7, Bounds DEF Elastic!Delete
  <2>. QED BY <1>1, <1>7, <2>1, <2>2 DEF Elastic!Delete, Elastic!TypeOK
<1>8. CASE UNCHANGED elasticVars
  BY <1>8 DEF elasticVars, Elastic!TypeOK
<1>. QED BY <1>3, <1>4, <1>5, <1>6, <1>7, <1>8 DEF Elastic!Next

LEMMA OthersInit == StorageInit => MemoryInv /\ Elastic!TypeOK
<1>. SUFFICES ASSUME StorageInit PROVE MemoryInv /\ Elastic!TypeOK
  OBVIOUS
<1>1. MemoryInv
  BY Bounds, StorageAssumption
  DEF StorageInit, MemoryInv, Memory!Init, Memory!TypeOK, Memory!NoDoc
<1>2. Elastic!NoDoc \in Elastic!Doc
  BY DEF Elastic!NoDoc, Elastic!Doc
<1>3. Elastic!TypeOK
  BY <1>2, Bounds DEF StorageInit, Elastic!Init, Elastic!TypeOK
<1>. QED BY <1>1, <1>3

LEMMA StorageSteps ==
  [StorageNext /\ UNCHANGED type]_<<vars, memoryVars, elasticVars, type>> =>
    [Next]_vars /\ [Memory!Next]_memoryVars /\ [Elastic!Next]_elasticVars
  BY DEF StorageNext, vars, memoryVars, elasticVars

\* Every variable of the three storages keeps its type, whichever of them is configured.
THEOREM StorageTypeCorrect == StorageSpec => [](TypeOK /\ OthersTypeOK)
<1>1. StorageInit => TypeInv /\ MemoryInv /\ Elastic!TypeOK
  BY TypeInvInit, OthersInit DEF StorageInit
<1>2. TypeInv /\ [Next]_vars => TypeInv'
  BY TypeInvStep
<1>3. TypeInv => TypeOK
  BY DEF TypeInv
<1>4. MemoryInv /\ Elastic!TypeOK => OthersTypeOK
  BY DEF MemoryInv, OthersTypeOK
<1>. QED BY <1>1, <1>2, <1>3, <1>4, StorageSteps, MemoryStep, ElasticStep, PTL DEF StorageSpec

\* The storage that is configured behaves like MongoStorage or leaves it alone: what a
\* version promises holds of the configured service too.
THEOREM StorageSoftLock == StorageSpec => SoftLocked
<1>1. StorageSpec => Spec
  BY StorageSteps, PTL DEF StorageSpec, StorageInit, Spec
<1>. QED BY <1>1, MongoSoftLock, PTL
=============================================================================
