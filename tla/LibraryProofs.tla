---------------------------- MODULE LibraryProofs ----------------------------
(***************************************************************************)
(* Proofs about the library and its providers.                             *)
(*                                                                         *)
(* LibraryReadiness, for any set of providers, lists and tasks and any     *)
(* bounds: its types, and that no change of readiness goes unannounced,    *)
(* which is inductive once the types are known.                            *)
(*                                                                         *)
(* LibraryProviders: that nothing which changed is hidden from the         *)
(* subscribers of a provider at rest, and that the cache of Azure Storage  *)
(* is whole.  Each provider has an inductive invariant of its own          *)
(* -- AzureInv, ScopesInv, RegInv, GitInv and FilesInv -- and every step   *)
(* of the composition is a step of each provider or leaves it alone.       *)
(*                                                                         *)
(* LibraryReading, two layers of them: that what is listed is opened,      *)
(* which holds of any items in any scopes.  LibraryDisabled: that what a   *)
(* change disables is known, which DisabledInv states.                     *)
(***************************************************************************)
EXTENDS LibraryProviders, LibraryReadiness, SequenceTheorems, TLAPS

-----------------------------------------------------------------------------
(* Readiness.                                                              *)

\* What a task waits for is one of its steps, whoever begins it.
LEMMA WaitingType ==
  ASSUME TypeOK, NEW step \in Steps, NEW kind \in {"handler", "reload"},
         NEW p \in Providers
  PROVE  Waiting(step, kind, p) \in TaskRecord
  BY DEF Waiting, TaskRecord, Contents

LEMMA IdleType ==
  Idle \in TaskRecord
  BY ProvidersAssumption DEF Idle, TaskRecord, Steps, Contents

LEMMA StepOfTask ==
  ASSUME NEW step, NEW kind, NEW p
  PROVE  /\ Idle.step = "idle"
         /\ Waiting(step, kind, p).step = step
         /\ Waiting(step, kind, p).kind = kind
  BY DEF Idle, Waiting

LEMMA AfterReadType ==
  ASSUME TypeOK, NEW t \in Tasks
  PROVE  AfterRead(t) \in TaskRecord
<1>1. "favorites" \in Steps
  BY DEF Steps
<1>. QED BY <1>1, WaitingType, IdleType, ProvidersAssumption DEF AfterRead

LEMMA ReadingType ==
  ASSUME TypeOK, NEW kind \in {"handler", "reload"}
  PROVE  Reading(kind) \in TaskRecord
<1>1. "read" \in Steps
  BY DEF Steps
<1>. QED BY <1>1, WaitingType, ProvidersAssumption DEF Reading

\* What is posted to a provider, and what is left when it has handled a message.
LEMMA PostType ==
  ASSUME TypeOK, NEW p \in Providers, NEW s \in States, Post(p, s)
  PROVE  state' \in [Providers -> States] /\ events' \in [Providers -> Seq(States)]
<1>1. Append(events[p], s) \in Seq(States)
  <2>1. events[p] \in Seq(States)
    BY DEF TypeOK
  <2>. QED BY <2>1
<1>. QED BY <1>1 DEF Post, TypeOK

LEMMA HandledType ==
  ASSUME TypeOK, NEW p \in Providers, events[p] # <<>>,
         events' = [events EXCEPT ![p] = Tail(@)]
  PROVE  events' \in [Providers -> Seq(States)]
<1>1. Tail(events[p]) \in Seq(States)
  <2>1. events[p] \in Seq(States)
    BY DEF TypeOK
  <2>. QED BY <2>1
<1>. QED BY <1>1 DEF TypeOK

\* A step that gives one task something else to do.
LEMMA TaskReplaced ==
  ASSUME TypeOK, NEW t \in Tasks, NEW x \in TaskRecord, task' = [task EXCEPT ![t] = x]
  PROVE  /\ task' \in [Tasks -> TaskRecord]
         /\ task'[t] = x
         /\ \A u \in Tasks : u # t => task'[u] = task[u]
  BY DEF TypeOK

LEMMA TypeInit == Init => TypeOK
<1>. SUFFICES ASSUME Init PROVE TypeOK
  OBVIOUS
<1>1. Idle \in TaskRecord
  BY IdleType
<1>2. <<>> \in Seq(States)
  OBVIOUS
<1>3. events \in [Providers -> Seq(States)]
  BY <1>2 DEF Init
<1>4. state \in [Providers -> States]
  BY DEF Init, States
<1>5. task \in [Tasks -> TaskRecord]
  BY <1>1 DEF Init
<1>6. isReady \in [Providers -> BOOLEAN]
  BY DEF Init
<1>. QED BY <1>3, <1>4, <1>5, <1>6 DEF Init, TypeOK, Contents

LEMMA TypeStep == TypeOK /\ [Next]_vars => TypeOK'
<1>. SUFFICES ASSUME TypeOK, [Next]_vars PROVE TypeOK'
  OBVIOUS
<1>1. ASSUME NEW content \in Contents, Edit(content) PROVE TypeOK'
  <2>1. edits \in Nat /\ edits' = edits + 1
    BY <1>1 DEF Edit, TypeOK
  <2>2. edits' \in Nat
    BY <2>1
  <2>. QED BY <1>1, <2>2 DEF Edit, TypeOK
<1>2. ASSUME NEW p \in Providers, Connect(p) \/ Lose(p) PROVE TypeOK'
  <2>1. PICK s \in States : Post(p, s)
    BY <1>2 DEF Connect, Lose, States
  <2>2. state' \in [Providers -> States] /\ events' \in [Providers -> Seq(States)]
    BY <2>1, PostType
  <2>. QED BY <1>2, <2>2 DEF Connect, Lose, TypeOK
<1>3. ASSUME NEW p \in Providers, Suspend(p) PROVE TypeOK'
  <2>1. \A t \in Tasks : [task[t] EXCEPT !.broken = TRUE] \in TaskRecord
    BY DEF TypeOK, TaskRecord
  <2>2. task' \in [Tasks -> TaskRecord]
    BY <1>3, <2>1 DEF Suspend, TypeOK
  <2>3. "SUSPENDED" \in States /\ Post(p, "SUSPENDED")
    BY <1>3 DEF Suspend, States
  <2>4. state' \in [Providers -> States] /\ events' \in [Providers -> Seq(States)]
    BY <2>3, PostType
  <2>5. breaks \in Nat /\ breaks' = breaks + 1
    BY <1>3 DEF Suspend, TypeOK
  <2>6. breaks' \in Nat
    BY <2>5
  <2>. QED BY <1>3, <2>2, <2>4, <2>6 DEF Suspend, TypeOK
<1>4. ASSUME NEW p \in Providers, OnLost(p) PROVE TypeOK'
  <2>1. events' \in [Providers -> Seq(States)]
    BY <1>4, HandledType DEF OnLost
  <2>2. isReady' \in [Providers -> BOOLEAN] /\ isReadyLast' \in BOOLEAN
    BY <1>4 DEF OnLost, Edge, AllReady, TypeOK
  <2>. QED BY <1>4, <2>1, <2>2 DEF OnLost, env, TypeOK
<1>5. ASSUME NEW p \in Providers, NEW t \in Tasks, OnConnected(p, t) PROVE TypeOK'
  <2>1. "version" \in Steps
    BY DEF Steps
  <2>2. task' \in [Tasks -> TaskRecord]
    BY <1>5, <2>1, WaitingType, TaskReplaced DEF OnConnected
  <2>3. events' \in [Providers -> Seq(States)]
    BY <1>5, HandledType DEF OnConnected
  <2>. QED BY <1>5, <2>2, <2>3 DEF OnConnected, env, TypeOK
<1>7. ASSUME NEW t \in Tasks, OnTick60(t) PROVE TypeOK'
  <2>1. task' \in [Tasks -> TaskRecord]
    BY <1>7, ReadingType, TaskReplaced DEF OnTick60
  <2>. QED BY <1>7, <2>1 DEF OnTick60, env, TypeOK
<1>8. ASSUME NEW t \in Tasks, StartScheduled(t) PROVE TypeOK'
  <2>1. task' \in [Tasks -> TaskRecord]
    BY <1>8, ReadingType, TaskReplaced DEF StartScheduled
  <2>2. pending \in Nat /\ pending > 0 /\ pending' = pending - 1
    BY <1>8 DEF StartScheduled, TypeOK
  <2>3. pending' \in Nat
    BY <2>2
  <2>. QED BY <1>8, <2>1, <2>3 DEF StartScheduled, env, TypeOK
<1>9. ASSUME NEW t \in Tasks, VersionWatched(t) PROVE TypeOK'
  <2>1. "watch" \in Steps /\ task[t].provider \in Providers
    BY DEF Steps, TypeOK, TaskRecord
  <2>2. Waiting("watch", "handler", task[t].provider) \in TaskRecord
    BY <2>1, WaitingType
  <2>3. task' \in [Tasks -> TaskRecord]
    BY <1>9, <2>2, TaskReplaced DEF VersionWatched
  <2>. QED BY <1>9, <2>3 DEF VersionWatched, env, TypeOK
<1>10. ASSUME NEW t \in Tasks, DisabledWatched(t) PROVE TypeOK'
  <2>. DEFINE p == task[t].provider
  <2>1. p \in Providers
    BY DEF TypeOK, TaskRecord
  <2>2. InstallDisabledWatch(p)
    BY <1>10 DEF DisabledWatched
  <2>3. pending \in Nat /\ pending' \in {pending, pending + 1}
    BY <2>2 DEF InstallDisabledWatch, TypeOK
  <2>4. pending' \in Nat
    BY <2>3
  <2>5. seen' \in Contents \cup {"no watch", "unseen"}
    <3>1. seen' \in {seen, file, "unseen"}
      BY <2>2, Zenon DEF InstallDisabledWatch
    <3>. QED BY <3>1 DEF TypeOK
  <2>6. isReady' \in [Providers -> BOOLEAN]
    BY <1>10 DEF DisabledWatched, TypeOK
  <2>7. /\ isReadyLast' \in BOOLEAN
        /\ task' \in [Tasks -> TaskRecord]
    <3>1. CASE p = Top
      BY <1>10, <3>1, ReadingType, TaskReplaced DEF DisabledWatched, TypeOK
    <3>2. CASE p # Top
      BY <1>10, <3>2, IdleType, TaskReplaced DEF DisabledWatched, Edge, AllReady
    <3>. QED BY <3>1, <3>2
  <2>. HIDE DEF p
  <2>. QED BY <1>10, <2>4, <2>5, <2>6, <2>7 DEF DisabledWatched, env, TypeOK
<1>11. ASSUME NEW t \in Tasks, InstallRaises(t) PROVE TypeOK'
  BY <1>11, IdleType, TaskReplaced DEF InstallRaises, env, TypeOK
<1>12. ASSUME NEW t \in Tasks, ReadAnswered(t) PROVE TypeOK'
  <2>1. [task[t] EXCEPT !.step = "resume", !.content = file] \in TaskRecord
    BY DEF TypeOK, TaskRecord, Steps
  <2>. QED BY <1>12, <2>1 DEF ReadAnswered, env, TypeOK
<1>13. ASSUME NEW t \in Tasks, ReadRaises(t) PROVE TypeOK'
  BY <1>13, AfterReadType DEF ReadRaises, env, TypeOK
<1>14. ASSUME NEW t \in Tasks, ReadResumed(t) PROVE TypeOK'
  <2>1. disabled' \in Lists \cup {Nothing}
    BY <1>14 DEF ReadResumed, Parsed, TypeOK
  <2>. QED BY <1>14, <2>1, AfterReadType DEF ReadResumed, env, TypeOK
<1>15. ASSUME NEW t \in Tasks, FavoritesRead(t) PROVE TypeOK'
  BY <1>15, IdleType DEF FavoritesRead, Edge, AllReady, env, TypeOK
<1>16. CASE OnDisabledChanged
  <2>1. pending \in Nat /\ pending' = pending + 1
    BY <1>16 DEF OnDisabledChanged, TypeOK
  <2>2. pending' \in Nat
    BY <2>1
  <2>. QED BY <1>16, <2>2 DEF OnDisabledChanged, env, TypeOK
<1>18. CASE UNCHANGED vars
  BY <1>18 DEF vars, TypeOK
<1>. QED
  BY <1>1, <1>2, <1>3, <1>4, <1>5, <1>7, <1>8, <1>9, <1>10, <1>11, <1>12, <1>13,
     <1>14, <1>15, <1>16, <1>18 DEF Next, TaskStep

\* Every state of every behaviour has the declared types.
THEOREM LibraryTypeCorrect == Spec => []TypeOK
<1>. QED BY TypeInit, TypeStep, PTL DEF Spec
-----------------------------------------------------------------------------
\* A task that is about to compute the edge.
Announcing(t) == /\ task[t].kind = "handler"
                 /\ task[t].step \in {"read", "resume", "favorites"}

\* A step that changes neither readiness keeps the property if the tasks that
\* were about to compute the edge still are.
LEMMA AnnouncingKeeps ==
  ASSUME ReadinessAnnounced, UNCHANGED <<isReady, isReadyLast>>,
         \A t \in Tasks : Announcing(t) => Announcing(t)'
  PROVE  ReadinessAnnounced'
  BY DEF ReadinessAnnounced, Announcing, AllReady

LEMMA OtherTask ==
  ASSUME TypeOK, NEW t \in Tasks, NEW x \in TaskRecord, task' = [task EXCEPT ![t] = x],
         Announcing(t) => x.kind = "handler" /\ x.step \in {"read", "resume", "favorites"}
  PROVE  \A u \in Tasks : Announcing(u) => Announcing(u)'
<1>1. task'[t] = x /\ \A u \in Tasks : u # t => task'[u] = task[u]
  BY TaskReplaced
<1>. QED BY <1>1 DEF Announcing

LEMMA AnnouncedStep ==
  TypeOK /\ ReadinessAnnounced /\ [Next]_vars => ReadinessAnnounced'
<1>. SUFFICES ASSUME TypeOK, ReadinessAnnounced, [Next]_vars PROVE ReadinessAnnounced'
  OBVIOUS
<1>1. ASSUME NEW content \in Contents, Edit(content) PROVE ReadinessAnnounced'
  BY <1>1, AnnouncingKeeps DEF Edit, Announcing
<1>2. ASSUME NEW p \in Providers, Connect(p) \/ Lose(p) PROVE ReadinessAnnounced'
  BY <1>2, AnnouncingKeeps DEF Connect, Lose, Announcing
<1>3. ASSUME NEW p \in Providers, Suspend(p) PROVE ReadinessAnnounced'
  <2>1. ASSUME NEW t \in Tasks, Announcing(t) PROVE Announcing(t)'
    <3>1. task[t] \in TaskRecord
      BY DEF TypeOK
    <3>2. task'[t] \in {[task[t] EXCEPT !.broken = TRUE], task[t]}
      BY <1>3 DEF Suspend
    <3>. QED BY <2>1, <3>1, <3>2 DEF Announcing, TaskRecord
  <2>. QED BY <1>3, <2>1, AnnouncingKeeps DEF Suspend
<1>4. ASSUME NEW p \in Providers, OnLost(p) PROVE ReadinessAnnounced'
  BY <1>4 DEF OnLost, Edge, ReadinessAnnounced, AllReady
<1>5. ASSUME NEW p \in Providers, NEW t \in Tasks, OnConnected(p, t) PROVE ReadinessAnnounced'
  <2>1. \A u \in Tasks : Announcing(u) => Announcing(u)'
    <3>1. Waiting("version", "handler", p) \in TaskRecord /\ ~Announcing(t)
      BY <1>5, WaitingType, StepOfTask DEF OnConnected, Announcing, Steps
    <3>. QED BY <1>5, <3>1, OtherTask DEF OnConnected
  <2>. QED BY <1>5, <2>1, AnnouncingKeeps DEF OnConnected
<1>6. ASSUME NEW t \in Tasks, OnTick60(t) \/ StartScheduled(t) PROVE ReadinessAnnounced'
  <2>1. \A u \in Tasks : Announcing(u) => Announcing(u)'
    <3>1. PICK kind \in {"handler", "reload"} :
            task' = [task EXCEPT ![t] = Reading(kind)]
      BY <1>6 DEF OnTick60, StartScheduled
    <3>2. ~Announcing(t)
      BY <1>6, StepOfTask DEF OnTick60, StartScheduled, Announcing
    <3>. QED BY <3>1, <3>2, ReadingType, OtherTask
  <2>. QED BY <1>6, <2>1, AnnouncingKeeps DEF OnTick60, StartScheduled
<1>7. ASSUME NEW t \in Tasks, VersionWatched(t) \/ InstallRaises(t) PROVE ReadinessAnnounced'
  <2>1. \A u \in Tasks : Announcing(u) => Announcing(u)'
    <3>1. ~Announcing(t) /\ task[t].provider \in Providers /\ "watch" \in Steps
      BY <1>7 DEF VersionWatched, InstallRaises, Announcing, TypeOK, TaskRecord, Steps
    <3>2. PICK x \in {Waiting("watch", "handler", task[t].provider), Idle} :
            task' = [task EXCEPT ![t] = x]
      BY <1>7 DEF VersionWatched, InstallRaises
    <3>3. x \in TaskRecord
      BY <3>1, <3>2, WaitingType, IdleType
    <3>. QED BY <3>1, <3>2, <3>3, OtherTask
  <2>. QED BY <1>7, <2>1, AnnouncingKeeps DEF VersionWatched, InstallRaises
<1>8. ASSUME NEW t \in Tasks, DisabledWatched(t) PROVE ReadinessAnnounced'
  <2>1. CASE task[t].provider = Top
    <3>1. Announcing(t)'
      <4>1. task'[t] = Reading("handler")
        BY <1>8, <2>1, ReadingType, TaskReplaced DEF DisabledWatched
      <4>. QED BY <4>1, StepOfTask DEF Announcing, Reading
    <3>. QED BY <3>1 DEF Announcing, ReadinessAnnounced
  <2>2. CASE task[t].provider # Top
    BY <1>8, <2>2 DEF DisabledWatched, Edge, ReadinessAnnounced, AllReady
  <2>. QED BY <2>1, <2>2
<1>9. ASSUME NEW t \in Tasks, ReadAnswered(t) PROVE ReadinessAnnounced'
  <2>1. \A u \in Tasks : Announcing(u) => Announcing(u)'
    <3>. DEFINE x == [task[t] EXCEPT !.step = "resume", !.content = file]
    <3>1. task[t] \in TaskRecord /\ file \in Contents
      BY DEF TypeOK
    <3>2. x \in TaskRecord /\ x.kind = task[t].kind /\ x.step = "resume"
      BY <3>1 DEF TaskRecord, Steps
    <3>3. task' = [task EXCEPT ![t] = x]
      BY <1>9 DEF ReadAnswered
    <3>. HIDE DEF x
    <3>. QED BY <3>2, <3>3, OtherTask DEF Announcing
  <2>. QED BY <1>9, <2>1, AnnouncingKeeps DEF ReadAnswered
<1>10. ASSUME NEW t \in Tasks, ReadRaises(t) \/ ReadResumed(t) PROVE ReadinessAnnounced'
  <2>1. task' = [task EXCEPT ![t] = AfterRead(t)]
    BY <1>10 DEF ReadRaises, ReadResumed
  <2>2. \A u \in Tasks : Announcing(u) => Announcing(u)'
    <3>1. Announcing(t) => /\ AfterRead(t).kind = "handler"
                           /\ AfterRead(t).step \in {"read", "resume", "favorites"}
      BY DEF AfterRead, Waiting, Announcing
    <3>. QED BY <2>1, <3>1, AfterReadType, OtherTask
  <2>. QED BY <1>10, <2>2, AnnouncingKeeps DEF ReadRaises, ReadResumed
<1>11. ASSUME NEW t \in Tasks, FavoritesRead(t) PROVE ReadinessAnnounced'
  BY <1>11 DEF FavoritesRead, Edge, ReadinessAnnounced, AllReady
<1>12. CASE OnDisabledChanged
  BY <1>12, AnnouncingKeeps DEF OnDisabledChanged, Announcing
<1>13. CASE UNCHANGED vars
  BY <1>13, AnnouncingKeeps DEF vars, Announcing
<1>. QED
  BY <1>1, <1>2, <1>3, <1>4, <1>5, <1>6, <1>7, <1>8, <1>9, <1>10, <1>11, <1>12,
     <1>13 DEF Next, TaskStep

\* The library has announced the readiness of its providers, or the handler that
\* will is on its way (LibraryService._set_ready).
THEOREM ReadinessIsAnnounced == Spec => []ReadinessAnnounced
<1>1. Init => ReadinessAnnounced
  BY ProvidersAssumption DEF Init, ReadinessAnnounced, AllReady
<1>. QED BY <1>1, LibraryTypeCorrect, AnnouncedStep, PTL DEF Spec

-----------------------------------------------------------------------------
(* The composition of the providers.                                       *)

\* A step of the composition is a step of each provider, or leaves it alone.
LEMMA PartSteps ==
  ASSUME [ProvidersNext /\ UNCHANGED provider]_allVars
  PROVE  /\ [Git!Next]_gitVars
         /\ [Registry!Next]_regVars
         /\ [Files!Next]_fileVars
         /\ [Azure!Next]_azureVars
         /\ [Layers!Next]_layerVars
         /\ [Disabling!Next]_disabledVars
         /\ [Scopes!Next]_targetVars
<1>1. CASE UNCHANGED allVars
  BY <1>1 DEF allVars
<1>2. CASE ProvidersNext
  BY <1>2 DEF ProvidersNext
<1> QED
  BY <1>1, <1>2

-----------------------------------------------------------------------------
(* The cache of Azure Storage.                                             *)

\* A read that has no answer, that has one, and that downloads.
Asking == [at: {"idle", "asked"}, tag: Nat, got: {0}, written: {0}]
Answered == [at: {"answered"}, tag: Nat, got: Nat \ {0}, written: {0}]
Writing == [at: {"download"}, tag: Nat, got: Nat \ {0}, written: Nat]
ReadRecord == Asking \cup Answered \cup Writing

AzureTyped ==
  /\ aBlob \in Nat \ {0} /\ aTag \in Nat
  /\ aCached \in Seq(Nat)
  /\ aReads \in [Reads -> ReadRecord]

LEMMA RecordOf ==
  ASSUME AzureTyped, NEW r \in Reads
  PROVE  /\ aReads[r] \in ReadRecord
         /\ aReads[r].at \in {"idle", "asked"} <=> aReads[r] \in Asking
         /\ aReads[r].at = "answered" <=> aReads[r] \in Answered
         /\ aReads[r].at = "download" <=> aReads[r] \in Writing
         /\ aReads[r].got \in Nat /\ aReads[r].written \in Nat
<1>1. aReads[r] \in ReadRecord
  BY DEF AzureTyped
<1>2. CASE aReads[r] \in Asking
  BY <1>1, <1>2 DEF Asking, Answered, Writing
<1>3. CASE aReads[r] \in Answered
  BY <1>1, <1>3 DEF Asking, Answered, Writing
<1>4. CASE aReads[r] \in Writing
  BY <1>1, <1>4 DEF Asking, Answered, Writing
<1> QED
  BY <1>1, <1>2, <1>3, <1>4 DEF ReadRecord

\* What a read that is not there, or has been served, is.
LEMMA NotReadingIs ==
  Azure!NotReading \in Asking /\ Azure!NotReading \in ReadRecord /\ Azure!NotReading.at = "idle"
  BY DEF Azure!NotReading, Asking, ReadRecord

\* A version that is downloaded is that of the tag, or both are spoilt; two downloads have
\* spoilt both of theirs; and a download that is not spoilt has written all there is.
Alone ==
  \A r \in Azure!Downloading :
    /\ aTag = aReads[r].got \/ {aTag, aReads[r].got} \subseteq aSpoilt
    /\ \A o \in Azure!Downloading : o # r => aReads[r].got \in aSpoilt
    /\ aReads[r].got \notin aSpoilt =>
         /\ aReads[r].written <= Len(Azure!Chunks(aReads[r].got))
         /\ aCached = [i \in 1..aReads[r].written |-> aReads[r].got]

\* With no download under way the file is the whole of the version of its tag.
CachedWhole ==
  Azure!Downloading = {} /\ aTag # 0 => aCached = Azure!Chunks(aTag) \/ aTag \in aSpoilt

AzureCache == AzureTyped /\ Alone /\ CachedWhole

AzureInv == AzureCache /\ ServedWhole

LEMMA ChunkCount ==
  ASSUME NEW v \in Nat
  PROVE  /\ Azure!Chunks(v) \in Seq(Nat)
         /\ Len(Azure!Chunks(v)) \in 1..2
         /\ Len(Azure!Chunks(v)) = 1 + (v % 2)
<1>1. v % 2 \in 0..1
  OBVIOUS
<1> QED
  BY <1>1 DEF Azure!Chunks

LEMMA AzureInit ==
  ASSUME Azure!Init
  PROVE  AzureInv
  BY NotReadingIs DEF Azure!Init, AzureInv, AzureCache, AzureTyped, Alone, CachedWhole, ServedWhole,
         Azure!NotReading, Azure!NotServed, Azure!ServedWhole, Azure!Downloading

\* What was served stays as it was, and what is spoilt stays spoilt.
LEMMA ServedStays ==
  ASSUME ServedWhole, aServed' = aServed, aSpoilt \subseteq aSpoilt'
  PROVE  ServedWhole'
  BY DEF ServedWhole, Azure!ServedWhole, Azure!Chunks

\* What is served of a cache as it should be is whole, or the first part of what is written.
LEMMA ServesWhole ==
  ASSUME AzureCache, NEW r \in Reads, aSpoilt' = aSpoilt,
         aServed' = [of |-> aTag, chunks |-> aCached, partly |-> Azure!Downloading \ {r} # {}],
         r \in Azure!Downloading => aReads[r].written = Len(Azure!Chunks(aReads[r].got))
  PROVE  ServedWhole'
<1> DEFINE beside == Azure!Downloading \ {r} # {}
<1>1. aServed'.of = aTag /\ aServed'.chunks = aCached /\ aServed'.partly = beside
  OBVIOUS
<1>2. /\ aTag \in Nat /\ Len(Azure!Chunks(aTag)) \in Nat
      /\ Azure!Chunks(aTag) = [i \in 1..Len(Azure!Chunks(aTag)) |-> aTag]
  BY ChunkCount DEF AzureCache, AzureTyped, Azure!Chunks
<1>3. SUFFICES ASSUME aTag # 0, aTag \notin aSpoilt
               PROVE  \E n \in 0..Len(Azure!Chunks(aTag)) :
                        /\ aCached = [i \in 1..n |-> aTag]
                        /\ beside \/ n = Len(Azure!Chunks(aTag))
  BY <1>1 DEF ServedWhole, Azure!ServedWhole, Azure!Chunks
<1> HIDE DEF beside
<1>4. CASE Azure!Downloading = {}
  <2>1. aCached = [i \in 1..Len(Azure!Chunks(aTag)) |-> aTag]
    BY <1>2, <1>3, <1>4 DEF AzureCache, CachedWhole
  <2>2. Len(Azure!Chunks(aTag)) \in 0..Len(Azure!Chunks(aTag))
    BY <1>2
  <2> QED
    BY <2>1, <2>2
<1>5. ASSUME NEW o \in Azure!Downloading
      PROVE  /\ aReads[o].written \in 0..Len(Azure!Chunks(aTag))
             /\ aCached = [i \in 1..aReads[o].written |-> aTag]
             /\ aReads[o].got = aTag
  <2>1. aReads[o].got = aTag
    BY <1>3 DEF AzureCache, Alone
  <2>2. aReads[o].written \in Nat
    BY RecordOf DEF AzureCache, Azure!Downloading
  <2> QED
    BY <1>2, <1>3, <2>1, <2>2 DEF AzureCache, Alone
<1>6. CASE r \in Azure!Downloading
  BY <1>2, <1>5, <1>6
<1>7. ASSUME NEW o \in Azure!Downloading \ {r}
      PROVE  beside
  BY DEF beside
<1> QED
  BY <1>4, <1>5, <1>6, <1>7

\* A version that comes while no other is downloaded is alone.
LEMMA ModifiedKeeps ==
  ASSUME AzureCache, NEW r \in Reads, Azure!Modified(r)
  PROVE  AzureCache'
<1> DEFINE v == aReads[r].got
<1>0. /\ aReads[r].at = "answered"
      /\ aReads' = [aReads EXCEPT ![r].at = "download"]
      /\ aCached' = <<>> /\ aTag' = v /\ aBlob' = aBlob
  BY DEF Azure!Modified
<1>10. aReads[r] \in Answered
  BY <1>0, RecordOf DEF AzureCache
<1>11. aReads'[r] \in Writing /\ v \in Nat
  <2>1. aReads'[r] = [aReads[r] EXCEPT !.at = "download"]
    BY <1>0 DEF AzureCache, AzureTyped
  <2> QED
    BY <1>10, <2>1 DEF Answered, Writing
<1>1. AzureTyped'
  <2>1. aReads' \in [Reads -> ReadRecord]
    <3>1. \A o \in Reads : aReads'[o] \in ReadRecord
      BY <1>0, <1>11 DEF AzureCache, AzureTyped, ReadRecord
    <3> QED
      BY <1>0, <3>1 DEF AzureCache, AzureTyped
  <2> QED
    BY <1>0, <1>11, <2>1 DEF AzureCache, AzureTyped
<1>2. Azure!Downloading' = Azure!Downloading \cup {r}
  BY DEF AzureCache, AzureTyped, Azure!Modified, Azure!Downloading
<1>3. aReads'[r].got = v /\ \A o \in Azure!Downloading : aReads'[o] = aReads[o]
  BY DEF AzureCache, AzureTyped, Azure!Modified, Azure!Downloading
<1>4. aTag' = v /\ aCached' = <<>>
  BY DEF Azure!Modified
<1>5. CASE Azure!Downloading = {}
  <2>1. Azure!Downloading' = {r}
    BY <1>2, <1>5
  <2>2. aReads'[r].written = 0
    BY <1>0, <1>10 DEF AzureCache, AzureTyped, Answered
  <2> QED
    BY <1>1, <2>1, <2>2, <1>3, <1>4
       DEF AzureCache, Alone, CachedWhole
<1>6. CASE Azure!Downloading # {}
  <2>1. \A o \in Azure!Downloading' : aReads'[o].got \in aSpoilt'
    <3>1. aSpoilt' = aSpoilt \cup {v} \cup {aReads[o].got : o \in Azure!Downloading}
      BY <1>6 DEF Azure!Modified, Azure!Spoils
    <3>2. \A o \in Azure!Downloading : aReads[o].got \in aSpoilt'
      BY <3>1
    <3>3. v \in aSpoilt'
      BY <3>1
    <3> QED
      BY <1>2, <1>3, <3>2, <3>3
  <2>2. aTag' \in aSpoilt'
    BY <1>6 DEF Azure!Modified, Azure!Spoils
  <2> QED
    BY <1>1, <1>2, <2>1, <2>2 DEF AzureCache, Alone, CachedWhole
<1> QED
  BY <1>5, <1>6

\* A chunk goes to the end of the file, unless the version is spoilt.
LEMMA WriteChunkKeeps ==
  ASSUME AzureCache, NEW r \in Reads, Azure!WriteChunk(r)
  PROVE  AzureCache'
<1> DEFINE v == aReads[r].got
           n == aReads[r].written + 1
<1>1. /\ v \in Nat /\ aReads[r].written \in Nat /\ n \in Nat \ {0}
      /\ r \in Azure!Downloading /\ aCached \in Seq(Nat)
  <2>1. r \in Azure!Downloading
    BY DEF Azure!WriteChunk, Azure!Downloading
  <2>2. aReads[r].got \in Nat /\ aReads[r].written \in Nat
    BY RecordOf DEF AzureCache
  <2> QED
    BY <2>1, <2>2 DEF AzureCache, AzureTyped
<1>2. aReads' = [aReads EXCEPT ![r].written = n]
  BY DEF Azure!WriteChunk
<1>3. aCached' = [i \in 1..(IF n > Len(aCached) THEN n ELSE Len(aCached)) |->
                   IF i = n THEN v ELSE IF i <= Len(aCached) THEN aCached[i] ELSE 0]
  BY DEF Azure!WriteChunk
<1>4. aCached' \in Seq(Nat)
  <2> DEFINE m == IF n > Len(aCached) THEN n ELSE Len(aCached)
             e(i) == IF i = n THEN v ELSE IF i <= Len(aCached) THEN aCached[i] ELSE 0
  <2>1. m \in Nat
    BY <1>1
  <2>2. \A i \in 1..m : e(i) \in Nat
    BY <1>1, <2>1
  <2>3. aCached' = [i \in 1..m |-> e(i)]
    BY <1>3
  <2> HIDE DEF m, e
  <2> QED
    BY <2>1, <2>2, <2>3
<1>5. n <= Len(Azure!Chunks(v)) /\ UNCHANGED <<aModel, aBlob, aTag, aSpoilt, aBroken>>
  BY DEF Azure!WriteChunk
<1>6. Azure!Downloading' = Azure!Downloading
  BY <1>2 DEF AzureCache, AzureTyped, Azure!Downloading
<1>7. \A o \in Reads : aReads'[o].got = aReads[o].got
  BY <1>2 DEF AzureCache, AzureTyped
<1>8. aReads'[r].written = n /\ \A o \in Reads \ {r} : aReads'[o].written = aReads[o].written
  BY <1>2 DEF AzureCache, AzureTyped
<1>9. AzureTyped'
  <2>1. aReads[r] \in Writing
    BY <1>1, RecordOf DEF AzureCache, Azure!Downloading
  <2>2. aReads'[r] = [aReads[r] EXCEPT !.written = n]
    BY <1>2 DEF AzureCache, AzureTyped
  <2>3. aReads'[r] \in Writing
    BY <1>1, <2>1, <2>2 DEF Writing
  <2>4. \A o \in Reads : aReads'[o] \in ReadRecord
    BY <1>2, <2>3 DEF AzureCache, AzureTyped, ReadRecord
  <2>5. aReads' \in [Reads -> ReadRecord]
    BY <1>2, <2>4 DEF AzureCache, AzureTyped
  <2> QED
    BY <1>4, <1>5, <2>5 DEF AzureCache, AzureTyped
<1>10. ASSUME v \notin aSpoilt
       PROVE  aCached' = [i \in 1..n |-> v]
  <2>1. aCached = [i \in 1..aReads[r].written |-> v]
    BY <1>1, <1>10 DEF AzureCache, Alone
  <2>2. Len(aCached) = aReads[r].written
    BY <1>1, <2>1
  <2>3. n > Len(aCached) /\ Len(aCached) = n - 1
    BY <1>1, <2>2
  <2>4. \A i \in 1..n : (IF i = n THEN v ELSE IF i <= Len(aCached) THEN aCached[i] ELSE 0) = v
    BY <1>1, <2>1, <2>3
  <2> QED
    BY <1>3, <2>3, <2>4
<1>11. Alone'
  <2> SUFFICES ASSUME NEW o \in Azure!Downloading
               PROVE  /\ aTag = aReads[o].got \/ {aTag, aReads[o].got} \subseteq aSpoilt
                      /\ \A q \in Azure!Downloading : q # o => aReads[o].got \in aSpoilt
                      /\ aReads[o].got \notin aSpoilt =>
                           /\ aReads'[o].written <= Len(Azure!Chunks(aReads[o].got))
                           /\ aCached' = [i \in 1..aReads'[o].written |-> aReads[o].got]
    BY <1>5, <1>6, <1>7 DEF Alone, Azure!Downloading
  <2>1. CASE o = r
    BY <2>1, <1>1, <1>5, <1>8, <1>10 DEF AzureCache, Alone
  <2>2. CASE o # r
    BY <2>2, <1>1 DEF AzureCache, Alone
  <2> QED
    BY <2>1, <2>2
<1> QED
  BY <1>1, <1>6, <1>9, <1>11 DEF AzureCache, CachedWhole

\* The cache of a download that ends is whole, or its version is spoilt.
LEMMA ReadDoneKeeps ==
  ASSUME AzureCache, NEW r \in Reads, Azure!ReadDone(r)
  PROVE  AzureCache'
<1>1. AzureTyped'
  BY NotReadingIs DEF AzureCache, AzureTyped, Azure!ReadDone, Azure!Serve
<1>2. /\ r \in Azure!Downloading
      /\ Azure!Downloading' = Azure!Downloading \ {r}
      /\ \A o \in Azure!Downloading \ {r} : aReads'[o] = aReads[o]
      /\ UNCHANGED <<aCached, aTag, aSpoilt>>
  BY DEF AzureCache, AzureTyped, Azure!ReadDone, Azure!Serve, Azure!NotReading, Azure!Downloading
<1>3. Alone'
  BY <1>2 DEF AzureCache, Alone
<1>4. ASSUME aTag \notin aSpoilt
      PROVE  aCached = Azure!Chunks(aTag)
  <2>1. aReads[r].got = aTag
    BY <1>2, <1>4 DEF AzureCache, Alone
  <2>2. aReads[r].written = Len(Azure!Chunks(aTag)) /\ aTag \in Nat
    BY <2>1 DEF Azure!ReadDone, AzureCache, AzureTyped
  <2>3. aCached = [i \in 1..(1 + (aTag % 2)) |-> aTag]
    BY <1>2, <1>4, <2>1, <2>2, ChunkCount DEF AzureCache, Alone
  <2> QED
    BY <2>3 DEF Azure!Chunks
<1>5. CachedWhole'
  BY <1>2, <1>4 DEF CachedWhole, Azure!Chunks
<1> QED
  BY <1>1, <1>3, <1>5 DEF AzureCache

\* A download that breaks has spoilt its version, and with it that of the tag.
LEMMA DownloadBreaksKeeps ==
  ASSUME AzureCache, NEW r \in Reads, Azure!DownloadBreaks(r)
  PROVE  AzureCache'
<1>1. AzureTyped'
  BY NotReadingIs DEF AzureCache, AzureTyped, Azure!DownloadBreaks
<1>2. /\ Azure!Downloading' = Azure!Downloading \ {r}
      /\ \A o \in Azure!Downloading \ {r} : aReads'[o] = aReads[o]
      /\ UNCHANGED <<aCached, aTag>> /\ aSpoilt \subseteq aSpoilt'
  BY DEF AzureCache, AzureTyped, Azure!DownloadBreaks, Azure!NotReading, Azure!Downloading
<1>3. r \in Azure!Downloading => aReads[r].got \in aSpoilt'
  BY DEF AzureCache, AzureTyped, Azure!DownloadBreaks, Azure!Downloading
<1>4. Alone'
  BY <1>2 DEF AzureCache, Alone
<1>5. CachedWhole'
  BY <1>2, <1>3 DEF AzureCache, Alone, CachedWhole, Azure!Chunks
<1> QED
  BY <1>1, <1>4, <1>5 DEF AzureCache

LEMMA AzureCrashKeeps ==
  ASSUME AzureCache, Azure!Crash
  PROVE  AzureCache'
<1>1. AzureTyped'
  BY NotReadingIs DEF AzureCache, AzureTyped, Azure!Crash
<1>2. Azure!Downloading' = {} /\ UNCHANGED <<aCached, aTag>>
  BY DEF Azure!Crash, Azure!NotReading, Azure!Downloading
<1>3. aSpoilt \subseteq aSpoilt' /\ \A r \in Azure!Downloading : aReads[r].got \in aSpoilt'
  BY DEF Azure!Crash
<1>4. CachedWhole'
  BY <1>2, <1>3 DEF AzureCache, Alone, CachedWhole, Azure!Chunks
<1> QED
  BY <1>1, <1>2, <1>4 DEF AzureCache, Alone

LEMMA AzureStep ==
  ASSUME AzureInv, [Azure!Next]_azureVars
  PROVE  AzureInv'
<1> USE DEF AzureInv
<1>1. CASE UNCHANGED <<aBlob, aTag, aCached, aReads, aSpoilt, aServed>>
  BY <1>1, ServedStays DEF AzureCache, AzureTyped, Alone, CachedWhole, Azure!Downloading,
                           Azure!Chunks
<1>2. CASE Azure!Change
  BY <1>2, ServedStays DEF Azure!Change, AzureCache, AzureTyped, Alone, CachedWhole,
                           Azure!Downloading, Azure!Chunks
<1>3. ASSUME NEW r \in Reads, aReads[r].at # "download",
             NEW x \in Asking \cup Answered,
             aReads' = [aReads EXCEPT ![r] = x],
             UNCHANGED <<aBlob, aCached, aTag, aSpoilt>>
      PROVE  AzureCache'
  <2>1. AzureTyped'
    BY <1>3 DEF AzureCache, AzureTyped, ReadRecord
  <2>5. x.at # "download"
    BY <1>3 DEF Asking, Answered
  <2>2. /\ Azure!Downloading' = Azure!Downloading
        /\ \A o \in Azure!Downloading : aReads'[o] = aReads[o]
    BY <1>3, <2>5 DEF AzureCache, AzureTyped, Azure!Downloading
  <2>3. Alone'
    <3>1. \A o \in Azure!Downloading :
            (aReads[o].written <= Len(Azure!Chunks(aReads[o].got)))' <=>
              aReads[o].written <= Len(Azure!Chunks(aReads[o].got))
      BY <2>2 DEF Azure!Chunks
    <3> QED
      BY <1>3, <2>2, <3>1 DEF AzureCache, Alone
  <2>4. CachedWhole'
    BY <1>3, <2>2 DEF AzureCache, CachedWhole, Azure!Chunks
  <2> QED
    BY <2>1, <2>3, <2>4 DEF AzureCache
<1>4. ASSUME NEW r \in Reads, Azure!Read(r)
      PROVE  AzureInv'
  <2> DEFINE x == [Azure!NotReading EXCEPT !.at = "asked", !.tag = aTag]
  <2>1. aReads[r].at # "download" /\ aTag \in Nat
    BY <1>4 DEF AzureCache, AzureTyped, Azure!Read, Azure!NotReading
  <2>2. x \in Asking
    BY <2>1 DEF Azure!NotReading, Asking
  <2>3. UNCHANGED <<aBlob, aCached, aTag, aSpoilt, aServed>> /\ aReads' = [aReads EXCEPT ![r] = x]
    BY <1>4 DEF Azure!Read
  <2> QED
    BY <1>3, <2>1, <2>2, <2>3, ServedStays
<1>5. ASSUME NEW r \in Reads, Azure!Answer(r)
      PROVE  AzureInv'
  <2> DEFINE x == [aReads[r] EXCEPT !.at = "answered", !.got = aBlob]
  <2>1. aReads[r].at = "asked"
    BY <1>5 DEF Azure!Answer
  <2>2. aReads[r] \in Asking /\ aBlob \in Nat \ {0}
    BY <2>1, RecordOf DEF AzureCache, AzureTyped
  <2>3. x \in Answered
    BY <2>2 DEF Asking, Answered
  <2>4. UNCHANGED <<aBlob, aCached, aTag, aSpoilt, aServed>>
    BY <1>5 DEF Azure!Answer
  <2>5. aReads' = [aReads EXCEPT ![r] = x]
    BY <1>5 DEF Azure!Answer
  <2> QED
    BY <1>3, <2>1, <2>3, <2>4, <2>5, ServedStays
<1>6. ASSUME NEW r \in Reads, Azure!NotModified(r)
      PROVE  AzureInv'
  <2>1. aReads[r].at # "download" /\ Azure!NotReading \in Asking
    BY <1>6, NotReadingIs DEF Azure!NotModified
  <2>2. /\ UNCHANGED <<aBlob, aCached, aTag, aSpoilt>>
        /\ aReads' = [aReads EXCEPT ![r] = Azure!NotReading]
        /\ aServed' = [of |-> aTag, chunks |-> aCached, partly |-> Azure!Downloading \ {r} # {}]
    BY <1>6 DEF Azure!NotModified, Azure!Serve
  <2>3. AzureCache'
    BY <1>3, <2>1, <2>2
  <2>4. r \notin Azure!Downloading
    BY <2>1 DEF Azure!Downloading
  <2> QED
    BY <2>2, <2>3, <2>4, ServesWhole
<1>7. ASSUME NEW r \in Reads, Azure!ReadDone(r)
      PROVE  AzureInv'
  <2>1. /\ aSpoilt' = aSpoilt /\ aReads[r].written = Len(Azure!Chunks(aReads[r].got))
        /\ aServed' = [of |-> aTag, chunks |-> aCached, partly |-> Azure!Downloading \ {r} # {}]
    BY <1>7 DEF Azure!ReadDone, Azure!Serve
  <2> QED
    BY <1>7, <2>1, ReadDoneKeeps, ServesWhole
<1>8. ASSUME NEW r \in Reads, Azure!Modified(r)
      PROVE  AzureInv'
  <2>1. aServed' = aServed /\ aSpoilt \subseteq aSpoilt'
    BY <1>8 DEF Azure!Modified
  <2> QED
    BY <1>8, <2>1, ModifiedKeeps, ServedStays
<1>9. ASSUME NEW r \in Reads, Azure!WriteChunk(r)
      PROVE  AzureInv'
  <2>1. aServed' = aServed /\ aSpoilt' = aSpoilt
    BY <1>9 DEF Azure!WriteChunk
  <2> QED
    BY <1>9, <2>1, WriteChunkKeeps, ServedStays
<1>10. ASSUME NEW r \in Reads, Azure!DownloadBreaks(r)
       PROVE  AzureInv'
  <2>1. aServed' = aServed /\ aSpoilt \subseteq aSpoilt'
    BY <1>10 DEF Azure!DownloadBreaks
  <2> QED
    BY <1>10, <2>1, DownloadBreaksKeeps, ServedStays
<1>11. CASE Azure!Crash
  <2>1. aServed' = aServed /\ aSpoilt \subseteq aSpoilt'
    BY <1>11 DEF Azure!Crash
  <2> QED
    BY <1>11, <2>1, AzureCrashKeeps, ServedStays
<1>12. CASE Azure!LoadModel \/ Azure!LoadFails
  BY <1>1, <1>12 DEF Azure!LoadModel, Azure!LoadFails
<1>13. CASE UNCHANGED azureVars
  BY <1>1, <1>13 DEF azureVars
<1> QED
  BY <1>2, <1>4, <1>5, <1>6, <1>7, <1>8, <1>9, <1>10, <1>11, <1>12, <1>13 DEF Azure!Next
-----------------------------------------------------------------------------
(* Scopes of ZooKeeper.                                                    *)

Means(a) == Scopes!Meant(a.target, a.context)

\* What a subscriber knows of a place is what the digest of it says, if there is one; only
\* to a subscriber of all tenants a place may be without.
KnownByDigest ==
  \A a \in tAsks : \A p \in Means(a) \ tHidden :
    IF p \in DOMAIN tDigests THEN a.known[p] = tDigests[p]
                             ELSE a.target = Scopes!Target("tenant", None)

ScopesTyped ==
  /\ tSubscriptions \subseteq Scopes!Targets
  /\ \A a \in tAsks :
       /\ DOMAIN a = {"target", "context", "known"}
       /\ a = [i \in DOMAIN a |-> a[i]]
       /\ a.target \in tSubscriptions
       /\ DOMAIN a.known = Means(a)
  /\ tHidden \subseteq DOMAIN tDigests

ScopesInv == ScopesTyped /\ KnownByDigest /\ Scopes!TargetsKnown

\* What one means does not change, and all of it has something to read but tenants without items.
LEMMA MeansAreActual ==
  ASSUME NEW t \in Scopes!Targets, NEW c
  PROVE  /\ Scopes!Meant(t, c)' = Scopes!Meant(t, c)
         /\ t # Scopes!Target("tenant", None) => Scopes!ActualPaths(t, c) = Scopes!Meant(t, c)
         /\ t = Scopes!Target("tenant", None) =>
              /\ Scopes!Meant(t, c) = {Scopes!OfTenant(n) : n \in Tenant}
              /\ Scopes!ActualPaths(t, c) = {Scopes!OfTenant(n) : n \in Scopes!GetTenants}
  BY DEF Scopes!Targets, Scopes!Personal, Scopes!Target, Scopes!Meant, Scopes!ActualPaths,
         Scopes!SubscriptionPersonalPath

LEMMA ScopesInit ==
  ASSUME Scopes!Init
  PROVE  ScopesInv
  BY DEF Scopes!Init, ScopesInv, ScopesTyped, KnownByDigest, Scopes!TargetsKnown

\* A subscription makes digests of what it means, which others may know in an earlier state.
LEMMA SubscribeKeeps ==
  ASSUME ScopesInv, NEW t \in Scopes!Targets, NEW c, Scopes!Subscribe(t, c)
  PROVE  ScopesInv'
<1> DEFINE paths == Scopes!ActualPaths(t, c)
           new == [target |-> t, context |-> c,
                   known |-> [p \in Scopes!Meant(t, c) |-> tContent[p]]]
<1>1. /\ tSubscriptions' = tSubscriptions \cup {t}
      /\ tDigests' = [p \in DOMAIN tDigests \cup paths |->
                       IF p \in paths THEN tContent[p] ELSE tDigests[p]]
      /\ tAsks' = tAsks \cup {new}
      /\ tHidden' = tHidden \cup (Scopes!Outdated(paths) \cap Scopes!Meant(t, c))
                       \cup {p \in paths :
                              \E a \in tAsks : p \in DOMAIN a.known /\ a.known[p] # tContent[p]}
      /\ ~tChecked'
  BY DEF Scopes!Subscribe, Scopes!ProviderSubscribe
<1>2. \A a \in tAsks : a.target \in Scopes!Targets /\ Means(a)' = Means(a)
  BY MeansAreActual DEF ScopesInv, ScopesTyped, Means
<1>3. Scopes!Meant(t, c)' = Scopes!Meant(t, c)
  BY MeansAreActual
<1>4. ScopesTyped'
  <2> PICK x : x = new
    OBVIOUS
  <2>1. /\ DOMAIN x = {"target", "context", "known"} /\ x = [i \in DOMAIN x |-> x[i]]
        /\ x.target = t /\ DOMAIN x.known = Scopes!Meant(t, c) /\ x.context = c
    OBVIOUS
  <2>2. Means(x)' = Scopes!Meant(t, c)
    BY <2>1, <1>3 DEF Means
  <2> HIDE DEF new
  <2> QED
    <3>1. tHidden' \subseteq DOMAIN tDigests'
      BY <1>1 DEF Scopes!Outdated, ScopesInv, ScopesTyped
    <3>2. \A a \in tAsks : DOMAIN a.known = Means(a)'
      BY <1>2 DEF ScopesInv, ScopesTyped
    <3>3. \A a \in tAsks' : DOMAIN a.known = Means(a)'
      BY <1>1, <2>1, <2>2, <3>2
    <3>4. \A a \in tAsks' : /\ DOMAIN a = {"target", "context", "known"}
                            /\ a = [i \in DOMAIN a |-> a[i]]
                            /\ a.target \in tSubscriptions'
      BY <1>1, <2>1 DEF ScopesInv, ScopesTyped
    <3> QED
      BY <1>1, <3>1, <3>3, <3>4 DEF ScopesInv, ScopesTyped
<1>5. KnownByDigest'
  <2> SUFFICES ASSUME NEW a \in tAsks', NEW p \in Means(a)' \ tHidden'
               PROVE  IF p \in DOMAIN tDigests' THEN a.known[p] = tDigests'[p]
                                                ELSE a.target = Scopes!Target("tenant", None)
    BY DEF KnownByDigest
  <2>1. CASE a \in tAsks
    <3>1. p \in Means(a) \ tHidden /\ p \in DOMAIN a.known
      BY <1>1, <1>2, <2>1 DEF ScopesInv, ScopesTyped
    <3>2. IF p \in DOMAIN tDigests THEN a.known[p] = tDigests[p]
                                   ELSE a.target = Scopes!Target("tenant", None)
      BY <2>1, <3>1 DEF ScopesInv, KnownByDigest
    <3>3. p \in paths => a.known[p] = tContent[p]
      BY <1>1, <2>1, <3>1
    <3> QED
      BY <1>1, <3>2, <3>3
  <2>2. CASE a = new
    <3>1. p \in Scopes!Meant(t, c) /\ a.known[p] = tContent[p] /\ a.target = t
      BY <1>3, <2>2 DEF Means
    <3>2. p \in DOMAIN tDigests \ paths => tDigests[p] = tContent[p]
      BY <1>1, <3>1 DEF Scopes!Outdated
    <3>3. p \in paths \/ t = Scopes!Target("tenant", None)
      BY <3>1, MeansAreActual
    <3> QED
      BY <1>1, <3>1, <3>2, <3>3
  <2> QED
    BY <1>1, <2>1, <2>2
<1> QED
  BY <1>1, <1>4, <1>5 DEF ScopesInv, Scopes!TargetsKnown

\* A check without changes has found every digest as it is; after one with changes everybody has
\* read what is there.
LEMMA OnLibraryChangedKeeps ==
  ASSUME ScopesInv, NEW done \in SUBSET tSubscriptions, Scopes!OnLibraryChanged(done)
  PROVE  ScopesInv'
<1> DEFINE paths == UNION {Scopes!CheckedPaths(t) : t \in done}
           changed == {p \in paths : p \notin DOMAIN tDigests \/ tDigests[p] # tContent[p]}
           again(a) == [a EXCEPT !.known = [p \in DOMAIN a.known |-> tContent[p]]]
<1>1. /\ tDigests' = [p \in DOMAIN tDigests \cup paths |->
                       IF p \in paths THEN tContent[p] ELSE tDigests[p]]
      /\ tAsks' = IF changed = {} THEN tAsks ELSE {again(a) : a \in tAsks}
      /\ tHidden' = IF changed = {} THEN tHidden
                    ELSE Scopes!Outdated(paths) \cap UNION {DOMAIN a.known : a \in tAsks}
      /\ tChecked' = (done = tSubscriptions)
      /\ UNCHANGED <<tSubscriptions, tContent, tActual>>
  BY DEF Scopes!OnLibraryChanged
<1>2. \A a \in tAsks : a.target \in Scopes!Targets /\ Means(a)' = Means(a)
  BY MeansAreActual DEF ScopesInv, ScopesTyped, Means
<1>3. ASSUME NEW a \in tAsks
      PROVE  /\ DOMAIN again(a) = {"target", "context", "known"}
             /\ again(a) = [i \in DOMAIN again(a) |-> again(a)[i]]
             /\ again(a).target = a.target /\ again(a).context = a.context
             /\ again(a).known = [p \in Means(a) |-> tContent[p]]
  BY DEF ScopesInv, ScopesTyped
<1> HIDE DEF paths, changed, again
<1>4. CASE changed = {}
  <2>1. \A p \in paths : p \in DOMAIN tDigests /\ tDigests[p] = tContent[p]
    BY <1>4 DEF changed
  <2>2. DOMAIN tDigests' = DOMAIN tDigests /\ \A p \in DOMAIN tDigests : tDigests'[p] = tDigests[p]
    BY <1>1, <2>1
  <2>3. tAsks' = tAsks /\ tHidden' = tHidden
    BY <1>1, <1>4
  <2>4. ScopesTyped'
    BY <1>1, <1>2, <2>3 DEF ScopesInv, ScopesTyped
  <2>5. KnownByDigest'
    BY <1>2, <2>2, <2>3 DEF ScopesInv, KnownByDigest
  <2>6. ASSUME done = tSubscriptions, NEW a \in tAsks,
               ~Scopes!Replaced(a)', NEW p \in Means(a) \ tHidden
        PROVE  \/ a.known[p] = tContent[p]
               \/ tContent[p] = 0 /\ a.target = Scopes!Target("tenant", None)
    <3>1. a.target \in done /\ a.target \in Scopes!Targets
      BY <2>6 DEF ScopesInv, ScopesTyped
    <3>2. a.target \in Scopes!Personal => tActual[a.target] = Scopes!ActualPaths(a.target, a.context)
      BY <1>1, <2>6 DEF Scopes!Replaced, Scopes!ActualPaths, Scopes!SubscriptionPersonalPath,
                        Scopes!Personal, Scopes!Target
    <3>3. p \in Scopes!CheckedPaths(a.target) =>
            p \in DOMAIN tDigests /\ tDigests[p] = tContent[p]
      BY <2>1, <3>1 DEF paths
    <3>4. p \in DOMAIN tDigests => a.known[p] = tDigests[p]
      BY <2>6 DEF ScopesInv, KnownByDigest
    <3>5. CASE a.target = Scopes!Target("tenant", None)
      <4>1. PICK n \in Tenant : p = Scopes!OfTenant(n)
        BY <2>6, <3>1, <3>5, MeansAreActual DEF Means
      <4>2. tContent[p] # 0 => p \in Scopes!CheckedPaths(a.target)
        BY <3>5, <4>1, MeansAreActual
           DEF Scopes!CheckedPaths, Scopes!GetTenants, Scopes!Personal, Scopes!Target,
               Scopes!Targets
      <4> QED
        BY <3>3, <3>4, <3>5, <4>2
    <3>6. CASE a.target # Scopes!Target("tenant", None)
      <4>1. Scopes!ActualPaths(a.target, a.context) = Means(a)
        BY <3>1, <3>6, MeansAreActual DEF Means
      <4>2. a.target \notin Scopes!Personal =>
              Scopes!ActualPaths(a.target, a.context) = Scopes!ActualPaths(a.target, Scopes!Nobody)
        BY <3>1, <3>6 DEF Scopes!Targets, Scopes!Target, Scopes!ActualPaths
      <4>3. p \in Scopes!CheckedPaths(a.target)
        BY <2>6, <3>2, <4>1, <4>2 DEF Scopes!CheckedPaths
      <4> QED
        BY <3>3, <3>4, <4>3
    <3> QED
      BY <3>5, <3>6
  <2>7. Scopes!TargetsKnown'
    BY <1>1, <1>2, <2>3, <2>6 DEF Scopes!TargetsKnown, Means
  <2> QED
    BY <2>4, <2>5, <2>7 DEF ScopesInv
<1>5. CASE changed # {}
  <2>1. tAsks' = {again(a) : a \in tAsks}
    BY <1>1, <1>5
  <2>2. ASSUME NEW x \in tAsks'
        PROVE  \E a \in tAsks : x = again(a) /\ Means(x)' = Means(a)
    <3> PICK a \in tAsks : x = again(a)
      BY <2>1
    <3>1. x.target = a.target /\ x.context = a.context
      BY <1>3
    <3> QED
      BY <1>2, <3>1 DEF Means
  <2>3. ScopesTyped'
    <3>1. tHidden' \subseteq DOMAIN tDigests'
      BY <1>1, <1>5 DEF Scopes!Outdated
    <3> QED
      <4>1. ASSUME NEW x \in tAsks'
            PROVE  /\ DOMAIN x = {"target", "context", "known"}
                   /\ x = [i \in DOMAIN x |-> x[i]]
                   /\ x.target \in tSubscriptions
                   /\ DOMAIN x.known = Means(x)'
        <5>1. PICK a \in tAsks : x = again(a) /\ Means(x)' = Means(a)
          BY <2>2
        <5> QED
          BY <1>3, <5>1 DEF ScopesInv, ScopesTyped
      <4> QED
        BY <1>1, <3>1, <4>1 DEF ScopesInv, ScopesTyped
  <2>4. ASSUME NEW a \in tAsks, NEW p \in Means(a)
        PROVE  again(a).known[p] = tContent[p]
    BY <1>3
  <2>5. ASSUME NEW a \in tAsks, NEW p \in Means(a) \ tHidden'
        PROVE  IF p \in DOMAIN tDigests' THEN again(a).known[p] = tDigests'[p]
                                         ELSE a.target = Scopes!Target("tenant", None)
    <3>1. p \in DOMAIN a.known
      BY DEF ScopesInv, ScopesTyped
    <3>2. p \in DOMAIN tDigests \ paths => tDigests[p] = tContent[p]
      BY <1>1, <1>5, <2>5, <3>1 DEF Scopes!Outdated
    <3>3. p \notin DOMAIN tDigests => a.target = Scopes!Target("tenant", None)
      BY DEF ScopesInv, ScopesTyped, KnownByDigest
    <3> QED
      BY <1>1, <1>3, <2>4, <3>2, <3>3
  <2>6. KnownByDigest'
    <3> SUFFICES ASSUME NEW x \in tAsks', NEW p \in Means(x)' \ tHidden'
                 PROVE  IF p \in DOMAIN tDigests' THEN x.known[p] = tDigests'[p]
                                                  ELSE x.target = Scopes!Target("tenant", None)
      BY DEF KnownByDigest
    <3>1. PICK a \in tAsks : x = again(a) /\ Means(x)' = Means(a)
      BY <2>2
    <3> QED
      BY <1>3, <2>5, <3>1
  <2>7. Scopes!TargetsKnown'
    <3>1. ASSUME NEW x \in tAsks', NEW p \in Means(x)'
          PROVE  x.known[p] = tContent'[p]
      <4>1. PICK a \in tAsks : x = again(a) /\ Means(x)' = Means(a)
        BY <2>2
      <4> QED
        BY <1>1, <2>4, <4>1
    <3> QED
      BY <3>1 DEF Scopes!TargetsKnown, Means
  <2> QED
    BY <2>3, <2>6, <2>7 DEF ScopesInv
<1> QED
  BY <1>4, <1>5

LEMMA ScopesStep ==
  ASSUME ScopesInv, [Scopes!Next]_targetVars
  PROVE  ScopesInv'
<1>1. ASSUME UNCHANGED <<tSubscriptions, tActual, tDigests, tAsks, tHidden>>,
             tChecked' => tChecked /\ UNCHANGED tContent
      PROVE  ScopesInv'
  <2>1. \A a \in tAsks : a.target \in Scopes!Targets /\ Means(a)' = Means(a)
    BY MeansAreActual DEF ScopesInv, ScopesTyped, Means
  <2>2. ScopesTyped'
    BY <1>1, <2>1 DEF ScopesInv, ScopesTyped
  <2>3. KnownByDigest'
    BY <1>1, <2>1 DEF ScopesInv, KnownByDigest
  <2>4. UNCHANGED tContent => \A a \in tAsks : Scopes!Replaced(a)' = Scopes!Replaced(a)
    BY <1>1 DEF Scopes!Replaced, Scopes!ActualPaths, Scopes!GetTenants,
                Scopes!SubscriptionPersonalPath
  <2>5. Scopes!TargetsKnown'
    BY <1>1, <2>1, <2>4 DEF ScopesInv, Scopes!TargetsKnown, Means
  <2> QED
    BY <2>2, <2>3, <2>5 DEF ScopesInv
<1>2. ASSUME NEW p, NEW new, Scopes!Edit(p, new)
      PROVE  ScopesInv'
  BY <1>1, <1>2 DEF Scopes!Edit
<1>3. CASE Scopes!Turn
  BY <1>1, <1>3 DEF Scopes!Turn
<1>4. CASE UNCHANGED targetVars
  BY <1>1, <1>4 DEF targetVars
<1>5. Scopes!Personal \subseteq Scopes!Targets
  BY DEF Scopes!Targets
<1> QED
  BY <1>2, <1>3, <1>4, <1>5, SubscribeKeeps, OnLibraryChangedKeeps DEF Scopes!Next
-----------------------------------------------------------------------------
(* The registry.                                                           *)

\* The content for which no tag is sent.
Small == \E v \in Few : rContent \subseteq {v}

RegTyped ==
  /\ rPublished \in [Mirrors -> Nat \ {0}]
  /\ rEtag \in Nat /\ rReady \in BOOLEAN /\ rTorn \in BOOLEAN
  /\ rPull \in [at: {"idle", "ask", "download", "ready", "tag", "done"},
                left: SUBSET Mirrors, from: SUBSET Mirrors, rounds: Nat, old: Nat,
                conditional: BOOLEAN, new: Nat]

\* What is on the disk.
OneArchive ==
  /\ ~rTorn => rContent = {} \/ \E v \in Nat : rContent = {v}
  /\ rEtag # 0 \/ rReady => rContent # {}
  /\ rKnown # {} => rReady

\* Before a pull has changed the content: a provider that is ready has a tag, and it is that of the
\* content if the tag is not sent.
BeforeSync ==
  /\ rPull.at \in {"idle", "ask", "download"} =>
       /\ rKnown \in {{}, rContent}
       /\ rReady => rEtag # 0 /\ (Small => rContent = {rEtag})
  /\ rPull.at \in {"ask", "download"} =>
       rPull.old = rEtag /\ (rPull.conditional <=> (rEtag # 0 /\ ~Small))
  /\ rPull.at = "download" => rPull.new # 0 /\ (rPull.conditional => rPull.new # rPull.old)

\* After it: whoever knows an earlier content will be told, for the tag is another.
AfterSync ==
  /\ rPull.at \in {"ready", "tag"} => rContent = {rPull.new} /\ rPull.new # 0
  /\ rPull.at \in {"tag", "done"} => rReady
  /\ rPull.at = "ready" => ~rReady
  /\ rPull.at \in {"ready", "tag", "done"} =>
       rKnown \in {{}, rContent} \/ rPull.new # rPull.old
  /\ rPull.at = "done" => rEtag # 0 /\ (Small => rContent = {rEtag})

RegInv == RegTyped /\ OneArchive /\ BeforeSync /\ AfterSync

LEMMA RegInit ==
  ASSUME Registry!Init
  PROVE  RegInv
<1>1. RegTyped
  <2>1. rPublished \in [Mirrors -> Nat \ {0}]
    BY DEF Registry!Init
  <2>2. rEtag = 0 /\ rReady = FALSE /\ rTorn = FALSE /\ rPull = Registry!Idle
    BY DEF Registry!Init
  <2>3. Registry!Idle \in [at: {"idle", "ask", "download", "ready", "tag", "done"},
                left: SUBSET Mirrors, from: SUBSET Mirrors, rounds: Nat, old: Nat,
                conditional: BOOLEAN, new: Nat]
    BY DEF Registry!Idle
  <2> QED
    BY <2>1, <2>2, <2>3 DEF RegTyped
<1>2. rPull.at = "idle" /\ rContent = {} /\ rEtag = 0 /\ rReady = FALSE /\ rKnown = {}
  BY DEF Registry!Init, Registry!Idle
<1> QED
  BY <1>1, <1>2 DEF RegInv, OneArchive, BeforeSync, AfterSync

LEMMA RegStep ==
  ASSUME RegInv, [Registry!Next]_regVars
  PROVE  RegInv'
<1> USE DEF RegInv
<1>1. ASSUME NEW m \in Mirrors, Registry!Publish(m)
      PROVE  RegInv'
  <2>1. rPublished' \in [Mirrors -> Nat \ {0}]
    BY <1>1 DEF RegTyped, Registry!Publish
  <2> QED
    BY <1>1, <2>1
       DEF Registry!Publish, RegTyped, OneArchive, BeforeSync, AfterSync, Small
<1>2. CASE Registry!Expire
  BY <1>2 DEF Registry!Expire, RegTyped, OneArchive, BeforeSync, AfterSync, Small
<1>3. CASE Registry!Crash
  <2>1. rPull'.at = "idle" /\ RegTyped'
    BY <1>3 DEF Registry!Crash, Registry!Idle, RegTyped
  <2>2. OneArchive'
    BY <1>3 DEF Registry!Crash, RegTyped, OneArchive
  <2> QED
    BY <1>3, <2>1, <2>2 DEF Registry!Crash, BeforeSync, AfterSync
<1>4. CASE Registry!Subscribe
  <2>1. rContent # {} /\ rKnown' = rContent
    BY <1>4 DEF Registry!Subscribe, OneArchive
  <2> QED
    BY <1>4, <2>1
       DEF Registry!Subscribe, RegTyped, OneArchive, BeforeSync, AfterSync, Small
<1>5. CASE Registry!Begin
  <2>1. /\ RegTyped'
        /\ rPull'.at = "ask" /\ rPull'.old = rEtag
        /\ rPull'.conditional <=> (rEtag # 0 /\ ~Small)
    BY <1>5 DEF Registry!Begin, Registry!Idle, Registry!Rounds, RegTyped, Small
  <2> QED
    BY <1>5, <2>1 DEF Registry!Begin, Registry!Idle, OneArchive, BeforeSync, AfterSync, Small
<1>6. ASSUME NEW m \in Mirrors, Registry!AskFails(m)
      PROVE  RegInv'
  <2>1. /\ RegTyped'
        /\ rPull'.at \in {"idle", "ask"}
        /\ rPull'.at = "ask" =>
             rPull'.old = rPull.old /\ rPull'.conditional = rPull.conditional
    <3> DEFINE left == rPull.left \ {m}
    <3>1. rPull' = Registry!NextUrl(m) /\ UNCHANGED <<rPublished, rEtag, rReady, rTorn>>
      BY <1>6 DEF Registry!AskFails
    <3>2. CASE left # {}
      <4>1. rPull' = [rPull EXCEPT !.at = "ask", !.from = {}, !.left = left]
        BY <3>1, <3>2 DEF Registry!NextUrl
      <4>2. left \in SUBSET Mirrors /\ {} \in SUBSET Mirrors
        BY DEF RegTyped
      <4> HIDE DEF left
      <4>3. /\ rPull' \in [at: {"idle", "ask", "download", "ready", "tag", "done"},
                            left: SUBSET Mirrors, from: SUBSET Mirrors, rounds: Nat, old: Nat,
                            conditional: BOOLEAN, new: Nat]
            /\ rPull'.at = "ask" /\ rPull'.old = rPull.old
            /\ rPull'.conditional = rPull.conditional
        BY <4>1, <4>2 DEF RegTyped
      <4> QED
        BY <3>1, <4>3 DEF RegTyped
    <3>3. CASE left = {} /\ rPull.rounds > 1
      <4>1. rPull' = [rPull EXCEPT !.at = "ask", !.from = {}, !.left = Mirrors,
                                   !.rounds = rPull.rounds - 1]
        BY <3>1, <3>3 DEF Registry!NextUrl
      <4>2. rPull.rounds - 1 \in Nat
        BY <3>3 DEF RegTyped
      <4> QED
        BY <3>1, <4>1, <4>2 DEF RegTyped
    <3>4. CASE left = {} /\ ~(rPull.rounds > 1)
      <4>1. rPull' = Registry!Idle
        BY <3>1, <3>4 DEF Registry!NextUrl
      <4>2. RegTyped'
        BY <3>1, <4>1 DEF RegTyped, Registry!Idle
      <4> QED
        BY <4>1, <4>2 DEF Registry!Idle
    <3> QED
      BY <3>2, <3>3, <3>4
  <2>2. rPull.at \in {"ask", "download"}
    BY <1>6 DEF Registry!AskFails
  <2> QED
    BY <1>6, <2>1, <2>2 DEF Registry!AskFails, OneArchive, BeforeSync, AfterSync, Small
<1>7. ASSUME NEW m \in Mirrors, Registry!Ask(m)
      PROVE  RegInv'
  <2>1. /\ RegTyped'
        /\ rPull'.at = "download" /\ rPull'.new = rPublished[m]
        /\ rPull'.old = rPull.old /\ rPull'.conditional = rPull.conditional
        /\ rPublished[m] # 0
    BY <1>7 DEF Registry!Ask, RegTyped
  <2> QED
    BY <1>7, <2>1 DEF Registry!Ask, OneArchive, BeforeSync, AfterSync, Small
<1>8. ASSUME NEW m \in Mirrors, Registry!NotModified(m)
      PROVE  RegInv'
  <2>1. /\ RegTyped' /\ rPull'.at = "done" /\ rPull'.new = rPull'.old
    BY <1>8 DEF Registry!NotModified, RegTyped
  <2> QED
    BY <1>8, <2>1 DEF Registry!NotModified, OneArchive, BeforeSync, AfterSync, Small
<1>9. CASE Registry!Synchronize
  <2>1. /\ RegTyped' /\ rPull'.at = IF rReady THEN "tag" ELSE "ready"
        /\ rPull'.new = rPull.new /\ rPull'.old = rPull.old
        /\ rContent' = {rPull.new} /\ rPull.new \in Nat
    BY <1>9 DEF Registry!Synchronize, RegTyped
  <2>2. rKnown # {} /\ rPull.new = rPull.old => rContent = {rPull.new} /\ rKnown = rContent
    BY <1>9 DEF Registry!Synchronize, RegTyped, OneArchive, BeforeSync
  <2>3. OneArchive'
    BY <1>9, <2>1 DEF Registry!Synchronize, OneArchive
  <2>4. AfterSync'
    BY <1>9, <2>1, <2>2 DEF Registry!Synchronize, RegTyped, BeforeSync, AfterSync
  <2> QED
    BY <2>1, <2>3, <2>4 DEF BeforeSync
<1>10. CASE Registry!SetReady
  <2>1. RegTyped' /\ rPull'.at = "tag" /\ rPull'.new = rPull.new /\ rPull'.old = rPull.old
    BY <1>10 DEF Registry!SetReady, RegTyped
  <2> QED
    BY <1>10, <2>1 DEF Registry!SetReady, OneArchive, BeforeSync, AfterSync
<1>11. CASE Registry!StoreTag
  <2>1. RegTyped' /\ rPull'.at = "done" /\ rPull'.new = rPull.new /\ rPull'.old = rPull.old
    BY <1>11 DEF Registry!StoreTag, RegTyped
  <2> QED
    BY <1>11, <2>1 DEF Registry!StoreTag, OneArchive, BeforeSync, AfterSync, Small
<1>12. CASE Registry!Done
  <2>1. RegTyped' /\ rPull'.at = "idle"
    BY <1>12 DEF Registry!Done, Registry!Idle, RegTyped
  <2>2. rKnown' \in {{}, rContent} /\ (rKnown' # {} => rKnown # {})
    BY <1>12 DEF Registry!Done, AfterSync
  <2> QED
    BY <1>12, <2>1, <2>2 DEF Registry!Done, OneArchive, BeforeSync, AfterSync, Small
<1>13. CASE UNCHANGED regVars
  BY <1>13 DEF regVars, RegTyped, OneArchive, BeforeSync, AfterSync, Small
<1> QED
  BY <1>1, <1>2, <1>3, <1>4, <1>5, <1>6, <1>7, <1>8, <1>9, <1>10, <1>11, <1>12, <1>13
     DEF Registry!Next, Registry!PullStep

LEMMA RegImplies ==
  ASSUME RegInv
  PROVE  Registry!SubscriberKnows
<1>1. rPull = Registry!Idle => rPull.at = "idle"
  BY DEF Registry!Idle
<1>2. rTorn \/ rContent = {} \/ \E v \in Nat : rContent = {v}
  BY DEF RegInv, OneArchive
<1>3. rPull = Registry!Idle /\ rReady => rTorn \/ \E v \in rContent : rContent = {v}
  BY <1>2 DEF RegInv, OneArchive
<1>4. rPull = Registry!Idle => rKnown \in {{}, rContent}
  BY <1>1 DEF RegInv, BeforeSync
<1> QED
  BY <1>3, <1>4 DEF Registry!SubscriberKnows
-----------------------------------------------------------------------------
(* The repository of Git.                                                  *)

\* The steps of a pull in which an initialization moves HEAD and the tree unseen.
Unseen == {"fetch", "diff", "move", "reset"}
GitStates == {"idle", "begin", "clone", "fetch", "diff", "move", "reset", "done"}
Pull == gWorker["pull"]
At(w) == gWorker[w].at

GitTyped ==
  /\ gCommits \in Seq(Paths) /\ Len(gCommits) # 0
  /\ gHead \in 0..Len(gCommits) /\ gTree \in 0..Len(gCommits)
  /\ gKnown \in [Paths -> 0..Len(gCommits)]
  /\ gWorker \in [Git!Workers -> [at: GitStates, new: 0..Len(gCommits), publish: SUBSET Paths]]
  /\ gTorn \in BOOLEAN /\ gReady \in BOOLEAN

\* What each worker has when it is where it is.
WorkersAreAt ==
  /\ At("pull") \notin {"begin", "clone"}
  /\ At("pull") \in {"idle", "fetch", "diff"} => Pull.publish = {}
  /\ \A w \in Git!Workers : At(w) \in {"diff", "move", "reset"} => gWorker[w].new # 0
  /\ \A p \in Pull.publish : gKnown[p] # 0

\* Who is subscribed has a tree, which is never removed; and unless the tree was torn from HEAD
\* it is that of HEAD, but while a worker resets it.
TreeStays ==
  /\ gReady \/ (\E p \in Paths : gKnown[p] # 0) => gTree # 0
  /\ gTree # 0 => gDisk = "repo"
  /\ ~gTorn /\ gHead # gTree => \E w \in Git!Workers : At(w) = "reset"

\* Whoever meets the pull of an initialization is among the untold.
MetAreUntold ==
  (\E w \in Inits : At(w) \in Unseen) => \A p \in Paths : gKnown[p] # 0 => p \in gUntold

\* Whoever else misses a change is about to be told of it by the periodic pull.
MissedArePublished ==
  ~gTorn => \A p \in Paths \ gUntold : gKnown[p] # 0 =>
    /\ p \in Git!Diff(gKnown[p], gTree) => At("pull") = "done" /\ p \in Pull.publish
    /\ At("pull") \in {"move", "reset"} /\ p \in Git!Diff(gTree, Pull.new) => p \in Pull.publish

GitInv == GitTyped /\ WorkersAreAt /\ TreeStays /\ MetAreUntold /\ MissedArePublished

\* Nothing differs from itself, and what differs between two commits does so before or after a third.
LEMMA DiffSelf == ASSUME NEW a \in Nat PROVE Git!Diff(a, a) = {}
  BY DEF Git!Diff

LEMMA DiffBetween ==
  ASSUME NEW a \in Nat, NEW b \in Nat, NEW c \in Nat
  PROVE  Git!Diff(a, c) \subseteq Git!Diff(a, b) \cup Git!Diff(b, c)
  BY DEF Git!Diff

LEMMA GitInit ==
  ASSUME Git!Init
  PROVE  GitInv
<1>1. PICK p \in Paths : gCommits = <<p>>
  BY DEF Git!Init
<1>2. gCommits \in Seq(Paths) /\ Len(gCommits) = 1
  BY <1>1
<1>3. /\ gHead \in 0..1 /\ gTree = gHead /\ (gTree # 0 => gDisk = "repo")
      /\ gKnown = [q \in Paths |-> 0]
      /\ gTorn = FALSE /\ gReady = FALSE
  BY DEF Git!Init
<1>4. PICK init \in Inits :
        gWorker = [w \in Git!Workers |-> IF w = init THEN [Git!Idle EXCEPT !.at = "begin"]
                                                     ELSE Git!Idle]
  BY DEF Git!Init
<1>5. /\ gWorker \in [Git!Workers -> [at: GitStates, new: 0..1, publish: SUBSET Paths]]
      /\ Pull = Git!Idle
      /\ \A w \in Git!Workers : At(w) \in {"idle", "begin"}
  BY <1>4, InitsAssumption DEF Git!Idle, Git!Workers, GitStates, Pull, At
<1> QED
  <2>1. GitTyped
    <3>1. /\ gHead \in 0..Len(gCommits) /\ gTree \in 0..Len(gCommits)
          /\ gKnown \in [Paths -> 0..Len(gCommits)]
      BY <1>2, <1>3
    <3>2. gWorker \in [Git!Workers -> [at: GitStates, new: 0..Len(gCommits), publish: SUBSET Paths]]
      BY <1>2, <1>5
    <3>3. gTorn \in BOOLEAN /\ gReady \in BOOLEAN
      BY <1>3
    <3> QED
      BY <1>2, <3>1, <3>2, <3>3 DEF GitTyped
  <2>2. WorkersAreAt
    BY <1>5 DEF WorkersAreAt, Git!Idle, Pull, At
  <2>3. TreeStays
    BY <1>3 DEF TreeStays
  <2>4. MetAreUntold /\ MissedArePublished
    BY <1>3 DEF MetAreUntold, MissedArePublished
  <2> QED
    BY <2>1, <2>2, <2>3, <2>4 DEF GitInv

\* A step that leaves the tree, what is known and the untold alone, and moves a worker that is not
\* the periodic pull to where it does not meet anybody.
LEMMA WorkerMoves ==
  ASSUME GitInv, NEW w \in Inits, NEW x \in [at: GitStates \ Unseen, new: 0..Len(gCommits), publish: SUBSET Paths],
         gWorker' = [gWorker EXCEPT ![w] = x], At(w) # "reset",
         gDisk' = gDisk \/ gTree = 0, gHead' = gHead \/ (gTree = 0 /\ gHead' = 0),
         gReady' \in BOOLEAN, gReady' => gReady \/ gTree # 0,
         UNCHANGED <<gCommits, gTree, gKnown, gTorn, gUntold>>
  PROVE  GitInv'
<1>1. w # "pull" /\ w \in Git!Workers
  BY InitsAssumption DEF Git!Workers
<1>2. GitTyped'
  BY <1>1 DEF GitInv, GitTyped, GitStates
<1>3. /\ Pull' = Pull
      /\ \A v \in Git!Workers \ {w} : gWorker'[v] = gWorker[v]
      /\ gWorker'[w] = x
  BY <1>1 DEF GitInv, GitTyped, Pull, Git!Workers
<1>4. WorkersAreAt'
  BY <1>1, <1>3 DEF GitInv, WorkersAreAt, Pull, At, Unseen
<1>5. TreeStays'
  BY <1>1, <1>3 DEF GitInv, TreeStays, At
<1>6. MetAreUntold'
  BY <1>1, <1>3 DEF GitInv, MetAreUntold, At, Git!Workers
<1>7. MissedArePublished'
  BY <1>1, <1>3 DEF GitInv, MissedArePublished, Pull, At, Git!Diff
<1> QED
  BY <1>2, <1>4, <1>5, <1>6, <1>7 DEF GitInv
\* A step of an initialization that meets everybody who is subscribed.
LEMMA UnseenMoves ==
  ASSUME GitInv, NEW w \in Inits,
         NEW x \in [at: GitStates, new: 0..Len(gCommits), publish: SUBSET Paths],
         x.at \in {"diff", "move", "reset"} => x.new # 0,
         gWorker' = [gWorker EXCEPT ![w] = x],
         \A p \in Paths : gKnown[p] # 0 => p \in gUntold',
         gHead' \in 0..Len(gCommits), gTree' \in 0..Len(gCommits), gTorn' \in BOOLEAN,
         TreeStays', UNCHANGED <<gCommits, gKnown, gReady>>
  PROVE  GitInv'
<1>1. w # "pull" /\ w \in Git!Workers
  BY InitsAssumption DEF Git!Workers
<1>2. GitTyped'
  BY <1>1 DEF GitInv, GitTyped
<1>3. /\ Pull' = Pull
      /\ \A v \in Git!Workers \ {w} : gWorker'[v] = gWorker[v]
      /\ gWorker'[w] = x
  BY <1>1 DEF GitInv, GitTyped, Pull, Git!Workers
<1>4. WorkersAreAt'
  BY <1>1, <1>3 DEF GitInv, WorkersAreAt, Pull, At
<1>5. MetAreUntold' /\ MissedArePublished'
  BY DEF MetAreUntold, MissedArePublished
<1> QED
  BY <1>2, <1>4, <1>5 DEF GitInv

\* Who is subscribed and not among the untold has met no initialization.
LEMMA NobodyMet ==
  ASSUME GitInv, NEW p \in Paths \ gUntold, gKnown[p] # 0, NEW w \in Inits
  PROVE  At(w) \notin Unseen
  BY DEF GitInv, MetAreUntold

LEMMA InitSteps ==
  ASSUME GitInv, NEW w \in Inits, Git!Thread(w)
  PROVE  GitInv'
<1>1. w # "pull" /\ w \in Git!Workers /\ gWorker[w] \in [at: GitStates, new: 0..Len(gCommits), publish: SUBSET Paths]
  BY InitsAssumption DEF GitInv, GitTyped, Git!Workers
<1>2. At(w) \in Unseen => \A p \in Paths : gKnown[p] # 0 => p \in gUntold
  BY DEF GitInv, MetAreUntold
<1>3. gTree = 0 => ~gReady /\ \A p \in Paths : gKnown[p] = 0
  <2>1. gReady \/ (\E p \in Paths : gKnown[p] # 0) => gTree # 0
    BY DEF GitInv, TreeStays
  <2> QED
    BY <2>1
<1>14. ASSUME At(w) \in {"fetch", "diff"}, At(w)' # "reset",
              \A v \in Git!Workers \ {w} : At(v)' = At(v),
              UNCHANGED <<gCommits, gKnown, gReady, gTorn, gHead, gTree, gDisk, gUntold>>
       PROVE  TreeStays' /\ \A p \in Paths : gKnown[p] # 0 => p \in gUntold'
  <2>1. \A v \in Git!Workers : At(v) = "reset" => At(v)' = "reset"
    BY <1>14
  <2> QED
    BY <1>2, <1>14, <2>1 DEF GitInv, TreeStays, Unseen
<1>4. CASE Git!CloneFails(w)
  <2> DEFINE x == Git!Idle
  <2>1. x \in [at: GitStates \ Unseen, new: 0..Len(gCommits), publish: SUBSET Paths]
    BY DEF Git!Idle, GitStates, Unseen, GitInv, GitTyped
  <2>2. gDisk' = gDisk \/ gTree = 0
    BY <1>4 DEF Git!CloneFails, GitInv, TreeStays
  <2> HIDE DEF x
  <2> QED
    BY <1>4, <2>1, <2>2, WorkerMoves DEF Git!CloneFails, x, At, GitInv, GitTyped
<1>5. CASE Git!InitDone(w) /\ gTree # 0
  <2> DEFINE x == Git!Idle
  <2>1. x \in [at: GitStates \ Unseen, new: 0..Len(gCommits), publish: SUBSET Paths]
    BY DEF Git!Idle, GitStates, Unseen, GitInv, GitTyped
  <2> HIDE DEF x
  <2> QED
    BY <1>5, <2>1, WorkerMoves DEF Git!InitDone, x, At
<1>6. CASE Git!InitDone(w) /\ gTree = 0
  <2> DEFINE x == Git!Idle
  <2>1. x \in [at: GitStates, new: 0..Len(gCommits), publish: SUBSET Paths] /\ x.at = "idle"
    BY DEF Git!Idle, GitStates, GitInv, GitTyped
  <2>2. gWorker' = [gWorker EXCEPT ![w] = x] /\ gHead' = 0
        /\ UNCHANGED <<gCommits, gKnown, gReady, gTree, gTorn, gUntold>>
    BY <1>6 DEF Git!InitDone
  <2>3. TreeStays'
    BY <1>3, <1>6, <2>2 DEF TreeStays
  <2>4. gHead' \in 0..Len(gCommits) /\ gTree' \in 0..Len(gCommits) /\ gTorn' \in BOOLEAN
    BY <2>2 DEF GitInv, GitTyped
  <2> HIDE DEF x
  <2> QED
    BY <1>3, <1>6, <2>1, <2>2, <2>3, <2>4, UnseenMoves
<1>7. CASE Git!CloneDone(w)
  <2> DEFINE x == [gWorker[w] EXCEPT !.at = "done"]
  <2>1. x \in [at: GitStates, new: 0..Len(gCommits), publish: SUBSET Paths] /\ x.at = "done"
    BY <1>1 DEF GitStates
  <2>2. /\ gWorker' = [gWorker EXCEPT ![w] = x]
        /\ gDisk = "cloning" /\ gDisk' = "repo" /\ gHead' = Len(gCommits) /\ gTree' = Len(gCommits)
        /\ UNCHANGED <<gCommits, gKnown, gReady, gTorn, gUntold>>
    BY <1>7, <1>1 DEF Git!CloneDone, Git!Go, Git!Remote, GitInv, GitTyped
  <2>3. gTree = 0
    BY <2>2 DEF GitInv, TreeStays
  <2>4. gHead' \in 0..Len(gCommits) /\ gTree' \in 0..Len(gCommits) /\ gTorn' \in BOOLEAN /\ gTree' # 0
    BY <2>2 DEF GitInv, GitTyped
  <2>5. TreeStays'
    BY <2>2, <2>4 DEF TreeStays
  <2> HIDE DEF x
  <2> QED
    BY <1>3, <2>1, <2>2, <2>3, <2>4, <2>5, UnseenMoves
<1>8. CASE Git!InitBegin(w)
  <2> DEFINE x == [gWorker[w] EXCEPT !.at = IF gDisk = "none" THEN "clone" ELSE "fetch"]
  <2>1. x \in [at: GitStates, new: 0..Len(gCommits), publish: SUBSET Paths] /\ x.at \in {"clone", "fetch"}
    BY <1>1 DEF GitStates
  <2>2. /\ gWorker' = [gWorker EXCEPT ![w] = x] /\ At(w) = "begin"
        /\ UNCHANGED <<gCommits, gKnown, gReady, gTorn, gHead, gTree>>
    BY <1>8, <1>1 DEF Git!InitBegin, Git!Go, At
  <2>3. gDisk' = gDisk \/ gTree = 0
    BY <1>8 DEF Git!InitBegin, GitInv, TreeStays
  <2>4. gHead' \in 0..Len(gCommits) /\ gTree' \in 0..Len(gCommits) /\ gTorn' \in BOOLEAN
    BY <2>2 DEF GitInv, GitTyped
  <2>5. \A p \in Paths : gKnown[p] # 0 => p \in gUntold'
    <3>1. gDisk = "none" => gTree = 0
      BY DEF GitInv, TreeStays
    <3>2. gDisk # "none" => gUntold' = gUntold \cup {p \in Paths : gKnown[p] > 0}
      BY <1>8 DEF Git!InitBegin
    <3>3. \A p \in Paths : gKnown[p] \in Nat
      BY DEF GitInv, GitTyped
    <3> QED
      BY <1>3, <3>1, <3>2, <3>3
  <2>6. \A v \in Git!Workers : At(v) = "reset" => At(v)' = "reset"
    BY <1>1, <2>2 DEF At, GitInv, GitTyped
  <2>7. TreeStays'
    BY <2>2, <2>3, <2>6 DEF GitInv, TreeStays
  <2> HIDE DEF x
  <2> QED
    BY <2>1, <2>2, <2>4, <2>5, <2>7, UnseenMoves
<1>9. CASE Git!Fetch(w)
  <2> DEFINE x == [gWorker[w] EXCEPT !.new = Len(gCommits),
                                     !.at = IF gHead = Len(gCommits) THEN "done" ELSE "diff"]
  <2>1. /\ x \in [at: GitStates, new: 0..Len(gCommits), publish: SUBSET Paths]
        /\ x.new = Len(gCommits) /\ Len(gCommits) # 0
    <3>1. Len(gCommits) \in 0..Len(gCommits) /\ Len(gCommits) # 0
      BY DEF GitInv, GitTyped
    <3> QED
      BY <1>1, <3>1 DEF GitStates
  <2>2. gWorker' = [gWorker EXCEPT ![w] = x] /\ At(w) = "fetch"
        /\ UNCHANGED <<gCommits, gKnown, gReady, gTorn, gHead, gTree, gDisk, gUntold>>
    BY <1>9, <1>1 DEF Git!Fetch, Git!Remote, At, GitInv, GitTyped
  <2>3. x.at # "reset"
    BY <1>1
  <2> HIDE DEF x
  <2> QED
    <3>1. \A v \in Git!Workers \ {w} : At(v)' = At(v)
      BY <1>1, <2>2 DEF At, GitInv, GitTyped
    <3>2. At(w)' # "reset"
      BY <1>1, <2>2, <2>3 DEF At, GitInv, GitTyped
    <3>3. TreeStays' /\ \A p \in Paths : gKnown[p] # 0 => p \in gUntold'
      BY <1>14, <2>2, <3>1, <3>2
    <3> QED
      BY <2>1, <2>2, <3>3, UnseenMoves DEF GitInv, GitTyped
<1>10. CASE Git!PullFails(w)
  <2> DEFINE x == [Git!Idle EXCEPT !.at = "done"]
  <2>1. x \in [at: GitStates, new: 0..Len(gCommits), publish: SUBSET Paths] /\ x.at = "done"
    BY DEF GitStates, Git!Idle, GitInv, GitTyped
  <2>2. /\ gWorker' = [gWorker EXCEPT ![w] = x] /\ At(w) \in Unseen
        /\ gTorn' = (gTorn \/ (At(w) = "reset" /\ gHead # gTree))
        /\ UNCHANGED <<gCommits, gKnown, gReady, gHead, gTree, gDisk, gUntold>>
    BY <1>10, <1>1 DEF Git!PullFails, At, Unseen
  <2>3. \A v \in Git!Workers : At(v) = "reset" => At(v)' = "reset" \/ v = w
    BY <1>1, <2>2 DEF At, GitInv, GitTyped
  <2>4. TreeStays'
    BY <2>2, <2>3 DEF GitInv, TreeStays
  <2> HIDE DEF x
  <2> QED
    BY <1>2, <2>1, <2>2, <2>4, UnseenMoves DEF GitInv, GitTyped
<1>11. CASE Git!MakeDiff(w)
  <2> DEFINE x == [gWorker[w] EXCEPT !.at = "move",
                     !.publish = {p \in Git!Diff(gHead, gWorker[w].new) : gKnown[p] > 0}]
  <2>1. /\ x \in [at: GitStates, new: 0..Len(gCommits), publish: SUBSET Paths]
        /\ x.new = gWorker[w].new
    <3>1. Git!Diff(gHead, gWorker[w].new) \subseteq Paths
      BY <1>1 DEF Git!Diff, GitInv, GitTyped
    <3>2. {p \in Git!Diff(gHead, gWorker[w].new) : gKnown[p] > 0} \in SUBSET Paths
      BY <3>1
    <3> QED
      BY <1>1, <3>2 DEF GitStates
  <2>2. gWorker' = [gWorker EXCEPT ![w] = x] /\ At(w) = "diff" /\ x.new # 0
        /\ UNCHANGED <<gCommits, gKnown, gReady, gTorn, gHead, gTree, gDisk, gUntold>>
    BY <1>11, <1>1, <2>1 DEF Git!MakeDiff, At, GitInv, WorkersAreAt
  <2>3. x.at # "reset"
    BY <1>1
  <2> HIDE DEF x
  <2> QED
    <3>1. \A v \in Git!Workers \ {w} : At(v)' = At(v)
      BY <1>1, <2>2 DEF At, GitInv, GitTyped
    <3>2. At(w)' # "reset"
      BY <1>1, <2>2, <2>3 DEF At, GitInv, GitTyped
    <3>3. TreeStays' /\ \A p \in Paths : gKnown[p] # 0 => p \in gUntold'
      BY <1>14, <2>2, <3>1, <3>2
    <3> QED
      BY <2>1, <2>2, <3>3, UnseenMoves DEF GitInv, GitTyped
<1>12. CASE Git!SetTarget(w)
  <2> DEFINE x == [gWorker[w] EXCEPT !.at = "reset"]
  <2>1. /\ x \in [at: GitStates, new: 0..Len(gCommits), publish: SUBSET Paths]
        /\ x.at = "reset" /\ x.new = gWorker[w].new
    BY <1>1 DEF GitStates
  <2>2. gWorker' = [gWorker EXCEPT ![w] = x] /\ At(w) = "move" /\ x.new # 0
        /\ gHead' = gWorker[w].new
        /\ UNCHANGED <<gCommits, gKnown, gReady, gTorn, gTree, gDisk, gUntold>>
    BY <1>12, <1>1, <2>1 DEF Git!SetTarget, Git!Go, At, GitInv, WorkersAreAt
  <2>3. gHead' \in 0..Len(gCommits)
    BY <1>1, <2>2
  <2>4. At(w)' = "reset"
    BY <1>1, <2>1, <2>2 DEF At, GitInv, GitTyped
  <2>5. TreeStays'
    BY <1>1, <2>2, <2>4 DEF GitInv, TreeStays
  <2> HIDE DEF x
  <2> QED
    BY <1>2, <2>1, <2>2, <2>3, <2>5, UnseenMoves DEF Unseen, GitInv, GitTyped
<1>13. CASE Git!Reset(w)
  <2> DEFINE x == [gWorker[w] EXCEPT !.at = "done"]
  <2>1. /\ x \in [at: GitStates, new: 0..Len(gCommits), publish: SUBSET Paths]
        /\ x.at = "done" /\ x.new = gWorker[w].new
    BY <1>1 DEF GitStates
  <2>2. gWorker' = [gWorker EXCEPT ![w] = x] /\ At(w) = "reset" /\ x.new # 0 /\ gDisk = "repo"
        /\ gHead' = gWorker[w].new /\ gTree' = gWorker[w].new
        /\ UNCHANGED <<gCommits, gKnown, gReady, gTorn, gDisk, gUntold>>
    BY <1>13, <1>1, <2>1 DEF Git!Reset, Git!Go, At, GitInv, WorkersAreAt
  <2>3. gHead' \in 0..Len(gCommits) /\ gTree' \in 0..Len(gCommits)
    BY <1>1, <2>2
  <2>4. TreeStays'
    BY <2>1, <2>2 DEF TreeStays
  <2> HIDE DEF x
  <2> QED
    BY <1>2, <2>1, <2>2, <2>3, <2>4, UnseenMoves DEF Unseen, GitInv, GitTyped
<1> QED
  BY <1>4, <1>5, <1>6, <1>7, <1>8, <1>9, <1>10, <1>11, <1>12, <1>13 DEF Git!Thread
\* A step of the periodic pull that leaves the tree where it is.
LEMMA PullMoves ==
  ASSUME GitInv, NEW x \in [at: GitStates \ {"begin", "clone"}, new: 0..Len(gCommits), publish: SUBSET Paths],
         gWorker' = [gWorker EXCEPT !["pull"] = x],
         x.at \in {"idle", "fetch", "diff"} => x.publish = {},
         x.at \in {"diff", "move", "reset"} => x.new # 0,
         \A p \in x.publish : gKnown[p] # 0,
         gHead' \in 0..Len(gCommits), gTorn' \in BOOLEAN, gTorn => gTorn',
         ~gTorn' /\ gHead' # gTree => \E w \in Git!Workers : At(w)' = "reset",
         At("pull") # "done",
         ~gTorn' => \A p \in Paths \ gUntold : gKnown[p] # 0 =>
           (x.at \in {"move", "reset"} /\ p \in Git!Diff(gTree, x.new) => p \in x.publish),
         UNCHANGED <<gCommits, gTree, gKnown, gReady, gDisk, gUntold>>
  PROVE  GitInv'
<1>1. "pull" \in Git!Workers /\ "pull" \notin Inits
  BY InitsAssumption DEF Git!Workers
<1>2. GitTyped'
  BY <1>1 DEF GitInv, GitTyped, GitStates
<1>3. /\ gWorker'["pull"] = x
      /\ \A v \in Git!Workers \ {"pull"} : gWorker'[v] = gWorker[v]
  BY <1>1 DEF GitInv, GitTyped
<1>4. WorkersAreAt'
  BY <1>1, <1>3 DEF GitInv, WorkersAreAt, Pull, At
<1>5. TreeStays'
  BY DEF GitInv, TreeStays
<1>6. MetAreUntold'
  BY <1>1, <1>3 DEF GitInv, MetAreUntold, At, Git!Workers
<1>7. MissedArePublished'
  <2> SUFFICES ASSUME ~gTorn', NEW p \in Paths \ gUntold, gKnown[p] # 0
               PROVE  /\ p \notin Git!Diff(gKnown[p], gTree)
                      /\ x.at \in {"move", "reset"} /\ p \in Git!Diff(gTree, x.new) => p \in x.publish
    BY <1>3 DEF MissedArePublished, Pull, At, Git!Diff
  <2> QED
    BY DEF GitInv, MissedArePublished
<1> QED
  BY <1>2, <1>4, <1>5, <1>6, <1>7 DEF GitInv

LEMMA PullSteps ==
  ASSUME GitInv, Git!Thread("pull")
  PROVE  GitInv'
<1>1. /\ "pull" \in Git!Workers
      /\ gWorker["pull"] \in [at: GitStates \ {"begin", "clone"}, new: 0..Len(gCommits), publish: SUBSET Paths]
  BY DEF GitInv, GitTyped, WorkersAreAt, At, Git!Workers
<1>2. At("pull") \notin {"begin", "clone"} /\ (At("pull") \in {"idle", "fetch", "diff"} => Pull.publish = {})
      /\ (At("pull") \in {"diff", "move", "reset"} => Pull.new # 0)
      /\ \A p \in Pull.publish : gKnown[p] # 0
  BY <1>1 DEF GitInv, WorkersAreAt, Pull
<1>3. /\ gHead \in 0..Len(gCommits) /\ gTree \in 0..Len(gCommits) /\ gTorn \in BOOLEAN
      /\ Len(gCommits) \in 0..Len(gCommits) /\ Len(gCommits) # 0
  BY DEF GitInv, GitTyped
<1>4. ~gTorn /\ gHead # gTree => \E w \in Git!Workers : At(w) = "reset"
  BY DEF GitInv, TreeStays
<1>5. CASE Git!Fetch("pull")
  <2> DEFINE x == [gWorker["pull"] EXCEPT !.new = Len(gCommits),
                                     !.at = IF gHead = Len(gCommits) THEN "done" ELSE "diff"]
  <2>1. /\ x \in [at: GitStates \ {"begin", "clone"}, new: 0..Len(gCommits), publish: SUBSET Paths]
        /\ x.new = Len(gCommits) /\ x.publish = Pull.publish /\ x.at \in {"diff", "done"}
    BY <1>1, <1>3 DEF GitStates, Pull
  <2>2. gWorker' = [gWorker EXCEPT !["pull"] = x] /\ At("pull") = "fetch"
        /\ UNCHANGED <<gCommits, gKnown, gReady, gTorn, gHead, gTree, gDisk, gUntold>>
    BY <1>5, <1>1 DEF Git!Fetch, Git!Remote, At
  <2>3. \A w \in Git!Workers : At(w) = "reset" => At(w)' = "reset"
    BY <1>1, <2>2 DEF At, GitInv, GitTyped
  <2> HIDE DEF x
  <2> QED
    BY <1>2, <1>3, <1>4, <2>1, <2>2, <2>3, PullMoves
<1>6. CASE Git!PullFails("pull")
  <2> DEFINE x == Git!Idle
  <2>1. /\ x \in [at: GitStates \ {"begin", "clone"}, new: 0..Len(gCommits), publish: SUBSET Paths]
        /\ x.publish = {} /\ x.at = "idle"
    BY <1>3 DEF GitStates, Git!Idle
  <2>2. /\ gWorker' = [gWorker EXCEPT !["pull"] = x] /\ At("pull") # "done"
        /\ gTorn' = (gTorn \/ (At("pull") = "reset" /\ gHead # gTree))
        /\ UNCHANGED <<gCommits, gKnown, gReady, gHead, gTree, gDisk, gUntold>>
    BY <1>6, <1>1 DEF Git!PullFails, At
  <2>3. \A w \in Git!Workers : At(w) = "reset" => At(w)' = "reset" \/ w = "pull"
    BY <1>1, <2>2 DEF At, GitInv, GitTyped
  <2>4. ~gTorn' /\ gHead' # gTree => \E w \in Git!Workers : At(w)' = "reset"
    BY <1>4, <2>2, <2>3
  <2>5. gTorn' \in BOOLEAN /\ (gTorn => gTorn')
    BY <1>3, <2>2
  <2> HIDE DEF x
  <2> QED
    BY <1>3, <2>1, <2>2, <2>4, <2>5, PullMoves
<1>7. CASE Git!MakeDiff("pull")
  <2> DEFINE d == {p \in Git!Diff(gHead, gWorker["pull"].new) : gKnown[p] > 0}
             x == [gWorker["pull"] EXCEPT !.at = "move", !.publish = d]
  <2>1. d \in SUBSET Paths /\ \A p \in d : gKnown[p] # 0
    <3>1. Git!Diff(gHead, gWorker["pull"].new) \subseteq Paths
      BY <1>1, <1>3 DEF Git!Diff, GitInv, GitTyped
    <3> QED
      BY <3>1 DEF GitInv, GitTyped
  <2> HIDE DEF d
  <2>2. /\ x \in [at: GitStates \ {"begin", "clone"}, new: 0..Len(gCommits), publish: SUBSET Paths]
        /\ x.new = gWorker["pull"].new /\ x.publish = d /\ x.at = "move"
    BY <1>1, <2>1 DEF GitStates
  <2>3. gWorker' = [gWorker EXCEPT !["pull"] = x] /\ At("pull") = "diff" /\ x.new # 0
        /\ UNCHANGED <<gCommits, gKnown, gReady, gTorn, gHead, gTree, gDisk, gUntold>>
    BY <1>7, <1>1, <1>2, <2>2 DEF Git!MakeDiff, At, d, Pull
  <2>4. \A w \in Git!Workers : At(w) = "reset" => At(w)' = "reset"
    BY <1>1, <2>3 DEF At, GitInv, GitTyped
  <2>5. ASSUME ~gTorn, NEW p \in Paths \ gUntold, gKnown[p] # 0
        PROVE  p \in Git!Diff(gTree, x.new) => p \in d
    <3>1. \A w \in Git!Workers : At(w) # "reset"
      BY <2>3, <2>5, NobodyMet DEF Git!Workers, Unseen
    <3>2. gHead = gTree
      BY <1>4, <2>5, <3>1
    <3>3. gKnown[p] > 0
      BY <2>5 DEF GitInv, GitTyped
    <3> QED
      BY <2>2, <3>2, <3>3 DEF d
  <2> HIDE DEF x
  <2> QED
    BY <1>3, <1>4, <2>1, <2>2, <2>3, <2>4, <2>5, PullMoves
<1>8. CASE Git!SetTarget("pull")
  <2> DEFINE x == [gWorker["pull"] EXCEPT !.at = "reset"]
  <2>1. /\ x \in [at: GitStates \ {"begin", "clone"}, new: 0..Len(gCommits), publish: SUBSET Paths]
        /\ x.at = "reset" /\ x.new = Pull.new /\ x.publish = Pull.publish
    BY <1>1 DEF GitStates, Pull
  <2>2. gWorker' = [gWorker EXCEPT !["pull"] = x] /\ At("pull") = "move"
        /\ gHead' = gWorker["pull"].new
        /\ UNCHANGED <<gCommits, gKnown, gReady, gTorn, gTree, gDisk, gUntold>>
    BY <1>8, <1>1 DEF Git!SetTarget, Git!Go, At
  <2>3. gHead' \in 0..Len(gCommits)
    BY <1>1, <2>2
  <2>4. At("pull")' = "reset"
    BY <1>1, <2>1, <2>2 DEF At, GitInv, GitTyped
  <2>5. ASSUME ~gTorn, NEW p \in Paths \ gUntold, gKnown[p] # 0
        PROVE  p \in Git!Diff(gTree, x.new) => p \in x.publish
    BY <2>1, <2>2, <2>5 DEF GitInv, MissedArePublished
  <2> HIDE DEF x
  <2> QED
    BY <1>1, <1>2, <1>3, <2>1, <2>2, <2>3, <2>4, <2>5, PullMoves
<1>9. CASE Git!Reset("pull")
  <2> DEFINE x == [gWorker["pull"] EXCEPT !.at = "done"]
             new == Pull.new
  <2>1. /\ x \in [at: GitStates, new: 0..Len(gCommits), publish: SUBSET Paths]
        /\ x.at = "done" /\ x.new = Pull.new /\ x.publish = Pull.publish
        /\ new \in 0..Len(gCommits)
    BY <1>1 DEF GitStates, Pull
  <2>2. /\ gWorker' = [gWorker EXCEPT !["pull"] = x] /\ At("pull") = "reset" /\ gDisk = "repo"
        /\ gHead' = new /\ gTree' = new /\ new # 0
        /\ UNCHANGED <<gCommits, gKnown, gReady, gTorn, gDisk, gUntold>>
    BY <1>9, <1>1, <1>2 DEF Git!Reset, Git!Go, At, Pull
  <2>3. gWorker'["pull"] = x /\ \A v \in Git!Workers \ {"pull"} : gWorker'[v] = gWorker[v]
    BY <1>1, <2>2 DEF GitInv, GitTyped
  <2>4. GitTyped'
    BY <2>1, <2>2 DEF GitInv, GitTyped
  <2>5. WorkersAreAt'
    BY <2>1, <2>2, <2>3 DEF GitInv, WorkersAreAt, Pull, At
  <2>6. TreeStays'
    BY <2>1, <2>2 DEF TreeStays
  <2>7. MetAreUntold'
    BY <2>2, <2>3, InitsAssumption DEF GitInv, MetAreUntold, At, Git!Workers
  <2>8. ASSUME ~gTorn, NEW p \in Paths \ gUntold, gKnown[p] # 0, p \in Git!Diff(gKnown[p], new)
        PROVE  p \in Pull.publish
    <3>1. gKnown[p] \in Nat /\ gTree \in Nat /\ new \in Nat
      BY <2>1 DEF GitInv, GitTyped
    <3>2. p \in Git!Diff(gKnown[p], gTree) \/ p \in Git!Diff(gTree, new)
      BY <2>8, <3>1, DiffBetween
    <3>3. p \notin Git!Diff(gKnown[p], gTree)
      BY <2>2, <2>8 DEF GitInv, MissedArePublished
    <3> QED
      BY <2>2, <2>8, <3>2, <3>3 DEF GitInv, MissedArePublished
  <2>9. \A p \in Paths : Git!Diff(gKnown[p], new) = Git!Diff(gKnown[p], gTree)'
    BY <2>2 DEF Git!Diff
  <2> HIDE DEF x
  <2>10. MissedArePublished'
    <3> SUFFICES ASSUME ~gTorn, NEW p \in Paths \ gUntold, gKnown[p] # 0
                 PROVE  (p \in Git!Diff(gKnown[p], gTree))' => p \in x.publish
      BY <2>1, <2>2, <2>3 DEF MissedArePublished, Pull, At
    <3> QED
      BY <2>1, <2>8, <2>9
  <2> QED
    BY <2>4, <2>5, <2>6, <2>7, <2>10 DEF GitInv
<1> QED
  BY <1>2, <1>5, <1>6, <1>7, <1>8, <1>9
     DEF Git!Thread, Git!InitBegin, Git!CloneDone, Git!CloneFails, Git!InitDone, At

\* New commits change nothing between those that there are.
LEMMA CommitKeeps ==
  ASSUME GitInv, NEW q \in Paths, Git!Commit(q)
  PROVE  GitInv'
<1>1. /\ gCommits' = Append(gCommits, q)
      /\ UNCHANGED <<gDisk, gHead, gTree, gOpened, gReady, gKnown, gRecent, gWorker, gTorn, gUntold>>
  BY DEF Git!Commit
<1>2. /\ gCommits \in Seq(Paths) /\ gCommits' \in Seq(Paths) /\ Len(gCommits') = Len(gCommits) + 1
      /\ \A n \in 1..Len(gCommits) : gCommits'[n] = gCommits[n]
  BY <1>1 DEF GitInv, GitTyped
<1>3. ASSUME NEW a \in 0..Len(gCommits), NEW b \in 0..Len(gCommits)
      PROVE  Git!Diff(a, b)' = Git!Diff(a, b)
  <2>1. \A n \in (a + 1..b) \cup (b + 1..a) : gCommits'[n] = gCommits[n]
    BY <1>2
  <2> QED
    BY <2>1 DEF Git!Diff
<1>4. GitTyped'
  <2>1. \A n : n \in 0..Len(gCommits) => n \in 0..Len(gCommits')
    BY <1>2
  <2>2. gKnown \in [Paths -> 0..Len(gCommits')]
    BY <2>1 DEF GitInv, GitTyped
  <2>3. gWorker \in [Git!Workers -> [at: GitStates, new: 0..Len(gCommits'), publish: SUBSET Paths]]
    BY <2>1 DEF GitInv, GitTyped
  <2>4. Len(gCommits') # 0
    BY <1>2
  <2> QED
    BY <1>1, <1>2, <2>1, <2>2, <2>3, <2>4 DEF GitInv, GitTyped
<1>5. WorkersAreAt' /\ TreeStays' /\ MetAreUntold'
  BY <1>1 DEF GitInv, WorkersAreAt, TreeStays, MetAreUntold, Pull, At
<1>6. MissedArePublished'
  <2> SUFFICES ASSUME ~gTorn, NEW p \in Paths \ gUntold, gKnown[p] # 0
               PROVE  /\ (p \in Git!Diff(gKnown[p], gTree))' => At("pull") = "done" /\ p \in Pull.publish
                      /\ At("pull") \in {"move", "reset"} /\ (p \in Git!Diff(gTree, Pull.new))'
                           => p \in Pull.publish
    BY <1>1 DEF MissedArePublished, Pull, At
  <2>1. gKnown[p] \in 0..Len(gCommits) /\ gTree \in 0..Len(gCommits) /\ Pull.new \in 0..Len(gCommits)
    BY DEF GitInv, GitTyped, Pull, Git!Workers
  <2>2. PICK k \in 0..Len(gCommits), t \in 0..Len(gCommits), n \in 0..Len(gCommits) :
          k = gKnown[p] /\ t = gTree /\ n = Pull.new
    BY <2>1
  <2>3. k = gKnown'[p] /\ t = gTree' /\ n = Pull'.new
    BY <1>1, <2>2 DEF Pull
  <2>4. Git!Diff(gKnown[p], gTree)' = Git!Diff(k, t)' /\ Git!Diff(gTree, Pull.new)' = Git!Diff(t, n)'
    BY <2>3 DEF Git!Diff
  <2>5. Git!Diff(gKnown[p], gTree)' = Git!Diff(k, t) /\ Git!Diff(gTree, Pull.new)' = Git!Diff(t, n)
    BY <1>3, <2>4
  <2> QED
    BY <2>2, <2>5 DEF GitInv, MissedArePublished
<1> QED
  BY <1>4, <1>5, <1>6 DEF GitInv

\* Who subscribes knows the tree; between the diff and the reset of a pull he is untold.
LEMMA GitSubscribeKeeps ==
  ASSUME GitInv, NEW q \in Paths, Git!Subscribe(q)
  PROVE  GitInv'
<1>1. /\ gKnown' = [gKnown EXCEPT ![q] = gTree] /\ gReady /\ gKnown[q] = 0
      /\ UNCHANGED <<gCommits, gDisk, gHead, gTree, gReady, gWorker, gTorn>>
      /\ gUntold \subseteq gUntold' /\ gUntold' \subseteq gUntold \cup {q}
  BY DEF Git!Subscribe
<1>2. (\E w \in Git!Workers : \/ At(w) \in {"move", "reset"}
                              \/ w # "pull" /\ At(w) \in {"fetch", "diff"}) => q \in gUntold'
  BY DEF Git!Subscribe, At
<1>3. gTree # 0
  BY <1>1 DEF GitInv, TreeStays
<1>4. /\ gKnown'[q] = gTree /\ \A p \in Paths \ {q} : gKnown'[p] = gKnown[p]
      /\ gKnown' \in [Paths -> 0..Len(gCommits)] /\ gTree \in Nat
  BY <1>1 DEF GitInv, GitTyped
<1>5. GitTyped'
  BY <1>1, <1>4 DEF GitInv, GitTyped
<1>6. WorkersAreAt'
  BY <1>1, <1>3, <1>4 DEF GitInv, GitTyped, Git!Workers, WorkersAreAt, Pull, At
<1>7. TreeStays'
  BY <1>1, <1>3 DEF GitInv, TreeStays, At
<1>8. MetAreUntold'
  BY <1>1, <1>2, <1>4, InitsAssumption DEF GitInv, MetAreUntold, At, Unseen, Git!Workers
<1>9. MissedArePublished'
  <2> SUFFICES ASSUME ~gTorn, NEW p \in Paths \ gUntold', gKnown'[p] # 0
               PROVE  /\ p \in Git!Diff(gKnown'[p], gTree) => At("pull") = "done" /\ p \in Pull.publish
                      /\ At("pull") \in {"move", "reset"} /\ p \in Git!Diff(gTree, Pull.new)
                           => p \in Pull.publish
    BY <1>1 DEF MissedArePublished, Pull, At, Git!Diff
  <2>1. CASE p = q
    <3>1. p \notin Git!Diff(gKnown'[p], gTree)
      BY <1>4, <2>1, DiffSelf
    <3>2. At("pull") \notin {"move", "reset"}
      BY <1>2, <2>1 DEF Git!Workers
    <3> QED
      BY <3>1, <3>2
  <2>2. CASE p # q
    BY <1>1, <1>4, <2>2 DEF GitInv, MissedArePublished
  <2> QED
    BY <2>1, <2>2
<1> QED
  BY <1>5, <1>6, <1>7, <1>8, <1>9 DEF GitInv

\* A crash forgets all subscriptions, and what it leaves on the disk is torn or not.
LEMMA GitCrashKeeps ==
  ASSUME GitInv, Git!Crash
  PROVE  GitInv'
<1>1. PICK init \in Inits : Git!Started(init)
  BY DEF Git!Crash
<1>2. /\ gTorn' = (gTorn \/ gHead # gTree)
      /\ UNCHANGED <<gCommits, gDisk, gHead, gTree>>
  BY DEF Git!Crash
<1>3. /\ gReady' = FALSE /\ gKnown' = [p \in Paths |-> 0] /\ gUntold' = {}
      /\ gWorker' = [w \in Git!Workers |-> IF w = init THEN [Git!Idle EXCEPT !.at = "begin"]
                                                       ELSE Git!Idle]
  BY <1>1 DEF Git!Started
<1>4. /\ gWorker' \in [Git!Workers -> [at: GitStates, new: 0..Len(gCommits), publish: SUBSET Paths]]
      /\ Pull' = Git!Idle
      /\ \A w \in Git!Workers : At(w)' \in {"idle", "begin"}
  <2> DEFINE S == [at: GitStates, new: 0..Len(gCommits), publish: SUBSET Paths]
  <2>1. Git!Idle \in S /\ [Git!Idle EXCEPT !.at = "begin"] \in S
    BY DEF Git!Idle, GitStates, GitInv, GitTyped
  <2>2. Git!Idle.at = "idle" /\ [Git!Idle EXCEPT !.at = "begin"].at = "begin"
    BY DEF Git!Idle
  <2> HIDE DEF S
  <2>3. gWorker' \in [Git!Workers -> S]
    BY <1>3, <2>1
  <2>4. Pull' = Git!Idle
    BY <1>3, InitsAssumption DEF Pull, Git!Workers
  <2>5. \A w \in Git!Workers : At(w)' \in {"idle", "begin"}
    BY <1>3, <2>2 DEF At
  <2> QED
    BY <2>3, <2>4, <2>5 DEF S
<1>5. GitTyped'
  <2>1. gKnown' \in [Paths -> 0..Len(gCommits)]
    BY <1>3 DEF GitInv, GitTyped
  <2>2. gTorn' \in BOOLEAN
    BY <1>2
  <2> QED
    BY <1>2, <1>3, <1>4, <2>1, <2>2 DEF GitInv, GitTyped
<1>6. WorkersAreAt'
  BY <1>4 DEF WorkersAreAt, Git!Idle, Pull, At
<1>7. TreeStays'
  BY <1>2, <1>3 DEF GitInv, TreeStays
<1>8. MetAreUntold' /\ MissedArePublished'
  BY <1>3 DEF MetAreUntold, MissedArePublished
<1> QED
  BY <1>5, <1>6, <1>7, <1>8 DEF GitInv

\* The tick that starts a pull finds none under way.
LEMMA TickKeeps ==
  ASSUME GitInv, Git!Tick
  PROVE  GitInv'
<1>1. /\ At("pull") = "idle"
      /\ UNCHANGED <<gCommits, gDisk, gHead, gTree, gReady, gKnown, gTorn, gUntold>>
  BY DEF Git!Tick, At
<1>2. /\ "pull" \in Git!Workers
      /\ gWorker["pull"] \in [at: GitStates, new: 0..Len(gCommits), publish: SUBSET Paths]
      /\ Pull.publish = {}
  BY <1>1 DEF GitInv, GitTyped, WorkersAreAt, Git!Workers
<1>3. CASE Git!Go("pull", "fetch")
  <2> DEFINE x == [gWorker["pull"] EXCEPT !.at = "fetch"]
  <2>1. /\ x \in [at: GitStates \ {"begin", "clone"}, new: 0..Len(gCommits), publish: SUBSET Paths]
        /\ x.at = "fetch" /\ x.publish = {}
    BY <1>2 DEF GitStates, Pull
  <2>2. gWorker' = [gWorker EXCEPT !["pull"] = x]
    BY <1>3 DEF Git!Go
  <2>3. \A w \in Git!Workers : At(w) = "reset" => At(w)' = "reset"
    BY <1>1, <1>2, <2>2 DEF At, GitInv, GitTyped
  <2>4. ~gTorn /\ gHead # gTree => \E w \in Git!Workers : At(w) = "reset"
    BY DEF GitInv, TreeStays
  <2>5. gHead \in 0..Len(gCommits) /\ gTorn \in BOOLEAN
    BY DEF GitInv, GitTyped
  <2> HIDE DEF x
  <2> QED
    BY <1>1, <2>1, <2>2, <2>3, <2>4, <2>5, PullMoves
<1>4. ASSUME NEW init \in Inits, gWorker[init] = Git!Idle, Git!Go(init, "begin")
      PROVE  GitInv'
  <2> DEFINE x == [gWorker[init] EXCEPT !.at = "begin"]
  <2>1. x \in [at: GitStates \ Unseen, new: 0..Len(gCommits), publish: SUBSET Paths]
    BY <1>4 DEF GitInv, GitTyped, Git!Workers, GitStates, Unseen
  <2>2. gWorker' = [gWorker EXCEPT ![init] = x] /\ At(init) # "reset"
    BY <1>4 DEF Git!Go, At, Git!Idle
  <2>3. gReady \in BOOLEAN
    BY DEF GitInv, GitTyped
  <2> HIDE DEF x
  <2> QED
    BY <1>1, <2>1, <2>2, <2>3, WorkerMoves
<1> QED
  BY <1>3, <1>4 DEF Git!Tick

\* Whoever is told reads the tree.
LEMMA PullDoneKeeps ==
  ASSUME GitInv, Git!PullDone
  PROVE  GitInv'
<1>1. /\ At("pull") = "done"
      /\ gKnown' = [p \in Paths |-> IF p \in Pull.publish THEN gTree ELSE gKnown[p]]
      /\ gWorker' = [gWorker EXCEPT !["pull"] = Git!Idle]
      /\ UNCHANGED <<gCommits, gDisk, gHead, gTree, gReady, gTorn, gUntold>>
  BY DEF Git!PullDone, At, Pull
<1>2. /\ "pull" \in Git!Workers /\ "pull" \notin Inits
      /\ gWorker'["pull"] = Git!Idle
      /\ \A v \in Git!Workers \ {"pull"} : gWorker'[v] = gWorker[v]
  BY <1>1, InitsAssumption DEF GitInv, GitTyped, Git!Workers
<1>3. \A p \in Paths : gKnown'[p] # 0 => gKnown[p] # 0 /\ gTree # 0
  BY <1>1 DEF GitInv, WorkersAreAt, TreeStays
<1>4. GitTyped'
  <2>1. Git!Idle \in [at: GitStates, new: 0..Len(gCommits), publish: SUBSET Paths]
    BY DEF Git!Idle, GitStates, GitInv, GitTyped
  <2>2. gKnown' \in [Paths -> 0..Len(gCommits)]
    BY <1>1 DEF GitInv, GitTyped
  <2> QED
    BY <1>1, <2>1, <2>2 DEF GitInv, GitTyped
<1>5. WorkersAreAt'
  BY <1>2 DEF GitInv, WorkersAreAt, Pull, At, Git!Idle
<1>6. TreeStays'
  <2>1. \A w \in Git!Workers : At(w) = "reset" => At(w)' = "reset"
    BY <1>1, <1>2 DEF At
  <2> QED
    BY <1>1, <1>3, <2>1 DEF GitInv, TreeStays
<1>7. MetAreUntold'
  BY <1>1, <1>2, <1>3 DEF GitInv, MetAreUntold, At, Git!Workers
<1>8. MissedArePublished'
  <2>1. At("pull")' = "idle"
    BY <1>2 DEF At, Git!Idle
  <2> SUFFICES ASSUME ~gTorn, NEW p \in Paths \ gUntold, gKnown'[p] # 0
               PROVE  p \notin Git!Diff(gKnown'[p], gTree)
    BY <1>1, <2>1 DEF MissedArePublished, Git!Diff
  <2>2. CASE p \in Pull.publish
    <3>1. gKnown'[p] = gTree /\ gTree \in Nat
      BY <1>1, <2>2 DEF GitInv, GitTyped
    <3> QED
      BY <3>1, DiffSelf
  <2>3. CASE p \notin Pull.publish
    BY <1>1, <1>3, <2>3 DEF GitInv, MissedArePublished
  <2> QED
    BY <2>2, <2>3
<1> QED
  BY <1>4, <1>5, <1>6, <1>7, <1>8 DEF GitInv

LEMMA GitStep ==
  ASSUME GitInv, [Git!Next]_gitVars
  PROVE  GitInv'
<1>1. ASSUME UNCHANGED <<gCommits, gDisk, gHead, gTree, gReady, gKnown, gWorker, gTorn, gUntold>>
      PROVE  GitInv'
  BY <1>1 DEF GitInv, GitTyped, WorkersAreAt, TreeStays, MetAreUntold, MissedArePublished, Pull, At,
              Git!Diff
<1>2. CASE Git!Expire
  BY <1>1, <1>2 DEF Git!Expire
<1>3. CASE UNCHANGED gitVars
  BY <1>1, <1>3 DEF gitVars
<1>4. ASSUME NEW w \in Git!Workers, Git!Thread(w)
      PROVE  GitInv'
  BY <1>4, InitSteps, PullSteps DEF Git!Workers
<1> QED
  BY <1>2, <1>3, <1>4, CommitKeeps, GitSubscribeKeeps, GitCrashKeeps, TickKeeps, PullDoneKeeps
     DEF Git!Next

LEMMA GitImplies ==
  ASSUME GitInv
  PROVE  Git!SubscribersKnow
<1> SUFFICES ASSUME ~gTorn, At("pull") = "idle", NEW p \in Paths \ gUntold, gKnown[p] > 0
             PROVE  p \notin Git!Diff(gKnown[p], gTree)
  BY DEF Git!SubscribersKnow, At, Git!Workers
<1> QED
  BY DEF GitInv, GitTyped, MissedArePublished

-----------------------------------------------------------------------------
(* Watches of directories (filesystem.py).                                 *)

Dirs == Files!Path
FileEvents == [wd: Nat, kind: {"mkdir", "change", "ignored"}, name: Names \cup {"none"}]
Prefix(p, q) == Files!IsPrefix(p, q)
Overlap(s, o) == Prefix(s, o) \/ Prefix(o, s)
\* The events that are read and those that are not.
Queue == fReader.batch \o fInotify
\* The paths that somebody subscribed to, or tried to.
Owners == fSubscribed \cup fLost \cup {s \in {fReader.sub} : fReader.at = "subscribe"}

FilesTyped ==
  /\ fEdits \in Nat
  /\ fInode \in [Dirs -> 0..fEdits + 1]
  /\ fKernel \subseteq DOMAIN fWds /\ DOMAIN fWds \subseteq 1..fEdits + 1
  /\ fReader \in [at: {"idle", "subscribe", "events"}, batch: Seq(FileEvents), sub: Dirs,
                  walk: SUBSET Dirs, watched: SUBSET Dirs]
  /\ fInotify \in Seq(FileEvents)
  /\ fSubscribed \subseteq Dirs /\ fLost \subseteq Dirs
  /\ fReader.at = "idle" => fReader = Files!Idle
  /\ fReader.at = "subscribe" => fReader.batch = <<>>

\* The paths that exist are a tree, and each is another directory.
Tree ==
  \A p, q \in Dirs : Files!Exists(p) =>
    /\ Prefix(q, p) => Files!Exists(q)
    /\ fInode[p] = fInode[q] => p = q

\* What a directory is watched for: a path that it alone may have, under a subscription.
WatchesFit ==
  \A i \in DOMAIN fWds :
    /\ fWds[i] \in [sub: Owners, path: Dirs] /\ Prefix(fWds[i].sub, fWds[i].path)
    /\ \A p \in Dirs : fInode[p] = i => p = fWds[i].path

\* The events of a directory end with the one that it is no longer watched.
EventsFit ==
  \A m \in 1..Len(Queue) :
    /\ Queue[m].wd \in DOMAIN fWds
    /\ Queue[m].kind = "mkdir" =>
         Len(fWds[Queue[m].wd].path) < MaxDepth /\ Queue[m].name \in Names
    /\ Queue[m].kind = "ignored" =>
         /\ Queue[m].wd \notin fKernel
         /\ \A p \in Dirs : fInode[p] # Queue[m].wd
         /\ \A n \in m + 1..Len(Queue) : Queue[n].wd # Queue[m].wd

WalkFits ==
  Files!Walking =>
    /\ fReader.sub \in Owners /\ fReader.at # "idle"
    /\ \A p \in fReader.walk \cup fReader.watched : Prefix(fReader.sub, p)
    /\ \A p, q \in fReader.watched : p = q

\* A subscription that is not lost has its directory, and overlaps no other.
Apart ==
  \A s \in fSubscribed \ fLost :
    Files!Exists(s) /\ \A o \in fSubscribed \cup fLost : Overlap(s, o) => o = s

\* Those whose subscribers are to be told of everything.
Live(s) ==
  /\ s \in Owners \ fLost
  /\ \A o \in Owners : Overlap(s, o) => o = s
  /\ s \in fSubscribed \/ s \in fReader.walk \/ (Files!Exists(s) /\ fInode[s] \in fKernel)

Watched(s, p) ==
  fInode[p] \in fKernel /\ fWds[fInode[p]].sub = s /\ fWds[fInode[p]].path = p

\* The reader is on its way to p, or will be when it reads an event.
Walked(s, p) ==
  fReader.sub = s /\ \/ \E q \in fReader.walk : Prefix(q, p)
                     \/ \E q \in fReader.watched : Prefix(q, p) /\ q # p
Announced(s, p) ==
  \E m \in 1..Len(Queue) : \E q \in Dirs :
    /\ Len(q) < MaxDepth /\ Queue[m].name \in Names /\ Prefix(Append(q, Queue[m].name), p)
    /\ Queue[m].kind = "mkdir" /\ Queue[m].wd = fInode[q] /\ Watched(s, q)

AllReached ==
  \A s, p \in Dirs :
    Live(s) /\ Files!Exists(p) /\ Prefix(s, p)
      => Watched(s, p) \/ Walked(s, p) \/ Announced(s, p)

FilesInv ==
  FilesTyped /\ Tree /\ WatchesFit /\ EventsFit /\ WalkFits /\ Apart /\ AllReached

(* Paths.                                                                  *)

LEMMA DirsAreSeqs ==
  ASSUME NEW p
  PROVE  p \in Dirs <=> p \in Seq(Names) /\ Len(p) <= MaxDepth
<1>1. ASSUME p \in Dirs PROVE p \in Seq(Names) /\ Len(p) <= MaxDepth
  BY <1>1, DepthAssumption DEF Dirs, Files!Path
<1>2. ASSUME p \in Seq(Names), Len(p) <= MaxDepth PROVE p \in Dirs
  <2>1. Len(p) \in 0..MaxDepth /\ p \in [1..Len(p) -> Names]
    BY <1>2, DepthAssumption
  <2> QED
    BY <2>1 DEF Dirs, Files!Path
<1> QED
  BY <1>1, <1>2

LEMMA PrefixIs ==
  ASSUME NEW p \in Dirs, NEW q \in Dirs
  PROVE  /\ Prefix(p, q) \in BOOLEAN
         /\ Prefix(p, q) <=> Len(p) <= Len(q) /\ \A i \in 1..Len(p) : p[i] = q[i]
<1>1. p \in Seq(Names) /\ q \in Seq(Names) /\ Len(p) \in Nat /\ Len(q) \in Nat
  BY DirsAreSeqs
<1>2. Prefix(p, q) <=> Len(p) <= Len(q) /\ SubSeq(p, 1, Len(p)) = SubSeq(q, 1, Len(p))
  BY DEF Prefix, Files!IsPrefix
<1>3. ASSUME Len(p) <= Len(q)
      PROVE  SubSeq(p, 1, Len(p)) = SubSeq(q, 1, Len(p)) <=> \A i \in 1..Len(p) : p[i] = q[i]
  <2>1. /\ SubSeq(p, 1, Len(p)) \in Seq(Names) /\ Len(SubSeq(p, 1, Len(p))) = Len(p)
        /\ \A i \in 1..Len(p) : SubSeq(p, 1, Len(p))[i] = p[i]
    BY <1>1
  <2>2. /\ SubSeq(q, 1, Len(p)) \in Seq(Names) /\ Len(SubSeq(q, 1, Len(p))) = Len(p)
        /\ \A i \in 1..Len(p) : SubSeq(q, 1, Len(p))[i] = q[i]
    BY <1>1, <1>3
  <2> HIDE DEF Dirs
  <2>3. (\A i \in 1..Len(p) : p[i] = q[i]) => SubSeq(p, 1, Len(p)) = SubSeq(q, 1, Len(p))
    BY <2>1, <2>2, SeqEqual
  <2> QED
    BY <2>1, <2>2, <2>3
<1> QED
  BY <1>2, <1>3 DEF Prefix, Files!IsPrefix

LEMMA PrefixOrder ==
  ASSUME NEW p \in Dirs, NEW q \in Dirs, NEW r \in Dirs
  PROVE  /\ Prefix(p, p)
         /\ Prefix(p, q) /\ Prefix(q, r) => Prefix(p, r)
         /\ Prefix(p, q) /\ Prefix(q, p) => p = q
         /\ Prefix(p, r) /\ Prefix(q, r) => Overlap(p, q)
<1>1. /\ p \in Seq(Names) /\ q \in Seq(Names) /\ r \in Seq(Names)
      /\ Len(p) \in Nat /\ Len(q) \in Nat /\ Len(r) \in Nat
  BY DirsAreSeqs
<1>2. Prefix(p, p)
  BY PrefixIs, <1>1
<1>3. Prefix(p, q) /\ Prefix(q, r) => Prefix(p, r)
  BY PrefixIs, <1>1
<1>4. Prefix(p, q) /\ Prefix(q, p) => p = q
  BY PrefixIs, <1>1, SeqEqual
<1>5. Prefix(p, r) /\ Prefix(q, r) => Prefix(p, q) \/ Prefix(q, p)
  BY PrefixIs, <1>1
<1> QED
  BY <1>2, <1>3, <1>4, <1>5 DEF Overlap

LEMMA Appended ==
  ASSUME NEW q \in Dirs, NEW n \in Names, Len(q) < MaxDepth
  PROVE  /\ Append(q, n) \in Dirs /\ Append(q, n) # q /\ Append(q, n) # <<>>
         /\ Prefix(q, Append(q, n))
         /\ Files!Front(Append(q, n)) = q
<1>1. q \in Seq(Names) /\ Len(q) \in Nat
  BY DirsAreSeqs
<1>2. /\ Append(q, n) \in Seq(Names) /\ Len(Append(q, n)) = Len(q) + 1
      /\ \A i \in 1..Len(q) : Append(q, n)[i] = q[i]
  BY <1>1
<1>3. Append(q, n) \in Dirs
  <2>1. Len(Append(q, n)) <= MaxDepth
    BY <1>1, <1>2, DepthAssumption
  <2> QED
    BY <1>2, <2>1, DirsAreSeqs
<1>4. Prefix(q, Append(q, n))
  <2>1. PICK c \in Dirs : c = Append(q, n)
    BY <1>3
  <2>2. Len(q) <= Len(c) /\ \A i \in 1..Len(q) : q[i] = c[i]
    BY <1>1, <1>2, <2>1
  <2> QED
    BY <2>1, <2>2, PrefixIs
<1>5. Files!Front(Append(q, n)) = q
  <2>1. Files!Front(Append(q, n)) = SubSeq(Append(q, n), 1, Len(q))
    BY <1>1, <1>2 DEF Files!Front
  <2>2. /\ SubSeq(Append(q, n), 1, Len(q)) \in Seq(Names)
        /\ Len(SubSeq(Append(q, n), 1, Len(q))) = Len(q)
        /\ \A i \in 1..Len(q) : SubSeq(Append(q, n), 1, Len(q))[i] = q[i]
    BY <1>1, <1>2
  <2> QED
    BY <1>1, <2>1, <2>2, SeqEqual
<1> QED
  BY <1>1, <1>2, <1>3, <1>4, <1>5

LEMMA FrontOf ==
  ASSUME NEW p \in Dirs, p # <<>>
  PROVE  /\ Files!Front(p) \in Dirs /\ Files!Last(p) \in Names
         /\ Len(Files!Front(p)) = Len(p) - 1
         /\ \A i \in 1..Len(p) - 1 : Files!Front(p)[i] = p[i]
         /\ Len(Files!Front(p)) < MaxDepth
         /\ p = Append(Files!Front(p), Files!Last(p))
<1>1. p \in Seq(Names) /\ Len(p) \in Nat /\ Len(p) # 0 /\ Len(p) <= MaxDepth
  BY DirsAreSeqs
<1>2. /\ Files!Front(p) \in Seq(Names) /\ Len(Files!Front(p)) = Len(p) - 1
      /\ \A i \in 1..Len(p) - 1 : Files!Front(p)[i] = p[i]
  <2>1. Files!Front(p) = SubSeq(p, 1, Len(p) - 1)
    BY DEF Files!Front
  <2>2. Len(p) - 1 \in 0..Len(p) /\ Len(p) - 1 <= Len(p)
    BY <1>1
  <2>3. /\ SubSeq(p, 1, Len(p) - 1) \in Seq(Names)
        /\ Len(SubSeq(p, 1, Len(p) - 1)) = Len(p) - 1
        /\ \A i \in 1..Len(p) - 1 : SubSeq(p, 1, Len(p) - 1)[i] = p[i]
    <3>1. \A i \in 1..Len(p) - 1 : i \in 1..Len(p)
      BY <1>1
    <3>2. \A i \in 1..Len(p) - 1 : p[i] \in Names
      BY <1>1, <3>1, ElementOfSeq
    <3>3. PICK n \in Nat : n = Len(p) - 1
      BY <1>1
    <3>4. /\ SubSeq(p, 1, n) \in Seq(Names)
          /\ Len(SubSeq(p, 1, n)) = IF 1 <= n THEN n - 1 + 1 ELSE 0
          /\ \A i \in 1..n - 1 + 1 : SubSeq(p, 1, n)[i] = p[1 + i - 1]
      <4>1. 1 \in Int /\ n \in Int /\ \A i \in 1..n : p[i] \in Names
        BY <3>2, <3>3
      <4> QED
        BY <4>1, SubSeqProperties
    <3>5. Len(SubSeq(p, 1, n)) = n /\ \A i \in 1..n : SubSeq(p, 1, n)[i] = p[i]
      BY <3>4
    <3> QED
      BY <3>3, <3>4, <3>5
  <2> QED
    BY <2>1, <2>3
<1>3. Files!Last(p) = p[Len(p)] /\ Files!Last(p) \in Names
  BY <1>1 DEF Files!Last
<1>4. /\ Append(Files!Front(p), Files!Last(p)) \in Seq(Names)
      /\ Len(Append(Files!Front(p), Files!Last(p))) = Len(p)
      /\ \A i \in 1..Len(p) : Append(Files!Front(p), Files!Last(p))[i] = p[i]
  BY <1>1, <1>2, <1>3
<1>5. p = Append(Files!Front(p), Files!Last(p))
  BY <1>1, <1>4, SeqEqual
<1> QED
  BY <1>1, <1>2, <1>3, <1>5, DirsAreSeqs, DepthAssumption

\* Between a path and one under it there is a child of the first.
LEMMA ChildBetween ==
  ASSUME NEW q \in Dirs, NEW p \in Dirs, Prefix(q, p), q # p
  PROVE  /\ p # <<>> /\ Prefix(q, Files!Front(p))
         /\ \E n \in Names : Len(q) < MaxDepth /\ Prefix(Append(q, n), p)
<1>1. /\ p \in Seq(Names) /\ q \in Seq(Names) /\ Len(p) \in Nat /\ Len(q) \in Nat
      /\ Len(p) <= MaxDepth /\ MaxDepth \in Nat
  BY DirsAreSeqs, DepthAssumption
<1>2. Len(q) <= Len(p) /\ \A i \in 1..Len(q) : q[i] = p[i]
  BY PrefixIs
<1>3. Len(q) < Len(p)
  BY <1>1, <1>2, SeqEqual
<1>4. p # <<>> /\ Len(q) < MaxDepth /\ p[Len(q) + 1] \in Names
  BY <1>1, <1>3
<1>5. Prefix(q, Files!Front(p))
  <2>1. /\ Files!Front(p) \in Dirs /\ Len(Files!Front(p)) = Len(p) - 1
        /\ \A i \in 1..Len(p) - 1 : Files!Front(p)[i] = p[i]
    BY <1>1, <1>4, FrontOf
  <2> QED
    BY <1>1, <1>2, <1>3, <2>1, PrefixIs
<1>6. Prefix(Append(q, p[Len(q) + 1]), p)
  <2> DEFINE c == Append(q, p[Len(q) + 1])
  <2>1. c \in Dirs
    BY <1>4, Appended
  <2>2. Len(c) = Len(q) + 1 /\ \A i \in 1..Len(q) + 1 : c[i] = p[i]
    BY <1>1, <1>2, <1>4
  <2> HIDE DEF c
  <2>3. Prefix(c, p)
    BY <1>1, <1>3, <2>1, <2>2, PrefixIs
  <2> QED
    BY <2>3 DEF c
<1> QED
  BY <1>4, <1>5, <1>6

(* Directories that are watched.                                           *)

LEMMA IdleIs ==
  /\ Files!Idle \in [at: {"idle", "subscribe", "events"}, batch: Seq(FileEvents), sub: Dirs,
                      walk: SUBSET Dirs, watched: SUBSET Dirs]
  /\ Files!Idle.at = "idle" /\ Files!Idle.batch = <<>> /\ Files!Idle.sub = <<>>
  /\ Files!Idle.walk = {} /\ Files!Idle.watched = {}
<1>1. <<>> \in Seq(Names) /\ Len(<<>>) <= MaxDepth
  BY EmptySeq, DepthAssumption
<1>2. <<>> \in Dirs /\ <<>> \in Seq(FileEvents)
  BY <1>1, EmptySeq, DirsAreSeqs
<1> QED
  BY <1>2 DEF Files!Idle

LEMMA FilesInit ==
  ASSUME Files!Init
  PROVE  FilesInv
<1>1. fReader = Files!Idle /\ fInotify = <<>> /\ fKernel = {} /\ DOMAIN fWds = {}
      /\ fSubscribed = {} /\ fLost = {} /\ fEdits = 0
      /\ fInode = [p \in Dirs |-> IF p = <<>> THEN 1 ELSE 0]
  BY DEF Files!Init, Dirs
<1>2. /\ fReader.at = "idle" /\ fReader.batch = <<>> /\ fReader.sub = <<>>
      /\ fReader.walk = {} /\ fReader.watched = {}
  BY <1>1 DEF Files!Idle
<1>3. Owners = {} /\ Len(Queue) = 0
  BY <1>1, <1>2 DEF Owners, Queue
<1>5. FilesTyped
  BY <1>1, <1>2, IdleIs, EmptySeq DEF FilesTyped
<1>6. Tree
  <2> SUFFICES ASSUME NEW p \in Dirs, NEW q \in Dirs, Files!Exists(p)
               PROVE  (Prefix(q, p) => Files!Exists(q)) /\ (fInode[p] = fInode[q] => p = q)
    BY DEF Tree
  <2>1. p = <<>>
    BY <1>1 DEF Files!Exists
  <2>2. Prefix(p, q)
    BY <2>1, PrefixIs, DirsAreSeqs
  <2> QED
    BY <1>1, <2>1, <2>2, PrefixOrder DEF Files!Exists
<1>7. WatchesFit /\ Apart
  BY <1>1 DEF WatchesFit, Apart
<1>8. EventsFit
  BY <1>3 DEF EventsFit
<1>9. WalkFits
  BY <1>2 DEF WalkFits, Files!Walking
<1>10. AllReached
  BY <1>3 DEF AllReached, Live
<1> QED
  BY <1>5, <1>6, <1>7, <1>8, <1>9, <1>10 DEF FilesInv

\* An event on its way stays one, if its directory does.
LEMMA AnnouncedStays ==
  ASSUME NEW s \in Dirs, NEW p \in Dirs, Announced(s, p),
         \A m \in 1..Len(Queue) : Queue[m].kind = "mkdir" =>
           \E n \in 1..Len(Queue)' : Queue'[n] = Queue[m],
         \A q \in Dirs : Prefix(q, p) /\ q # p /\ Watched(s, q) =>
           Watched(s, q)' /\ fInode'[q] = fInode[q]
  PROVE  Announced(s, p)'
<1>1. PICK m \in 1..Len(Queue), q \in Dirs :
        /\ Len(q) < MaxDepth /\ Queue[m].name \in Names /\ Prefix(Append(q, Queue[m].name), p)
        /\ Queue[m].kind = "mkdir" /\ Queue[m].wd = fInode[q] /\ Watched(s, q)
  BY DEF Announced
<1>2. PICK name \in Names : name = Queue[m].name
  BY <1>1
<1>3. PICK c \in Dirs : c = Append(q, name) /\ Prefix(q, c) /\ c # q
  BY <1>1, Appended
<1>4. Prefix(c, p)
  BY <1>1, <1>2, <1>3
<1>5. Prefix(q, p) /\ q # p
  BY <1>3, <1>4, PrefixOrder
<1>6. Watched(s, q)' /\ fInode'[q] = fInode[q]
  BY <1>1, <1>5
<1>7. PICK n \in 1..Len(Queue)' : Queue'[n] = Queue[m]
  BY <1>1
<1> QED
  BY <1>1, <1>2, <1>3, <1>4, <1>6, <1>7 DEF Announced

\* Other processes queue events of directories that are watched.
LEMMA QueueGrows ==
  ASSUME FilesInv, NEW ev \in Seq(FileEvents),
         fInotify' = fInotify \o ev, UNCHANGED <<fWds, fReader, fSubscribed>>,
         fEdits' = fEdits + 1, fKernel' \subseteq fKernel,
         fLost \subseteq fLost', fLost' \subseteq fLost \cup fSubscribed,
         fInode' \in [Dirs -> 0..fEdits + 2],
         \A p \in Dirs : fInode'[p] \in {fInode[p], 0, fEdits + 2},
         \A k \in 1..Len(ev) :
           /\ ev[k].wd \in fKernel
           /\ ev[k].kind = "mkdir" =>
                Len(fWds[ev[k].wd].path) < MaxDepth /\ ev[k].name \in Names
           /\ ev[k].kind = "ignored" =>
                /\ ev[k].wd \notin fKernel'
                /\ \A p \in Dirs : fInode'[p] # ev[k].wd
                /\ \A n \in k + 1..Len(ev) : ev[n].wd # ev[k].wd
  PROVE  /\ FilesTyped' /\ WatchesFit' /\ EventsFit' /\ WalkFits'
         /\ Owners' = Owners
         /\ \A m \in 1..Len(Queue) : m \in 1..Len(Queue)' /\ Queue'[m] = Queue[m]
         /\ \A k \in 1..Len(ev) : Len(Queue) + k \in 1..Len(Queue)' /\ Queue'[Len(Queue) + k] = ev[k]
<1>1. FilesTyped /\ fEdits \in Nat /\ fReader.batch \in Seq(FileEvents) /\ fInotify \in Seq(FileEvents)
  BY DEF FilesInv, FilesTyped
<1>2. Queue \in Seq(FileEvents) /\ Queue' = Queue \o ev /\ Queue' \in Seq(FileEvents)
  <2>1. (fReader.batch \o fInotify) \o ev = fReader.batch \o (fInotify \o ev)
    <3>1. PICK a \in Seq(FileEvents), b \in Seq(FileEvents) : a = fReader.batch /\ b = fInotify
      BY <1>1
    <3>2. (a \o b) \o ev = a \o (b \o ev)
      BY ConcatAssociative
    <3> QED
      BY <3>1, <3>2
  <2>2. Queue \in Seq(FileEvents)
    BY <1>1 DEF Queue
  <2>3. Queue' = fReader.batch \o (fInotify \o ev)
    BY DEF Queue
  <2> QED
    BY <2>1, <2>2, <2>3 DEF Queue
<1>3. /\ Len(Queue)' = Len(Queue) + Len(ev) /\ Len(Queue) \in Nat /\ Len(ev) \in Nat
      /\ \A m \in 1..Len(Queue) : Queue'[m] = Queue[m]
      /\ \A k \in 1..Len(ev) : Queue'[Len(Queue) + k] = ev[k]
  <2>1. PICK a \in Seq(FileEvents) : a = Queue
    BY <1>2
  <2>2. /\ Len(a \o ev) = Len(a) + Len(ev) /\ Len(a) \in Nat /\ Len(ev) \in Nat
        /\ \A m \in 1..Len(a) : (a \o ev)[m] = a[m]
        /\ \A k \in 1..Len(ev) : (a \o ev)[Len(a) + k] = ev[k]
    OBVIOUS
  <2> QED
    BY <1>2, <2>1, <2>2
<1>4. FilesTyped'
  <2>1. \A i : i \in 1..fEdits + 1 => i \in 1..fEdits' + 1
    BY <1>1
  <2>2. fKernel' \subseteq DOMAIN fWds /\ DOMAIN fWds \subseteq 1..fEdits' + 1
    BY <1>1, <2>1 DEF FilesTyped
  <2>3. fInode' \in [Dirs -> 0..fEdits' + 1] /\ fEdits' \in Nat
    BY <1>1
  <2>4. fInotify' \in Seq(FileEvents)
    BY <1>1
  <2>5. fLost' \subseteq Dirs /\ fSubscribed \subseteq Dirs
    BY <1>1 DEF FilesTyped
  <2> QED
    BY <1>1, <2>2, <2>3, <2>4, <2>5 DEF FilesTyped
<1>5. Owners' = Owners
  BY DEF Owners
<1>6. ASSUME NEW i \in DOMAIN fWds, NEW p \in Dirs, fInode'[p] = i
      PROVE  fInode[p] = i
  BY <1>1, <1>6 DEF FilesTyped
<1>7. WatchesFit'
  BY <1>5, <1>6 DEF FilesInv, WatchesFit
<1>8. EventsFit'
  <2> SUFFICES ASSUME NEW m \in 1..Len(Queue)'
               PROVE  /\ Queue'[m].wd \in DOMAIN fWds
                      /\ Queue'[m].kind = "mkdir" =>
                           Len(fWds[Queue'[m].wd].path) < MaxDepth /\ Queue'[m].name \in Names
                      /\ Queue'[m].kind = "ignored" =>
                           /\ Queue'[m].wd \notin fKernel'
                           /\ \A p \in Dirs : fInode'[p] # Queue'[m].wd
                           /\ \A n \in m + 1..Len(Queue)' : Queue'[n].wd # Queue'[m].wd
    BY DEF EventsFit
  <2>1. CASE m \in 1..Len(Queue)
    <3>1. Queue'[m] = Queue[m]
      BY <1>3, <2>1
    <3>2. /\ Queue[m].wd \in DOMAIN fWds
          /\ Queue[m].kind = "mkdir" =>
               Len(fWds[Queue[m].wd].path) < MaxDepth /\ Queue[m].name \in Names
      BY <2>1 DEF FilesInv, EventsFit
    <3>3. ASSUME Queue[m].kind = "ignored"
          PROVE  /\ Queue[m].wd \notin fKernel
                 /\ \A p \in Dirs : fInode[p] # Queue[m].wd
                 /\ \A n \in m + 1..Len(Queue) : Queue[n].wd # Queue[m].wd
      BY <2>1, <3>3 DEF FilesInv, EventsFit
    <3>4. ASSUME Queue[m].kind = "ignored", NEW n \in m + 1..Len(Queue)'
          PROVE  Queue'[n].wd # Queue[m].wd
      <4>1. CASE n <= Len(Queue)
        BY <1>3, <2>1, <3>3, <3>4, <4>1
      <4>2. CASE n > Len(Queue)
        <5>1. PICK k \in 1..Len(ev) : n = Len(Queue) + k
          <6>1. n - Len(Queue) \in 1..Len(ev) /\ n = Len(Queue) + (n - Len(Queue))
            BY <1>3, <2>1, <4>2
          <6> QED
            BY <6>1
        <5>2. Queue'[n].wd \in fKernel
          BY <1>3, <5>1
        <5> QED
          BY <3>3, <3>4, <5>2
      <4> QED
        BY <1>3, <4>1, <4>2
    <3> QED
      BY <1>6, <3>1, <3>2, <3>3, <3>4
  <2>2. CASE m \notin 1..Len(Queue)
    <3>1. PICK k \in 1..Len(ev) : m = Len(Queue) + k
      <4>1. m - Len(Queue) \in 1..Len(ev)
        BY <1>3, <2>2
      <4> QED
        BY <1>3, <4>1
    <3>2. Queue'[m] = ev[k]
      BY <1>3, <3>1
    <3>3. ASSUME ev[k].kind = "ignored", NEW n \in m + 1..Len(Queue)'
          PROVE  Queue'[n].wd # ev[k].wd
      <4>1. n - Len(Queue) \in k + 1..Len(ev) /\ n - Len(Queue) \in 1..Len(ev)
        BY <1>3, <3>1
      <4>2. Queue'[n] = ev[n - Len(Queue)]
        <5>1. n = Len(Queue) + (n - Len(Queue))
          BY <1>3
        <5> QED
          BY <1>3, <4>1, <5>1
      <4> QED
        BY <3>3, <4>1, <4>2
    <3>4. ev[k].wd \in DOMAIN fWds
      BY <1>1 DEF FilesTyped
    <3> QED
      BY <3>2, <3>3, <3>4
  <2> QED
    BY <2>1, <2>2
<1>9. WalkFits'
  BY <1>5 DEF FilesInv, WalkFits, Files!Walking
<1> QED
  BY <1>3, <1>4, <1>5, <1>7, <1>8, <1>9

Kinds == {"mkdir", "change", "ignored"}

LEMMA QueuedIs ==
  ASSUME NEW i \in Nat, NEW kind \in Kinds, NEW name \in Names \cup {"none"},
         NEW e, e = Files!Event(i, kind, name)
  PROVE  /\ e \in FileEvents /\ e.wd = i /\ e.kind = kind /\ e.name = name
         /\ i \in fKernel => Files!Queued(e) = <<e>>
         /\ i \notin fKernel => Files!Queued(e) = <<>>
         /\ Files!Queued(e) \in Seq(FileEvents) /\ Len(Files!Queued(e)) \in 0..1
         /\ \A k \in 1..Len(Files!Queued(e)) : Files!Queued(e)[k] = e /\ i \in fKernel
<1>1. e \in FileEvents /\ e.wd = i /\ e.kind = kind /\ e.name = name
  BY DEF Files!Event, FileEvents, Kinds
<1>2. /\ i \in fKernel => Files!Queued(e) = <<e>>
      /\ i \notin fKernel => Files!Queued(e) = <<>>
  BY <1>1 DEF Files!Queued
<1>3. <<e>> \in Seq(FileEvents) /\ Len(<<e>>) = 1 /\ <<e>>[1] = e /\ <<>> \in Seq(FileEvents)
      /\ Len(<<>>) = 0
  BY <1>1, EmptySeq
<1>4. ASSUME NEW k \in 1..Len(Files!Queued(e))
      PROVE  Files!Queued(e)[k] = e /\ i \in fKernel
  <2>1. CASE i \in fKernel
    <3>1. Files!Queued(e) = <<e>>
      BY <1>2, <2>1
    <3>2. k \in 1..1
      BY <1>3, <1>4, <3>1
    <3> QED
      BY <1>3, <2>1, <3>1, <3>2
  <2>2. CASE i \notin fKernel
    <3>1. Len(Files!Queued(e)) = 0
      BY <1>2, <1>3, <2>2
    <3>2. k \in 1..0
      BY <1>4, <3>1
    <3> QED
      BY <3>2
  <2> QED
    BY <2>1, <2>2
<1>5. Files!Queued(e) \in Seq(FileEvents) /\ Len(Files!Queued(e)) \in 0..1
  <2>1. Files!Queued(e) = <<e>> \/ Files!Queued(e) = <<>>
    BY <1>2
  <2>2. CASE Files!Queued(e) = <<e>>
    <3>1. Len(<<e>>) \in 0..1
      BY <1>3
    <3> QED
      BY <1>3, <2>2, <3>1
  <2>3. CASE Files!Queued(e) = <<>>
    <3>1. Len(<<>>) \in 0..1
      BY <1>3
    <3> QED
      BY <1>3, <2>3, <3>1
  <2> QED
    BY <2>1, <2>2, <2>3
<1> QED
  BY <1>1, <1>2, <1>4, <1>5

\* What a step of another process does to the claims, given what it does to directories.
LEMMA OthersKeep ==
  ASSUME FilesInv, Owners' = Owners, fLost \subseteq fLost',
         UNCHANGED <<fReader, fSubscribed, fWds>>, fKernel' \subseteq fKernel,
         \A m \in 1..Len(Queue) : m \in 1..Len(Queue)' /\ Queue'[m] = Queue[m],
         NEW p \in Dirs,
         \A q \in Dirs \ {p} : fInode'[q] = fInode[q] /\ (fInode[q] \in fKernel => fInode[q] \in fKernel'),
         Files!Exists(p)' => fInode'[p] = fInode[p] \/ fInode'[p] \notin fKernel,
         \A q \in Dirs : Prefix(p, q) /\ p # q => ~Files!Exists(q)
  PROVE  /\ \A s \in Dirs : Live(s)' => Live(s)
         /\ \A s, q \in Dirs :
              Live(s)' /\ Files!Exists(q)' /\ Prefix(s, q) /\ q # p
                => Watched(s, q)' \/ Walked(s, q)' \/ Announced(s, q)'
<1>1. ASSUME NEW s \in Dirs, Live(s)'
      PROVE  Live(s)
  <2>1. s \in Owners \ fLost /\ \A o \in Owners : Overlap(s, o) => o = s
    BY <1>1 DEF Live, Overlap
  <2>2. s \in fSubscribed \/ s \in fReader.walk \/ (Files!Exists(s)' /\ fInode'[s] \in fKernel')
    BY <1>1 DEF Live
  <2>3. Files!Exists(s)' /\ fInode'[s] \in fKernel' => Files!Exists(s) /\ fInode[s] \in fKernel
    BY DEF Files!Exists
  <2> QED
    BY <2>1, <2>2, <2>3 DEF Live
<1>2. ASSUME NEW s \in Dirs, NEW q \in Dirs, Live(s)', Files!Exists(q)', Prefix(s, q), q # p
      PROVE  Watched(s, q)' \/ Walked(s, q)' \/ Announced(s, q)'
  <2>1. Files!Exists(q) /\ Live(s)
    BY <1>1, <1>2 DEF Files!Exists
  <2>2. CASE Watched(s, q)
    BY <1>2, <2>2 DEF Watched
  <2>3. CASE Walked(s, q)
    BY <2>3 DEF Walked
  <2>4. CASE Announced(s, q)
    <3>1. ASSUME NEW d \in Dirs, Prefix(d, q), d # q, Watched(s, d)
          PROVE  Watched(s, d)' /\ fInode'[d] = fInode[d]
      <4>1. d # p
        BY <2>1, <3>1
      <4> QED
        BY <3>1, <4>1 DEF Watched
    <3> QED
      BY <2>4, <3>1, AnnouncedStays
  <2> QED
    BY <2>1, <2>2, <2>3, <2>4, <1>2 DEF FilesInv, AllReached
<1> QED
  BY <1>1, <1>2

LEMMA WriteFileKeeps ==
  ASSUME FilesInv, NEW p \in Dirs, Files!WriteFile(p)
  PROVE  FilesInv'
<1>1. PICK e : e = Files!Event(fInode[p], "change", "none")
  OBVIOUS
<1>2. /\ fInotify' = fInotify \o Files!Queued(e) /\ fEdits' = fEdits + 1
      /\ UNCHANGED <<fWds, fReader, fSubscribed, fInode, fKernel, fLost>>
  BY <1>1 DEF Files!WriteFile, Files!Edit, Files!NoName
<1>3. /\ fInode \in [Dirs -> 0..fEdits + 1] /\ fInode[p] \in Nat /\ fEdits \in Nat
      /\ fInode \in [Dirs -> 0..fEdits + 2]
  BY DEF FilesInv, FilesTyped
<1>4. PICK ev \in Seq(FileEvents) :
        /\ ev = Files!Queued(e)
        /\ \A k \in 1..Len(ev) : ev[k].wd \in fKernel /\ ev[k].kind = "change"
  BY <1>1, <1>3, QueuedIs DEF Kinds
<1>5. /\ FilesTyped' /\ WatchesFit' /\ EventsFit' /\ WalkFits'
      /\ Owners' = Owners
      /\ \A m \in 1..Len(Queue) : m \in 1..Len(Queue)' /\ Queue'[m] = Queue[m]
  BY <1>2, <1>3, <1>4, QueueGrows
<1>6. Tree' /\ Apart'
  BY <1>2 DEF FilesInv, Tree, Apart, Files!Exists
<1>7. AllReached'
  <2> SUFFICES ASSUME NEW s \in Dirs, NEW q \in Dirs, Live(s)', Files!Exists(q)', Prefix(s, q)
               PROVE  Watched(s, q)' \/ Walked(s, q)' \/ Announced(s, q)'
    BY DEF AllReached
  <2>1. Live(s) /\ Files!Exists(q)
    BY <1>2, <1>5 DEF Live, Files!Exists, Overlap
  <2>2. Watched(s, q) \/ Walked(s, q) \/ Announced(s, q)
    BY <2>1 DEF FilesInv, AllReached
  <2>3. \A d \in Dirs : Watched(s, d) => Watched(s, d)' /\ fInode'[d] = fInode[d]
    BY <1>2 DEF Watched
  <2>4. Walked(s, q) => Walked(s, q)'
    BY <1>2 DEF Walked
  <2>5. Announced(s, q) => Announced(s, q)'
    BY <1>5, <2>3, AnnouncedStays
  <2> QED
    BY <2>2, <2>3, <2>4, <2>5
<1> QED
  BY <1>5, <1>6, <1>7 DEF FilesInv

\* A directory that appears in one that is watched is announced.
LEMMA MakeDirectoryKeeps ==
  ASSUME FilesInv, NEW p \in Dirs, Files!MakeDirectory(p)
  PROVE  FilesInv'
<1>1. PICK up \in Dirs, name \in Names :
        /\ up = Files!Front(p) /\ name = Files!Last(p) /\ p = Append(up, name) /\ Len(up) < MaxDepth
  BY FrontOf DEF Files!MakeDirectory
<1>2. PICK e : e = Files!Event(fInode[up], "mkdir", name)
  OBVIOUS
<1>3. /\ ~Files!Exists(p) /\ Files!Exists(up)
      /\ fInode' = [fInode EXCEPT ![p] = fEdits + 2]
      /\ fInotify' = fInotify \o Files!Queued(e) /\ fEdits' = fEdits + 1
      /\ UNCHANGED <<fWds, fReader, fSubscribed, fKernel, fLost>>
  BY <1>1, <1>2 DEF Files!MakeDirectory, Files!Edit
<1>4. /\ fInode \in [Dirs -> 0..fEdits + 1] /\ fInode[up] \in Nat /\ fEdits \in Nat
      /\ fInode' \in [Dirs -> 0..fEdits + 2]
      /\ \A q \in Dirs : fInode'[q] \in {fInode[q], fEdits + 2}
      /\ \A q \in Dirs \ {p} : fInode'[q] = fInode[q]
      /\ fInode'[p] = fEdits + 2
  BY <1>3 DEF FilesInv, FilesTyped
<1>5. fKernel \subseteq 1..fEdits + 1 /\ fEdits + 2 \notin fKernel
  BY <1>4 DEF FilesInv, FilesTyped
<1>6. PICK ev \in Seq(FileEvents) :
        /\ ev = Files!Queued(e)
        /\ \A k \in 1..Len(ev) : ev[k] = e /\ fInode[up] \in fKernel
        /\ fInode[up] \in fKernel => ev = <<e>>
        /\ e.wd = fInode[up] /\ e.kind = "mkdir" /\ e.name = name
  <2>1. PICK i \in Nat : i = fInode[up]
    BY <1>4
  <2>2. "mkdir" \in Kinds /\ name \in Names \cup {"none"} /\ e = Files!Event(i, "mkdir", name)
    BY <1>2, <2>1 DEF Kinds
  <2> QED
    BY <2>1, <2>2, QueuedIs
<1>7. fInode[up] \in fKernel => Len(fWds[fInode[up]].path) < MaxDepth
  BY <1>1 DEF FilesInv, FilesTyped, WatchesFit
<1>8. /\ FilesTyped' /\ WatchesFit' /\ EventsFit' /\ WalkFits'
      /\ Owners' = Owners
      /\ \A m \in 1..Len(Queue) : m \in 1..Len(Queue)' /\ Queue'[m] = Queue[m]
      /\ \A k \in 1..Len(ev) : Len(Queue) + k \in 1..Len(Queue)' /\ Queue'[Len(Queue) + k] = ev[k]
  <2>1. \A k \in 1..Len(ev) :
           /\ ev[k].wd \in fKernel
           /\ ev[k].kind = "mkdir" =>
                Len(fWds[ev[k].wd].path) < MaxDepth /\ ev[k].name \in Names
           /\ ev[k].kind # "ignored"
    BY <1>6, <1>7
  <2> QED
    BY <1>3, <1>4, <1>6, <2>1, QueueGrows
<1>9. Prefix(up, p) /\ up # p
  BY <1>1, Appended
<1>10. \A q \in Dirs : Files!Exists(q)' <=> Files!Exists(q) \/ q = p
  BY <1>3, <1>4 DEF Files!Exists
<1>11. Tree'
  <2> SUFFICES ASSUME NEW a \in Dirs, NEW b \in Dirs, Files!Exists(a)'
               PROVE  (Prefix(b, a) => Files!Exists(b)') /\ (fInode'[a] = fInode'[b] => a = b)
    BY DEF Tree
  <2>1. ASSUME Prefix(b, a) PROVE Files!Exists(b)'
    <3>1. CASE a = p /\ b # p
      <4>1. Prefix(b, up)
        BY <1>1, <2>1, <3>1, ChildBetween
      <4> QED
        BY <1>3, <1>10, <4>1 DEF FilesInv, Tree
    <3> QED
      BY <1>10, <2>1, <3>1 DEF FilesInv, Tree
  <2>2. fInode[a] # fEdits + 2 /\ fInode[b] # fEdits + 2
    BY <1>4
  <2>3. fInode'[a] = fInode'[b] => a = b
    BY <1>4, <1>10, <2>2 DEF FilesInv, Tree
  <2> QED
    BY <2>1, <2>3
<1>12. Apart'
  <2>1. fSubscribed \subseteq Dirs
    BY DEF FilesInv, FilesTyped
  <2>2. \A s \in fSubscribed \ fLost : Files!Exists(s) => Files!Exists(s)'
    BY <1>10, <2>1
  <2> QED
    BY <1>3, <2>2 DEF FilesInv, Apart, Overlap
<1>13. \A q \in Dirs : Prefix(p, q) /\ p # q => ~Files!Exists(q)
  BY <1>3 DEF FilesInv, Tree
<1>14. /\ \A s \in Dirs : Live(s)' => Live(s)
       /\ \A s, q \in Dirs :
            Live(s)' /\ Files!Exists(q)' /\ Prefix(s, q) /\ q # p
              => Watched(s, q)' \/ Walked(s, q)' \/ Announced(s, q)'
  BY <1>3, <1>4, <1>5, <1>8, <1>13, OthersKeep
<1>15. ASSUME NEW s \in Dirs, Live(s)', Prefix(s, p)
       PROVE  Walked(s, p)' \/ Announced(s, p)'
  <2>1. Live(s)
    BY <1>14, <1>15
  <2>2. CASE s = p
    <3>1. p \in fReader.walk
      BY <1>3, <2>1, <2>2 DEF Live, FilesInv, Apart
    <3>2. fReader.sub = p
      <4>1. s \notin fSubscribed
        BY <1>3, <2>1, <2>2 DEF Live, FilesInv, Apart
      <4> QED
        BY <2>1, <2>2, <4>1 DEF Live, Owners
    <3> QED
      BY <1>3, <2>2, <3>1, <3>2, PrefixOrder DEF Walked
  <2>3. CASE s # p
    <3>1. Prefix(s, up)
      BY <1>1, <1>15, <2>3, ChildBetween
    <3>2. Watched(s, up) \/ Walked(s, up) \/ Announced(s, up)
      BY <1>3, <2>1, <3>1 DEF FilesInv, AllReached
    <3>3. CASE Watched(s, up)
      <4>1. fInode[up] \in fKernel /\ Watched(s, up)'
        BY <1>3, <1>4, <1>9, <3>3 DEF Watched
      <4>2. Len(ev) = 1 /\ ev[1] = e
        BY <1>6, <4>1
      <4>3. Len(Queue) + 1 \in 1..Len(Queue)' /\ Queue'[Len(Queue) + 1] = e
        BY <1>8, <4>2
      <4>4. fInode'[up] = e.wd
        BY <1>4, <1>6, <1>9
      <4>5. Prefix(Append(up, e.name), p) /\ e.name \in Names
        BY <1>1, <1>6, PrefixOrder
      <4>6. Announced(s, p)'
        BY <1>1, <1>6, <4>1, <4>3, <4>4, <4>5 DEF Announced
      <4> QED
        BY <4>6
    <3>4. CASE Walked(s, up)
      <4>1. PICK q \in fReader.walk \cup fReader.watched :
              fReader.sub = s /\ Prefix(q, up) /\ (q \in fReader.walk \/ q # up)
        BY <3>4 DEF Walked
      <4>2. q \in Dirs
        BY <4>1 DEF FilesInv, FilesTyped
      <4>3. Prefix(q, p)
        BY <1>9, <4>1, <4>2, PrefixOrder
      <4>4. q # p
        BY <1>9, <4>1, <4>2, PrefixOrder
      <4> QED
        BY <1>3, <4>1, <4>3, <4>4 DEF Walked
    <3>5. CASE Announced(s, up)
      <4>1. PICK m \in 1..Len(Queue), q \in Dirs :
              /\ Len(q) < MaxDepth /\ Queue[m].name \in Names /\ Prefix(Append(q, Queue[m].name), up)
              /\ Queue[m].kind = "mkdir" /\ Queue[m].wd = fInode[q] /\ Watched(s, q)
        BY <3>5 DEF Announced
      <4>2. PICK n \in Names : n = Queue[m].name
        BY <4>1
      <4>3. PICK c \in Dirs : c = Append(q, n) /\ Prefix(q, c) /\ c # q
        BY <4>1, Appended
      <4>4. Prefix(c, up)
        BY <4>1, <4>2, <4>3
      <4>5. Prefix(c, p) /\ q # p
        BY <1>9, <4>3, <4>4, PrefixOrder
      <4>6. Watched(s, q)' /\ fInode'[q] = fInode[q]
        BY <1>3, <1>4, <4>1, <4>5 DEF Watched
      <4>7. m \in 1..Len(Queue)' /\ Queue'[m] = Queue[m]
        BY <1>8
      <4> QED
        BY <4>1, <4>2, <4>3, <4>5, <4>6, <4>7 DEF Announced
    <3> QED
      BY <3>2, <3>3, <3>4, <3>5
  <2> QED
    BY <2>2, <2>3
<1>16. AllReached'
  <2> SUFFICES ASSUME NEW s \in Dirs, NEW q \in Dirs, Live(s)', Files!Exists(q)', Prefix(s, q)
               PROVE  Watched(s, q)' \/ Walked(s, q)' \/ Announced(s, q)'
    BY DEF AllReached
  <2> QED
    BY <1>14, <1>15
<1> QED
  BY <1>8, <1>11, <1>12, <1>16 DEF FilesInv

\* The events of a directory that is removed, and of the one that it was in.
Removed(i, j) ==
  Files!Queued(Files!Event(i, "change", "none")) \o Files!Queued(Files!Event(i, "ignored", "none"))
    \o Files!Queued(Files!Event(j, "change", "none"))

LEMMA RemovalEvents ==
  ASSUME NEW i \in Nat, NEW j \in Nat, i # j, NEW ev, ev = Removed(i, j)
  PROVE  /\ ev \in Seq(FileEvents)
         /\ \A k \in 1..Len(ev) :
              /\ ev[k].wd \in fKernel /\ ev[k].kind # "mkdir"
              /\ ev[k].kind = "ignored" =>
                   ev[k].wd = i /\ \A n \in k + 1..Len(ev) : ev[n].wd # i
<1>0. PICK a, b, c : /\ a = Files!Event(i, "change", "none")
                     /\ b = Files!Event(i, "ignored", "none")
                     /\ c = Files!Event(j, "change", "none")
  OBVIOUS
<1>1. /\ a \in FileEvents /\ a.wd = i /\ a.kind = "change"
      /\ b \in FileEvents /\ b.wd = i /\ b.kind = "ignored"
      /\ c \in FileEvents /\ c.wd = j /\ c.kind = "change"
  BY <1>0, QueuedIs DEF Kinds
<1>2. PICK x \in Seq(FileEvents), y \in Seq(FileEvents), z \in Seq(FileEvents) :
        /\ x = Files!Queued(a) /\ y = Files!Queued(b) /\ z = Files!Queued(c)
        /\ Len(x) \in 0..1 /\ \A k \in 1..Len(x) : x[k] = a /\ i \in fKernel
        /\ Len(y) \in 0..1 /\ \A k \in 1..Len(y) : y[k] = b /\ i \in fKernel
        /\ Len(z) \in 0..1 /\ \A k \in 1..Len(z) : z[k] = c /\ j \in fKernel
  BY <1>0, QueuedIs DEF Kinds
<1>3. /\ ev = (x \o y) \o z /\ ev \in Seq(FileEvents) /\ Len(ev) = Len(x) + Len(y) + Len(z)
      /\ \A k \in 1..Len(x) : ev[k] = x[k]
      /\ \A k \in 1..Len(y) : ev[Len(x) + k] = y[k]
      /\ \A k \in 1..Len(z) : ev[Len(x) + Len(y) + k] = z[k]
  <2>1. ev = (x \o y) \o z
    BY <1>0, <1>2 DEF Removed
  <2> QED
    BY <2>1
<1>4. ASSUME NEW k \in 1..Len(ev)
      PROVE  /\ k <= Len(x) => ev[k] = a /\ i \in fKernel
             /\ Len(x) < k /\ k <= Len(x) + Len(y) => ev[k] = b /\ i \in fKernel
             /\ Len(x) + Len(y) < k => ev[k] = c /\ j \in fKernel
  <2>1. ASSUME k <= Len(x) PROVE ev[k] = a /\ i \in fKernel
    BY <1>2, <1>3, <1>4, <2>1
  <2>2. ASSUME Len(x) < k, k <= Len(x) + Len(y) PROVE ev[k] = b /\ i \in fKernel
    <3>1. PICK m \in 1..Len(y) : k = Len(x) + m
      <4>1. k - Len(x) \in 1..Len(y) /\ k = Len(x) + (k - Len(x))
        BY <1>2, <1>3, <1>4, <2>2
      <4> QED
        BY <4>1
    <3> QED
      BY <1>2, <1>3, <3>1
  <2>3. ASSUME Len(x) + Len(y) < k PROVE ev[k] = c /\ j \in fKernel
    <3>1. PICK m \in 1..Len(z) : k = Len(x) + Len(y) + m
      <4>1. /\ k - (Len(x) + Len(y)) \in 1..Len(z)
            /\ k = Len(x) + Len(y) + (k - (Len(x) + Len(y)))
        BY <1>2, <1>3, <1>4, <2>3
      <4> QED
        BY <4>1
    <3> QED
      BY <1>2, <1>3, <3>1
  <2> QED
    BY <2>1, <2>2, <2>3
<1>5. ASSUME NEW k \in 1..Len(ev)
      PROVE  /\ ev[k].wd \in fKernel /\ ev[k].kind # "mkdir"
             /\ ev[k].kind = "ignored" =>
                  ev[k].wd = i /\ \A n \in k + 1..Len(ev) : ev[n].wd # i
  <2>1. \/ k <= Len(x) \/ (Len(x) < k /\ k <= Len(x) + Len(y)) \/ Len(x) + Len(y) < k
    BY <1>2, <1>5
  <2>2. CASE k <= Len(x)
    BY <1>1, <1>4, <2>2
  <2>3. CASE Len(x) < k /\ k <= Len(x) + Len(y)
    <3>0. /\ Len(x) \in Nat /\ Len(y) \in Nat /\ Len(y) <= 1 /\ Len(z) \in Nat
          /\ Len(ev) = Len(x) + Len(y) + Len(z) /\ k \in 1..Len(ev)
      BY <1>2, <1>3, <1>5
    <3>1. ASSUME NEW n \in k + 1..Len(ev)
          PROVE  n \in 1..Len(ev) /\ Len(x) + Len(y) < n
      <4>1. /\ k \in Nat /\ Len(x) \in Nat /\ Len(y) \in Nat /\ Len(z) \in Nat /\ n \in Nat
            /\ Len(y) <= 1 /\ k + 1 <= n /\ n <= Len(ev)
        BY <3>0, <3>1
      <4>2. Len(x) + Len(y) <= k
        BY <2>3, <4>1
      <4> QED
        BY <4>1, <4>2
    <3>2. \A n \in k + 1..Len(ev) : ev[n].wd # i
      BY <1>1, <1>4, <3>1
    <3> QED
      BY <1>1, <1>4, <2>3, <3>2
  <2>4. CASE Len(x) + Len(y) < k
    BY <1>1, <1>4, <2>4
  <2> QED
    BY <2>1, <2>2, <2>3, <2>4
<1> QED
  BY <1>3, <1>5

LEMMA RemoveDirectoryKeeps ==
  ASSUME FilesInv, NEW p \in Dirs, Files!RemoveDirectory(p)
  PROVE  FilesInv'
<1>1. PICK up \in Dirs : up = Files!Front(p) /\ Prefix(up, p) /\ up # p
  <2>1. p # <<>>
    BY DEF Files!RemoveDirectory
  <2>2. PICK up \in Dirs, name \in Names :
          /\ up = Files!Front(p) /\ p = Append(up, name) /\ Len(up) < MaxDepth
    BY <2>1, FrontOf
  <2> QED
    BY <2>2, Appended
<1>2. /\ Files!Exists(p) /\ \A q \in Dirs : Prefix(p, q) /\ p # q => ~Files!Exists(q)
  BY DEF Files!RemoveDirectory, Files!Under, Prefix, Dirs
<1>3. Files!Exists(up)
  BY <1>1, <1>2 DEF FilesInv, Tree
<1>4. PICK i \in Nat, j \in Nat : i = fInode[p] /\ j = fInode[up]
  BY DEF FilesInv, FilesTyped
<1>5. i # j
  BY <1>1, <1>2, <1>4 DEF FilesInv, Tree
<1>6. PICK ev : ev = Removed(i, j)
  OBVIOUS
<1>8. /\ fInode' = [fInode EXCEPT ![p] = 0] /\ fKernel' = fKernel \ {i}
      /\ fInotify' = fInotify \o ev /\ fEdits' = fEdits + 1
      /\ fLost' = fLost \cup (fSubscribed \cap {p})
      /\ UNCHANGED <<fWds, fReader, fSubscribed>>
  BY <1>1, <1>4, <1>6 DEF Files!RemoveDirectory, Files!Edit, Files!NoName, Removed
<1>9. /\ ev \in Seq(FileEvents)
      /\ \A k \in 1..Len(ev) :
           /\ ev[k].wd \in fKernel /\ ev[k].kind # "mkdir"
           /\ ev[k].kind = "ignored" =>
                ev[k].wd = i /\ \A n \in k + 1..Len(ev) : ev[n].wd # i
  BY <1>5, <1>6, RemovalEvents
<1>10. /\ fInode \in [Dirs -> 0..fEdits + 1] /\ fEdits \in Nat
       /\ fInode' \in [Dirs -> 0..fEdits + 2]
       /\ \A q \in Dirs : fInode'[q] \in {fInode[q], 0}
       /\ \A q \in Dirs \ {p} : fInode'[q] = fInode[q]
       /\ fInode'[p] = 0 /\ fInode[p] = i /\ i # 0
  BY <1>2, <1>4, <1>8 DEF FilesInv, FilesTyped, Files!Exists
<1>11. \A q \in Dirs : fInode[q] = i => q = p
  BY <1>2, <1>4 DEF FilesInv, Tree
<1>12. /\ FilesTyped' /\ WatchesFit' /\ EventsFit' /\ WalkFits'
       /\ Owners' = Owners
       /\ \A m \in 1..Len(Queue) : m \in 1..Len(Queue)' /\ Queue'[m] = Queue[m]
  <2>1. \A q \in Dirs : fInode'[q] # i
    BY <1>10, <1>11
  <2>2. \A k \in 1..Len(ev) :
           /\ ev[k].wd \in fKernel
           /\ ev[k].kind = "mkdir" =>
                Len(fWds[ev[k].wd].path) < MaxDepth /\ ev[k].name \in Names
           /\ ev[k].kind = "ignored" =>
                /\ ev[k].wd \notin fKernel'
                /\ \A q \in Dirs : fInode'[q] # ev[k].wd
                /\ \A n \in k + 1..Len(ev) : ev[n].wd # ev[k].wd
    BY <1>8, <1>9, <2>1
  <2>3. /\ fKernel' \subseteq fKernel /\ fLost \subseteq fLost' /\ fLost' \subseteq fLost \cup fSubscribed
        /\ \A q \in Dirs : fInode'[q] \in {fInode[q], 0, fEdits + 2}
    BY <1>8, <1>10
  <2> QED
    BY <1>8, <1>9, <1>10, <2>2, <2>3, QueueGrows
<1>13. \A q \in Dirs : Files!Exists(q)' <=> Files!Exists(q) /\ q # p
  BY <1>10 DEF Files!Exists
<1>14. Tree'
  <2> SUFFICES ASSUME NEW d \in Dirs, NEW o \in Dirs, Files!Exists(d)'
               PROVE  (Prefix(o, d) => Files!Exists(o)') /\ (fInode'[d] = fInode'[o] => d = o)
    BY DEF Tree
  <2>1. Files!Exists(d) /\ d # p
    BY <1>13
  <2>2. Prefix(o, d) => Files!Exists(o)'
    <3>1. Prefix(o, d) => Files!Exists(o) /\ o # p
      BY <1>2, <2>1 DEF FilesInv, Tree
    <3> QED
      BY <1>13, <3>1
  <2>3. fInode'[d] = fInode'[o] => d = o
    BY <1>10, <2>1 DEF FilesInv, Tree, Files!Exists
  <2> QED
    BY <2>2, <2>3
<1>15. Apart'
  <2>1. fSubscribed \subseteq Dirs
    BY DEF FilesInv, FilesTyped
  <2>2. \A s \in fSubscribed \ fLost' : Files!Exists(s)'
    BY <1>8, <1>13, <2>1 DEF FilesInv, Apart
  <2>3. \A s \in fSubscribed \ fLost' : \A o \in fSubscribed \cup fLost' : Overlap(s, o) => o = s
    BY <1>8 DEF FilesInv, Apart
  <2> QED
    BY <1>8, <2>2, <2>3 DEF Apart, Overlap
<1>16. AllReached'
  <2>1. \A q \in Dirs \ {p} : fInode'[q] = fInode[q] /\ (fInode[q] \in fKernel => fInode[q] \in fKernel')
    BY <1>8, <1>10, <1>11
  <2>2. fLost \subseteq fLost' /\ fKernel' \subseteq fKernel
    BY <1>8
  <2>3. Files!Exists(p)' => fInode'[p] = fInode[p] \/ fInode'[p] \notin fKernel
    BY <1>13
  <2>4. \A s, q \in Dirs :
            Live(s)' /\ Files!Exists(q)' /\ Prefix(s, q) /\ q # p
              => Watched(s, q)' \/ Walked(s, q)' \/ Announced(s, q)'
    BY <1>2, <1>8, <1>12, <2>1, <2>2, <2>3, OthersKeep
  <2> QED
    BY <1>13, <2>4 DEF AllReached
<1> QED
  BY <1>12, <1>14, <1>15, <1>16 DEF FilesInv

\* Steps that move events from one queue to the other, and no directory.
LEMMA NotWalking ==
  ASSUME FilesInv, ~Files!Walking, ~Files!Walking', FilesTyped', Owners' = Owners, Queue' = Queue,
         UNCHANGED <<fInode, fKernel, fWds, fSubscribed, fLost>>
  PROVE  FilesInv'
<1>1. /\ fReader.walk = {} /\ fReader.watched = {}
      /\ fReader'.walk = {} /\ fReader'.watched = {}
  BY DEF Files!Walking
<1>2. Tree' /\ WatchesFit' /\ Apart'
  BY DEF FilesInv, Tree, WatchesFit, Apart, Files!Exists
<1>3. EventsFit' /\ WalkFits'
  BY DEF FilesInv, EventsFit, WalkFits
<1>4. AllReached'
  <2> SUFFICES ASSUME NEW s \in Dirs, NEW p \in Dirs, Live(s)', Files!Exists(p)', Prefix(s, p)
               PROVE  Watched(s, p)' \/ Walked(s, p)' \/ Announced(s, p)'
    BY DEF AllReached
  <2>1. Live(s) /\ Files!Exists(p)
    BY <1>1 DEF Live, Files!Exists, Overlap
  <2>2. Watched(s, p) \/ Announced(s, p)
    BY <1>1, <2>1 DEF FilesInv, AllReached, Walked
  <2>3. \A q \in Dirs : Watched(s, q) => Watched(s, q)' /\ fInode'[q] = fInode[q]
    BY DEF Watched
  <2>4. \A m \in 1..Len(Queue) : \E n \in 1..Len(Queue)' : Queue'[n] = Queue[m]
    OBVIOUS
  <2> QED
    BY <2>2, <2>3, <2>4, AnnouncedStays
<1> QED
  BY <1>2, <1>3, <1>4 DEF FilesInv

LEMMA ReadingKeeps ==
  ASSUME FilesInv, Files!ReadEvents \/ Files!ReadDone \/ Files!OnAggrTimer
  PROVE  FilesInv'
<1>1. /\ Files!Idle.at = "idle" /\ Files!Idle.batch = <<>>
      /\ Files!Idle.walk = {} /\ Files!Idle.watched = {}
  BY IdleIs
<1>2. fInotify \in Seq(FileEvents) /\ fReader.batch \in Seq(FileEvents)
  BY DEF FilesInv, FilesTyped
<1>3. ASSUME NEW q \in Seq(FileEvents) PROVE <<>> \o q = q /\ q \o <<>> = q
  BY ConcatEmptySeq
<1>4. CASE Files!ReadEvents
  <2> DEFINE x == [Files!Idle EXCEPT !.at = "events", !.batch = fInotify]
  <2>1. /\ fReader = Files!Idle /\ fReader' = x /\ fInotify' = <<>>
        /\ UNCHANGED <<fInode, fKernel, fWds, fSubscribed, fLost, fEdits>>
    BY <1>4 DEF Files!ReadEvents
  <2>2. /\ x \in [at: {"idle", "subscribe", "events"}, batch: Seq(FileEvents), sub: Dirs,
                  walk: SUBSET Dirs, watched: SUBSET Dirs]
        /\ x.at = "events" /\ x.batch = fInotify /\ x.walk = {} /\ x.watched = {}
    BY <1>2, IdleIs
  <2> HIDE DEF x
  <2>3. FilesTyped'
    BY <2>1, <2>2, EmptySeq DEF FilesInv, FilesTyped
  <2>4. Owners' = Owners
    BY <1>1, <2>1, <2>2 DEF Owners
  <2>5. Queue' = Queue
    BY <1>1, <1>2, <1>3, <2>1, <2>2 DEF Queue
  <2>6. ~Files!Walking /\ ~Files!Walking'
    BY <1>1, <2>1, <2>2 DEF Files!Walking
  <2> QED
    BY <2>1, <2>3, <2>4, <2>5, <2>6, NotWalking
<1>5. CASE Files!ReadDone
  <2>1. /\ fReader.at = "events" /\ fReader.batch = <<>> /\ ~Files!Walking /\ fReader' = Files!Idle
        /\ UNCHANGED <<fInode, fKernel, fWds, fSubscribed, fLost, fEdits, fInotify>>
    BY <1>5 DEF Files!ReadDone
  <2>2. FilesTyped'
    BY <2>1, IdleIs DEF FilesInv, FilesTyped
  <2>3. Owners' = Owners /\ Queue' = Queue
    BY <1>1, <2>1 DEF Owners, Queue
  <2>4. ~Files!Walking'
    BY <1>1, <2>1 DEF Files!Walking
  <2> QED
    BY <2>1, <2>2, <2>3, <2>4, NotWalking
<1>6. CASE Files!OnAggrTimer
  <2>1. /\ fReader = Files!Idle
        /\ UNCHANGED <<fInode, fKernel, fWds, fSubscribed, fLost, fEdits, fInotify, fReader>>
    BY <1>6 DEF Files!OnAggrTimer
  <2>2. FilesTyped' /\ Owners' = Owners /\ Queue' = Queue
    BY <2>1 DEF FilesInv, FilesTyped, Owners, Queue
  <2>3. ~Files!Walking /\ ~Files!Walking'
    BY <1>1, <2>1 DEF Files!Walking
  <2> QED
    BY <2>1, <2>2, <2>3, NotWalking
<1> QED
  BY <1>4, <1>5, <1>6

\* A new subscription has everything yet to walk.
LEMMA FilesSubscribeKeeps ==
  ASSUME FilesInv, NEW p \in Dirs, Files!Subscribe(p)
  PROVE  FilesInv'
<1> DEFINE x == [Files!Idle EXCEPT !.at = "subscribe", !.sub = p, !.walk = {p}]
<1>1. /\ fReader = Files!Idle /\ fReader' = x
      /\ UNCHANGED <<fInode, fKernel, fWds, fSubscribed, fLost, fEdits, fInotify>>
  BY DEF Files!Subscribe
<1>2. /\ fReader.at = "idle" /\ fReader.batch = <<>> /\ fReader.walk = {} /\ fReader.watched = {}
  BY <1>1 DEF Files!Idle
<1>3. /\ x \in [at: {"idle", "subscribe", "events"}, batch: Seq(FileEvents), sub: Dirs,
                walk: SUBSET Dirs, watched: SUBSET Dirs]
      /\ x.at = "subscribe" /\ x.batch = <<>> /\ x.walk = {p} /\ x.watched = {} /\ x.sub = p
  BY EmptySeq DEF Files!Idle
<1> HIDE DEF x
<1>4. FilesTyped'
  BY <1>1, <1>3 DEF FilesInv, FilesTyped
<1>5. Owners' = Owners \cup {p} /\ Queue' = Queue
  BY <1>1, <1>2, <1>3 DEF Owners, Queue
<1>6. Tree' /\ WatchesFit' /\ EventsFit' /\ Apart'
  BY <1>1, <1>5 DEF FilesInv, Tree, WatchesFit, EventsFit, Apart, Files!Exists
<1>7. WalkFits'
  BY <1>1, <1>3, <1>5, PrefixOrder DEF WalkFits
<1>8. AllReached'
  <2> SUFFICES ASSUME NEW s \in Dirs, NEW q \in Dirs, Live(s)', Files!Exists(q)', Prefix(s, q)
               PROVE  Watched(s, q)' \/ Walked(s, q)' \/ Announced(s, q)'
    BY DEF AllReached
  <2>1. CASE s = p
    BY <1>1, <1>3, <2>1 DEF Walked
  <2>2. CASE s # p
    <3>1. Live(s) /\ Files!Exists(q)
      BY <1>1, <1>3, <1>5, <2>2 DEF Live, Files!Exists, Overlap
    <3>2. Watched(s, q) \/ Announced(s, q)
      BY <1>2, <3>1 DEF FilesInv, AllReached, Walked
    <3>3. \A d \in Dirs : Watched(s, d) => Watched(s, d)' /\ fInode'[d] = fInode[d]
      BY <1>1 DEF Watched
    <3>4. \A m \in 1..Len(Queue) : \E n \in 1..Len(Queue)' : Queue'[n] = Queue[m]
      BY <1>5
    <3> QED
      BY <3>2, <3>3, <3>4, AnnouncedStays
  <2> QED
    BY <2>1, <2>2
<1> QED
  BY <1>4, <1>6, <1>7, <1>8 DEF FilesInv

\* The subscriptions that are done are told of everything, or lost.
LEMMA SubscribeDoneKeeps ==
  ASSUME FilesInv, Files!SubscribeDone
  PROVE  FilesInv'
<1> DEFINE sub == fReader.sub
<1>1. /\ fReader.at = "subscribe" /\ ~Files!Walking /\ fReader' = Files!Idle
      /\ fSubscribed' = fSubscribed \cup {sub}
      /\ UNCHANGED <<fInode, fKernel, fWds, fEdits, fInotify>>
  BY DEF Files!SubscribeDone
<1>2. PICK others \in SUBSET (fSubscribed \cup fLost) :
        /\ others = {s \in fSubscribed \cup fLost : s # sub /\ Overlap(s, sub)}
        /\ fLost \cup others \subseteq fLost' /\ fLost' \subseteq fLost \cup others \cup {sub}
        /\ sub \notin fLost' => others = {} /\ Files!Exists(sub) /\ fInode[sub] \in fKernel
  <2> DEFINE o == {s \in fSubscribed \cup fLost :
                     s # sub /\ (Files!IsPrefix(s, sub) \/ Files!IsPrefix(sub, s))}
             m == ~Files!Exists(sub) \/ fInode[sub] \notin fKernel
  <2>1. fLost' = fLost \cup o \cup {s \in {sub} : o # {} \/ m}
    BY DEF Files!SubscribeDone
  <2>2. o = {s \in fSubscribed \cup fLost : s # sub /\ Overlap(s, sub)}
    BY DEF Overlap, Prefix
  <2> QED
    BY <2>1, <2>2
<1>3. /\ Files!Idle.at = "idle" /\ Files!Idle.batch = <<>> /\ Files!Idle.walk = {}
      /\ Files!Idle.watched = {} /\ Files!Idle.sub = <<>>
  BY IdleIs
<1>4. fReader.batch = <<>> /\ sub \in Dirs /\ fReader.walk = {} /\ fReader.watched = {}
  BY <1>1 DEF FilesInv, FilesTyped, Files!Walking
<1>5. FilesTyped'
  <2>1. fSubscribed' \subseteq Dirs /\ fLost' \subseteq Dirs
    BY <1>1, <1>2, <1>4 DEF FilesInv, FilesTyped
  <2> QED
    BY <1>1, <2>1, IdleIs DEF FilesInv, FilesTyped
<1>6. Owners = fSubscribed \cup fLost \cup {sub} /\ Owners' = Owners
  BY <1>1, <1>2, <1>3 DEF Owners
<1>7. Queue' = Queue
  BY <1>1, <1>3, <1>4 DEF Queue
<1>8. Tree' /\ WatchesFit' /\ EventsFit'
  BY <1>1, <1>6, <1>7 DEF FilesInv, Tree, WatchesFit, EventsFit, Files!Exists
<1>9. WalkFits'
  BY <1>1, <1>3 DEF WalkFits, Files!Walking
<1>10. ASSUME NEW s \in fSubscribed' \ fLost'
       PROVE  /\ s \in Dirs /\ Files!Exists(s)' /\ (s \in fSubscribed \/ fInode[s] \in fKernel)
              /\ \A o \in Owners : Overlap(s, o) => o = s
  <2>1. s \in Dirs
    BY <1>5 DEF FilesTyped
  <2>2. CASE s = sub
    <3>1. others = {} /\ Files!Exists(sub) /\ fInode[sub] \in fKernel
      BY <1>2, <1>10, <2>2
    <3>2. \A o \in Owners : Overlap(s, o) => o = s
      BY <1>2, <1>6, <2>2, <3>1 DEF Overlap
    <3> QED
      BY <1>1, <2>1, <2>2, <3>1, <3>2 DEF Files!Exists
  <2>3. CASE s # sub
    <3>1. s \in fSubscribed \ fLost /\ s \notin others
      BY <1>1, <1>2, <1>10, <2>3
    <3>2. ~Overlap(s, sub)
      BY <1>2, <2>3, <3>1
    <3>3. Files!Exists(s) /\ \A o \in fSubscribed \cup fLost : Overlap(s, o) => o = s
      BY <3>1 DEF FilesInv, Apart
    <3> QED
      BY <1>1, <1>6, <2>1, <3>1, <3>2, <3>3 DEF Files!Exists
  <2> QED
    BY <2>2, <2>3
<1>11. Apart'
  <2>1. fSubscribed' \cup fLost' \subseteq Owners
    BY <1>6 DEF Owners
  <2> QED
    BY <1>10, <2>1 DEF Apart, Overlap
<1>12. AllReached'
  <2> SUFFICES ASSUME NEW s \in Dirs, NEW q \in Dirs, Live(s)', Files!Exists(q)', Prefix(s, q)
               PROVE  Watched(s, q)' \/ Walked(s, q)' \/ Announced(s, q)'
    BY DEF AllReached
  <2>1. s \in fSubscribed' \ fLost'
    BY <1>1, <1>3 DEF Live, Owners
  <2>2. Live(s) /\ Files!Exists(q)
    <3>1. Files!Exists(s) /\ (s \in fSubscribed \/ fInode[s] \in fKernel)
      BY <1>1, <1>10, <2>1 DEF Files!Exists
    <3>2. s \in Owners \ fLost /\ \A o \in Owners : Overlap(s, o) => o = s
      BY <1>1, <1>2, <1>6, <1>10, <2>1
    <3> QED
      BY <1>1, <3>1, <3>2 DEF Live, Files!Exists
  <2>3. Watched(s, q) \/ Announced(s, q)
    BY <1>4, <2>2 DEF FilesInv, AllReached, Walked
  <2>4. \A d \in Dirs : Watched(s, d) => Watched(s, d)' /\ fInode'[d] = fInode[d]
    BY <1>1 DEF Watched
  <2>5. \A m \in 1..Len(Queue) : \E n \in 1..Len(Queue)' : Queue'[n] = Queue[m]
    BY <1>7
  <2> QED
    BY <2>3, <2>4, <2>5, AnnouncedStays
<1> QED
  BY <1>5, <1>8, <1>9, <1>11, <1>12 DEF FilesInv

\* A watch more: of a directory that is below the subscription that it is for, and so is
\* not below another that is told.
LEMMA AddWatchKeeps ==
  ASSUME FilesInv, Files!AddWatch
  PROVE  FilesInv'
<1> DEFINE sub == fReader.sub
<1>1. PICK d \in fReader.walk :
        /\ fReader.watched = {}
        /\ \/ /\ fInode[d] = 0
              /\ fReader' = [fReader EXCEPT !.walk = @ \ {d}] /\ UNCHANGED <<fKernel, fWds>>
           \/ /\ fInode[d] # 0
              /\ fKernel' = fKernel \cup {fInode[d]}
              /\ fWds' = [i \in DOMAIN fWds \cup {fInode[d]} |->
                            IF i = fInode[d] THEN [sub |-> sub, path |-> d] ELSE fWds[i]]
              /\ fReader' = [fReader EXCEPT !.walk = @ \ {d}, !.watched = {d}]
        /\ UNCHANGED <<fInode, fSubscribed, fLost, fEdits, fInotify>>
  BY DEF Files!AddWatch
<1>2. /\ fReader \in [at: {"idle", "subscribe", "events"}, batch: Seq(FileEvents), sub: Dirs,
                      walk: SUBSET Dirs, watched: SUBSET Dirs]
      /\ d \in Dirs /\ sub \in Dirs /\ sub \in Owners /\ Prefix(sub, d) /\ fReader.at # "idle"
  BY <1>1 DEF FilesInv, FilesTyped, WalkFits, Files!Walking
<1>3. PICK w \in SUBSET {d} :
        /\ fReader' = [fReader EXCEPT !.walk = fReader.walk \ {d}, !.watched = w]
        /\ fInode[d] # 0 => w = {d}
        /\ fInode[d] = 0 => w = {}
  <2>1. CASE fInode[d] = 0
    <3>1. [fReader EXCEPT !.walk = fReader.walk \ {d}]
            = [fReader EXCEPT !.walk = fReader.walk \ {d}, !.watched = {}]
      BY <1>1, <1>2
    <3> QED
      BY <1>1, <2>1, <3>1
  <2>2. CASE fInode[d] # 0
    BY <1>1, <2>2
  <2> QED
    BY <2>1, <2>2
<1>4. /\ fReader'.at = fReader.at /\ fReader'.batch = fReader.batch /\ fReader'.sub = sub
      /\ fReader'.walk = fReader.walk \ {d} /\ fReader'.watched = w
      /\ fReader' \in [at: {"idle", "subscribe", "events"}, batch: Seq(FileEvents), sub: Dirs,
                       walk: SUBSET Dirs, watched: SUBSET Dirs]
  BY <1>2, <1>3
<1>5. Owners' = Owners /\ Queue' = Queue
  BY <1>1, <1>4 DEF Owners, Queue
<1>6. Tree' /\ Apart'
  BY <1>1 DEF FilesInv, Tree, Apart, Files!Exists
<1>7. WalkFits'
  BY <1>2, <1>4, <1>5 DEF FilesInv, WalkFits, Files!Walking
<1>8. fInode[d] \in 0..fEdits + 1 /\ fEdits \in Nat
  BY <1>2 DEF FilesInv, FilesTyped
<1>9. FilesTyped'
  <2>1. fKernel' \subseteq DOMAIN fWds' /\ DOMAIN fWds' \subseteq 1..fEdits + 1
    BY <1>1, <1>8 DEF FilesInv, FilesTyped
  <2> QED
    BY <1>1, <1>2, <1>4, <2>1 DEF FilesInv, FilesTyped
<1>10. \A p \in Dirs : fInode[p] = fInode[d] /\ fInode[d] # 0 => p = d
  BY <1>2 DEF FilesInv, Tree, Files!Exists
\* What is watched belongs to the path that it did.
<1>11. /\ DOMAIN fWds \subseteq DOMAIN fWds'
       /\ \A i \in DOMAIN fWds' : \/ i \in DOMAIN fWds /\ fWds'[i] = fWds[i]
                                  \/ /\ i = fInode[d] /\ fInode[d] # 0
                                     /\ fWds'[i] = [sub |-> sub, path |-> d]
                                     /\ fWds'[i].sub = sub /\ fWds'[i].path = d
       /\ \A i \in DOMAIN fWds : fWds'[i].path = fWds[i].path
  <2>1. fInode[d] \in DOMAIN fWds => fWds[fInode[d]].path = d
    BY <1>2 DEF FilesInv, WatchesFit
  <2> QED
    BY <1>1, <2>1
<1>12. WatchesFit'
  <2> SUFFICES ASSUME NEW i \in DOMAIN fWds'
               PROVE  /\ fWds'[i] \in [sub: Owners, path: Dirs]
                      /\ Prefix(fWds'[i].sub, fWds'[i].path)
                      /\ \A p \in Dirs : fInode[p] = i => p = fWds'[i].path
    BY <1>1, <1>5 DEF WatchesFit
  <2>1. CASE i \in DOMAIN fWds /\ fWds'[i] = fWds[i]
    BY <2>1 DEF FilesInv, WatchesFit
  <2>2. CASE i = fInode[d] /\ fInode[d] # 0 /\ fWds'[i] = [sub |-> sub, path |-> d]
    BY <1>2, <1>10, <2>2
  <2> QED
    BY <1>11, <2>1, <2>2
<1>13. EventsFit'
  <2>1. \A i : i \in DOMAIN fWds => i \in DOMAIN fWds' /\ Len(fWds'[i].path) = Len(fWds[i].path)
    BY <1>11
  <2>2. \A i : i \notin fKernel /\ (\A p \in Dirs : fInode[p] # i) => i \notin fKernel'
    BY <1>1, <1>2
  <2> QED
    BY <1>1, <1>5, <2>1, <2>2 DEF FilesInv, EventsFit
<1>14. ASSUME NEW s \in Dirs, Live(s)'
       PROVE  Live(s)
  <2>1. s \in Owners \ fLost /\ \A o \in Owners : Overlap(s, o) => o = s
    BY <1>1, <1>5, <1>14 DEF Live, Overlap
  <2>2. s \in fSubscribed \/ s \in fReader.walk \/ (Files!Exists(s) /\ fInode[s] \in fKernel')
    BY <1>1, <1>4, <1>14 DEF Live, Files!Exists
  <2>3. CASE Files!Exists(s) /\ fInode[s] \in fKernel' /\ fInode[s] \notin fKernel
    <3>1. s = d
      BY <1>1, <1>10, <2>3 DEF Files!Exists
    <3> QED
      BY <2>1, <3>1 DEF Live
  <2> QED
    BY <2>1, <2>2, <2>3 DEF Live
<1>15. ASSUME NEW s \in Dirs, Live(s), NEW q \in Dirs, Watched(s, q)
       PROVE  Watched(s, q)'
  <2>1. fInode[q] \in DOMAIN fWds /\ fInode[q] \in fKernel'
    BY <1>1, <1>15 DEF Watched, FilesInv, FilesTyped
  <2>2. CASE fWds'[fInode[q]] = fWds[fInode[q]]
    BY <1>1, <1>15, <2>1, <2>2 DEF Watched
  <2>3. CASE fInode[q] = fInode[d] /\ fInode[d] # 0 /\ fWds'[fInode[q]].sub = sub /\ fWds'[fInode[q]].path = d
    <3>1. q = d
      BY <1>10, <2>3
    <3>2. Prefix(s, d)
      BY <1>15, <2>1, <3>1 DEF Watched, FilesInv, WatchesFit
    <3>3. Overlap(s, sub)
      BY <1>2, <3>2, PrefixOrder
    <3>4. sub = s
      BY <1>2, <1>15, <3>3 DEF Live
    <3> QED
      BY <1>1, <2>1, <2>3, <3>1, <3>4 DEF Watched
  <2> QED
    BY <1>11, <2>1, <2>2, <2>3
<1>16. AllReached'
  <2> SUFFICES ASSUME NEW s \in Dirs, NEW q \in Dirs, Live(s)', Files!Exists(q)', Prefix(s, q)
               PROVE  Watched(s, q)' \/ Walked(s, q)' \/ Announced(s, q)'
    BY DEF AllReached
  <2>1. Live(s) /\ Files!Exists(q)
    BY <1>1, <1>14 DEF Files!Exists
  <2>2. Watched(s, q) \/ Walked(s, q) \/ Announced(s, q)
    BY <2>1 DEF FilesInv, AllReached
  <2>3. CASE Announced(s, q)
    <3>1. \A e \in Dirs : Watched(s, e) => Watched(s, e)' /\ fInode'[e] = fInode[e]
      BY <1>1, <1>15, <2>1
    <3>2. \A m \in 1..Len(Queue) : \E n \in 1..Len(Queue)' : Queue'[n] = Queue[m]
      BY <1>5
    <3> QED
      BY <2>3, <3>1, <3>2, AnnouncedStays
  <2>4. CASE Walked(s, q)
    <3>1. PICK e \in fReader.walk : sub = s /\ Prefix(e, q)
      BY <1>1, <2>4 DEF Walked
    <3>2. CASE e # d
      BY <1>4, <3>1, <3>2 DEF Walked
    <3>3. CASE e = d
      <4>1. fInode[d] # 0
        BY <1>2, <2>1, <3>1, <3>3 DEF FilesInv, Tree, Files!Exists
      <4>2. CASE q = d
        <5>1. fInode[d] \in fKernel' /\ fWds'[fInode[d]].sub = s /\ fWds'[fInode[d]].path = d
          BY <1>1, <3>1, <4>1
        <5> QED
          BY <1>1, <4>2, <5>1 DEF Watched
      <4>3. CASE q # d
        <5>1. d \in fReader'.watched
          BY <1>3, <1>4, <4>1
        <5> QED
          BY <1>4, <3>1, <3>3, <4>3, <5>1 DEF Walked
      <4> QED
        BY <4>2, <4>3
    <3> QED
      BY <3>2, <3>3
  <2> QED
    BY <1>15, <2>1, <2>2, <2>3, <2>4
<1> QED
  BY <1>6, <1>7, <1>9, <1>12, <1>13, <1>16 DEF FilesInv

\* The list of a directory that is watched has all that is on the way to what is below it.
LEMMA ListKeeps ==
  ASSUME FilesInv, Files!List
  PROVE  FilesInv'
<1>1. PICK d \in fReader.watched :
        /\ fReader' = [fReader EXCEPT !.walk = @ \cup Files!Children(d), !.watched = {}]
        /\ UNCHANGED <<fInode, fKernel, fWds, fSubscribed, fLost, fEdits, fInotify>>
  BY DEF Files!List
<1>2. /\ fReader \in [at: {"idle", "subscribe", "events"}, batch: Seq(FileEvents), sub: Dirs,
                      walk: SUBSET Dirs, watched: SUBSET Dirs]
      /\ d \in Dirs /\ fReader.sub \in Dirs /\ fReader.sub \in Owners /\ Prefix(fReader.sub, d)
      /\ fReader.at # "idle"
  BY <1>1 DEF FilesInv, FilesTyped, WalkFits, Files!Walking
<1>3. /\ Files!Children(d) \subseteq Dirs
      /\ \A c \in Dirs : c \in Files!Children(d) <=> c # <<>> /\ Files!Front(c) = d /\ Files!Exists(c)
  BY DEF Files!Children, Dirs
<1>4. /\ fReader'.at = fReader.at /\ fReader'.batch = fReader.batch /\ fReader'.sub = fReader.sub
      /\ fReader'.walk = fReader.walk \cup Files!Children(d) /\ fReader'.watched = {}
      /\ fReader' \in [at: {"idle", "subscribe", "events"}, batch: Seq(FileEvents), sub: Dirs,
                       walk: SUBSET Dirs, watched: SUBSET Dirs]
  BY <1>1, <1>2, <1>3
<1>5. ASSUME NEW c \in Files!Children(d)
      PROVE  c \in Dirs /\ Prefix(d, c) /\ c # d
  <2>1. c \in Dirs /\ c # <<>> /\ Files!Front(c) = d
    BY <1>3, <1>5
  <2>2. PICK n \in Names : c = Append(d, n) /\ Len(d) < MaxDepth
    BY <2>1, FrontOf
  <2> QED
    BY <1>2, <2>1, <2>2, Appended
<1>6. ASSUME NEW c \in Files!Children(d)
      PROVE  Prefix(fReader.sub, c) /\ c # fReader.sub
  BY <1>2, <1>5, PrefixOrder
<1>7. Owners' = Owners /\ Queue' = Queue
  BY <1>1, <1>4 DEF Owners, Queue
<1>8. FilesTyped'
  BY <1>1, <1>2, <1>4 DEF FilesInv, FilesTyped
<1>9. Tree' /\ WatchesFit' /\ EventsFit' /\ Apart'
  BY <1>1, <1>7 DEF FilesInv, Tree, WatchesFit, EventsFit, Apart, Files!Exists
<1>10. WalkFits'
  BY <1>2, <1>4, <1>6, <1>7 DEF FilesInv, WalkFits, Files!Walking
<1>11. ASSUME NEW s \in Dirs, Live(s)'
       PROVE  Live(s)
  <2>1. s \in Owners \ fLost /\ \A o \in Owners : Overlap(s, o) => o = s
    BY <1>1, <1>7, <1>11 DEF Live, Overlap
  <2>2. s \in fSubscribed \/ s = fReader.sub
    BY <2>1 DEF Owners
  <2>3. s \in fSubscribed \/ s \in fReader.walk \/ (Files!Exists(s) /\ fInode[s] \in fKernel)
    BY <1>1, <1>4, <1>6, <1>11, <2>2 DEF Live, Files!Exists
  <2> QED
    BY <2>1, <2>3 DEF Live
<1>12. AllReached'
  <2> SUFFICES ASSUME NEW s \in Dirs, NEW q \in Dirs, Live(s)', Files!Exists(q)', Prefix(s, q)
               PROVE  Watched(s, q)' \/ Walked(s, q)' \/ Announced(s, q)'
    BY DEF AllReached
  <2>1. Live(s) /\ Files!Exists(q)
    BY <1>1, <1>11 DEF Files!Exists
  <2>2. Watched(s, q) \/ Walked(s, q) \/ Announced(s, q)
    BY <2>1 DEF FilesInv, AllReached
  <2>3. \A e \in Dirs : Watched(s, e) => Watched(s, e)' /\ fInode'[e] = fInode[e]
    BY <1>1 DEF Watched
  <2>4. CASE Announced(s, q)
    <3>1. \A m \in 1..Len(Queue) : \E n \in 1..Len(Queue)' : Queue'[n] = Queue[m]
      BY <1>7
    <3> QED
      BY <2>3, <2>4, <3>1, AnnouncedStays
  <2>5. CASE Walked(s, q)
    <3>1. CASE \E e \in fReader.walk : Prefix(e, q)
      BY <1>4, <2>5, <3>1 DEF Walked
    <3>2. CASE Prefix(d, q) /\ d # q
      <4>1. PICK n \in Names : Len(d) < MaxDepth /\ Prefix(Append(d, n), q)
        BY <1>2, <3>2, ChildBetween
      <4>2. PICK c \in Dirs : c = Append(d, n) /\ c # <<>> /\ Files!Front(c) = d
        BY <1>2, <4>1, Appended
      <4>3. Prefix(c, q)
        BY <4>1, <4>2
      <4>4. Files!Exists(c)
        BY <2>1, <4>3 DEF FilesInv, Tree
      <4>5. c \in fReader'.walk
        BY <1>3, <1>4, <4>2, <4>4
      <4> QED
        BY <1>4, <2>5, <4>3, <4>5 DEF Walked
    <3>3. fReader.watched = {d}
      BY <1>1 DEF FilesInv, WalkFits, Files!Walking
    <3> QED
      BY <2>5, <3>1, <3>2, <3>3 DEF Walked
  <2> QED
    BY <2>2, <2>3, <2>4, <2>5
<1> QED
  BY <1>8, <1>9, <1>10, <1>12 DEF FilesInv

\* Events that are dropped from the beginning leave the rest in order.
LEMMA EventsShift ==
  ASSUME EventsFit, NEW d \in Nat, NEW len \in Nat, len = Len(Queue), Len(Queue)' \in Nat,
         Len(Queue)' + d = len,
         \A m \in 1..Len(Queue)' : Queue'[m] = Queue[m + d] /\ Queue'[m].wd \in DOMAIN fWds',
         \A i \in DOMAIN fWds' : i \in DOMAIN fWds /\ fWds'[i] = fWds[i],
         UNCHANGED <<fInode, fKernel>>
  PROVE  EventsFit'
<1> SUFFICES ASSUME NEW m \in 1..Len(Queue)'
             PROVE  /\ Queue'[m].wd \in DOMAIN fWds'
                    /\ Queue'[m].kind = "mkdir" =>
                         Len(fWds'[Queue'[m].wd].path) < MaxDepth /\ Queue'[m].name \in Names
                    /\ Queue'[m].kind = "ignored" =>
                         /\ Queue'[m].wd \notin fKernel
                         /\ \A p \in Dirs : fInode[p] # Queue'[m].wd
                         /\ \A n \in m + 1..Len(Queue)' : Queue'[n].wd # Queue'[m].wd
  BY DEF EventsFit
<1>1. m + d \in 1..Len(Queue) /\ Queue'[m] = Queue[m + d] /\ Queue'[m].wd \in DOMAIN fWds'
  OBVIOUS
<1>2. \A n \in m + 1..Len(Queue)' : n \in 1..Len(Queue)' /\ n + d \in m + d + 1..Len(Queue)
  OBVIOUS
<1>3. /\ Queue[m + d].kind = "mkdir" =>
           Len(fWds[Queue[m + d].wd].path) < MaxDepth /\ Queue[m + d].name \in Names
      /\ Queue[m + d].kind = "ignored" =>
           /\ Queue[m + d].wd \notin fKernel
           /\ \A p \in Dirs : fInode[p] # Queue[m + d].wd
           /\ \A n \in m + d + 1..Len(Queue) : Queue[n].wd # Queue[m + d].wd
  BY <1>1 DEF EventsFit
<1>4. Queue[m + d].kind = "ignored" =>
        \A n \in m + 1..Len(Queue)' : Queue'[n].wd # Queue'[m].wd
  BY <1>1, <1>2, <1>3
<1> QED
  BY <1>1, <1>3, <1>4

\* A list that fails loses all subscriptions that there are.
LEMMA ListFailsKeeps ==
  ASSUME FilesInv, Files!ListFails
  PROVE  FilesInv'
<1>1. /\ fReader' = Files!Idle
      /\ fLost' = fLost \cup fSubscribed \cup {s \in {fReader.sub} : fReader.at = "subscribe"}
      /\ UNCHANGED <<fInode, fKernel, fWds, fSubscribed, fEdits, fInotify>>
  BY DEF Files!ListFails
<1>2. /\ Files!Idle.at = "idle" /\ Files!Idle.batch = <<>> /\ Files!Idle.walk = {}
      /\ Files!Idle.watched = {}
  BY IdleIs
<1>3. FilesTyped'
  <2>1. fLost' \subseteq Dirs
    BY <1>1 DEF FilesInv, FilesTyped
  <2> QED
    BY <1>1, <2>1, IdleIs DEF FilesInv, FilesTyped
<1>4. Owners' = Owners /\ fLost' = Owners
  BY <1>1, <1>2 DEF Owners
<1>5. Tree' /\ WatchesFit'
  BY <1>1, <1>4 DEF FilesInv, Tree, WatchesFit, Files!Exists
<1>6. EventsFit'
  <2>1. PICK a \in Seq(FileEvents), b \in Seq(FileEvents) : a = fReader.batch /\ b = fInotify
    BY DEF FilesInv, FilesTyped
  <2>2. /\ Queue = a \o b /\ Queue' = b
    <3>1. <<>> \o b = b
      BY ConcatEmptySeq
    <3> QED
      BY <1>1, <1>2, <2>1, <3>1 DEF Queue
  <2>3. /\ Len(a \o b) = Len(a) + Len(b) /\ Len(a) \in Nat /\ Len(b) \in Nat
        /\ \A m \in 1..Len(b) : b[m] = (a \o b)[m + Len(a)] /\ m + Len(a) \in 1..Len(a \o b)
    <3>1. \A m \in 1..Len(b) : m + Len(a) = Len(a) + m
      OBVIOUS
    <3> QED
      BY <3>1
  <2>4. \A m \in 1..Len(Queue)' : Queue'[m] = Queue[m + Len(a)] /\ Queue'[m].wd \in DOMAIN fWds
    BY <2>2, <2>3 DEF FilesInv, EventsFit
  <2>5. EventsFit
    BY DEF FilesInv
  <2>6. Len(Queue)' + Len(a) = Len(Queue) /\ Len(Queue) \in Nat /\ Len(Queue)' \in Nat
    BY <2>2, <2>3
  <2> QED
    BY <1>1, <2>3, <2>4, <2>5, <2>6, EventsShift
<1>7. WalkFits' /\ Apart' /\ AllReached'
  BY <1>1, <1>2, <1>4 DEF WalkFits, Files!Walking, Apart, AllReached, Live, Owners
<1> QED
  BY <1>3, <1>5, <1>6, <1>7 DEF FilesInv

\* The watch of a directory that appeared is on its way as its event was.
LEMMA WatchNewKeeps ==
  ASSUME FilesInv, Files!WatchNew
  PROVE  FilesInv'
<1> DEFINE e == Head(fReader.batch)
           d == Append(fWds[e.wd].path, e.name)
           b == [fReader.batch EXCEPT ![1].kind = "change"]
<1>1. /\ fReader.at = "events" /\ fReader.batch # <<>> /\ ~Files!Walking /\ e.kind = "mkdir"
      /\ fReader' = [fReader EXCEPT !.batch[1].kind = "change", !.sub = fWds[e.wd].sub, !.walk = {d}]
      /\ UNCHANGED <<fInode, fKernel, fWds, fSubscribed, fLost, fEdits, fInotify>>
  BY DEF Files!WatchNew
<1>2. /\ fReader \in [at: {"idle", "subscribe", "events"}, batch: Seq(FileEvents), sub: Dirs,
                      walk: SUBSET Dirs, watched: SUBSET Dirs]
      /\ fInotify \in Seq(FileEvents) /\ fReader.walk = {} /\ fReader.watched = {}
      /\ fReader.batch \in Seq(FileEvents) /\ Len(fReader.batch) \in Nat \ {0}
  BY <1>1 DEF FilesInv, FilesTyped, Files!Walking
<1>3. PICK old \in Seq(FileEvents), rest \in Seq(FileEvents) : old = fReader.batch /\ rest = fInotify
  BY <1>2
<1>4. /\ e = old[1] /\ e \in FileEvents /\ 1 \in 1..Len(old)
      /\ e.wd \in Nat /\ e.name \in Names \cup {"none"}
  <2>1. e = old[1] /\ 1 \in 1..Len(old)
    BY <1>2, <1>3
  <2>2. e \in FileEvents
    BY <2>1, ElementOfSeq
  <2> QED
    BY <2>1, <2>2 DEF FileEvents
<1>5. /\ Len(old \o rest) = Len(old) + Len(rest) /\ Queue = old \o rest
      /\ 1 \in 1..Len(Queue) /\ Queue[1] = e
  BY <1>2, <1>3, <1>4 DEF Queue
<1>6. /\ e.wd \in DOMAIN fWds /\ Len(fWds[e.wd].path) < MaxDepth /\ e.name \in Names
  BY <1>1, <1>5 DEF FilesInv, EventsFit
<1>7. PICK up \in Dirs, sub \in Dirs :
        /\ up = fWds[e.wd].path /\ sub = fWds[e.wd].sub /\ sub \in Owners /\ Prefix(sub, up)
  <2>1. Owners \subseteq Dirs
    BY DEF FilesInv, FilesTyped, Owners
  <2> QED
    BY <1>6, <2>1 DEF FilesInv, WatchesFit
<1>8. d \in Dirs /\ Prefix(sub, d)
  <2>1. d = Append(up, e.name) /\ Len(up) < MaxDepth
    BY <1>6, <1>7
  <2>2. d \in Dirs /\ Prefix(up, d)
    BY <1>6, <2>1, Appended
  <2> QED
    BY <1>7, <2>2, PrefixOrder
<1>9. PICK new \in Seq(FileEvents) :
        /\ new = b /\ Len(new) = Len(old)
        /\ \A m \in 1..Len(old) : m # 1 => new[m] = old[m]
        /\ new[1].wd = e.wd /\ new[1].kind = "change" /\ new[1].name = e.name
  <2>1. PICK f \in FileEvents : f = [e EXCEPT !.kind = "change"]
    BY <1>4 DEF FileEvents
  <2>2. f.wd = e.wd /\ f.kind = "change" /\ f.name = e.name
    BY <1>4, <2>1 DEF FileEvents
  <2>3. b = [old EXCEPT ![1] = f]
    BY <1>3, <1>4, <2>1
  <2>4. /\ [old EXCEPT ![1] = f] \in Seq(FileEvents) /\ Len([old EXCEPT ![1] = f]) = Len(old)
        /\ \A m \in 1..Len(old) : [old EXCEPT ![1] = f][m] = IF m = 1 THEN f ELSE old[m]
    BY <1>4, ExceptSeq
  <2>5. PICK g \in Seq(FileEvents) : g = [old EXCEPT ![1] = f]
    BY <2>4
  <2>6. Len(g) = Len(old) /\ (\A m \in 1..Len(old) : m # 1 => g[m] = old[m]) /\ g[1] = f
    BY <1>4, <2>4, <2>5
  <2> QED
    BY <2>2, <2>3, <2>5, <2>6
<1>10. /\ fReader' \in [at: {"idle", "subscribe", "events"}, batch: Seq(FileEvents), sub: Dirs,
                        walk: SUBSET Dirs, watched: SUBSET Dirs]
       /\ fReader'.at = "events" /\ fReader'.batch = new /\ fReader'.sub = sub
       /\ fReader'.walk = {d} /\ fReader'.watched = {}
  <2>1. fReader' = [fReader EXCEPT !.batch = new, !.sub = sub, !.walk = {d}]
    BY <1>1, <1>2, <1>7, <1>9
  <2>2. PICK w \in SUBSET Dirs : w = {d}
    BY <1>8
  <2>3. fReader' = [fReader EXCEPT !.batch = new, !.sub = sub, !.walk = w]
    BY <2>1, <2>2
  <2> HIDE DEF d, e, b
  <2>4. fReader' \in [at: {"idle", "subscribe", "events"}, batch: Seq(FileEvents), sub: Dirs,
                      walk: SUBSET Dirs, watched: SUBSET Dirs]
    BY <1>2, <2>3
  <2>5. /\ fReader'.at = fReader.at /\ fReader'.batch = new /\ fReader'.sub = sub
        /\ fReader'.walk = w /\ fReader'.watched = fReader.watched
    BY <1>2, <2>3
  <2> QED
    BY <1>1, <1>2, <2>2, <2>4, <2>5
<1> HIDE DEF b, d
<1>11. /\ Queue' = new \o rest /\ Len(Queue)' = Len(Queue) /\ Len(Queue) \in Nat
       /\ \A m \in 1..Len(Queue) : m # 1 => Queue'[m] = Queue[m]
       /\ Queue'[1].wd = e.wd /\ Queue'[1].kind = "change" /\ Queue'[1].name = e.name
  <2>1. Queue' = new \o rest
    BY <1>1, <1>3, <1>10 DEF Queue
  <2>2. /\ Len(new \o rest) = Len(old) + Len(rest) /\ Len(old) \in Nat /\ Len(rest) \in Nat
        /\ \A m \in 1..Len(old \o rest) : (old \o rest)[m] = IF m <= Len(old) THEN old[m] ELSE rest[m - Len(old)]
        /\ \A m \in 1..Len(new \o rest) : (new \o rest)[m] = IF m <= Len(old) THEN new[m] ELSE rest[m - Len(old)]
    <3>1. Len(new) = Len(old)
      BY <1>9
    <3>2. \A m \in 1..Len(new \o rest) : (new \o rest)[m] = IF m <= Len(new) THEN new[m] ELSE rest[m - Len(new)]
      OBVIOUS
    <3>3. Len(new \o rest) = Len(new) + Len(rest) /\ Len(old) \in Nat /\ Len(rest) \in Nat
      OBVIOUS
    <3>4. \A m \in 1..Len(old \o rest) : (old \o rest)[m] = IF m <= Len(old) THEN old[m] ELSE rest[m - Len(old)]
      OBVIOUS
    <3> QED
      BY <3>1, <3>2, <3>3, <3>4
  <2>3. \A m \in 1..Len(old \o rest) : m # 1 => (new \o rest)[m] = (old \o rest)[m]
    BY <1>5, <1>9, <2>2
  <2>4. (new \o rest)[1] = new[1]
    BY <1>4, <2>2
  <2> QED
    BY <1>5, <1>9, <2>1, <2>2, <2>3, <2>4
<1>12. Owners' = Owners
  BY <1>1, <1>10 DEF Owners
<1>13. FilesTyped'
  BY <1>1, <1>10 DEF FilesInv, FilesTyped
<1>14. Tree' /\ WatchesFit' /\ Apart'
  BY <1>1, <1>12 DEF FilesInv, Tree, WatchesFit, Apart, Files!Exists
<1>15. WalkFits'
  BY <1>7, <1>8, <1>10, <1>12 DEF WalkFits
<1>16. EventsFit'
  <2>1. \A m \in 1..Len(Queue) : /\ Queue'[m].wd = Queue[m].wd /\ Queue'[m].name = Queue[m].name
                                 /\ Queue'[m].kind \in {"mkdir", "ignored"} => Queue'[m].kind = Queue[m].kind
    BY <1>5, <1>11
  <2>2. \A m \in 1..Len(Queue) : \A n \in m + 1..Len(Queue) : n \in 1..Len(Queue)
    BY <1>11
  <2> SUFFICES ASSUME NEW m \in 1..Len(Queue)
               PROVE  /\ Queue'[m].wd \in DOMAIN fWds
                      /\ Queue'[m].kind = "mkdir" =>
                           Len(fWds[Queue'[m].wd].path) < MaxDepth /\ Queue'[m].name \in Names
                      /\ Queue'[m].kind = "ignored" =>
                           /\ Queue'[m].wd \notin fKernel
                           /\ \A p \in Dirs : fInode[p] # Queue'[m].wd
                           /\ \A n \in m + 1..Len(Queue) : Queue'[n].wd # Queue'[m].wd
    BY <1>1, <1>11 DEF EventsFit
  <2>3. Queue'[m].kind = "ignored" => \A n \in m + 1..Len(Queue) : Queue'[n].wd # Queue'[m].wd
    <3>1. Queue[m].kind = "ignored" => \A n \in m + 1..Len(Queue) : Queue[n].wd # Queue[m].wd
      BY DEF FilesInv, EventsFit
    <3> QED
      BY <2>1, <2>2, <3>1
  <2>4. /\ Queue[m].wd \in DOMAIN fWds
        /\ Queue[m].kind = "mkdir" =>
             Len(fWds[Queue[m].wd].path) < MaxDepth /\ Queue[m].name \in Names
        /\ Queue[m].kind = "ignored" =>
             Queue[m].wd \notin fKernel /\ \A p \in Dirs : fInode[p] # Queue[m].wd
    BY DEF FilesInv, EventsFit
  <2> QED
    BY <2>1, <2>3, <2>4
<1>17. AllReached'
  <2> SUFFICES ASSUME NEW s \in Dirs, NEW q \in Dirs, Live(s)', Files!Exists(q)', Prefix(s, q)
               PROVE  Watched(s, q)' \/ Walked(s, q)' \/ Announced(s, q)'
    BY DEF AllReached
  <2>1. s \in fSubscribed
    BY <1>1, <1>10, <1>12 DEF Live, Owners
  <2>2. Live(s) /\ Files!Exists(q)
    BY <1>1, <1>12, <2>1 DEF Live, Files!Exists, Overlap
  <2>3. Watched(s, q) \/ Announced(s, q)
    BY <1>2, <2>2 DEF FilesInv, AllReached, Walked
  <2>4. CASE Announced(s, q)
    <3>1. PICK m \in 1..Len(Queue), a \in Dirs :
            /\ Len(a) < MaxDepth /\ Queue[m].name \in Names /\ Prefix(Append(a, Queue[m].name), q)
            /\ Queue[m].kind = "mkdir" /\ Queue[m].wd = fInode[a] /\ Watched(s, a)
      BY <2>4 DEF Announced
    <3>2. CASE m = 1
      <4>1. fWds[e.wd].sub = s /\ fWds[e.wd].path = a
        BY <1>5, <3>1, <3>2 DEF Watched
      <4>2. d = Append(a, Queue[m].name)
        BY <1>5, <3>2, <4>1 DEF d
      <4> QED
        BY <1>7, <1>10, <3>1, <4>1, <4>2 DEF Walked
    <3>3. CASE m # 1
      <4>1. m \in 1..Len(Queue)' /\ Queue'[m] = Queue[m] /\ Watched(s, a)' /\ fInode'[a] = fInode[a]
        BY <1>1, <1>11, <3>1, <3>3 DEF Watched
      <4> QED
        BY <3>1, <4>1 DEF Announced
    <3> QED
      BY <3>2, <3>3
  <2>5. CASE Watched(s, q)
    BY <1>1, <2>5 DEF Watched
  <2> QED
    BY <2>3, <2>4, <2>5
<1> QED
  BY <1>13, <1>14, <1>15, <1>16, <1>17 DEF FilesInv

\* What is forgotten with IN_IGNORED was of a directory that is gone.
LEMMA RecordKeeps ==
  ASSUME FilesInv, Files!Record
  PROVE  FilesInv'
<1> DEFINE e == Head(fReader.batch)
<1>1. /\ fReader.at = "events" /\ fReader.batch # <<>> /\ ~Files!Walking
      /\ fReader' = [fReader EXCEPT !.batch = Tail(fReader.batch)]
      /\ \/ e.kind = "ignored" /\ fWds' = [i \in DOMAIN fWds \ {e.wd} |-> fWds[i]]
         \/ e.kind = "change" /\ UNCHANGED fWds
      /\ UNCHANGED <<fInode, fKernel, fSubscribed, fLost, fEdits, fInotify>>
  BY DEF Files!Record
<1>2. /\ fReader \in [at: {"idle", "subscribe", "events"}, batch: Seq(FileEvents), sub: Dirs,
                      walk: SUBSET Dirs, watched: SUBSET Dirs]
      /\ fInotify \in Seq(FileEvents) /\ fReader.walk = {} /\ fReader.watched = {}
      /\ fReader.batch \in Seq(FileEvents) /\ Len(fReader.batch) \in Nat \ {0}
  BY <1>1 DEF FilesInv, FilesTyped, Files!Walking
<1>3. PICK old \in Seq(FileEvents), rest \in Seq(FileEvents) :
        old = fReader.batch /\ rest = fInotify /\ old # <<>> /\ Len(old) \in Nat \ {0}
  BY <1>1, <1>2
<1>4. PICK new \in Seq(FileEvents) :
        /\ new = Tail(old) /\ Len(new) = Len(old) - 1
        /\ \A m \in 1..Len(new) : new[m] = old[m + 1]
  <2>1. old # <<>>
    BY <1>3
  <2>2. /\ Tail(old) \in Seq(FileEvents) /\ Len(Tail(old)) = Len(old) - 1
        /\ \A m \in 1..Len(Tail(old)) : Tail(old)[m] = old[m + 1]
    BY <2>1, HeadTailProperties
  <2> QED
    BY <2>2
<1>5. /\ fReader' \in [at: {"idle", "subscribe", "events"}, batch: Seq(FileEvents), sub: Dirs,
                       walk: SUBSET Dirs, watched: SUBSET Dirs]
      /\ fReader'.at = "events" /\ fReader'.batch = new /\ fReader'.walk = {} /\ fReader'.watched = {}
  BY <1>1, <1>2, <1>3, <1>4
<1>6. /\ Queue = old \o rest /\ Queue' = new \o rest
      /\ Len(Queue) \in Nat \ {0} /\ Len(Queue)' \in Nat /\ Len(Queue)' + 1 = Len(Queue)
      /\ \A m \in 1..Len(Queue)' : Queue'[m] = Queue[m + 1] /\ m + 1 \in 1..Len(Queue) /\ m + 1 \in 2..Len(Queue)
      /\ Queue[1] = e
  <2>1. Queue = old \o rest /\ Queue' = new \o rest
    BY <1>1, <1>3, <1>5 DEF Queue
  <2>2. /\ Len(old \o rest) = Len(old) + Len(rest) /\ Len(new \o rest) = Len(new) + Len(rest)
        /\ Len(new) \in Nat /\ Len(rest) \in Nat
        /\ \A m \in 1..Len(old \o rest) : (old \o rest)[m] = IF m <= Len(old) THEN old[m] ELSE rest[m - Len(old)]
        /\ \A m \in 1..Len(new \o rest) : (new \o rest)[m] = IF m <= Len(new) THEN new[m] ELSE rest[m - Len(new)]
    OBVIOUS
  <2>3. ASSUME NEW m \in 1..Len(new \o rest)
        PROVE  (new \o rest)[m] = (old \o rest)[m + 1]
    <3>0. /\ Len(old) \in Nat /\ Len(new) \in Nat /\ Len(rest) \in Nat /\ Len(old) = Len(new) + 1
          /\ Len(old \o rest) = Len(old) + Len(rest) /\ m \in 1..Len(new) + Len(rest)
      BY <1>3, <1>4, <2>2, <2>3
    <3>1. m + 1 \in 1..Len(old \o rest) /\ m + 1 - Len(old) = m - Len(new)
      BY <3>0
    <3>2. CASE m <= Len(new)
      <4>1. m \in 1..Len(new) /\ m + 1 <= Len(old)
        BY <3>0, <3>2
      <4> QED
        BY <1>4, <2>2, <2>3, <3>1, <4>1
    <3>3. CASE m > Len(new)
      <4>1. ~(m <= Len(new)) /\ ~(m + 1 <= Len(old))
        BY <3>0, <3>3
      <4> QED
        BY <2>2, <2>3, <3>1, <4>1
    <3>4. m <= Len(new) \/ m > Len(new)
      BY <3>0
    <3> QED
      BY <3>2, <3>3, <3>4
  <2>4. (old \o rest)[1] = old[1] /\ old[1] = e
    BY <1>3, <2>2
  <2>5. /\ Len(old \o rest) \in Nat \ {0} /\ Len(new \o rest) \in Nat
        /\ Len(new \o rest) + 1 = Len(old \o rest)
    BY <1>3, <1>4, <2>2
  <2> QED
    BY <2>1, <2>3, <2>4, <2>5
<1>7. 1 \in 1..Len(Queue) /\ e.wd \in DOMAIN fWds
  BY <1>6 DEF FilesInv, EventsFit
<1>8. e.kind = "ignored" =>
        /\ e.wd \notin fKernel /\ \A p \in Dirs : fInode[p] # e.wd
        /\ \A m \in 1..Len(Queue)' : Queue'[m].wd # e.wd
  <2>1. e.kind = "ignored" =>
          /\ e.wd \notin fKernel /\ \A p \in Dirs : fInode[p] # e.wd
          /\ \A n \in 1 + 1..Len(Queue) : Queue[n].wd # e.wd
    BY <1>6, <1>7 DEF FilesInv, EventsFit
  <2>2. \A m \in 1..Len(Queue)' : m + 1 \in 1 + 1..Len(Queue)
    BY <1>6
  <2> QED
    BY <1>6, <2>1, <2>2
<1>9. /\ \A i \in DOMAIN fWds' : i \in DOMAIN fWds /\ fWds'[i] = fWds[i]
      /\ \A i \in fKernel : i \in DOMAIN fWds' /\ fWds'[i] = fWds[i]
      /\ \A m \in 1..Len(Queue)' : Queue'[m].wd \in DOMAIN fWds'
  <2>1. fKernel \subseteq DOMAIN fWds
    BY DEF FilesInv, FilesTyped
  <2>2. \A m \in 1..Len(Queue)' : Queue'[m].wd \in DOMAIN fWds
    BY <1>6 DEF FilesInv, EventsFit
  <2>3. CASE e.kind = "ignored" /\ fWds' = [i \in DOMAIN fWds \ {e.wd} |-> fWds[i]]
    BY <1>8, <2>1, <2>2, <2>3
  <2>4. CASE e.kind = "change" /\ UNCHANGED fWds
    BY <2>1, <2>2, <2>4
  <2> QED
    BY <1>1, <2>3, <2>4
<1>10. Owners' = Owners
  BY <1>1, <1>5 DEF Owners
<1>11. FilesTyped'
  <2>1. fKernel \subseteq DOMAIN fWds' /\ DOMAIN fWds' \subseteq 1..fEdits + 1
    BY <1>9 DEF FilesInv, FilesTyped
  <2> QED
    BY <1>1, <1>5, <2>1 DEF FilesInv, FilesTyped
<1>12. Tree' /\ WatchesFit' /\ Apart'
  BY <1>1, <1>9, <1>10 DEF FilesInv, Tree, WatchesFit, Apart, Files!Exists
<1>13. EventsFit'
  <2>1. EventsFit /\ 1 \in Nat
    BY DEF FilesInv
  <2> QED
    BY <1>1, <1>6, <1>9, <2>1, EventsShift
<1>14. WalkFits'
  BY <1>5 DEF WalkFits, Files!Walking
<1>15. AllReached'
  <2> SUFFICES ASSUME NEW s \in Dirs, NEW q \in Dirs, Live(s)', Files!Exists(q)', Prefix(s, q)
               PROVE  Watched(s, q)' \/ Walked(s, q)' \/ Announced(s, q)'
    BY DEF AllReached
  <2>1. Live(s) /\ Files!Exists(q)
    BY <1>1, <1>2, <1>5, <1>10 DEF Live, Files!Exists, Overlap
  <2>2. Watched(s, q) \/ Announced(s, q)
    BY <1>2, <2>1 DEF FilesInv, AllReached, Walked
  <2>3. \A d \in Dirs : Watched(s, d) => Watched(s, d)' /\ fInode'[d] = fInode[d]
    BY <1>1, <1>9 DEF Watched
  <2>4. ASSUME NEW m \in 1..Len(Queue), Queue[m].kind = "mkdir"
        PROVE  \E n \in 1..Len(Queue)' : Queue'[n] = Queue[m]
    <3>1. m # 1
      BY <1>1, <1>6, <2>4
    <3>2. m - 1 \in 1..Len(Queue)' /\ (m - 1) + 1 = m
      BY <1>6, <2>4, <3>1
    <3> QED
      BY <1>6, <3>2
  <2> QED
    BY <2>2, <2>3, <2>4, AnnouncedStays
<1> QED
  BY <1>11, <1>12, <1>13, <1>14, <1>15 DEF FilesInv

LEMMA FilesStep ==
  ASSUME FilesInv, [Files!Next]_fileVars
  PROVE  FilesInv'
<1>1. CASE UNCHANGED fileVars
  <2>1. UNCHANGED <<fInode, fKernel, fInotify, fWds, fReader, fSubscribed, fLost, fEdits>>
    BY <1>1 DEF fileVars
  <2>2. FilesTyped' /\ Tree' /\ Owners' = Owners /\ Queue' = Queue
    BY <2>1 DEF FilesInv, FilesTyped, Tree, Files!Exists, Owners, Queue
  <2>3. WatchesFit' /\ EventsFit' /\ WalkFits' /\ Apart'
    BY <2>1, <2>2 DEF FilesInv, WatchesFit, EventsFit, WalkFits, Apart, Files!Exists, Files!Walking
  <2>4. ASSUME NEW s \in Dirs, NEW p \in Dirs
        PROVE  /\ Live(s)' <=> Live(s)
               /\ Watched(s, p)' <=> Watched(s, p)
               /\ Walked(s, p)' <=> Walked(s, p)
    BY <2>1, <2>2 DEF Live, Watched, Walked, Files!Exists, Overlap
  <2>5. ASSUME NEW s \in Dirs, NEW p \in Dirs, Announced(s, p)
        PROVE  Announced(s, p)'
    BY <2>1, <2>2, <2>4, <2>5 DEF Announced
  <2>6. AllReached'
    BY <2>1, <2>4, <2>5 DEF FilesInv, AllReached, Files!Exists
  <2> QED
    BY <2>2, <2>3, <2>6 DEF FilesInv
<1>2. ASSUME NEW p \in Dirs,
             Files!WriteFile(p) \/ Files!MakeDirectory(p) \/ Files!RemoveDirectory(p) \/ Files!Subscribe(p)
      PROVE  FilesInv'
  BY <1>2, WriteFileKeeps, MakeDirectoryKeeps, RemoveDirectoryKeeps, FilesSubscribeKeeps
<1>3. CASE Files!ReaderStep
  BY <1>3, AddWatchKeeps, ListKeeps, ListFailsKeeps, SubscribeDoneKeeps, ReadingKeeps,
     WatchNewKeeps, RecordKeeps DEF Files!ReaderStep
<1> QED
  BY <1>1, <1>2, <1>3 DEF Files!Next, Dirs

\* When nothing is on its way, what is reached is watched.
LEMMA FilesImplies ==
  ASSUME FilesInv
  PROVE  Files!AllWatched
<1> SUFFICES ASSUME fReader = Files!Idle, fInotify = <<>>, NEW s \in fSubscribed \ fLost,
                    NEW p \in Dirs, Prefix(s, p), Files!Exists(p)
             PROVE  /\ fInode[p] \in DOMAIN fWds
                    /\ fWds[fInode[p]] = [sub |-> s, path |-> p]
  BY DEF Files!AllWatched, Files!Under, Dirs, Prefix
<1>1. /\ fReader.at = "idle" /\ fReader.batch = <<>> /\ fReader.walk = {} /\ fReader.watched = {}
  BY DEF Files!Idle
<1>2. Queue = <<>> /\ Len(Queue) = 0
  BY <1>1 DEF Queue
<1>3. s \in Dirs /\ Live(s)
  BY <1>1 DEF FilesInv, FilesTyped, Apart, Live, Owners
<1>4. Watched(s, p)
  BY <1>1, <1>2, <1>3 DEF FilesInv, AllReached, Walked, Announced
<1>5. fInode[p] \in DOMAIN fWds
  BY <1>4 DEF Watched, FilesInv, FilesTyped
<1>6. fWds[fInode[p]] \in [sub: Owners, path: Dirs]
  BY <1>5 DEF FilesInv, WatchesFit
<1> QED
  BY <1>4, <1>5, <1>6 DEF Watched

-----------------------------------------------------------------------------
(* Two layers of the library: what is listed and what is opened.           *)

\* What reading depends on that a step does not change.
LayersInv == lKind \in {"simple", "fs", "zk"} /\ lDotted \in BOOLEAN /\ lDirectory \in BOOLEAN

LEMMA LayersInit ==
  ASSUME ProvidersInit
  PROVE  LayersInv
  BY DEF ProvidersInit, Layers!Init, LayersInv

LEMMA LayersStep ==
  ASSUME LayersInv, [Layers!Next]_layerVars
  PROVE  LayersInv'
  BY DEF Layers!Next, Layers!ReadDisabled, Layers!ReadFavorites, Layers!NoFavorites, layerVars,
     LayersInv

\* The scope that is read in a layer: of the credentials, of the tenant or of all.
OfPerson(layer, c) ==
  Layers!PersonalPath(c) # <<>> /\ Layers!Has(layer, Layers!PersonalPath(c)[1])
OfTenant(layer, c) ==
  Layers!BuildPath(TRUE, c) # <<>> /\ Layers!Has(layer, Layers!BuildPath(TRUE, c))
First(layer, c) ==
  IF OfPerson(layer, c) THEN <<Layers!Place(layer, Layers!PersonalPath(c)[1])>>
  ELSE IF OfTenant(layer, c) THEN <<Layers!Place(layer, Layers!BuildPath(TRUE, c))>>
  ELSE IF Layers!Has(layer, <<>>) THEN <<Layers!Place(layer, <<>>)>> ELSE <<>>

LEMMA PathsOfContext ==
  ASSUME NEW c
  PROVE  /\ Layers!BuildPath(FALSE, c) = <<>>
         /\ Layers!PersonalPath(c) = <<>> \/ \E b : Layers!PersonalPath(c) = <<b>>
  BY DEF Layers!BuildPath, Layers!PersonalPath

\* A file system tries one scope after the other.
LEMMA FilesReadFirst ==
  ASSUME NEW c, NEW layer
  PROVE  Layers!FilesRead(layer, c) = First(layer, c)
<1>1. (\E i \in DOMAIN Layers!PersonalPath(c) : Layers!Has(layer, Layers!PersonalPath(c)[i]))
        <=> OfPerson(layer, c)
  <2>1. CASE Layers!PersonalPath(c) = <<>>
    BY <2>1 DEF OfPerson
  <2>2. ASSUME NEW b, Layers!PersonalPath(c) = <<b>>
        PROVE  (\E i \in DOMAIN Layers!PersonalPath(c) : Layers!Has(layer, Layers!PersonalPath(c)[i]))
                 <=> OfPerson(layer, c)
    <3>1. DOMAIN <<b>> = {1} /\ <<b>>[1] = b /\ <<b>> # <<>>
      OBVIOUS
    <3> QED
      BY <2>2, <3>1 DEF OfPerson
  <2> QED
    BY <2>1, <2>2, PathsOfContext
<1> QED
  BY <1>1 DEF Layers!FilesRead, Layers!SimpleRead, First, OfTenant

\* The least of some indexes.
LEMMA LeastIndex ==
  ASSUME NEW S \in SUBSET Nat, NEW n \in S, \A m \in S : n <= m
  PROVE  Layers!Min(S) = n
<1>1. Layers!Min(S) \in S /\ \A m \in S : Layers!Min(S) <= m
  <2>1. \E k \in S : \A m \in S : k <= m
    OBVIOUS
  <2> QED
    BY <2>1 DEF Layers!Min
<1>2. Layers!Min(S) \in Nat /\ n \in Nat
  BY <1>1
<1>3. n <= Layers!Min(S) /\ Layers!Min(S) <= n
  BY <1>1
<1> QED
  BY <1>2, <1>3

LEMMA Tuples ==
  ASSUME NEW x, NEW y, NEW z
  PROVE  /\ <<x>> \o <<y>> = <<x, y>> /\ <<x>> \o <<y, z>> = <<x, y, z>>
         /\ <<x>> # <<>> /\ <<x>>[1] = x
<1>1. <<x>> \o <<y>> = <<x, y>>
  <2> DEFINE s == <<x>> \o <<y>>
  <2>1. Len(s) = 2 /\ s[1] = x /\ s[2] = y
    OBVIOUS
  <2>2. s \in Seq({x, y}) /\ <<x, y>> \in Seq({x, y})
    OBVIOUS
  <2>3. Len(<<x, y>>) = 2 /\ <<x, y>>[1] = x /\ <<x, y>>[2] = y
    OBVIOUS
  <2>4. \A i \in 1..2 : i = 1 \/ i = 2
    OBVIOUS
  <2> HIDE DEF s
  <2>5. s = <<x, y>>
    BY <2>1, <2>2, <2>3, <2>4, SeqEqual
  <2> QED
    BY <2>5 DEF s
<1>2. <<x>> \o <<y, z>> = <<x, y, z>>
  <2> DEFINE s == <<x>> \o <<y, z>>
  <2>1. Len(s) = 3 /\ s[1] = x /\ s[2] = y /\ s[3] = z
    OBVIOUS
  <2>2. s \in Seq({x, y, z})
    OBVIOUS
  <2>3. <<x, y, z>> \in Seq({x, y, z})
    OBVIOUS
  <2>4. Len(<<x, y, z>>) = 3 /\ <<x, y, z>>[1] = x /\ <<x, y, z>>[2] = y /\ <<x, y, z>>[3] = z
    OBVIOUS
  <2> HIDE DEF s
  <2>5. \A i \in 1..3 : i = 1 \/ i = 2 \/ i = 3
    OBVIOUS
  <2>6. s = <<x, y, z>>
    BY <2>1, <2>2, <2>3, <2>4, <2>5, SeqEqual
  <2> QED
    BY <2>6 DEF s
<1> QED
  BY <1>1, <1>2

\* ZooKeeper reads the first candidate that is a node.
LEMMA NodesReadFirst ==
  ASSUME NEW c, NEW layer
  PROVE  Layers!NodesRead(layer, c) = First(layer, c)
<1> DEFINE person == Layers!PersonalPath(c)
           tenant == Layers!BuildPath(TRUE, c)
           all    == Layers!Candidates(c)
           found  == {i \in DOMAIN all : Layers!Has(layer, all[i])}
<1>1. Layers!NodesRead(layer, c)
        = IF found = {} THEN <<>> ELSE <<Layers!Place(layer, all[Layers!Min(found)])>>
  BY DEF Layers!NodesRead
<1>2. all = person \o IF tenant = <<>> THEN << <<>> >> ELSE <<tenant, <<>> >>
  BY PathsOfContext, Zenon DEF Layers!Candidates
<1>3. OfPerson(layer, c) <=> person # <<>> /\ Layers!Has(layer, person[1])
  BY DEF OfPerson
<1>4. OfTenant(layer, c) <=> tenant # <<>> /\ Layers!Has(layer, tenant)
  BY DEF OfTenant
<1>5. First(layer, c) = IF OfPerson(layer, c) THEN <<Layers!Place(layer, person[1])>>
                        ELSE IF OfTenant(layer, c) THEN <<Layers!Place(layer, tenant)>>
                        ELSE IF Layers!Has(layer, <<>>) THEN <<Layers!Place(layer, <<>>)>> ELSE <<>>
  BY DEF First
<1>0. /\ person = <<>> \/ \E b : person = <<b>>
      /\ found = {i \in DOMAIN all : Layers!Has(layer, all[i])}
  BY PathsOfContext
<1> HIDE DEF person, tenant, all, found
<1>6. CASE person = <<>> /\ tenant = <<>>
  <2>1. all = << <<>> >>
    BY <1>2, <1>6
  <2>2. found = {i \in {1} : Layers!Has(layer, <<>>)} /\ all[1] = <<>>
    BY <1>0, <2>1
  <2> QED
    BY <1>1, <1>3, <1>4, <1>5, <1>6, <2>2, LeastIndex
<1>7. CASE person = <<>> /\ tenant # <<>>
  <2>1. all = <<tenant, <<>> >>
    BY <1>2, <1>7
  <2>2. /\ all[1] = tenant /\ all[2] = <<>>
        /\ found = {i \in {1, 2} : Layers!Has(layer, all[i])} /\ found \in SUBSET Nat
    BY <1>0, <2>1
  <2> QED
    BY <1>1, <1>3, <1>4, <1>5, <1>7, <2>2, LeastIndex
<1>8. ASSUME NEW b, person = <<b>>, tenant = <<>>
      PROVE  Layers!NodesRead(layer, c) = First(layer, c)
  <2>1. all = <<b, <<>> >> /\ person # <<>> /\ person[1] = b
    <3>1. all = <<b>> \o << <<>> >>
      BY <1>2, <1>8
    <3> QED
      BY <1>8, <3>1, Tuples
  <2>2. /\ all[1] = b /\ all[2] = <<>>
        /\ found = {i \in {1, 2} : Layers!Has(layer, all[i])} /\ found \in SUBSET Nat
    BY <1>0, <2>1
  <2> QED
    BY <1>1, <1>3, <1>4, <1>5, <1>8, <2>1, <2>2, LeastIndex
<1>9. ASSUME NEW b, person = <<b>>, tenant # <<>>
      PROVE  Layers!NodesRead(layer, c) = First(layer, c)
  <2>1. all = <<b, tenant, <<>> >> /\ person # <<>> /\ person[1] = b
    <3>1. all = <<b>> \o <<tenant, <<>> >>
      BY <1>2, <1>9
    <3> QED
      BY <1>9, <3>1, Tuples
  <2>2. /\ all[1] = b /\ all[2] = tenant /\ all[3] = <<>>
        /\ found = {i \in {1, 2, 3} : Layers!Has(layer, all[i])} /\ found \in SUBSET Nat
    BY <1>0, <2>1
  <2>3. CASE Layers!Has(layer, b)
    <3>1. Layers!Min(found) = 1 /\ found # {}
      BY <2>2, <2>3, LeastIndex
    <3> QED
      BY <1>1, <1>3, <1>5, <2>1, <2>2, <2>3, <3>1
  <2>4. CASE ~Layers!Has(layer, b) /\ Layers!Has(layer, tenant)
    <3>1. found \in SUBSET Nat /\ 2 \in found /\ \A i \in found : 2 <= i
      BY <2>2, <2>4
    <3>2. Layers!Min(found) = 2 /\ found # {}
      BY <3>1, LeastIndex
    <3> QED
      BY <1>1, <1>3, <1>4, <1>5, <1>9, <2>1, <2>2, <2>4, <3>2
  <2>5. CASE ~Layers!Has(layer, b) /\ ~Layers!Has(layer, tenant) /\ Layers!Has(layer, <<>>)
    <3>1. Layers!Min(found) = 3 /\ found # {}
      BY <2>2, <2>5, LeastIndex
    <3> QED
      BY <1>1, <1>3, <1>4, <1>5, <1>9, <2>1, <2>2, <2>5, <3>1
  <2>6. CASE ~Layers!Has(layer, b) /\ ~Layers!Has(layer, tenant) /\ ~Layers!Has(layer, <<>>)
    <3>1. found = {}
      BY <2>2, <2>6
    <3> QED
      BY <1>1, <1>3, <1>4, <1>5, <2>1, <2>6, <3>1
  <2> QED
    BY <2>3, <2>4, <2>5, <2>6
<1> QED
  BY <1>0, <1>6, <1>7, <1>8, <1>9

\* A list that begins with what a scope has.
LEMMA Joined ==
  ASSUME NEW P, NEW s \in Seq(P), NEW t \in Seq(P)
  PROVE  /\ s \o t \in Seq(P)
         /\ s # <<>> => s \o t # <<>> /\ (s \o t)[1] = s[1]
         /\ s = <<>> => s \o t = t
         /\ t = <<>> => s \o t = s
         /\ \A i \in DOMAIN (s \o t) :
              \/ \E j \in DOMAIN s : (s \o t)[i] = s[j]
              \/ \E j \in DOMAIN t : (s \o t)[i] = t[j]
  OBVIOUS


\* What holds of one layer: what is listed first is what is read.
LEMMA LayerReads ==
  ASSUME LayersInv, NEW c, NEW l \in {0, 1}
  PROVE  /\ \E P : Layers!ProviderList(l, c) \in Seq(P)
         /\ \A i \in DOMAIN Layers!ProviderList(l, c) : Layers!ProviderList(l, c)[i].layer = l
         /\ \/ Layers!ProviderRead(l, c) = <<>> /\ ~Layers!Has(l, <<>>)
            \/ \E p : /\ Layers!ProviderRead(l, c) = <<p>> /\ p.layer = l
                      /\ p.base = <<>> => Layers!Has(l, <<>>)
         /\ Layers!ProviderList(l, c) # <<>> =>
              Layers!ProviderRead(l, c) = <<Layers!ProviderList(l, c)[1]>>
         /\ Layers!ProviderList(l, c) = <<>> /\ Layers!ProviderRead(l, c) # <<>> =>
              l = 0 /\ Layers!Hidden(c)
<1> DEFINE person == Layers!PersonalPath(c)
           tenant == Layers!BuildPath(TRUE, c)
           Records == {Layers!Place(l, person[1]), Layers!Place(l, tenant), Layers!Place(l, <<>>)}
           items == Layers!PersonalItems(l, c) \o Layers!TenantItems(l, c) \o Layers!InPlace(l, <<>>)
<1>1. /\ Layers!PersonalItems(l, c) = IF OfPerson(l, c) THEN <<Layers!Place(l, person[1])>> ELSE <<>>
      /\ Layers!TenantItems(l, c) = IF OfTenant(l, c) THEN <<Layers!Place(l, tenant)>> ELSE <<>>
      /\ Layers!InPlace(l, <<>>) = IF Layers!Has(l, <<>>) THEN <<Layers!Place(l, <<>>)>> ELSE <<>>
  BY PathsOfContext DEF Layers!PersonalItems, Layers!TenantItems, Layers!InPlace, OfPerson, OfTenant
<1>2. \A r \in Records : r.layer = l
  <2>1. \A b : Layers!Place(l, b).layer = l
    BY DEF Layers!Place
  <2> QED
    BY <2>1
<1>3. First(l, c) = IF OfPerson(l, c) THEN <<Layers!Place(l, person[1])>>
                    ELSE IF OfTenant(l, c) THEN <<Layers!Place(l, tenant)>>
                    ELSE Layers!InPlace(l, <<>>)
  BY DEF First, Layers!InPlace
<1>4. \/ First(l, c) = <<>> /\ ~Layers!Has(l, <<>>)
      \/ \E p : First(l, c) = <<p>> /\ p.layer = l /\ (p.base = <<>> => Layers!Has(l, <<>>))
  <2>1. \A b : Layers!Place(l, b).base = b /\ Layers!Place(l, b).layer = l
    BY DEF Layers!Place
  <2>2. \A b : Layers!Has(l, b) => (Layers!Place(l, b).base = <<>> => Layers!Has(l, <<>>))
    BY <2>1
  <2>3. OfPerson(l, c) => Layers!Has(l, person[1])
    BY DEF OfPerson
  <2>4. OfTenant(l, c) => Layers!Has(l, tenant)
    BY DEF OfTenant
  <2> HIDE DEF person, tenant
  <2> QED
    BY <1>1, <1>3, <2>1, <2>2, <2>3, <2>4
<1>5. /\ items \in Seq(Records)
      /\ items # <<>> => First(l, c) = <<items[1]>>
      /\ items = <<>> => First(l, c) = <<>>
  <2> DEFINE a == Layers!PersonalItems(l, c)
             b == Layers!TenantItems(l, c)
             d == Layers!InPlace(l, <<>>)
  <2>1. a \in Seq(Records) /\ b \in Seq(Records) /\ d \in Seq(Records)
    <3>1. \A R : \A r \in R : <<r>> \in Seq(R)
      OBVIOUS
    <3>2. /\ Layers!Place(l, person[1]) \in Records /\ Layers!Place(l, tenant) \in Records
          /\ Layers!Place(l, <<>>) \in Records
      OBVIOUS
    <3>3. <<>> \in Seq(Records)
      OBVIOUS
    <3> HIDE DEF Records, person, tenant
    <3> QED
      BY <1>1, <3>1, <3>2, <3>3
  <2> HIDE DEF Records, person, tenant, a, b, d
  <2>2. a \o b \in Seq(Records) /\ (a # <<>> => a \o b # <<>> /\ (a \o b)[1] = a[1]) /\ (a = <<>> => a \o b = b)
    BY <2>1, Joined
  <2>3. /\ (a \o b) \o d \in Seq(Records)
        /\ a \o b # <<>> => (a \o b) \o d # <<>> /\ ((a \o b) \o d)[1] = (a \o b)[1]
        /\ a \o b = <<>> => (a \o b) \o d = d
    BY <2>1, <2>2, Joined
  <2>4. items = (a \o b) \o d
    BY DEF a, b, d
  <2>5. /\ a = IF OfPerson(l, c) THEN <<Layers!Place(l, person[1])>> ELSE <<>>
        /\ b = IF OfTenant(l, c) THEN <<Layers!Place(l, tenant)>> ELSE <<>>
        /\ d = IF Layers!Has(l, <<>>) THEN <<Layers!Place(l, <<>>)>> ELSE <<>>
        /\ First(l, c) = IF OfPerson(l, c) THEN <<Layers!Place(l, person[1])>>
                         ELSE IF OfTenant(l, c) THEN <<Layers!Place(l, tenant)>> ELSE d
    BY <1>1, <1>3 DEF a, b, d
  <2>6. \A x : <<x>> # <<>> /\ <<x>>[1] = x
    OBVIOUS
  <2> HIDE DEF items
  <2>7. CASE OfPerson(l, c)
    BY <2>2, <2>3, <2>4, <2>5, <2>6, <2>7
  <2>8. CASE ~OfPerson(l, c) /\ OfTenant(l, c)
    BY <2>2, <2>3, <2>4, <2>5, <2>6, <2>8
  <2>9. CASE ~OfPerson(l, c) /\ ~OfTenant(l, c)
    BY <2>2, <2>3, <2>4, <2>5, <2>6, <2>9
  <2> QED
    BY <2>7, <2>8, <2>9
<1>6. CASE lKind = "simple"
  <2>1. /\ Layers!ProviderList(l, c) = Layers!InPlace(l, <<>>)
        /\ Layers!ProviderRead(l, c) = Layers!InPlace(l, <<>>)
    BY <1>6 DEF Layers!ProviderList, Layers!ProviderRead, Layers!SimpleList, Layers!SimpleRead, Layers!InPlace
  <2>2. /\ Layers!Place(l, <<>>).layer = l
        /\ \A x : /\ <<x>> \in Seq({x}) /\ <<x>> # <<>> /\ <<x>>[1] = x
                 /\ \A i \in DOMAIN <<x>> : <<x>>[i] = x
        /\ <<>> \in Seq({}) /\ DOMAIN <<>> = {}
    BY DEF Layers!Place
  <2>3. CASE Layers!Has(l, <<>>)
    <3> DEFINE p == Layers!Place(l, <<>>)
    <3>1. Layers!ProviderList(l, c) = <<p>> /\ Layers!ProviderRead(l, c) = <<p>>
      BY <1>1, <2>1, <2>3
    <3>2. p.layer = l
      BY <2>2
    <3> HIDE DEF p
    <3>3. /\ <<p>> \in Seq({p}) /\ <<p>> # <<>> /\ <<p>>[1] = p
          /\ \A i \in DOMAIN <<p>> : <<p>>[i] = p
      BY <2>2
    <3> QED
      BY <2>3, <3>1, <3>2, <3>3
  <2>4. CASE ~Layers!Has(l, <<>>)
    BY <1>1, <2>1, <2>2, <2>4
  <2> QED
    BY <2>3, <2>4
<1>7. CASE lKind \in {"fs", "zk"}
  <2>1. Layers!ProviderRead(l, c) = First(l, c)
    BY <1>7, FilesReadFirst, NodesReadFirst DEF Layers!ProviderRead
  <2>2. \/ Layers!ProviderList(l, c) = items
        \/ lKind = "fs" /\ l = 0 /\ ~lDirectory /\ Layers!ProviderList(l, c) = <<>>
    BY <1>7, PathsOfContext DEF Layers!ProviderList, Layers!FilesList, Layers!NodesList
  <2> HIDE DEF Records, items, person, tenant
  <2>3. CASE Layers!ProviderList(l, c) = items
    <3>1. \A i \in DOMAIN items : items[i].layer = l
      <4>1. \A i \in DOMAIN items : items[i] \in Records
        BY <1>5
      <4> QED
        BY <1>2, <4>1
    <3>2. /\ items # <<>> => First(l, c) = <<items[1]>>
          /\ items = <<>> => First(l, c) = <<>>
          /\ items \in Seq(Records)
      BY <1>5
    <3> QED
      BY <1>4, <2>1, <2>3, <3>1, <3>2
  <2>4. CASE lKind = "fs" /\ l = 0 /\ ~lDirectory /\ Layers!ProviderList(l, c) = <<>>
    <3>1. <<>> \in Seq({}) /\ DOMAIN <<>> = {}
      OBVIOUS
    <3>2. First(l, c) # <<>> => Layers!Hidden(c)
      BY <2>1, <2>4 DEF Layers!Hidden
    <3> QED
      BY <1>4, <2>1, <2>4, <3>1, <3>2
  <2> QED
    BY <2>2, <2>3, <2>4
<1> QED
  BY <1>6, <1>7 DEF LayersInv

\* The providers of a directory leave none out that has an item.
LEMMA ListsAgree ==
  ASSUME LayersInv, NEW c
  PROVE  /\ Layers!List({0, 1}, c) = Layers!ProviderList(0, c) \o Layers!ProviderList(1, c)
         /\ Layers!ListRecursive(c) = Layers!List({0, 1}, c)
<1> DEFINE upper == Layers!ProviderList(0, c)
           lower == Layers!ProviderList(1, c)
           both  == Layers!DirectoryProviders(c)
<1>1. /\ Layers!List({0, 1}, c) = upper \o lower
      /\ Layers!ListRecursive(c) = (IF 0 \in both THEN upper ELSE <<>>) \o (IF 1 \in both THEN lower ELSE <<>>)
  BY DEF Layers!List, Layers!ListRecursive
<1>2. (0 \in both \/ upper = <<>>) /\ (1 \in both \/ lower = <<>>)
  <2>1. \A x : <<x>> # <<>>
    OBVIOUS
  <2>2. upper # <<>> => Layers!ProviderRead(0, c) # <<>>
    BY <2>1, LayerReads
  <2>3. lower # <<>> => Layers!ProviderRead(1, c) # <<>>
    BY <2>1, LayerReads
  <2> QED
    BY <2>2, <2>3 DEF Layers!DirectoryProviders
<1> HIDE DEF upper, lower, both
<1>3. /\ (IF 0 \in both THEN upper ELSE <<>>) = upper
      /\ (IF 1 \in both THEN lower ELSE <<>>) = lower
  BY <1>2
<1> QED
  BY <1>1, <1>3 DEF upper, lower

\* What is listed first is what is opened: both of the upper layer if it has anything.
LEMMA FirstIsOpened ==
  ASSUME LayersInv, NEW c
  PROVE  LET items == Layers!List({0, 1}, c) IN
         /\ Layers!Hidden(c) \/ Layers!Open("plain", c)
              = IF Layers!CheckDisabled(lDisabled, Layers!Item, c.tenant) \/ items = <<>> THEN <<>>
                ELSE <<items[1]>>
         /\ items # <<>> => \A i \in DOMAIN items : items[i].layer \in {0, 1}
         /\ items # <<>> => 1 \in DOMAIN items
<1> DEFINE items == Layers!List({0, 1}, c)
           flagged == Layers!CheckDisabled(lDisabled, Layers!Item, c.tenant)
           upper == Layers!ProviderList(0, c)
           lower == Layers!ProviderList(1, c)
           above == Layers!ProviderRead(0, c)
           below == Layers!ProviderRead(1, c)
<1>1. Layers!Open("plain", c) = IF flagged THEN <<>> ELSE IF above # <<>> THEN above ELSE below
  BY DEF Layers!Open, Layers!Read, Layers!ValidItem, Layers!ValidRead, Layers!Spellings
<1>2. items = upper \o lower
  BY ListsAgree
<1>3. PICK P : upper \in Seq(P)
  BY LayerReads
<1>4. PICK Q : lower \in Seq(Q)
  BY LayerReads
<1>5. /\ upper # <<>> => above = <<upper[1]>>
      /\ upper = <<>> /\ above # <<>> => Layers!Hidden(c)
  BY LayerReads
<1>6. /\ lower # <<>> => below = <<lower[1]>>
      /\ lower = <<>> => below = <<>>
  BY LayerReads
<1>7. /\ upper \in Seq(P \cup Q) /\ lower \in Seq(P \cup Q)
  BY <1>3, <1>4
<1>8. /\ \A i \in DOMAIN upper : upper[i].layer = 0
      /\ \A i \in DOMAIN lower : lower[i].layer = 1
  BY LayerReads
<1> HIDE DEF items, flagged, upper, lower, above, below
<1>9. /\ items \in Seq(P \cup Q)
      /\ upper # <<>> => items # <<>> /\ items[1] = upper[1]
      /\ upper = <<>> => items = lower
      /\ \A i \in DOMAIN items :
           \/ \E j \in DOMAIN upper : items[i] = upper[j]
           \/ \E j \in DOMAIN lower : items[i] = lower[j]
  <2>1. /\ upper \o lower \in Seq(P \cup Q)
        /\ upper # <<>> => upper \o lower # <<>> /\ (upper \o lower)[1] = upper[1]
        /\ upper = <<>> => upper \o lower = lower
    BY <1>7, Joined
  <2>2. \A i \in DOMAIN (upper \o lower) :
          \/ \E j \in DOMAIN upper : (upper \o lower)[i] = upper[j]
          \/ \E j \in DOMAIN lower : (upper \o lower)[i] = lower[j]
    BY <1>7, Joined
  <2> QED
    BY <1>2, <2>1, <2>2
<1>10. \A i \in DOMAIN items : items[i].layer \in {0, 1}
  BY <1>8, <1>9
<1>11. items # <<>> => 1 \in DOMAIN items
  BY <1>9
<1>12. \A x : <<x>> # <<>>
  OBVIOUS
<1>13. CASE upper # <<>>
  BY <1>1, <1>5, <1>9, <1>10, <1>11, <1>12, <1>13 DEF items, flagged
<1>14. CASE upper = <<>> /\ above = <<>>
  BY <1>1, <1>6, <1>9, <1>10, <1>11, <1>12, <1>14 DEF items, flagged
<1>15. CASE upper = <<>> /\ above # <<>>
  BY <1>5, <1>10, <1>11, <1>15 DEF items, flagged
<1> QED
  BY <1>13, <1>14, <1>15

LEMMA LayersImplies ==
  ASSUME LayersInv
  PROVE  Layers!ListedIsOpened
<1> SUFFICES ASSUME NEW c \in Layers!Contexts
             PROVE  LET opened == Layers!Open("plain", c)
                        flagged == Layers!CheckDisabled(lDisabled, Layers!Item, c.tenant)
                        meta == Layers!GetItemMetadata(c)
                    IN
                    /\ Layers!ListPath("plain", c) = Layers!ListRecursive(c)
                    /\ Layers!Export(c) # <<>> => Layers!ProviderRead(0, c) # <<>>
                    /\ Layers!Hidden(c) \/ opened = IF flagged \/ Layers!List({0, 1}, c) = <<>> THEN <<>>
                                             ELSE <<Layers!List({0, 1}, c)[1]>>
                    /\ \A s \in Layers!Spellings :
                         Layers!Open(s, c) # <<>> =>
                           ~flagged /\ (Layers!Hidden(c) \/ Layers!ListPath(s, c) # <<>>)
                    /\ opened # <<>> =>
                         Layers!Hidden(c) \/ (~meta.disabled /\ opened[1].layer \in meta.layers)
                    /\ meta.favorite => Layers!CheckFavorite(Layers!Item, c.tenant, TRUE)
                    /\ Layers!Find # {} => opened # <<>> \/ flagged
                    /\ opened # <<>> /\ opened[1].base = <<>> =>
                         opened[1].layer \in Layers!Find \/ (lKind = "zk" /\ lDotted)
  BY DEF Layers!ListedIsOpened
<1> DEFINE opened == Layers!Open("plain", c)
           flagged == Layers!CheckDisabled(lDisabled, Layers!Item, c.tenant)
           meta == Layers!GetItemMetadata(c)
           items == Layers!List({0, 1}, c)
           above == Layers!ProviderRead(0, c)
           below == Layers!ProviderRead(1, c)
<1>1. Layers!ListPath("plain", c) = items /\ Layers!ListRecursive(c) = items
  BY ListsAgree DEF Layers!ListPath, Layers!ValidDirectory, Layers!Spellings
<1>2. \A x : <<x>> # <<>> /\ <<x>>[1] = x
  OBVIOUS
<1>3. Layers!Export(c) # <<>> => above # <<>>
  BY <1>2, LayerReads DEF Layers!Export
<1>4. Layers!Hidden(c) \/ opened = IF flagged \/ items = <<>> THEN <<>> ELSE <<items[1]>>
  BY FirstIsOpened
<1>5. opened = IF flagged THEN <<>> ELSE IF above # <<>> THEN above ELSE below
  BY DEF Layers!Open, Layers!Read, Layers!ValidItem, Layers!ValidRead, Layers!Spellings
<1>6. ASSUME NEW s \in Layers!Spellings, Layers!Open(s, c) # <<>>
      PROVE  ~flagged /\ (Layers!Hidden(c) \/ Layers!ListPath(s, c) # <<>>)
  <2>1. s = "plain"
    BY <1>6 DEF Layers!Open, Layers!ValidItem, Layers!ValidRead, Layers!Spellings
  <2> HIDE DEF flagged, items, opened
  <2> QED
    BY <1>1, <1>4, <1>5, <1>6, <2>1 DEF opened
<1>7. ASSUME opened # <<>>, ~Layers!Hidden(c)
      PROVE  ~meta.disabled /\ opened[1].layer \in meta.layers
  <2>1. ~flagged /\ items # <<>> /\ opened[1] = items[1]
    BY <1>2, <1>4, <1>5, <1>7
  <2>2. meta.disabled = flagged /\ meta.layers = {items[i].layer : i \in DOMAIN items}
    BY <2>1 DEF Layers!GetItemMetadata
  <2>3. 1 \in DOMAIN items
    BY <2>1, FirstIsOpened
  <2> QED
    BY <2>1, <2>2, <2>3
<1>8. meta.favorite => Layers!CheckFavorite(Layers!Item, c.tenant, TRUE)
  <2>1. meta.favorite => Layers!CheckFavorite(Layers!Item, c.tenant, FALSE)
    BY DEF Layers!GetItemMetadata, Layers!NoMetadata
  <2>2. Layers!CheckFavorite(Layers!Item, c.tenant, FALSE) => Layers!CheckFavorite(Layers!Item, c.tenant, TRUE)
    BY DEF Layers!CheckFavorite
  <2> QED
    BY <2>1, <2>2
<1>9. Layers!Find # {} => opened # <<>> \/ flagged
  <2>1. Layers!Find # {} => Layers!Has(0, <<>>) \/ Layers!Has(1, <<>>)
    BY DEF Layers!Find, Layers!FilesFind, Layers!NodesFind
  <2>2. (Layers!Has(0, <<>>) => above # <<>>) /\ (Layers!Has(1, <<>>) => below # <<>>)
    BY <1>2, LayerReads
  <2> QED
    BY <1>5, <2>1, <2>2
<1>10. ASSUME opened # <<>>, opened[1].base = <<>>
       PROVE  opened[1].layer \in Layers!Find \/ (lKind = "zk" /\ lDotted)
  <2>1. PICK l \in {0, 1} : opened = Layers!ProviderRead(l, c) /\ Layers!ProviderRead(l, c) # <<>>
    BY <1>5, <1>10
  <2>2. Layers!Has(l, <<>>) /\ opened[1].layer = l
    BY <1>2, <1>10, <2>1, LayerReads
  <2> QED
    BY <2>2 DEF Layers!Find, Layers!FilesFind, Layers!NodesFind, LayersInv
<1> HIDE DEF opened, flagged, meta, items, above, below
<1> QED
  BY <1>1, <1>3, <1>4, <1>6, <1>7, <1>8, <1>9, <1>10 DEF opened, flagged, meta, items, above, below

\* The entries above a path.
LEMMA Above ==
  /\ \A e \in Disabling!Entries : Disabling!IsPrefix(<<>>, e)
  /\ ~Disabling!IsPrefix(<<"directory">>, <<>>)
  /\ Disabling!IsPrefix(<<"directory">>, <<"directory">>)
  /\ Disabling!IsPrefix(<<"directory">>, Disabling!Item)
  /\ Disabling!IsStrictPrefix(<<>>, <<"directory">>)
<1>1. /\ Len(<<>>) = 0 /\ Len(<<"directory">>) = 1 /\ Len(Disabling!Item) = 2
      /\ <<"directory">>[1] = "directory" /\ Disabling!Item[1] = "directory"
  BY DEF Disabling!Item
<1> QED
  BY <1>1 DEF Disabling!IsPrefix, Disabling!IsStrictPrefix, Disabling!Entries, Disabling!Item

\* Whoever sees an entry differently compares it, too.
LEMMA SeenIsCompared ==
  ASSUME NEW old, NEW new, NEW target \in {"global", "tenant", "owner"},
         NEW t \in Disabling!TenantsOf(target), ~(Disabling!Means(old, t) <=> Disabling!Means(new, t))
  PROVE  Disabling!Flag(old, target) # Disabling!Flag(new, target)
<1>1. old # new
  OBVIOUS
<1>2. CASE target = "tenant"
  BY <1>1, <1>2 DEF Disabling!Flag
<1>3. CASE target = "global"
  <2>1. t = None
    BY <1>3 DEF Disabling!TenantsOf
  <2>2. ~(Everybody \in old <=> Everybody \in new)
    BY <2>1 DEF Disabling!Means
  <2>3. /\ Disabling!Flag(old, target) = old \cap {Everybody}
        /\ Disabling!Flag(new, target) = new \cap {Everybody}
    BY <1>3 DEF Disabling!Flag
  <2> QED
    BY <2>2, <2>3
<1>4. CASE target = "owner"
  <2>1. t = Owner
    BY <1>4 DEF Disabling!TenantsOf
  <2>2. /\ Disabling!Flag(old, target) = {e \in {Owner} : Disabling!Means(old, Owner)}
        /\ Disabling!Flag(new, target) = {e \in {Owner} : Disabling!Means(new, Owner)}
    BY <1>4 DEF Disabling!Flag
  <2> QED
    BY <2>1, <2>2
<1> QED
  BY <1>2, <1>3, <1>4

\* An item is seen differently for an entry at the subscribed path, below it, or strictly above.
LEMMA SeenIsTold ==
  ASSUME NEW old, NEW new, NEW path \in Disabling!Entries \ {Disabling!Item},
         NEW target \in {"global", "tenant", "owner"}, NEW t \in Disabling!TenantsOf(target),
         Disabling!CheckDisabled(old, Disabling!Item, t)
           # Disabling!CheckDisabled(new, Disabling!Item, t),
         \A e \in Disabling!Entries : Disabling!IsStrictPrefix(e, path) => old[e] = new[e]
  PROVE  Disabling!DiffAffects(old, new, path, target)
<1>1. PICK e \in Disabling!Entries : ~(Disabling!Means(old[e], t) <=> Disabling!Means(new[e], t))
  BY Zenon DEF Disabling!CheckDisabled
<1>2. Disabling!Flag(old[e], target) # Disabling!Flag(new[e], target)
  BY <1>1, SeenIsCompared
<1>3. old[e] # new[e]
  BY <1>1
<1>4. Disabling!IsPrefix(path, e)
  BY <1>3, Above DEF Disabling!Entries
<1> QED
  BY <1>2, <1>4 DEF Disabling!DiffAffects

-----------------------------------------------------------------------------
(* The list of disabled items: what a subscriber knows of it.              *)

DisabledInv ==
  /\ dPath \in Disabling!Entries \ {Disabling!Item} /\ dTarget \in Disabling!Targets
  /\ dSilent \in BOOLEAN
  /\ DisabledKnown

\* What the subscriber sees of a list.
Sees(list, t) == Disabling!CheckDisabled(list, Disabling!Item, t)

LEMMA DisabledInit ==
  ASSUME Disabling!Init
  PROVE  DisabledInv
  BY DEF Disabling!Init, DisabledInv, DisabledKnown, Disabling!DisabledKnown

\* A change that is not passed over and not told of is not seen.
LEMMA UntoldIsUnseen ==
  ASSUME DisabledInv, NEW r \in Readings, NEW list, Disabling!ReadDone(r, list),
         ~(dReading[r].publish /\ dSubscriptions
             /\ Disabling!DiffAffects(dReading[r].old, list, dPath, dTarget)),
         list = dDisabled \/ ~Disabling!PassedOver(r, list),
         NEW t \in Disabling!TenantsOf(dTarget)
  PROVE  Sees(dDisabled, t) = Sees(list, t)
<1>1. CASE list = dDisabled
  BY <1>1
<1>2. CASE ~Disabling!PassedOver(r, list)
  <2>1. /\ dReading[r].publish /\ dSubscriptions /\ dReading[r].old = dDisabled
        /\ \A e \in Disabling!Entries :
             Disabling!IsStrictPrefix(e, dPath) => dDisabled[e] = list[e]
    BY <1>2 DEF Disabling!PassedOver
  <2>2. ~Disabling!DiffAffects(dDisabled, list, dPath, dTarget)
    BY <2>1
  <2> QED
    BY <2>1, <2>2, SeenIsTold DEF DisabledInv, Disabling!Targets, Sees
<1> QED
  BY <1>1, <1>2

LEMMA DisabledReads ==
  ASSUME DisabledInv, NEW r \in Readings, NEW list, Disabling!ReadDone(r, list)
  PROVE  DisabledInv'
<1> DEFINE told == dReading[r].publish /\ dSubscriptions
                     /\ Disabling!DiffAffects(dReading[r].old, list, dPath, dTarget)
<1>1. /\ dDisabled' = list /\ dPath' = dPath /\ dTarget' = dTarget
      /\ dKnows' = IF told THEN list ELSE dKnows
      /\ dSilent' = (~told /\ (dSilent \/ (list # dDisabled /\ Disabling!PassedOver(r, list))))
  BY DEF Disabling!ReadDone, Disabling!Set
<1>2. ASSUME told PROVE DisabledKnown'
  BY <1>1, <1>2 DEF DisabledKnown, Disabling!DisabledKnown
<1>3. ASSUME ~told, ~dSilent, list = dDisabled \/ ~Disabling!PassedOver(r, list)
      PROVE  DisabledKnown'
  <2>1. \A t \in Disabling!TenantsOf(dTarget) : Sees(dDisabled, t) = Sees(list, t)
    BY <1>3, UntoldIsUnseen
  <2>2. \A t \in Disabling!TenantsOf(dTarget) : Sees(dKnows, t) = Sees(dDisabled, t)
    BY <1>3 DEF DisabledInv, DisabledKnown, Disabling!DisabledKnown, Sees
  <2>3. \A t \in Disabling!TenantsOf(dTarget) : Sees(dKnows, t) = Sees(list, t)
    BY <2>1, <2>2
  <2>4. dKnows' = dKnows
    BY <1>1, <1>3
  <2> QED
    BY <1>1, <2>3, <2>4 DEF DisabledKnown, Disabling!DisabledKnown, Sees
<1>4. ASSUME dSilent' PROVE DisabledKnown'
  BY <1>4 DEF DisabledKnown, Disabling!DisabledKnown
<1> HIDE DEF told
<1>5. dSilent' \in BOOLEAN
  BY <1>1, Zenon
<1>6. DisabledKnown'
  <2>1. CASE told
    BY <2>1, <1>2
  <2>2. CASE dSilent'
    BY <2>2, <1>4
  <2>3. CASE ~told /\ ~dSilent'
    <3>1. ~dSilent /\ (list = dDisabled \/ ~Disabling!PassedOver(r, list))
      BY <1>1, <2>3, Zenon
    <3> QED
      BY <2>3, <3>1, <1>3
  <2> QED
    BY <2>1, <2>2, <2>3
<1> QED
  BY <1>1, <1>5, <1>6 DEF DisabledInv

LEMMA DisabledStep ==
  ASSUME DisabledInv, [Disabling!Next]_disabledVars
  PROVE  DisabledInv'
<1>1. CASE UNCHANGED <<dPath, dTarget, dDisabled, dKnows, dSilent>>
  BY <1>1 DEF DisabledInv, DisabledKnown, Disabling!DisabledKnown
<1>2. ASSUME NEW r \in Readings, NEW publish \in BOOLEAN, Disabling!ReadBegin(r, publish)
      PROVE  DisabledInv'
  BY <1>1, <1>2 DEF Disabling!ReadBegin
<1>3. ASSUME NEW r \in Readings, Disabling!ReadFails(r)
      PROVE  DisabledInv'
  BY <1>1, <1>3 DEF Disabling!ReadFails
<1>4. ASSUME NEW r \in Readings, Disabling!ReadEmpty(r)
      PROVE  DisabledInv'
  <2>1. /\ dDisabled' = Disabling!Empty /\ UNCHANGED <<dPath, dTarget, dKnows>>
        /\ dSilent' = (dSilent \/ dDisabled # Disabling!Empty)
    BY <1>4 DEF Disabling!ReadEmpty
  <2>2. dSilent' \in BOOLEAN
    BY <2>1, Zenon
  <2>3. CASE dSilent'
    BY <2>1, <2>2, <2>3 DEF DisabledInv, DisabledKnown, Disabling!DisabledKnown
  <2>4. CASE ~dSilent'
    <3>1. ~dSilent /\ dDisabled = Disabling!Empty
      BY <2>1, <2>4, Zenon
    <3>2. dDisabled' = dDisabled
      BY <2>1, <3>1
    <3> QED
      BY <2>1, <2>2, <3>1, <3>2 DEF DisabledInv, DisabledKnown, Disabling!DisabledKnown
  <2> QED
    BY <2>3, <2>4
<1>5. CASE UNCHANGED disabledVars
  BY <1>1, <1>5 DEF disabledVars
<1> QED
  BY <1>2, <1>3, <1>4, <1>5, DisabledReads DEF Disabling!Next

-----------------------------------------------------------------------------
(* The composition.                                                        *)

ProvidersInv == AzureInv /\ ScopesInv /\ RegInv /\ GitInv /\ FilesInv /\ LayersInv
                  /\ DisabledInv

LEMMA ProvidersInvariant == ProvidersSpec => []ProvidersInv
<1>1. ASSUME ProvidersInit PROVE ProvidersInv
  BY <1>1, AzureInit, ScopesInit, RegInit, GitInit, FilesInit, LayersInit, DisabledInit
     DEF ProvidersInit, ProvidersInv
<1>2. ASSUME ProvidersInv, [ProvidersNext /\ UNCHANGED provider]_allVars
      PROVE  ProvidersInv'
  BY <1>2, PartSteps, AzureStep, ScopesStep, RegStep, GitStep, FilesStep, LayersStep,
     DisabledStep DEF ProvidersInv
<1> QED
  BY <1>1, <1>2, PTL DEF ProvidersSpec

\* Whichever provider there is, when it is at rest its subscribers know the content as it is,
\* or are about to be told: of commits that a pull or an initialization brought, of archives
\* of a mirror, of directories that appeared while others were listed, and of the places that
\* a target means (git.py:345-355, libsreg.py:146-153, filesystem.py:209-295,
\* zookeeper.py:494-619).
THEOREM NothingIsHidden == ProvidersSpec => []SubscribersKnow
<1>1. ProvidersInv => SubscribersKnow
  BY GitImplies, RegImplies, FilesImplies DEF ProvidersInv, ScopesInv, SubscribersKnow
<1> QED
  BY <1>1, ProvidersInvariant, PTL

\* Whatever a read of a blob is given is the whole version of the stored tag or, beside a
\* download, its first part, unless a download of it broke or ran beside another, however
\* reads, late answers, changes and crashes interleave (azurestorage.py:168-232).
THEOREM ServedIsWhole == ProvidersSpec => []ServedWhole
<1>1. ProvidersInv => ServedWhole
  BY DEF ProvidersInv, AzureInv
<1> QED
  BY <1>1, ProvidersInvariant, PTL

\* What is listed first is what is opened, in every context and however two layers store the
\* item, whatever is disabled; and what is exported, found or described can be opened
\* (service.py:375-437, and list() and read() of filesystem.py and zookeeper.py).
THEOREM ListedCanBeOpened == ProvidersSpec => []ListedIsOpened
<1>1. ProvidersInv => ListedIsOpened
  BY LayersImplies DEF ProvidersInv, ListedIsOpened
<1> QED
  BY <1>1, ProvidersInvariant, PTL

\* A subscriber sees the item as when it was told last, whoever the tenants are, whichever
\* entries changed at once and however many readings of the list run side by side, but for
\* the changes that are passed over (service.py:556-711).
THEOREM DisabledIsKnown == ProvidersSpec => []DisabledKnown
<1>1. ProvidersInv => DisabledKnown
  BY DEF ProvidersInv, DisabledInv
<1> QED
  BY <1>1, ProvidersInvariant, PTL
=============================================================================
