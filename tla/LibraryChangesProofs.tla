------------------------ MODULE LibraryChangesProofs ------------------------
(***************************************************************************)
(* Proofs about LibraryChanges: its types, and that the stored digest is   *)
(* never that of a directory which the subscriber does not know.           *)
(***************************************************************************)
EXTENDS LibraryChanges, TLAPS

-----------------------------------------------------------------------------
(* The inductive invariant.                                                *)

\* v has been a version of i, and while none comes back it will be again only if it
\* still is: versions grow, and an item is created or removed at most once.
Past(i, v) ==
  \/ v = version[i]
  \/ v < version[i] /\ (v > 0 \/ i \in turned)
  \/ version[i] = 0 /\ i \in turned

\* What a digest under way has seen are versions of the past.
MadeOfPast ==
  \A c \in Checks :
    /\ ~check[c].listed => check[c].left = {} /\ check[c].made = Missing
    /\ check[c].listed /\ check[c].kind # "gone" /\ ~returned
         => \A i \in Items \ check[c].left : Past(i, check[c].made[i])

\* There is one call of subscribe(), and what it will store is the first digest.
OneSubscriber ==
  /\ subscribes = 0 => known = {}
  /\ \A c \in Checks : check[c].kind = "subscribe" =>
       /\ subscribes > 0
       /\ subscribes <= 1 =>
            known = {} /\ \A d \in Checks : check[d].kind = "subscribe" => d = c

\* The stored digest d and the texts k that the subscriber has read belong together: d was
\* made before k was read, and an item that still has the version in d has the text in k.
Agrees(d, k) ==
  \A i \in Items : Past(i, d[i]) /\ (d[i] = version[i] => k[i] = text[i])

KnownAgrees ==
  Comparable /\ known # {} /\ digest # {} =>
    \E d \in Versions, k \in Texts : digest = {d} /\ known = {k} /\ Agrees(d, k)

ChangesInv == TypeOK /\ MadeOfPast /\ OneSubscriber /\ KnownAgrees
-----------------------------------------------------------------------------
(* Types.                                                                  *)

CheckRecord == [kind: {"idle", "check", "subscribe", "gone"}, listed: BOOLEAN,
                left: SUBSET Items, made: Versions, broken: BOOLEAN]

LEMMA Bounds ==
  /\ MaxChecks \in Nat /\ MaxEdits \in Nat /\ MaxVersion \in Nat
  /\ MaxScheduled \in Nat /\ MaxSubscribes \in Nat /\ MaxBreaks \in Nat
  BY BoundsAssumption

LEMMA RecordTypes ==
  /\ Missing \in Versions /\ Missing \in Texts
  /\ Idle \in CheckRecord /\ Gone \in CheckRecord
  /\ \A kind \in {"idle", "check", "subscribe"} : Begun(kind) \in CheckRecord
  BY Bounds DEF Missing, Versions, Texts, Idle, Gone, Begun, CheckRecord

\* What the slots hold when one of them, or all of them, have taken a step.
LEMMA SlotType ==
  ASSUME TypeOK, NEW c \in Checks, NEW r \in CheckRecord,
         check' = [check EXCEPT ![c] = r]
  PROVE  check' \in [Checks -> CheckRecord]
  BY DEF TypeOK, CheckRecord

LEMMA EditedType ==
  ASSUME TypeOK, NEW i \in Items, NEW v \in Nat, Edited(i, v)
  PROVE  /\ version' \in Versions
         /\ text' \in Texts
         /\ edits' \in 0..MaxEdits
  BY Bounds DEF TypeOK, Edited, Versions, Texts

LEMMA ToldType ==
  ASSUME TypeOK
  PROVE  /\ counter \in 1..MaxVersion + 1
         /\ Append(told, counter) \in Seq(1..MaxVersion + 1)
         /\ <<counter>> \in Seq(1..MaxVersion + 1)
         /\ told # <<>> => /\ Tail(told) \in Seq(1..MaxVersion + 1)
                          /\ Head(told) \in 1..MaxVersion + 1
<1>. DEFINE Values == 1..MaxVersion + 1
<1>1. told \in Seq(Values) /\ counter \in Values
  BY DEF TypeOK
<1>. HIDE DEF Values
<1>2. /\ Append(told, counter) \in Seq(Values) /\ <<counter>> \in Seq(Values)
      /\ told # <<>> => Tail(told) \in Seq(Values) /\ Head(told) \in Values
  BY <1>1
<1>. QED BY <1>1, <1>2 DEF Values

LEMMA TypeStep == TypeOK /\ [Next]_vars => TypeOK'
<1>. SUFFICES ASSUME TypeOK, [Next]_vars PROVE TypeOK'
  OBVIOUS
<1>. USE Bounds DEF directory, counters
<1>1. ASSUME NEW i \in Items, Set(i) PROVE TypeOK'
  <2>1. version[i] + 1 \in Nat
    BY DEF TypeOK, Versions
  <2>. QED BY <1>1, <2>1, EditedType DEF TypeOK, Set, Edited
<1>2. ASSUME NEW i \in Items, Turn(i), check' \in [Checks -> CheckRecord] PROVE TypeOK'
  <2>1. turned' \subseteq Items /\ returned' \in BOOLEAN
    BY <1>2 DEF TypeOK, Turn
  <2>2. /\ version' \in Versions /\ text' \in Texts /\ edits' \in 0..MaxEdits
    BY <1>2, EditedType DEF Turn
  <2>. QED BY <1>2, <2>1, <2>2 DEF TypeOK, Turn, Edited, CheckRecord
<1>15. ASSUME NEW i \in Items, CreateOrRemove(i) PROVE TypeOK'
  BY <1>2, <1>15 DEF CreateOrRemove, TypeOK, CheckRecord
<1>16. ASSUME NEW c \in Checks, NEW i \in Items, Vanish(c, i) PROVE TypeOK'
  <2>1. check' \in [Checks -> CheckRecord]
    BY <1>16, RecordTypes, SlotType DEF Vanish
  <2>. QED BY <1>2, <1>16, <2>1 DEF Vanish
<1>3. CASE IncrementVersion
  BY <1>3 DEF TypeOK, IncrementVersion
<1>4. CASE Break
  <2>1. check' \in [Checks -> CheckRecord]
    BY <1>4 DEF Break, TypeOK, CheckRecord, Made
  <2>2. breaks' \in 0..MaxBreaks /\ isReady' \in BOOLEAN
    <3>1. breaks \in 0..MaxBreaks /\ breaks < MaxBreaks /\ breaks' = breaks + 1 /\ isReady' = FALSE
      BY <1>4 DEF Break, TypeOK
    <3>2. breaks' \in 0..MaxBreaks
      BY <3>1, Bounds
    <3>. QED BY <3>1, <3>2
  <2>. QED BY <1>4, <2>1, <2>2 DEF TypeOK, Break, CheckRecord
<1>5. CASE Connect
  <2>1. told' \in Seq(1..MaxVersion + 1) /\ watched' \in 0..MaxVersion + 1
    BY <1>5, ToldType DEF Connect
  <2>. QED BY <1>5, <2>1 DEF TypeOK, Connect
<1>6. CASE OnVersionChanged
  <2>1. told' \in Seq(1..MaxVersion + 1) /\ watched' \in 0..MaxVersion + 1
    BY <1>6, ToldType DEF OnVersionChanged
  <2>. QED BY <1>6, <2>1 DEF TypeOK, OnVersionChanged
<1>7. CASE OnTick60
  BY <1>7, ToldType DEF TypeOK, OnTick60
<1>8. CASE CheckVersionCounter
  <2>1. told' \in Seq(1..MaxVersion + 1) /\ Version' \in 0..MaxVersion + 1
    <3>1. Version \in 0..MaxVersion + 1
      BY DEF TypeOK
    <3>. QED BY <1>8, <3>1, ToldType DEF CheckVersionCounter
  <2>2. scheduled' \in 0..MaxScheduled
    BY <1>8 DEF CheckVersionCounter, TypeOK
  <2>. QED BY <1>8, <2>1, <2>2 DEF TypeOK, CheckVersionCounter
<1>9. ASSUME NEW c \in Checks, LibraryChanged(c) PROVE check' \in [Checks -> CheckRecord]
  BY <1>9, RecordTypes, SlotType DEF LibraryChanged, TypeOK, CheckRecord
<1>10. ASSUME NEW c \in Checks, Subscribe(c) PROVE TypeOK'
  <2>1. check' \in [Checks -> CheckRecord]
    BY <1>10, RecordTypes, SlotType DEF Subscribe
  <2>. QED BY <1>10, <2>1 DEF TypeOK, Subscribe, CheckRecord
<1>11. ASSUME NEW c \in Checks, OnTick600(c) PROVE TypeOK'
  <2>1. check' \in [Checks -> CheckRecord]
    BY <1>11, <1>9 DEF OnTick600
  <2>. QED BY <1>11, <2>1 DEF TypeOK, OnTick600, LibraryChanged, CheckRecord
<1>12. ASSUME NEW c \in Checks, StartScheduled(c) PROVE TypeOK'
  <2>1. check' \in [Checks -> CheckRecord]
    BY <1>12, <1>9 DEF StartScheduled
  <2>. QED BY <1>12, <2>1 DEF TypeOK, StartScheduled, LibraryChanged, CheckRecord
<1>13. ASSUME NEW c \in Checks, DigestStep(c) PROVE TypeOK'
  <2>1. check[c] \in CheckRecord
    BY DEF TypeOK, CheckRecord
  <2>2. CASE List(c)
    <3>1. [check[c] EXCEPT !.listed = TRUE, !.broken = FALSE,
                           !.left = {i \in Items : version[i] > 0}] \in CheckRecord
      BY <2>1 DEF CheckRecord
    <3>2. check' = [check EXCEPT ![c] =
                      [check[c] EXCEPT !.listed = TRUE, !.broken = FALSE,
                                       !.left = {i \in Items : version[i] > 0}]]
      BY <2>2 DEF List, TypeOK
    <3>3. check' \in [Checks -> CheckRecord]
      BY <3>1, <3>2, SlotType
    <3>. QED BY <2>2, <3>3 DEF TypeOK, List, CheckRecord
  <2>3. CASE DigestRaises(c)
    <3>1. check' \in [Checks -> CheckRecord]
      BY <2>3, RecordTypes, SlotType DEF DigestRaises
    <3>. QED BY <2>3, <3>1 DEF TypeOK, DigestRaises, CheckRecord
  <2>4. CASE SubscribeDone(c)
    <3>1. check' \in [Checks -> CheckRecord]
      BY <2>4, RecordTypes, SlotType DEF SubscribeDone
    <3>2. digest' \subseteq Versions /\ known' \subseteq Texts
      BY <2>1, <2>4 DEF TypeOK, SubscribeDone, CheckRecord
    <3>. QED BY <2>4, <3>1, <3>2 DEF TypeOK, SubscribeDone, CheckRecord
  <2>5. CASE CheckDone(c)
    <3>1. check' \in [Checks -> CheckRecord]
      BY <2>5, RecordTypes, SlotType DEF CheckDone
    <3>2. digest' \subseteq Versions /\ known' \subseteq Texts
      BY <2>1, <2>5 DEF TypeOK, CheckDone, CheckRecord
    <3>. QED BY <2>5, <3>1, <3>2 DEF TypeOK, CheckDone, CheckRecord
  <2>6. ASSUME NEW i \in Items, Visit(c, i) PROVE TypeOK'
    <3>. DEFINE seen == [check[c] EXCEPT !.left = check[c].left \ {i}, !.made[i] = version[i],
                                         !.broken = FALSE]
    <3>1. seen \in CheckRecord
      BY <2>1 DEF TypeOK, CheckRecord, Versions
    <3>2. check' \in [Checks -> CheckRecord]
      <4>1. CASE version[i] = 0
        BY <2>6, <4>1, SlotType, RecordTypes DEF Visit
      <4>2. CASE version[i] # 0
        <5>1. check' = [check EXCEPT ![c] = seen]
          BY <2>6, <4>2 DEF Visit
        <5>. HIDE DEF seen
        <5>. QED BY <3>1, <5>1, SlotType
      <4>. QED BY <4>1, <4>2
    <3>. QED BY <2>6, <3>2 DEF TypeOK, Visit, CheckRecord
  <2>7. CASE CheckGone(c)
    <3>1. check' \in [Checks -> CheckRecord]
      BY <2>7, RecordTypes, SlotType DEF CheckGone
    <3>2. digest' \subseteq Versions /\ known' \subseteq Texts
      BY <2>7 DEF TypeOK, CheckGone
    <3>. QED BY <2>7, <3>1, <3>2 DEF TypeOK, CheckGone, CheckRecord
  <2>. QED BY <1>13, <2>2, <2>3, <2>4, <2>5, <2>6, <2>7 DEF DigestStep
<1>14. CASE UNCHANGED vars
  BY <1>14 DEF TypeOK, vars
<1>. QED BY <1>1, <1>3, <1>4, <1>5, <1>6, <1>7, <1>8, <1>10, <1>11, <1>12, <1>13, <1>14, <1>15,
            <1>16 DEF Next

LEMMA TypeInit == Init => TypeOK
<1>. SUFFICES ASSUME Init PROVE TypeOK
  OBVIOUS
<1>1. version \in Versions /\ text \in Texts
  <2>1. \A i \in Items : (IF i \in Present THEN 1 ELSE 0) \in Nat
    OBVIOUS
  <2>. QED BY <2>1, RecordTypes DEF Init, Versions
<1>2. check \in [Checks -> CheckRecord]
  BY RecordTypes DEF Init
<1>3. told \in Seq(1..MaxVersion + 1)
  BY DEF Init
<1>4. /\ counter \in 1..MaxVersion + 1 /\ watched \in 0..MaxVersion + 1
      /\ Version \in 0..MaxVersion + 1 /\ scheduled \in 0..MaxScheduled
      /\ edits \in 0..MaxEdits /\ subscribes \in 0..MaxSubscribes /\ breaks \in 0..MaxBreaks
  BY Bounds DEF Init
<1>5. /\ isReady \in BOOLEAN /\ returned \in BOOLEAN /\ digest \subseteq Versions
      /\ turned \subseteq Items /\ known \subseteq Texts
  BY DEF Init
<1>. QED BY <1>1, <1>2, <1>3, <1>4, <1>5 DEF TypeOK, CheckRecord

\* Every variable keeps its type, for any items and bounds.
THEOREM ChangesTypeCorrect == Spec => []TypeOK
<1>. QED BY TypeInit, TypeStep, PTL DEF Spec
-----------------------------------------------------------------------------
(* What the subscriber knows.                                              *)

\* An edit leaves versions of the past in the past, and an item whose version is one of
\* them afterwards was not edited.
LEMMA EditKeepsPast ==
  ASSUME TypeOK, NEW i \in Items, Set(i) \/ Turn(i), ~returned',
         NEW j \in Items, NEW v \in Nat, Past(j, v)
  PROVE  /\ ~returned
         /\ Past(j, v)'
         /\ v = version'[j] => v = version[j] /\ text'[j] = text[j]
<1>1. version \in [Items -> Nat] /\ text \in [Items -> 0..MaxEdits] /\ returned \in BOOLEAN
  BY DEF TypeOK, Versions, Texts
<1>2. CASE Set(i)
  BY <1>1, <1>2 DEF Set, Edited, Past
<1>3. CASE Turn(i)
  <2>1. ~returned /\ i \notin turned /\ turned' = turned \cup {i}
    BY <1>1, <1>3 DEF Turn
  <2>. QED BY <1>1, <1>3, <2>1 DEF Turn, Edited, Past
<1>. QED BY <1>2, <1>3

\* The slots after a step of one of them.
LEMMA SlotsAfter ==
  ASSUME TypeOK, NEW c \in Checks, NEW r, check' = [check EXCEPT ![c] = r]
  PROVE  /\ check'[c] = r
         /\ \A d \in Checks : d # c => check'[d] = check[d]
  BY DEF TypeOK

LEMMA PastStep == TypeOK /\ MadeOfPast /\ [Next]_vars => MadeOfPast'
<1>. SUFFICES ASSUME TypeOK, MadeOfPast, [Next]_vars PROVE MadeOfPast'
  OBVIOUS
<1>. DEFINE Good(r) ==
       /\ ~r.listed => r.left = {} /\ r.made = Missing
       /\ r.listed /\ r.kind # "gone" /\ ~returned => \A i \in Items \ r.left : Past(i, r.made[i])
<1>1. \A c \in Checks : Good(check[c])
  BY DEF MadeOfPast
<1>2. ASSUME NEW i \in Items, Set(i) \/ Turn(i),
             \A c \in Checks : check'[c] \in {check[c], Idle, Gone}
      PROVE  MadeOfPast'
  <2>. DEFINE Later(j, v) == \/ v = version'[j]
                             \/ v < version'[j] /\ (v > 0 \/ j \in turned')
                             \/ version'[j] = 0 /\ j \in turned'
  <2>1. ASSUME NEW c \in Checks, check[c].listed, check[c].kind # "gone", ~returned',
               NEW j \in Items \ check[c].left
        PROVE  Later(j, check[c].made[j])
    <3>1. check[c].made[j] \in Nat
      BY DEF TypeOK, Versions
    <3>2. ~returned
      BY <1>2, <2>1 DEF TypeOK, Set, Turn
    <3>3. Past(j, check[c].made[j])
      BY <2>1, <3>2 DEF MadeOfPast
    <3>4. \A w \in Nat : Past(j, w) => Later(j, w)
      BY <1>2, <2>1, EditKeepsPast DEF Past
    <3>. HIDE DEF Later
    <3>. QED BY <3>1, <3>3, <3>4
  <2>2. ASSUME NEW c \in Checks, check'[c].listed, check'[c].kind # "gone" PROVE check'[c] = check[c]
    BY <1>2, <2>2 DEF Idle, Gone
  <2>3. ASSUME NEW c \in Checks, check'[c].listed, check'[c].kind # "gone", ~returned',
               NEW j \in Items \ check'[c].left
        PROVE  Past(j, check[c].made[j])'
    <3>1. check'[c] = check[c]
      BY <2>2, <2>3
    <3>2. Later(j, check'[c].made[j])
      BY <2>1, <2>3, <3>1
    <3>. QED BY <3>2 DEF Past
  <2>4. ASSUME NEW c \in Checks, ~check'[c].listed
        PROVE  check'[c].left = {} /\ check'[c].made = Missing
    BY <1>1, <1>2, <2>4 DEF Idle, Gone
  <2>. QED BY <2>3, <2>4 DEF MadeOfPast
<1>13. ASSUME NEW i \in Items, Set(i) \/ CreateOrRemove(i) PROVE MadeOfPast'
  BY <1>2, <1>13 DEF Set, CreateOrRemove
<1>14. ASSUME NEW c \in Checks, NEW i \in Items, Vanish(c, i) PROVE MadeOfPast'
  <2>1. \A d \in Checks : check'[d] \in {check[d], Idle, Gone}
    BY <1>14, SlotsAfter DEF Vanish
  <2>. QED BY <1>2, <1>14, <2>1 DEF Vanish
<1>3. ASSUME UNCHANGED directory, \A c \in Checks : Good(check'[c]) PROVE MadeOfPast'
  BY <1>3 DEF MadeOfPast, directory, Past
<1>4. ASSUME UNCHANGED <<directory, check>> PROVE MadeOfPast'
  BY <1>1, <1>3, <1>4
<1>5. CASE Break
  <2>1. UNCHANGED directory
    BY <1>5 DEF Break
  <2>2. \A c \in Checks : /\ check'[c].listed = check[c].listed
                         /\ check'[c].left = check[c].left
                         /\ check'[c].made = check[c].made
                         /\ check'[c].kind = check[c].kind
    BY <1>5 DEF Break, TypeOK
  <2>. QED BY <1>1, <1>3, <2>1, <2>2
<1>6. ASSUME NEW c \in Checks, NEW r, UNCHANGED directory, Good(r),
             check' = [check EXCEPT ![c] = r]
      PROVE  MadeOfPast'
  <2>1. \A d \in Checks : Good(check'[d])
    <3>. HIDE DEF Good
    <3>. QED BY <1>1, <1>6, SlotsAfter
  <2>. QED BY <1>3, <1>6, <2>1
<1>7. Good(Idle) /\ \A kind : Good(Begun(kind))
  BY DEF Idle, Begun
<1>8. ASSUME NEW c \in Checks, Subscribe(c) \/ LibraryChanged(c) PROVE MadeOfPast'
  <2>1. UNCHANGED directory
    BY <1>8 DEF Subscribe, LibraryChanged
  <2>. HIDE DEF Good
  <2>. QED BY <1>4, <1>6, <1>7, <1>8, <2>1 DEF Subscribe, LibraryChanged
<1>9. ASSUME NEW c \in Checks, DigestRaises(c) \/ SubscribeDone(c) \/ CheckDone(c) \/ CheckGone(c)
      PROVE  MadeOfPast'
  <2>1. UNCHANGED directory /\ check' = [check EXCEPT ![c] = Idle]
    BY <1>9 DEF DigestRaises, SubscribeDone, CheckDone, CheckGone
  <2>. HIDE DEF Good
  <2>. QED BY <1>6, <1>7, <2>1
<1>10. ASSUME NEW c \in Checks, List(c) PROVE MadeOfPast'
  <2>. DEFINE r == [check[c] EXCEPT !.listed = TRUE, !.broken = FALSE,
                                    !.left = {i \in Items : version[i] > 0}]
  <2>1. /\ check[c] \in CheckRecord /\ version \in [Items -> Nat]
    BY DEF TypeOK, CheckRecord, Versions
  <2>2. UNCHANGED directory /\ check' = [check EXCEPT ![c] = r]
    BY <1>10 DEF List
  <2>3. r.listed /\ r.left = {i \in Items : version[i] > 0} /\ r.made = check[c].made
    BY <2>1 DEF CheckRecord
  <2>4. check[c].made = Missing
    BY <1>10 DEF List, MadeOfPast
  <2>5. Good(r)
    <3>. HIDE DEF r
    <3>. QED BY <2>1, <2>3, <2>4 DEF Missing, Past
  <2>. HIDE DEF r, Good
  <2>. QED BY <1>6, <2>2, <2>5
<1>11. ASSUME NEW c \in Checks, NEW i \in Items, Visit(c, i) PROVE MadeOfPast'
  <2>. DEFINE seen == [check[c] EXCEPT !.left = check[c].left \ {i}, !.made[i] = version[i],
                                       !.broken = FALSE]
  <2>1. UNCHANGED directory
    BY <1>11 DEF Visit
  <2>2. CASE version[i] = 0
    <3>1. check' = [check EXCEPT ![c] = Idle]
      BY <1>11, <2>2 DEF Visit
    <3>. HIDE DEF Good
    <3>. QED BY <1>6, <1>7, <2>1, <3>1
  <2>3. CASE version[i] # 0
    <3>1. check' = [check EXCEPT ![c] = seen]
      BY <1>11, <2>3 DEF Visit
    <3>2. check[c] \in CheckRecord
      BY DEF TypeOK, CheckRecord
    <3>3. /\ seen.listed = check[c].listed /\ seen.kind = check[c].kind /\ seen.left = check[c].left \ {i}
          /\ seen.made = [check[c].made EXCEPT ![i] = version[i]]
      BY <3>2 DEF CheckRecord
    <3>4. check[c].listed
      BY <1>1, <1>11 DEF Visit
    <3>5. Good(seen)
      <4>. HIDE DEF seen
      <4>1. check[c].made \in [Items -> Nat]
        BY <3>2 DEF CheckRecord, Versions
      <4>. QED BY <1>1, <3>3, <3>4, <4>1 DEF Past
    <3>. HIDE DEF seen, Good
    <3>. QED BY <1>6, <2>1, <3>1, <3>5
  <2>. QED BY <2>2, <2>3
<1>12. CASE IncrementVersion \/ Connect \/ OnVersionChanged \/ OnTick60
            \/ CheckVersionCounter \/ UNCHANGED vars
  <2>1. UNCHANGED <<directory, check>>
    BY <1>12 DEF IncrementVersion, Connect, OnVersionChanged, OnTick60, CheckVersionCounter,
                 vars, directory
  <2>. QED BY <1>4, <2>1
<1>. QED BY <1>5, <1>8, <1>9, <1>10, <1>11, <1>12, <1>13, <1>14
     DEF Next, DigestStep, OnTick600, StartScheduled

LEMMA SubscriberStep == TypeOK /\ OneSubscriber /\ [Next]_vars => OneSubscriber'
<1>. SUFFICES ASSUME TypeOK, OneSubscriber, [Next]_vars PROVE OneSubscriber'
  OBVIOUS
<1>1. subscribes \in Nat
  BY Bounds DEF TypeOK
<1>2. ASSUME UNCHANGED <<known, subscribes>>,
             \A c \in Checks : check'[c].kind = "subscribe" => check[c].kind = "subscribe"
      PROVE  OneSubscriber'
  BY <1>2 DEF OneSubscriber
<1>3. ASSUME NEW c \in Checks, NEW r, check' = [check EXCEPT ![c] = r],
             r.kind = "subscribe" => check[c].kind = "subscribe"
      PROVE  \A d \in Checks : check'[d].kind = "subscribe" => check[d].kind = "subscribe"
  BY <1>3, SlotsAfter
<1>4. Idle.kind = "idle" /\ Gone.kind = "gone" /\ \A kind : Begun(kind).kind = kind
  BY DEF Idle, Gone, Begun
<1>5. CASE \/ \E i \in Items : Set(i) \/ CreateOrRemove(i)
           \/ IncrementVersion \/ Connect \/ OnVersionChanged \/ OnTick60
           \/ CheckVersionCounter \/ UNCHANGED vars
  <2>1. UNCHANGED <<known, subscribes, check>>
    BY <1>5 DEF Set, CreateOrRemove, Turn, Edited, IncrementVersion, Connect, OnVersionChanged,
                OnTick60, CheckVersionCounter, vars
  <2>. QED BY <1>2, <2>1
<1>6. CASE Break
  <2>1. \A c \in Checks : check'[c].kind = check[c].kind
    BY <1>6 DEF Break, TypeOK
  <2>. QED BY <1>2, <1>6, <2>1 DEF Break
<1>7. ASSUME NEW c \in Checks, LibraryChanged(c) PROVE OneSubscriber'
  <2>1. UNCHANGED <<known, subscribes>>
    BY <1>7 DEF LibraryChanged
  <2>2. \A d \in Checks : check'[d].kind = "subscribe" => check[d].kind = "subscribe"
    BY <1>3, <1>4, <1>7 DEF LibraryChanged
  <2>. QED BY <1>2, <2>1, <2>2
<1>8. ASSUME NEW c \in Checks, Subscribe(c) PROVE OneSubscriber'
  <2>1. /\ check'[c].kind = "subscribe"
        /\ \A d \in Checks : d # c => check'[d] = check[d]
    BY <1>4, <1>8, SlotsAfter DEF Subscribe
  <2>2. subscribes' = subscribes + 1 /\ known' = known
    BY <1>8 DEF Subscribe
  <2>. QED BY <1>1, <2>1, <2>2 DEF OneSubscriber
<1>9. ASSUME NEW c \in Checks, NEW i \in Items, Visit(c, i) PROVE OneSubscriber'
  <2>. DEFINE seen == [check[c] EXCEPT !.left = check[c].left \ {i}, !.made[i] = version[i],
                                       !.broken = FALSE]
  <2>1. seen.kind = check[c].kind
    BY DEF TypeOK
  <2>2. check' = [check EXCEPT ![c] = IF version[i] = 0 THEN Idle ELSE seen]
    BY <1>9 DEF Visit
  <2>. HIDE DEF seen
  <2>3. \A d \in Checks : check'[d].kind = "subscribe" => check[d].kind = "subscribe"
    BY <1>3, <1>4, <2>1, <2>2
  <2>. QED BY <1>2, <1>9, <2>3 DEF Visit
<1>10. ASSUME NEW c \in Checks, List(c) PROVE OneSubscriber'
  <2>. DEFINE r == [check[c] EXCEPT !.listed = TRUE, !.broken = FALSE,
                                    !.left = {i \in Items : version[i] > 0}]
  <2>1. r.kind = check[c].kind
    BY DEF TypeOK
  <2>2. check' = [check EXCEPT ![c] = r]
    BY <1>10 DEF List
  <2>. HIDE DEF r
  <2>3. \A d \in Checks : check'[d].kind = "subscribe" => check[d].kind = "subscribe"
    BY <1>3, <2>1, <2>2
  <2>. QED BY <1>2, <1>10, <2>3 DEF List
<1>11. ASSUME NEW c \in Checks, DigestRaises(c) PROVE OneSubscriber'
  <2>1. \A d \in Checks : check'[d].kind = "subscribe" => check[d].kind = "subscribe"
    BY <1>3, <1>4, <1>11 DEF DigestRaises
  <2>. QED BY <1>2, <1>11, <2>1 DEF DigestRaises
<1>12. ASSUME NEW c \in Checks, SubscribeDone(c) PROVE OneSubscriber'
  <2>1. subscribes' = subscribes /\ check[c].kind = "subscribe"
    BY <1>12 DEF SubscribeDone
  <2>2. check'[c].kind = "idle" /\ \A d \in Checks : d # c => check'[d] = check[d]
    BY <1>4, <1>12, SlotsAfter DEF SubscribeDone
  <2>. QED BY <1>1, <2>1, <2>2 DEF OneSubscriber
<1>13. ASSUME NEW c \in Checks, CheckDone(c) PROVE OneSubscriber'
  <2>1. subscribes' = subscribes /\ (known = {} => known' = {})
    BY <1>13 DEF CheckDone
  <2>2. \A d \in Checks : check'[d].kind = "subscribe" => check[d].kind = "subscribe"
    BY <1>3, <1>4, <1>13 DEF CheckDone
  <2>. QED BY <2>1, <2>2 DEF OneSubscriber
<1>14. ASSUME NEW c \in Checks, CheckGone(c) PROVE OneSubscriber'
  <2>1. subscribes' = subscribes /\ (known = {} => known' = {})
    BY <1>14 DEF CheckGone
  <2>2. \A d \in Checks : check'[d].kind = "subscribe" => check[d].kind = "subscribe"
    BY <1>3, <1>4, <1>14 DEF CheckGone
  <2>. QED BY <2>1, <2>2 DEF OneSubscriber
<1>15. ASSUME NEW c \in Checks, NEW i \in Items, Vanish(c, i) PROVE OneSubscriber'
  <2>1. UNCHANGED <<known, subscribes>>
    BY <1>15 DEF Vanish, Turn, Edited
  <2>2. \A d \in Checks : check'[d].kind = "subscribe" => check[d].kind = "subscribe"
    BY <1>3, <1>4, <1>15 DEF Vanish
  <2>. QED BY <1>2, <2>1, <2>2
<1>. QED BY <1>5, <1>6, <1>7, <1>8, <1>9, <1>10, <1>11, <1>12, <1>13, <1>14, <1>15
     DEF Next, DigestStep, OnTick600, StartScheduled

\* A digest that is made agrees with the texts of now.
LEMMA MadeAgrees ==
  ASSUME TypeOK, MadeOfPast, ~returned, NEW c \in Checks, Made(c),
         check[c].kind # "gone"
  PROVE  /\ check[c].made \in Versions /\ text \in Texts
         /\ Agrees(check[c].made, text)
  BY DEF TypeOK, MadeOfPast, Made, Agrees

LEMMA KnownStep ==
  TypeOK /\ MadeOfPast /\ OneSubscriber /\ KnownAgrees /\ [Next]_vars => KnownAgrees'
<1>. SUFFICES ASSUME TypeOK, MadeOfPast, OneSubscriber, KnownAgrees, [Next]_vars,
                     Comparable', known' # {}, digest' # {}
              PROVE  \E d \in Versions, k \in Texts :
                        digest' = {d} /\ known' = {k} /\ Agrees(d, k)'
  BY DEF KnownAgrees
<1>1. ASSUME UNCHANGED <<directory, digest, known, subscribes>>
      PROVE  \E d \in Versions, k \in Texts :
                digest' = {d} /\ known' = {k} /\ Agrees(d, k)'
  BY <1>1 DEF KnownAgrees, Comparable, directory, Agrees, Past
<1>2. ASSUME NEW i \in Items, Set(i) \/ Turn(i)
      PROVE  \E d \in Versions, k \in Texts :
                digest' = {d} /\ known' = {k} /\ Agrees(d, k)'
  <2>1. UNCHANGED <<digest, known, subscribes>> /\ ~returned' /\ ~returned
    BY <1>2 DEF TypeOK, Set, Turn, Edited, Comparable
  <2>2. PICK d \in Versions, k \in Texts : digest = {d} /\ known = {k} /\ Agrees(d, k)
    BY <2>1 DEF KnownAgrees, Comparable
  <2>3. \A j \in Items : d[j] \in Nat
    BY DEF Versions
  <2>4. \A j \in Items, v \in Nat : Past(j, v) =>
          Past(j, v)' /\ (v = version'[j] => v = version[j] /\ text'[j] = text[j])
    BY <1>2, <2>1, EditKeepsPast
  <2>5. Agrees(d, k)'
    <3>1. \A j \in Items : Past(j, d[j])'
      BY <2>2, <2>3, <2>4 DEF Agrees, Past
    <3>2. \A j \in Items : d[j] = version'[j] => k[j] = text'[j]
      BY <2>2, <2>3, <2>4 DEF Agrees
    <3>. QED BY <3>1, <3>2 DEF Agrees
  <2>. QED BY <2>1, <2>2, <2>5
<1>3. ASSUME NEW c \in Checks, Made(c), check[c].kind # "gone", UNCHANGED <<directory, subscribes>>,
             digest' = {check[c].made}, known' = {text}
      PROVE  \E d \in Versions, k \in Texts :
                digest' = {d} /\ known' = {k} /\ Agrees(d, k)'
  <2>1. ~returned
    BY <1>3 DEF Comparable, directory
  <2>2. /\ check[c].made \in Versions /\ text \in Texts
        /\ Agrees(check[c].made, text)
    BY <1>3, <2>1, MadeAgrees
  <2>3. \A d, k : Agrees(d, k) => Agrees(d, k)'
    BY <1>3 DEF directory, Agrees, Past
  <2>. QED BY <1>3, <2>2, <2>3
<1>4. ASSUME NEW c \in Checks, SubscribeDone(c)
      PROVE  \E d \in Versions, k \in Texts :
                digest' = {d} /\ known' = {k} /\ Agrees(d, k)'
  <2>1. subscribes <= 1
    BY <1>4 DEF SubscribeDone, Comparable
  <2>2. known = {}
    BY <1>4, <2>1 DEF SubscribeDone, OneSubscriber
  <2>. QED BY <1>3, <1>4, <2>2 DEF SubscribeDone
<1>5. ASSUME NEW c \in Checks, CheckDone(c)
      PROVE  \E d \in Versions, k \in Texts :
                digest' = {d} /\ known' = {k} /\ Agrees(d, k)'
  BY <1>1, <1>3, <1>5 DEF CheckDone
<1>6. ASSUME NEW c \in Checks, Subscribe(c) PROVE FALSE
  <2>1. subscribes = 0 /\ known' = known
    BY <1>6, Bounds DEF Subscribe, Comparable, TypeOK
  <2>. QED BY <2>1 DEF OneSubscriber
<1>7. CASE \/ IncrementVersion \/ Break \/ Connect \/ OnVersionChanged \/ OnTick60
           \/ CheckVersionCounter \/ UNCHANGED vars
           \/ \E c \in Checks : \/ LibraryChanged(c) \/ List(c) \/ DigestRaises(c)
                               \/ \E i \in Items : Visit(c, i)
  <2>1. UNCHANGED <<directory, digest, known, subscribes>>
    BY <1>7 DEF IncrementVersion, Break, Connect, OnVersionChanged, OnTick60,
                CheckVersionCounter, vars, directory, LibraryChanged, List, DigestRaises, Visit
  <2>. QED BY <1>1, <2>1
<1>8. ASSUME NEW i \in Items, CreateOrRemove(i) \/ \E c \in Checks : Vanish(c, i)
      PROVE  \E d \in Versions, k \in Texts :
                digest' = {d} /\ known' = {k} /\ Agrees(d, k)'
  BY <1>2, <1>8 DEF CreateOrRemove, Vanish
<1>. QED BY <1>2, <1>4, <1>5, <1>6, <1>7, <1>8
     DEF Next, DigestStep, CheckGone, OnTick600, StartScheduled

LEMMA ChangesInit == Init => ChangesInv
<1>. SUFFICES ASSUME Init PROVE ChangesInv
  OBVIOUS
<1>1. MadeOfPast
  BY DEF Init, MadeOfPast, Idle
<1>2. OneSubscriber
  BY DEF Init, OneSubscriber, Idle
<1>3. KnownAgrees
  BY DEF Init, KnownAgrees
<1>. QED BY <1>1, <1>2, <1>3, TypeInit DEF ChangesInv

LEMMA AgreesIsKnown == TypeOK /\ KnownAgrees => DigestIsKnown
<1>. SUFFICES ASSUME TypeOK, KnownAgrees, Comparable, known # {}, digest = {version}
              PROVE  known = {text}
  BY DEF DigestIsKnown
<1>1. PICK d \in Versions, k \in Texts : digest = {d} /\ known = {k} /\ Agrees(d, k)
  BY DEF KnownAgrees
<1>2. d = version
  BY <1>1
<1>3. \A i \in Items : k[i] = text[i]
  BY <1>1, <1>2 DEF Agrees
<1>4. k = text
  BY <1>3 DEF TypeOK, Texts
<1>. QED BY <1>1, <1>4

\* No stored digest hides a change: as long as no version has come back and the digest of
\* the subscriber was not replaced, he knows the directory whose digest is stored, however
\* many digests are made at once while items are edited and connections break
\* (do_check_path and _get_directory_hash of ZooKeeperLibraryProvider).
THEOREM DigestKnown == Spec => []DigestIsKnown
<1>1. ChangesInv /\ [Next]_vars => ChangesInv'
  BY TypeStep, PastStep, SubscriberStep, KnownStep DEF ChangesInv
<1>2. ChangesInv => DigestIsKnown
  BY AgreesIsKnown DEF ChangesInv
<1>. QED BY ChangesInit, <1>1, <1>2, PTL DEF Spec
=============================================================================
