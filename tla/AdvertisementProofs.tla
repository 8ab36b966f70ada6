------------------------- MODULE AdvertisementProofs -------------------------
(***************************************************************************)
(* Theorems about Advertisement, for every set of paths and workers and    *)
(* every bound: its types, and that what is published is never replaced by *)
(* something older.                                                        *)
(***************************************************************************)
EXTENDS Advertisement, TLAPS

\* The places of a worker that is at an advertisement.
AtOne == {"compare", "set", "stored", "create", "created"}

\* Only the holder of AdvertismentsLock is inside a publication.
Exclusive == \A w \in Worker : pc[w] # "idle" => lock = w

Placed == \A w \in Worker : pc[w] \in AtOne => path[w] \in Path

\* Ids name one znode, and the one an advertisement remembers is of its path.
Identified ==
  /\ \A z \in znodes : z.id \in 1..created
  /\ \A y, z \in znodes : y.id = z.id => y = z
  /\ \A p \in Path : realPath[p] <= created
  /\ \A p \in Path : \A z \in znodes : z.id = realPath[p] => z.path = p

\* What a worker is about to write is not newer than what is advertised, nor older
\* than what it replaces.
Ready(w) ==
  /\ pc[w] \in {"set", "create"} => payload[w] <= data[path[w]]
  /\ pc[w] = "set" => \A z \in znodes : z.id = realPath[path[w]] => z.data <= payload[w]
  /\ pc[w] = "created" => /\ stat[w] <= created
                          /\ \A z \in znodes : z.id = stat[w] => z.path = path[w]

NotAhead == \A z \in znodes : z.data <= data[z.path]

\* The inductive strengthening of NeverOlder.
AdvInv ==
  /\ Exclusive
  /\ Identified
  /\ NotAhead
  /\ \A w \in Worker : Ready(w)

-----------------------------------------------------------------------------
(* Type correctness.                                                       *)

LEMMA InitType == Init => TypeOK /\ Placed
<1> SUFFICES ASSUME Init PROVE TypeOK /\ Placed
  OBVIOUS
<1>1. overlapped \in BOOLEAN
  BY DEF Init
<1>2. QED
  BY AbsentAssumption, <1>1 DEF Init, TypeOK, Placed, AtOne, Pc

\* set() leaves a znode its id, path and session.
LEMMA SetKeepsType ==
  ASSUME NEW z \in Znode, NEW d \in Nat
  PROVE  /\ Overwritten(z, d) \in Znode
         /\ z.version + 1 \in Nat
         /\ Overwritten(z, d).id = z.id
         /\ Overwritten(z, d).path = z.path
         /\ Overwritten(z, d).data = d
  BY DEF Overwritten, Znode

\* Every step keeps the types; one step per action of Next.
LEMMA NextType ==
  ASSUME TypeOK, Placed, [Next]_vars
  PROVE  TypeOK' /\ Placed'
<1> USE DEF TypeOK, Placed, AtOne, Pc, advVars, workerVars, zkVars, connVars, histVars
<1>1. ASSUME NEW w \in Worker, Begin(w) PROVE TypeOK' /\ Placed'
  BY <1>1 DEF Begin, Goto
<1>2. ASSUME NEW w \in Worker, Round(w) PROVE TypeOK' /\ Placed'
  BY <1>2 DEF Round, Goto, Advertised
<1>3. ASSUME NEW w \in Worker, Exists(w) PROVE TypeOK' /\ Placed'
  BY <1>3 DEF Exists, Goto, ZnodeAt, Znode
<1>4. ASSUME NEW w \in Worker, NeverPublished(w) PROVE TypeOK' /\ Placed'
  BY <1>4 DEF NeverPublished, Goto
<1>5. ASSUME NEW w \in Worker, Compare(w) PROVE TypeOK' /\ Placed'
  BY <1>5 DEF Compare, Goto
<1>6. ASSUME NEW w \in Worker, Set(w) PROVE TypeOK' /\ Placed'
  <2>1. PICK z \in znodes : /\ znodes' = (znodes \ {z}) \cup {Overwritten(z, payload[w])}
                            /\ stat' = [stat EXCEPT ![w] = z.version + 1]
    BY <1>6 DEF Set, ZnodeAt
  <2>2. z \in Znode /\ payload[w] \in Nat
    OBVIOUS
  <2>3. znodes' \subseteq Znode
    BY <2>1, <2>2, SetKeepsType
  <2>4. stat' \in [Worker -> Nat]
    BY <2>1, <2>2, SetKeepsType
  <2>5. QED
    BY <1>6, <2>3, <2>4 DEF Set, Goto
<1>7. ASSUME NEW w \in Worker, SetGone(w) PROVE TypeOK' /\ Placed'
  BY <1>7 DEF SetGone, Goto
<1>8. ASSUME NEW w \in Worker, StoreVersion(w) PROVE TypeOK' /\ Placed'
  BY <1>8 DEF StoreVersion, Goto
<1>9. ASSUME NEW w \in Worker, Create(w) PROVE TypeOK' /\ Placed'
  BY <1>9 DEF Create, Goto, Znode
<1>10. ASSUME NEW w \in Worker, StoreCreated(w) PROVE TypeOK' /\ Placed'
  BY <1>10 DEF StoreCreated, Goto
<1>11. ASSUME NEW w \in Worker, EndRound(w) PROVE TypeOK' /\ Placed'
  BY <1>11 DEF EndRound, Goto
<1>12. ASSUME NEW w \in Worker, Release(w) PROVE TypeOK' /\ Placed'
  BY <1>12 DEF Release, Leave
<1>13. ASSUME NEW p \in Path, AdvertiseNew(p) PROVE TypeOK' /\ Placed'
  BY <1>13 DEF AdvertiseNew, Schedule
<1>14. ASSUME NEW p \in Path, AdvertiseData(p) PROVE TypeOK' /\ Placed'
  BY <1>14 DEF AdvertiseData, Schedule
<1>15. CASE AdvertiseVersion
  BY <1>15 DEF AdvertiseVersion, Schedule
<1>16. CASE OnTick300
  BY <1>16 DEF OnTick300, Schedule, Advertised
<1>17. CASE Connect
  BY <1>17 DEF Connect
<1>18. CASE Reconnect
  BY <1>18 DEF Reconnect
<1>19. CASE Suspend
  BY <1>19 DEF Suspend, FailCall, Leave
<1>20. CASE Lose
  BY <1>20 DEF Lose, FailCall, Leave
<1>21. CASE Expire
  BY <1>21 DEF Expire, Drop
<1>22. CASE ExpireAbandoned
  BY <1>22 DEF ExpireAbandoned, Drop
<1>23. CASE UNCHANGED vars
  BY <1>23 DEF vars
<1>24. QED
  BY <1>1, <1>2, <1>3, <1>4, <1>5, <1>6, <1>7, <1>8, <1>9, <1>10, <1>11, <1>12, <1>13, <1>14, <1>15, <1>16, <1>17, <1>18, <1>19, <1>20, <1>21, <1>22, <1>23
     DEF Next, Publication, Advertise, Client

\* Every variable keeps its type, whatever the application, the workers and the
\* connection do.
THEOREM AdvTypeCorrect == Spec => []TypeOK
<1>1. Spec => [](TypeOK /\ Placed)
  BY InitType, NextType, PTL DEF Spec
<1>2. QED
  BY <1>1, PTL

-----------------------------------------------------------------------------
(* No znode is ever overwritten with older data.                           *)

LEMMA InitAdv == Init => AdvInv
  BY DEF Init, AdvInv, Exclusive, Identified, NotAhead, Ready

\* The lock: whoever enters a publication found it free.
LEMMA NextExclusive ==
  ASSUME TypeOK, Exclusive, [Next]_vars
  PROVE  Exclusive'
<1> USE AbsentAssumption DEF TypeOK, Exclusive, workerVars
<1>1. ASSUME NEW w \in Worker, Begin(w) PROVE Exclusive'
  BY <1>1 DEF Begin, Goto
<1>2. ASSUME NEW w \in Worker, Round(w) PROVE Exclusive'
  BY <1>2 DEF Round, Goto
<1>3. ASSUME NEW w \in Worker, Exists(w) PROVE Exclusive'
  BY <1>3 DEF Exists, Goto
<1>4. ASSUME NEW w \in Worker, NeverPublished(w) PROVE Exclusive'
  BY <1>4 DEF NeverPublished, Goto
<1>5. ASSUME NEW w \in Worker, Compare(w) PROVE Exclusive'
  BY <1>5 DEF Compare, Goto
<1>6. ASSUME NEW w \in Worker, Set(w) PROVE Exclusive'
  BY <1>6 DEF Set, Goto
<1>7. ASSUME NEW w \in Worker, SetGone(w) PROVE Exclusive'
  BY <1>7 DEF SetGone, Goto
<1>8. ASSUME NEW w \in Worker, StoreVersion(w) PROVE Exclusive'
  BY <1>8 DEF StoreVersion, Goto
<1>9. ASSUME NEW w \in Worker, Create(w) PROVE Exclusive'
  BY <1>9 DEF Create, Goto
<1>10. ASSUME NEW w \in Worker, StoreCreated(w) PROVE Exclusive'
  BY <1>10 DEF StoreCreated, Goto
<1>11. ASSUME NEW w \in Worker, EndRound(w) PROVE Exclusive'
  BY <1>11 DEF EndRound, Goto
<1>12. ASSUME NEW w \in Worker, Release(w) PROVE Exclusive'
  BY <1>12 DEF Release, Leave
<1>13. CASE Advertise \/ AdvertiseVersion \/ OnTick300
  BY <1>13 DEF Advertise, AdvertiseNew, AdvertiseData, AdvertiseVersion, OnTick300
<1>14. CASE Client
  BY <1>14 DEF Client, Connect, Reconnect, Suspend, Lose, Expire, ExpireAbandoned, FailCall, Leave
<1>15. CASE UNCHANGED vars
  BY <1>15 DEF vars
<1>16. QED
  BY <1>1, <1>2, <1>3, <1>4, <1>5, <1>6, <1>7, <1>8, <1>9, <1>10, <1>11, <1>12, <1>13, <1>14, <1>15 DEF Next, Publication

\* The rest of AdvInv: a step of a worker concerns what that worker holds alone.
LEMMA NextAdv ==
  ASSUME TypeOK, Placed, AdvInv, [Next]_vars
  PROVE  Identified' /\ NotAhead' /\ \A v \in Worker : Ready(v)'
<1>z. \A z \in znodes : z \in Znode /\ z.id \in Nat /\ z.path \in Path /\ z.data \in Nat
  BY DEF TypeOK, Znode
<1>x. \A v, w \in Worker : pc[v] # "idle" /\ pc[w] # "idle" => v = w
  BY DEF AdvInv, Exclusive
<1>i. /\ Identified /\ NotAhead /\ \A w \in Worker : Ready(w)
      /\ \A w \in Worker : pc[w] \in AtOne => path[w] \in Path
  BY DEF AdvInv, Placed
<1> USE DEF TypeOK, advVars, workerVars, zkVars, connVars
<1>1. ASSUME NEW w \in Worker, Begin(w)
      PROVE  Identified' /\ NotAhead' /\ \A v \in Worker : Ready(v)'
  <2>1. Identified' /\ NotAhead'
    BY <1>1, <1>i, <1>z DEF Begin, AtOne, Ready, Identified, NotAhead
  <2>2. ASSUME NEW v \in Worker PROVE Ready(v)'
    BY <1>1, <1>i, <1>x, <1>z DEF Begin, Goto, Ready, AtOne, Identified, NotAhead
  <2>3. QED
    BY <2>1, <2>2
<1>2. ASSUME NEW w \in Worker, Round(w)
      PROVE  Identified' /\ NotAhead' /\ \A v \in Worker : Ready(v)'
  <2>1. Identified' /\ NotAhead'
    BY <1>2, <1>i, <1>z DEF Round, AtOne, Ready, Identified, NotAhead
  <2>2. ASSUME NEW v \in Worker PROVE Ready(v)'
    BY <1>2, <1>i, <1>x, <1>z DEF Round, Goto, Ready, AtOne, Identified, NotAhead
  <2>3. QED
    BY <2>1, <2>2
<1>3. ASSUME NEW w \in Worker, Exists(w)
      PROVE  Identified' /\ NotAhead' /\ \A v \in Worker : Ready(v)'
  <2>1. Identified' /\ NotAhead'
    BY <1>3, <1>i, <1>z DEF Exists, AtOne, Ready, Identified, NotAhead
  <2>2. ASSUME NEW v \in Worker PROVE Ready(v)'
    BY <1>3, <1>i, <1>x, <1>z DEF Exists, Goto, Ready, AtOne, Identified, NotAhead, ZnodeAt
  <2>3. QED
    BY <2>1, <2>2
<1>4. ASSUME NEW w \in Worker, NeverPublished(w)
      PROVE  Identified' /\ NotAhead' /\ \A v \in Worker : Ready(v)'
  <2>1. Identified' /\ NotAhead'
    BY <1>4, <1>i, <1>z DEF NeverPublished, AtOne, Ready, Identified, NotAhead
  <2>2. ASSUME NEW v \in Worker PROVE Ready(v)'
    BY <1>4, <1>i, <1>x, <1>z DEF NeverPublished, Goto, Ready, AtOne, Identified, NotAhead
  <2>3. QED
    BY <2>1, <2>2
<1>5. ASSUME NEW w \in Worker, Compare(w)
      PROVE  Identified' /\ NotAhead' /\ \A v \in Worker : Ready(v)'
  <2>1. Identified' /\ NotAhead'
    BY <1>5, <1>i, <1>z DEF Compare, AtOne, Ready, Identified, NotAhead
  <2>2. ASSUME NEW v \in Worker PROVE Ready(v)'
    BY <1>5, <1>i, <1>x, <1>z DEF Compare, Goto, Ready, AtOne, Identified, NotAhead
  <2>3. QED
    BY <2>1, <2>2
<1>6. ASSUME NEW w \in Worker, Set(w)
      PROVE  Identified' /\ NotAhead' /\ \A v \in Worker : Ready(v)'
  <2>1. PICK z \in znodes : /\ z.id = realPath[path[w]]
                            /\ znodes' = (znodes \ {z}) \cup {Overwritten(z, payload[w])}
    BY <1>6 DEF Set, ZnodeAt
  <2>2. /\ Overwritten(z, payload[w]).id = z.id
        /\ Overwritten(z, payload[w]).path = z.path
        /\ Overwritten(z, payload[w]).data = payload[w]
    BY <1>z, SetKeepsType
  <2>3. path[w] \in Path /\ z.path = path[w] /\ payload[w] <= data[path[w]]
    BY <1>6, <1>i, <2>1 DEF Set, AtOne, Identified, Ready
  <2>4. Identified'
    BY <1>6, <1>i, <2>1, <2>2 DEF Set, Identified
  <2>5. NotAhead'
    BY <1>6, <1>i, <2>1, <2>2, <2>3 DEF Set, NotAhead
  <2>6. ASSUME NEW v \in Worker PROVE Ready(v)'
    BY <1>6, <1>i, <1>x DEF Set, Goto, Ready
  <2>7. QED
    BY <2>4, <2>5, <2>6
<1>7. ASSUME NEW w \in Worker, SetGone(w)
      PROVE  Identified' /\ NotAhead' /\ \A v \in Worker : Ready(v)'
  <2>1. Identified' /\ NotAhead'
    BY <1>7, <1>i, <1>z DEF SetGone, AtOne, Ready, Identified, NotAhead
  <2>2. ASSUME NEW v \in Worker PROVE Ready(v)'
    BY <1>7, <1>i, <1>x, <1>z DEF SetGone, Goto, Ready, AtOne, Identified, NotAhead, ZnodeAt
  <2>3. QED
    BY <2>1, <2>2
<1>8. ASSUME NEW w \in Worker, StoreVersion(w)
      PROVE  Identified' /\ NotAhead' /\ \A v \in Worker : Ready(v)'
  <2>1. Identified' /\ NotAhead'
    BY <1>8, <1>i, <1>z DEF StoreVersion, AtOne, Ready, Identified, NotAhead
  <2>2. ASSUME NEW v \in Worker PROVE Ready(v)'
    BY <1>8, <1>i, <1>x, <1>z DEF StoreVersion, Goto, Ready, AtOne, Identified, NotAhead
  <2>3. QED
    BY <2>1, <2>2
<1>9. ASSUME NEW w \in Worker, Create(w)
      PROVE  Identified' /\ NotAhead' /\ \A v \in Worker : Ready(v)'
  <2>1. /\ path[w] \in Path /\ payload[w] <= data[path[w]]
        /\ created' = created + 1 /\ UNCHANGED <<data, realPath>>
    BY <1>9, <1>i DEF Create, AtOne, Ready
  <2>2. PICK y : /\ y.id = created + 1 /\ y.path = path[w] /\ y.data = payload[w]
                 /\ znodes' = znodes \cup {y}
    BY <1>9 DEF Create
  <2>3. Identified'
    BY <1>i, <1>z, <2>1, <2>2 DEF Identified
  <2>4. NotAhead'
    BY <1>i, <2>1, <2>2 DEF NotAhead
  <2>5. ASSUME NEW v \in Worker PROVE Ready(v)'
    <3>1. CASE v = w
      BY <1>9, <1>i, <1>z, <2>1, <2>2, <3>1 DEF Create, Goto, Ready, Identified
    <3>2. CASE v # w
      BY <1>9, <1>x, <3>2 DEF Create, Goto, Ready
    <3>3. QED
      BY <3>1, <3>2
  <2>6. QED
    BY <2>3, <2>4, <2>5
<1>10. ASSUME NEW w \in Worker, StoreCreated(w)
      PROVE  Identified' /\ NotAhead' /\ \A v \in Worker : Ready(v)'
  <2>1. Identified' /\ NotAhead'
    BY <1>10, <1>i, <1>z DEF StoreCreated, AtOne, Ready, Identified, NotAhead
  <2>2. ASSUME NEW v \in Worker PROVE Ready(v)'
    BY <1>10, <1>i, <1>x, <1>z DEF StoreCreated, Goto, Ready, AtOne, Identified, NotAhead
  <2>3. QED
    BY <2>1, <2>2
<1>11. ASSUME NEW w \in Worker, EndRound(w)
      PROVE  Identified' /\ NotAhead' /\ \A v \in Worker : Ready(v)'
  <2>1. Identified' /\ NotAhead'
    BY <1>11, <1>i, <1>z DEF EndRound, AtOne, Ready, Identified, NotAhead
  <2>2. ASSUME NEW v \in Worker PROVE Ready(v)'
    BY <1>11, <1>i, <1>x, <1>z DEF EndRound, Goto, Ready, AtOne, Identified, NotAhead
  <2>3. QED
    BY <2>1, <2>2
<1>12. ASSUME NEW w \in Worker, Release(w)
      PROVE  Identified' /\ NotAhead' /\ \A v \in Worker : Ready(v)'
  <2>1. Identified' /\ NotAhead'
    BY <1>12, <1>i, <1>z DEF Release, AtOne, Ready, Identified, NotAhead, Leave
  <2>2. ASSUME NEW v \in Worker PROVE Ready(v)'
    BY <1>12, <1>i, <1>x, <1>z DEF Release, Leave, Ready, AtOne, Identified, NotAhead
  <2>3. QED
    BY <2>1, <2>2
<1>13. ASSUME NEW p \in Path, AdvertiseNew(p)
      PROVE  Identified' /\ NotAhead' /\ \A v \in Worker : Ready(v)'
  <2>1. /\ \A q \in Path : data'[q] \in Nat /\ data[q] <= data'[q]
        /\ UNCHANGED <<realPath, pc, path, payload, stat, znodes, created>>
    BY <1>13 DEF AdvertiseNew
  <2>2. Identified' /\ NotAhead'
    BY <1>i, <1>z, <2>1 DEF Identified, NotAhead
  <2>3. ASSUME NEW v \in Worker PROVE Ready(v)'
    <3>1. Ready(v) /\ (pc[v] \in AtOne => path[v] \in Path)
      BY <1>i
    <3>2. QED
      BY <2>1, <3>1 DEF Ready, AtOne
  <2>4. QED
    BY <2>2, <2>3
<1>14. ASSUME NEW p \in Path, AdvertiseData(p)
      PROVE  Identified' /\ NotAhead' /\ \A v \in Worker : Ready(v)'
  <2>1. /\ \A q \in Path : data'[q] \in Nat /\ data[q] <= data'[q]
        /\ UNCHANGED <<realPath, pc, path, payload, stat, znodes, created>>
    BY <1>14 DEF AdvertiseData
  <2>2. Identified' /\ NotAhead'
    BY <1>i, <1>z, <2>1 DEF Identified, NotAhead
  <2>3. ASSUME NEW v \in Worker PROVE Ready(v)'
    <3>1. Ready(v) /\ (pc[v] \in AtOne => path[v] \in Path)
      BY <1>i
    <3>2. QED
      BY <2>1, <3>1 DEF Ready, AtOne
  <2>4. QED
    BY <2>2, <2>3
<1>15. CASE AdvertiseVersion \/ OnTick300 \/ Connect \/ Reconnect \/ UNCHANGED vars
  <2>1. UNCHANGED <<data, realPath, pc, path, payload, stat, znodes, created>>
    BY <1>15 DEF AdvertiseVersion, OnTick300, Connect, Reconnect, vars
  <2>2. QED
    BY <1>i, <2>1 DEF Identified, NotAhead, Ready
<1>16. CASE Suspend \/ Lose
  <2>1. UNCHANGED <<data, realPath, znodes, created>>
    BY <1>16 DEF Suspend, Lose
  <2>2. ASSUME NEW v \in Worker
        PROVE  pc'[v] = "idle" \/ (pc'[v] = pc[v] /\ path'[v] = path[v]
                                   /\ payload'[v] = payload[v] /\ stat'[v] = stat[v])
    BY <1>16 DEF Suspend, Lose, FailCall, Leave
  <2>3. QED
    BY <1>i, <2>1, <2>2 DEF Identified, NotAhead, Ready
<1>17. CASE Expire \/ ExpireAbandoned
  <2>1. /\ UNCHANGED <<data, realPath, pc, path, payload, stat, created>>
        /\ znodes' \subseteq znodes
    BY <1>17 DEF Expire, ExpireAbandoned, Drop
  <2>2. QED
    BY <1>i, <2>1 DEF Identified, NotAhead, Ready
<1>18. QED
  BY <1>1, <1>2, <1>3, <1>4, <1>5, <1>6, <1>7, <1>8, <1>9, <1>10, <1>11, <1>12, <1>13, <1>14, <1>15, <1>16, <1>17
     DEF Next, Publication, Advertise, Client

\* No publication replaces advertised data by older data (_publish_adv_at_proactor_thread,
\* advertise): NeverOlder for any paths, workers, calls and failures.
THEOREM NeverOlderHolds == Spec => NeverOlder
<1> DEFINE Step == \A z \in znodes, z2 \in znodes' : z.id = z2.id => z.data <= z2.data
<1>1. TypeOK /\ Placed /\ AdvInv /\ [Next]_vars => AdvInv'
  BY NextExclusive, NextAdv DEF AdvInv
<1>2. Spec => [](TypeOK /\ Placed /\ AdvInv)
  BY InitType, NextType, InitAdv, <1>1, PTL DEF Spec
<1>3. ASSUME TypeOK, Placed, AdvInv, [Next]_vars PROVE [Step]_vars
  <2>z. \A z \in znodes : z \in Znode /\ z.id \in Nat /\ z.data \in Nat /\ z.id \in 1..created
    BY <1>3 DEF TypeOK, Znode, AdvInv, Identified
  <2>i. \A y, z \in znodes : y.id = z.id => y = z
    BY <1>3 DEF AdvInv, Identified
  <2>1. ASSUME znodes' \subseteq znodes PROVE Step
    BY <2>1, <2>z, <2>i
  <2>2. ASSUME NEW w \in Worker, Set(w) PROVE Step
    <3>1. PICK z \in znodes : /\ z.id = realPath[path[w]]
                              /\ znodes' = (znodes \ {z}) \cup {Overwritten(z, payload[w])}
      BY <2>2 DEF Set, ZnodeAt
    <3>2. /\ Overwritten(z, payload[w]).id = z.id
          /\ Overwritten(z, payload[w]).data = payload[w]
          /\ z.data <= payload[w]
      BY <1>3, <2>2, <2>z, <3>1, SetKeepsType DEF Set, TypeOK, AdvInv, Ready
    <3>3. QED
      BY <2>z, <2>i, <3>1, <3>2
  <2>3. ASSUME NEW w \in Worker, Create(w) PROVE Step
    <3>1. PICK y : y.id = created + 1 /\ znodes' = znodes \cup {y}
      BY <2>3 DEF Create
    <3>2. created \in Nat
      BY <1>3 DEF TypeOK
    <3>3. QED
      BY <2>z, <2>i, <3>1, <3>2
  <2>4. CASE UNCHANGED vars
    BY <2>4
  <2>5. (\E w \in Worker : Set(w) \/ Create(w)) \/ UNCHANGED vars \/ znodes' \subseteq znodes
    BY <1>3 DEF Next, Publication, Begin, Round, Exists, NeverPublished, Compare, SetGone,
                StoreVersion, StoreCreated, EndRound, Release, Advertise, AdvertiseNew,
                AdvertiseData, AdvertiseVersion, OnTick300, Client, Connect, Reconnect,
                Suspend, Lose, Expire, ExpireAbandoned, Drop, zkVars
  <2>6. QED
    BY <2>1, <2>2, <2>3, <2>4, <2>5
<1>4. QED
  BY <1>2, <1>3, PTL DEF Spec, NeverOlder
=============================================================================
