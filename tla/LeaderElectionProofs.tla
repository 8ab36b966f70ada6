------------------------ MODULE LeaderElectionProofs ------------------------
(***************************************************************************)
(* Proofs about LeaderElection, for every set of instances and every       *)
(* bound: nobody shares a claim (ClaimInv); a connected leader holds the   *)
(* znode as long as nobody resigns (HoldInv); an instance whose connection *)
(* does not break agrees with what it has announced (Calm).                *)
(***************************************************************************)
EXTENDS LeaderElection, TLAPS

\* The places of the election thread, and those where it holds the result of a
\* successful create().
Electing(i) == pc[i] \in {"create", "get", "check", "won", "claim", "recheck", "announce"}
Holding(i)  == pc[i] \in {"won", "claim", "recheck"}

\* i believes, or is about to, that the creation with czxid z was its own.
Believes(i, z) == leaderZxid[i] = z \/ (Holding(i) /\ reply[i].czxid = z)

\* The inductive strengthening of ClaimsDistinct and ClaimIsOwnNode: what is
\* believed was created by the believer, and czxids are never handed out twice.
ClaimInv ==
  /\ node.czxid \in 0..zxid
  /\ \A i \in Instance :
       /\ leaderZxid[i] \in 0..zxid
       /\ Holding(i) => reply[i].czxid \in 1..zxid
       /\ Electing(i) => participating[i]
       /\ node.czxid # 0 /\ Believes(i, node.czxid) => node.owner = i
  /\ \A i, j \in Instance : \A z \in 1..zxid :
       Believes(i, z) /\ Believes(j, z) => i = j

-----------------------------------------------------------------------------
(* Type correctness.                                                       *)

\* The initial state is well typed.
LEMMA InitType == Init => TypeOK
  BY NobodyAssumption DEF Init, TypeOK, Znode, NoNode, Job, Pc, Callback

\* What the helpers of the actions assign is well typed.
LEMMA HelperTypes ==
  ASSUME TypeOK, NEW i \in Instance
  PROVE  /\ \A e \in Callback : Enqueue(i, e) => loop' \in [Instance -> Seq(Callback)]
         /\ NextUp(i, Head(loop[i])) /\ Consume(i) => loop' \in [Instance -> Seq(Callback)]
         /\ \A p \in Pc : Goto(i, p) => pc' \in [Instance -> Pc]
         /\ \A j \in Job : Request(i, j) => todo' \in [Instance -> SUBSET Job]
         /\ \A z \in Nat : Claim(i, z) => leaderZxid' \in [Instance -> Nat]
         /\ Release(i) \/ FailCall(i) => /\ pc' \in [Instance -> Pc]
                                        /\ reply' \in [Instance -> Znode]
                                        /\ mine' \in [Instance -> Nat]
         /\ Disturb => disturbances' \in Nat
<1>1. \A e \in Callback : Enqueue(i, e) => loop' \in [Instance -> Seq(Callback)]
  BY DEF TypeOK, Enqueue
<1>2. NextUp(i, Head(loop[i])) /\ Consume(i) => loop' \in [Instance -> Seq(Callback)]
  BY DEF TypeOK, Consume, NextUp
<1>3. \A p \in Pc : Goto(i, p) => pc' \in [Instance -> Pc]
  BY DEF TypeOK, Goto
<1>4. \A j \in Job : Request(i, j) => todo' \in [Instance -> SUBSET Job]
  BY DEF TypeOK, Request
<1>5. \A z \in Nat : Claim(i, z) => leaderZxid' \in [Instance -> Nat]
  BY DEF TypeOK, Claim
<1>6. NoNode \in Znode /\ "idle" \in Pc
  BY DEF NoNode, Znode, Pc
<1>7. Release(i) \/ FailCall(i) => /\ pc' \in [Instance -> Pc]
                                  /\ reply' \in [Instance -> Znode]
                                  /\ mine' \in [Instance -> Nat]
  <2>1. CASE Release(i)
    BY <1>6, <2>1 DEF TypeOK, Release
  <2>2. CASE UNCHANGED threadVars
    BY <2>2 DEF TypeOK, threadVars
  <2>3. QED
    BY <2>1, <2>2 DEF FailCall
<1>8. Disturb => disturbances' \in Nat
  BY DEF TypeOK, Disturb
<1>9. QED
  BY <1>1, <1>2, <1>3, <1>4, <1>5, <1>7, <1>8

\* Every step keeps the types; one step per action of Next.
LEMMA NextType == TypeOK /\ [Next]_vars => TypeOK'
<1> SUFFICES ASSUME TypeOK, [Next]_vars PROVE TypeOK'
  OBVIOUS
<1> USE DEF TypeOK, Job, Pc, Callback, zkVars, clientVars, threadVars, loopVars
<1>1. ASSUME NEW i \in Instance, Connect(i) PROVE TypeOK'
  BY <1>1, HelperTypes DEF Connect, OnZkReady
<1>2. ASSUME NEW i \in Instance, Suspend(i) PROVE TypeOK'
  BY <1>2, HelperTypes DEF Suspend
<1>3. ASSUME NEW i \in Instance, Reconnect(i) PROVE TypeOK'
  BY <1>3, HelperTypes DEF Reconnect, OnZkReady
<1>4. ASSUME NEW i \in Instance, Lose(i) PROVE TypeOK'
  BY <1>4, HelperTypes DEF Lose
<1>5. ASSUME NEW i \in Instance, Expire(i) PROVE TypeOK'
  BY <1>5, HelperTypes DEF Expire, Znode, NoNode
<1>6. ASSUME NEW i \in Instance, Crash(i) PROVE TypeOK'
  <2>1. loop' \in [Instance -> Seq(Callback)] /\ todo' \in [Instance -> SUBSET Job]
    BY <1>6 DEF Crash
  <2>2. leaderZxid' \in [Instance -> Nat]
    BY <1>6 DEF Crash, Claim
  <2>3. QED
    BY <1>6, <2>1, <2>2, HelperTypes DEF Crash
<1>7. ASSUME NEW i \in Instance, DeferLost(i) PROVE TypeOK'
  BY <1>7, HelperTypes DEF DeferLost, NextUp
<1>8. ASSUME NEW i \in Instance, OnZkSuspended(i) PROVE TypeOK'
  BY <1>8, HelperTypes DEF OnZkSuspended, NextUp
<1>9. ASSUME NEW i \in Instance, OnZkLost(i) PROVE TypeOK'
  BY <1>9, HelperTypes DEF OnZkLost, NextUp
<1>10. ASSUME NEW i \in Instance, Publish(i) PROVE TypeOK'
  BY <1>10, HelperTypes DEF Publish, NextUp
<1>11. ASSUME NEW i \in Instance, ElectBegin(i) PROVE TypeOK'
  BY <1>11, HelperTypes DEF ElectBegin
<1>12. ASSUME NEW i \in Instance, ElectCreate(i) PROVE TypeOK'
  BY <1>12, HelperTypes DEF ElectCreate, Znode
<1>13. ASSUME NEW i \in Instance, ElectExists(i) PROVE TypeOK'
  BY <1>13, HelperTypes DEF ElectExists
<1>14. ASSUME NEW i \in Instance, ElectGet(i) PROVE TypeOK'
  BY <1>14, HelperTypes DEF ElectGet
<1>15. ASSUME NEW i \in Instance, ElectCheck(i) PROVE TypeOK'
  BY <1>15, HelperTypes DEF ElectCheck
<1>16. ASSUME NEW i \in Instance, ElectWon(i) PROVE TypeOK'
  BY <1>16, HelperTypes DEF ElectWon
<1>17. ASSUME NEW i \in Instance, ElectClaim(i) PROVE TypeOK'
  <2>1. reply[i].czxid \in Nat
    BY DEF Znode
  <2>2. QED
    BY <1>17, <2>1, HelperTypes DEF ElectClaim
<1>18. ASSUME NEW i \in Instance, ElectRecheck(i) PROVE TypeOK'
  BY <1>18, HelperTypes DEF ElectRecheck
<1>19. ASSUME NEW i \in Instance, ElectAnnounce(i) PROVE TypeOK'
  BY <1>19, HelperTypes DEF ElectAnnounce
<1>20. ASSUME NEW i \in Instance, StepDownBegin(i) PROVE TypeOK'
  <2>1. todo' \in [Instance -> SUBSET Job]
    BY <1>20 DEF StepDownBegin
  <2>2. loop' \in [Instance -> Seq(Callback)]
    BY <1>20, HelperTypes DEF StepDownBegin
  <2>3. /\ pc' \in [Instance -> Pc]
        /\ mine' \in [Instance -> Nat]
        /\ reply' = reply
    <3>1. CASE IsLeader(i)
      <4>1. pc' = [pc EXCEPT ![i] = "sdGet"]
        BY <1>20, <3>1 DEF StepDownBegin, Goto
      <4>2. mine' = [mine EXCEPT ![i] = leaderZxid[i]] /\ reply' = reply
        BY <1>20, <3>1 DEF StepDownBegin
      <4>3. QED
        BY <4>1, <4>2
    <3>2. CASE ~IsLeader(i)
      BY <1>20, <3>2 DEF StepDownBegin
    <3>3. QED
      BY <3>1, <3>2
  <2>4. QED
    BY <1>20, <2>1, <2>2, <2>3 DEF StepDownBegin
<1>21. ASSUME NEW i \in Instance, StepDownGet(i) PROVE TypeOK'
  BY <1>21, HelperTypes DEF StepDownGet
<1>22. ASSUME NEW i \in Instance, StepDownDelete(i) PROVE TypeOK'
  BY <1>22, HelperTypes DEF StepDownDelete, Znode, NoNode
<1>23. ASSUME NEW i \in Instance, StepDownDone(i) PROVE TypeOK'
  BY <1>23, HelperTypes DEF StepDownDone
<1>24. ASSUME NEW i \in Instance, SetUpThread(i) PROVE TypeOK'
  BY <1>24, HelperTypes DEF SetUpThread
<1>25. ASSUME NEW i \in Instance, OnTick60(i) PROVE TypeOK'
  BY <1>25, HelperTypes DEF OnTick60
<1>26. ASSUME NEW i \in Instance, StepDown(i) PROVE TypeOK'
  BY <1>26, HelperTypes DEF StepDown
<1>27. ASSUME NEW i \in Instance, SetUp(i) PROVE TypeOK'
  BY <1>27, HelperTypes DEF SetUp
<1>28. CASE ExpireAbandoned
  BY <1>28 DEF ExpireAbandoned, Znode, NoNode
<1>29. CASE UNCHANGED vars
  BY <1>29 DEF vars
<1>30. QED
  BY <1>1, <1>2, <1>3, <1>4, <1>5, <1>6, <1>7, <1>8, <1>9, <1>10, <1>11, <1>12, <1>13, <1>14,
     <1>15, <1>16, <1>17, <1>18, <1>19, <1>20, <1>21, <1>22, <1>23, <1>24, <1>25, <1>26, <1>27,
     <1>28, <1>29
     DEF Next, Client, MainLoop, Threads, ElectionThread, StepDownThread

\* Every variable keeps its type, whatever connections, processes and
\* applications do.
THEOREM TypeCorrect == Spec => []TypeOK
  BY InitType, NextType, PTL DEF Spec
-----------------------------------------------------------------------------
(* Claims.                                                                 *)

\* Two instances that take part start with no belief at all.
LEMMA InitClaims == Init => ClaimInv
  BY NobodyAssumption DEF Init, ClaimInv, NoNode, Holding, Electing, Believes

\* A step that creates no znode, and after which nobody believes what it did not
\* believe before, keeps ClaimInv.
LEMMA NothingClaimed ==
  ASSUME TypeOK, ClaimInv, TypeOK',
         node' \in {node, NoNode},
         zxid' = zxid,
         \A i \in Instance : leaderZxid'[i] \in {0, leaderZxid[i]},
         \A i \in Instance : Holding(i)' => Holding(i) /\ reply'[i] = reply[i],
         \A i \in Instance : Electing(i)' => participating'[i]
  PROVE  ClaimInv'
<1>1. NoNode.czxid = 0
  BY DEF NoNode
<1>2. node'.czxid \in 0..zxid'
  BY <1>1 DEF ClaimInv, TypeOK
<1>3. \A i \in Instance, z \in Nat \ {0} : Believes(i, z)' => Believes(i, z)
  BY DEF Believes, TypeOK
<1>4. ASSUME NEW i \in Instance
      PROVE  /\ leaderZxid'[i] \in 0..zxid'
             /\ Holding(i)' => reply'[i].czxid \in 1..zxid'
             /\ node'.czxid # 0 /\ Believes(i, node.czxid)' => node'.owner = i
  <2>1. leaderZxid'[i] \in 0..zxid' /\ (Holding(i)' => reply'[i].czxid \in 1..zxid')
    <3>1. 0 \in 0..zxid /\ leaderZxid[i] \in 0..zxid
      BY DEF ClaimInv, TypeOK
    <3>2. leaderZxid'[i] \in 0..zxid'
      BY <3>1
    <3>3. Holding(i)' => reply'[i].czxid \in 1..zxid'
      BY DEF ClaimInv
    <3>4. QED
      BY <3>2, <3>3
  <2>2. ASSUME node'.czxid # 0, Believes(i, node.czxid)' PROVE node'.owner = i
    <3>1. node' = node /\ node.czxid \in Nat \ {0}
      BY <1>1, <2>2 DEF TypeOK, Znode
    <3>2. Believes(i, node.czxid)
      BY <2>2, <3>1 DEF Believes, Holding
    <3>3. QED
      BY <3>1, <3>2 DEF ClaimInv
  <2>3. QED
    BY <2>1, <2>2
<1>5. ASSUME NEW i \in Instance, NEW j \in Instance, NEW z \in 1..zxid',
             Believes(i, z)', Believes(j, z)'
      PROVE  i = j
  <2>1. z \in 1..zxid /\ z \in Nat \ {0}
    BY DEF TypeOK
  <2>2. QED
    BY <1>3, <1>5, <2>1 DEF ClaimInv
<1>6. QED
  BY <1>2, <1>4, <1>5 DEF ClaimInv
\* The two actions that change what an instance believes to own.
LEMMA CreateClaims ==
  ASSUME TypeOK, ClaimInv, TypeOK', NEW i \in Instance, ElectCreate(i)
  PROVE  ClaimInv'
<1>1. /\ zxid' = zxid + 1 /\ zxid \in Nat
      /\ node' = [owner |-> i, session |-> session[i], czxid |-> zxid + 1]
      /\ reply' = [reply EXCEPT ![i] = node']
      /\ pc' = [pc EXCEPT ![i] = "won"] /\ pc[i] = "create"
      /\ leaderZxid' = leaderZxid /\ participating' = participating
  BY DEF ElectCreate, Goto, TypeOK
<1>2. \A j \in Instance :
        /\ Holding(j)' <=> j = i \/ Holding(j)
        /\ Electing(j)' <=> j = i \/ Electing(j)
        /\ reply'[j] = IF j = i THEN node' ELSE reply[j]
  BY <1>1 DEF Holding, Electing, TypeOK
<1>3. \A j \in Instance : \A z \in Nat :
        Believes(j, z)' <=> Believes(j, z) \/ (j = i /\ z = zxid + 1)
  <2>1. ~Holding(i)
    BY <1>1 DEF Holding
  <2>2. QED
    BY <1>1, <1>2, <2>1 DEF Believes
<1>4. \A j \in Instance : ~Believes(j, zxid + 1)
  BY <1>1 DEF ClaimInv, Believes
<1>5. ASSUME NEW j \in Instance
      PROVE  /\ leaderZxid'[j] \in 0..zxid'
             /\ Holding(j)' => reply'[j].czxid \in 1..zxid'
             /\ Electing(j)' => participating'[j]
  <2>1. leaderZxid[j] \in 0..zxid /\ (Holding(j) => reply[j].czxid \in 1..zxid)
    BY DEF ClaimInv
  <2>2. node'.czxid \in 1..zxid'
    BY <1>1
  <2>3. Electing(j)' => participating'[j]
    <3>1. Electing(i)
      BY <1>1 DEF Electing
    <3>2. QED
      BY <1>1, <1>2, <3>1 DEF ClaimInv
  <2>4. QED
    BY <1>1, <1>2, <2>1, <2>2, <2>3
<1>6. ASSUME NEW j \in Instance, Believes(j, node.czxid)' PROVE node'.owner = j
  <2>1. node'.czxid = zxid + 1 /\ node'.owner = i /\ zxid + 1 \in Nat
    BY <1>1
  <2>2. leaderZxid[j] # zxid + 1 /\ (Holding(j) => reply[j].czxid # zxid + 1)
    BY <1>4 DEF Believes
  <2>3. QED
    BY <1>1, <1>2, <1>6, <2>1, <2>2 DEF Believes
<1>7. ASSUME NEW j \in Instance, NEW k \in Instance, NEW z \in 1..zxid',
             Believes(j, z)', Believes(k, z)'
      PROVE  j = k
  <2>1. z \in Nat /\ (z = zxid + 1 \/ z \in 1..zxid)
    BY <1>1
  <2>2. QED
    BY <1>3, <1>4, <1>7, <2>1 DEF ClaimInv
<1>8. node'.czxid \in 0..zxid'
  BY <1>1
<1>9. QED
  BY <1>5, <1>6, <1>7, <1>8 DEF ClaimInv

LEMMA ClaimClaims ==
  ASSUME TypeOK, ClaimInv, TypeOK', NEW i \in Instance, ElectClaim(i)
  PROVE  ClaimInv'
<1>1. /\ zxid' = zxid /\ node' = node /\ reply' = reply
      /\ pc' = [pc EXCEPT ![i] = "recheck"] /\ pc[i] = "claim"
      /\ leaderZxid' = [leaderZxid EXCEPT ![i] = reply[i].czxid]
      /\ participating' = participating
  BY DEF ElectClaim, Claim, Goto, zkVars
<1>2. \A j \in Instance : (Holding(j)' <=> Holding(j)) /\ (Electing(j)' <=> Electing(j))
  BY <1>1 DEF Holding, Electing, TypeOK
<1>3. \A j \in Instance : \A z \in Nat : Believes(j, z)' => Believes(j, z)
  <2>1. Holding(i)
    BY <1>1 DEF Holding
  <2>2. QED
    BY <1>1, <1>2, <2>1 DEF Believes, TypeOK
<1>4. node.czxid \in Nat
  BY DEF TypeOK, Znode
<1>5. ASSUME NEW j \in Instance, node.czxid # 0, Believes(j, node.czxid)'
      PROVE  node'.owner = j
  <2>1. Believes(j, node.czxid)
    BY <1>1, <1>3, <1>4, <1>5 DEF Believes
  <2>2. QED
    BY <1>1, <1>5, <2>1 DEF ClaimInv
<1>6. ASSUME NEW j \in Instance
      PROVE  /\ leaderZxid'[j] \in 0..zxid'
             /\ Holding(j)' => reply'[j].czxid \in 1..zxid'
             /\ Electing(j)' => participating'[j]
  <2>1. reply[i].czxid \in 1..zxid /\ zxid \in Nat
    BY <1>1 DEF ClaimInv, Holding, TypeOK
  <2>2. reply[i].czxid \in 0..zxid
    BY <2>1
  <2>3. QED
    BY <1>1, <1>2, <2>1, <2>2 DEF ClaimInv, TypeOK
<1>7. ASSUME NEW j \in Instance, NEW k \in Instance, NEW z \in 1..zxid',
             Believes(j, z)', Believes(k, z)'
      PROVE  j = k
  <2>1. z \in Nat /\ z \in 1..zxid
    BY <1>1
  <2>2. QED
    BY <1>3, <1>7, <2>1 DEF ClaimInv
<1>8. QED
  BY <1>1, <1>5, <1>6, <1>7 DEF ClaimInv
\* Every other action claims nothing new.
NothingNew ==
  /\ node' \in {node, NoNode}
  /\ zxid' = zxid
  /\ \A j \in Instance :
       /\ leaderZxid'[j] \in {0, leaderZxid[j]}
       /\ Holding(j)' => Holding(j) /\ reply'[j] = reply[j]
       /\ Electing(j)' => participating'[j]

LEMMA NextNothingNew ==
  ASSUME TypeOK, ClaimInv, [Next]_vars
  PROVE  NothingNew \/ \E i \in Instance : ElectCreate(i) \/ ElectClaim(i)
<1> DEFINE Goal == NothingNew \/ \E i \in Instance : ElectCreate(i) \/ ElectClaim(i)
<1>p. \A j \in Instance : Electing(j) => participating[j]
  BY DEF ClaimInv
<1> USE <1>p DEF NothingNew, Electing, Holding, zkVars, clientVars, threadVars, loopVars
<1>1. ASSUME NEW i \in Instance, Connect(i) PROVE NothingNew
  BY <1>1 DEF Connect, TypeOK
<1>2. ASSUME NEW i \in Instance, Suspend(i) PROVE NothingNew
  BY <1>2 DEF Suspend, TypeOK, FailCall, Release
<1>3. ASSUME NEW i \in Instance, Reconnect(i) PROVE NothingNew
  BY <1>3 DEF Reconnect, TypeOK
<1>4. ASSUME NEW i \in Instance, Lose(i) PROVE NothingNew
  BY <1>4 DEF Lose, TypeOK, FailCall, Release
<1>5. ASSUME NEW i \in Instance, Expire(i) PROVE NothingNew
  BY <1>5 DEF Expire, TypeOK
<1>6. ASSUME NEW i \in Instance, Crash(i) PROVE NothingNew
  BY <1>6 DEF Crash, TypeOK, Claim, Release
<1>7. ASSUME NEW i \in Instance, DeferLost(i) PROVE NothingNew
  BY <1>7 DEF DeferLost, TypeOK
<1>8. ASSUME NEW i \in Instance, OnZkSuspended(i) PROVE NothingNew
  BY <1>8 DEF OnZkSuspended, TypeOK
<1>9. ASSUME NEW i \in Instance, OnZkLost(i) PROVE NothingNew
  BY <1>9 DEF OnZkLost, TypeOK, Claim
<1>10. ASSUME NEW i \in Instance, Publish(i) PROVE NothingNew
  BY <1>10 DEF Publish, TypeOK
<1>11. ASSUME NEW i \in Instance, ElectBegin(i) PROVE NothingNew
  BY <1>11 DEF ElectBegin, TypeOK, Goto
<1>12. ASSUME NEW i \in Instance, ElectExists(i) PROVE NothingNew
  BY <1>12 DEF ElectExists, TypeOK, Goto
<1>13. ASSUME NEW i \in Instance, ElectGet(i) PROVE NothingNew
  BY <1>13 DEF ElectGet, TypeOK, Goto, Release
<1>14. ASSUME NEW i \in Instance, ElectCheck(i) PROVE NothingNew
  BY <1>14 DEF ElectCheck, TypeOK, Claim, Release
<1>15. ASSUME NEW i \in Instance, ElectWon(i) PROVE NothingNew
  BY <1>15 DEF ElectWon, TypeOK, Goto, Release
<1>16. ASSUME NEW i \in Instance, ElectRecheck(i) PROVE NothingNew
  BY <1>16 DEF ElectRecheck, TypeOK, Goto, Claim, Release
<1>17. ASSUME NEW i \in Instance, ElectAnnounce(i) PROVE NothingNew
  BY <1>17 DEF ElectAnnounce, TypeOK, Release
<1>18. ASSUME NEW i \in Instance, StepDownBegin(i) PROVE NothingNew
  BY <1>18 DEF StepDownBegin, TypeOK, Goto
<1>19. ASSUME NEW i \in Instance, StepDownGet(i) PROVE NothingNew
  BY <1>19 DEF StepDownGet, TypeOK, Goto
<1>20. ASSUME NEW i \in Instance, StepDownDelete(i) PROVE NothingNew
  BY <1>20 DEF StepDownDelete, TypeOK, Goto
<1>21. ASSUME NEW i \in Instance, StepDownDone(i) PROVE NothingNew
  BY <1>21 DEF StepDownDone, TypeOK, Claim, Release
<1>22. ASSUME NEW i \in Instance, SetUpThread(i) PROVE NothingNew
  BY <1>22 DEF SetUpThread, TypeOK
<1>23. ASSUME NEW i \in Instance, OnTick60(i) PROVE NothingNew
  BY <1>23 DEF OnTick60, TypeOK
<1>24. ASSUME NEW i \in Instance, StepDown(i) PROVE NothingNew
  BY <1>24 DEF StepDown, TypeOK
<1>25. ASSUME NEW i \in Instance, SetUp(i) PROVE NothingNew
  BY <1>25 DEF SetUp, TypeOK
<1>26. CASE ExpireAbandoned
  BY <1>26 DEF ExpireAbandoned, TypeOK
<1>27. CASE UNCHANGED vars
  BY <1>27 DEF vars, TypeOK
<1>28. QED
  BY <1>1, <1>2, <1>3, <1>4, <1>5, <1>6, <1>7, <1>8, <1>9, <1>10, <1>11, <1>12, <1>13, <1>14,
     <1>15, <1>16, <1>17, <1>18, <1>19, <1>20, <1>21, <1>22, <1>23, <1>24, <1>25, <1>26, <1>27
     DEF Next, Client, MainLoop, Threads, ElectionThread, StepDownThread

LEMMA NextClaims == TypeOK /\ ClaimInv /\ TypeOK' /\ [Next]_vars => ClaimInv'
<1> SUFFICES ASSUME TypeOK, ClaimInv, TypeOK', [Next]_vars PROVE ClaimInv'
  OBVIOUS
<1>1. CASE NothingNew
  BY <1>1, NothingClaimed DEF NothingNew
<1>2. QED
  BY <1>1, NextNothingNew, CreateClaims, ClaimClaims

\* No two instances ever claim the same creation of the znode, and the claim that
\* the znode bears out belongs to its creator: with any number of instances,
\* breaks, crashes, step-downs and set-ups.
THEOREM ClaimsCorrect == Spec => []ClaimsDistinct /\ []ClaimIsOwnNode
<1>1. TypeOK /\ ClaimInv => ClaimsDistinct /\ ClaimIsOwnNode
  <2> SUFFICES ASSUME TypeOK, ClaimInv PROVE ClaimsDistinct /\ ClaimIsOwnNode
    OBVIOUS
  <2>1. ASSUME NEW i \in Instance, IsLeader(i) PROVE leaderZxid[i] \in 1..zxid
    BY <2>1 DEF ClaimInv, IsLeader, TypeOK
  <2>2. ClaimsDistinct
    BY <2>1 DEF ClaimsDistinct, ClaimInv, Believes
  <2>3. ClaimIsOwnNode
    BY DEF ClaimIsOwnNode, ClaimInv, Believes, IsLeader
  <2>4. QED
    BY <2>2, <2>3
<1>2. QED
  BY <1>1, InitType, NextType, InitClaims, NextClaims, PTL DEF Spec

\* Leadership is gained only by an instance that takes part: after a step-down
\* no election in flight or waiting for the lock brings it back before SetUp().
THEOREM StepDownIsFinal == Spec => NoClaimAfterStepDown
<1>1. TypeOK /\ ClaimInv /\ [Next]_vars
        => [\A i \in Instance : leaderZxid'[i] \notin {0, leaderZxid[i]}
                                  => participating[i] /\ pc[i] = "claim"]_vars
  <2> SUFFICES ASSUME TypeOK, ClaimInv, [Next]_vars,
                      NEW i \in Instance, leaderZxid'[i] \notin {0, leaderZxid[i]}
               PROVE  participating[i] /\ pc[i] = "claim"
    OBVIOUS
  <2>1. PICK j \in Instance : ElectCreate(j) \/ ElectClaim(j)
    BY NextNothingNew DEF NothingNew
  <2>2. j = i /\ pc[i] = "claim"
    BY <2>1 DEF ElectCreate, ElectClaim, Claim, TypeOK
  <2>3. QED
    BY <2>2 DEF ClaimInv, Electing
<1>2. QED
  BY <1>1, InitType, NextType, InitClaims, NextClaims, PTL
     DEF Spec, NoClaimAfterStepDown

-----------------------------------------------------------------------------
(* That a connected leader holds the znode, when no instance resigns.     *)

\* No loss of the session waits in the loop of i to be told to the service.
NoLoss(i) == \A k \in 1..Len(loop[i]) : loop[i][k] \notin {"LOST", "onLost"}

HasSession(i) == conn[i] \in {"connected", "suspended"}

\* Nobody has stepped down; the client's session is the server's.
Peace(i) ==
  /\ participating[i]
  /\ "stepDown" \notin todo[i]
  /\ pc[i] \notin {"sdGet", "sdDelete", "sdDone"}

Session(i) ==
  /\ session[i] \in 0..sessions
  /\ session[i] = 0 <=> conn[i] = "lost"
  /\ node # NoNode /\ node.session = session[i] => node.owner = i

\* A successful create() whose key nobody has invalidated since is still true.
Won(i) ==
  NoLoss(i) /\ HasSession(i) /\ Holding(i) /\ key[i]
    => /\ node = reply[i]
       /\ node = [owner |-> i, session |-> session[i], czxid |-> reply[i].czxid]
       /\ pc[i] = "recheck" => leaderZxid[i] = reply[i].czxid

\* A claim of an instance that still has its session is true.
Held(i) ==
  NoLoss(i) /\ HasSession(i) /\ pc[i] # "recheck" /\ IsLeader(i)
    => node = [owner |-> i, session |-> session[i], czxid |-> leaderZxid[i]]

\* Once the loss of the session has been told, there is no claim left.
Told(i) ==
  NoLoss(i) /\ conn[i] = "lost"
    => /\ Holding(i) => ~key[i]
       /\ pc[i] # "recheck" => ~IsLeader(i)

Own(i) == Peace(i) /\ Session(i) /\ Won(i) /\ Held(i) /\ Told(i)

\* The inductive strengthening of LeaderHoldsNode.
HoldInv ==
  /\ node # NoNode => node.session \in 1..sessions
  /\ \A i, j \in Instance : session[i] = session[j] /\ session[i] # 0 => i = j
  /\ \A i \in Instance : Own(i)

-----------------------------------------------------------------------------
(* What the loop's operations do to a loss that waits in it.               *)

LEMMA EnqueueLoss ==
  ASSUME TypeOK, NEW i \in Instance, NEW e \in Callback, Enqueue(i, e)
  PROVE  /\ NoLoss(i)' => NoLoss(i)
         /\ e \in {"LOST", "onLost"} => ~NoLoss(i)'
<1>1. loop'[i] = Append(loop[i], e) /\ loop[i] \in Seq(Callback)
  BY DEF Enqueue, TypeOK
<1>2. /\ Len(loop'[i]) = Len(loop[i]) + 1 /\ Len(loop[i]) \in Nat
      /\ loop'[i][Len(loop[i]) + 1] = e
      /\ \A k \in 1..Len(loop[i]) : loop'[i][k] = loop[i][k]
  BY <1>1
<1>3. QED
  BY <1>2 DEF NoLoss

LEMMA ConsumeLoss ==
  ASSUME TypeOK, NEW i \in Instance, NEW e \in Callback \ {"LOST", "onLost"},
         NextUp(i, e), Consume(i)
  PROVE  NoLoss(i)' => NoLoss(i)
<1>1. /\ loop'[i] = Tail(loop[i]) /\ loop[i] \in Seq(Callback)
      /\ loop[i] # <<>> /\ Head(loop[i]) = e
  BY DEF Consume, NextUp, TypeOK
<1>2. /\ Len(loop'[i]) = Len(loop[i]) - 1 /\ Len(loop[i]) \in Nat \ {0}
      /\ loop[i][1] = e
      /\ \A k \in 1..Len(loop'[i]) : loop'[i][k] = loop[i][k + 1]
  BY <1>1
<1>3. ASSUME NoLoss(i)', NEW k \in 1..Len(loop[i])
      PROVE  loop[i][k] \notin {"LOST", "onLost"}
  <2>1. CASE k = 1
    BY <1>2, <2>1
  <2>2. CASE k # 1
    <3>1. k - 1 \in 1..Len(loop'[i]) /\ (k - 1) + 1 = k
      BY <1>2, <2>2
    <3>2. loop[i][k] = loop'[i][k - 1]
      BY <1>2, <3>1
    <3>3. QED
      BY <1>3, <3>1, <3>2 DEF NoLoss
  <2>3. QED
    BY <2>1, <2>2
<1>4. QED
  BY <1>3 DEF NoLoss

LEMMA DeferLoss ==
  ASSUME TypeOK, NEW i \in Instance, DeferLost(i)
  PROVE  ~NoLoss(i)'
<1>1. /\ loop'[i] = Append(Tail(loop[i]), "onLost")
      /\ loop[i] \in Seq(Callback) /\ loop[i] # <<>>
  BY DEF DeferLost, NextUp, TypeOK
<1>2. Tail(loop[i]) \in Seq(Callback)
  BY <1>1
<1>3. /\ Len(loop'[i]) = Len(Tail(loop[i])) + 1 /\ Len(Tail(loop[i])) \in Nat
      /\ loop'[i][Len(Tail(loop[i])) + 1] = "onLost"
  BY <1>1, <1>2
<1>4. QED
  BY <1>3 DEF NoLoss

-----------------------------------------------------------------------------
(* An action of i concerns i alone, and the znode only if it is i's.       *)

Same(j) ==
  /\ conn'[j] = conn[j]
  /\ session'[j] = session[j]
  /\ participating'[j] = participating[j]
  /\ leaderZxid'[j] = leaderZxid[j]
  /\ key'[j] = key[j]
  /\ todo'[j] = todo[j]
  /\ pc'[j] = pc[j]
  /\ reply'[j] = reply[j]
  /\ loop'[j] = loop[j]

NodeOf(i) ==
  \/ node' = node
  \/ node' = NoNode /\ node.session = session[i] /\ session[i] # 0
  \/ node = NoNode /\ node'.session = session[i] /\ session[i] # 0

SessionOf(i) ==
  \/ sessions' = sessions /\ session'[i] \in {0, session[i]}
  \/ sessions' = sessions + 1 /\ session'[i] = sessions + 1

LEMMA OneMoves ==
  ASSUME TypeOK, HoldInv, TypeOK', NEW i \in Instance,
         \A j \in Instance \ {i} : Same(j),
         NodeOf(i), SessionOf(i), Own(i)'
  PROVE  HoldInv'
<1>1. /\ sessions \in Nat /\ sessions' \in Nat /\ sessions' >= sessions
      /\ \A j \in Instance : session[j] \in 0..sessions
  BY DEF SessionOf, TypeOK, HoldInv, Own, Session
<1>2. NoNode.session = 0
  BY DEF NoNode
<1>3. node' # NoNode => node'.session \in 1..sessions'
  <2>1. CASE node' = node
    BY <1>1, <2>1 DEF HoldInv
  <2>2. CASE node = NoNode /\ node'.session = session[i] /\ session[i] # 0
    BY <1>1, <2>2
  <2>3. QED
    BY <2>1, <2>2 DEF NodeOf
<1>4. ASSUME NEW j \in Instance, NEW k \in Instance,
             session'[j] = session'[k], session'[j] # 0
      PROVE  j = k
  BY <1>1, <1>4 DEF SessionOf, Same, HoldInv
<1>5. ASSUME NEW j \in Instance \ {i} PROVE Own(j)'
  <2>1. Same(j) /\ Own(j)
    BY DEF HoldInv
  <2>2. /\ NoLoss(j)' = NoLoss(j) /\ HasSession(j)' = HasSession(j)
        /\ Holding(j)' = Holding(j) /\ IsLeader(j)' = IsLeader(j)
    BY <2>1 DEF Same, NoLoss, HasSession, Holding, IsLeader
  <2>3. HasSession(j) => session[j] # 0 /\ session[j] # session[i]
    BY <2>1 DEF Own, Session, HasSession, HoldInv
  <2>4. Peace(j)' /\ Told(j)'
    BY <2>1, <2>2 DEF Same, Own, Peace, Told
  <2>5. Session(j)'
    <3>1. session'[j] \in 0..sessions' /\ (session'[j] = 0 <=> conn'[j] = "lost")
      BY <1>1, <2>1 DEF Own, Session, Same
    <3>2. ASSUME node' # NoNode, node'.session = session'[j] PROVE node'.owner = j
      <4>1. node' = node
        BY <2>1, <3>2 DEF NodeOf, Same, HoldInv
      <4>2. QED
        BY <2>1, <3>2, <4>1 DEF Own, Session, Same
    <3>3. QED
      BY <3>1, <3>2 DEF Session
  <2>6. node.session = session[j] /\ HasSession(j) => node' = node
    BY <1>2, <2>3 DEF NodeOf
  <2>7. Won(j)'
    BY <2>1, <2>2, <2>6 DEF Own, Won, Same
  <2>8. Held(j)'
    BY <2>1, <2>2, <2>6 DEF Own, Held, Same
  <2>9. QED
    BY <2>4, <2>5, <2>7, <2>8 DEF Own
<1>6. QED
  BY <1>3, <1>4, <1>5 DEF HoldInv

-----------------------------------------------------------------------------
(* Every action of i meets the hypotheses of OneMoves.                     *)

Kept(i) ==
  /\ \A j \in Instance \ {i} : Same(j)
  /\ NodeOf(i) /\ SessionOf(i) /\ Own(i)'

LEMMA NextKept ==
  ASSUME Resigning = {}, TypeOK, HoldInv, TypeOK', NEW i \in Instance
  PROVE  /\ Client(i) => Kept(i)
         /\ MainLoop(i) => Kept(i)
         /\ Threads(i) => Kept(i)
         /\ OnTick60(i) => Kept(i)
         /\ ~StepDown(i) /\ ~SetUp(i)
<1>o. Own(i)
  BY DEF HoldInv
<1>n. /\ NoNode.session = 0 /\ session[i] \in Nat /\ sessions \in Nat
      /\ node # NoNode => node.session # 0
  BY DEF NoNode, TypeOK, HoldInv
<1>c. \A e \in Callback \ {"LOST", "onLost"} :
        (Enqueue(i, e) \/ (NextUp(i, e) /\ Consume(i))) => (NoLoss(i)' => NoLoss(i))
  BY EnqueueLoss, ConsumeLoss
<1> USE DEF Same, zkVars, clientVars, threadVars, loopVars
<1>1. ASSUME Connect(i) PROVE Kept(i)
  <2>1. (\A j \in Instance \ {i} : Same(j)) /\ NodeOf(i) /\ SessionOf(i)
    BY <1>1, <1>n, <1>o DEF Connect, TypeOK, NodeOf, SessionOf, Own, Session, OnZkReady, Request
  <2>2. /\ conn'[i] = "connected"
        /\ session'[i] = sessions + 1 /\ sessions' = sessions + 1
        /\ conn[i] = "lost"
        /\ todo'[i] = todo[i] \cup {"elect"}
        /\ participating'[i] = participating[i] /\ leaderZxid'[i] = leaderZxid[i] /\ key'[i] = key[i]
        /\ pc'[i] = pc[i] /\ reply'[i] = reply[i] /\ node' = node
    BY <1>1 DEF Connect, TypeOK, OnZkReady, Request
  <2>3. NoLoss(i)' => NoLoss(i)
    BY <1>1 DEF Connect, NoLoss
  <2>4. Peace(i)'
    BY <1>o, <2>2 DEF Own, Peace
  <2>5. Session(i)'
    BY HoldInv, <1>n, <2>2 DEF HoldInv, Session
  <2>6. Won(i)'
    BY <1>o, <2>2, <2>3 DEF Own, Won, Told, HasSession, Holding, IsLeader
  <2>7. Held(i)'
    BY <1>o, <2>2, <2>3 DEF Own, Held, Told, HasSession, Holding, IsLeader
  <2>8. Told(i)'
    BY <1>o, <2>2, <2>3 DEF Own, Told, HasSession, Holding, IsLeader
  <2>9. QED
    BY <2>1, <2>4, <2>5, <2>6, <2>7, <2>8 DEF Kept, Own
<1>2. ASSUME Suspend(i) PROVE Kept(i)
  <2>1. (\A j \in Instance \ {i} : Same(j)) /\ NodeOf(i) /\ SessionOf(i)
    BY <1>2, <1>n, <1>o DEF Suspend, TypeOK, NodeOf, SessionOf, Own, Session, FailCall, Enqueue, Disturb, Release
  <2>2. /\ conn[i] = "connected" /\ conn'[i] = "suspended"
        /\ pc'[i] \in {"idle", pc[i]}
        /\ pc'[i] = "idle" \/ reply'[i] = reply[i]
        /\ pc[i] = "recheck" => pc'[i] = pc[i]
        /\ session'[i] = session[i] /\ participating'[i] = participating[i] /\ leaderZxid'[i] = leaderZxid[i]
        /\ key'[i] = key[i] /\ todo'[i] = todo[i] /\ node' = node
        /\ sessions' = sessions
    BY <1>2 DEF Suspend, TypeOK, FailCall, Enqueue, Disturb, Release, Calling, Answered
  <2>3. NoLoss(i)' => NoLoss(i)
    BY <1>2, <1>c DEF Suspend, Callback
  <2>4. Peace(i)'
    BY <1>o, <2>2 DEF Own, Peace
  <2>5. Session(i)'
    BY <1>o, <1>n, <2>2 DEF Own, Session
  <2>6. Won(i)'
    BY <1>o, <2>2, <2>3 DEF Own, Won, HasSession, Holding, IsLeader
  <2>7. Held(i)'
    BY <1>o, <2>2, <2>3 DEF Own, Held, HasSession, Holding, IsLeader
  <2>8. Told(i)'
    BY <1>o, <2>2, <2>3 DEF Own, Told, HasSession, Holding, IsLeader
  <2>9. QED
    BY <2>1, <2>4, <2>5, <2>6, <2>7, <2>8 DEF Kept, Own
<1>3. ASSUME Reconnect(i) PROVE Kept(i)
  <2>1. (\A j \in Instance \ {i} : Same(j)) /\ NodeOf(i) /\ SessionOf(i)
    BY <1>3, <1>n, <1>o DEF Reconnect, TypeOK, NodeOf, SessionOf, Own, Session, OnZkReady, Request
  <2>2. /\ conn[i] = "suspended" /\ conn'[i] = "connected"
        /\ todo'[i] = todo[i] \cup {"elect"}
        /\ session'[i] = session[i] /\ participating'[i] = participating[i] /\ leaderZxid'[i] = leaderZxid[i]
        /\ key'[i] = key[i] /\ pc'[i] = pc[i] /\ reply'[i] = reply[i]
        /\ node' = node /\ sessions' = sessions
    BY <1>3, <1>o DEF Own, Peace, Reconnect, TypeOK, OnZkReady, Request
  <2>3. NoLoss(i)' => NoLoss(i)
    BY <1>3 DEF Reconnect, NoLoss
  <2>4. Peace(i)'
    BY <1>o, <2>2 DEF Own, Peace
  <2>5. Session(i)'
    BY <1>o, <1>n, <2>2 DEF Own, Session
  <2>6. Won(i)'
    BY <1>o, <2>2, <2>3 DEF Own, Won, HasSession, Holding, IsLeader
  <2>7. Held(i)'
    BY <1>o, <2>2, <2>3 DEF Own, Held, HasSession, Holding, IsLeader
  <2>8. Told(i)'
    BY <1>o, <2>2, <2>3 DEF Own, Told, HasSession, Holding, IsLeader
  <2>9. QED
    BY <2>1, <2>4, <2>5, <2>6, <2>7, <2>8 DEF Kept, Own
<1>4. ASSUME Lose(i) PROVE Kept(i)
  <2>1. (\A j \in Instance \ {i} : Same(j)) /\ NodeOf(i) /\ SessionOf(i)
    BY <1>4, <1>n, <1>o DEF Lose, TypeOK, NodeOf, SessionOf, Own, Session, FailCall, Enqueue, Release
  <2>2. /\ conn'[i] = "lost" /\ session'[i] = 0
        /\ pc'[i] \in {"idle", pc[i]}
        /\ participating'[i] = participating[i] /\ leaderZxid'[i] = leaderZxid[i] /\ key'[i] = key[i]
        /\ todo'[i] = todo[i] /\ node' = node /\ sessions' = sessions
    BY <1>4 DEF Lose, TypeOK, FailCall, Enqueue, Release, Calling, Answered
  <2>3. ~NoLoss(i)'
    BY <1>4, EnqueueLoss DEF Lose, Callback
  <2>4. Peace(i)'
    BY <1>o, <2>2 DEF Own, Peace
  <2>5. Session(i)'
    BY <1>o, <1>n, <2>2 DEF Own, Session
  <2>6. Won(i)'
    BY <1>o, <2>2, <2>3 DEF Own, Won, HasSession, Holding, IsLeader
  <2>7. Held(i)'
    BY <1>o, <2>2, <2>3 DEF Own, Held, HasSession, Holding, IsLeader
  <2>8. Told(i)'
    BY <1>o, <2>2, <2>3 DEF Own, Told, HasSession, Holding, IsLeader
  <2>9. QED
    BY <2>1, <2>4, <2>5, <2>6, <2>7, <2>8 DEF Kept, Own
<1>5. ASSUME Expire(i) PROVE Kept(i)
  <2>1. (\A j \in Instance \ {i} : Same(j)) /\ NodeOf(i) /\ SessionOf(i)
    BY <1>5, <1>n, <1>o DEF Expire, TypeOK, NodeOf, SessionOf, Own, Session
  <2>2. /\ conn'[i] = "expired" /\ conn[i] = "suspended"
        /\ node' \in {node, NoNode}
        /\ session'[i] = session[i] /\ participating'[i] = participating[i] /\ leaderZxid'[i] = leaderZxid[i]
        /\ key'[i] = key[i] /\ todo'[i] = todo[i] /\ pc'[i] = pc[i]
        /\ reply'[i] = reply[i] /\ sessions' = sessions
    BY <1>5 DEF Expire, TypeOK
  <2>3. NoLoss(i)' => NoLoss(i)
    BY <1>5 DEF Expire, NoLoss
  <2>4. Peace(i)'
    BY <1>o, <2>2 DEF Own, Peace
  <2>5. Session(i)'
    BY <1>o, <1>n, <2>2 DEF Own, Session
  <2>6. Won(i)'
    BY <1>o, <2>2, <2>3 DEF Own, Won, HasSession, Holding, IsLeader
  <2>7. Held(i)'
    BY <1>o, <2>2, <2>3 DEF Own, Held, HasSession, Holding, IsLeader
  <2>8. Told(i)'
    BY <1>o, <2>2, <2>3 DEF Own, Told, HasSession, Holding, IsLeader
  <2>9. QED
    BY <2>1, <2>4, <2>5, <2>6, <2>7, <2>8 DEF Kept, Own
<1>6. ASSUME Crash(i) PROVE Kept(i)
  <2>1. (\A j \in Instance \ {i} : Same(j)) /\ NodeOf(i) /\ SessionOf(i)
    BY <1>6, <1>n, <1>o DEF Crash, TypeOK, NodeOf, SessionOf, Own, Session, Claim, Release, Disturb
  <2>2. /\ conn'[i] = "lost" /\ session'[i] = 0
        /\ participating'[i] /\ leaderZxid'[i] = 0 /\ ~key'[i]
        /\ todo'[i] = {} /\ pc'[i] = "idle"
        /\ node' = node /\ sessions' = sessions
    BY <1>6 DEF Crash, TypeOK, Claim, Release, Disturb
  <2>4. Peace(i)'
    BY <1>o, <2>2 DEF Own, Peace
  <2>5. Session(i)'
    BY <1>o, <1>n, <2>2 DEF Own, Session
  <2>6. Won(i)'
    BY <1>o, <2>2 DEF Own, Won, HasSession, Holding, IsLeader
  <2>7. Held(i)'
    BY <1>o, <2>2 DEF Own, Held, HasSession, Holding, IsLeader
  <2>8. Told(i)'
    BY <1>o, <2>2 DEF Own, Told, HasSession, Holding, IsLeader
  <2>9. QED
    BY <2>1, <2>4, <2>5, <2>6, <2>7, <2>8 DEF Kept, Own
<1>7. ASSUME DeferLost(i) PROVE Kept(i)
  <2>1. (\A j \in Instance \ {i} : Same(j)) /\ NodeOf(i) /\ SessionOf(i)
    BY <1>7, <1>n, <1>o DEF DeferLost, TypeOK, NodeOf, SessionOf, Own, Session
  <2>2. /\ conn'[i] = conn[i] /\ session'[i] = session[i] /\ participating'[i] = participating[i]
        /\ leaderZxid'[i] = leaderZxid[i] /\ key'[i] = key[i] /\ todo'[i] = todo[i]
        /\ pc'[i] = pc[i] /\ reply'[i] = reply[i] /\ node' = node
        /\ sessions' = sessions
    BY <1>7 DEF DeferLost, TypeOK
  <2>3. ~NoLoss(i)'
    BY <1>7, DeferLoss
  <2>4. Peace(i)'
    BY <1>o, <2>2 DEF Own, Peace
  <2>5. Session(i)'
    BY <1>o, <1>n, <2>2 DEF Own, Session
  <2>6. Won(i)'
    BY <1>o, <2>2, <2>3 DEF Own, Won, HasSession, Holding, IsLeader
  <2>7. Held(i)'
    BY <1>o, <2>2, <2>3 DEF Own, Held, HasSession, Holding, IsLeader
  <2>8. Told(i)'
    BY <1>o, <2>2, <2>3 DEF Own, Told, HasSession, Holding, IsLeader
  <2>9. QED
    BY <2>1, <2>4, <2>5, <2>6, <2>7, <2>8 DEF Kept, Own
<1>8. ASSUME OnZkSuspended(i) PROVE Kept(i)
  <2>1. (\A j \in Instance \ {i} : Same(j)) /\ NodeOf(i) /\ SessionOf(i)
    BY <1>8, <1>n, <1>o DEF OnZkSuspended, TypeOK, NodeOf, SessionOf, Own, Session, Consume
  <2>2. /\ ~key'[i]
        /\ conn'[i] = conn[i] /\ session'[i] = session[i] /\ participating'[i] = participating[i]
        /\ leaderZxid'[i] = leaderZxid[i] /\ todo'[i] = todo[i] /\ pc'[i] = pc[i]
        /\ reply'[i] = reply[i] /\ node' = node /\ sessions' = sessions
    BY <1>8 DEF OnZkSuspended, TypeOK, Consume
  <2>3. NoLoss(i)' => NoLoss(i)
    BY <1>8, <1>c DEF OnZkSuspended, Callback
  <2>4. Peace(i)'
    BY <1>o, <2>2 DEF Own, Peace
  <2>5. Session(i)'
    BY <1>o, <1>n, <2>2 DEF Own, Session
  <2>6. Won(i)'
    BY <1>o, <2>2, <2>3 DEF Own, Won, HasSession, Holding, IsLeader
  <2>7. Held(i)'
    BY <1>o, <2>2, <2>3 DEF Own, Held, HasSession, Holding, IsLeader
  <2>8. Told(i)'
    BY <1>o, <2>2, <2>3 DEF Own, Told, HasSession, Holding, IsLeader
  <2>9. QED
    BY <2>1, <2>4, <2>5, <2>6, <2>7, <2>8 DEF Kept, Own
<1>9. ASSUME OnZkLost(i) PROVE Kept(i)
  <2>1. (\A j \in Instance \ {i} : Same(j)) /\ NodeOf(i) /\ SessionOf(i)
    BY <1>9, <1>n, <1>o DEF OnZkLost, TypeOK, NodeOf, SessionOf, Own, Session, Claim, Consume
  <2>2. /\ ~key'[i] /\ leaderZxid'[i] = 0
        /\ conn'[i] = conn[i] /\ session'[i] = session[i] /\ participating'[i] = participating[i]
        /\ todo'[i] = todo[i] /\ pc'[i] = pc[i] /\ reply'[i] = reply[i]
        /\ node' = node /\ sessions' = sessions
    BY <1>9 DEF OnZkLost, TypeOK, Claim, Consume
  <2>4. Peace(i)'
    BY <1>o, <2>2 DEF Own, Peace
  <2>5. Session(i)'
    BY <1>o, <1>n, <2>2 DEF Own, Session
  <2>6. Won(i)'
    BY <1>o, <2>2 DEF Own, Won, HasSession, Holding, IsLeader
  <2>7. Held(i)'
    BY <1>o, <2>2 DEF Own, Held, HasSession, Holding, IsLeader
  <2>8. Told(i)'
    BY <1>o, <2>2 DEF Own, Told, HasSession, Holding, IsLeader
  <2>9. QED
    BY <2>1, <2>4, <2>5, <2>6, <2>7, <2>8 DEF Kept, Own
<1>10. ASSUME Publish(i) PROVE Kept(i)
  <2>1. (\A j \in Instance \ {i} : Same(j)) /\ NodeOf(i) /\ SessionOf(i)
    BY <1>10, <1>n, <1>o DEF Publish, TypeOK, NodeOf, SessionOf, Own, Session, Consume
  <2>2. /\ conn'[i] = conn[i] /\ session'[i] = session[i] /\ participating'[i] = participating[i]
        /\ leaderZxid'[i] = leaderZxid[i] /\ key'[i] = key[i] /\ todo'[i] = todo[i]
        /\ pc'[i] = pc[i] /\ reply'[i] = reply[i] /\ node' = node
        /\ sessions' = sessions
    BY <1>10 DEF Publish, TypeOK, Consume
  <2>3. NoLoss(i)' => NoLoss(i)
    BY <1>10, <1>c DEF Publish, Callback
  <2>4. Peace(i)'
    BY <1>o, <2>2 DEF Own, Peace
  <2>5. Session(i)'
    BY <1>o, <1>n, <2>2 DEF Own, Session
  <2>6. Won(i)'
    BY <1>o, <2>2, <2>3 DEF Own, Won, HasSession, Holding, IsLeader
  <2>7. Held(i)'
    BY <1>o, <2>2, <2>3 DEF Own, Held, HasSession, Holding, IsLeader
  <2>8. Told(i)'
    BY <1>o, <2>2, <2>3 DEF Own, Told, HasSession, Holding, IsLeader
  <2>9. QED
    BY <2>1, <2>4, <2>5, <2>6, <2>7, <2>8 DEF Kept, Own
<1>11. ASSUME ElectBegin(i) PROVE Kept(i)
  <2>1. (\A j \in Instance \ {i} : Same(j)) /\ NodeOf(i) /\ SessionOf(i)
    BY <1>11, <1>n, <1>o DEF ElectBegin, TypeOK, NodeOf, SessionOf, Own, Session, Goto
  <2>2. /\ pc[i] = "idle" /\ pc'[i] \in {"idle", "create"}
        /\ pc'[i] = "create" => conn[i] = "connected"
        /\ todo'[i] \subseteq todo[i]
        /\ key'[i] = key[i] \/ pc'[i] = "create"
        /\ conn'[i] = conn[i] /\ session'[i] = session[i] /\ participating'[i] = participating[i]
        /\ leaderZxid'[i] = leaderZxid[i] /\ reply'[i] = reply[i] /\ node' = node
        /\ sessions' = sessions
    BY <1>11 DEF ElectBegin, TypeOK, Goto
  <2>3. NoLoss(i)' => NoLoss(i)
    BY <1>11 DEF ElectBegin, NoLoss
  <2>4. Peace(i)'
    BY <1>o, <2>2 DEF Own, Peace
  <2>5. Session(i)'
    BY <1>o, <1>n, <2>2 DEF Own, Session
  <2>6. Won(i)'
    BY <1>o, <2>2, <2>3 DEF Own, Won, HasSession, Holding, IsLeader
  <2>7. Held(i)'
    BY <1>o, <2>2, <2>3 DEF Own, Held, HasSession, Holding, IsLeader
  <2>8. Told(i)'
    BY <1>o, <2>2, <2>3 DEF Own, Told, HasSession, Holding, IsLeader
  <2>9. QED
    BY <2>1, <2>4, <2>5, <2>6, <2>7, <2>8 DEF Kept, Own
<1>12. ASSUME ElectCreate(i) PROVE Kept(i)
  <2>1. (\A j \in Instance \ {i} : Same(j)) /\ NodeOf(i) /\ SessionOf(i)
    BY <1>12, <1>n, <1>o DEF ElectCreate, TypeOK, NodeOf, SessionOf, Own, Session, Goto
  <2>2. /\ pc[i] = "create" /\ conn[i] = "connected" /\ node = NoNode
        /\ node' = [owner |-> i, session |-> session[i], czxid |-> zxid + 1]
        /\ reply'[i] = node' /\ pc'[i] = "won"
        /\ conn'[i] = conn[i] /\ session'[i] = session[i] /\ participating'[i] = participating[i]
        /\ leaderZxid'[i] = leaderZxid[i] /\ key'[i] = key[i] /\ todo'[i] = todo[i]
        /\ sessions' = sessions
    BY <1>12 DEF ElectCreate, TypeOK, Goto
  <2>3. NoLoss(i)' => NoLoss(i)
    BY <1>12 DEF ElectCreate, NoLoss
  <2>4. Peace(i)'
    BY <1>o, <2>2 DEF Own, Peace
  <2>5. Session(i)'
    BY <1>o, <1>n, <2>2 DEF Own, Session
  <2>6. Won(i)'
    BY <1>o, <2>2, <2>3 DEF Own, Won, HasSession, Holding, IsLeader
  <2>7. Held(i)'
    BY <1>o, <2>2, <2>3 DEF Own, Held, Session, NoNode, HasSession, Holding, IsLeader
  <2>8. Told(i)'
    BY <1>o, <2>2, <2>3 DEF Own, Told, HasSession, Holding, IsLeader
  <2>9. QED
    BY <2>1, <2>4, <2>5, <2>6, <2>7, <2>8 DEF Kept, Own
<1>13. ASSUME ElectExists(i) PROVE Kept(i)
  <2>1. (\A j \in Instance \ {i} : Same(j)) /\ NodeOf(i) /\ SessionOf(i)
    BY <1>13, <1>n, <1>o DEF ElectExists, TypeOK, NodeOf, SessionOf, Own, Session, Goto
  <2>2. /\ pc[i] = "create" /\ pc'[i] = "get"
        /\ conn'[i] = conn[i] /\ session'[i] = session[i] /\ participating'[i] = participating[i]
        /\ leaderZxid'[i] = leaderZxid[i] /\ key'[i] = key[i] /\ todo'[i] = todo[i]
        /\ reply'[i] = reply[i] /\ node' = node /\ sessions' = sessions
    BY <1>13 DEF ElectExists, TypeOK, Goto
  <2>3. NoLoss(i)' => NoLoss(i)
    BY <1>13 DEF ElectExists, NoLoss
  <2>4. Peace(i)'
    BY <1>o, <2>2 DEF Own, Peace
  <2>5. Session(i)'
    BY <1>o, <1>n, <2>2 DEF Own, Session
  <2>6. Won(i)'
    BY <1>o, <2>2, <2>3 DEF Own, Won, HasSession, Holding, IsLeader
  <2>7. Held(i)'
    BY <1>o, <2>2, <2>3 DEF Own, Held, HasSession, Holding, IsLeader
  <2>8. Told(i)'
    BY <1>o, <2>2, <2>3 DEF Own, Told, HasSession, Holding, IsLeader
  <2>9. QED
    BY <2>1, <2>4, <2>5, <2>6, <2>7, <2>8 DEF Kept, Own
<1>14. ASSUME ElectGet(i) PROVE Kept(i)
  <2>1. (\A j \in Instance \ {i} : Same(j)) /\ NodeOf(i) /\ SessionOf(i)
    BY <1>14, <1>n, <1>o DEF ElectGet, TypeOK, NodeOf, SessionOf, Own, Session, Goto, Release
  <2>2. /\ pc'[i] \in {"idle", "check"}
        /\ pc[i] = "get"
        /\ conn'[i] = conn[i] /\ session'[i] = session[i] /\ participating'[i] = participating[i]
        /\ leaderZxid'[i] = leaderZxid[i] /\ key'[i] = key[i] /\ todo'[i] = todo[i]
        /\ node' = node /\ sessions' = sessions
    BY <1>14 DEF ElectGet, TypeOK, Goto, Release
  <2>3. NoLoss(i)' => NoLoss(i)
    BY <1>14 DEF ElectGet, NoLoss
  <2>4. Peace(i)'
    BY <1>o, <2>2 DEF Own, Peace
  <2>5. Session(i)'
    BY <1>o, <1>n, <2>2 DEF Own, Session
  <2>6. Won(i)'
    BY <1>o, <2>2, <2>3 DEF Own, Won, HasSession, Holding, IsLeader
  <2>7. Held(i)'
    BY <1>o, <2>2, <2>3 DEF Own, Held, HasSession, Holding, IsLeader
  <2>8. Told(i)'
    BY <1>o, <2>2, <2>3 DEF Own, Told, HasSession, Holding, IsLeader
  <2>9. QED
    BY <2>1, <2>4, <2>5, <2>6, <2>7, <2>8 DEF Kept, Own
<1>15. ASSUME ElectCheck(i) PROVE Kept(i)
  <2>1. (\A j \in Instance \ {i} : Same(j)) /\ NodeOf(i) /\ SessionOf(i)
    BY <1>15, <1>n, <1>o DEF ElectCheck, TypeOK, NodeOf, SessionOf, Own, Session, Claim, Release, Enqueue
  <2>2. /\ pc'[i] = "idle" /\ pc[i] = "check"
        /\ leaderZxid'[i] \in {0, leaderZxid[i]}
        /\ conn'[i] = conn[i] /\ session'[i] = session[i] /\ participating'[i] = participating[i]
        /\ key'[i] = key[i] /\ todo'[i] = todo[i] /\ node' = node
        /\ sessions' = sessions
    BY <1>15 DEF ElectCheck, TypeOK, Claim, Release, Enqueue
  <2>3. NoLoss(i)' => NoLoss(i)
    <3>1. loop' = loop \/ Enqueue(i, "FOLLOWER")
      BY <1>15 DEF ElectCheck
    <3>2. QED
      BY <3>1, <1>c DEF Callback, NoLoss
  <2>4. Peace(i)'
    BY <1>o, <2>2 DEF Own, Peace
  <2>5. Session(i)'
    BY <1>o, <1>n, <2>2 DEF Own, Session
  <2>6. Won(i)'
    BY <1>o, <2>2, <2>3 DEF Own, Won, HasSession, Holding, IsLeader
  <2>7. Held(i)'
    BY <1>o, <2>2, <2>3 DEF Own, Held, HasSession, Holding, IsLeader
  <2>8. Told(i)'
    BY <1>o, <2>2, <2>3 DEF Own, Told, HasSession, Holding, IsLeader
  <2>9. QED
    BY <2>1, <2>4, <2>5, <2>6, <2>7, <2>8 DEF Kept, Own
<1>16. ASSUME ElectWon(i) PROVE Kept(i)
  <2>1. (\A j \in Instance \ {i} : Same(j)) /\ NodeOf(i) /\ SessionOf(i)
    BY <1>16, <1>n, <1>o DEF ElectWon, TypeOK, NodeOf, SessionOf, Own, Session, Goto, Release, Enqueue
  <2>2. /\ pc[i] = "won" /\ pc'[i] \in {"idle", "claim"}
        /\ pc'[i] = "claim" => reply'[i] = reply[i]
        /\ conn'[i] = conn[i] /\ session'[i] = session[i] /\ participating'[i] = participating[i]
        /\ leaderZxid'[i] = leaderZxid[i] /\ key'[i] = key[i] /\ todo'[i] = todo[i]
        /\ node' = node /\ sessions' = sessions
    BY <1>16 DEF ElectWon, TypeOK, Goto, Release, Enqueue
  <2>3. NoLoss(i)' => NoLoss(i)
    <3>1. loop' = loop \/ Enqueue(i, "FOLLOWER")
      BY <1>16 DEF ElectWon
    <3>2. QED
      BY <3>1, <1>c DEF Callback, NoLoss
  <2>4. Peace(i)'
    BY <1>o, <2>2 DEF Own, Peace
  <2>5. Session(i)'
    BY <1>o, <1>n, <2>2 DEF Own, Session
  <2>6. Won(i)'
    BY <1>o, <2>2, <2>3 DEF Own, Won, HasSession, Holding, IsLeader
  <2>7. Held(i)'
    BY <1>o, <2>2, <2>3 DEF Own, Held, HasSession, Holding, IsLeader
  <2>8. Told(i)'
    BY <1>o, <2>2, <2>3 DEF Own, Told, HasSession, Holding, IsLeader
  <2>9. QED
    BY <2>1, <2>4, <2>5, <2>6, <2>7, <2>8 DEF Kept, Own
<1>17. ASSUME ElectClaim(i) PROVE Kept(i)
  <2>1. (\A j \in Instance \ {i} : Same(j)) /\ NodeOf(i) /\ SessionOf(i)
    BY <1>17, <1>n, <1>o DEF ElectClaim, TypeOK, NodeOf, SessionOf, Own, Session, Goto, Claim
  <2>2. /\ pc[i] = "claim" /\ pc'[i] = "recheck"
        /\ leaderZxid'[i] = reply[i].czxid
        /\ conn'[i] = conn[i] /\ session'[i] = session[i] /\ participating'[i] = participating[i]
        /\ key'[i] = key[i] /\ todo'[i] = todo[i] /\ reply'[i] = reply[i]
        /\ node' = node /\ sessions' = sessions
    BY <1>17 DEF ElectClaim, TypeOK, Goto, Claim
  <2>3. NoLoss(i)' => NoLoss(i)
    BY <1>17 DEF ElectClaim, NoLoss
  <2>4. Peace(i)'
    BY <1>o, <2>2 DEF Own, Peace
  <2>5. Session(i)'
    BY <1>o, <1>n, <2>2 DEF Own, Session
  <2>6. Won(i)'
    BY <1>o, <2>2, <2>3 DEF Own, Won, HasSession, Holding, IsLeader
  <2>7. Held(i)'
    BY <1>o, <2>2, <2>3 DEF Own, Held, HasSession, Holding, IsLeader
  <2>8. Told(i)'
    BY <1>o, <2>2, <2>3 DEF Own, Told, HasSession, Holding, IsLeader
  <2>9. QED
    BY <2>1, <2>4, <2>5, <2>6, <2>7, <2>8 DEF Kept, Own
<1>18. ASSUME ElectRecheck(i) PROVE Kept(i)
  <2>1. (\A j \in Instance \ {i} : Same(j)) /\ NodeOf(i) /\ SessionOf(i)
    BY <1>18, <1>n, <1>o DEF ElectRecheck, TypeOK, NodeOf, SessionOf, Own, Session, Goto, Claim, Release
  <2>2. /\ pc[i] = "recheck"
        /\ (key[i] /\ pc'[i] = "announce" /\ leaderZxid'[i] = leaderZxid[i] /\ reply'[i] = reply[i])
           \/ (~key[i] /\ pc'[i] = "idle" /\ leaderZxid'[i] = 0)
        /\ conn'[i] = conn[i] /\ session'[i] = session[i] /\ participating'[i] = participating[i]
        /\ key'[i] = key[i] /\ todo'[i] = todo[i] /\ node' = node
        /\ sessions' = sessions
    BY <1>18 DEF ElectRecheck, TypeOK, Goto, Claim, Release
  <2>3. NoLoss(i)' => NoLoss(i)
    BY <1>18 DEF ElectRecheck, NoLoss
  <2>4. Peace(i)'
    BY <1>o, <2>2 DEF Own, Peace
  <2>5. Session(i)'
    BY <1>o, <1>n, <2>2 DEF Own, Session
  <2>6. Won(i)'
    BY <1>o, <2>2, <2>3 DEF Own, Won, HasSession, Holding, IsLeader
  <2>7. Held(i)'
    BY <1>o, <2>2, <2>3 DEF Own, Held, Won, HasSession, Holding, IsLeader
  <2>8. Told(i)'
    BY <1>o, <2>2, <2>3 DEF Own, Told, HasSession, Holding, IsLeader
  <2>9. QED
    BY <2>1, <2>4, <2>5, <2>6, <2>7, <2>8 DEF Kept, Own
<1>19. ASSUME ElectAnnounce(i) PROVE Kept(i)
  <2>1. (\A j \in Instance \ {i} : Same(j)) /\ NodeOf(i) /\ SessionOf(i)
    BY <1>19, <1>n, <1>o DEF ElectAnnounce, TypeOK, NodeOf, SessionOf, Own, Session, Release, Enqueue
  <2>2. /\ pc[i] = "announce" /\ pc'[i] = "idle"
        /\ conn'[i] = conn[i] /\ session'[i] = session[i] /\ participating'[i] = participating[i]
        /\ leaderZxid'[i] = leaderZxid[i] /\ key'[i] = key[i] /\ todo'[i] = todo[i]
        /\ node' = node /\ sessions' = sessions
    BY <1>19 DEF ElectAnnounce, TypeOK, Release, Enqueue
  <2>3. NoLoss(i)' => NoLoss(i)
    BY <1>19, <1>c DEF ElectAnnounce, Callback
  <2>4. Peace(i)'
    BY <1>o, <2>2 DEF Own, Peace
  <2>5. Session(i)'
    BY <1>o, <1>n, <2>2 DEF Own, Session
  <2>6. Won(i)'
    BY <1>o, <2>2, <2>3 DEF Own, Won, HasSession, Holding, IsLeader
  <2>7. Held(i)'
    BY <1>o, <2>2, <2>3 DEF Own, Held, HasSession, Holding, IsLeader
  <2>8. Told(i)'
    BY <1>o, <2>2, <2>3 DEF Own, Told, HasSession, Holding, IsLeader
  <2>9. QED
    BY <2>1, <2>4, <2>5, <2>6, <2>7, <2>8 DEF Kept, Own
<1>20. ASSUME StepDownBegin(i) PROVE Kept(i)
  BY <1>20, <1>o DEF StepDownBegin, Own, Peace
<1>21. ASSUME StepDownGet(i) PROVE Kept(i)
  BY <1>21, <1>o DEF StepDownGet, Own, Peace
<1>22. ASSUME StepDownDelete(i) PROVE Kept(i)
  BY <1>22, <1>o DEF StepDownDelete, Own, Peace
<1>23. ASSUME StepDownDone(i) PROVE Kept(i)
  BY <1>23, <1>o DEF StepDownDone, Own, Peace
<1>24. ASSUME SetUpThread(i) PROVE Kept(i)
  <2>1. (\A j \in Instance \ {i} : Same(j)) /\ NodeOf(i) /\ SessionOf(i)
    BY <1>24, <1>n, <1>o DEF SetUpThread, TypeOK, NodeOf, SessionOf, Own, Session
  <2>2. /\ participating'[i]
        /\ todo'[i] \subseteq todo[i] \cup {"elect"}
        /\ conn'[i] = conn[i] /\ session'[i] = session[i] /\ leaderZxid'[i] = leaderZxid[i]
        /\ key'[i] = key[i] /\ pc'[i] = pc[i] /\ reply'[i] = reply[i]
        /\ node' = node /\ sessions' = sessions
    BY <1>24 DEF SetUpThread, TypeOK
  <2>3. NoLoss(i)' => NoLoss(i)
    BY <1>24 DEF SetUpThread, NoLoss
  <2>4. Peace(i)'
    BY <1>o, <2>2 DEF Own, Peace
  <2>5. Session(i)'
    BY <1>o, <1>n, <2>2 DEF Own, Session
  <2>6. Won(i)'
    BY <1>o, <2>2, <2>3 DEF Own, Won, HasSession, Holding, IsLeader
  <2>7. Held(i)'
    BY <1>o, <2>2, <2>3 DEF Own, Held, HasSession, Holding, IsLeader
  <2>8. Told(i)'
    BY <1>o, <2>2, <2>3 DEF Own, Told, HasSession, Holding, IsLeader
  <2>9. QED
    BY <2>1, <2>4, <2>5, <2>6, <2>7, <2>8 DEF Kept, Own
<1>25. ASSUME OnTick60(i) PROVE Kept(i)
  <2>1. (\A j \in Instance \ {i} : Same(j)) /\ NodeOf(i) /\ SessionOf(i)
    BY <1>25, <1>n, <1>o DEF OnTick60, TypeOK, NodeOf, SessionOf, Own, Session, Request
  <2>2. /\ todo'[i] = todo[i] \cup {"elect"}
        /\ conn'[i] = conn[i] /\ session'[i] = session[i] /\ participating'[i] = participating[i]
        /\ leaderZxid'[i] = leaderZxid[i] /\ key'[i] = key[i] /\ pc'[i] = pc[i]
        /\ reply'[i] = reply[i] /\ node' = node /\ sessions' = sessions
    BY <1>25, <1>o DEF Own, Peace, OnTick60, TypeOK, Request
  <2>3. NoLoss(i)' => NoLoss(i)
    BY <1>25 DEF OnTick60, NoLoss
  <2>4. Peace(i)'
    BY <1>o, <2>2 DEF Own, Peace
  <2>5. Session(i)'
    BY <1>o, <1>n, <2>2 DEF Own, Session
  <2>6. Won(i)'
    BY <1>o, <2>2, <2>3 DEF Own, Won, HasSession, Holding, IsLeader
  <2>7. Held(i)'
    BY <1>o, <2>2, <2>3 DEF Own, Held, HasSession, Holding, IsLeader
  <2>8. Told(i)'
    BY <1>o, <2>2, <2>3 DEF Own, Told, HasSession, Holding, IsLeader
  <2>9. QED
    BY <2>1, <2>4, <2>5, <2>6, <2>7, <2>8 DEF Kept, Own
<1>26. ~StepDown(i) /\ ~SetUp(i)
  BY DEF StepDown, SetUp
<1>27. QED
  BY <1>1, <1>2, <1>3, <1>4, <1>5, <1>6, <1>7, <1>8, <1>9, <1>10, <1>11, <1>12, <1>13, <1>14,
     <1>15, <1>16, <1>17, <1>18, <1>19, <1>20, <1>21, <1>22, <1>23, <1>24, <1>25, <1>26
     DEF Client, MainLoop, Threads, ElectionThread, StepDownThread

LEMMA ExpireAbandonedKept ==
  ASSUME TypeOK, HoldInv, ExpireAbandoned
  PROVE  HoldInv'
<1>1. /\ node' = NoNode /\ sessions' = sessions /\ session' = session
      /\ \A j \in Instance : Same(j) /\ node.session # session[j]
  BY DEF ExpireAbandoned, Same, clientVars, threadVars, loopVars
<1>2. ASSUME NEW j \in Instance PROVE Own(j)'
  <2>1. Same(j) /\ Own(j) /\ node.session # session[j]
    BY <1>1 DEF HoldInv
  <2>2. /\ NoLoss(j)' = NoLoss(j) /\ HasSession(j)' = HasSession(j)
        /\ Holding(j)' = Holding(j) /\ IsLeader(j)' = IsLeader(j)
    BY <2>1 DEF Same, NoLoss, HasSession, Holding, IsLeader
  <2>3. Peace(j)' /\ Session(j)' /\ Told(j)'
    BY <1>1, <2>1, <2>2 DEF Same, Own, Peace, Told, Session
  <2>4. Won(j)' /\ Held(j)'
    BY <2>1, <2>2 DEF Own, Won, Held, Same
  <2>5. QED
    BY <2>3, <2>4 DEF Own
<1>3. QED
  BY <1>1, <1>2 DEF HoldInv

LEMMA InitHold == Init => HoldInv
<1> SUFFICES ASSUME Init PROVE HoldInv
  OBVIOUS
<1>1. ASSUME NEW i \in Instance PROVE Own(i)
  BY DEF Init, Own, Peace, Session, Won, Held, Told, HasSession, Holding, IsLeader, NoNode
<1>2. QED
  BY <1>1 DEF Init, HoldInv

LEMMA NextHold ==
  ASSUME Resigning = {}, TypeOK, HoldInv, TypeOK', [Next]_vars
  PROVE  HoldInv'
<1>1. ASSUME NEW i \in Instance, Kept(i) PROVE HoldInv'
  BY <1>1, OneMoves DEF Kept
<1>2. CASE ExpireAbandoned
  BY <1>2, ExpireAbandonedKept
<1>3. CASE UNCHANGED vars
  <2>1. /\ UNCHANGED <<node, sessions, conn, session, participating, leaderZxid>>
        /\ UNCHANGED <<key, todo, pc, reply, loop>>
    BY <1>3 DEF vars, zkVars, clientVars, threadVars, loopVars
  <2>2. ASSUME NEW j \in Instance PROVE Own(j)'
    BY <2>1 DEF HoldInv, Own, Peace, Session, Won, Held, Told, NoLoss, HasSession,
                Holding, IsLeader
  <2>3. QED
    BY <2>1, <2>2 DEF HoldInv
<1>4. QED
  BY <1>1, <1>2, <1>3, NextKept DEF Next

\* A leader that has a session, and no loss of one still to be told, holds the
\* znode under that very session (_election_thread, _on_zk_suspended, _on_zk_lost):
\* LeaderHoldsNode for every set of instances, connections that break and crash
\* any number of times, and ticks, as long as StepDown() is not called.
THEOREM LeaderHolds ==
  ASSUME Resigning = {}
  PROVE  Spec => []LeaderHoldsNode
<1>1. ASSUME TypeOK, HoldInv PROVE LeaderHoldsNode
  <2>1. SUFFICES ASSUME NEW i \in Instance, IsLeader(i), conn[i] = "connected",
                        ~LossPending(i), pc[i] # "recheck"
                 PROVE  node = [owner |-> i, session |-> session[i],
                                czxid |-> leaderZxid[i]]
    BY DEF LeaderHoldsNode
  <2>2. NoLoss(i)
    <3>1. DOMAIN loop[i] = 1..Len(loop[i])
      BY <1>1 DEF TypeOK
    <3>2. QED
      BY <2>1, <3>1 DEF LossPending, NoLoss
  <2>3. QED
    BY <1>1, <2>1, <2>2 DEF HoldInv, Own, Held, HasSession
<1>2. TypeOK /\ HoldInv /\ TypeOK' /\ [Next]_vars => HoldInv'
  BY NextHold
<1>3. Spec => []HoldInv
  BY <1>2, InitHold, TypeCorrect, PTL DEF Spec
<1>4. QED
  BY <1>1, <1>3, TypeCorrect, PTL

-----------------------------------------------------------------------------
(* What was announced.  An instance whose connection never breaks need not *)
(* be quiescent for it: the last event on its way, or the last one that it *)
(* has published when none is, is LEADER! only if it leads.                *)

Last(i) == IF loop[i] = <<>> THEN announced[i] ELSE loop[i][Len(loop[i])] = "LEADER"

\* Nothing invalidates the key under a thread, and it withdraws no claim without a word.
Calm(i) ==
  /\ conn[i] \in {"connected", "lost"}
  /\ loop[i] \in Seq({"LEADER", "FOLLOWER"})
  /\ pc[i] \in {"create", "get", "check", "won", "claim", "recheck"} => key[i]
  /\ pc[i] \in {"recheck", "announce"} => IsLeader(i)
  /\ Last(i) => IsLeader(i)

LEMMA EnqueueLast ==
  ASSUME TypeOK, NEW i \in Instance, Calm(i), NEW e \in {"LEADER", "FOLLOWER"}, Enqueue(i, e)
  PROVE  /\ loop'[i] \in Seq({"LEADER", "FOLLOWER"})
         /\ Last(i)' <=> e = "LEADER"
<1>1. loop'[i] = Append(loop[i], e) /\ loop[i] \in Seq({"LEADER", "FOLLOWER"})
  BY DEF Enqueue, TypeOK, Calm
<1>2. /\ loop'[i] \in Seq({"LEADER", "FOLLOWER"})
      /\ Len(loop'[i]) = Len(loop[i]) + 1 /\ Len(loop[i]) \in Nat
      /\ loop'[i][Len(loop[i]) + 1] = e /\ loop'[i] # <<>>
  BY <1>1
<1>3. QED
  BY <1>2 DEF Last

LEMMA PublishLast ==
  ASSUME TypeOK, NEW i \in Instance, Calm(i), Publish(i)
  PROVE  /\ loop'[i] \in Seq({"LEADER", "FOLLOWER"})
         /\ Last(i)' => Last(i)
<1>1. PICK e \in {"LEADER", "FOLLOWER"} : /\ NextUp(i, e) /\ Consume(i)
                                          /\ announced' = [announced EXCEPT ![i] = (e = "LEADER")]
  BY DEF Publish
<1>2. /\ loop[i] \in Seq({"LEADER", "FOLLOWER"}) /\ loop[i] # <<>> /\ Head(loop[i]) = e
      /\ loop'[i] = Tail(loop[i])
      /\ announced'[i] <=> e = "LEADER"
  BY <1>1 DEF NextUp, Consume, Calm, TypeOK
<1>3. /\ loop'[i] \in Seq({"LEADER", "FOLLOWER"})
      /\ Len(loop[i]) \in Nat \ {0} /\ Len(loop'[i]) = Len(loop[i]) - 1 /\ loop[i][1] = e
      /\ \A k \in 1..Len(loop'[i]) : loop'[i][k] = loop[i][k + 1]
  BY <1>2
<1>4. CASE loop'[i] = <<>>
  <2>1. Len(loop[i]) = 1
    BY <1>3, <1>4
  <2>2. QED
    BY <1>2, <1>3, <1>4, <2>1 DEF Last
<1>5. CASE loop'[i] # <<>>
  <2>1. Len(loop'[i]) \in Nat \ {0} /\ Len(loop'[i]) + 1 = Len(loop[i])
    BY <1>3, <1>5
  <2>2. loop'[i][Len(loop'[i])] = loop[i][Len(loop'[i]) + 1]
    <3>1. Len(loop'[i]) \in 1..Len(loop'[i])
      BY <2>1
    <3>2. QED
      BY <1>3, <3>1
  <2>3. QED
    BY <1>2, <1>3, <1>5, <2>1, <2>2 DEF Last
<1>6. QED
  BY <1>3, <1>4, <1>5

\* An action of i that appends nothing to its loop and changes no claim.
LEMMA QuietStep ==
  ASSUME NEW i \in Instance, Calm(i), conn'[i] \in {"connected", "lost"},
         UNCHANGED <<loop[i], announced[i], leaderZxid[i]>>,
         pc'[i] \in {"create", "get", "check", "won", "claim", "recheck"} => key'[i],
         pc'[i] \in {"recheck", "announce"} => IsLeader(i)
  PROVE  Calm(i)'
BY DEF Calm, Last, IsLeader

LEMMA ThreadsCalm ==
  ASSUME TypeOK, ClaimInv, NEW i \in Instance, Calm(i), Threads(i)
  PROVE  Calm(i)'
<1> USE DEF TypeOK, Goto, zkVars, clientVars, threadVars, loopVars
<1>0. /\ conn[i] \in {"connected", "lost"} /\ loop[i] \in Seq({"LEADER", "FOLLOWER"})
      /\ pc[i] \in {"create", "get", "check", "won", "claim", "recheck"} => key[i]
      /\ pc[i] \in {"recheck", "announce"} => IsLeader(i)
      /\ Last(i) => IsLeader(i)
  BY DEF Calm
<1>1. CASE ElectBegin(i)
  BY <1>0, <1>1, QuietStep DEF ElectBegin
<1>2. CASE ElectCreate(i)
  BY <1>0, <1>2, QuietStep DEF ElectCreate
<1>3. CASE ElectExists(i)
  BY <1>0, <1>3, QuietStep DEF ElectExists
<1>4. CASE ElectGet(i)
  BY <1>0, <1>4, QuietStep DEF ElectGet, Release
<1>5. CASE ElectCheck(i)
  <2>1. /\ pc'[i] = "idle" /\ UNCHANGED <<conn, announced>>
        /\ \/ leaderZxid' = leaderZxid /\ loop' = loop
           \/ Claim(i, 0) /\ Enqueue(i, "FOLLOWER")
    BY <1>0, <1>5 DEF ElectCheck, Release
  <2>2. CASE leaderZxid' = leaderZxid /\ loop' = loop
    BY <1>0, <2>1, <2>2, QuietStep
  <2>3. CASE Enqueue(i, "FOLLOWER")
    BY <1>0, <2>1, <2>3, EnqueueLast DEF Calm
  <2>4. QED
    BY <2>1, <2>2, <2>3
<1>6. CASE ElectWon(i)
  BY <1>0, <1>6, QuietStep DEF ElectWon
<1>7. CASE ElectClaim(i)
  <2>1. /\ pc[i] = "claim" /\ pc'[i] = "recheck" /\ leaderZxid'[i] = reply[i].czxid
        /\ UNCHANGED <<conn, loop, announced, key>>
    BY <1>7 DEF ElectClaim, Claim
  <2>2. IsLeader(i)'
    BY <2>1 DEF ClaimInv, Holding, IsLeader
  <2>3. QED
    BY <1>0, <2>1, <2>2 DEF Calm, Last
<1>8. CASE ElectRecheck(i)
  BY <1>0, <1>8, QuietStep DEF ElectRecheck
<1>9. CASE ElectAnnounce(i)
  <2>1. /\ pc[i] = "announce" /\ pc'[i] = "idle" /\ Enqueue(i, "LEADER")
        /\ UNCHANGED <<conn, announced, leaderZxid>>
    BY <1>9 DEF ElectAnnounce, Release
  <2>2. QED
    BY <1>0, <2>1, EnqueueLast DEF Calm, IsLeader
<1>10. CASE StepDownBegin(i)
  <2>1. CASE IsLeader(i)
    BY <1>0, <1>10, <2>1, QuietStep DEF StepDownBegin
  <2>2. CASE ~IsLeader(i)
    <3>1. /\ pc'[i] = "idle" /\ Enqueue(i, "FOLLOWER") /\ UNCHANGED <<conn, announced, leaderZxid>>
      BY <1>10, <2>2 DEF StepDownBegin
    <3>2. QED
      BY <1>0, <3>1, EnqueueLast DEF Calm
  <2>3. QED
    BY <2>1, <2>2
<1>11. CASE StepDownGet(i)
  BY <1>0, <1>11, QuietStep DEF StepDownGet
<1>12. CASE StepDownDelete(i)
  BY <1>0, <1>12, QuietStep DEF StepDownDelete
<1>13. CASE StepDownDone(i)
  <2>1. pc'[i] = "idle" /\ Enqueue(i, "FOLLOWER") /\ UNCHANGED <<conn, announced>>
    BY <1>13 DEF StepDownDone, Release
  <2>2. QED
    BY <1>0, <2>1, EnqueueLast DEF Calm
<1>14. CASE SetUpThread(i)
  BY <1>0, <1>14, QuietStep DEF SetUpThread
<1>15. QED
  BY <1>1, <1>2, <1>3, <1>4, <1>5, <1>6, <1>7, <1>8, <1>9, <1>10, <1>11, <1>12, <1>13, <1>14
     DEF Threads, ElectionThread, StepDownThread

LEMMA LoopCalm ==
  ASSUME TypeOK, NEW i \in Instance, Calm(i), MainLoop(i)
  PROVE  Calm(i)'
<1>1. ASSUME NEW e \in Callback, NextUp(i, e) PROVE e \in {"LEADER", "FOLLOWER"}
  BY <1>1 DEF NextUp, Calm
<1>2. Publish(i)
  BY <1>1 DEF MainLoop, DeferLost, OnZkSuspended, OnZkLost, Callback
<1>3. UNCHANGED <<conn, key, pc, leaderZxid>>
  BY <1>2 DEF Publish, clientVars, threadVars
<1>4. QED
  BY <1>2, <1>3, PublishLast DEF Calm, IsLeader

LEMMA ClientCalm ==
  ASSUME TypeOK, NEW i \in Instance \ Suspending, Calm(i), Client(i)
  PROVE  Calm(i)'
<1> USE DEF TypeOK, zkVars, clientVars, threadVars, loopVars
<1>1. ~Suspend(i) /\ ~Reconnect(i) /\ ~Lose(i) /\ ~Expire(i)
  BY DEF Suspend, Reconnect, Lose, Expire, Calm
<1>2. CASE Connect(i)
  BY <1>2, QuietStep DEF Connect, Calm
<1>3. CASE Crash(i)
  <2>1. /\ conn'[i] = "lost" /\ loop'[i] = <<>> /\ announced'[i] = FALSE /\ pc'[i] = "idle"
    BY <1>3 DEF Crash, Release
  <2>2. loop'[i] \in Seq({"LEADER", "FOLLOWER"})
    BY <2>1
  <2>3. QED
    BY <2>1, <2>2 DEF Calm, Last
<1>4. QED
  BY <1>1, <1>2, <1>3 DEF Client

\* An action of another instance leaves i as it is.
LEMMA OthersCalm ==
  ASSUME TypeOK, NEW i \in Instance, Calm(i), NEW j \in Instance \ {i},
         Threads(j) \/ MainLoop(j) \/ Client(j) \/ OnTick60(j) \/ StepDown(j) \/ SetUp(j)
  PROVE  Calm(i)'
<1> USE DEF TypeOK, zkVars, clientVars, threadVars, loopVars, Goto, Release, Enqueue, Claim, Request,
            Consume, FailCall
<1> SUFFICES UNCHANGED <<conn[i], loop[i], announced[i], leaderZxid[i], pc[i], key[i]>>
  BY QuietStep DEF Calm
<1>1. CASE Threads(j)
  <2>1. CASE ElectionThread(j)
    BY <2>1 DEF ElectionThread, ElectBegin, ElectCreate, ElectExists, ElectGet, ElectCheck, ElectWon,
                ElectClaim, ElectRecheck, ElectAnnounce
  <2>2. CASE StepDownThread(j)
    BY <2>2 DEF StepDownThread, StepDownBegin, StepDownGet, StepDownDelete, StepDownDone
  <2>3. CASE SetUpThread(j)
    BY <2>3 DEF SetUpThread
  <2>4. QED
    BY <1>1, <2>1, <2>2, <2>3 DEF Threads
<1>2. CASE MainLoop(j)
  BY <1>2 DEF MainLoop, DeferLost, OnZkSuspended, OnZkLost, Publish
<1>3. CASE Client(j)
  BY <1>3 DEF Client, Connect, Suspend, Reconnect, Lose, Expire, Crash
<1>4. CASE OnTick60(j) \/ StepDown(j) \/ SetUp(j)
  BY <1>4 DEF OnTick60, StepDown, SetUp
<1>5. QED
  BY <1>1, <1>2, <1>3, <1>4

LEMMA NextCalm ==
  ASSUME TypeOK, ClaimInv, [Next]_vars, NEW i \in Instance \ Suspending, Calm(i)
  PROVE  Calm(i)'
<1>1. CASE OnTick60(i) \/ StepDown(i) \/ SetUp(i)
  BY <1>1, QuietStep DEF OnTick60, StepDown, SetUp, Calm, clientVars, threadVars, loopVars
<1>2. CASE ExpireAbandoned \/ UNCHANGED vars
  BY <1>2, QuietStep DEF ExpireAbandoned, vars, Calm, clientVars, threadVars, loopVars
<1>3. QED
  BY <1>1, <1>2, ThreadsCalm, LoopCalm, ClientCalm, OthersCalm DEF Next

\* An instance whose connection never breaks leads when the last event that it has published
\* or queued is LEADER!, in any state, whatever happens to the others and however often it
\* resigns, returns and crashes (_step_down_thread, _set_up_thread, _election_thread).
THEOREM UnbrokenAgree ==
  Spec => [](\A i \in Instance \ Suspending : Last(i) => IsLeader(i))
<1> DEFINE CalmInv == \A i \in Instance \ Suspending : Calm(i)
<1>1. Init => CalmInv
  <2>1. <<>> \in Seq({"LEADER", "FOLLOWER"})
    OBVIOUS
  <2>2. QED
    BY <2>1 DEF Init, Calm, Last
<1>2. TypeOK /\ ClaimInv /\ CalmInv /\ [Next]_vars => CalmInv'
  BY NextCalm
<1>3. CalmInv => \A i \in Instance \ Suspending : Last(i) => IsLeader(i)
  BY DEF Calm
<1>4. QED
  BY <1>1, <1>2, <1>3, InitType, NextType, InitClaims, NextClaims, PTL DEF Spec

=============================================================================
