------------------------- MODULE DataPublicationProofs -------------------------
(***************************************************************************)
(* Proofs about DataPublication: type correctness, then the inductive      *)
(* invariant behind the safety properties, for every set of publications,  *)
(* both datasets and any bounds.                                           *)
(***************************************************************************)
EXTENDS DataPublication, TLAPS

USE NoPubAssumption, DatasetAssumption, BoundsAssumption

(***************************************************************************)
(* Type correctness.                                                       *)
(***************************************************************************)

\* findActivePublication returns a publication of the scope or nothing.
LEMMA ActivePubType == ActivePub \in Pub \cup {NoPub}
BY DEF ActivePub

\* A dispatcher's program counters stay in their sets when it moves on.
LEMMA LaneGotoType ==
  ASSUME TypeOK, NEW l \in Lanes, NEW p \in Pub, NEW pc \in LanePc,
         LaneGoto(l, p, pc)
  PROVE  /\ lane' \in [Lanes -> [Pub -> LanePc]]
         /\ pubPc' \in [Pub -> PubPc]
         /\ schedPc' \in SchedPc
         /\ recDb' \in Pub \cup {NoPub}
         /\ recRedis' \in Pub \cup {NoPub}
         /\ schedPc' \in {"dispatching", "repair", "swap", "receipt"} => recDb' \in Pub
BY DEF TypeOK, LaneGoto, schedVars

\* ... and when it returns to its caller.
LEMMA LaneReturnType ==
  ASSUME TypeOK, NEW l \in Lanes, NEW p \in Pub, NEW d \in BOOLEAN,
         LaneReturn(l, p, d)
  PROVE  /\ lane' \in [Lanes -> [Pub -> LanePc]]
         /\ pubPc' \in [Pub -> PubPc]
         /\ schedPc' \in SchedPc
         /\ recDb' \in Pub \cup {NoPub}
         /\ recRedis' \in Pub \cup {NoPub}
         /\ schedPc' \in {"dispatching", "repair", "swap", "receipt"} => recDb' \in Pub
<1>1. lane' \in [Lanes -> [Pub -> LanePc]]
  BY DEF TypeOK, LaneReturn, LanePc
<1>2. CASE l = "publisher"
  BY <1>1, <1>2 DEF TypeOK, LaneReturn, PubGoto, PubPc, schedVars
<1>3. CASE l = "scheduler" /\ schedPc = "sweeping"
  BY <1>1, <1>3 DEF TypeOK, LaneReturn, schedVars
<1>4. CASE l = "scheduler" /\ schedPc = "dispatching"
  BY <1>1, <1>4 DEF TypeOK, LaneReturn, RecReturn, SchedGoto, SchedPc
<1> QED
  BY <1>2, <1>3, <1>4 DEF LaneReturn

\* ... and when it marks its receipt, or finds that it lost it.
LEMMA LaneMarkType ==
  ASSUME TypeOK, NEW l \in Lanes, NEW p \in Pub, NEW status \in Claimables,
         NEW pc \in LanePc, LaneMark(l, p, status, pc)
  PROVE  /\ outbox' \in [Pub -> OutboxStatus]
         /\ lane' \in [Lanes -> [Pub -> LanePc]]
         /\ pubPc' \in [Pub -> PubPc]
         /\ schedPc' \in SchedPc
         /\ recDb' \in Pub \cup {NoPub}
         /\ recRedis' \in Pub \cup {NoPub}
         /\ schedPc' \in {"dispatching", "repair", "swap", "receipt"} => recDb' \in Pub
<1>1. CASE Holds(l, p)
  BY <1>1, LaneGotoType DEF TypeOK, LaneMark, OutboxStatus
<1>2. CASE ~Holds(l, p)
  BY <1>2, LaneReturnType DEF TypeOK, LaneMark
<1> QED
  BY <1>1, <1>2

\* A receipt keeps its type when its dispatcher settles it.
LEMMA SettleType ==
  ASSUME TypeOK, NEW l \in Lanes, NEW p \in Pub,
         NEW status \in {"pending", "delivered", "failed"},
         SettleReceipt(l, p, status)
  PROVE  /\ outbox' \in [Pub -> OutboxStatus]
         /\ owner' \in [Pub -> Lanes \cup {"nobody"}]
         /\ held' \in [Pub -> BOOLEAN]
<1>1. CASE Holds(l, p)
  <2>1. /\ outbox' = [outbox EXCEPT ![p] = status]
        /\ owner' = [owner EXCEPT ![p] = "nobody"]
        /\ held' = [held EXCEPT ![p] = (status = "pending")]
    BY <1>1 DEF SettleReceipt
  <2>2. /\ outbox' \in [Pub -> OutboxStatus]
        /\ owner' \in [Pub -> Lanes \cup {"nobody"}]
    BY <2>1 DEF TypeOK, OutboxStatus, Claimables
  <2>3. held \in [Pub -> BOOLEAN] /\ (status = "pending") \in BOOLEAN
    BY DEF TypeOK
  <2>4. held' \in [Pub -> BOOLEAN]
    BY <2>1, <2>3, Zenon
  <2> QED
    BY <2>2, <2>4
<1>2. CASE ~Holds(l, p)
  BY <1>2 DEF TypeOK, SettleReceipt
<1> QED
  BY <1>1, <1>2

\* The two scripts keep the types of Redis.
LEMMA ScriptType ==
  ASSUME TypeOK, NEW p \in Pub, ActivatePointer(p) \/ SwapPointer(p)
  PROVE  /\ pointer' \in Pub \cup {NoPub}
         /\ beat' \in BOOLEAN
         /\ item' \in [Pub -> {"absent", "expiring", "persistent"}]
         /\ served' \subseteq Pub
BY DEF TypeOK, ActivatePointer, SwapPointer

\* Claiming receipts keeps the types of what it updates.
LEMMA ClaimType ==
  ASSUME TypeOK, NEW l \in Lanes, NEW S \in SUBSET Pub, ClaimReceipts(l, S)
  PROVE  /\ owner' \in [Pub -> Lanes \cup {"nobody"}]
         /\ held' \in [Pub -> BOOLEAN]
         /\ lane' \in [Lanes -> [Pub -> LanePc]]
<1>1. \A p \in Pub : (IF p \in S THEN "stage" ELSE lane[l][p]) \in LanePc
  BY DEF TypeOK, LanePc
<1> QED
  BY <1>1 DEF TypeOK, ClaimReceipts

LEMMA TypeNext == TypeOK /\ [Next]_vars => TypeOK'
<1> SUFFICES ASSUME TypeOK, [Next]_vars PROVE TypeOK'
  OBVIOUS
<1> USE DEF dbVars, redisVars, schedVars, envVars, PubGoto, SchedGoto
<1>1. ASSUME NEW p \in Pub, PubStart(p) PROVE TypeOK'
  BY <1>1 DEF TypeOK, PubStart, PubPc, RunStatus
<1>2. ASSUME NEW p \in Pub, PubFetchFails(p) PROVE TypeOK'
  BY <1>2 DEF TypeOK, PubFetchFails, PubPc, RunStatus
<1>3. ASSUME NEW p \in Pub, PubPersist(p) PROVE TypeOK'
  <2>1. PICK S \in SUBSET (Pub \ {p}) :
          /\ Purge(S)
          /\ row' = [q \in Pub |->
                       IF q = p
                       THEN IF FenceAccepts(p) THEN "staging" ELSE "retired"
                       ELSE IF q \in S THEN "purged" ELSE row[q]]
    BY <1>3 DEF PubPersist
  <2>2. row' \in [Pub -> RowStatus]
    BY <2>1 DEF TypeOK, RowStatus
  <2>3. /\ outbox' \in [Pub -> OutboxStatus]
        /\ owner' \in [Pub -> Lanes \cup {"nobody"}]
        /\ held' \in [Pub -> BOOLEAN]
    BY <2>1 DEF TypeOK, Purge, OutboxStatus
  <2>4. /\ run' \in [Pub -> RunStatus]
        /\ pubPc' \in [Pub -> PubPc]
        /\ fence' \in 0..MaxClock
    BY <1>3 DEF TypeOK, PubPersist, RunStatus, PubPc
  <2> QED
    BY <1>3, <2>2, <2>3, <2>4 DEF TypeOK, PubPersist
<1>4. ASSUME NEW p \in Pub, PubPersistRollsBack(p) PROVE TypeOK'
  BY <1>4 DEF TypeOK, PubPersistRollsBack, PubPc
<1>5. ASSUME NEW p \in Pub, PubStage(p) PROVE TypeOK'
  BY <1>5 DEF TypeOK, PubStage, StageItems, PubPc
<1>6. ASSUME NEW p \in Pub, PubStageFails(p) PROVE TypeOK'
  BY <1>6 DEF TypeOK, PubStageFails, PubPc, RowStatus, RunStatus
<1>7. ASSUME NEW p \in Pub, PubSeasonGone(p) PROVE TypeOK'
  BY <1>7 DEF TypeOK, PubSeasonGone, PubPc, RowStatus, RunStatus
<1>8. ASSUME NEW p \in Pub, PubActivate(p) PROVE TypeOK'
  <2>1. row' \in [Pub -> RowStatus]
    BY <1>8 DEF TypeOK, PubActivate, RowStatus
  <2> QED
    BY <1>8, <2>1 DEF TypeOK, PubActivate, PubPc, RunStatus, OutboxStatus,
                      Claimables
<1>9. ASSUME NEW p \in Pub, PubActivateRefused(p) PROVE TypeOK'
  BY <1>9 DEF TypeOK, PubActivateRefused, PubPc
<1>10. ASSUME NEW p \in Pub, PubDispatch(p) PROVE TypeOK'
  <2>1. CASE Claimable(p)
    <3>1. ClaimReceipts("publisher", {p})
      BY <1>10, <2>1 DEF PubDispatch
    <3> QED
      BY <1>10, <2>1, <3>1, ClaimType DEF TypeOK, PubDispatch, PubPc, Lanes
  <2>2. CASE ~Claimable(p)
    BY <1>10, <2>2 DEF TypeOK, PubDispatch, PubPc
  <2> QED
    BY <2>1, <2>2
<1>11. ASSUME NEW p \in Pub, PubCrash(p) PROVE TypeOK'
  <2>1. lane' \in [Lanes -> [Pub -> LanePc]]
    BY <1>11 DEF TypeOK, PubCrash, LanePc
  <2> QED
    BY <1>11, <2>1 DEF TypeOK, PubCrash, PubPc
<1>12. ASSUME NEW p \in Pub, HoldEnds(p) PROVE TypeOK'
  BY <1>12 DEF TypeOK, HoldEnds
<1>13. ASSUME NEW p \in Pub, ItemsExpire(p) PROVE TypeOK'
  BY <1>13 DEF TypeOK, ItemsExpire
<1>15. ASSUME NEW l \in Lanes, NEW p \in Pub, LaneStage(l, p) PROVE TypeOK'
  <2>1. LaneMark(l, p, "staged", "activate")
    BY <1>15 DEF LaneStage
  <2>2. "staged" \in Claimables /\ "activate" \in LanePc
    BY DEF Claimables, LanePc
  <2>3. /\ outbox' \in [Pub -> OutboxStatus]
        /\ lane' \in [Lanes -> [Pub -> LanePc]]
        /\ pubPc' \in [Pub -> PubPc]
        /\ schedPc' \in SchedPc
        /\ recDb' \in Pub \cup {NoPub}
        /\ recRedis' \in Pub \cup {NoPub}
        /\ schedPc' \in {"dispatching", "repair", "swap", "receipt"} => recDb' \in Pub
    BY <2>1, <2>2, LaneMarkType
  <2> QED
    BY <1>15, <2>1, <2>3 DEF TypeOK, LaneStage, StageItems, LaneMark
<1>16. ASSUME NEW l \in Lanes, NEW p \in Pub, LaneActivate(l, p) PROVE TypeOK'
  <2>1. CASE ActivatePointer(p)
    BY <1>16, <2>1, ScriptType, LaneGotoType DEF TypeOK, LaneActivate, LanePc
  <2>2. CASE UNCHANGED redisVars
    BY <1>16, <2>2, LaneGotoType DEF TypeOK, LaneActivate, LanePc
  <2> QED
    BY <1>16, <2>1, <2>2 DEF LaneActivate
<1>17. ASSUME NEW l \in Lanes, NEW p \in Pub, LaneSuperseded(l, p) PROVE TypeOK'
  BY <1>17, LaneGotoType DEF TypeOK, LaneSuperseded, LanePc
<1>18. ASSUME NEW l \in Lanes, NEW p \in Pub, LaneRefused(l, p) PROVE TypeOK'
  BY <1>18, LaneReturnType, SettleType DEF TypeOK, LaneRefused, LaneRelease
<1>19. ASSUME NEW l \in Lanes, NEW p \in Pub, LaneAck(l, p) PROVE TypeOK'
  <2>1. LaneMark(l, p, "redis_activated", "deliver")
    BY <1>19 DEF LaneAck
  <2>2. "redis_activated" \in Claimables /\ "deliver" \in LanePc
    BY DEF Claimables, LanePc
  <2>3. /\ outbox' \in [Pub -> OutboxStatus]
        /\ lane' \in [Lanes -> [Pub -> LanePc]]
        /\ pubPc' \in [Pub -> PubPc]
        /\ schedPc' \in SchedPc
        /\ recDb' \in Pub \cup {NoPub}
        /\ recRedis' \in Pub \cup {NoPub}
        /\ schedPc' \in {"dispatching", "repair", "swap", "receipt"} => recDb' \in Pub
    BY <2>1, <2>2, LaneMarkType
  <2> QED
    BY <1>19, <2>1, <2>3 DEF TypeOK, LaneAck, LaneMark
<1>20. ASSUME NEW l \in Lanes, NEW p \in Pub, LaneDeliver(l, p) PROVE TypeOK'
  <2>1. run' \in [Pub -> RunStatus]
    BY <1>20 DEF TypeOK, LaneDeliver, CloseRun, RunStatus
  <2>2. Holds(l, p) \in BOOLEAN
    BY DEF Holds
  <2> QED
    BY <1>20, <2>1, <2>2, LaneReturnType, SettleType DEF TypeOK, LaneDeliver
<1>21. ASSUME NEW l \in Lanes, NEW p \in Pub, LaneFail(l, p) PROVE TypeOK'
  BY <1>21, LaneReturnType, SettleType DEF TypeOK, LaneFail
<1>22. ASSUME NEW l \in Lanes, NEW p \in Pub, LaneError(l, p) PROVE TypeOK'
  <2>1. SettleReceipt(l, p, "pending") /\ LaneReturn(l, p, FALSE)
    BY <1>22 DEF LaneError, LaneRelease
  <2>2. faults' \in 0..MaxFaults
    BY <1>22 DEF TypeOK, LaneError
  <2> QED
    BY <1>22, <2>1, <2>2, LaneReturnType, SettleType
    DEF TypeOK, LaneError, LaneRelease
<1>23. CASE RecReadDb
  BY <1>23, ActivePubType DEF TypeOK, RecReadDb, SchedPc
<1>24. CASE RecReadRedis
  BY <1>24 DEF TypeOK, RecReadRedis, SchedPc
<1>25. CASE RecMatched
  BY <1>25 DEF TypeOK, RecMatched, RecReturn, SchedPc
<1>26. CASE RecDispatch
  <2>1. CASE Claimable(recDb)
    <3>1. ClaimReceipts("scheduler", {recDb})
      BY <1>26, <2>1 DEF RecDispatch
    <3> QED
      BY <1>26, <2>1, <3>1, ClaimType DEF TypeOK, RecDispatch, SchedPc, Lanes
  <2>2. CASE ~Claimable(recDb)
    BY <1>26, <2>2 DEF TypeOK, RecDispatch, SchedPc
  <2> QED
    BY <2>1, <2>2
<1>27. CASE RecStage
  BY <1>27 DEF TypeOK, RecStage, StageItems, SchedPc
<1>28. CASE RecActivate
  BY <1>28, ScriptType DEF TypeOK, RecActivate, SchedPc
<1>29. CASE RecSwap
  BY <1>29, ScriptType DEF TypeOK, RecSwap, SchedPc
<1>30. CASE RecNotSwapped
  BY <1>30 DEF TypeOK, RecNotSwapped, RecReturn, SchedPc
<1>31. CASE RecReceipt
  BY <1>31 DEF TypeOK, RecReceipt, RecReturn, CloseRun, SchedPc, RunStatus,
               OutboxStatus
<1>32. CASE Sweep
  BY <1>32, ClaimType DEF TypeOK, Sweep, SchedPc, Lanes
<1>33. CASE PassEnds
  BY <1>33 DEF TypeOK, PassEnds, SchedPc
<1>34. CASE RecError
  BY <1>34 DEF TypeOK, RecError, RecReturn, SchedPc
<1>35. CASE SchedCrash
  <2>1. lane' \in [Lanes -> [Pub -> LanePc]]
    BY <1>35 DEF TypeOK, SchedCrash, LanePc
  <2> QED
    BY <1>35, <2>1 DEF TypeOK, SchedCrash, SchedPc
<1>36. CASE Tick
  BY <1>36 DEF TypeOK, Tick
<1>37. CASE Heartbeat
  BY <1>37 DEF TypeOK, Heartbeat
<1>38. CASE RedisLost
  <2>1. beat' \in BOOLEAN
    BY <1>38, Zenon DEF RedisLost
  <2>2. faults' \in 0..MaxFaults
    BY <1>38 DEF TypeOK, RedisLost
  <2> QED
    BY <1>38, <2>1, <2>2 DEF TypeOK, RedisLost
<1>39. CASE SeasonRolls
  <2>1. seasonCurrent' \in BOOLEAN
    BY <1>39, Zenon DEF SeasonRolls
  <2>2. faults' \in 0..MaxFaults
    BY <1>39 DEF TypeOK, SeasonRolls
  <2> QED
    BY <1>39, <2>1, <2>2 DEF TypeOK, SeasonRolls
<1>40. CASE UNCHANGED vars
  BY <1>40 DEF TypeOK, vars
<1> QED
  BY <1>1, <1>2, <1>3, <1>4, <1>5, <1>6, <1>7, <1>8, <1>9, <1>10, <1>11, <1>12,
     <1>13, <1>15, <1>16, <1>17, <1>18, <1>19, <1>20, <1>21, <1>22, <1>23,
     <1>24, <1>25, <1>26, <1>27, <1>28, <1>29, <1>30, <1>31, <1>32, <1>33,
     <1>34, <1>35, <1>36, <1>37, <1>38, <1>39, <1>40
     DEF Next, PubStep, LaneStep, SchedStep

LEMMA TypeInit == Init => TypeOK
<1> SUFFICES ASSUME Init PROVE TypeOK
  OBVIOUS
<1>1. seasonCurrent \in BOOLEAN /\ beat \in BOOLEAN
  BY Zenon DEF Init
<1>2. held \in [Pub -> BOOLEAN]
  BY Zenon DEF Init
<1> QED
  BY <1>1, <1>2
  DEF Init, TypeOK, RowStatus, RunStatus, OutboxStatus, PubPc, LanePc, SchedPc

\* Every variable of the publication protocol keeps its type.
THEOREM TypeCorrect == Spec => []TypeOK
BY TypeInit, TypeNext, PTL DEF Spec

(***************************************************************************)
(* The inductive invariant.                                                *)
(***************************************************************************)

\* A publisher and its row move together: no row before the transaction, a
\* staging row with the marker until the activation, and a full manifest in
\* whatever was ever active.
RowOf(p) ==
    /\ pubPc[p] \in {"idle", "fetching"} => row[p] = "absent" /\ manifest[p] = "none"
    /\ pubPc[p] \in {"persisted", "staged"}
          => row[p] = "staging" /\ manifest[p] = "marker"
    /\ row[p] = "active" => manifest[p] = "full"

\* A scope that ever had a canonical publication still has one.
HasActive ==
    (\E p \in Pub : manifest[p] = "full") => \E a \in Pub : row[a] = "active"

Rows == (\A p \in Pub : RowOf(p)) /\ HasActive /\ LatestActive

\* Receipts, dispatchers and Redis know only activated publications, and a
\* dispatcher past the activation has seen the pointer name its own.
DeliveryOf(p) ==
    /\ manifest[p] # "full" => /\ outbox[p] = "none"
                               /\ p \notin served
                               /\ \A l \in Lanes : lane[l][p] = "idle"
    /\ \A l \in Lanes : lane[l][p] \in {"ack", "deliver"} => p \in served
    /\ outbox[p] = "delivered" => p \in served
    /\ run[p] = "published" => outbox[p] \in {"delivered", "none"} /\ p \in served

\* The pass repairs towards an activated publication and closes its receipt
\* only once the pointer has named it.
Pass ==
    /\ recDb # NoPub => manifest[recDb] = "full"
    /\ schedPc = "receipt" => recDb \in served

PointerServed == pointer # NoPub => pointer \in served

Delivery ==
    (\A p \in Pub : DeliveryOf(p)) /\ Pass /\ PointerServed /\ PointerServable

IInv == TypeOK /\ Rows /\ Delivery

(***************************************************************************)
(* Rows is inductive: publishers alone write rows.                         *)
(***************************************************************************)

\* Steps that write no row preserve Rows if publishers move only forward.
LEMMA RowsFrame ==
  ASSUME Rows, row' = row, manifest' = manifest, rev' = rev,
         \A q \in Pub : \/ pubPc'[q] = pubPc[q]
                        \/ pubPc'[q] \in {"done", "failed", "committed", "dispatching"}
                        \/ pubPc[q] = "idle" /\ pubPc'[q] = "fetching"
                        \/ pubPc[q] = "persisted" /\ pubPc'[q] = "staged"
  PROVE  Rows'
<1>1. \A q \in Pub : RowOf(q)'
  BY DEF Rows, RowOf
<1>2. HasActive' /\ LatestActive'
  BY DEF Rows, HasActive, LatestActive
<1> QED
  BY <1>1, <1>2 DEF Rows

\* Whatever a dispatcher does, its publisher only ends.
LEMMA LaneReturnPub ==
  ASSUME TypeOK, NEW l \in Lanes, NEW p \in Pub, NEW d \in BOOLEAN,
         LaneReturn(l, p, d)
  PROVE  \A q \in Pub : pubPc'[q] = pubPc[q] \/ pubPc'[q] \in {"done", "failed"}
BY DEF TypeOK, LaneReturn, PubGoto, PubPc

LEMMA RowsNext == TypeOK /\ Rows /\ [Next]_vars => Rows'
<1> SUFFICES ASSUME TypeOK, Rows, [Next]_vars PROVE Rows'
  OBVIOUS
<1> USE DEF dbVars, redisVars, schedVars, envVars, PubGoto, SchedGoto
<1>1. ASSUME NEW p \in Pub, PubStart(p) PROVE Rows'
  BY <1>1, RowsFrame DEF TypeOK, PubStart
<1>2. ASSUME NEW p \in Pub, PubFetchFails(p) PROVE Rows'
  BY <1>2, RowsFrame DEF TypeOK, PubFetchFails
<1>3. ASSUME NEW p \in Pub, PubPersist(p) PROVE Rows'
  <2>1. PICK S \in SUBSET (Pub \ {p}) :
          /\ Purge(S)
          /\ row' = [q \in Pub |->
                       IF q = p
                       THEN IF FenceAccepts(p) THEN "staging" ELSE "retired"
                       ELSE IF q \in S THEN "purged" ELSE row[q]]
    BY <1>3 DEF PubPersist
  <2>2. manifest[p] = "none" /\ row[p] = "absent"
    BY <1>3 DEF Rows, RowOf, PubPersist
  <2>3. \A q \in Pub \ {p} : /\ manifest'[q] = manifest[q]
                             /\ rev'[q] = rev[q]
                             /\ pubPc'[q] = pubPc[q]
    BY <1>3 DEF TypeOK, PubPersist
  <2>4. manifest'[p] = "marker" /\ row'[p] \in {"staging", "retired"}
    BY <1>3, <2>1 DEF TypeOK, PubPersist
  <2>5. \A q \in S : row[q] \in {"retired", "failed"} /\ row'[q] = "purged"
    BY <2>1 DEF Purge
  <2>6. \A q \in Pub : q # p /\ q \notin S => row'[q] = row[q]
    BY <2>1
  <2>7. \A q \in Pub \ {p} : (row'[q] = "active") <=> (row[q] = "active")
    BY <2>5, <2>6
  <2>8. RowOf(p)'
    <3>1. CASE FenceAccepts(p)
      BY <1>3, <2>1, <2>4, <3>1 DEF TypeOK, RowOf, PubPersist
    <3>2. CASE ~FenceAccepts(p)
      BY <1>3, <2>1, <2>4, <3>2 DEF TypeOK, RowOf, PubPersist
    <3> QED
      BY <3>1, <3>2
  <2>9. ASSUME NEW q \in Pub \ {p} PROVE RowOf(q)'
    BY <2>3, <2>5, <2>6, <2>9 DEF Rows, RowOf
  <2>10. HasActive'
    BY <2>2, <2>3, <2>4, <2>7 DEF Rows, HasActive
  <2>11. LatestActive'
    BY <2>3, <2>4, <2>7 DEF Rows, LatestActive
  <2> QED
    BY <2>8, <2>9, <2>10, <2>11 DEF Rows
<1>4. ASSUME NEW p \in Pub, PubPersistRollsBack(p) PROVE Rows'
  BY <1>4, RowsFrame DEF TypeOK, PubPersistRollsBack
<1>5. ASSUME NEW p \in Pub, PubStage(p) PROVE Rows'
  BY <1>5, RowsFrame DEF TypeOK, PubStage
<1>6. ASSUME NEW p \in Pub, row[p] = "staging", row'[p] # "active",
             pubPc'[p] \in {"done", "failed"},
             \A q \in Pub \ {p} : row'[q] = row[q] /\ pubPc'[q] = pubPc[q],
             manifest' = manifest, rev' = rev
      PROVE  Rows'
  <2>1. \A q \in Pub : (row'[q] = "active") <=> (row[q] = "active")
    BY <1>6
  <2>2. \A q \in Pub : RowOf(q)'
    BY <1>6, <2>1 DEF Rows, RowOf
  <2>3. HasActive' /\ LatestActive'
    BY <1>6, <2>1 DEF Rows, HasActive, LatestActive
  <2> QED
    BY <2>2, <2>3 DEF Rows
<1>7. ASSUME NEW p \in Pub, PubStageFails(p) PROVE Rows'
  <2>1. row[p] = "staging"
    BY <1>7 DEF Rows, RowOf, PubStageFails
  <2>2. CASE Dataset = "live"
    BY <1>6, <1>7, <2>1, <2>2 DEF TypeOK, PubStageFails
  <2>3. CASE Dataset # "live"
    BY <1>7, <2>3, RowsFrame DEF TypeOK, PubStageFails
  <2> QED
    BY <2>2, <2>3
<1>8. ASSUME NEW p \in Pub, PubSeasonGone(p) PROVE Rows'
  <2>1. row[p] = "staging"
    BY <1>8 DEF Rows, RowOf, PubSeasonGone
  <2> QED
    BY <1>6, <1>8, <2>1 DEF TypeOK, PubSeasonGone
<1>9. ASSUME NEW p \in Pub, PubActivate(p) PROVE Rows'
  <2>1. row[p] = "staging" /\ manifest[p] = "marker"
    BY <1>9 DEF Rows, RowOf, PubActivate
  <2>2. /\ row'[p] = "active" /\ manifest'[p] = "full"
        /\ pubPc'[p] = "committed" /\ rev' = rev
    BY <1>9 DEF TypeOK, PubActivate
  <2>3. ASSUME NEW q \in Pub, q # p
        PROVE  /\ row'[q] # "active"
               /\ row[q] # "active" => row'[q] = row[q]
               /\ manifest'[q] = manifest[q] /\ pubPc'[q] = pubPc[q]
    BY <1>9, <2>3 DEF TypeOK, PubActivate
  <2>4. ASSUME NEW q \in Pub PROVE RowOf(q)'
    <3>1. CASE q = p
      BY <2>2, <3>1 DEF RowOf
    <3>2. CASE q # p
      <4>1. RowOf(q)
        BY DEF Rows
      <4> QED
        BY <2>3, <3>2, <4>1 DEF RowOf
    <3> QED
      BY <3>1, <3>2
  <2>5. HasActive'
    BY <2>2 DEF HasActive
  <2>6. ASSUME NEW q \in Pub, q # p, manifest[q] = "full" PROVE rev[q] < rev[p]
    <3>1. PICK a \in Pub : row[a] = "active"
      BY <2>6 DEF Rows, HasActive
    <3>2. a # p /\ rev[a] < rev[p]
      BY <1>9, <2>1, <3>1 DEF TypeOK, PubActivate, NewerActive
    <3>3. q = a \/ rev[q] < rev[a]
      BY <2>6, <3>1 DEF Rows, LatestActive
    <3> QED
      BY <3>2, <3>3 DEF TypeOK
  <2>7. LatestActive'
    <3> SUFFICES ASSUME NEW a \in Pub, NEW q \in Pub, row'[a] = "active",
                        manifest'[q] = "full", a # q
                 PROVE  row'[q] # "active" /\ rev'[q] < rev'[a]
      BY DEF LatestActive
    <3>1. a = p
      BY <2>3
    <3>2. manifest[q] = "full" /\ row'[q] # "active"
      BY <2>3, <3>1
    <3> QED
      BY <2>2, <2>6, <3>1, <3>2
  <2> QED
    BY <2>4, <2>5, <2>7 DEF Rows
<1>10. ASSUME NEW p \in Pub, PubActivateRefused(p) PROVE Rows'
  BY <1>10, RowsFrame DEF TypeOK, PubActivateRefused
<1>11. ASSUME NEW p \in Pub, PubDispatch(p) PROVE Rows'
  BY <1>11, RowsFrame DEF TypeOK, PubDispatch
<1>12. ASSUME NEW p \in Pub, PubCrash(p) PROVE Rows'
  BY <1>12, RowsFrame DEF TypeOK, PubCrash
<1>13. ASSUME NEW p \in Pub, HoldEnds(p) \/ ItemsExpire(p) PROVE Rows'
  BY <1>13, RowsFrame DEF TypeOK, HoldEnds, ItemsExpire
<1>14. ASSUME NEW l \in Lanes, NEW p \in Pub, LaneStep(l, p) \/ LaneError(l, p)
       PROVE  Rows'
  <2>1. row' = row /\ manifest' = manifest /\ rev' = rev
    BY <1>14 DEF LaneStep, LaneError, LaneStage, LaneActivate, LaneSuperseded,
                 LaneRefused, LaneAck, LaneDeliver, LaneFail, LaneRelease, LaneMark
  <2>2. \/ pubPc' = pubPc
        \/ \E d \in BOOLEAN : LaneReturn(l, p, d)
    BY <1>14 DEF LaneStep, LaneError, LaneStage, LaneActivate, LaneSuperseded,
                 LaneRefused, LaneAck, LaneDeliver, LaneFail, LaneRelease,
                 LaneMark, LaneGoto, Holds
  <2> QED
    BY <2>1, <2>2, LaneReturnPub, RowsFrame
<1>15. CASE SchedStep \/ RecError \/ SchedCrash
  <2>1. row' = row /\ manifest' = manifest /\ rev' = rev /\ pubPc' = pubPc
    BY <1>15 DEF SchedStep, RecError, SchedCrash, RecReadDb, RecReadRedis,
                 RecMatched, RecDispatch, RecStage, RecActivate, RecSwap,
                 RecNotSwapped, RecReceipt, Sweep, PassEnds
  <2> QED
    BY <2>1, RowsFrame
<1>16. CASE Tick \/ Heartbeat \/ RedisLost \/ SeasonRolls
  BY <1>16, RowsFrame DEF Tick, Heartbeat, RedisLost, SeasonRolls
<1>17. CASE UNCHANGED vars
  BY <1>17, RowsFrame DEF vars
<1> QED
  BY <1>1, <1>2, <1>3, <1>4, <1>5, <1>7, <1>8, <1>9, <1>10, <1>11, <1>12, <1>13,
     <1>14, <1>15, <1>16, <1>17 DEF Next, PubStep

(***************************************************************************)
(* Delivery is inductive.                                                  *)
(***************************************************************************)

\* Receipts, dispatchers and runs that only end, and a history that only
\* grows, preserve DeliveryOf.
LEMMA DeliveryOfFrame ==
  ASSUME NEW q \in Pub, DeliveryOf(q),
         manifest[q] = "full" => manifest'[q] = "full",
         outbox'[q] = outbox[q] \/ outbox'[q] = "none",
         q \in served' <=> q \in served,
         \A l \in Lanes : lane'[l][q] = lane[l][q] \/ lane'[l][q] = "idle",
         run'[q] = "published" => run[q] = "published"
  PROVE  DeliveryOf(q)'
BY DEF DeliveryOf

\* Redis is not touched.
LEMMA RedisFrame ==
  ASSUME Delivery, UNCHANGED <<pointer, item, served>>
  PROVE  PointerServed' /\ PointerServable'
BY DEF Delivery, PointerServed, PointerServable

\* Staging items preserves what the pointer needs.
LEMMA StageFrame ==
  ASSUME TypeOK, Delivery, NEW p \in Pub, StageItems(p), UNCHANGED <<pointer, served>>
  PROVE  PointerServed' /\ PointerServable'
BY DEF TypeOK, Delivery, PointerServed, PointerServable, StageItems

\* The two scripts make the pointer servable and record it as served.
LEMMA ScriptFrame ==
  ASSUME TypeOK, NEW p \in Pub, ActivatePointer(p) \/ SwapPointer(p)
  PROVE  PointerServed' /\ PointerServable' /\ p \in served'
BY DEF TypeOK, PointerServed, PointerServable, ActivatePointer, SwapPointer

\* A pass that stays where it is, or ends, stays right.
LEMMA PassFrame ==
  ASSUME TypeOK, Pass,
         \A q \in Pub : manifest[q] = "full" => manifest'[q] = "full",
         served \subseteq served',
         \/ UNCHANGED <<schedPc, recDb>>
         \/ schedPc' # "receipt" /\ (recDb' = recDb \/ recDb' = NoPub)
  PROVE  Pass'
BY DEF TypeOK, Pass

\* A returning dispatcher leaves its own lane idle, the others alone, and the
\* pass where it was, ended or repairing.
LEMMA LaneReturnFrame ==
  ASSUME TypeOK, NEW l \in Lanes, NEW p \in Pub, NEW d \in BOOLEAN,
         LaneReturn(l, p, d)
  PROVE  /\ lane'[l][p] = "idle"
         /\ \A k \in Lanes, q \in Pub : lane'[k][q] = lane[k][q] \/ lane'[k][q] = "idle"
         /\ \/ UNCHANGED <<schedPc, recDb>>
            \/ schedPc' # "receipt" /\ (recDb' = recDb \/ recDb' = NoPub)
<1>1. /\ lane'[l][p] = "idle"
      /\ \A k \in Lanes, q \in Pub : lane'[k][q] = lane[k][q] \/ lane'[k][q] = "idle"
  BY DEF TypeOK, LaneReturn
<1> QED
  BY <1>1 DEF LaneReturn, RecReturn, SchedGoto, schedVars

\* Claimed receipts belong to activated publications.
LEMMA ClaimFrame ==
  ASSUME TypeOK, Delivery, NEW l \in Lanes, NEW S \in SUBSET Pub,
         \A q \in S : Claimable(q), ClaimReceipts(l, S),
         UNCHANGED <<manifest, outbox, served, run>>
  PROVE  \A q \in Pub : DeliveryOf(q)'
<1> SUFFICES ASSUME NEW q \in Pub PROVE DeliveryOf(q)'
  OBVIOUS
<1>1. \A k \in Lanes : lane'[k][q] = lane[k][q] \/ (q \in S /\ lane'[k][q] = "stage")
  BY DEF TypeOK, ClaimReceipts
<1>2. q \in S => manifest[q] = "full"
  BY DEF Delivery, DeliveryOf, Claimable, Claimables
<1> QED
  BY <1>1, <1>2 DEF Delivery, DeliveryOf

LEMMA DeliveryNext == TypeOK /\ Rows /\ Delivery /\ [Next]_vars => Delivery'
<1> SUFFICES ASSUME TypeOK, Rows, Delivery, [Next]_vars PROVE Delivery'
  OBVIOUS
<1> USE DEF dbVars, redisVars, schedVars, envVars, PubGoto, SchedGoto
<1>0. Pass /\ \A q \in Pub : DeliveryOf(q)
  BY DEF Delivery
<1>1. ASSUME NEW p \in Pub, PubStart(p) \/ PubFetchFails(p)
      PROVE  Delivery'
  <2>1. ASSUME NEW q \in Pub PROVE DeliveryOf(q)'
    BY <1>0, <1>1, DeliveryOfFrame DEF TypeOK, PubStart, PubFetchFails
  <2> QED
    BY <1>0, <1>1, <2>1, RedisFrame, PassFrame
    DEF Delivery, PubStart, PubFetchFails
<1>2. ASSUME NEW p \in Pub, PubPersist(p) PROVE Delivery'
  <2>1. manifest[p] # "full"
    BY <1>2 DEF Rows, RowOf, PubPersist
  <2>2. \A q \in Pub : manifest[q] = "full" => manifest'[q] = "full"
    BY <1>2, <2>1 DEF TypeOK, PubPersist
  <2>3. ASSUME NEW q \in Pub PROVE DeliveryOf(q)'
    <3>1. outbox'[q] = outbox[q] \/ outbox'[q] = "none"
      BY <1>2 DEF PubPersist, Purge
    <3>2. run'[q] = "published" => run[q] = "published"
      BY <1>2 DEF TypeOK, PubPersist
    <3> QED
      BY <1>0, <1>2, <2>2, <3>1, <3>2, DeliveryOfFrame DEF PubPersist
  <2> QED
    BY <1>0, <1>2, <2>2, <2>3, RedisFrame, PassFrame DEF Delivery, PubPersist
<1>3. ASSUME NEW p \in Pub, PubPersistRollsBack(p) \/ PubActivateRefused(p) \/ HoldEnds(p)
      PROVE  Delivery'
  <2>1. ASSUME NEW q \in Pub PROVE DeliveryOf(q)'
    BY <1>0, <1>3, DeliveryOfFrame
    DEF PubPersistRollsBack, PubActivateRefused, HoldEnds
  <2> QED
    BY <1>0, <1>3, <2>1, RedisFrame, PassFrame
    DEF Delivery, PubPersistRollsBack, PubActivateRefused, HoldEnds
<1>4. ASSUME NEW p \in Pub, PubStage(p) PROVE Delivery'
  <2>1. ASSUME NEW q \in Pub PROVE DeliveryOf(q)'
    BY <1>0, <1>4, DeliveryOfFrame DEF PubStage
  <2> QED
    BY <1>0, <1>4, <2>1, StageFrame, PassFrame DEF Delivery, PubStage
<1>5. ASSUME NEW p \in Pub, PubStageFails(p) \/ PubSeasonGone(p) PROVE Delivery'
  <2>1. ASSUME NEW q \in Pub PROVE DeliveryOf(q)'
    BY <1>0, <1>5, DeliveryOfFrame DEF TypeOK, PubStageFails, PubSeasonGone
  <2> QED
    BY <1>0, <1>5, <2>1, RedisFrame, PassFrame
    DEF Delivery, PubStageFails, PubSeasonGone
<1>6. ASSUME NEW p \in Pub, PubActivate(p) PROVE Delivery'
  <2>1. \A q \in Pub : manifest[q] = "full" => manifest'[q] = "full"
    BY <1>6 DEF TypeOK, PubActivate
  <2>2. DeliveryOf(p)'
    <3>1. manifest'[p] = "full" /\ outbox'[p] = "db_activated" /\ run'[p] = "ready_to_publish"
      BY <1>6 DEF TypeOK, PubActivate
    <3> QED
      BY <1>0, <1>6, <3>1 DEF DeliveryOf, PubActivate
  <2>3. ASSUME NEW q \in Pub, q # p PROVE DeliveryOf(q)'
    BY <1>0, <1>6, <2>1, <2>3, DeliveryOfFrame DEF TypeOK, PubActivate
  <2> QED
    BY <1>0, <1>6, <2>1, <2>2, <2>3, RedisFrame, PassFrame DEF Delivery, PubActivate
<1>7. ASSUME NEW p \in Pub, PubDispatch(p) PROVE Delivery'
  <2>1. ASSUME NEW q \in Pub PROVE DeliveryOf(q)'
    <3>1. CASE Claimable(p)
      BY <1>7, <3>1, ClaimFrame DEF PubDispatch, Lanes
    <3>2. CASE ~Claimable(p)
      BY <1>0, <1>7, <3>2, DeliveryOfFrame DEF PubDispatch
    <3> QED
      BY <3>1, <3>2
  <2> QED
    BY <1>0, <1>7, <2>1, RedisFrame, PassFrame DEF Delivery, PubDispatch
<1>8. ASSUME NEW p \in Pub, PubCrash(p) PROVE Delivery'
  <2>1. ASSUME NEW q \in Pub PROVE DeliveryOf(q)'
    BY <1>0, <1>8, DeliveryOfFrame DEF TypeOK, PubCrash
  <2> QED
    BY <1>0, <1>8, <2>1, RedisFrame, PassFrame DEF Delivery, PubCrash
<1>9. ASSUME NEW p \in Pub, ItemsExpire(p) PROVE Delivery'
  <2>1. ASSUME NEW q \in Pub PROVE DeliveryOf(q)'
    BY <1>0, <1>9, DeliveryOfFrame DEF ItemsExpire
  <2>2. PointerServed' /\ PointerServable'
    BY <1>9 DEF TypeOK, Delivery, PointerServed, PointerServable, ItemsExpire
  <2> QED
    BY <1>0, <1>9, <2>1, <2>2, PassFrame DEF Delivery, ItemsExpire
<1>10. ASSUME NEW l \in Lanes, NEW p \in Pub, lane[l][p] # "idle"
       PROVE  manifest[p] = "full"
  BY <1>0, <1>10 DEF DeliveryOf
<1>11. ASSUME NEW l \in Lanes, NEW p \in Pub, lane[l][p] # "idle",
              NEW status \in {"pending", "staged", "redis_activated", "delivered", "failed"},
              status = "delivered" => p \in served,
              IF Holds(l, p) THEN outbox' = [outbox EXCEPT ![p] = status]
                             ELSE outbox' = outbox,
              NEW pc \in {"idle", "activate", "deliver"},
              pc = "deliver" => p \in served,
              \A k \in Lanes, q \in Pub :
                 \/ lane'[k][q] = lane[k][q] \/ lane'[k][q] = "idle"
                 \/ k = l /\ q = p /\ lane'[k][q] = pc,
              run' = run, UNCHANGED <<manifest, served>>
       PROVE  \A q \in Pub : DeliveryOf(q)'
  <2> SUFFICES ASSUME NEW q \in Pub PROVE DeliveryOf(q)'
    OBVIOUS
  <2>1. CASE q # p
    <3>1. outbox'[q] = outbox[q]
      BY <1>11, <2>1 DEF TypeOK
    <3> QED
      BY <1>0, <1>11, <2>1, <3>1, DeliveryOfFrame
  <2>2. CASE q = p
    <3>1. manifest[p] = "full"
      BY <1>10, <1>11
    <3>2. \/ outbox'[p] = outbox[p]
          \/ outbox'[p] = status /\ outbox[p] \in Claimables \cup {"failed"}
      BY <1>11 DEF TypeOK, Holds
    <3>3. \A k \in Lanes : lane'[k][p] \in {"ack", "deliver"} => p \in served
      BY <1>0, <1>11 DEF DeliveryOf
    <3> QED
      BY <1>0, <1>11, <2>2, <3>1, <3>2, <3>3 DEF DeliveryOf, Claimables
  <2> QED
    BY <2>1, <2>2
<1>12. ASSUME NEW l \in Lanes, NEW p \in Pub, LaneStage(l, p) PROVE Delivery'
  <2>1. CASE Holds(l, p)
    <3>1. \A k \in Lanes, q \in Pub : \/ lane'[k][q] = lane[k][q]
                                      \/ k = l /\ q = p /\ lane'[k][q] = "activate"
      BY <1>12, <2>1 DEF TypeOK, LaneStage, LaneMark, LaneGoto
    <3>2. \A q \in Pub : DeliveryOf(q)'
      BY <1>11, <1>12, <2>1, <3>1 DEF LaneStage, LaneMark
    <3> QED
      BY <1>0, <1>12, <2>1, <3>2, StageFrame, PassFrame
      DEF Delivery, LaneStage, LaneMark, LaneGoto
  <2>2. CASE ~Holds(l, p)
    <3>1. LaneReturn(l, p, FALSE) /\ outbox' = outbox
      BY <1>12, <2>2 DEF LaneStage, LaneMark
    <3>2. ASSUME NEW q \in Pub PROVE DeliveryOf(q)'
      BY <1>0, <1>12, <3>1, LaneReturnFrame, DeliveryOfFrame DEF LaneStage, LaneMark
    <3>3. Pass'
      BY <1>0, <1>12, <3>1, LaneReturnFrame, PassFrame DEF LaneStage, LaneMark
    <3> QED
      BY <1>12, <3>2, <3>3, StageFrame DEF Delivery, LaneStage
  <2> QED
    BY <2>1, <2>2
<1>13. ASSUME NEW l \in Lanes, NEW p \in Pub, LaneActivate(l, p) PROVE Delivery'
  <2>1. manifest[p] = "full"
    BY <1>10, <1>13 DEF LaneActivate
  <2>2. /\ p \in served' /\ served' = served \cup {p}
        /\ PointerServed' /\ PointerServable'
    <3>1. CASE ActivatePointer(p)
      BY <3>1, ScriptFrame DEF ActivatePointer
    <3>2. CASE Idempotent(p) /\ UNCHANGED redisVars
      BY <3>2, RedisFrame DEF Delivery, PointerServed, Idempotent
    <3> QED
      BY <1>13, <3>1, <3>2 DEF LaneActivate
  <2>3. \A k \in Lanes, q \in Pub : \/ lane'[k][q] = lane[k][q]
                                    \/ k = l /\ q = p /\ lane'[k][q] = "ack"
    BY <1>13 DEF TypeOK, LaneActivate, LaneGoto
  <2>4. ASSUME NEW q \in Pub PROVE DeliveryOf(q)'
    <3>1. CASE q # p
      BY <1>0, <1>13, <2>2, <2>3, <3>1, DeliveryOfFrame DEF LaneActivate
    <3>2. CASE q = p
      BY <1>0, <1>13, <2>1, <2>2, <3>2 DEF DeliveryOf, LaneActivate
    <3> QED
      BY <3>1, <3>2
  <2> QED
    BY <1>0, <1>13, <2>2, <2>4, PassFrame DEF Delivery, LaneActivate, LaneGoto
<1>14. ASSUME NEW l \in Lanes, NEW p \in Pub, LaneSuperseded(l, p) PROVE Delivery'
  <2>1. manifest[p] = "full"
    BY <1>10, <1>14 DEF LaneSuperseded
  <2>2. \A k \in Lanes, q \in Pub : \/ lane'[k][q] = lane[k][q]
                                    \/ k = l /\ q = p /\ lane'[k][q] = "fail"
    BY <1>14 DEF TypeOK, LaneSuperseded, LaneGoto
  <2>3. ASSUME NEW q \in Pub PROVE DeliveryOf(q)'
    BY <1>0, <1>14, <2>1, <2>2 DEF DeliveryOf, LaneSuperseded
  <2> QED
    BY <1>0, <1>14, <2>3, RedisFrame, PassFrame DEF Delivery, LaneSuperseded, LaneGoto
<1>15. ASSUME NEW l \in Lanes, NEW p \in Pub, lane[l][p] # "idle",
              NEW status \in {"pending", "failed"},
              SettleReceipt(l, p, status), LaneReturn(l, p, FALSE),
              UNCHANGED <<manifest, run, redisVars>>
       PROVE  Delivery'
  <2>1. \A q \in Pub : DeliveryOf(q)'
    <3>1. \A k \in Lanes, q \in Pub : lane'[k][q] = lane[k][q] \/ lane'[k][q] = "idle"
      BY <1>15, LaneReturnFrame
    <3>2. IF Holds(l, p) THEN outbox' = [outbox EXCEPT ![p] = status]
                         ELSE outbox' = outbox
      BY <1>15 DEF SettleReceipt
    <3>3. status \in {"pending", "staged", "redis_activated", "delivered", "failed"}
      OBVIOUS
    <3>4. \A k \in Lanes, q \in Pub : \/ lane'[k][q] = lane[k][q] \/ lane'[k][q] = "idle"
                                      \/ k = l /\ q = p /\ lane'[k][q] = "idle"
      BY <3>1
    <3>5. /\ status # "delivered" /\ "idle" \in {"idle", "activate", "deliver"}
          /\ run' = run /\ UNCHANGED <<manifest, served>>
      BY <1>15
    <3> QED
      BY <1>11, <1>15, <3>2, <3>3, <3>4, <3>5
  <2>2. Pass'
    BY <1>0, <1>15, LaneReturnFrame, PassFrame
  <2> QED
    BY <1>15, <2>1, <2>2, RedisFrame DEF Delivery
<1>16. ASSUME NEW l \in Lanes, NEW p \in Pub, LaneRefused(l, p) PROVE Delivery'
  BY <1>15, <1>16 DEF LaneRefused, LaneRelease
<1>17. ASSUME NEW l \in Lanes, NEW p \in Pub, LaneError(l, p) PROVE Delivery'
  <2>1. lane[l][p] # "idle"
    BY <1>17 DEF LaneError
  <2> QED
    BY <1>15, <1>17, <2>1 DEF LaneError, LaneRelease
<1>18. ASSUME NEW l \in Lanes, NEW p \in Pub, LaneFail(l, p) PROVE Delivery'
  BY <1>15, <1>18 DEF LaneFail
<1>19. ASSUME NEW l \in Lanes, NEW p \in Pub, LaneAck(l, p) PROVE Delivery'
  <2>1. CASE Holds(l, p)
    <3>1. \A k \in Lanes, q \in Pub : \/ lane'[k][q] = lane[k][q]
                                      \/ k = l /\ q = p /\ lane'[k][q] = "deliver"
      BY <1>19, <2>1 DEF TypeOK, LaneAck, LaneMark, LaneGoto
    <3>2. p \in served
      BY <1>0, <1>19 DEF DeliveryOf, LaneAck
    <3>3. \A q \in Pub : DeliveryOf(q)'
      BY <1>11, <1>19, <2>1, <3>1, <3>2 DEF LaneAck, LaneMark
    <3> QED
      BY <1>0, <1>19, <2>1, <3>3, RedisFrame, PassFrame
      DEF Delivery, LaneAck, LaneMark, LaneGoto
  <2>2. CASE ~Holds(l, p)
    <3>1. LaneReturn(l, p, FALSE) /\ outbox' = outbox
      BY <1>19, <2>2 DEF LaneAck, LaneMark
    <3>2. ASSUME NEW q \in Pub PROVE DeliveryOf(q)'
      BY <1>0, <1>19, <3>1, LaneReturnFrame, DeliveryOfFrame DEF LaneAck, LaneMark
    <3>3. Pass'
      BY <1>0, <1>19, <3>1, LaneReturnFrame, PassFrame DEF LaneAck, LaneMark
    <3> QED
      BY <1>19, <3>2, <3>3, RedisFrame DEF Delivery, LaneAck
  <2> QED
    BY <2>1, <2>2
<1>20. ASSUME NEW l \in Lanes, NEW p \in Pub, LaneDeliver(l, p) PROVE Delivery'
  <2>1. p \in served /\ manifest[p] = "full"
    BY <1>0, <1>10, <1>20 DEF DeliveryOf, LaneDeliver
  <2>2. Holds(l, p) \in BOOLEAN
    BY DEF Holds
  <2>3. /\ \A k \in Lanes, q \in Pub : lane'[k][q] = lane[k][q] \/ lane'[k][q] = "idle"
        /\ \/ UNCHANGED <<schedPc, recDb>>
           \/ schedPc' # "receipt" /\ (recDb' = recDb \/ recDb' = NoPub)
    BY <1>20, <2>2, LaneReturnFrame DEF LaneDeliver
  <2>4. ASSUME NEW q \in Pub PROVE DeliveryOf(q)'
    <3>1. CASE q # p \/ ~Holds(l, p)
      <4>1. outbox'[q] = outbox[q] /\ run'[q] = run[q]
        BY <1>20, <3>1 DEF TypeOK, LaneDeliver, SettleReceipt, CloseRun
      <4> QED
        BY <1>0, <1>20, <2>3, <4>1, DeliveryOfFrame DEF LaneDeliver
    <3>2. CASE q = p /\ Holds(l, p)
      <4>1. outbox'[p] = "delivered"
        BY <1>20, <3>2 DEF TypeOK, LaneDeliver, SettleReceipt
      <4> QED
        BY <1>20, <2>1, <3>2, <4>1 DEF DeliveryOf, LaneDeliver
    <3> QED
      BY <3>1, <3>2
  <2> QED
    BY <1>0, <1>20, <2>3, <2>4, RedisFrame, PassFrame DEF Delivery, LaneDeliver
<1>21. CASE RecReadDb
  <2>1. ActivePub # NoPub => manifest[ActivePub] = "full"
    BY DEF ActivePub, Rows, RowOf
  <2>2. Pass'
    BY <1>21, <2>1 DEF Pass, RecReadDb
  <2>3. ASSUME NEW q \in Pub PROVE DeliveryOf(q)'
    BY <1>0, <1>21, DeliveryOfFrame DEF RecReadDb
  <2> QED
    BY <1>21, <2>2, <2>3, RedisFrame DEF Delivery, RecReadDb
<1>22. CASE RecReadRedis \/ RecMatched \/ PassEnds \/ RecError
  <2>1. ASSUME NEW q \in Pub PROVE DeliveryOf(q)'
    BY <1>0, <1>22, DeliveryOfFrame DEF RecReadRedis, RecMatched, PassEnds, RecError
  <2>2. Pass'
    BY <1>0, <1>22, PassFrame
    DEF RecReadRedis, RecMatched, PassEnds, RecError, RecReturn
  <2> QED
    BY <1>22, <2>1, <2>2, RedisFrame
    DEF Delivery, RecReadRedis, RecMatched, PassEnds, RecError
<1>23. CASE RecDispatch
  <2>1. ASSUME NEW q \in Pub PROVE DeliveryOf(q)'
    <3>1. CASE Claimable(recDb)
      BY <1>23, <3>1, ClaimFrame DEF RecDispatch, Lanes
    <3>2. CASE ~Claimable(recDb)
      BY <1>0, <1>23, <3>2, DeliveryOfFrame DEF RecDispatch
    <3> QED
      BY <3>1, <3>2
  <2>2. Pass'
    BY <1>0, <1>23, PassFrame DEF RecDispatch
  <2> QED
    BY <1>23, <2>1, <2>2, RedisFrame DEF Delivery, RecDispatch
<1>24. CASE RecStage
  <2>1. ASSUME NEW q \in Pub PROVE DeliveryOf(q)'
    BY <1>0, <1>24, DeliveryOfFrame DEF RecStage
  <2>2. recDb \in Pub
    BY <1>24 DEF TypeOK, RecStage
  <2> QED
    BY <1>0, <1>24, <2>1, <2>2, StageFrame, PassFrame DEF Delivery, RecStage
<1>25. CASE RecActivate \/ RecSwap
  <2>1. recDb \in Pub /\ manifest[recDb] = "full"
    BY <1>0, <1>25 DEF TypeOK, Pass, RecActivate, RecSwap
  <2>2. /\ served' = served \cup {recDb} /\ PointerServed' /\ PointerServable'
        /\ UNCHANGED <<dbVars, lane, recDb>>
    BY <1>25, <2>1, ScriptFrame
    DEF RecActivate, RecSwap, ActivatePointer, SwapPointer
  <2>3. ASSUME NEW q \in Pub PROVE DeliveryOf(q)'
    BY <1>0, <2>1, <2>2 DEF DeliveryOf
  <2>4. Pass'
    BY <1>0, <2>1, <2>2 DEF Pass
  <2> QED
    BY <2>2, <2>3, <2>4 DEF Delivery
<1>26. CASE RecNotSwapped
  <2>1. ASSUME NEW q \in Pub PROVE DeliveryOf(q)'
    BY <1>0, <1>26, DeliveryOfFrame DEF RecNotSwapped
  <2>2. recDb \in Pub
    BY <1>26 DEF TypeOK, RecNotSwapped
  <2>3. Pass'
    BY <1>0, <1>26, <2>2
    DEF Pass, Delivery, PointerServed, RecNotSwapped, RecReturn, Idempotent
  <2> QED
    BY <1>26, <2>1, <2>3, RedisFrame DEF Delivery, RecNotSwapped
<1>27. CASE RecReceipt
  <2>1. recDb \in Pub /\ recDb \in served /\ manifest[recDb] = "full"
    BY <1>0, <1>27 DEF TypeOK, Pass, RecReceipt
  <2>2. ASSUME NEW q \in Pub PROVE DeliveryOf(q)'
    <3>1. CASE q # recDb \/ outbox[recDb] \notin Claimables \cup {"failed"}
      <4>1. outbox'[q] = outbox[q] /\ run'[q] = run[q]
        BY <1>27, <2>1, <3>1 DEF TypeOK, RecReceipt, CloseRun
      <4> QED
        BY <1>0, <1>27, <4>1, DeliveryOfFrame DEF RecReceipt
    <3>2. CASE q = recDb /\ outbox[recDb] \in Claimables \cup {"failed"}
      <4>1. outbox'[q] = "delivered"
        BY <1>27, <2>1, <3>2 DEF TypeOK, RecReceipt
      <4> QED
        BY <1>0, <1>27, <2>1, <3>2, <4>1 DEF DeliveryOf, RecReceipt
    <3> QED
      BY <3>1, <3>2
  <2> QED
    BY <1>0, <1>27, <2>2, RedisFrame, PassFrame DEF Delivery, RecReceipt, RecReturn
<1>28. CASE Sweep
  <2>1. \A q \in Pub : DeliveryOf(q)'
    BY <1>28, ClaimFrame DEF Sweep, Lanes
  <2> QED
    BY <1>0, <1>28, <2>1, RedisFrame, PassFrame DEF Delivery, Sweep
<1>29. CASE SchedCrash
  <2>1. \A k \in Lanes, q \in Pub : lane'[k][q] = lane[k][q] \/ lane'[k][q] = "idle"
    BY <1>29 DEF TypeOK, SchedCrash
  <2>2. ASSUME NEW q \in Pub PROVE DeliveryOf(q)'
    BY <1>0, <1>29, <2>1, DeliveryOfFrame DEF SchedCrash
  <2> QED
    BY <1>0, <1>29, <2>2, RedisFrame, PassFrame DEF Delivery, SchedCrash
<1>30. CASE Tick \/ Heartbeat \/ SeasonRolls \/ UNCHANGED vars
  <2>1. ASSUME NEW q \in Pub PROVE DeliveryOf(q)'
    BY <1>0, <1>30, DeliveryOfFrame DEF Tick, Heartbeat, SeasonRolls, vars
  <2> QED
    BY <1>0, <1>30, <2>1, RedisFrame, PassFrame
    DEF Delivery, Tick, Heartbeat, SeasonRolls, vars
<1>31. CASE RedisLost
  <2>1. ASSUME NEW q \in Pub PROVE DeliveryOf(q)'
    BY <1>0, <1>31, DeliveryOfFrame DEF RedisLost
  <2>2. PointerServed' /\ PointerServable'
    BY <1>31 DEF RedisLost, PointerServed, PointerServable
  <2> QED
    BY <1>0, <1>31, <2>1, <2>2, PassFrame DEF Delivery, RedisLost
<1> QED
  BY <1>1, <1>2, <1>3, <1>4, <1>5, <1>6, <1>7, <1>8, <1>9, <1>12, <1>13, <1>14,
     <1>16, <1>17, <1>18, <1>19, <1>20, <1>21, <1>22, <1>23, <1>24, <1>25, <1>26,
     <1>27, <1>28, <1>29, <1>30, <1>31 DEF Next, PubStep, LaneStep, SchedStep

\* Only three steps of a publisher, the clock and a live heartbeat write what
\* the order of revisions is made of; nothing else brings a publisher between
\* its transaction and its activation.
LEMMA OrderWriters ==
  ASSUME TypeOK, [Next]_vars
  PROVE  \/ \E p \in Pub : PubStart(p) \/ PubPersist(p) \/ PubActivate(p)
         \/ Tick \/ Heartbeat
         \/ /\ UNCHANGED <<manifest, rev, src, fence, nextRev, clock>>
            /\ \A q \in Pub : pubPc'[q] \in {"persisted", "staged"}
                                 => pubPc[q] \in {"persisted", "staged"}
<1> USE DEF dbVars, redisVars, schedVars, envVars, vars
<1> DEFINE Frame == UNCHANGED <<manifest, rev, src, fence, nextRev, clock>>
           Between == \A q \in Pub : pubPc'[q] \in {"persisted", "staged"}
                                        => pubPc[q] \in {"persisted", "staged"}
<1>1. ASSUME NEW l \in Lanes, NEW p \in Pub, LaneStep(l, p) \/ LaneError(l, p)
      PROVE  Frame /\ Between
  <2>1. Frame
    BY <1>1 DEF LaneStep, LaneError, LaneStage, LaneActivate, LaneSuperseded,
                LaneRefused, LaneAck, LaneDeliver, LaneFail, LaneRelease, LaneMark
  <2>2. \/ pubPc' = pubPc
        \/ \E d \in BOOLEAN : LaneReturn(l, p, d)
    <3>1. Holds(l, p) \in BOOLEAN
      BY DEF Holds
    <3> QED
      BY <1>1, <3>1 DEF LaneStep, LaneError, LaneStage, LaneActivate, LaneSuperseded,
                LaneRefused, LaneAck, LaneDeliver, LaneFail, LaneRelease, LaneMark,
                LaneGoto
  <2> QED
    BY <2>1, <2>2, LaneReturnPub
<1>2. CASE SchedStep \/ RecError \/ SchedCrash
  BY <1>2 DEF SchedStep, RecError, SchedCrash, RecReadDb, RecReadRedis,
              RecMatched, RecDispatch, RecStage, RecActivate, RecSwap,
              RecNotSwapped, RecReceipt, Sweep, PassEnds
<1>3. ASSUME NEW p \in Pub,
             \/ PubFetchFails(p) \/ PubStage(p) \/ PubSeasonGone(p)
             \/ PubActivateRefused(p) \/ PubDispatch(p) \/ PubPersistRollsBack(p)
             \/ PubStageFails(p) \/ PubCrash(p) \/ HoldEnds(p) \/ ItemsExpire(p)
      PROVE  Frame /\ Between
  <2>1. Frame
    BY <1>3 DEF PubFetchFails, PubStage, PubSeasonGone, PubActivateRefused,
              PubDispatch, PubPersistRollsBack, PubStageFails, PubCrash, HoldEnds,
              ItemsExpire
  <2>2. Between
    BY <1>3 DEF TypeOK, PubGoto, PubFetchFails, PubStage, PubSeasonGone,
              PubActivateRefused, PubDispatch, PubPersistRollsBack, PubStageFails,
              PubCrash, HoldEnds, ItemsExpire
  <2> QED
    BY <2>1, <2>2
<1>4. CASE RedisLost \/ SeasonRolls \/ UNCHANGED vars
  BY <1>4 DEF RedisLost, SeasonRolls
<1> QED
  BY <1>1, <1>2, <1>3, <1>4 DEF Next, PubStep

\* An activated publication keeps its manifest and revision.
LEMMA ActivatedStays ==
  ASSUME TypeOK, [Next]_vars, NEW p \in Pub, manifest[p] = "full",
         pubPc[p] \notin {"idle", "fetching", "persisted", "staged"}
  PROVE  manifest'[p] = "full" /\ rev'[p] = rev[p]
<1> USE DEF dbVars, redisVars, schedVars, envVars
<1>1. ASSUME NEW q \in Pub, PubPersist(q) \/ PubActivate(q) \/ PubStart(q)
      PROVE  manifest'[p] = "full" /\ rev'[p] = rev[p]
  BY <1>1 DEF TypeOK, PubPersist, PubActivate, PubStart
<1> QED
  BY <1>1, OrderWriters DEF Tick, Heartbeat

(***************************************************************************)
(* The theorems.                                                           *)
(***************************************************************************)

\* The inductive invariant holds throughout.
THEOREM Invariance == Spec => []IInv
<1>1. Init => IInv
  <2> SUFFICES ASSUME Init PROVE IInv
    OBVIOUS
  <2>1. Rows
    BY DEF Init, Rows, RowOf, HasActive, LatestActive
  <2>2. Delivery
    BY DEF Init, Delivery, DeliveryOf, Pass, PointerServed, PointerServable
  <2> QED
    BY <2>1, <2>2, TypeInit DEF IInv
<1>2. IInv /\ [Next]_vars => IInv'
  BY TypeNext, RowsNext, DeliveryNext DEF IInv
<1> QED
  BY <1>1, <1>2, PTL DEF Spec

\* LatestActive for any number of overlapping publishers.
THEOREM LatestActiveHolds == Spec => []LatestActive
<1>1. IInv => LatestActive
  BY DEF IInv, Rows
<1> QED
  BY <1>1, Invariance, PTL

\* PointerServable, whatever expires and whoever repairs.
THEOREM PointerServableHolds == Spec => []PointerServable
<1>1. IInv => PointerServable
  BY DEF IInv, Delivery
<1> QED
  BY <1>1, Invariance, PTL

\* RedisNeverLeads: PostgreSQL commits before the pointer moves.
THEOREM RedisNeverLeadsHolds == Spec => []RedisNeverLeads
<1>1. ASSUME IInv PROVE RedisNeverLeads
  <2> SUFFICES ASSUME pointer # NoPub
               PROVE  /\ manifest[pointer] = "full"
                      /\ \E p \in Pub : row[p] = "active" /\ rev[pointer] <= rev[p]
    BY DEF RedisNeverLeads
  <2>1. pointer \in Pub /\ pointer \in served
    BY <1>1 DEF IInv, TypeOK, Delivery, PointerServed
  <2>2. manifest[pointer] = "full"
    BY <1>1, <2>1 DEF IInv, Delivery, DeliveryOf
  <2>3. PICK a \in Pub : row[a] = "active"
    BY <1>1, <2>1, <2>2 DEF IInv, Rows, HasActive
  <2>4. rev[pointer] <= rev[a]
    <3>1. pointer = a \/ rev[pointer] < rev[a]
      BY <1>1, <2>1, <2>2, <2>3 DEF IInv, Rows, LatestActive
    <3>2. rev[pointer] \in Nat /\ rev[a] \in Nat
      BY <1>1, <2>1, <2>3 DEF IInv, TypeOK
    <3> QED
      BY <3>1, <3>2
  <2> QED
    BY <2>2, <2>3, <2>4
<1> QED
  BY <1>1, Invariance, PTL

\* DeliveredWasServed: no receipt is delivered before Redis served it.
THEOREM DeliveredWasServedHolds == Spec => []DeliveredWasServed
<1>1. IInv => DeliveredWasServed
  BY DEF IInv, Delivery, DeliveryOf, DeliveredWasServed
<1> QED
  BY <1>1, Invariance, PTL

\* RevisionNeverRegresses: a row stops being active only to a later revision.
THEOREM RevisionNeverRegressesHolds == Spec => RevisionNeverRegresses
<1>1. ASSUME IInv, IInv', [Next]_vars, NEW p \in Pub, row[p] = "active"
      PROVE  \E q \in Pub : row'[q] = "active" /\ rev[p] <= rev'[q]
  <2>1. manifest[p] = "full" /\ pubPc[p] \notin {"idle", "fetching", "persisted", "staged"}
    BY <1>1 DEF IInv, Rows, RowOf
  <2>2. manifest'[p] = "full" /\ rev'[p] = rev[p]
    BY <1>1, <2>1, ActivatedStays DEF IInv
  <2>3. PICK a \in Pub : row'[a] = "active"
    BY <1>1, <2>2 DEF IInv, Rows, HasActive
  <2>4. a = p \/ rev'[p] < rev'[a]
    BY <1>1, <2>2, <2>3 DEF IInv, Rows, LatestActive
  <2>5. rev'[a] \in Nat /\ rev'[p] \in Nat
    BY <1>1, <2>3 DEF IInv, TypeOK
  <2> QED
    BY <2>2, <2>3, <2>4, <2>5
<1>2. IInv /\ IInv' /\ [Next]_vars
         => [\A p \in Pub : row[p] = "active" =>
               \E q \in Pub : row'[q] = "active" /\ rev[p] <= rev'[q]]_vars
  BY <1>1
<1> QED
  BY <1>2, Invariance, PTL DEF Spec, RevisionNeverRegresses

\* PublishedHasReceipt: no run is published before its receipt.
THEOREM PublishedHasReceiptHolds == Spec => []PublishedHasReceipt
<1>1. IInv => PublishedHasReceipt
  BY DEF IInv, Delivery, DeliveryOf, PublishedHasReceipt
<1> QED
  BY <1>1, Invariance, PTL

\* PostgreSQL decides and Redis follows, for any number of publishers.
THEOREM PointerOrderedHolds == Spec => []PointerOrdered
<1>1. LatestActive /\ RedisNeverLeads => PointerOrdered
  BY DEF PointerOrdered
<1> QED
  BY <1>1, LatestActiveHolds, RedisNeverLeadsHolds, PTL

\* No receipt and no run claims a delivery that did not happen.
THEOREM ReceiptsTruthfulHolds == Spec => []ReceiptsTruthful
<1>1. DeliveredWasServed /\ PublishedHasReceipt => ReceiptsTruthful
  BY DEF ReceiptsTruthful
<1> QED
  BY <1>1, DeliveredWasServedHolds, PublishedHasReceiptHolds, PTL

(***************************************************************************)
(* The order of live sources.                                              *)
(***************************************************************************)

\* The transaction of p has claimed the fence, and p is or can still become
\* canonical.
Accepted(p) == manifest[p] = "full" \/ pubPc[p] \in {"persisted", "staged"}

\* Behind LiveSourceOrder: the fence is the latest accepted source or a later
\* heartbeat, no reading is from the future, and revisions follow sources among
\* the accepted publications, activated yet or not.
Fenced ==
    /\ fence <= clock
    /\ \A p \in Pub : src[p] <= clock
    /\ \A p \in Pub : Accepted(p) => rev[p] < nextRev /\ src[p] <= fence
    /\ \A p, q \in Pub : Accepted(p) /\ Accepted(q) /\ rev[p] < rev[q]
                            => src[p] <= src[q]

LEMMA FencedNext ==
  Dataset = "live" /\ TypeOK /\ Rows /\ Fenced /\ [Next]_vars => Fenced'
<1> SUFFICES ASSUME Dataset = "live", TypeOK, Rows, Fenced, [Next]_vars PROVE Fenced'
  OBVIOUS
<1> USE DEF dbVars, redisVars, schedVars, envVars
<1>0. /\ clock \in Nat /\ fence \in Nat /\ nextRev \in Nat
      /\ \A p \in Pub : src[p] \in Nat /\ rev[p] \in Nat
  BY DEF TypeOK
\* A step that keeps revisions and sources, and accepts nobody new.
<1>1. ASSUME UNCHANGED <<rev, src, nextRev>>, clock <= clock', fence <= fence',
             fence' <= clock', clock' \in Nat, fence' \in Nat,
             \A q \in Pub : Accepted(q)' => Accepted(q)
      PROVE  Fenced'
  <2>1. \A q \in Pub : src'[q] <= clock'
    BY <1>0, <1>1 DEF Fenced
  <2>2. ASSUME NEW q \in Pub, Accepted(q)' PROVE rev'[q] < nextRev' /\ src'[q] <= fence'
    <3>1. rev[q] < nextRev /\ src[q] <= fence
      BY <1>1, <2>2 DEF Fenced
    <3> QED
      BY <1>0, <1>1, <3>1
  <2>3. \A p, q \in Pub : Accepted(p)' /\ Accepted(q)' /\ rev'[p] < rev'[q]
                             => src'[p] <= src'[q]
    BY <1>1 DEF Fenced
  <2> QED
    BY <1>1, <2>1, <2>2, <2>3 DEF Fenced
<1>2. ASSUME NEW p \in Pub, PubStart(p) PROVE Fenced'
  <2>1. /\ ~Accepted(p) /\ ~Accepted(p)'
        /\ \A q \in Pub : Accepted(q)' => Accepted(q)
    BY <1>2 DEF TypeOK, Rows, RowOf, PubStart, PubGoto, Accepted
  <2>2. /\ \A q \in Pub \ {p} : src'[q] = src[q]
        /\ src'[p] = clock
        /\ UNCHANGED <<rev, nextRev, clock, fence>>
    BY <1>2 DEF TypeOK, PubStart
  <2>3. \A q \in Pub : src'[q] <= clock'
    BY <1>0, <2>2 DEF Fenced
  <2>4. \A q \in Pub : Accepted(q)' => q # p /\ rev'[q] < nextRev' /\ src'[q] <= fence'
    BY <2>1, <2>2 DEF Fenced
  <2>5. \A q, r \in Pub : Accepted(q)' /\ Accepted(r)' /\ rev'[q] < rev'[r]
                             => src'[q] <= src'[r]
    BY <2>1, <2>2, <2>4 DEF Fenced
  <2> QED
    BY <2>2, <2>3, <2>4, <2>5 DEF Fenced
<1>3. ASSUME NEW p \in Pub, PubPersist(p) PROVE Fenced'
  <2>1. /\ \A q \in Pub \ {p} : /\ rev'[q] = rev[q]
                                /\ Accepted(q)' <=> Accepted(q)
        /\ rev'[p] = nextRev /\ nextRev' = nextRev + 1
        /\ UNCHANGED <<src, clock>>
    BY <1>3 DEF TypeOK, PubPersist, PubGoto, Accepted
  <2>2. CASE FenceAccepts(p)
    <3>1. fence' = src[p] /\ fence <= src[p]
      BY <1>3, <2>2 DEF PubPersist, FenceAccepts
    <3>2. ASSUME NEW q \in Pub, q # p, Accepted(q)'
          PROVE  rev[q] < nextRev /\ src[q] <= fence
      BY <2>1, <3>2 DEF Fenced
    <3>3. ASSUME NEW q \in Pub, Accepted(q)' PROVE rev'[q] < nextRev' /\ src'[q] <= fence'
      BY <1>0, <2>1, <3>1, <3>2, <3>3
    <3>4. ASSUME NEW q \in Pub, NEW r \in Pub, Accepted(q)', Accepted(r)',
                 rev'[q] < rev'[r]
          PROVE  src'[q] <= src'[r]
      <4>1. CASE r = p
        BY <1>0, <2>1, <3>1, <3>3, <3>4, <4>1
      <4>2. CASE r # p
        <5>1. q # p
          BY <1>0, <2>1, <3>2, <3>4, <4>2
        <5> QED
          BY <2>1, <3>4, <4>2, <5>1 DEF Fenced
      <4> QED
        BY <4>1, <4>2
    <3> QED
      BY <2>1, <3>1, <3>3, <3>4 DEF Fenced
  <2>3. CASE ~FenceAccepts(p)
    <3>1. fence' = fence /\ ~Accepted(p)'
      BY <1>3, <2>3 DEF TypeOK, PubPersist, PubGoto, Accepted
    <3>2. ASSUME NEW q \in Pub, Accepted(q)' PROVE rev'[q] < nextRev' /\ src'[q] <= fence'
      <4>1. q # p /\ rev[q] < nextRev /\ src[q] <= fence
        BY <2>1, <3>1, <3>2 DEF Fenced
      <4> QED
        BY <1>0, <2>1, <3>1, <4>1
    <3> QED
      BY <2>1, <3>1, <3>2 DEF Fenced
  <2> QED
    BY <2>2, <2>3
<1>4. ASSUME NEW p \in Pub, PubActivate(p) PROVE Fenced'
  <2>1. /\ UNCHANGED <<rev, src, nextRev, clock, fence>>
        /\ \A q \in Pub : Accepted(q)' => Accepted(q)
    BY <1>4 DEF TypeOK, PubActivate, PubGoto, Accepted
  <2> QED
    BY <1>0, <1>1, <2>1 DEF Fenced
<1>5. CASE Tick
  <2>1. /\ UNCHANGED <<rev, src, nextRev, fence>> /\ clock' = clock + 1
        /\ \A q \in Pub : Accepted(q)' => Accepted(q)
    BY <1>5 DEF Tick, Accepted
  <2> QED
    BY <1>0, <1>1, <2>1 DEF Fenced
<1>6. CASE Heartbeat
  <2>1. /\ UNCHANGED <<rev, src, nextRev, clock>> /\ fence' \in {fence, clock}
        /\ \A q \in Pub : Accepted(q)' => Accepted(q)
    BY <1>6 DEF Heartbeat, Accepted
  <2> QED
    BY <1>0, <1>1, <2>1 DEF Fenced
<1>7. CASE /\ UNCHANGED <<manifest, rev, src, fence, nextRev, clock>>
           /\ \A q \in Pub : pubPc'[q] \in {"persisted", "staged"}
                                => pubPc[q] \in {"persisted", "staged"}
  <2>1. \A q \in Pub : Accepted(q)' => Accepted(q)
    BY <1>7 DEF Accepted
  <2> QED
    BY <1>0, <1>1, <1>7, <2>1 DEF Fenced
<1> QED
  BY <1>2, <1>3, <1>4, <1>5, <1>6, <1>7, OrderWriters

\* LiveSourceOrder: however live publishers overlap, are delayed or crash,
\* and whatever heartbeats do to the fence, a later canonical revision never
\* carries an earlier reading of the source.
THEOREM LiveSourceOrderHolds == Spec => []LiveSourceOrder
<1> DEFINE LiveInv == Dataset = "live" => Fenced
<1>1. Init => LiveInv
  BY DEF Init, Fenced, Accepted
<1>2. IInv /\ LiveInv /\ [Next]_vars => LiveInv'
  BY FencedNext DEF IInv
<1>3. LiveInv => LiveSourceOrder
  BY DEF Fenced, Accepted, LiveSourceOrder
<1> QED
  BY <1>1, <1>2, <1>3, Invariance, PTL DEF Spec

(***************************************************************************)
(* The refinement of RevisionStore.                                        *)
(***************************************************************************)

\* The revisions activatePublication has committed.
CommittedRevs == {rev[p] : p \in {q \in Pub : manifest[q] = "full"}}

\* An activation commits one revision, later than all before it.
LEMMA ActivationCommits ==
  ASSUME IInv, IInv', NEW p \in Pub, PubActivate(p)
  PROVE  /\ rev[p] \in CommittedRevs'
         /\ CommittedRevs' = CommittedRevs \cup {rev[p]}
         /\ \A c \in CommittedRevs : c < rev[p]
         /\ UNCHANGED <<pointer, rev>>
<1>1. /\ manifest[p] = "marker" /\ row'[p] = "active" /\ manifest'[p] = "full"
      /\ \A q \in Pub \ {p} : manifest'[q] = manifest[q]
      /\ UNCHANGED <<pointer, rev>>
  BY DEF IInv, TypeOK, Rows, RowOf, PubActivate, redisVars
<1>2. rev[p] \in CommittedRevs' /\ CommittedRevs' = CommittedRevs \cup {rev[p]}
  BY <1>1 DEF CommittedRevs
<1>3. ASSUME NEW q \in Pub, manifest[q] = "full" PROVE rev[q] < rev[p]
  BY <1>1, <1>3 DEF IInv, Rows, LatestActive
<1> QED
  BY <1>1, <1>2, <1>3 DEF CommittedRevs

\* No other step commits a revision or takes one back.
LEMMA OthersCommitNothing ==
  ASSUME IInv, [Next]_vars, \A p \in Pub : ~PubActivate(p)
  PROVE  CommittedRevs' = CommittedRevs
<1> USE DEF dbVars, redisVars, schedVars, envVars
<1>1. ASSUME NEW p \in Pub, PubPersist(p) PROVE CommittedRevs' = CommittedRevs
  <2>1. /\ manifest[p] # "full" /\ manifest'[p] # "full"
        /\ \A q \in Pub \ {p} : manifest'[q] = manifest[q] /\ rev'[q] = rev[q]
    BY <1>1 DEF IInv, TypeOK, Rows, RowOf, PubPersist
  <2>2. /\ \A c \in CommittedRevs : c \in CommittedRevs'
        /\ \A c \in CommittedRevs' : c \in CommittedRevs
    BY <2>1 DEF CommittedRevs
  <2> QED
    BY <2>2
<1>2. CASE UNCHANGED <<manifest, rev>>
  BY <1>2 DEF CommittedRevs
<1> QED
  BY <1>1, <1>2, OrderWriters DEF IInv, PubStart, Tick, Heartbeat

\* The publication protocol implements RevisionStore: every step, whoever
\* takes it and whatever fails, commits one later revision, shows a committed
\* one, loses the pointer, or is invisible to readers.
THEOREM ImplementsStoreHolds == Spec => ImplementsStore
<1>1. Init => Store!StoreInit
  BY DEF Init, Store!StoreInit
<1>2. IInv /\ IInv' /\ [Next]_vars => [Store!StoreNext]_(Store!storeVars)
  <2> SUFFICES ASSUME IInv, IInv', [Next]_vars PROVE Store!StoreNext
    OBVIOUS
  <2>1. ASSUME NEW p \in Pub, PubActivate(p) PROVE Store!Commit
    BY <2>1, ActivationCommits DEF Store!Commit, CommittedRevs
  <2>2. ASSUME \A p \in Pub : ~PubActivate(p) PROVE Store!Show
    <3>1. CommittedRevs' = CommittedRevs
      BY <2>2, OthersCommitNothing
    <3>2. (IF pointer' = NoPub THEN 0 ELSE rev'[pointer']) \in CommittedRevs' \cup {0}
      BY DEF IInv, TypeOK, Delivery, DeliveryOf, PointerServed, CommittedRevs
    <3> QED
      BY <3>1, <3>2 DEF Store!Show, CommittedRevs
  <2> QED
    BY <2>1, <2>2 DEF Store!StoreNext
<1> QED
  BY <1>1, <1>2, Invariance, PTL DEF Spec, ImplementsStore, Store!StoreSpec
================================================================================
