--------------------------- MODULE DataPublication ---------------------------
(***************************************************************************)
(* One publication scope (dataset, season and, for fpl:live, event) of the *)
(* Data service.  PostgreSQL holds the canonical rows: publications, their *)
(* delivery receipts (the outbox) and the sync runs that produced them.    *)
(* Redis holds the rebuildable copy: immutable items and one active        *)
(* pointer.  Publishers (queue workers) write PostgreSQL first and then    *)
(* deliver the receipt; the scheduler process reconciles the pointer with  *)
(* PostgreSQL and sweeps undelivered receipts every 30 seconds.            *)
(*                                                                         *)
(* Each transaction and each Redis script is one step.  A publication is   *)
(* one attempt of a publisher, so Pub also names publishers and sync runs. *)
(* The items of one publication are written, persisted and retired by one  *)
(* pipeline or script each, and are modelled as one.                       *)
(***************************************************************************)
EXTENDS Integers

CONSTANTS
    Pub,        \* the publication attempts
    NoPub,      \* the absent publication
    Dataset,    \* "core" or "live": the two publishers differ in places
    MaxClock,   \* bound on the ordering clock
    MaxFaults   \* bound on crashes, lost calls, rollbacks and rollovers

ASSUME NoPubAssumption == NoPub \notin Pub
ASSUME DatasetAssumption == Dataset \in {"core", "live"}
ASSUME BoundsAssumption == MaxClock \in Nat /\ MaxFaults \in Nat

VARIABLES
    clock,          \* readOrderingTimestamp(), the database clock
    nextRev,        \* the revision sequence of ops.dataset_publications
    seasonCurrent,  \* is the scope's season still the current one?
    fence,          \* events.live_snapshot_checked_at (fpl:live only)
    row,            \* status of the publication row
    manifest,       \* what the row's manifest column holds
    rev, src,       \* its revision and sourceCheckedAt
    run,            \* status of the sync run
    outbox,         \* status of the delivery receipt
    owner,          \* lease_owner of the receipt
    held,           \* is the lease unexpired, or available_at in the future?
    pointer,        \* the active pointer in Redis
    beat,           \* does the pointer carry a refreshed fetch timestamp?
    item,           \* lifetime of the publication's items in Redis
    pubPc,          \* where each publisher is
    lane,           \* where each dispatcher of each receipt is
    schedPc,        \* where the scheduler pass is
    recDb, recRedis,\* the pass's reads: dbActive and redisActive
    faults,         \* faults so far
    served          \* history: publications the pointer has ever named

dbVars == <<row, manifest, rev, src, run, outbox, owner, held, fence>>
redisVars == <<pointer, beat, item, served>>
schedVars == <<schedPc, recDb, recRedis>>
envVars == <<clock, seasonCurrent, faults>>
vars == <<dbVars, redisVars, schedVars, envVars, nextRev, pubPc, lane>>

(***************************************************************************)
(* Types.                                                                  *)
(***************************************************************************)
RowStatus == {"absent", "staging", "active", "retired", "failed", "purged"}
RunStatus == {"none", "running", "ready_to_publish", "published", "skipped",
              "failed"}
Claimables == {"pending", "staged", "db_activated", "redis_activated"}
OutboxStatus == {"none", "delivered", "failed"} \cup Claimables
Lanes == {"publisher", "scheduler"}
PubPc == {"idle", "fetching", "persisted", "staged", "committed",
          "dispatching", "done", "failed"}
LanePc == {"idle", "stage", "activate", "ack", "deliver", "fail"}
SchedPc == {"idle", "readRedis", "compare", "dispatching", "repair", "swap",
            "receipt", "sweep", "sweeping"}

TypeOK ==
    /\ clock \in 0..MaxClock
    /\ nextRev \in Nat
    /\ seasonCurrent \in BOOLEAN
    /\ fence \in 0..MaxClock
    /\ row \in [Pub -> RowStatus]
    /\ manifest \in [Pub -> {"none", "marker", "full"}]
    /\ rev \in [Pub -> Nat]
    /\ src \in [Pub -> 0..MaxClock]
    /\ run \in [Pub -> RunStatus]
    /\ outbox \in [Pub -> OutboxStatus]
    /\ owner \in [Pub -> Lanes \cup {"nobody"}]
    /\ held \in [Pub -> BOOLEAN]
    /\ pointer \in Pub \cup {NoPub}
    /\ beat \in BOOLEAN
    /\ item \in [Pub -> {"absent", "expiring", "persistent"}]
    /\ pubPc \in [Pub -> PubPc]
    /\ lane \in [Lanes -> [Pub -> LanePc]]
    /\ schedPc \in SchedPc
    /\ recDb \in Pub \cup {NoPub}
    /\ recRedis \in Pub \cup {NoPub}
    /\ schedPc \in {"dispatching", "repair", "swap", "receipt"} => recDb \in Pub
    /\ faults \in 0..MaxFaults
    /\ served \subseteq Pub

Init ==
    /\ clock = 0
    /\ nextRev = 1
    /\ seasonCurrent = TRUE
    /\ fence = 0
    /\ row = [p \in Pub |-> "absent"]
    /\ manifest = [p \in Pub |-> "none"]
    /\ rev = [p \in Pub |-> 0]
    /\ src = [p \in Pub |-> 0]
    /\ run = [p \in Pub |-> "none"]
    /\ outbox = [p \in Pub |-> "none"]
    /\ owner = [p \in Pub |-> "nobody"]
    /\ held = [p \in Pub |-> FALSE]
    /\ pointer = NoPub
    /\ beat = FALSE
    /\ item = [p \in Pub |-> "absent"]
    /\ pubPc = [p \in Pub |-> "idle"]
    /\ lane = [l \in Lanes |-> [p \in Pub |-> "idle"]]
    /\ schedPc = "idle"
    /\ recDb = NoPub
    /\ recRedis = NoPub
    /\ faults = 0
    /\ served = {}

(***************************************************************************)
(* The two stores' operations.                                             *)
(***************************************************************************)

\* ORDER of ACTIVATE_REVISION_SCRIPT: p supersedes q.
Supersedes(p, q) ==
    \/ src[q] < src[p]
    \/ src[q] = src[p] /\ rev[q] < rev[p]

\* stageDataPublicationItems: SET PX 15min NX, then read back.
StageItems(p) ==
    item' = [item EXCEPT ![p] = IF @ = "absent" THEN "expiring" ELSE @]

\* ACTIVATE_REVISION_SCRIPT answers 'idempotent': the pointer already carries
\* exactly this manifest.
Idempotent(p) == pointer = p /\ ~beat

\* ... answers 'stale': the pointer names a publication p does not supersede.
Stale(p) == pointer \notin {p, NoPub} /\ ~Supersedes(p, pointer)

\* ... answers 'published'.
Activatable(p) ==
    /\ pointer # p
    /\ ~Stale(p)
    /\ item[p] # "absent"

\* ... and what it then does: persist p's items, set the pointer, and give the
\* items of the publication it replaces their 24 hours.
ActivatePointer(p) ==
    /\ pointer' = p
    /\ beat' = FALSE
    /\ item' = [q \in Pub |->
                   IF q = p THEN "persistent"
                   ELSE IF q = pointer /\ item[q] # "absent" THEN "expiring"
                   ELSE item[q]]
    /\ served' = served \cup {p}

\* COMPARE_AND_SWAP_ACTIVE_REVISION_SCRIPT answers 'replaced'.
Swappable(expected, p) == pointer = expected /\ item[p] # "absent"

\* Mutant: the swap forgets PERSIST.
SwapPointerMayExpire(p) ==
    /\ pointer' = p
    /\ beat' = FALSE
    /\ item' = item
    /\ served' = served \cup {p}

\* ... and what it then does.  The replaced publication's items keep the
\* lifetime they have.
SwapPointer(p) ==
    /\ pointer' = p
    /\ beat' = FALSE
    /\ item' = [item EXCEPT ![p] = "persistent"]
    /\ served' = served \cup {p}

\* A row whose manifest parseDataPublicationManifest accepts.
Loads(p) == row[p] # "purged" /\ manifest[p] = "full"

\* findActivePublication.
ActivePub ==
    IF \E p \in Pub : row[p] = "active"
    THEN CHOOSE p \in Pub : row[p] = "active"
    ELSE NoPub

\* claimDataPublicationOutbox: is the receipt due and unleased?
Claimable(p) == outbox[p] \in Claimables /\ ~held[p]

\* ... and its update, for the receipts in S.
ClaimReceipts(l, S) ==
    /\ owner' = [p \in Pub |-> IF p \in S THEN l ELSE owner[p]]
    /\ held' = [p \in Pub |-> IF p \in S THEN TRUE ELSE held[p]]
    /\ lane' = [lane EXCEPT ![l] =
                   [p \in Pub |-> IF p \in S THEN "stage" ELSE @[p]]]

\* The guard of every later update of a receipt by the dispatcher that
\* claimed it: lease_owner still matches and delivered_at is null.
Holds(l, p) == owner[p] = l /\ outbox[p] \in Claimables \cup {"failed"}

\* Mutant: the run is given the receipt's status.
CloseRunAsReceipt(p) == run' = [run EXCEPT ![p] = "delivered"]

\* The source run becomes published with the receipt.
CloseRun(p) ==
    run' = [run EXCEPT ![p] = IF @ = "ready_to_publish" THEN "published" ELSE @]

\* Where the scheduler pass goes next.
SchedGoto(pc) == schedPc' = pc

\* The reconciler is done with this scope, and so are its two reads.
RecReturn == schedPc' = "sweep" /\ recDb' = NoPub /\ recRedis' = NoPub

(***************************************************************************)
(* Publishers: syncCoreSnapshot and syncLiveSnapshot.                      *)
(***************************************************************************)
PubGoto(p, pc) == pubPc' = [pubPc EXCEPT ![p] = pc]

\* startRun, then the ordering timestamp, then the upstream reads.  The
\* recovery call before it (recoverPending*Publication) finds a staging row
\* behind the pointer or does nothing; RedisNeverLeads shows there is none.
PubStart(p) ==
    /\ pubPc[p] = "idle"
    /\ seasonCurrent
    /\ PubGoto(p, "fetching")
    /\ run' = [run EXCEPT ![p] = "running"]
    /\ src' = [src EXCEPT ![p] = clock]
    /\ UNCHANGED <<row, manifest, rev, outbox, owner, held, fence>>
    /\ UNCHANGED <<redisVars, schedVars, envVars, nextRev, lane>>

\* An upstream read or its validation fails: failRun.
PubFetchFails(p) ==
    /\ pubPc[p] = "fetching"
    /\ PubGoto(p, "failed")
    /\ run' = [run EXCEPT ![p] = "failed"]
    /\ UNCHANGED <<row, manifest, rev, src, outbox, owner, held, fence>>
    /\ UNCHANGED <<redisVars, schedVars, envVars, nextRev, lane>>

\* The cleanup inside preparePublication: some expired retired or failed rows
\* go, and their receipts with them (ON DELETE CASCADE).
Purge(S) ==
    /\ \A q \in S : row[q] \in {"retired", "failed"}
    /\ outbox' = [q \in Pub |-> IF q \in S THEN "none" ELSE outbox[q]]
    /\ owner' = [q \in Pub |-> IF q \in S THEN "nobody" ELSE owner[q]]
    /\ held' = [q \in Pub |-> IF q \in S THEN FALSE ELSE held[q]]

\* Mutant: the fence is not consulted.
FenceIgnored(p) == TRUE

\* fpl:live claims the ordering fence in the same transaction.
FenceAccepts(p) == Dataset = "live" => fence <= src[p]

\* One mutation transaction: preparePublication, the item proofs and the
\* canonical facts.  A live snapshot that lost the fence commits its row
\* already skipped.
PubPersist(p) ==
    /\ pubPc[p] = "fetching"
    /\ \E S \in SUBSET (Pub \ {p}) :
          /\ Purge(S)
          /\ row' = [q \in Pub |->
                       IF q = p
                       THEN IF FenceAccepts(p) THEN "staging" ELSE "retired"
                       ELSE IF q \in S THEN "purged" ELSE row[q]]
    /\ rev' = [rev EXCEPT ![p] = nextRev]
    /\ nextRev' = nextRev + 1
    /\ manifest' = [manifest EXCEPT ![p] = "marker"]
    /\ IF FenceAccepts(p)
       THEN /\ fence' = IF Dataset = "live" THEN src[p] ELSE fence
            /\ PubGoto(p, "persisted")
            /\ run' = run
       ELSE /\ fence' = fence
            /\ PubGoto(p, "done")
            /\ run' = [run EXCEPT ![p] = "skipped"]
    /\ UNCHANGED <<src, redisVars, schedVars, envVars, lane>>

\* The transaction rolls back (a gap in the sequence changes no order).
\* failPublication finds no row and its error is swallowed: the run keeps its
\* status.
PubPersistRollsBack(p) ==
    /\ pubPc[p] = "fetching"
    /\ faults < MaxFaults
    /\ faults' = faults + 1
    /\ PubGoto(p, "failed")
    /\ UNCHANGED <<dbVars, redisVars, schedVars, clock, seasonCurrent, nextRev,
                   lane>>

\* Mutant: publishDataRevision without "activate: false".
PubStageActivates(p) ==
    /\ pubPc[p] = "persisted"
    /\ ActivatePointer(p)
    /\ PubGoto(p, "staged")
    /\ UNCHANGED <<dbVars, schedVars, envVars, nextRev, lane>>

\* The publisher stages its items in Redis before the row is activated.
PubStage(p) ==
    /\ pubPc[p] = "persisted"
    /\ StageItems(p)
    /\ PubGoto(p, "staged")
    /\ UNCHANGED <<dbVars, pointer, beat, served, schedVars, envVars, nextRev,
                   lane>>

\* Redis fails that call.  fpl:live fails the row and its run; fpl:core leaves
\* both as they are.
PubStageFails(p) ==
    /\ pubPc[p] = "persisted"
    /\ faults < MaxFaults
    /\ faults' = faults + 1
    /\ PubGoto(p, "failed")
    /\ IF Dataset = "live"
       THEN /\ row' = [row EXCEPT ![p] = "failed"]
            /\ run' = [run EXCEPT ![p] = "failed"]
       ELSE UNCHANGED <<row, run>>
    /\ UNCHANGED <<manifest, rev, src, outbox, owner, held, fence>>
    /\ UNCHANGED <<redisVars, schedVars, clock, seasonCurrent, nextRev, lane>>

\* fpl:core re-reads the season after staging: skipPublication and finishRun.
PubSeasonGone(p) ==
    /\ pubPc[p] = "staged"
    /\ Dataset = "core"
    /\ ~seasonCurrent
    /\ row' = [row EXCEPT ![p] = "retired"]
    /\ run' = [run EXCEPT ![p] = "skipped"]
    /\ PubGoto(p, "done")
    /\ UNCHANGED <<manifest, rev, src, outbox, owner, held, fence>>
    /\ UNCHANGED <<redisVars, schedVars, envVars, nextRev, lane>>

\* Mutant: only the same revision is refused.
NewerActiveEqual(p) == \E q \in Pub \ {p} : row[q] = "active" /\ rev[q] = rev[p]

\* activatePublication's refusal: another active row has this revision or a
\* later one.
NewerActive(p) == \E q \in Pub \ {p} : row[q] = "active" /\ rev[q] >= rev[p]

\* activatePublication under the scope's advisory lock: retire the active row,
\* activate p with its full manifest, and create the receipt.
PubActivate(p) ==
    /\ pubPc[p] = "staged"
    /\ Dataset = "core" => seasonCurrent
    /\ ~NewerActive(p)
    /\ row' = [q \in Pub |-> IF q = p THEN "active"
                             ELSE IF row[q] = "active" THEN "retired"
                             ELSE row[q]]
    /\ manifest' = [manifest EXCEPT ![p] = "full"]
    /\ run' = [run EXCEPT ![p] = "ready_to_publish"]
    /\ outbox' = [outbox EXCEPT ![p] = "db_activated"]
    /\ PubGoto(p, "committed")
    /\ UNCHANGED <<rev, src, owner, held, fence>>
    /\ UNCHANGED <<redisVars, schedVars, envVars, nextRev, lane>>

\* The refusal throws; nobody touches the staging row or the run again.
PubActivateRefused(p) ==
    /\ pubPc[p] = "staged"
    /\ Dataset = "core" => seasonCurrent
    /\ NewerActive(p)
    /\ PubGoto(p, "failed")
    /\ UNCHANGED <<dbVars, redisVars, schedVars, envVars, nextRev, lane>>

\* The publisher delivers its own receipt, unless the scheduler has it.
PubDispatch(p) ==
    /\ pubPc[p] = "committed"
    /\ IF Claimable(p)
       THEN /\ ClaimReceipts("publisher", {p})
            /\ PubGoto(p, "dispatching")
       ELSE /\ PubGoto(p, "failed")
            /\ UNCHANGED <<owner, held, lane>>
    /\ UNCHANGED <<row, manifest, rev, src, run, outbox, fence>>
    /\ UNCHANGED <<redisVars, schedVars, envVars, nextRev>>

\* The worker process dies; what it had not done is never done by it.
PubCrash(p) ==
    /\ pubPc[p] \notin {"idle", "done", "failed"}
    /\ faults < MaxFaults
    /\ faults' = faults + 1
    /\ PubGoto(p, "failed")
    /\ lane' = [lane EXCEPT !["publisher"][p] = "idle"]
    /\ UNCHANGED <<dbVars, redisVars, schedVars, clock, seasonCurrent, nextRev>>

(***************************************************************************)
(* Dispatchers: dispatchDataPublicationOutbox for one claimed receipt.     *)
(* Staging is followed by its mark, and a call that fails by the release,  *)
(* in one step: neither reads anything another process can have changed.   *)
(***************************************************************************)
LaneGoto(l, p, pc) ==
    /\ lane' = [lane EXCEPT ![l][p] = pc]
    /\ UNCHANGED <<pubPc, schedVars>>

\* The dispatcher returns; its caller looks at the number delivered.
LaneReturn(l, p, delivered) ==
    /\ lane' = [lane EXCEPT ![l][p] = "idle"]
    /\ \/ /\ l = "publisher"
          /\ PubGoto(p, IF delivered THEN "done" ELSE "failed")
          /\ UNCHANGED schedVars
       \/ /\ l = "scheduler" /\ schedPc = "sweeping"
          /\ UNCHANGED <<pubPc, schedVars>>
       \/ /\ l = "scheduler" /\ schedPc = "dispatching" /\ delivered
          /\ RecReturn
          /\ pubPc' = pubPc
       \/ /\ l = "scheduler" /\ schedPc = "dispatching" /\ ~delivered
          /\ SchedGoto("repair")
          /\ UNCHANGED <<recDb, recRedis, pubPc>>

\* The receipt leaves this dispatcher with a new status, if it still holds it;
\* a released one is available again in 60 seconds.
SettleReceipt(l, p, status) ==
    IF Holds(l, p)
    THEN /\ outbox' = [outbox EXCEPT ![p] = status]
         /\ owner' = [owner EXCEPT ![p] = "nobody"]
         /\ held' = [held EXCEPT ![p] = status = "pending"]
    ELSE UNCHANGED <<outbox, owner, held>>

\* The catch block for everything but a newer Redis: releaseDataPublicationOutbox.
LaneRelease(l, p) ==
    /\ SettleReceipt(l, p, "pending")
    /\ LaneReturn(l, p, FALSE)
    /\ UNCHANGED <<row, manifest, rev, src, run, fence>>

\* markDataPublicationOutboxStage; a lost lease throws, and its release does
\* nothing.
LaneMark(l, p, status, pc) ==
    /\ IF Holds(l, p)
       THEN outbox' = [outbox EXCEPT ![p] = status] /\ LaneGoto(l, p, pc)
       ELSE outbox' = outbox /\ LaneReturn(l, p, FALSE)
    /\ UNCHANGED <<row, manifest, rev, src, run, owner, held, fence>>

\* stageDataPublication and the mark 'staged'.
LaneStage(l, p) ==
    /\ lane[l][p] = "stage"
    /\ StageItems(p)
    /\ LaneMark(l, p, "staged", "activate")
    /\ UNCHANGED <<pointer, beat, served, envVars, nextRev>>

\* activateDataPublicationPointer returns published: set now, or idempotent.
LaneActivate(l, p) ==
    /\ lane[l][p] = "activate"
    /\ \/ Activatable(p) /\ ActivatePointer(p)
       \/ Idempotent(p) /\ UNCHANGED redisVars
    /\ LaneGoto(l, p, "ack")
    /\ UNCHANGED <<dbVars, envVars, nextRev>>

\* Mutant: a stale answer is taken for a delivery.
LaneSupersededAcks(l, p) ==
    /\ lane[l][p] = "activate"
    /\ Stale(p)
    /\ LaneGoto(l, p, "ack")
    /\ UNCHANGED <<dbVars, redisVars, envVars, nextRev>>

\* Mutant: a stale answer is retried like any other error.
LaneSupersededRetries(l, p) ==
    /\ lane[l][p] = "activate"
    /\ Stale(p)
    /\ LaneRelease(l, p)
    /\ UNCHANGED <<redisVars, envVars, nextRev>>

\* ... returns stale: the dispatcher will fail the receipt.
LaneSuperseded(l, p) ==
    /\ lane[l][p] = "activate"
    /\ Stale(p)
    /\ LaneGoto(l, p, "fail")
    /\ UNCHANGED <<dbVars, redisVars, envVars, nextRev>>

\* ... throws on a missing item or on the same publication with another fetch
\* timestamp.
LaneRefused(l, p) ==
    /\ lane[l][p] = "activate"
    /\ ~Activatable(p) /\ ~Idempotent(p) /\ ~Stale(p)
    /\ LaneRelease(l, p)
    /\ UNCHANGED <<redisVars, envVars, nextRev>>

\* The mark 'redis_activated'.
LaneAck(l, p) ==
    /\ lane[l][p] = "ack"
    /\ LaneMark(l, p, "redis_activated", "deliver")
    /\ UNCHANGED <<redisVars, envVars, nextRev>>

\* markDataPublicationOutboxDelivered.
LaneDeliver(l, p) ==
    /\ lane[l][p] = "deliver"
    /\ SettleReceipt(l, p, "delivered")
    /\ IF Holds(l, p) THEN CloseRun(p) ELSE run' = run
    /\ LaneReturn(l, p, Holds(l, p))
    /\ UNCHANGED <<row, manifest, rev, src, fence, redisVars, envVars, nextRev>>

\* failDataPublicationOutbox: Redis is newer.
LaneFail(l, p) ==
    /\ lane[l][p] = "fail"
    /\ SettleReceipt(l, p, "failed")
    /\ LaneReturn(l, p, FALSE)
    /\ UNCHANGED <<row, manifest, rev, src, run, fence, redisVars, envVars,
                   nextRev>>

\* A Redis or PostgreSQL call of the dispatcher fails.
LaneError(l, p) ==
    /\ lane[l][p] \in {"stage", "activate", "ack", "deliver"}
    /\ faults < MaxFaults
    /\ faults' = faults + 1
    /\ LaneRelease(l, p)
    /\ UNCHANGED <<redisVars, clock, seasonCurrent, nextRev>>

(***************************************************************************)
(* The scheduler pass: reconcileDataPublication, then the receipt sweep.   *)
(* The reconciler's staging branch loads the newest staging row first; the *)
(* manifest of such a row is the marker preparePublication wrote, so the   *)
(* load throws and the branch falls through.                               *)
(***************************************************************************)
\* findActivePublication.  A past season's scope is not reconciled.
RecReadDb ==
    /\ schedPc = "idle"
    /\ SchedGoto(IF seasonCurrent THEN "readRedis" ELSE "sweep")
    /\ recDb' = IF seasonCurrent THEN ActivePub ELSE NoPub
    /\ UNCHANGED <<recRedis, dbVars, redisVars, envVars, nextRev, pubPc, lane>>

\* readActiveDataPublication: null unless every item is there.
RecReadRedis ==
    /\ schedPc = "readRedis"
    /\ SchedGoto("compare")
    /\ recRedis' = pointer
    /\ UNCHANGED <<recDb, dbVars, redisVars, envVars, nextRev, pubPc, lane>>

\* No canonical row, a row that no longer loads, or a match: nothing to do.
RecMatched ==
    /\ schedPc = "compare"
    /\ recDb = NoPub \/ recDb = recRedis \/ (recDb \in Pub /\ ~Loads(recDb))
    /\ RecReturn
    /\ UNCHANGED <<dbVars, redisVars, envVars, nextRev, pubPc, lane>>

\* Mutant: without a due receipt there is no repair.
RecDispatchOnly ==
    /\ schedPc = "compare"
    /\ recDb \in Pub
    /\ recDb # recRedis
    /\ Loads(recDb)
    /\ IF Claimable(recDb)
       THEN /\ ClaimReceipts("scheduler", {recDb})
            /\ SchedGoto("dispatching")
            /\ UNCHANGED <<recDb, recRedis>>
       ELSE /\ RecReturn
            /\ UNCHANGED <<owner, held, lane>>
    /\ UNCHANGED <<row, manifest, rev, src, run, outbox, fence>>
    /\ UNCHANGED <<redisVars, envVars, nextRev, pubPc>>

\* Otherwise the canonical row's receipt is dispatched first, if it is due.
RecDispatch ==
    /\ schedPc = "compare"
    /\ recDb \in Pub
    /\ recDb # recRedis
    /\ Loads(recDb)
    /\ IF Claimable(recDb)
       THEN /\ ClaimReceipts("scheduler", {recDb})
            /\ SchedGoto("dispatching")
       ELSE /\ SchedGoto("repair")
            /\ UNCHANGED <<owner, held, lane>>
    /\ UNCHANGED <<row, manifest, rev, src, run, outbox, fence>>
    /\ UNCHANGED <<recDb, recRedis, redisVars, envVars, nextRev, pubPc>>

\* stageDataPublication(canonical).
RecStage ==
    /\ schedPc = "repair"
    /\ StageItems(recDb)
    /\ SchedGoto("swap")
    /\ UNCHANGED <<recDb, recRedis, dbVars, pointer, beat, served, envVars,
                   nextRev, pubPc, lane>>

\* The pointer was missing: activate the canonical manifest.
RecActivate ==
    /\ schedPc = "swap"
    /\ recRedis = NoPub
    /\ Activatable(recDb)
    /\ ActivatePointer(recDb)
    /\ SchedGoto("receipt")
    /\ UNCHANGED <<recDb, recRedis, dbVars, envVars, nextRev, pubPc, lane>>

\* The pointer named another publication: compare and swap it.
RecSwap ==
    /\ schedPc = "swap"
    /\ recRedis # NoPub
    /\ Swappable(recRedis, recDb)
    /\ SwapPointer(recDb)
    /\ SchedGoto("receipt")
    /\ UNCHANGED <<recDb, recRedis, dbVars, envVars, nextRev, pubPc, lane>>

\* Every other answer: an idempotent activation still closes the receipt, the
\* rest throws and the pass goes on without the repair.
RecNotSwapped ==
    /\ schedPc = "swap"
    /\ IF recRedis = NoPub THEN ~Activatable(recDb)
                           ELSE ~Swappable(recRedis, recDb)
    /\ IF recRedis = NoPub /\ Idempotent(recDb)
       THEN SchedGoto("receipt") /\ UNCHANGED <<recDb, recRedis>>
       ELSE RecReturn
    /\ UNCHANGED <<dbVars, redisVars, envVars, nextRev, pubPc,
                   lane>>

\* markDataPublicationOutboxReconciled: whoever holds the receipt.
RecReceipt ==
    /\ schedPc = "receipt"
    /\ IF outbox[recDb] \in Claimables \cup {"failed"}
       THEN /\ outbox' = [outbox EXCEPT ![recDb] = "delivered"]
            /\ owner' = [owner EXCEPT ![recDb] = "nobody"]
            /\ held' = [held EXCEPT ![recDb] = FALSE]
            /\ CloseRun(recDb)
       ELSE UNCHANGED <<outbox, owner, held, run>>
    /\ RecReturn
    /\ UNCHANGED <<row, manifest, rev, src, fence>>
    /\ UNCHANGED <<redisVars, envVars, nextRev, pubPc, lane>>

\* dispatchDataPublicationOutbox({ limit: 20 }): every due receipt at once.
Sweep ==
    /\ schedPc = "sweep"
    /\ ClaimReceipts("scheduler", {p \in Pub : Claimable(p)})
    /\ SchedGoto("sweeping")
    /\ UNCHANGED <<row, manifest, rev, src, run, outbox, fence>>
    /\ UNCHANGED <<recDb, recRedis, redisVars, envVars, nextRev, pubPc>>

PassEnds ==
    /\ schedPc = "sweeping"
    /\ \A p \in Pub : lane["scheduler"][p] = "idle"
    /\ SchedGoto("idle")
    /\ UNCHANGED <<recDb, recRedis, dbVars, redisVars, envVars, nextRev, pubPc,
                   lane>>

\* A Redis or PostgreSQL call of the reconciler fails: logged, and the pass
\* goes on to the sweep.
RecError ==
    /\ schedPc \in {"readRedis", "compare", "repair", "swap", "receipt"}
    /\ faults < MaxFaults
    /\ faults' = faults + 1
    /\ RecReturn
    /\ UNCHANGED <<dbVars, redisVars, clock, seasonCurrent,
                   nextRev, pubPc, lane>>

\* The scheduler process dies; its next pass starts from nothing.
SchedCrash ==
    /\ schedPc # "idle"
    /\ faults < MaxFaults
    /\ faults' = faults + 1
    /\ SchedGoto("idle")
    /\ lane' = [lane EXCEPT !["scheduler"] = [p \in Pub |-> "idle"]]
    /\ recDb' = NoPub
    /\ recRedis' = NoPub
    /\ UNCHANGED <<dbVars, redisVars, clock, seasonCurrent, nextRev, pubPc>>

(***************************************************************************)
(* The environment.                                                        *)
(***************************************************************************)
Tick ==
    /\ clock < MaxClock
    /\ clock' = clock + 1
    /\ UNCHANGED <<dbVars, redisVars, schedVars, seasonCurrent, faults, nextRev,
                   pubPc, lane>>

\* A lease runs out, or a released receipt becomes available again.
HoldEnds(p) ==
    /\ held[p]
    /\ held' = [held EXCEPT ![p] = FALSE]
    /\ UNCHANGED <<row, manifest, rev, src, run, outbox, owner, fence>>
    /\ UNCHANGED <<redisVars, schedVars, envVars, nextRev, pubPc, lane>>

\* Has somebody checked p's items and not used them yet?
InFlight(p) ==
    \/ \E l \in Lanes : lane[l][p] = "activate"
    \/ schedPc = "swap" /\ recDb = p

\* The 15 minute or 24 hour lifetime of the items runs out.  Within the two
\* calls of a delivery that is a fault, which does not happen for ever.
ItemsExpire(p) ==
    /\ item[p] = "expiring"
    /\ item' = [item EXCEPT ![p] = "absent"]
    /\ IF InFlight(p) THEN faults < MaxFaults /\ faults' = faults + 1
                      ELSE faults' = faults
    /\ UNCHANGED <<dbVars, pointer, beat, served, schedVars, clock,
                   seasonCurrent, nextRev, pubPc, lane>>

\* An unchanged live poll advances the fence and swaps the pointer for the
\* same publication with a later lastSuccessfulFetchAt.
Heartbeat ==
    /\ Dataset = "live"
    /\ pointer # NoPub
    /\ fence' \in {fence, clock}
    /\ beat' = TRUE
    /\ UNCHANGED <<row, manifest, rev, src, run, outbox, owner, held>>
    /\ UNCHANGED <<pointer, item, served, schedVars, envVars, nextRev, pubPc,
                   lane>>

\* Redis restarts empty: the pointer and every item are gone.
RedisLost ==
    /\ faults < MaxFaults
    /\ faults' = faults + 1
    /\ pointer # NoPub
    /\ pointer' = NoPub
    /\ beat' = FALSE
    /\ item' = [p \in Pub |-> "absent"]
    /\ UNCHANGED <<served, dbVars, schedVars, clock, seasonCurrent, nextRev,
                   pubPc, lane>>

\* Season rollover makes another season current.
SeasonRolls ==
    /\ Dataset = "core"
    /\ seasonCurrent
    /\ faults < MaxFaults
    /\ faults' = faults + 1
    /\ seasonCurrent' = FALSE
    /\ UNCHANGED <<dbVars, redisVars, schedVars, clock, nextRev, pubPc, lane>>

(***************************************************************************)
(* The specification.                                                      *)
(***************************************************************************)
PubStep(p) ==
    \/ PubPersist(p) \/ PubStage(p) \/ PubSeasonGone(p)
    \/ PubActivate(p) \/ PubActivateRefused(p) \/ PubDispatch(p)

LaneStep(l, p) ==
    \/ LaneStage(l, p) \/ LaneActivate(l, p) \/ LaneSuperseded(l, p)
    \/ LaneRefused(l, p) \/ LaneAck(l, p) \/ LaneDeliver(l, p)
    \/ LaneFail(l, p)

SchedStep ==
    \/ RecReadDb \/ RecReadRedis \/ RecMatched \/ RecDispatch \/ RecStage
    \/ RecActivate \/ RecSwap \/ RecNotSwapped \/ RecReceipt \/ Sweep
    \/ PassEnds

Next ==
    \/ \E p \in Pub : PubStart(p) \/ PubFetchFails(p) \/ PubStep(p)
                      \/ PubPersistRollsBack(p) \/ PubStageFails(p)
                      \/ PubCrash(p) \/ HoldEnds(p) \/ ItemsExpire(p)
    \/ \E l \in Lanes, p \in Pub : LaneStep(l, p) \/ LaneError(l, p)
    \/ SchedStep \/ RecError \/ SchedCrash
    \/ Tick \/ Heartbeat \/ RedisLost \/ SeasonRolls

\* Started publishers keep taking steps, so does the scheduler's timer, and
\* time passes for leases and retry delays; no publisher has to start, and no
\* fault has to happen.
Fairness ==
    /\ WF_vars(\E p \in Pub : PubStep(p) \/ LaneStep("publisher", p))
    /\ WF_vars(SchedStep \/ \E p \in Pub : LaneStep("scheduler", p))
    /\ \A p \in Pub : WF_vars(HoldEnds(p))

Spec == Init /\ [][Next]_vars

FairSpec == Spec /\ Fairness

(***************************************************************************)
(* Safety.                                                                 *)
(***************************************************************************)

\* Readers resolve the pointer and then its items: whatever dispatchers,
\* repairs and expiries do, the items the pointer names never have a lifetime
\* (ACTIVATE_REVISION_SCRIPT, COMPARE_AND_SWAP_ACTIVE_REVISION_SCRIPT).
PointerServable == pointer # NoPub => item[pointer] = "persistent"

\* Redis never leads PostgreSQL: what the pointer names, a transaction of
\* activatePublication has made canonical before, and the row that is active
\* now has that revision or a later one.
RedisNeverLeads ==
    pointer # NoPub =>
        /\ manifest[pointer] = "full"
        /\ \E p \in Pub : row[p] = "active" /\ rev[pointer] <= rev[p]

\* The active row is the only one, and no activation ever committed has a
\* later revision, however publishers interleave between preparePublication
\* and activatePublication.
LatestActive ==
    \A p, q \in Pub : row[p] = "active" /\ manifest[q] = "full" /\ p # q
                          => row[q] # "active" /\ rev[q] < rev[p]

\* A delivered receipt is not a false success: the pointer has named that
\* publication, although leases run out and dispatchers overlap
\* (markDataPublicationOutboxDelivered, markDataPublicationOutboxReconciled).
DeliveredWasServed == \A p \in Pub : outbox[p] = "delivered" => p \in served

\* "A source run becomes published only after the Redis pointer has been
\* CAS-activated and the durable outbox receipt is committed": its receipt is
\* delivered, or already purged with its row, and Redis has served it.
PublishedHasReceipt ==
    \A p \in Pub : run[p] = "published" => /\ outbox[p] \in {"delivered", "none"}
                                        /\ p \in served

\* PostgreSQL decides and Redis follows: one active row, the latest of all
\* activations ever committed, and a pointer that never leads it.
PointerOrdered == LatestActive /\ RedisNeverLeads

\* What the receipts and runs say of a publication is true of Redis.
ReceiptsTruthful == DeliveredWasServed /\ PublishedHasReceipt

\* For fpl:live the ordering fence (claimLiveSnapshotFence) makes revisions
\* follow their sources among all publications that were ever activated.
LiveSourceOrder ==
    Dataset = "live" =>
        \A p, q \in Pub : manifest[p] = "full" /\ manifest[q] = "full"
                             /\ rev[p] < rev[q] => src[p] <= src[q]

(***************************************************************************)
(* Action properties.                                                      *)
(***************************************************************************)

\* The canonical revision of a scope never goes back or away
\* (activatePublication's refusal under the advisory lock).
RevisionNeverRegresses ==
    [][\A p \in Pub : row[p] = "active" =>
          \E q \in Pub : row'[q] = "active" /\ rev[p] <= rev'[q]]_vars

(***************************************************************************)
(* Refinement.                                                             *)
(***************************************************************************)

\* The publications as a store of revisions: what activatePublication has
\* committed, and what the Redis pointer names.
Store == INSTANCE RevisionStore
           WITH committed <- {rev[p] : p \in {q \in Pub : manifest[q] = "full"}},
                visible <- IF pointer = NoPub THEN 0 ELSE rev[pointer]

\* Staging, leases, receipts, repairs and faults implement the store: every
\* step commits one later revision, shows a committed one, loses the pointer,
\* or is not visible to readers.
ImplementsStore == Store!StoreSpec

(***************************************************************************)
(* Liveness.                                                               *)
(***************************************************************************)

\* Once publishers and faults stop, the scheduler's passes make Redis serve
\* the canonical publication for good, as long as the season is current
\* (reconcileDataPublication).
RedisConverges ==
    <>[](seasonCurrent /\ ActivePub # NoPub => pointer = ActivePub)

\* Every receipt is eventually settled: delivered, failed because Redis is
\* newer, or gone with its row (dispatchDataPublicationOutbox).
ReceiptsSettle == <>[](\A p \in Pub : outbox[p] \notin Claimables)

(***************************************************************************)
(* What the documentation says and the code does not do.                   *)
(***************************************************************************)

\* "an older delayed attempt cannot overwrite a newer one": the canonical
\* publication of a scope is never replaced by one read earlier from upstream.
SourceNeverRegresses ==
    [][\A p, q \in Pub : row[q] = "active" /\ row'[p] = "active"
                            => src[q] <= src[p]]_vars
=============================================================================
