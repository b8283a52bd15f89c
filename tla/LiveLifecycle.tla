--------------------------- MODULE LiveLifecycle ---------------------------
(***************************************************************************)
(* The live data of one gameweek of two fixtures: the lifecycle decision   *)
(* that plans the polls (live-lifecycle-orchestrator.ts, the scheduler's   *)
(* job registry, live.jobs.ts), the queue (live-data.jobs.ts), and the two *)
(* workers that fetch a snapshot, store it behind the gameweek's ordering  *)
(* fence and publish it (live-data.worker.ts, live-snapshot.service.ts).   *)
(*                                                                         *)
(* Fixture flags are a stage: 0 nothing started, 1 the first fixture on,   *)
(* 2 the first finished, 3 the second on, 4 all finished.  Player points   *)
(* are a version.  The delivery of a staged publication to Redis is the    *)
(* matter of DataPublication and one step here.                            *)
(***************************************************************************)
EXTENDS Naturals, FiniteSets

CONSTANTS
    LiveWorker,      \* job slots of the live-data worker (concurrency 2)
    LiveCase         \* who plans ("timer" or the "standalone" scheduler), the stage at
                     \* the start, and the bounds on changes of the points, timestamps taken,
                     \* jobs waiting and failing jobs

ASSUME LiveAssumption ==
    /\ LiveCase \subseteq [planner : {"timer", "standalone"}, from : {0, 3, 4}, versions : Nat,
                          stamps : Nat, waiting : Nat, faults : Nat]
    /\ \A c \in LiveCase : c.from # 0 => c.stamps >= 2

VARIABLES
    live,        \* the case of this behaviour
    day,         \* 0 before, 1 first window, 2 between, 3 second window, 4 the day after, 5 later
    source,      \* FPL: the stage, the version of the points, data checked
    coreRead,    \* what a core sync has fetched and not stored, as a set
    gw,          \* fpl.events and fpl.fixtures with the durable facts
    liveCache,   \* the snapshot that Redis serves
    staged,      \* publications staged and not delivered
    liveRev,     \* revisions given out
    liveClock,   \* the database clock: timestamps taken
    liveQueue,   \* jobs waiting
    ljob,        \* the jobs that run
    promised,    \* history: FPL's version when the accepted durable attempts took their timestamps
    liveFaults

liveVars == <<live, day, source, coreRead, gw, liveCache, staged, liveRev, liveClock,
              liveQueue, ljob, promised, liveFaults>>
livePlan == <<live, day, source, coreRead>>
livePublished == <<liveCache, staged, liveRev>>

IdleLive == [pc |-> "idle"]
LaterOf(a, b) == IF a > b THEN a ELSE b

\* At the season's next gameweek, or when a durable poll of its last fixture
\* (on or over) has been stored and published.
LiveInit ==
    /\ live \in LiveCase
    /\ LET at == live.from
           poll == IF at = 0 THEN 0 ELSE 1
       IN /\ day = at
          /\ source = [stage |-> at, version |-> 0, final |-> FALSE]
          /\ gw = [stage |-> at, checked |-> FALSE, fence |-> poll, factsAt |-> poll,
                   facts |-> 0, finalAt |-> 0]
          /\ liveCache = [rev |-> poll, version |-> 0, stage |-> at, at |-> 2 * poll]
          /\ liveRev = poll /\ liveClock = 2 * poll
    /\ coreRead = {} /\ staged = {} /\ liveQueue = {}
    /\ ljob = [w \in LiveWorker |-> IdleLive]
    /\ promised = 0 /\ liveFaults = 0

-----------------------------------------------------------------------------
(* FPL, time and the core sync.                                            *)

\* A fixture starts in its window and may end late; points move while
\* anything is played and are corrected until the data is checked.
SourceMoves ==
    /\ \/ source.stage < 4 /\ (source.stage \in {0, 2} => day > source.stage)
          /\ source' = [source EXCEPT !.stage = @ + 1]
       \/ source.stage > 0 /\ ~source.final /\ source.version < live.versions
          /\ source' = [source EXCEPT !.version = @ + 1]
       \/ source.stage = 4 /\ ~source.final /\ source' = [source EXCEPT !.final = TRUE]
    /\ UNCHANGED <<live, day, coreRead, gw, livePublished, liveClock, liveQueue, ljob, promised,
                   liveFaults>>

TimePasses ==
    /\ day < 5 /\ day' = day + 1
    /\ UNCHANGED <<live, source, coreRead, gw, livePublished, liveClock, liveQueue, ljob,
                   promised, liveFaults>>

\* syncCoreSnapshot takes its timestamp (readOrderingTimestamp: after those
\* taken so far), fetches bootstrap and fixtures, and stores them later; core
\* syncs are ordered among themselves.  (One that begins when all fixtures are
\* stored as finished can only change whether the data is checked.)
CoreFetches ==
    /\ \/ /\ coreRead = {} /\ (gw.stage # 4 \/ source.final # gw.checked)
          /\ coreRead' = {[pc |-> "fetch", t |-> liveClock]}
       \/ \E c \in coreRead :
            /\ c.pc = "fetch"
            /\ coreRead' = {[pc |-> "store", t |-> c.t, stage |-> source.stage,
                             final |-> source.final]}
    /\ UNCHANGED <<live, day, source, gw, livePublished, liveClock, liveQueue, ljob, promised,
                   liveFaults>>

\* reconcileDurableWinners: the fixtures of a gameweek whose fence was claimed
\* by a later attempt are the live jobs' and stay as they are stored.
LiveOwned(c) == gw.fence > c.t
FixturesOf(c) == IF LiveOwned(c) THEN gw.stage ELSE c.stage

CoreStores ==
    /\ \E c \in coreRead : /\ c.pc = "store"
                           /\ gw' = [gw EXCEPT !.stage = FixturesOf(c), !.checked = c.final]
    /\ coreRead' = {}
    /\ UNCHANGED <<live, day, source, livePublished, liveClock, liveQueue, ljob, promised,
                   liveFaults>>

-----------------------------------------------------------------------------
(* Planning.                                                               *)

On(stage) == stage \in {1, 3}

\* isMatchDayTime: a started fixture without its finish flag may keep the
\* window open for the grace period.
WindowOpen ==
    CASE gw.checked -> {FALSE}
      [] ~gw.checked /\ day \in {1, 3} -> {TRUE}
      [] OTHER -> IF On(gw.stage) THEN BOOLEAN ELSE {FALSE}

\* decideLiveLifecycle.  The states before kickoff differ in picks only.
Lifecycle(open, quiet) ==
    CASE gw.stage = 4 /\ gw.checked -> "FINALIZED"
      [] gw.stage = 4 /\ ~gw.checked -> "GW_REVIEW"
      [] gw.stage # 4 /\ (On(gw.stage) \/ On(liveCache.stage)) /\ open -> "LIVE_ACTIVE"
      [] OTHER -> IF gw.stage = 0 /\ liveCache.stage = 0
                  THEN IF day = 0 THEN "PICKS_PROBE" ELSE "PICKS_SYNC"
                  ELSE IF gw.stage <= 2 /\ day < 3 /\ quiet THEN "BETWEEN_FIXTURES"
                  ELSE "DAY_SETTLING"

LiveWaiting == liveQueue \cup {ljob[w].req : w \in {v \in LiveWorker : ljob[v].pc # "idle"}}

\* hasSupersedingPendingJob
Superseded(req) ==
    \E p \in LiveWaiting : IF req.final THEN p.final ELSE req.persist => p.persist

\* enqueueLiveSnapshot
EnqueueLive(req) ==
    /\ Cardinality(liveQueue) < live.waiting
    /\ liveQueue' = IF req.from = "cron" /\ Superseded(req) THEN liveQueue
                    ELSE liveQueue \cup {req}

\* runLiveLifecycle: in a live window one poll of every ten minutes is
\* durable, outside it every poll is, but between fixtures.
LifecycleTick ==
    /\ live.planner = "timer"
    /\ \E open \in WindowOpen, quiet \in BOOLEAN, periodic \in BOOLEAN :
         LET state == Lifecycle(open, quiet)
             final == state = "FINALIZED"
         IN /\ state # "PICKS_PROBE"
            /\ state = "GW_REVIEW" => day <= 4
            /\ final => gw.finalAt = 0
            /\ EnqueueLive([from |-> "cron", final |-> final,
                            persist |-> \/ state \in {"DAY_SETTLING", "GW_REVIEW", "FINALIZED"}
                                        \/ state = "LIVE_ACTIVE" /\ periodic])
    /\ UNCHANGED <<livePlan, gw, livePublished, liveClock, ljob, promised, liveFaults>>

\* The scheduler's live-snapshot and live-finalization obligations; the
\* post-match consolidation of both planners is of the same kind.
ScheduleLive ==
    /\ \/ /\ live.planner = "standalone" /\ TRUE \in WindowOpen
          /\ \E durable \in BOOLEAN :
               EnqueueLive([from |-> "reconcile", final |-> FALSE, persist |-> durable])
       \/ /\ day = 4
          /\ EnqueueLive([from |-> "reconcile", final |-> gw.checked, persist |-> TRUE])
    /\ UNCHANGED <<livePlan, gw, livePublished, liveClock, ljob, promised, liveFaults>>

-----------------------------------------------------------------------------
(* A job.                                                                  *)

\* processLiveDataJob: a cache-only poll outside the window is skipped.
LiveSkip(w) ==
    /\ ljob[w].pc = "idle" /\ FALSE \in WindowOpen
    /\ \E r \in liveQueue : /\ r.from = "cron" /\ ~r.persist
                            /\ liveQueue' = liveQueue \ {r}
    /\ UNCHANGED <<livePlan, gw, livePublished, liveClock, ljob, promised, liveFaults>>

\* syncLiveSnapshot takes its timestamp before it fetches.
LiveBegin(w) ==
    /\ ljob[w].pc = "idle" /\ liveClock < live.stamps
    /\ \E r \in liveQueue :
         /\ (r.from = "cron" /\ ~r.persist) => TRUE \in WindowOpen
         /\ liveQueue' = liveQueue \ {r}
         /\ ljob' = [ljob EXCEPT ![w] = [pc |-> "fetch", req |-> r, t |-> liveClock + 1,
                                         floor |-> source.version]]
    /\ liveClock' = liveClock + 1
    /\ UNCHANGED <<livePlan, gw, livePublished, promised, liveFaults>>

\* prepareLiveSnapshot: points and fixtures of this gameweek, complete and
\* of the known players and teams.
Prepared == [version |-> source.version, stage |-> source.stage]

\* Points, fixtures and the active snapshot are read, then the clock again.
LiveFetch(w) ==
    /\ ljob[w].pc = "fetch" /\ liveClock < live.stamps
    /\ ljob' = [ljob EXCEPT ![w] =
         [pc |-> "commit", req |-> ljob[w].req, t |-> ljob[w].t, floor |-> ljob[w].floor,
          version |-> Prepared.version, stage |-> Prepared.stage, okAt |-> liveClock + 1,
          seen |-> liveCache]]
    /\ liveClock' = liveClock + 1
    /\ UNCHANGED <<livePlan, gw, livePublished, liveQueue, promised, liveFaults>>

\* claimLiveSnapshotFence
\* (Mutant: a later attempt that has committed is not looked at.)
AnyAttempt(t) == TRUE
ClaimFence(t) == gw.fence <= t

\* snapshotContentMatches
Unchanged(j) == j.seen.rev > 0 /\ j.seen.version = j.version /\ j.seen.stage = j.stage

Durable(j) == j.req.persist \/ j.req.final

\* persistEventLivesIfMissing and persistEventLivesIfStaleAt: facts that were
\* stored after the matching snapshot was last seen need no second write.
NeedsFacts(j) ==
    /\ Durable(j)
    /\ \/ ~Unchanged(j) \/ j.req.final
       \/ gw.factsAt = 0 \/ gw.factsAt < j.seen.at

\* preparePublication and stagePublicationItems of a changed snapshot; the
\* publication of an attempt that lost the fence is skipped.
StageChanged(j) ==
    /\ liveRev' = liveRev + 1
    /\ staged' = staged \cup {[rev |-> liveRev + 1, version |-> j.version, stage |-> j.stage,
                               at |-> j.okAt]}

\* persistLiveSnapshotDurably with the staging of a changed snapshot, in one
\* transaction; a final job fails on a gameweek that is not checked.
LiveCommit(w) ==
    LET j == ljob[w]
        accepted == ClaimFence(j.t)
    IN
    /\ j.pc = "commit" /\ (accepted /\ j.req.final => gw.checked)
    /\ gw' = IF ~accepted THEN gw
             ELSE [stage |-> j.stage, checked |-> gw.checked, fence |-> j.t,
                   factsAt |-> IF NeedsFacts(j) THEN j.t ELSE gw.factsAt,
                   facts |-> IF NeedsFacts(j) THEN j.version ELSE gw.facts,
                   finalAt |-> IF j.req.final THEN j.t ELSE gw.finalAt]
    /\ IF accepted /\ ~Unchanged(j) THEN StageChanged(j) ELSE UNCHANGED <<liveRev, staged>>
    /\ promised' = IF accepted /\ Durable(j) THEN LaterOf(promised, j.floor) ELSE promised
    /\ ljob' = [ljob EXCEPT ![w] = IF Unchanged(j)
                                   THEN [pc |-> "beat", req |-> j.req, okAt |-> j.okAt]
                                   ELSE IdleLive]
    /\ UNCHANGED <<livePlan, liveCache, liveClock, liveQueue, liveFaults>>

\* refreshLiveSnapshotHeartbeat
LiveBeat(w) ==
    /\ ljob[w].pc = "beat"
    /\ liveCache' = [liveCache EXCEPT !.at = LaterOf(@, ljob[w].okAt)]
    /\ ljob' = [ljob EXCEPT ![w] = IdleLive]
    /\ UNCHANGED <<livePlan, gw, staged, liveRev, liveClock, liveQueue, promised, liveFaults>>

\* The activation and delivery of a staged publication; an older revision is
\* skipped.
Served(p) == IF p.rev > liveCache.rev THEN p ELSE liveCache

\* The worker delivers, or the next poll's recoverPendingLiveSnapshotPublication
\* or the reconciler.
DeliverLive ==
    /\ \E p \in staged : liveCache' = Served(p) /\ staged' = staged \ {p}
    /\ UNCHANGED <<livePlan, gw, liveRev, liveClock, liveQueue, ljob, promised, liveFaults>>

\* A failed or stalled job runs again while it has attempts.
LiveFails(w) ==
    /\ ljob[w].pc # "idle" /\ liveFaults < live.faults
    /\ liveFaults' = liveFaults + 1
    /\ ljob' = [ljob EXCEPT ![w] = IdleLive]
    /\ liveQueue' \in {liveQueue, liveQueue \cup {ljob[w].req}}
    /\ UNCHANGED <<livePlan, gw, livePublished, liveClock, promised>>

LiveNext ==
    \/ SourceMoves \/ TimePasses \/ CoreFetches \/ CoreStores
    \/ LifecycleTick \/ ScheduleLive \/ DeliverLive
    \/ \E w \in LiveWorker : \/ LiveSkip(w) \/ LiveBegin(w) \/ LiveFetch(w)
                             \/ LiveCommit(w) \/ LiveBeat(w) \/ LiveFails(w)

LiveSpec == LiveInit /\ [][LiveNext]_liveVars

-----------------------------------------------------------------------------
(* Properties.                                                             *)

LiveTypeOK ==
    /\ day \in 0..5 /\ source.stage \in 0..4 /\ source.version \in 0..live.versions
    /\ gw.stage \in 0..4 /\ gw.fence \in 0..liveClock /\ gw.finalAt \in 0..liveClock
    /\ liveCache.rev \in 0..liveRev /\ liveClock \in 0..live.stamps
    /\ liveQueue \subseteq [from : {"cron", "reconcile"}, final : BOOLEAN, persist : BOOLEAN]
    /\ liveFaults \in 0..live.faults

\* A gameweek whose final live checkpoint is stored (live_snapshot_finalized_at)
\* has the final points and finished fixtures, and keeps them: no poll that
\* began before, fetched before or was retried takes them back.
FinalFactsAreFinal ==
    gw.finalAt # 0 => source.final /\ gw.checked /\ gw.facts = source.version /\ gw.stage = 4

\* After a durable poll that won the fence the stored facts are never older
\* than FPL's when the poll began, although an unchanged snapshot is not
\* written again and cache-only polls publish between the durable ones.
DurablePollIsKept == gw.facts >= promised

\* Facts are only recorded as stored by an attempt that holds the fence or held it.
FactsBehindFence == gw.factsAt <= gw.fence /\ gw.finalAt <= gw.factsAt

\* The live gameweek's invariant (the properties above).
LiveInv == LiveTypeOK /\ FinalFactsAreFinal /\ DurablePollIsKept /\ FactsBehindFence
=============================================================================
