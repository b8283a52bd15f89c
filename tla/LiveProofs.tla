----------------------------- MODULE LiveProofs -----------------------------
(***************************************************************************)
(* Proofs about the live data of a gameweek, for any number of workers,    *)
(* polls, timestamps and changes of the points; and about the admission of *)
(* the requests that fetch it from FPL, for any number of requests and any *)
(* limits and times with a deadline below the lease.                       *)
(***************************************************************************)
EXTENDS LiveLifecycle, FplRequests, FiniteSetTheorems, TLAPS

SourceRecord == [stage : 0..4, version : Nat, final : BOOLEAN]
GwRecord == [stage : 0..4, checked : BOOLEAN, fence : Nat, factsAt : Nat, facts : Nat, finalAt : Nat]
SnapshotRecord == [rev : Nat, version : Nat, stage : 0..4, at : Nat]
LiveRequest == [from : {"cron", "reconcile"}, final : BOOLEAN, persist : BOOLEAN]
CoreRecord == [pc : {"fetch"}, t : Nat] \cup [pc : {"store"}, t : Nat, stage : 0..4, final : BOOLEAN]

\* A job that has its timestamp and has not committed.
Trying(w) == ljob[w].pc \in {"fetch", "commit"}

JobTyped(w) ==
    /\ ljob[w].pc \in {"idle", "fetch", "commit", "beat"}
    /\ ljob[w].pc # "idle" => ljob[w].req \in LiveRequest
    /\ Trying(w) => ljob[w].t \in Nat /\ ljob[w].floor \in Nat
    /\ ljob[w].pc = "commit" => /\ ljob[w].version \in Nat /\ ljob[w].stage \in 0..4
                                /\ ljob[w].okAt \in Nat /\ ljob[w].seen \in SnapshotRecord
    /\ ljob[w].pc = "beat" => ljob[w].okAt \in Nat

LiveTypes ==
    /\ live \in LiveCase /\ day \in 0..5 /\ source \in SourceRecord
    /\ coreRead \subseteq CoreRecord /\ gw \in GwRecord
    /\ liveCache \in SnapshotRecord /\ staged \subseteq SnapshotRecord
    /\ liveRev \in Nat /\ liveClock \in 0..live.stamps
    /\ liveQueue \subseteq LiveRequest
    /\ DOMAIN ljob = LiveWorker /\ \A w \in LiveWorker : JobTyped(w)
    /\ promised \in Nat /\ liveFaults \in 0..live.faults

LiveBounds ==
    /\ source.version <= live.versions
    /\ liveCache.rev <= liveRev /\ \A p \in staged : p.rev <= liveRev
    /\ gw.fence <= liveClock
    /\ \A w \in LiveWorker :
         /\ Trying(w) => ljob[w].t <= liveClock /\ ljob[w].floor <= source.version
         /\ ljob[w].pc = "commit" => ljob[w].floor <= ljob[w].version
         /\ ljob[w].pc = "beat" => ljob[w].okAt <= liveClock

\* Points that were current at a time: an attempt that began later does not
\* miss them, and neither do facts stored by one.
Behind(v, at) ==
    /\ v <= source.version /\ at <= liveClock
    /\ gw.factsAt # 0 /\ gw.factsAt >= at => gw.facts >= v
    /\ \A w \in LiveWorker : Trying(w) /\ ljob[w].t >= at => ljob[w].floor >= v

\* Every snapshot, served, staged, prepared or read by a job, is of points
\* that were current when it was last seen.
SnapshotsBehind ==
    /\ Behind(liveCache.version, liveCache.at)
    /\ \A p \in staged : Behind(p.version, p.at)
    /\ \A w \in LiveWorker : ljob[w].pc = "commit" =>
         /\ Behind(ljob[w].version, ljob[w].okAt)
         /\ Behind(ljob[w].seen.version, ljob[w].seen.at)

\* Attempts saw no older points than those that began before them.
AttemptsInOrder ==
    /\ promised <= source.version
    /\ \A u, w \in LiveWorker :
         Trying(u) /\ Trying(w) /\ ljob[u].t <= ljob[w].t => ljob[u].floor <= ljob[w].floor
    /\ \A w \in LiveWorker : Trying(w) /\ gw.fence <= ljob[w].t => promised <= ljob[w].floor

\* What a final job knows: FPL was final before it began, and so for every
\* attempt that began after it.
Settled(w) ==
    \/ gw.finalAt # 0 /\ gw.finalAt <= ljob[w].t
    \/ \E u \in LiveWorker : Trying(u) /\ ljob[u].req.final /\ ljob[u].t <= ljob[w].t

FinalKnown ==
    /\ source.final => source.stage = 4
    /\ gw.checked => source.final
    /\ \A c \in coreRead : c.pc = "store" =>
         (c.final => source.final /\ c.stage = 4) /\ (gw.checked => c.final)
    /\ \A r \in liveQueue : r.final => gw.checked
    /\ \A w \in LiveWorker :
         /\ ljob[w].pc # "idle" /\ ljob[w].req.final => gw.checked
         /\ ljob[w].pc = "commit" /\ Settled(w) => ljob[w].version = source.version /\ ljob[w].stage = 4

\* The inductive invariant behind LiveInv.
LiveIInv ==
    /\ LiveTypes /\ LiveBounds /\ SnapshotsBehind /\ AttemptsInOrder /\ FinalKnown
    /\ FinalFactsAreFinal /\ DurablePollIsKept /\ FactsBehindFence

LEMMA LiveIInvSuffices == LiveIInv => LiveInv
<1> SUFFICES ASSUME LiveIInv PROVE LiveTypeOK
  BY DEF LiveIInv, LiveInv
<1>1. live.versions \in Nat /\ live.stamps \in Nat /\ live.faults \in Nat
  BY LiveAssumption DEF LiveIInv, LiveTypes
<1>2. gw.fence \in 0..liveClock /\ gw.finalAt \in 0..liveClock
  BY <1>1 DEF LiveIInv, LiveTypes, LiveBounds, GwRecord, FactsBehindFence
<1>3. liveCache.rev \in 0..liveRev /\ source.version \in 0..live.versions
  BY <1>1 DEF LiveIInv, LiveTypes, LiveBounds, SnapshotRecord, SourceRecord
<1> QED
  BY <1>2, <1>3 DEF LiveIInv, LiveTypes, LiveTypeOK, GwRecord, SourceRecord, LiveRequest

(***************************************************************************)
(* What a step may change.                                                 *)
(***************************************************************************)

\* FPL's points move forward until they are final.
SourceStep ==
    \/ UNCHANGED source
    \/ /\ ~source.final /\ source.version <= source'.version /\ source'.version <= live.versions
       /\ source' \in SourceRecord
       /\ source'.final => source'.stage = 4
       /\ UNCHANGED <<gw, liveCache, staged, liveRev, liveClock, liveQueue, ljob, promised, coreRead>>

\* The stored gameweek is written by a core sync or by an accepted attempt.
GwStep ==
    \/ UNCHANGED <<gw, promised>>
    \/ /\ \E c \in coreRead : /\ c.pc = "store" /\ gw'.checked = c.final
                               /\ gw'.stage \in {gw.stage, c.stage}
       /\ gw'.fence = gw.fence /\ gw'.factsAt = gw.factsAt /\ gw'.facts = gw.facts
       /\ gw'.finalAt = gw.finalAt
       /\ UNCHANGED <<source, promised, ljob, liveQueue, liveCache, staged, liveRev, liveClock>>
    \/ \E w \in LiveWorker : LiveCommit(w) /\ ClaimFence(ljob[w].t)

\* A job is as before, over, a heartbeat, new, or has fetched.
JobStep(w) ==
    \/ ljob'[w] = ljob[w]
    \/ ljob'[w] = IdleLive
    \/ /\ ljob[w].pc = "commit" /\ ljob'[w] = [pc |-> "beat", req |-> ljob[w].req, okAt |-> ljob[w].okAt]
       /\ UNCHANGED <<source, liveClock>>
    \/ /\ \E r \in liveQueue : ljob'[w] = [pc |-> "fetch", req |-> r, t |-> liveClock + 1, floor |-> source.version]
       /\ liveClock' = liveClock + 1
       /\ UNCHANGED <<source, gw, promised, liveCache, staged>>
       /\ \A u \in LiveWorker \ {w} : ljob'[u] = ljob[u]
    \/ /\ ljob[w].pc = "fetch"
       /\ ljob'[w] = [pc |-> "commit", req |-> ljob[w].req, t |-> ljob[w].t, floor |-> ljob[w].floor,
                      version |-> source.version, stage |-> source.stage, okAt |-> liveClock + 1,
                      seen |-> liveCache]
       /\ liveClock' = liveClock + 1
       /\ UNCHANGED <<source, gw, promised, liveCache, staged>>
       /\ \A u \in LiveWorker \ {w} : ljob'[u] = ljob[u]

\* The clock moves for a job that takes a timestamp only.
ClockStep ==
    \/ UNCHANGED liveClock
    \/ liveClock' = liveClock + 1 /\ liveClock < live.stamps

LEMMA SourceSteps ==
  ASSUME LiveTypes, LiveBounds, FinalKnown, [LiveNext]_liveVars PROVE SourceStep
<1>1. CASE SourceMoves
  <2>1. UNCHANGED <<gw, liveCache, staged, liveRev, liveClock, liveQueue, ljob, promised, coreRead>>
    BY <1>1 DEF SourceMoves, livePublished
  <2>2. source \in SourceRecord /\ live.versions \in Nat /\ source.version <= live.versions
    BY LiveAssumption DEF LiveTypes, LiveBounds
  <2>3. CASE source.stage < 4 /\ source' = [source EXCEPT !.stage = source.stage + 1]
    <3>1. ~source.final
      BY <2>2, <2>3 DEF FinalKnown
    <3> QED
      BY <2>1, <2>2, <2>3, <3>1 DEF SourceStep, SourceRecord
  <2>4. CASE /\ ~source.final /\ source.version < live.versions
             /\ source' = [source EXCEPT !.version = source.version + 1]
    BY <2>1, <2>2, <2>4 DEF SourceStep, SourceRecord
  <2>5. CASE source.stage = 4 /\ ~source.final /\ source' = [source EXCEPT !.final = TRUE]
    <3>1. source' \in SourceRecord /\ source'.stage = source.stage /\ source'.version = source.version
      BY <2>2, <2>5 DEF SourceRecord
    <3>2. source.version <= source'.version /\ source'.version <= live.versions
      BY <2>2, <3>1 DEF SourceRecord
    <3> QED
      BY <2>1, <2>5, <3>1, <3>2 DEF SourceStep
  <2> QED
    BY <1>1, <2>3, <2>4, <2>5 DEF SourceMoves
<1>2. CASE ~SourceMoves
  BY <1>2 DEF LiveNext, liveVars, livePlan, SourceStep, TimePasses, CoreFetches, CoreStores, LifecycleTick,
              ScheduleLive, DeliverLive, LiveSkip, LiveBegin, LiveFetch, LiveCommit, LiveBeat, LiveFails
<1> QED
  BY <1>1, <1>2

LEMMA GwSteps ==
  ASSUME LiveTypes, [LiveNext]_liveVars PROVE GwStep
<1>1. CASE CoreStores
  <2>1. PICK c \in coreRead : c.pc = "store" /\ gw' = [gw EXCEPT !.stage = FixturesOf(c), !.checked = c.final]
    BY <1>1 DEF CoreStores
  <2>2. UNCHANGED <<source, promised, ljob, liveQueue, liveCache, staged, liveRev, liveClock>>
    BY <1>1 DEF CoreStores, livePublished
  <2>3. gw \in GwRecord
    BY DEF LiveTypes
  <2>4. /\ gw'.stage = FixturesOf(c) /\ gw'.checked = c.final
        /\ gw'.fence = gw.fence /\ gw'.factsAt = gw.factsAt /\ gw'.facts = gw.facts
        /\ gw'.finalAt = gw.finalAt
    BY <2>1, <2>3 DEF GwRecord
  <2> QED
    BY <2>1, <2>2, <2>4 DEF GwStep, FixturesOf
<1>2. ASSUME NEW w \in LiveWorker, LiveCommit(w) PROVE GwStep
  <2>1. CASE ClaimFence(ljob[w].t)
    BY <1>2, <2>1 DEF GwStep
  <2>2. CASE ~ClaimFence(ljob[w].t)
    BY <1>2, <2>2 DEF GwStep, LiveCommit
  <2> QED
    BY <2>1, <2>2
<1>3. CASE ~CoreStores /\ \A w \in LiveWorker : ~LiveCommit(w)
  <2>1. UNCHANGED <<gw, promised>>
    BY <1>3 DEF LiveNext, liveVars, SourceMoves, TimePasses, CoreFetches, LifecycleTick,
                ScheduleLive, DeliverLive, LiveSkip, LiveBegin, LiveFetch, LiveBeat, LiveFails
  <2> QED
    BY <2>1 DEF GwStep
<1> QED
  BY <1>1, <1>2, <1>3

LEMMA JobSteps ==
  ASSUME LiveTypes, [LiveNext]_liveVars, NEW w \in LiveWorker PROVE JobStep(w) /\ DOMAIN ljob' = LiveWorker
<1> USE DEF LiveTypes
<1>1. ASSUME NEW u \in LiveWorker, LiveBegin(u) PROVE JobStep(w) /\ DOMAIN ljob' = LiveWorker
  BY <1>1 DEF LiveBegin, JobStep, livePlan, livePublished
<1>2. ASSUME NEW u \in LiveWorker, LiveFetch(u) PROVE JobStep(w) /\ DOMAIN ljob' = LiveWorker
  BY <1>2 DEF LiveFetch, Prepared, JobStep, livePlan, livePublished
<1>3. ASSUME NEW u \in LiveWorker, LiveCommit(u) PROVE JobStep(w) /\ DOMAIN ljob' = LiveWorker
  <2>1. /\ UNCHANGED <<source, liveClock>> /\ ljob[u].pc = "commit"
        /\ ljob' = [ljob EXCEPT ![u] = IF Unchanged(ljob[u])
                                       THEN [pc |-> "beat", req |-> ljob[u].req, okAt |-> ljob[u].okAt]
                                       ELSE IdleLive]
    BY <1>3 DEF LiveCommit, livePlan
  <2> QED
    BY <2>1 DEF JobStep
<1>4. ASSUME NEW u \in LiveWorker, LiveBeat(u) \/ LiveFails(u) PROVE JobStep(w) /\ DOMAIN ljob' = LiveWorker
  <2>1. ljob' = [ljob EXCEPT ![u] = IdleLive]
    BY <1>4 DEF LiveBeat, LiveFails
  <2> QED
    BY <2>1 DEF JobStep
<1>5. CASE UNCHANGED ljob
  BY <1>5 DEF JobStep
<1>6. \/ UNCHANGED ljob
      \/ \E u \in LiveWorker : LiveBegin(u) \/ LiveFetch(u) \/ LiveCommit(u) \/ LiveBeat(u) \/ LiveFails(u)
  BY DEF LiveNext, liveVars, SourceMoves, TimePasses, CoreFetches, CoreStores, LifecycleTick,
         ScheduleLive, DeliverLive, LiveSkip
<1> QED
  BY <1>1, <1>2, <1>3, <1>4, <1>5, <1>6

\* A job that tries after a step tried before, has just taken its timestamp, or
\* has just fetched.
Began(w) ==
    /\ ljob'[w].pc = "fetch" /\ ljob'[w].req \in liveQueue
    /\ ljob'[w].t = liveClock + 1 /\ ljob'[w].floor = source.version
    /\ liveClock' = liveClock + 1 /\ UNCHANGED <<source, gw, promised, liveCache, staged>>
    /\ \A u \in LiveWorker \ {w} : ljob'[u] = ljob[u]
Fetched(w) ==
    /\ ljob[w].pc = "fetch" /\ ljob'[w].pc = "commit"
    /\ ljob'[w].req = ljob[w].req /\ ljob'[w].t = ljob[w].t /\ ljob'[w].floor = ljob[w].floor
    /\ ljob'[w].version = source.version /\ ljob'[w].stage = source.stage
    /\ ljob'[w].okAt = liveClock + 1 /\ ljob'[w].seen = liveCache
    /\ liveClock' = liveClock + 1 /\ UNCHANGED <<source, gw, promised, liveCache, staged>>
    /\ \A u \in LiveWorker \ {w} : ljob'[u] = ljob[u]
Over(w) ==
    \/ ljob'[w].pc = "idle"
    \/ /\ ljob[w].pc = "commit" /\ ljob'[w].pc = "beat" /\ UNCHANGED <<source, liveClock>>
       /\ ljob'[w].okAt = ljob[w].okAt /\ ljob'[w].req = ljob[w].req

LEMMA JobFates ==
  ASSUME LiveTypes, [LiveNext]_liveVars, NEW w \in LiveWorker
  PROVE  ljob'[w] = ljob[w] \/ Over(w) \/ Began(w) \/ Fetched(w)
<1>1. CASE ljob'[w] = IdleLive
  BY <1>1 DEF Over, IdleLive
<1>2. CASE /\ ljob[w].pc = "commit" /\ ljob'[w] = [pc |-> "beat", req |-> ljob[w].req, okAt |-> ljob[w].okAt]
           /\ UNCHANGED <<source, liveClock>>
  BY <1>2 DEF Over
<1>3. CASE /\ \E r \in liveQueue : ljob'[w] = [pc |-> "fetch", req |-> r, t |-> liveClock + 1, floor |-> source.version]
           /\ liveClock' = liveClock + 1
           /\ UNCHANGED <<source, gw, promised, liveCache, staged>>
           /\ \A u \in LiveWorker \ {w} : ljob'[u] = ljob[u]
  BY <1>3 DEF Began
<1>4. CASE /\ ljob[w].pc = "fetch"
           /\ ljob'[w] = [pc |-> "commit", req |-> ljob[w].req, t |-> ljob[w].t, floor |-> ljob[w].floor,
                          version |-> source.version, stage |-> source.stage, okAt |-> liveClock + 1,
                          seen |-> liveCache]
           /\ liveClock' = liveClock + 1
           /\ UNCHANGED <<source, gw, promised, liveCache, staged>>
           /\ \A u \in LiveWorker \ {w} : ljob'[u] = ljob[u]
  BY <1>4 DEF Fetched
<1>5. JobStep(w)
  BY JobSteps
<1> QED
  BY <1>1, <1>2, <1>3, <1>4, <1>5, Zenon DEF JobStep

LEMMA ClockSteps ==
  ASSUME LiveTypes, [LiveNext]_liveVars PROVE ClockStep /\ UNCHANGED live
BY DEF LiveNext, liveVars, livePlan, SourceMoves, TimePasses, CoreFetches, CoreStores, LifecycleTick,
       ScheduleLive, DeliverLive, LiveSkip, LiveBegin, LiveFetch, LiveCommit, LiveBeat, LiveFails, ClockStep

\* What an accepted attempt writes.
LEMMA Accepted ==
  ASSUME LiveTypes, NEW w \in LiveWorker, LiveCommit(w), ClaimFence(ljob[w].t)
  PROVE  LET j == ljob[w] IN
         /\ j.pc = "commit" /\ gw.fence <= j.t /\ (j.req.final => gw.checked)
         /\ gw'.stage = j.stage /\ gw'.checked = gw.checked /\ gw'.fence = j.t
         /\ gw'.factsAt = IF NeedsFacts(j) THEN j.t ELSE gw.factsAt
         /\ gw'.facts = IF NeedsFacts(j) THEN j.version ELSE gw.facts
         /\ gw'.finalAt = IF j.req.final THEN j.t ELSE gw.finalAt
         /\ promised' = IF Durable(j) THEN LaterOf(promised, j.floor) ELSE promised
         /\ UNCHANGED <<source, liveCache, liveClock, liveQueue>>
         /\ gw' \in GwRecord
<1> DEFINE j == ljob[w]
<1>1. /\ j.pc = "commit" /\ gw.fence <= j.t /\ (j.req.final => gw.checked)
      /\ gw' = [stage |-> j.stage, checked |-> gw.checked, fence |-> j.t,
                factsAt |-> IF NeedsFacts(j) THEN j.t ELSE gw.factsAt,
                facts |-> IF NeedsFacts(j) THEN j.version ELSE gw.facts,
                finalAt |-> IF j.req.final THEN j.t ELSE gw.finalAt]
      /\ promised' = IF Durable(j) THEN LaterOf(promised, j.floor) ELSE promised
      /\ UNCHANGED <<source, liveCache, liveClock, liveQueue>>
  BY Zenon DEF LiveCommit, ClaimFence, livePlan
<1>2. j.stage \in 0..4 /\ j.t \in Nat /\ j.version \in Nat
  BY <1>1 DEF LiveTypes, JobTyped, Trying
<1>3. gw.checked \in BOOLEAN /\ gw.factsAt \in Nat /\ gw.facts \in Nat /\ gw.finalAt \in Nat
  BY DEF LiveTypes, GwRecord
<1>4. /\ (IF NeedsFacts(j) THEN j.t ELSE gw.factsAt) \in Nat
      /\ (IF NeedsFacts(j) THEN j.version ELSE gw.facts) \in Nat
      /\ (IF j.req.final THEN j.t ELSE gw.finalAt) \in Nat
  BY <1>2, <1>3
<1> HIDE DEF j
<1>5. gw' \in GwRecord
  BY <1>1, <1>2, <1>3, <1>4, Zenon DEF GwRecord
<1>6. /\ gw'.stage = j.stage /\ gw'.checked = gw.checked /\ gw'.fence = j.t
      /\ gw'.factsAt = IF NeedsFacts(j) THEN j.t ELSE gw.factsAt
      /\ gw'.facts = IF NeedsFacts(j) THEN j.version ELSE gw.facts
      /\ gw'.finalAt = IF j.req.final THEN j.t ELSE gw.finalAt
  BY <1>1
<1> QED
  BY <1>1, <1>5, <1>6 DEF j

\* A request that is new was planned, or is a job's that runs again; a final
\* one is planned when the gameweek is checked.
LEMMA QueueStep ==
  ASSUME LiveTypes, [LiveNext]_liveVars, NEW r \in liveQueue', r \notin liveQueue
  PROVE  /\ UNCHANGED gw /\ r \in LiveRequest
         /\ \/ r.final => gw.checked
            \/ \E w \in LiveWorker : ljob[w].pc # "idle" /\ r = ljob[w].req
<1>1. CASE LifecycleTick
  <2>1. PICK open \in WindowOpen, quiet \in BOOLEAN, periodic \in BOOLEAN :
          EnqueueLive([from |-> "cron", final |-> Lifecycle(open, quiet) = "FINALIZED",
                       persist |-> \/ Lifecycle(open, quiet) \in {"DAY_SETTLING", "GW_REVIEW", "FINALIZED"}
                                   \/ Lifecycle(open, quiet) = "LIVE_ACTIVE" /\ periodic])
    BY <1>1 DEF LifecycleTick
  <2> DEFINE done == Lifecycle(open, quiet) = "FINALIZED"
             persist == \/ Lifecycle(open, quiet) \in {"DAY_SETTLING", "GW_REVIEW", "FINALIZED"}
                        \/ Lifecycle(open, quiet) = "LIVE_ACTIVE" /\ periodic
  <2>2. done => gw.checked
    BY DEF Lifecycle
  <2>3. r = [from |-> "cron", final |-> done, persist |-> persist]
    BY <2>1 DEF EnqueueLive
  <2>4. done \in BOOLEAN /\ persist \in BOOLEAN
    OBVIOUS
  <2> HIDE DEF done, persist
  <2>5. r \in LiveRequest /\ r.final = done
    BY <2>3, <2>4 DEF LiveRequest
  <2> QED
    BY <1>1, <2>2, <2>5 DEF LifecycleTick
<1>2. CASE ScheduleLive
  <2>1. \/ \E durable \in BOOLEAN : r = [from |-> "reconcile", final |-> FALSE, persist |-> durable]
        \/ r = [from |-> "reconcile", final |-> gw.checked, persist |-> TRUE]
    BY <1>2 DEF ScheduleLive, EnqueueLive
  <2>2. gw.checked \in BOOLEAN
    BY DEF LiveTypes, GwRecord
  <2>3. r \in LiveRequest /\ (r.final => gw.checked)
    <3>1. ASSUME NEW durable \in BOOLEAN, r = [from |-> "reconcile", final |-> FALSE, persist |-> durable]
          PROVE  r \in LiveRequest /\ ~r.final
      BY <3>1 DEF LiveRequest
    <3>2. CASE r = [from |-> "reconcile", final |-> gw.checked, persist |-> TRUE]
      <4>1. r \in LiveRequest /\ r.final = gw.checked
        BY <2>2, <3>2 DEF LiveRequest
      <4> QED
        BY <4>1
    <3> QED
      BY <2>1, <3>1, <3>2
  <2> QED
    BY <1>2, <2>3 DEF ScheduleLive
<1>3. ASSUME NEW w \in LiveWorker, LiveFails(w)
      PROVE  UNCHANGED gw /\ ljob[w].pc # "idle" /\ r = ljob[w].req
  BY <1>3 DEF LiveFails
<1>4. \/ liveQueue' \subseteq liveQueue \/ LifecycleTick \/ ScheduleLive
      \/ \E w \in LiveWorker : LiveFails(w)
  BY DEF LiveNext, liveVars, SourceMoves, TimePasses, CoreFetches, CoreStores,
         DeliverLive, LiveSkip, LiveBegin, LiveFetch, LiveCommit, LiveBeat
<1>5. ASSUME NEW w \in LiveWorker, LiveFails(w) PROVE r \in LiveRequest
  BY <1>3, <1>5 DEF LiveTypes, JobTyped
<1> QED
  BY <1>1, <1>2, <1>3, <1>4, <1>5

\* A snapshot is staged by an accepted attempt that found it changed.
StagedOf(w) == [rev |-> liveRev + 1, version |-> ljob[w].version, stage |-> ljob[w].stage, at |-> ljob[w].okAt]

LEMMA StagedStep ==
  ASSUME LiveTypes, [LiveNext]_liveVars
  PROVE  \/ staged' \subseteq staged /\ liveRev' = liveRev
         \/ \E w \in LiveWorker : /\ ljob[w].pc = "commit" /\ staged' = staged \cup {StagedOf(w)}
                                  /\ liveRev' = liveRev + 1 /\ UNCHANGED <<source, liveCache, liveClock>>
<1>1. ASSUME NEW w \in LiveWorker, LiveCommit(w)
      PROVE  \/ staged' \subseteq staged /\ liveRev' = liveRev
             \/ /\ ljob[w].pc = "commit" /\ staged' = staged \cup {StagedOf(w)}
                /\ liveRev' = liveRev + 1 /\ UNCHANGED <<source, liveCache, liveClock>>
  BY <1>1 DEF LiveCommit, StageChanged, StagedOf, livePlan
<1>2. CASE \A w \in LiveWorker : ~LiveCommit(w)
  <2>1. staged' \subseteq staged /\ liveRev' = liveRev
    BY <1>2 DEF LiveNext, liveVars, livePublished, SourceMoves, TimePasses, CoreFetches, CoreStores, LifecycleTick,
           ScheduleLive, DeliverLive, LiveSkip, LiveBegin, LiveFetch, LiveBeat, LiveFails
  <2> QED
    BY <2>1
<1> QED
  BY <1>1, <1>2

\* What Redis serves changes by a delivery or by a heartbeat.
LEMMA CacheStep ==
  ASSUME LiveTypes, [LiveNext]_liveVars
  PROVE  \/ liveCache' = liveCache
         \/ liveCache' \in staged /\ liveRev' = liveRev
         \/ \E w \in LiveWorker : /\ ljob[w].pc = "beat" /\ UNCHANGED <<liveRev, liveClock, source>>
                                  /\ liveCache' = [liveCache EXCEPT !.at = LaterOf(liveCache.at, ljob[w].okAt)]
<1>1. ASSUME NEW w \in LiveWorker, LiveBeat(w)
      PROVE  /\ ljob[w].pc = "beat" /\ UNCHANGED <<liveRev, liveClock, source>>
             /\ liveCache' = [liveCache EXCEPT !.at = LaterOf(liveCache.at, ljob[w].okAt)]
  BY <1>1 DEF LiveBeat, livePlan
<1>2. CASE DeliverLive
  BY <1>2 DEF DeliverLive, Served
<1>3. CASE ~DeliverLive /\ \A w \in LiveWorker : ~LiveBeat(w)
  <2>1. liveCache' = liveCache
    BY <1>3 DEF LiveNext, liveVars, livePublished, SourceMoves, TimePasses, CoreFetches, CoreStores, LifecycleTick,
           ScheduleLive, LiveSkip, LiveBegin, LiveFetch, LiveCommit, LiveFails
  <2> QED
    BY <2>1
<1> QED
  BY <1>1, <1>2, <1>3

\* What a core sync has read.
LEMMA CoreStep ==
  ASSUME LiveTypes, [LiveNext]_liveVars, NEW c \in coreRead', c \notin coreRead
  PROVE  /\ c \in CoreRecord /\ UNCHANGED <<source, gw>>
         /\ c.pc = "store" => c.stage = source.stage /\ c.final = source.final
<1>1. CoreFetches
  BY DEF LiveNext, liveVars, livePlan, SourceMoves, TimePasses, CoreStores, LifecycleTick,
         ScheduleLive, DeliverLive, LiveSkip, LiveBegin, LiveFetch, LiveCommit, LiveBeat, LiveFails
<1>2. \/ c = [pc |-> "fetch", t |-> liveClock]
      \/ \E d \in coreRead : c = [pc |-> "store", t |-> d.t, stage |-> source.stage, final |-> source.final]
  BY <1>1 DEF CoreFetches
<1>3. UNCHANGED <<source, gw>>
  BY <1>1 DEF CoreFetches
<1>4. liveClock \in Nat /\ source.stage \in 0..4 /\ source.final \in BOOLEAN /\ \A d \in coreRead : d.t \in Nat
  BY LiveAssumption DEF LiveTypes, SourceRecord, CoreRecord
<1>5. CASE c = [pc |-> "fetch", t |-> liveClock]
  BY <1>3, <1>4, <1>5 DEF CoreRecord
<1>6. ASSUME NEW d \in coreRead, c = [pc |-> "store", t |-> d.t, stage |-> source.stage, final |-> source.final]
      PROVE  c \in CoreRecord /\ c.stage = source.stage /\ c.final = source.final
  BY <1>4, <1>6 DEF CoreRecord
<1> QED
  BY <1>2, <1>3, <1>5, <1>6

(***************************************************************************)
(* The steps keep the invariant.                                           *)
(***************************************************************************)

\* The types of a job after a step.
LEMMA JobTypedNext ==
  ASSUME LiveTypes, [LiveNext]_liveVars, NEW w \in LiveWorker PROVE JobTyped(w)'
<1>0. JobTyped(w) /\ liveClock + 1 \in Nat /\ source.version \in Nat /\ source.stage \in 0..4
      /\ liveCache \in SnapshotRecord
  BY LiveAssumption DEF LiveTypes, SourceRecord
<1>1. CASE ljob'[w] = ljob[w]
  BY <1>0, <1>1 DEF JobTyped, Trying
<1>2. CASE ljob'[w] = IdleLive
  BY <1>2 DEF IdleLive, JobTyped, Trying
<1>3. CASE ljob[w].pc = "commit" /\ ljob'[w] = [pc |-> "beat", req |-> ljob[w].req, okAt |-> ljob[w].okAt]
  BY <1>0, <1>3 DEF JobTyped, Trying
<1>4. ASSUME NEW r \in liveQueue,
             ljob'[w] = [pc |-> "fetch", req |-> r, t |-> liveClock + 1, floor |-> source.version]
      PROVE  JobTyped(w)'
  BY <1>0, <1>4 DEF JobTyped, Trying, LiveTypes
<1>5. CASE /\ ljob[w].pc = "fetch"
           /\ ljob'[w] = [pc |-> "commit", req |-> ljob[w].req, t |-> ljob[w].t, floor |-> ljob[w].floor,
                          version |-> source.version, stage |-> source.stage, okAt |-> liveClock + 1,
                          seen |-> liveCache]
  BY <1>0, <1>5 DEF JobTyped, Trying
<1> QED
  BY <1>1, <1>2, <1>3, <1>4, <1>5, JobSteps DEF JobStep

LEMMA LiveTypesNext ==
  ASSUME LiveTypes, LiveBounds, FinalKnown, [LiveNext]_liveVars PROVE LiveTypes'
<1>1. live' \in LiveCase /\ liveClock' \in 0..live'.stamps
  <2>1. live.stamps \in Nat
    BY LiveAssumption DEF LiveTypes
  <2> QED
    BY <2>1, ClockSteps DEF LiveTypes, ClockStep
<1>2. source' \in SourceRecord
  BY SourceSteps DEF SourceStep, LiveTypes
<1>3. coreRead' \subseteq CoreRecord
  BY CoreStep DEF LiveTypes
<1>4. gw' \in GwRecord /\ promised' \in Nat
  <2>1. CASE UNCHANGED <<gw, promised>>
    BY <2>1 DEF LiveTypes
  <2>2. CASE CoreStores
    <3>1. PICK c \in coreRead : c.pc = "store" /\ gw' = [gw EXCEPT !.stage = FixturesOf(c), !.checked = c.final]
      BY <2>2 DEF CoreStores
    <3>2. gw \in GwRecord /\ FixturesOf(c) \in 0..4 /\ c.final \in BOOLEAN
      BY <3>1 DEF LiveTypes, FixturesOf, GwRecord, CoreRecord
    <3> QED
      BY <2>2, <3>1, <3>2 DEF CoreStores, GwRecord, LiveTypes
  <2>3. ASSUME NEW w \in LiveWorker, LiveCommit(w) PROVE gw' \in GwRecord /\ promised' \in Nat
    <3>1. CASE ClaimFence(ljob[w].t)
      <4>1. ljob[w].floor \in Nat /\ promised \in Nat
        BY <2>3, <3>1, Accepted DEF LiveTypes, JobTyped, Trying
      <4> QED
        BY <2>3, <3>1, <4>1, Accepted DEF LaterOf
    <3>2. CASE ~ClaimFence(ljob[w].t)
      BY <2>3, <3>2 DEF LiveCommit, LiveTypes
    <3> QED
      BY <3>1, <3>2
  <2>4. UNCHANGED <<gw, promised>> \/ CoreStores \/ \E w \in LiveWorker : LiveCommit(w)
    BY DEF LiveNext, liveVars, SourceMoves, TimePasses, CoreFetches, LifecycleTick,
           ScheduleLive, DeliverLive, LiveSkip, LiveBegin, LiveFetch, LiveBeat, LiveFails
  <2> QED
    BY <2>1, <2>2, <2>3, <2>4
<1>5. staged' \subseteq SnapshotRecord /\ liveRev' \in Nat
  <2>1. \A w \in LiveWorker : ljob[w].pc = "commit" => StagedOf(w) \in SnapshotRecord
    BY DEF LiveTypes, JobTyped, StagedOf, SnapshotRecord
  <2> QED
    BY <2>1, StagedStep DEF LiveTypes
<1>6. liveCache' \in SnapshotRecord
  <2>1. ASSUME NEW w \in LiveWorker, ljob[w].pc = "beat"
        PROVE  [liveCache EXCEPT !.at = LaterOf(liveCache.at, ljob[w].okAt)] \in SnapshotRecord
    <3>1. LaterOf(liveCache.at, ljob[w].okAt) \in Nat /\ liveCache \in SnapshotRecord
      BY <2>1 DEF LiveTypes, JobTyped, LaterOf, SnapshotRecord
    <3> QED
      BY <3>1 DEF SnapshotRecord
  <2> QED
    BY <2>1, CacheStep DEF LiveTypes
<1>7. liveQueue' \subseteq LiveRequest
  BY QueueStep DEF LiveTypes
<1>8. \A w \in LiveWorker : JobTyped(w)'
  BY JobTypedNext
<1>9. DOMAIN ljob' = LiveWorker
  BY DEF LiveTypes, LiveNext, liveVars, SourceMoves, TimePasses, CoreFetches, CoreStores, LifecycleTick,
         ScheduleLive, DeliverLive, LiveSkip, LiveBegin, LiveFetch, LiveCommit, LiveBeat, LiveFails
<1>10. day' \in 0..5 /\ liveFaults' \in 0..live'.faults
  <2>1. /\ day' = day \/ (day < 5 /\ day' = day + 1)
        /\ liveFaults' = liveFaults \/ (liveFaults < live.faults /\ liveFaults' = liveFaults + 1)
        /\ live' = live
    BY DEF LiveNext, liveVars, livePlan, SourceMoves, TimePasses, CoreFetches, CoreStores, LifecycleTick,
           ScheduleLive, DeliverLive, LiveSkip, LiveBegin, LiveFetch, LiveCommit, LiveBeat, LiveFails
  <2>2. live.faults \in Nat
    BY LiveAssumption DEF LiveTypes
  <2> QED
    BY <2>1, <2>2 DEF LiveTypes
<1> QED
  BY <1>1, <1>2, <1>3, <1>4, <1>5, <1>6, <1>7, <1>8, <1>9, <1>10 DEF LiveTypes

\* Stored facts and attempts stay ahead of points that were current earlier.
LEMMA BehindNext ==
  ASSUME LiveIInv, [LiveNext]_liveVars, LiveTypes', NEW v \in Nat, NEW at \in Nat, Behind(v, at)
  PROVE  Behind(v, at)'
<1> USE DEF LiveIInv
<1>0. /\ source.version \in Nat /\ source'.version \in Nat /\ liveClock \in Nat /\ liveClock' \in Nat
      /\ source.version <= source'.version /\ liveClock <= liveClock'
      /\ gw.factsAt \in Nat /\ gw.facts \in Nat
  <2>1. source.version \in Nat /\ source'.version \in Nat /\ gw.factsAt \in Nat /\ gw.facts \in Nat
    BY DEF LiveTypes, SourceRecord, GwRecord
  <2>2. liveClock \in Nat /\ liveClock' \in Nat
    BY LiveAssumption DEF LiveTypes
  <2>3. source.version <= source'.version
    BY <2>1, SourceSteps DEF SourceStep
  <2>4. liveClock <= liveClock'
    BY <2>2, ClockSteps DEF ClockStep
  <2> QED
    BY <2>1, <2>2, <2>3, <2>4
<1>1. v <= source'.version /\ at <= liveClock'
  BY <1>0 DEF Behind
<1>2. gw'.factsAt # 0 /\ gw'.factsAt >= at => gw'.facts >= v
  <2>1. CASE gw'.factsAt = gw.factsAt /\ gw'.facts = gw.facts
    BY <2>1 DEF Behind
  <2>2. ASSUME NEW w \in LiveWorker, LiveCommit(w), ClaimFence(ljob[w].t)
        PROVE  gw'.factsAt # 0 /\ gw'.factsAt >= at => gw'.facts >= v
    <3>1. ljob[w].pc = "commit"
      BY <2>2, Accepted
    <3>2. /\ ljob[w].t \in Nat /\ ljob[w].floor \in Nat /\ ljob[w].version \in Nat
          /\ ljob[w].floor <= ljob[w].version
          /\ ljob[w].t >= at => ljob[w].floor >= v
      BY <3>1 DEF LiveTypes, JobTyped, LiveBounds, Behind, Trying
    <3>3. CASE NeedsFacts(ljob[w])
      BY <2>2, <3>2, <3>3, Accepted
    <3>4. CASE ~NeedsFacts(ljob[w])
      BY <2>2, <3>4, Accepted DEF Behind
    <3> QED
      BY <3>3, <3>4
  <2> QED
    BY <2>1, <2>2, GwSteps DEF GwStep
<1>3. ASSUME NEW w \in LiveWorker, Trying(w)', ljob'[w].t >= at PROVE ljob'[w].floor >= v
  <2>1. CASE ljob'[w] = ljob[w]
    BY <1>3, <2>1 DEF Behind, Trying
  <2>2. CASE Began(w)
    BY <1>0, <2>2 DEF Began, Behind
  <2>3. CASE Fetched(w)
    BY <1>3, <2>3 DEF Fetched, Behind, Trying
  <2> QED
    BY <1>3, <2>1, <2>2, <2>3, JobFates DEF Over, Trying
<1> QED
  BY <1>1, <1>2, <1>3 DEF Behind, Trying

LEMMA SnapshotsBehindNext ==
  ASSUME LiveIInv, [LiveNext]_liveVars, LiveTypes' PROVE SnapshotsBehind'
<1> USE DEF LiveIInv
<1>0. /\ source.version \in Nat /\ liveClock \in Nat /\ gw.factsAt \in Nat /\ gw.fence \in Nat
      /\ liveCache.version \in Nat /\ liveCache.at \in Nat
      /\ \A p \in staged : p.version \in Nat /\ p.at \in Nat
  BY LiveAssumption DEF LiveTypes, SourceRecord, GwRecord, SnapshotRecord
<1>1. Behind(liveCache.version, liveCache.at)' /\ \A p \in staged : Behind(p.version, p.at)'
  <2>1. ASSUME NEW p \in staged PROVE Behind(p.version, p.at)'
    BY <1>0, <2>1, BehindNext DEF SnapshotsBehind
  <2>2. CASE liveCache' = liveCache
    BY <1>0, <2>2, BehindNext DEF SnapshotsBehind, Behind, Trying
  <2>3. CASE liveCache' \in staged
    BY <2>1, <2>3 DEF Behind, Trying
  <2>4. ASSUME NEW w \in LiveWorker, ljob[w].pc = "beat", UNCHANGED <<liveRev, liveClock, source>>,
               liveCache' = [liveCache EXCEPT !.at = LaterOf(liveCache.at, ljob[w].okAt)]
        PROVE  Behind(liveCache.version, liveCache.at)'
    <3>1. Behind(liveCache.version, liveCache.at) /\ liveCache \in SnapshotRecord
          /\ ljob[w].okAt \in Nat /\ ljob[w].okAt <= liveClock
      BY <2>4 DEF SnapshotsBehind, LiveBounds, LiveTypes, JobTyped
    <3>2. LaterOf(liveCache.at, ljob[w].okAt) \in Nat /\ LaterOf(liveCache.at, ljob[w].okAt) >= liveCache.at
          /\ LaterOf(liveCache.at, ljob[w].okAt) <= liveClock
      BY <1>0, <3>1 DEF LaterOf, Behind
    <3>3. /\ liveCache'.version = liveCache.version /\ liveCache'.at \in Nat
          /\ liveCache'.at >= liveCache.at /\ liveCache'.at <= liveClock
      BY <2>4, <3>1, <3>2 DEF SnapshotRecord
    <3>4. Behind(liveCache.version, liveCache'.at)
      <4>1. \A w1 \in LiveWorker : Trying(w1) => ljob[w1].t \in Nat
        BY DEF LiveTypes, JobTyped
      <4> QED
        BY <1>0, <3>1, <3>3, <4>1 DEF Behind
    <3> DEFINE v == liveCache.version
               at == liveCache'.at
    <3>5. v \in Nat /\ at \in Nat /\ Behind(v, at) /\ liveCache'.version = v
      BY <1>0, <3>3, <3>4
    <3>6. /\ v <= source'.version /\ at <= liveClock'
          /\ gw'.factsAt # 0 /\ gw'.factsAt >= at => gw'.facts >= v
          /\ \A w1 \in LiveWorker : ljob'[w1].pc \in {"fetch", "commit"} /\ ljob'[w1].t >= at => ljob'[w1].floor >= v
      <4>1. ASSUME NEW x \in Nat, NEW y \in Nat, Behind(x, y)
            PROVE  /\ x <= source'.version /\ y <= liveClock'
                   /\ gw'.factsAt # 0 /\ gw'.factsAt >= y => gw'.facts >= x
                   /\ \A w1 \in LiveWorker : ljob'[w1].pc \in {"fetch", "commit"} /\ ljob'[w1].t >= y => ljob'[w1].floor >= x
        BY <4>1, BehindNext DEF Behind, Trying
      <4> HIDE DEF v, at
      <4> QED
        BY <3>5, <4>1
    <3> QED
      BY <3>5, <3>6 DEF Behind, Trying
  <2> QED
    BY <2>1, <2>2, <2>3, <2>4, CacheStep
<1>2. ASSUME NEW v \in Nat, NEW at \in Nat, Behind(v, at) PROVE Behind(v, at)'
  BY <1>2, BehindNext
\* What a job has just fetched was read after every timestamp taken so far.
<1>3. ASSUME NEW w \in LiveWorker, ljob'[w].pc = "commit"
      PROVE  Behind(ljob[w].version, ljob[w].okAt)' /\ Behind(ljob[w].seen.version, ljob[w].seen.at)'
  <2>1. CASE ljob'[w] = ljob[w]
    <3>1. PICK v \in Nat, at \in Nat, v2 \in Nat, at2 \in Nat :
            /\ v = ljob[w].version /\ at = ljob[w].okAt /\ v2 = ljob[w].seen.version /\ at2 = ljob[w].seen.at
      BY <1>3, <2>1 DEF LiveTypes, JobTyped, SnapshotRecord
    <3>2. Behind(v, at)' /\ Behind(v2, at2)'
      BY <1>2, <1>3, <2>1, <3>1 DEF SnapshotsBehind
    <3> QED
      BY <2>1, <3>1, <3>2 DEF Behind, Trying
  <2>2. CASE Fetched(w)
    <3>1. Behind(ljob[w].seen.version, ljob[w].seen.at)'
      BY <1>1, <2>2 DEF Fetched, Behind, Trying
    <3>2. gw'.factsAt < liveClock + 1
      BY <1>0, <2>2 DEF Fetched, LiveBounds, FactsBehindFence
    <3>3. ASSUME NEW u \in LiveWorker, Trying(u)' PROVE ljob'[u].t \in Nat /\ ljob'[u].t < liveClock + 1
      BY <1>0, <2>2, <3>3 DEF Fetched, LiveBounds, LiveTypes, JobTyped, Trying
    <3>4. ljob'[w].version = source.version /\ ljob'[w].okAt = liveClock + 1 /\ liveClock' = liveClock + 1
          /\ source' = source /\ gw' = gw
      BY <2>2 DEF Fetched
    <3>5. Behind(ljob[w].version, ljob[w].okAt)'
      <4>1. /\ ljob'[w].version <= source'.version /\ ljob'[w].okAt <= liveClock'
            /\ ~(gw'.factsAt >= ljob'[w].okAt)
        BY <1>0, <3>2, <3>4
      <4>2. \A u \in LiveWorker : ~(Trying(u)' /\ ljob'[u].t >= ljob'[w].okAt)
        BY <1>0, <3>3, <3>4
      <4> QED
        BY <4>1, <4>2 DEF Behind, Trying
    <3> QED
      BY <3>1, <3>5
  <2> QED
    BY <1>3, <2>1, <2>2, JobFates DEF Over, Began
<1>4. ASSUME NEW p \in staged' PROVE Behind(p.version, p.at)'
  <2>1. CASE p \in staged
    BY <1>1, <2>1
  <2>2. ASSUME NEW w \in LiveWorker, ljob[w].pc = "commit", p = StagedOf(w)
        PROVE  Behind(p.version, p.at)'
    <3>1. p.version = ljob[w].version /\ p.at = ljob[w].okAt
      BY <2>2 DEF StagedOf
    <3>2. p.version \in Nat /\ p.at \in Nat /\ Behind(p.version, p.at)
      BY <2>2, <3>1 DEF SnapshotsBehind, LiveTypes, JobTyped
    <3> QED
      BY <1>2, <3>2
  <2> QED
    BY <1>4, <2>1, <2>2, StagedStep
<1> QED
  BY <1>1, <1>3, <1>4 DEF SnapshotsBehind

\* The numbers of a state and of the next.
LEMMA LiveNumbers ==
  ASSUME LiveIInv, [LiveNext]_liveVars, LiveTypes'
  PROVE  /\ source.version \in Nat /\ source'.version \in Nat /\ source.version <= source'.version
         /\ liveClock \in Nat /\ liveClock' \in Nat /\ liveClock <= liveClock'
         /\ liveRev \in Nat /\ liveRev' \in Nat /\ promised \in Nat /\ promised' \in Nat
         /\ gw.fence \in Nat /\ gw.factsAt \in Nat /\ gw.facts \in Nat /\ gw.finalAt \in Nat
         /\ live.versions \in Nat /\ live' = live
         /\ \A w \in LiveWorker : Trying(w) => ljob[w].t \in Nat /\ ljob[w].floor \in Nat
<1>1. source.version \in Nat /\ source'.version \in Nat
      /\ gw.fence \in Nat /\ gw.factsAt \in Nat /\ gw.facts \in Nat /\ gw.finalAt \in Nat
  BY DEF LiveIInv, LiveTypes, SourceRecord, GwRecord
<1>2. liveClock \in Nat /\ liveClock' \in Nat /\ live.versions \in Nat /\ live' = live
      /\ liveRev \in Nat /\ liveRev' \in Nat /\ promised \in Nat /\ promised' \in Nat
  BY LiveAssumption, ClockSteps DEF LiveIInv, LiveTypes
<1>3. source.version <= source'.version
  BY <1>1, SourceSteps DEF SourceStep, LiveIInv
<1>4. liveClock <= liveClock'
  BY <1>2, ClockSteps DEF ClockStep, LiveIInv
<1>5. \A w \in LiveWorker : Trying(w) => ljob[w].t \in Nat /\ ljob[w].floor \in Nat
  BY DEF LiveIInv, LiveTypes, JobTyped
<1> QED
  BY <1>1, <1>2, <1>3, <1>4, <1>5

LEMMA LiveBoundsNext ==
  ASSUME LiveIInv, [LiveNext]_liveVars, LiveTypes' PROVE LiveBounds'
<1> USE LiveNumbers DEF LiveIInv
<1>1. source'.version <= live'.versions
  BY SourceSteps DEF SourceStep, LiveBounds
<1>2. \A p \in staged' : p.rev <= liveRev'
  <2>1. \A p \in staged : p.rev \in Nat /\ p.rev <= liveRev
    BY DEF LiveTypes, SnapshotRecord, LiveBounds
  <2>2. CASE staged' \subseteq staged /\ liveRev' = liveRev
    BY <2>1, <2>2
  <2>3. ASSUME NEW w \in LiveWorker, staged' = staged \cup {StagedOf(w)}, liveRev' = liveRev + 1
        PROVE  \A p \in staged' : p.rev <= liveRev'
    <3>1. StagedOf(w).rev = liveRev + 1
      BY DEF StagedOf
    <3> QED
      BY <2>1, <2>3, <3>1
  <2> QED
    BY <2>2, <2>3, StagedStep
<1>3. liveCache'.rev <= liveRev'
  <2>1. liveCache \in SnapshotRecord /\ liveCache.rev <= liveRev /\ \A p \in staged : p.rev <= liveRev
    BY DEF LiveTypes, LiveBounds
  <2>2. liveRev <= liveRev'
    BY StagedStep
  <2>3. liveCache'.rev = liveCache.rev \/ \E p \in staged : liveCache' = p /\ liveRev' = liveRev
    BY <2>1, CacheStep DEF SnapshotRecord
  <2>4. liveCache.rev \in Nat
    BY <2>1 DEF SnapshotRecord
  <2> QED
    BY <2>1, <2>2, <2>3, <2>4
<1>4. gw'.fence <= liveClock'
  <2>1. CASE gw'.fence = gw.fence
    BY <2>1 DEF LiveBounds
  <2>2. ASSUME NEW w \in LiveWorker, LiveCommit(w), ClaimFence(ljob[w].t) PROVE gw'.fence <= liveClock'
    <3>1. Trying(w) /\ gw'.fence = ljob[w].t /\ liveClock' = liveClock
      BY <2>2, Accepted DEF Trying
    <3> QED
      BY <3>1 DEF LiveBounds
  <2> QED
    BY <2>1, <2>2, GwSteps DEF GwStep
<1>5. ASSUME NEW w \in LiveWorker
      PROVE  /\ Trying(w)' => ljob'[w].t <= liveClock' /\ ljob'[w].floor <= source'.version
             /\ ljob'[w].pc = "commit" => ljob'[w].floor <= ljob'[w].version
             /\ ljob'[w].pc = "beat" => ljob'[w].okAt <= liveClock'
  <2>1. CASE ljob'[w] = ljob[w]
    <3>1. /\ Trying(w) => ljob[w].t <= liveClock' /\ ljob[w].floor <= source'.version
      BY DEF LiveBounds
    <3>2. ljob[w].pc = "beat" => ljob[w].okAt \in Nat /\ ljob[w].okAt <= liveClock
      BY DEF LiveBounds, LiveTypes, JobTyped
    <3> QED
      BY <2>1, <3>1, <3>2 DEF LiveBounds, Trying
  <2>2. CASE Over(w)
    <3>1. ljob'[w].pc = "beat" => ljob[w].pc = "commit" /\ ljob'[w].okAt = ljob[w].okAt
      BY <2>2 DEF Over
    <3>2. ljob[w].pc = "commit" => ljob[w].okAt \in Nat /\ ljob[w].okAt <= liveClock
      BY DEF SnapshotsBehind, Behind, LiveTypes, JobTyped
    <3> QED
      BY <2>2, <3>1, <3>2 DEF Over, Trying
  <2>3. CASE Began(w)
    BY <2>3 DEF Began
  <2>4. CASE Fetched(w)
    BY <2>4 DEF Fetched, LiveBounds, Trying
  <2> QED
    BY <2>1, <2>2, <2>3, <2>4, JobFates
<1> QED
  BY <1>1, <1>2, <1>3, <1>4, <1>5 DEF LiveBounds, Trying

LEMMA AttemptsInOrderNext ==
  ASSUME LiveIInv, [LiveNext]_liveVars, LiveTypes' PROVE AttemptsInOrder'
<1> USE LiveNumbers DEF LiveIInv
\* A job that tries has the timestamp and the floor it had, or the latest.
<1>1. ASSUME NEW w \in LiveWorker, Trying(w)'
      PROVE  \/ Trying(w) /\ ljob'[w].t = ljob[w].t /\ ljob'[w].floor = ljob[w].floor
             \/ Began(w)
  <2>1. CASE ljob'[w] = ljob[w]
    BY <1>1, <2>1 DEF Trying
  <2>2. CASE Fetched(w)
    BY <2>2 DEF Fetched, Trying
  <2> QED
    BY <1>1, <2>1, <2>2, JobFates DEF Over, Trying
<1>2. \A w \in LiveWorker : Trying(w) => ljob[w].t <= liveClock /\ ljob[w].floor <= source.version
  BY DEF LiveBounds
<1>3. ASSUME NEW u \in LiveWorker, NEW w \in LiveWorker, Trying(u)', Trying(w)', ljob'[u].t <= ljob'[w].t
      PROVE  ljob'[u].floor <= ljob'[w].floor
  <2>1. CASE Began(w)
    <3>1. CASE u = w
      BY <2>1, <3>1 DEF Began
    <3>2. CASE u # w
      BY <1>2, <1>3, <2>1, <3>2 DEF Began, Trying
    <3> QED
      BY <3>1, <3>2
  <2>2. CASE ~Began(w) /\ Began(u)
    <3>1. ljob'[u].t = liveClock + 1 /\ Trying(w) /\ ljob'[w].t = ljob[w].t
      BY <1>1, <1>3, <2>2 DEF Began
    <3> QED
      BY <1>2, <1>3, <3>1
  <2>3. CASE ~Began(w) /\ ~Began(u)
    BY <1>1, <1>3, <2>3 DEF AttemptsInOrder
  <2> QED
    BY <2>1, <2>2, <2>3
<1>4. promised' <= source'.version
      /\ \A w \in LiveWorker : Trying(w)' /\ gw'.fence <= ljob'[w].t => promised' <= ljob'[w].floor
  <2>1. CASE promised' = promised /\ gw'.fence = gw.fence
    <3>1. promised' <= source'.version
      BY <2>1 DEF AttemptsInOrder
    <3>2. ASSUME NEW w \in LiveWorker, Trying(w)', gw'.fence <= ljob'[w].t PROVE promised' <= ljob'[w].floor
      <4>1. CASE Began(w)
        BY <2>1, <4>1 DEF Began, AttemptsInOrder
      <4>2. CASE ~Began(w)
        BY <1>1, <2>1, <3>2, <4>2 DEF AttemptsInOrder
      <4> QED
        BY <4>1, <4>2
    <3> QED
      BY <3>1, <3>2
  <2>2. ASSUME NEW x \in LiveWorker, LiveCommit(x), ClaimFence(ljob[x].t)
        PROVE  /\ promised' <= source'.version
               /\ \A w \in LiveWorker : Trying(w)' /\ gw'.fence <= ljob'[w].t => promised' <= ljob'[w].floor
    <3>1. /\ Trying(x) /\ gw.fence <= ljob[x].t /\ gw'.fence = ljob[x].t
          /\ promised' = promised \/ promised' = LaterOf(promised, ljob[x].floor)
          /\ liveClock' = liveClock
      BY <2>2, Accepted DEF Trying
    <3>2. promised' = promised \/ promised' = ljob[x].floor
      BY <3>1 DEF LaterOf
    <3>3. promised' <= source'.version
      BY <1>2, <3>1, <3>2 DEF AttemptsInOrder
    <3>4. ASSUME NEW w \in LiveWorker, Trying(w)', gw'.fence <= ljob'[w].t PROVE promised' <= ljob'[w].floor
      <4>1. Trying(w) /\ ljob'[w].t = ljob[w].t /\ ljob'[w].floor = ljob[w].floor
        BY <1>1, <3>1, <3>4 DEF Began
      <4>2. ljob[x].t <= ljob[w].t /\ gw.fence <= ljob[w].t
        BY <3>1, <3>4, <4>1
      <4>3. ljob[x].floor <= ljob[w].floor /\ promised <= ljob[w].floor
        BY <3>1, <4>1, <4>2 DEF AttemptsInOrder
      <4> QED
        BY <3>2, <4>1, <4>3
    <3> QED
      BY <3>3, <3>4
  <2> QED
    BY <2>1, <2>2, GwSteps DEF GwStep
<1> QED
  BY <1>3, <1>4 DEF AttemptsInOrder, Trying

LEMMA FactsNext ==
  ASSUME LiveIInv, [LiveNext]_liveVars, LiveTypes' PROVE DurablePollIsKept' /\ FactsBehindFence'
<1> USE LiveNumbers DEF LiveIInv
<1>1. CASE /\ promised' = promised /\ gw'.facts = gw.facts /\ gw'.factsAt = gw.factsAt
           /\ gw'.fence = gw.fence /\ gw'.finalAt = gw.finalAt
  BY <1>1 DEF DurablePollIsKept, FactsBehindFence
<1>2. ASSUME NEW w \in LiveWorker, LiveCommit(w), ClaimFence(ljob[w].t)
      PROVE  DurablePollIsKept' /\ FactsBehindFence'
  <2> DEFINE j == ljob[w]
  <2>1. /\ j.pc = "commit" /\ gw.fence <= j.t /\ gw'.fence = j.t
        /\ gw'.factsAt = IF NeedsFacts(j) THEN j.t ELSE gw.factsAt
        /\ gw'.facts = IF NeedsFacts(j) THEN j.version ELSE gw.facts
        /\ gw'.finalAt = IF j.req.final THEN j.t ELSE gw.finalAt
        /\ promised' = IF Durable(j) THEN LaterOf(promised, j.floor) ELSE promised
    BY <1>2, Accepted
  <2>2. /\ j.t \in Nat /\ j.floor \in Nat /\ j.version \in Nat /\ j.seen.version \in Nat /\ j.seen.at \in Nat
        /\ j.floor <= j.version /\ promised <= j.floor
    BY <2>1 DEF LiveTypes, JobTyped, SnapshotRecord, LiveBounds, AttemptsInOrder, Trying
  <2>3. j.req.final => NeedsFacts(j)
    BY DEF NeedsFacts, Durable
  <2>4. FactsBehindFence'
    BY <2>1, <2>2, <2>3 DEF FactsBehindFence
  <2>5. CASE NeedsFacts(j)
    BY <2>1, <2>2, <2>4, <2>5 DEF DurablePollIsKept, LaterOf
  \* The stored facts are of an attempt that began after the same snapshot was seen.
  <2>6. CASE ~NeedsFacts(j) /\ Durable(j)
    <3>1. j.seen.version = j.version /\ gw.factsAt # 0 /\ ~(gw.factsAt < j.seen.at)
      BY <2>6 DEF NeedsFacts, Unchanged
    <3>2. gw.facts >= j.seen.version
      BY <2>1, <2>2, <3>1 DEF SnapshotsBehind, Behind
    <3> QED
      BY <2>1, <2>2, <2>4, <2>6, <3>1, <3>2 DEF DurablePollIsKept, LaterOf
  <2>7. CASE ~NeedsFacts(j) /\ ~Durable(j)
    BY <2>1, <2>4, <2>7 DEF DurablePollIsKept
  <2> QED
    BY <2>5, <2>6, <2>7
<1> QED
  BY <1>1, <1>2, GwSteps DEF GwStep

\* Once FPL is final, and once that is known, it stays so.
LEMMA FinalStays ==
  ASSUME LiveIInv, [LiveNext]_liveVars
  PROVE  /\ source.final => source' = source
         /\ gw.checked => gw'.checked
         /\ gw'.checked => source'.final
         /\ source'.final => source'.stage = 4
         /\ gw.finalAt # 0 => source.final /\ gw.checked
<1> USE DEF LiveIInv
<1>1. source.final => source' = source
  BY SourceSteps DEF SourceStep
<1>2. source'.final => source'.stage = 4
  BY SourceSteps DEF SourceStep, FinalKnown
<1>3. (gw.checked => gw'.checked) /\ (gw'.checked => source'.final)
  <2>1. CASE UNCHANGED gw
    BY <1>1, <2>1 DEF FinalKnown
  <2>2. ASSUME NEW c \in coreRead, c.pc = "store", gw'.checked = c.final, UNCHANGED source
        PROVE  (gw.checked => gw'.checked) /\ (gw'.checked => source'.final)
    BY <2>2 DEF FinalKnown
  <2>3. ASSUME NEW w \in LiveWorker, LiveCommit(w), ClaimFence(ljob[w].t)
        PROVE  (gw.checked => gw'.checked) /\ (gw'.checked => source'.final)
    <3>1. gw'.checked = gw.checked /\ source' = source
      BY <2>3, Accepted
    <3> QED
      BY <3>1 DEF FinalKnown
  <2> QED
    BY <2>1, <2>2, <2>3, GwSteps DEF GwStep
<1>4. gw.finalAt # 0 => source.final /\ gw.checked
  BY DEF FinalFactsAreFinal
<1> QED
  BY <1>1, <1>2, <1>3, <1>4

LEMMA FinalKnownNext ==
  ASSUME LiveIInv, [LiveNext]_liveVars, LiveTypes' PROVE FinalKnown'
<1> USE DEF LiveIInv
<1>1. ASSUME NEW c \in coreRead', c.pc = "store"
      PROVE  (c.final => source'.final /\ c.stage = 4) /\ (gw'.checked => c.final)
  <2>1. CASE c \notin coreRead
    <3>1. UNCHANGED <<source, gw>> /\ c.stage = source.stage /\ c.final = source.final
      BY <1>1, <2>1, CoreStep
    <3> QED
      BY <3>1 DEF FinalKnown
  <2>2. CASE c \in coreRead
    <3>1. gw'.checked = gw.checked
      <4>1. CASE CoreStores
        BY <1>1, <4>1 DEF CoreStores
      <4>2. ASSUME NEW w \in LiveWorker, LiveCommit(w), ClaimFence(ljob[w].t) PROVE gw'.checked = gw.checked
        BY <4>2, Accepted
      <4>3. ASSUME NEW w \in LiveWorker, LiveCommit(w), ~ClaimFence(ljob[w].t) PROVE gw'.checked = gw.checked
        BY <4>3 DEF LiveCommit
      <4>4. UNCHANGED gw \/ CoreStores \/ \E w \in LiveWorker : LiveCommit(w)
        BY DEF LiveNext, liveVars, SourceMoves, TimePasses, CoreFetches, LifecycleTick,
               ScheduleLive, DeliverLive, LiveSkip, LiveBegin, LiveFetch, LiveBeat, LiveFails
      <4> QED
        BY <4>1, <4>2, <4>3, <4>4
    <3> QED
      BY <1>1, <2>2, <3>1, FinalStays DEF FinalKnown
  <2> QED
    BY <2>1, <2>2
<1>2. ASSUME NEW r \in liveQueue', r.final PROVE gw'.checked
  <2>1. CASE r \in liveQueue
    BY <1>2, <2>1, FinalStays DEF FinalKnown
  <2>2. CASE r \notin liveQueue
    <3>1. gw.checked
      BY <1>2, <2>2, QueueStep DEF FinalKnown
    <3> QED
      BY <3>1, FinalStays
  <2> QED
    BY <2>1, <2>2
<1>3. ASSUME NEW w \in LiveWorker, ljob'[w].pc # "idle", ljob'[w].req.final PROVE gw'.checked
  <2>1. (ljob[w].pc # "idle" /\ ljob'[w].req = ljob[w].req) \/ ljob'[w].req \in liveQueue
    BY <1>3, JobFates DEF Over, Began, Fetched
  <2>2. gw.checked
    BY <1>3, <2>1 DEF FinalKnown
  <2> QED
    BY <2>2, FinalStays
<1>4. ASSUME NEW w \in LiveWorker, ljob'[w].pc = "commit", Settled(w)'
      PROVE  ljob'[w].version = source'.version /\ ljob'[w].stage = 4
  \* A final attempt that tries tried before, or is younger than this one.
  <2>1. CASE ljob'[w] = ljob[w]
    <3>1. Trying(w) /\ ljob[w].t \in Nat /\ ljob[w].t <= liveClock
      BY <1>4, <2>1 DEF Trying, LiveBounds, LiveTypes, JobTyped
    <3>2. Settled(w)
      <4>1. ASSUME NEW u \in LiveWorker, Trying(u)', ljob'[u].req.final, ljob'[u].t <= ljob'[w].t
            PROVE  Settled(w)
        <5>1. CASE Began(u)
          BY <2>1, <3>1, <4>1, <5>1, LiveNumbers DEF Began
        <5>2. CASE Trying(u) /\ ljob'[u].req = ljob[u].req /\ ljob'[u].t = ljob[u].t
          BY <2>1, <4>1, <5>2 DEF Settled
        <5>3. CASE ljob'[u] = ljob[u]
          BY <4>1, <5>2, <5>3 DEF Trying
        <5>4. CASE Fetched(u)
          BY <5>2, <5>4 DEF Fetched, Trying
        <5> QED
          BY <4>1, <5>1, <5>3, <5>4, JobFates DEF Over, Trying
      <4>2. CASE gw'.finalAt # 0 /\ gw'.finalAt <= ljob'[w].t
        <5>1. CASE gw'.finalAt = gw.finalAt
          BY <2>1, <4>2, <5>1 DEF Settled
        <5>2. ASSUME NEW x \in LiveWorker, LiveCommit(x), ClaimFence(ljob[x].t), gw'.finalAt # gw.finalAt
              PROVE  Settled(w)
          <6>1. Trying(x) /\ ljob[x].req.final /\ gw'.finalAt = ljob[x].t
            BY <5>2, Accepted DEF Trying
          <6> QED
            BY <2>1, <4>2, <6>1 DEF Settled
        <5> QED
          BY <5>1, <5>2, GwSteps DEF GwStep
      <4> QED
        BY <1>4, <4>1, <4>2 DEF Settled, Trying
    <3>3. source.final
      <4>1. gw.finalAt # 0 => source.final
        BY FinalStays
      <4>2. ASSUME NEW u \in LiveWorker, Trying(u), ljob[u].req.final PROVE source.final
        BY <4>2 DEF FinalKnown, Trying
      <4> QED
        BY <3>2, <4>1, <4>2 DEF Settled
    <3>4. ljob[w].version = source.version /\ ljob[w].stage = 4
      BY <1>4, <2>1, <3>2 DEF FinalKnown
    <3> QED
      BY <2>1, <3>3, <3>4, FinalStays
  <2>2. CASE Fetched(w)
    <3>1. source' = source /\ gw' = gw /\ ljob'[w].version = source.version /\ ljob'[w].stage = source.stage
      BY <2>2 DEF Fetched
    <3>2. source.final
      <4>1. CASE gw'.finalAt # 0
        BY <3>1, <4>1, FinalStays
      <4>2. ASSUME NEW u \in LiveWorker, Trying(u)', ljob'[u].req.final PROVE source.final
        <5>1. gw'.checked
          BY <1>3, <4>2 DEF Trying
        <5> QED
          BY <3>1, <5>1 DEF FinalKnown
      <4> QED
        BY <1>4, <4>1, <4>2 DEF Settled, Trying
    <3> QED
      BY <3>1, <3>2 DEF FinalKnown
  <2> QED
    BY <1>4, <2>1, <2>2, JobFates DEF Over, Began
<1> QED
  BY <1>1, <1>2, <1>3, <1>4, FinalStays DEF FinalKnown, Settled, Trying

LEMMA FinalFactsNext ==
  ASSUME LiveIInv, [LiveNext]_liveVars, LiveTypes' PROVE FinalFactsAreFinal'
<1> USE DEF LiveIInv
<1>1. CASE /\ gw'.finalAt = gw.finalAt /\ gw'.facts = gw.facts
           /\ gw'.stage = gw.stage
  BY <1>1, FinalStays DEF FinalFactsAreFinal
<1>2. ASSUME NEW c \in coreRead, c.pc = "store", gw'.stage \in {gw.stage, c.stage},
             gw'.finalAt = gw.finalAt, gw'.facts = gw.facts
      PROVE  FinalFactsAreFinal'
  <2>1. gw.checked => c.stage = 4
    BY <1>2 DEF FinalKnown
  <2> QED
    BY <1>2, <2>1, FinalStays DEF FinalFactsAreFinal
<1>3. ASSUME NEW w \in LiveWorker, LiveCommit(w), ClaimFence(ljob[w].t) PROVE FinalFactsAreFinal'
  <2> DEFINE j == ljob[w]
  <2>1. /\ j.pc = "commit" /\ gw.fence <= j.t /\ (j.req.final => gw.checked) /\ source' = source
        /\ gw'.stage = j.stage /\ gw'.checked = gw.checked
        /\ gw'.facts = IF NeedsFacts(j) THEN j.version ELSE gw.facts
        /\ gw'.finalAt = IF j.req.final THEN j.t ELSE gw.finalAt
    BY <1>3, Accepted
  <2>2. j.t \in Nat
    BY <2>1 DEF LiveTypes, JobTyped, Trying
  <2>3. CASE j.req.final
    <3>1. Settled(w)
      BY <2>1, <2>2, <2>3 DEF Settled, Trying
    <3>2. NeedsFacts(j)
      BY <2>3 DEF NeedsFacts, Durable
    <3> QED
      BY <2>1, <2>3, <3>1, <3>2 DEF FinalKnown, FinalFactsAreFinal
  <2>4. CASE ~j.req.final /\ gw.finalAt # 0
    <3>1. gw.finalAt <= j.t
      BY <2>1, <2>2, LiveNumbers DEF FactsBehindFence
    <3>2. Settled(w)
      BY <2>4, <3>1 DEF Settled
    <3> QED
      BY <2>1, <2>4, <3>2 DEF FinalKnown, FinalFactsAreFinal
  <2>5. CASE ~j.req.final /\ gw.finalAt = 0
    BY <2>1, <2>5 DEF FinalFactsAreFinal
  <2> QED
    BY <2>3, <2>4, <2>5
<1> QED
  BY <1>1, <1>2, <1>3, GwSteps DEF GwStep

LEMMA LiveStep == LiveIInv /\ [LiveNext]_liveVars => LiveIInv'
<1> SUFFICES ASSUME LiveIInv, [LiveNext]_liveVars PROVE LiveIInv'
  OBVIOUS
<1>1. LiveTypes'
  BY LiveTypesNext DEF LiveIInv
<1> QED
  BY <1>1, LiveBoundsNext, SnapshotsBehindNext, AttemptsInOrderNext, FactsNext, FinalKnownNext,
     FinalFactsNext DEF LiveIInv

LEMMA LiveInitially == LiveInit => LiveIInv
<1> SUFFICES ASSUME LiveInit PROVE LiveIInv
  OBVIOUS
<1> DEFINE poll == IF live.from = 0 THEN 0 ELSE 1
<1>1. /\ live \in LiveCase /\ live.from \in {0, 3, 4} /\ live.versions \in Nat /\ live.stamps \in Nat
      /\ live.faults \in Nat /\ (live.from # 0 => live.stamps >= 2)
  BY LiveAssumption DEF LiveInit
<1>2. /\ day = live.from
      /\ source = [stage |-> live.from, version |-> 0, final |-> FALSE]
      /\ gw = [stage |-> live.from, checked |-> FALSE, fence |-> poll, factsAt |-> poll,
               facts |-> 0, finalAt |-> 0]
      /\ liveCache = [rev |-> poll, version |-> 0, stage |-> live.from, at |-> 2 * poll]
      /\ liveRev = poll /\ liveClock = 2 * poll
      /\ coreRead = {} /\ staged = {} /\ liveQueue = {}
      /\ ljob = [w \in LiveWorker |-> IdleLive]
      /\ promised = 0 /\ liveFaults = 0
  BY DEF LiveInit
<1>3. poll \in 0..1 /\ 2 * poll \in 0..live.stamps /\ 2 * poll \in Nat
  BY <1>1
<1> HIDE DEF poll
<1>4. \A w \in LiveWorker : ljob[w].pc = "idle"
  BY <1>2 DEF IdleLive
<1>5. LiveTypes
  <2>1. source \in SourceRecord /\ gw \in GwRecord /\ liveCache \in SnapshotRecord
    BY <1>1, <1>2, <1>3 DEF SourceRecord, GwRecord, SnapshotRecord
  <2> QED
    BY <1>1, <1>2, <1>3, <1>4, <2>1 DEF LiveTypes, JobTyped, Trying
<1>6. LiveBounds /\ SnapshotsBehind /\ AttemptsInOrder
  BY <1>1, <1>2, <1>3, <1>4 DEF LiveBounds, SnapshotsBehind, AttemptsInOrder, Behind, Trying
<1>7. FinalKnown /\ FinalFactsAreFinal /\ DurablePollIsKept /\ FactsBehindFence
  BY <1>2, <1>3, <1>4 DEF FinalKnown, FinalFactsAreFinal, DurablePollIsKept, FactsBehindFence
<1> QED
  BY <1>5, <1>6, <1>7 DEF LiveIInv

\* LiveInv for any number of workers and polls: a final checkpoint is never
\* taken back by an older poll, and what a durable poll promised stays stored
\* although unchanged snapshots are not written again.
THEOREM LiveInvHolds == LiveSpec => []LiveInv
BY LiveInitially, LiveStep, LiveIInvSuffices, PTL DEF LiveSpec

(***************************************************************************)
(* Requests to FPL.                                                        *)
(***************************************************************************)

AdmissionRecord == [inflight : Nat, live : Nat, bulk : Nat, limit : Nat \ {0},
                    error : {"none", "recent", "old"}]
CallRecord ==
    [pc : {"waiting", "fetch", "body", "backoff", "ending", "done", "dead"},
     attempt : 0..FplMaxRetries, timer : 0..FplDeadline, left : 0..FplDeadline,
     kept : {"none", "retryable"}, heard : {"none", "ok", "retryable", "rejected"},
     result : {"none", "ok", "retryable", "rejected", "error"}]

FplTypes ==
    /\ admission \in AdmissionRecord /\ admission.limit <= Max({BulkMax, FplMaxInflight})
    /\ leases = [c \in DOMAIN leases |-> leases[c]] /\ DOMAIN leases \subseteq FplCall
    /\ \A c \in DOMAIN leases : leases[c] \in 0..FplLease
    /\ call \in [FplCall -> CallRecord]
    /\ deaths \in 0..FplMaxDeaths

\* The leases of a priority, and the counters that match a set of leases.
OfPriority(S, p) == {c \in S : FplPriority[c] = p}
Matches(a, S) ==
    /\ a.live = Cardinality(OfPriority(S, "live"))
    /\ a.bulk = Cardinality(OfPriority(S, "bulk"))
    /\ a.inflight = a.live + a.bulk

\* A request acquires once, so it waits without a lease.  While it may call
\* FPL its timer ends within its deadline and the deadline before its lease;
\* what it keeps of earlier answers is the last status it heard.  It backs off
\* only with an attempt left.
CallOf(r, c) ==
    /\ r.pc = "waiting" => c \notin DOMAIN leases
    /\ r.pc \in Timed => c \in DOMAIN leases /\ leases[c] > r.left /\ r.timer <= r.left
    /\ r.pc \in Timed \cup {"waiting"} =>
         r.heard \in (IF r.kept = "none" THEN {"none", "ok"} ELSE {"retryable"})
    /\ r.pc = "backoff" => r.attempt < FplMaxRetries
    /\ r.pc = "ending" => IF r.result = "error" THEN r.heard \in {"none", "ok"}
                          ELSE r.result = r.heard

\* The inductive invariant behind FplInv.
FplIInv ==
    /\ FplTypes
    /\ Matches(admission, DOMAIN leases)
    /\ admission.bulk <= BulkMax /\ admission.inflight <= FplMaxInflight
    /\ \A c \in FplCall : CallOf(call[c], c)

\* The smaller and the larger of two integers.
LEMMA OfTwo ==
  ASSUME NEW a \in Int, NEW b \in Int
  PROVE  /\ Min({a, b}) = IF a <= b THEN a ELSE b
         /\ Max({a, b}) = IF a >= b THEN a ELSE b
<1>1. \E x \in {a, b} : \A y \in {a, b} : x <= y
  <2>1. a <= b \/ b <= a
    OBVIOUS
  <2> QED
    BY <2>1
<1>2. \E x \in {a, b} : \A y \in {a, b} : x >= y
  <2>1. a >= b \/ b >= a
    OBVIOUS
  <2> QED
    BY <2>1
<1>3. Min({a, b}) \in {a, b} /\ \A y \in {a, b} : Min({a, b}) <= y
  BY <1>1, Zenon DEF Min
<1>4. Max({a, b}) \in {a, b} /\ \A y \in {a, b} : Max({a, b}) >= y
  BY <1>2, Zenon DEF Max
<1>5. Min({a, b}) = IF a <= b THEN a ELSE b
  BY <1>3
<1>6. Max({a, b}) = IF a >= b THEN a ELSE b
  BY <1>4
<1> QED
  BY <1>5, <1>6

LEMMA FplConstants ==
  /\ FplMaxInflight \in Nat \ {0} /\ FplLiveReserve \in Nat \ {0} /\ FplMaxRetries \in Nat \ {0}
  /\ FplTimeout \in Nat \ {0} /\ FplDeadline \in Nat \ {0} /\ FplLease \in Nat \ {0}
  /\ FplMaxDeaths \in Nat /\ FplDeadline < FplLease
  /\ IsFiniteSet(FplCall) /\ FplPriority \in [FplCall -> {"live", "bulk"}]
BY FplAssumption

LEMMA BulkMaxPositive ==
  /\ BulkMax \in Nat \ {0}
  /\ Max({BulkMax, FplMaxInflight}) \in Nat /\ BulkMax <= Max({BulkMax, FplMaxInflight})
  /\ FplMaxInflight <= Max({BulkMax, FplMaxInflight})
<1> DEFINE r == Min({FplLiveReserve, FplMaxInflight})
           m == Min({FplMaxInflight - r, 3})
<1>1. r \in Int
  BY FplConstants, OfTwo
<1> HIDE DEF r
<1>2. m \in Int
  BY <1>1, FplConstants, OfTwo
<1> HIDE DEF m
<1>3. BulkMax = Max({1, m})
  BY DEF BulkMax, m, r
<1>4. BulkMax \in Nat \ {0}
  <2>1. Max({1, m}) = IF 1 >= m THEN 1 ELSE m
    BY <1>2, OfTwo
  <2> QED
    BY <1>2, <1>3, <2>1
<1> QED
  BY <1>4, FplConstants, OfTwo

\* The counters of a set of leases.
LEMMA CountsOf ==
  ASSUME NEW S \in SUBSET FplCall
  PROVE  /\ \A p : /\ IsFiniteSet(OfPriority(S, p)) /\ Cardinality(OfPriority(S, p)) \in Nat
                   /\ Cardinality(OfPriority(S, p)) <= Cardinality(FplCall)
         /\ IsFiniteSet(S) /\ Cardinality(S) \in Nat /\ Cardinality(S) <= Cardinality(FplCall)
         /\ Cardinality(FplCall) \in Nat
         /\ Cardinality(S) = Cardinality(OfPriority(S, "live")) + Cardinality(OfPriority(S, "bulk"))
<1>1. \A p : OfPriority(S, p) \in SUBSET FplCall
  BY DEF OfPriority
<1>2. /\ IsFiniteSet(S) /\ Cardinality(S) \in Nat /\ Cardinality(S) <= Cardinality(FplCall)
      /\ Cardinality(FplCall) \in Nat
  BY FplConstants, FS_Subset, FS_CardinalityType
<1>3. \A p : /\ IsFiniteSet(OfPriority(S, p)) /\ Cardinality(OfPriority(S, p)) \in Nat
             /\ Cardinality(OfPriority(S, p)) <= Cardinality(FplCall)
  BY <1>1, FplConstants, FS_Subset, FS_CardinalityType
<1>4. /\ OfPriority(S, "live") \cup OfPriority(S, "bulk") = S
      /\ OfPriority(S, "live") \cap OfPriority(S, "bulk") = {}
  BY FplConstants DEF OfPriority
<1>5. Cardinality(S) = Cardinality(OfPriority(S, "live")) + Cardinality(OfPriority(S, "bulk"))
  <2> DEFINE A == OfPriority(S, "live")
             B == OfPriority(S, "bulk")
  <2>0. IsFiniteSet(A) /\ IsFiniteSet(B)
    BY <1>3, Zenon
  <2>1. IsFiniteSet(A) /\ IsFiniteSet(B) /\ A \cup B = S /\ A \cap B = {}
    BY <1>4, <2>0, Zenon
  <2>2. Cardinality(A) \in Nat /\ Cardinality(B) \in Nat
    BY <1>3
  <2> HIDE DEF A, B
  <2>3. Cardinality(A \cup B) = Cardinality(A) + Cardinality(B) - Cardinality(A \cap B)
    BY <2>1, FS_Union
  <2>4. Cardinality(S) = Cardinality(A) + Cardinality(B)
    <3>1. Cardinality(A \cup B) = Cardinality(S) /\ Cardinality(A \cap B) = 0
      BY <2>1, FS_EmptySet, Zenon
    <3> QED
      BY <2>2, <2>3, <3>1
  <2> QED
    BY <2>4 DEF A, B
<1> QED
  BY <1>2, <1>3, <1>5

LEMMA CountWithout ==
  ASSUME NEW S \in SUBSET FplCall, NEW T \in SUBSET S, NEW p
  PROVE  /\ Cardinality(OfPriority(S \ T, p)) =
              Cardinality(OfPriority(S, p)) - Cardinality(OfPriority(T, p))
         /\ Cardinality(OfPriority(T, p)) \in Nat /\ Cardinality(OfPriority(S, p)) \in Nat
         /\ Cardinality(OfPriority(S \ T, p)) \in Nat
<1> DEFINE A == OfPriority(S \ T, p)
           B == OfPriority(T, p)
<1>1. A \cup B = OfPriority(S, p) /\ A \cap B = {}
  BY DEF OfPriority
<1>2. /\ IsFiniteSet(A) /\ IsFiniteSet(B) /\ Cardinality(A) \in Nat /\ Cardinality(B) \in Nat
      /\ Cardinality(OfPriority(S, p)) \in Nat
  BY CountsOf
<1> HIDE DEF A, B
<1>3. Cardinality(OfPriority(S, p)) = Cardinality(A) + Cardinality(B)
  BY <1>1, <1>2, FS_Union, FS_EmptySet
<1> QED
  BY <1>2, <1>3 DEF A, B

LEMMA RecoveredFacts ==
  ASSUME NEW a \in AdmissionRecord, NEW n \in Nat, a.limit <= n, BulkMax <= n
  PROVE  /\ Recovered(a) \in AdmissionRecord /\ Recovered(a).limit <= n
         /\ Recovered(a).live = a.live /\ Recovered(a).bulk = a.bulk
         /\ Recovered(a).inflight = a.inflight
<1>1. CASE a.limit < BulkMax /\ a.error = "old"
  <2> DEFINE error == IF a.limit + 1 < BulkMax THEN "recent" ELSE "none"
  <2>1. Recovered(a) = [a EXCEPT !.limit = a.limit + 1, !.error = error]
    BY <1>1 DEF Recovered, AdmissionRecord
  <2>2. error \in {"none", "recent", "old"} /\ a.limit + 1 \in Nat \ {0} /\ a.limit + 1 <= n
    BY <1>1, BulkMaxPositive DEF AdmissionRecord
  <2> HIDE DEF error
  <2> QED
    BY <2>1, <2>2 DEF AdmissionRecord
<1>2. CASE ~(a.limit < BulkMax /\ a.error = "old")
  BY <1>2 DEF Recovered
<1> QED
  BY <1>1, <1>2

\* What the sweep of ACQUIRE_SCRIPT leaves.
LEMMA SweptFacts ==
  ASSUME FplIInv
  PROVE  /\ Swept \in AdmissionRecord /\ Swept.limit <= BulkMax
         /\ Matches(Swept, DOMAIN leases \ RunOut)
         /\ Swept.bulk <= admission.bulk /\ Swept.inflight <= admission.inflight
<1> DEFINE S == DOMAIN leases
           n(p) == Cardinality(OfPriority(RunOut, p))
           b == Uncounted(admission, RunOut)
           c == [b EXCEPT !.limit = Min({@, BulkMax})]
<1>1. /\ S \in SUBSET FplCall /\ RunOut \in SUBSET S /\ admission \in AdmissionRecord
      /\ Matches(admission, S)
  BY DEF FplIInv, FplTypes, RunOut
<1>2. b = [admission EXCEPT !.inflight = @ - n("live") - n("bulk"),
                            !.live = @ - n("live"), !.bulk = @ - n("bulk")]
  BY DEF Uncounted, OfPriority
<1>3. /\ \A p : n(p) \in Nat
      /\ admission.live - n("live") = Cardinality(OfPriority(S \ RunOut, "live"))
      /\ admission.bulk - n("bulk") = Cardinality(OfPriority(S \ RunOut, "bulk"))
      /\ \A p : Cardinality(OfPriority(S \ RunOut, p)) \in Nat
      /\ admission.inflight = admission.live + admission.bulk
  BY <1>1, CountWithout DEF Matches
<1> HIDE DEF n, S, b
<1>4. /\ b \in AdmissionRecord /\ b.live = admission.live - n("live")
      /\ b.bulk = admission.bulk - n("bulk") /\ b.limit = admission.limit
      /\ b.inflight = b.live + b.bulk
      /\ b.bulk <= admission.bulk /\ b.inflight <= admission.inflight
  <2>1. /\ admission.live \in Nat /\ admission.bulk \in Nat /\ admission.inflight \in Nat
        /\ n("live") \in Nat /\ n("bulk") \in Nat
        /\ admission.live - n("live") \in Nat /\ admission.bulk - n("bulk") \in Nat
    BY <1>1, <1>3 DEF AdmissionRecord
  <2>2. admission.inflight - n("live") - n("bulk") \in Nat
    BY <1>3, <2>1
  <2>3. /\ b.live = admission.live - n("live") /\ b.bulk = admission.bulk - n("bulk")
        /\ b.limit = admission.limit
        /\ b.inflight = admission.inflight - n("live") - n("bulk")
    BY <1>1, <1>2 DEF AdmissionRecord
  <2>4. b \in AdmissionRecord
    BY <1>1, <1>2, <2>1, <2>2 DEF AdmissionRecord
  <2> QED
    BY <1>3, <2>1, <2>3, <2>4
<1>5. /\ c \in AdmissionRecord /\ c.limit <= BulkMax
      /\ c.live = b.live /\ c.bulk = b.bulk /\ c.inflight = b.inflight
  <2>1. b.limit \in Nat \ {0} /\ BulkMax \in Nat \ {0}
    BY <1>4, BulkMaxPositive DEF AdmissionRecord
  <2>2. Min({b.limit, BulkMax}) \in Nat \ {0} /\ Min({b.limit, BulkMax}) <= BulkMax
    BY <2>1, OfTwo
  <2> QED
    BY <1>4, <2>2 DEF AdmissionRecord
<1>6. Swept = Recovered(c)
  BY DEF Swept, b
<1> HIDE DEF c
<1>7. /\ Swept \in AdmissionRecord /\ Swept.limit <= BulkMax
      /\ Swept.live = b.live /\ Swept.bulk = b.bulk /\ Swept.inflight = b.inflight
  BY <1>5, <1>6, RecoveredFacts, BulkMaxPositive
<1> QED
  BY <1>3, <1>4, <1>7 DEF Matches, S

\* The counters after one more or one less lease.
LEMMA OneMore ==
  ASSUME NEW S \in SUBSET FplCall, NEW c \in FplCall \ S, NEW a \in AdmissionRecord, Matches(a, S)
  PROVE  /\ Counted(a, FplPriority[c], 1) \in AdmissionRecord
         /\ Counted(a, FplPriority[c], 1).limit = a.limit
         /\ Matches(Counted(a, FplPriority[c], 1), S \cup {c})
         /\ Counted(a, FplPriority[c], 1).inflight = a.inflight + 1
         /\ Counted(a, FplPriority[c], 1).bulk =
              IF FplPriority[c] = "bulk" THEN a.bulk + 1 ELSE a.bulk
<1>1. FplPriority[c] \in {"live", "bulk"}
  BY FplConstants
<1>2. ASSUME NEW p
      PROVE  Cardinality(OfPriority(S \cup {c}, p)) =
               IF FplPriority[c] = p THEN Cardinality(OfPriority(S, p)) + 1
               ELSE Cardinality(OfPriority(S, p))
  <2>1. IsFiniteSet(OfPriority(S, p)) /\ c \notin OfPriority(S, p)
    BY CountsOf DEF OfPriority
  <2>2. CASE FplPriority[c] = p
    <3>1. OfPriority(S \cup {c}, p) = OfPriority(S, p) \cup {c}
      BY <2>2 DEF OfPriority
    <3>2. Cardinality(OfPriority(S, p) \cup {c}) = Cardinality(OfPriority(S, p)) + 1
      BY <2>1, FS_AddElement
    <3>3. Cardinality(OfPriority(S \cup {c}, p)) = Cardinality(OfPriority(S, p) \cup {c})
      BY <3>1, Zenon
    <3> QED
      BY <2>2, <3>2, <3>3
  <2>3. CASE FplPriority[c] # p
    <3>1. OfPriority(S \cup {c}, p) = OfPriority(S, p)
      BY <2>3 DEF OfPriority
    <3> QED
      BY <2>3, <3>1, Zenon
  <2> QED
    BY <2>2, <2>3
<1>3. a.live \in Nat /\ a.bulk \in Nat /\ a.inflight \in Nat
  BY DEF AdmissionRecord
<1>4. CASE FplPriority[c] = "live"
  <2> DEFINE b == [a EXCEPT !.inflight = @ + 1, !.live = @ + 1]
  <2>1. Counted(a, FplPriority[c], 1) = b
    BY <1>4 DEF Counted
  <2>2. /\ b \in AdmissionRecord /\ b.limit = a.limit /\ b.inflight = a.inflight + 1
        /\ b.live = a.live + 1 /\ b.bulk = a.bulk
    <3>1. a.inflight + 1 \in Nat /\ a.live + 1 \in Nat
      BY <1>3
    <3> QED
      BY <3>1 DEF AdmissionRecord
  <2> HIDE DEF b
  <2>3. Matches(b, S \cup {c})
    BY <1>2, <1>3, <1>4, <2>2 DEF Matches
  <2> QED
    BY <1>4, <2>1, <2>2, <2>3
<1>5. CASE FplPriority[c] = "bulk"
  <2> DEFINE b == [a EXCEPT !.inflight = @ + 1, !.bulk = @ + 1]
  <2>1. Counted(a, FplPriority[c], 1) = b
    BY <1>5 DEF Counted
  <2>2. /\ b \in AdmissionRecord /\ b.limit = a.limit /\ b.inflight = a.inflight + 1
        /\ b.live = a.live /\ b.bulk = a.bulk + 1
    <3>1. a.inflight + 1 \in Nat /\ a.bulk + 1 \in Nat
      BY <1>3
    <3> QED
      BY <3>1 DEF AdmissionRecord
  <2> HIDE DEF b
  <2>3. Matches(b, S \cup {c})
    BY <1>2, <1>3, <1>5, <2>2 DEF Matches
  <2> QED
    BY <1>5, <2>1, <2>2, <2>3
<1> QED
  BY <1>1, <1>4, <1>5

LEMMA OneLess ==
  ASSUME NEW S \in SUBSET FplCall, NEW c \in S, NEW a \in AdmissionRecord, Matches(a, S)
  PROVE  /\ Counted(a, FplPriority[c], -1) \in AdmissionRecord
         /\ Counted(a, FplPriority[c], -1).limit = a.limit
         /\ Matches(Counted(a, FplPriority[c], -1), S \ {c})
         /\ Counted(a, FplPriority[c], -1).inflight <= a.inflight
         /\ Counted(a, FplPriority[c], -1).bulk <= a.bulk
<1>1. FplPriority[c] \in {"live", "bulk"}
  BY FplConstants
<1>2. ASSUME NEW p
      PROVE  /\ Cardinality(OfPriority(S \ {c}, p)) =
                  IF FplPriority[c] = p THEN Cardinality(OfPriority(S, p)) - 1
                  ELSE Cardinality(OfPriority(S, p))
             /\ Cardinality(OfPriority(S \ {c}, p)) \in Nat
  <2>1. Cardinality(OfPriority(S \ {c}, p)) \in Nat
    BY CountsOf
  <2>2. CASE FplPriority[c] = p
    <3>1. OfPriority(S \ {c}, p) = OfPriority(S, p) \ {c} /\ c \in OfPriority(S, p)
      BY <2>2 DEF OfPriority
    <3>2. IsFiniteSet(OfPriority(S, p))
      BY CountsOf
    <3>3. Cardinality(OfPriority(S, p) \ {c}) = Cardinality(OfPriority(S, p)) - 1
      BY <3>1, <3>2, FS_RemoveElement
    <3>4. Cardinality(OfPriority(S \ {c}, p)) = Cardinality(OfPriority(S, p) \ {c})
      BY <3>1, Zenon
    <3> QED
      BY <2>1, <2>2, <3>3, <3>4
  <2>3. CASE FplPriority[c] # p
    <3>1. OfPriority(S \ {c}, p) = OfPriority(S, p)
      BY <2>3 DEF OfPriority
    <3> QED
      BY <2>1, <2>3, <3>1, Zenon
  <2> QED
    BY <2>2, <2>3
<1>3. a.live \in Nat /\ a.bulk \in Nat /\ a.inflight \in Nat
  BY DEF AdmissionRecord
<1>4. CASE FplPriority[c] = "live"
  <2> DEFINE b == [a EXCEPT !.inflight = @ + (-1), !.live = @ + (-1)]
  <2>1. Counted(a, FplPriority[c], -1) = b
    BY <1>4 DEF Counted
  <2>2. a.live + (-1) \in Nat /\ a.inflight + (-1) \in Nat
    BY <1>2, <1>3, <1>4 DEF Matches
  <2>3. /\ b \in AdmissionRecord /\ b.limit = a.limit /\ b.inflight = a.inflight + (-1)
        /\ b.live = a.live + (-1) /\ b.bulk = a.bulk
    BY <1>3, <2>2 DEF AdmissionRecord
  <2> HIDE DEF b
  <2>4. Matches(b, S \ {c})
    <3>1. /\ Cardinality(OfPriority(S \ {c}, "live")) = a.live - 1
          /\ Cardinality(OfPriority(S \ {c}, "bulk")) = a.bulk
          /\ a.inflight = a.live + a.bulk
      BY <1>2, <1>4 DEF Matches
    <3> QED
      BY <1>3, <2>3, <3>1 DEF Matches
  <2> QED
    BY <1>3, <2>1, <2>3, <2>4
<1>5. CASE FplPriority[c] = "bulk"
  <2> DEFINE b == [a EXCEPT !.inflight = @ + (-1), !.bulk = @ + (-1)]
  <2>1. Counted(a, FplPriority[c], -1) = b
    BY <1>5 DEF Counted
  <2>2. a.bulk + (-1) \in Nat /\ a.inflight + (-1) \in Nat
    BY <1>2, <1>3, <1>5 DEF Matches
  <2>3. /\ b \in AdmissionRecord /\ b.limit = a.limit /\ b.inflight = a.inflight + (-1)
        /\ b.live = a.live /\ b.bulk = a.bulk + (-1)
    BY <1>3, <2>2 DEF AdmissionRecord
  <2> HIDE DEF b
  <2>4. Matches(b, S \ {c})
    BY <1>2, <1>3, <1>5, <2>3 DEF Matches
  <2> QED
    BY <1>3, <2>1, <2>3, <2>4
<1> QED
  BY <1>1, <1>4, <1>5

Counts(a) == <<a.live, a.bulk, a.inflight>>

\* A step of one request that leaves the leases alone.
LEMMA CallChanges ==
  ASSUME FplIInv, NEW c \in FplCall, NEW r \in CallRecord, call' = [call EXCEPT ![c] = r],
         UNCHANGED leases, CallOf(r, c), admission' \in AdmissionRecord,
         admission'.limit <= Max({BulkMax, FplMaxInflight}), Counts(admission') = Counts(admission),
         deaths' \in 0..FplMaxDeaths
  PROVE  FplIInv'
<1>1. call' \in [FplCall -> CallRecord] /\ call'[c] = r /\ \A d \in FplCall \ {c} : call'[d] = call[d]
  BY DEF FplIInv, FplTypes
<1>2. FplTypes'
  BY <1>1 DEF FplIInv, FplTypes
<1>3. /\ admission'.live = admission.live /\ admission'.bulk = admission.bulk
      /\ admission'.inflight = admission.inflight
  BY DEF Counts
<1>4. Matches(admission, DOMAIN leases)'
  BY <1>3 DEF FplIInv, Matches
<1>5. \A d \in FplCall : CallOf(call[d], d)'
  BY <1>1 DEF FplIInv, CallOf
<1> QED
  BY <1>2, <1>3, <1>4, <1>5 DEF FplIInv

LEMMA ReportFacts ==
  ASSUME FplIInv, NEW c \in FplCall, NEW bad \in BOOLEAN, ReportStatus(c, bad)
  PROVE  /\ admission' \in AdmissionRecord /\ admission'.limit <= Max({BulkMax, FplMaxInflight})
         /\ Counts(admission') = Counts(admission)
<1> DEFINE n == Max({BulkMax, FplMaxInflight})
<1>1. admission \in AdmissionRecord /\ admission.limit <= n /\ n \in Nat /\ BulkMax <= n
  BY BulkMaxPositive DEF FplIInv, FplTypes
<1>2. CASE UNCHANGED admission
  BY <1>1, <1>2
<1>3. CASE admission' = [admission EXCEPT !.limit = Max({1, @ - 1}), !.error = "recent"]
  <2>1. admission.limit \in Nat \ {0}
    BY <1>1 DEF AdmissionRecord
  <2>3. Max({1, admission.limit - 1}) \in Nat \ {0} /\ Max({1, admission.limit - 1}) <= admission.limit
    <3> DEFINE j == admission.limit - 1
    <3>1. j \in Nat /\ admission.limit = j + 1
      BY <2>1
    <3> HIDE DEF j
    <3>2. Max({1, j}) \in Nat \ {0} /\ Max({1, j}) <= j + 1
      <4>1. 1 \in Int /\ j \in Int
        BY <3>1
      <4>2. Max({1, j}) = IF 1 >= j THEN 1 ELSE j
        BY <4>1, OfTwo, Zenon
      <4> QED
        BY <3>1, <4>2
    <3> QED
      BY <3>1, <3>2 DEF j
  <2> HIDE DEF n
  <2>4. /\ admission' \in AdmissionRecord /\ admission'.limit = Max({1, admission.limit - 1})
        /\ admission'.live = admission.live /\ admission'.bulk = admission.bulk
        /\ admission'.inflight = admission.inflight
    BY <1>1, <1>3, <2>3 DEF AdmissionRecord
  <2>5. admission'.limit <= n
    BY <1>1, <2>1, <2>3, <2>4
  <2> QED
    BY <2>4, <2>5 DEF Counts, n
<1>4. CASE admission' = Recovered(admission)
  <2> HIDE DEF n
  <2>1. /\ admission' \in AdmissionRecord /\ admission'.limit <= n
        /\ admission'.live = admission.live /\ admission'.bulk = admission.bulk
        /\ admission'.inflight = admission.inflight
    BY <1>1, <1>4, RecoveredFacts
  <2> QED
    BY <2>1 DEF Counts, n
<1> QED
  BY <1>2, <1>3, <1>4 DEF ReportStatus

\* The records a request moves through.
LEMMA RestFacts ==
  ASSUME NEW pc \in {"waiting", "done", "dead", "ending"}
  PROVE  /\ Rest(pc) \in CallRecord /\ Rest(pc).pc = pc
         /\ Rest(pc).heard = "none" /\ Rest(pc).kept = "none"
BY FplConstants DEF Rest, CallRecord

LEMMA EndedFacts ==
  ASSUME NEW r \in CallRecord, NEW c,
         NEW result \in {"ok", "retryable", "rejected", "error"},
         IF result = "error" THEN r.heard \in {"none", "ok"} ELSE result = r.heard
  PROVE  Ended(r, result) \in CallRecord /\ CallOf(Ended(r, result), c)
<1>1. /\ Ended(r, result) \in CallRecord /\ Ended(r, result).pc = "ending"
      /\ Ended(r, result).heard = r.heard /\ Ended(r, result).result = result
  <2>1. Rest("ending") \in CallRecord /\ Rest("ending").pc = "ending"
    BY RestFacts
  <2>2. r.heard \in {"none", "ok", "retryable", "rejected"}
    BY DEF CallRecord
  <2> QED
    BY <2>1, <2>2 DEF Ended, CallRecord
<1> QED
  BY <1>1 DEF CallOf, Timed

LEMMA GivenUpFacts ==
  ASSUME NEW r \in CallRecord, NEW c \in FplCall, CallOf(r, c), r.pc \in Timed
  PROVE  GivenUp(r) \in CallRecord /\ CallOf(GivenUp(r), c)
<1>1. r.heard \in (IF r.kept = "none" THEN {"none", "ok"} ELSE {"retryable"})
      /\ r.kept \in {"none", "retryable"}
  BY DEF CallOf, CallRecord
<1>2. CASE r.kept = "none"
  BY <1>1, <1>2, EndedFacts DEF GivenUp
<1>3. CASE r.kept = "retryable"
  BY <1>1, <1>3, EndedFacts DEF GivenUp
<1> QED
  BY <1>1, <1>2, <1>3

LEMMA FplCallSteps ==
  ASSUME FplIInv, NEW c \in FplCall
  PROVE  /\ \A status \in {"ok", "retryable", "rejected"} : FplHeader(c, status) => FplIInv'
         /\ FplBody(c) => FplIInv'
         /\ \A delay \in 0..1 : FplAttemptEnds(c, delay) => FplIInv'
         /\ FplRetry(c) => FplIInv'
         /\ FplDie(c) => FplIInv'
<1> DEFINE r == call[c]
<1>1. /\ r \in CallRecord /\ CallOf(r, c) /\ admission \in AdmissionRecord
      /\ admission.limit <= Max({BulkMax, FplMaxInflight}) /\ deaths \in 0..FplMaxDeaths
  BY DEF FplIInv, FplTypes
<1>2. ASSUME NEW status \in {"ok", "retryable", "rejected"}, FplHeader(c, status) PROVE FplIInv'
  <2> DEFINE q == [r EXCEPT !.heard = status]
             s == CASE status = "retryable" -> [q EXCEPT !.pc = "body", !.kept = status]
                    [] status = "rejected"  -> Ended(q, status)
                    [] OTHER                -> [q EXCEPT !.pc = "body", !.kept = "none"]
  <2>1. /\ r.pc = "fetch" /\ ReportStatus(c, status = "retryable") /\ UNCHANGED <<leases, deaths>>
        /\ call' = [call EXCEPT ![c] = s]
    BY <1>2 DEF FplHeader
  <2>2. /\ q \in CallRecord /\ q.heard = status /\ q.left = r.left /\ q.timer = r.timer
    BY <1>1 DEF CallRecord
  <2>3. s \in CallRecord /\ CallOf(s, c)
    <3>1. CASE status = "rejected"
      <4> HIDE DEF q
      <4>1. s = Ended(q, "rejected")
        BY <3>1
      <4> QED
        BY <2>2, <3>1, <4>1, EndedFacts
    <3>2. CASE status # "rejected"
      <4> DEFINE kept == IF status = "retryable" THEN "retryable" ELSE "none"
      <4>1. s = [q EXCEPT !.pc = "body", !.kept = kept]
        BY <3>2
      <4>2. /\ s \in CallRecord /\ s.pc = "body" /\ s.kept = kept /\ s.heard = status
            /\ s.left = r.left /\ s.timer = r.timer
        <5> HIDE DEF q, s
        <5> QED
          BY <2>2, <4>1 DEF CallRecord
      <4> HIDE DEF s, q
      <4> QED
        BY <1>1, <2>1, <3>2, <4>2 DEF CallOf, Timed
    <3> QED
      BY <3>1, <3>2
  <2> HIDE DEF s
  <2> QED
    BY <1>1, <2>1, <2>3, ReportFacts, CallChanges
<1>3. ASSUME FplBody(c) PROVE FplIInv'
  <2>1. r.heard = "ok" /\ call' = [call EXCEPT ![c] = Ended(r, "ok")]
        /\ UNCHANGED <<admission, leases, deaths>>
    BY <1>3 DEF FplBody
  <2> HIDE DEF r
  <2>2. Ended(r, "ok") \in CallRecord /\ CallOf(Ended(r, "ok"), c)
    BY <1>1, <2>1, EndedFacts
  <2> QED
    BY <1>1, <2>1, <2>2, CallChanges DEF r, Counts
<1>4. ASSUME NEW delay \in 0..1, FplAttemptEnds(c, delay) PROVE FplIInv'
  <2>1. /\ r.pc \in {"fetch", "body"} /\ call' = [call EXCEPT ![c] = AfterFailure(r, delay)]
        /\ UNCHANGED <<leases, deaths>> /\ (UNCHANGED admission \/ ReportStatus(c, FALSE))
    BY <1>4 DEF FplAttemptEnds
  <2> HIDE DEF r
  <2>2. AfterFailure(r, delay) \in CallRecord /\ CallOf(AfterFailure(r, delay), c)
    <3>1. CASE r.attempt = FplMaxRetries \/ r.left = 0
      BY <1>1, <2>1, <3>1, GivenUpFacts DEF AfterFailure, Timed
    <3>2. CASE ~(r.attempt = FplMaxRetries \/ r.left = 0)
      <4> DEFINE m == Min({delay, r.left})
                 s == [r EXCEPT !.pc = "backoff", !.timer = m]
      <4>1. /\ r.left \in 0..FplDeadline /\ r.attempt \in 0..FplMaxRetries /\ FplDeadline \in Nat
            /\ FplMaxRetries \in Nat
        BY <1>1, FplConstants DEF CallRecord
      <4>2. m \in 0..FplDeadline /\ m <= r.left
        BY <4>1, OfTwo
      <4> HIDE DEF m
      <4>3. /\ s \in CallRecord /\ s.pc = "backoff" /\ s.timer = m /\ s.left = r.left
            /\ s.kept = r.kept /\ s.heard = r.heard /\ s.attempt = r.attempt
        BY <1>1, <4>2 DEF CallRecord
      <4>4. AfterFailure(r, delay) = s
        BY <3>2 DEF AfterFailure, m
      <4> HIDE DEF s
      <4>5. CallOf(s, c)
        BY <1>1, <2>1, <3>2, <4>1, <4>2, <4>3 DEF CallOf, Timed
      <4> QED
        BY <4>3, <4>4, <4>5
    <3> QED
      BY <3>1, <3>2
  <2> QED
    BY <1>1, <2>1, <2>2, ReportFacts, CallChanges DEF Counts
<1>5. ASSUME FplRetry(c) PROVE FplIInv'
  <2> DEFINE m == Min({FplTimeout, r.left})
             s == [r EXCEPT !.pc = "fetch", !.attempt = @ + 1, !.timer = m]
  <2>1. /\ r.pc = "backoff" /\ call' = [call EXCEPT ![c] = IF r.left = 0 THEN GivenUp(r) ELSE s]
        /\ UNCHANGED <<admission, leases, deaths>>
    BY <1>5 DEF FplRetry
  <2> HIDE DEF r
  <2>2. GivenUp(r) \in CallRecord /\ CallOf(GivenUp(r), c)
    BY <1>1, <2>1, GivenUpFacts DEF Timed
  <2>3. s \in CallRecord /\ CallOf(s, c)
    <3>1. /\ r.left \in 0..FplDeadline /\ r.attempt \in 0..FplMaxRetries /\ FplDeadline \in Nat
          /\ FplMaxRetries \in Nat /\ FplTimeout \in Nat /\ r.attempt < FplMaxRetries
      BY <1>1, <2>1, FplConstants DEF CallRecord, CallOf
    <3>2. m \in 0..FplDeadline /\ m <= r.left /\ r.attempt + 1 \in 0..FplMaxRetries
      BY <3>1, OfTwo
    <3> HIDE DEF m
    <3>3. /\ s \in CallRecord /\ s.pc = "fetch" /\ s.timer = m /\ s.left = r.left
          /\ s.kept = r.kept /\ s.heard = r.heard
      BY <1>1, <3>2 DEF CallRecord
    <3> HIDE DEF s
    <3> QED
      BY <1>1, <2>1, <3>2, <3>3 DEF CallOf, Timed
  <2> HIDE DEF s
  <2> QED
    BY <1>1, <2>1, <2>2, <2>3, CallChanges DEF Counts
<1>6. ASSUME FplDie(c) PROVE FplIInv'
  <2>1. /\ call' = [call EXCEPT ![c] = Rest("dead")] /\ UNCHANGED <<admission, leases>>
        /\ deaths' \in 0..FplMaxDeaths
    BY <1>1, <1>6, FplConstants DEF FplDie
  <2>2. Rest("dead") \in CallRecord /\ CallOf(Rest("dead"), c)
    BY RestFacts DEF CallOf, Timed
  <2> QED
    BY <1>1, <2>1, <2>2, CallChanges DEF Counts
<1> QED
  BY <1>2, <1>3, <1>4, <1>5, <1>6

\* Leases change: every request keeps its own.
LEMMA LeasesChange ==
  ASSUME FplIInv, NEW c \in FplCall, NEW r \in CallRecord, call' \in {call, [call EXCEPT ![c] = r]},
         DOMAIN leases' \subseteq FplCall, leases' = [d \in DOMAIN leases' |-> leases'[d]],
         \A d \in DOMAIN leases' : leases'[d] \in 0..FplLease,
         \A d \in FplCall \ {c} :
           /\ d \in DOMAIN leases' => d \in DOMAIN leases
           /\ d \in DOMAIN leases /\ leases[d] # 0 => d \in DOMAIN leases' /\ leases'[d] = leases[d],
         CallOf(call[c], c)' ,
         admission' \in AdmissionRecord, admission'.limit <= Max({BulkMax, FplMaxInflight}),
         Matches(admission, DOMAIN leases)', admission'.bulk <= BulkMax,
         admission'.inflight <= FplMaxInflight, UNCHANGED deaths
  PROVE  FplIInv'
<1>1. call' \in [FplCall -> CallRecord] /\ \A d \in FplCall \ {c} : call'[d] = call[d]
  BY DEF FplIInv, FplTypes
<1>2. FplTypes'
  BY <1>1 DEF FplIInv, FplTypes
<1>3. ASSUME NEW d \in FplCall \ {c} PROVE CallOf(call[d], d)'
  <2>1. CallOf(call[d], d) /\ call[d].left \in Nat /\ call'[d] = call[d]
    BY <1>1, FplConstants DEF FplIInv, FplTypes, CallRecord
  <2>2. call[d].pc \in Timed => /\ d \in DOMAIN leases' /\ leases'[d] = leases[d]
    <3>1. call[d].pc \in Timed => d \in DOMAIN leases /\ leases[d] > call[d].left
      BY <2>1 DEF CallOf
    <3>2. call[d].pc \in Timed => leases[d] # 0
      BY <2>1, <3>1
    <3> QED
      BY <3>1, <3>2
  <2> QED
    BY <2>1, <2>2 DEF CallOf
<1> QED
  BY <1>2, <1>3 DEF FplIInv

LEMMA FplLeaseSteps ==
  ASSUME FplIInv, NEW c \in FplCall, NEW reached \in BOOLEAN
  PROVE  /\ FplGrant(c, reached) => FplIInv'
         /\ FplWait(c, reached) => FplIInv'
         /\ FplRelease(c, reached) => FplIInv'
<1> DEFINE kept == DOMAIN leases \ RunOut
<1>1. /\ call[c] \in CallRecord /\ CallOf(call[c], c) /\ call \in [FplCall -> CallRecord]
      /\ DOMAIN leases \subseteq FplCall
      /\ \A d \in DOMAIN leases : leases[d] \in 0..FplLease
      /\ \A d \in DOMAIN leases : leases[d] # 0 => d \in kept
      /\ kept \in SUBSET FplCall
  BY DEF FplIInv, FplTypes, RunOut
<1>2. /\ Swept \in AdmissionRecord /\ Swept.limit <= BulkMax /\ Matches(Swept, kept)
      /\ Swept.bulk <= BulkMax /\ Swept.inflight <= FplMaxInflight
      /\ Swept.limit <= Max({BulkMax, FplMaxInflight})
  <2>1. /\ Swept \in AdmissionRecord /\ Swept.limit <= BulkMax /\ Matches(Swept, kept)
        /\ Swept.bulk <= admission.bulk /\ Swept.inflight <= admission.inflight
    BY SweptFacts
  <2>2. /\ Swept.bulk \in Nat /\ Swept.inflight \in Nat /\ Swept.limit \in Nat
        /\ admission.bulk \in Nat /\ admission.inflight \in Nat
        /\ admission.bulk <= BulkMax /\ admission.inflight <= FplMaxInflight
    BY <2>1 DEF FplIInv, FplTypes, AdmissionRecord
  <2> QED
    BY <2>1, <2>2, BulkMaxPositive, FplConstants
<1>3. ASSUME FplGrant(c, reached) PROVE FplIInv'
  <2> DEFINE m == Min({FplTimeout, FplDeadline})
             s == [call[c] EXCEPT !.pc = "fetch", !.left = FplDeadline, !.timer = m]
             r == IF reached THEN s ELSE Rest("done")
  <2>1. /\ call[c].pc = "waiting" /\ HasCapacity(Swept, FplPriority[c])
        /\ admission' = Counted(Swept, FplPriority[c], 1) /\ UNCHANGED deaths
        /\ leases' = [d \in kept \cup {c} |-> IF d = c THEN FplLease ELSE leases[d]]
        /\ call' = [call EXCEPT ![c] = r]
    BY <1>3 DEF FplGrant
  <2>2. c \notin kept
    BY <1>1, <2>1 DEF CallOf
  <2>3. m \in 0..FplDeadline
    BY FplConstants, OfTwo
  <2> HIDE DEF m
  <2>4. /\ s \in CallRecord /\ s.pc = "fetch" /\ s.left = FplDeadline /\ s.timer = m
        /\ s.kept = call[c].kept /\ s.heard = call[c].heard
    <3>1. FplDeadline \in 0..FplDeadline /\ call[c] \in CallRecord
      BY <1>1, FplConstants
    <3> QED
      BY <2>3, <3>1 DEF CallRecord
  <2> HIDE DEF s
  <2>5. /\ r \in CallRecord /\ call'[c] = r
    BY <1>1, <2>1, <2>4, RestFacts
  <2>6. /\ DOMAIN leases' = kept \cup {c} /\ leases'[c] = FplLease
        /\ \A d \in kept : leases'[d] = leases[d]
        /\ leases' = [d \in DOMAIN leases' |-> leases'[d]]
    BY <2>1, <2>2
  <2>7. CallOf(call[c], c)'
    <3>1. CASE reached
      <4>1. call'[c] = s
        BY <2>5, <3>1
      <4> QED
        BY <1>1, <2>1, <2>3, <2>4, <2>6, <4>1, FplConstants DEF CallOf, Timed
    <3>2. CASE ~reached
      BY <2>5, <3>2, RestFacts DEF CallOf, Timed
    <3> QED
      BY <3>1, <3>2
  <2>8. /\ admission' \in AdmissionRecord /\ admission'.limit = Swept.limit
        /\ Matches(admission', kept \cup {c})
        /\ admission'.inflight = Swept.inflight + 1
        /\ admission'.bulk = IF FplPriority[c] = "bulk" THEN Swept.bulk + 1 ELSE Swept.bulk
    <3>1. kept \in SUBSET FplCall /\ c \in FplCall \ kept
      BY <1>1, <2>2
    <3> HIDE DEF kept
    <3> QED
      BY <1>2, <2>1, <3>1, OneMore
  <2>9. admission'.bulk <= BulkMax /\ admission'.inflight <= FplMaxInflight
    <3>1. /\ Swept.bulk \in Nat /\ Swept.inflight \in Nat /\ Swept.limit \in Nat
          /\ FplMaxInflight \in Nat /\ BulkMax \in Nat
      BY <1>2, BulkMaxPositive, FplConstants DEF AdmissionRecord
    <3>2. /\ Swept.inflight < FplMaxInflight
          /\ FplPriority[c] = "bulk" => Swept.bulk < Swept.limit
      BY <2>1 DEF HasCapacity
    <3> QED
      BY <1>2, <2>8, <3>1, <3>2
  <2>10. Matches(admission, DOMAIN leases)'
    BY <2>6, <2>8, Zenon
  <2>11. /\ DOMAIN leases' \subseteq FplCall
         /\ \A d \in DOMAIN leases' : leases'[d] \in 0..FplLease
         /\ \A d \in FplCall \ {c} :
              /\ d \in DOMAIN leases' => d \in DOMAIN leases
              /\ d \in DOMAIN leases /\ leases[d] # 0 => d \in DOMAIN leases' /\ leases'[d] = leases[d]
    BY <1>1, <2>6, FplConstants
  <2> HIDE DEF r, kept
  <2> QED
    BY <1>2, <2>1, <2>5, <2>6, <2>7, <2>8, <2>9, <2>10, <2>11, LeasesChange
<1>4. ASSUME FplWait(c, reached) PROVE FplIInv'
  <2>1. /\ call[c].pc = "waiting" /\ admission' = Swept /\ UNCHANGED deaths
        /\ leases' = [d \in kept |-> leases[d]]
        /\ call' = call \/ call' = [call EXCEPT ![c] = Rest("done")]
    BY <1>4 DEF FplWait
  <2>2. Rest("done") \in CallRecord
    BY RestFacts
  <2>3. /\ DOMAIN leases' = kept /\ \A d \in kept : leases'[d] = leases[d]
        /\ leases' = [d \in DOMAIN leases' |-> leases'[d]]
    BY <2>1
  <2>4. CallOf(call[c], c)'
    <3>1. CASE call' = call
      BY <1>1, <2>1, <2>3, <3>1 DEF CallOf, Timed
    <3>2. CASE call' = [call EXCEPT ![c] = Rest("done")]
      <4>1. call'[c] = Rest("done")
        BY <1>1, <3>2
      <4> QED
        BY <4>1, RestFacts DEF CallOf, Timed
    <3> QED
      BY <2>1, <3>1, <3>2
  <2>5. Matches(admission, DOMAIN leases)'
    BY <1>2, <2>1, <2>3, Zenon
  <2>6. /\ DOMAIN leases' \subseteq FplCall
        /\ \A d \in DOMAIN leases' : leases'[d] \in 0..FplLease
        /\ \A d \in FplCall \ {c} :
             /\ d \in DOMAIN leases' => d \in DOMAIN leases
             /\ d \in DOMAIN leases /\ leases[d] # 0 => d \in DOMAIN leases' /\ leases'[d] = leases[d]
    BY <1>1, <2>3
  <2> HIDE DEF kept
  <2> QED
    BY <1>2, <2>1, <2>2, <2>3, <2>4, <2>5, <2>6, LeasesChange
<1>5. ASSUME FplRelease(c, reached) PROVE FplIInv'
  <2>1. call[c].pc = "ending" /\ call' = [call EXCEPT ![c] = Rest("done")] /\ UNCHANGED deaths
    BY <1>5 DEF FplRelease
  <2>2. Rest("done") \in CallRecord /\ CallOf(Rest("done"), c) /\ call'[c] = Rest("done")
    BY <1>1, <2>1, RestFacts DEF CallOf, Timed
  <2>3. CASE UNCHANGED <<admission, leases>>
    BY <2>1, <2>2, <2>3, CallChanges DEF FplIInv, FplTypes, Counts
  <2>4. CASE /\ c \in DOMAIN leases /\ admission' = Counted(admission, FplPriority[c], -1)
             /\ leases' = [d \in DOMAIN leases \ {c} |-> leases[d]]
    <3>1. /\ admission \in AdmissionRecord /\ Matches(admission, DOMAIN leases)
          /\ admission.limit <= Max({BulkMax, FplMaxInflight})
          /\ admission.bulk <= BulkMax /\ admission.inflight <= FplMaxInflight
      BY DEF FplIInv, FplTypes
    <3>2. /\ admission' \in AdmissionRecord /\ admission'.limit = admission.limit
          /\ Matches(admission', DOMAIN leases \ {c})
          /\ admission'.inflight <= admission.inflight /\ admission'.bulk <= admission.bulk
      BY <1>1, <2>4, <3>1, OneLess
    <3>3. admission'.bulk <= BulkMax /\ admission'.inflight <= FplMaxInflight
      <4>1. /\ admission'.bulk \in Nat /\ admission'.inflight \in Nat
            /\ admission.bulk \in Nat /\ admission.inflight \in Nat
        BY <3>1, <3>2 DEF AdmissionRecord
      <4> QED
        BY <3>1, <3>2, <4>1, BulkMaxPositive, FplConstants
    <3>4. /\ DOMAIN leases' = DOMAIN leases \ {c}
          /\ \A d \in DOMAIN leases \ {c} : leases'[d] = leases[d]
          /\ leases' = [d \in DOMAIN leases' |-> leases'[d]]
      BY <2>4
    <3>5. Matches(admission, DOMAIN leases)'
      BY <3>2, <3>4, Zenon
    <3>6. CallOf(call[c], c)'
      BY <2>2, RestFacts DEF CallOf, Timed
    <3>7. /\ DOMAIN leases' \subseteq FplCall
          /\ \A d \in DOMAIN leases' : leases'[d] \in 0..FplLease
          /\ \A d \in FplCall \ {c} :
               /\ d \in DOMAIN leases' => d \in DOMAIN leases
               /\ d \in DOMAIN leases /\ leases[d] # 0 => d \in DOMAIN leases' /\ leases'[d] = leases[d]
      BY <1>1, <3>4
    <3> QED
      BY <2>1, <2>2, <3>1, <3>2, <3>3, <3>4, <3>5, <3>6, <3>7, LeasesChange
  <2> QED
    BY <1>5, <2>3, <2>4 DEF FplRelease, HeldLease
<1> QED
  BY <1>3, <1>4, <1>5

LEMMA FplTimeSteps ==
  ASSUME FplIInv
  PROVE  (FplCool => FplIInv') /\ (FplTick => FplIInv')
<1>1. ASSUME FplCool PROVE FplIInv'
  <2>1. /\ admission' \in AdmissionRecord /\ admission'.limit = admission.limit
        /\ admission'.live = admission.live /\ admission'.bulk = admission.bulk
        /\ admission'.inflight = admission.inflight /\ UNCHANGED <<leases, call, deaths>>
    BY <1>1 DEF FplIInv, FplTypes, FplCool, AdmissionRecord
  <2>2. FplTypes'
    BY <2>1 DEF FplIInv, FplTypes
  <2> QED
    BY <2>1, <2>2 DEF FplIInv, Matches, CallOf
<1>2. ASSUME FplTick PROVE FplIInv'
  <2> DEFINE less(n) == Max({0, n - 1})
  <2>1. \A n \in Nat : less(n) \in Nat /\ less(n) = IF n = 0 THEN 0 ELSE n - 1
    <3> TAKE n \in Nat
    <3> DEFINE j == n - 1
    <3>1. j \in Int /\ 0 \in Int
      OBVIOUS
    <3> HIDE DEF j
    <3>2. Max({0, j}) = IF 0 >= j THEN 0 ELSE j
      BY <3>1, OfTwo, Zenon
    <3> QED
      BY <3>2 DEF j
  <2>2. /\ \A c \in FplCall : call[c].pc \in Timed => call[c].timer > 0
        /\ leases' = [c \in DOMAIN leases |-> less(leases[c])]
        /\ call' = [c \in FplCall |-> [call[c] EXCEPT !.timer = less(@), !.left = less(@)]]
        /\ UNCHANGED <<admission, deaths>>
    BY <1>2 DEF FplTick
  <2> HIDE DEF less
  <2>3. /\ DOMAIN leases' = DOMAIN leases /\ leases' = [c \in DOMAIN leases' |-> leases'[c]]
        /\ \A c \in DOMAIN leases : leases'[c] = less(leases[c])
    BY <2>2
  <2>4. \A c \in DOMAIN leases : leases[c] \in 0..FplLease /\ leases'[c] \in 0..FplLease
    BY <2>1, <2>3, FplConstants DEF FplIInv, FplTypes
  <2>5. ASSUME NEW c \in FplCall
        PROVE  /\ call'[c] \in CallRecord /\ call'[c].timer = less(call[c].timer)
               /\ call'[c].left = less(call[c].left) /\ call'[c].pc = call[c].pc
               /\ call'[c].kept = call[c].kept /\ call'[c].heard = call[c].heard
               /\ call'[c].attempt = call[c].attempt /\ call'[c].result = call[c].result
    <3>1. call[c] \in CallRecord
      BY DEF FplIInv, FplTypes
    <3>2. /\ call[c].timer \in 0..FplDeadline /\ call[c].left \in 0..FplDeadline /\ FplDeadline \in Nat
      BY <3>1, FplConstants DEF CallRecord
    <3>3. less(call[c].timer) \in 0..FplDeadline /\ less(call[c].left) \in 0..FplDeadline
      BY <2>1, <3>2
    <3>4. call'[c] = [call[c] EXCEPT !.timer = less(call[c].timer), !.left = less(call[c].left)]
      BY <2>2
    <3> QED
      BY <3>1, <3>3, <3>4 DEF CallRecord
  <2>6. call' \in [FplCall -> CallRecord]
    BY <2>2, <2>5
  <2>7. FplTypes'
    BY <2>2, <2>3, <2>4, <2>6 DEF FplIInv, FplTypes
  <2>8. ASSUME NEW c \in FplCall PROVE CallOf(call[c], c)'
    <3>1. CallOf(call[c], c)
      BY DEF FplIInv
    <3>2. call[c].pc \in Timed =>
            c \in DOMAIN leases' /\ leases'[c] > call'[c].left /\ call'[c].timer <= call'[c].left
      <4>1. call[c].timer \in Nat /\ call[c].left \in Nat
        BY FplConstants DEF FplIInv, FplTypes, CallRecord
      <4> SUFFICES ASSUME call[c].pc \in Timed
                   PROVE  c \in DOMAIN leases' /\ leases'[c] > call'[c].left
                          /\ call'[c].timer <= call'[c].left
        OBVIOUS
      <4>2. /\ call[c].timer > 0 /\ c \in DOMAIN leases /\ leases[c] > call[c].left
            /\ call[c].timer <= call[c].left /\ leases[c] \in Nat
        <5>1. call[c].timer > 0
          BY <2>2
        <5>2. /\ c \in DOMAIN leases /\ leases[c] > call[c].left
              /\ call[c].timer <= call[c].left
          BY <3>1 DEF CallOf
        <5>3. leases[c] \in Nat
          BY <2>4, <5>2, FplConstants
        <5> QED
          BY <5>1, <5>2, <5>3
      <4>3. /\ less(call[c].timer) = call[c].timer - 1 /\ less(call[c].left) = call[c].left - 1
            /\ less(leases[c]) = leases[c] - 1
        BY <2>1, <4>1, <4>2
      <4> QED
        BY <2>3, <2>5, <4>1, <4>2, <4>3
    <3> QED
      BY <2>3, <2>5, <3>1, <3>2 DEF CallOf
  <2>9. Matches(admission, DOMAIN leases)'
    BY <2>2, <2>3 DEF FplIInv, Matches
  <2> QED
    BY <2>2, <2>7, <2>8, <2>9 DEF FplIInv
<1> QED
  BY <1>1, <1>2

\* FplInv: through lost answers, deaths and leases that run out, the counters
\* in Redis are its leases, the requests that may talk to FPL stay within the
\* limits, and a request answers for the last status it heard, for every number
\* of requests and all limits and times with a deadline below the lease.
THEOREM FplInvHolds == FplSpec => []FplInv
<1>1. FplInit => FplIInv
  <2> SUFFICES ASSUME FplInit PROVE FplIInv
    OBVIOUS
  <2>1. DOMAIN leases = {} /\ leases = [c \in DOMAIN leases |-> leases[c]]
    BY DEF FplInit
  <2>2. /\ admission \in AdmissionRecord /\ admission.limit <= Max({BulkMax, FplMaxInflight})
        /\ admission.live = 0 /\ admission.bulk = 0 /\ admission.inflight = 0
    BY BulkMaxPositive, FplConstants DEF FplInit, AdmissionRecord
  <2>3. \A c \in FplCall : call[c] = Rest("waiting")
    BY DEF FplInit
  <2>4. FplTypes
    BY <2>1, <2>2, RestFacts, FplConstants DEF FplInit, FplTypes
  <2>5. Matches(admission, DOMAIN leases)
    <3>1. \A p : OfPriority(DOMAIN leases, p) = {}
      BY <2>1 DEF OfPriority
    <3>2. \A p : Cardinality(OfPriority(DOMAIN leases, p)) = 0
      BY <3>1, FS_EmptySet, Zenon
    <3> QED
      BY <2>2, <3>2 DEF Matches
  <2>6. \A c \in FplCall : CallOf(call[c], c)
    BY <2>1, <2>3, RestFacts DEF CallOf, Timed
  <2>7. admission.bulk <= BulkMax /\ admission.inflight <= FplMaxInflight
    BY <2>2, BulkMaxPositive, FplConstants
  <2> QED
    BY <2>4, <2>5, <2>6, <2>7 DEF FplIInv
<1>2. FplIInv /\ [FplNext]_fplVars => FplIInv'
  <2> SUFFICES ASSUME FplIInv, [FplNext]_fplVars PROVE FplIInv'
    OBVIOUS
  <2>1. CASE UNCHANGED fplVars
    BY <2>1 DEF fplVars, FplIInv, FplTypes, Matches, CallOf
  <2>2. CASE FplNext
    BY <2>2, FplLeaseSteps, FplCallSteps, FplTimeSteps DEF FplNext
  <2> QED
    BY <2>1, <2>2
<1>3. FplIInv => FplInv
  <2> SUFFICES ASSUME FplIInv PROVE FplInv
    OBVIOUS
  <2>0. /\ admission \in AdmissionRecord /\ DOMAIN leases \in SUBSET FplCall
        /\ Matches(admission, DOMAIN leases)
        /\ admission.live \in Nat /\ admission.bulk \in Nat /\ admission.inflight \in Nat
    BY DEF FplIInv, FplTypes, AdmissionRecord
  <2>1. CountersMatchLeases
    BY <2>0 DEF CountersMatchLeases, Matches, OfPriority
  <2>2. FplTypeOK
    <3>1. Cardinality(DOMAIN leases) = admission.inflight
      BY <2>0, CountsOf DEF Matches
    <3>2. /\ admission.inflight <= Cardinality(FplCall) /\ admission.live <= Cardinality(FplCall)
          /\ admission.bulk <= Cardinality(FplCall) /\ Cardinality(FplCall) \in Nat
      BY <2>0, <3>1, CountsOf DEF Matches
    <3>3. admission.limit \in 1..Max({BulkMax, FplMaxInflight})
      BY <2>0, BulkMaxPositive DEF FplIInv, FplTypes, AdmissionRecord
    <3>4. admission \in [inflight : 0..Cardinality(FplCall), live : 0..Cardinality(FplCall),
                         bulk : 0..Cardinality(FplCall),
                         limit : 1..Max({BulkMax, FplMaxInflight}),
                         error : {"none", "recent", "old"}]
      <4>1. /\ admission.inflight \in 0..Cardinality(FplCall)
            /\ admission.live \in 0..Cardinality(FplCall)
            /\ admission.bulk \in 0..Cardinality(FplCall)
        BY <2>0, <3>2
      <4> QED
        BY <2>0, <3>3, <4>1 DEF AdmissionRecord
    <3> QED
      BY <3>4 DEF FplTypeOK, FplIInv, FplTypes, CallRecord
  <2>3. CallsWithinLimits
    <3> DEFINE calling(P) == {c \in FplCall : call[c].pc \in Timed /\ FplPriority[c] \in P}
    <3>1. \A c \in FplCall : call[c].pc \in Timed => c \in DOMAIN leases /\ leases[c] > call[c].left
      BY DEF FplIInv, CallOf
    <3>2. /\ calling({"live", "bulk"}) \subseteq DOMAIN leases
          /\ calling({"bulk"}) \subseteq OfPriority(DOMAIN leases, "bulk")
      BY <3>1 DEF OfPriority
    <3>3. Cardinality(DOMAIN leases) = admission.inflight
      BY <2>0, CountsOf DEF Matches
    <3>4. /\ IsFiniteSet(DOMAIN leases) /\ IsFiniteSet(OfPriority(DOMAIN leases, "bulk"))
      BY <2>0, CountsOf
    <3> HIDE DEF calling
    <3>5. /\ Cardinality(calling({"live", "bulk"})) <= admission.inflight
          /\ Cardinality(calling({"live", "bulk"})) \in Nat
      BY <3>2, <3>3, <3>4, FS_Subset, FS_CardinalityType
    <3>6. /\ Cardinality(calling({"bulk"})) <= admission.bulk
          /\ Cardinality(calling({"bulk"})) \in Nat
      BY <2>0, <3>2, <3>4, FS_Subset, FS_CardinalityType DEF Matches
    <3>7. /\ Cardinality(calling({"live", "bulk"})) <= FplMaxInflight
          /\ Cardinality(calling({"bulk"})) <= BulkMax
      BY <2>0, <3>5, <3>6, BulkMaxPositive, FplConstants DEF FplIInv
    <3> QED
      BY <3>1, <3>7 DEF CallsWithinLimits, calling
  <2>4. AnswersLastStatus
    BY DEF FplIInv, CallOf, AnswersLastStatus
  <2> QED
    BY <2>1, <2>2, <2>3, <2>4 DEF FplInv
<1> QED
  BY <1>1, <1>2, <1>3, PTL DEF FplSpec
=============================================================================
