-------------------------- MODULE TournamentCascade --------------------------
(***************************************************************************)
(* The tournament cascade: event-results fans out one job per role, each   *)
(* job commits its mutation and then records its slot in Redis, and the    *)
(* job that finds all slots taken enqueues the materialised-view refresh   *)
(* that finishes tournaments (workers/tournament-sync.worker.ts,           *)
(* jobs/tournament-sync.jobs.ts).                                          *)
(*                                                                         *)
(* A fan-out that loses one enqueue throws, and the retry of event-results *)
(* starts a new cascade under a new id while the jobs of the old one still *)
(* run.  Every Redis call of a job is a step: it may die between any two,  *)
(* and BullMQ hands the job out again.                                     *)
(***************************************************************************)
EXTENDS Naturals, FiniteSets

CONSTANTS Structure,        \* points race, battle race, knockout, cup results
          Cascade,          \* cascade ids, one per attempt of event-results
          MaxCascadeFaults  \* lost enqueues, dead workers, leases run out early

ASSUME CascadeAssumption ==
    {"transfers", "stats"} \cap Structure = {} /\ MaxCascadeFaults \in Nat

\* CASCADE_COMPLETION_BARRIER_JOBS
Role == Structure \cup {"transfers", "stats"}
FanOut == Role \ {"stats"}
NoHolder == "free"

VARIABLES baseJob,     \* state of the event-results job and its current cascade
          roleJob,     \* BullMQ state and position of the job of a role
          computed,    \* roles whose mutation has committed
          slot,        \* structure-done keys
          pending,     \* refresh-pending key
          refreshLease,\* refresh-lease key: the role holding it
          refreshDone, \* refresh-enqueued key
          refreshJob,  \* the refresh job of a cascade: none, queued or run
          cascadeFaults

cascadeVars == <<baseJob, roleJob, computed, slot, pending, refreshLease, refreshDone,
                 refreshJob, cascadeFaults>>

CascadeTypeOK ==
    /\ baseJob \in [step: {"waiting", "enqueueing", "done"}, id: Cascade \cup {NoHolder},
                    todo: SUBSET FanOut]
    /\ roleJob \in [Cascade -> [Role ->
          {"none", "queued", "committed", "noting", "claiming", "holding", "added", "marked", "done"}]]
    /\ computed \in [Cascade -> SUBSET Role]
    /\ slot \in [Cascade -> SUBSET Role]
    /\ pending \in [Cascade -> BOOLEAN]
    /\ refreshLease \in [Cascade -> Role \cup {NoHolder}]
    /\ refreshDone \in [Cascade -> BOOLEAN]
    /\ refreshJob \in [Cascade -> {"none", "queued", "run"}]
    /\ cascadeFaults \in 0..MaxCascadeFaults

CascadeInit ==
    /\ baseJob = [step |-> "waiting", id |-> NoHolder, todo |-> {}]
    /\ roleJob = [c \in Cascade |-> [r \in Role |-> "none"]]
    /\ computed = [c \in Cascade |-> {}]
    /\ slot = [c \in Cascade |-> {}]
    /\ pending = [c \in Cascade |-> FALSE]
    /\ refreshLease = [c \in Cascade |-> NoHolder]
    /\ refreshDone = [c \in Cascade |-> FALSE]
    /\ refreshJob = [c \in Cascade |-> "none"]
    /\ cascadeFaults = 0

RoleAt(c, r, from, to) ==
    /\ roleJob[c][r] = from
    /\ roleJob' = [roleJob EXCEPT ![c][r] = to]
-----------------------------------------------------------------------------
(* enqueueTournamentCascade, in the event-results job                      *)

initCascadeStructureBarrier(c) ==
    /\ baseJob.step = "waiting"
    /\ \A r \in Role : roleJob[c][r] = "none"
    /\ baseJob' = [step |-> "enqueueing", id |-> c, todo |-> FanOut]
    /\ UNCHANGED <<roleJob, computed, slot, pending, refreshLease, refreshDone, refreshJob,
                   cascadeFaults>>

enqueueRole(r) ==
    /\ baseJob.step = "enqueueing" /\ r \in baseJob.todo
    /\ baseJob' = [baseJob EXCEPT !.todo = @ \ {r}]
    /\ RoleAt(baseJob.id, r, "none", "queued")
    /\ UNCHANGED <<computed, slot, pending, refreshLease, refreshDone, refreshJob, cascadeFaults>>

\* All enqueues are fulfilled: the job ends with one more look at the barrier,
\* which finds the refresh not pending, already enqueued or claims it below.
enqueueTournamentCascade ==
    /\ baseJob.step = "enqueueing" /\ baseJob.todo = {}
    /\ baseJob' = [baseJob EXCEPT !.step = "done"]
    /\ UNCHANGED <<roleJob, computed, slot, pending, refreshLease, refreshDone, refreshJob,
                   cascadeFaults>>

\* An enqueue is rejected or the worker dies: the job throws and is retried.
CascadeEnqueueFails ==
    /\ baseJob.step = "enqueueing" /\ cascadeFaults < MaxCascadeFaults
    /\ baseJob' = [step |-> "waiting", id |-> NoHolder, todo |-> {}]
    /\ cascadeFaults' = cascadeFaults + 1
    /\ UNCHANGED <<roleJob, computed, slot, pending, refreshLease, refreshDone, refreshJob>>
-----------------------------------------------------------------------------
(* processTournamentSyncJob for one role                                   *)

\* The mutation commits under the job's mutation scopes.
RunMutation(c, r) ==
    /\ RoleAt(c, r, "queued", "committed")
    /\ computed' = [computed EXCEPT ![c] = @ \cup {r}]
    /\ UNCHANGED <<baseJob, slot, pending, refreshLease, refreshDone, refreshJob, cascadeFaults>>

\* afterCommit: transfers-post first enqueues the selection statistics; a
\* repeated transfers-post enqueues them again, which the barrier ignores.
AfterCommit(c, r) ==
    /\ roleJob[c][r] = "committed"
    /\ roleJob' = [roleJob EXCEPT ![c] =
          [q \in Role |-> CASE q = r -> "noting"
                            [] q = "stats" /\ r = "transfers" /\ @[q] = "none" -> "queued"
                            [] OTHER -> @[q]]]
    /\ UNCHANGED <<baseJob, computed, slot, pending, refreshLease, refreshDone, refreshJob,
                   cascadeFaults>>

\* NOTE_CASCADE_STRUCTURE_COMPLETE_LUA: the slot is set once; the refresh is
\* pending once every role has its slot.
StatsNotAwaited(slots) == FanOut \subseteq slots
BarrierComplete(slots) == slots = Role
noteCascadeStructureJobComplete(c, r) ==
    /\ RoleAt(c, r, "noting", "claiming")
    /\ slot' = [slot EXCEPT ![c] = @ \cup {r}]
    /\ pending' = [pending EXCEPT ![c] = @ \/ (r \notin slot[c] /\ BarrierComplete(slot'[c]))]
    /\ UNCHANGED <<baseJob, computed, refreshLease, refreshDone, refreshJob, cascadeFaults>>

\* TRY_CLAIM_CASCADE_REFRESH_LUA: already enqueued and not pending end the
\* job, a busy lease throws so that BullMQ retries, otherwise the lease is ours.
BusyLeaseThrows(c, r) == RoleAt(c, r, "claiming", "queued")
tryClaimCascadeRefreshEnqueue(c, r) ==
    /\ \/ /\ refreshDone[c] \/ ~pending[c]
          /\ RoleAt(c, r, "claiming", "done")
          /\ UNCHANGED refreshLease
       \/ /\ ~refreshDone[c] /\ pending[c] /\ refreshLease[c] # NoHolder
          /\ BusyLeaseThrows(c, r)
          /\ UNCHANGED refreshLease
       \/ /\ ~refreshDone[c] /\ pending[c] /\ refreshLease[c] = NoHolder
          /\ RoleAt(c, r, "claiming", "holding")
          /\ refreshLease' = [refreshLease EXCEPT ![c] = r]
    /\ UNCHANGED <<baseJob, computed, slot, pending, refreshDone, refreshJob, cascadeFaults>>

enqueueTournamentMaterializedViewsRefresh(c, r) ==
    /\ RoleAt(c, r, "holding", "added")
    /\ refreshJob' = [refreshJob EXCEPT ![c] = "queued"]
    /\ UNCHANGED <<baseJob, computed, slot, pending, refreshLease, refreshDone, cascadeFaults>>

\* queue.add fails: releaseCascadeRefreshEnqueueClaim deletes the lease,
\* whoever holds it by now, and the job is retried.
RefreshEnqueueFails(c, r) ==
    /\ cascadeFaults < MaxCascadeFaults /\ cascadeFaults' = cascadeFaults + 1
    /\ RoleAt(c, r, "holding", "queued")
    /\ refreshLease' = [refreshLease EXCEPT ![c] = NoHolder]
    /\ UNCHANGED <<baseJob, computed, slot, pending, refreshDone, refreshJob>>

\* markCascadeRefreshEnqueued: the done key first, then pending and lease go.
markCascadeRefreshEnqueued(c, r) ==
    /\ \/ /\ RoleAt(c, r, "added", "marked")
          /\ refreshDone' = [refreshDone EXCEPT ![c] = TRUE]
          /\ UNCHANGED <<pending, refreshLease>>
       \/ /\ RoleAt(c, r, "marked", "done")
          /\ pending' = [pending EXCEPT ![c] = FALSE]
          /\ refreshLease' = [refreshLease EXCEPT ![c] = NoHolder]
          /\ UNCHANGED refreshDone
    /\ UNCHANGED <<baseJob, computed, slot, refreshJob, cascadeFaults>>

\* The worker of a role dies; the stalled job is handed out again.
RoleWorkerDies(c, r) ==
    /\ roleJob[c][r] \in {"committed", "noting", "claiming", "holding", "added", "marked"}
    /\ cascadeFaults < MaxCascadeFaults /\ cascadeFaults' = cascadeFaults + 1
    /\ roleJob' = [roleJob EXCEPT ![c][r] = "queued"]
    /\ UNCHANGED <<baseJob, computed, slot, pending, refreshLease, refreshDone, refreshJob>>

\* The lease runs out: at any time after its holder has died, and at the cost
\* of a fault while the holder is only slow.
LeaseRunsOut(c) ==
    LET h == refreshLease[c] IN
    /\ h # NoHolder
    /\ IF roleJob[c][h] \in {"holding", "added", "marked"}
       THEN cascadeFaults < MaxCascadeFaults /\ cascadeFaults' = cascadeFaults + 1
       ELSE UNCHANGED cascadeFaults
    /\ refreshLease' = [refreshLease EXCEPT ![c] = NoHolder]
    /\ UNCHANGED <<baseJob, roleJob, computed, slot, pending, refreshDone, refreshJob>>

\* The refresh job: finalizeTournamentEventLifecycle finishes tournaments and
\* rebuilds the derived views.
RunRefresh(c) ==
    /\ refreshJob[c] = "queued"
    /\ refreshJob' = [refreshJob EXCEPT ![c] = "run"]
    /\ UNCHANGED <<baseJob, roleJob, computed, slot, pending, refreshLease, refreshDone,
                   cascadeFaults>>
-----------------------------------------------------------------------------
BaseStep ==
    \/ \E c \in Cascade : initCascadeStructureBarrier(c)
    \/ \E r \in FanOut : enqueueRole(r)
    \/ enqueueTournamentCascade

RoleStep(c, r) ==
    \/ RunMutation(c, r)
    \/ AfterCommit(c, r)
    \/ noteCascadeStructureJobComplete(c, r)
    \/ tryClaimCascadeRefreshEnqueue(c, r)
    \/ enqueueTournamentMaterializedViewsRefresh(c, r)
    \/ markCascadeRefreshEnqueued(c, r)

CascadeNext ==
    \/ BaseStep
    \/ CascadeEnqueueFails
    \/ \E c \in Cascade, r \in Role :
        \/ RoleStep(c, r)
        \/ RefreshEnqueueFails(c, r)
        \/ RoleWorkerDies(c, r)
    \/ \E c \in Cascade : LeaseRunsOut(c) \/ RunRefresh(c)

CascadeFairness ==
    /\ WF_cascadeVars(BaseStep)
    /\ \A c \in Cascade, r \in Role : WF_cascadeVars(RoleStep(c, r))
    /\ \A c \in Cascade : WF_cascadeVars(LeaseRunsOut(c)) /\ WF_cascadeVars(RunRefresh(c))

CascadeSpec == CascadeInit /\ [][CascadeNext]_cascadeVars /\ CascadeFairness
-----------------------------------------------------------------------------
\* Tournaments are finished and the views rebuilt only from a complete cascade:
\* when a refresh has been enqueued, every role of that cascade, the late
\* selection statistics included, has committed its mutation.
RefreshAfterEveryRole ==
    \A c \in Cascade : refreshJob[c] # "none" => computed[c] = Role

\* A cascade whose fan-out succeeded is refreshed in the end, although the job
\* holding the lease may die after the barrier completed, its queue.add may
\* fail, and every other job may have ended believing the refresh in hand.
CascadeIsRefreshed ==
    \A c \in Cascade :
        (baseJob.step = "done" /\ baseJob.id = c) ~> (refreshJob[c] = "run")

\* The cascade's invariant.
CascadeInv == CascadeTypeOK /\ RefreshAfterEveryRole
=============================================================================
