---------------------------- MODULE MyFplRefresh ----------------------------
(***************************************************************************)
(* The refresh barrier in front of a My FPL snapshot                       *)
(* (workers/maintenance.worker.ts, services/my-fpl-refresh-tracker.ts).    *)
(* The snapshot job enqueues the refresh jobs of one phase after another.  *)
(* A job is added to its queue first and to the Redis set of the run       *)
(* afterwards, so it may be over before it is tracked; a job that fans out *)
(* tracks every child before it resolves.  The coordinator polls the set.  *)
(*                                                                         *)
(* A failed attempt is retried under a new run id, with new job ids and a  *)
(* new set; the jobs of the old attempt run on without anyone waiting.     *)
(***************************************************************************)
EXTENDS Naturals, FiniteSets

CONSTANTS RefreshJob,       \* the jobs of one attempt, descendants included
          PhaseOf,          \* the phase of a job, 1..Phases
          ParentOf,         \* the job that enqueues it, or NoParent
          NoParent,
          MaxRefreshFaults  \* dead workers, failed jobs and time-outs

\* Phases are numbered, a job and those it enqueues are of one phase, and every
\* job descends from one that the coordinator enqueues.
ASSUME RefreshAssumption ==
    /\ NoParent \notin RefreshJob
    /\ PhaseOf \in [RefreshJob -> Nat \ {0}]
    /\ ParentOf \in [RefreshJob -> RefreshJob \cup {NoParent}]
    /\ \A j \in RefreshJob : ParentOf[j] # NoParent => PhaseOf[ParentOf[j]] = PhaseOf[j]
    /\ \E last \in RefreshJob : \A j \in RefreshJob : PhaseOf[j] <= PhaseOf[last]
    /\ \A S \in SUBSET RefreshJob :
          (\A j \in RefreshJob : ParentOf[j] \in S \cup {NoParent} => j \in S) => S = RefreshJob
    /\ MaxRefreshFaults \in Nat

VARIABLES job,        \* BullMQ: none, queued or done, or failed for good
          kids,       \* children a running job has enqueued and tracked
          beingAdded, \* children added to the queue and not tracked yet
          tracked,    \* llm:queue:coordination:my-fpl-refresh:<run>:jobs
          coord,      \* the snapshot job: phase, step, its references
          refreshFaults

refreshVars == <<job, kids, beingAdded, tracked, coord, refreshFaults>>

Phases == CHOOSE n \in {PhaseOf[j] : j \in RefreshJob} : \A j \in RefreshJob : PhaseOf[j] <= n
Roots(p) == {j \in RefreshJob : PhaseOf[j] = p /\ ParentOf[j] = NoParent}
Children(j) == {c \in RefreshJob : ParentOf[c] = j}

RefreshTypeOK ==
    /\ job \in [RefreshJob -> {"none", "queued", "done", "failed"}]
    /\ kids \in [RefreshJob -> SUBSET RefreshJob]
    /\ beingAdded \subseteq RefreshJob /\ tracked \subseteq RefreshJob
    /\ coord \in [phase: 1..Phases, step: {"enqueue", "list", "wait", "reread", "capture"},
                  refs: SUBSET RefreshJob, completed: SUBSET RefreshJob]
    /\ refreshFaults \in 0..MaxRefreshFaults

FirstPhase == [phase |-> 1, step |-> "enqueue", refs |-> {}, completed |-> {}]
CapturePhase == [phase |-> Phases, step |-> "capture", refs |-> {}, completed |-> {}]
RefreshInit ==
    /\ job = [j \in RefreshJob |-> "none"]
    /\ kids = [j \in RefreshJob |-> {}]
    /\ beingAdded = {} /\ tracked = {}
    /\ coord = FirstPhase
    /\ refreshFaults = 0

RefreshFault == refreshFaults < MaxRefreshFaults /\ refreshFaults' = refreshFaults + 1
-----------------------------------------------------------------------------
(* Enqueueing: queue.add, then trackMyFplRefreshJob.  The id is derived    *)
(* from the run, so adding a job again finds the stored one.               *)

QueueAdd(j) ==
    /\ job' = [job EXCEPT ![j] = IF @ = "none" THEN "queued" ELSE @]
    /\ beingAdded' = beingAdded \cup {j}

trackMyFplRefreshJob(j) ==
    /\ j \in beingAdded
    /\ beingAdded' = beingAdded \ {j}
    /\ tracked' = tracked \cup {j}
    /\ kids' = IF ParentOf[j] = NoParent THEN kids
               ELSE [kids EXCEPT ![ParentOf[j]] = @ \cup {j}]
    /\ UNCHANGED <<job, coord, refreshFaults>>

\* runMyFplRefreshPhase starts every root of the phase.
EnqueueRoot(j) ==
    /\ coord.step = "enqueue" /\ j \in Roots(coord.phase)
    /\ j \notin tracked \cup beingAdded
    /\ QueueAdd(j)
    /\ UNCHANGED <<kids, tracked, coord, refreshFaults>>

\* A running job enqueues its continuation, retry list or cascade children.
EnqueueChild(j, c) ==
    /\ job[j] = "queued" /\ c \in Children(j) \ kids[j] /\ c \notin beingAdded
    /\ QueueAdd(c)
    /\ UNCHANGED <<kids, tracked, coord, refreshFaults>>

\* A job resolves after all its enqueues, tracking included, have resolved.
MayResolve(j) == job[j] = "queued" /\ kids[j] = Children(j)
CompleteJob(j) ==
    /\ MayResolve(j)
    /\ job' = [job EXCEPT ![j] = "done"]
    /\ UNCHANGED <<kids, beingAdded, tracked, coord, refreshFaults>>

\* The worker of a job dies; the job runs again from the start.  After its
\* last attempt it is failed.
RefreshWorkerDies(j) ==
    /\ job[j] = "queued" /\ RefreshFault
    /\ job' \in {job, [job EXCEPT ![j] = "failed"]}
    /\ kids' = [kids EXCEPT ![j] = {}]
    /\ beingAdded' = beingAdded \ Children(j)
    /\ UNCHANGED <<tracked, coord>>
-----------------------------------------------------------------------------
(* waitForMyFplRefreshJobs                                                 *)

PhaseEnqueued ==
    /\ coord.step = "enqueue" /\ Roots(coord.phase) \subseteq tracked
    /\ coord' = [coord EXCEPT !.step = "list"]
    /\ UNCHANGED <<job, kids, beingAdded, tracked, refreshFaults>>

\* An empty set is polled again.
listMyFplRefreshJobs ==
    /\ coord.step = "list" /\ tracked # {}
    /\ coord' = [coord EXCEPT !.step = "wait", !.refs = tracked]
    /\ UNCHANGED <<job, kids, beingAdded, tracked, refreshFaults>>

\* The state of a referenced job: completed, or waited for and looked up again
\* in the next round.
ObserveJob(j) ==
    /\ coord.step = "wait" /\ j \in coord.refs \ coord.completed
    /\ job[j] = "done"
    /\ coord' = [coord EXCEPT !.completed = @ \cup {j}]
    /\ UNCHANGED <<job, kids, beingAdded, tracked, refreshFaults>>

AllReferencesCompleted ==
    /\ coord.step = "wait" /\ coord.refs \subseteq coord.completed
    /\ coord' = [coord EXCEPT !.step = "reread"]
    /\ UNCHANGED <<job, kids, beingAdded, tracked, refreshFaults>>

\* The set is read once more; unless it has grown, the phase has settled and
\* the set is cleared.
NotReread(final) == TRUE
SettledBy(final) == final \subseteq coord.completed
waitForMyFplRefreshJobs ==
    /\ coord.step = "reread"
    /\ IF SettledBy(tracked)
       THEN /\ coord' = IF coord.phase = Phases THEN CapturePhase
                        ELSE [FirstPhase EXCEPT !.phase = coord.phase + 1]
            /\ tracked' = {}
       ELSE coord' = [coord EXCEPT !.step = "list"] /\ UNCHANGED tracked
    /\ UNCHANGED <<job, kids, beingAdded, refreshFaults>>

\* A failed or lost job, or the 30 minutes, end the attempt; the next one has
\* its own ids.
RefreshAttemptFails ==
    /\ coord.step # "capture"
    /\ \/ UNCHANGED refreshFaults /\ coord.step = "wait" /\ \E j \in coord.refs : job[j] = "failed"
       \/ RefreshFault
    /\ job' = [j \in RefreshJob |-> "none"]
    /\ kids' = [j \in RefreshJob |-> {}]
    /\ beingAdded' = {} /\ tracked' = {}
    /\ coord' = FirstPhase
-----------------------------------------------------------------------------
RefreshNext ==
    \/ \E j \in RefreshJob :
        \/ trackMyFplRefreshJob(j)
        \/ EnqueueRoot(j)
        \/ \E c \in RefreshJob : EnqueueChild(j, c)
        \/ CompleteJob(j)
        \/ RefreshWorkerDies(j)
        \/ ObserveJob(j)
    \/ PhaseEnqueued
    \/ listMyFplRefreshJobs
    \/ AllReferencesCompleted
    \/ waitForMyFplRefreshJobs
    \/ RefreshAttemptFails

RefreshSpec == RefreshInit /\ [][RefreshNext]_refreshVars
-----------------------------------------------------------------------------
\* The phases do not overlap, and the capture is the last of them: no job of a
\* phase is enqueued, and no snapshot captured, before every job of the
\* earlier phases, descendants tracked late included, is done.
PhasesInOrder ==
    \A i \in RefreshJob :
        /\ \A j \in RefreshJob : PhaseOf[i] < PhaseOf[j] /\ job[j] # "none" => job[i] = "done"
        /\ coord.step = "capture" => job[i] = "done"

\* The refresh barrier's invariant.
RefreshInv == RefreshTypeOK /\ PhasesInOrder
=============================================================================
