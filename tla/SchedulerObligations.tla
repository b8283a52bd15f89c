------------------------ MODULE SchedulerObligations ------------------------
(***************************************************************************)
(* The durable schedule.  A scheduler pass (the scheduler process, or an   *)
(* API process in compatibility mode) reserves the obligations that are    *)
(* due in ops.scheduler_obligations, claims them under a lease, and hands  *)
(* each to BullMQ under a job ID made of the obligation and its            *)
(* generation.  Queue workers run the jobs and report back by obligation   *)
(* and generation; whatever was lost is claimed again, as a new            *)
(* generation, once its lease has run out.                                 *)
(*                                                                         *)
(* Every SQL statement or transaction, and every call of the queue, is one *)
(* step.  A pass is its own lease owner: an owner is a UUID of one pass,   *)
(* and a pass acts on a row only after claiming it itself.                 *)
(***************************************************************************)
EXTENDS Integers

CONSTANTS
    Obl,            \* obligations: job, scope and period
    Pass,           \* the processes that run scheduler passes
    Scheduler,      \* the one that is always deployed
    NoPass,         \* no lease owner
    CurrentDayOnly, \* catchUpPolicy 'current-day-only' (market-daily)?
    MaxGen,         \* bound on generations
    MaxFaults       \* bound on failures, lost calls, crashes and slow leases

ASSUME PassAssumption == NoPass \notin Pass /\ Scheduler \in Pass
ASSUME PolicyAssumption == CurrentDayOnly \in BOOLEAN
ASSUME BoundsAssumption == MaxGen \in Nat /\ MaxFaults \in Nat

VARIABLES
    status,     \* status of the row
    gen,        \* its generation
    due,        \* has its due_at passed?
    leaseOwner, \* who claimed it
    leased,     \* is its lease unexpired?
    open,       \* is its period still the current one?
    job,        \* state of the job of each generation in its queue
    task,       \* what each pass is about to do for each obligation
    claimed,    \* the generation a pass claimed
    worked,     \* history: the generations whose job did its work
    faults

rowVars == <<status, gen, due, leaseOwner, leased>>
passVars == <<task, claimed>>
vars == <<rowVars, passVars, open, job, worked, faults>>

Gen == 0..MaxGen
InFlight == {"enqueued", "running"}
Terminal == {"succeeded", "irrecoverable"}
Status == {"absent", "pending", "failed"} \cup InFlight \cup Terminal
JobState == {"absent", "waiting", "active", "ran", "broken", "settled"}
Task == {"idle", "reserve", "reserveExpired", "mark", "planned", "enqueue",
         "confirm", "fail"}

TypeOK ==
    /\ status \in [Obl -> Status]
    /\ gen \in [Obl -> Gen]
    /\ due \in [Obl -> BOOLEAN]
    /\ leaseOwner \in [Obl -> Pass \cup {NoPass}]
    /\ leased \in [Obl -> BOOLEAN]
    /\ open \in [Obl -> BOOLEAN]
    /\ job \in [Obl -> [Gen -> JobState]]
    /\ task \in [Pass -> [Obl -> Task]]
    /\ claimed \in [Pass -> [Obl -> Gen]]
    /\ worked \in [Obl -> SUBSET Gen]
    /\ faults \in 0..MaxFaults

Init ==
    /\ status = [o \in Obl |-> "absent"]
    /\ gen = [o \in Obl |-> 0]
    /\ due = [o \in Obl |-> TRUE]
    /\ leaseOwner = [o \in Obl |-> NoPass]
    /\ leased = [o \in Obl |-> FALSE]
    /\ open = [o \in Obl |-> TRUE]
    /\ job = [o \in Obl |-> [g \in Gen |-> "absent"]]
    /\ task = [p \in Pass |-> [o \in Obl |-> "idle"]]
    /\ claimed = [p \in Pass |-> [o \in Obl |-> 0]]
    /\ worked = [o \in Obl |-> {}]
    /\ faults = 0

Fault == faults < MaxFaults /\ faults' = faults + 1

Goto(p, o, t) == task' = [task EXCEPT ![p][o] = t]

(***************************************************************************)
(* Row updates.                                                            *)
(***************************************************************************)

\* The end of an attempt: a new status, and no lease.
Release(o, s) ==
    /\ status' = [status EXCEPT ![o] = s]
    /\ leaseOwner' = [leaseOwner EXCEPT ![o] = NoPass]
    /\ leased' = [leased EXCEPT ![o] = FALSE]
    /\ gen' = gen

\* Mutant: the generation is not compared.
CompleteAnyGeneration(o, g) ==
    IF status[o] \in InFlight
    THEN Release(o, "succeeded") /\ due' = due
    ELSE UNCHANGED rowVars

\* Mutant: the queue's word for the outcome is stored.
CompleteAsCompleted(o, g) ==
    IF gen[o] = g /\ status[o] \in InFlight
    THEN Release(o, "completed") /\ due' = due
    ELSE UNCHANGED rowVars

\* completeSchedulerObligation, by obligation and generation.
Complete(o, g) ==
    IF gen[o] = g /\ status[o] \in InFlight
    THEN Release(o, "succeeded") /\ due' = due
    ELSE UNCHANGED rowVars

\* Mutant: the generation is not compared.
FailAnyGeneration(o, g) ==
    IF status[o] \in InFlight
    THEN Release(o, "failed") /\ due' = [due EXCEPT ![o] = FALSE]
    ELSE UNCHANGED rowVars

\* failSchedulerObligation, by obligation and generation: due again in 60 s.
FailGeneration(o, g) ==
    IF gen[o] = g /\ status[o] \in InFlight
    THEN Release(o, "failed") /\ due' = [due EXCEPT ![o] = FALSE]
    ELSE UNCHANGED rowVars

\* failSchedulerObligation, by obligation and owner.
FailOwned(p, o) ==
    IF leaseOwner[o] = p /\ status[o] \in InFlight
    THEN Release(o, "failed") /\ due' = [due EXCEPT ![o] = FALSE]
    ELSE UNCHANGED rowVars

\* Mutant: whatever the row's state.
MarkAny(o) == Release(o, "irrecoverable") /\ due' = due

\* markSchedulerObligationIrrecoverable: never an attempt in flight.
Mark(o) ==
    IF status[o] \in {"pending", "failed"}
    THEN Release(o, "irrecoverable") /\ due' = due
    ELSE UNCHANGED rowVars

(***************************************************************************)
(* A pass: runSchedulerPass.                                               *)
(***************************************************************************)

\* The definitions resolve their plans for the pass's time: a current period
\* has one; a past one has a terminal plan under current-day-only, else none.
PassStart(p) ==
    /\ \A o \in Obl : task[p][o] = "idle"
    /\ task' = [task EXCEPT ![p] =
                  [o \in Obl |-> IF open[o] THEN "reserve"
                                 ELSE IF CurrentDayOnly THEN "reserveExpired"
                                 ELSE "planned"]]
    /\ UNCHANGED <<rowVars, claimed, open, job, worked, faults>>

\* reserveSchedulerObligation: insert, or find the row that is there.
PassReserve(p, o) ==
    /\ task[p][o] \in {"reserve", "reserveExpired"}
    /\ status' = [status EXCEPT ![o] = IF @ = "absent" THEN "pending" ELSE @]
    /\ Goto(p, o, IF task[p][o] = "reserve" THEN "planned" ELSE "mark")
    /\ UNCHANGED <<gen, due, leaseOwner, leased, claimed, open, job, worked, faults>>

PassMark(p, o) ==
    /\ task[p][o] = "mark"
    /\ Mark(o)
    /\ Goto(p, o, "planned")
    /\ UNCHANGED <<claimed, open, job, worked, faults>>

\* claimSchedulerObligations: what it selects.
Claimable(o) ==
    /\ due[o]
    /\ \/ status[o] \in {"pending", "failed"}
       \/ status[o] \in InFlight /\ ~leased[o]
    /\ status[o] # "pending" => gen[o] < MaxGen

\* Mutant: a retry reuses the job ID of the attempt it replaces.
SameGeneration(o) == gen[o]

\* A failed or reclaimed attempt needs a fresh job ID.
NextGeneration(o) == IF status[o] = "pending" THEN gen[o] ELSE gen[o] + 1

\* One transaction over the selected rows (the limit of 50 is not reached).
PassClaim(p) ==
    /\ \A o \in Obl : task[p][o] = "planned"
    /\ LET S == {o \in Obl : Claimable(o)} IN
         /\ status' = [o \in Obl |-> IF o \in S THEN "enqueued" ELSE status[o]]
         /\ gen' = [o \in Obl |-> IF o \in S THEN NextGeneration(o) ELSE gen[o]]
         /\ leaseOwner' = [o \in Obl |-> IF o \in S THEN p ELSE leaseOwner[o]]
         /\ leased' = [o \in Obl |-> IF o \in S THEN TRUE ELSE leased[o]]
         /\ claimed' = [claimed EXCEPT ![p] =
                          [o \in Obl |-> IF o \in S THEN NextGeneration(o) ELSE @[o]]]
         /\ task' = [task EXCEPT ![p] =
                       [o \in Obl |-> IF o \in S THEN "enqueue" ELSE "idle"]]
    /\ UNCHANGED <<due, open, job, worked, faults>>

\* queue.add: an ID the queue already knows is not added again.
AddJob(o, g) ==
    job' = [job EXCEPT ![o][g] = IF @ = "absent" THEN "waiting" ELSE @]

PassEnqueue(p, o) ==
    /\ task[p][o] = "enqueue"
    /\ AddJob(o, claimed[p][o])
    /\ Goto(p, o, "confirm")
    /\ UNCHANGED <<rowVars, claimed, open, worked, faults>>

\* The call fails, whether or not the queue has the job.
PassEnqueueFails(p, o) ==
    /\ task[p][o] = "enqueue"
    /\ Fault
    /\ AddJob(o, claimed[p][o]) \/ job' = job
    /\ Goto(p, o, "fail")
    /\ UNCHANGED <<rowVars, claimed, open, worked>>

\* confirmSchedulerObligationEnqueued's update: the lease stays.
Confirm(p, o) ==
    /\ status' = [status EXCEPT ![o] = "running"]
    /\ UNCHANGED <<gen, due, leaseOwner, leased>>

Confirmable(p, o) == leaseOwner[o] = p /\ status[o] = "enqueued"

PassConfirm(p, o) ==
    /\ task[p][o] = "confirm"
    /\ IF Confirmable(p, o)
       THEN Confirm(p, o) /\ Goto(p, o, "idle")
       ELSE UNCHANGED rowVars /\ Goto(p, o, "fail")
    /\ UNCHANGED <<claimed, open, job, worked, faults>>

\* The call fails, whether or not the update was committed.
PassConfirmFails(p, o) ==
    /\ task[p][o] = "confirm"
    /\ Fault
    /\ \/ UNCHANGED rowVars
       \/ Confirmable(p, o) /\ Confirm(p, o)
    /\ Goto(p, o, "fail")
    /\ UNCHANGED <<claimed, open, job, worked>>

PassFail(p, o) ==
    /\ task[p][o] = "fail"
    /\ FailOwned(p, o)
    /\ Goto(p, o, "idle")
    /\ UNCHANGED <<claimed, open, job, worked, faults>>

\* Recording the failure fails too.
PassFailLost(p, o) ==
    /\ task[p][o] = "fail"
    /\ Fault
    /\ Goto(p, o, "idle")
    /\ UNCHANGED <<rowVars, claimed, open, job, worked>>

\* The process dies in the middle of a pass.
PassCrash(p) ==
    /\ \E o \in Obl : task[p][o] # "idle"
    /\ Fault
    /\ task' = [task EXCEPT ![p] = [o \in Obl |-> "idle"]]
    /\ UNCHANGED <<rowVars, claimed, open, job, worked>>

(***************************************************************************)
(* Queue workers.                                                          *)
(***************************************************************************)
JobGoto(o, g, s) == job' = [job EXCEPT ![o][g] = s]

JobStart(o, g) ==
    /\ job[o][g] = "waiting"
    /\ JobGoto(o, g, "active")
    /\ UNCHANGED <<rowVars, passVars, open, worked, faults>>

\* The processor succeeds.  market-daily does nothing, successfully, for a
\* date that is no longer current (preparePlayerValuesSync).
JobRun(o, g) ==
    /\ job[o][g] = "active"
    /\ JobGoto(o, g, "ran")
    /\ worked' = [worked EXCEPT ![o] =
                    IF CurrentDayOnly /\ ~open[o] THEN @ ELSE @ \cup {g}]
    /\ UNCHANGED <<rowVars, passVars, open, faults>>

\* The last attempt fails, or the job stalls too often.
JobFails(o, g) ==
    /\ job[o][g] = "active"
    /\ Fault
    /\ JobGoto(o, g, "broken")
    /\ UNCHANGED <<rowVars, passVars, open, worked>>

\* The worker dies: the stalled job goes back to its queue.
JobStalls(o, g) ==
    /\ job[o][g] = "active"
    /\ Fault
    /\ JobGoto(o, g, "waiting")
    /\ UNCHANGED <<rowVars, passVars, open, worked>>

\* renewSchedulerObligation, by obligation and generation.
JobRenews(o, g) ==
    /\ job[o][g] = "active"
    /\ gen[o] = g
    /\ status[o] \in InFlight
    /\ leased' = [leased EXCEPT ![o] = TRUE]
    /\ UNCHANGED <<status, gen, due, leaseOwner, passVars, open, job, worked, faults>>

\* The completed and failed handlers report to the row.
JobReports(o, g) ==
    /\ job[o][g] \in {"ran", "broken"}
    /\ JobGoto(o, g, "settled")
    /\ IF job[o][g] = "ran" THEN Complete(o, g) ELSE FailGeneration(o, g)
    /\ UNCHANGED <<passVars, open, worked, faults>>

\* Their update fails and is swallowed, or the worker dies before it.
JobReportLost(o, g) ==
    /\ job[o][g] \in {"ran", "broken"}
    /\ Fault
    /\ JobGoto(o, g, "settled")
    /\ UNCHANGED <<rowVars, passVars, open, worked>>

(***************************************************************************)
(* Time.                                                                   *)
(***************************************************************************)

\* The retry delay of a failed obligation passes.
DueAgain(o) ==
    /\ ~due[o]
    /\ due' = [due EXCEPT ![o] = TRUE]
    /\ UNCHANGED <<status, gen, leaseOwner, leased, passVars, open, job, worked, faults>>

\* Is somebody still working on the current generation?
Alive(o) ==
    \/ job[o][gen[o]] \in {"waiting", "active", "ran", "broken"}
    \/ \E p \in Pass : leaseOwner[o] = p /\ task[p][o] \in {"enqueue", "confirm", "fail"}

\* The lease of 15 minutes runs out.  While somebody is still working on the
\* obligation that is a fault: the lease is longer than a normal batch.
LeaseExpires(o) ==
    /\ leased[o]
    /\ leased' = [leased EXCEPT ![o] = FALSE]
    /\ IF Alive(o) THEN Fault ELSE faults' = faults
    /\ UNCHANGED <<status, gen, due, leaseOwner, passVars, open, job, worked>>

\* The obligation's day or bucket ends.
PeriodEnds(o) ==
    /\ open[o]
    /\ open' = [open EXCEPT ![o] = FALSE]
    /\ UNCHANGED <<rowVars, passVars, job, worked, faults>>

(***************************************************************************)
(* The specification.                                                      *)
(***************************************************************************)
PassStep(p) ==
    \/ PassClaim(p)
    \/ \E o \in Obl : \/ PassReserve(p, o) \/ PassMark(p, o) \/ PassEnqueue(p, o)
                      \/ PassConfirm(p, o) \/ PassFail(p, o)

PassFault(p) ==
    \/ PassCrash(p)
    \/ \E o \in Obl : PassEnqueueFails(p, o) \/ PassConfirmFails(p, o) \/ PassFailLost(p, o)

JobStep(o, g) == JobStart(o, g) \/ JobRun(o, g) \/ JobReports(o, g)

JobFault(o, g) == JobFails(o, g) \/ JobStalls(o, g) \/ JobReportLost(o, g)

Next ==
    \/ \E p \in Pass : PassStart(p) \/ PassStep(p) \/ PassFault(p)
    \/ \E o \in Obl, g \in Gen : JobStep(o, g) \/ JobFault(o, g) \/ JobRenews(o, g)
    \/ \E o \in Obl : DueAgain(o) \/ LeaseExpires(o) \/ PeriodEnds(o)

\* The scheduler's timer keeps starting passes and passes keep going; workers
\* keep taking jobs; delays and leases run out.
Fairness ==
    /\ WF_vars(PassStart(Scheduler))
    /\ \A p \in Pass : WF_vars(PassStep(p))
    /\ \A o \in Obl, g \in Gen : WF_vars(JobStep(o, g))
    /\ \A o \in Obl : WF_vars(DueAgain(o)) /\ WF_vars(LeaseExpires(o))

Spec == Init /\ [][Next]_vars

FairSpec == Spec /\ Fairness

(***************************************************************************)
(* Properties.                                                             *)
(***************************************************************************)

\* A success is evidence: the row is succeeded only if the job of its current
\* generation did its work, although jobs of reclaimed generations keep
\* running and reporting (completeSchedulerObligation's generation guard).  A
\* current-day-only job has nothing left to do once its date has ended.
SucceededDidWork ==
    \A o \in Obl : status[o] = "succeeded" =>
        gen[o] \in worked[o] \/ (CurrentDayOnly /\ ~open[o])

\* Healthy work is never reclaimed: every new generation of an obligation is
\* the consequence of a fault of its own, whatever passes overlap
\* (claimSchedulerObligations, confirmSchedulerObligationEnqueued).
RetriesHaveCauses == \A o \in Obl : gen[o] <= faults

\* A closed obligation is never opened again, by a late report, a pass that
\* lost its lease or a terminal plan.
TerminalIsFinal ==
    [][\A o \in Obl : status[o] \in Terminal => status'[o] = status[o]]_vars

\* An attempt in flight fails only because its own job broke or its own
\* claimant gave up, never because of an earlier generation's.
FailuresAreOwn ==
    [][\A o \in Obl : status[o] \in InFlight /\ status'[o] = "failed" =>
          \/ job[o][gen[o]] = "broken"
          \/ \E p \in Pass : leaseOwner[o] = p /\ task[p][o] = "fail"]_vars

\* Nothing is tried again or failed without a cause of its own.
FailuresAccounted == []RetriesHaveCauses /\ FailuresAreOwn

\* Every obligation that is reserved is closed in the end, through lost
\* enqueues, lost reports, dead workers and dead passes.
ObligationsSettle == \A o \in Obl : status[o] = "pending" ~> status[o] \in Terminal

\* "older dates are explicitly recorded as irrecoverable": no success without
\* the work, whatever the policy.
SuccessIsEvidence == \A o \in Obl : status[o] = "succeeded" => gen[o] \in worked[o]
=============================================================================
