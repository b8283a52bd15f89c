----------------------------- MODULE FormalRuns -----------------------------
(***************************************************************************)
(* The acquisition of one recurring X keyword partition by the content     *)
(* worker.  A due schedule is claimed as a run over a window of time; the  *)
(* run is handed to a BullMQ worker, which calls the provider and persists *)
(* the result.  A saturated result advances the schedule's checkpoint and  *)
(* leaves the older part of the window to one follow-up run, delivered     *)
(* through an outbox.  Every provider call is paid from a budget reserved  *)
(* beforehand.                                                             *)
(*                                                                         *)
(* A database transaction, a call of the queue or a call of the provider   *)
(* is one step.  Clock times are kept only where windows are computed;     *)
(* a lease is live or expired, a schedule is due (nextDueAt, and probeAfter *)
(* when its circuit is open) or not.  The horizon is shorter than the      *)
(* budget's rolling windows and the 24 h lookback.                         *)
(***************************************************************************)
EXTENDS Integers, FiniteSets, FiniteSetsExt, Functions

CONSTANTS
    Worker,        \* slots of the X worker
    Threshold,     \* failures in a row that exhaust a window
    Overlap,       \* how far a window reaches back behind the checkpoint
    Capacity,      \* the claim limit of X runs
    CallLimit,     \* calls the budget allows within the horizon
    MaxRuns,       \* bound on runs
    MaxNow,        \* bound on the clock
    MaxFaults      \* bound on failures, crashes and slow steps

ASSUME ScheduleAssumption == Threshold \in Nat \ {0} /\ Overlap \in Nat \ {0} /\ Capacity \in Nat
ASSUME BudgetAssumption == CallLimit \in Nat
ASSUME WorkerAssumption == IsFiniteSet(Worker)
ASSUME BoundsAssumption == MaxRuns \in Nat /\ MaxNow \in Nat \ {0} /\ MaxFaults \in Nat

VARIABLES
    now,       \* the newest instant a window may reach, windowEnd in requestWindow
    sched,     \* content.source_schedules: lease owner, due, failure streak, checkpoint
    run,       \* content.acquisition_runs
    res,       \* content.acquisition_budget_reservations, by run
    gaps,      \* content.acquisition_gaps: the instants inside a declared gap
    outbox,    \* content.acquisition_job_outbox, by run
    pass,      \* the scheduler pass: the run it has claimed and not yet handed over
    disp,      \* the outbox dispatcher
    waiting,   \* jobs the queue has not given to a worker
    added,     \* job IDs the queue remembers
    worker,
    fetched,   \* history: instants whose posts a persisted result answers for
    calls,     \* history: provider calls a run's workers started
    lost,      \* history: runs taken from a worker that was still executing them
    faults

dbVars == <<sched, run, res, gaps, outbox>>
queueVars == <<waiting, added>>
history == <<fetched, calls, lost>>
vars == <<now, dbVars, pass, disp, queueVars, worker, history, faults>>

Run == 1..MaxRuns
Instant == 0..MaxNow
Active == {"PENDING", "RUNNING"}
Terminal == {"COMPLETED", "PARTIAL", "SATURATED", "GAP", "FAILED", "BUDGET_DEFERRED"}

NoRun == [kind |-> "none", status |-> "NONE", from |-> 0, to |-> 0, lease |-> "none"]
NoRow == [open |-> FALSE, owned |-> FALSE, fresh |-> FALSE, id |-> 0]
Idle == [pc |-> "idle", run |-> 0, id |-> 0, probe |-> "none", probed |-> FALSE, started |-> FALSE,
         result |-> "none", mid |-> 0]

TypeOK ==
    /\ now \in Instant
    /\ sched \in [lease : 0..MaxRuns, due : BOOLEAN, streak : Nat, checkpoint : Instant]
    /\ run \in [Run -> [kind : {"none", "recurring", "followup"}, status : {"NONE"} \cup Active \cup Terminal,
                        from : Instant, to : Instant, lease : {"none", "live", "expired"}]]
    /\ res \in [Run -> [scan : 0..1, probe : Nat, spent : Nat]]
    /\ gaps \subseteq Instant /\ fetched \subseteq Instant
    /\ outbox \in [Run -> [open : BOOLEAN, owned : BOOLEAN, fresh : BOOLEAN, id : Nat]]
    /\ pass \in [pc : {"idle", "enqueue", "fail"}, run : 0..MaxRuns]
    /\ disp \in [pc : {"idle", "enqueue", "confirm", "release"}, run : 0..MaxRuns, id : Nat]
    /\ waiting \subseteq added /\ added \subseteq Run \X Nat
    /\ worker \in [Worker -> [pc : {"idle", "running", "probing", "persist", "defer", "fail"}, run : 0..MaxRuns, id : Nat,
                              probe : {"none", "reserved", "settled"}, probed : BOOLEAN, started : BOOLEAN,
                              result : {"none", "COMPLETED", "PARTIAL"}, mid : Instant]]
    /\ calls \in [Run -> Nat] /\ lost \subseteq Run /\ faults \in 0..MaxFaults

Init ==
    /\ now = 1
    /\ sched = [lease |-> 0, due |-> TRUE, streak |-> 0, checkpoint |-> 0]
    /\ run = [r \in Run |-> NoRun]
    /\ res = [r \in Run |-> [scan |-> 0, probe |-> 0, spent |-> 0]]
    /\ gaps = {} /\ fetched = {0}
    /\ outbox = [r \in Run |-> NoRow]
    /\ pass = [pc |-> "idle", run |-> 0]
    /\ disp = [pc |-> "idle", run |-> 0, id |-> 0]
    /\ waiting = {} /\ added = {}
    /\ worker = [w \in Worker |-> Idle]
    /\ calls = [r \in Run |-> 0] /\ lost = {} /\ faults = 0

Fault == faults < MaxFaults /\ faults' = faults + 1
NoFault == UNCHANGED faults

-----------------------------------------------------------------------------
(* The budget of X calls. *)

\* Units reserved or committed within the rolling window.
Used(b) == SumFunction([r \in Run |-> b[r].scan + b[r].probe + b[r].spent])
Affordable(b) == Used(b) + 1 <= CallLimit

\* releaseXRunBudgets and commitRunBudgets move every unit a run has reserved.
Released(r) == [res EXCEPT ![r] = [scan |-> 0, probe |-> 0, spent |-> @.spent]]
Committed(r) == [res EXCEPT ![r] = [scan |-> 0, probe |-> 0, spent |-> @.spent + @.scan + @.probe]]
\* commitOneXRunBudgetUnit on a probe's own reservation.
ProbeCommitted(b, r) == [b EXCEPT ![r] = [scan |-> @.scan, probe |-> @.probe - 1, spent |-> @.spent + 1]]
\* commitProbeAndReleaseXRunBudgets.
OnlyProbeCommitted(r) == [res EXCEPT ![r] = [scan |-> 0, probe |-> 0, spent |-> @.spent + 1]]

\* Workers of a run whose probe reservation has been released or committed.
Settled(r) == [w \in Worker |->
    IF worker[w].run = r /\ worker[w].probe = "reserved" THEN [worker[w] EXCEPT !.probe = "settled"] ELSE worker[w]]

-----------------------------------------------------------------------------
(* Schedules and runs. *)

Unused == {r \in Run : run[r].kind = "none"}
NextRun == Min(Unused)
Window(r) == run[r].from..run[r].to
Outstanding == {r \in Run : run[r].status \in Active /\ run[r].lease # "expired"}
Ended(r, status) == [run EXCEPT ![r] = [@ EXCEPT !.status = status, !.lease = "none"]]
NewRun(kind, status, from, to) ==
    [kind |-> kind, status |-> status, from |-> from, to |-> to, lease |-> IF status = "PENDING" THEN "live" ELSE "none"]

\* Mutant: the checkpoint is set to the start of the window that is given up.
FailedScheduleAtStart(s, r) ==
    LET n == s.streak + 1 IN
    [lease |-> 0, due |-> FALSE, streak |-> n,
     checkpoint |-> IF n >= Threshold THEN run[r].from ELSE s.checkpoint]

\* The schedule after a failure of run r: a window that failed Threshold times
\* in a row is given up, and the checkpoint passes it.
FailedSchedule(s, r) ==
    LET n == s.streak + 1 IN
    [lease |-> 0, due |-> FALSE, streak |-> n,
     checkpoint |-> IF n >= Threshold THEN run[r].to ELSE s.checkpoint]
Exhausted(r) == run[r].kind = "recurring" /\ sched.streak + 1 >= Threshold

DeclaredGaps(r) == IF Exhausted(r) THEN gaps \cup Window(r) ELSE gaps

\* The window of a claim: the one that failed while it is being retried, else
\* from the checkpoint, overlapping, to now.
RecurringFailed(rs) == {r \in Run : rs[r].kind = "recurring" /\ rs[r].status = "FAILED"}
Request(s, rs) ==
    IF s.streak \in 1..Threshold - 1 /\ RecurringFailed(rs) # {}
    THEN LET r == Max(RecurringFailed(rs)) IN [from |-> rs[r].from, to |-> rs[r].to]
    ELSE [from |-> Max({0, s.checkpoint - Overlap}), to |-> now]

\* The schedule's source is ineligible, or its profile another: it is due later.
ClaimIneligible(s, rs, b) ==
    /\ Fault
    /\ run' = rs /\ res' = b
    /\ sched' = [s EXCEPT !.lease = 0, !.due = FALSE]
    /\ UNCHANGED pass

\* A claim's transaction on a schedule s, runs rs and budget b from which a
\* stale run has been removed.
ClaimRun(s, rs, b) ==
    LET n == NextRun
        q == Request(s, rs)
    IN  \/ /\ Unused # {} /\ Affordable(b) /\ NoFault
           /\ run' = [rs EXCEPT ![n] = NewRun("recurring", "PENDING", q.from, q.to)]
           /\ res' = [b EXCEPT ![n] = [@ EXCEPT !.scan = 1]]
           /\ sched' = [s EXCEPT !.lease = n, !.due = TRUE]
           /\ pass' = [pc |-> "enqueue", run |-> n]
        \/ /\ Unused # {} /\ ~Affordable(b) /\ NoFault
           /\ run' = [rs EXCEPT ![n] = NewRun("recurring", "BUDGET_DEFERRED", q.from, q.to)]
           /\ res' = b
           /\ sched' = [s EXCEPT !.lease = 0, !.due = FALSE]
           /\ UNCHANGED pass
        \/ ClaimIneligible(s, rs, b)

\* claimDueFormalRuns, when nobody holds the schedule's lease.
Claim ==
    /\ pass.pc = "idle" /\ sched.due /\ sched.lease = 0
    /\ Cardinality(Outstanding) < Capacity
    /\ ClaimRun(sched, run, res)
    /\ UNCHANGED <<now, gaps, outbox, disp, queueVars, worker, history>>

\* Mutant: the lease is taken over and the stale run is left as it is.
ClaimOverStale ==
    /\ pass.pc = "idle" /\ sched.due /\ sched.lease # 0
    /\ run[sched.lease].lease = "expired"
    /\ Cardinality(Outstanding) < Capacity
    /\ ClaimRun([sched EXCEPT !.streak = @ + 1], run, res)
    /\ UNCHANGED <<now, gaps, outbox, disp, queueVars, worker, history>>

\* A run is taken away while its worker may be executing it.
TakenAway(r) == lost' = IF run[r].status = "RUNNING" THEN lost \cup {r} ELSE lost

\* claimDueFormalRuns, when the lease has expired: the stale run fails, or its
\* window is a gap; a schedule whose circuit stays closed is claimed at once.
ClaimStale ==
    LET r == sched.lease
        s == FailedSchedule(sched, r)
        rs == Ended(r, IF Exhausted(r) THEN "GAP" ELSE "FAILED")
    IN  /\ pass.pc = "idle" /\ sched.due /\ r # 0
        /\ run[r].lease = "expired"
        /\ Cardinality(Outstanding) < Capacity
        /\ gaps' = DeclaredGaps(r)
        /\ worker' = Settled(r)
        /\ TakenAway(r)
        /\ \/ Exhausted(r) /\ sched' = s /\ run' = rs /\ res' = Released(r) /\ NoFault /\ UNCHANGED pass
           \/ ~Exhausted(r) /\ ClaimRun(s, rs, Released(r))
        /\ UNCHANGED <<now, outbox, disp, queueVars, fetched, calls>>

\* nextDueAt passes; newer posts may have appeared.
DueAgain ==
    /\ ~sched.due /\ sched.lease = 0
    /\ sched' = [sched EXCEPT !.due = TRUE]
    /\ now' \in {now, now + 1} \cap Instant
    /\ UNCHANGED <<run, res, gaps, outbox, pass, disp, queueVars, worker, history, faults>>

\* failFormalRun on an active run: b is its budget afterwards.
FailRun(r, b) ==
    /\ run' = Ended(r, IF Exhausted(r) THEN "GAP" ELSE "FAILED")
    /\ res' = b
    /\ gaps' = DeclaredGaps(r)
    /\ sched' = IF run[r].kind = "recurring" THEN FailedSchedule(sched, r) ELSE sched

-----------------------------------------------------------------------------
(* The scheduler pass and the queue. *)

\* Adding a job whose ID the queue remembers does nothing.
AddJob(r, id) ==
    /\ added' = added \cup {<<r, id>>}
    /\ waiting' = IF <<r, id>> \in added THEN waiting ELSE waiting \cup {<<r, id>>}

PassEnqueue ==
    /\ pass.pc = "enqueue"
    /\ AddJob(pass.run, 0)
    /\ pass' = [pc |-> "idle", run |-> 0]
    /\ UNCHANGED <<now, dbVars, disp, worker, history, faults>>

\* The call fails; the job may have been added.
PassEnqueueFails ==
    /\ pass.pc = "enqueue"
    /\ Fault
    /\ AddJob(pass.run, 0) \/ UNCHANGED queueVars
    /\ pass' = [pass EXCEPT !.pc = "fail"]
    /\ UNCHANGED <<now, dbVars, disp, worker, history>>

\* The pass fails a run it could not hand over, unless it has ended.
PassFail ==
    LET r == pass.run IN
    /\ pass.pc = "fail"
    /\ \/ /\ run[r].status \in Active
          /\ FailRun(r, Released(r))
          /\ worker' = Settled(r)
          /\ TakenAway(r)
       \/ run[r].status \notin Active /\ UNCHANGED <<sched, run, res, gaps, worker, lost>>
    /\ pass' = [pc |-> "idle", run |-> 0]
    /\ UNCHANGED <<now, outbox, disp, queueVars, fetched, calls, faults>>

\* The process of the pass ends before it has handed the run over.
PassCrash ==
    /\ pass.pc # "idle"
    /\ Fault
    /\ pass' = [pc |-> "idle", run |-> 0]
    /\ UNCHANGED <<now, dbVars, disp, queueVars, worker, history>>

-----------------------------------------------------------------------------
(* The outbox of follow-up runs and its dispatcher. *)

Reopened(r) == [outbox EXCEPT ![r] = [open |-> TRUE, owned |-> FALSE, fresh |-> FALSE, id |-> @.id + 1]]

\* claimAcquisitionJobOutbox: the row of a run that is no longer pending is
\* closed; else the row is leased and the run's lease begins again.
ClaimOutbox(r) ==
    /\ disp.pc = "idle"
    /\ outbox[r].open /\ ~outbox[r].fresh
    /\ \/ /\ run[r].status # "PENDING"
          /\ outbox' = [outbox EXCEPT ![r] = [@ EXCEPT !.open = FALSE, !.owned = FALSE]]
          /\ UNCHANGED <<run, disp>>
       \/ /\ run[r].status = "PENDING"
          /\ outbox' = [outbox EXCEPT ![r] = [@ EXCEPT !.owned = TRUE, !.fresh = TRUE]]
          /\ run' = [run EXCEPT ![r] = [@ EXCEPT !.lease = "live"]]
          /\ disp' = [pc |-> "enqueue", run |-> r, id |-> outbox[r].id]
    /\ UNCHANGED <<now, sched, res, gaps, pass, queueVars, worker, history, faults>>

DispatchEnqueue ==
    /\ disp.pc = "enqueue"
    /\ AddJob(disp.run, disp.id)
    /\ disp' = [disp EXCEPT !.pc = "confirm"]
    /\ UNCHANGED <<now, dbVars, pass, worker, history, faults>>

DispatchEnqueueFails ==
    /\ disp.pc = "enqueue"
    /\ Fault
    /\ AddJob(disp.run, disp.id) \/ UNCHANGED queueVars
    /\ disp' = [disp EXCEPT !.pc = "release"]
    /\ UNCHANGED <<now, dbVars, pass, worker, history>>

NoDispatch == [pc |-> "idle", run |-> 0, id |-> 0]
\* The dispatcher's lease on the row has not been reset or taken.
OwnsRow(r) == outbox[r].open /\ outbox[r].owned

\* Mutant: the row is closed without its owner being compared.
ConfirmAnyOwner ==
    /\ disp.pc = "confirm"
    /\ outbox' = [outbox EXCEPT ![disp.run] = [@ EXCEPT !.open = FALSE, !.owned = FALSE, !.fresh = FALSE]]
    /\ disp' = NoDispatch
    /\ UNCHANGED <<now, sched, run, res, gaps, pass, queueVars, worker, history, faults>>

\* confirmAcquisitionJobOutbox.
DispatchConfirm ==
    LET r == disp.run IN
    /\ disp.pc = "confirm"
    /\ outbox' = IF OwnsRow(r) THEN [outbox EXCEPT ![r] = [@ EXCEPT !.open = FALSE, !.owned = FALSE, !.fresh = FALSE]]
                 ELSE outbox
    /\ disp' = NoDispatch
    /\ UNCHANGED <<now, sched, run, res, gaps, pass, queueVars, worker, history, faults>>

\* releaseAcquisitionJobOutbox.
DispatchRelease ==
    LET r == disp.run IN
    /\ disp.pc = "release"
    /\ \/ /\ OwnsRow(r)
          /\ outbox' = [outbox EXCEPT ![r] = [@ EXCEPT !.owned = FALSE, !.fresh = FALSE]]
          /\ run' = IF run[r].status = "PENDING" THEN [run EXCEPT ![r] = [@ EXCEPT !.lease = "none"]] ELSE run
       \/ ~OwnsRow(r) /\ UNCHANGED <<outbox, run>>
    /\ disp' = NoDispatch
    /\ UNCHANGED <<now, sched, res, gaps, pass, queueVars, worker, history, faults>>

DispatchCrash ==
    /\ disp.pc # "idle"
    /\ Fault
    /\ disp' = NoDispatch
    /\ UNCHANGED <<now, dbVars, pass, queueVars, worker, history>>

\* The row's lease runs out after its dispatcher has ended.
RowLeaseExpires(r) ==
    /\ outbox[r].fresh /\ disp.run # r
    /\ outbox' = [outbox EXCEPT ![r] = [@ EXCEPT !.fresh = FALSE]]
    /\ UNCHANGED <<now, sched, run, res, gaps, pass, disp, queueVars, worker, history, faults>>

\* recoverStaleTriggeredRuns: a follow-up with an expired lease is pending
\* again, under a new job ID.
RecoverStaleTriggeredRun(r) ==
    /\ run[r].kind = "followup" /\ run[r].status \in Active /\ run[r].lease = "expired"
    /\ run' = [run EXCEPT ![r] = [@ EXCEPT !.status = "PENDING", !.lease = "none"]]
    /\ outbox' = Reopened(r)
    /\ TakenAway(r)
    /\ UNCHANGED <<now, sched, res, gaps, pass, disp, queueVars, worker, fetched, calls, faults>>

-----------------------------------------------------------------------------
(* The X worker, runFormalXWorker. *)

\* beginFormalRun: a run that is not pending is left alone, and so is one
\* whose lease has expired.
Begin(w, j) ==
    LET r == j[1] IN
    /\ worker[w].pc = "idle"
    /\ waiting' = waiting \ {j}
    /\ \/ /\ run[r].status = "PENDING" /\ run[r].lease # "expired"
          /\ run' = [run EXCEPT ![r] = [@ EXCEPT !.status = "RUNNING"]]
          /\ worker' = [worker EXCEPT ![w] = [Idle EXCEPT !.pc = "running", !.run = r, !.id = j[2]]]
       \/ /\ run[r].status # "PENDING" \/ run[r].lease = "expired"
          /\ UNCHANGED <<run, worker>>
    /\ UNCHANGED <<now, sched, res, gaps, outbox, pass, disp, added, history, faults>>

\* onProbeRequest: the runner is not known to be healthy, and the probe's call
\* is reserved apart from the scan's; without budget the run is deferred.
Probe(w) ==
    LET r == worker[w].run IN
    /\ worker[w].pc = "running" /\ worker[w].probe = "none"
    /\ Fault
    /\ \/ /\ Affordable(res)
          /\ res' = [res EXCEPT ![r] = [scan |-> @.scan, probe |-> @.probe + 1, spent |-> @.spent]]
          /\ worker' = [worker EXCEPT ![w] = [@ EXCEPT !.pc = "probing", !.probe = "reserved"]]
       \/ /\ ~Affordable(res)
          /\ worker' = [worker EXCEPT ![w] = [@ EXCEPT !.pc = "defer"]]
          /\ UNCHANGED res
    /\ UNCHANGED <<now, sched, run, gaps, outbox, pass, disp, queueVars, history>>

\* The probe is answered, or the run is deferred (it is not ready, at
\* capacity) or failed (another version of the runner answers).
ProbeAnswered(w) ==
    /\ worker[w].pc = "probing"
    /\ \E started \in BOOLEAN, next \in {"running", "defer", "fail"} :
         /\ next # "defer" => started
         /\ worker' = [worker EXCEPT ![w] = [@ EXCEPT !.pc = next, !.probed = started]]
         /\ calls' = [calls EXCEPT ![worker[w].run] = IF started THEN @ + 1 ELSE @]
    /\ UNCHANGED <<now, dbVars, pass, disp, queueVars, fetched, lost, faults>>

Capped(r, mid) == mid < run[r].to

\* The provider answers with posts, some of which may be rejected.  A result
\* at the cap reaches back into instant mid; any other has mid at the window's end.
ExecuteAnswers(w) ==
    LET r == worker[w].run IN
    /\ worker[w].pc = "running"
    /\ \E result \in {"COMPLETED", "PARTIAL"}, mid \in Window(r) :
         /\ Capped(r, mid) => Unused # {}
         /\ worker' = [worker EXCEPT ![w] = [@ EXCEPT !.pc = "persist", !.started = TRUE, !.result = result, !.mid = mid]]
    /\ calls' = [calls EXCEPT ![r] = @ + 1]
    /\ UNCHANGED <<now, dbVars, pass, disp, queueVars, fetched, lost, faults>>

\* The runner refuses the call (it is deferred), or fails before or after the
\* provider has been called.
ExecuteFails(w) ==
    /\ worker[w].pc = "running"
    /\ Fault
    /\ \E started \in BOOLEAN, next \in {"defer", "fail"} :
         /\ next = "defer" => ~started
         /\ worker' = [worker EXCEPT ![w] = [@ EXCEPT !.pc = next, !.started = started]]
         /\ calls' = [calls EXCEPT ![worker[w].run] = IF started THEN @ + 1 ELSE @]
    /\ UNCHANGED <<now, dbVars, pass, disp, queueVars, fetched, lost>>

\* The job of worker w ends; b tells of the other workers.
JobEnds(w, b) == worker' = [b EXCEPT ![w] = Idle]

\* A follow-up with the same request exists.  (No recurring run has it: the
\* windows end at a post's second and at the database's clock.)
Exists(from, to) == \E c \in Run : run[c].kind = "followup" /\ run[c].from = from /\ run[c].to = to

\* What a capped result of r leaves out is a follow-up's, or a gap when no call
\* is left for one; rs and b are the runs and the budget so far.
PlanFollowup(r, mid, rs, b) ==
    LET n == NextRun IN
    \/ /\ Affordable(b)
       /\ run' = [rs EXCEPT ![n] = NewRun("followup", "PENDING", run[r].from, mid)]
       /\ res' = [b EXCEPT ![n] = [@ EXCEPT !.scan = 1]]
       /\ outbox' = [outbox EXCEPT ![n] = [@ EXCEPT !.open = TRUE]]
       /\ UNCHANGED gaps
    \/ /\ ~Affordable(b)
       /\ run' = [rs EXCEPT ![n] = NewRun("followup", "BUDGET_DEFERRED", run[r].from, mid)]
       /\ gaps' = gaps \cup (run[r].from..mid)
       /\ res' = b
       /\ UNCHANGED outbox

\* persistAcquisitionResult of a recurring run: the checkpoint passes the
\* window unless posts were rejected.
PersistRecurring(r, result, mid) ==
    LET b == Committed(r)
        capped == Capped(r, mid)
        rs == Ended(r, IF capped /\ result = "COMPLETED" THEN "SATURATED" ELSE result)
    IN  /\ sched' = [lease |-> 0, due |-> FALSE, streak |-> 0,
                     checkpoint |-> IF result = "PARTIAL" THEN sched.checkpoint ELSE run[r].to]
        /\ fetched' = fetched \cup CASE result = "PARTIAL" -> {}
                                     [] result = "COMPLETED" /\ capped -> mid + 1..run[r].to
                                     [] OTHER -> Window(r)
        /\ \/ /\ ~capped \/ Exists(run[r].from, mid)
              /\ run' = rs /\ res' = b
              /\ UNCHANGED <<gaps, outbox>>
           \/ /\ capped /\ ~Exists(run[r].from, mid) /\ Unused # {}
              /\ PlanFollowup(r, mid, rs, b)

\* Of a follow-up: what a second capped result leaves out is a gap.
PersistFollowup(r, result, mid) ==
    LET capped == Capped(r, mid) IN
    /\ run' = Ended(r, IF capped THEN "GAP" ELSE result)
    /\ res' = Committed(r)
    /\ fetched' = fetched \cup (IF capped THEN mid + 1..run[r].to ELSE Window(r))
    /\ gaps' = IF capped THEN gaps \cup (run[r].from..mid) ELSE gaps
    /\ UNCHANGED <<sched, outbox>>

\* A result is stored for a run that is RUNNING and whose call is reserved.
MayPersist(r) == run[r].status = "RUNNING" /\ res[r].scan + res[r].probe > 0

\* The worker fails a run whose result is refused.
Persist(w) ==
    LET r == worker[w].run
        result == worker[w].result
        mid == worker[w].mid
    IN  /\ worker[w].pc = "persist"
        /\ \/ /\ MayPersist(r)
              /\ \/ run[r].kind = "recurring" /\ PersistRecurring(r, result, mid)
                 \/ run[r].kind = "followup" /\ PersistFollowup(r, result, mid)
              /\ JobEnds(w, Settled(r))
           \/ /\ ~MayPersist(r)
              /\ worker' = [worker EXCEPT ![w] = [@ EXCEPT !.pc = "fail"]]
              /\ UNCHANGED <<dbVars, fetched>>
        /\ UNCHANGED <<now, pass, disp, queueVars, calls, lost, faults>>

\* What a failed run owes: its probe alone when the scan was never sent, every
\* reserved call when it was, nothing when neither was.
ProbeOnly(w) == worker[w].probed /\ ~worker[w].started
Billable(w) ==
    LET r == worker[w].run IN
    IF ProbeOnly(w) THEN worker[w].probe = "reserved"
    ELSE worker[w].started => res[r].scan + res[r].probe > 0
Owed(w) ==
    LET r == worker[w].run IN
    IF ProbeOnly(w) THEN OnlyProbeCommitted(r)
    ELSE IF worker[w].started THEN Committed(r) ELSE Released(r)

\* failFormalRun.  It throws when the call to be charged is not reserved.
Fail(w) ==
    LET r == worker[w].run IN
    /\ worker[w].pc = "fail"
    /\ \/ /\ run[r].status \in Active /\ Billable(w)
          /\ FailRun(r, Owed(w))
          /\ JobEnds(w, Settled(r))
       \/ /\ run[r].status \notin Active \/ ~Billable(w)
          /\ JobEnds(w, worker)
          /\ UNCHANGED <<sched, run, res, gaps>>
    /\ UNCHANGED <<now, outbox, pass, disp, queueVars, history, faults>>

\* Mutant: the unit is released whatever the reservation's status is.
ReleaseProbeAnyStatus(w) ==
    LET r == worker[w].run IN
    /\ worker[w].pc = "defer" /\ ~worker[w].probed /\ worker[w].probe # "none"
    /\ res' = [res EXCEPT ![r] = [scan |-> @.scan, probe |-> @.probe - 1, spent |-> @.spent]]
    /\ worker' = [worker EXCEPT ![w] = [@ EXCEPT !.probe = "none"]]
    /\ UNCHANGED <<now, sched, run, gaps, outbox, pass, disp, queueVars, history, faults>>

\* releaseProbeBudget: the runner refused the probe.  It throws when the
\* reservation is gone.
ReleaseProbe(w) ==
    LET r == worker[w].run IN
    /\ worker[w].pc = "defer" /\ ~worker[w].probed
    /\ \/ /\ worker[w].probe = "reserved"
          /\ res' = [res EXCEPT ![r] = [scan |-> @.scan, probe |-> @.probe - 1, spent |-> @.spent]]
          /\ worker' = [worker EXCEPT ![w] = [@ EXCEPT !.probe = "none"]]
       \/ /\ worker[w].probe = "settled"
          /\ JobEnds(w, worker)
          /\ UNCHANGED res
    /\ UNCHANGED <<now, sched, run, gaps, outbox, pass, disp, queueVars, history, faults>>

\* deferFormalRunForCapacity first charges a probe that was sent.
ProbeCharged(w) == IF worker[w].probed THEN ProbeCommitted(res, worker[w].run) ELSE res

\* deferFormalRunForCapacity: a follow-up is pending again under a new job ID
\* and keeps its reservation; a recurring run ends, and its schedule is due
\* later.
DeferForCapacity(w) ==
    LET r == worker[w].run
        b == ProbeCharged(w)
    IN  /\ worker[w].pc = "defer" /\ (worker[w].probed \/ worker[w].probe = "none")
        /\ \/ /\ run[r].status \in Active /\ (worker[w].probed => worker[w].probe = "reserved")
              /\ \/ /\ run[r].kind = "recurring"
                    /\ run' = Ended(r, "BUDGET_DEFERRED")
                    /\ res' = [b EXCEPT ![r] = [scan |-> 0, probe |-> 0, spent |-> @.spent]]
                    /\ sched' = [sched EXCEPT !.lease = 0, !.due = FALSE]
                    /\ JobEnds(w, Settled(r))
                    /\ UNCHANGED outbox
                 \/ /\ run[r].kind = "followup"
                    /\ run' = [run EXCEPT ![r] = [@ EXCEPT !.status = "PENDING", !.lease = "live"]]
                    /\ res' = b
                    /\ outbox' = Reopened(r)
                    /\ JobEnds(w, worker)
                    /\ UNCHANGED sched
           \/ /\ run[r].status \notin Active \/ (worker[w].probed /\ worker[w].probe # "reserved")
              /\ JobEnds(w, worker)
              /\ UNCHANGED <<sched, run, res, outbox>>
        /\ UNCHANGED <<now, gaps, pass, disp, queueVars, history, faults>>

\* The worker's process ends.  The queue may give the job to another worker.
WorkerCrash(w) ==
    /\ worker[w].pc # "idle"
    /\ Fault
    /\ JobEnds(w, worker)
    /\ waiting' \in {waiting, waiting \cup {<<worker[w].run, worker[w].id>>}}
    /\ UNCHANGED <<now, dbVars, pass, disp, added, history>>

\* A run's lease runs out, nobody being on the way to finishing the run.
Attended(r) ==
    \/ pass.run = r \/ disp.run = r \/ outbox[r].open
    \/ \E j \in waiting : j[1] = r
    \/ \E w \in Worker : worker[w].run = r
Expired(r) == [run EXCEPT ![r] = [@ EXCEPT !.lease = "expired"]]
LeaseExpires(r) ==
    /\ run[r].status \in Active /\ run[r].lease = "live" /\ ~Attended(r)
    /\ run' = Expired(r)
    /\ UNCHANGED <<now, sched, res, gaps, outbox, pass, disp, queueVars, worker, history, faults>>

\* The lease was too short: the run waited in the queue, or its worker is slow.
LeaseTooShort(r) ==
    /\ run[r].status \in Active /\ run[r].lease = "live" /\ Attended(r)
    /\ Fault
    /\ run' = Expired(r)
    /\ UNCHANGED <<now, sched, res, gaps, outbox, pass, disp, queueVars, worker, history>>

-----------------------------------------------------------------------------

SchedulerStep == Claim \/ ClaimStale
PassStep == PassEnqueue \/ PassEnqueueFails \/ PassFail
DispatchStep == DispatchEnqueue \/ DispatchEnqueueFails \/ DispatchConfirm \/ DispatchRelease
WorkerStep(w) ==
    \/ Probe(w) \/ ProbeAnswered(w) \/ ExecuteAnswers(w) \/ ExecuteFails(w)
    \/ Persist(w) \/ Fail(w) \/ ReleaseProbe(w) \/ DeferForCapacity(w)

Next ==
    \/ SchedulerStep \/ DueAgain \/ PassStep \/ PassCrash
    \/ DispatchStep \/ DispatchCrash
    \/ \E r \in Run : ClaimOutbox(r) \/ RowLeaseExpires(r) \/ RecoverStaleTriggeredRun(r) \/ LeaseExpires(r)
                        \/ LeaseTooShort(r)
    \/ \E w \in Worker : WorkerStep(w) \/ WorkerCrash(w) \/ \E j \in waiting : Begin(w, j)

Spec == Init /\ [][Next]_vars

\* Every loop of the content worker goes on: the scheduler pass with its
\* planner, the dispatcher, the workers of the queue; leases run out.
Fairness ==
    /\ WF_vars(PassStep)
    /\ WF_vars(DispatchStep \/ \E r \in Run : ClaimOutbox(r))
    /\ WF_vars(\E w \in Worker : WorkerStep(w) \/ \E j \in waiting : Begin(w, j))
    /\ WF_vars(\E r \in Run : RowLeaseExpires(r))
    /\ WF_vars(\E r \in Run : LeaseExpires(r))
    /\ WF_vars(\E r \in Run : RecoverStaleTriggeredRun(r))

FairSpec == Spec /\ Fairness

-----------------------------------------------------------------------------
(* Properties. *)

\* The schedule's lease and its runs agree: a recurring run is active exactly
\* when it holds the lease, so no two runs of a schedule are active and no
\* result of an earlier one is persisted (claimDueFormalRuns, failFormalRun).
OneActiveRun ==
    \A r \in Run : run[r].kind = "recurring" =>
        (run[r].status \in Active <=> sched.lease = r)

\* Whatever the checkpoint has passed was fetched, is declared a gap, or lies
\* in the window of a follow-up that is still to run or has failed
\* (requestWindow, persistAcquisitionResult, failFormalRun).
CheckpointAccounted ==
    \A t \in 0..sched.checkpoint :
        \/ t \in fetched \cup gaps
        \/ \E r \in Run : /\ run[r].kind = "followup" /\ t \in Window(r)
                          /\ run[r].status \in Active \cup {"FAILED"}

\* Unless a run was taken away from a worker, every call its workers made is
\* charged, and once it has ended nothing of its budget stays reserved
\* (x-budget.ts).
BudgetMatchesCalls ==
    \A r \in Run \ lost :
        /\ calls[r] <= res[r].scan + res[r].probe + res[r].spent
        /\ run[r].status \in Terminal => res[r].scan + res[r].probe = 0

\* Leases, checkpoints and budgets agree with what the runs have done.
RunsAccounted == OneActiveRun /\ CheckpointAccounted /\ BudgetMatchesCalls

\* The checkpoint of a schedule never goes back, whichever run moves it.
CheckpointNeverGoesBack == [][sched'.checkpoint >= sched.checkpoint]_vars

\* Again and again no follow-up is left to run, whatever was lost on the way
\* (recoverStaleTriggeredRuns), but one that is executed without a lease.
FollowupsSettle ==
    []<>(\A r \in Run : run[r].kind = "followup" =>
            run[r].status \in Terminal \/ (run[r].status = "RUNNING" /\ run[r].lease = "none"))

\* The reclaimer of leases recovers a crash: again and again every follow-up
\* has ended.
CrashesAreRecovered == []<>(\A r \in Run : run[r].kind = "followup" => run[r].status \in Terminal)

=============================================================================
