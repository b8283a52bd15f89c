-------------------- MODULE SchedulerObligationsProofs --------------------
(***************************************************************************)
(* Proofs about SchedulerObligations, for any obligations, passes and      *)
(* bounds.                                                                 *)
(***************************************************************************)
EXTENDS SchedulerObligations, TLAPS

USE PassAssumption, PolicyAssumption, BoundsAssumption

(***************************************************************************)
(* What holds of one obligation in every reachable state.                  *)
(***************************************************************************)
Working == {"enqueue", "confirm", "fail"}
Unclaimed == {"absent", "pending"}

\* Whoever could make the obligation be claimed again stands for a fault.
Causes(o) ==
    /\ gen[o] <= faults
    /\ status[o] = "failed" => gen[o] < faults
    /\ status[o] \in InFlight /\ ~leased[o] => gen[o] < faults
    /\ status[o] \in InFlight /\ ~Alive(o) => gen[o] < faults

\* A pass that still acts on its claim.
Claims(o) ==
    \A p \in Pass : task[p][o] \in Working =>
        /\ claimed[p][o] <= gen[o]
        /\ status[o] \notin Unclaimed
        /\ leaseOwner[o] = p =>
              /\ claimed[p][o] = gen[o]
              /\ task[p][o] # "fail" => status[o] = "enqueued"
              /\ task[p][o] = "confirm" => job[o][gen[o]] # "absent"
              /\ task[p][o] = "fail" /\ status[o] \in InFlight => gen[o] < faults

\* The jobs the queue knows.
Jobs(o) ==
    \A g \in Gen :
        /\ job[o][g] # "absent" => g <= gen[o] /\ status[o] \notin Unclaimed
        /\ job[o][g] = "broken" => g < faults
        /\ job[o][g] = "settled" /\ gen[o] = g /\ status[o] \in InFlight => g < faults

OblInv(o) == Causes(o) /\ Claims(o) /\ Jobs(o)

IInv == TypeOK /\ \A o \in Obl : OblInv(o)

(***************************************************************************)
(* Type correctness.                                                       *)
(***************************************************************************)

\* The row's columns.
RowType ==
    /\ status \in [Obl -> Status]
    /\ gen \in [Obl -> Gen]
    /\ due \in [Obl -> BOOLEAN]
    /\ leaseOwner \in [Obl -> Pass \cup {NoPass}]
    /\ leased \in [Obl -> BOOLEAN]

\* Releasing a claim keeps the row's types.
LEMMA ReleaseType ==
  ASSUME TypeOK, NEW o \in Obl, NEW s \in Status, Release(o, s),
         due' = due \/ due' = [due EXCEPT ![o] = FALSE]
  PROVE  RowType'
<1>1. due' \in [Obl -> BOOLEAN]
  BY DEF TypeOK
<1>2. leased' \in [Obl -> BOOLEAN]
  BY DEF TypeOK, Release
<1> QED
  BY <1>1, <1>2 DEF TypeOK, Release, RowType

\* So does leaving the row alone.
LEMMA RowKept ==
  ASSUME TypeOK, UNCHANGED rowVars
  PROVE  RowType'
BY DEF TypeOK, rowVars, RowType

\* Every update of a row keeps its types.
LEMMA UpdateType ==
  ASSUME TypeOK, NEW o \in Obl, NEW g \in Gen, NEW p \in Pass,
         Complete(o, g) \/ FailGeneration(o, g) \/ FailOwned(p, o) \/ Mark(o)
  PROVE  RowType'
<1>1. {"succeeded", "failed", "irrecoverable"} \subseteq Status
  BY DEF Status, Terminal
<1> QED
  BY <1>1, ReleaseType, RowKept DEF Complete, FailGeneration, FailOwned, Mark

\* A task of a pass stays in its set.
LEMMA GotoType ==
  ASSUME TypeOK, NEW p \in Pass, NEW o \in Obl, NEW t \in Task, Goto(p, o, t)
  PROVE  task' \in [Pass -> [Obl -> Task]]
BY DEF TypeOK, Goto

\* So does a job's state.
LEMMA JobGotoType ==
  ASSUME TypeOK, NEW o \in Obl, NEW g \in Gen, NEW s \in JobState, JobGoto(o, g, s)
  PROVE  job' \in [Obl -> [Gen -> JobState]]
BY DEF TypeOK, JobGoto

LEMMA AddJobType ==
  ASSUME TypeOK, NEW o \in Obl, NEW g \in Gen, AddJob(o, g)
  PROVE  job' \in [Obl -> [Gen -> JobState]]
BY DEF TypeOK, AddJob, JobState

\* A fault is counted up to its bound.
LEMMA FaultType ==
  ASSUME TypeOK, Fault
  PROVE  faults' \in 0..MaxFaults /\ faults' = faults + 1
BY DEF TypeOK, Fault

\* The confirmation keeps the row's types.
LEMMA ConfirmType ==
  ASSUME TypeOK, NEW p \in Pass, NEW o \in Obl, Confirm(p, o)
  PROVE  RowType'
BY DEF TypeOK, Confirm, RowType, Status, InFlight

\* Types of a state from those of its parts.
LEMMA TypeParts ==
  ASSUME RowType', open' \in [Obl -> BOOLEAN], job' \in [Obl -> [Gen -> JobState]],
         task' \in [Pass -> [Obl -> Task]], claimed' \in [Pass -> [Obl -> Gen]],
         worked' \in [Obl -> SUBSET Gen], faults' \in 0..MaxFaults
  PROVE  TypeOK'
BY DEF TypeOK, RowType

\* Steps of a pass preserve the types.
LEMMA TypePass ==
  ASSUME TypeOK, NEW p \in Pass,
         PassStart(p) \/ PassStep(p) \/ PassFault(p)
  PROVE  TypeOK'
<1> USE DEF TypeOK
<1>t. {"idle", "reserve", "reserveExpired", "mark", "planned", "enqueue", "confirm", "fail"}
        \subseteq Task
  BY DEF Task
<1>1. CASE PassStart(p)
  BY <1>1, <1>t, RowKept, TypeParts DEF PassStart
<1>2. CASE PassClaim(p)
  <2> DEFINE S == {o \in Obl : Claimable(o)}
  <2>1. \A o \in S : NextGeneration(o) \in Gen
    BY DEF Claimable, NextGeneration, Gen
  <2>2. status' \in [Obl -> Status]
    BY <1>2 DEF PassClaim, Status, InFlight
  <2>3. gen' \in [Obl -> Gen]
    BY <1>2, <2>1 DEF PassClaim
  <2>4. leaseOwner' \in [Obl -> Pass \cup {NoPass}]
    BY <1>2 DEF PassClaim
  <2>5. leased' \in [Obl -> BOOLEAN] /\ due' \in [Obl -> BOOLEAN]
    BY <1>2 DEF PassClaim
  <2>6. claimed' \in [Pass -> [Obl -> Gen]]
    BY <1>2, <2>1 DEF PassClaim
  <2>7. task' \in [Pass -> [Obl -> Task]]
    BY <1>2, <1>t DEF PassClaim
  <2>8. RowType'
    BY <2>2, <2>3, <2>4, <2>5 DEF RowType
  <2> QED
    BY <1>2, <2>6, <2>7, <2>8, TypeParts DEF PassClaim
<1>3. ASSUME NEW o \in Obl, PassReserve(p, o)
      PROVE  TypeOK'
  <2>1. RowType'
    BY <1>3 DEF PassReserve, RowType, Status
  <2>2. task' \in [Pass -> [Obl -> Task]]
    BY <1>3, <1>t, GotoType DEF PassReserve
  <2> QED
    BY <1>3, <2>1, <2>2, TypeParts DEF PassReserve
<1>4. ASSUME NEW o \in Obl, PassMark(p, o) \/ PassFail(p, o)
      PROVE  TypeOK'
  <2>1. 0 \in Gen
    BY DEF Gen
  <2>2. RowType'
    BY <1>4, <2>1, UpdateType DEF PassMark, PassFail
  <2>3. task' \in [Pass -> [Obl -> Task]]
    BY <1>4, <1>t, GotoType DEF PassMark, PassFail
  <2> QED
    BY <1>4, <2>2, <2>3, TypeParts DEF PassMark, PassFail
<1>5. ASSUME NEW o \in Obl, PassEnqueue(p, o)
      PROVE  TypeOK'
  <2>1. job' \in [Obl -> [Gen -> JobState]]
    BY <1>5, AddJobType DEF PassEnqueue
  <2>2. task' \in [Pass -> [Obl -> Task]]
    BY <1>5, <1>t, GotoType DEF PassEnqueue
  <2> QED
    BY <1>5, <2>1, <2>2, RowKept, TypeParts DEF PassEnqueue
<1>6. ASSUME NEW o \in Obl, PassConfirm(p, o)
      PROVE  TypeOK'
  <2>1. RowType'
    BY <1>6, ConfirmType, RowKept DEF PassConfirm
  <2>2. task' \in [Pass -> [Obl -> Task]]
    BY <1>6, <1>t, GotoType DEF PassConfirm
  <2> QED
    BY <1>6, <2>1, <2>2, TypeParts DEF PassConfirm
<1>7. CASE PassCrash(p)
  BY <1>7, <1>t, FaultType, RowKept, TypeParts DEF PassCrash
<1>8. ASSUME NEW o \in Obl, PassEnqueueFails(p, o)
      PROVE  TypeOK'
  <2>1. job' \in [Obl -> [Gen -> JobState]]
    BY <1>8, AddJobType DEF PassEnqueueFails
  <2>2. task' \in [Pass -> [Obl -> Task]]
    BY <1>8, <1>t, GotoType DEF PassEnqueueFails
  <2> QED
    BY <1>8, <2>1, <2>2, FaultType, RowKept, TypeParts DEF PassEnqueueFails
<1>9. ASSUME NEW o \in Obl, PassConfirmFails(p, o)
      PROVE  TypeOK'
  <2>1. RowType'
    BY <1>9, ConfirmType, RowKept DEF PassConfirmFails
  <2>2. task' \in [Pass -> [Obl -> Task]]
    BY <1>9, <1>t, GotoType DEF PassConfirmFails
  <2> QED
    BY <1>9, <2>1, <2>2, FaultType, TypeParts DEF PassConfirmFails
<1>10. ASSUME NEW o \in Obl, PassFailLost(p, o)
       PROVE  TypeOK'
  <2>1. task' \in [Pass -> [Obl -> Task]]
    BY <1>10, <1>t, GotoType DEF PassFailLost
  <2> QED
    BY <1>10, <2>1, FaultType, RowKept, TypeParts DEF PassFailLost
<1> QED
  BY <1>1, <1>2, <1>3, <1>4, <1>5, <1>6, <1>7, <1>8, <1>9, <1>10 DEF PassStep, PassFault

\* Steps of the workers preserve the types.
LEMMA TypeJob ==
  ASSUME TypeOK, NEW o \in Obl, NEW g \in Gen,
         JobStep(o, g) \/ JobFault(o, g) \/ JobRenews(o, g)
  PROVE  TypeOK'
<1> USE DEF TypeOK, passVars
<1>t. {"waiting", "active", "ran", "broken", "settled"} \subseteq JobState
  BY DEF JobState
<1>1. CASE JobStart(o, g)
  BY <1>1, <1>t, JobGotoType, RowKept, TypeParts DEF JobStart
<1>2. CASE JobRun(o, g)
  <2>1. worked' \in [Obl -> SUBSET Gen]
    BY <1>2 DEF JobRun
  <2> QED
    BY <1>2, <2>1, <1>t, JobGotoType, RowKept, TypeParts DEF JobRun
<1>3. CASE JobReports(o, g)
  <2>1. RowType'
    <3> PICK p \in Pass : TRUE
      OBVIOUS
    <3> QED
      BY <1>3, UpdateType DEF JobReports
  <2> QED
    BY <1>3, <2>1, <1>t, JobGotoType, TypeParts DEF JobReports
<1>4. CASE JobFails(o, g)
  BY <1>4, <1>t, JobGotoType, FaultType, RowKept, TypeParts DEF JobFails
<1>5. CASE JobStalls(o, g)
  BY <1>5, <1>t, JobGotoType, FaultType, RowKept, TypeParts DEF JobStalls
<1>6. CASE JobReportLost(o, g)
  BY <1>6, <1>t, JobGotoType, FaultType, RowKept, TypeParts DEF JobReportLost
<1>7. CASE JobRenews(o, g)
  <2>1. leased' \in [Obl -> BOOLEAN]
    BY <1>7 DEF JobRenews
  <2>2. RowType'
    BY <1>7, <2>1 DEF JobRenews, RowType
  <2> QED
    BY <1>7, <2>2, TypeParts DEF JobRenews
<1> QED
  BY <1>1, <1>2, <1>3, <1>4, <1>5, <1>6, <1>7 DEF JobStep, JobFault

\* Time preserves the types.
LEMMA TypeTime ==
  ASSUME TypeOK, NEW o \in Obl, DueAgain(o) \/ LeaseExpires(o) \/ PeriodEnds(o)
  PROVE  TypeOK'
<1> USE DEF TypeOK, passVars
<1>1. CASE DueAgain(o)
  <2>1. due' \in [Obl -> BOOLEAN]
    BY <1>1 DEF DueAgain
  <2>2. RowType'
    BY <1>1, <2>1 DEF DueAgain, RowType
  <2> QED
    BY <1>1, <2>2, TypeParts DEF DueAgain
<1>2. CASE LeaseExpires(o)
  <2>1. leased' \in [Obl -> BOOLEAN]
    BY <1>2 DEF LeaseExpires
  <2>2. RowType'
    BY <1>2, <2>1 DEF LeaseExpires, RowType
  <2>3. faults' \in 0..MaxFaults
    BY <1>2, FaultType DEF LeaseExpires
  <2> QED
    BY <1>2, <2>2, <2>3, TypeParts DEF LeaseExpires
<1>3. CASE PeriodEnds(o)
  <2>1. open' \in [Obl -> BOOLEAN]
    BY <1>3 DEF PeriodEnds
  <2> QED
    BY <1>3, <2>1, RowKept, TypeParts DEF PeriodEnds
<1> QED
  BY <1>1, <1>2, <1>3

\* Every step preserves the types.
LEMMA TypeNext ==
  ASSUME TypeOK, [Next]_vars
  PROVE  TypeOK'
<1>1. CASE UNCHANGED vars
  BY <1>1 DEF TypeOK, vars, rowVars, passVars
<1> QED
  BY <1>1, TypePass, TypeJob, TypeTime DEF Next

LEMMA TypeInit == Init => TypeOK
BY DEF Init, TypeOK, Gen, Status, JobState, Task

\* The durable schedule is type correct, for any obligations and passes.
THEOREM TypeCorrect == Spec => []TypeOK
BY TypeInit, TypeNext, PTL DEF Spec

(***************************************************************************)
(* The inductive invariant.                                                *)
(***************************************************************************)

\* Nothing that OblInv(o) speaks of changes, but faults may be counted.
Untouched(o) ==
    /\ status'[o] = status[o]
    /\ gen'[o] = gen[o]
    /\ leaseOwner'[o] = leaseOwner[o]
    /\ leased'[o] = leased[o]
    /\ job'[o] = job[o]
    /\ \A p \in Pass : task'[p][o] = task[p][o] /\ claimed'[p][o] = claimed[p][o]
    /\ faults' \in {faults, faults + 1}

LEMMA UntouchedKeeps ==
  ASSUME TypeOK, NEW o \in Obl, OblInv(o), Untouched(o)
  PROVE  OblInv(o)'
<1>0. faults \in Nat /\ faults' \in Nat /\ faults <= faults' /\ gen[o] \in Nat /\ Gen \subseteq Nat
  BY DEF TypeOK, Untouched, Gen
<1>1. Alive(o)' <=> Alive(o)
  BY DEF Alive, Untouched
<1>2. Causes(o)'
  BY <1>0, <1>1 DEF OblInv, Causes, Untouched
<1>3. Claims(o)'
  BY <1>0 DEF OblInv, Claims, Untouched
<1>4. Jobs(o)'
  BY <1>0 DEF OblInv, Jobs, Untouched
<1> QED
  BY <1>2, <1>3, <1>4 DEF OblInv

\* Releasing a claim on one obligation leaves the others' rows alone.
LEMMA ReleaseRow ==
  ASSUME TypeOK, NEW o \in Obl, NEW s, Release(o, s)
  PROVE  /\ status'[o] = s
         /\ gen' = gen
         /\ leaseOwner'[o] = NoPass
         /\ ~leased'[o]
         /\ \A q \in Obl : q # o => /\ status'[q] = status[q]
                                    /\ leaseOwner'[q] = leaseOwner[q]
                                    /\ leased'[q] = leased[q]
BY DEF TypeOK, Release

\* A released obligation is no longer in flight and nobody owns it.
LEMMA ReleasedHolds ==
  ASSUME TypeOK, TypeOK', NEW o \in Obl, OblInv(o), NEW s \in {"succeeded", "failed", "irrecoverable"},
         Release(o, s),
         s = "failed" => gen[o] < faults',
         faults' \in {faults, faults + 1},
         claimed' = claimed,
         \A p \in Pass : task'[p][o] \in Working => task[p][o] \in Working,
         \A g \in Gen : job'[o][g] # "absent" => job[o][g] # "absent",
         \A g \in Gen : job'[o][g] = "broken" => job[o][g] = "broken"
  PROVE  OblInv(o)'
<1>0. faults \in Nat /\ faults' \in Nat /\ faults <= faults' /\ gen[o] \in Nat /\ Gen \subseteq Nat
  BY DEF TypeOK, Gen
<1>1. status'[o] = s /\ gen'[o] = gen[o] /\ leaseOwner'[o] = NoPass
  BY ReleaseRow
<1>2. s \notin InFlight /\ s \notin Unclaimed
  BY DEF InFlight, Unclaimed
<1>3. Causes(o)'
  BY <1>0, <1>1, <1>2 DEF OblInv, Causes
<1>4. Claims(o)'
  BY <1>0, <1>1, <1>2 DEF OblInv, Claims
<1>5. ASSUME NEW g \in Gen
      PROVE  /\ job'[o][g] # "absent" => g <= gen'[o] /\ status'[o] \notin Unclaimed
             /\ job'[o][g] = "broken" => g < faults'
             /\ status'[o] \notin InFlight
  BY <1>0, <1>1, <1>2 DEF OblInv, Jobs
<1>6. Jobs(o)'
  BY <1>5 DEF Jobs
<1> QED
  BY <1>3, <1>4, <1>6 DEF OblInv

\* Moving a task touches that task only.
LEMMA GotoOnly ==
  ASSUME TypeOK, NEW p \in Pass, NEW o \in Obl, NEW t \in Task, Goto(p, o, t)
  PROVE  /\ task'[p][o] = t
         /\ \A r \in Pass, q \in Obl : r # p \/ q # o => task'[r][q] = task[r][q]
BY DEF TypeOK, Goto

\* Adding a job touches that job only, and only if it is not there.
LEMMA AddJobOnly ==
  ASSUME TypeOK, NEW o \in Obl, NEW g \in Gen, AddJob(o, g)
  PROVE  /\ job'[o][g] = IF job[o][g] = "absent" THEN "waiting" ELSE job[o][g]
         /\ \A h \in Gen : h # g => job'[o][h] = job[o][h]
         /\ \A q \in Obl : q # o => job'[q] = job[q]
BY DEF TypeOK, AddJob

\* Moving a job touches that job only.
LEMMA JobGotoOnly ==
  ASSUME TypeOK, NEW o \in Obl, NEW g \in Gen, NEW s \in JobState, JobGoto(o, g, s)
  PROVE  /\ job'[o][g] = s
         /\ \A h \in Gen : h # g => job'[o][h] = job[o][h]
         /\ \A q \in Obl : q # o => job'[q] = job[q]
BY DEF TypeOK, JobGoto

\* PassStart moves idle tasks to tasks that are not Working.
LEMMA StartInv ==
  ASSUME IInv, TypeOK', NEW p \in Pass, PassStart(p), NEW o \in Obl
  PROVE  OblInv(o)'
<1>0. faults' = faults /\ gen' = gen /\ status' = status /\ leaseOwner' = leaseOwner
      /\ leased' = leased /\ job' = job /\ claimed' = claimed
  BY DEF PassStart, rowVars
<1>1. task[p][o] \notin Working /\ task'[p][o] \notin Working
  BY DEF PassStart, IInv, TypeOK, Working
<1>2. \A r \in Pass : r # p => task'[r][o] = task[r][o]
  BY DEF PassStart, IInv, TypeOK
<1>3. \A r \in Pass : task'[r][o] \in Working <=> task[r][o] \in Working
  BY <1>1, <1>2
<1>4. Alive(o)' <=> Alive(o)
  BY <1>0, <1>3 DEF Alive, Working
<1>5. Causes(o)'
  BY <1>0, <1>4 DEF IInv, OblInv, Causes
<1>6. Claims(o)'
  BY <1>0, <1>1, <1>2 DEF IInv, OblInv, Claims
<1>7. Jobs(o)'
  BY <1>0 DEF IInv, OblInv, Jobs
<1> QED
  BY <1>5, <1>6, <1>7 DEF OblInv

\* PassReserve: an unclaimed row has no jobs, no claimant and generation 0.
LEMMA ReserveInv ==
  ASSUME IInv, TypeOK', NEW p \in Pass, NEW o \in Obl, PassReserve(p, o), NEW q \in Obl
  PROVE  OblInv(q)'
<1>0. faults' = faults /\ gen' = gen /\ leaseOwner' = leaseOwner
      /\ leased' = leased /\ job' = job /\ claimed' = claimed
  BY DEF PassReserve
<1>1. \A r \in Pass : r # p \/ q # o => task'[r][q] = task[r][q]
  BY GotoOnly DEF PassReserve, IInv, Task
<1>2. CASE q # o
  <2>1. Untouched(q)
    BY <1>0, <1>1, <1>2 DEF Untouched, PassReserve, IInv, TypeOK
  <2> QED
    BY <2>1, UntouchedKeeps DEF IInv
<1>3. CASE q = o
  <2>1. task[p][o] \notin Working /\ task'[p][o] \notin Working
    BY GotoOnly DEF PassReserve, IInv, Task, Working
  <2>2. \A r \in Pass : task'[r][o] \in Working <=> task[r][o] \in Working
    BY <1>1, <1>3, <2>1
  <2>3. Alive(o)' <=> Alive(o)
    BY <1>0, <2>2 DEF Alive, Working
  <2>4. status'[o] = status[o] \/ (status[o] = "absent" /\ status'[o] = "pending")
    BY DEF PassReserve, IInv, TypeOK
  <2>5. Causes(o)'
    BY <1>0, <2>3, <2>4 DEF IInv, OblInv, Causes, InFlight
  <2>6. Claims(o)'
    BY <1>0, <1>1, <1>3, <2>1, <2>4 DEF IInv, OblInv, Claims, Unclaimed
  <2>7. Jobs(o)'
    BY <1>0, <2>4 DEF IInv, OblInv, Jobs, Unclaimed, InFlight
  <2> QED
    BY <1>3, <2>5, <2>6, <2>7 DEF OblInv
<1> QED
  BY <1>2, <1>3

\* PassClaim: the claimed rows had a cause if they were claimed before.
LEMMA ClaimInv ==
  ASSUME IInv, TypeOK', NEW p \in Pass, PassClaim(p), NEW o \in Obl
  PROVE  OblInv(o)'
<1>0. /\ faults' = faults /\ job' = job
      /\ task[p][o] = "planned"
      /\ \A r \in Pass : r # p => task'[r][o] = task[r][o] /\ claimed'[r][o] = claimed[r][o]
  BY DEF PassClaim, IInv, TypeOK
<1>n. gen[o] \in Nat /\ faults \in Nat /\ Gen \subseteq Nat
  BY DEF IInv, TypeOK, Gen
<1>1. CASE ~Claimable(o)
  <2>1. /\ status'[o] = status[o] /\ gen'[o] = gen[o] /\ leaseOwner'[o] = leaseOwner[o]
        /\ leased'[o] = leased[o] /\ task'[p][o] = "idle"
    BY <1>1 DEF PassClaim, IInv, TypeOK
  <2>2. \A r \in Pass : task'[r][o] \in Working <=> task[r][o] \in Working
    BY <1>0, <2>1 DEF Working
  <2>3. Alive(o)' <=> Alive(o)
    BY <1>0, <2>1, <2>2 DEF Alive, Working
  <2>4. Causes(o)'
    BY <1>0, <2>1, <2>3 DEF IInv, OblInv, Causes
  <2>5. Claims(o)'
    BY <1>0, <2>1, <2>2 DEF IInv, OblInv, Claims, Working
  <2>6. Jobs(o)'
    BY <1>0, <2>1 DEF IInv, OblInv, Jobs
  <2> QED
    BY <2>4, <2>5, <2>6 DEF OblInv
<1>2. CASE Claimable(o)
  <2>1. /\ status'[o] = "enqueued" /\ gen'[o] = NextGeneration(o) /\ leaseOwner'[o] = p
        /\ claimed'[p][o] = NextGeneration(o) /\ task'[p][o] = "enqueue"
    BY <1>2 DEF PassClaim, IInv, TypeOK
  <2>2. leased'[o]
    BY <1>2 DEF PassClaim, IInv, TypeOK
  <2>3. status[o] = "pending" \/ gen[o] < faults
    BY <1>2 DEF Claimable, IInv, OblInv, Causes
  <2>4. /\ NextGeneration(o) \in Nat
        /\ gen[o] <= NextGeneration(o)
        /\ NextGeneration(o) <= faults
        /\ status[o] # "pending" => gen[o] < NextGeneration(o)
    BY <1>n, <2>3 DEF NextGeneration, IInv, OblInv, Causes
  <2>5. Alive(o)'
    BY <2>1 DEF Alive
  <2>6. Causes(o)'
    BY <1>0, <2>1, <2>2, <2>4, <2>5 DEF Causes
  <2>7. ASSUME NEW r \in Pass, r # p, task'[r][o] \in Working
        PROVE  claimed'[r][o] <= gen'[o]
    <3>0. claimed[r][o] \in Gen
      BY DEF IInv, TypeOK
    <3>1. claimed[r][o] \in Nat
      BY <1>n, <3>0
    <3>2. claimed[r][o] <= gen[o]
      BY <1>0, <2>7 DEF IInv, OblInv, Claims
    <3> QED
      BY <1>0, <1>n, <2>1, <2>4, <2>7, <3>1, <3>2
  <2>8. Claims(o)'
    BY <2>1, <2>4, <2>7 DEF Claims, Unclaimed
  <2>9. ASSUME NEW g \in Gen, job[o][g] # "absent"
        PROVE  g < NextGeneration(o)
    BY <1>n, <2>4, <2>9 DEF IInv, OblInv, Jobs, Unclaimed
  <2>10. ASSUME NEW g \in Gen
         PROVE  /\ job'[o][g] # "absent" => g <= gen'[o] /\ status'[o] \notin Unclaimed
                /\ job'[o][g] = "broken" => g < faults'
                /\ ~(job'[o][g] = "settled" /\ gen'[o] = g)
    BY <1>0, <1>n, <2>1, <2>4, <2>9 DEF IInv, OblInv, Jobs, Unclaimed
  <2>11. Jobs(o)'
    BY <2>10 DEF Jobs
  <2> QED
    BY <2>6, <2>8, <2>11 DEF OblInv
<1> QED
  BY <1>1, <1>2

\* A pass's task moves on without the row changing.
LEMMA TaskMoves ==
  ASSUME TypeOK, TypeOK', NEW p \in Pass, NEW o \in Obl, OblInv(o),
         status'[o] = status[o], gen'[o] = gen[o], leaseOwner'[o] = leaseOwner[o],
         leased'[o] = leased[o], job' = job, claimed' = claimed,
         faults' \in {faults, faults + 1},
         \A r \in Pass : r # p => task'[r][o] = task[r][o],
         task[p][o] \in Working,
         \/ task'[p][o] = "idle"
         \/ task'[p][o] = "fail",
         leaseOwner[o] = p /\ status[o] \in InFlight => gen[o] < faults'
  PROVE  OblInv(o)'
<1>0. faults \in Nat /\ faults' \in Nat /\ faults <= faults' /\ gen[o] \in Nat /\ Gen \subseteq Nat
  BY DEF TypeOK, Gen
<1>1. leaseOwner[o] = p \/ (Alive(o)' <=> Alive(o))
  BY DEF Alive
<1>2. Causes(o)'
  BY <1>0, <1>1 DEF OblInv, Causes
<1>3. ASSUME NEW r \in Pass, r # p, task'[r][o] \in Working
      PROVE  /\ claimed'[r][o] <= gen'[o]
             /\ status'[o] \notin Unclaimed
             /\ leaseOwner'[o] = r =>
                   /\ claimed'[r][o] = gen'[o]
                   /\ task'[r][o] # "fail" => status'[o] = "enqueued"
                   /\ task'[r][o] = "confirm" => job'[o][gen'[o]] # "absent"
                   /\ task'[r][o] = "fail" /\ status'[o] \in InFlight => gen'[o] < faults'
  BY <1>0, <1>3 DEF OblInv, Claims
<1>4. ASSUME task'[p][o] \in Working
      PROVE  /\ claimed'[p][o] <= gen'[o]
             /\ status'[o] \notin Unclaimed
             /\ task'[p][o] = "fail"
             /\ leaseOwner'[o] = p =>
                   /\ claimed'[p][o] = gen'[o]
                   /\ status'[o] \in InFlight => gen'[o] < faults'
  BY <1>4 DEF OblInv, Claims, Working
<1>5. Claims(o)'
  BY <1>3, <1>4 DEF Claims
<1>6. ASSUME NEW g \in Gen
      PROVE  /\ job[o][g] # "absent" => g <= gen'[o] /\ status'[o] \notin Unclaimed
             /\ job[o][g] = "broken" => g < faults'
             /\ job[o][g] = "settled" /\ gen'[o] = g /\ status'[o] \in InFlight => g < faults'
  BY <1>0 DEF OblInv, Jobs
<1>7. Jobs(o)'
  BY <1>6 DEF Jobs
<1> QED
  BY <1>2, <1>5, <1>7 DEF OblInv

\* PassMark closes only obligations nobody works on.
LEMMA MarkInv ==
  ASSUME IInv, TypeOK', NEW p \in Pass, NEW o \in Obl, PassMark(p, o), NEW q \in Obl
  PROVE  OblInv(q)'
<1>0. faults' = faults /\ gen' = gen /\ job' = job /\ claimed' = claimed
  BY DEF PassMark, Mark, Release, rowVars
<1>1. \A r \in Pass : r # p \/ q # o => task'[r][q] = task[r][q]
  BY GotoOnly DEF PassMark, IInv, Task
<1>2. task[p][o] \notin Working /\ task'[p][o] \notin Working
  BY GotoOnly DEF PassMark, IInv, Task, Working
<1>3. CASE q # o
  <2>1. /\ status'[q] = status[q] /\ leaseOwner'[q] = leaseOwner[q] /\ leased'[q] = leased[q]
    BY <1>3, ReleaseRow DEF PassMark, Mark, IInv, rowVars
  <2>2. Untouched(q)
    BY <1>0, <1>1, <1>3, <2>1 DEF Untouched
  <2> QED
    BY <2>2, UntouchedKeeps DEF IInv
<1>4. CASE q = o /\ status[o] \in {"pending", "failed"}
  <2>1. Release(o, "irrecoverable")
    BY <1>4 DEF PassMark, Mark
  <2>2. \A r \in Pass : task'[r][o] \in Working => task[r][o] \in Working
    BY <1>1, <1>2, <1>4
  <2> QED
    BY <1>0, <1>4, <2>1, <2>2, ReleasedHolds DEF IInv
<1>5. CASE q = o /\ status[o] \notin {"pending", "failed"}
  <2>1. UNCHANGED rowVars
    BY <1>5 DEF PassMark, Mark
  <2>2. \A r \in Pass : task'[r][o] \in Working <=> task[r][o] \in Working
    BY <1>1, <1>2, <1>5
  <2>3. Alive(o)' <=> Alive(o)
    BY <1>0, <2>1, <2>2 DEF Alive, Working, rowVars
  <2>4. Causes(o)'
    BY <1>0, <2>1, <2>3 DEF IInv, OblInv, Causes, rowVars
  <2>5. Claims(o)'
    BY <1>0, <1>1, <1>2, <1>5, <2>1 DEF IInv, OblInv, Claims, rowVars
  <2>6. Jobs(o)'
    BY <1>0, <2>1 DEF IInv, OblInv, Jobs, rowVars
  <2> QED
    BY <1>5, <2>4, <2>5, <2>6 DEF OblInv
<1> QED
  BY <1>3, <1>4, <1>5

\* PassFail fails only its own claim, which had a cause.
LEMMA FailInv ==
  ASSUME IInv, TypeOK', NEW p \in Pass, NEW o \in Obl, PassFail(p, o), NEW q \in Obl
  PROVE  OblInv(q)'
<1>0. faults' = faults /\ gen' = gen /\ job' = job /\ claimed' = claimed
  BY DEF PassFail, FailOwned, Release, rowVars
<1>1. \A r \in Pass : r # p \/ q # o => task'[r][q] = task[r][q]
  BY GotoOnly DEF PassFail, IInv, Task
<1>2. task[p][o] = "fail" /\ task'[p][o] = "idle"
  BY GotoOnly DEF PassFail, IInv, Task
<1>3. CASE q # o
  <2>1. /\ status'[q] = status[q] /\ leaseOwner'[q] = leaseOwner[q] /\ leased'[q] = leased[q]
    BY <1>3, ReleaseRow DEF PassFail, FailOwned, IInv, rowVars
  <2>2. Untouched(q)
    BY <1>0, <1>1, <1>3, <2>1 DEF Untouched
  <2> QED
    BY <2>2, UntouchedKeeps DEF IInv
<1>4. CASE q = o /\ leaseOwner[o] = p /\ status[o] \in InFlight
  <2>1. Release(o, "failed")
    BY <1>4 DEF PassFail, FailOwned
  <2>2. \A r \in Pass : task'[r][o] \in Working => task[r][o] \in Working
    BY <1>1, <1>2, <1>4 DEF Working
  <2>3. gen[o] < faults
    BY <1>2, <1>4 DEF IInv, OblInv, Claims, Working
  <2> QED
    BY <1>0, <1>4, <2>1, <2>2, <2>3, ReleasedHolds DEF IInv
<1>5. CASE q = o /\ ~(leaseOwner[o] = p /\ status[o] \in InFlight)
  <2>1. UNCHANGED rowVars
    BY <1>5 DEF PassFail, FailOwned
  <2> QED
    BY <1>0, <1>1, <1>2, <1>5, <2>1, TaskMoves DEF IInv, Working, rowVars
<1> QED
  BY <1>3, <1>4, <1>5

\* PassFailLost: the lost update is a fault.
LEMMA FailLostInv ==
  ASSUME IInv, TypeOK', NEW p \in Pass, NEW o \in Obl, PassFailLost(p, o), NEW q \in Obl
  PROVE  OblInv(q)'
<1>0. /\ faults' = faults + 1 /\ gen' = gen /\ job' = job /\ claimed' = claimed
      /\ status' = status /\ leaseOwner' = leaseOwner /\ leased' = leased
  BY FaultType DEF PassFailLost, rowVars, IInv
<1>1. \A r \in Pass : r # p \/ q # o => task'[r][q] = task[r][q]
  BY GotoOnly DEF PassFailLost, IInv, Task
<1>2. task[p][o] = "fail" /\ task'[p][o] = "idle"
  BY GotoOnly DEF PassFailLost, IInv, Task
<1>3. CASE q # o
  <2>1. Untouched(q)
    BY <1>0, <1>1, <1>3 DEF Untouched
  <2> QED
    BY <2>1, UntouchedKeeps DEF IInv
<1>4. CASE q = o
  <2>1. gen[o] < faults'
    BY <1>0 DEF IInv, OblInv, Causes, TypeOK, Gen
  <2> QED
    BY <1>0, <1>1, <1>2, <1>4, <2>1, TaskMoves DEF IInv, Working
<1> QED
  BY <1>3, <1>4

\* The queue gets a job of the pass's generation, or has it already.
LEMMA EnqueueHolds ==
  ASSUME TypeOK, TypeOK', NEW p \in Pass, NEW o \in Obl, OblInv(o),
         task[p][o] = "enqueue", UNCHANGED rowVars, claimed' = claimed,
         AddJob(o, claimed[p][o]),
         \A r \in Pass : r # p => task'[r][o] = task[r][o],
         \/ task'[p][o] = "confirm" /\ faults' = faults
         \/ task'[p][o] = "fail" /\ faults' = faults + 1
  PROVE  OblInv(o)'
<1> DEFINE c == claimed[p][o]
<1>0. faults \in Nat /\ faults' \in Nat /\ faults <= faults' /\ gen[o] \in Nat /\ Gen \subseteq Nat
  BY DEF TypeOK, Gen
<1>c. c \in Gen
  BY DEF TypeOK
<1>1. status' = status /\ gen' = gen /\ leaseOwner' = leaseOwner /\ leased' = leased
  BY DEF rowVars
<1>2. /\ job'[o][c] = IF job[o][c] = "absent" THEN "waiting" ELSE job[o][c]
      /\ \A h \in Gen : h # c => job'[o][h] = job[o][h]
  BY <1>c, AddJobOnly
<1>3. c <= gen[o] /\ status[o] \notin Unclaimed /\ (leaseOwner[o] = p => c = gen[o] /\ status[o] = "enqueued")
  BY DEF OblInv, Claims, Working
<1>4. \A r \in Pass : task'[r][o] \in Working <=> task[r][o] \in Working
  BY DEF Working
<1>g. gen[o] \in Gen
  BY DEF TypeOK
<1>5. Alive(o) => Alive(o)'
  BY <1>1, <1>2, <1>4, <1>g DEF Alive, Working
<1>6. Causes(o)'
  BY <1>0, <1>1, <1>5 DEF OblInv, Causes
<1>7. ASSUME NEW r \in Pass, r # p, task'[r][o] \in Working
      PROVE  /\ claimed'[r][o] <= gen'[o]
             /\ status'[o] \notin Unclaimed
             /\ leaseOwner'[o] = r =>
                   /\ claimed'[r][o] = gen'[o]
                   /\ task'[r][o] # "fail" => status'[o] = "enqueued"
                   /\ task'[r][o] = "confirm" => job'[o][gen'[o]] # "absent"
                   /\ task'[r][o] = "fail" /\ status'[o] \in InFlight => gen'[o] < faults'
  BY <1>0, <1>1, <1>2, <1>g, <1>7 DEF OblInv, Claims
<1>8. /\ claimed'[p][o] <= gen'[o]
      /\ status'[o] \notin Unclaimed
      /\ leaseOwner'[o] = p =>
            /\ claimed'[p][o] = gen'[o]
            /\ status'[o] = "enqueued"
            /\ job'[o][gen'[o]] # "absent"
            /\ task'[p][o] = "fail" => gen'[o] < faults'
  BY <1>0, <1>1, <1>2, <1>3, <1>g DEF OblInv, Causes
<1>9. Claims(o)'
  BY <1>7, <1>8 DEF Claims
<1>10. ASSUME NEW g \in Gen
       PROVE  /\ job'[o][g] # "absent" => g <= gen'[o] /\ status'[o] \notin Unclaimed
              /\ job'[o][g] = "broken" => g < faults'
              /\ job'[o][g] = "settled" /\ gen'[o] = g /\ status'[o] \in InFlight => g < faults'
  BY <1>0, <1>1, <1>2, <1>3 DEF OblInv, Jobs
<1>11. Jobs(o)'
  BY <1>10 DEF Jobs
<1> QED
  BY <1>6, <1>9, <1>11 DEF OblInv

\* PassEnqueue, and PassEnqueueFails with or without the job added.
LEMMA EnqueueInv ==
  ASSUME IInv, TypeOK', NEW p \in Pass, NEW o \in Obl,
         PassEnqueue(p, o) \/ PassEnqueueFails(p, o), NEW q \in Obl
  PROVE  OblInv(q)'
<1>0. UNCHANGED rowVars /\ claimed' = claimed /\ task[p][o] = "enqueue"
  BY DEF PassEnqueue, PassEnqueueFails
<1>1. \A r \in Pass : r # p \/ q # o => task'[r][q] = task[r][q]
  BY GotoOnly DEF PassEnqueue, PassEnqueueFails, IInv, Task
<1>2. \/ task'[p][o] = "confirm" /\ faults' = faults /\ AddJob(o, claimed[p][o])
      \/ task'[p][o] = "fail" /\ faults' = faults + 1 /\ (AddJob(o, claimed[p][o]) \/ job' = job)
  BY GotoOnly, FaultType DEF PassEnqueue, PassEnqueueFails, IInv, Task
<1>c. claimed[p][o] \in Gen
  BY DEF IInv, TypeOK
<1>3. CASE q # o
  <2>1. job'[q] = job[q]
    BY <1>2, <1>3, <1>c, AddJobOnly DEF IInv
  <2>2. Untouched(q)
    BY <1>0, <1>1, <1>2, <1>3, <2>1 DEF Untouched, rowVars
  <2> QED
    BY <2>2, UntouchedKeeps DEF IInv
<1>4. CASE q = o /\ AddJob(o, claimed[p][o])
  BY <1>0, <1>1, <1>2, <1>4, EnqueueHolds DEF IInv
<1>5. CASE q = o /\ ~AddJob(o, claimed[p][o])
  <2>1. gen[o] < faults'
    BY <1>2, <1>5 DEF IInv, OblInv, Causes, TypeOK, Gen
  <2> QED
    BY <1>0, <1>1, <1>2, <1>5, <2>1, TaskMoves DEF IInv, Working, rowVars
<1> QED
  BY <1>3, <1>4, <1>5

\* The confirmation: a job of the current generation is in the queue, and if
\* it has settled without closing the obligation its report was lost.
LEMMA ConfirmHolds ==
  ASSUME TypeOK, TypeOK', NEW p \in Pass, NEW o \in Obl, OblInv(o),
         task[p][o] = "confirm", Confirmable(p, o), Confirm(p, o),
         claimed' = claimed, job' = job,
         \A r \in Pass : r # p => task'[r][o] = task[r][o],
         \/ task'[p][o] = "idle" /\ faults' = faults
         \/ task'[p][o] = "fail" /\ faults' = faults + 1
  PROVE  OblInv(o)'
<1>0. faults \in Nat /\ faults' \in Nat /\ faults <= faults' /\ gen[o] \in Nat /\ Gen \subseteq Nat
  BY DEF TypeOK, Gen
<1>g. gen[o] \in Gen
  BY DEF TypeOK
<1>1. /\ status[o] = "enqueued" /\ status'[o] = "running" /\ leaseOwner[o] = p
      /\ gen' = gen /\ leaseOwner' = leaseOwner /\ leased' = leased
  BY DEF Confirmable, Confirm, TypeOK
<1>2. {status[o], status'[o]} \subseteq InFlight /\ status'[o] \notin Unclaimed
  BY <1>1 DEF InFlight, Unclaimed
<1>3. claimed[p][o] = gen[o] /\ job[o][gen[o]] # "absent"
  BY <1>1 DEF OblInv, Claims, Working
<1>4. Alive(o)' \/ gen[o] < faults
  <2>1. CASE job[o][gen[o]] = "settled"
    BY <1>g, <1>2, <2>1 DEF OblInv, Jobs
  <2>2. CASE job[o][gen[o]] # "settled"
    BY <1>1, <1>3, <1>g, <2>2 DEF Alive, TypeOK, JobState
  <2> QED
    BY <2>1, <2>2
<1>5. Causes(o)'
  BY <1>0, <1>1, <1>2, <1>4 DEF OblInv, Causes
<1>6. ASSUME NEW r \in Pass, task'[r][o] \in Working
      PROVE  /\ claimed'[r][o] <= gen'[o]
             /\ leaseOwner'[o] = r => /\ claimed'[r][o] = gen'[o]
                                      /\ task'[r][o] = "fail"
                                      /\ gen'[o] < faults'
  BY <1>0, <1>1, <1>3, <1>6 DEF OblInv, Claims, Causes, Working
<1>7. Claims(o)'
  BY <1>2, <1>6 DEF Claims
<1>8. ASSUME NEW g \in Gen
      PROVE  /\ job[o][g] # "absent" => g <= gen'[o]
             /\ job[o][g] = "broken" => g < faults'
             /\ job[o][g] = "settled" /\ gen'[o] = g => g < faults'
  BY <1>0, <1>1, <1>2 DEF OblInv, Jobs
<1>9. Jobs(o)'
  BY <1>2, <1>8 DEF Jobs
<1> QED
  BY <1>5, <1>7, <1>9 DEF OblInv

\* PassConfirm and PassConfirmFails.
LEMMA ConfirmInv ==
  ASSUME IInv, TypeOK', NEW p \in Pass, NEW o \in Obl,
         PassConfirm(p, o) \/ PassConfirmFails(p, o), NEW q \in Obl
  PROVE  OblInv(q)'
<1>0. claimed' = claimed /\ job' = job /\ task[p][o] = "confirm"
  BY DEF PassConfirm, PassConfirmFails
<1>1. \A r \in Pass : r # p \/ q # o => task'[r][q] = task[r][q]
  BY GotoOnly DEF PassConfirm, PassConfirmFails, IInv, Task
<1>2. \/ /\ Confirmable(p, o) /\ Confirm(p, o)
         /\ \/ task'[p][o] = "idle" /\ faults' = faults
            \/ task'[p][o] = "fail" /\ faults' = faults + 1
      \/ /\ UNCHANGED rowVars /\ task'[p][o] = "fail"
         /\ \/ ~Confirmable(p, o) /\ faults' = faults
            \/ faults' = faults + 1
  BY GotoOnly, FaultType DEF PassConfirm, PassConfirmFails, IInv, Task
<1>3. CASE q # o
  <2>1. /\ status'[q] = status[q] /\ gen'[q] = gen[q]
        /\ leaseOwner'[q] = leaseOwner[q] /\ leased'[q] = leased[q]
    BY <1>2, <1>3 DEF Confirm, rowVars, IInv, TypeOK
  <2>2. Untouched(q)
    BY <1>0, <1>1, <1>2, <1>3, <2>1 DEF Untouched
  <2> QED
    BY <2>2, UntouchedKeeps DEF IInv
<1>4. CASE q = o /\ Confirmable(p, o) /\ Confirm(p, o)
  <2>1. status'[o] = "running" /\ status[o] = "enqueued"
    BY <1>4 DEF Confirm, Confirmable, IInv, TypeOK
  <2>2. ~UNCHANGED rowVars
    BY <2>1 DEF rowVars
  <2> QED
    BY <1>0, <1>1, <1>2, <1>4, <2>2, ConfirmHolds DEF IInv
<1>5. CASE q = o /\ ~(Confirmable(p, o) /\ Confirm(p, o))
  <2>1. leaseOwner[o] = p => Confirmable(p, o)
    BY <1>0 DEF IInv, OblInv, Claims, Working, Confirmable
  <2>2. leaseOwner[o] = p => gen[o] < faults'
    BY <1>2, <1>5, <2>1 DEF IInv, OblInv, Causes, TypeOK, Gen
  <2>3. UNCHANGED rowVars /\ task'[p][o] = "fail" /\ faults' \in {faults, faults + 1}
    BY <1>2, <1>5
  <2> QED
    BY <1>0, <1>1, <1>5, <2>2, <2>3, TaskMoves DEF IInv, Working, rowVars
<1> QED
  BY <1>3, <1>4, <1>5

\* PassCrash forgets the pass's tasks, and is a fault.
LEMMA CrashInv ==
  ASSUME IInv, TypeOK', NEW p \in Pass, PassCrash(p), NEW o \in Obl
  PROVE  OblInv(o)'
<1>0. /\ faults' = faults + 1 /\ gen' = gen /\ job' = job /\ claimed' = claimed
      /\ status' = status /\ leaseOwner' = leaseOwner /\ leased' = leased
  BY FaultType DEF PassCrash, rowVars, IInv
<1>1. /\ task'[p][o] = "idle"
      /\ \A r \in Pass : r # p => task'[r][o] = task[r][o]
  BY DEF PassCrash, IInv, TypeOK
<1>2. gen[o] < faults'
  BY <1>0 DEF IInv, OblInv, Causes, TypeOK, Gen
<1>3. CASE task[p][o] \in Working
  BY <1>0, <1>1, <1>2, <1>3, TaskMoves DEF IInv
<1>4. CASE task[p][o] \notin Working
  <2>0. faults \in Nat /\ Gen \subseteq Nat /\ gen[o] \in Nat
    BY DEF IInv, TypeOK, Gen
  <2>1. Causes(o)'
    BY <1>0, <1>2, <2>0 DEF Causes
  <2>2. ASSUME NEW r \in Pass, task'[r][o] \in Working
        PROVE  r # p
    BY <1>1, <2>2 DEF Working
  <2>3. Claims(o)'
    BY <1>0, <1>1, <1>2, <2>2 DEF IInv, OblInv, Claims
  <2>4. ASSUME NEW g \in Gen
        PROVE  /\ job[o][g] # "absent" => g <= gen[o] /\ status[o] \notin Unclaimed
               /\ job[o][g] = "broken" => g < faults'
               /\ job[o][g] = "settled" /\ gen[o] = g => g < faults'
    BY <1>0, <1>2, <2>0 DEF IInv, OblInv, Jobs
  <2>5. Jobs(o)'
    BY <1>0, <2>4 DEF Jobs
  <2> QED
    BY <2>1, <2>3, <2>5 DEF OblInv
<1> QED
  BY <1>3, <1>4

\* A job moves on and its row stays.
LEMMA JobMoves ==
  ASSUME TypeOK, TypeOK', NEW o \in Obl, NEW g \in Gen, NEW s \in JobState \ {"absent"}, OblInv(o),
         JobGoto(o, g, s), job[o][g] # "absent", UNCHANGED <<rowVars, passVars>>,
         faults' \in {faults, faults + 1},
         s = "broken" => faults' = faults + 1,
         s = "settled" /\ gen[o] = g /\ status[o] \in InFlight => faults' = faults + 1
  PROVE  OblInv(o)'
<1>0. faults \in Nat /\ faults' \in Nat /\ faults <= faults' /\ gen[o] \in Nat /\ Gen \subseteq Nat
  BY DEF TypeOK, Gen
<1>g. gen[o] \in Gen
  BY DEF TypeOK
<1>1. /\ status' = status /\ gen' = gen /\ leaseOwner' = leaseOwner /\ leased' = leased
      /\ task' = task /\ claimed' = claimed
  BY DEF rowVars, passVars
<1>2. job'[o][g] = s /\ \A h \in Gen : h # g => job'[o][h] = job[o][h]
  BY JobGotoOnly
<1>3. g <= gen[o] /\ status[o] \notin Unclaimed /\ gen[o] <= faults
  BY DEF OblInv, Jobs, Causes
<1>4. status[o] \in InFlight /\ faults' = faults => (Alive(o) => Alive(o)')
  <2>1. CASE g = gen[o] /\ s = "settled"
    BY <1>0, <2>1
  <2>2. CASE g = gen[o] /\ s # "settled"
    BY <1>1, <1>2, <2>2 DEF Alive, JobState
  <2>3. CASE g # gen[o]
    BY <1>1, <1>2, <1>g, <2>3 DEF Alive
  <2> QED
    BY <2>1, <2>2, <2>3
<1>5. faults' = faults + 1 => gen[o] < faults'
  BY <1>0, <1>3
<1>6. Causes(o)'
  BY <1>0, <1>1, <1>4, <1>5 DEF OblInv, Causes
<1>7. Claims(o)'
  BY <1>0, <1>1, <1>2, <1>g DEF OblInv, Claims
<1>8. ASSUME NEW h \in Gen
      PROVE  /\ job'[o][h] # "absent" => h <= gen'[o] /\ status'[o] \notin Unclaimed
             /\ job'[o][h] = "broken" => h < faults'
             /\ job'[o][h] = "settled" /\ gen'[o] = h /\ status'[o] \in InFlight => h < faults'
  <2>1. CASE h = g
    BY <1>0, <1>1, <1>2, <1>3, <2>1
  <2>2. CASE h # g
    BY <1>0, <1>1, <1>2, <2>2 DEF OblInv, Jobs
  <2> QED
    BY <2>1, <2>2
<1>9. Jobs(o)'
  BY <1>8 DEF Jobs
<1> QED
  BY <1>6, <1>7, <1>9 DEF OblInv

\* Another obligation's job touches nothing of this one.
LEMMA JobElsewhere ==
  ASSUME IInv, NEW o \in Obl, NEW g \in Gen, NEW s \in JobState, JobGoto(o, g, s),
         UNCHANGED passVars, faults' \in {faults, faults + 1}, NEW q \in Obl, q # o,
         gen' = gen, status'[q] = status[q], leaseOwner'[q] = leaseOwner[q], leased'[q] = leased[q]
  PROVE  OblInv(q)'
<1>1. Untouched(q)
  BY JobGotoOnly DEF Untouched, passVars, IInv
<1> QED
  BY <1>1, UntouchedKeeps DEF IInv

\* JobReports closes its own generation only.
LEMMA ReportsInv ==
  ASSUME IInv, TypeOK', NEW o \in Obl, NEW g \in Gen, JobReports(o, g), NEW q \in Obl
  PROVE  OblInv(q)'
<1>0. /\ UNCHANGED passVars /\ faults' = faults /\ JobGoto(o, g, "settled")
      /\ job[o][g] \in {"ran", "broken"} /\ "settled" \in JobState
  BY DEF JobReports, JobState
<1>1. /\ gen' = gen
      /\ \A r \in Obl : r # o => /\ status'[r] = status[r] /\ leaseOwner'[r] = leaseOwner[r]
                                 /\ leased'[r] = leased[r]
  BY ReleaseRow DEF JobReports, Complete, FailGeneration, rowVars, IInv
<1>2. CASE q # o
  BY <1>0, <1>1, <1>2, JobElsewhere
<1>3. CASE q = o /\ gen[o] = g /\ status[o] \in InFlight
  <2>1. \/ Release(o, "succeeded")
        \/ Release(o, "failed") /\ job[o][g] = "broken"
    BY <1>0, <1>3 DEF JobReports, Complete, FailGeneration
  <2>2. job[o][g] = "broken" => gen[o] < faults
    BY <1>3 DEF IInv, OblInv, Jobs
  <2>3. job'[o][g] = "settled" /\ \A h \in Gen : h # g => job'[o][h] = job[o][h]
    BY <1>0, JobGotoOnly DEF IInv
  <2>4. \A h \in Gen : /\ job'[o][h] # "absent" => job[o][h] # "absent"
                       /\ job'[o][h] = "broken" => job[o][h] = "broken"
    BY <1>0, <2>3
  <2>5. claimed' = claimed /\ task' = task
    BY <1>0 DEF passVars
  <2> QED
    BY <1>0, <1>3, <2>1, <2>2, <2>4, <2>5, ReleasedHolds DEF IInv
<1>4. CASE q = o /\ ~(gen[o] = g /\ status[o] \in InFlight)
  <2>1. UNCHANGED rowVars
    BY <1>4 DEF JobReports, Complete, FailGeneration
  <2> QED
    BY <1>0, <1>4, <2>1, JobMoves DEF IInv
<1> QED
  BY <1>2, <1>3, <1>4

\* The other steps of the workers.
LEMMA JobInv ==
  ASSUME IInv, TypeOK', NEW o \in Obl, NEW g \in Gen,
         JobStep(o, g) \/ JobFault(o, g) \/ JobRenews(o, g), NEW q \in Obl
  PROVE  OblInv(q)'
<1>t. {"waiting", "active", "ran", "broken", "settled"} \subseteq JobState
  BY DEF JobState
<1>1. CASE JobReports(o, g)
  BY <1>1, ReportsInv
<1>2. ASSUME NEW s \in {"waiting", "active", "ran", "broken", "settled"},
             JobGoto(o, g, s), job[o][g] # "absent", UNCHANGED <<rowVars, passVars>>,
             \/ faults' = faults /\ s \in {"active", "ran"}
             \/ faults' = faults + 1
      PROVE  OblInv(q)'
  <2>1. CASE q = o
    BY <1>2, <1>t, <2>1, JobMoves DEF IInv
  <2>2. CASE q # o
    BY <1>2, <1>t, <2>2, JobElsewhere DEF rowVars
  <2> QED
    BY <2>1, <2>2
<1>3. CASE JobStart(o, g)
  BY <1>2, <1>3 DEF JobStart
<1>4. CASE JobRun(o, g)
  BY <1>2, <1>4 DEF JobRun
<1>5. CASE JobFails(o, g)
  BY <1>2, <1>5, FaultType DEF JobFails, IInv
<1>6. CASE JobStalls(o, g)
  BY <1>2, <1>6, FaultType DEF JobStalls, IInv
<1>7. CASE JobReportLost(o, g)
  BY <1>2, <1>7, FaultType DEF JobReportLost, IInv
<1>8. CASE JobRenews(o, g)
  <2>1. /\ status' = status /\ gen' = gen /\ leaseOwner' = leaseOwner /\ task' = task
        /\ claimed' = claimed /\ job' = job /\ faults' = faults
    BY <1>8 DEF JobRenews, passVars
  <2>2. leased'[o] /\ (q # o => leased'[q] = leased[q])
    BY <1>8 DEF JobRenews, IInv, TypeOK
  <2>3. CASE q # o
    <3>1. Untouched(q)
      BY <2>1, <2>2, <2>3 DEF Untouched
    <3> QED
      BY <3>1, UntouchedKeeps DEF IInv
  <2>4. CASE q = o
    <3>1. Alive(o)' <=> Alive(o)
      BY <2>1 DEF Alive
    <3>2. Causes(o)'
      BY <2>1, <2>2, <3>1 DEF IInv, OblInv, Causes
    <3>3. Claims(o)' /\ Jobs(o)'
      BY <2>1 DEF IInv, OblInv, Claims, Jobs
    <3> QED
      BY <2>4, <3>2, <3>3 DEF OblInv
  <2> QED
    BY <2>3, <2>4
<1> QED
  BY <1>1, <1>3, <1>4, <1>5, <1>6, <1>7, <1>8 DEF JobStep, JobFault

\* Time: a lease runs out under someone's hands only as a fault.
LEMMA TimeInv ==
  ASSUME IInv, TypeOK', NEW o \in Obl, DueAgain(o) \/ LeaseExpires(o) \/ PeriodEnds(o), NEW q \in Obl
  PROVE  OblInv(q)'
<1>0. /\ status' = status /\ gen' = gen /\ leaseOwner' = leaseOwner /\ task' = task
      /\ claimed' = claimed /\ job' = job
  BY DEF DueAgain, LeaseExpires, PeriodEnds, rowVars, passVars
<1>1. CASE DueAgain(o) \/ PeriodEnds(o)
  <2>1. Untouched(q)
    BY <1>0, <1>1 DEF Untouched, DueAgain, PeriodEnds, rowVars
  <2> QED
    BY <2>1, UntouchedKeeps DEF IInv
<1>2. CASE LeaseExpires(o)
  <2>0. faults \in Nat /\ gen[o] \in Nat /\ Gen \subseteq Nat
    BY DEF IInv, TypeOK, Gen
  <2>1. \/ Alive(o) /\ faults' = faults + 1
        \/ ~Alive(o) /\ faults' = faults
    BY <1>2, FaultType DEF LeaseExpires, IInv
  <2>2. CASE q # o
    <3>1. leased'[q] = leased[q]
      BY <1>2, <2>2 DEF LeaseExpires, IInv, TypeOK
    <3>2. Untouched(q)
      BY <1>0, <2>1, <3>1 DEF Untouched
    <3> QED
      BY <3>2, UntouchedKeeps DEF IInv
  <2>3. CASE q = o
    <3>1. Alive(o)' <=> Alive(o)
      BY <1>0 DEF Alive
    <3>2. status[o] \in InFlight => gen[o] < faults'
      BY <2>0, <2>1 DEF IInv, OblInv, Causes
    <3>3. Causes(o)'
      BY <1>0, <2>0, <2>1, <3>2 DEF IInv, OblInv, Causes
    <3>4. Claims(o)'
      BY <1>0, <2>0, <2>1, <3>2 DEF IInv, OblInv, Claims
    <3>5. ASSUME NEW g \in Gen
          PROVE  /\ job[o][g] # "absent" => g <= gen[o] /\ status[o] \notin Unclaimed
                 /\ job[o][g] = "broken" => g < faults'
                 /\ job[o][g] = "settled" /\ gen[o] = g /\ status[o] \in InFlight => g < faults'
      BY <2>0, <2>1 DEF IInv, OblInv, Jobs
    <3>6. Jobs(o)'
      BY <1>0, <3>5 DEF Jobs
    <3> QED
      BY <2>3, <3>3, <3>4, <3>6 DEF OblInv
  <2> QED
    BY <2>2, <2>3
<1> QED
  BY <1>1, <1>2

LEMMA InvInit == Init => IInv
<1> SUFFICES ASSUME Init
             PROVE  IInv
  OBVIOUS
<1>1. ASSUME NEW o \in Obl
      PROVE  OblInv(o)
  BY DEF Init, OblInv, Causes, Claims, Jobs, Working, InFlight
<1> QED
  BY <1>1, TypeInit DEF IInv

LEMMA InvNext ==
  ASSUME IInv, [Next]_vars
  PROVE  IInv'
<1>t. TypeOK'
  BY TypeNext DEF IInv
<1>1. ASSUME NEW o \in Obl
      PROVE  OblInv(o)'
  <2>1. CASE UNCHANGED vars
    <3>1. Untouched(o)
      BY <2>1 DEF Untouched, vars, rowVars, passVars
    <3> QED
      BY <3>1, UntouchedKeeps DEF IInv
  <2>2. ASSUME NEW p \in Pass, PassStart(p) \/ PassStep(p) \/ PassFault(p)
        PROVE  OblInv(o)'
    BY <1>t, <2>2, StartInv, ReserveInv, ClaimInv, MarkInv, FailInv, FailLostInv, EnqueueInv,
       ConfirmInv, CrashInv DEF PassStep, PassFault
  <2> QED
    BY <1>t, <2>1, <2>2, JobInv, TimeInv DEF Next
<1> QED
  BY <1>t, <1>1 DEF IInv

\* The inductive invariant holds.
THEOREM Invariance == Spec => []IInv
BY InvInit, InvNext, PTL DEF Spec

\* Healthy work is never reclaimed: with any number of obligations and of
\* overlapping passes, every new generation stands for a fault.
THEOREM RetriesHaveCausesHolds == Spec => []RetriesHaveCauses
<1>1. IInv => RetriesHaveCauses
  BY DEF IInv, OblInv, Causes, RetriesHaveCauses
<1> QED
  BY <1>1, Invariance, PTL

(***************************************************************************)
(* Success is evidence.                                                    *)
(***************************************************************************)

\* The job of this generation did its work, or had none left to do.
Worked(o, g) == g \in worked[o] \/ (CurrentDayOnly /\ ~open[o])

\* A job that ran has worked, and so has that of a succeeded obligation.
Evidence ==
    /\ TypeOK
    /\ SucceededDidWork
    /\ \A o \in Obl, g \in Gen : job[o][g] = "ran" => Worked(o, g)

\* Work is not undone and a period does not open again.
LEMMA WorkedStays ==
  ASSUME TypeOK, [Next]_vars, NEW o \in Obl
  PROVE  \A g \in Gen : Worked(o, g) => Worked(o, g)'
<1>1. ASSUME NEW p \in Pass, PassStart(p) \/ PassStep(p) \/ PassFault(p)
      PROVE  UNCHANGED <<worked, open>>
  BY <1>1 DEF PassStart, PassStep, PassFault, PassClaim, PassReserve, PassMark, PassEnqueue,
              PassConfirm, PassFail, PassCrash, PassEnqueueFails, PassConfirmFails, PassFailLost
<1>2. ASSUME NEW q \in Obl, NEW g \in Gen, JobStep(q, g) \/ JobFault(q, g) \/ JobRenews(q, g)
      PROVE  open' = open /\ worked[o] \subseteq worked'[o]
  <2>1. open' = open /\ (worked' = worked \/ JobRun(q, g))
    BY <1>2 DEF JobStep, JobFault, JobStart, JobReports, JobRun, JobFails, JobStalls,
                JobReportLost, JobRenews
  <2>2. ASSUME JobRun(q, g)
        PROVE  worked[o] \subseteq worked'[o]
    BY <2>2 DEF JobRun, TypeOK
  <2> QED
    BY <2>1, <2>2
<1>3. ASSUME NEW q \in Obl, DueAgain(q) \/ LeaseExpires(q) \/ PeriodEnds(q)
      PROVE  worked' = worked /\ (open'[o] => open[o])
  BY <1>3 DEF DueAgain, LeaseExpires, PeriodEnds, TypeOK
<1>4. CASE UNCHANGED vars
  BY <1>4 DEF vars, Worked
<1> QED
  BY <1>1, <1>2, <1>3, <1>4 DEF Next, Worked

LEMMA EvidenceNext ==
  ASSUME Evidence, [Next]_vars
  PROVE  Evidence'
<1> USE DEF Evidence
<1>t. TypeOK'
  BY TypeNext
<1> SUFFICES ASSUME NEW o \in Obl
             PROVE  /\ status'[o] = "succeeded" => \E g \in Gen : g = gen'[o] /\ Worked(o, g)'
                    /\ \A g \in Gen : job'[o][g] = "ran" => Worked(o, g)'
  BY <1>t DEF SucceededDidWork, Worked
<1>0. /\ status[o] = "succeeded" => Worked(o, gen[o])
      /\ \A g \in Gen : job[o][g] = "ran" => Worked(o, g)
      /\ \A g \in Gen : Worked(o, g) => Worked(o, g)'
      /\ gen[o] \in Gen
  BY WorkedStays DEF SucceededDidWork, Worked, TypeOK
<1>s. ASSUME NEW q \in Obl, NEW s, Release(q, s), s # "succeeded"
      PROVE  status'[o] = "succeeded" => status[o] = "succeeded" /\ gen'[o] = gen[o]
  BY <1>s, ReleaseRow
<1>a. ASSUME NEW q \in Obl, NEW g \in Gen, AddJob(q, g) \/ job' = job
      PROVE  \A h \in Gen : job'[o][h] = "ran" => job[o][h] = "ran"
  BY <1>a, AddJobOnly
<1>j. ASSUME NEW q \in Obl, NEW g \in Gen, NEW s \in JobState, s # "ran", JobGoto(q, g, s)
      PROVE  \A h \in Gen : job'[o][h] = "ran" => job[o][h] = "ran"
  BY <1>j, JobGotoOnly
<1>1. CASE UNCHANGED vars
  BY <1>0, <1>1 DEF vars, rowVars, passVars
<1>2. ASSUME NEW p \in Pass, PassStart(p) \/ PassCrash(p)
      PROVE  UNCHANGED <<status, gen, job, worked>>
  BY <1>2 DEF PassStart, PassCrash, rowVars
<1>3. ASSUME NEW p \in Pass, PassClaim(p)
      PROVE  status'[o] = "succeeded" => status[o] = "succeeded" /\ gen'[o] = gen[o]
  BY <1>3 DEF PassClaim
<1>4. ASSUME NEW p \in Pass, NEW q \in Obl, PassReserve(p, q)
      PROVE  status'[o] = "succeeded" => status[o] = "succeeded"
  BY <1>4 DEF PassReserve, TypeOK
<1>5. ASSUME NEW p \in Pass, NEW q \in Obl, PassConfirm(p, q) \/ PassConfirmFails(p, q)
      PROVE  (status'[o] = "succeeded" => status[o] = "succeeded") /\ gen' = gen
  BY <1>5 DEF PassConfirm, PassConfirmFails, Confirm, rowVars, TypeOK
<1>6. ASSUME NEW p \in Pass, NEW q \in Obl,
             PassMark(p, q) \/ PassFail(p, q) \/ PassFailLost(p, q)
      PROVE  status'[o] = "succeeded" => status[o] = "succeeded" /\ gen'[o] = gen[o]
  BY <1>6, <1>s DEF PassMark, PassFail, PassFailLost, Mark, FailOwned, rowVars
<1>7. ASSUME NEW p \in Pass, NEW q \in Obl, PassEnqueue(p, q) \/ PassEnqueueFails(p, q)
      PROVE  /\ UNCHANGED <<status, gen, worked>>
             /\ \A h \in Gen : job'[o][h] = "ran" => job[o][h] = "ran"
  <2>1. claimed[p][q] \in Gen
    BY DEF TypeOK
  <2> QED
    BY <1>7, <1>a, <2>1 DEF PassEnqueue, PassEnqueueFails, rowVars
<1>8. ASSUME NEW p \in Pass, PassStart(p) \/ PassStep(p) \/ PassFault(p)
      PROVE  /\ status'[o] = "succeeded" => status[o] = "succeeded" /\ gen'[o] = gen[o]
             /\ \A h \in Gen : job'[o][h] = "ran" => job[o][h] = "ran"
             /\ worked' = worked
  <2>1. CASE PassStart(p) \/ PassCrash(p)
    BY <1>2, <2>1
  <2>2. CASE PassClaim(p)
    BY <1>3, <2>2 DEF PassClaim
  <2>3. ASSUME NEW q \in Obl, PassReserve(p, q)
        PROVE  /\ status'[o] = "succeeded" => status[o] = "succeeded"
               /\ UNCHANGED <<gen, job, worked>>
    BY <1>4, <2>3 DEF PassReserve
  <2>4. ASSUME NEW q \in Obl, PassMark(p, q) \/ PassFail(p, q) \/ PassFailLost(p, q)
                              \/ PassConfirm(p, q) \/ PassConfirmFails(p, q)
        PROVE  /\ status'[o] = "succeeded" => status[o] = "succeeded" /\ gen'[o] = gen[o]
               /\ UNCHANGED <<job, worked>>
    BY <1>5, <1>6, <2>4 DEF PassMark, PassFail, PassFailLost, PassConfirm, PassConfirmFails
  <2> QED
    BY <1>7, <1>8, <2>1, <2>2, <2>3, <2>4 DEF PassStep, PassFault
<1>9. ASSUME NEW q \in Obl, NEW g \in Gen, JobRun(q, g)
      PROVE  /\ UNCHANGED <<status, gen>>
             /\ \A h \in Gen : job'[o][h] = "ran" => Worked(o, h)'
  <2>1. /\ job'[q][g] = "ran"
        /\ \A h \in Gen : h # g => job'[q][h] = job[q][h]
        /\ q # o => job'[o] = job[o]
    BY <1>9, JobGotoOnly DEF JobRun, JobState
  <2>2. CurrentDayOnly /\ ~open[q] => Worked(q, g)'
    BY <1>9 DEF JobRun, Worked
  <2>3. ~(CurrentDayOnly /\ ~open[q]) => Worked(q, g)'
    BY <1>9 DEF JobRun, Worked, TypeOK
  <2> QED
    BY <1>0, <1>9, <2>1, <2>2, <2>3 DEF JobRun, rowVars
<1>10. ASSUME NEW q \in Obl, NEW g \in Gen, JobReports(q, g)
       PROVE  /\ status'[o] = "succeeded" => \E h \in Gen : h = gen'[o] /\ Worked(o, h)'
              /\ \A h \in Gen : job'[o][h] = "ran" => job[o][h] = "ran"
  <2>1. JobGoto(q, g, "settled") /\ "settled" \in JobState
    BY <1>10 DEF JobReports, JobState
  <2>2. ASSUME Release(q, "succeeded"), job[q][g] = "ran", gen[q] = g
        PROVE  status'[o] = "succeeded" => gen'[o] = gen[o] /\ Worked(o, gen[o])
    BY <1>0, <2>2, ReleaseRow
  <2>3. ASSUME Release(q, "failed") \/ UNCHANGED rowVars
        PROVE  status'[o] = "succeeded" => gen'[o] = gen[o] /\ Worked(o, gen[o])
    BY <1>0, <1>s, <2>3 DEF rowVars
  <2>4. \A h \in Gen : job'[o][h] = "ran" => job[o][h] = "ran"
    BY <1>j, <2>1
  <2>5. status'[o] = "succeeded" => gen'[o] = gen[o] /\ Worked(o, gen[o])
    BY <1>10, <2>2, <2>3 DEF JobReports, Complete, FailGeneration
  <2> QED
    BY <1>0, <2>4, <2>5
<1>11. ASSUME NEW q \in Obl, NEW g \in Gen,
              JobStart(q, g) \/ JobFault(q, g) \/ JobRenews(q, g)
       PROVE  /\ UNCHANGED <<status, gen, worked>>
              /\ \A h \in Gen : job'[o][h] = "ran" => job[o][h] = "ran"
  <2>1. {"active", "broken", "waiting", "settled"} \subseteq JobState
    BY DEF JobState
  <2> QED
    BY <1>11, <1>j, <2>1 DEF JobStart, JobFault, JobFails, JobStalls, JobReportLost, JobRenews, rowVars
<1>12. ASSUME NEW q \in Obl, DueAgain(q) \/ LeaseExpires(q) \/ PeriodEnds(q)
       PROVE  UNCHANGED <<status, gen, worked, job>>
  BY <1>12 DEF DueAgain, LeaseExpires, PeriodEnds, rowVars
<1>13. ASSUME NEW q \in Obl, NEW g \in Gen, JobStep(q, g) \/ JobFault(q, g) \/ JobRenews(q, g)
       PROVE  /\ status'[o] = "succeeded" => \E h \in Gen : h = gen'[o] /\ Worked(o, h)'
              /\ \A h \in Gen : job'[o][h] = "ran" => Worked(o, h)'
  <2>1. CASE JobRun(q, g)
    BY <1>0, <1>9, <2>1
  <2>2. CASE JobReports(q, g)
    BY <1>0, <1>10, <2>2
  <2>3. CASE JobStart(q, g) \/ JobFault(q, g) \/ JobRenews(q, g)
    BY <1>0, <1>11, <2>3
  <2> QED
    BY <1>13, <2>1, <2>2, <2>3 DEF JobStep
<1> QED
  BY <1>0, <1>1, <1>8, <1>12, <1>13 DEF Next

\* A success is evidence: the current generation's job did its work, or its
\* policy is current-day-only and the date had ended, for any obligations and
\* overlapping passes.
THEOREM SucceededDidWorkHolds == Spec => []SucceededDidWork
<1>1. Init => Evidence
  BY TypeInit DEF Init, Evidence, SucceededDidWork
<1>2. Evidence /\ [Next]_vars => Evidence'
  BY EvidenceNext
<1>3. Evidence => SucceededDidWork
  BY DEF Evidence
<1> QED
  BY <1>1, <1>2, <1>3, PTL DEF Spec

(***************************************************************************)
(* What a step may never do.                                               *)
(***************************************************************************)

\* Rows change only through these updates, or as a new or claimed row.
LEMMA RowSteps ==
  ASSUME TypeOK, [Next]_vars, NEW o \in Obl, status'[o] # status[o]
  PROVE  \/ status[o] = "absent"
         \/ Claimable(o) /\ status'[o] = "enqueued"
         \/ status[o] \in {"pending", "failed"} /\ status'[o] = "irrecoverable"
         \/ status[o] = "enqueued" /\ status'[o] = "running"
         \/ \E p \in Pass : /\ leaseOwner[o] = p /\ task[p][o] = "fail"
                            /\ status[o] \in InFlight /\ status'[o] = "failed"
         \/ /\ job[o][gen[o]] = "ran" /\ status[o] \in InFlight /\ status'[o] = "succeeded"
         \/ /\ job[o][gen[o]] = "broken" /\ status[o] \in InFlight /\ status'[o] = "failed"
<1>r. ASSUME NEW q \in Obl, NEW s, Release(q, s)
      PROVE  q = o /\ status'[o] = s
  BY <1>r, ReleaseRow
<1>1. ASSUME NEW p \in Pass, PassClaim(p)
      PROVE  Claimable(o) /\ status'[o] = "enqueued"
  BY <1>1 DEF PassClaim
<1>2. ASSUME NEW p \in Pass, NEW q \in Obl, PassReserve(p, q)
      PROVE  status[o] = "absent"
  BY <1>2 DEF PassReserve, TypeOK
<1>3. ASSUME NEW p \in Pass, NEW q \in Obl, PassMark(p, q)
      PROVE  status[o] \in {"pending", "failed"} /\ status'[o] = "irrecoverable"
  BY <1>3, <1>r DEF PassMark, Mark, rowVars
<1>4. ASSUME NEW p \in Pass, NEW q \in Obl, PassConfirm(p, q) \/ PassConfirmFails(p, q)
      PROVE  status[o] = "enqueued" /\ status'[o] = "running"
  BY <1>4 DEF PassConfirm, PassConfirmFails, Confirm, Confirmable, rowVars, TypeOK
<1>5. ASSUME NEW p \in Pass, NEW q \in Obl, PassFail(p, q)
      PROVE  /\ leaseOwner[o] = p /\ task[p][o] = "fail"
             /\ status[o] \in InFlight /\ status'[o] = "failed"
  BY <1>5, <1>r DEF PassFail, FailOwned, rowVars
<1>6. ASSUME NEW q \in Obl, NEW g \in Gen, JobReports(q, g)
      PROVE  \/ /\ job[o][gen[o]] = "ran" /\ status[o] \in InFlight /\ status'[o] = "succeeded"
             \/ /\ job[o][gen[o]] = "broken" /\ status[o] \in InFlight /\ status'[o] = "failed"
  BY <1>6, <1>r DEF JobReports, Complete, FailGeneration, rowVars
<1>7. ASSUME NEW p \in Pass, PassStart(p) \/ PassStep(p) \/ PassFault(p)
      PROVE  \/ PassClaim(p)
             \/ \E q \in Obl : \/ PassReserve(p, q) \/ PassMark(p, q) \/ PassConfirm(p, q)
                               \/ PassConfirmFails(p, q) \/ PassFail(p, q)
  BY <1>7 DEF PassStart, PassStep, PassFault, PassEnqueue, PassEnqueueFails, PassFailLost,
              PassCrash, rowVars
<1>8. ASSUME NEW q \in Obl, NEW g \in Gen, JobStep(q, g) \/ JobFault(q, g) \/ JobRenews(q, g)
      PROVE  JobReports(q, g)
  BY <1>8 DEF JobStep, JobFault, JobRenews, JobStart, JobRun, JobFails, JobStalls,
              JobReportLost, rowVars
<1>9. ASSUME NEW q \in Obl
      PROVE  ~(DueAgain(q) \/ LeaseExpires(q) \/ PeriodEnds(q))
  BY DEF DueAgain, LeaseExpires, PeriodEnds, rowVars
<1>10. ~UNCHANGED vars
  BY DEF vars, rowVars
<1> QED
  BY <1>1, <1>2, <1>3, <1>4, <1>5, <1>6, <1>7, <1>8, <1>9, <1>10 DEF Next

\* A closed obligation is never opened or closed again.
THEOREM TerminalIsFinalHolds == Spec => TerminalIsFinal
<1>1. ASSUME TypeOK, [Next]_vars
      PROVE  [\A o \in Obl : status[o] \in Terminal => status'[o] = status[o]]_vars
  <2> SUFFICES ASSUME NEW o \in Obl, status[o] \in Terminal
               PROVE  status'[o] = status[o]
    OBVIOUS
  <2> QED
    BY <1>1, RowSteps DEF Terminal, InFlight, Claimable
<1> QED
  BY <1>1, TypeCorrect, PTL DEF Spec, TerminalIsFinal

\* An attempt fails only through its own job or its own claimant.
THEOREM FailuresAreOwnHolds == Spec => FailuresAreOwn
<1>1. ASSUME TypeOK, [Next]_vars
      PROVE  [\A o \in Obl : status[o] \in InFlight /\ status'[o] = "failed" =>
                \/ job[o][gen[o]] = "broken"
                \/ \E p \in Pass : leaseOwner[o] = p /\ task[p][o] = "fail"]_vars
  <2> SUFFICES ASSUME NEW o \in Obl, status[o] \in InFlight, status'[o] = "failed"
               PROVE  \/ job[o][gen[o]] = "broken"
                      \/ \E p \in Pass : leaseOwner[o] = p /\ task[p][o] = "fail"
    OBVIOUS
  <2> QED
    BY <1>1, RowSteps DEF InFlight
<1> QED
  BY <1>1, TypeCorrect, PTL DEF Spec, FailuresAreOwn

\* Nothing is tried again or failed without a cause of its own, for any number
\* of obligations and of overlapping passes.
THEOREM FailuresAccountedHolds == Spec => FailuresAccounted
BY RetriesHaveCausesHolds, FailuresAreOwnHolds, PTL DEF FailuresAccounted
=============================================================================
