---------------------------- MODULE ContentIntake ----------------------------
(* One item of a feed from its discovery to its text: the receipt and its   *)
(* revisions, the triggered runs that fetch an article, a podcast's or a    *)
(* video's transcript, the planner that retries them, the job outbox and    *)
(* the workers, and the credits of the transcript providers.                *)
(* A transaction of the code is one action; between two of them a worker    *)
(* holds what it has read.  Runs are numbered in the order of created_at.   *)
EXTENDS Integers, FiniteSets, Sequences

CONSTANTS
    IntakeCase,        \* items to consider: their kind, the versions their feed
                       \* may show, and the deaths and stalls of workers
    IntakeWorker,      \* 1..n: a job goes to the first idle one
    MaxIntakeRuns,     \* triggered runs that are ever created
    CreditLimit        \* units a provider may use in the rolling window

ASSUME IntakeAssumption ==
    IntakeCase \subseteq [kind : {"ARTICLE", "EPISODE", "VIDEO"}, versions : Nat, faults : Nat]

VARIABLES
    intake,       \* the case: [kind, versions, faults]
    shown,        \* the version of the item the last poll persisted
    revision,     \* payloads of the receipt's revisions; the last is current
    intakeRun,    \* the triggered runs
    intakeJob,    \* the work of each worker
    charged,      \* history: units the provider charged for each run
    disturbed,    \* history: runs reclaimed while, or after, a worker had them
    intakeFaults

intakeVars == <<intake, shown, revision, intakeRun, intakeJob, charged, disturbed, intakeFaults>>

-----------------------------------------------------------------------------
Discovered(v) == [version |-> v, life |-> "unknown", text |-> "PENDING"]
Current == revision[Len(revision)]
Runs == 1..Len(intakeRun)
HasLease(r) == intakeRun[r].outbox = "delivered"
IsActive(r) == intakeRun[r].status \in {"PENDING", "RUNNING"}

\* The job that turns a discovered item into text.
FirstJobKind ==
    CASE intake.kind = "ARTICLE" -> "ARTICLE_FETCH"
      [] intake.kind = "EPISODE" -> "PODCAST_TRANSCRIPT"
      [] intake.kind = "VIDEO" -> "YOUTUBE_METADATA"

\* A run as persistAcquisitionResult and the planner insert it, with its
\* outbox row: open, taken by the queue though the row is still open and the
\* run without a lease, or delivered, which gives the run a lease.  An open row
\* of a finished run has no effect and counts as delivered.
NewRun(job, stage, item, target) ==
    [job |-> job, stage |-> stage, item |-> item, target |-> target, status |-> "PENDING",
     outbox |-> "open", provider |-> 0, units |-> 0,
     budget |-> "none", reserved |-> 0, recoveries |-> 0]

IdleWorker == [step |-> "idle", run |-> 0, provider |-> 0, units |-> 0, answer |-> "none", cost |-> 0, next |-> 0]

IntakeInit ==
    /\ intake \in IntakeCase
    /\ shown = 0
    /\ revision = <<>>
    /\ intakeRun = <<>>
    /\ intakeJob = [w \in IntakeWorker |-> IdleWorker]
    /\ charged = <<>>
    /\ disturbed = {}
    /\ intakeFaults = 0

IntakeTypeOK ==
    /\ shown \in 0..intake.versions
    /\ \A i \in 1..Len(revision) : /\ revision[i].version \in 1..intake.versions
                                   /\ revision[i].text \in {"PENDING", "PROVIDED", "DEFERRED", "FAILED"}
    /\ \A r \in Runs : /\ intakeRun[r].target \in 1..Len(revision)
                       /\ intakeRun[r].budget \in {"none", "RESERVED", "COMMITTED", "RELEASED"}
                       /\ intakeRun[r].recoveries \in 0..2
    /\ DOMAIN charged = Runs
    /\ disturbed \subseteq Runs

-----------------------------------------------------------------------------
(* Discovery. *)

\* persistAcquisitionResult for a feed poll: a payload that differs from the
\* current one is a new revision, whatever had been added to the current one,
\* and only a revised receipt gets a run for its text.
PersistPoll(v) ==
    /\ v \in {shown, shown + 1} \ {0} /\ v <= intake.versions
    /\ Len(intakeRun) < MaxIntakeRuns
    /\ shown' = v
    /\ IF revision # <<>> /\ Current = Discovered(v)
       THEN UNCHANGED <<revision, intakeRun, charged>>
       ELSE /\ revision' = Append(revision, Discovered(v))
            /\ intakeRun' = Append(intakeRun, NewRun(FirstJobKind, "none", Discovered(v), Len(revision) + 1))
            /\ charged' = Append(charged, 0)
    /\ UNCHANGED <<intake, intakeJob, disturbed, intakeFaults>>

-----------------------------------------------------------------------------
(* The planner: one transaction under its advisory lock. *)

OfJob(job) == {r \in Runs : intakeRun[r].job = job}
OfStage(stage) == {r \in OfJob("YOUTUBE_TRANSCRIPT") : intakeRun[r].stage = stage}
Latest(S) == CHOOSE r \in S : \A q \in S : q <= r
LatestStatus(S) == IF S = {} THEN "none" ELSE intakeRun[Latest(S)].status
Failures(S) == Cardinality({r \in S : intakeRun[r].status = "FAILED"})
Retryable == {"FAILED", "BUDGET_DEFERRED"}

\* A job that may be tried, or tried again.
MayTry(job, again) ==
    LET status == LatestStatus(OfJob(job))
    IN  (status = "none" \/ status \in again) /\ Failures(OfJob(job)) < 3

\* The stage a video's next transcript run has; {} when there is none.
NextStage ==
    LET first == LatestStatus(OfStage("NATIVE_FIRST"))
        second == LatestStatus(OfStage("NATIVE_SECOND"))
        generated == OfStage("GENERATED")
        retry(stage) == IF Failures(OfStage(stage)) < 3 THEN {stage} ELSE {}
    IN  IF first = "none" THEN {"NATIVE_FIRST"}
        ELSE IF first \in Retryable THEN retry("NATIVE_FIRST")
        ELSE IF second = "none" THEN IF first = "CONTENT_DEFERRED" THEN {"NATIVE_SECOND"} ELSE {}
        ELSE IF second \in Retryable THEN retry("NATIVE_SECOND")
        ELSE IF LatestStatus(generated) \in Retryable
        THEN IF intakeRun[Latest(generated)].provider # 0 THEN {} ELSE retry("GENERATED")
        ELSE IF generated = {} /\ second = "CONTENT_DEFERRED" THEN {"GENERATED"} ELSE {}

\* planForCandidate: the runs that may be inserted next.  How long a retry
\* waits is left out, since the planner may come at any time after it.
PlanForCandidate ==
    LET plan(job, stage) == NewRun(job, stage, Current, Len(revision))
        first(again) == IF Current.text = "PENDING" /\ MayTry(FirstJobKind, again)
                        THEN {plan(FirstJobKind, "none")} ELSE {}
    IN  IF intake.kind # "VIDEO" THEN first(Retryable)
        ELSE IF Current.text \notin {"PENDING", "DEFERRED"} THEN {}
        ELSE IF Current.life # "finished" THEN first(Retryable \cup {"CONTENT_DEFERRED"})
        ELSE {plan("YOUTUBE_TRANSCRIPT", stage) : stage \in NextStage}

\* A run that failed although its provider job exists.
FailedProviderRuns == {r \in OfJob("YOUTUBE_TRANSCRIPT") : intakeRun[r].provider # 0 /\ intakeRun[r].status = "FAILED"}

\* The failed provider runs the planner deals with before it plans.
BlockingRuns == FailedProviderRuns

\* recoverFailedProviderPoll: the same run polls again, twice at most.
RecoverProviderPoll ==
    /\ revision # <<>> /\ \A r \in Runs : ~IsActive(r)
    /\ BlockingRuns # {}
    /\ LET r == Latest(BlockingRuns)
       IN  /\ intakeRun[r].recoveries < 2
           /\ intakeRun' = [intakeRun EXCEPT ![r].status = "PENDING", ![r].outbox = "open",
                                             ![r].recoveries = @ + 1]
    /\ UNCHANGED <<intake, shown, revision, intakeJob, charged, disturbed, intakeFaults>>

\* planTriggeredContentWork, for a receipt without an active run.
PlanTriggeredWork ==
    /\ revision # <<>> /\ \A r \in Runs : ~IsActive(r)
    /\ BlockingRuns = {}
    /\ Len(intakeRun) < MaxIntakeRuns
    /\ \E new \in PlanForCandidate : intakeRun' = Append(intakeRun, new)
    /\ charged' = Append(charged, 0)
    /\ UNCHANGED <<intake, shown, revision, intakeJob, disturbed, intakeFaults>>

\* recoverStaleTriggeredRuns: a lease has run out, its worker dead or not, and
\* its job possibly still in the queue.
ReclaimStaleRun(r) ==
    /\ IsActive(r) /\ HasLease(r)
    /\ intakeFaults < intake.faults \/ \A w \in IntakeWorker : intakeJob[w].run # r
    /\ intakeFaults' = IF \E w \in IntakeWorker : intakeJob[w].run = r THEN intakeFaults + 1 ELSE intakeFaults
    /\ intakeRun' = [intakeRun EXCEPT ![r].status = "PENDING", ![r].outbox = "taken"]
    /\ disturbed' = IF intakeRun[r].status = "RUNNING" THEN disturbed \cup {r} ELSE disturbed
    /\ UNCHANGED <<intake, shown, revision, intakeJob, charged>>

-----------------------------------------------------------------------------
(* The job outbox. *)

\* claimAcquisitionJobOutbox, enqueue and confirm; or the queue has taken the
\* job and its answer is lost, so that the row and the lease are released.
DispatchJob(r) ==
    /\ intakeRun[r].outbox # "delivered" /\ intakeRun[r].status = "PENDING"
    /\ \E row \in {"taken", "delivered"} : intakeRun' = [intakeRun EXCEPT ![r].outbox = row]
    /\ UNCHANGED <<intake, shown, revision, intakeJob, charged, disturbed, intakeFaults>>

-----------------------------------------------------------------------------
(* The workers. *)

\* beginFormalRun for a job the queue delivers, possibly again.
BeginRun(w, r) ==
    /\ intakeJob[w] = IdleWorker /\ \A v \in IntakeWorker : v < w => intakeJob[v] # IdleWorker
    /\ intakeRun[r].outbox # "open" /\ intakeRun[r].status = "PENDING"
    /\ intakeRun' = [intakeRun EXCEPT ![r].status = "RUNNING"]
    /\ intakeJob' = [intakeJob EXCEPT ![w] =
          [IdleWorker EXCEPT !.run = r, !.provider = intakeRun[r].provider, !.units = intakeRun[r].units,
                       !.step = IF intakeRun[r].job \in {"YOUTUBE_TRANSCRIPT", "PODCAST_TRANSCRIPT"}
                                   /\ intakeRun[r].provider = 0
                                THEN "reserve" ELSE "call"]]
    /\ UNCHANGED <<intake, shown, revision, charged, disturbed, intakeFaults>>

Expected(r) == IF intakeRun[r].stage = "GENERATED" THEN 2 ELSE 1
Held(r) == IF intakeRun[r].budget \in {"RESERVED", "COMMITTED"} THEN intakeRun[r].reserved ELSE 0
Used ==
    LET sum[n \in 0..Len(intakeRun)] == IF n = 0 THEN 0 ELSE sum[n - 1] + Held(n)
    IN  sum[Len(intakeRun)]

\* reserveSupadataCreditBudget and reserveHermesAudioBudget: once per run.
ReserveBudget(w) ==
    LET r == intakeJob[w].run
        had == intakeRun[r].budget \in {"RESERVED", "COMMITTED"}
        fits == Used + Expected(r) <= CreditLimit
    IN  /\ intakeJob[w].step = "reserve"
        /\ intakeRun' = IF had \/ ~fits THEN intakeRun
                        ELSE [intakeRun EXCEPT ![r].budget = "RESERVED", ![r].reserved = Expected(r)]
        /\ intakeJob' = [intakeJob EXCEPT ![w].step = IF had \/ fits THEN "call" ELSE "defer"]
        /\ UNCHANGED <<intake, shown, revision, charged, disturbed, intakeFaults>>

\* A reservation that was not used is given back.
Released(budget) == IF budget = "RESERVED" THEN "RELEASED" ELSE budget
Committed(budget) == IF budget = "RESERVED" THEN "COMMITTED" ELSE budget

\* deferFormalRunForBudget.
DeferRun(w) ==
    LET r == intakeJob[w].run
    IN  /\ intakeJob[w].step = "defer"
        /\ intakeRun' = IF ~IsActive(r) THEN intakeRun
                        ELSE [intakeRun EXCEPT ![r].status = "BUDGET_DEFERRED", ![r].outbox = "delivered",
                                               ![r].budget = Released(@)]
        /\ intakeJob' = [intakeJob EXCEPT ![w] = IdleWorker]
        /\ UNCHANGED <<intake, shown, revision, charged, disturbed, intakeFaults>>

\* The answers of the article's site, the publisher, Hermes, YouTube and
\* Supadata (external), each with the units it reports.  An error may come
\* with a charge.
Answers(r, provider) ==
    CASE intakeRun[r].job = "ARTICLE_FETCH" -> {"text", "error"} \X {0}
      [] intakeRun[r].job = "PODCAST_TRANSCRIPT" -> {"text", "error"} \X {Expected(r)}
      [] intakeRun[r].job = "YOUTUBE_METADATA" -> {"live", "ended", "tooLong", "error"} \X {0}
      [] OTHER -> IF provider = 0
                  THEN ({"text", "empty", "unavailable", "pending", "error"} \X {1}) \cup {<<"error", 0>>}
                  ELSE ({"text", "empty", "refused", "pending", "error"} \X {0})
                       \cup {<<"text", 1>>, <<"error", 1>>}

CallProvider(w) ==
    LET r == intakeJob[w].run
    IN  /\ intakeJob[w].step = "call"
        /\ \E a \in Answers(r, intakeJob[w].provider) :
              /\ intakeJob' = [intakeJob EXCEPT ![w].step = IF a[1] = "error" THEN "fail" ELSE "answered",
                                                ![w].answer = a[1], ![w].cost = a[2],
                                                ![w].next = IF a[1] = "pending" /\ intakeJob[w].provider = 0
                                                            THEN r ELSE intakeJob[w].provider]
              /\ charged' = [charged EXCEPT ![r] = @ + a[2]]
        /\ UNCHANGED <<intake, shown, revision, intakeRun, disturbed, intakeFaults>>

\* parkFormalRunForProviderPoll; it throws when the call took longer than the
\* poll interval.
ParkRun(w) ==
    LET r == intakeJob[w].run
        j == intakeJob[w]
        parked == [intakeRun EXCEPT ![r].status = "PENDING", ![r].provider = j.next, ![r].outbox = "open",
                                    ![r].units = @ + j.cost,
                                    ![r].budget = IF j.provider = 0 THEN Committed(@) ELSE @,
                                    ![r].reserved = IF j.provider = 0 THEN j.cost ELSE @]
    IN  /\ j.step = "answered" /\ j.answer = "pending"
        /\ \/ /\ intakeRun[r].status # "RUNNING"
              /\ intakeJob' = [intakeJob EXCEPT ![w] = IdleWorker]
              /\ UNCHANGED intakeRun
           \/ /\ intakeRun[r].status = "RUNNING" /\ intakeRun[r].provider = j.provider
              /\ j.provider = 0 => Held(r) # 0
              /\ intakeRun' = parked
              /\ intakeJob' = [intakeJob EXCEPT ![w] = IdleWorker]
           \/ /\ intakeRun[r].status = "RUNNING"
              /\ intakeJob' = [intakeJob EXCEPT ![w].step = "fail"]
              /\ UNCHANGED intakeRun
        /\ UNCHANGED <<intake, shown, revision, charged, disturbed, intakeFaults>>

\* What an answer makes of the item; "none" leaves the receipt alone.
Enriched(item, answer) ==
    CASE answer = "text" -> [item EXCEPT !.text = "PROVIDED"]
      [] answer = "live" -> [item EXCEPT !.life = "live"]
      [] answer = "ended" -> [item EXCEPT !.life = "finished"]
      [] answer = "tooLong" -> [item EXCEPT !.life = "finished", !.text = "DEFERRED"]
      [] answer = "empty" -> [item EXCEPT !.text = "DEFERRED"]
      [] answer = "refused" -> [item EXCEPT !.text = "FAILED"]
      [] answer = "unavailable" -> item

\* The target of a run is still the current revision of its receipt.
TargetIsCurrent(r) == intakeRun[r].target = Len(revision)

\* persistAcquisitionResult for a triggered run: refused unless the run is
\* running and its target current; a video that has just ended gets its first
\* transcript run, when it is old enough for one.
PersistResult(w) ==
    LET j == intakeJob[w]
        r == j.run
        item == Enriched(intakeRun[r].item, j.answer)
        writes == j.answer # "unavailable" /\ item # Current
        final == CASE j.answer = "text" -> IF writes THEN "COMPLETED" ELSE "CHECKED_NO_CHANGE"
                   [] OTHER -> "CONTENT_DEFERRED"
        total == j.units + j.cost
        terminal(status) ==
            [intakeRun EXCEPT ![r].status = status, ![r].outbox = "delivered", ![r].units = total,
                              ![r].budget = Committed(@),
                              ![r].reserved = IF intakeRun[r].budget \in {"RESERVED", "COMMITTED"} THEN total ELSE @]
    IN  /\ j.step = "answered" /\ j.answer # "pending"
        /\ IF intakeRun[r].status = "RUNNING" /\ TargetIsCurrent(r)
           THEN /\ revision' = IF writes THEN Append(revision, item) ELSE revision
                /\ \/ /\ intakeRun' = terminal(final)
                      /\ UNCHANGED charged
                   \/ /\ j.answer = "ended" /\ writes
                      /\ Len(intakeRun) < MaxIntakeRuns
                      /\ intakeRun' = Append(terminal("COMPLETED"),
                                             NewRun("YOUTUBE_TRANSCRIPT", "NATIVE_FIRST", item, Len(revision) + 1))
                      /\ charged' = Append(charged, 0)
                /\ intakeJob' = [intakeJob EXCEPT ![w] = IdleWorker]
           ELSE /\ intakeJob' = [intakeJob EXCEPT ![w].step = "fail"]
                /\ UNCHANGED <<revision, intakeRun, charged>>
        /\ UNCHANGED <<intake, shown, disturbed, intakeFaults>>

\* Mutant: a failure always gives the reservation back.
FailureReleases(r, j) == [intakeRun[r] EXCEPT !.status = "FAILED", !.outbox = "delivered", !.budget = Released(@)]

\* failFormalRun on the run row: units that were charged stay with the run,
\* and a provider job that exists is kept.  Hermes is charged when called.
FailedRow(r, j) ==
    LET row == [intakeRun[r] EXCEPT !.status = "FAILED", !.outbox = "delivered"]
    IN  CASE row.job = "PODCAST_TRANSCRIPT" /\ j.cost > 0 ->
                [row EXCEPT !.units = j.cost, !.budget = Committed(@)]
          [] row.job = "YOUTUBE_TRANSCRIPT" /\ j.cost > 0 ->
                [row EXCEPT !.units = @ + j.cost, !.provider = j.next, !.budget = Committed(@),
                            !.reserved = intakeRun[r].units + j.cost]
          [] OTHER -> [row EXCEPT !.budget = Released(@)]

\* The evidence of a charge must fit the run as it is now, and find its
\* reservation; otherwise failFormalRun throws and the run stays as it is.
EvidenceFits(r, j) ==
    intakeRun[r].job \in {"YOUTUBE_TRANSCRIPT", "PODCAST_TRANSCRIPT"} /\ j.cost > 0 =>
        /\ intakeRun[r].provider = j.provider
        /\ IF intakeRun[r].job = "PODCAST_TRANSCRIPT" THEN intakeRun[r].budget = "RESERVED" ELSE Held(r) # 0

FailRun(w) ==
    LET j == intakeJob[w]
        r == j.run
    IN  /\ j.step = "fail"
        /\ intakeRun' = IF IsActive(r) /\ EvidenceFits(r, j)
                        THEN [intakeRun EXCEPT ![r] = FailedRow(r, j)] ELSE intakeRun
        /\ intakeJob' = [intakeJob EXCEPT ![w] = IdleWorker]
        /\ UNCHANGED <<intake, shown, revision, charged, disturbed, intakeFaults>>

\* A worker dies, and with it what it had been told.
IntakeWorkerDies(w) ==
    /\ intakeFaults < intake.faults
    /\ intakeJob[w] # IdleWorker
    /\ intakeFaults' = intakeFaults + 1
    /\ disturbed' = disturbed \cup {intakeJob[w].run}
    /\ intakeJob' = [intakeJob EXCEPT ![w] = IdleWorker]
    /\ UNCHANGED <<intake, shown, revision, intakeRun, charged>>

IntakeWorkerStep(w) ==
    \/ \E r \in Runs : BeginRun(w, r)
    \/ ReserveBudget(w) \/ DeferRun(w) \/ CallProvider(w)
    \/ ParkRun(w) \/ PersistResult(w) \/ FailRun(w)
    \/ IntakeWorkerDies(w)

IntakeNext ==
    \/ \E v \in 1..intake.versions : PersistPoll(v)
    \/ RecoverProviderPoll \/ PlanTriggeredWork
    \/ \E r \in Runs : ReclaimStaleRun(r) \/ DispatchJob(r)
    \/ \E w \in IntakeWorker : IntakeWorkerStep(w)

IntakeSpec == IntakeInit /\ [][IntakeNext]_intakeVars
-----------------------------------------------------------------------------
(* Properties. *)

\* However late a transcript arrives, the receipt shows the version of the
\* item its feed showed last (the fence on the target revision).
NewestDiscoveryKept == revision # <<>> => Current.version = shown

\* A run that no other worker or death interfered with accounts for every unit
\* its provider charged, through parks, polls, recoveries and failures, and a
\* reservation never stays open behind a finished run.
UnitsAccounted ==
    \A r \in Runs \ disturbed :
        LET held == {w \in IntakeWorker : intakeJob[w].run = r}
            cost == IF held = {} THEN 0 ELSE intakeJob[CHOOSE w \in held : TRUE].cost
        IN  /\ charged[r] = intakeRun[r].units + cost
            /\ ~IsActive(r) => intakeRun[r].budget # "RESERVED"
            /\ intakeRun[r].budget = "COMMITTED" => intakeRun[r].reserved = intakeRun[r].units

\* A text is never ordered a second time while the provider works, or may
\* still be asked, on the first order for the same revision.
OneProviderJob ==
    \A r, q \in Runs :
        /\ r # q /\ intakeRun[r].target = intakeRun[q].target
        /\ intakeRun[r].provider # 0 /\ intakeRun[r].status \in {"PENDING", "RUNNING", "FAILED"}
        => ~IsActive(q) /\ q \notin FailedProviderRuns

\* The intake's invariant.
IntakeInv == IntakeTypeOK /\ NewestDiscoveryKept /\ UnitsAccounted /\ OneProviderJob
=============================================================================
