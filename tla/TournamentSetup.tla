--------------------------- MODULE TournamentSetup ---------------------------
(***************************************************************************)
(* The lifecycle of one tournament: setup jobs that build its standings,   *)
(* reconcile jobs that publish the official league's roster, the watchdog, *)
(* and the owner who pauses, resumes, retries and deletes.                 *)
(*                                                                         *)
(* Setup jobs, the owner and the watchdog hold the lifecycle scope of the  *)
(* tournament for a whole transaction.  A reconcile job does not: it       *)
(* claims, fetches without a transaction, and publishes, fenced only by    *)
(* setup_progress_updated_at, the marker it was queued with.  A setup job  *)
(* with a marker locks the row with its first statement and is one step; a *)
(* setup job without one reads first (SetupChecks) and writes later.       *)
(*                                                                         *)
(* setup_phase is left out: with a given setup_status no guard reads it.   *)
(* Markers are compared for equality only, so a marker nobody holds stands *)
(* for now().  The special recovery of official head-to-head rosters is    *)
(* not modelled.                                                           *)
(***************************************************************************)
EXTENDS Naturals, FiniteSets

CONSTANTS Membership,      \* rosters of the official league with two teams or more
          MaxAttempts,     \* TOURNAMENT_SETUP_MAX_ATTEMPTS, also of a BullMQ job
          MaxCommands,     \* bound on the owner's commands
          MaxSetupFaults,  \* bound on failures and dead workers
          MaxGameweeks     \* bound on deadlines that pass

ASSUME SetupAssumption ==
    /\ MaxAttempts \in Nat \ {0} /\ MaxCommands \in Nat \ {0}
    /\ MaxSetupFaults \in Nat /\ MaxGameweeks \in Nat

VARIABLES row,         \* competition.tournaments
          setupJobs,   \* live jobs of the tournament-setup queue
          rosterJobs,  \* live reconcile jobs of the tournament-sync queue
          resuming,    \* marker of a resume enqueued and not yet committed, or NoMark
          escaped,     \* a failure the failed listener has yet to record
          watch,       \* the row as findStuckProcessing returned it, or NoRow
          frozen,      \* the current event has not been checked
          commands, setupFaults, gameweeks

setupVars == <<row, setupJobs, rosterJobs, resuming, escaped, watch, frozen,
               commands, setupFaults, gameweeks>>
otherThanRow == <<resuming, escaped, watch, frozen, commands, gameweeks>>

NoMark == 0
Few == "few"     \* a roster of fewer than two teams
NoStandings == "none"
Mark == 1 .. (2 * MaxCommands + 4)
Status == {"pending", "processing", "ready", "failed"}
Row == [live: BOOLEAN, mode: {"snapshot", "official_sync"},
        state: {"active", "inactive", "finished"}, roster: Status \cup {"none"},
        setup: Status, error: BOOLEAN, mark: Mark, attempt: 0..MaxAttempts,
        retryAt: BOOLEAN, finishedAt: BOOLEAN, standings: Membership \cup {Few, NoStandings},
        members: Membership \cup {Few}, synced: BOOLEAN]
NoRow == [live |-> FALSE]
NoEscape == [made |-> 0, attempt |-> 0, terminal |-> FALSE]
SetupJob == [marker: Mark \cup {NoMark}, slot: {"base", "successor"}, manual: BOOLEAN,
             step: {"waiting", "active", "running", "settling"},
             made: 0..MaxAttempts - 1]
RosterJob == [kind: {"resume", "retry", "daily"}, marker: Mark, allowInactive: BOOLEAN,
              step: {"waiting", "claimed", "fetching", "published"}, made: 0..MaxAttempts - 1]

SetupTypeOK ==
    /\ row \in Row /\ setupJobs \subseteq SetupJob /\ rosterJobs \subseteq RosterJob
    /\ resuming \in Mark \cup {NoMark}
    /\ escaped \in [made: 0..MaxAttempts, attempt: 0..MaxAttempts, terminal: BOOLEAN]
    /\ watch = NoRow \/ watch \in Row
    /\ frozen \in BOOLEAN
    /\ commands \in 0..MaxCommands /\ setupFaults \in 0..MaxSetupFaults
    /\ gameweeks \in 0..MaxGameweeks

createTournamentWithEntries(mode, m) ==
    [live |-> TRUE, mode |-> mode, state |-> "active",
     roster |-> IF mode = "official_sync" THEN "ready" ELSE "none",
     setup |-> "pending", error |-> FALSE, mark |-> 1, attempt |-> 0, retryAt |-> FALSE,
     finishedAt |-> FALSE, standings |-> NoStandings, members |-> m, synced |-> TRUE]

\* createTournament: the row with its entries, and its setup job, or the
\* failure to enqueue it (markSetupResult).
SetupInit ==
    /\ \E mode \in {"snapshot", "official_sync"}, m \in Membership :
         LET created == createTournamentWithEntries(mode, m)
         IN  \/ /\ row = created
                /\ setupJobs = {[marker |-> NoMark, slot |-> "base", manual |-> FALSE,
                                 step |-> "waiting", made |-> 0]}
             \/ /\ row = [created EXCEPT !.setup = "failed", !.error = TRUE, !.mark = 2,
                                          !.synced = FALSE, !.finishedAt = TRUE]
                /\ setupJobs = {}
    /\ rosterJobs = {} /\ resuming = NoMark /\ escaped = NoEscape /\ watch = NoRow
    /\ frozen = FALSE
    /\ commands = 0 /\ setupFaults = 0 /\ gameweeks = 0

HeldMarks == {row.mark, resuming} \cup {j.marker : j \in setupJobs \cup rosterJobs}
             \cup (IF watch = NoRow THEN {} ELSE {watch.mark})
Now == CHOOSE m \in Mark : m \notin HeldMarks
-----------------------------------------------------------------------------
(* Updates of the row                                                      *)

markSetupProcessing(r, attempt, mark) ==
    [r EXCEPT !.setup = "processing", !.error = FALSE, !.mark = mark, !.synced = FALSE,
              !.attempt = attempt, !.retryAt = FALSE, !.finishedAt = FALSE,
              !.standings = NoStandings]

markSetupRetryQueued(r) ==
    [markSetupProcessing(r, 0, Now) EXCEPT !.standings = NoStandings]

markSetupResult(r, status, mark) ==
    [r EXCEPT !.setup = status, !.error = (status = "failed"), !.retryAt = FALSE,
              !.mark = mark, !.synced = FALSE, !.finishedAt = TRUE]

\* Mutant: a late failure is recorded whatever the row has become.
FailureAlwaysRecorded(r, attempt, terminal) ==
    [r EXCEPT !.setup = IF terminal THEN "failed" ELSE "processing", !.error = terminal,
              !.retryAt = ~terminal, !.attempt = attempt, !.mark = Now, !.synced = FALSE,
              !.finishedAt = terminal, !.standings = NoStandings]
\* The attempt failed: recorded only for the setup that is under way.
markSetupAttemptFailure(r, attempt, terminal) ==
    IF /\ r.setup \in {"pending", "processing"} /\ ~r.finishedAt
       /\ IF terminal THEN r.attempt <= attempt ELSE r.attempt < attempt
    THEN [r EXCEPT !.setup = IF terminal THEN "failed" ELSE "processing",
                   !.error = terminal, !.retryAt = ~terminal, !.attempt = attempt,
                   !.mark = Now, !.synced = FALSE, !.finishedAt = terminal,
                   !.standings = NoStandings]
    ELSE r

markReadyAndResume(r) ==
    IF r.roster # "processing" THEN r
    ELSE [r EXCEPT !.state = IF @ = "finished" \/ r.members = Few THEN @ ELSE "active",
                   !.roster = IF r.state = "finished" \/ r.members # Few THEN "ready" ELSE "failed"]

ResumePrepared(r) ==
    [r EXCEPT !.roster = "processing", !.setup = "pending", !.error = FALSE, !.attempt = 0,
              !.retryAt = FALSE, !.standings = NoStandings]

markResumeProcessingWithMarker(r, m) ==
    [ResumePrepared(r) EXCEPT !.mark = m, !.synced = FALSE]

ResumePending(r) ==
    /\ r.state = "inactive" /\ r.roster \in {"processing", "failed"}
    /\ r.setup \in {"pending", "processing", "failed"}

\* Whether the operation queued with a marker may go on.
markResumeProcessingIfPending(r, m) ==
    /\ \/ ResumePending(r)
       \/ r.state = "active" /\ r.roster = "ready" /\ r.setup = "processing"
    /\ r.mark = m

markSyncCanceled(r) ==
    IF r.state \in {"inactive", "finished"} /\ r.roster \in {"pending", "processing"}
    THEN [r EXCEPT !.roster = "ready",
                   !.setup = IF r.roster = "processing" /\ @ = "pending" THEN "ready" ELSE @]
    ELSE r

\* updateStateOwned(inactive): a pause settles the resume that is under way.
updateStateOwned(r, settleResume) ==
    LET failed == settleResume /\ r.setup = "failed" /\ r.error
        rosterSettles == \/ r.roster \in {"pending", "processing"}
                         \/ /\ settleResume /\ r.roster = "failed"
                            /\ \/ r.setup \in {"pending", "processing"}
                               \/ r.setup = "failed" /\ r.error
        setupSettles == r.roster \in {"processing", "failed"}
                        /\ (r.setup \in {"pending", "processing"} \/ failed)
        remarked == r.roster \in {"processing", "failed"}
                    /\ (r.setup \in {"pending", "processing"} \/ (r.setup = "failed" /\ r.error))
    IN  [r EXCEPT !.state = "inactive", !.roster = IF rosterSettles THEN "ready" ELSE @,
                  !.setup = IF setupSettles THEN "ready" ELSE @,
                  !.error = IF setupSettles THEN FALSE ELSE @,
                  !.mark = IF remarked THEN Now ELSE @,
                  !.synced = IF remarked THEN FALSE ELSE @]
-----------------------------------------------------------------------------
(* The setup queue                                                         *)

LifecycleFree == resuming = NoMark /\ \A j \in setupJobs : j.step # "running"
\* Reconcile jobs wait for the row only.
RowFree == \A j \in setupJobs : j.step = "running" => j.marker = NoMark

SetupJobsOf(m) == {j \in setupJobs : j.marker = m}
findTournamentSetupJob(m) == SetupJobsOf(m) # {}
findTournamentRosterReconcileJob(m) == \E j \in rosterJobs : j.kind = "resume" /\ j.marker = m

NewSetupJob(m, slot, manual) ==
    [marker |-> m, slot |-> slot, manual |-> manual, step |-> "waiting", made |-> 0]

\* decideExistingSetupSuccessorAction and decideExistingSetupJobAction, with
\* forceNew: the slot to add to, "reuse", or "reject".
enqueueDecision(m, ensureSuccessor) ==
    LET succ == {j \in SetupJobsOf(m) : j.slot = "successor"}
        base == {j \in SetupJobsOf(m) : j.slot = "base"}
        settling == \E j \in succ : j.step = "settling"
    IN  IF succ # {} /\ ~settling THEN "reuse"
        ELSE IF settling /\ ~ensureSuccessor THEN "reject"
        ELSE IF base = {} \/ \E j \in base : j.step = "waiting" THEN "base"
        ELSE IF ~ensureSuccessor THEN "reject"
        ELSE IF \E j \in base : j.step = "active" THEN "reuse"
        ELSE IF settling THEN "reject"
        ELSE "successor"

\* The base slot's waiting job is replaced.
enqueueTournamentSetup(decision, m, manual) ==
    setupJobs' = CASE decision = "base" -> (setupJobs \ {j \in SetupJobsOf(m) : j.slot = "base"})
                                           \cup {NewSetupJob(m, "base", manual)}
                   [] decision = "successor" -> setupJobs
                                           \cup {NewSetupJob(m, "successor", manual)}
                   [] OTHER -> setupJobs

\* A reconcile job in flight under the same id is reused.
enqueueTournamentRosterReconcile(kind, m, allowInactive) ==
    rosterJobs' =
       IF \E j \in rosterJobs : j.kind = kind /\ j.marker = m /\ j.allowInactive = allowInactive
       THEN rosterJobs
       ELSE rosterJobs \cup {[kind |-> kind, marker |-> m, allowInactive |-> allowInactive,
                              step |-> "waiting", made |-> 0]}
-----------------------------------------------------------------------------
(* The setup worker                                                        *)

SetupGoesTo(j, step) == setupJobs' = (setupJobs \ {j}) \cup {[j EXCEPT !.step = step]}
\* BullMQ: the next attempt, or the job has failed for good.
SetupRetried(j) ==
    setupJobs' = (setupJobs \ {j}) \cup
        (IF j.made + 1 < MaxAttempts THEN {[j EXCEPT !.step = "waiting", !.made = @ + 1]} ELSE {})

SetupDelivered(j) ==
    /\ j.step = "waiting" /\ SetupGoesTo(j, "active")
    /\ UNCHANGED <<row, rosterJobs, setupFaults, otherThanRow>>

\* While a resume owns the setup, a job without its marker does nothing,
\* except a manual retry once nothing of the resume is left.
UnmarkedMayRun(j, r) ==
    (r.mode = "official_sync" /\ ResumePending(r)) =>
        j.manual /\ ~findTournamentRosterReconcileJob(r.mark)
                 /\ ~(r.mark # NoMark /\ findTournamentSetupJob(r.mark))
Terminal(r) == r.setup = "ready" \/ (r.setup = "failed" /\ ~r.retryAt)
\* A resume's own job first claims the row with its marker.
Base(j) == IF j.marker # NoMark THEN ResumePrepared(row) ELSE row

\* The early returns of the processor, before the setup proper.
SetupMayRun(j, r) ==
    /\ r.live
    /\ IF j.marker # NoMark THEN markResumeProcessingIfPending(r, j.marker) ELSE UnmarkedMayRun(j, r)
    /\ j.marker = NoMark => ~Terminal(r)

SetupIgnored(j) ==
    /\ j.step = "active" /\ LifecycleFree
    /\ ~SetupMayRun(j, row)
    /\ SetupGoesTo(j, "settling")
    /\ UNCHANGED <<row, rosterJobs, setupFaults, otherThanRow>>

SetupChecks(j) ==
    /\ j.step = "active" /\ LifecycleFree
    /\ SetupMayRun(j, row)
    /\ SetupGoesTo(j, "running")
    /\ UNCHANGED <<row, rosterJobs, setupFaults, otherThanRow>>

NextAttempt(j) == IF Base(j).attempt > j.made THEN Base(j).attempt + 1 ELSE j.made + 1
AttemptOf(j) == IF NextAttempt(j) > MaxAttempts THEN MaxAttempts ELSE NextAttempt(j)

\* calculateTournamentHistoryFromStoredResults, over the roster of the moment.
StandingsBuilt(r) == [r EXCEPT !.standings = r.members]

finalizePublishedTournamentSetup(r) == markSetupResult(markReadyAndResume(r), "ready", Now)

\* Entries, structure and standings; a failure after the standings are
\* published leaves warnings only.
setupTournamentStructure(j) ==
    /\ j.step = "running" /\ NextAttempt(j) <= MaxAttempts /\ Base(j).setup # "ready"
    /\ row' = IF ~row.live THEN row
              ELSE finalizePublishedTournamentSetup(
                     StandingsBuilt(markSetupProcessing(Base(j), AttemptOf(j), row.mark)))
    /\ SetupGoesTo(j, "settling")
    /\ UNCHANGED <<rosterJobs, setupFaults, otherThanRow>>

\* A job that finds readiness published since its checks leaves it.
SetupFindsReady(j) ==
    /\ j.step = "running" /\ Base(j).setup = "ready" /\ NextAttempt(j) <= MaxAttempts
    /\ SetupGoesTo(j, "settling")
    /\ UNCHANGED <<row, rosterJobs, setupFaults, otherThanRow>>

\* The savepoint is rolled back and the failed attempt recorded.
AttemptFailed(j) ==
    markSetupAttemptFailure(Base(j), AttemptOf(j), AttemptOf(j) >= MaxAttempts)

\* An entry's details cannot be synchronised or the audit finds a gap that
\* blocks the standings; the job throws.
SetupFails(j) ==
    /\ j.step = "running"
    /\ IF NextAttempt(j) > MaxAttempts THEN UNCHANGED setupFaults
       ELSE setupFaults < MaxSetupFaults /\ setupFaults' = setupFaults + 1
    /\ row' = AttemptFailed(j)
    /\ SetupRetried(j)
    /\ UNCHANGED <<rosterJobs, otherThanRow>>

\* The transaction does not commit: the failed listener is left to record it.
SetupEscapes(j) ==
    /\ j.step = "running"
    /\ setupFaults < MaxSetupFaults /\ setupFaults' = setupFaults + 1
    /\ escaped' = [NoEscape EXCEPT !.made = j.made + 1]
    /\ SetupRetried(j)
    /\ UNCHANGED <<row, rosterJobs, resuming, watch, frozen, commands, gameweeks>>

EscapeElse == <<setupJobs, rosterJobs, setupFaults, resuming, watch, frozen, commands,
                gameweeks>>

\* The listener reads the status first, outside the lifecycle scope ...
EscapedFailureReads ==
    /\ escaped.made # 0 /\ escaped.attempt = 0
    /\ LET next == IF row.attempt + 1 > escaped.made THEN row.attempt + 1 ELSE escaped.made
       IN  escaped' = IF ~row.live \/ Terminal(row) THEN NoEscape
                      ELSE [escaped EXCEPT !.attempt = IF next > MaxAttempts THEN MaxAttempts ELSE next,
                                           !.terminal = next >= MaxAttempts]
    /\ UNCHANGED <<row, EscapeElse>>

\* ... and records the failure under it.
persistEscapedTournamentSetupFailure ==
    /\ escaped.attempt # 0 /\ LifecycleFree
    /\ escaped' = NoEscape
    /\ row' = IF row.live THEN markSetupAttemptFailure(row, escaped.attempt, escaped.terminal) ELSE row
    /\ UNCHANGED EscapeElse

SetupCompletes(j) ==
    /\ j.step = "settling" /\ setupJobs' = setupJobs \ {j}
    /\ UNCHANGED <<row, rosterJobs, setupFaults, otherThanRow>>
-----------------------------------------------------------------------------
(* reconcileTournamentRoster                                               *)

RosterGoesTo(j, step) == rosterJobs' = (rosterJobs \ {j}) \cup {[j EXCEPT !.step = step]}
RosterEnds(j) == rosterJobs' = rosterJobs \ {j}
RosterRetried(j) ==
    rosterJobs' = (rosterJobs \ {j}) \cup
        (IF j.kind # "daily" /\ j.made + 1 < MaxAttempts
         THEN {[j EXCEPT !.step = "waiting", !.made = @ + 1]} ELSE {})
ReconcileElse == <<setupJobs, resuming, escaped, watch, frozen, commands, gameweeks>>

\* The claim precedes every other write of the job.
Claimed(j, r) ==
    /\ r.live /\ r.mode = "official_sync" /\ r.state # "finished" /\ r.mark = j.marker
    /\ r.state = "inactive" => j.allowInactive
    /\ j.kind = "resume" => markResumeProcessingIfPending(r, j.marker)

RosterClaims(j) ==
    /\ j.step = "waiting" /\ RowFree /\ Claimed(j, row)
    /\ row' = IF j.kind = "resume" THEN ResumePrepared(row)
              ELSE [row EXCEPT !.roster = "processing"]
    /\ RosterGoesTo(j, "claimed")
    /\ UNCHANGED <<setupFaults, ReconcileElse>>

\* Stale, deleted, finished, or paused meanwhile: nothing to reconcile.
RosterIgnored(j) ==
    /\ j.step = "waiting" /\ RowFree /\ ~Claimed(j, row)
    /\ row' = IF ~row.live THEN row
              ELSE IF row.state = "finished" THEN markSyncCanceled(row)
              ELSE IF row.state = "inactive" /\ ~j.allowInactive /\ row.mark = j.marker
              THEN markSyncCanceled([row EXCEPT !.roster = "processing"])
              ELSE row
    /\ RosterEnds(j)
    /\ UNCHANGED <<setupFaults, ReconcileElse>>

\* The row when a job gives up: written whatever has become of the row.
RosterFailed(j) ==
    IF ~row.live THEN row
    ELSE LET failed == [row EXCEPT !.roster = "failed"]
         IN  IF j.kind = "resume" \/ j.step = "published"
             THEN markSetupResult(failed, "failed", j.marker) ELSE failed

assertPreGameweekBoundary(j) ==
    /\ j.step = "claimed"
    /\ IF ~frozen THEN RosterGoesTo(j, "fetching") /\ row' = row
       ELSE IF j.kind # "daily" THEN RowFree /\ RosterEnds(j) /\ row' = RosterFailed(j)
       ELSE RosterEnds(j) /\ row' = row
    /\ UNCHANGED <<setupFaults, ReconcileElse>>

RosterThrows(j) ==
    /\ j.step \in {"fetching", "published"} /\ RowFree
    /\ setupFaults < MaxSetupFaults /\ setupFaults' = setupFaults + 1
    /\ row' = RosterFailed(j)
    /\ RosterRetried(j)
    /\ UNCHANGED ReconcileElse

\* The boundary is checked again with the events locked.
BoundaryStillOpen == ~frozen

Republished(j, source) ==
    [row EXCEPT !.members = source, !.roster = IF source = Few THEN "failed"
                                               ELSE IF j.kind = "resume" THEN "processing" ELSE "ready",
                !.state = IF source = Few THEN "inactive" ELSE @,
                !.setup = IF source = Few THEN "failed" ELSE "pending", !.error = FALSE,
                !.attempt = 0, !.retryAt = FALSE, !.mark = j.marker, !.synced = TRUE,
                !.standings = NoStandings]
\* Mutant: the old standings stay readable.
StandingsKept(j, source) == [Republished(j, source) EXCEPT !.standings = row.standings]
\* The roster, and the standings with it, are replaced.
RosterReplaced(j, source) == Republished(j, source)

PublicationSkipped(j) ==
    \/ ~row.live
    \/ j.kind = "resume" /\ row.roster # "processing"
    \/ row.mode # "official_sync" \/ row.state = "finished"
    \/ row.state = "inactive" /\ ~j.allowInactive

publishAuthoritativeRoster(j, source) ==
    /\ j.step = "fetching" /\ RowFree /\ BoundaryStillOpen
    /\ LET changed == source # row.members
           skip == PublicationSkipped(j)
       IN  /\ row' = IF ~row.live \/ (j.kind = "resume" /\ row.roster # "processing") THEN row
                     ELSE IF skip
                     THEN [row EXCEPT !.roster = IF row.mode = "official_sync" THEN "ready" ELSE "none"]
                     ELSE IF ~changed
                     THEN [row EXCEPT !.roster = IF j.kind = "resume" THEN "processing" ELSE "ready",
                                      !.mark = IF j.kind = "resume" THEN @ ELSE j.marker,
                                      !.synced = TRUE]
                     ELSE RosterReplaced(j, source)
           /\ IF ~skip /\ (changed \/ j.kind = "resume" \/ row.standings = NoStandings)
                 /\ ~(changed /\ source = Few)
              THEN RosterGoesTo(j, "published") ELSE RosterEnds(j)
    /\ UNCHANGED <<setupFaults, ReconcileElse>>

\* The gameweek began meanwhile: the publication throws.
PublicationRefused(j) ==
    /\ j.step = "fetching" /\ RowFree /\ frozen
    /\ row' = RosterFailed(j)
    /\ RosterRetried(j)
    /\ UNCHANGED <<setupFaults, ReconcileElse>>

\* Setup is enqueued after the publication has committed.
RosterEnqueuesSetup(j) ==
    /\ j.step = "published"
    /\ LET m == IF j.kind = "resume" THEN j.marker ELSE NoMark
           decision == enqueueDecision(m, TRUE)
       IN  IF decision = "reject"
           THEN RowFree /\ row' = RosterFailed(j) /\ RosterRetried(j) /\ setupJobs' = setupJobs
           ELSE enqueueTournamentSetup(decision, m, FALSE) /\ RosterEnds(j) /\ row' = row
    /\ UNCHANGED <<setupFaults, otherThanRow>>

\* reconcileOfficialTournamentRosters, daily and after an event is checked.
reconcileOfficialTournamentRosters ==
    /\ ~frozen /\ row.live /\ row.mode = "official_sync" /\ row.state = "active"
    /\ rosterJobs = {} /\ commands < MaxCommands /\ commands' = commands + 1
    /\ enqueueTournamentRosterReconcile("daily", row.mark, FALSE)
    /\ UNCHANGED <<row, setupJobs, setupFaults, resuming, escaped, watch, frozen, gameweeks>>
-----------------------------------------------------------------------------
(* The watchdog                                                            *)

Unfinished(r) == r.live /\ r.setup \in {"pending", "processing"}

findStuckProcessing ==
    /\ watch = NoRow /\ Unfinished(row)
    /\ setupJobs = {} /\ rosterJobs = {}
    /\ watch' = row
    /\ UNCHANGED <<row, setupJobs, rosterJobs, setupFaults, resuming, escaped, frozen,
                   commands, gameweeks>>

\* Under the lifecycle scope: live jobs are looked for again; a resume is
\* replayed with the marker that was read, anything else only if the row is
\* still what was read.
recoverStuckTournamentSetups ==
    /\ watch # NoRow /\ LifecycleFree
    /\ watch' = NoRow
    /\ LET active == setupJobs # {} \/ rosterJobs # {}
           resume == watch.mode = "official_sync" /\ watch.state = "inactive"
                     /\ watch.roster \in {"processing", "failed"}
           unchanged == row.live /\ row.setup \in {"pending", "processing"} /\ row.mark = watch.mark
       IN  IF active \/ (~resume /\ ~unchanged) THEN UNCHANGED <<row, setupJobs, rosterJobs>>
           ELSE IF ~resume
           THEN /\ row' = [row EXCEPT !.setup = "pending", !.error = FALSE, !.retryAt = TRUE,
                                      !.mark = Now, !.synced = FALSE, !.finishedAt = FALSE]
                /\ enqueueTournamentSetup("base", NoMark, FALSE)
                /\ UNCHANGED rosterJobs
           ELSE IF watch.setup = "processing" \/ watch.synced
           THEN enqueueTournamentSetup("base", watch.mark, FALSE) /\ UNCHANGED <<row, rosterJobs>>
           ELSE /\ enqueueTournamentRosterReconcile("resume", watch.mark, TRUE)
                /\ UNCHANGED <<row, setupJobs>>
    /\ UNCHANGED <<setupFaults, resuming, escaped, frozen, commands, gameweeks>>
-----------------------------------------------------------------------------
(* The owner, under the lifecycle scope                                    *)

Command ==
    /\ row.live /\ LifecycleFree /\ commands < MaxCommands /\ commands' = commands + 1
    /\ UNCHANGED <<setupFaults, escaped, watch, frozen, gameweeks>>

pause ==
    /\ Command /\ row.state # "finished"
    /\ row' = updateStateOwned(row,
          /\ row.mode = "official_sync" /\ row.state = "inactive" /\ row.roster = "failed"
          /\ row.setup = "failed" /\ row.error
          /\ findTournamentRosterReconcileJob(row.mark) \/ findTournamentSetupJob(row.mark))
    /\ UNCHANGED <<setupJobs, rosterJobs, resuming>>

\* The reconcile job is enqueued inside the transaction that writes its marker.
resumeOfficial ==
    /\ Command /\ row.state = "inactive" /\ row.mode = "official_sync" /\ ~frozen
    /\ resuming' = Now
    /\ enqueueTournamentRosterReconcile("resume", Now, TRUE)
    /\ UNCHANGED <<row, setupJobs>>

resumeCommits ==
    /\ resuming # NoMark
    /\ row' = markResumeProcessingWithMarker(row, resuming)
    /\ resuming' = NoMark
    /\ UNCHANGED <<setupJobs, rosterJobs, setupFaults, escaped, watch, frozen, commands,
                   gameweeks>>

requestSnapshotTournamentResume ==
    /\ Command /\ row.state = "inactive" /\ row.mode = "snapshot"
    /\ LET decision == enqueueDecision(NoMark, FALSE)
       IN  /\ decision # "reject"
           /\ row' = IF decision = "reuse" THEN row ELSE markResumeProcessingWithMarker(row, Now)
           /\ enqueueTournamentSetup(decision, NoMark, FALSE)
    /\ UNCHANGED <<rosterJobs, resuming>>

setRosterMode ==
    /\ Command /\ row.state # "finished"
    /\ row.mode = "snapshot" \/ row.roster = "failed"
    /\ row.state = "active" => ~frozen
    /\ row' = [row EXCEPT !.mode = "official_sync", !.roster = "pending"]
    /\ IF row.state = "active" THEN enqueueTournamentRosterReconcile("retry", row.mark, FALSE)
       ELSE UNCHANGED rosterJobs
    /\ UNCHANGED <<setupJobs, resuming>>

assertNoPendingOfficialResume ==
    (/\ row.mode = "official_sync" /\ row.state = "inactive"
     /\ row.roster \in {"processing", "failed"}
     /\ row.setup \in {"pending", "processing"} \/ (row.setup = "failed" /\ row.error))
    => ~findTournamentRosterReconcileJob(row.mark) /\ ~findTournamentSetupJob(row.mark)

retrySetup ==
    /\ Command /\ assertNoPendingOfficialResume
    /\ LET decision == enqueueDecision(NoMark, FALSE)
       IN  /\ decision # "reject"
           /\ row' = IF decision = "reuse" THEN row ELSE markSetupRetryQueued(row)
           /\ enqueueTournamentSetup(decision, NoMark, TRUE)
    /\ UNCHANGED <<rosterJobs, resuming>>

retryRoster ==
    /\ Command /\ row.mode = "official_sync" /\ row.state # "finished" /\ ~frozen
    /\ assertNoPendingOfficialResume
    /\ enqueueTournamentRosterReconcile("retry", row.mark, TRUE)
    /\ UNCHANGED <<row, setupJobs, resuming>>

\* The waiting jobs are cancelled; the others find no row.
deleteTournament ==
    /\ Command
    /\ row' = [row EXCEPT !.live = FALSE, !.setup = "ready", !.roster = "none", !.attempt = 0,
                          !.standings = NoStandings, !.retryAt = FALSE, !.error = FALSE]
    /\ setupJobs' = {j \in setupJobs : j.step # "waiting"}
    /\ rosterJobs' = {j \in rosterJobs : j.step # "waiting"}
    /\ UNCHANGED <<resuming>>
-----------------------------------------------------------------------------
\* The deadline passes and, later, the event is checked.
GameweekTurns ==
    /\ frozen \/ gameweeks < MaxGameweeks
    /\ frozen' = ~frozen
    /\ gameweeks' = IF frozen THEN gameweeks ELSE gameweeks + 1
    /\ UNCHANGED <<row, setupJobs, rosterJobs, setupFaults, resuming, escaped, watch, commands>>

\* finishThroughEvent.
finishThroughEvent ==
    /\ row.live /\ row.state = "active" /\ row.setup = "ready" /\ row.standings # NoStandings
    /\ gameweeks > 0 /\ ~frozen /\ LifecycleFree /\ commands < MaxCommands
    /\ row' = [row EXCEPT !.state = "finished"]
    /\ commands' = commands + 1
    /\ UNCHANGED <<setupJobs, rosterJobs, setupFaults, resuming, escaped, watch, frozen, gameweeks>>

\* A worker dies; its transaction is rolled back and BullMQ hands the job out
\* again.
WorkerDies ==
    /\ setupFaults < MaxSetupFaults /\ setupFaults' = setupFaults + 1
    /\ \/ \E j \in setupJobs : j.step \in {"active", "running"}
                               /\ SetupGoesTo(j, "waiting") /\ UNCHANGED rosterJobs
       \/ \E j \in rosterJobs : j.step # "waiting" /\ j.kind # "daily"
                               /\ RosterGoesTo(j, "waiting") /\ UNCHANGED setupJobs
    /\ UNCHANGED <<row, otherThanRow>>

SetupStep(j) == SetupDelivered(j) \/ SetupIgnored(j) \/ SetupChecks(j) \/ setupTournamentStructure(j)
                \/ SetupFindsReady(j) \/ SetupFails(j) \/ SetupCompletes(j)
RosterStep(j) == RosterClaims(j) \/ RosterIgnored(j) \/ assertPreGameweekBoundary(j)
                 \/ (\E source \in Membership \cup {Few} : publishAuthoritativeRoster(j, source))
                 \/ PublicationRefused(j) \/ RosterEnqueuesSetup(j)
WatchdogStep == findStuckProcessing \/ recoverStuckTournamentSetups

SetupNext ==
    \/ \E j \in setupJobs : SetupStep(j) \/ SetupEscapes(j)
    \/ \E j \in rosterJobs : RosterStep(j) \/ RosterThrows(j)
    \/ EscapedFailureReads \/ persistEscapedTournamentSetupFailure
    \/ WatchdogStep
    \/ reconcileOfficialTournamentRosters
    \/ pause \/ resumeOfficial \/ resumeCommits \/ requestSnapshotTournamentResume
    \/ setRosterMode \/ retrySetup \/ retryRoster \/ deleteTournament
    \/ GameweekTurns \/ finishThroughEvent \/ WorkerDies

\* Live workers, the watchdog's interval, transactions that end.
SetupFairness ==
    /\ WF_setupVars(\E j \in setupJobs : SetupStep(j))
    /\ WF_setupVars(\E j \in rosterJobs : RosterStep(j))
    /\ WF_setupVars(WatchdogStep)
    /\ WF_setupVars(resumeCommits)

SetupSpec == SetupInit /\ [][SetupNext]_setupVars /\ SetupFairness
-----------------------------------------------------------------------------
\* Standings that can be read were built from the roster in force: the setup
\* reads the roster, and publishAuthoritativeRoster replaces it, in
\* transactions that interleave with every other writer of the row.
StandingsMatchRoster ==
    row.live /\ row.standings # NoStandings => row.standings = row.members

\* The roster does not change while a gameweek is under way, however long the
\* fetch between the first check of the boundary and the publication takes.
RosterFrozenInGameweek == [][frozen => row'.members = row.members]_setupVars

\* A delivery of an older setup or resume does not undo published readiness:
\* only the owner, or a roster that needs new standings, reopens the setup.
ReadyIsKept ==
    [][(row.live /\ row.setup = "ready" /\ row'.setup = "processing") =>
          commands' = commands + 1]_setupVars

\* Every setup comes to an end, ready or failed, although jobs are lost when a
\* worker enqueues too early or dies: the watchdog starts them again.
SetupSettles == []<>(row.live => row.setup \in {"ready", "failed"})

\* The setup's invariant: no standings of another roster are shown.
SetupInv == SetupTypeOK /\ StandingsMatchRoster

\* What no step of a job, an owner or a listener does: change the roster during
\* a gameweek, or reopen a finished setup nobody asked to reopen.
SetupSteps == RosterFrozenInGameweek /\ ReadyIsKept
=============================================================================
