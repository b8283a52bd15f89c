----------------------------- MODULE Understat -----------------------------
(* The Understat lanes (services/understat-team.service.ts,                *)
(* services/understat-player.service.ts, repositories/understat-sync.ts,   *)
(* workers/understat.worker.ts).  A run discovers the league, fans out one *)
(* job per resource whose details must be fetched, and a finalize job      *)
(* writes the staged evidence to the canonical tables in one transaction.  *)
(*                                                                         *)
(* Every job holds the provider scope for its whole body, which is one     *)
(* database transaction, so at most one transaction (tx) is open; the jobs *)
(* it adds to BullMQ survive its rollback.  The "failed" listener writes   *)
(* outside the scope, one autocommitted statement at a time.               *)
(* A resource is a team (both lanes) or a match (player lane only); its    *)
(* content is the version number of what the provider shows.  The item     *)
(* states "running" and "pending" count alike everywhere and are one       *)
(* state here; nothing in the code ever writes an item as "skipped".       *)
EXTENDS Integers, FiniteSets

CONSTANTS UnderstatRun, UTeam, UMatch, URequest,
          UnderstatAttempts, MaxUnderstatFaults, MaxSourceVersion

ASSUME UnderstatAssumption ==
    /\ UnderstatAttempts \in Nat \ {0}
    /\ MaxUnderstatFaults \in Nat /\ MaxSourceVersion \in Nat \ {0}
    /\ \A q \in URequest : /\ q.lane \in {"team", "player"}
                           /\ q.mode \in {"full", "reconcile", "incremental"}
                           /\ q.explicit \subseteq UTeam

VARIABLES source,     \* version of each resource at the provider
          request,    \* the command of each run, or NoRequest
          runStatus,  \* ops.sync_runs.status, "none" when there is no row
          item,       \* ops.sync_items.status of each resource of a run
          staged,     \* normalized_payload: league versions and detail versions
          facts,      \* canonical tables of each lane: league rows and details
          publishedRuns,  \* runs whose snapshot reached the canonical tables (history)
          ujob,       \* BullMQ state of each job of a run
          utries,     \* attempts made
          tx,         \* the open scoped transaction, or NoTx
          bookkeeping,\* terminal failures the listener still has to record
          uFaults

understatVars == <<source, request, runStatus, item, staged, facts, publishedRuns,
                   ujob, utries, tx, bookkeeping, uFaults>>

Resource == UTeam \cup UMatch
NoRequest == [lane |-> "none", mode |-> "none", explicit |-> {}]
NoTx == [job |-> <<>>]
ActiveRun == {"running", "ready_to_publish"}

\* A job is <<run, kind>> or <<run, "detail", resource>>.
Discover(r) == <<r, "discover">>
Finalize(r) == <<r, "finalize">>
Detail(r, x) == <<r, "detail", x>>
UJob == UNION {{Discover(r), Finalize(r)} \cup {Detail(r, x) : x \in Resource} :
               r \in UnderstatRun}

Unstaged == [league |-> [x \in Resource |-> 0], detail |-> [x \in Resource |-> 0]]

UnderstatInit ==
    /\ source = [x \in Resource |-> 1]
    /\ request = [r \in UnderstatRun |-> NoRequest]
    /\ runStatus = [r \in UnderstatRun |-> "none"]
    /\ item = [r \in UnderstatRun |-> [x \in Resource |-> "none"]]
    /\ staged = [r \in UnderstatRun |-> Unstaged]
    /\ facts = [l \in {"team", "player"} |-> Unstaged]
    /\ publishedRuns = {}
    /\ ujob = [j \in UJob |-> "none"] /\ utries = [j \in UJob |-> 0]
    /\ tx = NoTx /\ bookkeeping = {} /\ uFaults = 0

-----------------------------------------------------------------------------
\* What the discovery must fetch.

\* Resources of the lane, and those whose league evidence changed.
OfLane(l) == IF l = "team" THEN UTeam ELSE Resource
Changed(l) == {x \in OfLane(l) : source[x] # facts[l].league[x]}

\* selectTeamDetailIds
SelectTeams(l, q, existing) ==
    IF q.explicit # {} THEN q.explicit
    ELSE IF q.mode = "full" \/ (q.mode = "reconcile" /\ l = "team") THEN UTeam
    ELSE {x \in UTeam : x \notin existing \/ (q.mode = "incremental" /\ x \in Changed(l))}

\* selectPlayerMatchIds; corrected: the rows the 72 h window and the daily
\* rotation add.
SelectMatches(q, existing, corrected) ==
    IF q.mode = "full" THEN UMatch
    ELSE {x \in UMatch : x \notin existing \/ x \in Changed("player")} \cup corrected

\* Mutant: only what the mode selects.
SelectedOnly(l, selected, prior) == selected

\* mergeUnderstatTeamDetailIds
MergeIds(l, selected, prior) ==
    selected \cup (Changed(l) \cap UTeam) \cup prior

\* The resources the latest run of the lane failed to settle; earlier runs of
\* the lane are older than r because discovery runs one at a time.
PriorUnsettled(r) ==
    UNION {{x \in Resource : item[p][x] \notin {"none", "completed"}} :
           p \in {p \in UnderstatRun \ {r} : /\ runStatus[p] = "failed"
                                             /\ request[p].lane = request[r].lane}}

\* getTeamIdsWithSplits, getTeamIdsWithParticipants, getSyncedMatchIds
Existing(l) == {x \in Resource : facts[l].detail[x] # 0}

Targets(r, corrected) ==
    LET q == request[r]
        l == q.lane
        existing == Existing(l)
        prior == PriorUnsettled(r)
    IN  MergeIds(l, SelectTeams(l, q, existing), IF q.explicit # {} THEN {} ELSE prior \cap UTeam)
        \cup (IF l = "team" THEN {}
              ELSE SelectMatches(q, existing, corrected) \cup (prior \cap UMatch))

-----------------------------------------------------------------------------
\* Statements of the repository.

\* findActiveRun
FindActiveRun(r) ==
    {p \in UnderstatRun \ {r} : runStatus[p] \in ActiveRun /\ request[p].lane = request[r].lane}

\* The status refreshRun computes from the item rows it counts.
Refreshed(items) ==
    IF \E x \in Resource : items[x] = "pending" THEN "running"
    ELSE IF \E x \in Resource : items[x] = "failed" THEN "failed" ELSE "ready_to_publish"

Add(js, jobs) == [j \in UJob |-> IF j \in js /\ jobs[j] = "none" THEN "waiting" ELSE jobs[j]]

\* The attempt of j ended with an error: BullMQ retries it, or it has failed
\* for good and the listener is told.
AttemptFails(j, jobs) ==
    /\ utries' = [utries EXCEPT ![j] = @ + 1]
    /\ IF utries[j] + 1 < UnderstatAttempts
       THEN ujob' = [jobs EXCEPT ![j] = "waiting"] /\ UNCHANGED bookkeeping
       ELSE /\ ujob' = [jobs EXCEPT ![j] = "failed"]
            /\ bookkeeping' = bookkeeping \cup {[job |-> j, at |-> "find", status |-> "none"]}

-----------------------------------------------------------------------------
\* The commands and the provider.

\* enqueueUnderstatTeamSync, enqueueUnderstatPlayerSync
RequestSync(r) ==
    /\ request[r] = NoRequest
    /\ \E q \in URequest : request' = [request EXCEPT ![r] = q]
    /\ ujob' = Add({Discover(r)}, ujob)
    /\ UNCHANGED <<source, runStatus, item, staged, facts, publishedRuns, utries, tx,
                   bookkeeping, uFaults>>

SourceMoves(x) ==
    /\ source[x] < MaxSourceVersion
    /\ source' = [source EXCEPT ![x] = @ + 1]
    /\ UNCHANGED <<request, runStatus, item, staged, facts, publishedRuns, ujob, utries, tx,
                   bookkeeping, uFaults>>

-----------------------------------------------------------------------------
\* The scoped transactions.

MayStart(j) == tx = NoTx /\ ujob[j] = "waiting"

\* What a transaction has written when it reaches its last statement: its item
\* rows, payloads, the status refreshRun computed, and the jobs it adds.
Opens(j, rows, payload, status, adds) ==
    /\ tx' = [job |-> j, rows |-> rows, payload |-> payload, status |-> status, adds |-> adds]
    /\ ujob' = [ujob EXCEPT ![j] = "active"]
    /\ UNCHANGED <<source, request, runStatus, item, staged, facts, publishedRuns, utries,
                   bookkeeping, uFaults>>

\* The items of a run with the rows a transaction wrote; it leaves the others
\* to the listener.
NoRows == [x \in {} |-> "none"]
WithRows(items, rows) == [x \in Resource |-> IF x \in DOMAIN rows THEN rows[x] ELSE items[x]]

Finalizes(r, status) == IF status = "ready_to_publish" THEN {Finalize(r)} ELSE {}

\* discoverUnderstatTeams / discoverUnderstatPlayers, first execution: the
\* league is read, the targets become items, the league item is completed.
DiscoverLeague(r) ==
    /\ MayStart(Discover(r)) /\ runStatus[r] = "none" /\ FindActiveRun(r) = {}
    /\ \E corrected \in SUBSET UMatch :
         LET targets == Targets(r, corrected)
             items == [x \in Resource |-> IF x \in targets THEN "pending" ELSE "none"]
             status == Refreshed(items)
         IN  Opens(Discover(r), items, [league |-> [x \in Resource |-> source[x]],
                                        detail |-> Unstaged.detail],
                   status, {Detail(r, x) : x \in targets} \cup Finalizes(r, status))

\* The same job executed again after its transaction committed.
RediscoverLeague(r) ==
    /\ MayStart(Discover(r)) /\ runStatus[r] # "none" /\ FindActiveRun(r) = {}
    /\ LET status == Refreshed(item[r])
       IN  Opens(Discover(r), NoRows, staged[r], status,
                 {Detail(r, x) : x \in {y \in Resource : item[r][y] = "pending"}}
                 \cup Finalizes(r, status))

\* syncUnderstatTeamDetail, syncUnderstatPlayerTeamDetail,
\* syncUnderstatPlayerMatch: markItemRunning, fetch, stage, completeItem.
FetchDetail(r, x) ==
    /\ MayStart(Detail(r, x)) /\ runStatus[r] # "none"
    /\ LET mine == item[r][x] \in {"pending", "failed"} /\ runStatus[r] \in ActiveRun
           rows == IF mine THEN [y \in {x} |-> "completed"] ELSE NoRows
           payload == IF mine THEN [staged[r] EXCEPT !.detail[x] = source[x]] ELSE staged[r]
           status == Refreshed(WithRows(item[r], rows))
       IN  Opens(Detail(r, x), rows, payload, status,
                 IF mine \/ item[r][x] = "completed" THEN Finalizes(r, status) ELSE {})

ReadyToFinalize(r) ==
    /\ runStatus[r] = "ready_to_publish"
    /\ \A x \in Resource : item[r][x] \in {"none", "completed"}

\* finalizeUnderstatTeamRun, finalizeUnderstatPlayerRun
FinalizeRun(r) ==
    /\ MayStart(Finalize(r)) /\ ReadyToFinalize(r)
    /\ Opens(Finalize(r), NoRows, staged[r], "completed", {})

\* finalize of a run that is already completed or skipped returns.
FinalizeSettled(r) ==
    /\ MayStart(Finalize(r)) /\ runStatus[r] \in {"completed", "skipped"}
    /\ ujob' = [ujob EXCEPT ![Finalize(r)] = "completed"]
    /\ UNCHANGED <<source, request, runStatus, item, staged, facts, publishedRuns, utries, tx,
                   bookkeeping, uFaults>>

\* The bodies that throw before they have written anything that lasts: another
\* active run, an unknown run, a run that is not ready, an unstaged league.
RefusedJob(j) ==
    /\ MayStart(j)
    /\ LET r == j[1]
       IN  \/ j = Discover(r) /\ FindActiveRun(r) # {}
           \/ j = Finalize(r) /\ ~ ReadyToFinalize(r)
                              /\ runStatus[r] \notin {"completed", "skipped"}
           \/ j[2] = "detail" /\ runStatus[r] = "none"
    /\ AttemptFails(j, ujob)
    /\ UNCHANGED <<source, request, runStatus, item, staged, facts, publishedRuns, tx, uFaults>>

\* upsertTeams and upsertMatches: the league's row of x as the run read it.
LeagueRow(r, x) == staged[r].league[x]

\* replaceTeamParticipants and replaceMatchStats (replaceSplits in the team
\* lane): a detail of the run replaces the stored rows of its resource, the
\* others stay.
Replaced(r) ==
    [x \in Resource |-> IF item[r][x] = "completed" THEN staged[r].detail[x]
                        ELSE facts[request[r].lane].detail[x]]

\* persistUnderstatTeamDiscovery: match statistics and seasons of the teams.
TeamRows(r) ==
    [league |-> [x \in Resource |-> IF x \in UTeam THEN LeagueRow(r, x) ELSE 0],
     detail |-> Replaced(r)]

\* upsertPlayers and replacePlayerSeasons.
PlayerRows(r) ==
    [league |-> [x \in Resource |-> LeagueRow(r, x)], detail |-> Replaced(r)]

\* The canonical rows after the finalizer of r.
Written(r) == IF request[r].lane = "team" THEN TeamRows(r) ELSE PlayerRows(r)

\* The completeness the finalizer requires before it commits.
Complete(rows, l) == \A x \in OfLane(l) : rows.detail[x] # 0

\* Every update of the run row is limited to an active run.
StatusIfActive(r, status) ==
    IF runStatus[r] \in ActiveRun \cup {"none"} THEN status ELSE runStatus[r]

\* The last statement and the commit; acked: BullMQ learns that the job is
\* done.  A zombie's job (TxJobStalls) has another state by now and keeps it.
CommitTx(acked) ==
    /\ tx # NoTx
    /\ LET j == tx.job
           r == j[1]
           adds == IF tx.status = "ready_to_publish" /\ runStatus[r] \notin ActiveRun \cup {"none"}
                   THEN tx.adds \ {Finalize(r)} ELSE tx.adds
           jobs == Add(adds, ujob)
           rows == Written(r)
           whole == Complete(rows, request[r].lane)
           final == j = Finalize(r)
       IN  /\ item' = [item EXCEPT ![r] = WithRows(@, tx.rows)]
           /\ staged' = [staged EXCEPT ![r] = tx.payload]
           /\ runStatus' = [runStatus EXCEPT ![r] =
                 StatusIfActive(r, IF final /\ ~ whole THEN "skipped" ELSE tx.status)]
           /\ facts' = IF final /\ whole THEN [facts EXCEPT ![request[r].lane] = rows] ELSE facts
           /\ publishedRuns' = IF final /\ whole THEN publishedRuns \cup {r} ELSE publishedRuns
           /\ ujob' = IF jobs[j] = "active"
                      THEN [jobs EXCEPT ![j] = IF acked THEN "completed" ELSE "waiting"] ELSE jobs
           /\ tx' = NoTx
           /\ ~ acked => ujob[j] = "active" /\ uFaults < MaxUnderstatFaults
           /\ uFaults' = IF acked THEN uFaults ELSE uFaults + 1
           /\ UNCHANGED <<source, request, utries, bookkeeping>>

\* The provider, an enqueue or the commit fails; the jobs added before the
\* failure stay in the queue.
AbortTx ==
    /\ tx # NoTx /\ uFaults < MaxUnderstatFaults
    /\ \E adds \in SUBSET tx.adds :
         LET jobs == Add(adds, ujob)
         IN  IF ujob[tx.job] = "active" THEN AttemptFails(tx.job, jobs)
             ELSE ujob' = jobs /\ UNCHANGED <<utries, bookkeeping>>
    /\ tx' = NoTx /\ uFaults' = uFaults + 1
    /\ UNCHANGED <<source, request, runStatus, item, staged, facts, publishedRuns>>

\* The worker loses the BullMQ lock of the job while its transaction is open:
\* the job is retried or fails for good, and the transaction runs on.
TxJobStalls ==
    /\ tx # NoTx /\ ujob[tx.job] = "active" /\ uFaults < MaxUnderstatFaults
    /\ AttemptFails(tx.job, ujob)
    /\ uFaults' = uFaults + 1
    /\ UNCHANGED <<source, request, runStatus, item, staged, facts, publishedRuns, tx>>

-----------------------------------------------------------------------------
\* The listener: recordTeamFailure / recordPlayerFailure, statement by statement.

Rewrites(b, next) == bookkeeping' = (bookkeeping \ {b}) \cup next

ListenerFinds(b) ==
    /\ b.at = "find"
    /\ LET r == b.job[1]
           toItem == b.job[2] = "detail" /\ item[r][b.job[3]] # "completed"
           \* a league item exists only as completed, and only when the run does
           toRun == ~ toItem /\ (b.job[2] # "discover" \/ runStatus[r] # "none")
       IN  Rewrites(b, IF toItem THEN {[b EXCEPT !.at = "failItem"]}
                       ELSE IF toRun THEN {[b EXCEPT !.at = "failRun"]} ELSE {})
    /\ UNCHANGED <<runStatus, item>>

\* markRunFailed
MarkRunFailed(b) ==
    /\ b.at = "failRun"
    /\ runStatus' = [runStatus EXCEPT ![b.job[1]] =
                       IF @ \in ActiveRun THEN "failed" ELSE @]
    /\ Rewrites(b, {}) /\ UNCHANGED item

FailableItem(r, x) == item[r][x] \in {"pending", "failed"} /\ runStatus[r] \in ActiveRun

\* failItem: waits for a transaction that holds the item row.
FailItem(b) ==
    /\ b.at = "failItem" /\ ~ (tx # NoTx /\ tx.job = b.job)
    /\ LET r == b.job[1]
           x == b.job[3]
       IN  IF FailableItem(r, x)
           THEN /\ item' = [item EXCEPT ![r][x] = "failed"]
                /\ Rewrites(b, {[b EXCEPT !.at = "count"]})
           ELSE Rewrites(b, {}) /\ UNCHANGED item
    /\ UNCHANGED runStatus

\* refreshRun of the listener: the count, then the update.
ListenerCounts(b) ==
    /\ b.at = "count"
    /\ Rewrites(b, {[b EXCEPT !.at = "write", !.status = Refreshed(item[b.job[1]])]})
    /\ UNCHANGED <<runStatus, item>>

ListenerWrites(b) ==
    /\ b.at = "write"
    /\ runStatus' = [runStatus EXCEPT ![b.job[1]] = StatusIfActive(b.job[1], b.status)]
    /\ Rewrites(b, {}) /\ UNCHANGED item

\* The process dies before the listener is done.
BookkeepingLost(b) ==
    /\ uFaults < MaxUnderstatFaults
    /\ Rewrites(b, {}) /\ UNCHANGED <<runStatus, item>>

ListenerStep ==
    \E b \in bookkeeping :
      /\ \/ /\ \/ ListenerFinds(b) \/ MarkRunFailed(b) \/ FailItem(b)
               \/ ListenerCounts(b) \/ ListenerWrites(b)
            /\ UNCHANGED uFaults
         \/ BookkeepingLost(b) /\ uFaults' = uFaults + 1
      /\ UNCHANGED <<source, request, staged, facts, publishedRuns, ujob, utries, tx>>

UnderstatNext ==
    \/ \E r \in UnderstatRun :
         \/ RequestSync(r) \/ DiscoverLeague(r) \/ RediscoverLeague(r)
         \/ FinalizeRun(r) \/ FinalizeSettled(r)
         \/ \E x \in Resource : FetchDetail(r, x)
    \/ \E x \in Resource : SourceMoves(x)
    \/ \E j \in UJob : RefusedJob(j)
    \/ \E acked \in BOOLEAN : CommitTx(acked)
    \/ AbortTx \/ TxJobStalls \/ ListenerStep

UnderstatSpec == UnderstatInit /\ [][UnderstatNext]_understatVars

-----------------------------------------------------------------------------
Versions == [league : [Resource -> 0 .. MaxSourceVersion],
             detail : [Resource -> 0 .. MaxSourceVersion]]

UnderstatTypeOK ==
    /\ source \in [Resource -> 1 .. MaxSourceVersion]
    /\ request \in [UnderstatRun -> URequest \cup {NoRequest}]
    /\ runStatus \in [UnderstatRun -> ActiveRun \cup {"none", "failed", "completed", "skipped"}]
    /\ item \in [UnderstatRun -> [Resource -> {"none", "pending", "failed", "completed"}]]
    /\ staged \in [UnderstatRun -> Versions]
    /\ facts \in [{"team", "player"} -> Versions]
    /\ publishedRuns \subseteq UnderstatRun
    /\ ujob \in [UJob -> {"none", "waiting", "active", "completed", "failed"}]
    /\ utries \in [UJob -> 0 .. UnderstatAttempts]
    /\ tx = NoTx \/ tx.job \in UJob
    /\ \A b \in bookkeeping : b.job \in UJob
    /\ uFaults \in 0 .. MaxUnderstatFaults

(* The details a lane shows are never older than the league rows they are   *)
(* shown with: a finalizer that writes changed league rows also writes the  *)
(* details of every resource they changed, whatever the mode, the explicit  *)
(* ids, the failed runs before it and the provider's moves meanwhile        *)
(* (discoverUnderstatTeams targets, finalizeUnderstatTeamRun).              *)
DetailsFollowLeague ==
    \A l \in {"team", "player"} : \A x \in OfLane(l) :
        facts[l].detail[x] >= facts[l].league[x]

(* A lane has one active run: discovery refuses a second one, and no late   *)
(* job, listener or replay brings an ended run back (findActiveRun and the  *)
(* guards on every update of the run row).                                  *)
OneActiveUnderstatRun ==
    \A l \in {"team", "player"} :
        Cardinality({r \in UnderstatRun : runStatus[r] \in ActiveRun /\ request[r].lane = l}) <= 1

(* A published run has no item that failed or is unsettled, before and for  *)
(* ever after: the listener of a job that stalled for good never fails an   *)
(* item its own zombie transaction completed (failItem, finalize checks).   *)
PublishedWhole ==
    \A r \in publishedRuns : \A x \in Resource : item[r][x] \in {"none", "completed"}

(* The lanes' invariant: one active run each, published whole, with details *)
(* that are not older than the league they are shown with.                  *)
UnderstatInv == UnderstatTypeOK /\ DetailsFollowLeague /\ OneActiveUnderstatRun /\ PublishedWhole
=============================================================================
