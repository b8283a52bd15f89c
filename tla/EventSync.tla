------------------------------ MODULE EventSync ------------------------------
(***************************************************************************)
(* The facts of one gameweek per tournament entry: results and picks       *)
(* (tournament-event-results.service.ts), transfer histories and their     *)
(* enrichment (tournament-event-transfers.service.ts), league results      *)
(* (league-event-results.service.ts) and the entry's own history           *)
(* (entry-info.service.ts), with the repositories they write through.      *)
(*                                                                         *)
(* Every attempt takes a timestamp of the database clock before it reads   *)
(* FPL, and a row is replaced by a later timestamp only.  Jobs of any kind *)
(* overlap: a fetch and the transaction that stores it are two steps, and  *)
(* every transaction holds the entry's advisory lock, so it is one step.   *)
(* A transaction reported as timed out may still commit later.             *)
(* Scores and transfers are versions: FPL's move on until they are final   *)
(* (score) or until the deadline (transfers).                              *)
(***************************************************************************)
EXTENDS Naturals, FiniteSets, Sequences, Functions

CONSTANTS
    SyncEntry,      \* tournament entries
    SyncCase        \* the jobs that overlap in a behaviour and its bounds: changes of the
                    \* scores, transfers before the deadline, timestamps taken, and
                    \* fetches and transactions that fail

ASSUME SyncAssumption ==
    \A c \in SyncCase :
        /\ c.jobs \subseteq {"results", "again", "pre", "post", "info", "league"}
        /\ {c.scores, c.moves, c.stamps, c.faults} \subseteq Nat

VARIABLES
    sync,        \* the case of this behaviour
    fpl,         \* FPL: the scores, whether they are final, the transfers, the deadline
    stamp,       \* the database clock: timestamps taken
    checkedAt,   \* events.data_checked_at; 0: not finalized
    result,      \* entry_event_results with its picks, by entry
    transfer,    \* entry_event_transfers with the checkpoint of the entry
    leagueRow,   \* league_event_results
    sjob,        \* the jobs
    lateWrites,  \* transactions that were given up and have not ended
    fetchFaults

syncFacts == <<sync, fpl, checkedAt, result, transfer, leagueRow>>
syncVars ==
    <<sync, fpl, stamp, checkedAt, result, transfer, leagueRow, sjob, lateWrites, fetchFaults>>

SyncKind == {"results", "again", "pre", "post", "info", "league"}
NotFetched == <<>>
NewestOf(a, b) == IF a > b THEN a ELSE b

\* A job between two attempts: its timestamp, FPL's score at that time (a
\* history variable), its freshness bound and player points, the entries left
\* and planned for the transfer phase, those stored, and what was fetched.
Resting(pc) ==
    [pc |-> pc, t |-> 0, floor |-> 0, fresh |-> 0, live |-> 0, todo |-> {}, plan |-> {},
     wrote |-> {}, got |-> [e \in SyncEntry |-> NotFetched]]

SyncInit ==
    /\ sync \in SyncCase
    /\ fpl = [score |-> 0, final |-> FALSE, moves |-> 0, locked |-> FALSE]
    /\ stamp = 0
    /\ checkedAt = 0
    /\ result = [e \in SyncEntry |-> [at |-> 0, score |-> 0, live |-> 0, by |-> "nobody"]]
    /\ transfer = [e \in SyncEntry |-> [at |-> 0, moves |-> 0, through |-> 0, enriched |-> FALSE]]
    /\ leagueRow = [e \in SyncEntry |-> [at |-> 0, score |-> 0, by |-> "nobody"]]
    /\ sjob = [j \in SyncKind |-> IF j \in sync.jobs THEN Resting("ready") ELSE Resting("absent")]
    /\ lateWrites = {}
    /\ fetchFaults = 0

-----------------------------------------------------------------------------
(* FPL and the event row.                                                  *)

\* Transfers are made until the deadline, scores move until they are final.
FplMoves ==
    /\ \/ ~fpl.locked /\ fpl.moves < sync.moves /\ fpl' = [fpl EXCEPT !.moves = @ + 1]
       \/ ~fpl.locked /\ fpl' = [fpl EXCEPT !.locked = TRUE]
       \/ fpl.locked /\ ~fpl.final /\ fpl.score < sync.scores /\ fpl' = [fpl EXCEPT !.score = @ + 1]
       \/ fpl.locked /\ ~fpl.final /\ fpl' = [fpl EXCEPT !.final = TRUE]
    /\ UNCHANGED <<sync, stamp, checkedAt, result, transfer, leagueRow, sjob, lateWrites,
                   fetchFaults>>

\* readDatabaseOrderingTimestamp
TakeTimestamp == stamp < sync.stamps /\ stamp' = stamp + 1

\* The core sync stores finished, data_checked and data_checked_at.
EventFinalized ==
    /\ fpl.final /\ checkedAt = 0
    /\ TakeTimestamp
    /\ checkedAt' = stamp + 1
    /\ UNCHANGED <<sync, fpl, result, transfer, leagueRow, sjob, lateWrites, fetchFaults>>

-----------------------------------------------------------------------------
(* Starting a job: its timestamp, its freshness bound and its plan.        *)

\* resolveEventPointsPayload: a finalized event is scored from final rows or
\* FPL; before that the live cache may hold any earlier version.
PointsPayload == IF checkedAt # 0 THEN {fpl.score} ELSE 0..fpl.score

StaleResult(e, fresh) == result[e].at < fresh
StaleLeagueRow(e, fresh) == leagueRow[e].at < fresh
NeedsTransfers(e) == transfer[e].through < 1

\* Every attempt but the reads of entry-info and the enrichment takes its
\* timestamp first.
BeginAttempt(j) ==
    /\ sjob[j].pc = "ready" /\ j \in {"results", "again", "league", "pre"}
    /\ j = "pre" \/ fpl.locked
    /\ TakeTimestamp
    /\ sjob' = [sjob EXCEPT ![j].pc = IF j = "pre" THEN "transfers" ELSE "begun",
                            ![j].t = stamp + 1, ![j].floor = fpl.score,
                            ![j].todo = IF j = "pre" THEN SyncEntry ELSE {}]
    /\ UNCHANGED <<syncFacts, lateWrites, fetchFaults>>

\* The bound of the attempt: the caller's, an obligation's or the attempt's own,
\* and the finalization of the event.
FreshAfter(j, bound) == NewestOf(bound, checkedAt)

\* syncTournamentEventResults reads the event and plans both phases.
PlanResults(j) ==
    /\ sjob[j].pc = "begun" /\ j # "league"
    /\ \E bound \in {1, sjob[j].t}, live \in PointsPayload :
         LET fresh == FreshAfter(j, bound) IN
         sjob' = [sjob EXCEPT ![j].pc = "entries", ![j].fresh = fresh, ![j].live = live,
                              ![j].todo = {e \in SyncEntry : StaleResult(e, fresh)},
                              ![j].plan = {e \in SyncEntry : NeedsTransfers(e)}]
    /\ UNCHANGED <<syncFacts, stamp, lateWrites, fetchFaults>>

\* syncEntryTransferHistories follows the result phase, with a timestamp of
\* its own.
BeginTransfers(j) ==
    /\ sjob[j].pc = "entries" /\ sjob[j].todo = {}
    /\ IF sjob[j].plan = {} THEN UNCHANGED stamp ELSE TakeTimestamp
    /\ sjob' = [sjob EXCEPT ![j].pc = "transfers", ![j].wrote = {}, ![j].t = stamp',
                            ![j].floor = 0, ![j].live = 0,
                            ![j].todo = sjob[j].plan, ![j].plan = {}]
    /\ UNCHANGED <<syncFacts, lateWrites, fetchFaults>>

\* syncLeagueEventResultsByTournament: fresh rows are reused, the others are
\* built from the stored result or, where that is stale, from FPL.
PlanLeague ==
    /\ sjob["league"].pc = "begun"
    /\ \E bound \in {1, sjob["league"].t} :
         LET fresh == FreshAfter("league", bound) IN
         sjob' = [sjob EXCEPT !["league"].pc = "league", !["league"].fresh = fresh,
                              !["league"].todo = {e \in SyncEntry : StaleLeagueRow(e, fresh)}]
    /\ UNCHANGED <<syncFacts, stamp, lateWrites, fetchFaults>>

\* syncEntryInfo reads the entry's history and, beside it, which gameweek is
\* finalized.
BeginInfo ==
    /\ sjob["info"].pc = "ready" /\ fpl.locked
    /\ sjob' = [sjob EXCEPT !["info"] = [Resting("history") EXCEPT
                  !.got = [e \in SyncEntry |-> <<fpl.score>>]]]
    /\ UNCHANGED <<syncFacts, stamp, lateWrites, fetchFaults>>

ReadFinalized ==
    /\ sjob["info"].pc = "history"
    /\ sjob' = [sjob EXCEPT !["info"].pc = "info", !["info"].fresh = checkedAt,
                            !["info"].todo = SyncEntry]
    /\ UNCHANGED <<syncFacts, stamp, lateWrites, fetchFaults>>

\* syncTournamentEventTransfersPost reads the rows it will enrich; it needs
\* every checkpoint and final points.
BeginPost ==
    /\ sjob["post"].pc = "ready" /\ checkedAt # 0
    /\ \A e \in SyncEntry : ~NeedsTransfers(e)
    /\ sjob' = [sjob EXCEPT !["post"] = [Resting("post") EXCEPT
                  !.got = [e \in SyncEntry |-> <<transfer[e].at>>]]]
    /\ UNCHANGED <<syncFacts, stamp, lateWrites, fetchFaults>>

-----------------------------------------------------------------------------
(* The entries of a job.                                                   *)

\* Picks, transfers, or the score of a league row are fetched.
SyncFetch(j, e) ==
    /\ sjob[j].pc \in {"entries", "transfers", "league"} /\ e \in sjob[j].todo
    /\ sjob[j].got[e] = NotFetched
    /\ sjob' = [sjob EXCEPT ![j].got[e] =
         CASE sjob[j].pc = "entries" -> <<fpl.score>>
           [] sjob[j].pc = "transfers" -> <<fpl.moves>>
           [] OTHER -> IF StaleResult(e, sjob[j].fresh) THEN <<fpl.score, "sync">>
                       ELSE <<result[e].score, result[e].by>>]
    /\ UNCHANGED <<syncFacts, stamp, lateWrites, fetchFaults>>

EntryDone(j, e) ==
    sjob' = [sjob EXCEPT ![j].todo = @ \ {e}, ![j].wrote = @ \cup {e}, ![j].got[e] = NotFetched]

\* upsertFromPicksAndLive and upsertFromPicks replace an older row only.
\* (Mutant: the row is replaced whatever its timestamp.)
AnyRow(at, t) == TRUE
Supersedes(at, t) == at < t

StoreResult(e, t, score, live) ==
    result' = IF Supersedes(result[e].at, t)
              THEN [result EXCEPT ![e] = [at |-> t, score |-> score, live |-> live, by |-> "sync"]]
              ELSE result

\* The gameweek a stored history is complete through: the poll before the
\* deadline vouches for the gameweek before only.
CheckpointThrough(j) == IF j = "pre" THEN 0 ELSE 1

\* replaceForEvent: the whole history is replaced, points of transfers that
\* stay are kept, the checkpoint only grows.
StoreTransfers(e, t, moves, through) ==
    transfer' = IF transfer[e].at >= t THEN transfer
                ELSE [transfer EXCEPT ![e].at = t, ![e].moves = moves,
                        ![e].through = NewestOf(@, through),
                        ![e].enriched = @ /\ transfer[e].moves = moves]

PersistEntry(j, e) ==
    /\ sjob[j].got[e] # NotFetched
    /\ \/ sjob[j].pc = "entries"
          /\ StoreResult(e, sjob[j].t, Head(sjob[j].got[e]), sjob[j].live) /\ UNCHANGED transfer
       \/ sjob[j].pc = "transfers"
          /\ StoreTransfers(e, sjob[j].t, Head(sjob[j].got[e]), CheckpointThrough(j))
          /\ UNCHANGED result
    /\ EntryDone(j, e)
    /\ UNCHANGED <<sync, fpl, stamp, checkedAt, leagueRow, lateWrites, fetchFaults>>

\* A failed fetch or transaction is logged; the audit decides.  A transaction
\* that was given up after its time (withTimeout) goes on.
GivenUpWrite(j, e) ==
    {[phase |-> sjob[j].pc, job |-> j, entry |-> e, t |-> sjob[j].t, got |-> v,
      live |-> sjob[j].live] :
        v \in IF sjob[j].pc \in {"entries", "transfers"} /\ j # "pre"
              THEN Range(sjob[j].got[e]) ELSE {}}

SyncEntryFails(j, e) ==
    /\ sjob[j].pc # "post" /\ e \in sjob[j].todo /\ fetchFaults < sync.faults
    /\ fetchFaults' = fetchFaults + 1
    /\ sjob' = [sjob EXCEPT ![j].todo = @ \ {e}, ![j].got[e] = NotFetched]
    /\ lateWrites' \in {lateWrites, lateWrites \cup GivenUpWrite(j, e)}
    /\ UNCHANGED <<syncFacts, stamp>>

LateCommit(w) ==
    /\ lateWrites' = lateWrites \ {w}
    /\ \/ w.phase = "entries" /\ StoreResult(w.entry, w.t, w.got, w.live) /\ UNCHANGED transfer
       \/ w.phase = "transfers" /\ UNCHANGED result
          /\ StoreTransfers(w.entry, w.t, w.got, CheckpointThrough(w.job))
    /\ UNCHANGED <<sync, fpl, stamp, checkedAt, leagueRow, sjob, fetchFaults>>

\* upsertBatch of league results, guarded in the same way; entries without
\* data are skipped.
PersistLeague ==
    LET j == sjob["league"] IN
    /\ j.pc = "league" /\ j.todo # {} /\ \A e \in j.todo : j.got[e] # NotFetched
    /\ leagueRow' = [e \in SyncEntry |->
                       IF e \in j.todo /\ Supersedes(leagueRow[e].at, j.t)
                       THEN [at |-> j.t, score |-> j.got[e][1], by |-> j.got[e][2]]
                       ELSE leagueRow[e]]
    /\ sjob' = [sjob EXCEPT !["league"].todo = {}, !["league"].got = Resting("ready").got]
    /\ UNCHANGED <<sync, fpl, stamp, checkedAt, result, transfer, lateWrites, fetchFaults>>

\* upsertCoreFromHistory: a finalized gameweek's points are overwritten and
\* nothing orders them with the row's timestamp.
PersistInfo(e) ==
    /\ sjob["info"].pc = "info" /\ e \in sjob["info"].todo
    /\ result' = IF sjob["info"].fresh = 0 THEN result
                 ELSE [result EXCEPT ![e].score = Head(sjob["info"].got[e]), ![e].by = "history"]
    /\ EntryDone("info", e)
    /\ UNCHANGED <<sync, fpl, stamp, checkedAt, transfer, leagueRow, lateWrites, fetchFaults>>

\* updateBatchById: a row that was replaced since it was read has another id
\* and the whole batch is rolled back.  An entry without picks fails the job
\* and leaves the others enriched.
PersistPost ==
    LET same == \A e \in SyncEntry : transfer[e].at = Head(sjob["post"].got[e])
        ready == {e \in SyncEntry : result[e].at > 0}
    IN
    /\ sjob["post"].pc = "post"
    /\ transfer' = IF same THEN [e \in SyncEntry |->
                                   [transfer[e] EXCEPT !.enriched = @ \/ e \in ready]]
                   ELSE transfer
    /\ sjob' = [sjob EXCEPT !["post"] =
                  Resting(IF same /\ ready = SyncEntry THEN "ok" ELSE "ready")]
    /\ UNCHANGED <<sync, fpl, stamp, checkedAt, result, leagueRow, lateWrites, fetchFaults>>

-----------------------------------------------------------------------------
(* The end of a job: the stored rows are the checkpoint, not the answers.  *)

\* What the audit finds missing.
MissingUnits(j) ==
    CASE j \in {"results", "again"} ->
           {e \in SyncEntry : StaleResult(e, sjob[j].fresh) \/ NeedsTransfers(e)}
      [] j = "league" -> {e \in SyncEntry : StaleLeagueRow(e, sjob[j].fresh)}
      [] OTHER -> SyncEntry \ sjob[j].wrote

\* isFreshnessBoundaryNewer: the gameweek was finalized during the sync.
FinalizedMeanwhile(j) == j \in {"results", "again"} /\ checkedAt > sjob[j].fresh

\* Incomplete work is thrown and retried by the queue.
SyncAudit(j) ==
    /\ sjob[j].pc \in {"transfers", "info", "league"} /\ sjob[j].todo = {}
    /\ sjob' = [sjob EXCEPT ![j] =
         IF MissingUnits(j) = {} /\ ~FinalizedMeanwhile(j)
         THEN [Resting("ok") EXCEPT !.fresh = sjob[j].fresh] ELSE Resting("ready")]
    /\ UNCHANGED <<syncFacts, stamp, lateWrites, fetchFaults>>

SyncNext ==
    \/ FplMoves \/ EventFinalized
    \/ PlanLeague \/ BeginInfo \/ ReadFinalized \/ BeginPost
    \/ \E j \in SyncKind :
         \/ BeginAttempt(j) \/ PlanResults(j) \/ BeginTransfers(j) \/ SyncAudit(j)
         \/ \E e \in SyncEntry : SyncFetch(j, e) \/ SyncEntryFails(j, e) \/ PersistEntry(j, e)
    \/ PersistLeague \/ PersistPost
    \/ \E e \in SyncEntry : PersistInfo(e)
    \/ \E w \in lateWrites : LateCommit(w)

SyncSpec == SyncInit /\ [][SyncNext]_syncVars

-----------------------------------------------------------------------------
(* Properties.                                                             *)

SyncTypeOK ==
    /\ fpl \in [score : 0..sync.scores, final : BOOLEAN, moves : 0..sync.moves, locked : BOOLEAN]
    /\ stamp <= sync.stamps /\ checkedAt \in 0..stamp /\ fetchFaults \in 0..sync.faults
    /\ \A e \in SyncEntry :
         /\ result[e].at \in 0..stamp /\ transfer[e].at \in 0..stamp /\ leagueRow[e].at \in 0..stamp
         /\ transfer[e].through \in 0..1
    /\ \A j \in SyncKind : /\ sjob[j].t \in 0..stamp /\ sjob[j].todo \subseteq SyncEntry
                           /\ sjob[j].wrote \subseteq SyncEntry

\* A row that a finalized gameweek's freshness test accepts (findEntryIdsNeedingRichSync)
\* was made of final scores and final player points, however the attempt's
\* timestamp, its reads and its write fell around the finalization.
\* A score that syncEntryInfo wrote is excepted: nothing orders it.
AcceptedRowIsFinal ==
    checkedAt # 0 =>
        \A e \in SyncEntry :
            /\ result[e].at >= checkedAt =>
                 /\ result[e].live = fpl.score
                 /\ result[e].by = "sync" => result[e].score = fpl.score
            /\ leagueRow[e].at >= checkedAt /\ leagueRow[e].by = "sync" =>
                 leagueRow[e].score = fpl.score

\* An attempt that has stored an entry leaves a row of its timestamp or a later
\* one, with scores no older than FPL's at that time: an attempt that was
\* overtaken, or that commits after it was given up, takes nothing back.
AttemptIsNotUndone ==
    \A j \in {"results", "again"}, e \in SyncEntry :
        sjob[j].pc = "entries" /\ e \in sjob[j].wrote =>
            /\ result[e].at >= sjob[j].t
            /\ result[e].by = "sync" => result[e].score >= sjob[j].floor

\* A transfer checkpoint covers the gameweek only when the stored history is
\* complete: an early poll, late or not, never passes for one.  Enriched
\* rows are those of a covered gameweek.
CheckpointMeansComplete ==
    \A e \in SyncEntry :
        /\ transfer[e].through >= 1 => fpl.locked /\ transfer[e].moves = fpl.moves
        /\ transfer[e].enriched => transfer[e].through >= 1

\* What a finished results job promises its cascade: every entry has a result
\* of the promised freshness and complete transfers, whatever failed and
\* whoever else wrote.
FinishedMeansStored ==
    \A j \in {"results", "again"} :
        sjob[j].pc = "ok" =>
            \A e \in SyncEntry : ~StaleResult(e, sjob[j].fresh) /\ ~NeedsTransfers(e)

\* The gameweek's facts are complete and in order (the four properties above).
EventSyncInv ==
    /\ SyncTypeOK
    /\ AcceptedRowIsFinal
    /\ AttemptIsNotUndone
    /\ CheckpointMeansComplete
    /\ FinishedMeansStored
=============================================================================
