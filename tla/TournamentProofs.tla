--------------------------- MODULE TournamentProofs ---------------------------
(***************************************************************************)
(* Proofs about entries and their tournaments: the cascade behind          *)
(* event-results, for every set of roles and every number of overlapping   *)
(* cascades; the synchronisation of an entry's results and transfers in a  *)
(* gameweek, for any number of overlapping attempts, league jobs and entry *)
(* syncs; the setup of a tournament, for any rosters, jobs, commands and   *)
(* faults; and the scan that synchronises the entries, for any set of      *)
(* entries, chunk size, retry budget and bounds.                           *)
(***************************************************************************)
EXTENDS TournamentCascade, EventSync, TournamentSetup, EntryScan,
        FiniteSetTheorems, SequenceTheorems, WellFoundedInduction, TLAPS

(***************************************************************************)
(* The cascade.                                                            *)
(***************************************************************************)

\* The positions of a role's job after its mutation, and after it was granted
\* the refresh lease.
Mutated == {"committed", "noting", "claiming", "holding", "added", "marked", "done"}
Granted == {"holding", "added", "marked"}

\* A job past its mutation has committed it, slots are taken by such jobs
\* only, and the pending key, a granted lease and the refresh itself come
\* after the last slot.
BarrierOf(c) ==
    /\ \A r \in Role : /\ roleJob[c][r] \in Mutated => r \in computed[c]
                       /\ roleJob[c][r] \in Granted => slot[c] = Role
    /\ slot[c] \subseteq computed[c]
    /\ pending[c] => slot[c] = Role
    /\ refreshJob[c] # "none" => computed[c] = Role

FanOutNamed == baseJob.step = "enqueueing" => baseJob.id \in Cascade

\* The inductive invariant behind CascadeInv.
CascadeIInv == CascadeTypeOK /\ FanOutNamed /\ \A c \in Cascade : BarrierOf(c)

\* Moving one role's job keeps the other jobs where they are.
LEMMA RoleAtFrame ==
  ASSUME CascadeTypeOK, NEW c \in Cascade, NEW r \in Role, NEW from,
         NEW to \in {"none", "queued", "committed", "noting", "claiming", "holding", "added",
                     "marked", "done"},
         RoleAt(c, r, from, to)
  PROVE  /\ roleJob[c][r] = from /\ roleJob'[c][r] = to
         /\ \A d \in Cascade, q \in Role : d # c \/ q # r => roleJob'[d][q] = roleJob[d][q]
         /\ roleJob' \in [Cascade -> [Role ->
              {"none", "queued", "committed", "noting", "claiming", "holding", "added", "marked",
               "done"}]]
BY DEF CascadeTypeOK, RoleAt

\* A step that leaves a cascade's slots and keys alone keeps its barrier, if
\* its jobs move no further than the commits and the grants.
LEMMA BarrierFrame ==
  ASSUME NEW c \in Cascade, BarrierOf(c),
         computed'[c] = computed[c], slot'[c] = slot[c],
         pending'[c] => pending[c],
         refreshJob'[c] # "none" => refreshJob[c] # "none",
         \A r \in Role : \/ roleJob'[c][r] \in {roleJob[c][r], "none", "queued"}
                         \/ roleJob[c][r] \in Mutated /\ roleJob'[c][r] \in Mutated \ Granted
                         \/ roleJob[c][r] \in Granted
  PROVE  BarrierOf(c)'
BY DEF BarrierOf, Mutated, Granted

LEMMA CascadeStep == CascadeIInv /\ [CascadeNext]_cascadeVars => CascadeIInv'
<1> SUFFICES ASSUME CascadeIInv, [CascadeNext]_cascadeVars PROVE CascadeIInv'
  OBVIOUS
<1> USE CascadeAssumption DEF CascadeIInv
<1>1. ASSUME NEW c \in Cascade, initCascadeStructureBarrier(c) PROVE CascadeIInv'
  <2>1. CascadeTypeOK' /\ FanOutNamed'
    BY <1>1 DEF CascadeTypeOK, FanOutNamed, initCascadeStructureBarrier, FanOut
  <2> QED
    BY <1>1, <2>1, BarrierFrame DEF initCascadeStructureBarrier
<1>2. ASSUME NEW r \in FanOut, enqueueRole(r) PROVE CascadeIInv'
  <2>1. baseJob.id \in Cascade /\ r \in Role
    BY <1>2 DEF FanOutNamed, enqueueRole, FanOut
  <2>2. RoleAt(baseJob.id, r, "none", "queued")
    BY <1>2 DEF enqueueRole
  <2>3. CascadeTypeOK' /\ FanOutNamed'
    BY <1>2, <2>1, <2>2, RoleAtFrame DEF CascadeTypeOK, FanOutNamed, enqueueRole
  <2>4. ASSUME NEW c \in Cascade PROVE BarrierOf(c)'
    BY <1>2, <2>1, <2>2, RoleAtFrame, BarrierFrame DEF enqueueRole
  <2> QED
    BY <2>3, <2>4
<1>3. CASE enqueueTournamentCascade
  <2>1. CascadeTypeOK' /\ FanOutNamed'
    BY <1>3 DEF CascadeTypeOK, FanOutNamed, enqueueTournamentCascade
  <2> QED
    BY <1>3, <2>1, BarrierFrame DEF enqueueTournamentCascade
<1>4. CASE CascadeEnqueueFails
  <2>1. CascadeTypeOK' /\ FanOutNamed'
    BY <1>4 DEF CascadeTypeOK, FanOutNamed, CascadeEnqueueFails
  <2> QED
    BY <1>4, <2>1, BarrierFrame DEF CascadeEnqueueFails
<1>5. ASSUME NEW c \in Cascade, NEW r \in Role, RunMutation(c, r) PROVE CascadeIInv'
  <2>1. RoleAt(c, r, "queued", "committed")
    BY <1>5 DEF RunMutation
  <2>2. CascadeTypeOK' /\ FanOutNamed'
    BY <1>5, <2>1, RoleAtFrame DEF CascadeTypeOK, FanOutNamed, RunMutation
  <2>3. ASSUME NEW d \in Cascade PROVE BarrierOf(d)'
    <3>1. CASE d = c
      <4>1. computed'[c] = computed[c] \cup {r} /\ computed[c] \subseteq Role
        BY <1>5 DEF CascadeTypeOK, RunMutation
      <4> QED
        BY <1>5, <2>1, <3>1, <4>1, RoleAtFrame DEF BarrierOf, RunMutation, Mutated, Granted
    <3>2. CASE d # c
      BY <1>5, <2>1, <3>2, RoleAtFrame, BarrierFrame DEF CascadeTypeOK, RunMutation
    <3> QED
      BY <3>1, <3>2
  <2> QED
    BY <2>2, <2>3
<1>6. ASSUME NEW c \in Cascade, NEW r \in Role, AfterCommit(c, r) PROVE CascadeIInv'
  <2>1. /\ roleJob[c][r] = "committed" /\ roleJob'[c][r] = "noting"
        /\ \A q \in Role \ {r} : roleJob'[c][q] \in {roleJob[c][q], "queued"}
        /\ \A d \in Cascade \ {c} : roleJob'[d] = roleJob[d]
    BY <1>6 DEF CascadeTypeOK, AfterCommit
  <2>2. roleJob' \in [Cascade -> [Role ->
              {"none", "queued", "committed", "noting", "claiming", "holding", "added", "marked",
               "done"}]]
    BY <1>6 DEF CascadeTypeOK, AfterCommit
  <2>3. CascadeTypeOK' /\ FanOutNamed'
    BY <1>6, <2>2 DEF CascadeTypeOK, FanOutNamed, AfterCommit
  <2>4. ASSUME NEW d \in Cascade PROVE BarrierOf(d)'
    BY <1>6, <2>1, BarrierFrame DEF AfterCommit, Mutated, Granted
  <2> QED
    BY <2>3, <2>4
<1>7. ASSUME NEW c \in Cascade, NEW r \in Role, noteCascadeStructureJobComplete(c, r)
      PROVE  CascadeIInv'
  <2>1. /\ RoleAt(c, r, "noting", "claiming")
        /\ slot' = [slot EXCEPT ![c] = @ \cup {r}]
        /\ UNCHANGED <<baseJob, computed, refreshLease, refreshDone, refreshJob, cascadeFaults>>
    BY <1>7 DEF noteCascadeStructureJobComplete
  <2>2. pending' \in [Cascade -> BOOLEAN]
    BY <1>7 DEF CascadeTypeOK, noteCascadeStructureJobComplete
  <2>3. CascadeTypeOK' /\ FanOutNamed'
    <3>1. slot' \in [Cascade -> SUBSET Role]
      BY <2>1 DEF CascadeTypeOK
    <3>2. roleJob' \in [Cascade -> [Role ->
              {"none", "queued", "committed", "noting", "claiming", "holding", "added", "marked",
               "done"}]]
      BY <2>1, RoleAtFrame
    <3> QED
      BY <2>1, <2>2, <3>1, <3>2 DEF CascadeTypeOK, FanOutNamed
  <2>4. /\ pending'[c] => pending[c] \/ slot'[c] = Role
        /\ \A d \in Cascade \ {c} : pending'[d] = pending[d]
    BY <1>7 DEF CascadeTypeOK, noteCascadeStructureJobComplete, BarrierComplete
  <2>5. /\ slot'[c] = slot[c] \cup {r} /\ slot[c] \subseteq Role
        /\ \A d \in Cascade \ {c} : slot'[d] = slot[d]
    BY <2>1 DEF CascadeTypeOK
  <2>6. ASSUME NEW d \in Cascade PROVE BarrierOf(d)'
    <3>1. CASE d = c
      <4>1. r \in computed[c]
        BY <2>1 DEF BarrierOf, RoleAt, Mutated
      <4> QED
        BY <2>1, <2>4, <2>5, <3>1, <4>1, RoleAtFrame DEF BarrierOf, Mutated, Granted
    <3>2. CASE d # c
      BY <2>1, <2>4, <2>5, <3>2, RoleAtFrame, BarrierFrame
    <3> QED
      BY <3>1, <3>2
  <2> QED
    BY <2>3, <2>6
<1>8. ASSUME NEW c \in Cascade, NEW r \in Role, tryClaimCascadeRefreshEnqueue(c, r)
      PROVE  CascadeIInv'
  <2>1. PICK to \in {"done", "queued", "holding"} :
          RoleAt(c, r, "claiming", to) /\ (to = "holding" => pending[c])
    BY <1>8 DEF tryClaimCascadeRefreshEnqueue, BusyLeaseThrows
  <2>2. refreshLease' \in [Cascade -> Role \cup {NoHolder}]
    BY <1>8 DEF CascadeTypeOK, tryClaimCascadeRefreshEnqueue
  <2>3. UNCHANGED <<baseJob, computed, slot, pending, refreshDone, refreshJob, cascadeFaults>>
    BY <1>8 DEF tryClaimCascadeRefreshEnqueue
  <2>4. CascadeTypeOK' /\ FanOutNamed'
    BY <2>1, <2>2, <2>3, RoleAtFrame DEF CascadeTypeOK, FanOutNamed
  <2>5. ASSUME NEW d \in Cascade PROVE BarrierOf(d)'
    BY <2>1, <2>3, RoleAtFrame DEF BarrierOf, Mutated, Granted
  <2> QED
    BY <2>4, <2>5
<1>9. ASSUME NEW c \in Cascade, NEW r \in Role,
             enqueueTournamentMaterializedViewsRefresh(c, r)
      PROVE  CascadeIInv'
  <2>1. RoleAt(c, r, "holding", "added")
    BY <1>9 DEF enqueueTournamentMaterializedViewsRefresh
  <2>2. CascadeTypeOK' /\ FanOutNamed'
    BY <1>9, <2>1, RoleAtFrame
    DEF CascadeTypeOK, FanOutNamed, enqueueTournamentMaterializedViewsRefresh
  <2>3. slot[c] = Role /\ slot[c] \subseteq computed[c] /\ computed[c] \subseteq Role
    BY <2>1 DEF CascadeTypeOK, RoleAt, BarrierOf, Granted
  <2>4. computed[c] = Role
    BY <2>3
  <2>5. ASSUME NEW d \in Cascade PROVE BarrierOf(d)'
    BY <1>9, <2>1, <2>4, RoleAtFrame
    DEF CascadeTypeOK, BarrierOf, Mutated, Granted, enqueueTournamentMaterializedViewsRefresh
  <2> QED
    BY <2>2, <2>5
<1>10. ASSUME NEW c \in Cascade, NEW r \in Role, RefreshEnqueueFails(c, r) PROVE CascadeIInv'
  <2>1. RoleAt(c, r, "holding", "queued")
    BY <1>10 DEF RefreshEnqueueFails
  <2>2. CascadeTypeOK' /\ FanOutNamed'
    BY <1>10, <2>1, RoleAtFrame DEF CascadeTypeOK, FanOutNamed, RefreshEnqueueFails
  <2>3. ASSUME NEW d \in Cascade PROVE BarrierOf(d)'
    BY <1>10, <2>1, RoleAtFrame, BarrierFrame DEF RefreshEnqueueFails
  <2> QED
    BY <2>2, <2>3
<1>11. ASSUME NEW c \in Cascade, NEW r \in Role, markCascadeRefreshEnqueued(c, r)
       PROVE  CascadeIInv'
  <2>1. PICK from \in {"added", "marked"}, to \in {"marked", "done"} : RoleAt(c, r, from, to)
    BY <1>11 DEF markCascadeRefreshEnqueued
  <2>2. /\ pending' \in [Cascade -> BOOLEAN] /\ refreshDone' \in [Cascade -> BOOLEAN]
        /\ refreshLease' \in [Cascade -> Role \cup {NoHolder}]
    <3>1. /\ pending \in [Cascade -> BOOLEAN] /\ refreshDone \in [Cascade -> BOOLEAN]
          /\ refreshLease \in [Cascade -> Role \cup {NoHolder}]
      BY DEF CascadeTypeOK
    <3>2. /\ pending' = pending \/ pending' = [pending EXCEPT ![c] = FALSE]
          /\ refreshDone' = refreshDone \/ refreshDone' = [refreshDone EXCEPT ![c] = TRUE]
          /\ \/ refreshLease' = refreshLease
             \/ refreshLease' = [refreshLease EXCEPT ![c] = NoHolder]
      BY <1>11 DEF markCascadeRefreshEnqueued
    <3> QED
      BY <3>1, <3>2
  <2>3. CascadeTypeOK' /\ FanOutNamed'
    BY <1>11, <2>1, <2>2, RoleAtFrame
    DEF CascadeTypeOK, FanOutNamed, markCascadeRefreshEnqueued
  <2>4. \A d \in Cascade : pending'[d] => pending[d]
    BY <1>11 DEF CascadeTypeOK, markCascadeRefreshEnqueued
  <2>5. ASSUME NEW d \in Cascade PROVE BarrierOf(d)'
    BY <1>11, <2>1, <2>4, RoleAtFrame DEF markCascadeRefreshEnqueued, BarrierOf, Mutated, Granted
  <2> QED
    BY <2>3, <2>5
<1>12. ASSUME NEW c \in Cascade, NEW r \in Role, RoleWorkerDies(c, r) PROVE CascadeIInv'
  <2>1. RoleAt(c, r, roleJob[c][r], "queued")
    BY <1>12 DEF RoleWorkerDies, RoleAt
  <2>2. CascadeTypeOK' /\ FanOutNamed'
    BY <1>12, <2>1, RoleAtFrame DEF CascadeTypeOK, FanOutNamed, RoleWorkerDies
  <2>3. ASSUME NEW d \in Cascade PROVE BarrierOf(d)'
    BY <1>12, <2>1, RoleAtFrame, BarrierFrame DEF RoleWorkerDies
  <2> QED
    BY <2>2, <2>3
<1>13. ASSUME NEW c \in Cascade, LeaseRunsOut(c) PROVE CascadeIInv'
  <2>1. CascadeTypeOK' /\ FanOutNamed'
    BY <1>13 DEF CascadeTypeOK, FanOutNamed, LeaseRunsOut
  <2> QED
    BY <1>13, <2>1, BarrierFrame DEF LeaseRunsOut
<1>14. ASSUME NEW c \in Cascade, RunRefresh(c) PROVE CascadeIInv'
  <2>1. CascadeTypeOK' /\ FanOutNamed'
    BY <1>14 DEF CascadeTypeOK, FanOutNamed, RunRefresh
  <2>2. ASSUME NEW d \in Cascade PROVE BarrierOf(d)'
    BY <1>14, BarrierFrame DEF CascadeTypeOK, RunRefresh
  <2> QED
    BY <2>1, <2>2
<1>15. CASE UNCHANGED cascadeVars
  BY <1>15 DEF cascadeVars, CascadeTypeOK, FanOutNamed, BarrierOf
<1> QED
  BY <1>1, <1>2, <1>3, <1>4, <1>5, <1>6, <1>7, <1>8, <1>9, <1>10, <1>11, <1>12, <1>13, <1>14,
     <1>15 DEF CascadeNext, BaseStep, RoleStep

\* CascadeInv: however jobs die, repeat and race for the lease, and however
\* many cascades overlap, the refresh that finishes tournaments is enqueued
\* only when every role of its cascade has committed its mutation.
THEOREM CascadeInvHolds == CascadeSpec => []CascadeInv
<1>1. CascadeInit => CascadeIInv
  BY CascadeAssumption
  DEF CascadeInit, CascadeIInv, CascadeTypeOK, FanOutNamed, BarrierOf, Mutated, Granted
<1>2. CascadeIInv => CascadeInv
  BY DEF CascadeIInv, CascadeInv, RefreshAfterEveryRole, BarrierOf
<1> QED
  BY <1>1, <1>2, CascadeStep, PTL DEF CascadeSpec

(***************************************************************************)
(* The facts of a gameweek.                                                *)
(***************************************************************************)

ResultJob == {"results", "again"}
RowWriter == {"nobody", "sync", "history"}
OneValue(x) == x = <<Head(x)>> /\ Head(x) \in Nat
TwoValues(x) == x = <<x[1], x[2]>> /\ x[1] \in Nat /\ x[2] \in RowWriter
Fetched == {NotFetched} \cup {<<n>> : n \in Nat} \cup {<<n, by>> : n \in Nat, by \in RowWriter}

\* The positions of each kind of job.
PcOf(j) ==
    {"absent", "ready", "ok"} \cup
    (CASE j \in ResultJob -> {"begun", "entries", "transfers"}
       [] j = "league" -> {"begun", "league"}
       [] j = "pre" -> {"transfers"}
       [] j = "info" -> {"history", "info"}
       [] OTHER -> {"post"})

JobRecord ==
    [pc : {"absent", "ready", "ok", "begun", "entries", "transfers", "league", "history", "info",
           "post"},
     t : Nat, floor : Nat, fresh : Nat, live : Nat, todo : SUBSET SyncEntry,
     plan : SUBSET SyncEntry, wrote : SUBSET SyncEntry, got : [SyncEntry -> Fetched]]
ResultRecord == [at : Nat, score : Nat, live : Nat, by : RowWriter]
TransferRecord == [at : Nat, moves : Nat, through : 0..1, enriched : BOOLEAN]
LeagueRecord == [at : Nat, score : Nat, by : RowWriter]
LateRecord == [phase : {"entries", "transfers"}, job : ResultJob, entry : SyncEntry,
               t : Nat, got : Nat, live : Nat]

SyncRecords ==
    /\ sync \in SyncCase
    /\ fpl \in [score : Nat, final : BOOLEAN, moves : Nat, locked : BOOLEAN]
    /\ fpl.score <= sync.scores /\ fpl.moves <= sync.moves
    /\ stamp \in Nat /\ stamp <= sync.stamps /\ checkedAt \in Nat
    /\ fetchFaults \in Nat /\ fetchFaults <= sync.faults
    /\ result \in [SyncEntry -> ResultRecord]
    /\ transfer \in [SyncEntry -> TransferRecord]
    /\ leagueRow \in [SyncEntry -> LeagueRecord]
    /\ lateWrites \subseteq LateRecord
    /\ sjob \in [SyncKind -> JobRecord]

\* A job's position, and what it may have fetched there.
JobShape(s, j) ==
    /\ s.pc \in PcOf(j)
    /\ s.pc \in {"ready", "begun"} => s.wrote = {}
    /\ s.todo # {} => s.pc \in {"entries", "transfers", "league", "info"}
    /\ \A e \in SyncEntry :
         \/ s.got[e] = NotFetched /\ s.pc # "history" /\ ~(s.pc = "info" /\ e \in s.todo)
         \/ s.pc \in {"entries", "transfers"} /\ e \in s.todo /\ OneValue(s.got[e])
         \/ s.pc \in {"history", "info"} /\ OneValue(s.got[e])
         \/ s.pc = "league" /\ TwoValues(s.got[e])
         \/ s.pc = "post"

JobShapes == \A j \in SyncKind : JobShape(sjob[j], j)

\* The clock is ahead of every timestamp.
StampsTaken ==
    /\ checkedAt <= stamp
    /\ \A e \in SyncEntry : result[e].at <= stamp /\ transfer[e].at <= stamp /\ leagueRow[e].at <= stamp
    /\ \A j \in SyncKind : sjob[j].t <= stamp
    /\ \A w \in lateWrites : w.t <= stamp

\* What an attempt has fetched is final, if its timestamp is one that the
\* finalized gameweek's freshness test will accept.
FinalOf(s) ==
    checkedAt # 0 /\ s.t >= checkedAt =>
        /\ s.pc = "entries" => s.live = fpl.score
        /\ s.pc = "league" => s.fresh >= checkedAt
        /\ \A e \in SyncEntry : s.got[e] # NotFetched =>
             /\ s.pc = "entries" => Head(s.got[e]) = fpl.score
             /\ s.pc = "league" /\ s.got[e][2] = "sync" => s.got[e][1] = fpl.score
FinalScores ==
    /\ checkedAt # 0 => fpl.final
    /\ fpl.final => fpl.locked
    /\ \A j \in SyncKind : FinalOf(sjob[j])
    /\ \A w \in lateWrites : w.phase = "entries" /\ checkedAt # 0 /\ w.t >= checkedAt =>
         w.got = fpl.score /\ w.live = fpl.score

\* Later timestamps go with later scores: among attempts that are under way,
\* the values they fetched, the writes given up, and the rows.
Attempting(j) == sjob[j].pc \in {"begun", "entries"}
ScoresInOrder ==
    \A j \in ResultJob : Attempting(j) =>
        /\ sjob[j].floor <= fpl.score
        /\ \A k \in ResultJob : Attempting(k) /\ sjob[k].t >= sjob[j].t =>
             sjob[k].floor >= sjob[j].floor
        /\ \A e \in SyncEntry :
             /\ sjob[j].got[e] # NotFetched => Head(sjob[j].got[e]) >= sjob[j].floor
             /\ result[e].by = "sync" /\ result[e].at >= sjob[j].t => result[e].score >= sjob[j].floor
             /\ e \in sjob[j].wrote => result[e].at >= sjob[j].t
        /\ \A w \in lateWrites : w.phase = "entries" /\ w.t >= sjob[j].t => w.got >= sjob[j].floor

\* Whoever may vouch for the gameweek's transfers has read them after the
\* deadline.  A poll that read them before the deadline is overtaken by every
\* such writer: its timestamp is older than theirs.
Overtaken(t) ==
    /\ \A e \in SyncEntry : transfer[e].through >= 1 => transfer[e].at > t
    /\ \A j \in ResultJob : sjob[j].pc = "transfers" /\ sjob[j].todo # {} => sjob[j].t > t
    /\ \A w \in lateWrites : w.phase = "transfers" => w.t > t
TransfersComplete ==
    /\ \A j \in ResultJob : sjob[j].pc \in {"begun", "entries", "transfers"} =>
         /\ fpl.locked
         /\ sjob[j].pc = "transfers" => \A e \in SyncEntry : sjob[j].got[e] # NotFetched =>
              Head(sjob[j].got[e]) = fpl.moves
    /\ \A w \in lateWrites : w.phase = "transfers" => fpl.locked /\ w.got = fpl.moves
    /\ \A e \in SyncEntry :
         sjob["pre"].got[e] # NotFetched /\ Head(sjob["pre"].got[e]) # fpl.moves =>
           Overtaken(sjob["pre"].t)
    /\ sjob["post"].pc = "post" => \A e \in SyncEntry : transfer[e].through >= 1

\* The inductive invariant behind EventSyncInv.
SyncIInv ==
    /\ SyncRecords /\ JobShapes /\ StampsTaken
    /\ FinalScores /\ AcceptedRowIsFinal
    /\ ScoresInOrder
    /\ TransfersComplete /\ CheckpointMeansComplete
    /\ FinishedMeansStored

\* What a fetch returns can be told from nothing and taken apart again.
LEMMA FetchedValues ==
  /\ NotFetched \in Fetched /\ Range(NotFetched) = {}
  /\ \A n \in Nat : /\ <<n>> \in Fetched /\ <<n>> # NotFetched
                    /\ OneValue(<<n>>) /\ Head(<<n>>) = n /\ Range(<<n>>) = {n}
  /\ \A n \in Nat, by \in RowWriter :
       /\ <<n, by>> \in Fetched /\ <<n, by>> # NotFetched /\ TwoValues(<<n, by>>)
       /\ <<n, by>>[1] = n /\ <<n, by>>[2] = by
  /\ \A x : OneValue(x) => x # NotFetched /\ Head(x) \in Nat /\ Range(x) = {Head(x)}
  /\ \A x : TwoValues(x) => x # NotFetched /\ x[1] \in Nat /\ x[2] \in RowWriter
<1>1. NotFetched \in Fetched /\ Range(NotFetched) = {}
  BY DEF Fetched, NotFetched, Range
<1>2. ASSUME NEW n \in Nat
      PROVE  /\ <<n>> \in Fetched /\ <<n>> # NotFetched
             /\ OneValue(<<n>>) /\ Head(<<n>>) = n /\ Range(<<n>>) = {n}
  <2>1. <<n>> \in Fetched
    BY DEF Fetched
  <2>2. <<n>> # NotFetched
    BY DEF NotFetched
  <2>3. Head(<<n>>) = n
    OBVIOUS
  <2>4. Range(<<n>>) = {n}
    BY DEF Range
  <2> QED
    BY <2>1, <2>2, <2>3, <2>4 DEF OneValue
<1>3. ASSUME NEW n \in Nat, NEW by \in RowWriter
      PROVE  /\ <<n, by>> \in Fetched /\ <<n, by>> # NotFetched /\ TwoValues(<<n, by>>)
             /\ <<n, by>>[1] = n /\ <<n, by>>[2] = by
  <2>1. <<n, by>> \in Fetched
    BY DEF Fetched
  <2>2. <<n, by>> # NotFetched
    BY DEF NotFetched
  <2> QED
    BY <2>1, <2>2 DEF TwoValues
<1>4. ASSUME NEW x, OneValue(x) PROVE x # NotFetched /\ Head(x) \in Nat /\ Range(x) = {Head(x)}
  <2>1. PICK n \in Nat : x = <<n>>
    BY <1>4 DEF OneValue
  <2> QED
    BY <2>1, <1>2
<1>5. ASSUME NEW x, TwoValues(x) PROVE x # NotFetched /\ x[1] \in Nat /\ x[2] \in RowWriter
  <2>1. PICK n \in Nat, by \in RowWriter : x = <<n, by>>
    BY <1>5 DEF TwoValues
  <2> QED
    BY <2>1, <1>3
<1> QED
  BY <1>1, <1>2, <1>3, <1>4, <1>5

LEMMA RestingJob ==
  ASSUME NEW pc \in {"absent", "ready", "ok"}
  PROVE  /\ Resting(pc) \in JobRecord
         /\ \A j \in SyncKind : JobShape(Resting(pc), j)
         /\ Resting(pc).pc = pc /\ Resting(pc).t = 0 /\ Resting(pc).todo = {}
         /\ \A e \in SyncEntry : Resting(pc).got[e] = NotFetched
<1>1. Resting(pc) \in JobRecord
  BY FetchedValues DEF Resting, JobRecord
<1>2. ASSUME NEW j \in SyncKind PROVE JobShape(Resting(pc), j)
  BY DEF Resting, JobShape, PcOf
<1> QED
  BY <1>1, <1>2 DEF Resting

LEMMA SyncStart == SyncInit => SyncIInv
<1> SUFFICES ASSUME SyncInit PROVE SyncIInv
  OBVIOUS
<1>1. \A j \in SyncKind : sjob[j] \in {Resting("ready"), Resting("absent")}
  BY DEF SyncInit
<1>2. SyncRecords
  <2>1. sjob \in [SyncKind -> JobRecord]
    BY RestingJob DEF SyncInit
  <2>2. /\ {sync.scores, sync.moves, sync.stamps, sync.faults} \subseteq Nat
    BY SyncAssumption DEF SyncInit
  <2> QED
    BY <2>1, <2>2 DEF SyncInit, SyncRecords, ResultRecord, TransferRecord, LeagueRecord, RowWriter
<1>3. JobShapes
  BY <1>1, RestingJob DEF JobShapes
<1>4. StampsTaken
  BY <1>1, RestingJob DEF StampsTaken, SyncInit
<1>5. FinalScores /\ AcceptedRowIsFinal /\ CheckpointMeansComplete
  BY DEF FinalScores, FinalOf, AcceptedRowIsFinal, CheckpointMeansComplete, SyncInit
<1>6. ScoresInOrder /\ TransfersComplete /\ FinishedMeansStored
  BY <1>1, RestingJob
  DEF ScoresInOrder, Attempting, TransfersComplete, FinishedMeansStored, SyncInit, SyncKind, ResultJob
<1> QED
  BY <1>2, <1>3, <1>4, <1>5, <1>6 DEF SyncIInv

(* What a step may do to the job j, which becomes s, to the writes that were *)
(* given up and to the three tables.                                         *)

\* An attempt goes on with what it has, or begins with a new timestamp.
AttemptMoves(j, s) ==
    \/ /\ Attempting(j) /\ s.t = sjob[j].t /\ s.floor = sjob[j].floor
       /\ \A e \in SyncEntry : s.got[e] # NotFetched => Head(s.got[e]) >= s.floor
       /\ \A e \in s.wrote : e \in sjob[j].wrote \/ result'[e].at >= s.t
    \/ /\ s.t = stamp + 1 /\ s.floor = fpl.score /\ s.wrote = {}
       /\ \A e \in SyncEntry : s.got[e] = NotFetched

JobMoves(j, s) ==
    /\ sjob' = [sjob EXCEPT ![j] = s]
    /\ s \in JobRecord /\ JobShape(s, j) /\ s.t <= stamp' /\ FinalOf(s)
    /\ j \in ResultJob =>
         /\ s.pc \in {"begun", "entries"} => AttemptMoves(j, s) /\ fpl.locked
         /\ s.pc = "transfers" =>
              /\ fpl.locked
              /\ \A e \in SyncEntry : s.got[e] # NotFetched => Head(s.got[e]) = fpl.moves
              /\ s.todo # {} => \/ s.t = stamp + 1
                                \/ sjob[j].pc = "transfers" /\ sjob[j].todo # {} /\ s.t = sjob[j].t
         /\ s.pc = "ok" => \A e \in SyncEntry : result'[e].at >= s.fresh /\ transfer'[e].through >= 1
    /\ j = "pre" => \A e \in SyncEntry : s.got[e] # NotFetched =>
                      \/ Head(s.got[e]) = fpl.moves
                      \/ s.got[e] = sjob[j].got[e] /\ s.t = sjob[j].t
    /\ j = "post" /\ s.pc = "post" => \A e \in SyncEntry : transfer[e].through >= 1

LateMoves(j) ==
    \A w \in lateWrites' :
        \/ w \in lateWrites
        \/ /\ w \in LateRecord /\ j \in ResultJob
           /\ w.t = sjob[j].t /\ w.phase = sjob[j].pc /\ w.live = sjob[j].live
           /\ \E e \in sjob[j].todo : sjob[j].got[e] # NotFetched /\ w.got = Head(sjob[j].got[e])

\* A row is replaced by a later one that fits its timestamp; syncEntryInfo
\* overwrites a score and marks it.
ResultMoves ==
    /\ result' \in [SyncEntry -> ResultRecord]
    /\ \A e \in SyncEntry :
         \/ result'[e] = result[e]
         \/ /\ result'[e].at > result[e].at /\ result'[e].at <= stamp
            /\ checkedAt # 0 /\ result'[e].at >= checkedAt =>
                 result'[e].score = fpl.score /\ result'[e].live = fpl.score
            /\ \A k \in ResultJob : Attempting(k) /\ result'[e].at >= sjob[k].t =>
                 result'[e].score >= sjob[k].floor
         \/ /\ result'[e].at = result[e].at /\ result'[e].live = result[e].live
            /\ result'[e].by = "history"

\* A history is replaced by a later one, complete if the checkpoint covers the
\* gameweek, and covers it only past a poll that read too early; rows of a
\* covered gameweek are enriched.
TransferMoves ==
    /\ transfer' \in [SyncEntry -> TransferRecord]
    /\ \A e \in SyncEntry :
         \/ transfer'[e] = transfer[e]
         \/ /\ transfer[e].through >= 1 /\ transfer'[e].through = transfer[e].through
            /\ transfer'[e].at = transfer[e].at /\ transfer'[e].moves = transfer[e].moves
         \/ /\ transfer'[e].at > transfer[e].at /\ transfer'[e].at <= stamp
            /\ transfer'[e].through >= transfer[e].through
            /\ transfer'[e].enriched => transfer[e].enriched
            /\ transfer'[e].through >= 1 =>
                 /\ fpl.locked /\ transfer'[e].moves = fpl.moves
                 /\ \/ transfer[e].through >= 1
                    \/ \A d \in SyncEntry :
                         sjob["pre"].got[d] # NotFetched /\ Head(sjob["pre"].got[d]) # fpl.moves =>
                           transfer'[e].at > sjob["pre"].t

LeagueMoves ==
    /\ leagueRow' \in [SyncEntry -> LeagueRecord]
    /\ \A e \in SyncEntry :
         \/ leagueRow'[e] = leagueRow[e]
         \/ /\ leagueRow'[e].at <= stamp
            /\ checkedAt # 0 /\ leagueRow'[e].at >= checkedAt /\ leagueRow'[e].by = "sync" =>
                 leagueRow'[e].score = fpl.score

SyncMoves(j, s) ==
    /\ UNCHANGED <<sync, fpl, checkedAt>>
    /\ stamp' \in {stamp, stamp + 1} /\ stamp' <= sync.stamps
    /\ fetchFaults' \in Nat /\ fetchFaults' <= sync.faults
    /\ JobMoves(j, s) /\ LateMoves(j) /\ ResultMoves /\ TransferMoves /\ LeagueMoves

LEMMA MovesKeep ==
  ASSUME SyncIInv, NEW j \in SyncKind, NEW s, SyncMoves(j, s)
  PROVE  SyncIInv'
<1> USE DEF SyncMoves
<1>1. /\ sjob \in [SyncKind -> JobRecord] /\ s \in JobRecord
      /\ sjob'[j] = s /\ \A k \in SyncKind \ {j} : sjob'[k] = sjob[k]
  BY DEF SyncIInv, SyncRecords, JobMoves
<1>2. /\ stamp \in Nat /\ checkedAt \in Nat /\ stamp' \in Nat /\ stamp <= stamp'
      /\ checkedAt <= stamp /\ fpl.score \in Nat /\ fpl.moves \in Nat
      /\ \A k \in SyncKind : sjob[k].t \in Nat /\ sjob[k].floor \in Nat /\ sjob[k].fresh \in Nat
                             /\ sjob[k].t <= stamp
      /\ s.t \in Nat /\ s.floor \in Nat /\ s.fresh \in Nat
  BY <1>1 DEF SyncIInv, SyncRecords, StampsTaken, JobRecord
<1>3. SyncRecords'
  <2>1. sjob' \in [SyncKind -> JobRecord]
    BY <1>1 DEF JobMoves
  <2>2. lateWrites' \subseteq LateRecord
    BY DEF LateMoves, SyncIInv, SyncRecords
  <2> QED
    BY <1>2, <2>1, <2>2 DEF SyncIInv, SyncRecords, ResultMoves, TransferMoves, LeagueMoves
<1>4. JobShapes'
  BY <1>1 DEF SyncIInv, JobShapes, JobMoves, JobShape
<1>5. StampsTaken'
  <2>1. \A e \in SyncEntry : result'[e].at <= stamp' /\ transfer'[e].at <= stamp'
                             /\ leagueRow'[e].at <= stamp'
    <3> SUFFICES ASSUME NEW e \in SyncEntry
                 PROVE  result'[e].at <= stamp' /\ transfer'[e].at <= stamp' /\ leagueRow'[e].at <= stamp'
      OBVIOUS
    <3>1. /\ result[e].at <= stamp /\ transfer[e].at <= stamp /\ leagueRow[e].at <= stamp
          /\ result[e].at \in Nat /\ transfer[e].at \in Nat /\ leagueRow[e].at \in Nat
      BY DEF SyncIInv, StampsTaken, SyncRecords, ResultRecord, TransferRecord, LeagueRecord
    <3>2. result'[e].at <= stamp /\ result'[e].at \in Nat
      BY <3>1 DEF ResultMoves, ResultRecord
    <3>3. transfer'[e].at <= stamp /\ transfer'[e].at \in Nat
      BY <3>1 DEF TransferMoves, TransferRecord
    <3>4. leagueRow'[e].at <= stamp /\ leagueRow'[e].at \in Nat
      BY <3>1 DEF LeagueMoves, LeagueRecord
    <3> HIDE DEF SyncMoves
    <3> QED
      BY <1>2, <3>2, <3>3, <3>4
  <2>2. \A k \in SyncKind : sjob'[k].t <= stamp'
    BY <1>1, <1>2 DEF JobMoves
  <2>3. \A w \in lateWrites' : w.t <= stamp'
    BY <1>1, <1>2 DEF SyncIInv, StampsTaken, SyncRecords, LateMoves, LateRecord
  <2> QED
    BY <1>2, <2>1, <2>2, <2>3 DEF StampsTaken
<1>6. FinalScores' /\ AcceptedRowIsFinal'
  <2>1. \A k \in SyncKind : FinalOf(sjob[k])'
    BY <1>1 DEF SyncIInv, FinalScores, FinalOf, JobMoves
  <2>2. \A w \in lateWrites' : w.phase = "entries" /\ checkedAt # 0 /\ w.t >= checkedAt =>
          w.got = fpl.score /\ w.live = fpl.score
    <3> SUFFICES ASSUME NEW w \in lateWrites', w \notin lateWrites, w.phase = "entries",
                        checkedAt # 0, w.t >= checkedAt
                 PROVE  w.got = fpl.score /\ w.live = fpl.score
      BY DEF SyncIInv, FinalScores
    <3>1. PICK e \in sjob[j].todo : sjob[j].got[e] # NotFetched /\ w.got = Head(sjob[j].got[e])
      BY DEF LateMoves
    <3>2. e \in SyncEntry /\ w.t = sjob[j].t /\ w.live = sjob[j].live /\ sjob[j].pc = "entries"
      BY <1>1, <3>1 DEF JobRecord, LateMoves
    <3> QED
      BY <3>1, <3>2 DEF SyncIInv, FinalScores, FinalOf
  <2>3. AcceptedRowIsFinal'
    BY <1>2 DEF SyncIInv, SyncRecords, AcceptedRowIsFinal, ResultMoves, LeagueMoves, ResultRecord,
                LeagueRecord
  <2> QED
    BY <2>1, <2>2, <2>3 DEF SyncIInv, FinalScores
<1>7. ScoresInOrder'
  <2> SUFFICES ASSUME NEW k \in ResultJob, Attempting(k)'
               PROVE  /\ sjob'[k].floor <= fpl.score
                      /\ \A i \in ResultJob : Attempting(i)' /\ sjob'[i].t >= sjob'[k].t =>
                           sjob'[i].floor >= sjob'[k].floor
                      /\ \A e \in SyncEntry :
                           /\ sjob'[k].got[e] # NotFetched => Head(sjob'[k].got[e]) >= sjob'[k].floor
                           /\ result'[e].by = "sync" /\ result'[e].at >= sjob'[k].t =>
                                result'[e].score >= sjob'[k].floor
                           /\ e \in sjob'[k].wrote => result'[e].at >= sjob'[k].t
                      /\ \A w \in lateWrites' : w.phase = "entries" /\ w.t >= sjob'[k].t =>
                           w.got >= sjob'[k].floor
    BY DEF ScoresInOrder
  <2> k \in SyncKind
    BY DEF ResultJob, SyncKind
  <2>1. \A e \in SyncEntry : /\ result'[e].at \in Nat /\ result[e].at \in Nat
                             /\ result'[e].at >= result[e].at /\ result'[e].at <= stamp
    BY <1>2 DEF SyncIInv, SyncRecords, StampsTaken, ResultMoves, ResultRecord
  <2>2. \A w \in lateWrites' : w.t \in Nat /\ w.t <= stamp
    BY <1>2 DEF SyncIInv, SyncRecords, StampsTaken, LateMoves, LateRecord
  <2>3. \A i \in ResultJob : i \in SyncKind /\ (Attempting(i) => sjob[i].floor <= fpl.score)
    BY DEF SyncIInv, ScoresInOrder, ResultJob, SyncKind
  \* an attempt that was under way
  <2>4. ASSUME Attempting(k), sjob'[k].t = sjob[k].t, sjob'[k].floor = sjob[k].floor,
               \A e \in SyncEntry : sjob'[k].got[e] # NotFetched =>
                 Head(sjob'[k].got[e]) >= sjob'[k].floor,
               \A e \in sjob'[k].wrote : e \in sjob[k].wrote \/ result'[e].at >= sjob'[k].t
        PROVE  /\ sjob'[k].floor <= fpl.score
               /\ \A i \in ResultJob : Attempting(i)' /\ sjob'[i].t >= sjob'[k].t =>
                    sjob'[i].floor >= sjob'[k].floor
               /\ \A e \in SyncEntry :
                    /\ sjob'[k].got[e] # NotFetched => Head(sjob'[k].got[e]) >= sjob'[k].floor
                    /\ result'[e].by = "sync" /\ result'[e].at >= sjob'[k].t =>
                         result'[e].score >= sjob'[k].floor
                    /\ e \in sjob'[k].wrote => result'[e].at >= sjob'[k].t
               /\ \A w \in lateWrites' : w.phase = "entries" /\ w.t >= sjob'[k].t =>
                    w.got >= sjob'[k].floor
    <3>1. ASSUME NEW i \in ResultJob, Attempting(i)', sjob'[i].t >= sjob'[k].t
          PROVE  sjob'[i].floor >= sjob'[k].floor
      <4>1. CASE i = j
        BY <1>1, <1>2, <2>3, <2>4, <3>1, <4>1
        DEF SyncIInv, ScoresInOrder, Attempting, JobMoves, AttemptMoves
      <4>2. CASE i # j
        BY <1>1, <1>2, <2>3, <2>4, <3>1, <4>2 DEF SyncIInv, ScoresInOrder, Attempting
      <4> QED
        BY <4>1, <4>2
    <3>2. ASSUME NEW e \in SyncEntry, result'[e].by = "sync", result'[e].at >= sjob'[k].t
          PROVE  result'[e].score >= sjob'[k].floor
      BY <2>4, <3>2 DEF SyncIInv, ScoresInOrder, ResultMoves
    <3>3. ASSUME NEW e \in SyncEntry, e \in sjob'[k].wrote PROVE result'[e].at >= sjob'[k].t
      BY <1>2, <2>1, <2>4, <3>3 DEF SyncIInv, ScoresInOrder
    <3>4. ASSUME NEW w \in lateWrites', w.phase = "entries", w.t >= sjob'[k].t
          PROVE  w.got >= sjob'[k].floor
      <4>1. CASE w \in lateWrites
        BY <2>4, <3>4, <4>1 DEF SyncIInv, ScoresInOrder
      <4>2. CASE w \notin lateWrites
        <5>1. PICK e \in sjob[j].todo : sjob[j].got[e] # NotFetched /\ w.got = Head(sjob[j].got[e])
          BY <4>2 DEF LateMoves
        <5>2. /\ j \in ResultJob /\ w.t = sjob[j].t /\ sjob[j].pc = "entries" /\ w.got \in Nat
              /\ e \in SyncEntry
          BY <3>4, <4>2, <5>1, <1>1 DEF LateMoves, JobRecord, LateRecord
        <5>3. w.got >= sjob[j].floor /\ sjob[j].floor >= sjob[k].floor
          BY <2>4, <3>4, <5>1, <5>2 DEF SyncIInv, ScoresInOrder, Attempting
        <5> QED
          BY <1>2, <2>3, <2>4, <5>2, <5>3
      <4> QED
        BY <4>1, <4>2
    <3> QED
      BY <1>2, <2>3, <2>4, <3>1, <3>2, <3>3, <3>4
  \* an attempt that begins
  <2>5. ASSUME sjob'[k].t = stamp + 1, sjob'[k].floor = fpl.score, sjob'[k].wrote = {}, k = j,
               \A e \in SyncEntry : sjob'[k].got[e] = NotFetched
        PROVE  /\ sjob'[k].floor <= fpl.score
               /\ \A i \in ResultJob : Attempting(i)' /\ sjob'[i].t >= sjob'[k].t =>
                    sjob'[i].floor >= sjob'[k].floor
               /\ \A e \in SyncEntry :
                    /\ sjob'[k].got[e] # NotFetched => Head(sjob'[k].got[e]) >= sjob'[k].floor
                    /\ result'[e].by = "sync" /\ result'[e].at >= sjob'[k].t =>
                         result'[e].score >= sjob'[k].floor
                    /\ e \in sjob'[k].wrote => result'[e].at >= sjob'[k].t
               /\ \A w \in lateWrites' : w.phase = "entries" /\ w.t >= sjob'[k].t =>
                    w.got >= sjob'[k].floor
    BY <1>1, <1>2, <2>1, <2>2, <2>3, <2>5
  <2>6. CASE k # j
    <3>1. /\ Attempting(k) /\ sjob'[k].t = sjob[k].t /\ sjob'[k].floor = sjob[k].floor
          /\ sjob'[k].wrote = sjob[k].wrote /\ sjob'[k].got = sjob[k].got
      BY <1>1, <2>6 DEF Attempting
    <3> QED
      BY <2>4, <3>1 DEF SyncIInv, ScoresInOrder
  <2>7. CASE k = j
    BY <1>1, <2>4, <2>5, <2>7 DEF JobMoves, AttemptMoves, Attempting
  <2> QED
    BY <2>6, <2>7
<1>8. TransfersComplete' /\ CheckpointMeansComplete'
  <2>1. ASSUME NEW e \in SyncEntry
        PROVE  /\ transfer[e].through \in 0..1 /\ transfer'[e].through \in 0..1
               /\ transfer[e].at \in Nat /\ transfer'[e].at \in Nat
               /\ transfer'[e].through >= transfer[e].through
    BY DEF SyncIInv, SyncRecords, TransferMoves, TransferRecord
  <2>2. CheckpointMeansComplete'
    BY <2>1 DEF SyncIInv, CheckpointMeansComplete, TransferMoves
  <2>3. \A k \in ResultJob : sjob'[k].pc \in {"begun", "entries", "transfers"} =>
          /\ fpl.locked
          /\ sjob'[k].pc = "transfers" => \A e \in SyncEntry : sjob'[k].got[e] # NotFetched =>
               Head(sjob'[k].got[e]) = fpl.moves
    BY <1>1 DEF SyncIInv, TransfersComplete, JobMoves, ResultJob, SyncKind
  <2>4. \A w \in lateWrites' : w.phase = "transfers" => fpl.locked /\ w.got = fpl.moves
    <3> SUFFICES ASSUME NEW w \in lateWrites', w \notin lateWrites, w.phase = "transfers"
                 PROVE  fpl.locked /\ w.got = fpl.moves
      BY DEF SyncIInv, TransfersComplete
    <3>1. PICK e \in sjob[j].todo : sjob[j].got[e] # NotFetched /\ w.got = Head(sjob[j].got[e])
      BY DEF LateMoves
    <3>2. e \in SyncEntry
      BY <1>1, <3>1 DEF JobRecord
    <3> QED
      BY <3>1, <3>2 DEF LateMoves, SyncIInv, TransfersComplete
  <2>5. ASSUME NEW d \in SyncEntry, sjob'["pre"].got[d] # NotFetched,
               Head(sjob'["pre"].got[d]) # fpl.moves
        PROVE  Overtaken(sjob["pre"].t)' /\ sjob'["pre"].t = sjob["pre"].t
    <3>1. "pre" \in SyncKind
      BY DEF SyncKind
    <3>2. sjob'["pre"].got[d] = sjob["pre"].got[d] /\ sjob'["pre"].t = sjob["pre"].t
      BY <1>1, <2>5, <3>1 DEF JobMoves
    <3>3. Overtaken(sjob["pre"].t)
      BY <2>5, <3>2 DEF SyncIInv, TransfersComplete
    <3>4. \A e \in SyncEntry : transfer'[e].through >= 1 => transfer'[e].at > sjob'["pre"].t
      BY <1>2, <2>1, <2>5, <3>1, <3>2, <3>3 DEF Overtaken, TransferMoves
    <3>5. \A k \in ResultJob : sjob'[k].pc = "transfers" /\ sjob'[k].todo # {} =>
            sjob'[k].t > sjob'["pre"].t
      <4> SUFFICES ASSUME NEW k \in ResultJob, sjob'[k].pc = "transfers", sjob'[k].todo # {}
                   PROVE  sjob'[k].t > sjob'["pre"].t
        OBVIOUS
      <4>1. k \in SyncKind
        BY DEF ResultJob, SyncKind
      <4>2. CASE k = j
        BY <1>1, <1>2, <3>1, <3>2, <3>3, <4>1, <4>2 DEF JobMoves, Overtaken
      <4>3. CASE k # j
        BY <1>1, <3>2, <3>3, <4>1, <4>3 DEF Overtaken
      <4> QED
        BY <4>2, <4>3
    <3>6. \A w \in lateWrites' : w.phase = "transfers" => w.t > sjob'["pre"].t
      BY <3>2, <3>3 DEF Overtaken, LateMoves
    <3> QED
      BY <3>2, <3>4, <3>5, <3>6 DEF Overtaken
  <2>6. sjob'["post"].pc = "post" => \A e \in SyncEntry : transfer'[e].through >= 1
    <3>1. "post" \in SyncKind
      BY DEF SyncKind
    <3>2. sjob'["post"].pc = "post" => \A e \in SyncEntry : transfer[e].through >= 1
      BY <1>1, <3>1 DEF SyncIInv, TransfersComplete, JobMoves
    <3> QED
      BY <2>1, <3>2
  <2> QED
    BY <2>2, <2>3, <2>4, <2>5, <2>6 DEF TransfersComplete, Overtaken
<1>9. FinishedMeansStored'
  <2> SUFFICES ASSUME NEW k \in ResultJob, sjob'[k].pc = "ok", NEW e \in SyncEntry
               PROVE  ~(result'[e].at < sjob'[k].fresh) /\ ~(transfer'[e].through < 1)
    BY DEF FinishedMeansStored, StaleResult, NeedsTransfers, ResultJob
  <2>1. k \in SyncKind
    BY DEF ResultJob, SyncKind
  <2>2. /\ result[e].at \in Nat /\ result'[e].at \in Nat /\ result'[e].at >= result[e].at
        /\ transfer[e].through \in 0..1 /\ transfer'[e].through \in 0..1
        /\ transfer'[e].through >= transfer[e].through
    BY SMTT(30) DEF SyncIInv, SyncRecords, TransferMoves, TransferRecord, ResultMoves, ResultRecord
  <2>3. CASE k = j
    BY <1>1, <1>2, <2>2, <2>3 DEF JobMoves
  <2>4. CASE k # j
    BY <1>1, <1>2, <2>1, <2>2, <2>4
    DEF SyncIInv, FinishedMeansStored, StaleResult, NeedsTransfers, ResultJob
  <2> QED
    BY <2>3, <2>4
<1> QED
  BY <1>3, <1>4, <1>5, <1>6, <1>7, <1>8, <1>9 DEF SyncIInv

LEMMA RowsStay ==
  /\ SyncIInv /\ UNCHANGED result => ResultMoves
  /\ SyncIInv /\ UNCHANGED transfer => TransferMoves
  /\ SyncIInv /\ UNCHANGED leagueRow => LeagueMoves
  /\ \A j : UNCHANGED lateWrites => LateMoves(j)
BY DEF SyncIInv, SyncRecords, ResultMoves, TransferMoves, LeagueMoves, LateMoves

\* The types that the steps below work with.
LEMMA SyncTypes ==
  ASSUME SyncIInv
  PROVE  /\ stamp \in Nat /\ checkedAt \in Nat /\ checkedAt <= stamp /\ stamp <= sync.stamps
         /\ sync.stamps \in Nat /\ sync.faults \in Nat
         /\ fetchFaults \in Nat /\ fetchFaults <= sync.faults
         /\ fpl.score \in Nat /\ fpl.moves \in Nat /\ fpl.locked \in BOOLEAN
         /\ sjob \in [SyncKind -> JobRecord]
         /\ \A j \in SyncKind : /\ sjob[j] \in JobRecord /\ JobShape(sjob[j], j)
                                /\ sjob[j].t <= stamp /\ FinalOf(sjob[j])
BY SyncAssumption DEF SyncIInv, SyncRecords, JobShapes, StampsTaken, FinalScores

\* Jobs that are moved to another place and fetch or write nothing.
LEMMA BeginKeeps ==
  ASSUME SyncIInv, NEW j \in SyncKind, BeginAttempt(j)
  PROVE  SyncIInv'
<1> DEFINE s == [sjob[j] EXCEPT !.pc = IF j = "pre" THEN "transfers" ELSE "begun",
                                !.t = stamp + 1, !.floor = fpl.score,
                                !.todo = IF j = "pre" THEN SyncEntry ELSE {}]
<1>1. sjob' = [sjob EXCEPT ![j] = s] /\ sjob[j].pc = "ready" /\ stamp' = stamp + 1
  BY DEF BeginAttempt, TakeTimestamp
<1>2. /\ s \in JobRecord /\ s.t = stamp + 1 /\ s.floor = fpl.score /\ s.wrote = sjob[j].wrote
      /\ s.got = sjob[j].got /\ s.pc = IF j = "pre" THEN "transfers" ELSE "begun"
      /\ s.todo = IF j = "pre" THEN SyncEntry ELSE {}
  <2>1. sjob[j] \in JobRecord /\ stamp + 1 \in Nat /\ fpl.score \in Nat
    BY SyncTypes
  <2> QED
    BY <2>1 DEF JobRecord
<1> HIDE DEF s
<1>3. sjob[j].wrote = {} /\ \A e \in SyncEntry : sjob[j].got[e] = NotFetched
  BY SyncTypes, <1>1 DEF JobShape
<1>4. JobShape(s, j) /\ FinalOf(s)
  BY SyncTypes, <1>1, <1>2, <1>3, FetchedValues DEF BeginAttempt, JobShape, PcOf, FinalOf, ResultJob
<1>5. JobMoves(j, s)
  <2>1. j = "pre" \/ fpl.locked
    BY DEF BeginAttempt
  <2>2. AttemptMoves(j, s) /\ s.t <= stamp'
    BY SyncTypes, <1>1, <1>2, <1>3 DEF AttemptMoves
  <2> QED
    BY <1>1, <1>2, <1>3, <1>4, <2>1, <2>2 DEF JobMoves, ResultJob
<1>6. SyncMoves(j, s)
  BY SyncTypes, RowsStay, <1>1, <1>5 DEF BeginAttempt, TakeTimestamp, syncFacts, SyncMoves
<1> QED
  BY <1>6, MovesKeep

LEMMA PlanResultsKeeps ==
  ASSUME SyncIInv, NEW j \in SyncKind, PlanResults(j)
  PROVE  SyncIInv'
<1>1. PICK bound \in {1, sjob[j].t}, live \in PointsPayload :
        sjob' = [sjob EXCEPT ![j].pc = "entries", ![j].fresh = FreshAfter(j, bound),
                             ![j].live = live,
                             ![j].todo = {e \in SyncEntry : StaleResult(e, FreshAfter(j, bound))},
                             ![j].plan = {e \in SyncEntry : NeedsTransfers(e)}]
  BY DEF PlanResults
<1> DEFINE fresh == FreshAfter(j, bound)
           s == [sjob[j] EXCEPT !.pc = "entries", !.fresh = fresh, !.live = live,
                                !.todo = {e \in SyncEntry : StaleResult(e, fresh)},
                                !.plan = {e \in SyncEntry : NeedsTransfers(e)}]
<1>2. sjob' = [sjob EXCEPT ![j] = s] /\ sjob[j].pc = "begun" /\ j # "league"
  BY ZenonT(40), <1>1 DEF PlanResults
<1>3. fresh \in Nat /\ live \in Nat /\ (checkedAt # 0 => live = fpl.score)
  BY SyncTypes DEF FreshAfter, NewestOf, PointsPayload, JobRecord
<1> HIDE DEF fresh
<1>4. /\ s \in JobRecord /\ s.t = sjob[j].t /\ s.floor = sjob[j].floor /\ s.live = live
      /\ s.wrote = sjob[j].wrote /\ s.got = sjob[j].got /\ s.pc = "entries"
  BY SyncTypes, <1>3 DEF JobRecord
<1>5. /\ sjob[j].wrote = {} /\ j \in ResultJob
      /\ \A e \in SyncEntry : sjob[j].got[e] = NotFetched
  BY SyncTypes, <1>2 DEF JobShape, PcOf, SyncKind, ResultJob
<1> HIDE DEF s
<1>6. JobShape(s, j) /\ FinalOf(s)
  <2>1. s.pc \in PcOf(j)
    BY <1>4, <1>5 DEF PcOf, ResultJob
  <2>2. FinalOf(s)
    BY <1>3, <1>4, <1>5 DEF FinalOf
  <2> QED
    BY <1>4, <1>5, <2>1, <2>2 DEF JobShape
<1>7. Attempting(j) /\ fpl.locked
  BY <1>2, <1>5 DEF SyncIInv, TransfersComplete, Attempting
<1>8. JobMoves(j, s)
  BY SyncTypes, <1>2, <1>4, <1>5, <1>6, <1>7 DEF PlanResults, JobMoves, AttemptMoves, ResultJob
<1>9. SyncMoves(j, s)
  BY SyncTypes, RowsStay, <1>8 DEF PlanResults, syncFacts, SyncMoves
<1> QED
  BY <1>9, MovesKeep

LEMMA BeginTransfersKeeps ==
  ASSUME SyncIInv, NEW j \in SyncKind, BeginTransfers(j)
  PROVE  SyncIInv'
<1> DEFINE s == [sjob[j] EXCEPT !.pc = "transfers", !.wrote = {}, !.t = stamp', !.floor = 0,
                                !.live = 0, !.todo = sjob[j].plan, !.plan = {}]
<1>1. /\ sjob' = [sjob EXCEPT ![j] = s] /\ sjob[j].pc = "entries" /\ sjob[j].todo = {}
      /\ stamp' \in {stamp, stamp + 1} /\ stamp' <= sync.stamps
      /\ sjob[j].plan # {} => stamp' = stamp + 1
  <2>1. stamp \in Nat /\ sync.stamps \in Nat /\ stamp <= sync.stamps
    BY SyncTypes
  <2>2. stamp' \in {stamp, stamp + 1} /\ stamp' <= sync.stamps
    BY <2>1 DEF BeginTransfers, TakeTimestamp
  <2>3. sjob' = [sjob EXCEPT ![j] = s] /\ sjob[j].pc = "entries" /\ sjob[j].todo = {}
    BY DEF BeginTransfers
  <2>4. sjob[j].plan # {} => stamp' = stamp + 1
    BY DEF BeginTransfers, TakeTimestamp
  <2> QED
    BY <2>2, <2>3, <2>4
<1>2. /\ s \in JobRecord /\ s.t = stamp' /\ s.got = sjob[j].got /\ s.pc = "transfers"
      /\ s.todo = sjob[j].plan
  <2>1. sjob[j] \in JobRecord /\ stamp' \in Nat
    BY SyncTypes, <1>1
  <2> QED
    BY <2>1 DEF JobRecord
<1> HIDE DEF s
<1>3. j \in ResultJob /\ \A e \in SyncEntry : sjob[j].got[e] = NotFetched
  BY SyncTypes, <1>1 DEF JobShape, PcOf, SyncKind, ResultJob
<1>4. JobShape(s, j) /\ FinalOf(s)
  <2>1. s.pc \in PcOf(j)
    BY <1>2, <1>3 DEF PcOf, ResultJob
  <2>2. FinalOf(s)
    BY <1>2, <1>3 DEF FinalOf
  <2> QED
    BY <1>2, <1>3, <2>1, <2>2 DEF JobShape
<1>5. fpl.locked
  BY <1>1, <1>3 DEF SyncIInv, TransfersComplete
<1>6. JobMoves(j, s)
  BY SyncTypes, <1>1, <1>2, <1>3, <1>4, <1>5 DEF JobMoves, ResultJob
<1>7. SyncMoves(j, s)
  BY SyncTypes, RowsStay, <1>1, <1>6 DEF BeginTransfers, syncFacts, SyncMoves
<1> QED
  BY <1>7, MovesKeep

LEMMA PlanLeagueKeeps == SyncIInv /\ PlanLeague => SyncIInv'
<1> SUFFICES ASSUME SyncIInv, PlanLeague PROVE SyncIInv'
  OBVIOUS
<1> DEFINE j == "league"
<1>1. PICK bound \in {1, sjob[j].t} :
        sjob' = [sjob EXCEPT ![j].pc = "league", ![j].fresh = FreshAfter(j, bound),
                             ![j].todo = {e \in SyncEntry : StaleLeagueRow(e, FreshAfter(j, bound))}]
  BY DEF PlanLeague
<1> DEFINE fresh == FreshAfter(j, bound)
           s == [sjob[j] EXCEPT !.pc = "league", !.fresh = fresh,
                                !.todo = {e \in SyncEntry : StaleLeagueRow(e, fresh)}]
<1>2. sjob' = [sjob EXCEPT ![j] = s] /\ sjob[j].pc = "begun" /\ j \in SyncKind /\ j \notin ResultJob
  BY <1>1 DEF PlanLeague, SyncKind, ResultJob
<1>3. fresh \in Nat /\ fresh >= checkedAt
  BY SyncTypes, <1>2 DEF FreshAfter, NewestOf, JobRecord
<1> HIDE DEF fresh
<1>4. /\ s \in JobRecord /\ s.t = sjob[j].t /\ s.fresh = fresh
      /\ s.got = sjob[j].got /\ s.pc = "league"
  BY SyncTypes, <1>2, <1>3 DEF JobRecord
<1>5. \A e \in SyncEntry : sjob[j].got[e] = NotFetched
  BY SyncTypes, <1>2 DEF JobShape
<1>6. JobShape(s, j) /\ FinalOf(s)
  BY SyncTypes, <1>2, <1>3, <1>4, <1>5 DEF JobShape, PcOf, FinalOf
<1> HIDE DEF s
<1>7. JobMoves(j, s)
  BY SyncTypes, <1>2, <1>4, <1>6 DEF PlanLeague, JobMoves
<1>8. SyncMoves(j, s)
  BY SyncTypes, RowsStay, <1>7 DEF PlanLeague, syncFacts, SyncMoves
<1> QED
  BY <1>2, <1>8, MovesKeep

LEMMA BeginInfoKeeps == SyncIInv /\ BeginInfo => SyncIInv'
<1> SUFFICES ASSUME SyncIInv, BeginInfo PROVE SyncIInv'
  OBVIOUS
<1> DEFINE s == [Resting("history") EXCEPT !.got = [e \in SyncEntry |-> <<fpl.score>>]]
<1>1. sjob' = [sjob EXCEPT !["info"] = s] /\ "info" \in SyncKind /\ "info" \notin ResultJob
  BY DEF BeginInfo, SyncKind, ResultJob
<1>2. fpl.score \in Nat /\ stamp \in Nat /\ checkedAt \in Nat
  BY SyncTypes
<1>3. /\ s \in JobRecord /\ s.pc = "history" /\ s.t = 0 /\ s.todo = {}
      /\ \A e \in SyncEntry : s.got[e] = <<fpl.score>>
  BY <1>2, FetchedValues DEF Resting, JobRecord
<1> HIDE DEF s
<1>4. JobShape(s, "info")
  <2>1. s.pc \in PcOf("info")
    BY <1>3 DEF PcOf, ResultJob
  <2>2. \A e \in SyncEntry : OneValue(s.got[e])
    <3>1. OneValue(<<fpl.score>>)
      BY <1>2, FetchedValues
    <3> QED
      BY <1>3, <3>1
  <2>3. s.pc \notin {"ready", "begun"}
    BY <1>3
  <2> QED
    BY <1>3, <2>1, <2>2, <2>3 DEF JobShape
<1>5. JobMoves("info", s)
  <2>1. FinalOf(s) /\ s.t <= stamp'
    BY <1>2, <1>3 DEF FinalOf, BeginInfo
  <2> QED
    BY <1>1, <1>3, <1>4, <2>1 DEF JobMoves
<1>6. SyncMoves("info", s)
  BY SyncTypes, RowsStay, <1>5 DEF BeginInfo, syncFacts, SyncMoves
<1> QED
  BY <1>1, <1>6, MovesKeep

LEMMA ReadFinalizedKeeps == SyncIInv /\ ReadFinalized => SyncIInv'
<1> SUFFICES ASSUME SyncIInv, ReadFinalized PROVE SyncIInv'
  OBVIOUS
<1> DEFINE s == [sjob["info"] EXCEPT !.pc = "info", !.fresh = checkedAt, !.todo = SyncEntry]
<1>1. /\ sjob' = [sjob EXCEPT !["info"] = s] /\ sjob["info"].pc = "history"
      /\ "info" \in SyncKind /\ "info" \notin ResultJob
  BY DEF ReadFinalized, SyncKind, ResultJob
<1>2. sjob["info"] \in JobRecord /\ stamp \in Nat /\ checkedAt \in Nat /\ sjob["info"].t <= stamp
  BY SyncTypes, <1>1
<1>3. s \in JobRecord /\ s.pc = "info" /\ s.t = sjob["info"].t /\ s.got = sjob["info"].got
  BY <1>2 DEF JobRecord
<1> HIDE DEF s
<1>4. JobShape(s, "info")
  <2>1. s.pc \in PcOf("info")
    BY <1>3 DEF PcOf, ResultJob
  <2>2. \A e \in SyncEntry : OneValue(s.got[e])
    BY SyncTypes, <1>1, <1>3 DEF JobShape
  <2>3. s.pc \notin {"ready", "begun"}
    BY <1>3
  <2> QED
    BY <1>3, <2>1, <2>2, <2>3 DEF JobShape
<1>5. JobMoves("info", s)
  BY <1>1, <1>2, <1>3, <1>4 DEF ReadFinalized, JobMoves, FinalOf
<1>6. SyncMoves("info", s)
  BY SyncTypes, RowsStay, <1>5 DEF ReadFinalized, syncFacts, SyncMoves
<1> QED
  BY <1>1, <1>6, MovesKeep

LEMMA BeginPostKeeps == SyncIInv /\ BeginPost => SyncIInv'
<1> SUFFICES ASSUME SyncIInv, BeginPost PROVE SyncIInv'
  OBVIOUS
<1> DEFINE s == [Resting("post") EXCEPT !.got = [e \in SyncEntry |-> <<transfer[e].at>>]]
<1>1. sjob' = [sjob EXCEPT !["post"] = s] /\ "post" \in SyncKind /\ "post" \notin ResultJob
  BY DEF BeginPost, SyncKind, ResultJob
<1>2. stamp \in Nat /\ checkedAt \in Nat
  BY SyncTypes
<1>3. \A e \in SyncEntry : transfer[e].at \in Nat /\ transfer[e].through \in 0..1
  BY DEF SyncIInv, SyncRecords, TransferRecord
<1>4. s \in JobRecord /\ s.pc = "post" /\ s.t = 0 /\ s.todo = {}
  BY <1>3, FetchedValues DEF Resting, JobRecord
<1> HIDE DEF s
<1>5. JobShape(s, "post")
  BY <1>4 DEF JobShape, PcOf, ResultJob
<1>6. \A e \in SyncEntry : transfer[e].through >= 1
  BY <1>3 DEF BeginPost, NeedsTransfers
<1>7. JobMoves("post", s)
  <2>1. FinalOf(s) /\ s.t <= stamp'
    BY <1>2, <1>4 DEF FinalOf, BeginPost
  <2> QED
    BY <1>1, <1>4, <1>5, <1>6, <2>1 DEF JobMoves
<1>8. SyncMoves("post", s)
  BY SyncTypes, RowsStay, <1>7 DEF BeginPost, syncFacts, SyncMoves
<1> QED
  BY <1>1, <1>8, MovesKeep

LEMMA SyncAuditKeeps ==
  ASSUME SyncIInv, NEW j \in SyncKind, SyncAudit(j)
  PROVE  SyncIInv'
<1> DEFINE ends == MissingUnits(j) = {} /\ ~FinalizedMeanwhile(j)
           s == IF ends THEN [Resting("ok") EXCEPT !.fresh = sjob[j].fresh] ELSE Resting("ready")
<1>1. sjob' = [sjob EXCEPT ![j] = s]
  BY DEF SyncAudit
<1>2. sjob[j] \in JobRecord /\ stamp \in Nat /\ checkedAt \in Nat
  BY SyncTypes
<1>3. /\ s \in JobRecord /\ s.t = 0 /\ s.wrote = {} /\ s.todo = {}
      /\ \A e \in SyncEntry : s.got[e] = NotFetched
      /\ s.pc = IF ends THEN "ok" ELSE "ready"
      /\ ends => s.fresh = sjob[j].fresh
  <2>1. CASE ends
    BY <1>2, <2>1, FetchedValues DEF Resting, JobRecord
  <2>2. CASE ~ends
    BY <2>2, FetchedValues DEF Resting, JobRecord
  <2> QED
    BY <2>1, <2>2
<1>4. ends /\ j \in ResultJob =>
        \A e \in SyncEntry : ~(result[e].at < sjob[j].fresh) /\ ~(transfer[e].through < 1)
  BY DEF MissingUnits, StaleResult, NeedsTransfers, ResultJob
<1> HIDE DEF s, ends
<1>5. JobShape(s, j)
  BY <1>3 DEF JobShape, PcOf
<1>6. \A e \in SyncEntry : /\ result'[e].at \in Nat /\ result'[e] = result[e]
                           /\ transfer'[e].through \in 0..1 /\ transfer'[e] = transfer[e]
  BY DEF SyncAudit, syncFacts, SyncIInv, SyncRecords, ResultRecord, TransferRecord
<1>7. s.pc = "ok" /\ j \in ResultJob =>
        \A e \in SyncEntry : result'[e].at >= s.fresh /\ transfer'[e].through >= 1
  <2>1. sjob[j].fresh \in Nat
    BY <1>2 DEF JobRecord
  <2> QED
    BY <1>3, <1>4, <1>6, <2>1
<1>8. JobMoves(j, s)
  <2>1. s.pc \in {"ok", "ready"}
    BY <1>3
  <2>2. FinalOf(s) /\ s.t <= stamp'
    BY <1>2, <1>3 DEF FinalOf, SyncAudit
  <2> QED
    BY <1>1, <1>3, <1>5, <1>7, <2>1, <2>2 DEF JobMoves
<1>9. SyncMoves(j, s)
  BY SyncTypes, RowsStay, <1>8 DEF SyncAudit, syncFacts, SyncMoves
<1> QED
  BY <1>9, MovesKeep

(* The entries of a job.                                                   *)

LEMMA SyncFetchKeeps ==
  ASSUME SyncIInv, NEW j \in SyncKind, NEW e \in SyncEntry, SyncFetch(j, e)
  PROVE  SyncIInv'
<1> DEFINE v == CASE sjob[j].pc = "entries" -> <<fpl.score>>
                  [] sjob[j].pc = "transfers" -> <<fpl.moves>>
                  [] OTHER -> IF StaleResult(e, sjob[j].fresh) THEN <<fpl.score, "sync">>
                              ELSE <<result[e].score, result[e].by>>
           s == [sjob[j] EXCEPT !.got[e] = v]
<1>1. /\ sjob' = [sjob EXCEPT ![j] = s] /\ e \in sjob[j].todo
      /\ sjob[j].pc \in {"entries", "transfers", "league"}
  BY DEF SyncFetch
<1>2. /\ sjob[j] \in JobRecord /\ stamp \in Nat /\ checkedAt \in Nat /\ sjob[j].t <= stamp
      /\ fpl.score \in Nat /\ fpl.moves \in Nat /\ JobShape(sjob[j], j) /\ FinalOf(sjob[j])
      /\ result[e].score \in Nat /\ result[e].by \in RowWriter /\ result[e].at \in Nat
  BY SyncTypes DEF SyncIInv, SyncRecords, ResultRecord
<1>3. /\ v \in Fetched /\ v # NotFetched
      /\ sjob[j].pc = "entries" => v = <<fpl.score>> /\ OneValue(v) /\ Head(v) = fpl.score
      /\ sjob[j].pc = "transfers" => v = <<fpl.moves>> /\ OneValue(v) /\ Head(v) = fpl.moves
      /\ sjob[j].pc = "league" =>
           /\ TwoValues(v)
           /\ v[2] = "sync" => \/ v[1] = fpl.score
                               \/ /\ ~StaleResult(e, sjob[j].fresh)
                                  /\ result[e].by = "sync" /\ v[1] = result[e].score
  <2>1. CASE sjob[j].pc = "entries"
    BY <1>2, <2>1, FetchedValues
  <2>2. CASE sjob[j].pc = "transfers"
    BY <1>2, <2>2, FetchedValues
  <2>3. CASE sjob[j].pc = "league"
    <3>1. v = IF StaleResult(e, sjob[j].fresh) THEN <<fpl.score, "sync">>
              ELSE <<result[e].score, result[e].by>>
      BY <2>3
    <3>2. "sync" \in RowWriter
      BY DEF RowWriter
    <3> HIDE DEF v
    <3>3. CASE StaleResult(e, sjob[j].fresh)
      <4>1. v = <<fpl.score, "sync">>
        BY <3>1, <3>3
      <4> QED
        BY <1>2, <2>3, <3>2, <4>1, FetchedValues
    <3>4. CASE ~StaleResult(e, sjob[j].fresh)
      <4>1. v = <<result[e].score, result[e].by>>
        BY <3>1, <3>4
      <4>2. /\ v \in Fetched /\ v # NotFetched /\ TwoValues(v)
            /\ v[1] = result[e].score /\ v[2] = result[e].by
        BY <1>2, <4>1, FetchedValues
      <4> QED
        BY <2>3, <3>4, <4>2
    <3> QED
      BY <3>3, <3>4
  <2> QED
    BY <1>1, <2>1, <2>2, <2>3
<1> HIDE DEF v
<1>4. /\ s \in JobRecord /\ s.pc = sjob[j].pc /\ s.t = sjob[j].t /\ s.floor = sjob[j].floor
      /\ s.live = sjob[j].live /\ s.fresh = sjob[j].fresh /\ s.todo = sjob[j].todo
      /\ s.wrote = sjob[j].wrote /\ s.got[e] = v
      /\ \A d \in SyncEntry \ {e} : s.got[d] = sjob[j].got[d]
  BY <1>2, <1>3 DEF JobRecord
<1> HIDE DEF s
<1>5. JobShape(s, j)
  BY <1>1, <1>2, <1>3, <1>4 DEF JobShape
<1>6. FinalOf(s)
  <2> SUFFICES ASSUME checkedAt # 0, s.t >= checkedAt PROVE FinalOf(s)
    BY DEF FinalOf
  <2>1. sjob[j].pc = "league" /\ v[2] = "sync" => v[1] = fpl.score
    <3>1. sjob[j].pc = "league" => sjob[j].fresh >= checkedAt
      BY <1>2, <1>4 DEF FinalOf
    <3>2. sjob[j].fresh \in Nat
      BY <1>2 DEF JobRecord
    <3> QED
      BY <1>2, <1>3, <3>1, <3>2 DEF SyncIInv, AcceptedRowIsFinal, StaleResult
  <2> QED
    BY <1>2, <1>3, <1>4, <2>1 DEF FinalOf
<1>7. j \in ResultJob =>
        /\ s.pc \in {"begun", "entries"} => AttemptMoves(j, s) /\ fpl.locked
        /\ s.pc = "transfers" => fpl.locked /\ \A d \in SyncEntry : s.got[d] # NotFetched =>
             Head(s.got[d]) = fpl.moves
  <2> SUFFICES ASSUME j \in ResultJob
               PROVE  /\ s.pc \in {"begun", "entries"} => AttemptMoves(j, s) /\ fpl.locked
                      /\ s.pc = "transfers" => fpl.locked /\ \A d \in SyncEntry :
                           s.got[d] # NotFetched => Head(s.got[d]) = fpl.moves
    OBVIOUS
  <2>1. CASE s.pc = "entries"
    <3>1. Attempting(j) /\ fpl.locked
      BY <1>4, <2>1 DEF SyncIInv, TransfersComplete, Attempting
    <3>2. /\ sjob[j].floor <= fpl.score /\ sjob[j].floor \in Nat
          /\ \A d \in SyncEntry : sjob[j].got[d] # NotFetched =>
               Head(sjob[j].got[d]) >= sjob[j].floor
      BY <1>2, <3>1 DEF SyncIInv, ScoresInOrder, JobRecord
    <3>3. Head(v) = fpl.score
      BY <1>3, <1>4, <2>1
    <3>4. \A d \in SyncEntry : s.got[d] # NotFetched => Head(s.got[d]) >= s.floor
      BY <1>2, <1>4, <3>2, <3>3
    <3> QED
      BY <1>4, <2>1, <3>1, <3>4 DEF AttemptMoves
  <2>2. CASE s.pc = "transfers"
    BY <1>1, <1>2, <1>3, <1>4, <2>2 DEF SyncIInv, TransfersComplete
  <2> QED
    BY <1>1, <1>4, <2>1, <2>2
<1>8. j = "pre" => \A d \in SyncEntry : s.got[d] # NotFetched =>
                      Head(s.got[d]) = fpl.moves \/ (s.got[d] = sjob[j].got[d] /\ s.t = sjob[j].t)
  <2>1. j = "pre" => sjob[j].pc = "transfers"
    BY <1>1, <1>2 DEF JobShape, PcOf, ResultJob
  <2> QED
    BY <1>3, <1>4, <2>1
<1>9. JobMoves(j, s)
  BY <1>1, <1>2, <1>4, <1>5, <1>6, <1>7, <1>8 DEF SyncFetch, JobMoves
<1>10. SyncMoves(j, s)
  BY SyncTypes, RowsStay, <1>9 DEF SyncFetch, syncFacts, SyncMoves
<1> QED
  BY <1>10, MovesKeep

\* An entry of a job is done or given up: what was fetched is forgotten.
LEMMA EntryLeaves ==
  ASSUME SyncIInv, NEW j \in SyncKind, NEW e \in SyncEntry, NEW wrote \in SUBSET SyncEntry,
         NEW s, s = [sjob[j] EXCEPT !.todo = @ \ {e}, !.wrote = wrote, !.got[e] = NotFetched],
         sjob' = [sjob EXCEPT ![j] = s], stamp' = stamp,
         sjob[j].pc \in {"entries", "transfers", "league", "info"},
         sjob[j].pc = "entries" => \A d \in wrote : d \in sjob[j].wrote \/ result'[d].at >= sjob[j].t
  PROVE  JobMoves(j, s)
<1>1. /\ sjob[j] \in JobRecord /\ stamp \in Nat /\ checkedAt \in Nat /\ sjob[j].t <= stamp
      /\ JobShape(sjob[j], j) /\ FinalOf(sjob[j])
  BY SyncTypes
<1>2. /\ s \in JobRecord /\ s.pc = sjob[j].pc /\ s.t = sjob[j].t /\ s.floor = sjob[j].floor
      /\ s.live = sjob[j].live /\ s.fresh = sjob[j].fresh /\ s.todo = sjob[j].todo \ {e}
      /\ s.wrote = wrote /\ s.got[e] = NotFetched
      /\ \A d \in SyncEntry \ {e} : s.got[d] = sjob[j].got[d]
  <2>1. NotFetched \in Fetched
    BY FetchedValues
  <2> QED
    BY <1>1, <2>1 DEF JobRecord
<1>3. JobShape(s, j) /\ FinalOf(s)
  <2>1. JobShape(s, j)
    BY <1>1, <1>2 DEF JobShape
  <2> QED
    BY <1>1, <1>2, <2>1 DEF FinalOf
<1>4. ASSUME j \in ResultJob, s.pc = "entries" PROVE AttemptMoves(j, s) /\ fpl.locked
  BY <1>2, <1>4 DEF SyncIInv, ScoresInOrder, TransfersComplete, Attempting, AttemptMoves
<1>5. ASSUME j \in ResultJob, s.pc = "transfers"
      PROVE  /\ fpl.locked
             /\ \A d \in SyncEntry : s.got[d] # NotFetched => Head(s.got[d]) = fpl.moves
             /\ s.todo # {} => sjob[j].todo # {}
  BY <1>2, <1>5 DEF SyncIInv, TransfersComplete
<1> QED
  BY <1>1, <1>2, <1>3, <1>4, <1>5 DEF JobMoves

LEMMA SyncEntryFailsKeeps ==
  ASSUME SyncIInv, NEW j \in SyncKind, NEW e \in SyncEntry, SyncEntryFails(j, e)
  PROVE  SyncIInv'
<1> DEFINE s == [sjob[j] EXCEPT !.todo = @ \ {e}, !.wrote = sjob[j].wrote, !.got[e] = NotFetched]
<1>1. /\ sjob[j] \in JobRecord /\ JobShape(sjob[j], j) /\ sjob \in [SyncKind -> JobRecord]
      /\ fetchFaults \in Nat /\ sync.faults \in Nat
  BY SyncTypes
<1>2. sjob' = [sjob EXCEPT ![j] = s]
  <2>1. sjob' = [sjob EXCEPT ![j] = [sjob[j] EXCEPT !.todo = @ \ {e}, !.got[e] = NotFetched]]
    BY DEF SyncEntryFails
  <2>2. s = [sjob[j] EXCEPT !.todo = @ \ {e}, !.got[e] = NotFetched]
    BY <1>1 DEF JobRecord
  <2> QED
    BY <2>1, <2>2
<1>3. sjob[j].pc \in {"entries", "transfers", "league", "info"}
  BY <1>1 DEF SyncEntryFails, JobShape
<1>4. JobMoves(j, s)
  BY <1>1, <1>2, <1>3, EntryLeaves DEF SyncEntryFails, JobRecord
<1>5. LateMoves(j)
  <2> SUFFICES ASSUME NEW w \in lateWrites', w \notin lateWrites
               PROVE  /\ w \in LateRecord /\ j \in ResultJob
                      /\ w.t = sjob[j].t /\ w.phase = sjob[j].pc /\ w.live = sjob[j].live
                      /\ \E d \in sjob[j].todo : sjob[j].got[d] # NotFetched
                                                 /\ w.got = Head(sjob[j].got[d])
    BY DEF LateMoves
  <2>1. w \in GivenUpWrite(j, e) /\ e \in sjob[j].todo
    BY DEF SyncEntryFails
  <2>2. PICK v \in Range(sjob[j].got[e]) :
          /\ w = [phase |-> sjob[j].pc, job |-> j, entry |-> e, t |-> sjob[j].t, got |-> v,
                  live |-> sjob[j].live]
          /\ sjob[j].pc \in {"entries", "transfers"} /\ j # "pre"
    BY <2>1 DEF GivenUpWrite
  <2>3. j \in ResultJob
    BY <1>1, <2>2 DEF JobShape, PcOf, ResultJob, SyncKind
  <2>4. sjob[j].got[e] # NotFetched
    BY <2>2, FetchedValues
  <2>5. OneValue(sjob[j].got[e])
    BY <1>1, <2>2, <2>4 DEF JobShape
  <2>6. v = Head(sjob[j].got[e]) /\ v \in Nat
    BY <2>2, <2>5, FetchedValues
  <2>7. w \in LateRecord
    BY <1>1, <2>2, <2>3, <2>6 DEF LateRecord, JobRecord
  <2> QED
    BY <2>1, <2>2, <2>3, <2>4, <2>6, <2>7
<1> HIDE DEF s
<1>6. SyncMoves(j, s)
  BY SyncTypes, RowsStay, <1>1, <1>4, <1>5 DEF SyncEntryFails, syncFacts, SyncMoves
<1> QED
  BY <1>6, MovesKeep

\* A transaction's write of a result, and of a transfer history.
LEMMA StoreResultMoves ==
  ASSUME SyncIInv, NEW e \in SyncEntry, NEW t \in Nat, NEW value \in Nat, NEW live \in Nat,
         StoreResult(e, t, value, live), t <= stamp,
         checkedAt # 0 /\ t >= checkedAt => value = fpl.score /\ live = fpl.score,
         \A k \in ResultJob : Attempting(k) /\ t >= sjob[k].t => value >= sjob[k].floor
  PROVE  ResultMoves /\ result'[e].at >= t
<1>1. result \in [SyncEntry -> ResultRecord]
  BY DEF SyncIInv, SyncRecords
<1>2. CASE ~Supersedes(result[e].at, t)
  <2>1. result' = result /\ ~(result[e].at < t)
    BY <1>2 DEF StoreResult, Supersedes
  <2> QED
    BY <1>1, <2>1 DEF ResultMoves, ResultRecord
<1>3. CASE Supersedes(result[e].at, t)
  <2> DEFINE written == [at |-> t, score |-> value, live |-> live, by |-> "sync"]
  <2>1. result' = [result EXCEPT ![e] = written] /\ result[e].at < t
    BY <1>3 DEF StoreResult, Supersedes
  <2>2. written \in ResultRecord /\ written.at = t /\ written.score = value /\ written.live = live
    BY DEF ResultRecord, RowWriter
  <2> HIDE DEF written
  <2>3. /\ result' \in [SyncEntry -> ResultRecord] /\ result'[e] = written
        /\ \A d \in SyncEntry \ {e} : result'[d] = result[d]
    BY <1>1, <2>1, <2>2
  <2>4. result[e].at \in Nat
    BY <1>1 DEF ResultRecord
  <2> QED
    BY <2>1, <2>2, <2>3, <2>4 DEF ResultMoves
<1> QED
  BY <1>2, <1>3

LEMMA StoreTransfersMoves ==
  ASSUME SyncIInv, NEW e \in SyncEntry, NEW t \in Nat, NEW moves \in Nat, NEW through \in 0..1,
         StoreTransfers(e, t, moves, through), t <= stamp,
         through = 1 \/ (transfer[e].through >= 1 /\ transfer[e].at < t) =>
           fpl.locked /\ moves = fpl.moves,
         through = 1 => \A d \in SyncEntry :
           sjob["pre"].got[d] # NotFetched /\ Head(sjob["pre"].got[d]) # fpl.moves =>
             t > sjob["pre"].t
  PROVE  TransferMoves
<1>1. transfer \in [SyncEntry -> TransferRecord]
  BY DEF SyncIInv, SyncRecords
<1>2. CASE transfer[e].at >= t
  BY <1>1, <1>2 DEF StoreTransfers, TransferMoves
<1>3. CASE ~(transfer[e].at >= t)
  <2> DEFINE written == [transfer[e] EXCEPT !.at = t, !.moves = moves,
                       !.through = NewestOf(@, through),
                       !.enriched = @ /\ transfer[e].moves = moves]
  <2>0. transfer[e] \in TransferRecord
    BY <1>1
  <2>1. transfer' = [transfer EXCEPT ![e] = written]
    BY <1>1, <1>3 DEF StoreTransfers
  <2>2. /\ written \in TransferRecord /\ written.at = t /\ written.moves = moves
        /\ written.through >= transfer[e].through
        /\ written.through >= 1 => through = 1 \/ transfer[e].through >= 1
    <3>1. transfer[e].through \in 0..1 /\ transfer[e].enriched \in BOOLEAN
      BY <2>0 DEF TransferRecord
    <3>2. NewestOf(transfer[e].through, through) \in 0..1
      BY <3>1 DEF NewestOf
    <3>3. (transfer[e].enriched /\ transfer[e].moves = moves) \in BOOLEAN
      OBVIOUS
    <3>4. /\ written.through = NewestOf(transfer[e].through, through)
          /\ written.at = t /\ written.moves = moves
      BY <2>0 DEF TransferRecord
    <3>5. written \in TransferRecord
      BY <2>0, <3>2, <3>3 DEF TransferRecord
    <3> QED
      BY <3>1, <3>4, <3>5 DEF NewestOf
  <2>3. written.enriched => transfer[e].enriched
    BY <2>0 DEF TransferRecord
  <2> HIDE DEF written
  <2>4. /\ transfer' \in [SyncEntry -> TransferRecord] /\ transfer'[e] = written
        /\ \A d \in SyncEntry \ {e} : transfer'[d] = transfer[d]
    BY <1>1, <2>1, <2>2
  <2>5. transfer[e].at \in Nat /\ transfer[e].through \in 0..1
    BY <2>0 DEF TransferRecord
  <2>6. t > transfer[e].at
    BY <1>3, <2>5
  <2> QED
    BY <2>2, <2>3, <2>4, <2>5, <2>6 DEF TransferMoves
<1> QED
  BY <1>2, <1>3

LEMMA PersistEntryKeeps ==
  ASSUME SyncIInv, NEW j \in SyncKind, NEW e \in SyncEntry, PersistEntry(j, e)
  PROVE  SyncIInv'
<1> DEFINE s == [sjob[j] EXCEPT !.todo = @ \ {e}, !.wrote = sjob[j].wrote \cup {e},
                                !.got[e] = NotFetched]
           v == Head(sjob[j].got[e])
<1>1. /\ sjob[j] \in JobRecord /\ JobShape(sjob[j], j) /\ FinalOf(sjob[j])
      /\ sjob[j].t \in Nat /\ sjob[j].live \in Nat /\ sjob[j].t <= stamp /\ stamp \in Nat
      /\ checkedAt \in Nat /\ sjob[j].wrote \subseteq SyncEntry
  BY SyncTypes DEF JobRecord
<1>2. sjob' = [sjob EXCEPT ![j] = s] /\ stamp' = stamp /\ sjob[j].got[e] # NotFetched
  BY DEF PersistEntry, EntryDone
<1>3. /\ sjob[j].pc \in {"entries", "transfers"}
      /\ sjob[j].pc = "entries" => StoreResult(e, sjob[j].t, v, sjob[j].live) /\ UNCHANGED transfer
      /\ sjob[j].pc = "transfers" =>
           StoreTransfers(e, sjob[j].t, v, CheckpointThrough(j)) /\ UNCHANGED result
  BY DEF PersistEntry
<1>4. e \in sjob[j].todo /\ OneValue(sjob[j].got[e]) /\ v \in Nat
  BY <1>1, <1>2, <1>3, FetchedValues DEF JobShape
<1> HIDE DEF v
<1>5. ASSUME sjob[j].pc = "entries" PROVE ResultMoves /\ result'[e].at >= sjob[j].t
  <2>1. j \in ResultJob /\ Attempting(j)
    BY <1>1, <1>5 DEF JobShape, PcOf, ResultJob, SyncKind, Attempting
  <2>2. checkedAt # 0 /\ sjob[j].t >= checkedAt => v = fpl.score /\ sjob[j].live = fpl.score
    BY <1>1, <1>2, <1>5 DEF FinalOf, v
  <2>3. ASSUME NEW k \in ResultJob, Attempting(k), sjob[j].t >= sjob[k].t PROVE v >= sjob[k].floor
    <3>1. v >= sjob[j].floor /\ sjob[j].floor >= sjob[k].floor
      BY <1>2, <2>1, <2>3 DEF SyncIInv, ScoresInOrder, v
    <3>2. sjob[j].floor \in Nat /\ sjob[k].floor \in Nat
      BY SyncTypes DEF JobRecord, ResultJob, SyncKind
    <3> QED
      BY <1>4, <3>1, <3>2
  <2> QED
    BY <1>1, <1>3, <1>4, <1>5, <2>2, <2>3, StoreResultMoves
<1>6. ASSUME sjob[j].pc = "transfers" PROVE TransferMoves
  <2>1. j \in ResultJob \/ j = "pre"
    BY <1>1, <1>6 DEF JobShape, PcOf, ResultJob, SyncKind
  <2>2. CASE j \in ResultJob
    <3>1. CheckpointThrough(j) = 1
      BY <2>2 DEF CheckpointThrough, ResultJob
    <3>2. fpl.locked /\ v = fpl.moves
      BY <1>2, <1>6, <2>2 DEF SyncIInv, TransfersComplete, v
    <3>3. \A d \in SyncEntry :
            sjob["pre"].got[d] # NotFetched /\ Head(sjob["pre"].got[d]) # fpl.moves =>
              sjob[j].t > sjob["pre"].t
      BY <1>4, <1>6, <2>2 DEF SyncIInv, TransfersComplete, Overtaken
    <3> QED
      BY <1>1, <1>3, <1>4, <1>6, <3>1, <3>2, <3>3, StoreTransfersMoves
  <2>3. CASE j = "pre"
    <3>1. CheckpointThrough(j) = 0
      BY <2>3 DEF CheckpointThrough
    <3>2. transfer[e].through >= 1 => fpl.locked
      BY DEF SyncIInv, CheckpointMeansComplete
    <3>3. ASSUME transfer[e].through >= 1, transfer[e].at < sjob[j].t PROVE v = fpl.moves
      <4>1. v # fpl.moves => transfer[e].at > sjob[j].t
        BY <1>2, <2>3, <3>3 DEF SyncIInv, TransfersComplete, Overtaken, v
      <4>2. transfer[e].at \in Nat
        BY DEF SyncIInv, SyncRecords, TransferRecord
      <4> QED
        BY <1>1, <3>3, <4>1, <4>2
    <3> QED
      BY <1>1, <1>3, <1>4, <1>6, <3>1, <3>2, <3>3, StoreTransfersMoves
  <2> QED
    BY <2>1, <2>2, <2>3
<1>7. ResultMoves /\ TransferMoves
  BY <1>3, <1>5, <1>6, RowsStay
<1>8. JobMoves(j, s)
  BY ZenonT(40), <1>1, <1>2, <1>3, <1>5, EntryLeaves
<1> HIDE DEF s
<1>9. SyncMoves(j, s)
  BY SyncTypes, RowsStay, <1>7, <1>8 DEF PersistEntry, SyncMoves
<1> QED
  BY <1>9, MovesKeep

\* A step that moves no job.
LEMMA JobsStay ==
  ASSUME SyncIInv, UNCHANGED <<sjob, stamp>>, ResultMoves, TransferMoves
  PROVE  JobMoves("league", sjob["league"])
<1>1. "league" \in SyncKind /\ "league" \notin ResultJob
  BY DEF SyncKind, ResultJob
<1> QED
  BY <1>1, SyncTypes DEF JobMoves

LEMMA LateCommitKeeps ==
  ASSUME SyncIInv, NEW w \in lateWrites, LateCommit(w)
  PROVE  SyncIInv'
<1>1. /\ w \in LateRecord /\ w.entry \in SyncEntry /\ w.t \in Nat /\ w.got \in Nat /\ w.live \in Nat
      /\ w.job \in ResultJob /\ w.t <= stamp /\ stamp \in Nat /\ checkedAt \in Nat
  BY SyncTypes DEF SyncIInv, SyncRecords, StampsTaken, LateRecord
<1>2. ResultMoves
  <2>1. CASE w.phase = "entries"
    BY <1>1, <2>1, StoreResultMoves DEF LateCommit, SyncIInv, FinalScores, ScoresInOrder
  <2>2. CASE w.phase # "entries"
    BY <2>2, RowsStay DEF LateCommit
  <2> QED
    BY <2>1, <2>2
<1>3. TransferMoves
  <2>1. CASE w.phase = "transfers"
    <3>1. CheckpointThrough(w.job) = 1
      BY <1>1 DEF CheckpointThrough, ResultJob
    <3>2. fpl.locked /\ w.got = fpl.moves
      BY <2>1 DEF SyncIInv, TransfersComplete
    <3>3. \A d \in SyncEntry :
            sjob["pre"].got[d] # NotFetched /\ Head(sjob["pre"].got[d]) # fpl.moves =>
              w.t > sjob["pre"].t
      BY <2>1 DEF SyncIInv, TransfersComplete, Overtaken
    <3>4. StoreTransfers(w.entry, w.t, w.got, 1)
      BY <2>1, <3>1 DEF LateCommit
    <3> QED
      BY <1>1, <3>2, <3>3, <3>4, StoreTransfersMoves
  <2>2. CASE w.phase # "transfers"
    BY <2>2, RowsStay DEF LateCommit
  <2> QED
    BY <2>1, <2>2
<1>4. JobMoves("league", sjob["league"]) /\ "league" \in SyncKind
  BY <1>2, <1>3, JobsStay DEF LateCommit, SyncKind
<1>5. LateMoves("league")
  BY DEF LateCommit, LateMoves
<1>6. SyncMoves("league", sjob["league"])
  BY SyncTypes, RowsStay, <1>2, <1>3, <1>4, <1>5 DEF LateCommit, SyncMoves
<1> QED
  BY <1>4, <1>6, MovesKeep

LEMMA PersistLeagueKeeps == SyncIInv /\ PersistLeague => SyncIInv'
<1> SUFFICES ASSUME SyncIInv, PersistLeague PROVE SyncIInv'
  OBVIOUS
<1> DEFINE j == sjob["league"]
           s == [j EXCEPT !.todo = {}, !.got = Resting("ready").got]
<1>1. /\ sjob' = [sjob EXCEPT !["league"] = s] /\ stamp' = stamp
      /\ j.pc = "league" /\ "league" \in SyncKind /\ "league" \notin ResultJob
  BY DEF PersistLeague, SyncKind, ResultJob
<1>2. /\ j \in JobRecord /\ JobShape(j, "league") /\ FinalOf(j) /\ j.t \in Nat /\ j.t <= stamp
      /\ stamp \in Nat /\ checkedAt \in Nat
  BY <1>1, SyncTypes DEF JobRecord
<1>3. /\ s \in JobRecord /\ s.pc = "league" /\ s.t = j.t /\ s.fresh = j.fresh /\ s.todo = {}
      /\ \A e \in SyncEntry : s.got[e] = NotFetched
  <2>1. /\ Resting("ready").got = [e \in SyncEntry |-> NotFetched]
        /\ [e \in SyncEntry |-> NotFetched] \in [SyncEntry -> Fetched]
    BY FetchedValues DEF Resting
  <2> QED
    BY <1>1, <1>2, <2>1 DEF JobRecord
<1>4. JobMoves("league", s)
  <2> HIDE DEF s
  <2>1. JobShape(s, "league")
    BY <1>2, <1>3 DEF JobShape, PcOf, ResultJob
  <2>2. FinalOf(s)
    BY <1>1, <1>2, <1>3 DEF FinalOf
  <2> QED
    BY <1>1, <1>2, <1>3, <2>1, <2>2 DEF JobMoves
<1>5. LeagueMoves
  <2>1. ASSUME NEW e \in SyncEntry, e \in j.todo
        PROVE  /\ j.got[e] # NotFetched /\ j.got[e][1] \in Nat /\ j.got[e][2] \in RowWriter
               /\ checkedAt # 0 /\ j.t >= checkedAt /\ j.got[e][2] = "sync" =>
                    j.got[e][1] = fpl.score
    <3>1. j.got[e] # NotFetched
      BY <2>1 DEF PersistLeague
    <3>2. TwoValues(j.got[e])
      BY <1>1, <1>2, <3>1 DEF JobShape
    <3> QED
      BY <1>1, <1>2, <3>1, <3>2, FetchedValues DEF FinalOf
  <2>2. leagueRow' = [e \in SyncEntry |->
                        IF e \in j.todo /\ Supersedes(leagueRow[e].at, j.t)
                        THEN [at |-> j.t, score |-> j.got[e][1], by |-> j.got[e][2]]
                        ELSE leagueRow[e]]
    BY DEF PersistLeague
  <2>3. leagueRow \in [SyncEntry -> LeagueRecord]
    BY DEF SyncIInv, SyncRecords
  <2> HIDE DEF j
  <2>4. ASSUME NEW e \in SyncEntry
        PROVE  /\ leagueRow'[e] \in LeagueRecord
               /\ \/ leagueRow'[e] = leagueRow[e]
                  \/ /\ leagueRow'[e].at <= stamp
                     /\ checkedAt # 0 /\ leagueRow'[e].at >= checkedAt
                          /\ leagueRow'[e].by = "sync" => leagueRow'[e].score = fpl.score
    <3>1. CASE e \in j.todo /\ Supersedes(leagueRow[e].at, j.t)
      <4>1. leagueRow'[e] = [at |-> j.t, score |-> j.got[e][1], by |-> j.got[e][2]]
        BY <2>2, <3>1
      <4> QED
        BY <1>2, <2>1, <3>1, <4>1 DEF LeagueRecord
    <3>2. CASE ~(e \in j.todo /\ Supersedes(leagueRow[e].at, j.t))
      BY <2>2, <2>3, <3>2
    <3> QED
      BY <3>1, <3>2
  <2>5. DOMAIN leagueRow' = SyncEntry /\ leagueRow' = [e \in SyncEntry |-> leagueRow'[e]]
    BY <2>2
  <2> QED
    BY <2>4, <2>5 DEF LeagueMoves
<1> HIDE DEF s
<1>6. SyncMoves("league", s)
  BY SyncTypes, RowsStay, <1>4, <1>5 DEF PersistLeague, SyncMoves
<1> QED
  BY <1>1, <1>6, MovesKeep

LEMMA PersistInfoKeeps ==
  ASSUME SyncIInv, NEW e \in SyncEntry, PersistInfo(e)
  PROVE  SyncIInv'
<1> DEFINE s == [sjob["info"] EXCEPT !.todo = @ \ {e}, !.wrote = sjob["info"].wrote \cup {e},
                                     !.got[e] = NotFetched]
           v == Head(sjob["info"].got[e])
<1>1. /\ sjob' = [sjob EXCEPT !["info"] = s] /\ stamp' = stamp
      /\ sjob["info"].pc = "info" /\ e \in sjob["info"].todo
      /\ "info" \in SyncKind
  BY DEF PersistInfo, EntryDone, SyncKind
<1>2. sjob["info"] \in JobRecord /\ JobShape(sjob["info"], "info")
      /\ sjob["info"].wrote \subseteq SyncEntry
  BY <1>1, SyncTypes DEF JobRecord
<1>3. v \in Nat
  <2>1. OneValue(sjob["info"].got[e])
    BY <1>1, <1>2 DEF JobShape
  <2> QED
    BY <2>1, FetchedValues
<1>4. JobMoves("info", s)
  BY <1>1, <1>2, EntryLeaves
<1> HIDE DEF s
<1>5. ResultMoves
  <2>1. result \in [SyncEntry -> ResultRecord]
    BY DEF SyncIInv, SyncRecords
  <2>2. CASE sjob["info"].fresh = 0
    BY <2>2, RowsStay DEF PersistInfo
  <2>3. CASE sjob["info"].fresh # 0
    <3> DEFINE written == [result[e] EXCEPT !.score = v, !.by = "history"]
    <3>1. result' = [result EXCEPT ![e] = written]
      BY <2>3 DEF PersistInfo
    <3>2. result[e] \in ResultRecord
      BY <2>1
    <3> HIDE DEF v
    <3>3. /\ written \in ResultRecord /\ written.at = result[e].at /\ written.live = result[e].live
          /\ written.by = "history"
      BY <1>3, <3>2 DEF ResultRecord, RowWriter
    <3> HIDE DEF written
    <3>4. /\ result' \in [SyncEntry -> ResultRecord] /\ result'[e] = written
          /\ \A d \in SyncEntry \ {e} : result'[d] = result[d]
      BY <2>1, <3>1, <3>3
    <3> QED
      BY <3>3, <3>4 DEF ResultMoves
  <2> QED
    BY <2>2, <2>3
<1>6. SyncMoves("info", s)
  BY SyncTypes, RowsStay, <1>4, <1>5 DEF PersistInfo, SyncMoves
<1> QED
  BY <1>1, <1>6, MovesKeep

LEMMA PersistPostKeeps == SyncIInv /\ PersistPost => SyncIInv'
<1> SUFFICES ASSUME SyncIInv, PersistPost PROVE SyncIInv'
  OBVIOUS
<1> DEFINE ready == {e \in SyncEntry : result[e].at > 0}
<1>1. PICK pc \in {"ok", "ready"} : sjob' = [sjob EXCEPT !["post"] = Resting(pc)]
  BY DEF PersistPost
<1>2. /\ "post" \in SyncKind /\ "post" \notin ResultJob /\ sjob["post"].pc = "post"
      /\ stamp' = stamp
  BY DEF PersistPost, SyncKind, ResultJob
<1>3. \/ transfer' = transfer
      \/ transfer' = [e \in SyncEntry |-> [transfer[e] EXCEPT !.enriched = @ \/ e \in ready]]
  BY DEF PersistPost
<1>4. TransferMoves
  <2>1. transfer \in [SyncEntry -> TransferRecord]
    BY DEF SyncIInv, SyncRecords
  <2>2. CASE transfer' = transfer
    BY <2>2, RowsStay
  <2>3. CASE transfer' = [e \in SyncEntry |-> [transfer[e] EXCEPT !.enriched = @ \/ e \in ready]]
    <3>1. ASSUME NEW e \in SyncEntry
          PROVE  /\ transfer'[e] \in TransferRecord
                 /\ transfer'[e].at = transfer[e].at /\ transfer'[e].moves = transfer[e].moves
                 /\ transfer'[e].through = transfer[e].through
      <4>1. transfer[e] \in TransferRecord /\ (transfer[e].enriched \/ e \in ready) \in BOOLEAN
        BY <2>1
      <4>2. transfer'[e] = [transfer[e] EXCEPT !.enriched = transfer[e].enriched \/ e \in ready]
        BY <2>3
      <4> HIDE DEF ready
      <4> QED
        BY <4>1, <4>2 DEF TransferRecord
    <3>2. \A e \in SyncEntry : transfer[e].through >= 1
      BY <1>2 DEF SyncIInv, TransfersComplete
    <3>3. transfer' \in [SyncEntry -> TransferRecord]
      BY <2>3, <3>1
    <3> QED
      BY <3>1, <3>2, <3>3 DEF TransferMoves
  <2> QED
    BY <1>3, <2>2, <2>3
<1>5. JobMoves("post", Resting(pc))
  <2>1. FinalOf(Resting(pc)) /\ Resting(pc).t <= stamp'
    BY <1>2, SyncTypes, RestingJob DEF FinalOf
  <2> QED
    BY <1>1, <1>2, <2>1, RestingJob DEF JobMoves
<1>6. SyncMoves("post", Resting(pc))
  BY SyncTypes, RowsStay, <1>4, <1>5 DEF PersistPost, SyncMoves
<1> QED
  BY <1>2, <1>6, MovesKeep

LEMMA FplMovesKeeps == SyncIInv /\ FplMoves => SyncIInv'
<1> SUFFICES ASSUME SyncIInv, FplMoves PROVE SyncIInv'
  OBVIOUS
<1>1. /\ fpl \in [score : Nat, final : BOOLEAN, moves : Nat, locked : BOOLEAN]
      /\ sync.scores \in Nat /\ sync.moves \in Nat /\ checkedAt \in Nat
      /\ fpl.score <= sync.scores /\ fpl.moves <= sync.moves
  BY SyncAssumption DEF SyncIInv, SyncRecords
<1>2. /\ fpl' \in [score : Nat, final : BOOLEAN, moves : Nat, locked : BOOLEAN]
      /\ fpl'.score <= sync.scores /\ fpl'.moves <= sync.moves
      /\ fpl'.score >= fpl.score
      /\ fpl'.score # fpl.score => ~fpl.final
      /\ fpl'.moves # fpl.moves => ~fpl.locked
      /\ fpl.locked => fpl'.locked
      /\ fpl.final => fpl'.final
      /\ fpl'.final => fpl'.locked
  <2>1. fpl.final => fpl.locked
    BY DEF SyncIInv, FinalScores
  <2>2. CASE ~fpl.locked /\ fpl.moves < sync.moves /\ fpl' = [fpl EXCEPT !.moves = @ + 1]
    BY <1>1, <2>1, <2>2
  <2>3. CASE ~fpl.locked /\ fpl' = [fpl EXCEPT !.locked = TRUE]
    <3>1. fpl' \in [score : Nat, final : BOOLEAN, moves : Nat, locked : BOOLEAN]
      BY <1>1, <2>3
    <3>2. /\ fpl'.score = fpl.score /\ fpl'.moves = fpl.moves /\ fpl'.final = fpl.final
          /\ fpl'.locked = TRUE
      BY <1>1, <2>3
    <3> QED
      BY <1>1, <2>1, <2>3, <3>1, <3>2
  <2>4. CASE /\ fpl.locked /\ ~fpl.final /\ fpl.score < sync.scores
             /\ fpl' = [fpl EXCEPT !.score = @ + 1]
    BY <1>1, <2>1, <2>4
  <2>5. CASE fpl.locked /\ ~fpl.final /\ fpl' = [fpl EXCEPT !.final = TRUE]
    <3>1. fpl' \in [score : Nat, final : BOOLEAN, moves : Nat, locked : BOOLEAN]
      BY <1>1, <2>5
    <3>2. /\ fpl'.score = fpl.score /\ fpl'.moves = fpl.moves /\ fpl'.locked = fpl.locked
          /\ fpl'.final = TRUE
      BY <1>1, <2>5
    <3> QED
      BY <1>1, <2>1, <2>5, <3>1, <3>2
  <2> QED
    BY <2>2, <2>3, <2>4, <2>5 DEF FplMoves
<1>3. checkedAt # 0 => fpl'.score = fpl.score /\ fpl'.final
  BY <1>2 DEF SyncIInv, FinalScores
<1>4. UNCHANGED <<sync, stamp, checkedAt, result, transfer, leagueRow, sjob, lateWrites, fetchFaults>>
  BY DEF FplMoves
<1>5. SyncRecords' /\ JobShapes' /\ StampsTaken'
  BY <1>2, <1>4 DEF SyncIInv, SyncRecords, JobShapes, JobShape, StampsTaken
<1>6. FinalScores' /\ AcceptedRowIsFinal'
  BY <1>2, <1>3, <1>4 DEF SyncIInv, FinalScores, FinalOf, AcceptedRowIsFinal
<1>7. ScoresInOrder'
  <2>1. \A j \in ResultJob : Attempting(j) => sjob[j].floor \in Nat /\ sjob[j].floor <= fpl'.score
    <3>1. \A j \in ResultJob : sjob[j].floor \in Nat
      BY SyncTypes DEF JobRecord, ResultJob, SyncKind
    <3>2. \A j \in ResultJob : Attempting(j) => sjob[j].floor <= fpl.score
      BY DEF SyncIInv, ScoresInOrder
    <3> QED
      BY <1>1, <1>2, <3>1, <3>2
  <2> QED
    BY <1>4, <2>1 DEF SyncIInv, ScoresInOrder, Attempting
<1>8. TransfersComplete' /\ CheckpointMeansComplete'
  <2>1. CASE fpl'.moves = fpl.moves
    BY <1>2, <1>4, <2>1 DEF SyncIInv, TransfersComplete, CheckpointMeansComplete, Overtaken
  <2>2. CASE fpl'.moves # fpl.moves
    <3>1. ~fpl.locked
      BY <1>2, <2>2
    <3>2. /\ \A e \in SyncEntry : ~(transfer[e].through >= 1)
          /\ \A j \in ResultJob : sjob[j].pc \notin {"begun", "entries", "transfers"}
          /\ \A w \in lateWrites : w.phase # "transfers"
      BY <3>1 DEF SyncIInv, TransfersComplete, CheckpointMeansComplete
    <3> QED
      BY <1>4, <3>2 DEF SyncIInv, TransfersComplete, CheckpointMeansComplete, Overtaken
  <2> QED
    BY <2>1, <2>2
<1>9. FinishedMeansStored'
  BY <1>4 DEF SyncIInv, FinishedMeansStored, StaleResult, NeedsTransfers
<1> QED
  BY <1>5, <1>6, <1>7, <1>8, <1>9 DEF SyncIInv

LEMMA EventFinalizedKeeps == SyncIInv /\ EventFinalized => SyncIInv'
<1> SUFFICES ASSUME SyncIInv, EventFinalized PROVE SyncIInv'
  OBVIOUS
<1>1. /\ fpl.final /\ checkedAt' = stamp + 1 /\ stamp' = stamp + 1 /\ stamp' <= sync.stamps
      /\ UNCHANGED <<sync, fpl, result, transfer, leagueRow, sjob, lateWrites, fetchFaults>>
      /\ stamp \in Nat
  BY SyncTypes DEF EventFinalized, TakeTimestamp
<1>2. SyncRecords' /\ JobShapes'
  BY <1>1 DEF SyncIInv, SyncRecords, JobShapes, JobShape
<1>3. /\ \A e \in SyncEntry : /\ ~(result[e].at >= stamp + 1) /\ ~(leagueRow[e].at >= stamp + 1)
                              /\ result[e].at <= stamp + 1 /\ leagueRow[e].at <= stamp + 1
                              /\ transfer[e].at <= stamp + 1
      /\ \A j \in SyncKind : ~(sjob[j].t >= stamp + 1) /\ sjob[j].t <= stamp + 1
      /\ \A w \in lateWrites : ~(w.t >= stamp + 1) /\ w.t <= stamp + 1
  <2>1. \A e \in SyncEntry : result[e].at \in Nat /\ leagueRow[e].at \in Nat /\ transfer[e].at \in Nat
    BY DEF SyncIInv, SyncRecords, ResultRecord, LeagueRecord, TransferRecord
  <2>2. \A j \in SyncKind : sjob[j].t \in Nat
    BY SyncTypes DEF JobRecord
  <2>3. \A w \in lateWrites : w.t \in Nat
    BY DEF SyncIInv, SyncRecords, LateRecord
  <2> QED
    BY <1>1, <2>1, <2>2, <2>3 DEF SyncIInv, StampsTaken
<1>4. StampsTaken'
  BY <1>1, <1>3 DEF StampsTaken
<1>5. FinalScores' /\ AcceptedRowIsFinal'
  BY <1>1, <1>3 DEF SyncIInv, FinalScores, FinalOf, AcceptedRowIsFinal
<1>6. ScoresInOrder' /\ TransfersComplete' /\ CheckpointMeansComplete' /\ FinishedMeansStored'
  BY <1>1 DEF SyncIInv, ScoresInOrder, Attempting, TransfersComplete, Overtaken,
              CheckpointMeansComplete, FinishedMeansStored, StaleResult, NeedsTransfers
<1> QED
  BY <1>2, <1>4, <1>5, <1>6 DEF SyncIInv

\* EventSyncInv: however the jobs of a gameweek overlap, fail, are given up and
\* commit late, and wherever the deadline and the finalization fall between
\* their steps, rows that the freshness test accepts hold final scores, later
\* attempts are not undone by earlier ones, a covering checkpoint means a
\* complete transfer history, and a finished results job has stored it all.
THEOREM EventSyncInvHolds == SyncSpec => []EventSyncInv
<1>1. SyncIInv /\ [SyncNext]_syncVars => SyncIInv'
  <2> SUFFICES ASSUME SyncIInv, [SyncNext]_syncVars PROVE SyncIInv'
    OBVIOUS
  <2>1. CASE UNCHANGED syncVars
    BY <2>1 DEF syncVars, SyncIInv, SyncRecords, JobShapes, JobShape, StampsTaken, FinalScores,
                FinalOf, AcceptedRowIsFinal, ScoresInOrder, Attempting, TransfersComplete, Overtaken,
                CheckpointMeansComplete, FinishedMeansStored, StaleResult, NeedsTransfers
  <2>2. CASE FplMoves \/ EventFinalized \/ PlanLeague \/ BeginInfo \/ ReadFinalized \/ BeginPost
    BY <2>2, FplMovesKeeps, EventFinalizedKeeps, PlanLeagueKeeps, BeginInfoKeeps,
       ReadFinalizedKeeps, BeginPostKeeps
  <2>3. CASE \E j \in SyncKind :
               BeginAttempt(j) \/ PlanResults(j) \/ BeginTransfers(j) \/ SyncAudit(j)
    BY <2>3, BeginKeeps, PlanResultsKeeps, BeginTransfersKeeps, SyncAuditKeeps
  <2>4. CASE \E j \in SyncKind, e \in SyncEntry :
               SyncFetch(j, e) \/ SyncEntryFails(j, e) \/ PersistEntry(j, e)
    BY <2>4, SyncFetchKeeps, SyncEntryFailsKeeps, PersistEntryKeeps
  <2>5. CASE PersistLeague \/ PersistPost \/ (\E e \in SyncEntry : PersistInfo(e))
             \/ \E w \in lateWrites : LateCommit(w)
    BY <2>5, PersistLeagueKeeps, PersistPostKeeps, PersistInfoKeeps, LateCommitKeeps
  <2> QED
    BY <2>1, <2>2, <2>3, <2>4, <2>5 DEF SyncNext
<1>2. SyncIInv => EventSyncInv
  <2> SUFFICES ASSUME SyncIInv PROVE EventSyncInv
    OBVIOUS
  <2>1. SyncTypeOK
    <3>1. /\ fpl \in [score : 0..sync.scores, final : BOOLEAN, moves : 0..sync.moves,
                      locked : BOOLEAN]
          /\ stamp <= sync.stamps /\ checkedAt \in 0..stamp /\ fetchFaults \in 0..sync.faults
      BY SyncAssumption DEF SyncIInv, SyncRecords, StampsTaken
    <3>2. \A e \in SyncEntry :
            /\ result[e].at \in 0..stamp /\ transfer[e].at \in 0..stamp
            /\ leagueRow[e].at \in 0..stamp /\ transfer[e].through \in 0..1
      BY DEF SyncIInv, SyncRecords, StampsTaken, ResultRecord, TransferRecord, LeagueRecord
    <3>3. \A j \in SyncKind : /\ sjob[j].t \in 0..stamp /\ sjob[j].todo \subseteq SyncEntry
                              /\ sjob[j].wrote \subseteq SyncEntry
      BY SyncTypes DEF JobRecord
    <3> QED
      BY <3>1, <3>2, <3>3 DEF SyncTypeOK
  <2>2. AttemptIsNotUndone
    BY DEF SyncIInv, ScoresInOrder, AttemptIsNotUndone, Attempting, ResultJob
  <2> QED
    BY <2>1, <2>2 DEF SyncIInv, EventSyncInv
<1> QED
  BY <1>1, <1>2, SyncStart, PTL DEF SyncSpec

(***************************************************************************)
(* The setup of a tournament.                                              *)
(***************************************************************************)

\* A row whose standings, if there are any, are those of its roster.
Sound(r) == r \in Row /\ (r.live /\ r.standings # NoStandings => r.standings = r.members)

\* A setup job that runs is alone in the lifecycle scope.
Exclusive ==
    /\ \A i, j \in setupJobs : i.step = "running" /\ j.step = "running" => i = j
    /\ resuming # NoMark => \A j \in setupJobs : j.step # "running"

\* Nobody finishes the setup while the job of a resume runs: that job locked
\* the row when it looked at it.
ResumeUnfinished ==
    \A j \in setupJobs : j.step = "running" /\ j.marker # NoMark => row.setup # "ready"

\* Every command adds at most one marker to those that jobs carry, and the
\* watchdog adds one only when no job is left.
JobMarks == {j.marker : j \in setupJobs \cup rosterJobs} \ {NoMark}
MarksBounded == Cardinality(JobMarks) <= commands + 1

\* The inductive invariant behind SetupInv and SetupSteps.
SetupIInv == SetupTypeOK /\ StandingsMatchRoster /\ Exclusive /\ ResumeUnfinished /\ MarksBounded

\* What every step keeps.
SetupGoesOn ==
    /\ SetupIInv'
    /\ frozen => row'.members = row.members
    /\ row.live /\ row.setup = "ready" /\ row'.setup = "processing" => commands' = commands + 1

LEMMA SetupKinds ==
  /\ MaxAttempts \in Nat \ {0} /\ MaxCommands \in Nat \ {0}
  /\ 1 \in Mark /\ 2 \in Mark /\ NoMark \notin Mark /\ Mark \subseteq Nat
  /\ IsFiniteSet(Mark) /\ Cardinality(Mark) = 2 * MaxCommands + 4
  /\ NoRow \notin Row
<1>1. IsFiniteSet(Mark) /\ Cardinality(Mark) = 2 * MaxCommands + 4
  <2>1. /\ 2 * MaxCommands + 4 \in Int /\ 1 \in Int /\ ~ (1 > 2 * MaxCommands + 4)
    BY SetupAssumption
  <2> QED
    BY <2>1, FS_Interval DEF Mark
<1>2. NoRow \notin Row
  BY DEF NoRow, Row
<1> QED
  BY <1>1, <1>2, SetupAssumption DEF Mark, NoMark

LEMMA JobMarksFinite ==
  ASSUME setupJobs \subseteq SetupJob, rosterJobs \subseteq RosterJob
  PROVE  JobMarks \subseteq Mark /\ IsFiniteSet(JobMarks) /\ Cardinality(JobMarks) \in Nat
<1>1. JobMarks \subseteq Mark
  BY DEF JobMarks, SetupJob, RosterJob, NoMark
<1> QED
  BY <1>1, SetupKinds, FS_Subset, FS_CardinalityType

LEMMA OneMore ==
  ASSUME NEW S, NEW x, NEW n \in Nat, IsFiniteSet(S), Cardinality(S) <= n
  PROVE  /\ IsFiniteSet(S \cup {x}) /\ Cardinality(S \cup {x}) \in Nat
         /\ Cardinality(S \cup {x}) <= n + 1
<1>1. Cardinality(S) \in Nat
  BY FS_CardinalityType
<1>2. IsFiniteSet(S \cup {x}) /\ Cardinality(S \cup {x}) \in {Cardinality(S), Cardinality(S) + 1}
  BY FS_AddElement
<1> QED
  BY <1>1, <1>2

\* There is always a marker that nobody holds.
LEMMA NowIsFresh ==
  ASSUME SetupIInv
  PROVE  Now \in Mark
<1>0. /\ MaxCommands + 1 \in Nat /\ MaxCommands + 2 \in Nat /\ MaxCommands + 3 \in Nat
      /\ MaxCommands + 2 = (MaxCommands + 1) + 1 /\ MaxCommands + 3 = (MaxCommands + 2) + 1
      /\ MaxCommands + 4 = (MaxCommands + 3) + 1
  BY SetupKinds
<1>1. /\ JobMarks \subseteq Mark /\ IsFiniteSet(JobMarks) /\ Cardinality(JobMarks) \in Nat
      /\ Cardinality(JobMarks) <= MaxCommands + 1
  BY JobMarksFinite, SetupKinds DEF SetupIInv, SetupTypeOK, MarksBounded
<1> DEFINE a == row.mark
           b == resuming
           c == IF watch = NoRow THEN row.mark ELSE watch.mark
           one == JobMarks \cup {a}
           two == one \cup {b}
           three == two \cup {c}
<1>2. HeldMarks \subseteq three \cup {NoMark}
  BY DEF HeldMarks, JobMarks
<1> HIDE DEF a, b, c
<1>3. IsFiniteSet(one) /\ Cardinality(one) \in Nat /\ Cardinality(one) <= MaxCommands + 2
  BY <1>1, OneMore, <1>0
<1> HIDE DEF one
<1>4. IsFiniteSet(two) /\ Cardinality(two) \in Nat /\ Cardinality(two) <= MaxCommands + 3
  BY <1>3, OneMore, <1>0
<1> HIDE DEF two
<1>5. IsFiniteSet(three) /\ Cardinality(three) \in Nat /\ Cardinality(three) <= MaxCommands + 4
  BY <1>4, OneMore, <1>0
<1> HIDE DEF three
<1>6. ~ (Mark \subseteq three)
  <2> SUFFICES ASSUME Mark \subseteq three PROVE FALSE
    OBVIOUS
  <2>1. Cardinality(Mark) <= Cardinality(three)
    BY <1>5, FS_Subset
  <2> QED
    BY <1>5, <2>1, SetupKinds
<1>7. \E m \in Mark : m \notin HeldMarks
  BY <1>2, <1>6, SetupKinds
<1> QED
  BY <1>7 DEF Now

LEMMA ProcessingRow ==
  ASSUME NEW r, Sound(r), NEW m \in Mark, NEW n \in 0..MaxAttempts
  PROVE  LET p == markSetupProcessing(r, n, m)
         IN  Sound(p) /\ p.members = r.members /\ p.setup = "processing" /\ p.live = r.live
BY DEF Sound, Row, Status, markSetupProcessing

LEMMA ResultRow ==
  ASSUME NEW r, Sound(r), NEW m \in Mark, NEW outcome \in {"ready", "failed"}
  PROVE  LET p == markSetupResult(r, outcome, m)
         IN  Sound(p) /\ p.members = r.members /\ p.setup = outcome
BY ZenonT(40) DEF Sound, Row, Status, markSetupResult

LEMMA ReadyRow ==
  ASSUME NEW r, Sound(r)
  PROVE  LET p == markReadyAndResume(r)
         IN  Sound(p) /\ p.members = r.members
<1> DEFINE st == IF r.state = "finished" \/ r.members = Few THEN r.state ELSE "active"
           ro == IF r.state = "finished" \/ r.members # Few THEN "ready" ELSE "failed"
           p == [r EXCEPT !.state = st, !.roster = ro]
<1>1. st \in {"active", "inactive", "finished"} /\ ro \in Status
  BY DEF Sound, Row, Status
<1>2. markReadyAndResume(r) \in {r, p}
  BY DEF markReadyAndResume
<1> HIDE DEF st, ro
<1>3. Sound(p) /\ p.members = r.members
  BY <1>1 DEF Sound, Row
<1> HIDE DEF p
<1> QED
  BY <1>2, <1>3

LEMMA PreparedRow ==
  ASSUME NEW r, Sound(r)
  PROVE  LET p == ResumePrepared(r)
         IN  Sound(p) /\ p.members = r.members /\ p.setup = "pending" /\ p.live = r.live
<1>1. 0 \in 0..MaxAttempts
  BY SetupAssumption
<1> QED
  BY <1>1 DEF Sound, Row, Status, ResumePrepared

LEMMA MarkedRow ==
  ASSUME NEW r, Sound(r), NEW m \in Mark
  PROVE  LET p == markResumeProcessingWithMarker(r, m)
         IN  Sound(p) /\ p.members = r.members /\ p.setup = "pending"
<1> DEFINE q == ResumePrepared(r)
<1>1. Sound(q) /\ q.members = r.members /\ q.setup = "pending"
  BY PreparedRow
<1> HIDE DEF q
<1>2. LET p == [q EXCEPT !.mark = m, !.synced = FALSE]
      IN  Sound(p) /\ p.members = q.members /\ p.setup = q.setup
  BY ZenonT(40), <1>1 DEF Sound, Row
<1> QED
  BY <1>1, <1>2 DEF markResumeProcessingWithMarker, q

LEMMA CanceledRow ==
  ASSUME NEW r, Sound(r)
  PROVE  LET p == markSyncCanceled(r)
         IN  Sound(p) /\ p.members = r.members /\ p.setup \in {r.setup, "ready"}
<1> DEFINE su == IF r.roster = "processing" /\ r.setup = "pending" THEN "ready" ELSE r.setup
           p == [r EXCEPT !.roster = "ready", !.setup = su]
<1>1. su \in Status /\ su \in {r.setup, "ready"}
  BY DEF Sound, Row, Status
<1>2. markSyncCanceled(r) \in {r, p}
  BY DEF markSyncCanceled
<1> HIDE DEF su
<1>3. Sound(p) /\ p.members = r.members /\ p.setup = su
  BY <1>1 DEF Sound, Row, Status
<1> HIDE DEF p
<1> QED
  BY <1>1, <1>2, <1>3

LEMMA FailureRow ==
  ASSUME NEW r, Sound(r), NEW n \in 0..MaxAttempts, NEW t \in BOOLEAN, Now \in Mark
  PROVE  LET p == markSetupAttemptFailure(r, n, t)
         IN  /\ Sound(p) /\ p.members = r.members
             /\ r.setup \notin {"pending", "processing"} => p = r
             /\ p.setup = "ready" => r.setup = "ready"
<1>1. CASE /\ r.setup \in {"pending", "processing"} /\ ~r.finishedAt
           /\ IF t THEN r.attempt <= n ELSE r.attempt < n
  <2> DEFINE q == [r EXCEPT !.setup = IF t THEN "failed" ELSE "processing",
                   !.error = t, !.retryAt = ~t, !.attempt = n,
                   !.mark = Now, !.synced = FALSE, !.finishedAt = t,
                   !.standings = NoStandings]
  <2>1. markSetupAttemptFailure(r, n, t) = q
    BY <1>1 DEF markSetupAttemptFailure
  <2>2. Sound(q) /\ q.members = r.members /\ q.setup # "ready"
    BY ZenonT(40) DEF Sound, Row, Status
  <2> HIDE DEF q
  <2> QED
    BY <1>1, <2>1, <2>2
<1>2. CASE ~ (/\ r.setup \in {"pending", "processing"} /\ ~r.finishedAt
              /\ IF t THEN r.attempt <= n ELSE r.attempt < n)
  BY <1>2 DEF markSetupAttemptFailure
<1> QED
  BY <1>1, <1>2

LEMMA PausedRow ==
  ASSUME NEW r, Sound(r), NEW t \in BOOLEAN, Now \in Mark
  PROVE  LET p == updateStateOwned(r, t)
         IN  Sound(p) /\ p.members = r.members
<1> DEFINE failed == t /\ r.setup = "failed" /\ r.error
           rosterSettles == \/ r.roster \in {"pending", "processing"}
                            \/ /\ t /\ r.roster = "failed"
                               /\ \/ r.setup \in {"pending", "processing"}
                                  \/ r.setup = "failed" /\ r.error
           setupSettles == r.roster \in {"processing", "failed"}
                           /\ (r.setup \in {"pending", "processing"} \/ failed)
           remarked == r.roster \in {"processing", "failed"}
                       /\ (r.setup \in {"pending", "processing"} \/ (r.setup = "failed" /\ r.error))
           ro == IF rosterSettles THEN "ready" ELSE r.roster
           su == IF setupSettles THEN "ready" ELSE r.setup
           er == IF setupSettles THEN FALSE ELSE r.error
           ma == IF remarked THEN Now ELSE r.mark
           sy == IF remarked THEN FALSE ELSE r.synced
           p == [r EXCEPT !.state = "inactive", !.roster = ro, !.setup = su,
                          !.error = er, !.mark = ma, !.synced = sy]
<1>1. updateStateOwned(r, t) = p
  BY DEF updateStateOwned
<1> HIDE DEF rosterSettles, setupSettles, remarked
<1>2. ro \in Status \cup {"none"} /\ su \in Status /\ er \in BOOLEAN /\ ma \in Mark /\ sy \in BOOLEAN
  BY DEF Sound, Row, Status
<1> HIDE DEF ro, su, er, ma, sy
<1>3. Sound(p) /\ p.members = r.members
  BY ZenonT(40), <1>2 DEF Sound, Row
<1> HIDE DEF p
<1> QED
  BY <1>1, <1>3

LEMMA SetupParts ==
  ASSUME SetupIInv
  PROVE  /\ Sound(row) /\ setupJobs \subseteq SetupJob /\ rosterJobs \subseteq RosterJob
         /\ row.mark \in Mark /\ row.attempt \in 0..MaxAttempts
         /\ resuming \in Mark \cup {NoMark} /\ watch \in Row \cup {NoRow}
         /\ commands \in 0..MaxCommands /\ commands \in Nat
         /\ Exclusive /\ ResumeUnfinished /\ MarksBounded /\ Now \in Mark
BY NowIsFresh, SetupKinds DEF SetupIInv, SetupTypeOK, Sound, StandingsMatchRoster, Row

\* What a step has to show, part by part.
LEMMA SetupWhole ==
  ASSUME Sound(row'), setupJobs' \subseteq SetupJob, rosterJobs' \subseteq RosterJob,
         resuming' \in Mark \cup {NoMark},
         escaped' \in [made: 0..MaxAttempts, attempt: 0..MaxAttempts, terminal: BOOLEAN],
         watch' \in Row \cup {NoRow}, frozen' \in BOOLEAN, commands' \in 0..MaxCommands,
         setupFaults' \in 0..MaxSetupFaults, gameweeks' \in 0..MaxGameweeks,
         Exclusive', ResumeUnfinished', MarksBounded',
         frozen => row'.members = row.members,
         row.live /\ row.setup = "ready" /\ row'.setup = "processing" => commands' = commands + 1
  PROVE  SetupGoesOn
<1>1. SetupTypeOK'
  BY DEF SetupTypeOK, Sound
<1>2. StandingsMatchRoster'
  BY DEF StandingsMatchRoster, Sound
<1> QED
  BY <1>1, <1>2 DEF SetupGoesOn, SetupIInv

LEMMA MarkSets ==
  ASSUME NEW S, S \subseteq SetupJob, NEW T, T \subseteq RosterJob
  PROVE  LET M == {j.marker : j \in S \cup T} \ {NoMark}
         IN  M \subseteq Mark /\ IsFiniteSet(M) /\ Cardinality(M) \in Nat
<1> DEFINE M == {j.marker : j \in S \cup T} \ {NoMark}
<1>1. M \subseteq Mark
  BY DEF SetupJob, RosterJob
<1> HIDE DEF M
<1>2. IsFiniteSet(M) /\ Cardinality(M) \in Nat
  BY <1>1, SetupKinds, FS_Subset, FS_CardinalityType
<1> QED
  BY <1>1, <1>2 DEF M

\* The markers of the jobs are kept, one is added by a command, or the
\* watchdog starts again with one.
LEMMA MarksGoOn ==
  ASSUME SetupIInv, setupJobs' \subseteq SetupJob, rosterJobs' \subseteq RosterJob,
         commands' \in 0..MaxCommands, NEW x,
         \/ JobMarks' \subseteq JobMarks /\ commands' >= commands
         \/ JobMarks' \subseteq JobMarks \cup {x} /\ commands' = commands + 1
         \/ JobMarks' \subseteq {x}
  PROVE  MarksBounded'
<1>1. /\ IsFiniteSet(JobMarks) /\ Cardinality(JobMarks) \in Nat
      /\ Cardinality(JobMarks) <= commands + 1 /\ commands \in Nat /\ commands' \in Nat
  <2>1. IsFiniteSet(JobMarks) /\ Cardinality(JobMarks) \in Nat
    BY SetupParts, JobMarksFinite
  <2> QED
    BY <2>1, SetupParts, SetupKinds DEF MarksBounded
<1>2. IsFiniteSet(JobMarks') /\ Cardinality(JobMarks') \in Nat
  BY MarkSets DEF JobMarks
<1>3. CASE JobMarks' \subseteq JobMarks /\ commands' >= commands
  <2>1. Cardinality(JobMarks') <= Cardinality(JobMarks)
    BY <1>1, <1>3, FS_Subset
  <2> QED
    BY <1>1, <1>2, <1>3, <2>1 DEF MarksBounded
<1>4. CASE JobMarks' \subseteq JobMarks \cup {x} /\ commands' = commands + 1
  <2>1. /\ IsFiniteSet(JobMarks \cup {x}) /\ Cardinality(JobMarks \cup {x}) \in Nat
        /\ Cardinality(JobMarks \cup {x}) <= (commands + 1) + 1
    <3>1. commands + 1 \in Nat
      BY <1>1
    <3> QED
      BY <1>1, <3>1, OneMore
  <2>2. Cardinality(JobMarks') <= Cardinality(JobMarks \cup {x})
    BY <1>4, <2>1, FS_Subset
  <2> QED
    BY <1>1, <1>2, <1>4, <2>1, <2>2 DEF MarksBounded
<1>5. CASE JobMarks' \subseteq {x}
  <2>1. IsFiniteSet({x}) /\ Cardinality({x}) = 1
    BY FS_Singleton
  <2>2. Cardinality(JobMarks') <= 1
    BY <1>5, <2>1, FS_Subset
  <2> QED
    BY <1>1, <1>2, <2>2 DEF MarksBounded
<1> QED
  BY <1>3, <1>4, <1>5

\* A setup job moves on without running.
LEMMA SetupJobMoves ==
  ASSUME SetupIInv, NEW j \in setupJobs, NEW K, K \subseteq SetupJob,
         \A i \in K : i.marker = j.marker /\ i.step # "running",
         setupJobs' = (setupJobs \ {j}) \cup K, UNCHANGED <<rosterJobs, resuming, commands>>
  PROVE  /\ setupJobs' \subseteq SetupJob /\ Exclusive' /\ MarksBounded'
         /\ j.step = "running" => \A i \in setupJobs' : i.step # "running"
         /\ j.step = "running" \/ row' = row => ResumeUnfinished'
<1>1. setupJobs' \subseteq SetupJob
  BY SetupParts
<1>2. Exclusive'
  BY SetupParts DEF Exclusive
<1>3. JobMarks' \subseteq JobMarks
  BY DEF JobMarks
<1>4. MarksBounded'
  <2>1. commands' \in 0..MaxCommands /\ commands' >= commands /\ rosterJobs' \subseteq RosterJob
    BY SetupParts
  <2> QED
    BY <1>1, <1>3, <2>1, MarksGoOn
<1>5. j.step = "running" => \A i \in setupJobs' : i.step # "running"
  BY SetupParts DEF Exclusive
<1>6. row' = row => ResumeUnfinished'
  BY SetupParts DEF ResumeUnfinished
<1> QED
  BY <1>1, <1>2, <1>4, <1>5, <1>6 DEF ResumeUnfinished

LEMMA GoesToJob ==
  ASSUME NEW j \in SetupJob, NEW step \in {"waiting", "active", "running", "settling"}
  PROVE  LET i == [j EXCEPT !.step = step]
         IN  i \in SetupJob /\ i.marker = j.marker /\ i.step = step
BY DEF SetupJob

LEMMA RetriedJob ==
  ASSUME NEW j \in SetupJob
  PROVE  LET K == IF j.made + 1 < MaxAttempts THEN {[j EXCEPT !.step = "waiting", !.made = j.made + 1]} ELSE {}
         IN  K \subseteq SetupJob /\ \A i \in K : i.marker = j.marker /\ i.step # "running"
<1>1. j.made + 1 < MaxAttempts => j.made + 1 \in 0..MaxAttempts - 1
  BY SetupKinds DEF SetupJob
<1> QED
  BY <1>1 DEF SetupJob

\* The row a setup job works on.
LEMMA BaseRow ==
  ASSUME SetupIInv, NEW j \in setupJobs
  PROVE  /\ Sound(Base(j)) /\ Base(j).members = row.members /\ Base(j).live = row.live
         /\ AttemptOf(j) \in 0..MaxAttempts /\ (AttemptOf(j) >= MaxAttempts) \in BOOLEAN
<1>1. Sound(Base(j)) /\ Base(j).members = row.members /\ Base(j).live = row.live
  BY SetupParts, PreparedRow DEF Base
<1>2. Base(j).attempt \in Nat /\ j.made \in Nat
  BY <1>1, SetupParts, SetupKinds DEF Sound, Row, SetupJob
<1>3. NextAttempt(j) \in Nat
  BY <1>2 DEF NextAttempt
<1>4. AttemptOf(j) \in 0..MaxAttempts
  BY <1>3, SetupKinds DEF AttemptOf
<1> QED
  BY <1>1, <1>4

LEMMA SetupQuietStep ==
  ASSUME SetupIInv, NEW j \in setupJobs,
         SetupDelivered(j) \/ SetupIgnored(j) \/ SetupFindsReady(j) \/ SetupCompletes(j)
  PROVE  SetupGoesOn
<1>1. UNCHANGED <<row, rosterJobs, setupFaults, resuming, escaped, watch, frozen, commands, gameweeks>>
  BY DEF SetupDelivered, SetupIgnored, SetupFindsReady, SetupCompletes, otherThanRow
<1>2. PICK K : /\ K \subseteq SetupJob /\ \A i \in K : i.marker = j.marker /\ i.step # "running"
               /\ setupJobs' = (setupJobs \ {j}) \cup K
  <2>1. j \in SetupJob
    BY SetupParts
  <2>2. CASE SetupCompletes(j)
    <3>1. setupJobs' = (setupJobs \ {j}) \cup {}
      BY <2>2 DEF SetupCompletes
    <3> QED
      BY <3>1
  <2>3. CASE SetupGoesTo(j, "active")
    BY <2>1, <2>3, GoesToJob DEF SetupGoesTo
  <2>4. CASE SetupGoesTo(j, "settling")
    BY <2>1, <2>4, GoesToJob DEF SetupGoesTo
  <2> QED
    BY <2>2, <2>3, <2>4 DEF SetupDelivered, SetupIgnored, SetupFindsReady
<1>3. setupJobs' \subseteq SetupJob /\ Exclusive' /\ MarksBounded' /\ ResumeUnfinished'
  BY <1>1, <1>2, SetupJobMoves
<1> QED
  BY <1>1, <1>3, SetupParts, SetupWhole DEF SetupIInv, SetupTypeOK

\* The check that lets a job run has locked or read the row.
LEMMA SetupCheckStep ==
  ASSUME SetupIInv, NEW j \in setupJobs, SetupChecks(j)
  PROVE  SetupGoesOn
<1>1. /\ UNCHANGED <<row, rosterJobs, setupFaults, resuming, escaped, watch, frozen, commands, gameweeks>>
      /\ LifecycleFree /\ SetupMayRun(j, row) /\ SetupGoesTo(j, "running")
  BY DEF SetupChecks, otherThanRow
<1> DEFINE i == [j EXCEPT !.step = "running"]
<1>2. i \in SetupJob /\ i.marker = j.marker /\ setupJobs' = (setupJobs \ {j}) \cup {i}
  BY <1>1, GoesToJob, SetupParts DEF SetupGoesTo
<1> HIDE DEF i
<1>3. setupJobs' \subseteq SetupJob
  BY <1>2, SetupParts
<1>4. Exclusive'
  BY <1>1, <1>2 DEF Exclusive, LifecycleFree
<1>5. ResumeUnfinished'
  <2>1. i.marker # NoMark => row.setup # "ready"
    BY <1>1, <1>2 DEF SetupMayRun, markResumeProcessingIfPending, ResumePending
  <2> QED
    BY <1>1, <1>2, <2>1 DEF LifecycleFree, ResumeUnfinished
<1>6. MarksBounded'
  <2>1. JobMarks' \subseteq JobMarks
    BY <1>1, <1>2 DEF JobMarks
  <2>2. commands' \in 0..MaxCommands /\ commands' >= commands /\ rosterJobs' \subseteq RosterJob
    BY <1>1, SetupParts
  <2> QED
    BY <1>3, <2>1, <2>2, MarksGoOn
<1> QED
  BY <1>1, <1>3, <1>4, <1>5, <1>6, SetupParts, SetupWhole DEF SetupIInv, SetupTypeOK

LEMMA StructureStep ==
  ASSUME SetupIInv, NEW j \in setupJobs, setupTournamentStructure(j)
  PROVE  SetupGoesOn
<1>1. /\ UNCHANGED <<rosterJobs, setupFaults, resuming, escaped, watch, frozen, commands, gameweeks>>
      /\ j.step = "running" /\ SetupGoesTo(j, "settling")
  BY DEF setupTournamentStructure, otherThanRow
<1> DEFINE K == {[j EXCEPT !.step = "settling"]}
<1>2. /\ K \subseteq SetupJob /\ \A i \in K : i.marker = j.marker /\ i.step # "running"
      /\ setupJobs' = (setupJobs \ {j}) \cup K
  BY <1>1, GoesToJob, SetupParts DEF SetupGoesTo
<1> HIDE DEF K
<1>3. setupJobs' \subseteq SetupJob /\ Exclusive' /\ MarksBounded' /\ ResumeUnfinished'
  BY <1>1, <1>2, SetupJobMoves
<1>4. /\ Sound(row') /\ row'.members = row.members
      /\ row.live /\ row.setup = "ready" => row'.setup # "processing"
  <2>1. CASE ~ row.live
    BY <2>1, SetupParts DEF setupTournamentStructure
  <2>2. CASE row.live
    <3> DEFINE started == markSetupProcessing(Base(j), AttemptOf(j), row.mark)
               built == StandingsBuilt(started)
               ready == markReadyAndResume(built)
    <3>1. Sound(started) /\ started.members = row.members
      BY BaseRow, SetupParts, ProcessingRow
    <3>2. row' = markSetupResult(ready, "ready", Now)
      BY <2>2 DEF setupTournamentStructure, finalizePublishedTournamentSetup
    <3> HIDE DEF started
    <3>3. Sound(built) /\ built.members = row.members
      BY <3>1 DEF StandingsBuilt, Sound, Row
    <3> HIDE DEF built
    <3>4. Sound(ready) /\ ready.members = row.members
      BY <3>3, ReadyRow
    <3> HIDE DEF ready
    <3> QED
      BY <3>2, <3>4, SetupParts, ResultRow
  <2> QED
    BY <2>1, <2>2
<1> QED
  BY <1>1, <1>3, <1>4, SetupParts, SetupWhole DEF SetupIInv, SetupTypeOK

\* A job of a resume fails while the setup is unfinished, another one writes
\* only an unfinished setup.
LEMMA SetupFailStep ==
  ASSUME SetupIInv, NEW j \in setupJobs, SetupFails(j) \/ SetupEscapes(j)
  PROVE  SetupGoesOn
<1> DEFINE K == IF j.made + 1 < MaxAttempts THEN {[j EXCEPT !.step = "waiting", !.made = j.made + 1]} ELSE {}
<1>1. /\ UNCHANGED <<rosterJobs, resuming, watch, frozen, commands, gameweeks>>
      /\ j.step = "running" /\ SetupRetried(j)
  BY DEF SetupFails, SetupEscapes, otherThanRow
<1>2. /\ K \subseteq SetupJob /\ \A i \in K : i.marker = j.marker /\ i.step # "running"
      /\ setupJobs' = (setupJobs \ {j}) \cup K /\ j \in SetupJob
  BY <1>1, RetriedJob, SetupParts DEF SetupRetried
<1> HIDE DEF K
<1>3. setupJobs' \subseteq SetupJob /\ Exclusive' /\ MarksBounded' /\ ResumeUnfinished'
  BY <1>1, <1>2, SetupJobMoves
<1>4. setupFaults' \in 0..MaxSetupFaults
  BY SetupAssumption DEF SetupFails, SetupEscapes, SetupIInv, SetupTypeOK
<1>5. escaped' \in [made: 0..MaxAttempts, attempt: 0..MaxAttempts, terminal: BOOLEAN]
  <2>1. CASE SetupFails(j)
    BY <2>1 DEF SetupFails, otherThanRow, SetupIInv, SetupTypeOK
  <2>2. CASE SetupEscapes(j)
    <3>1. j.made + 1 \in 0..MaxAttempts /\ 0 \in 0..MaxAttempts
      BY <1>2, SetupKinds DEF SetupJob
    <3> QED
      BY <2>2, <3>1 DEF SetupEscapes, NoEscape
  <2> QED
    BY <2>1, <2>2
<1>6. /\ Sound(row') /\ row'.members = row.members
      /\ row.live /\ row.setup = "ready" => row'.setup # "processing"
  <2>1. CASE SetupEscapes(j)
    BY <2>1, SetupParts DEF SetupEscapes
  <2>2. CASE SetupFails(j)
    <3> DEFINE n == AttemptOf(j)
               t == AttemptOf(j) >= MaxAttempts
    <3>1. row' = markSetupAttemptFailure(Base(j), n, t)
      BY <2>2 DEF SetupFails, AttemptFailed
    <3>2. n \in 0..MaxAttempts /\ t \in BOOLEAN /\ Sound(Base(j)) /\ Now \in Mark
      BY BaseRow, SetupParts
    <3> HIDE DEF n, t
    <3>3. /\ Sound(row') /\ row'.members = Base(j).members
          /\ Base(j).setup \notin {"pending", "processing"} => row' = Base(j)
      BY <3>1, <3>2, FailureRow
    <3>4. row.setup = "ready" => Base(j) = row
      BY <1>1, SetupParts DEF ResumeUnfinished, Base
    <3> QED
      BY <3>3, <3>4, BaseRow
  <2> QED
    BY <2>1, <2>2
<1> QED
  BY <1>1, <1>3, <1>4, <1>5, <1>6, SetupParts, SetupWhole DEF SetupIInv, SetupTypeOK

\* What the other steps have in common: new jobs wait, with markers that jobs
\* carry already or with one more, and the row is not finished under a resume.
LEMMA OtherStep ==
  ASSUME SetupIInv, NEW x,
         \A i \in setupJobs' : i \in setupJobs \/ (/\ i \in SetupJob /\ i.step # "running"
                                                   /\ i.marker \in JobMarks \cup {x, NoMark}),
         \A i \in rosterJobs' : i \in rosterJobs \/ (i \in RosterJob /\ i.marker \in JobMarks \cup {x}),
         \/ x \in JobMarks \cup {NoMark} /\ commands' >= commands
         \/ commands' = commands + 1
         \/ setupJobs = {} /\ rosterJobs = {},
         commands' \in 0..MaxCommands,
         resuming' \in {resuming, NoMark} \/ (LifecycleFree /\ resuming' \in Mark),
         row' = row \/ RowFree \/ row'.setup # "ready",
         Sound(row'), frozen => row'.members = row.members,
         row.live /\ row.setup = "ready" /\ row'.setup = "processing" => commands' = commands + 1,
         escaped' \in [made: 0..MaxAttempts, attempt: 0..MaxAttempts, terminal: BOOLEAN],
         watch' \in Row \cup {NoRow}, frozen' \in BOOLEAN,
         setupFaults' \in 0..MaxSetupFaults, gameweeks' \in 0..MaxGameweeks
  PROVE  SetupGoesOn
<1>1. setupJobs' \subseteq SetupJob /\ rosterJobs' \subseteq RosterJob
  BY SetupParts
<1>2. Exclusive'
  BY SetupParts DEF Exclusive, LifecycleFree
<1>3. ResumeUnfinished'
  BY SetupParts DEF ResumeUnfinished, RowFree
<1>4. MarksBounded'
  <2>1. JobMarks' \subseteq JobMarks \cup {x} /\ NoMark \notin JobMarks'
    BY DEF JobMarks
  <2>2. x \in JobMarks \cup {NoMark} => JobMarks' \subseteq JobMarks
    BY <2>1
  <2>3. setupJobs = {} /\ rosterJobs = {} => JobMarks' \subseteq {x}
    BY <2>1 DEF JobMarks
  <2> QED
    BY <1>1, <2>1, <2>2, <2>3, MarksGoOn
<1>5. resuming' \in Mark \cup {NoMark}
  BY SetupParts
<1> QED
  BY <1>1, <1>2, <1>3, <1>4, <1>5, SetupWhole

LEMMA EnqueuedSetup ==
  ASSUME NEW decision, NEW m \in Mark \cup {NoMark}, NEW manual \in BOOLEAN,
         enqueueTournamentSetup(decision, m, manual)
  PROVE  \A i \in setupJobs' : i \in setupJobs \/ (i \in SetupJob /\ i.step # "running" /\ i.marker = m)
<1> DEFINE b == NewSetupJob(m, "base", manual)
           s == NewSetupJob(m, "successor", manual)
<1>1. 0 \in 0..MaxAttempts - 1
  BY SetupKinds
<1>2. /\ b \in SetupJob /\ b.step # "running" /\ b.marker = m
      /\ s \in SetupJob /\ s.step # "running" /\ s.marker = m
  BY <1>1 DEF NewSetupJob, SetupJob
<1>3. setupJobs' \subseteq setupJobs \cup {b, s}
  BY DEF enqueueTournamentSetup
<1> HIDE DEF b, s
<1> QED
  BY <1>2, <1>3

LEMMA EnqueuedRoster ==
  ASSUME NEW kind \in {"resume", "retry", "daily"}, NEW m \in Mark, NEW inactive \in BOOLEAN,
         enqueueTournamentRosterReconcile(kind, m, inactive)
  PROVE  \A i \in rosterJobs' : i \in rosterJobs \/ (i \in RosterJob /\ i.marker = m)
<1> DEFINE j == [kind |-> kind, marker |-> m, allowInactive |-> inactive, step |-> "waiting", made |-> 0]
<1>1. 0 \in 0..MaxAttempts - 1
  BY SetupKinds
<1>2. j \in RosterJob /\ j.marker = m
  BY <1>1 DEF RosterJob
<1>3. rosterJobs' \subseteq rosterJobs \cup {j}
  BY DEF enqueueTournamentRosterReconcile
<1> HIDE DEF j
<1> QED
  BY <1>2, <1>3

\* A reconcile job moves on or ends.
LEMMA RosterJobMoves ==
  ASSUME SetupIInv, NEW j \in rosterJobs,
         \/ RosterEnds(j) \/ RosterRetried(j)
         \/ \E step \in {"waiting", "claimed", "fetching", "published"} : RosterGoesTo(j, step)
  PROVE  \A i \in rosterJobs' : i \in rosterJobs \/ (i \in RosterJob /\ i.marker \in JobMarks)
<1>1. j \in RosterJob /\ j.marker \in JobMarks
  BY SetupParts, SetupKinds DEF JobMarks, RosterJob
<1>2. CASE RosterEnds(j)
  BY <1>2 DEF RosterEnds
<1>3. CASE RosterRetried(j)
  <2> DEFINE K == IF j.kind # "daily" /\ j.made + 1 < MaxAttempts
                  THEN {[j EXCEPT !.step = "waiting", !.made = j.made + 1]} ELSE {}
  <2>1. j.made + 1 < MaxAttempts => j.made + 1 \in 0..MaxAttempts - 1
    BY <1>1, SetupKinds DEF RosterJob
  <2>2. \A i \in K : i \in RosterJob /\ i.marker = j.marker
    BY <1>1, <2>1 DEF RosterJob
  <2>3. rosterJobs' = (rosterJobs \ {j}) \cup K
    BY <1>3 DEF RosterRetried
  <2> HIDE DEF K
  <2> QED
    BY <1>1, <2>2, <2>3
<1>4. ASSUME NEW step \in {"waiting", "claimed", "fetching", "published"}, RosterGoesTo(j, step)
      PROVE  \A i \in rosterJobs' : i \in rosterJobs \/ (i \in RosterJob /\ i.marker \in JobMarks)
  <2> DEFINE k == [j EXCEPT !.step = step]
  <2>1. k \in RosterJob /\ k.marker = j.marker
    BY <1>1 DEF RosterJob
  <2>2. rosterJobs' = (rosterJobs \ {j}) \cup {k}
    BY <1>4 DEF RosterGoesTo
  <2> HIDE DEF k
  <2> QED
    BY <1>1, <2>1, <2>2
<1> QED
  BY <1>2, <1>3, <1>4

\* A step of a reconcile job that may write the row.
LEMMA ReconcileStep ==
  ASSUME SetupIInv, NEW j \in rosterJobs,
         \/ RosterEnds(j) \/ RosterRetried(j)
         \/ \E step \in {"waiting", "claimed", "fetching", "published"} : RosterGoesTo(j, step),
         UNCHANGED ReconcileElse, setupFaults' \in 0..MaxSetupFaults,
         row' = row \/ RowFree, Sound(row'), frozen => row'.members = row.members,
         row.setup = "ready" => row'.setup # "processing"
  PROVE  SetupGoesOn
<1>1. UNCHANGED <<setupJobs, resuming, escaped, watch, frozen, commands, gameweeks>>
  BY DEF ReconcileElse
<1>2. \A i \in rosterJobs' : i \in rosterJobs \/ (i \in RosterJob /\ i.marker \in JobMarks)
  BY RosterJobMoves
<1>3. commands' \in 0..MaxCommands /\ commands' >= commands
  BY <1>1, SetupParts
<1>4. /\ escaped' \in [made: 0..MaxAttempts, attempt: 0..MaxAttempts, terminal: BOOLEAN]
      /\ watch' \in Row \cup {NoRow} /\ frozen' \in BOOLEAN /\ gameweeks' \in 0..MaxGameweeks
  BY <1>1, SetupParts DEF SetupIInv, SetupTypeOK
<1> DEFINE x == NoMark
<1>5. /\ \A i \in setupJobs' : i \in setupJobs \/ (/\ i \in SetupJob /\ i.step # "running"
                                                   /\ i.marker \in JobMarks \cup {x, NoMark})
      /\ \A i \in rosterJobs' : i \in rosterJobs \/ (i \in RosterJob /\ i.marker \in JobMarks \cup {x})
      /\ x \in JobMarks \cup {NoMark}
  BY <1>1, <1>2
<1> HIDE DEF x
<1> QED
  BY <1>1, <1>3, <1>4, <1>5, OtherStep

LEMMA RosterRow ==
  ASSUME NEW r, Sound(r), NEW ro \in Status \cup {"none"}
  PROVE  LET p == [r EXCEPT !.roster = ro]
         IN  Sound(p) /\ p.members = r.members /\ p.setup = r.setup
BY DEF Sound, Row

LEMMA RosterFailedRow ==
  ASSUME SetupIInv, NEW j \in rosterJobs
  PROVE  LET p == RosterFailed(j)
         IN  Sound(p) /\ p.members = row.members /\ p.setup \in {row.setup, "failed"}
<1> DEFINE f == [row EXCEPT !.roster = "failed"]
<1>1. Sound(row) /\ j.marker \in Mark
  BY SetupParts DEF RosterJob
<1>2. Sound(f) /\ f.members = row.members /\ f.setup = row.setup
  BY <1>1, RosterRow DEF Status
<1> HIDE DEF f
<1>3. LET p == markSetupResult(f, "failed", j.marker)
      IN  Sound(p) /\ p.members = f.members /\ p.setup = "failed"
  BY <1>1, <1>2, ResultRow
<1> HIDE DEF f
<1>4. RosterFailed(j) \in {row, f, markSetupResult(f, "failed", j.marker)}
  BY DEF RosterFailed, f
<1> QED
  BY <1>1, <1>2, <1>3, <1>4

LEMMA RosterWriteSteps ==
  ASSUME SetupIInv, NEW j \in rosterJobs,
         \/ RosterClaims(j) \/ RosterIgnored(j) \/ assertPreGameweekBoundary(j) \/ RosterThrows(j)
         \/ PublicationRefused(j)
  PROVE  SetupGoesOn
<1>0. Sound(row) /\ setupFaults \in 0..MaxSetupFaults /\ UNCHANGED ReconcileElse
  BY SetupParts DEF SetupIInv, SetupTypeOK, RosterClaims, RosterIgnored, assertPreGameweekBoundary,
                    RosterThrows, PublicationRefused
<1>1. setupFaults' \in 0..MaxSetupFaults
  BY <1>0, SetupAssumption DEF RosterClaims, RosterIgnored, assertPreGameweekBoundary,
                               RosterThrows, PublicationRefused
<1>2. \/ RosterEnds(j) \/ RosterRetried(j)
      \/ \E step \in {"waiting", "claimed", "fetching", "published"} : RosterGoesTo(j, step)
  BY DEF RosterClaims, RosterIgnored, assertPreGameweekBoundary, RosterThrows, PublicationRefused
<1>3. row' = row \/ RowFree
  BY DEF RosterClaims, RosterIgnored, assertPreGameweekBoundary, RosterThrows, PublicationRefused
<1>4. Sound(row') /\ row'.members = row.members /\ (row.setup = "ready" => row'.setup # "processing")
  <2> DEFINE claimed == [row EXCEPT !.roster = "processing"]
  <2>1. Sound(claimed) /\ claimed.members = row.members /\ claimed.setup = row.setup
    BY <1>0, RosterRow DEF Status
  <2>2. CASE RosterClaims(j)
    <3>1. row' \in {ResumePrepared(row), claimed}
      BY <2>2 DEF RosterClaims
    <3> HIDE DEF claimed
    <3> QED
      BY <1>0, <2>1, <3>1, PreparedRow
  <2>3. CASE RosterIgnored(j)
    <3>1. row' \in {row, markSyncCanceled(row), markSyncCanceled(claimed)}
      BY <2>3 DEF RosterIgnored
    <3> HIDE DEF claimed
    <3>2. LET p == markSyncCanceled(row)
          IN  Sound(p) /\ p.members = row.members /\ p.setup \in {row.setup, "ready"}
      BY <1>0, CanceledRow
    <3>3. LET p == markSyncCanceled(claimed)
          IN  Sound(p) /\ p.members = claimed.members /\ p.setup \in {claimed.setup, "ready"}
      BY <2>1, CanceledRow
    <3> QED
      BY <1>0, <2>1, <3>1, <3>2, <3>3
  <2>4. CASE row' \in {row, RosterFailed(j)}
    BY <1>0, <2>4, RosterFailedRow
  <2> QED
    BY <2>2, <2>3, <2>4 DEF assertPreGameweekBoundary, RosterThrows, PublicationRefused
<1> QED
  BY <1>0, <1>1, <1>2, <1>3, <1>4, ReconcileStep

LEMMA PublishStep ==
  ASSUME SetupIInv, NEW j \in rosterJobs, NEW source \in Membership \cup {Few},
         publishAuthoritativeRoster(j, source)
  PROVE  SetupGoesOn
<1>0. Sound(row) /\ j.marker \in Mark /\ setupFaults' \in 0..MaxSetupFaults /\ 0 \in 0..MaxAttempts
  BY SetupParts, SetupKinds DEF SetupIInv, SetupTypeOK, publishAuthoritativeRoster, RosterJob
<1>1. UNCHANGED ReconcileElse /\ RowFree /\ ~ frozen
  BY DEF publishAuthoritativeRoster, BoundaryStillOpen
<1>2. \/ RosterEnds(j) \/ RosterRetried(j)
      \/ \E step \in {"waiting", "claimed", "fetching", "published"} : RosterGoesTo(j, step)
  BY DEF publishAuthoritativeRoster
<1> DEFINE ro == IF row.mode = "official_sync" THEN "ready" ELSE "none"
           ru == IF j.kind = "resume" THEN "processing" ELSE "ready"
           ma == IF j.kind = "resume" THEN row.mark ELSE j.marker
           back == [row EXCEPT !.roster = ro]
           same == [row EXCEPT !.roster = ru, !.mark = ma, !.synced = TRUE]
           new == RosterReplaced(j, source)
<1>3. row' \in {row, back, same, new}
  BY DEF publishAuthoritativeRoster
<1>4. ro \in Status \cup {"none"} /\ ru \in Status /\ ma \in Mark
  BY <1>0, SetupParts DEF Status
<1> HIDE DEF ro, ru, ma
<1>5. Sound(back) /\ back.setup = row.setup
  BY <1>0, <1>4, RosterRow
<1>6. Sound(same) /\ same.setup = row.setup
  BY <1>0, <1>4 DEF Sound, Row
<1>7. Sound(new) /\ new.setup \in {"failed", "pending"}
  <2> DEFINE nr == IF source = Few THEN "failed" ELSE IF j.kind = "resume" THEN "processing" ELSE "ready"
             ns == IF source = Few THEN "inactive" ELSE row.state
             su == IF source = Few THEN "failed" ELSE "pending"
             p == [row EXCEPT !.members = source, !.roster = nr, !.state = ns, !.setup = su, !.error = FALSE,
                              !.attempt = 0, !.retryAt = FALSE, !.mark = j.marker, !.synced = TRUE,
                              !.standings = NoStandings]
  <2>1. new = p
    BY DEF RosterReplaced, Republished
  <2>2. /\ nr \in Status /\ su \in Status /\ su \in {"failed", "pending"}
        /\ ns \in {"active", "inactive", "finished"}
    BY <1>0 DEF Status, Sound, Row
  <2> HIDE DEF nr, ns, su
  <2>3. Sound(p) /\ p.setup = su
    BY <1>0, <2>2 DEF Sound, Row
  <2> HIDE DEF p, new
  <2> QED
    BY <2>1, <2>2, <2>3
<1> HIDE DEF back, same, new
<1>8. Sound(row') /\ (row.setup = "ready" => row'.setup # "processing")
  BY <1>0, <1>3, <1>5, <1>6, <1>7
<1> QED
  BY <1>0, <1>1, <1>2, <1>8, ReconcileStep

LEMMA RosterEnqueueStep ==
  ASSUME SetupIInv, NEW j \in rosterJobs, RosterEnqueuesSetup(j)
  PROVE  SetupGoesOn
<1> DEFINE m == IF j.kind = "resume" THEN j.marker ELSE NoMark
           decision == enqueueDecision(m, TRUE)
<1>0. /\ Sound(row) /\ j \in RosterJob /\ j.marker \in Mark /\ j.marker \in JobMarks
      /\ UNCHANGED <<setupFaults, resuming, escaped, watch, frozen, commands, gameweeks>>
  BY SetupParts, SetupKinds DEF RosterEnqueuesSetup, otherThanRow, JobMarks, RosterJob
<1>1. CASE decision = "reject"
  <2>1. RowFree /\ row' = RosterFailed(j) /\ RosterRetried(j) /\ setupJobs' = setupJobs
    BY <1>1 DEF RosterEnqueuesSetup
  <2>2. setupFaults' \in 0..MaxSetupFaults /\ UNCHANGED ReconcileElse
    BY <1>0, <2>1 DEF SetupIInv, SetupTypeOK, ReconcileElse
  <2> QED
    BY <2>1, <2>2, RosterFailedRow, ReconcileStep
<1>2. CASE decision # "reject"
  <2>1. enqueueTournamentSetup(decision, m, FALSE) /\ RosterEnds(j) /\ row' = row
    BY <1>2 DEF RosterEnqueuesSetup
  <2>2. m \in Mark \cup {NoMark} /\ m \in JobMarks \cup {NoMark}
    BY <1>0
  <2> HIDE DEF m, decision
  <2>3. \A i \in setupJobs' : i \in setupJobs \/ (i \in SetupJob /\ i.step # "running" /\ i.marker = m)
    BY <2>1, <2>2, EnqueuedSetup
  <2>4. \A i \in rosterJobs' : i \in rosterJobs
    BY <2>1 DEF RosterEnds
  <2>5. commands' \in 0..MaxCommands /\ commands' >= commands
    BY <1>0, SetupParts
  <2>6. /\ escaped' \in [made: 0..MaxAttempts, attempt: 0..MaxAttempts, terminal: BOOLEAN]
        /\ watch' \in Row \cup {NoRow} /\ frozen' \in BOOLEAN /\ gameweeks' \in 0..MaxGameweeks
        /\ setupFaults' \in 0..MaxSetupFaults
    BY <1>0, SetupParts DEF SetupIInv, SetupTypeOK
  <2> QED
    BY <1>0, <2>1, <2>2, <2>3, <2>4, <2>5, <2>6, OtherStep
<1> QED
  BY <1>1, <1>2

LEMMA EscapeSteps ==
  ASSUME SetupIInv, EscapedFailureReads \/ persistEscapedTournamentSetupFailure
  PROVE  SetupGoesOn
<1>0. /\ Sound(row) /\ UNCHANGED <<setupJobs, rosterJobs, setupFaults, resuming, watch, frozen,
                                   commands, gameweeks>>
      /\ escaped \in [made: 0..MaxAttempts, attempt: 0..MaxAttempts, terminal: BOOLEAN]
  BY SetupParts DEF EscapedFailureReads, persistEscapedTournamentSetupFailure, EscapeElse, SetupIInv, SetupTypeOK
<1>1. /\ commands' \in 0..MaxCommands /\ commands' >= commands
      /\ watch' \in Row \cup {NoRow} /\ frozen' \in BOOLEAN /\ gameweeks' \in 0..MaxGameweeks
      /\ setupFaults' \in 0..MaxSetupFaults
  BY <1>0, SetupParts DEF SetupIInv, SetupTypeOK
<1>2. NoEscape \in [made: 0..MaxAttempts, attempt: 0..MaxAttempts, terminal: BOOLEAN]
  BY SetupKinds DEF NoEscape
<1>3. escaped' \in [made: 0..MaxAttempts, attempt: 0..MaxAttempts, terminal: BOOLEAN]
  <2>1. CASE escaped' = NoEscape
    BY <1>2, <2>1
  <2>2. CASE EscapedFailureReads /\ escaped' # NoEscape
    <3> DEFINE next == IF row.attempt + 1 > escaped.made THEN row.attempt + 1 ELSE escaped.made
               n == IF next > MaxAttempts THEN MaxAttempts ELSE next
               t == next >= MaxAttempts
    <3>1. next \in Nat
      BY <1>0, SetupParts, SetupKinds
    <3>2. escaped' = [escaped EXCEPT !.attempt = n, !.terminal = t]
      BY <2>2 DEF EscapedFailureReads
    <3> HIDE DEF next
    <3>3. n \in 0..MaxAttempts /\ t \in BOOLEAN
      BY <3>1, SetupKinds
    <3> HIDE DEF n, t
    <3> QED
      BY <1>0, <3>2, <3>3
  <2> QED
    BY <2>1, <2>2 DEF persistEscapedTournamentSetupFailure
<1>4. /\ row' = row \/ RowFree
      /\ Sound(row') /\ row'.members = row.members
      /\ row.setup = "ready" => row'.setup # "processing"
  <2>1. CASE EscapedFailureReads
    BY <1>0, <2>1 DEF EscapedFailureReads
  <2>2. CASE persistEscapedTournamentSetupFailure
    <3> DEFINE p == markSetupAttemptFailure(row, escaped.attempt, escaped.terminal)
    <3>1. row' \in {row, p} /\ RowFree
      BY <2>2 DEF persistEscapedTournamentSetupFailure, LifecycleFree, RowFree
    <3>2. Sound(p) /\ p.members = row.members /\ (row.setup \notin {"pending", "processing"} => p = row)
      BY <1>0, SetupParts, FailureRow
    <3> HIDE DEF p
    <3> QED
      BY <1>0, <3>1, <3>2
  <2> QED
    BY <2>1, <2>2
<1> DEFINE x == NoMark
<1>5. /\ \A i \in setupJobs' : i \in setupJobs \/ (/\ i \in SetupJob /\ i.step # "running"
                                                   /\ i.marker \in JobMarks \cup {x, NoMark})
      /\ \A i \in rosterJobs' : i \in rosterJobs \/ (i \in RosterJob /\ i.marker \in JobMarks \cup {x})
      /\ x \in JobMarks \cup {NoMark}
  BY <1>0
<1> HIDE DEF x
<1> QED
  BY <1>0, <1>1, <1>3, <1>4, <1>5, OtherStep

LEMMA WatchdogSteps ==
  ASSUME SetupIInv, WatchdogStep
  PROVE  SetupGoesOn
<1>0. /\ Sound(row) /\ UNCHANGED <<setupFaults, resuming, escaped, frozen, commands, gameweeks>>
  BY SetupParts DEF WatchdogStep, findStuckProcessing, recoverStuckTournamentSetups
<1>1. /\ commands' \in 0..MaxCommands /\ commands' >= commands
      /\ escaped' \in [made: 0..MaxAttempts, attempt: 0..MaxAttempts, terminal: BOOLEAN]
      /\ frozen' \in BOOLEAN /\ gameweeks' \in 0..MaxGameweeks /\ setupFaults' \in 0..MaxSetupFaults
  BY <1>0, SetupParts DEF SetupIInv, SetupTypeOK
<1>2. watch' \in Row \cup {NoRow}
  BY SetupParts DEF WatchdogStep, findStuckProcessing, recoverStuckTournamentSetups, Sound
<1>3. CASE UNCHANGED <<row, setupJobs, rosterJobs>>
  <2> DEFINE x == NoMark
  <2>1. /\ \A i \in setupJobs' : i \in setupJobs \/ (/\ i \in SetupJob /\ i.step # "running"
                                                     /\ i.marker \in JobMarks \cup {x, NoMark})
        /\ \A i \in rosterJobs' : i \in rosterJobs \/ (i \in RosterJob /\ i.marker \in JobMarks \cup {x})
        /\ x \in JobMarks \cup {NoMark}
    BY <1>3
  <2> HIDE DEF x
  <2> QED
    BY <1>0, <1>1, <1>2, <1>3, <2>1, OtherStep
<1> DEFINE again == [row EXCEPT !.setup = "pending", !.error = FALSE, !.retryAt = TRUE,
                                !.mark = Now, !.synced = FALSE, !.finishedAt = FALSE]
<1>4. Sound(again) /\ again.members = row.members /\ again.setup = "pending"
  BY <1>0, SetupParts DEF Sound, Row, Status
<1>5. ASSUME ~ UNCHANGED <<row, setupJobs, rosterJobs>>
      PROVE  /\ watch.mark \in Mark /\ setupJobs = {} /\ rosterJobs = {} /\ LifecycleFree
             /\ row' \in {row, again}
             /\ \/ enqueueTournamentSetup("base", NoMark, FALSE) /\ UNCHANGED rosterJobs
                \/ enqueueTournamentSetup("base", watch.mark, FALSE) /\ UNCHANGED rosterJobs
                \/ enqueueTournamentRosterReconcile("resume", watch.mark, TRUE) /\ UNCHANGED setupJobs
  <2>1. recoverStuckTournamentSetups
    BY <1>5 DEF WatchdogStep, findStuckProcessing
  <2>2. watch # NoRow /\ watch \in Row
    BY <2>1, SetupParts DEF recoverStuckTournamentSetups
  <2>3. watch.mark \in Mark
    BY <2>2 DEF Row
  <2> QED
    BY <1>5, <2>1, <2>3 DEF recoverStuckTournamentSetups
<1>6. CASE ~ UNCHANGED <<row, setupJobs, rosterJobs>>
  <2> DEFINE x == watch.mark
  <2>1. x \in Mark /\ setupJobs = {} /\ rosterJobs = {} /\ RowFree
    BY <1>5, <1>6 DEF RowFree
  <2>2. Sound(row') /\ row'.members = row.members /\ (row.setup = "ready" => row'.setup # "processing")
    BY <1>0, <1>4, <1>5, <1>6
  <2> HIDE DEF again
  <2>3. /\ \A i \in setupJobs' : i \in setupJobs \/ (/\ i \in SetupJob /\ i.step # "running"
                                                     /\ i.marker \in JobMarks \cup {x, NoMark})
        /\ \A i \in rosterJobs' : i \in rosterJobs \/ (i \in RosterJob /\ i.marker \in JobMarks \cup {x})
    <3>1. CASE enqueueTournamentSetup("base", NoMark, FALSE) /\ UNCHANGED rosterJobs
      BY <3>1, EnqueuedSetup
    <3>2. CASE enqueueTournamentSetup("base", watch.mark, FALSE) /\ UNCHANGED rosterJobs
      BY <2>1, <3>2, EnqueuedSetup
    <3>3. CASE enqueueTournamentRosterReconcile("resume", watch.mark, TRUE) /\ UNCHANGED setupJobs
      BY <2>1, <3>3, EnqueuedRoster
    <3> QED
      BY <1>5, <1>6, <3>1, <3>2, <3>3
  <2> HIDE DEF x
  <2> QED
    BY <1>0, <1>1, <1>2, <2>1, <2>2, <2>3, OtherStep
<1> QED
  BY <1>3, <1>6

\* A step that counts as a command, with the one marker it may bring.
LEMMA CommandStep ==
  ASSUME SetupIInv, NEW x, commands < MaxCommands, commands' = commands + 1,
         UNCHANGED <<setupFaults, escaped, watch, frozen, gameweeks>>,
         \A i \in setupJobs' : i \in setupJobs \/ (/\ i \in SetupJob /\ i.step # "running"
                                                   /\ i.marker \in JobMarks \cup {x, NoMark}),
         \A i \in rosterJobs' : i \in rosterJobs \/ (i \in RosterJob /\ i.marker \in JobMarks \cup {x}),
         resuming' = resuming \/ (LifecycleFree /\ resuming' \in Mark),
         row' = row \/ LifecycleFree, Sound(row'), row'.members = row.members
  PROVE  SetupGoesOn
<1>1. commands' \in 0..MaxCommands
  BY SetupParts, SetupKinds
<1>2. /\ escaped' \in [made: 0..MaxAttempts, attempt: 0..MaxAttempts, terminal: BOOLEAN]
      /\ watch' \in Row \cup {NoRow} /\ frozen' \in BOOLEAN /\ gameweeks' \in 0..MaxGameweeks
      /\ setupFaults' \in 0..MaxSetupFaults
  BY SetupParts DEF SetupIInv, SetupTypeOK
<1>3. row' = row \/ RowFree
  BY DEF LifecycleFree, RowFree
<1> QED
  BY <1>1, <1>2, <1>3, OtherStep

LEMMA OwnerSteps ==
  ASSUME SetupIInv,
         \/ pause \/ resumeOfficial \/ requestSnapshotTournamentResume \/ setRosterMode
         \/ retrySetup \/ retryRoster \/ deleteTournament
  PROVE  SetupGoesOn
<1>0. /\ Sound(row) /\ row.mark \in Mark /\ Now \in Mark
      /\ LifecycleFree /\ commands < MaxCommands /\ commands' = commands + 1
      /\ UNCHANGED <<setupFaults, escaped, watch, frozen, gameweeks>>
  BY SetupParts DEF pause, resumeOfficial, requestSnapshotTournamentResume, setRosterMode,
                    retrySetup, retryRoster, deleteTournament, Command
<1>1. CASE pause
  <2> DEFINE t == /\ row.mode = "official_sync" /\ row.state = "inactive" /\ row.roster = "failed"
                  /\ row.setup = "failed" /\ row.error
                  /\ findTournamentRosterReconcileJob(row.mark) \/ findTournamentSetupJob(row.mark)
  <2>1. row' = updateStateOwned(row, t) /\ UNCHANGED <<setupJobs, rosterJobs, resuming>>
    BY <1>1 DEF pause
  <2>2. t \in BOOLEAN
    OBVIOUS
  <2> HIDE DEF t
  <2>3. Sound(row') /\ row'.members = row.members
    BY <1>0, <2>1, <2>2, PausedRow
  <2> QED
    BY <1>0, <2>1, <2>3, CommandStep
<1>2. CASE resumeOfficial
  <2> DEFINE x == Now
  <2>1. /\ UNCHANGED <<row, setupJobs>> /\ resuming' = x
        /\ enqueueTournamentRosterReconcile("resume", x, TRUE)
    BY <1>2 DEF resumeOfficial
  <2>2. x \in Mark
    BY <1>0
  <2> HIDE DEF x
  <2>3. \A i \in rosterJobs' : i \in rosterJobs \/ (i \in RosterJob /\ i.marker = x)
    BY <2>1, <2>2, EnqueuedRoster
  <2> QED
    BY <1>0, <2>1, <2>2, <2>3, CommandStep
<1>3. CASE requestSnapshotTournamentResume \/ retrySetup
  <2> DEFINE d == enqueueDecision(NoMark, FALSE)
  <2>1. /\ \E manual \in BOOLEAN : enqueueTournamentSetup(d, NoMark, manual)
        /\ UNCHANGED <<rosterJobs, resuming>>
        /\ row' \in {row, markResumeProcessingWithMarker(row, Now), markSetupRetryQueued(row)}
    <3>1. CASE requestSnapshotTournamentResume
      BY <3>1 DEF requestSnapshotTournamentResume
    <3>2. CASE retrySetup
      BY <3>2 DEF retrySetup
    <3> QED
      BY <1>3, <3>1, <3>2
  <2> HIDE DEF d
  <2>2. \A i \in setupJobs' : i \in setupJobs \/ (i \in SetupJob /\ i.step # "running" /\ i.marker = NoMark)
    BY <2>1, EnqueuedSetup
  <2>3. Sound(row') /\ row'.members = row.members
    <3>1. LET p == markResumeProcessingWithMarker(row, Now) IN Sound(p) /\ p.members = row.members
      BY <1>0, MarkedRow
    <3> DEFINE q == markSetupProcessing(row, 0, Now)
    <3>2. Sound(q) /\ q.members = row.members
      <4>1. 0 \in 0..MaxAttempts
        BY SetupKinds
      <4> QED
        BY <1>0, <4>1, ProcessingRow
    <3>3. markSetupRetryQueued(row) = [q EXCEPT !.standings = NoStandings]
      BY DEF markSetupRetryQueued
    <3> HIDE DEF q
    <3>4. Sound([q EXCEPT !.standings = NoStandings]) /\ [q EXCEPT !.standings = NoStandings].members = q.members
      BY <3>2 DEF Sound, Row
    <3> QED
      BY <1>0, <2>1, <3>1, <3>2, <3>3, <3>4
  <2> QED
    BY <1>0, <2>1, <2>2, <2>3, CommandStep
<1>4. CASE setRosterMode
  <2> DEFINE x == row.mark
             p == [row EXCEPT !.mode = "official_sync", !.roster = "pending"]
  <2>1. /\ row' = p /\ UNCHANGED <<setupJobs, resuming>>
        /\ enqueueTournamentRosterReconcile("retry", x, FALSE) \/ UNCHANGED rosterJobs
    BY <1>4 DEF setRosterMode
  <2>2. Sound(p) /\ p.members = row.members
    BY <1>0 DEF Sound, Row, Status
  <2> HIDE DEF p, x
  <2>3. x \in Mark
    BY <1>0 DEF x
  <2>4. \A i \in rosterJobs' : i \in rosterJobs \/ (i \in RosterJob /\ i.marker = x)
    BY <2>1, <2>3, EnqueuedRoster
  <2> QED
    BY <1>0, <2>1, <2>2, <2>4, CommandStep
<1>5. CASE retryRoster
  <2> DEFINE x == row.mark
  <2>1. UNCHANGED <<row, setupJobs, resuming>> /\ enqueueTournamentRosterReconcile("retry", x, TRUE)
    BY <1>5 DEF retryRoster
  <2> HIDE DEF x
  <2>2. x \in Mark
    BY <1>0 DEF x
  <2>3. \A i \in rosterJobs' : i \in rosterJobs \/ (i \in RosterJob /\ i.marker = x)
    BY <2>1, <2>2, EnqueuedRoster
  <2> QED
    BY <1>0, <2>1, <2>3, CommandStep
<1>6. CASE deleteTournament
  <2> DEFINE p == [row EXCEPT !.live = FALSE, !.setup = "ready", !.roster = "none", !.attempt = 0,
                              !.standings = NoStandings, !.retryAt = FALSE, !.error = FALSE]
  <2>1. row' = p /\ UNCHANGED resuming /\ setupJobs' \subseteq setupJobs /\ rosterJobs' \subseteq rosterJobs
    BY <1>6 DEF deleteTournament
  <2>2. Sound(p) /\ p.members = row.members
    <3>1. 0 \in 0..MaxAttempts
      BY SetupKinds
    <3> QED
      BY <1>0, <3>1 DEF Sound, Row, Status
  <2> HIDE DEF p
  <2> QED
    BY <1>0, <2>1, <2>2, CommandStep
<1> QED
  BY <1>1, <1>2, <1>3, <1>4, <1>5, <1>6

LEMMA DailyAndFinishSteps ==
  ASSUME SetupIInv, reconcileOfficialTournamentRosters \/ finishThroughEvent
  PROVE  SetupGoesOn
<1>0. /\ Sound(row) /\ row.mark \in Mark /\ commands < MaxCommands /\ commands' = commands + 1
      /\ UNCHANGED <<setupJobs, resuming, setupFaults, escaped, watch, frozen, gameweeks>>
  BY SetupParts DEF reconcileOfficialTournamentRosters, finishThroughEvent
<1>1. CASE reconcileOfficialTournamentRosters
  <2> DEFINE x == row.mark
  <2>1. row' = row /\ enqueueTournamentRosterReconcile("daily", x, FALSE)
    BY <1>1 DEF reconcileOfficialTournamentRosters
  <2> HIDE DEF x
  <2>2. x \in Mark
    BY <1>0 DEF x
  <2>3. \A i \in rosterJobs' : i \in rosterJobs \/ (i \in RosterJob /\ i.marker = x)
    BY <2>1, <2>2, EnqueuedRoster
  <2> QED
    BY <1>0, <2>1, <2>3, CommandStep
<1>2. CASE finishThroughEvent
  <2> DEFINE p == [row EXCEPT !.state = "finished"]
  <2>1. row' = p /\ LifecycleFree /\ UNCHANGED rosterJobs
    BY <1>2 DEF finishThroughEvent
  <2>2. Sound(p) /\ p.members = row.members
    BY <1>0 DEF Sound, Row
  <2> HIDE DEF p
  <2> QED
    BY <1>0, <2>1, <2>2, CommandStep
<1> QED
  BY <1>1, <1>2

LEMMA RemainingSteps ==
  ASSUME SetupIInv, resumeCommits \/ GameweekTurns \/ WorkerDies \/ UNCHANGED setupVars
  PROVE  SetupGoesOn
<1>0. Sound(row) /\ UNCHANGED <<escaped, watch, commands>>
  BY SetupParts DEF resumeCommits, GameweekTurns, WorkerDies, otherThanRow, setupVars
<1>1. /\ commands' \in 0..MaxCommands /\ commands' >= commands
      /\ escaped' \in [made: 0..MaxAttempts, attempt: 0..MaxAttempts, terminal: BOOLEAN]
      /\ watch' \in Row \cup {NoRow}
  BY <1>0, SetupParts DEF SetupIInv, SetupTypeOK
<1>2. /\ frozen' \in BOOLEAN /\ gameweeks' \in 0..MaxGameweeks /\ setupFaults' \in 0..MaxSetupFaults
  <2>1. /\ frozen \in BOOLEAN /\ gameweeks \in 0..MaxGameweeks /\ setupFaults \in 0..MaxSetupFaults
        /\ MaxGameweeks \in Nat /\ MaxSetupFaults \in Nat
    BY SetupAssumption DEF SetupIInv, SetupTypeOK
  <2>2. CASE GameweekTurns
    BY <2>1, <2>2 DEF GameweekTurns
  <2>3. CASE WorkerDies
    BY <2>1, <2>3 DEF WorkerDies, otherThanRow
  <2>4. CASE resumeCommits \/ UNCHANGED setupVars
    BY <2>1, <2>4 DEF resumeCommits, setupVars
  <2> QED
    BY <2>2, <2>3, <2>4
<1>3. resuming' \in {resuming, NoMark}
  BY DEF resumeCommits, GameweekTurns, WorkerDies, otherThanRow, setupVars
<1>4. /\ Sound(row') /\ row'.members = row.members
      /\ row' = row \/ row'.setup # "ready"
      /\ row.setup = "ready" => row'.setup # "processing"
  <2>1. CASE resumeCommits
    <3>1. resuming \in Mark
      BY <2>1, SetupParts DEF resumeCommits
    <3> QED
      BY <1>0, <2>1, <3>1, MarkedRow DEF resumeCommits
  <2>2. CASE UNCHANGED row
    BY <1>0, <2>2
  <2> QED
    BY <2>1, <2>2 DEF GameweekTurns, WorkerDies, setupVars
<1> DEFINE x == NoMark
<1>5. /\ \A i \in setupJobs' : i \in setupJobs \/ (/\ i \in SetupJob /\ i.step # "running"
                                                   /\ i.marker \in JobMarks \cup {x, NoMark})
      /\ \A i \in rosterJobs' : i \in rosterJobs \/ (i \in RosterJob /\ i.marker \in JobMarks \cup {x})
  <2>1. CASE UNCHANGED <<setupJobs, rosterJobs>>
    BY <2>1
  <2>2. ASSUME NEW j \in setupJobs, SetupGoesTo(j, "waiting"), UNCHANGED rosterJobs
        PROVE  /\ \A i \in setupJobs' : i \in setupJobs \/ (/\ i \in SetupJob /\ i.step # "running"
                                                            /\ i.marker \in JobMarks \cup {x, NoMark})
               /\ \A i \in rosterJobs' : i \in rosterJobs
    <3>1. j \in SetupJob /\ j.marker \in JobMarks \cup {NoMark}
      BY SetupParts DEF JobMarks
    <3> DEFINE k == [j EXCEPT !.step = "waiting"]
    <3>2. k \in SetupJob /\ k.step # "running" /\ k.marker = j.marker
      BY <3>1, GoesToJob
    <3>3. setupJobs' = (setupJobs \ {j}) \cup {k}
      BY <2>2 DEF SetupGoesTo
    <3> HIDE DEF k
    <3> QED
      BY <2>2, <3>1, <3>2, <3>3
  <2>3. ASSUME NEW j \in rosterJobs, RosterGoesTo(j, "waiting"), UNCHANGED setupJobs
        PROVE  /\ \A i \in setupJobs' : i \in setupJobs
               /\ \A i \in rosterJobs' : i \in rosterJobs \/ (i \in RosterJob /\ i.marker \in JobMarks)
    BY <2>3, RosterJobMoves
  <2> QED
    BY <2>1, <2>2, <2>3 DEF resumeCommits, GameweekTurns, WorkerDies, setupVars
<1>6. x \in JobMarks \cup {NoMark}
  OBVIOUS
<1> HIDE DEF x
<1>7. /\ x \in JobMarks \cup {NoMark} /\ commands' >= commands
      /\ frozen => row'.members = row.members
      /\ row.live /\ row.setup = "ready" /\ row'.setup = "processing" => commands' = commands + 1
      /\ row' = row \/ RowFree \/ row'.setup # "ready"
      /\ resuming' \in {resuming, NoMark} \/ (LifecycleFree /\ resuming' \in Mark)
  <2>1. frozen => row'.members = row.members
    BY <1>4
  <2>2. row' = row \/ RowFree \/ row'.setup # "ready"
    BY <1>4
  <2>3. ASSUME row.setup = "ready", row'.setup = "processing" PROVE FALSE
    BY <1>4, <2>3
  <2> QED
    BY <1>1, <1>3, <1>6, <2>1, <2>2, <2>3
<1>8. Sound(row')
  BY <1>4
<1> QED
  BY <1>1, <1>2, <1>5, <1>7, <1>8, OtherStep

LEMMA SetupEveryStep ==
  ASSUME SetupIInv, [SetupNext]_setupVars
  PROVE  SetupGoesOn
<1>1. ASSUME NEW j \in setupJobs, SetupStep(j) \/ SetupEscapes(j) PROVE SetupGoesOn
  BY <1>1, SetupQuietStep, SetupCheckStep, StructureStep, SetupFailStep DEF SetupStep
<1>2. ASSUME NEW j \in rosterJobs, RosterStep(j) \/ RosterThrows(j) PROVE SetupGoesOn
  BY <1>2, RosterWriteSteps, PublishStep, RosterEnqueueStep DEF RosterStep
<1> QED
  BY <1>1, <1>2, EscapeSteps, WatchdogSteps, OwnerSteps, DailyAndFinishSteps, RemainingSteps DEF SetupNext

LEMMA SetupStarts == SetupInit => SetupIInv
<1> SUFFICES ASSUME SetupInit PROVE SetupIInv
  OBVIOUS
<1>0. 0 \in 0..MaxAttempts /\ 0 \in 0..MaxAttempts - 1 /\ 1 \in Mark /\ 2 \in Mark
  BY SetupKinds
<1>1. PICK mode \in {"snapshot", "official_sync"}, m \in Membership :
        LET created == createTournamentWithEntries(mode, m)
        IN  \/ /\ row = created
               /\ setupJobs = {[marker |-> NoMark, slot |-> "base", manual |-> FALSE,
                                step |-> "waiting", made |-> 0]}
            \/ /\ row = [created EXCEPT !.setup = "failed", !.error = TRUE, !.mark = 2,
                                         !.synced = FALSE, !.finishedAt = TRUE]
               /\ setupJobs = {}
  BY DEF SetupInit
<1> DEFINE created == createTournamentWithEntries(mode, m)
<1>2. Sound(created)
  BY <1>0 DEF createTournamentWithEntries, Sound, Row, Status
<1>3. Sound([created EXCEPT !.setup = "failed", !.error = TRUE, !.mark = 2, !.synced = FALSE,
                            !.finishedAt = TRUE])
  <2> HIDE DEF created
  <2> QED
    BY <1>0, <1>2 DEF Sound, Row, Status
<1>4. Sound(row)
  BY <1>1, <1>2, <1>3
<1>5. /\ setupJobs \subseteq SetupJob /\ \A j \in setupJobs : j.step = "waiting" /\ j.marker = NoMark
      /\ rosterJobs = {} /\ resuming = NoMark
  <2>1. [marker |-> NoMark, slot |-> "base", manual |-> FALSE, step |-> "waiting", made |-> 0] \in SetupJob
    BY <1>0 DEF SetupJob
  <2> QED
    <3> DEFINE j0 == [marker |-> NoMark, slot |-> "base", manual |-> FALSE, step |-> "waiting",
                      made |-> 0]
    <3>1. j0.step = "waiting" /\ j0.marker = NoMark /\ j0 \in SetupJob
      BY <2>1
    <3>2. setupJobs = {j0} \/ setupJobs = {}
      BY <1>1
    <3> HIDE DEF j0
    <3>3. rosterJobs = {} /\ resuming = NoMark
      BY DEF SetupInit
    <3> QED
      BY <3>1, <3>2, <3>3
<1>6. SetupTypeOK
  <2>1. 0 \in 0..MaxCommands /\ 0 \in 0..MaxSetupFaults /\ 0 \in 0..MaxGameweeks
    BY SetupAssumption
  <2>2. NoEscape \in [made: 0..MaxAttempts, attempt: 0..MaxAttempts, terminal: BOOLEAN]
    BY <1>0 DEF NoEscape
  <2>3. /\ escaped = NoEscape /\ watch = NoRow /\ frozen = FALSE
        /\ commands = 0 /\ setupFaults = 0 /\ gameweeks = 0
    BY DEF SetupInit
  <2>4. row \in Row
    BY <1>4 DEF Sound
  <2> QED
    BY <1>5, <2>1, <2>2, <2>3, <2>4 DEF SetupTypeOK
<1>7. StandingsMatchRoster
  BY <1>4 DEF Sound, StandingsMatchRoster
<1>8. Exclusive /\ ResumeUnfinished
  BY <1>5 DEF Exclusive, ResumeUnfinished
<1>9. MarksBounded
  <2>1. JobMarks = {}
    BY <1>5 DEF JobMarks
  <2> QED
    BY <2>1, FS_EmptySet DEF MarksBounded, SetupInit
<1> QED
  BY <1>6, <1>7, <1>8, <1>9 DEF SetupIInv

\* Standings that can be read are those of the roster in force, for every
\* number of rosters, commands and attempts, whatever setup jobs, reconcile
\* jobs, the watchdog, the owner and the failed listener write in between.
THEOREM SetupInvHolds == SetupSpec => []SetupInv
<1>1. SetupIInv /\ [SetupNext]_setupVars => SetupIInv'
  BY SetupEveryStep DEF SetupGoesOn
<1>2. SetupIInv => SetupInv
  BY DEF SetupIInv, SetupInv
<1> QED
  BY <1>1, <1>2, SetupStarts, PTL DEF SetupSpec

\* No step changes the roster while a gameweek is under way, and only a command
\* of the owner sets a published setup back to processing.
THEOREM SetupStepsHold == SetupSpec => SetupSteps
<1>1. SetupIInv /\ [SetupNext]_setupVars => SetupIInv'
  BY SetupEveryStep DEF SetupGoesOn
<1>2. SetupIInv /\ [SetupNext]_setupVars => [frozen => row'.members = row.members]_setupVars
  BY SetupEveryStep DEF SetupGoesOn
<1>3. SetupIInv /\ [SetupNext]_setupVars =>
        [(row.live /\ row.setup = "ready" /\ row'.setup = "processing") => commands' = commands + 1]_setupVars
  BY SetupEveryStep DEF SetupGoesOn
<1> QED
  BY <1>1, <1>2, <1>3, SetupStarts, PTL DEF SetupSpec, SetupSteps, RosterFrozenInGameweek, ReadyIsKept

(***************************************************************************)
(* The scan of the entries.                                                *)
(***************************************************************************)

USE EntryAssumption, ChunkAssumption, RetryAssumption, BoundsAssumption

(***************************************************************************)
(* The inductive invariant: what a job of the current generation stands    *)
(* for.                                                                    *)
(***************************************************************************)
Below(c) == {e \in base : e <= c}

\* Everything the scan has passed is synced, but for the entries of a list.
Passed(d) == Below(d.cursor) \ d.ids \subseteq synced

JobInv(j) ==
    /\ j.data.gen <= gen
    /\ j.pc \in {"renew", "enqueue"} => j.next.gen = j.data.gen
    /\ j.data.gen = gen =>
          /\ Passed(j.data)
          /\ j.pc \in {"renew", "enqueue"} => Passed(j.next)
          /\ j.pc = "complete" => base \subseteq synced

IInv ==
    /\ TypeOK
    /\ base \subseteq entries
    /\ ScanCoversEntries
    /\ \A j \in jobs : JobInv(j)

(***************************************************************************)
(* Types.                                                                  *)
(***************************************************************************)

\* Chunks and lists are job data.
LEMMA DataType ==
  ASSUME NEW g \in Gen, NEW c \in Cursor
  PROVE  /\ Chunk(g, c) \in JobData
         /\ \A F \in SUBSET Entry, n \in 1..MaxRetryCycles : List(g, c, F, n) \in JobData
BY DEF Chunk, List, JobData

\* Cursors are numbers.
LEMMA CursorNat == Cursor \subseteq Nat
BY DEF Cursor

\* The fields of a job's data.
LEMMA DataFields ==
  ASSUME NEW d \in JobData
  PROVE  /\ d.gen \in Gen /\ d.cursor \in Cursor /\ d.ids \subseteq Entry
         /\ d.kind \in {"chunk", "list"} /\ d.retry \in Nat
         /\ d.kind = "chunk" => d.ids = {}
BY DEF JobData

\* A job that is moved on is a job.
LEMMA MovedType ==
  ASSUME NEW j \in Job, NEW pc \in Pc, NEW n \in JobData, NEW t \in 0..Attempts
  PROVE  /\ [j EXCEPT !.pc = pc] \in Job
         /\ [j EXCEPT !.pc = pc, !.next = n] \in Job
         /\ [j EXCEPT !.pc = pc, !.tries = t] \in Job
         /\ [j EXCEPT !.pc = pc].data = j.data
         /\ [j EXCEPT !.pc = pc].pc = pc
         /\ [j EXCEPT !.pc = pc].next = j.next
         /\ [j EXCEPT !.pc = pc, !.next = n].data = j.data
         /\ [j EXCEPT !.pc = pc, !.next = n].pc = pc
         /\ [j EXCEPT !.pc = pc, !.next = n].next = n
         /\ [j EXCEPT !.pc = pc, !.tries = t].data = j.data
         /\ [j EXCEPT !.pc = pc, !.tries = t].pc = pc
         /\ [j EXCEPT !.pc = pc, !.tries = t].next = j.next
BY DEF Job

\* A new job waits.
LEMMA NewJobType ==
  ASSUME NEW d \in JobData
  PROVE  NewJob(d) \in Job /\ NewJob(d).data = d /\ NewJob(d).pc = "waiting"
BY DEF NewJob, Job, Pc

\* What a job loads, and where it goes on.
LEMMA LoadsType ==
  ASSUME TypeOK, NEW d \in JobData, NEW L \in Loads(d)
  PROVE  /\ L \subseteq Entry
         /\ Required(d, L) \subseteq L
         /\ Continuations(d, L) \subseteq Cursor
BY DataFields DEF TypeOK, Loads, Limited, Required, Continuations, Cursor

(***************************************************************************)
(* What a job that synced its entries has passed.                          *)
(***************************************************************************)

\* Up to the continuation, everything was passed before or is loaded now.
LEMMA ChunkPasses ==
  ASSUME TypeOK, base \subseteq entries, NEW d \in JobData, Passed(d),
         NEW L \in Loads(d), NEW c \in Continuations(d, L)
  PROVE  Below(c) \subseteq synced \cup L
<1>1. CASE d.kind = "list"
  BY <1>1 DEF Loads, Continuations, Passed, Below
<1>2. CASE d.kind # "list"
  <2>1. d.ids = {} /\ Below(d.cursor) \subseteq synced
    BY <1>2, DataFields DEF Passed
  <2>2. ASSUME NEW e \in Below(c), e \notin L
        PROVE  e <= d.cursor
    <3>0. e \in entries /\ e <= c /\ c \in L /\ L \subseteq Entry
      BY <1>2, <2>2, LoadsType DEF Below, Continuations
    <3>c. d.cursor \in Nat
      BY DataFields, CursorNat
    <3>1. e \in entries /\ e <= c /\ c \in L /\ e \in Nat /\ c \in Nat /\ d.cursor \in Nat
      BY <3>0, <3>c DEF TypeOK
    <3>2. e > d.cursor => c < e
      BY <1>2, <2>2, <3>1 DEF Loads, Limited
    <3> QED
      BY <3>1, <3>2
  <2> QED
    BY <2>1, <2>2 DEF Below
<1> QED
  BY <1>1, <1>2

\* A chunk that is not full is the rest of the entries.
LEMMA LastChunkCovers ==
  ASSUME TypeOK, base \subseteq entries, NEW d \in JobData, Passed(d), d.kind = "chunk",
         NEW L \in Loads(d), ~HasMore(d, L)
  PROVE  base \subseteq synced \cup L
<1>0. L \in Limited({e \in entries : e > d.cursor}, ChunkSize) /\ Cardinality(L) # ChunkSize
  BY DEF Loads, HasMore
<1>1. L = {e \in entries : e > d.cursor}
  BY <1>0 DEF Limited
<1>2. d.ids = {} /\ Below(d.cursor) \subseteq synced /\ d.cursor \in Nat
  BY DataFields, CursorNat DEF Passed
<1>3. \A e \in base : e \in Nat
  BY DEF TypeOK
<1> QED
  BY <1>1, <1>2, <1>3 DEF Below

(***************************************************************************)
(* Every step preserves the invariant.                                     *)
(***************************************************************************)

\* More synced entries, same generation: a job keeps its meaning.
LEMMA JobKept ==
  ASSUME NEW k, JobInv(k), gen' = gen, base' = base, synced \subseteq synced'
  PROVE  JobInv(k)'
BY DEF JobInv, Passed, Below

\* One job is replaced.
LEMMA JobReplaced ==
  ASSUME IInv, NEW j \in jobs, NEW m \in Job, JobInv(m)',
         jobs' = (jobs \ {j}) \cup {m},
         gen' = gen, base' = base, synced \subseteq synced'
  PROVE  jobs' \subseteq Job /\ \A k \in jobs' : JobInv(k)'
<1>1. ASSUME NEW k \in jobs
      PROVE  JobInv(k)'
  BY JobKept DEF IInv
<1> QED
  BY <1>1 DEF IInv, TypeOK

\* One job moves on to a point with no obligations of its own.
LEMMA JobMovesOn ==
  ASSUME IInv, NEW j \in jobs, NEW pc \in Pc, Goto(j, pc),
         pc \in {"renew", "enqueue"} => j.pc \in {"renew", "enqueue"},
         pc = "complete" => base \subseteq synced',
         gen' = gen, base' = base, synced \subseteq synced'
  PROVE  jobs' \subseteq Job /\ \A k \in jobs' : JobInv(k)'
<1> DEFINE m == [j EXCEPT !.pc = pc]
<1>1. j \in Job /\ JobInv(j)
  BY DEF IInv, TypeOK
<1>2. m \in Job /\ m.data = j.data /\ m.pc = pc /\ m.next = j.next
  BY <1>1 DEF Job
<1>3. JobInv(j)'
  BY <1>1, JobKept
<1>4. JobInv(m)'
  BY <1>2, <1>3 DEF JobInv
<1>5. jobs' = (jobs \ {j}) \cup {m}
  BY DEF Goto, Moved
<1> QED
  BY <1>2, <1>4, <1>5, JobReplaced

\* The steps of a job that sync nothing.
LEMMA JobControl ==
  ASSUME IInv, NEW j \in jobs,
         \/ JobStart(j) \/ JobThrows(j) \/ JobRenews(j) \/ JobCompletes(j) \/ JobCallFails(j)
         \/ JobStalls(j) \/ JobSettles(j) \/ JobFailed(j)
  PROVE  IInv'
<1>p. {"waiting", "active", "renew", "enqueue", "complete", "leave", "throw", "settled"} \subseteq Pc
  BY DEF Pc
<1>1. /\ entries' = entries /\ synced' = synced /\ base' = base /\ gen' = gen
      /\ \E pc \in Pc : /\ Goto(j, pc)
                        /\ pc \in {"renew", "enqueue"} => j.pc = "renew"
                        /\ pc # "complete"
  BY <1>p DEF JobStart, JobThrows, JobRenews, JobCompletes, JobCallFails, JobStalls, JobSettles,
              JobFailed, rowVars
<1>2. jobs' \subseteq Job /\ \A k \in jobs' : JobInv(k)'
  BY <1>1, JobMovesOn
<1>f. (faults' = faults \/ Fault) /\ causes' \in {causes, causes + 1}
  BY DEF JobStart, JobThrows, JobRenews, JobCompletes, JobCallFails, JobStalls, JobSettles, JobFailed
<1>3. faults' \in 0..MaxFaults /\ causes' \in Nat
  BY <1>f DEF Fault, IInv, TypeOK
<1>4. leased' \in BOOLEAN
  BY DEF JobStart, JobThrows, JobRenews, JobCompletes, JobCallFails, JobStalls, JobSettles,
         JobFailed, rowVars, IInv, TypeOK
<1>5. status' \in {"running", "failed", "succeeded"}
  BY DEF JobStart, JobThrows, JobRenews, JobCompletes, JobCallFails, JobStalls, JobSettles,
         JobFailed, rowVars, IInv, TypeOK
<1>6. TypeOK'
  BY <1>1, <1>2, <1>3, <1>4, <1>5 DEF IInv, TypeOK
<1>7. status' = "succeeded" => base \subseteq synced
  <2>1. CASE JobCompletes(j)
    BY <2>1 DEF JobCompletes, Current, IInv, JobInv, ScanCoversEntries
  <2>2. CASE ~JobCompletes(j)
    BY <2>2 DEF JobStart, JobThrows, JobRenews, JobCallFails, JobStalls, JobSettles,
                JobFailed, rowVars, IInv, ScanCoversEntries
  <2> QED
    BY <2>1, <2>2
<1> QED
  BY <1>1, <1>2, <1>6, <1>7 DEF IInv, ScanCoversEntries

\* A job whose entries all synced.
LEMMA SyncsInv ==
  ASSUME IInv, NEW j \in jobs, JobSyncs(j)
  PROVE  IInv'
<1> DEFINE d == j.data
<1>0. j \in Job /\ d \in JobData /\ JobInv(j) /\ d.gen \in Gen
  BY DataFields DEF IInv, TypeOK, Job
<1>1. PICK L \in Loads(d) :
         /\ synced' = synced \cup Required(d, L)
         /\ IF Continues(d, L)
            THEN \E c \in Continuations(d, L) :
                   jobs' = (jobs \ {j}) \cup {[j EXCEPT !.pc = "renew", !.next = Chunk(d.gen, c)]}
            ELSE Goto(j, IF d.kind = "chunk" THEN "complete" ELSE "leave")
  BY DEF JobSyncs
<1>2. /\ entries' = entries /\ base' = base /\ causes' = causes /\ faults' = faults
      /\ status' = status /\ gen' = gen /\ leased' = leased
  BY DEF JobSyncs, rowVars
<1>3. synced \subseteq synced' /\ synced' \subseteq Entry /\ L \subseteq synced'
  BY <1>0, <1>1, LoadsType DEF IInv, TypeOK, Required
<1>4. CASE Continues(d, L)
  <2>1. PICK c \in Continuations(d, L) :
          jobs' = (jobs \ {j}) \cup {[j EXCEPT !.pc = "renew", !.next = Chunk(d.gen, c)]}
    BY <1>1, <1>4
  <2> DEFINE n == Chunk(d.gen, c)
             m == [j EXCEPT !.pc = "renew", !.next = n]
  <2>2. n \in JobData
    BY <1>0, LoadsType, DataType DEF IInv
  <2>3. m \in Job /\ m.data = d /\ m.pc = "renew" /\ m.next = n
    BY <1>0, <2>2 DEF Job, Pc
  <2>4. n.gen = d.gen /\ n.cursor = c /\ n.ids = {}
    BY DEF Chunk
  <2>5. d.gen = gen => Below(c) \subseteq synced'
    BY <1>0, <1>3, ChunkPasses DEF IInv, JobInv
  <2>6. JobInv(j)'
    BY <1>0, <1>2, <1>3, JobKept
  <2>7. JobInv(m)'
    BY <1>2, <2>3, <2>4, <2>5, <2>6 DEF JobInv, Passed, Below
  <2>8. jobs' \subseteq Job /\ \A k \in jobs' : JobInv(k)'
    BY <1>2, <1>3, <2>1, <2>3, <2>7, JobReplaced
  <2> QED
    BY <1>2, <1>3, <2>8 DEF IInv, TypeOK, ScanCoversEntries
<1>5. CASE ~Continues(d, L)
  <2>1. d.kind = "chunk" /\ ~HasMore(d, L)
    BY <1>0, <1>5, DataFields DEF Continues
  <2>2. Goto(j, "complete") /\ "complete" \in Pc
    BY <1>1, <1>5, <2>1 DEF Pc
  <2>3. CASE d.gen = gen
    <3>1. base \subseteq synced'
      BY <1>0, <1>3, <2>1, <2>3, LastChunkCovers DEF IInv, JobInv
    <3>2. jobs' \subseteq Job /\ \A k \in jobs' : JobInv(k)'
      BY <1>2, <1>3, <2>2, <3>1, JobMovesOn
    <3> QED
      BY <1>2, <1>3, <3>2 DEF IInv, TypeOK, ScanCoversEntries
  <2>4. CASE d.gen # gen
    <3> DEFINE m == [j EXCEPT !.pc = "complete"]
    <3>1. m \in Job /\ m.data = d /\ m.pc = "complete"
      BY <1>0 DEF Job, Pc
    <3>2. JobInv(m)'
      BY <1>0, <1>2, <2>4, <3>1 DEF JobInv
    <3>3. jobs' \subseteq Job /\ \A k \in jobs' : JobInv(k)'
      BY <1>2, <1>3, <2>2, <3>1, <3>2, JobReplaced DEF Goto, Moved
    <3> QED
      BY <1>2, <1>3, <3>3 DEF IInv, TypeOK, ScanCoversEntries
  <2> QED
    BY <2>3, <2>4
<1> QED
  BY <1>4, <1>5

\* A job some of whose entries failed.
LEMMA SyncsSomeInv ==
  ASSUME IInv, NEW j \in jobs, JobSyncsSome(j)
  PROVE  IInv'
<1> DEFINE d == j.data
<1>0. j \in Job /\ d \in JobData /\ JobInv(j) /\ d.gen \in Gen /\ d.retry \in Nat
  BY DataFields DEF IInv, TypeOK, Job
<1>1. PICK L \in Loads(d) : \E F \in (SUBSET Required(d, L)) \ {{}}, c \in Continuations(d, L) :
         /\ synced' = synced \cup (Required(d, L) \ F)
         /\ jobs' = (jobs \ {j}) \cup
              {[j EXCEPT !.pc = "renew", !.next = List(d.gen, c, F, d.retry + 1)]}
  BY DEF JobSyncsSome
<1>2. PICK F \in (SUBSET Required(d, L)) \ {{}}, c \in Continuations(d, L) :
         /\ synced' = synced \cup (Required(d, L) \ F)
         /\ jobs' = (jobs \ {j}) \cup
              {[j EXCEPT !.pc = "renew", !.next = List(d.gen, c, F, d.retry + 1)]}
  BY <1>1
<1>3. /\ entries' = entries /\ base' = base /\ causes' = causes
      /\ status' = status /\ gen' = gen /\ leased' = leased
      /\ faults' \in 0..MaxFaults
  BY DEF JobSyncsSome, rowVars, Fault, IInv, TypeOK
<1>4. F \subseteq Entry /\ L \subseteq Entry /\ Required(d, L) \subseteq L /\ c \in Cursor
  BY <1>0, LoadsType DEF IInv
<1>5. synced \subseteq synced' /\ synced' \subseteq Entry /\ L \ F \subseteq synced'
  BY <1>2, <1>4 DEF IInv, TypeOK, Required
<1> DEFINE n == List(d.gen, c, F, d.retry + 1)
           m == [j EXCEPT !.pc = "renew", !.next = n]
<1>6. n \in JobData
  <2>1. d.retry + 1 \in 1..MaxRetryCycles
    BY <1>0 DEF JobSyncsSome, Retryable
  <2> QED
    BY <1>0, <1>4, <2>1, DataType
<1>7. m \in Job /\ m.data = d /\ m.pc = "renew" /\ m.next = n
  BY <1>0, <1>6 DEF Job, Pc
<1>8. n.gen = d.gen /\ n.cursor = c /\ n.ids = F
  BY DEF List
<1>9. d.gen = gen => Below(c) \ F \subseteq synced'
  BY <1>0, <1>5, ChunkPasses DEF IInv, JobInv
<1>10. JobInv(j)'
  BY <1>0, <1>3, <1>5, JobKept
<1>11. JobInv(m)'
  BY <1>3, <1>7, <1>8, <1>9, <1>10 DEF JobInv, Passed, Below
<1>12. jobs' \subseteq Job /\ \A k \in jobs' : JobInv(k)'
  BY <1>2, <1>3, <1>5, <1>7, <1>11, JobReplaced
<1> QED
  BY <1>3, <1>5, <1>12 DEF IInv, TypeOK, ScanCoversEntries

\* BullMQ's retry, and the successor.
LEMMA QueueInv ==
  ASSUME IInv, NEW j \in jobs, JobRetried(j) \/ JobEnqueues(j)
  PROVE  IInv'
<1>0. j \in Job /\ JobInv(j) /\ j.tries \in 0..Attempts /\ j.data \in JobData /\ j.next \in JobData
  BY DEF IInv, TypeOK, Job
<1>1. /\ entries' = entries /\ synced' = synced /\ base' = base /\ causes' = causes
      /\ status' = status /\ gen' = gen /\ leased' = leased /\ faults' = faults
  BY DEF JobRetried, JobEnqueues, rowVars
<1>2. JobInv(j)'
  BY <1>0, <1>1, JobKept
<1>3. CASE JobRetried(j)
  <2> DEFINE m == [j EXCEPT !.pc = "waiting", !.tries = j.tries + 1]
  <2>1. j.tries + 1 \in 0..Attempts
    BY <1>0, <1>3 DEF JobRetried
  <2>2. m \in Job /\ m.data = j.data /\ m.pc = "waiting"
    BY <1>0, <2>1 DEF Job, Pc
  <2>3. JobInv(m)'
    BY <1>2, <2>2 DEF JobInv
  <2>4. jobs' \subseteq Job /\ \A k \in jobs' : JobInv(k)'
    BY <1>1, <1>3, <2>2, <2>3, JobReplaced DEF JobRetried
  <2> QED
    BY <1>1, <2>4 DEF IInv, TypeOK, ScanCoversEntries
<1>4. CASE JobEnqueues(j)
  <2> DEFINE m == [j EXCEPT !.pc = "leave"]
             n == NewJob(j.next)
  <2>1. m \in Job /\ m.data = j.data /\ m.pc = "leave"
    BY <1>0 DEF Job, Pc
  <2>2. JobInv(m)'
    BY <1>2, <2>1 DEF JobInv
  <2>3. n \in Job /\ n.data = j.next /\ n.pc = "waiting"
    BY <1>0, NewJobType
  <2>4. JobInv(n)'
    BY <1>2, <1>4, <2>3 DEF JobInv, JobEnqueues
  <2>5. jobs' \subseteq jobs \cup {m, n}
    BY <1>4 DEF JobEnqueues, Moved
  <2>6. \A k \in jobs : JobInv(k)'
    BY <1>1, JobKept DEF IInv
  <2>7. jobs' \subseteq Job
    BY <2>1, <2>3, <2>5 DEF IInv, TypeOK
  <2>8. \A k \in jobs' : JobInv(k)'
    BY <2>2, <2>4, <2>5, <2>6
  <2> QED
    BY <1>1, <2>7, <2>8 DEF IInv, TypeOK, ScanCoversEntries
<1> QED
  BY <1>3, <1>4

\* No entry is passed at the cursor zero.
LEMMA NoneBelowZero ==
  ASSUME NEW S \in SUBSET Entry
  PROVE  {e \in S : e <= 0} = {}
<1>1. ASSUME NEW e \in S
      PROVE  ~(e <= 0)
  <2>1. e \in Nat /\ e # 0
    OBVIOUS
  <2> QED
    BY <2>1
<1> QED
  BY <1>1

\* A new generation starts with a root that has passed nothing.
LEMMA ClaimInv ==
  ASSUME IInv, Claim
  PROVE  IInv'
<1>0. gen \in Nat /\ gen + 1 \in Gen /\ 0 \in Cursor
  BY DEF Claim, IInv, TypeOK, Gen, Cursor
<1>1. PICK r, n : /\ r = Chunk(gen + 1, 0) /\ n = NewJob(r)
                  /\ jobs' = jobs \cup {n}
  BY DEF Claim
<1>2. /\ entries' = entries /\ synced' = synced /\ causes' = causes /\ faults' = faults
      /\ status' = "running" /\ gen' = gen + 1 /\ base' = entries
  BY DEF Claim
<1>3. leased' \in BOOLEAN
  BY DEF Claim
<1>4. n \in Job /\ n.data = r /\ n.pc = "waiting"
  BY <1>0, <1>1, DataType, NewJobType
<1>5. r.gen = gen + 1 /\ r.cursor = 0
  BY <1>1 DEF Chunk
<1>6. gen' \in Nat /\ base' \subseteq Entry
  BY <1>0, <1>2 DEF IInv, TypeOK
<1>7. JobInv(n)'
  <2>1. Below(0)' = {}
    BY <1>6, NoneBelowZero DEF Below
  <2>2. Passed(n.data)'
    BY <1>4, <1>5, <2>1 DEF Passed
  <2>3. n.data.gen <= gen'
    BY <1>0, <1>2, <1>4, <1>5
  <2> QED
    BY <1>4, <2>2, <2>3 DEF JobInv
<1>8. ASSUME NEW k \in jobs
      PROVE  JobInv(k)'
  <2>1. k.data.gen \in Nat /\ k.data.gen <= gen
    BY DataFields DEF IInv, TypeOK, Job, JobInv, Gen
  <2>2. k.pc \in {"renew", "enqueue"} => k.next.gen = k.data.gen
    BY DEF IInv, JobInv
  <2>3. k.data.gen <= gen + 1 /\ k.data.gen # gen + 1
    BY <1>0, <2>1
  <2>4. k.data.gen <= gen' /\ k.data.gen # gen'
    BY <1>2, <2>3
  <2> QED
    BY <2>2, <2>4 DEF JobInv
<1>9. jobs' \subseteq Job /\ \A k \in jobs' : JobInv(k)'
  BY <1>1, <1>4, <1>7, <1>8 DEF IInv, TypeOK
<1> QED
  BY <1>0, <1>2, <1>3, <1>9 DEF IInv, TypeOK, ScanCoversEntries

\* Leases and new entries.
LEMMA WorldInv ==
  ASSUME IInv, LeaseExpires \/ \E e \in Entry : EntryAdded(e)
  PROVE  IInv'
<1>1. /\ synced' = synced /\ base' = base /\ status' = status /\ gen' = gen /\ jobs' = jobs
      /\ entries \subseteq entries' /\ entries' \subseteq Entry
  BY DEF LeaseExpires, EntryAdded, rowVars, IInv, TypeOK
<1>f. (faults' = faults \/ Fault) /\ causes' \in {causes, causes + 1}
  BY DEF LeaseExpires, EntryAdded
<1>2. faults' \in 0..MaxFaults /\ causes' \in Nat
  BY <1>f DEF Fault, IInv, TypeOK
<1>3. leased' \in BOOLEAN
  BY DEF LeaseExpires, EntryAdded, rowVars, IInv, TypeOK
<1>4. \A k \in jobs : JobInv(k)'
  BY <1>1, JobKept DEF IInv
<1> QED
  BY <1>1, <1>2, <1>3, <1>4 DEF IInv, TypeOK, ScanCoversEntries

LEMMA InvInit == Init => IInv
<1> SUFFICES ASSUME Init
             PROVE  IInv
  OBVIOUS
<1> DEFINE r == Chunk(0, 0)
<1>0. 0 \in Gen /\ 0 \in Cursor
  BY DEF Gen, Cursor
<1>1. r \in JobData
  BY <1>0, DataType
<1>2. NewJob(r) \in Job /\ NewJob(r).data = r /\ NewJob(r).pc = "waiting"
  BY <1>1, NewJobType
<1>3. r.gen = 0 /\ r.cursor = 0 /\ r.ids = {}
  BY DEF Chunk
<1>4. base \subseteq Entry /\ gen = 0
  BY DEF Init
<1>5. JobInv(NewJob(r))
  <2>1. Below(0) = {}
    BY <1>4, NoneBelowZero DEF Below
  <2>2. Passed(NewJob(r).data)
    BY <1>2, <1>3, <2>1 DEF Passed
  <2>3. NewJob(r).data.gen <= gen
    BY <1>2, <1>3, <1>4
  <2> QED
    BY <1>2, <2>2, <2>3 DEF JobInv
<1>6. TypeOK
  BY <1>0, <1>2 DEF Init, TypeOK
<1> QED
  BY <1>5, <1>6 DEF Init, IInv, ScanCoversEntries

LEMMA InvNext ==
  ASSUME IInv, [Next]_vars
  PROVE  IInv'
<1>1. CASE UNCHANGED vars
  <2>1. /\ entries' = entries /\ synced' = synced /\ base' = base /\ causes' = causes
        /\ status' = status /\ gen' = gen /\ leased' = leased /\ faults' = faults /\ jobs' = jobs
    BY <1>1 DEF vars, rowVars
  <2>2. \A k \in jobs : JobInv(k)'
    BY <2>1, JobKept DEF IInv
  <2> QED
    BY <2>1, <2>2 DEF IInv, TypeOK, ScanCoversEntries
<1>2. ASSUME NEW j \in jobs, JobStep(j) \/ JobFault(j)
      PROVE  IInv'
  BY <1>2, JobControl, SyncsInv, SyncsSomeInv, QueueInv DEF JobStep, JobFault
<1> QED
  BY <1>1, <1>2, ClaimInv, WorldInv DEF Next

\* The chain's bookkeeping is type correct: no job is retried beyond its
\* budget, for any entries and bounds.
THEOREM ScanTypeCorrect == Spec => []TypeOK
<1>1. IInv => TypeOK
  BY DEF IInv
<1> QED
  BY <1>1, InvInit, InvNext, PTL DEF Spec

\* A succeeded scan has synced every entry there was when its generation was
\* claimed, for any number of entries and any chunk size.
THEOREM ScanCoversEntriesHolds == Spec => []ScanCoversEntries
<1>1. IInv => ScanCoversEntries
  BY DEF IInv
<1> QED
  BY <1>1, InvInit, InvNext, PTL DEF Spec

(***************************************************************************)
(* The chain: why a scan that nobody failed is never left behind.          *)
(***************************************************************************)

\* Where a job stands in the scan: the entry it starts from, and for jobs that
\* start from the same one the retries before the chunk.
Low(d) == IF d.kind = "chunk" THEN d.cursor ELSE CHOOSE e \in d.ids : \A f \in d.ids : e <= f
Turn(d) == IF d.kind = "chunk" THEN MaxRetryCycles + 1 ELSE d.retry
Before(d, e) == Low(d) < Low(e) \/ (Low(d) = Low(e) /\ Turn(d) < Turn(e))

\* A list has entries, and the scan goes on behind them.
WellFormed(d) == d.kind = "list" => d.ids # {} /\ \A e \in d.ids : e <= d.cursor

\* A job's successor is further on; a job that has enqueued it is not the last
\* of the chain: the queue knows the successor's ID.
Ahead(j) ==
    /\ WellFormed(j.data) /\ WellFormed(j.next) /\ j.next.gen = j.data.gen
    /\ j.pc \in {"renew", "enqueue"} => Before(j.data, j.next)

Handed(j) == Before(j.data, j.next) /\ \E k \in jobs : SameId(k.data, j.next)

\* What a generation still has to answer for: a claim needs a cause.
Caused ==
    /\ gen <= causes
    /\ status = "failed" \/ (status = "running" /\ ~leased) => gen < causes

\* While no cause is left, every job of the chain that is done was handed on.
Unbroken ==
    status = "running" /\ gen = causes =>
        \A j \in jobs : j.data.gen = gen /\ j.pc \in {"leave", "settled"} => Handed(j)

ChainInv ==
    /\ \A j \in jobs : Ahead(j)
    /\ \E j \in jobs : j.data.gen = gen
    /\ \E b \in Nat : \A j \in jobs : Low(j.data) <= b
    /\ Caused /\ Unbroken

SurvivalIInv == IInv /\ ChainInv

\* A set of numbers has a least one, and a greatest one when it is bounded.
LEMMA LeastNumber ==
  ASSUME NEW S \in SUBSET Nat, S # {}
  PROVE  \E e \in S : \A f \in S : e <= f
<1> DEFINE R == {ss \in Nat \X Nat : ss[1] < ss[2]}
<1>1. IsWellFoundedOn(R, Nat)
  BY NatLessThanWellFounded DEF OpToRel
<1>2. \E x \in S : \A y \in S : ~(<<y, x>> \in R)
  <2> HIDE DEF R
  <2> QED
    BY <1>1, WFMin
<1>3. PICK x \in S : \A y \in S : ~(y < x)
  BY <1>2
<1> QED
  BY <1>3

LEMMA GreatestNumber ==
  ASSUME NEW n \in Nat, NEW S \in SUBSET Nat, S # {}, \A e \in S : e <= n
  PROVE  \E e \in S : \A f \in S : f <= e
<1> DEFINE T == {n - e : e \in S}
<1>1. T \in SUBSET Nat /\ T # {}
  <2>1. \A e \in S : n - e \in Nat
    OBVIOUS
  <2> QED
    BY <2>1
<1>2. PICK x \in T : \A y \in T : x <= y
  <2> HIDE DEF T
  <2> QED
    BY <1>1, LeastNumber
<1>3. PICK e \in S : x = n - e
  BY <1>2
<1>4. ASSUME NEW f \in S PROVE f <= e
  <2>1. n - e <= n - f
    BY <1>2, <1>3
  <2> QED
    BY <2>1
<1> QED
  BY <1>4

LEMMA Standing ==
  ASSUME NEW d \in JobData, WellFormed(d)
  PROVE  /\ Low(d) \in Nat /\ Turn(d) \in Nat /\ Turn(d) <= MaxRetryCycles + 1
         /\ d.kind = "list" => /\ Low(d) \in d.ids /\ \A f \in d.ids : Low(d) <= f
                               /\ Turn(d) = d.retry /\ d.retry \in 1..MaxRetryCycles
         /\ d.kind = "chunk" => Low(d) = d.cursor /\ Turn(d) = MaxRetryCycles + 1
<1>1. CASE d.kind = "chunk"
  BY <1>1, DataFields, CursorNat DEF Low, Turn
<1>2. CASE d.kind = "list"
  <2>1. d.ids \in SUBSET Nat /\ d.ids # {} /\ d.retry \in 1..MaxRetryCycles
    BY <1>2, DataFields DEF WellFormed, JobData
  <2>2. \E e \in d.ids : \A f \in d.ids : e <= f
    BY <2>1, LeastNumber
  <2>3. Low(d) \in d.ids /\ \A f \in d.ids : Low(d) <= f
    BY <1>2, <2>2 DEF Low
  <2> QED
    BY <1>2, <2>1, <2>3 DEF Turn
<1> QED
  BY <1>1, <1>2, DataFields

\* The queue's IDs tell apart whatever stands apart.
LEMMA SameIdSameStanding ==
  ASSUME NEW d \in JobData, NEW e \in JobData, SameId(d, e)
  PROVE  Low(d) = Low(e) /\ Turn(d) = Turn(e) /\ d.gen = e.gen
<1>1. CASE d.kind = "chunk"
  BY <1>1 DEF SameId, Low, Turn
<1>2. CASE d.kind = "list"
  <2>1. e.kind = "list" /\ d.ids = e.ids /\ d.retry = e.retry /\ d.gen = e.gen
    BY <1>2 DEF SameId
  <2>2. Low(d) = Low(e)
    BY <1>2, <2>1 DEF Low
  <2> QED
    BY <1>2, <2>1, <2>2 DEF Turn
<1> QED
  BY <1>1, <1>2, DataFields

LEMMA JobParts ==
  ASSUME SurvivalIInv, NEW j \in jobs
  PROVE  /\ j \in Job /\ j.data \in JobData /\ j.next \in JobData /\ Ahead(j)
         /\ j.tries \in 0..Attempts
         /\ Low(j.data) \in Nat /\ Turn(j.data) \in Nat
         /\ gen \in Nat /\ causes \in Nat
<1>1. j \in Job /\ gen \in Nat /\ causes \in Nat
  BY DEF SurvivalIInv, IInv, TypeOK, Gen
<1>2. j.data \in JobData /\ j.next \in JobData /\ j.tries \in 0..Attempts
  BY <1>1 DEF Job
<1>3. Ahead(j)
  BY DEF SurvivalIInv, ChainInv
<1> QED
  BY <1>1, <1>2, <1>3, Standing DEF Ahead

\* Without a cause there is a job at work: were all done, the one that stands
\* furthest would have handed on to one that stands further.
LEMMA SomebodyWorks ==
  ASSUME SurvivalIInv, status = "running", gen = causes
  PROVE  Alive
<1> SUFFICES ASSUME ~Alive PROVE FALSE
  OBVIOUS
<1> DEFINE C == {j \in jobs : j.data.gen = gen}
           S == {Low(j.data) : j \in C}
<1>1. \A j \in C : Handed(j)
  BY DEF Alive, SurvivalIInv, ChainInv, Unbroken
<1>2. C # {}
  BY DEF SurvivalIInv, ChainInv
<1>3. PICK b \in Nat : \A j \in jobs : Low(j.data) <= b
  BY DEF SurvivalIInv, ChainInv
<1>4. S \in SUBSET Nat /\ S # {} /\ \A e \in S : e <= b
  BY <1>2, <1>3, JobParts
<1>5. PICK a \in S : \A e \in S : e <= a
  <2> HIDE DEF S
  <2> QED
    BY <1>4, GreatestNumber
<1> DEFINE T == {Turn(j.data) : j \in {k \in C : Low(k.data) = a}}
<1>6. T \in SUBSET Nat /\ T # {} /\ \A t \in T : t <= MaxRetryCycles + 1
  <2>1. \A j \in C : Turn(j.data) \in Nat /\ Turn(j.data) <= MaxRetryCycles + 1
    BY JobParts, Standing DEF Ahead
  <2> QED
    BY <1>5, <2>1
<1>7. PICK t \in T : \A u \in T : u <= t
  <2>1. MaxRetryCycles + 1 \in Nat
    OBVIOUS
  <2> HIDE DEF T
  <2> QED
    BY <1>6, <2>1, GreatestNumber
<1>8. PICK j \in C : Low(j.data) = a /\ Turn(j.data) = t
  BY <1>7
<1>9. PICK k \in jobs : SameId(k.data, j.next)
  BY <1>1, <1>8 DEF Handed
<1>10. /\ Low(k.data) = Low(j.next) /\ Turn(k.data) = Turn(j.next) /\ k.data.gen = gen
       /\ Before(j.data, j.next)
  BY <1>1, <1>8, <1>9, JobParts, SameIdSameStanding DEF Ahead, Handed
<1>11. k \in C /\ Low(k.data) \in S
  BY <1>10
<1>12. Low(k.data) <= a /\ Low(k.data) \in Nat /\ a \in Nat /\ Turn(k.data) \in Nat /\ t \in Nat
  BY <1>4, <1>5, <1>6, <1>11, JobParts
<1>13. Low(k.data) = a /\ t < Turn(k.data)
  BY <1>8, <1>10, <1>12 DEF Before
<1>14. Turn(k.data) \in T
  BY <1>11, <1>13
<1> QED
  BY <1>7, <1>12, <1>13, <1>14

\* A job moves on, and another may be added.
ScanMoves(j, m, N) ==
    /\ jobs' = ((jobs \ {j}) \cup {m}) \cup N
    /\ m.data = j.data /\ gen' = gen
    /\ Ahead(m) /\ \A n \in N : Ahead(n) /\ n.pc = "waiting"
    /\ \E x : N \subseteq {x}

LEMMA DataKept ==
  ASSUME NEW j, NEW m, NEW N, ScanMoves(j, m, N), NEW k, Handed(k)
  PROVE  Handed(k)'
<1>1. PICK i \in jobs : SameId(i.data, k.next)
  BY DEF Handed
<1>2. \E x \in jobs' : SameId(x.data, k.next)
  BY <1>1 DEF ScanMoves
<1> QED
  BY <1>2 DEF Handed

LEMMA ChainMoves ==
  ASSUME SurvivalIInv, NEW j \in jobs, NEW m \in Job, NEW N \in SUBSET Job, ScanMoves(j, m, N),
         Caused',
         status' = "running" /\ gen = causes' =>
            /\ status = "running" /\ gen = causes
            /\ m.data.gen = gen /\ m.pc \in {"leave", "settled"} => Handed(m)'
  PROVE  ChainInv'
<1>1. /\ jobs' = ((jobs \ {j}) \cup {m}) \cup N /\ m.data = j.data /\ gen' = gen
      /\ Ahead(m) /\ \A n \in N : Ahead(n) /\ n.pc = "waiting"
  BY DEF ScanMoves
<1>2. \A k \in jobs' : Ahead(k)
  BY <1>1, JobParts
<1>3. \E k \in jobs' : k.data.gen = gen'
  <2>1. PICK k \in jobs : k.data.gen = gen
    BY DEF SurvivalIInv, ChainInv
  <2> QED
    BY <1>1, <2>1
<1>4. \E b \in Nat : \A k \in jobs' : Low(k.data) <= b
  <2>1. PICK b \in Nat : \A k \in jobs : Low(k.data) <= b
    BY DEF SurvivalIInv, ChainInv
  <2>2. PICK x : N \subseteq {x}
    BY DEF ScanMoves
  <2>3. CASE N = {}
    <3>1. \A k \in jobs' : Low(k.data) <= b
      BY <1>1, <2>1, <2>3
    <3> QED
      BY <3>1
  <2>4. CASE x \in N
    <3> DEFINE l == Low(x.data)
               top == IF l <= b THEN b ELSE l
    <3>1. l \in Nat
      BY <1>1, <2>4, Standing DEF Ahead, Job
    <3>2. \A k \in jobs : Low(k.data) \in Nat
      BY JobParts
    <3>3. top \in Nat /\ l <= top /\ b <= top
      BY <3>1
    <3>4. \A k \in jobs' : Low(k.data) <= top
      <4> SUFFICES ASSUME NEW k \in jobs' PROVE Low(k.data) <= top
        OBVIOUS
      <4>1. CASE k = x
        BY <3>3, <4>1
      <4>2. CASE k # x
        <5>1. \E i \in jobs : k.data = i.data
          BY <1>1, <2>2, <4>2
        <5>2. Low(k.data) \in Nat /\ Low(k.data) <= b
          BY <2>1, <3>2, <5>1
        <5> HIDE DEF top
        <5> QED
          BY <3>3, <5>2
      <4> QED
        BY <4>1, <4>2
    <3> QED
      BY <3>3, <3>4
  <2> QED
    BY <2>2, <2>3, <2>4
<1>5. Unbroken'
  <2> SUFFICES ASSUME status' = "running", gen' = causes', NEW k \in jobs',
                      k.data.gen = gen', k.pc \in {"leave", "settled"}
               PROVE  Handed(k)'
    BY DEF Unbroken
  <2>1. /\ status = "running" /\ gen = causes
        /\ m.data.gen = gen /\ m.pc \in {"leave", "settled"} => Handed(m)'
    BY <1>1
  <2>2. CASE k = m
    BY <1>1, <2>1, <2>2
  <2>3. CASE k # m
    <3>1. k \in jobs
      BY <1>1, <2>3
    <3>2. Handed(k)
      BY <1>1, <2>1, <3>1 DEF SurvivalIInv, ChainInv, Unbroken
    <3> QED
      BY <3>2, DataKept
  <2> QED
    BY <2>2, <2>3
<1> QED
  BY <1>2, <1>3, <1>4, <1>5 DEF ChainInv, Ahead

\* A job goes to another point, as far as the queue knows.
LEMMA GoesOn ==
  ASSUME SurvivalIInv, NEW j \in jobs, NEW pc \in Pc, Goto(j, pc), gen' = gen,
         pc \in {"renew", "enqueue"} => j.pc \in {"renew", "enqueue"},
         Caused',
         status' = "running" /\ gen = causes' =>
            /\ status = "running" /\ gen = causes
            /\ j.data.gen = gen /\ pc \in {"leave", "settled"} => Handed(j)
  PROVE  ChainInv'
<1> DEFINE m == [j EXCEPT !.pc = pc]
<1>1. m \in Job /\ m.data = j.data /\ m.pc = pc /\ m.next = j.next
  BY JobParts DEF Job
<1>2. jobs' = ((jobs \ {j}) \cup {m}) \cup {}
  BY DEF Goto, Moved
<1> HIDE DEF m
<1>3. Ahead(m)
  BY <1>1, JobParts DEF Ahead
<1>4. ScanMoves(j, m, {})
  BY <1>1, <1>2, <1>3 DEF ScanMoves
<1>5. Handed(j) => Handed(m)'
  <2> SUFFICES ASSUME Handed(j) PROVE Handed(m)'
    OBVIOUS
  <2>1. Handed(j)'
    BY <1>4, DataKept
  <2> QED
    BY <1>1, <2>1 DEF Handed
<1>6. {} \in SUBSET Job
  OBVIOUS
<1> QED
  BY <1>1, <1>4, <1>5, <1>6, ChainMoves

LEMMA Points == Pc = {"waiting", "active", "renew", "enqueue", "complete", "leave", "throw", "settled"}
BY DEF Pc

\* The points of a job that leave the obligation's row alone.
LEMMA QuietSteps ==
  ASSUME SurvivalIInv, NEW j \in jobs,
         JobThrows(j) \/ JobCallFails(j) \/ JobStalls(j) \/ JobSettles(j)
  PROVE  ChainInv'
<1>1. /\ \E pc \in {"throw", "waiting", "settled"} :
            Goto(j, pc) /\ (pc = "settled" => j.pc = "leave")
      /\ status' = status /\ gen' = gen /\ leased' = leased /\ causes' = causes
  BY DEF JobThrows, JobCallFails, JobStalls, JobSettles, rowVars
<1>2. Caused'
  BY <1>1 DEF SurvivalIInv, ChainInv, Caused
<1>3. status = "running" /\ gen = causes /\ j.data.gen = gen /\ j.pc = "leave" => Handed(j)
  BY DEF SurvivalIInv, ChainInv, Unbroken
<1> QED
  BY <1>1, <1>2, <1>3, GoesOn, Points

\* A job of a stale generation, or of an obligation that is not running, has
\* nothing to hand on.
LEMMA GuardedSteps ==
  ASSUME SurvivalIInv, NEW j \in jobs, JobStart(j) \/ JobRenews(j)
  PROVE  ChainInv'
<1>1. /\ status' = status /\ gen' = gen /\ causes' = causes
      /\ leased' = leased \/ leased' = TRUE
      /\ \/ Goto(j, "active") \/ (Goto(j, "enqueue") /\ j.pc = "renew")
         \/ (\E pc \in {"settled", "leave"} : Goto(j, pc)) /\ ~Current(j)
  BY DEF JobStart, JobRenews
<1>2. Caused'
  BY <1>1 DEF SurvivalIInv, ChainInv, Caused
<1> QED
  BY <1>1, <1>2, GoesOn, Points DEF Current

LEMMA CompletesChain ==
  ASSUME SurvivalIInv, NEW j \in jobs, JobCompletes(j)
  PROVE  ChainInv'
<1>1. /\ Goto(j, "leave") /\ gen' = gen /\ causes' = causes
      /\ \/ status' = "succeeded"
         \/ status' = status /\ leased' = leased /\ ~Current(j)
  BY DEF JobCompletes
<1>2. Caused'
  BY <1>1 DEF SurvivalIInv, ChainInv, Caused
<1> QED
  BY <1>1, <1>2, GoesOn, Points DEF Current

\* A terminal failure is a cause, whether its update is lost or not.
LEMMA FailedChain ==
  ASSUME SurvivalIInv, NEW j \in jobs, JobFailed(j)
  PROVE  ChainInv'
<1>1. Goto(j, "settled") /\ gen' = gen /\ causes' = causes + 1
  BY DEF JobFailed
<1>2. gen \in Nat /\ causes \in Nat /\ gen <= causes
  BY JobParts DEF SurvivalIInv, ChainInv, Caused
<1>3. Caused' /\ gen # causes'
  BY <1>1, <1>2 DEF Caused
<1> QED
  BY <1>1, <1>3, GoesOn, Points

LEMMA RetriedChain ==
  ASSUME SurvivalIInv, NEW j \in jobs, JobRetried(j)
  PROVE  ChainInv'
<1> DEFINE m == [j EXCEPT !.pc = "waiting", !.tries = j.tries + 1]
<1>1. /\ jobs' = ((jobs \ {j}) \cup {m}) \cup {}
      /\ status' = status /\ gen' = gen /\ leased' = leased /\ causes' = causes
  BY DEF JobRetried, rowVars
<1>2. j.tries + 1 \in 0..Attempts
  BY JobParts DEF JobRetried
<1>3. m \in Job /\ m.data = j.data /\ m.pc = "waiting" /\ m.next = j.next
  BY <1>2, JobParts DEF Job, Pc
<1> HIDE DEF m
<1>4. ScanMoves(j, m, {})
  BY <1>1, <1>3, JobParts DEF ScanMoves, Ahead
<1>5. Caused'
  BY <1>1 DEF SurvivalIInv, ChainInv, Caused
<1>6. {} \in SUBSET Job
  OBVIOUS
<1> QED
  BY <1>1, <1>3, <1>4, <1>5, <1>6, ChainMoves

\* A successor is enqueued, unless the queue knows its ID.
LEMMA EnqueuesChain ==
  ASSUME SurvivalIInv, NEW j \in jobs, JobEnqueues(j)
  PROVE  ChainInv'
<1> DEFINE m == [j EXCEPT !.pc = "leave"]
           known == \E k \in jobs : SameId(k.data, j.next)
           N == IF known THEN {} ELSE {NewJob(j.next)}
<1>1. /\ jobs' = ((jobs \ {j}) \cup {m}) \cup N /\ j.pc = "enqueue"
      /\ status' = status /\ gen' = gen /\ leased' = leased /\ causes' = causes
  BY DEF JobEnqueues, rowVars, Moved
<1>2. m \in Job /\ m.data = j.data /\ m.pc = "leave" /\ m.next = j.next
  BY JobParts DEF Job, Pc
<1> HIDE DEF m
<1>3. /\ NewJob(j.next) \in Job /\ NewJob(j.next).data = j.next /\ NewJob(j.next).pc = "waiting"
      /\ NewJob(j.next).next = j.next
  BY JobParts, NewJobType DEF NewJob
<1>4. Ahead(m) /\ Ahead(NewJob(j.next))
  BY <1>2, <1>3, JobParts DEF Ahead
<1>5. N \in SUBSET Job /\ ScanMoves(j, m, N)
  BY <1>1, <1>2, <1>3, <1>4 DEF ScanMoves
<1>6. Handed(m)'
  <2>1. Before(m.data, m.next)
    BY <1>1, <1>2, JobParts DEF Ahead
  <2>2. \E k \in jobs' : SameId(k.data, j.next)
    <3>1. CASE known
      BY <1>1, <1>2, <3>1
    <3>2. CASE ~known
      <4>1. NewJob(j.next) \in jobs'
        BY <1>1, <3>2
      <4>2. SameId(j.next, j.next)
        BY DEF SameId
      <4> QED
        BY <1>3, <4>1, <4>2
    <3> QED
      BY <3>1, <3>2
  <2> QED
    BY <1>2, <2>1, <2>2 DEF Handed
<1>7. Caused'
  BY <1>1 DEF SurvivalIInv, ChainInv, Caused
<1> HIDE DEF N, known
<1> QED
  BY <1>1, <1>2, <1>5, <1>6, <1>7, ChainMoves

\* A job plans a successor that stands further on.
LEMMA PlansChain ==
  ASSUME SurvivalIInv, NEW j \in jobs, NEW n \in JobData, WellFormed(n), n.gen = j.data.gen,
         Before(j.data, n), jobs' = (jobs \ {j}) \cup {[j EXCEPT !.pc = "renew", !.next = n]},
         status' = status, gen' = gen, leased' = leased, causes' = causes
  PROVE  ChainInv'
<1> DEFINE m == [j EXCEPT !.pc = "renew", !.next = n]
<1>1. m \in Job /\ m.data = j.data /\ m.pc = "renew" /\ m.next = n
  BY JobParts DEF Job, Pc
<1>2. jobs' = ((jobs \ {j}) \cup {m}) \cup {}
  OBVIOUS
<1> HIDE DEF m
<1>3. Ahead(m)
  BY <1>1, JobParts DEF Ahead
<1>4. ScanMoves(j, m, {})
  BY <1>1, <1>2, <1>3 DEF ScanMoves
<1>5. Caused'
  BY DEF SurvivalIInv, ChainInv, Caused
<1>6. {} \in SUBSET Job
  OBVIOUS
<1> QED
  BY <1>1, <1>4, <1>5, <1>6, ChainMoves

\* Where the scan goes on stands further on than the job.
LEMMA GoesFurther ==
  ASSUME SurvivalIInv, NEW j \in jobs, NEW L \in Loads(j.data), NEW c \in Continuations(j.data, L)
  PROVE  /\ Chunk(j.data.gen, c) \in JobData /\ WellFormed(Chunk(j.data.gen, c))
         /\ Before(j.data, Chunk(j.data.gen, c)) /\ Chunk(j.data.gen, c).gen = j.data.gen
         /\ \A F \in SUBSET Required(j.data, L) :
               F # {} /\ Retryable(j.data) =>
                 LET n == List(j.data.gen, c, F, j.data.retry + 1)
                 IN  n \in JobData /\ WellFormed(n) /\ Before(j.data, n) /\ n.gen = j.data.gen
<1> DEFINE d == j.data
           x == Chunk(d.gen, c)
<1>1. d \in JobData /\ WellFormed(d) /\ d.gen \in Gen /\ d.retry \in Nat /\ d.cursor \in Nat
  BY JobParts, DataFields, CursorNat DEF Ahead
<1>2. c \in Cursor /\ c \in Nat /\ L \subseteq Entry /\ Required(d, L) \subseteq L
  BY <1>1, LoadsType, CursorNat DEF SurvivalIInv, IInv
<1> HIDE DEF d
<1>3. \A e \in L : e \in Nat /\ e <= c
  <2>1. CASE d.kind = "list"
    BY <1>1, <1>2, <2>1 DEF Loads, Continuations, WellFormed, d
  <2>2. CASE d.kind # "list"
    BY <1>2, <2>2 DEF Continuations, d
  <2> QED
    BY <2>1, <2>2
<1>4. d.kind = "chunk" => c \in L /\ \A e \in L : e > d.cursor
  BY DEF Loads, Limited, Continuations, d
<1>5. d.kind = "list" => L = d.ids
  BY DEF Loads, d
<1>6. Low(d) \in Nat /\ Turn(d) \in Nat /\ (d.kind = "chunk" => Low(d) = d.cursor)
      /\ (d.kind = "list" => /\ Low(d) \in d.ids /\ (\A f \in d.ids : Low(d) <= f)
                             /\ Turn(d) = d.retry /\ d.retry \in 1..MaxRetryCycles)
  BY <1>1, Standing
<1>7. d.kind \in {"chunk", "list"}
  BY <1>1, DataFields
<1>8. x \in JobData /\ WellFormed(x) /\ x.gen = d.gen /\ Low(x) = c /\ Turn(x) = MaxRetryCycles + 1
  <2>1. x \in JobData
    BY <1>1, <1>2, DataType
  <2> QED
    BY <2>1 DEF Chunk, WellFormed, Low, Turn
<1> HIDE DEF x
<1>9. Before(d, x)
  <2>1. CASE d.kind = "list"
    <3>1. Low(d) <= c /\ Turn(d) < MaxRetryCycles + 1
      BY <1>3, <1>5, <1>6, <2>1
    <3> QED
      BY <1>2, <1>6, <1>8, <3>1 DEF Before
  <2>2. CASE d.kind = "chunk"
    BY <1>1, <1>2, <1>4, <1>6, <1>8, <2>2 DEF Before
  <2> QED
    BY <1>7, <2>1, <2>2
<1>10. ASSUME NEW F \in SUBSET Required(d, L), F # {}, Retryable(d),
              NEW n, n = List(d.gen, c, F, d.retry + 1)
       PROVE  n \in JobData /\ WellFormed(n) /\ Before(d, n) /\ n.gen = d.gen
  <2>1. d.retry + 1 \in 1..MaxRetryCycles /\ F \in SUBSET Entry /\ F \subseteq L
    <3>1. d.retry + 1 \in 1..MaxRetryCycles
      BY <1>1, <1>10 DEF Retryable
    <3> QED
      BY <1>2, <3>1
  <2>2. n \in JobData
    BY <1>1, <1>2, <1>10, <2>1, DataType
  <2>3. /\ n.kind = "list" /\ n.ids = F /\ n.cursor = c /\ n.gen = d.gen /\ n.retry = d.retry + 1
    BY <1>10 DEF List
  <2>4. WellFormed(n)
    BY <1>3, <1>10, <2>1, <2>3 DEF WellFormed
  <2>5. Low(n) \in F /\ Low(n) \in Nat /\ Turn(n) = d.retry + 1
    BY <2>2, <2>3, <2>4, Standing
  <2>6. Before(d, n)
    <3>1. CASE d.kind = "list"
      BY <1>1, <1>5, <1>6, <2>1, <2>5, <3>1 DEF Before
    <3>2. CASE d.kind = "chunk"
      BY <1>1, <1>4, <1>6, <2>1, <2>5, <3>2 DEF Before
    <3> QED
      BY <1>7, <3>1, <3>2
  <2> QED
    BY <2>2, <2>3, <2>4, <2>6
<1> QED
  BY <1>8, <1>9, <1>10 DEF d, x

LEMMA SyncsChain ==
  ASSUME SurvivalIInv, NEW j \in jobs, JobSyncs(j)
  PROVE  ChainInv'
<1> DEFINE d == j.data
<1>1. /\ status' = status /\ gen' = gen /\ leased' = leased /\ causes' = causes
      /\ \/ \E L \in Loads(d) : \E c \in Continuations(d, L) :
              jobs' = (jobs \ {j}) \cup {[j EXCEPT !.pc = "renew", !.next = Chunk(d.gen, c)]}
         \/ Goto(j, "complete")
  BY JobParts, DataFields DEF JobSyncs, rowVars, Continues
<1>2. CASE Goto(j, "complete")
  BY <1>1, <1>2, GoesOn, Points DEF SurvivalIInv, ChainInv, Caused
<1>3. ASSUME NEW L \in Loads(d), NEW c \in Continuations(d, L),
             jobs' = (jobs \ {j}) \cup {[j EXCEPT !.pc = "renew", !.next = Chunk(d.gen, c)]}
      PROVE  ChainInv'
  BY <1>1, <1>3, GoesFurther, PlansChain
<1> QED
  BY <1>1, <1>2, <1>3

LEMMA SyncsSomeChain ==
  ASSUME SurvivalIInv, NEW j \in jobs, JobSyncsSome(j)
  PROVE  ChainInv'
<1> DEFINE d == j.data
<1>1. /\ status' = status /\ gen' = gen /\ leased' = leased /\ causes' = causes
      /\ Retryable(d)
  BY DEF JobSyncsSome, rowVars
<1>2a. PICK L \in Loads(d) :
         \E F \in (SUBSET Required(d, L)) \ {{}}, c \in Continuations(d, L) :
            jobs' = (jobs \ {j}) \cup
                      {[j EXCEPT !.pc = "renew", !.next = List(d.gen, c, F, d.retry + 1)]}
  BY DEF JobSyncsSome
<1>2. PICK F \in (SUBSET Required(d, L)) \ {{}}, c \in Continuations(d, L) :
        jobs' = (jobs \ {j}) \cup
                  {[j EXCEPT !.pc = "renew", !.next = List(d.gen, c, F, d.retry + 1)]}
  BY <1>2a
<1> DEFINE n == List(d.gen, c, F, d.retry + 1)
<1>3. n \in JobData /\ WellFormed(n) /\ Before(d, n) /\ n.gen = d.gen
  <2>1. F \in SUBSET Required(d, L) /\ F # {}
    BY <1>2
  <2> QED
    BY <1>1, <2>1, GoesFurther
<1> HIDE DEF n
<1> QED
  BY <1>1, <1>2, <1>3, PlansChain DEF n

\* A claim starts a chain of its own.
LEMMA ClaimChain ==
  ASSUME SurvivalIInv, IInv', Claim
  PROVE  ChainInv'
<1> DEFINE r == Chunk(gen + 1, 0)
           n == NewJob(r)
<1>1. /\ jobs' = jobs \cup {n} /\ gen' = gen + 1 /\ causes' = causes /\ status' = "running"
      /\ leased' = TRUE /\ gen < causes /\ gen + 1 \in Gen
  <2>1. gen < causes
    BY DEF Claim, SurvivalIInv, ChainInv, Caused
  <2>2. gen + 1 \in Gen
    BY DEF Claim, SurvivalIInv, IInv, TypeOK, Gen
  <2> QED
    BY <2>1, <2>2 DEF Claim
<1>2. gen \in Nat /\ causes \in Nat
  BY DEF SurvivalIInv, IInv, TypeOK, Gen
<1>3. /\ r \in JobData /\ r.gen = gen + 1 /\ r.kind = "chunk" /\ r.cursor = 0
  <2>1. 0 \in Cursor
    BY DEF Cursor
  <2>2. r \in JobData
    BY <1>1, <2>1, DataType
  <2> QED
    BY <2>2 DEF Chunk
<1> HIDE DEF r
<1>4. n \in Job /\ n.data = r /\ n.pc = "waiting" /\ n.next = r
  BY <1>3, NewJobType DEF NewJob
<1> HIDE DEF n
<1>5. WellFormed(r) /\ Low(r) = 0
  BY <1>3 DEF WellFormed, Low
<1>6. \A k \in jobs' : Ahead(k)
  BY <1>1, <1>4, <1>5, JobParts DEF Ahead
<1>7. \E k \in jobs' : k.data.gen = gen'
  BY <1>1, <1>3, <1>4
<1>8. \E b \in Nat : \A k \in jobs' : Low(k.data) <= b
  <2>1. PICK b \in Nat : \A k \in jobs : Low(k.data) <= b
    BY DEF SurvivalIInv, ChainInv
  <2>2. \A k \in jobs' : Low(k.data) <= b
    BY <1>1, <1>4, <1>5, <2>1
  <2> QED
    BY <2>2
<1>9. Caused'
  BY <1>1, <1>2 DEF Caused
<1>10. Unbroken'
  <2>1. \A k \in jobs : k.data.gen # gen + 1
    <3> SUFFICES ASSUME NEW k \in jobs PROVE k.data.gen # gen + 1
      OBVIOUS
    <3>1. k.data.gen <= gen /\ k.data.gen \in Nat
      BY JobParts, DataFields DEF SurvivalIInv, IInv, JobInv, Gen
    <3> QED
      BY <1>2, <3>1
  <2> QED
    BY <1>1, <1>4, <2>1 DEF Unbroken
<1> QED
  BY <1>6, <1>7, <1>8, <1>9, <1>10 DEF ChainInv, Ahead

\* A lease that runs out while a job works is a cause; and while no cause is
\* left some job works.
LEMMA WorldChain ==
  ASSUME SurvivalIInv, LeaseExpires \/ (\E e \in Entry : EntryAdded(e)) \/ UNCHANGED vars
  PROVE  ChainInv'
<1>1. /\ status' = status /\ gen' = gen /\ jobs' = jobs
      /\ \/ causes' = causes /\ leased' = leased
         \/ /\ leased' = FALSE
            /\ causes' = IF Alive THEN causes + 1 ELSE causes
  BY DEF LeaseExpires, EntryAdded, vars, rowVars
<1>2. gen \in Nat /\ causes \in Nat /\ gen <= causes
  BY DEF SurvivalIInv, IInv, TypeOK, Gen, ChainInv, Caused
<1>3. Caused'
  <2>1. CASE causes' = causes /\ leased' = leased
    BY <1>1, <2>1 DEF SurvivalIInv, ChainInv, Caused
  <2>2. CASE leased' = FALSE /\ causes' = IF Alive THEN causes + 1 ELSE causes
    <3>1. CASE Alive
      BY <1>1, <1>2, <2>2, <3>1 DEF Caused
    <3>2. CASE ~Alive
      <4>1. status = "running" => gen < causes
        BY <1>2, <3>2, SomebodyWorks
      <4> QED
        BY <1>1, <1>2, <2>2, <3>2, <4>1 DEF SurvivalIInv, ChainInv, Caused
    <3> QED
      BY <3>1, <3>2
  <2> QED
    BY <1>1, <2>1, <2>2
<1>4. Unbroken'
  <2> SUFFICES ASSUME status = "running", gen = causes', NEW k \in jobs, k.data.gen = gen,
                      k.pc \in {"leave", "settled"}
               PROVE  Handed(k)'
    BY <1>1 DEF Unbroken
  <2>1. gen = causes
    BY <1>1, <1>2
  <2>2. Handed(k)
    BY <2>1 DEF SurvivalIInv, ChainInv, Unbroken
  <2> QED
    BY <1>1, <2>2 DEF Handed
<1> QED
  BY <1>1, <1>3, <1>4 DEF SurvivalIInv, ChainInv, Ahead

LEMMA ChainInit == Init => ChainInv
<1> SUFFICES ASSUME Init PROVE ChainInv
  OBVIOUS
<1> DEFINE r == Chunk(0, 0)
           n == NewJob(r)
<1>1. jobs = {n} /\ gen = 0 /\ causes = 0 /\ status = "running" /\ leased = TRUE
  BY DEF Init
<1>2. /\ r.gen = 0 /\ r.kind = "chunk" /\ r.cursor = 0
  BY DEF Chunk
<1>3. n.data = r /\ n.pc = "waiting" /\ n.next = r
  BY DEF NewJob
<1> HIDE DEF n, r
<1>4. Ahead(n) /\ Low(r) = 0
  BY <1>2, <1>3 DEF Ahead, WellFormed, Low
<1>5. \E b \in Nat : \A k \in jobs : Low(k.data) <= b
  <2>1. \A k \in jobs : Low(k.data) <= 0
    BY <1>1, <1>3, <1>4
  <2> QED
    BY <2>1
<1>6. Caused /\ Unbroken
  BY <1>1, <1>3 DEF Caused, Unbroken
<1> QED
  BY <1>1, <1>2, <1>3, <1>4, <1>5, <1>6 DEF ChainInv

\* A scan is claimed again for a reason only, for any entries, chunk size,
\* retry budget, attempts and faults: a job's terminal failure, or a lease that
\* ran out under a working job.  The chain of enqueueSuccessor, with its
\* deterministic job IDs, never ends with a job that is done and has no
\* successor, however often its jobs stall, fork or run twice.
THEOREM ScanSurvivesRetriesHolds == Spec => []ScanSurvivesRetries
<1>1. Init => SurvivalIInv
  BY InvInit, ChainInit DEF SurvivalIInv
<1>2. SurvivalIInv /\ [Next]_vars => SurvivalIInv'
  <2> SUFFICES ASSUME SurvivalIInv, [Next]_vars PROVE SurvivalIInv'
    OBVIOUS
  <2>1. IInv'
    BY InvNext DEF SurvivalIInv
  <2>2. ASSUME NEW j \in jobs, JobStep(j) \/ JobFault(j) PROVE ChainInv'
    BY <2>2, QuietSteps, GuardedSteps, CompletesChain, FailedChain, RetriedChain, EnqueuesChain,
       SyncsChain, SyncsSomeChain DEF JobStep, JobFault
  <2>3. ChainInv'
    BY <2>1, <2>2, ClaimChain, WorldChain DEF Next
  <2> QED
    BY <2>1, <2>3 DEF SurvivalIInv
<1>3. SurvivalIInv => ScanSurvivesRetries
  BY DEF SurvivalIInv, ChainInv, Caused, ScanSurvivesRetries
<1> QED
  BY <1>1, <1>2, <1>3, PTL DEF Spec
=============================================================================
