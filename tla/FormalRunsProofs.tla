-------------------------- MODULE FormalRunsProofs --------------------------
(***************************************************************************)
(* Proofs about the formal runs of a partition, for any number of worker   *)
(* slots, runs, instants and faults, any failure threshold, overlap,       *)
(* capacity and budget.                                                    *)
(*                                                                         *)
(* A claim over a stale run, and a result that plans a follow-up, do two   *)
(* things in one transaction.  The parts of the inductive invariant        *)
(* therefore take the tables they speak of as parameters: what one half    *)
(* establishes of the tables between the two halves is what the other      *)
(* starts from.                                                            *)
(***************************************************************************)
EXTENDS FormalRuns, FiniteSetTheorems, WellFoundedInduction, TLAPS

SchedRecord == [lease : 0..MaxRuns, due : BOOLEAN, streak : Nat, checkpoint : Instant]
RunRecord ==
    [kind : {"none", "recurring", "followup"}, status : {"NONE"} \cup Active \cup Terminal,
     from : Instant, to : Instant, lease : {"none", "live", "expired"}]
Reservation == [scan : 0..1, probe : Nat, spent : Nat]
OutboxRow == [open : BOOLEAN, owned : BOOLEAN, fresh : BOOLEAN, id : Nat]
PassRecord == [pc : {"idle", "enqueue", "fail"}, run : 0..MaxRuns]
DispatchRecord == [pc : {"idle", "enqueue", "confirm", "release"}, run : 0..MaxRuns, id : Nat]
WorkerRecord ==
    [pc : {"idle", "running", "probing", "persist", "defer", "fail"}, run : 0..MaxRuns, id : Nat,
     probe : {"none", "reserved", "settled"}, probed : BOOLEAN, started : BOOLEAN,
     result : {"none", "COMPLETED", "PARTIAL"}, mid : Instant]

-----------------------------------------------------------------------------
(* The inductive invariant: the time line of the schedule s and its runs   *)
(* rs, with what was fetched (ft) and declared a gap (gp) up to n.          *)

\* Run numbers are taken in order.
KindsInOrder(rs) ==
    /\ \A r, q \in Run : r < q /\ rs[r].kind = "none" => rs[q].kind = "none"
    /\ \A r \in Run : rs[r].kind = "none" <=> rs[r].status = "NONE"

\* The run that holds the schedule's lease is the latest recurring one, and
\* the only one that is active.
LeaseIsLatest(s, rs) ==
    /\ s.lease # 0 => /\ rs[s.lease].kind = "recurring"
                      /\ \A r \in Run : rs[r].kind = "recurring" => r <= s.lease
    /\ \A r \in Run : rs[r].kind = "recurring" => (rs[r].status \in Active <=> s.lease = r)

\* A window that is being run, or that the next claim will retry, touches the
\* checkpoint on both sides: giving it up or persisting it leaves no hole.
Spans(s, w) == w.from <= s.checkpoint /\ s.checkpoint <= w.to
LastFailed(rs, r) ==
    /\ rs[r].kind = "recurring" /\ rs[r].status = "FAILED"
    /\ \A q \in Run : rs[q].kind = "recurring" /\ rs[q].status = "FAILED" => q <= r
WindowsSpan(s, rs, n) ==
    /\ s.checkpoint <= n /\ \A r \in Run : rs[r].to <= n
    /\ s.lease # 0 => Spans(s, rs[s.lease])
    /\ s.streak \in 1..Threshold - 1 => \A r \in Run : LastFailed(rs, r) => Spans(s, rs[r])

\* The window of a follow-up is accounted for, whatever its end was, and so is
\* everything behind the checkpoint.
ToRun == Active \cup {"FAILED"}
FollowupsAccounted(rs, ft, gp) ==
    \A r \in Run : rs[r].kind = "followup" /\ rs[r].status \notin ToRun =>
        \A t \in rs[r].from..rs[r].to : t \in ft \cup gp
PastAccounted(s, rs, ft, gp) ==
    \A t \in 0..s.checkpoint :
        \/ t \in ft \cup gp
        \/ \E r \in Run : rs[r].kind = "followup" /\ t \in rs[r].from..rs[r].to /\ rs[r].status \in ToRun

Timeline(s, rs, ft, gp, n) ==
    /\ KindsInOrder(rs) /\ LeaseIsLatest(s, rs) /\ WindowsSpan(s, rs, n)
    /\ FollowupsAccounted(rs, ft, gp) /\ PastAccounted(s, rs, ft, gp)

-----------------------------------------------------------------------------
(* The budget: the runs rs, the reservations b, the calls c, the runs l    *)
(* that were taken away, and the workers wk.                               *)

\* An unused run has neither reservations nor calls nor workers.
UnusedBlank(rs, b, c, l, wk) ==
    /\ \A r \in Run : rs[r].kind = "none" =>
         b[r] = [scan |-> 0, probe |-> 0, spent |-> 0] /\ c[r] = 0 /\ r \notin l
    /\ \A w \in Worker : wk[w].run # 0 => rs[wk[w].run].kind # "none"

\* Every probe a worker still counts on is among its run's reservations.
Reserving(wk, r) == {w \in Worker : wk[w].run = r /\ wk[w].probe = "reserved"}
ProbesReserved(b, wk) == \A r \in Run : Cardinality(Reserving(wk, r)) <= b[r].probe

\* A run that was never taken away has at most one worker, which owns its
\* reservations and knows of every call that is not charged yet.
One(p) == IF p THEN 1 ELSE 0
OwnsRun(rs, b, c, wk, w) ==
    LET r == wk[w].run IN
    /\ rs[r].status = "RUNNING" /\ b[r].scan = 1 /\ wk[w].probe # "settled"
    /\ b[r].probe = One(wk[w].probe = "reserved")
    /\ c[r] <= b[r].spent + One(wk[w].probed) + One(wk[w].started)
    /\ \A v \in Worker : wk[v].run = r => v = w
Owned(rs, b, c, l, wk) ==
    /\ \A w \in Worker : wk[w].run \in Run \ l => OwnsRun(rs, b, c, wk, w)
    /\ \A r \in Run \ l : rs[r].status = "PENDING" =>
         b[r].scan = 1 /\ b[r].probe = 0 /\ c[r] <= b[r].spent

\* Calls are paid for, and a run that has ended has nothing reserved.
Paid(rs, b, c, l) ==
    \A r \in Run \ l : /\ c[r] <= b[r].scan + b[r].probe + b[r].spent
                       /\ rs[r].status \in Terminal => b[r].scan + b[r].probe = 0

Budget(rs, b, c, l, wk) ==
    /\ UnusedBlank(rs, b, c, l, wk) /\ ProbesReserved(b, wk)
    /\ Owned(rs, b, c, l, wk) /\ Paid(rs, b, c, l)

-----------------------------------------------------------------------------

\* A step of the pass, of the dispatcher and of a worker is about a run; how
\* far a worker is, and what it has reserved and sent.
Engaged ==
    /\ pass.pc # "idle" => pass.run \in Run
    /\ disp.pc # "idle" => disp.run \in Run
WorkerPhase(x) ==
    /\ x.pc = "idle" <=> x.run = 0
    /\ x.pc = "idle" => x.probe = "none"
    /\ x.pc \in {"running", "probing", "defer"} => ~x.started
    /\ x.pc = "probing" => x.probe # "none" /\ ~x.probed
    /\ x.probed => x.probe # "none"
    /\ x.pc = "persist" => x.result # "none"
WorkerPhases == \A w \in Worker : WorkerPhase(worker[w])

RunsIInv ==
    /\ TypeOK /\ Engaged /\ WorkerPhases
    /\ Timeline(sched, run, fetched, gaps, now)
    /\ Budget(run, res, calls, lost, worker)

LEMMA Types ==
    TypeOK <=>
        /\ now \in Instant /\ sched \in SchedRecord /\ run \in [Run -> RunRecord]
        /\ res \in [Run -> Reservation] /\ gaps \subseteq Instant /\ fetched \subseteq Instant
        /\ outbox \in [Run -> OutboxRow] /\ pass \in PassRecord /\ disp \in DispatchRecord
        /\ waiting \subseteq added /\ added \subseteq Run \X Nat
        /\ worker \in [Worker -> WorkerRecord]
        /\ calls \in [Run -> Nat] /\ lost \subseteq Run /\ faults \in 0..MaxFaults
BY Zenon DEF TypeOK, SchedRecord, RunRecord, Reservation, OutboxRow, PassRecord, DispatchRecord,
             WorkerRecord

LEMMA InitIInv == Init => RunsIInv
<1> SUFFICES ASSUME Init PROVE RunsIInv
  OBVIOUS
<1> USE ScheduleAssumption, BoundsAssumption DEF Init, Run, Instant
<1>1. TypeOK
  BY SMT DEF TypeOK, NoRun, NoRow, Idle, Active, Terminal
<1>2. Engaged /\ WorkerPhases
  BY DEF Engaged, WorkerPhases, WorkerPhase, Idle
<1>3. Timeline(sched, run, fetched, gaps, now)
  BY DEF Timeline, KindsInOrder, LeaseIsLatest, WindowsSpan, LastFailed, Spans, FollowupsAccounted,
         PastAccounted, NoRun, Active, ToRun
<1>4. Budget(run, res, calls, lost, worker)
  <2>1. \A r \in Run : Reserving(worker, r) = {}
    BY DEF Reserving, Idle
  <2>2. \A r \in Run : res[r] = [scan |-> 0, probe |-> 0, spent |-> 0] /\ calls[r] = 0 /\ run[r] = NoRun
    OBVIOUS
  <2>3. \A w \in Worker : worker[w].run = 0
    BY DEF Idle
  <2>4. Cardinality({}) = 0
    BY FS_EmptySet
  <2>5. ProbesReserved(res, worker)
    <3>1. \A r \in Run : Cardinality(Reserving(worker, r)) = 0
      BY <2>1, <2>4, Zenon
    <3>2. \A r \in Run : res[r].probe = 0
      BY <2>2
    <3> QED
      BY <3>1, <3>2 DEF ProbesReserved
  <2>6. UnusedBlank(run, res, calls, lost, worker)
    BY <2>2, <2>3, Zenon DEF UnusedBlank, Init
  <2>7. Owned(run, res, calls, lost, worker) /\ Paid(run, res, calls, lost)
    BY <2>2, <2>3 DEF Owned, Paid, NoRun, Terminal
  <2> QED
    BY <2>5, <2>6, <2>7 DEF Budget
<1> QED
  BY <1>1, <1>2, <1>3, <1>4 DEF RunsIInv

-----------------------------------------------------------------------------
(* Minima and maxima. *)

\* The next run number is the least unused one.
LEMMA LeastRun ==
    ASSUME NEW S \in SUBSET Run, S # {}
    PROVE  Min(S) \in S /\ \A y \in S : Min(S) <= y
<1>1. S \subseteq Nat
  BY BoundsAssumption DEF Run
<1>2. \E x \in S : \A y \in S : ~(<<y, x>> \in OpToRel(<, Nat))
  BY <1>1, NatLessThanWellFounded, WFMin, Zenon
<1>3. \A x, y \in Nat : y < x => <<y, x>> \in OpToRel(<, Nat)
  BY DEF OpToRel
<1>4. \A x, y \in S : ~(y < x) => x <= y
  BY <1>1
<1>5. \E x \in S : \A y \in S : x <= y
  BY <1>1, <1>2, <1>3, <1>4, Zenon
<1> QED
  BY <1>5, Zenon DEF Min

\* The run a retry repeats is the last one.
LEMMA GreatestRun ==
    ASSUME NEW S \in SUBSET Run, S # {}
    PROVE  Max(S) \in S /\ \A y \in S : Max(S) >= y
<1> DEFINE T == {MaxRuns + 1 - x : x \in S}
<1>0. \A x \in S : x \in Run /\ x \in Int /\ MaxRuns + 1 - x \in Run
  BY BoundsAssumption DEF Run
<1>1. T \in SUBSET Run /\ T # {}
  BY <1>0, Zenon
<1>2. PICK t \in T : \A y \in T : t <= y
  <2> HIDE DEF T
  <2> QED
    BY <1>1, LeastRun
<1>3. PICK x \in S : t = MaxRuns + 1 - x
  BY <1>2
<1>4. \A y \in S : x >= y
  <2>1. \A y \in S : t <= MaxRuns + 1 - y
    BY <1>2, Zenon
  <2> QED
    BY <1>0, <1>3, <2>1, BoundsAssumption
<1> QED
  BY <1>3, <1>4, Zenon DEF Max

\* The start of a new window.
LEMMA WindowStart ==
    ASSUME NEW c \in Instant
    PROVE  Max({0, c - Overlap}) \in Instant /\ Max({0, c - Overlap}) <= c
<1> DEFINE S == {0, c - Overlap}
<1>1. c \in Int /\ Overlap \in Int /\ Overlap > 0 /\ c >= 0 /\ c <= MaxNow /\ MaxNow \in Nat
  BY ScheduleAssumption, BoundsAssumption DEF Instant
<1>2. \E x \in S : \A y \in S : x >= y
  <2>1. CASE c - Overlap >= 0
    BY <1>1, <2>1
  <2>2. CASE ~(c - Overlap >= 0)
    BY <1>1, <2>2
  <2> QED
    BY <2>1, <2>2
<1>3. Max(S) \in S /\ \A y \in S : Max(S) >= y
  BY <1>2, Zenon DEF Max
<1> QED
  BY <1>1, <1>3 DEF Instant

-----------------------------------------------------------------------------
(* What the transactions do to the time line. *)

\* Runs rs and rt differ in leases, or in whether an active run has begun.
Alike(x, y) ==
    /\ y.kind = x.kind /\ y.from = x.from /\ y.to = x.to
    /\ x.status \in Active <=> y.status \in Active
    /\ x.status \notin Active => y.status = x.status

LEMMA SchedFields ==
    ASSUME NEW s \in SchedRecord
    PROVE  /\ s.lease \in 0..MaxRuns /\ s.lease \in Int /\ (s.lease # 0 => s.lease \in Run)
           /\ s.streak \in Nat /\ s.checkpoint \in Instant /\ s.checkpoint \in Nat
BY BoundsAssumption DEF SchedRecord, Instant, Run

LEMMA RunFields ==
    ASSUME NEW rs \in [Run -> RunRecord], NEW r \in Run
    PROVE  /\ r \in Int /\ rs[r] \in RunRecord
           /\ rs[r].kind \in {"none", "recurring", "followup"}
           /\ rs[r].status \in {"NONE"} \cup Active \cup Terminal
           /\ rs[r].from \in Instant /\ rs[r].to \in Instant
           /\ rs[r].from \in Nat /\ rs[r].to \in Nat
BY BoundsAssumption DEF RunRecord, Instant, Run

LEMMA TimelineStays ==
    ASSUME NEW s \in SchedRecord, NEW u \in SchedRecord, NEW rs \in [Run -> RunRecord],
           NEW rt \in [Run -> RunRecord], NEW ft, NEW gp, NEW n \in Instant, NEW m \in Instant,
           Timeline(s, rs, ft, gp, n), n <= m,
           u.lease = s.lease, u.streak = s.streak, u.checkpoint = s.checkpoint,
           \A r \in Run : Alike(rs[r], rt[r])
    PROVE  Timeline(u, rt, ft, gp, m)
<1> USE DEF Alike
<1>0. n \in Int /\ m \in Int
  BY BoundsAssumption DEF Instant
<1>1. KindsInOrder(rt)
  BY DEF Timeline, KindsInOrder, Active
<1>2. LeaseIsLatest(u, rt)
  BY SchedFields DEF Timeline, LeaseIsLatest
<1>3. WindowsSpan(u, rt, m)
  <2>1. u.checkpoint <= m /\ \A r \in Run : rt[r].to <= m
    BY <1>0, SchedFields, RunFields DEF Timeline, WindowsSpan
  <2>2. u.lease # 0 => Spans(u, rt[u.lease])
    BY SchedFields DEF Timeline, WindowsSpan, Spans
  <2>3. ASSUME u.streak \in 1..Threshold - 1, NEW r \in Run, LastFailed(rt, r)
        PROVE  Spans(u, rt[r])
    <3>1. LastFailed(rs, r)
      BY <2>3 DEF LastFailed, Active
    <3> QED
      BY <2>3, <3>1 DEF Timeline, WindowsSpan, Spans
  <2> QED
    BY <2>1, <2>2, <2>3 DEF WindowsSpan
<1>4. \A r \in Run : rs[r].status \in ToRun <=> rt[r].status \in ToRun
  BY DEF ToRun, Active
<1>5. FollowupsAccounted(rt, ft, gp)
  BY <1>4 DEF Timeline, FollowupsAccounted
<1>6. PastAccounted(u, rt, ft, gp)
  BY <1>4 DEF Timeline, PastAccounted
<1> QED
  BY <1>1, <1>2, <1>3, <1>5, <1>6 DEF Timeline

GivenUp(s, x) == x.kind = "recurring" /\ s.streak + 1 >= Threshold

\* An active run r ends and its window is given up, or left for a retry.
LEMMA TimelineFails ==
    ASSUME NEW s \in SchedRecord, NEW u \in SchedRecord, NEW rs \in [Run -> RunRecord],
           NEW rt \in [Run -> RunRecord], NEW ft, NEW gp, NEW gq, NEW n \in Instant,
           Timeline(s, rs, ft, gp, n), NEW r \in Run, rs[r].status \in Active,
           rt[r].kind = rs[r].kind, rt[r].from = rs[r].from, rt[r].to = rs[r].to,
           \A q \in Run : q # r => rt[q] = rs[q],
           rt[r].status = IF GivenUp(s, rs[r]) THEN "GAP" ELSE "FAILED",
           gq = IF GivenUp(s, rs[r]) THEN gp \cup (rs[r].from..rs[r].to) ELSE gp,
           IF rs[r].kind = "recurring"
           THEN /\ u.lease = 0 /\ u.streak = s.streak + 1
                /\ u.checkpoint = IF GivenUp(s, rs[r]) THEN rs[r].to ELSE s.checkpoint
           ELSE u = s
    PROVE  Timeline(u, rt, ft, gq, n) /\ u.checkpoint >= s.checkpoint
<1>0. /\ n \in Int /\ Threshold \in Int
      /\ s.streak \in Int /\ s.checkpoint \in Int /\ u.streak \in Int /\ u.checkpoint \in Int
  BY ScheduleAssumption, BoundsAssumption, SchedFields DEF Instant
<1>1. \A q \in Run : rt[q].kind = rs[q].kind /\ rt[q].from = rs[q].from /\ rt[q].to = rs[q].to
  OBVIOUS
<1>2. rt[r].status \notin Active /\ rt[r].status # "NONE" /\ rs[r].kind # "none"
  BY DEF Active, Timeline, KindsInOrder
<1>3. KindsInOrder(rt)
  <2>1. \A q \in Run : rt[q].kind = "none" <=> rt[q].status = "NONE"
    BY <1>1, <1>2 DEF Timeline, KindsInOrder
  <2> QED
    BY <1>1, <2>1 DEF Timeline, KindsInOrder
<1>4. CASE rs[r].kind = "recurring"
  <2>0. s.lease = r
    BY <1>4 DEF Timeline, LeaseIsLatest
  <2>1. Spans(s, rs[r])
    BY <2>0, SchedFields, RunFields DEF Timeline, WindowsSpan, Run
  <2>2. u.checkpoint >= s.checkpoint
    BY <1>0, <1>4, <2>1 DEF Spans
  <2>3. LeaseIsLatest(u, rt)
    <3>1. u.lease = 0 /\ \A q \in Run : q # 0
      BY <1>4 DEF Run
    <3>2. \A q \in Run : q # r /\ rs[q].kind = "recurring" => rs[q].status \notin Active
      BY <2>0 DEF Timeline, LeaseIsLatest
    <3>3. \A q \in Run : rt[q].kind = "recurring" => rt[q].status \notin Active
      BY <1>2, <3>2
    <3> QED
      BY <3>1, <3>3 DEF LeaseIsLatest
  <2>4. WindowsSpan(u, rt, n)
    <3>1. u.checkpoint <= n /\ \A q \in Run : rt[q].to <= n
      BY <1>1, <1>4 DEF Timeline, WindowsSpan
    <3>2. ASSUME u.streak \in 1..Threshold - 1, NEW q \in Run, LastFailed(rt, q)
          PROVE  Spans(u, rt[q])
      <4>1. ~GivenUp(s, rs[r])
        BY <1>0, <1>4, <3>2 DEF GivenUp
      <4>2. rt[r].kind = "recurring" /\ rt[r].status = "FAILED"
        BY <1>1, <1>4, <4>1
      <4>3. r <= q
        BY <3>2, <4>2 DEF LastFailed
      <4>4. q <= r
        BY <1>1, <2>0, <3>2 DEF LastFailed, Timeline, LeaseIsLatest, Run
      <4>5. q = r
        BY <4>3, <4>4, RunFields
      <4> QED
        BY <1>1, <1>4, <2>1, <4>1, <4>5 DEF Spans
    <3> QED
      BY <1>4, <3>1, <3>2 DEF WindowsSpan
  <2>5. \A q \in Run : rs[q].kind = "followup" => rt[q] = rs[q]
    BY <1>4
  <2>6. FollowupsAccounted(rt, ft, gq)
    BY <1>1, <2>5 DEF Timeline, FollowupsAccounted
  <2>7. ASSUME NEW t \in 0..u.checkpoint
        PROVE  \/ t \in ft \cup gq
               \/ \E q \in Run : /\ rt[q].kind = "followup" /\ t \in rt[q].from..rt[q].to
                                 /\ rt[q].status \in ToRun
    <3>1. CASE t <= s.checkpoint
      <4>1. t \in 0..s.checkpoint
        BY <1>0, <3>1
      <4> QED
        BY <2>5, <4>1 DEF Timeline, PastAccounted
    <3>2. CASE ~(t <= s.checkpoint)
      <4>1. GivenUp(s, rs[r])
        BY <1>0, <1>4, <3>2
      <4>2. t \in rs[r].from..rs[r].to
        BY <1>0, <1>4, <2>1, <3>2, <4>1, RunFields DEF Spans
      <4> QED
        BY <4>1, <4>2
    <3> QED
      BY <3>1, <3>2
  <2> QED
    BY <1>3, <2>2, <2>3, <2>4, <2>6, <2>7 DEF Timeline, PastAccounted
<1>5. CASE rs[r].kind # "recurring"
  <2>0. u = s /\ ~GivenUp(s, rs[r]) /\ gq = gp /\ rt[r].status = "FAILED"
    BY <1>5 DEF GivenUp
  <2>1. LeaseIsLatest(u, rt)
    BY <1>1, <1>5, <2>0, SchedFields DEF Timeline, LeaseIsLatest
  <2>2. \A q \in Run : LastFailed(rt, q) => LastFailed(rs, q)
    BY <1>1, <1>5 DEF LastFailed
  <2>3. WindowsSpan(u, rt, n)
    <3>1. u.lease # 0 => Spans(u, rt[u.lease])
      BY <1>1, <2>0, SchedFields DEF Timeline, WindowsSpan, Spans
    <3>2. \A q \in Run : Spans(s, rs[q]) => Spans(s, rt[q])
      BY <1>1 DEF Spans
    <3> QED
      BY <1>1, <2>0, <2>2, <3>1, <3>2 DEF Timeline, WindowsSpan
  <2>4. \A q \in Run : rs[q].status \in ToRun <=> rt[q].status \in ToRun
    BY <2>0 DEF ToRun
  <2>5. FollowupsAccounted(rt, ft, gq) /\ PastAccounted(u, rt, ft, gq)
    BY <1>1, <2>0, <2>4 DEF Timeline, FollowupsAccounted, PastAccounted
  <2> QED
    BY <1>0, <1>3, <2>0, <2>1, <2>3, <2>5 DEF Timeline
<1> QED
  BY <1>4, <1>5

\* The schedule's active run r ends, its window being left as it was.
LEMMA TimelineDefers ==
    ASSUME NEW s \in SchedRecord, NEW u \in SchedRecord, NEW rs \in [Run -> RunRecord],
           NEW rt \in [Run -> RunRecord], NEW ft, NEW gp, NEW n \in Instant,
           Timeline(s, rs, ft, gp, n), NEW r \in Run,
           rs[r].kind = "recurring", rs[r].status \in Active,
           rt[r].kind = rs[r].kind, rt[r].from = rs[r].from, rt[r].to = rs[r].to,
           rt[r].status = "BUDGET_DEFERRED", \A q \in Run : q # r => rt[q] = rs[q],
           u.lease = 0, u.streak = s.streak, u.checkpoint = s.checkpoint
    PROVE  Timeline(u, rt, ft, gp, n)
<1>1. \A q \in Run : rt[q].kind = rs[q].kind /\ rt[q].from = rs[q].from /\ rt[q].to = rs[q].to
  OBVIOUS
<1>2. rt[r].status \notin Active /\ rt[r].status # "NONE" /\ rt[r].status # "FAILED"
  BY DEF Active
<1>3. s.lease = r
  BY DEF Timeline, LeaseIsLatest
<1>4. KindsInOrder(rt)
  <2>1. \A q \in Run : rt[q].kind = "none" <=> rt[q].status = "NONE"
    BY <1>1, <1>2 DEF Timeline, KindsInOrder
  <2> QED
    BY <1>1, <2>1 DEF Timeline, KindsInOrder
<1>5. LeaseIsLatest(u, rt)
  <2>1. \A q \in Run : q # 0
    BY DEF Run
  <2>2. \A q \in Run : q # r /\ rs[q].kind = "recurring" => rs[q].status \notin Active
    BY <1>3 DEF Timeline, LeaseIsLatest
  <2>3. \A q \in Run : rt[q].kind = "recurring" => rt[q].status \notin Active
    BY <1>2, <2>2
  <2> QED
    BY <2>1, <2>3 DEF LeaseIsLatest
<1>6. WindowsSpan(u, rt, n)
  <2>1. rs[r].status # "FAILED"
    BY DEF Active
  <2>2. \A q \in Run : LastFailed(rt, q) => LastFailed(rs, q)
    BY <1>1, <1>2, <2>1 DEF LastFailed
  <2>3. \A q \in Run : Spans(s, rs[q]) => Spans(u, rt[q])
    BY <1>1 DEF Spans
  <2> QED
    BY <1>1, <2>2, <2>3 DEF Timeline, WindowsSpan
<1>7. \A q \in Run : rs[q].kind = "followup" => rt[q] = rs[q]
  OBVIOUS
<1>8. FollowupsAccounted(rt, ft, gp) /\ PastAccounted(u, rt, ft, gp)
  BY <1>1, <1>7 DEF Timeline, FollowupsAccounted, PastAccounted
<1> QED
  BY <1>4, <1>5, <1>6, <1>8 DEF Timeline

\* A run k of window from..to is added: a recurring one takes the free lease or
\* is deferred; what a deferred follow-up leaves out is declared a gap.
LEMMA TimelineAdds ==
    ASSUME NEW s \in SchedRecord, NEW u \in SchedRecord, NEW rs \in [Run -> RunRecord],
           NEW rt \in [Run -> RunRecord], NEW ft, NEW gp, NEW gq, NEW n \in Instant,
           Timeline(s, rs, ft, gp, n), NEW k \in Run, rs[k].kind = "none",
           \A q \in Run : rs[q].kind = "none" => k <= q,
           rt[k].kind \in {"recurring", "followup"},
           rt[k].status \in {"PENDING", "BUDGET_DEFERRED"}, rt[k].to <= n,
           \A q \in Run : q # k => rt[q] = rs[q],
           u.streak = s.streak, u.checkpoint = s.checkpoint, gp \subseteq gq,
           rt[k].kind = "recurring" => /\ s.lease = 0 /\ Spans(s, rt[k])
                                       /\ u.lease = IF rt[k].status = "PENDING" THEN k ELSE 0,
           rt[k].kind = "followup" => /\ u.lease = s.lease
                                      /\ \/ rt[k].status = "PENDING"
                                         \/ rt[k].from..rt[k].to \subseteq gq
    PROVE  Timeline(u, rt, ft, gq, n)
<1>0. \A q \in Run : q \in Int /\ q # 0
  BY BoundsAssumption DEF Run
<1>1. rs[k].status = "NONE" /\ rs[k].status \notin Active /\ rs[k].status # "FAILED"
  BY DEF Timeline, KindsInOrder, Active
<1>2. rt[k].status # "NONE" /\ rt[k].status # "FAILED" /\ (rt[k].status = "PENDING" <=> rt[k].status \in Active)
  BY DEF Active
<1>3. \A q \in Run : rs[q].kind # "none" => q < k
  <2> SUFFICES ASSUME NEW q \in Run, rs[q].kind # "none", ~(q < k) PROVE FALSE
    OBVIOUS
  <2>1. q # k
    OBVIOUS
  <2>2. k < q
    BY <1>0, <2>1
  <2> QED
    BY <2>2 DEF Timeline, KindsInOrder
<1>4. KindsInOrder(rt)
  <2>1. \A q \in Run : rt[q].kind = "none" <=> rt[q].status = "NONE"
    BY <1>2 DEF Timeline, KindsInOrder
  <2>2. ASSUME NEW r \in Run, NEW q \in Run, r < q, rt[r].kind = "none" PROVE rt[q].kind = "none"
    <3>1. r # k /\ rs[r].kind = "none"
      BY <2>2
    <3>2. k <= r /\ q # k
      BY <1>0, <2>2, <3>1
    <3> QED
      BY <2>2, <3>1, <3>2 DEF Timeline, KindsInOrder
  <2> QED
    BY <2>1, <2>2 DEF KindsInOrder
<1>5. LeaseIsLatest(u, rt)
  <2>1. CASE rt[k].kind = "recurring"
    <3>1. \A q \in Run : q # k /\ rt[q].kind = "recurring" => rt[q].status \notin Active /\ q <= k
      BY <1>0, <1>3, <2>1 DEF Timeline, LeaseIsLatest
    <3> QED
      BY <1>0, <1>2, <2>1, <3>1 DEF LeaseIsLatest
  <2>2. CASE rt[k].kind = "followup"
    <3>1. u.lease = s.lease /\ s.lease # k
      BY <1>0, <2>2 DEF Timeline, LeaseIsLatest
    <3>2. \A q \in Run : rt[q].kind = "recurring" => q # k
      BY <2>2
    <3> QED
      BY <2>2, <3>1, <3>2, SchedFields DEF Timeline, LeaseIsLatest
  <2> QED
    BY <2>1, <2>2
<1>6. WindowsSpan(u, rt, n)
  <2>1. u.checkpoint <= n /\ \A q \in Run : rt[q].to <= n
    BY DEF Timeline, WindowsSpan
  <2>2. \A q \in Run : LastFailed(rt, q) => q # k /\ LastFailed(rs, q)
    BY <1>1, <1>2 DEF LastFailed
  <2>3. \A q \in Run : q # k /\ Spans(s, rs[q]) => Spans(u, rt[q])
    BY DEF Spans
  <2>4. u.lease # 0 => Spans(u, rt[u.lease])
    <3>1. CASE u.lease = k
      <4>1. rt[k].kind = "recurring"
        BY <1>5, <1>0, <3>1 DEF LeaseIsLatest
      <4> QED
        BY <3>1, <4>1 DEF Spans
    <3>2. CASE u.lease # k
      BY <2>3, <3>2, SchedFields DEF Timeline, WindowsSpan
    <3> QED
      BY <3>1, <3>2
  <2> QED
    BY <2>1, <2>2, <2>3, <2>4 DEF Timeline, WindowsSpan
<1>7. FollowupsAccounted(rt, ft, gq)
  <2> SUFFICES ASSUME NEW q \in Run, rt[q].kind = "followup", rt[q].status \notin ToRun,
                      NEW t \in rt[q].from..rt[q].to
               PROVE  t \in ft \cup gq
    BY DEF FollowupsAccounted
  <2>1. CASE q = k
    BY <1>2, <2>1 DEF ToRun
  <2>2. CASE q # k
    BY <2>2 DEF Timeline, FollowupsAccounted
  <2> QED
    BY <2>1, <2>2
<1>8. PastAccounted(u, rt, ft, gq)
  <2>1. \A q \in Run : rs[q].kind = "followup" => rt[q] = rs[q]
    OBVIOUS
  <2> QED
    BY <2>1 DEF Timeline, PastAccounted
<1> QED
  BY <1>4, <1>5, <1>6, <1>7, <1>8 DEF Timeline

\* The result of the schedule's active run r is stored; what it leaves out of
\* a window that the checkpoint passes is in the window of a follow-up.
StoresResult(s, u, rs, rt, ft, fv, gp, r) ==
    /\ rs[r].kind = "recurring" /\ rs[r].status \in Active
    /\ rt[r].kind = rs[r].kind /\ rt[r].from = rs[r].from /\ rt[r].to = rs[r].to
    /\ rt[r].status \in {"COMPLETED", "PARTIAL", "SATURATED"}
    /\ \A q \in Run : q # r => rt[q] = rs[q]
    /\ u.lease = 0 /\ u.streak = 0 /\ u.checkpoint \in {s.checkpoint, rs[r].to} /\ ft \subseteq fv
    /\ u.checkpoint # s.checkpoint =>
         \A t \in rs[r].from..rs[r].to :
             \/ t \in fv \cup gp
             \/ \E c \in Run : rs[c].kind = "followup" /\ t \in rs[c].from..rs[c].to

LEMMA TimelinePersists ==
    ASSUME NEW s \in SchedRecord, NEW u \in SchedRecord, NEW rs \in [Run -> RunRecord],
           NEW rt \in [Run -> RunRecord], NEW ft, NEW fv, NEW gp, NEW n \in Instant,
           Timeline(s, rs, ft, gp, n), NEW r \in Run, StoresResult(s, u, rs, rt, ft, fv, gp, r)
    PROVE  Timeline(u, rt, fv, gp, n) /\ u.checkpoint >= s.checkpoint
<1> USE DEF StoresResult
<1>0. n \in Int /\ s.checkpoint \in Int /\ u.checkpoint \in Int
  BY BoundsAssumption, SchedFields DEF Instant
<1>1. \A q \in Run : rt[q].kind = rs[q].kind /\ rt[q].from = rs[q].from /\ rt[q].to = rs[q].to
  OBVIOUS
<1>2. rt[r].status \notin Active /\ rt[r].status # "NONE"
  BY DEF Active
<1>3. s.lease = r /\ r # 0
  BY DEF Timeline, LeaseIsLatest, Run
<1>4. Spans(s, rs[r])
  BY <1>3 DEF Timeline, WindowsSpan
<1>5. KindsInOrder(rt)
  <2>1. \A q \in Run : rt[q].kind = "none" <=> rt[q].status = "NONE"
    BY <1>1, <1>2 DEF Timeline, KindsInOrder
  <2> QED
    BY <1>1, <2>1 DEF Timeline, KindsInOrder
<1>6. LeaseIsLatest(u, rt)
  <2>1. \A q \in Run : q # 0
    BY DEF Run
  <2>2. \A q \in Run : q # r /\ rs[q].kind = "recurring" => rs[q].status \notin Active
    BY <1>3 DEF Timeline, LeaseIsLatest
  <2>3. \A q \in Run : rt[q].kind = "recurring" => rt[q].status \notin Active
    BY <1>2, <2>2
  <2> QED
    BY <2>1, <2>3 DEF LeaseIsLatest
<1>7. WindowsSpan(u, rt, n)
  <2>1. u.checkpoint <= n /\ \A q \in Run : rt[q].to <= n
    BY <1>1 DEF Timeline, WindowsSpan
  <2>2. u.streak \notin 1..Threshold - 1
    BY ScheduleAssumption
  <2> QED
    BY <2>1, <2>2 DEF WindowsSpan
<1>8. \A q \in Run : rs[q].kind = "followup" => rt[q] = rs[q]
  OBVIOUS
<1>9. FollowupsAccounted(rt, fv, gp)
  BY <1>1, <1>8 DEF Timeline, FollowupsAccounted
<1>10. ASSUME NEW t \in 0..u.checkpoint
       PROVE  \/ t \in fv \cup gp
              \/ \E q \in Run : /\ rt[q].kind = "followup" /\ t \in rt[q].from..rt[q].to
                                /\ rt[q].status \in ToRun
  <2>1. CASE t <= s.checkpoint
    <3>1. t \in 0..s.checkpoint
      BY <1>0, <2>1
    <3> QED
      BY <1>8, <3>1 DEF Timeline, PastAccounted
  <2>2. CASE ~(t <= s.checkpoint)
    <3>1. u.checkpoint # s.checkpoint /\ t \in rs[r].from..rs[r].to
      BY <1>0, <1>4, <2>2, RunFields DEF Spans
    <3>2. CASE t \in fv \cup gp
      BY <3>2
    <3>3. CASE t \notin fv \cup gp
      <4>1. PICK c \in Run : rs[c].kind = "followup" /\ t \in rs[c].from..rs[c].to
        BY <3>1, <3>3
      <4>2. rt[c] = rs[c]
        BY <1>8, <4>1
      <4> QED
        BY <1>9, <3>3, <4>1, <4>2 DEF FollowupsAccounted
    <3> QED
      BY <3>2, <3>3
  <2> QED
    BY <2>1, <2>2
<1>11. u.checkpoint >= s.checkpoint
  BY <1>0, <1>4 DEF Spans
<1> QED
  BY <1>5, <1>6, <1>7, <1>9, <1>10, <1>11 DEF Timeline, PastAccounted

\* The result of a follow-up r is stored; what it leaves out is a gap.
LEMMA TimelineFollowupEnds ==
    ASSUME NEW s \in SchedRecord, NEW rs \in [Run -> RunRecord],
           NEW rt \in [Run -> RunRecord], NEW ft, NEW fv, NEW gp, NEW gq, NEW n \in Instant,
           Timeline(s, rs, ft, gp, n), NEW r \in Run, rs[r].kind = "followup",
           rt[r].kind = rs[r].kind, rt[r].from = rs[r].from, rt[r].to = rs[r].to,
           rt[r].status \in {"COMPLETED", "PARTIAL", "GAP"},
           \A q \in Run : q # r => rt[q] = rs[q],
           ft \subseteq fv, gp \subseteq gq,
           \A t \in rs[r].from..rs[r].to : t \in fv \cup gq
    PROVE  Timeline(s, rt, fv, gq, n)
<1>1. \A q \in Run : rt[q].kind = rs[q].kind /\ rt[q].from = rs[q].from /\ rt[q].to = rs[q].to
  OBVIOUS
<1>2. \A q \in Run : rt[q].kind = "recurring" => rt[q] = rs[q]
  OBVIOUS
<1>3. rt[r].status # "NONE"
  OBVIOUS
<1>4. KindsInOrder(rt)
  <2>1. \A q \in Run : rt[q].kind = "none" <=> rt[q].status = "NONE"
    BY <1>1, <1>3 DEF Timeline, KindsInOrder
  <2> QED
    BY <1>1, <2>1 DEF Timeline, KindsInOrder
<1>5. LeaseIsLatest(s, rt)
  BY <1>1, <1>2, SchedFields DEF Timeline, LeaseIsLatest
<1>6. WindowsSpan(s, rt, n)
  <2>1. \A q \in Run : LastFailed(rt, q) => LastFailed(rs, q)
    BY <1>1, <1>2 DEF LastFailed
  <2>2. \A q \in Run : Spans(s, rs[q]) => Spans(s, rt[q])
    BY <1>1 DEF Spans
  <2> QED
    BY <1>1, <2>1, <2>2, SchedFields DEF Timeline, WindowsSpan
<1>7. FollowupsAccounted(rt, fv, gq)
  <2> SUFFICES ASSUME NEW q \in Run, rt[q].kind = "followup", rt[q].status \notin ToRun,
                      NEW t \in rt[q].from..rt[q].to
               PROVE  t \in fv \cup gq
    BY DEF FollowupsAccounted
  <2>1. CASE q = r
    BY <2>1
  <2>2. CASE q # r
    BY <2>2 DEF Timeline, FollowupsAccounted
  <2> QED
    BY <2>1, <2>2
<1>8. PastAccounted(s, rt, fv, gq)
  <2> SUFFICES ASSUME NEW t \in 0..s.checkpoint, t \notin fv \cup gq
               PROVE  \E q \in Run : /\ rt[q].kind = "followup" /\ t \in rt[q].from..rt[q].to
                                     /\ rt[q].status \in ToRun
    BY DEF PastAccounted
  <2>1. PICK q \in Run : /\ rs[q].kind = "followup" /\ t \in rs[q].from..rs[q].to
                         /\ rs[q].status \in ToRun
    BY DEF Timeline, PastAccounted
  <2>2. q # r
    BY <2>1
  <2> QED
    BY <2>1, <2>2
<1> QED
  BY <1>4, <1>5, <1>6, <1>7, <1>8 DEF Timeline

-----------------------------------------------------------------------------
(* What the transactions do to the budget. *)

LEMMA ReservingFinite ==
    ASSUME NEW wk, NEW r
    PROVE  /\ IsFiniteSet(Reserving(wk, r)) /\ Cardinality(Reserving(wk, r)) \in Nat
           /\ \A S : S \subseteq Reserving(wk, r) =>
                /\ IsFiniteSet(S) /\ Cardinality(S) \in Nat
                /\ Cardinality(S) <= Cardinality(Reserving(wk, r))
<1>1. Reserving(wk, r) \subseteq Worker
  BY DEF Reserving
<1>2. IsFiniteSet(Reserving(wk, r))
  BY <1>1, WorkerAssumption, FS_Subset
<1> QED
  BY <1>2, FS_Subset, FS_CardinalityType

\* The worker w gives up a probe, or gets one.
LEMMA ReservingMinus ==
    ASSUME NEW wk, NEW wl, NEW r, NEW w \in Reserving(wk, r),
           Reserving(wl, r) \subseteq Reserving(wk, r) \ {w}
    PROVE  /\ Cardinality(Reserving(wl, r)) <= Cardinality(Reserving(wk, r)) - 1
           /\ Cardinality(Reserving(wk, r)) >= 1
<1> DEFINE S == Reserving(wk, r)
<1>1. IsFiniteSet(S) /\ Cardinality(S) \in Nat
  BY ReservingFinite
<1>2. IsFiniteSet(S \ {w}) /\ Cardinality(S \ {w}) = Cardinality(S) - 1
  BY <1>1, FS_RemoveElement
<1>3. Cardinality(S \ {w}) \in Nat
  BY <1>2, FS_CardinalityType
<1>4. Cardinality(Reserving(wl, r)) <= Cardinality(S \ {w})
  BY <1>2, FS_Subset
<1>5. Cardinality(Reserving(wl, r)) \in Nat
  BY ReservingFinite
<1> HIDE DEF S
<1> QED
  BY <1>1, <1>2, <1>3, <1>4, <1>5 DEF S

LEMMA ReservingPlus ==
    ASSUME NEW wk, NEW wl, NEW r, NEW w \in Worker, w \notin Reserving(wk, r),
           Reserving(wl, r) \subseteq Reserving(wk, r) \cup {w}
    PROVE  Cardinality(Reserving(wl, r)) <= Cardinality(Reserving(wk, r)) + 1
<1> DEFINE S == Reserving(wk, r)
<1>1. IsFiniteSet(S) /\ Cardinality(S) \in Nat
  BY ReservingFinite
<1>2. IsFiniteSet(S \cup {w}) /\ Cardinality(S \cup {w}) = Cardinality(S) + 1
  BY <1>1, FS_AddElement
<1>3. Cardinality(Reserving(wl, r)) <= Cardinality(S \cup {w})
  BY <1>2, FS_Subset
<1> QED
  BY <1>2, <1>3

\* Only leases, due dates or windows change.
LEMMA BudgetStays ==
    ASSUME NEW rs, NEW rt, NEW b, NEW c, NEW l, NEW wk, Budget(rs, b, c, l, wk),
           wk \in [Worker -> WorkerRecord],
           \A r \in Run : rt[r].kind = rs[r].kind /\ rt[r].status = rs[r].status
    PROVE  Budget(rt, b, c, l, wk)
<1>1. \A w \in Worker : wk[w].run = 0 \/ wk[w].run \in Run
  BY BoundsAssumption DEF WorkerRecord, Run
<1>2. UnusedBlank(rt, b, c, l, wk)
  BY <1>1 DEF Budget, UnusedBlank
<1>3. Owned(rt, b, c, l, wk)
  BY DEF Budget, Owned, OwnsRun
<1>4. Paid(rt, b, c, l)
  BY DEF Budget, Paid
<1> QED
  BY <1>2, <1>3, <1>4 DEF Budget

\* A run k is added, with the budget of a call or deferred without.
AddsRun(rs, rt, b, d, wk, k) ==
    /\ b \in [Run -> Reservation] /\ d \in [Run -> Reservation] /\ wk \in [Worker -> WorkerRecord]
    /\ k \in Run /\ rs[k].kind = "none" /\ rt[k].kind # "none"
    /\ \A q \in Run : q # k => rt[q] = rs[q] /\ d[q] = b[q]
    /\ \/ rt[k].status = "PENDING" /\ d[k].scan = 1 /\ d[k].probe = 0 /\ d[k].spent = 0
       \/ rt[k].status = "BUDGET_DEFERRED" /\ d[k] = b[k]

LEMMA BudgetAdds ==
    ASSUME NEW rs, NEW rt, NEW b, NEW d, NEW c, NEW l, NEW wk, NEW k,
           Budget(rs, b, c, l, wk), AddsRun(rs, rt, b, d, wk, k)
    PROVE  Budget(rt, d, c, l, wk)
<1> USE DEF AddsRun
<1>1. \A w \in Worker : wk[w].run = 0 \/ wk[w].run \in Run
  BY BoundsAssumption DEF WorkerRecord, Run
<1>2. \A w \in Worker : wk[w].run # k
  <2>1. k # 0
    BY DEF Run
  <2> QED
    BY <2>1 DEF Budget, UnusedBlank
<1>3. b[k].scan = 0 /\ b[k].probe = 0 /\ b[k].spent = 0 /\ c[k] = 0 /\ k \notin l
  BY DEF Budget, UnusedBlank
<1>4. UnusedBlank(rt, d, c, l, wk)
  BY <1>1, <1>2 DEF Budget, UnusedBlank
<1>5. ProbesReserved(d, wk)
  <2>1. \A q \in Run : d[q].probe = b[q].probe
    BY <1>3
  <2> QED
    BY <2>1 DEF Budget, ProbesReserved
<1>6. Owned(rt, d, c, l, wk)
  <2>1. ASSUME NEW w \in Worker, wk[w].run \in Run \ l PROVE OwnsRun(rt, d, c, wk, w)
    BY <1>2, <2>1 DEF Budget, Owned, OwnsRun
  <2>2. ASSUME NEW q \in Run \ l, rt[q].status = "PENDING"
        PROVE  d[q].scan = 1 /\ d[q].probe = 0 /\ c[q] <= d[q].spent
    <3>1. CASE q = k
      BY <1>3, <2>2, <3>1
    <3>2. CASE q # k
      BY <2>2, <3>2 DEF Budget, Owned
    <3> QED
      BY <3>1, <3>2
  <2> QED
    BY <2>1, <2>2 DEF Owned
<1>7. Paid(rt, d, c, l)
  <2>1. rt[k].status = "PENDING" => rt[k].status \notin Terminal
    BY DEF Terminal
  <2>2. ASSUME NEW q \in Run \ l
        PROVE  /\ c[q] <= d[q].scan + d[q].probe + d[q].spent
               /\ rt[q].status \in Terminal => d[q].scan + d[q].probe = 0
    <3>1. CASE q = k
      BY <1>3, <2>1, <3>1
    <3>2. CASE q # k
      BY <2>2, <3>2 DEF Budget, Paid
    <3> QED
      BY <3>1, <3>2
  <2> QED
    BY <2>2 DEF Paid
<1> QED
  BY <1>4, <1>5, <1>6, <1>7 DEF Budget

\* An active run r ends and nothing of its budget stays reserved; its workers
\* lose their probes.  Unless it is taken away, its only worker has ended.
EndsRun(rs, rt, b, d, c, l, m, wk, wl, r) ==
    /\ b \in [Run -> Reservation] /\ d \in [Run -> Reservation]
    /\ wk \in [Worker -> WorkerRecord] /\ wl \in [Worker -> WorkerRecord]
    /\ r \in Run /\ rs[r].kind # "none" /\ rt[r].kind = rs[r].kind /\ rt[r].status \in Terminal
    /\ \A q \in Run : q # r => rt[q] = rs[q] /\ d[q] = b[q]
    /\ d[r].scan = 0 /\ d[r].probe = 0
    /\ m = l \/ m = l \cup {r}
    /\ \A w \in Worker : /\ wk[w].run # r => wl[w] = wk[w]
                         /\ wk[w].run = r => wl[w].run \in {0, r} /\ wl[w].probe # "reserved"
    /\ r \notin m => c[r] <= d[r].spent /\ \A w \in Worker : wl[w].run # r

LEMMA BudgetEnds ==
    ASSUME NEW rs, NEW rt, NEW b, NEW d, NEW c, NEW l, NEW m, NEW wk, NEW wl, NEW r,
           Budget(rs, b, c, l, wk), EndsRun(rs, rt, b, d, c, l, m, wk, wl, r)
    PROVE  Budget(rt, d, c, m, wl)
<1> USE DEF EndsRun
<1>0. r # 0 /\ \A w \in Worker : wl[w].run = 0 \/ wl[w].run \in Run
  BY BoundsAssumption DEF WorkerRecord, Run
<1>1. \A w \in Worker : wl[w].run \notin {0, r} => wl[w] = wk[w]
  OBVIOUS
<1>2. UnusedBlank(rt, d, c, m, wl)
  <2>1. \A q \in Run : rt[q].kind = "none" => q # r /\ rs[q].kind = "none"
    OBVIOUS
  <2>2. \A q \in Run : q # r => (q \in m <=> q \in l)
    OBVIOUS
  <2>3. \A w \in Worker : wl[w].run # 0 => rt[wl[w].run].kind # "none"
    <3> SUFFICES ASSUME NEW w \in Worker, wl[w].run # 0, wl[w].run # r
                 PROVE  rt[wl[w].run].kind # "none"
      OBVIOUS
    <3>1. wl[w] = wk[w] /\ wl[w].run \in Run
      BY <1>0, <1>1
    <3> QED
      BY <3>1 DEF Budget, UnusedBlank
  <2> QED
    BY <2>1, <2>2, <2>3 DEF Budget, UnusedBlank
<1>3. ProbesReserved(d, wl)
  <2> SUFFICES ASSUME NEW q \in Run PROVE Cardinality(Reserving(wl, q)) <= d[q].probe
    BY DEF ProbesReserved
  <2>1. CASE q = r
    <3>1. Reserving(wl, r) = {}
      BY DEF Reserving
    <3>2. Cardinality({}) = 0
      BY FS_EmptySet
    <3>3. Cardinality(Reserving(wl, q)) = 0
      BY <2>1, <3>1, <3>2, Zenon
    <3> QED
      BY <2>1, <3>3
  <2>2. CASE q # r
    <3>1. q # 0
      BY DEF Run
    <3>2. Reserving(wl, q) \subseteq Reserving(wk, q)
      BY <1>1, <2>2, <3>1 DEF Reserving
    <3>3. Cardinality(Reserving(wl, q)) <= Cardinality(Reserving(wk, q))
      BY <3>2, ReservingFinite
    <3>4. Cardinality(Reserving(wk, q)) <= b[q].probe
      BY DEF Budget, ProbesReserved
    <3>5. /\ Cardinality(Reserving(wl, q)) \in Nat /\ Cardinality(Reserving(wk, q)) \in Nat
          /\ b[q].probe \in Nat
      BY ReservingFinite DEF Reservation
    <3> QED
      BY <2>2, <3>3, <3>4, <3>5
  <2> QED
    BY <2>1, <2>2
<1>4. Owned(rt, d, c, m, wl)
  <2>1. ASSUME NEW w \in Worker, wl[w].run \in Run \ m PROVE OwnsRun(rt, d, c, wl, w)
    <3>1. wl[w].run # r /\ wl[w].run # 0
      BY <2>1 DEF Run
    <3>2. wl[w] = wk[w] /\ wk[w].run \in Run \ l /\ wk[w].run # r
      BY <1>1, <2>1, <3>1
    <3>3. OwnsRun(rs, b, c, wk, w)
      BY <3>2 DEF Budget, Owned
    <3>4. \A v \in Worker : wl[v].run = wl[w].run => v = w
      BY <1>1, <3>1, <3>2, <3>3 DEF OwnsRun
    <3> QED
      BY <3>2, <3>3, <3>4 DEF OwnsRun
  <2>2. ASSUME NEW q \in Run \ m, rt[q].status = "PENDING"
        PROVE  d[q].scan = 1 /\ d[q].probe = 0 /\ c[q] <= d[q].spent
    <3>1. q # r
      BY <2>2 DEF Terminal
    <3> QED
      BY <2>2, <3>1 DEF Budget, Owned
  <2> QED
    BY <2>1, <2>2 DEF Owned
<1>5. Paid(rt, d, c, m)
  <2> SUFFICES ASSUME NEW q \in Run \ m
               PROVE  /\ c[q] <= d[q].scan + d[q].probe + d[q].spent
                      /\ rt[q].status \in Terminal => d[q].scan + d[q].probe = 0
    BY DEF Paid
  <2>1. CASE q = r
    <3>1. d[r].spent \in Nat
      BY DEF Reservation
    <3>2. c[r] <= d[r].spent
      BY <2>1
    <3>3. d[r].scan + d[r].probe + d[r].spent = d[r].spent /\ d[r].scan + d[r].probe = 0
      BY <3>1
    <3> QED
      BY <2>1, <3>2, <3>3
  <2>2. CASE q # r
    BY <2>2 DEF Budget, Paid
  <2> QED
    BY <2>1, <2>2
<1> QED
  BY <1>2, <1>3, <1>4, <1>5 DEF Budget

\* A run r is taken away from its workers and waits for another.
LEMMA BudgetLost ==
    ASSUME NEW rs, NEW rt, NEW b, NEW c, NEW l, NEW wk \in [Worker -> WorkerRecord],
           Budget(rs, b, c, l, wk), NEW r \in Run, rs[r].kind # "none", rt[r].kind = rs[r].kind,
           \A q \in Run : q # r => rt[q] = rs[q]
    PROVE  Budget(rt, b, c, l \cup {r}, wk)
<1>0. \A w \in Worker : wk[w].run = 0 \/ wk[w].run \in Run
  BY BoundsAssumption DEF WorkerRecord, Run
<1>1. \A q \in Run : rt[q].kind = rs[q].kind
  OBVIOUS
<1>2. UnusedBlank(rt, b, c, l \cup {r}, wk)
  BY <1>0, <1>1 DEF Budget, UnusedBlank
<1>3. Owned(rt, b, c, l \cup {r}, wk)
  BY DEF Budget, Owned, OwnsRun
<1>4. Paid(rt, b, c, l \cup {r})
  BY DEF Budget, Paid
<1> QED
  BY <1>2, <1>3, <1>4 DEF Budget

\* A worker w goes on with the run r, begins it or leaves it.
GoesOn(rs, rt, b, d, c, e, l, wk, wl, r, w) ==
    /\ b \in [Run -> Reservation] /\ d \in [Run -> Reservation]
    /\ wk \in [Worker -> WorkerRecord] /\ wl \in [Worker -> WorkerRecord]
    /\ r \in Run /\ w \in Worker /\ rs[r].kind # "none" /\ rt[r].kind = rs[r].kind
    /\ \A q \in Run : q # r => rt[q] = rs[q] /\ d[q] = b[q] /\ e[q] = c[q]
    /\ \A v \in Worker : v # w => wl[v] = wk[v]
    /\ wk[w].run \in {0, r} /\ wl[w].run \in {0, r}
    /\ Cardinality(Reserving(wl, r)) <= d[r].probe
    /\ r \notin l =>
         /\ \A v \in Worker : v # w => wk[v].run # r
         /\ wl[w].run = r =>
              /\ rt[r].status = "RUNNING" /\ d[r].scan = 1 /\ wl[w].probe # "settled"
              /\ d[r].probe = One(wl[w].probe = "reserved")
              /\ e[r] <= d[r].spent + One(wl[w].probed) + One(wl[w].started)
         /\ rt[r].status = "PENDING" => d[r].scan = 1 /\ d[r].probe = 0 /\ e[r] <= d[r].spent
         /\ e[r] <= d[r].scan + d[r].probe + d[r].spent
         /\ rt[r].status \in Terminal => d[r].scan + d[r].probe = 0

LEMMA BudgetOfRun ==
    ASSUME NEW rs, NEW rt, NEW b, NEW d, NEW c, NEW e, NEW l, NEW wk, NEW wl, NEW r, NEW w,
           Budget(rs, b, c, l, wk), GoesOn(rs, rt, b, d, c, e, l, wk, wl, r, w)
    PROVE  Budget(rt, d, e, l, wl)
<1> USE DEF GoesOn
<1>0. r # 0 /\ \A v \in Worker : wl[v].run = 0 \/ wl[v].run \in Run
  BY BoundsAssumption DEF WorkerRecord, Run
<1>1. \A v \in Worker : wl[v].run \notin {0, r} => v # w /\ wl[v] = wk[v]
  OBVIOUS
<1>2. UnusedBlank(rt, d, e, l, wl)
  <2>1. \A q \in Run : rt[q].kind = "none" => q # r /\ rs[q].kind = "none"
    OBVIOUS
  <2>2. \A v \in Worker : wl[v].run # 0 => rt[wl[v].run].kind # "none"
    <3> SUFFICES ASSUME NEW v \in Worker, wl[v].run # 0, wl[v].run # r
                 PROVE  rt[wl[v].run].kind # "none"
      OBVIOUS
    <3>1. wl[v] = wk[v] /\ wl[v].run \in Run
      BY <1>0, <1>1
    <3> QED
      BY <3>1 DEF Budget, UnusedBlank
  <2> QED
    BY <2>1, <2>2 DEF Budget, UnusedBlank
<1>3. ProbesReserved(d, wl)
  <2> SUFFICES ASSUME NEW q \in Run, q # r PROVE Cardinality(Reserving(wl, q)) <= d[q].probe
    BY DEF ProbesReserved
  <2>1. q # 0
    BY DEF Run
  <2>2. Reserving(wl, q) = Reserving(wk, q)
    BY <2>1 DEF Reserving
  <2> QED
    BY <2>2 DEF Budget, ProbesReserved
<1>4. Owned(rt, d, e, l, wl)
  <2>1. ASSUME NEW v \in Worker, wl[v].run \in Run \ l PROVE OwnsRun(rt, d, e, wl, v)
    <3>1. CASE wl[v].run = r
      <4>1. v = w
        BY <2>1, <3>1
      <4>2. \A x \in Worker : wl[x].run = r => x = w
        BY <2>1, <3>1
      <4> QED
        BY <2>1, <3>1, <4>1, <4>2 DEF OwnsRun
    <3>2. CASE wl[v].run # r
      <4>1. wl[v].run # 0
        BY <2>1 DEF Run
      <4>2. wl[v] = wk[v] /\ v # w
        BY <1>1, <3>2, <4>1
      <4>3. OwnsRun(rs, b, c, wk, v)
        BY <2>1, <4>2 DEF Budget, Owned
      <4>4. \A x \in Worker : wl[x].run = wl[v].run => x = v
        BY <1>1, <3>2, <4>1, <4>2, <4>3 DEF OwnsRun
      <4> QED
        BY <2>1, <3>2, <4>2, <4>3, <4>4 DEF OwnsRun
    <3> QED
      BY <3>1, <3>2
  <2>2. ASSUME NEW q \in Run \ l, rt[q].status = "PENDING"
        PROVE  d[q].scan = 1 /\ d[q].probe = 0 /\ e[q] <= d[q].spent
    <3>1. CASE q = r
      BY <2>2, <3>1
    <3>2. CASE q # r
      BY <2>2, <3>2 DEF Budget, Owned
    <3> QED
      BY <3>1, <3>2
  <2> QED
    BY <2>1, <2>2 DEF Owned
<1>5. Paid(rt, d, e, l)
  <2> SUFFICES ASSUME NEW q \in Run \ l
               PROVE  /\ e[q] <= d[q].scan + d[q].probe + d[q].spent
                      /\ rt[q].status \in Terminal => d[q].scan + d[q].probe = 0
    BY DEF Paid
  <2>1. CASE q = r
    BY <2>1
  <2>2. CASE q # r
    BY <2>2 DEF Budget, Paid
  <2> QED
    BY <2>1, <2>2
<1> QED
  BY <1>2, <1>3, <1>4, <1>5 DEF Budget

-----------------------------------------------------------------------------
(* The pass, the queue, the dispatcher and leases that run out. *)

LEMMA NextTypes ==
    TypeOK' <=>
        /\ now' \in Instant /\ sched' \in SchedRecord /\ run' \in [Run -> RunRecord]
        /\ res' \in [Run -> Reservation] /\ gaps' \subseteq Instant /\ fetched' \subseteq Instant
        /\ outbox' \in [Run -> OutboxRow] /\ pass' \in PassRecord /\ disp' \in DispatchRecord
        /\ waiting' \subseteq added' /\ added' \subseteq Run \X Nat
        /\ worker' \in [Worker -> WorkerRecord]
        /\ calls' \in [Run -> Nat] /\ lost' \subseteq Run /\ faults' \in 0..MaxFaults
BY Zenon DEF TypeOK, SchedRecord, RunRecord, Reservation, OutboxRow, PassRecord, DispatchRecord,
             WorkerRecord

LEMMA Faulty == ASSUME TypeOK, Fault PROVE faults' \in 0..MaxFaults
BY BoundsAssumption DEF TypeOK, Fault

LEMMA JobAdded ==
    ASSUME TypeOK, NEW r \in Run, NEW id \in Nat, AddJob(r, id) \/ UNCHANGED queueVars
    PROVE  waiting' \subseteq added' /\ added' \subseteq Run \X Nat
BY Types DEF AddJob, queueVars

LEMMA RunLeased ==
    ASSUME TypeOK, NEW r \in Run, NEW x \in {"none", "live", "expired"},
           run' = [run EXCEPT ![r] = [@ EXCEPT !.lease = x]]
    PROVE  /\ run' \in [Run -> RunRecord]
           /\ \A q \in Run : /\ run'[q].kind = run[q].kind /\ run'[q].status = run[q].status
                             /\ run'[q].from = run[q].from /\ run'[q].to = run[q].to
<1>1. run \in [Run -> RunRecord]
  BY Types
<1>2. [run[r] EXCEPT !.lease = x] \in RunRecord
  BY <1>1 DEF RunRecord
<1> QED
  BY <1>1, <1>2 DEF RunRecord

\* Nothing but leases, the outbox, the queue and the two loops changes.
LEMMA QuietStep ==
    ASSUME RunsIInv, TypeOK', Engaged',
           UNCHANGED <<now, sched, res, gaps, worker, fetched, calls, lost>>,
           \A q \in Run : /\ run'[q].kind = run[q].kind /\ run'[q].status = run[q].status
                         /\ run'[q].from = run[q].from /\ run'[q].to = run[q].to
    PROVE  RunsIInv' /\ sched'.checkpoint >= sched.checkpoint
<1>0. /\ now \in Instant /\ sched \in SchedRecord /\ run \in [Run -> RunRecord]
      /\ run' \in [Run -> RunRecord] /\ worker \in [Worker -> WorkerRecord]
  BY Types, NextTypes DEF RunsIInv
<1>1. WorkerPhases'
  BY DEF RunsIInv, WorkerPhases
<1>2. \A q \in Run : Alike(run[q], run'[q])
  BY DEF Alike
<1>3. now <= now
  BY <1>0, BoundsAssumption DEF Instant
<1>4. Timeline(sched, run', fetched, gaps, now)
  BY <1>0, <1>2, <1>3, TimelineStays DEF RunsIInv
<1>5. Budget(run', res, calls, lost, worker)
  BY <1>0, BudgetStays DEF RunsIInv
<1>6. Timeline(sched, run, fetched, gaps, now)' /\ Budget(run, res, calls, lost, worker)'
  BY <1>4, <1>5
<1>7. sched'.checkpoint >= sched.checkpoint
  BY <1>0, SchedFields
<1> QED
  BY <1>1, <1>6, <1>7 DEF RunsIInv

LEMMA PassKeeps ==
    ASSUME RunsIInv, PassEnqueue \/ PassEnqueueFails \/ PassCrash
    PROVE  RunsIInv' /\ sched'.checkpoint >= sched.checkpoint
<1>0. TypeOK /\ Engaged
  BY DEF RunsIInv
<1>1. /\ UNCHANGED <<now, dbVars, disp, worker, history>>
      /\ pass.pc # "idle" /\ pass' \in PassRecord /\ (pass'.pc # "idle" => pass'.run = pass.run)
  <2>1. pass \in PassRecord /\ 0 \in 0..MaxRuns
    BY <1>0, Types, BoundsAssumption
  <2>2. UNCHANGED <<now, dbVars, disp, worker, history>>
    BY DEF PassEnqueue, PassEnqueueFails, PassCrash
  <2>3. pass.pc # "idle" /\ (pass' = [pc |-> "idle", run |-> 0] \/ pass' = [pass EXCEPT !.pc = "fail"])
    BY DEF PassEnqueue, PassEnqueueFails, PassCrash
  <2> QED
    BY <2>1, <2>2, <2>3 DEF PassRecord
<1>2. pass.run \in Run
  BY <1>0, <1>1 DEF Engaged
<1>3. faults' \in 0..MaxFaults
  BY <1>0, Faulty, Types DEF PassEnqueue, PassEnqueueFails, PassCrash
<1>4. waiting' \subseteq added' /\ added' \subseteq Run \X Nat
  <2>1. AddJob(pass.run, 0) \/ UNCHANGED queueVars
    BY DEF PassEnqueue, PassEnqueueFails, PassCrash
  <2> QED
    BY <1>0, <1>2, <2>1, JobAdded
<1>5. TypeOK'
  BY <1>0, <1>1, <1>3, <1>4, Types, NextTypes, Zenon DEF dbVars, history
<1>6. Engaged'
  BY <1>0, <1>1, <1>2 DEF Engaged
<1> QED
  BY <1>1, <1>5, <1>6, QuietStep DEF dbVars, history

LEMMA DispatcherKeeps ==
    ASSUME RunsIInv, DispatchStep \/ DispatchCrash
    PROVE  RunsIInv' /\ sched'.checkpoint >= sched.checkpoint
<1>0. TypeOK /\ Engaged /\ run \in [Run -> RunRecord] /\ outbox \in [Run -> OutboxRow]
  BY Types DEF RunsIInv
<1> USE DEF DispatchStep, DispatchEnqueue, DispatchEnqueueFails, DispatchConfirm, DispatchRelease,
            DispatchCrash
<1>1. /\ UNCHANGED <<now, sched, res, gaps, pass, worker, history>>
      /\ disp.pc # "idle" /\ disp' \in DispatchRecord /\ (disp'.pc # "idle" => disp'.run = disp.run)
  <2>1. disp \in DispatchRecord /\ 0 \in 0..MaxRuns
    BY <1>0, Types, BoundsAssumption
  <2>2. UNCHANGED <<now, sched, res, gaps, pass, worker, history>>
    BY DEF dbVars
  <2>3. /\ disp.pc # "idle"
        /\ \/ disp' = [pc |-> "idle", run |-> 0, id |-> 0] \/ disp' = [disp EXCEPT !.pc = "confirm"]
           \/ disp' = [disp EXCEPT !.pc = "release"]
    BY DEF NoDispatch
  <2> HIDE DEF DispatchStep, DispatchEnqueue, DispatchEnqueueFails, DispatchConfirm, DispatchRelease,
               DispatchCrash
  <2> QED
    BY <2>1, <2>2, <2>3 DEF DispatchRecord
<1>2. disp.run \in Run /\ disp.id \in Nat
  BY <1>0, <1>1, Types DEF Engaged, DispatchRecord
<1>3. faults' \in 0..MaxFaults
  BY <1>0, Faulty, Types
<1>4. waiting' \subseteq added' /\ added' \subseteq Run \X Nat
  <2>1. AddJob(disp.run, disp.id) \/ UNCHANGED queueVars
    OBVIOUS
  <2> QED
    BY <1>0, <1>2, <2>1, JobAdded
<1>5. outbox' \in [Run -> OutboxRow]
  <2>1. \/ outbox' = outbox
        \/ outbox' = [outbox EXCEPT ![disp.run] = [@ EXCEPT !.open = FALSE, !.owned = FALSE, !.fresh = FALSE]]
        \/ outbox' = [outbox EXCEPT ![disp.run] = [@ EXCEPT !.owned = FALSE, !.fresh = FALSE]]
    BY DEF dbVars
  <2>2. /\ [outbox[disp.run] EXCEPT !.open = FALSE, !.owned = FALSE, !.fresh = FALSE] \in OutboxRow
        /\ [outbox[disp.run] EXCEPT !.owned = FALSE, !.fresh = FALSE] \in OutboxRow
    BY <1>0, <1>2 DEF OutboxRow
  <2> QED
    BY <1>0, <1>2, <2>1, <2>2
<1>6. /\ run' \in [Run -> RunRecord]
      /\ \A q \in Run : /\ run'[q].kind = run[q].kind /\ run'[q].status = run[q].status
                        /\ run'[q].from = run[q].from /\ run'[q].to = run[q].to
  <2>1. run' = run \/ run' = [run EXCEPT ![disp.run] = [@ EXCEPT !.lease = "none"]]
    BY DEF dbVars
  <2>2. CASE run' = run
    BY <1>0, <2>2
  <2>3. CASE run' = [run EXCEPT ![disp.run] = [@ EXCEPT !.lease = "none"]]
    BY <1>0, <1>2, <2>3, RunLeased
  <2> QED
    BY <2>1, <2>2, <2>3
<1> HIDE DEF DispatchStep, DispatchEnqueue, DispatchEnqueueFails, DispatchConfirm, DispatchRelease,
             DispatchCrash
<1>7. TypeOK'
  BY <1>0, <1>1, <1>3, <1>4, <1>5, <1>6, Types, NextTypes, Zenon DEF history
<1>8. Engaged'
  BY <1>0, <1>1, <1>2 DEF Engaged
<1> QED
  BY <1>1, <1>6, <1>7, <1>8, QuietStep DEF history

LEMMA LeasesKeep ==
    ASSUME RunsIInv, NEW r \in Run,
           ClaimOutbox(r) \/ RowLeaseExpires(r) \/ LeaseExpires(r) \/ LeaseTooShort(r)
    PROVE  RunsIInv' /\ sched'.checkpoint >= sched.checkpoint
<1>0. TypeOK /\ Engaged /\ run \in [Run -> RunRecord] /\ outbox \in [Run -> OutboxRow]
  BY Types DEF RunsIInv
<1> USE DEF ClaimOutbox, RowLeaseExpires, LeaseExpires, LeaseTooShort, Expired
<1>1. /\ UNCHANGED <<now, sched, res, gaps, pass, queueVars, worker, history>>
      /\ disp' = disp \/ disp' = [pc |-> "enqueue", run |-> r, id |-> outbox[r].id]
  OBVIOUS
<1>2. disp' \in DispatchRecord /\ (disp'.pc # "idle" => disp'.run \in Run)
  <2>1. outbox[r].id \in Nat /\ r \in 0..MaxRuns
    BY <1>0, BoundsAssumption DEF OutboxRow, Run
  <2> QED
    BY <1>0, <1>1, <2>1, Types DEF DispatchRecord, Engaged
<1>3. faults' \in 0..MaxFaults
  BY <1>0, Faulty, Types
<1>4. outbox' \in [Run -> OutboxRow]
  <2>1. \/ outbox' = outbox
        \/ outbox' = [outbox EXCEPT ![r] = [@ EXCEPT !.open = FALSE, !.owned = FALSE]]
        \/ outbox' = [outbox EXCEPT ![r] = [@ EXCEPT !.owned = TRUE, !.fresh = TRUE]]
        \/ outbox' = [outbox EXCEPT ![r] = [@ EXCEPT !.fresh = FALSE]]
    OBVIOUS
  <2>2. /\ [outbox[r] EXCEPT !.open = FALSE, !.owned = FALSE] \in OutboxRow
        /\ [outbox[r] EXCEPT !.owned = TRUE, !.fresh = TRUE] \in OutboxRow
        /\ [outbox[r] EXCEPT !.fresh = FALSE] \in OutboxRow
    BY <1>0 DEF OutboxRow
  <2> QED
    BY <1>0, <2>1, <2>2
<1>5. /\ run' \in [Run -> RunRecord]
      /\ \A q \in Run : /\ run'[q].kind = run[q].kind /\ run'[q].status = run[q].status
                        /\ run'[q].from = run[q].from /\ run'[q].to = run[q].to
  <2>1. \/ run' = run
        \/ \E x \in {"none", "live", "expired"} : run' = [run EXCEPT ![r] = [@ EXCEPT !.lease = x]]
    OBVIOUS
  <2>2. CASE run' = run
    BY <1>0, <2>2
  <2>3. ASSUME NEW x \in {"none", "live", "expired"}, run' = [run EXCEPT ![r] = [@ EXCEPT !.lease = x]]
        PROVE  /\ run' \in [Run -> RunRecord]
               /\ \A q \in Run : /\ run'[q].kind = run[q].kind /\ run'[q].status = run[q].status
                                 /\ run'[q].from = run[q].from /\ run'[q].to = run[q].to
    BY <1>0, <2>3, RunLeased
  <2> QED
    BY <2>1, <2>2, <2>3
<1> HIDE DEF ClaimOutbox, RowLeaseExpires, LeaseExpires, LeaseTooShort, Expired
<1>6. TypeOK'
  BY <1>0, <1>1, <1>2, <1>3, <1>4, <1>5, Types, NextTypes, Zenon DEF history, queueVars
<1>7. Engaged'
  BY <1>0, <1>1, <1>2 DEF Engaged
<1> QED
  BY <1>1, <1>5, <1>6, <1>7, QuietStep DEF history

-----------------------------------------------------------------------------
(* The end of a run. *)

LEMMA EndedRun ==
    ASSUME TypeOK, NEW r \in Run, NEW st \in Terminal
    PROVE  /\ Ended(r, st) \in [Run -> RunRecord]
           /\ Ended(r, st)[r].kind = run[r].kind /\ Ended(r, st)[r].from = run[r].from
           /\ Ended(r, st)[r].to = run[r].to /\ Ended(r, st)[r].status = st
           /\ \A q \in Run : q # r => Ended(r, st)[q] = run[q]
<1>1. run \in [Run -> RunRecord]
  BY Types
<1>2. [run[r] EXCEPT !.status = st, !.lease = "none"] \in RunRecord
  BY <1>1 DEF RunRecord
<1>3. run[r] \in RunRecord
  BY <1>1
<1> QED
  BY <1>1, <1>2, <1>3 DEF Ended, RunRecord

\* The budget of a run whose reservations are released or committed.
LEMMA SettledBudget ==
    ASSUME TypeOK, NEW r \in Run, NEW k \in Nat, NEW d,
           d = [res EXCEPT ![r] = [scan |-> 0, probe |-> 0, spent |-> k]]
    PROVE  /\ d \in [Run -> Reservation] /\ d[r].scan = 0 /\ d[r].probe = 0 /\ d[r].spent = k
           /\ \A q \in Run : q # r => d[q] = res[q]
<1>1. res \in [Run -> Reservation]
  BY Types
<1>2. [scan |-> 0, probe |-> 0, spent |-> k] \in Reservation
  BY DEF Reservation
<1> QED
  BY <1>1, <1>2

LEMMA ResFields ==
    ASSUME TypeOK, NEW r \in Run
    PROVE  /\ res \in [Run -> Reservation] /\ res[r] \in Reservation
           /\ res[r].scan \in 0..1 /\ res[r].scan \in Nat /\ res[r].probe \in Nat
           /\ res[r].spent \in Nat /\ calls[r] \in Nat
BY Types DEF Reservation

\* The workers of a run whose reservations were released or committed.
LEMMA SettledWorkers ==
    ASSUME TypeOK, WorkerPhases, NEW r \in Run
    PROVE  /\ Settled(r) \in [Worker -> WorkerRecord]
           /\ \A w \in Worker : WorkerPhase(Settled(r)[w])
           /\ \A w \in Worker : /\ worker[w].run # r => Settled(r)[w] = worker[w]
                                /\ worker[w].run = r => /\ Settled(r)[w].run = r
                                                       /\ Settled(r)[w].probe # "reserved"
<1>1. worker \in [Worker -> WorkerRecord]
  BY Types
<1>2. ASSUME NEW w \in Worker
      PROVE  /\ Settled(r)[w] \in WorkerRecord /\ WorkerPhase(Settled(r)[w])
             /\ worker[w].run # r => Settled(r)[w] = worker[w]
             /\ worker[w].run = r => Settled(r)[w].run = r /\ Settled(r)[w].probe # "reserved"
  <2>0. worker[w] \in WorkerRecord /\ WorkerPhase(worker[w])
    BY <1>1 DEF WorkerPhases
  <2>1. CASE worker[w].run = r /\ worker[w].probe = "reserved"
    <3>1. Settled(r)[w] = [worker[w] EXCEPT !.probe = "settled"]
      BY <2>1 DEF Settled
    <3>2. [worker[w] EXCEPT !.probe = "settled"] \in WorkerRecord
      BY <2>0 DEF WorkerRecord
    <3>3. WorkerPhase([worker[w] EXCEPT !.probe = "settled"])
      BY <2>0, <2>1 DEF WorkerPhase, WorkerRecord
    <3>4. [worker[w] EXCEPT !.probe = "settled"].run = r /\ [worker[w] EXCEPT !.probe = "settled"].probe = "settled"
      BY <2>0, <2>1 DEF WorkerRecord
    <3> QED
      BY <2>1, <3>1, <3>2, <3>3, <3>4
  <2>2. CASE ~(worker[w].run = r /\ worker[w].probe = "reserved")
    <3>1. Settled(r)[w] = worker[w]
      BY <2>2 DEF Settled
    <3> QED
      BY <2>0, <2>2, <3>1
  <2> QED
    BY <2>1, <2>2
<1>3. Settled(r) = [w \in Worker |-> Settled(r)[w]]
  BY DEF Settled
<1>4. Settled(r) \in [Worker -> WorkerRecord]
  BY <1>2, <1>3
<1> QED
  BY <1>2, <1>4

\* The schedule, the runs and the gaps after a failure.
FailStatus(r) == IF Exhausted(r) THEN "GAP" ELSE "FAILED"
ScheduleAfter(r) == IF run[r].kind = "recurring" THEN FailedSchedule(sched, r) ELSE sched

LEMMA FailedTimeline ==
    ASSUME RunsIInv, NEW r \in Run, run[r].status \in Active
    PROVE  /\ ScheduleAfter(r) \in SchedRecord /\ DeclaredGaps(r) \subseteq Instant
           /\ Ended(r, FailStatus(r)) \in [Run -> RunRecord]
           /\ Timeline(ScheduleAfter(r), Ended(r, FailStatus(r)), fetched, DeclaredGaps(r), now)
           /\ ScheduleAfter(r).checkpoint >= sched.checkpoint
           /\ run[r].kind = "recurring" => ScheduleAfter(r).lease = 0
<1>0. TypeOK /\ now \in Instant /\ sched \in SchedRecord /\ run \in [Run -> RunRecord]
      /\ gaps \subseteq Instant
  BY Types DEF RunsIInv
<1>1. FailStatus(r) \in Terminal
  BY DEF FailStatus, Terminal
<1>2. ScheduleAfter(r) \in SchedRecord
  <2>1. sched.streak + 1 \in Nat /\ 0 \in 0..MaxRuns /\ sched.checkpoint \in Instant /\ run[r].to \in Instant
    BY <1>0, SchedFields, RunFields, BoundsAssumption
  <2> QED
    BY <1>0, <2>1 DEF ScheduleAfter, FailedSchedule, SchedRecord
<1>3. DeclaredGaps(r) = IF Exhausted(r) THEN gaps \cup (run[r].from..run[r].to) ELSE gaps
  BY DEF DeclaredGaps, Window
<1>4. DeclaredGaps(r) \subseteq Instant
  <2>1. run[r].from..run[r].to \subseteq Instant
    BY <1>0, RunFields, BoundsAssumption DEF Instant
  <2> QED
    BY <1>0, <1>3, <2>1
<1>5. IF run[r].kind = "recurring"
      THEN /\ ScheduleAfter(r).lease = 0 /\ ScheduleAfter(r).streak = sched.streak + 1
           /\ ScheduleAfter(r).checkpoint = IF Exhausted(r) THEN run[r].to ELSE sched.checkpoint
      ELSE ScheduleAfter(r) = sched
  BY DEF ScheduleAfter, FailedSchedule, Exhausted
<1>6. Exhausted(r) <=> GivenUp(sched, run[r])
  BY DEF Exhausted, GivenUp
<1>7. /\ Timeline(ScheduleAfter(r), Ended(r, FailStatus(r)), fetched, DeclaredGaps(r), now)
      /\ ScheduleAfter(r).checkpoint >= sched.checkpoint
  <2> DEFINE rt == Ended(r, FailStatus(r))
             u == ScheduleAfter(r)
             gq == DeclaredGaps(r)
  <2>1. /\ rt \in [Run -> RunRecord] /\ rt[r].kind = run[r].kind /\ rt[r].from = run[r].from
        /\ rt[r].to = run[r].to /\ \A q \in Run : q # r => rt[q] = run[q]
    BY <1>0, <1>1, EndedRun
  <2>2. rt[r].status = IF GivenUp(sched, run[r]) THEN "GAP" ELSE "FAILED"
    BY <1>0, <1>1, <1>6, EndedRun DEF FailStatus
  <2>3. Timeline(sched, run, fetched, gaps, now)
    BY DEF RunsIInv
  <2>5. u \in SchedRecord /\ gq = IF GivenUp(sched, run[r]) THEN gaps \cup (run[r].from..run[r].to) ELSE gaps
    BY <1>2, <1>3, <1>6
  <2>6. IF run[r].kind = "recurring"
        THEN /\ u.lease = 0 /\ u.streak = sched.streak + 1
             /\ u.checkpoint = IF GivenUp(sched, run[r]) THEN run[r].to ELSE sched.checkpoint
        ELSE u = sched
    BY <1>5, <1>6
  <2> HIDE DEF rt, u, gq
  <2>7. Timeline(u, rt, fetched, gq, now) /\ u.checkpoint >= sched.checkpoint
    BY <1>0, <2>1, <2>2, <2>3, <2>5, <2>6, TimelineFails
  <2> QED
    BY <2>7 DEF rt, u, gq
<1> QED
  BY <1>0, <1>1, <1>2, <1>4, <1>5, <1>7, EndedRun

\* A run is failed by somebody else than its worker.
LEMMA TakenBudget ==
    ASSUME RunsIInv, NEW r \in Run, run[r].status \in Active, TakenAway(r)
    PROVE  /\ Budget(Ended(r, FailStatus(r)), Released(r), calls, lost', Settled(r))
           /\ Released(r) \in [Run -> Reservation] /\ lost' \subseteq Run
<1>0. TypeOK /\ WorkerPhases /\ lost \subseteq Run /\ worker \in [Worker -> WorkerRecord]
      /\ Budget(run, res, calls, lost, worker)
  BY Types DEF RunsIInv
<1> DEFINE rt == Ended(r, FailStatus(r))
           d == Released(r)
           wl == Settled(r)
<1>1. FailStatus(r) \in Terminal
  BY DEF FailStatus, Terminal
<1>2. /\ rt[r].kind = run[r].kind /\ rt[r].status \in Terminal
      /\ \A q \in Run : q # r => rt[q] = run[q]
  BY <1>0, <1>1, EndedRun
<1>3. /\ d \in [Run -> Reservation] /\ d[r].scan = 0 /\ d[r].probe = 0 /\ d[r].spent = res[r].spent
      /\ \A q \in Run : q # r => d[q] = res[q]
  BY <1>0, ResFields, SettledBudget DEF Released
<1>4. /\ wl \in [Worker -> WorkerRecord]
      /\ \A w \in Worker : /\ worker[w].run # r => wl[w] = worker[w]
                           /\ worker[w].run = r => wl[w].run = r /\ wl[w].probe # "reserved"
  BY <1>0, SettledWorkers
<1>5. lost' = lost \/ lost' = lost \cup {r}
  BY DEF TakenAway
<1>6. run[r].kind # "none"
  BY DEF RunsIInv, Timeline, KindsInOrder, Active
<1>7. r \notin lost' => calls[r] <= d[r].spent /\ \A w \in Worker : wl[w].run # r
  <2> SUFFICES ASSUME r \notin lost'
               PROVE  calls[r] <= d[r].spent /\ \A w \in Worker : wl[w].run # r
    OBVIOUS
  <2>1. run[r].status = "PENDING" /\ r \in Run \ lost
    BY DEF TakenAway, Active
  <2>2. calls[r] <= res[r].spent
    BY <1>0, <2>1 DEF Budget, Owned
  <2>3. \A w \in Worker : worker[w].run # r
    BY <1>0, <2>1 DEF Budget, Owned, OwnsRun
  <2>4. \A w \in Worker : wl[w].run # r
    BY <1>4, <2>3
  <2> QED
    BY <1>3, <2>2, <2>4
<1> HIDE DEF rt, d, wl
<1>8. \A w \in Worker : /\ worker[w].run # r => wl[w] = worker[w]
                        /\ worker[w].run = r => wl[w].run \in {0, r} /\ wl[w].probe # "reserved"
  BY <1>4
<1>9. Budget(rt, d, calls, lost', wl)
  <2>1. res \in [Run -> Reservation]
    BY <1>0, ResFields
  <2>2. wl \in [Worker -> WorkerRecord] /\ worker \in [Worker -> WorkerRecord]
    BY <1>0, <1>4
  <2>3. \A q \in Run : q # r => rt[q] = run[q] /\ d[q] = res[q]
    BY <1>2, <1>3
  <2>4. d \in [Run -> Reservation] /\ d[r].scan = 0 /\ d[r].probe = 0
    BY <1>3
  <2>5. rt[r].kind = run[r].kind /\ rt[r].status \in Terminal
    BY <1>2
  <2>6. EndsRun(run, rt, res, d, calls, lost, lost', worker, wl, r)
    BY <1>5, <1>6, <1>7, <1>8, <2>1, <2>2, <2>3, <2>4, <2>5 DEF EndsRun
  <2> QED
    BY <1>0, <2>6, BudgetEnds
<1> QED
  BY <1>0, <1>3, <1>5, <1>9 DEF rt, d, wl

\* A failure in the database: what the callers of FailRun share.
LEMMA FailRunKeeps ==
    ASSUME RunsIInv, NEW r \in Run, run[r].status \in Active, NEW b, FailRun(r, b)
    PROVE  /\ sched' \in SchedRecord /\ run' \in [Run -> RunRecord] /\ gaps' \subseteq Instant
           /\ run' = Ended(r, FailStatus(r)) /\ res' = b
           /\ Timeline(sched', run', fetched, gaps', now)
           /\ sched'.checkpoint >= sched.checkpoint
<1>1. /\ run' = Ended(r, FailStatus(r)) /\ res' = b /\ gaps' = DeclaredGaps(r)
      /\ sched' = ScheduleAfter(r)
  BY DEF FailRun, FailStatus, ScheduleAfter
<1> QED
  BY <1>1, FailedTimeline

LEMMA PassFailKeeps ==
    ASSUME RunsIInv, PassFail
    PROVE  RunsIInv' /\ sched'.checkpoint >= sched.checkpoint
<1> DEFINE r == pass.run
<1>0. TypeOK /\ Engaged /\ WorkerPhases
  BY DEF RunsIInv
<1>1. r \in Run
  BY <1>0 DEF PassFail, Engaged
<1>2. /\ pass' = [pc |-> "idle", run |-> 0]
      /\ UNCHANGED <<now, outbox, disp, queueVars, fetched, calls, faults>>
  BY DEF PassFail
<1>3. pass' \in PassRecord /\ Engaged'
  BY <1>0, <1>2, BoundsAssumption DEF PassRecord, Engaged
<1>4. CASE run[r].status \in Active
  <2>1. FailRun(r, Released(r)) /\ worker' = Settled(r) /\ TakenAway(r)
    BY <1>4 DEF PassFail
  <2>2. /\ sched' \in SchedRecord /\ run' \in [Run -> RunRecord] /\ gaps' \subseteq Instant
        /\ run' = Ended(r, FailStatus(r)) /\ res' = Released(r)
        /\ Timeline(sched', run', fetched, gaps', now)
        /\ sched'.checkpoint >= sched.checkpoint
    BY <1>1, <1>4, <2>1, FailRunKeeps
  <2>3. /\ Budget(run', res', calls, lost', worker')
        /\ res' \in [Run -> Reservation] /\ lost' \subseteq Run
    BY <1>1, <1>4, <2>1, <2>2, TakenBudget
  <2>4. worker' \in [Worker -> WorkerRecord] /\ WorkerPhases'
    BY <1>0, <1>1, <2>1, SettledWorkers DEF WorkerPhases
  <2>5. TypeOK'
    BY <1>0, <1>2, <1>3, <2>2, <2>3, <2>4, Types, NextTypes, Zenon DEF queueVars
  <2> QED
    BY <1>2, <1>3, <2>2, <2>3, <2>4, <2>5 DEF RunsIInv
<1>5. CASE run[r].status \notin Active
  <2>1. UNCHANGED <<sched, run, res, gaps, worker, lost>>
    BY <1>5 DEF PassFail
  <2>2. TypeOK'
    BY <1>0, <1>2, <1>3, <2>1, Types, NextTypes, Zenon DEF queueVars
  <2> QED
    BY <1>2, <1>3, <2>1, <2>2, QuietStep
<1> QED
  BY <1>4, <1>5

LEMMA DueAgainKeeps ==
    ASSUME RunsIInv, DueAgain
    PROVE  RunsIInv' /\ sched'.checkpoint >= sched.checkpoint
<1>0. /\ TypeOK /\ Engaged /\ WorkerPhases /\ now \in Instant /\ sched \in SchedRecord
      /\ run \in [Run -> RunRecord]
  BY Types DEF RunsIInv
<1>1. UNCHANGED <<run, res, gaps, outbox, pass, disp, queueVars, worker, history, faults>>
  BY DEF DueAgain
<1>2. now' \in Instant /\ now <= now'
  BY <1>0, BoundsAssumption DEF DueAgain, Instant
<1>3. /\ sched' \in SchedRecord /\ sched'.lease = sched.lease /\ sched'.streak = sched.streak
      /\ sched'.checkpoint = sched.checkpoint
  BY <1>0 DEF DueAgain, SchedRecord
<1>4. TypeOK'
  BY <1>0, <1>1, <1>2, <1>3, Types, NextTypes, Zenon DEF queueVars, history
<1>5. Engaged' /\ WorkerPhases'
  BY <1>0, <1>1 DEF Engaged, WorkerPhases
<1>6. Timeline(sched', run, fetched, gaps, now')
  <2>1. \A q \in Run : Alike(run[q], run[q])
    BY DEF Alike
  <2> QED
    BY <1>0, <1>2, <1>3, <2>1, TimelineStays DEF RunsIInv
<1>7. sched'.checkpoint >= sched.checkpoint
  BY <1>0, <1>3, SchedFields
<1>8. Timeline(sched, run, fetched, gaps, now)' /\ Budget(run, res, calls, lost, worker)'
  BY <1>1, <1>6 DEF RunsIInv, history
<1> QED
  BY <1>4, <1>5, <1>7, <1>8 DEF RunsIInv

LEMMA RecoverKeeps ==
    ASSUME RunsIInv, NEW r \in Run, RecoverStaleTriggeredRun(r)
    PROVE  RunsIInv' /\ sched'.checkpoint >= sched.checkpoint
<1>0. /\ TypeOK /\ Engaged /\ WorkerPhases /\ now \in Instant /\ sched \in SchedRecord
      /\ run \in [Run -> RunRecord] /\ outbox \in [Run -> OutboxRow] /\ lost \subseteq Run
      /\ worker \in [Worker -> WorkerRecord]
  BY Types DEF RunsIInv
<1>1. /\ UNCHANGED <<now, sched, res, gaps, pass, disp, queueVars, worker, fetched, calls, faults>>
      /\ run[r].kind = "followup" /\ run[r].status \in Active /\ TakenAway(r)
      /\ run' = [run EXCEPT ![r] = [@ EXCEPT !.status = "PENDING", !.lease = "none"]]
      /\ outbox' = Reopened(r)
  BY DEF RecoverStaleTriggeredRun
<1>2. outbox' \in [Run -> OutboxRow]
  <2>1. [open |-> TRUE, owned |-> FALSE, fresh |-> FALSE, id |-> outbox[r].id + 1] \in OutboxRow
    BY <1>0 DEF OutboxRow
  <2> QED
    BY <1>0, <1>1, <2>1 DEF Reopened
<1>3. /\ run' \in [Run -> RunRecord] /\ run'[r].kind = run[r].kind /\ run'[r].from = run[r].from
      /\ run'[r].to = run[r].to /\ run'[r].status = "PENDING" /\ \A q \in Run : q # r => run'[q] = run[q]
  <2>1. [run[r] EXCEPT !.status = "PENDING", !.lease = "none"] \in RunRecord /\ run[r] \in RunRecord
    BY <1>0 DEF RunRecord, Active
  <2> QED
    BY <1>0, <1>1, <2>1 DEF RunRecord
<1>4. lost' \subseteq Run
  BY <1>0, <1>1 DEF TakenAway
<1>5. TypeOK'
  BY <1>0, <1>1, <1>2, <1>3, <1>4, Types, NextTypes, Zenon DEF queueVars
<1>6. Engaged' /\ WorkerPhases'
  BY <1>0, <1>1 DEF Engaged, WorkerPhases
<1>7. Timeline(sched, run', fetched, gaps, now)
  <2>1. \A q \in Run : Alike(run[q], run'[q])
    BY <1>1, <1>3 DEF Alike, Active
  <2>2. now <= now
    BY <1>0, BoundsAssumption DEF Instant
  <2> QED
    BY <1>0, <1>3, <2>1, <2>2, TimelineStays DEF RunsIInv
<1>8. Budget(run', res, calls, lost', worker)
  <2>1. CASE run[r].status = "RUNNING"
    <3>1. lost' = lost \cup {r}
      BY <1>1, <2>1 DEF TakenAway
    <3>2. run[r].kind # "none"
      BY <1>1
    <3> QED
      BY <1>0, <1>3, <3>1, <3>2, BudgetLost DEF RunsIInv
  <2>2. CASE run[r].status # "RUNNING"
    <3>1. lost' = lost /\ run[r].status = "PENDING"
      BY <1>1, <2>2 DEF TakenAway, Active
    <3>2. \A q \in Run : run'[q].kind = run[q].kind /\ run'[q].status = run[q].status
      BY <1>3, <3>1
    <3> QED
      BY <1>0, <3>1, <3>2, BudgetStays DEF RunsIInv
  <2> QED
    BY <2>1, <2>2
<1>9. sched'.checkpoint >= sched.checkpoint
  BY <1>0, <1>1, SchedFields
<1> QED
  BY <1>1, <1>5, <1>6, <1>7, <1>8, <1>9 DEF RunsIInv

-----------------------------------------------------------------------------
(* Claims. *)

LEMMA NextRunUnused ==
    ASSUME Unused # {}
    PROVE  /\ NextRun \in Run /\ run[NextRun].kind = "none"
           /\ \A q \in Run : run[q].kind = "none" => NextRun <= q
<1>1. Unused \in SUBSET Run
  BY DEF Unused
<1>2. NextRun \in Unused /\ \A q \in Unused : NextRun <= q
  BY <1>1, LeastRun, Zenon DEF NextRun
<1> QED
  BY <1>2 DEF Unused

\* The window of a claim, a new one or a retry, touches the checkpoint.
LEMMA RequestSpans ==
    ASSUME NEW s \in SchedRecord, NEW rs \in [Run -> RunRecord], NEW ft, NEW gp, now \in Instant,
           Timeline(s, rs, ft, gp, now)
    PROVE  /\ Request(s, rs).from \in Instant /\ Request(s, rs).to \in Instant
           /\ Spans(s, Request(s, rs)) /\ Request(s, rs).to <= now
<1>1. CASE s.streak \in 1..Threshold - 1 /\ RecurringFailed(rs) # {}
  <2> DEFINE r == Max(RecurringFailed(rs))
  <2>1. RecurringFailed(rs) \in SUBSET Run
    BY DEF RecurringFailed
  <2>2. r \in RecurringFailed(rs) /\ \A q \in RecurringFailed(rs) : r >= q
    BY <1>1, <2>1, GreatestRun, Zenon
  <2>3. Request(s, rs) = [from |-> rs[r].from, to |-> rs[r].to]
    BY <1>1, Zenon DEF Request
  <2> HIDE DEF r
  <2>4. r \in Run /\ \A q \in Run : q \in Int
    BY <2>1, <2>2, BoundsAssumption DEF Run
  <2>5. LastFailed(rs, r)
    BY <2>2, <2>4 DEF LastFailed, RecurringFailed
  <2>6. Spans(s, rs[r]) /\ rs[r].to <= now
    BY <1>1, <2>4, <2>5 DEF Timeline, WindowsSpan
  <2> QED
    BY <2>3, <2>4, <2>6, RunFields DEF Spans
<1>2. CASE ~(s.streak \in 1..Threshold - 1 /\ RecurringFailed(rs) # {})
  <2>1. Request(s, rs) = [from |-> Max({0, s.checkpoint - Overlap}), to |-> now]
    BY <1>2, Zenon DEF Request
  <2>2. s.checkpoint \in Instant /\ s.checkpoint <= now
    BY SchedFields DEF Timeline, WindowsSpan
  <2>3. Max({0, s.checkpoint - Overlap}) \in Instant /\ Max({0, s.checkpoint - Overlap}) <= s.checkpoint
    BY <2>2, WindowStart
  <2>4. now <= now
    BY BoundsAssumption DEF Instant
  <2> QED
    BY <2>1, <2>2, <2>3, <2>4 DEF Spans
<1> QED
  BY <1>1, <1>2

\* A claim on a schedule s and runs rs from which a stale run has been removed.
LEMMA ClaimRunKeeps ==
    ASSUME TypeOK, Engaged, NEW s \in SchedRecord, NEW rs \in [Run -> RunRecord],
           NEW b \in [Run -> Reservation], NEW gp, NEW l, NEW wk \in [Worker -> WorkerRecord],
           Timeline(s, rs, fetched, gp, now), Budget(rs, b, calls, l, wk), s.lease = 0,
           \A q \in Run : rs[q].kind = run[q].kind, ClaimRun(s, rs, b)
    PROVE  /\ sched' \in SchedRecord /\ run' \in [Run -> RunRecord] /\ res' \in [Run -> Reservation]
           /\ pass' \in PassRecord /\ (pass'.pc # "idle" => pass'.run \in Run)
           /\ faults' \in 0..MaxFaults
           /\ Timeline(sched', run', fetched, gp, now) /\ Budget(run', res', calls, l, wk)
           /\ sched'.checkpoint = s.checkpoint
<1> DEFINE k == NextRun
           q == Request(s, rs)
<1>0. now \in Instant /\ pass \in PassRecord /\ (pass.pc # "idle" => pass.run \in Run)
      /\ faults \in 0..MaxFaults
  BY Types DEF Engaged
<1>1. CASE ClaimIneligible(s, rs, b)
  <2>1. run' = rs /\ res' = b /\ pass' = pass /\ sched' = [s EXCEPT !.lease = 0, !.due = FALSE] /\ Fault
    BY <1>1 DEF ClaimIneligible
  <2>2. /\ sched' \in SchedRecord /\ sched'.lease = s.lease /\ sched'.streak = s.streak
        /\ sched'.checkpoint = s.checkpoint
    BY <2>1, BoundsAssumption DEF SchedRecord
  <2>3. \A r \in Run : Alike(rs[r], rs[r])
    BY DEF Alike
  <2>4. now <= now
    BY <1>0, BoundsAssumption DEF Instant
  <2>5. Timeline(sched', rs, fetched, gp, now)
    BY <1>0, <2>2, <2>3, <2>4, TimelineStays
  <2>6. faults' \in 0..MaxFaults
    BY <2>1, Faulty
  <2> QED
    BY <1>0, <2>1, <2>2, <2>5, <2>6
<1>2. ASSUME NEW st \in {"PENDING", "BUDGET_DEFERRED"}, Unused # {},
             run' = [rs EXCEPT ![k] = NewRun("recurring", st, q.from, q.to)],
             sched' = [s EXCEPT !.lease = IF st = "PENDING" THEN k ELSE 0, !.due = st = "PENDING"],
             \/ st = "PENDING" /\ res' = [b EXCEPT ![k] = [@ EXCEPT !.scan = 1]]
             \/ st = "BUDGET_DEFERRED" /\ res' = b
      PROVE  /\ sched' \in SchedRecord /\ run' \in [Run -> RunRecord] /\ res' \in [Run -> Reservation]
             /\ Timeline(sched', run', fetched, gp, now) /\ Budget(run', res', calls, l, wk)
             /\ sched'.checkpoint = s.checkpoint /\ k \in Run
  <2>1. k \in Run /\ run[k].kind = "none" /\ \A r \in Run : run[r].kind = "none" => k <= r
    BY <1>2, NextRunUnused
  <2>2. rs[k].kind = "none" /\ \A r \in Run : rs[r].kind = "none" => k <= r
    BY <2>1
  <2>3. q.from \in Instant /\ q.to \in Instant /\ Spans(s, q) /\ q.to <= now
    BY <1>0, RequestSpans
  <2> HIDE DEF k, q
  <2>4. /\ NewRun("recurring", st, q.from, q.to) \in RunRecord
        /\ NewRun("recurring", st, q.from, q.to).kind = "recurring"
        /\ NewRun("recurring", st, q.from, q.to).status = st
        /\ NewRun("recurring", st, q.from, q.to).from = q.from
        /\ NewRun("recurring", st, q.from, q.to).to = q.to
    BY <2>3 DEF NewRun, RunRecord, Active, Terminal
  <2>5. /\ run' \in [Run -> RunRecord] /\ run'[k].kind = "recurring" /\ run'[k].status = st
        /\ run'[k].from = q.from /\ run'[k].to = q.to /\ \A r \in Run : r # k => run'[r] = rs[r]
    BY <1>2, <2>1, <2>4
  <2>6. /\ sched' \in SchedRecord /\ sched'.streak = s.streak /\ sched'.checkpoint = s.checkpoint
        /\ sched'.lease = IF st = "PENDING" THEN k ELSE 0
    <3>1. k \in 0..MaxRuns /\ 0 \in 0..MaxRuns
      BY <2>1, BoundsAssumption DEF Run
    <3>2. CASE st = "PENDING"
      BY <1>2, <3>1, <3>2 DEF SchedRecord
    <3>3. CASE st # "PENDING"
      BY <1>2, <3>1, <3>3 DEF SchedRecord
    <3> QED
      BY <3>2, <3>3
  <2>7. Spans(s, run'[k]) /\ run'[k].to <= now
    BY <2>3, <2>5 DEF Spans
  <2>8. Timeline(sched', run', fetched, gp, now)
    BY <1>0, <2>1, <2>2, <2>5, <2>6, <2>7, TimelineAdds
  <2>9. b[k].scan = 0 /\ b[k].probe = 0 /\ b[k].spent = 0
    BY <2>1, <2>2 DEF Budget, UnusedBlank
  <2>10. /\ res' \in [Run -> Reservation] /\ \A r \in Run : r # k => res'[r] = b[r]
         /\ \/ st = "PENDING" /\ res'[k].scan = 1 /\ res'[k].probe = 0 /\ res'[k].spent = 0
            \/ st = "BUDGET_DEFERRED" /\ res'[k] = b[k]
    <3>1. CASE st = "PENDING" /\ res' = [b EXCEPT ![k] = [@ EXCEPT !.scan = 1]]
      <4>1. b[k] \in Reservation
        BY <2>1
      <4>2. /\ [b[k] EXCEPT !.scan = 1] \in Reservation /\ [b[k] EXCEPT !.scan = 1].scan = 1
            /\ [b[k] EXCEPT !.scan = 1].probe = 0 /\ [b[k] EXCEPT !.scan = 1].spent = 0
        BY <2>9, <4>1 DEF Reservation
      <4> QED
        BY <2>1, <3>1, <4>2
    <3>2. CASE st = "BUDGET_DEFERRED" /\ res' = b
      BY <3>2
    <3> QED
      BY <1>2, <3>1, <3>2
  <2>11. Budget(run', res', calls, l, wk)
    <3>1. \A r \in Run : r # k => run'[r] = rs[r] /\ res'[r] = b[r]
      BY <2>5, <2>10
    <3>2. run'[k].kind # "none"
      BY <2>5
    <3>3. \/ run'[k].status = "PENDING" /\ res'[k].scan = 1 /\ res'[k].probe = 0 /\ res'[k].spent = 0
          \/ run'[k].status = "BUDGET_DEFERRED" /\ res'[k] = b[k]
      BY <2>5, <2>10
    <3>4. AddsRun(rs, run', b, res', wk, k)
      BY <2>1, <2>2, <2>10, <3>1, <3>2, <3>3 DEF AddsRun
    <3> QED
      BY <3>4, BudgetAdds
  <2> QED
    BY <2>1, <2>5, <2>6, <2>8, <2>10, <2>11
<1>3. CASE /\ Unused # {} /\ NoFault /\ run' = [rs EXCEPT ![k] = NewRun("recurring", "PENDING", q.from, q.to)]
           /\ res' = [b EXCEPT ![k] = [@ EXCEPT !.scan = 1]]
           /\ sched' = [s EXCEPT !.lease = k, !.due = TRUE] /\ pass' = [pc |-> "enqueue", run |-> k]
  <2>1. sched' = [s EXCEPT !.lease = IF "PENDING" = "PENDING" THEN k ELSE 0, !.due = "PENDING" = "PENDING"]
    BY <1>3
  <2>2. /\ sched' \in SchedRecord /\ run' \in [Run -> RunRecord] /\ res' \in [Run -> Reservation]
        /\ Timeline(sched', run', fetched, gp, now) /\ Budget(run', res', calls, l, wk)
        /\ sched'.checkpoint = s.checkpoint /\ k \in Run
    BY <1>2, <1>3, <2>1
  <2>3. pass' \in PassRecord /\ pass'.run \in Run
    BY <1>3, <2>2, BoundsAssumption DEF PassRecord, Run
  <2> QED
    BY <1>0, <1>3, <2>2, <2>3 DEF NoFault
<1>4. CASE /\ Unused # {} /\ NoFault
           /\ run' = [rs EXCEPT ![k] = NewRun("recurring", "BUDGET_DEFERRED", q.from, q.to)]
           /\ res' = b /\ sched' = [s EXCEPT !.lease = 0, !.due = FALSE] /\ UNCHANGED pass
  <2>1. sched' = [s EXCEPT !.lease = IF "BUDGET_DEFERRED" = "PENDING" THEN k ELSE 0,
                           !.due = "BUDGET_DEFERRED" = "PENDING"]
    BY <1>4
  <2>2. /\ sched' \in SchedRecord /\ run' \in [Run -> RunRecord] /\ res' \in [Run -> Reservation]
        /\ Timeline(sched', run', fetched, gp, now) /\ Budget(run', res', calls, l, wk)
        /\ sched'.checkpoint = s.checkpoint /\ k \in Run
    BY <1>2, <1>4, <2>1
  <2> QED
    BY <1>0, <1>4, <2>2 DEF NoFault
<1> QED
  BY <1>1, <1>3, <1>4, Zenon DEF ClaimRun

LEMMA ClaimKeeps ==
    ASSUME RunsIInv, Claim
    PROVE  RunsIInv' /\ sched'.checkpoint >= sched.checkpoint
<1>0. /\ TypeOK /\ Engaged /\ WorkerPhases /\ sched \in SchedRecord /\ run \in [Run -> RunRecord]
      /\ res \in [Run -> Reservation] /\ worker \in [Worker -> WorkerRecord]
      /\ Timeline(sched, run, fetched, gaps, now) /\ Budget(run, res, calls, lost, worker)
  BY Types DEF RunsIInv
<1>1. /\ sched.lease = 0 /\ ClaimRun(sched, run, res)
      /\ UNCHANGED <<now, gaps, outbox, disp, queueVars, worker, history>>
  BY DEF Claim
<1>2. /\ sched' \in SchedRecord /\ run' \in [Run -> RunRecord] /\ res' \in [Run -> Reservation]
      /\ pass' \in PassRecord /\ (pass'.pc # "idle" => pass'.run \in Run)
      /\ faults' \in 0..MaxFaults
      /\ Timeline(sched', run', fetched, gaps, now) /\ Budget(run', res', calls, lost, worker)
      /\ sched'.checkpoint = sched.checkpoint
  BY <1>0, <1>1, ClaimRunKeeps
<1>3. TypeOK'
  BY <1>0, <1>1, <1>2, Types, NextTypes, Zenon DEF queueVars, history
<1>4. Engaged' /\ WorkerPhases'
  BY <1>0, <1>1, <1>2 DEF Engaged, WorkerPhases
<1>5. Timeline(sched, run, fetched, gaps, now)' /\ Budget(run, res, calls, lost, worker)'
  BY <1>1, <1>2 DEF history
<1>6. sched'.checkpoint >= sched.checkpoint
  BY <1>0, <1>2, SchedFields
<1> QED
  BY <1>3, <1>4, <1>5, <1>6 DEF RunsIInv

LEMMA ClaimStaleKeeps ==
    ASSUME RunsIInv, ClaimStale
    PROVE  RunsIInv' /\ sched'.checkpoint >= sched.checkpoint
<1> DEFINE r == sched.lease
           s == ScheduleAfter(r)
           rs == Ended(r, FailStatus(r))
<1>0. /\ TypeOK /\ Engaged /\ WorkerPhases /\ sched \in SchedRecord /\ pass \in PassRecord
      /\ Timeline(sched, run, fetched, gaps, now) /\ faults \in 0..MaxFaults
  BY Types DEF RunsIInv
<1>1. r \in Run /\ run[r].kind = "recurring" /\ run[r].status \in Active
  BY <1>0, SchedFields DEF ClaimStale, Timeline, LeaseIsLatest
<1>2. /\ gaps' = DeclaredGaps(r) /\ worker' = Settled(r) /\ TakenAway(r)
      /\ UNCHANGED <<now, outbox, disp, queueVars, fetched, calls>>
      /\ \/ sched' = s /\ run' = rs /\ res' = Released(r) /\ NoFault /\ UNCHANGED pass
         \/ ClaimRun(s, rs, Released(r))
  BY <1>1 DEF ClaimStale, ScheduleAfter, FailStatus
<1>3. /\ s \in SchedRecord /\ gaps' \subseteq Instant /\ rs \in [Run -> RunRecord]
      /\ Timeline(s, rs, fetched, gaps', now)
      /\ s.checkpoint >= sched.checkpoint /\ s.lease = 0
  BY <1>1, <1>2, FailedTimeline
<1>4. /\ Budget(rs, Released(r), calls, lost', worker')
      /\ Released(r) \in [Run -> Reservation] /\ lost' \subseteq Run
  BY <1>1, <1>2, TakenBudget
<1>5. worker' \in [Worker -> WorkerRecord] /\ WorkerPhases'
  BY <1>0, <1>1, <1>2, SettledWorkers DEF WorkerPhases
<1>6. \A q \in Run : rs[q].kind = run[q].kind
  <2>1. FailStatus(r) \in Terminal
    BY DEF FailStatus, Terminal
  <2> QED
    BY <1>0, <1>1, <2>1, EndedRun
<1> HIDE DEF r, s, rs
<1>7. /\ sched' \in SchedRecord /\ run' \in [Run -> RunRecord] /\ res' \in [Run -> Reservation]
      /\ pass' \in PassRecord /\ (pass'.pc # "idle" => pass'.run \in Run)
      /\ faults' \in 0..MaxFaults
      /\ Timeline(sched', run', fetched, gaps', now) /\ Budget(run', res', calls, lost', worker')
      /\ sched'.checkpoint = s.checkpoint
  <2>1. CASE sched' = s /\ run' = rs /\ res' = Released(r) /\ NoFault /\ UNCHANGED pass
    BY <1>0, <1>3, <1>4, <2>1 DEF NoFault, Engaged
  <2>2. CASE ClaimRun(s, rs, Released(r))
    BY <1>0, <1>3, <1>4, <1>5, <1>6, <2>2, ClaimRunKeeps
  <2> QED
    BY <1>2, <2>1, <2>2
<1>8. TypeOK'
  BY <1>0, <1>2, <1>3, <1>4, <1>5, <1>7, Types, NextTypes, Zenon DEF queueVars
<1>9. Engaged'
  BY <1>0, <1>2, <1>7 DEF Engaged
<1>10. Timeline(sched, run, fetched, gaps, now)' /\ Budget(run, res, calls, lost, worker)'
  BY <1>2, <1>7
<1> QED
  BY <1>3, <1>5, <1>7, <1>8, <1>9, <1>10 DEF RunsIInv

-----------------------------------------------------------------------------
(* The worker. *)

LEMMA WorkerFields ==
    ASSUME TypeOK, WorkerPhases, NEW w \in Worker, worker[w].pc # "idle"
    PROVE  /\ worker \in [Worker -> WorkerRecord] /\ worker[w] \in WorkerRecord
           /\ worker[w].run \in Run /\ worker[w].run # 0
BY Types, BoundsAssumption DEF WorkerPhases, WorkerPhase, WorkerRecord, Run

\* The workers after a step of one of them: its record is another.
LEMMA WorkerStepped ==
    ASSUME TypeOK, WorkerPhases, NEW w \in Worker, NEW x \in WorkerRecord, WorkerPhase(x),
           worker' = [worker EXCEPT ![w] = x]
    PROVE  /\ worker' \in [Worker -> WorkerRecord] /\ WorkerPhases' /\ worker'[w] = x
           /\ \A v \in Worker : v # w => worker'[v] = worker[v]
<1>1. worker \in [Worker -> WorkerRecord]
  BY Types
<1>2. worker' \in [Worker -> WorkerRecord] /\ worker'[w] = x /\ \A v \in Worker : v # w => worker'[v] = worker[v]
  BY <1>1
<1>3. \A v \in Worker : WorkerPhase(worker'[v])
  BY <1>2 DEF WorkerPhases
<1> QED
  BY <1>2, <1>3 DEF WorkerPhases

LEMMA IdleWorker == Idle \in WorkerRecord /\ WorkerPhase(Idle) /\ Idle.run = 0 /\ Idle.probe = "none"
BY BoundsAssumption DEF Idle, WorkerRecord, WorkerPhase, Instant

\* The probes of a run after a step of one of its workers.
LEMMA ReservedKept ==
    ASSUME RunsIInv, NEW r \in Run, NEW w \in Worker,
           \A v \in Worker : v # w => worker'[v] = worker[v],
           worker'[w].run = r /\ worker'[w].probe = "reserved" =>
               worker[w].run = r /\ worker[w].probe = "reserved"
    PROVE  Cardinality(Reserving(worker', r)) <= res[r].probe
<1> DEFINE n == Cardinality(Reserving(worker, r))
           m == Cardinality(Reserving(worker', r))
<1>1. n \in Nat /\ m \in Nat
  BY ReservingFinite
<1>2. n <= res[r].probe /\ res[r].probe \in Nat
  BY ResFields DEF RunsIInv, Budget, ProbesReserved
<1>3. Reserving(worker', r) \subseteq Reserving(worker, r)
  BY DEF Reserving
<1>4. m <= n
  BY <1>3, ReservingFinite
<1> HIDE DEF n, m
<1>5. m <= res[r].probe
  BY <1>1, <1>2, <1>4
<1> QED
  BY <1>5 DEF m

LEMMA ReservedGrows ==
    ASSUME RunsIInv, NEW r \in Run, NEW w \in Worker,
           \A v \in Worker : v # w => worker'[v] = worker[v],
           worker[w].run = r => worker[w].probe # "reserved"
    PROVE  Cardinality(Reserving(worker', r)) <= res[r].probe + 1
<1> DEFINE n == Cardinality(Reserving(worker, r))
           m == Cardinality(Reserving(worker', r))
<1>1. n \in Nat /\ m \in Nat
  BY ReservingFinite
<1>2. n <= res[r].probe /\ res[r].probe \in Nat
  BY ResFields DEF RunsIInv, Budget, ProbesReserved
<1>3. w \notin Reserving(worker, r) /\ Reserving(worker', r) \subseteq Reserving(worker, r) \cup {w}
  BY DEF Reserving
<1>4. m <= n + 1
  BY <1>3, ReservingPlus
<1> HIDE DEF n, m
<1>5. m <= res[r].probe + 1
  BY <1>1, <1>2, <1>4
<1> QED
  BY <1>5 DEF m

LEMMA ReservedShrinks ==
    ASSUME RunsIInv, NEW r \in Run, NEW w \in Worker,
           \A v \in Worker : v # w => worker'[v] = worker[v],
           worker[w].run = r, worker[w].probe = "reserved",
           ~(worker'[w].run = r /\ worker'[w].probe = "reserved")
    PROVE  Cardinality(Reserving(worker', r)) <= res[r].probe - 1 /\ res[r].probe >= 1
<1> DEFINE n == Cardinality(Reserving(worker, r))
           m == Cardinality(Reserving(worker', r))
<1>1. n \in Nat /\ m \in Nat
  BY ReservingFinite
<1>2. n <= res[r].probe /\ res[r].probe \in Nat
  BY ResFields DEF RunsIInv, Budget, ProbesReserved
<1>3. w \in Reserving(worker, r) /\ Reserving(worker', r) \subseteq Reserving(worker, r) \ {w}
  BY DEF Reserving
<1>4. m <= n - 1 /\ n >= 1
  BY <1>3, ReservingMinus
<1> HIDE DEF n, m
<1>5. m <= res[r].probe - 1 /\ res[r].probe >= 1
  BY <1>1, <1>2, <1>4
<1> QED
  BY <1>5 DEF m

\* A step of worker w on its run r that touches neither the schedule nor the
\* runs: the worker's record is x afterwards.
WorksOn(w, x, r) ==
    /\ w \in Worker /\ worker[w].pc # "idle" /\ r = worker[w].run
    /\ x \in WorkerRecord /\ WorkerPhase(x) /\ x.run \in {0, r}
    /\ worker' = [worker EXCEPT ![w] = x]
    /\ UNCHANGED <<now, sched, run, gaps, outbox, pass, disp, added, fetched, lost>>
    /\ waiting' \subseteq added /\ faults' \in 0..MaxFaults
    /\ res' \in [Run -> Reservation] /\ calls' \in [Run -> Nat]
    /\ \A q \in Run : q # r => res'[q] = res[q] /\ calls'[q] = calls[q]
    /\ Cardinality(Reserving(worker', r)) <= res'[r].probe
    /\ r \notin lost /\ OwnsRun(run, res, calls, worker, w) =>
         /\ x.run = r => /\ res'[r].scan = 1 /\ x.probe # "settled"
                         /\ res'[r].probe = One(x.probe = "reserved")
                         /\ calls'[r] <= res'[r].spent + One(x.probed) + One(x.started)
         /\ calls'[r] <= res'[r].scan + res'[r].probe + res'[r].spent

LEMMA WorkOnly ==
    ASSUME RunsIInv, NEW w, NEW x, NEW r, WorksOn(w, x, r)
    PROVE  RunsIInv' /\ sched'.checkpoint >= sched.checkpoint
<1> USE DEF WorksOn
<1>0. /\ TypeOK /\ Engaged /\ WorkerPhases /\ sched \in SchedRecord /\ res \in [Run -> Reservation]
      /\ worker \in [Worker -> WorkerRecord] /\ added \subseteq Run \X Nat
      /\ Budget(run, res, calls, lost, worker)
  BY Types DEF RunsIInv
<1>1. r \in Run /\ r # 0
  BY <1>0, WorkerFields
<1>2. /\ worker' \in [Worker -> WorkerRecord] /\ WorkerPhases' /\ worker'[w] = x
      /\ \A v \in Worker : v # w => worker'[v] = worker[v]
  BY <1>0, WorkerStepped
<1>3. TypeOK'
  BY <1>0, <1>2, Types, NextTypes, Zenon
<1>4. Engaged'
  BY <1>0 DEF Engaged
<1>5. r \notin lost => OwnsRun(run, res, calls, worker, w)
  BY <1>0, <1>1 DEF Budget, Owned
<1>6. run[r].kind # "none"
  BY <1>0, <1>1 DEF Budget, UnusedBlank
<1>7. ASSUME r \notin lost
      PROVE  /\ \A v \in Worker : v # w => worker[v].run # r
             /\ run[r].status = "RUNNING" /\ run[r].status \notin Terminal
  BY <1>5, <1>7 DEF OwnsRun, Terminal
<1>8. GoesOn(run, run', res, res', calls, calls', lost, worker, worker', r, w)
  BY <1>0, <1>1, <1>2, <1>5, <1>6, <1>7 DEF GoesOn
<1>9. Budget(run, res, calls, lost, worker)'
  BY <1>0, <1>8, BudgetOfRun
<1>10. Timeline(sched, run, fetched, gaps, now)'
  BY DEF RunsIInv
<1>11. sched'.checkpoint >= sched.checkpoint
  BY <1>0, SchedFields
<1> QED
  BY <1>2, <1>3, <1>4, <1>9, <1>10, <1>11 DEF RunsIInv

\* The worker leaves its run as it is.
LEMMA JobEndsKeeps ==
    ASSUME RunsIInv, NEW w \in Worker, worker[w].pc # "idle",
           NEW x \in WorkerRecord, WorkerPhase(x), x.run \in {0, worker[w].run},
           worker' = [worker EXCEPT ![w] = x],
           x.run # 0 => x.probe = worker[w].probe /\ x.probed = worker[w].probed /\ x.started = worker[w].started,
           UNCHANGED <<now, sched, run, gaps, outbox, pass, disp, added, fetched, lost, res, calls>>,
           waiting' \subseteq added, faults' \in 0..MaxFaults
    PROVE  RunsIInv' /\ sched'.checkpoint >= sched.checkpoint
<1> DEFINE r == worker[w].run
<1>0. TypeOK /\ WorkerPhases /\ res \in [Run -> Reservation] /\ calls \in [Run -> Nat]
      /\ Budget(run, res, calls, lost, worker)
  BY Types DEF RunsIInv
<1>1. r \in Run /\ r # 0
  BY <1>0, WorkerFields
<1>2. worker'[w] = x /\ \A v \in Worker : v # w => worker'[v] = worker[v]
  BY <1>0, WorkerStepped
<1>3. res[r].probe \in Nat /\ res[r].probe >= res[r].probe
  BY <1>0, <1>1, ResFields
<1>4. Cardinality(Reserving(worker', r)) <= res[r].probe
  <2>1. worker'[w].run = r /\ worker'[w].probe = "reserved" => worker[w].probe = "reserved"
    BY <1>1, <1>2
  <2> HIDE DEF r
  <2>2. worker[w].run = r
    BY DEF r
  <2> QED
    BY <1>1, <1>2, <2>1, <2>2, ReservedKept
<1>5. r \notin lost => calls[r] <= res[r].scan + res[r].probe + res[r].spent
  BY <1>0, <1>1 DEF Budget, Paid
<1>6. r \notin lost /\ OwnsRun(run, res, calls, worker, w) =>
        (x.run = r => /\ res[r].scan = 1 /\ x.probe # "settled"
                      /\ res[r].probe = One(x.probe = "reserved")
                      /\ calls[r] <= res[r].spent + One(x.probed) + One(x.started))
  BY <1>1 DEF OwnsRun
<1> HIDE DEF r
<1>7. r = worker[w].run
  BY DEF r
<1>8. WorksOn(w, x, r)
  BY <1>0, <1>4, <1>5, <1>6, <1>7 DEF WorksOn
<1> QED
  BY <1>8, WorkOnly

LEMMA ProbeKeeps ==
    ASSUME RunsIInv, NEW w \in Worker, Probe(w)
    PROVE  RunsIInv' /\ sched'.checkpoint >= sched.checkpoint
<1> DEFINE r == worker[w].run
<1>0. /\ TypeOK /\ WorkerPhases /\ res \in [Run -> Reservation] /\ calls \in [Run -> Nat]
      /\ waiting \subseteq added
  BY Types DEF RunsIInv
<1>1. /\ worker[w].pc = "running" /\ worker[w].probe = "none" /\ Fault
      /\ UNCHANGED <<now, sched, run, gaps, outbox, pass, disp, queueVars, history>>
  BY DEF Probe
<1>2. worker[w] \in WorkerRecord /\ WorkerPhase(worker[w]) /\ r \in Run /\ r # 0
  BY <1>0, <1>1, WorkerFields DEF WorkerPhases
<1>3. faults' \in 0..MaxFaults
  BY <1>0, <1>1, Faulty
<1>4. CASE res' = [res EXCEPT ![r] = [scan |-> @.scan, probe |-> @.probe + 1, spent |-> @.spent]]
           /\ worker' = [worker EXCEPT ![w] = [@ EXCEPT !.pc = "probing", !.probe = "reserved"]]
  <2> DEFINE x == [worker[w] EXCEPT !.pc = "probing", !.probe = "reserved"]
  <2>1. x \in WorkerRecord
    BY <1>2 DEF WorkerRecord
  <2>2. /\ x.pc = "probing" /\ x.probe = "reserved" /\ x.run = r /\ x.probed = worker[w].probed
        /\ x.started = worker[w].started
    BY <1>2 DEF WorkerRecord
  <2>3. WorkerPhase(x) /\ ~worker[w].probed /\ ~worker[w].started
    BY <1>1, <1>2, <2>2 DEF WorkerPhase
  <2>4. res[r] \in Reservation /\ res[r].probe \in Nat /\ res[r].scan \in Nat /\ res[r].spent \in Nat
        /\ calls[r] \in Nat
    BY <1>0, <1>2, ResFields
  <2>5. /\ res' \in [Run -> Reservation] /\ res'[r].probe = res[r].probe + 1
        /\ res'[r].scan = res[r].scan /\ res'[r].spent = res[r].spent
        /\ \A q \in Run : q # r => res'[q] = res[q]
    <3>1. [scan |-> res[r].scan, probe |-> res[r].probe + 1, spent |-> res[r].spent] \in Reservation
      BY <1>0, <1>2, <2>4, ResFields DEF Reservation
    <3> QED
      BY <1>0, <1>2, <1>4, <3>1
  <2>6. worker' = [worker EXCEPT ![w] = x]
    BY <1>4
  <2> HIDE DEF x
  <2>7. worker'[w] = x /\ \A v \in Worker : v # w => worker'[v] = worker[v]
    BY <1>0, <2>1, <2>3, <2>6, WorkerStepped
  <2>8. Cardinality(Reserving(worker', r)) <= res'[r].probe
    <3>1. worker[w].probe # "reserved"
      BY <1>1
    <3> QED
      BY <1>2, <2>5, <2>7, <3>1, ReservedGrows
  <2>9. r \notin lost /\ OwnsRun(run, res, calls, worker, w) =>
          /\ x.run = r => /\ res'[r].scan = 1 /\ x.probe # "settled"
                          /\ res'[r].probe = One(x.probe = "reserved")
                          /\ calls[r] <= res'[r].spent + One(x.probed) + One(x.started)
          /\ calls[r] <= res'[r].scan + res'[r].probe + res'[r].spent
    BY <1>1, <2>2, <2>3, <2>4, <2>5 DEF OwnsRun, One
  <2>10. /\ UNCHANGED <<now, sched, run, gaps, outbox, pass, disp, added, fetched, lost>>
         /\ waiting' \subseteq added /\ calls' = calls
    BY <1>0, <1>1 DEF queueVars, history
  <2> HIDE DEF r
  <2>11. r = worker[w].run
    BY DEF r
  <2>12. WorksOn(w, x, r)
    BY <1>0, <1>1, <1>3, <2>1, <2>2, <2>3, <2>5, <2>6, <2>8, <2>9, <2>10, <2>11 DEF WorksOn
  <2> QED
    BY <2>12, WorkOnly
<1>5. CASE worker' = [worker EXCEPT ![w] = [@ EXCEPT !.pc = "defer"]] /\ UNCHANGED res
  <2> DEFINE x == [worker[w] EXCEPT !.pc = "defer"]
  <2>1. x \in WorkerRecord
    BY <1>2 DEF WorkerRecord
  <2>2. /\ x.pc = "defer" /\ x.probe = worker[w].probe /\ x.run = r /\ x.probed = worker[w].probed
        /\ x.started = worker[w].started
    BY <1>2 DEF WorkerRecord
  <2>3. WorkerPhase(x)
    BY <1>1, <1>2, <2>2 DEF WorkerPhase
  <2>4. worker' = [worker EXCEPT ![w] = x]
    BY <1>5
  <2> HIDE DEF x
  <2> QED
    BY <1>0, <1>1, <1>3, <1>5, <2>1, <2>2, <2>3, <2>4, JobEndsKeeps DEF queueVars, history
<1> QED
  BY <1>4, <1>5 DEF Probe

\* The worker sends a call, its probe or the scan, or comes back without.
LEMMA WorkCalls ==
    ASSUME RunsIInv, NEW w \in Worker, worker[w].pc # "idle", NEW x \in WorkerRecord, WorkerPhase(x),
           worker' = [worker EXCEPT ![w] = x], x.run = worker[w].run, x.probe = worker[w].probe,
           NEW a \in 0..1, calls' \in [Run -> Nat], calls'[worker[w].run] = calls[worker[w].run] + a,
           \A q \in Run : q # worker[w].run => calls'[q] = calls[q],
           One(x.probed) + One(x.started) = One(worker[w].probed) + One(worker[w].started) + a,
           UNCHANGED <<now, sched, run, gaps, outbox, pass, disp, added, waiting, fetched, lost, res>>,
           faults' \in 0..MaxFaults
    PROVE  RunsIInv' /\ sched'.checkpoint >= sched.checkpoint
<1> DEFINE r == worker[w].run
<1>0. TypeOK /\ WorkerPhases /\ res \in [Run -> Reservation] /\ calls \in [Run -> Nat]
      /\ waiting \subseteq added
  BY Types DEF RunsIInv
<1>1. r \in Run /\ r # 0
  BY <1>0, WorkerFields
<1>2. worker'[w] = x /\ \A v \in Worker : v # w => worker'[v] = worker[v]
  BY <1>0, WorkerStepped
<1> HIDE DEF r
<1>3. worker[w].run = r
  BY DEF r
<1>4. Cardinality(Reserving(worker', r)) <= res[r].probe
  <2>1. worker'[w].probe = "reserved" => worker[w].probe = "reserved"
    BY <1>2
  <2> QED
    BY <1>1, <1>2, <1>3, <2>1, ReservedKept
<1>5. /\ calls' \in [Run -> Nat] /\ calls'[r] = calls[r] + a
      /\ \A q \in Run : q # r => calls'[q] = calls[q]
  BY <1>0, <1>1, <1>3
<1>6. /\ res[r].probe \in Nat /\ res[r].scan \in Nat /\ res[r].spent \in Nat /\ calls[r] \in Nat
  BY <1>0, <1>1, ResFields
<1>7. ASSUME r \notin lost, OwnsRun(run, res, calls, worker, w)
      PROVE  /\ res[r].scan = 1 /\ x.probe # "settled" /\ res[r].probe = One(x.probe = "reserved")
             /\ calls'[r] <= res[r].spent + One(x.probed) + One(x.started)
             /\ calls'[r] <= res[r].scan + res[r].probe + res[r].spent
  <2>1. /\ res[r].scan = 1 /\ x.probe # "settled" /\ res[r].probe = One(x.probe = "reserved")
        /\ calls[r] <= res[r].spent + One(worker[w].probed) + One(worker[w].started)
    BY <1>3, <1>7 DEF OwnsRun
  <2>2. /\ One(worker[w].probed) \in Nat /\ One(worker[w].started) \in Nat
        /\ One(x.probed) \in Nat /\ One(x.started) \in 0..1
    BY DEF One
  <2>3. calls'[r] <= res[r].spent + One(x.probed) + One(x.started)
    BY <1>5, <1>6, <2>1, <2>2
  <2>4. One(x.probed) <= res[r].probe
    <3>1. x.probe \in {"none", "reserved", "settled"} /\ (x.probed => x.probe # "none")
      BY DEF WorkerRecord, WorkerPhase
    <3> QED
      BY <2>1, <3>1 DEF One
  <2>5. calls'[r] <= res[r].scan + res[r].probe + res[r].spent
    BY <1>5, <1>6, <2>1, <2>2, <2>3, <2>4
  <2> QED
    BY <2>1, <2>3, <2>5
<1>8. r \notin lost /\ OwnsRun(run, res, calls, worker, w) =>
        /\ x.run = r => /\ res'[r].scan = 1 /\ x.probe # "settled"
                        /\ res'[r].probe = One(x.probe = "reserved")
                        /\ calls'[r] <= res'[r].spent + One(x.probed) + One(x.started)
        /\ calls'[r] <= res'[r].scan + res'[r].probe + res'[r].spent
  BY <1>7
<1>9. /\ waiting' \subseteq added /\ res' \in [Run -> Reservation] /\ r = worker[w].run /\ x.run \in {0, r}
      /\ UNCHANGED <<now, sched, run, gaps, outbox, pass, disp, added, fetched, lost>>
      /\ Cardinality(Reserving(worker', r)) <= res'[r].probe
  BY <1>0, <1>3, <1>4
<1>10. \A q \in Run : q # r => res'[q] = res[q] /\ calls'[q] = calls[q]
  BY <1>5
<1>11. WorksOn(w, x, r)
  BY <1>5, <1>8, <1>9, <1>10 DEF WorksOn
<1> QED
  BY <1>11, WorkOnly

LEMMA ProbeAnsweredKeeps ==
    ASSUME RunsIInv, NEW w \in Worker, ProbeAnswered(w)
    PROVE  RunsIInv' /\ sched'.checkpoint >= sched.checkpoint
<1>0. TypeOK /\ WorkerPhases /\ faults \in 0..MaxFaults /\ calls \in [Run -> Nat]
  BY Types DEF RunsIInv
<1>1. PICK started \in BOOLEAN, next \in {"running", "defer", "fail"} :
        /\ next # "defer" => started
        /\ worker' = [worker EXCEPT ![w] = [@ EXCEPT !.pc = next, !.probed = started]]
        /\ calls' = [calls EXCEPT ![worker[w].run] = IF started THEN @ + 1 ELSE @]
  BY DEF ProbeAnswered
<1>2. /\ worker[w].pc = "probing"
      /\ UNCHANGED <<now, dbVars, pass, disp, queueVars, fetched, lost, faults>>
  BY DEF ProbeAnswered
<1>3. /\ worker[w] \in WorkerRecord /\ WorkerPhase(worker[w]) /\ worker[w].run \in Run
      /\ calls[worker[w].run] \in Nat
  BY <1>0, <1>2, WorkerFields DEF WorkerPhases
<1> DEFINE x == [worker[w] EXCEPT !.pc = next, !.probed = started]
           a == IF started THEN 1 ELSE 0
<1>4. x \in WorkerRecord
  BY <1>3 DEF WorkerRecord
<1>5. /\ x.pc = next /\ x.probed = started /\ x.run = worker[w].run /\ x.probe = worker[w].probe
      /\ x.started = worker[w].started
  BY <1>3 DEF WorkerRecord
<1>6. ~worker[w].probed /\ ~worker[w].started /\ worker[w].probe # "none" /\ worker[w].run # 0
  BY <1>2, <1>3 DEF WorkerPhase
<1>7. worker' = [worker EXCEPT ![w] = x]
  BY <1>1
<1>8. /\ a \in 0..1 /\ calls' \in [Run -> Nat] /\ calls'[worker[w].run] = calls[worker[w].run] + a
      /\ \A q \in Run : q # worker[w].run => calls'[q] = calls[q]
  BY <1>0, <1>1, <1>3
<1> HIDE DEF x
<1>9. WorkerPhase(x)
  BY <1>1, <1>5, <1>6 DEF WorkerPhase
<1>10. One(x.probed) + One(x.started) = One(worker[w].probed) + One(worker[w].started) + a
  BY <1>1, <1>5, <1>6 DEF One
<1> HIDE DEF a
<1>11. UNCHANGED <<now, sched, run, gaps, outbox, pass, disp, added, waiting, fetched, lost, res>>
  BY <1>2 DEF dbVars, queueVars
<1> QED
  BY <1>0, <1>2, <1>4, <1>5, <1>7, <1>8, <1>9, <1>10, <1>11, WorkCalls

LEMMA ExecuteAnswersKeeps ==
    ASSUME RunsIInv, NEW w \in Worker, ExecuteAnswers(w)
    PROVE  RunsIInv' /\ sched'.checkpoint >= sched.checkpoint
<1>0. /\ TypeOK /\ WorkerPhases /\ faults \in 0..MaxFaults /\ calls \in [Run -> Nat]
      /\ run \in [Run -> RunRecord]
  BY Types DEF RunsIInv
<1>1. PICK result \in {"COMPLETED", "PARTIAL"}, mid \in Window(worker[w].run) :
        worker' = [worker EXCEPT ![w] = [@ EXCEPT !.pc = "persist", !.started = TRUE,
                                                  !.result = result, !.mid = mid]]
  BY DEF ExecuteAnswers
<1>2. /\ worker[w].pc = "running" /\ calls' = [calls EXCEPT ![worker[w].run] = @ + 1]
      /\ UNCHANGED <<now, dbVars, pass, disp, queueVars, fetched, lost, faults>>
  BY DEF ExecuteAnswers
<1>3. worker[w] \in WorkerRecord /\ WorkerPhase(worker[w]) /\ worker[w].run \in Run
  BY <1>0, <1>2, WorkerFields DEF WorkerPhases
<1>4. mid \in Instant
  BY <1>0, <1>3, RunFields, BoundsAssumption DEF Window, Instant
<1> DEFINE x == [worker[w] EXCEPT !.pc = "persist", !.started = TRUE, !.result = result, !.mid = mid]
<1>5. x \in WorkerRecord
  BY <1>3, <1>4 DEF WorkerRecord
<1>6. /\ x.pc = "persist" /\ x.probed = worker[w].probed /\ x.run = worker[w].run
      /\ x.probe = worker[w].probe /\ x.started = TRUE /\ x.result # "none"
  BY <1>3 DEF WorkerRecord
<1>7. worker' = [worker EXCEPT ![w] = x]
  BY <1>1
<1> HIDE DEF x
<1>8. ~worker[w].started /\ worker[w].run # 0 /\ WorkerPhase(x)
  BY <1>2, <1>3, <1>6 DEF WorkerPhase
<1>9. One(x.probed) + One(x.started) = One(worker[w].probed) + One(worker[w].started) + 1
  BY <1>6, <1>8 DEF One
<1>10. UNCHANGED <<now, sched, run, gaps, outbox, pass, disp, added, waiting, fetched, lost, res>>
  BY <1>2 DEF dbVars, queueVars
<1>11. faults' \in 0..MaxFaults /\ 1 \in 0..1
  BY <1>0, <1>2
<1>12. /\ calls' \in [Run -> Nat] /\ calls'[worker[w].run] = calls[worker[w].run] + 1
       /\ \A q \in Run : q # worker[w].run => calls'[q] = calls[q]
  BY <1>0, <1>2, <1>3
<1> QED
  BY <1>2, <1>5, <1>6, <1>7, <1>8, <1>9, <1>10, <1>11, <1>12, WorkCalls

LEMMA ExecuteFailsKeeps ==
    ASSUME RunsIInv, NEW w \in Worker, ExecuteFails(w)
    PROVE  RunsIInv' /\ sched'.checkpoint >= sched.checkpoint
<1>0. TypeOK /\ WorkerPhases /\ faults \in 0..MaxFaults /\ calls \in [Run -> Nat]
  BY Types DEF RunsIInv
<1>1. PICK started \in BOOLEAN, next \in {"defer", "fail"} :
        /\ next = "defer" => ~started
        /\ worker' = [worker EXCEPT ![w] = [@ EXCEPT !.pc = next, !.started = started]]
        /\ calls' = [calls EXCEPT ![worker[w].run] = IF started THEN @ + 1 ELSE @]
  BY DEF ExecuteFails
<1>2. /\ worker[w].pc = "running" /\ Fault
      /\ UNCHANGED <<now, dbVars, pass, disp, queueVars, fetched, lost>>
  BY DEF ExecuteFails
<1>3. /\ worker[w] \in WorkerRecord /\ WorkerPhase(worker[w]) /\ worker[w].run \in Run
      /\ calls[worker[w].run] \in Nat
  BY <1>0, <1>2, WorkerFields DEF WorkerPhases
<1> DEFINE x == [worker[w] EXCEPT !.pc = next, !.started = started]
           a == IF started THEN 1 ELSE 0
<1>4. x \in WorkerRecord
  BY <1>3 DEF WorkerRecord
<1>5. /\ x.pc = next /\ x.probed = worker[w].probed /\ x.run = worker[w].run
      /\ x.probe = worker[w].probe /\ x.started = started
  BY <1>3 DEF WorkerRecord
<1>6. ~worker[w].started /\ worker[w].run # 0
  BY <1>2, <1>3 DEF WorkerPhase
<1>7. worker' = [worker EXCEPT ![w] = x]
  BY <1>1
<1>8. /\ a \in 0..1 /\ calls' \in [Run -> Nat] /\ calls'[worker[w].run] = calls[worker[w].run] + a
      /\ \A q \in Run : q # worker[w].run => calls'[q] = calls[q]
  BY <1>0, <1>1, <1>3
<1> HIDE DEF x
<1>9. WorkerPhase(x)
  BY <1>1, <1>3, <1>5, <1>6 DEF WorkerPhase
<1>10. One(x.probed) + One(x.started) = One(worker[w].probed) + One(worker[w].started) + a
  BY <1>1, <1>5, <1>6 DEF One
<1> HIDE DEF a
<1>11. UNCHANGED <<now, sched, run, gaps, outbox, pass, disp, added, waiting, fetched, lost, res>>
  BY <1>2 DEF dbVars, queueVars
<1>12. faults' \in 0..MaxFaults /\ worker[w].pc # "idle"
  BY <1>0, <1>2, Faulty
<1> QED
  BY <1>4, <1>5, <1>7, <1>8, <1>9, <1>10, <1>11, <1>12, WorkCalls

\* A probe that was refused is taken back, and the run stays its worker's.
LEMMA ReleaseProbeKeeps ==
    ASSUME RunsIInv, NEW w \in Worker, ReleaseProbe(w)
    PROVE  RunsIInv' /\ sched'.checkpoint >= sched.checkpoint
<1> DEFINE r == worker[w].run
<1>0. /\ TypeOK /\ WorkerPhases /\ res \in [Run -> Reservation] /\ calls \in [Run -> Nat]
      /\ waiting \subseteq added /\ faults \in 0..MaxFaults
  BY Types DEF RunsIInv
<1>1. /\ worker[w].pc = "defer" /\ ~worker[w].probed
      /\ UNCHANGED <<now, sched, run, gaps, outbox, pass, disp, queueVars, history, faults>>
  BY DEF ReleaseProbe
<1>2. worker[w] \in WorkerRecord /\ WorkerPhase(worker[w]) /\ r \in Run /\ r # 0
  BY <1>0, <1>1, WorkerFields DEF WorkerPhases
<1>3. /\ UNCHANGED <<now, sched, run, gaps, outbox, pass, disp, added, fetched, lost, calls>>
      /\ waiting' \subseteq added /\ faults' \in 0..MaxFaults
  BY <1>0, <1>1 DEF queueVars, history
<1>4. CASE /\ worker[w].probe = "reserved"
           /\ res' = [res EXCEPT ![r] = [scan |-> @.scan, probe |-> @.probe - 1, spent |-> @.spent]]
           /\ worker' = [worker EXCEPT ![w] = [@ EXCEPT !.probe = "none"]]
  <2> DEFINE x == [worker[w] EXCEPT !.probe = "none"]
  <2>1. x \in WorkerRecord
    BY <1>2 DEF WorkerRecord
  <2>2. /\ x.pc = "defer" /\ x.probe = "none" /\ x.run = r /\ x.probed = worker[w].probed
        /\ x.started = worker[w].started
    BY <1>1, <1>2 DEF WorkerRecord
  <2>3. WorkerPhase(x)
    BY <1>1, <1>2, <2>2 DEF WorkerPhase
  <2>4. worker' = [worker EXCEPT ![w] = x]
    BY <1>4
  <2> HIDE DEF x
  <2>5. worker'[w] = x /\ \A v \in Worker : v # w => worker'[v] = worker[v]
    BY <1>0, <2>1, <2>3, <2>4, WorkerStepped
  <2> HIDE DEF r
  <2>6. worker[w].run = r
    BY DEF r
  <2>7. Cardinality(Reserving(worker', r)) <= res[r].probe - 1 /\ res[r].probe >= 1
    BY <1>2, <1>4, <2>2, <2>5, <2>6, ReservedShrinks
  <2>8. /\ res[r].probe \in Nat /\ res[r].scan \in 0..1 /\ res[r].spent \in Nat /\ calls[r] \in Nat
    BY <1>0, <1>2, ResFields
  <2>9. /\ res' \in [Run -> Reservation] /\ res'[r].probe = res[r].probe - 1
        /\ res'[r].scan = res[r].scan /\ res'[r].spent = res[r].spent
        /\ \A q \in Run : q # r => res'[q] = res[q]
    <3>1. [scan |-> res[r].scan, probe |-> res[r].probe - 1, spent |-> res[r].spent] \in Reservation
      BY <2>7, <2>8 DEF Reservation
    <3> QED
      BY <1>0, <1>2, <1>4, <2>6, <3>1
  <2>10. r \notin lost /\ OwnsRun(run, res, calls, worker, w) =>
          /\ x.run = r => /\ res'[r].scan = 1 /\ x.probe # "settled"
                          /\ res'[r].probe = One(x.probe = "reserved")
                          /\ calls[r] <= res'[r].spent + One(x.probed) + One(x.started)
          /\ calls[r] <= res'[r].scan + res'[r].probe + res'[r].spent
    <3>1. ~worker[w].started
      BY <1>1, <1>2 DEF WorkerPhase
    <3> QED
      BY <1>1, <1>4, <2>2, <2>6, <2>8, <2>9, <3>1 DEF OwnsRun, One
  <2>11. WorksOn(w, x, r)
    BY <1>0, <1>1, <1>3, <2>1, <2>2, <2>3, <2>4, <2>6, <2>7, <2>9, <2>10 DEF WorksOn
  <2> QED
    BY <2>11, WorkOnly
<1>5. CASE JobEnds(w, worker) /\ UNCHANGED res
  <2>1. worker' = [worker EXCEPT ![w] = Idle]
    BY <1>5 DEF JobEnds
  <2> QED
    BY <1>1, <1>3, <1>5, <2>1, IdleWorker, JobEndsKeeps
<1> QED
  BY <1>4, <1>5 DEF ReleaseProbe

\* The queue remembers the job a worker is at: a crash may hand it out again,
\* never add one.
JobsRemembered == \A w \in Worker : worker[w].pc # "idle" => <<worker[w].run, worker[w].id>> \in added

LEMMA WorkerCrashKeeps ==
    ASSUME RunsIInv, JobsRemembered, NEW w \in Worker, WorkerCrash(w)
    PROVE  RunsIInv' /\ sched'.checkpoint >= sched.checkpoint
<1>0. TypeOK /\ waiting \subseteq added
  BY Types DEF RunsIInv
<1>1. /\ worker[w].pc # "idle" /\ Fault /\ worker' = [worker EXCEPT ![w] = Idle]
      /\ waiting' \in {waiting, waiting \cup {<<worker[w].run, worker[w].id>>}}
      /\ UNCHANGED <<now, sched, run, gaps, outbox, pass, disp, added, fetched, lost, res, calls>>
  BY DEF WorkerCrash, JobEnds, dbVars, history
<1>2. waiting' \subseteq added
  BY <1>0, <1>1 DEF JobsRemembered
<1> QED
  BY <1>0, <1>1, <1>2, IdleWorker, Faulty, JobEndsKeeps

\* An idle worker is given a job: a pending run is its from now on.
LEMMA BeginKeeps ==
    ASSUME RunsIInv, NEW w \in Worker, NEW j \in waiting, Begin(w, j)
    PROVE  RunsIInv' /\ sched'.checkpoint >= sched.checkpoint
<1> DEFINE r == j[1]
<1>0. /\ TypeOK /\ Engaged /\ WorkerPhases /\ now \in Instant /\ sched \in SchedRecord
      /\ run \in [Run -> RunRecord] /\ worker \in [Worker -> WorkerRecord]
      /\ waiting \subseteq added /\ added \subseteq Run \X Nat /\ res \in [Run -> Reservation]
      /\ Budget(run, res, calls, lost, worker)
  BY Types DEF RunsIInv
<1>1. /\ worker[w].pc = "idle" /\ waiting' = waiting \ {j}
      /\ UNCHANGED <<now, sched, res, gaps, outbox, pass, disp, added, history, faults>>
  BY DEF Begin
<1>2. r \in Run /\ j[2] \in Nat
  BY <1>0
<1>3. Engaged' /\ waiting' \subseteq added'
  BY <1>0, <1>1 DEF Engaged
<1>4. CASE /\ run[r].status = "PENDING"
           /\ run' = [run EXCEPT ![r] = [@ EXCEPT !.status = "RUNNING"]]
           /\ worker' = [worker EXCEPT ![w] = [Idle EXCEPT !.pc = "running", !.run = r, !.id = j[2]]]
  <2> DEFINE x == [Idle EXCEPT !.pc = "running", !.run = r, !.id = j[2]]
  <2>1. x \in WorkerRecord
    <3>1. r \in 0..MaxRuns
      BY <1>2, BoundsAssumption DEF Run
    <3> QED
      BY <1>2, <3>1, IdleWorker DEF WorkerRecord
  <2>2. /\ x.pc = "running" /\ x.run = r /\ x.probe = "none" /\ ~x.probed /\ ~x.started
    BY DEF Idle
  <2>3. WorkerPhase(x) /\ r # 0
    BY <1>2, <2>2 DEF WorkerPhase, Run
  <2>4. worker' = [worker EXCEPT ![w] = x]
    BY <1>4
  <2> HIDE DEF x
  <2>5. /\ worker' \in [Worker -> WorkerRecord] /\ WorkerPhases' /\ worker'[w] = x
        /\ \A v \in Worker : v # w => worker'[v] = worker[v]
    BY <1>0, <2>1, <2>3, <2>4, WorkerStepped
  <2> HIDE DEF r
  <2>6. /\ run' \in [Run -> RunRecord] /\ run'[r].kind = run[r].kind /\ run'[r].from = run[r].from
        /\ run'[r].to = run[r].to /\ run'[r].status = "RUNNING" /\ \A q \in Run : q # r => run'[q] = run[q]
    <3>1. [run[r] EXCEPT !.status = "RUNNING"] \in RunRecord /\ run[r] \in RunRecord
      BY <1>0, <1>2 DEF RunRecord, Active
    <3> QED
      BY <1>0, <1>2, <1>4, <3>1 DEF RunRecord
  <2>7. TypeOK'
    BY <1>0, <1>1, <1>3, <2>5, <2>6, Types, NextTypes, Zenon DEF history
  <2>8. Timeline(sched, run', fetched, gaps, now)
    <3>1. \A q \in Run : Alike(run[q], run'[q])
      BY <1>4, <2>6 DEF Alike, Active
    <3>2. now <= now
      BY <1>0, BoundsAssumption DEF Instant
    <3> QED
      BY <1>0, <2>6, <3>1, <3>2, TimelineStays DEF RunsIInv
  <2>9. worker[w].run = 0
    BY <1>0, <1>1 DEF WorkerPhases, WorkerPhase
  <2>10. run[r].kind # "none"
    BY <1>2, <1>4 DEF RunsIInv, Timeline, KindsInOrder
  <2>11. Cardinality(Reserving(worker', r)) <= res[r].probe
    BY <1>2, <2>2, <2>5, ReservedKept
  <2>12. ASSUME r \notin lost
         PROVE  /\ \A v \in Worker : v # w => worker[v].run # r
                /\ res[r].scan = 1 /\ res[r].probe = 0 /\ calls[r] <= res[r].spent
                /\ calls[r] <= res[r].scan + res[r].probe + res[r].spent
    <3>1. res[r].scan = 1 /\ res[r].probe = 0 /\ calls[r] <= res[r].spent
      BY <1>0, <1>2, <1>4, <2>12 DEF Budget, Owned
    <3>2. \A v \in Worker : worker[v].run # r
      BY <1>0, <1>2, <1>4, <2>12 DEF Budget, Owned, OwnsRun
    <3>3. calls[r] <= res[r].scan + res[r].probe + res[r].spent
      BY <1>0, <1>2, <2>12 DEF Budget, Paid
    <3> QED
      BY <3>1, <3>2, <3>3
  <2>13. r \notin lost => calls[r] <= res[r].spent + One(x.probed) + One(x.started)
    BY <1>0, <1>2, <2>2, <2>12, ResFields DEF One
  <2>14. One(x.probe = "reserved") = 0
    BY <2>2 DEF One
  <2>15. run'[r].status \notin Terminal /\ run'[r].status # "PENDING"
    BY <2>6 DEF Terminal
  <2>16. GoesOn(run, run', res, res, calls, calls, lost, worker, worker', r, w)
    BY <1>0, <1>2, <2>2, <2>5, <2>6, <2>9, <2>10, <2>11, <2>12, <2>13, <2>14, <2>15 DEF GoesOn
  <2>17. Budget(run', res, calls, lost, worker')
    BY <1>0, <2>16, BudgetOfRun
  <2>18. sched'.checkpoint >= sched.checkpoint
    BY <1>0, <1>1, SchedFields
  <2> QED
    BY <1>1, <1>3, <2>5, <2>7, <2>8, <2>17, <2>18 DEF RunsIInv, history
<1>5. CASE UNCHANGED <<run, worker>>
  <2>1. TypeOK'
    BY <1>0, <1>1, <1>3, <1>5, Types, NextTypes, Zenon DEF history
  <2> QED
    BY <1>1, <1>3, <1>5, <2>1, QuietStep DEF history
<1> QED
  BY <1>4, <1>5 DEF Begin

-----------------------------------------------------------------------------
(* The ways a worker's run ends. *)

\* The worker w has ended the run r, whose reservations are gone; k of its
\* calls are charged now.
EndsByWorker(w, r, rt, d, k) ==
    /\ w \in Worker /\ worker[w].pc # "idle" /\ r = worker[w].run
    /\ rt \in [Run -> RunRecord] /\ rt[r].kind = run[r].kind /\ rt[r].status \in Terminal
    /\ \A q \in Run : q # r => rt[q] = run[q]
    /\ k \in Nat /\ d = [res EXCEPT ![r] = [scan |-> 0, probe |-> 0, spent |-> k]]
    /\ r \notin lost => calls[r] <= k
    /\ JobEnds(w, Settled(r))

LEMMA WorkerEndsRun ==
    ASSUME RunsIInv, NEW w, NEW r, NEW rt, NEW d, NEW k, EndsByWorker(w, r, rt, d, k)
    PROVE  /\ d \in [Run -> Reservation] /\ worker' \in [Worker -> WorkerRecord] /\ WorkerPhases'
           /\ Budget(rt, d, calls, lost, worker')
<1> USE DEF EndsByWorker
<1>0. /\ TypeOK /\ WorkerPhases /\ worker \in [Worker -> WorkerRecord] /\ res \in [Run -> Reservation]
      /\ Budget(run, res, calls, lost, worker)
  BY Types DEF RunsIInv
<1>1. r \in Run /\ r # 0
  BY <1>0, WorkerFields
<1>2. /\ d \in [Run -> Reservation] /\ d[r].scan = 0 /\ d[r].probe = 0 /\ d[r].spent = k
      /\ \A q \in Run : q # r => d[q] = res[q]
  BY <1>0, <1>1, SettledBudget
<1>3. /\ Settled(r) \in [Worker -> WorkerRecord] /\ \A v \in Worker : WorkerPhase(Settled(r)[v])
      /\ \A v \in Worker : /\ worker[v].run # r => Settled(r)[v] = worker[v]
                           /\ worker[v].run = r => /\ Settled(r)[v].run = r
                                                  /\ Settled(r)[v].probe # "reserved"
  BY <1>0, <1>1, SettledWorkers
<1>4. worker' = [Settled(r) EXCEPT ![w] = Idle]
  BY DEF JobEnds
<1>5. /\ worker' \in [Worker -> WorkerRecord] /\ worker'[w] = Idle
      /\ \A v \in Worker : v # w => worker'[v] = Settled(r)[v]
  BY <1>3, <1>4, IdleWorker
<1>6. WorkerPhases'
  BY <1>3, <1>5, IdleWorker DEF WorkerPhases
<1>7. run[r].kind # "none"
  BY <1>0, <1>1 DEF Budget, UnusedBlank
<1>8. \A v \in Worker : /\ worker[v].run # r => worker'[v] = worker[v]
                        /\ worker[v].run = r => worker'[v].run \in {0, r} /\ worker'[v].probe # "reserved"
  BY <1>3, <1>5, IdleWorker
<1>9. ASSUME r \notin lost PROVE calls[r] <= d[r].spent /\ \A v \in Worker : worker'[v].run # r
  <2>1. \A v \in Worker : worker[v].run = r => v = w
    BY <1>0, <1>1, <1>9 DEF Budget, Owned, OwnsRun
  <2>2. \A v \in Worker : worker'[v].run # r
    BY <1>1, <1>3, <1>5, <2>1, IdleWorker
  <2> QED
    BY <1>2, <1>9, <2>2
<1>10. \A q \in Run : q # r => rt[q] = run[q] /\ d[q] = res[q]
  BY <1>2
<1>11. EndsRun(run, rt, res, d, calls, lost, lost, worker, worker', r)
  BY <1>0, <1>1, <1>2, <1>5, <1>7, <1>8, <1>9, <1>10 DEF EndsRun
<1>12. Budget(rt, d, calls, lost, worker')
  BY <1>0, <1>11, BudgetEnds
<1> QED
  BY <1>2, <1>5, <1>6, <1>12

\* A worker's run that was never taken away: what it has sent is reserved, or
\* was charged before.
LEMMA WorkerOwns ==
    ASSUME RunsIInv, NEW w \in Worker, worker[w].pc # "idle", NEW r, r = worker[w].run, r \notin lost
    PROVE  /\ run[r].status = "RUNNING" /\ res[r].scan = 1 /\ worker[w].probe # "settled"
           /\ res[r].probe = One(worker[w].probe = "reserved")
           /\ calls[r] <= res[r].spent + One(worker[w].probed) + One(worker[w].started)
           /\ calls[r] <= res[r].scan + res[r].probe + res[r].spent
<1>0. TypeOK /\ WorkerPhases /\ Budget(run, res, calls, lost, worker)
  BY DEF RunsIInv
<1>1. r \in Run
  BY <1>0, WorkerFields
<1>2. OwnsRun(run, res, calls, worker, w)
  BY <1>0, <1>1 DEF Budget, Owned
<1>3. calls[r] <= res[r].scan + res[r].probe + res[r].spent
  BY <1>0, <1>1 DEF Budget, Paid
<1> QED
  BY <1>2, <1>3 DEF OwnsRun

\* The worker fails its run and pays for what it has sent.
LEMMA FailKeeps ==
    ASSUME RunsIInv, NEW w \in Worker, Fail(w)
    PROVE  RunsIInv' /\ sched'.checkpoint >= sched.checkpoint
<1> DEFINE r == worker[w].run
<1>0. /\ TypeOK /\ Engaged /\ WorkerPhases /\ waiting \subseteq added /\ faults \in 0..MaxFaults
  BY Types DEF RunsIInv
<1>1. /\ worker[w].pc = "fail"
      /\ UNCHANGED <<now, outbox, pass, disp, queueVars, history, faults>>
  BY DEF Fail
<1>2. /\ worker[w] \in WorkerRecord /\ WorkerPhase(worker[w]) /\ r \in Run /\ r # 0
      /\ worker[w].pc # "idle"
  BY <1>0, <1>1, WorkerFields DEF WorkerPhases
<1>3. CASE run[r].status \in Active /\ Billable(w)
  <2>1. FailRun(r, Owed(w)) /\ JobEnds(w, Settled(r))
    BY <1>3 DEF Fail
  <2>2. /\ sched' \in SchedRecord /\ run' \in [Run -> RunRecord] /\ gaps' \subseteq Instant
        /\ run' = Ended(r, FailStatus(r)) /\ res' = Owed(w)
        /\ Timeline(sched', run', fetched, gaps', now)
        /\ sched'.checkpoint >= sched.checkpoint
    BY <1>2, <1>3, <2>1, FailRunKeeps
  <2>3. FailStatus(r) \in Terminal
    BY DEF FailStatus, Terminal
  <2>4. /\ run'[r].kind = run[r].kind /\ run'[r].status \in Terminal
        /\ \A q \in Run : q # r => run'[q] = run[q]
    BY <1>0, <1>2, <2>2, <2>3, EndedRun
  <2> HIDE DEF r
  <2>5. r = worker[w].run
    BY DEF r
  <2>6. /\ res \in [Run -> Reservation] /\ res[r].scan \in Nat /\ res[r].probe \in Nat
        /\ res[r].spent \in Nat /\ calls[r] \in Nat
    BY <1>0, <1>2, ResFields
  <2>7. PICK k \in Nat :
          /\ res' = [res EXCEPT ![r] = [scan |-> 0, probe |-> 0, spent |-> k]]
          /\ r \notin lost => calls[r] <= k
    <3>1. CASE ProbeOnly(w)
      <4>1. res' = [res EXCEPT ![r] = [scan |-> 0, probe |-> 0, spent |-> res[r].spent + 1]]
        BY <2>2, <2>5, <3>1 DEF Owed, OnlyProbeCommitted
      <4>2. r \notin lost => calls[r] <= res[r].spent + 1
        BY <1>2, <2>5, <2>6, <3>1, WorkerOwns DEF ProbeOnly, One
      <4>3. res[r].spent + 1 \in Nat
        BY <2>6
      <4> QED
        BY <4>1, <4>2, <4>3, Zenon
    <3>2. CASE ~ProbeOnly(w) /\ worker[w].started
      <4>1. res' = [res EXCEPT ![r] = [scan |-> 0, probe |-> 0,
                                      spent |-> res[r].spent + res[r].scan + res[r].probe]]
        BY <2>2, <2>5, <3>2 DEF Owed, Committed
      <4>2. r \notin lost => calls[r] <= res[r].spent + res[r].scan + res[r].probe
        BY <1>2, <2>5, <2>6, WorkerOwns
      <4>3. res[r].spent + res[r].scan + res[r].probe \in Nat
        BY <2>6
      <4> QED
        BY <4>1, <4>2, <4>3, Zenon
    <3>3. CASE ~ProbeOnly(w) /\ ~worker[w].started
      <4>1. res' = [res EXCEPT ![r] = [scan |-> 0, probe |-> 0, spent |-> res[r].spent]]
        BY <2>2, <2>5, <3>3 DEF Owed, Released
      <4>2. r \notin lost => calls[r] <= res[r].spent
        BY <1>2, <2>5, <2>6, <3>3, WorkerOwns DEF ProbeOnly, One
      <4>3. res[r].spent \in Nat
        BY <2>6
      <4> QED
        BY <4>1, <4>2, <4>3, Zenon
    <3> QED
      BY <3>1, <3>2, <3>3
  <2>8. EndsByWorker(w, r, run', res', k)
    BY <1>2, <2>1, <2>2, <2>4, <2>5, <2>7 DEF EndsByWorker
  <2>9. /\ res' \in [Run -> Reservation] /\ worker' \in [Worker -> WorkerRecord] /\ WorkerPhases'
        /\ Budget(run', res', calls, lost, worker')
    BY <2>8, WorkerEndsRun
  <2>10. TypeOK'
    BY <1>0, <1>1, <2>2, <2>9, Types, NextTypes, Zenon DEF queueVars, history
  <2>11. Engaged'
    BY <1>0, <1>1 DEF Engaged
  <2> QED
    BY <1>1, <2>2, <2>9, <2>10, <2>11 DEF RunsIInv, history
<1>4. CASE JobEnds(w, worker) /\ UNCHANGED <<sched, run, res, gaps>>
  <2>1. worker' = [worker EXCEPT ![w] = Idle]
    BY <1>4 DEF JobEnds
  <2> QED
    BY <1>0, <1>1, <1>2, <1>4, <2>1, IdleWorker, JobEndsKeeps DEF queueVars, history
<1> QED
  BY <1>3, <1>4 DEF Fail

\* Without capacity a recurring run ends and a follow-up waits again, the
\* probe that was sent being charged.
LEMMA DeferKeeps ==
    ASSUME RunsIInv, NEW w \in Worker, DeferForCapacity(w)
    PROVE  RunsIInv' /\ sched'.checkpoint >= sched.checkpoint
<1> DEFINE r == worker[w].run
<1>0. /\ TypeOK /\ Engaged /\ WorkerPhases /\ waiting \subseteq added /\ faults \in 0..MaxFaults
      /\ now \in Instant /\ sched \in SchedRecord /\ run \in [Run -> RunRecord]
      /\ outbox \in [Run -> OutboxRow] /\ Budget(run, res, calls, lost, worker)
  BY Types DEF RunsIInv
<1>1. /\ worker[w].pc = "defer" /\ (worker[w].probed \/ worker[w].probe = "none")
      /\ UNCHANGED <<now, gaps, pass, disp, queueVars, history, faults>>
  BY DEF DeferForCapacity
<1>2. /\ worker[w] \in WorkerRecord /\ WorkerPhase(worker[w]) /\ r \in Run /\ r # 0
      /\ worker[w].pc # "idle" /\ worker[w].probed \in BOOLEAN
  BY <1>0, <1>1, WorkerFields DEF WorkerPhases, WorkerRecord
<1>3. /\ res \in [Run -> Reservation] /\ res[r] \in Reservation /\ res[r].scan \in 0..1
      /\ res[r].probe \in Nat /\ res[r].spent \in Nat /\ calls[r] \in Nat
  BY <1>0, <1>2, ResFields
<1>4. ~worker[w].started /\ (worker[w].probed => worker[w].probe # "none")
  BY <1>1, <1>2 DEF WorkerPhase
<1>5. Engaged'
  BY <1>0, <1>1 DEF Engaged
<1> DEFINE c == IF worker[w].probed THEN 1 ELSE 0
<1>6. c \in 0..1 /\ c = One(worker[w].probed)
  BY DEF One
<1>7. ProbeCharged(w) = [res EXCEPT ![r] = [scan |-> res[r].scan, probe |-> res[r].probe - c,
                                           spent |-> res[r].spent + c]]
  <2>1. CASE worker[w].probed
    BY <2>1 DEF ProbeCharged, ProbeCommitted
  <2>2. CASE ~worker[w].probed
    <3>1. [scan |-> res[r].scan, probe |-> res[r].probe - 0, spent |-> res[r].spent + 0] = res[r]
      BY <1>3 DEF Reservation
    <3> QED
      BY <1>2, <1>3, <2>2, <3>1 DEF ProbeCharged
  <2> QED
    BY <2>1, <2>2
<1>8. r \notin lost => calls[r] <= res[r].spent + c
  <2> HIDE DEF r, c
  <2>1. r = worker[w].run
    BY DEF r
  <2> QED
    BY <1>2, <1>3, <1>4, <1>6, <2>1, WorkerOwns DEF One
<1> HIDE DEF r, c
<1>9. r = worker[w].run
  BY DEF r
<1>10. CASE /\ run[r].status \in Active /\ run[r].kind = "recurring"
            /\ run' = Ended(r, "BUDGET_DEFERRED")
            /\ res' = [ProbeCharged(w) EXCEPT ![r] = [scan |-> 0, probe |-> 0, spent |-> @.spent]]
            /\ sched' = [sched EXCEPT !.lease = 0, !.due = FALSE]
            /\ JobEnds(w, Settled(r)) /\ UNCHANGED outbox
  <2>1. /\ run' \in [Run -> RunRecord] /\ run'[r].kind = run[r].kind /\ run'[r].from = run[r].from
        /\ run'[r].to = run[r].to /\ run'[r].status = "BUDGET_DEFERRED" /\ run'[r].status \in Terminal
        /\ \A q \in Run : q # r => run'[q] = run[q]
    <3>1. "BUDGET_DEFERRED" \in Terminal
      BY DEF Terminal
    <3> QED
      BY <1>0, <1>2, <1>10, <3>1, EndedRun
  <2>2. /\ sched' \in SchedRecord /\ sched'.lease = 0 /\ sched'.streak = sched.streak
        /\ sched'.checkpoint = sched.checkpoint
    <3>1. 0 \in 0..MaxRuns
      BY BoundsAssumption
    <3>2. sched' = [sched EXCEPT !.lease = 0, !.due = FALSE] /\ sched \in SchedRecord
      BY <1>0, <1>10
    <3> QED
      BY <3>1, <3>2 DEF SchedRecord
  <2>3. res' = [res EXCEPT ![r] = [scan |-> 0, probe |-> 0, spent |-> res[r].spent + c]]
    <3>1. ProbeCharged(w)[r].spent = res[r].spent + c
      BY <1>2, <1>3, <1>7
    <3> QED
      BY <1>2, <1>3, <1>7, <1>10, <3>1
  <2>4. res[r].spent + c \in Nat
    BY <1>3, <1>6
  <2>5. EndsByWorker(w, r, run', res', res[r].spent + c)
    BY <1>2, <1>8, <1>9, <1>10, <2>1, <2>3, <2>4 DEF EndsByWorker
  <2>6. /\ res' \in [Run -> Reservation] /\ worker' \in [Worker -> WorkerRecord] /\ WorkerPhases'
        /\ Budget(run', res', calls, lost, worker')
    BY <2>5, WorkerEndsRun
  <2>7. Timeline(sched', run', fetched, gaps, now)
    <3>1. run[r].kind = "recurring" /\ run[r].status \in Active
      BY <1>10
    <3> QED
      BY <1>0, <1>2, <2>1, <2>2, <3>1, TimelineDefers DEF RunsIInv
  <2>8. TypeOK'
    BY <1>0, <1>1, <1>10, <2>1, <2>2, <2>6, Types, NextTypes, Zenon DEF queueVars, history
  <2>9. sched'.checkpoint >= sched.checkpoint
    BY <1>0, <2>2, SchedFields
  <2> QED
    BY <1>1, <1>5, <2>6, <2>7, <2>8, <2>9 DEF RunsIInv, history
<1>11. CASE /\ run[r].status \in Active /\ (worker[w].probed => worker[w].probe = "reserved")
            /\ run[r].kind = "followup"
            /\ run' = [run EXCEPT ![r] = [@ EXCEPT !.status = "PENDING", !.lease = "live"]]
            /\ res' = ProbeCharged(w) /\ outbox' = Reopened(r)
            /\ JobEnds(w, worker) /\ UNCHANGED sched
  <2>1. worker' = [worker EXCEPT ![w] = Idle]
    BY <1>11 DEF JobEnds
  <2>2. /\ worker' \in [Worker -> WorkerRecord] /\ WorkerPhases' /\ worker'[w] = Idle
        /\ \A v \in Worker : v # w => worker'[v] = worker[v]
    BY <1>0, <2>1, IdleWorker, WorkerStepped
  <2>3. worker'[w].run = 0 /\ worker'[w].probe = "none"
    BY <2>2, IdleWorker
  <2>4. outbox' \in [Run -> OutboxRow]
    <3>1. [open |-> TRUE, owned |-> FALSE, fresh |-> FALSE, id |-> outbox[r].id + 1] \in OutboxRow
      BY <1>0, <1>2 DEF OutboxRow
    <3> QED
      BY <1>0, <1>11, <3>1 DEF Reopened
  <2>5. /\ run' \in [Run -> RunRecord] /\ run'[r].kind = run[r].kind /\ run'[r].from = run[r].from
        /\ run'[r].to = run[r].to /\ run'[r].status = "PENDING" /\ \A q \in Run : q # r => run'[q] = run[q]
    <3>1. [run[r] EXCEPT !.status = "PENDING", !.lease = "live"] \in RunRecord /\ run[r] \in RunRecord
      BY <1>0, <1>2 DEF RunRecord, Active
    <3> QED
      BY <1>0, <1>2, <1>11, <3>1 DEF RunRecord
  <2>6. Timeline(sched, run', fetched, gaps, now)
    <3>1. \A q \in Run : Alike(run[q], run'[q])
      BY <1>11, <2>5 DEF Alike, Active
    <3>2. now <= now
      BY <1>0, BoundsAssumption DEF Instant
    <3> QED
      BY <1>0, <2>5, <3>1, <3>2, TimelineStays DEF RunsIInv
  <2>7. Cardinality(Reserving(worker', r)) <= res[r].probe - c /\ res[r].probe - c \in Nat
    <3>1. CASE worker[w].probed
      <4>1. worker[w].probe = "reserved" /\ c = 1
        BY <1>6, <1>11, <3>1 DEF One
      <4> QED
        BY <1>2, <1>3, <1>9, <2>2, <2>3, <4>1, ReservedShrinks
    <3>2. CASE ~worker[w].probed
      <4>1. c = 0
        BY <1>6, <3>2 DEF One
      <4>2. Cardinality(Reserving(worker', r)) <= res[r].probe
        BY <1>2, <2>2, <2>3, ReservedKept
      <4> QED
        BY <1>3, <4>1, <4>2
    <3> QED
      BY <3>1, <3>2
  <2>8. /\ res' \in [Run -> Reservation] /\ res'[r].probe = res[r].probe - c
        /\ res'[r].scan = res[r].scan /\ res'[r].spent = res[r].spent + c
        /\ \A q \in Run : q # r => res'[q] = res[q]
    <3>1. [scan |-> res[r].scan, probe |-> res[r].probe - c, spent |-> res[r].spent + c] \in Reservation
      BY <1>3, <1>6, <2>7 DEF Reservation
    <3> QED
      BY <1>2, <1>3, <1>7, <1>11, <3>1
  <2>9. TypeOK'
    BY <1>0, <1>1, <1>11, <2>2, <2>4, <2>5, <2>8, Types, NextTypes, Zenon DEF queueVars, history
  <2>10. ASSUME r \notin lost
         PROVE  /\ \A v \in Worker : v # w => worker[v].run # r
                /\ res'[r].scan = 1 /\ res'[r].probe = 0 /\ calls[r] <= res'[r].spent
                /\ calls[r] <= res'[r].scan + res'[r].probe + res'[r].spent
    <3>1. \A v \in Worker : v # w => worker[v].run # r
      BY <1>0, <1>2, <1>9, <2>10 DEF Budget, Owned, OwnsRun
    <3>2. res[r].scan = 1 /\ res[r].probe = One(worker[w].probe = "reserved")
      BY <1>2, <1>9, <2>10, WorkerOwns
    <3>3. One(worker[w].probe = "reserved") = c
      BY <1>1, <1>6, <1>11 DEF One
    <3>4. res'[r].scan = 1 /\ res'[r].probe = 0 /\ calls[r] <= res'[r].spent
      BY <1>3, <1>6, <1>8, <2>8, <2>10, <3>2, <3>3
    <3> QED
      BY <1>3, <1>6, <2>8, <3>1, <3>4
  <2>11. run[r].kind # "none" /\ run'[r].status \notin Terminal
    BY <1>11, <2>5 DEF Terminal
  <2>12. GoesOn(run, run', res, res', calls, calls, lost, worker, worker', r, w)
    <3>1. worker \in [Worker -> WorkerRecord]
      BY <1>0, Types
    <3>2. \A q \in Run : q # r => run'[q] = run[q] /\ res'[q] = res[q] /\ calls[q] = calls[q]
      BY <2>5, <2>8
    <3> QED
      BY <1>2, <1>3, <1>9, <2>2, <2>3, <2>5, <2>7, <2>8, <2>10, <2>11, <3>1, <3>2 DEF GoesOn
  <2>13. Budget(run', res', calls, lost, worker')
    BY <1>0, <2>12, BudgetOfRun
  <2>14. sched'.checkpoint >= sched.checkpoint
    BY <1>0, <1>11, SchedFields
  <2> QED
    BY <1>1, <1>5, <1>11, <2>2, <2>6, <2>9, <2>13, <2>14 DEF RunsIInv, history
<1>12. CASE JobEnds(w, worker) /\ UNCHANGED <<sched, run, res, outbox>>
  <2>1. worker' = [worker EXCEPT ![w] = Idle]
    BY <1>12 DEF JobEnds
  <2> QED
    BY <1>0, <1>1, <1>2, <1>12, <2>1, IdleWorker, JobEndsKeeps DEF queueVars, history
<1> QED
  BY <1>9, <1>10, <1>11, <1>12, Zenon DEF DeferForCapacity

-----------------------------------------------------------------------------
(* A result is stored. *)

\* The budget half of a stored result: every reserved call is charged.
LEMMA ResultCharged ==
    ASSUME RunsIInv, NEW w \in Worker, worker[w].pc # "idle", NEW r, r = worker[w].run,
           JobEnds(w, Settled(r)), NEW st \in Terminal
    PROVE  /\ Committed(r) \in [Run -> Reservation] /\ worker' \in [Worker -> WorkerRecord]
           /\ WorkerPhases' /\ Budget(Ended(r, st), Committed(r), calls, lost, worker')
<1>0. TypeOK /\ WorkerPhases
  BY DEF RunsIInv
<1>1. r \in Run
  BY <1>0, WorkerFields
<1>2. /\ res[r].scan \in Nat /\ res[r].probe \in Nat /\ res[r].spent \in Nat /\ calls[r] \in Nat
  BY <1>0, <1>1, ResFields
<1> DEFINE k == res[r].spent + res[r].scan + res[r].probe
           rt == Ended(r, st)
           d == Committed(r)
<1>3. k \in Nat
  BY <1>2
<1>4. r \notin lost => calls[r] <= k
  BY <1>2, WorkerOwns
<1>5. d = [res EXCEPT ![r] = [scan |-> 0, probe |-> 0, spent |-> k]]
  BY DEF Committed
<1>6. /\ rt \in [Run -> RunRecord] /\ rt[r].kind = run[r].kind /\ rt[r].status \in Terminal
      /\ \A q \in Run : q # r => rt[q] = run[q]
  BY <1>0, <1>1, EndedRun
<1> HIDE DEF k, rt, d
<1>7. EndsByWorker(w, r, rt, d, k)
  BY <1>3, <1>4, <1>5, <1>6 DEF EndsByWorker
<1>8. /\ d \in [Run -> Reservation] /\ worker' \in [Worker -> WorkerRecord] /\ WorkerPhases'
      /\ Budget(rt, d, calls, lost, worker')
  BY <1>7, WorkerEndsRun
<1> QED
  BY <1>8 DEF rt, d

\* What is fetched by a recurring run's result when the checkpoint passes its
\* window: everything, or everything but what a follow-up is planned for.
LEMMA RecurringResult ==
    ASSUME TypeOK, NEW r \in Run, NEW result \in {"COMPLETED", "PARTIAL"}, NEW mid \in Instant,
           PersistRecurring(r, result, mid)
    PROVE  /\ sched' \in SchedRecord /\ sched'.lease = 0 /\ sched'.streak = 0
           /\ sched'.checkpoint \in {sched.checkpoint, run[r].to}
           /\ fetched \subseteq fetched' /\ fetched' \subseteq Instant
           /\ sched'.checkpoint # sched.checkpoint =>
                \A t \in run[r].from..run[r].to :
                    t \in fetched' \/ (Capped(r, mid) /\ t \in run[r].from..mid)
<1>0. /\ sched \in SchedRecord /\ run \in [Run -> RunRecord] /\ fetched \subseteq Instant
  BY Types
<1>1. /\ run[r].from \in Instant /\ run[r].to \in Instant /\ run[r].from \in Nat /\ run[r].to \in Nat
      /\ sched.checkpoint \in Instant /\ mid \in Nat
  BY <1>0, RunFields, SchedFields, BoundsAssumption DEF Instant
<1> DEFINE c == IF result = "PARTIAL" THEN sched.checkpoint ELSE run[r].to
           f == CASE result = "PARTIAL" -> {}
                  [] result = "COMPLETED" /\ Capped(r, mid) -> mid + 1..run[r].to
                  [] OTHER -> Window(r)
<1>2. sched' = [lease |-> 0, due |-> FALSE, streak |-> 0, checkpoint |-> c] /\ fetched' = fetched \cup f
  BY DEF PersistRecurring
<1>3. c \in Instant /\ c \in {sched.checkpoint, run[r].to}
  BY <1>1
<1>4. /\ result = "PARTIAL" => f = {}
      /\ result = "COMPLETED" /\ Capped(r, mid) => f = mid + 1..run[r].to
      /\ result = "COMPLETED" /\ ~Capped(r, mid) => f = run[r].from..run[r].to
  BY DEF Window
<1>5. f \subseteq Instant
  <2>1. mid + 1..run[r].to \subseteq Instant /\ run[r].from..run[r].to \subseteq Instant
    BY <1>1, BoundsAssumption DEF Instant
  <2> QED
    BY <1>4, <2>1
<1>6. result # "PARTIAL" => \A t \in run[r].from..run[r].to :
                               t \in f \/ (Capped(r, mid) /\ t \in run[r].from..mid)
  BY <1>1, <1>4 DEF Capped
<1>7. result = "PARTIAL" => c = sched.checkpoint
  OBVIOUS
<1> HIDE DEF c, f
<1>8. sched' \in SchedRecord /\ sched'.lease = 0 /\ sched'.streak = 0 /\ sched'.checkpoint = c
  <2>1. 0 \in 0..MaxRuns
    BY BoundsAssumption
  <2> QED
    BY <1>2, <1>3, <2>1 DEF SchedRecord
<1> QED
  BY <1>0, <1>2, <1>3, <1>5, <1>6, <1>7, <1>8

\* A recurring run's result, with or without a follow-up: n is the number of
\* the follow-up, if there is one.
LEMMA PersistRecurringKeeps ==
    ASSUME RunsIInv, NEW w \in Worker, worker[w].pc # "idle", NEW r, r = worker[w].run, MayPersist(r),
           run[r].kind = "recurring", NEW result \in {"COMPLETED", "PARTIAL"}, NEW mid \in Instant,
           PersistRecurring(r, result, mid), JobEnds(w, Settled(r))
    PROVE  /\ run' \in [Run -> RunRecord] /\ res' \in [Run -> Reservation] /\ gaps' \subseteq Instant
           /\ outbox' \in [Run -> OutboxRow]
           /\ Timeline(sched', run', fetched', gaps', now)
           /\ Budget(run', res', calls, lost, worker') /\ sched'.checkpoint >= sched.checkpoint
<1>0. /\ TypeOK /\ WorkerPhases /\ now \in Instant /\ sched \in SchedRecord /\ run \in [Run -> RunRecord]
      /\ gaps \subseteq Instant /\ outbox \in [Run -> OutboxRow]
      /\ Timeline(sched, run, fetched, gaps, now)
  BY Types DEF RunsIInv
<1>1. r \in Run /\ run[r].status \in Active
  BY <1>0, WorkerFields DEF MayPersist, Active
<1>2. /\ sched' \in SchedRecord /\ sched'.lease = 0 /\ sched'.streak = 0
      /\ sched'.checkpoint \in {sched.checkpoint, run[r].to}
      /\ fetched \subseteq fetched' /\ fetched' \subseteq Instant
      /\ sched'.checkpoint # sched.checkpoint =>
           \A t \in run[r].from..run[r].to : t \in fetched' \/ (Capped(r, mid) /\ t \in run[r].from..mid)
  BY <1>0, <1>1, RecurringResult
<1> DEFINE st == IF Capped(r, mid) /\ result = "COMPLETED" THEN "SATURATED" ELSE result
           rs == Ended(r, st)
           b == Committed(r)
<1>3. st \in {"COMPLETED", "PARTIAL", "SATURATED"} /\ st \in Terminal
  BY DEF Terminal
<1> HIDE DEF st
<1>4. /\ rs \in [Run -> RunRecord] /\ rs[r].kind = run[r].kind /\ rs[r].from = run[r].from
      /\ rs[r].to = run[r].to /\ rs[r].status = st /\ \A q \in Run : q # r => rs[q] = run[q]
  BY <1>0, <1>1, <1>3, EndedRun
<1>5. /\ b \in [Run -> Reservation] /\ worker' \in [Worker -> WorkerRecord]
      /\ Budget(rs, b, calls, lost, worker')
  BY <1>3, ResultCharged
<1>6. \/ /\ ~Capped(r, mid) \/ Exists(run[r].from, mid)
         /\ run' = rs /\ res' = b /\ UNCHANGED <<gaps, outbox>>
      \/ /\ Unused # {} /\ Capped(r, mid)
         /\ PlanFollowup(r, mid, rs, b)
  BY DEF PersistRecurring, st
<1> HIDE DEF rs, b
<1>7. CASE /\ ~Capped(r, mid) \/ Exists(run[r].from, mid)
           /\ run' = rs /\ res' = b /\ UNCHANGED <<gaps, outbox>>
  <2>1. sched'.checkpoint # sched.checkpoint =>
          \A t \in run[r].from..run[r].to :
              \/ t \in fetched' \cup gaps
              \/ \E c \in Run : run[c].kind = "followup" /\ t \in run[c].from..run[c].to
    <3>1. Capped(r, mid) =>
            \E c \in Run : run[c].kind = "followup" /\ run[c].from = run[r].from /\ run[c].to = mid
      BY <1>7 DEF Exists
    <3> QED
      BY <1>2, <3>1
  <2>2. rs[r].status \in {"COMPLETED", "PARTIAL", "SATURATED"}
    BY <1>3, <1>4
  <2>3. Timeline(sched', rs, fetched', gaps, now) /\ sched'.checkpoint >= sched.checkpoint
    <3>1. StoresResult(sched, sched', run, rs, fetched, fetched', gaps, r)
      BY <1>1, <1>2, <1>4, <2>1, <2>2 DEF StoresResult
    <3> QED
      BY <1>0, <1>1, <1>2, <1>4, <3>1, TimelinePersists
  <2> QED
    BY <1>0, <1>4, <1>5, <1>7, <2>3
<1>8. CASE Unused # {} /\ Capped(r, mid) /\ PlanFollowup(r, mid, rs, b)
  <2> DEFINE n == NextRun
  <2>1. n \in Run /\ run[n].kind = "none" /\ \A q \in Run : run[q].kind = "none" => n <= q
    BY <1>8, NextRunUnused
  <2>2. PICK ns \in {"PENDING", "BUDGET_DEFERRED"} :
          /\ run' = [rs EXCEPT ![n] = NewRun("followup", ns, run[r].from, mid)]
          /\ \/ /\ ns = "PENDING" /\ res' = [b EXCEPT ![n] = [@ EXCEPT !.scan = 1]]
                /\ outbox' = [outbox EXCEPT ![n] = [@ EXCEPT !.open = TRUE]] /\ gaps' = gaps
             \/ /\ ns = "BUDGET_DEFERRED" /\ res' = b /\ outbox' = outbox
                /\ gaps' = gaps \cup (run[r].from..mid)
    BY <1>8, Zenon DEF PlanFollowup
  <2> HIDE DEF n
  <2>3. n # r /\ rs[n].kind = "none"
    BY <1>4, <2>1
  <2>4. /\ run[r].from \in Instant /\ run[r].to \in Nat /\ run[r].from \in Nat /\ mid \in Nat /\ mid < run[r].to
    BY <1>0, <1>1, <1>8, RunFields, BoundsAssumption DEF Capped, Instant
  <2> DEFINE x == NewRun("followup", ns, run[r].from, mid)
             ri == [run EXCEPT ![n] = x]
  <2>5. /\ x \in RunRecord /\ x.kind = "followup" /\ x.status = ns
        /\ x.from = run[r].from /\ x.to = mid
    BY <2>4 DEF NewRun, RunRecord, Active, Terminal
  <2>6. run' = [rs EXCEPT ![n] = x]
    BY <2>2
  <2> HIDE DEF x
  <2>7. ri \in [Run -> RunRecord] /\ ri[n] = x /\ \A q \in Run : q # n => ri[q] = run[q]
    BY <1>0, <2>1, <2>5
  <2> HIDE DEF ri
  <2>8. run' \in [Run -> RunRecord] /\ run'[n] = x /\ \A q \in Run : q # n => run'[q] = rs[q]
    BY <1>4, <2>1, <2>5, <2>6
  <2>9. gaps \subseteq gaps' /\ gaps' \subseteq Instant /\ (ns = "PENDING" \/ run[r].from..mid \subseteq gaps')
    <3>1. run[r].from..mid \subseteq Instant
      BY <2>4, BoundsAssumption DEF Instant
    <3> QED
      BY <1>0, <2>2, <3>1
  <2>10. outbox' \in [Run -> OutboxRow]
    <3>1. [outbox[n] EXCEPT !.open = TRUE] \in OutboxRow
      BY <1>0, <2>1 DEF OutboxRow
    <3> QED
      BY <1>0, <2>1, <2>2, <3>1
  <2>11. Timeline(sched, ri, fetched, gaps', now)
    <3>1. ri[n].to <= now
      <4>1. run[r].to <= now
        BY <1>0, <1>1 DEF Timeline, WindowsSpan
      <4>2. now \in Nat
        BY <1>0, BoundsAssumption DEF Instant
      <4> QED
        BY <2>4, <2>5, <2>7, <4>1, <4>2
    <3>2. ri[n].kind = "followup" /\ ri[n].status \in {"PENDING", "BUDGET_DEFERRED"}
      BY <2>2, <2>5, <2>7
    <3>3. ri[n].status = "PENDING" \/ ri[n].from..ri[n].to \subseteq gaps'
      BY <2>5, <2>7, <2>9
    <3> QED
      BY <1>0, <2>1, <2>7, <2>9, <3>1, <3>2, <3>3, TimelineAdds
  <2>12. Timeline(sched', run', fetched', gaps', now) /\ sched'.checkpoint >= sched.checkpoint
    <3>1. ri[r] = run[r] /\ run'[r] = rs[r]
      BY <1>1, <2>3, <2>7, <2>8
    <3>2. \A q \in Run : q # r => run'[q] = ri[q]
      BY <1>4, <2>7, <2>8
    <3>3. ri[r].kind = "recurring" /\ ri[r].status \in Active
      BY <1>1, <3>1
    <3>4. /\ run'[r].kind = ri[r].kind /\ run'[r].from = ri[r].from /\ run'[r].to = ri[r].to
          /\ run'[r].status \in {"COMPLETED", "PARTIAL", "SATURATED"}
      BY <1>3, <1>4, <3>1
    <3>5. sched'.checkpoint \in {sched.checkpoint, ri[r].to}
      BY <1>2, <3>1
    <3>6. sched'.checkpoint # sched.checkpoint =>
            \A t \in ri[r].from..ri[r].to :
                \/ t \in fetched' \cup gaps'
                \/ \E c \in Run : ri[c].kind = "followup" /\ t \in ri[c].from..ri[c].to
      BY <1>2, <2>1, <2>5, <2>7, <3>1
    <3>7. StoresResult(sched, sched', ri, run', fetched, fetched', gaps', r)
      BY <1>2, <3>2, <3>3, <3>4, <3>5, <3>6 DEF StoresResult
    <3> QED
      BY <1>0, <1>1, <1>2, <2>7, <2>8, <2>11, <3>7, TimelinePersists
  <2>13. b[n].scan = 0 /\ b[n].probe = 0 /\ b[n].spent = 0
    BY <1>5, <2>1, <2>3 DEF Budget, UnusedBlank
  <2>14. /\ res' \in [Run -> Reservation] /\ \A q \in Run : q # n => res'[q] = b[q]
         /\ \/ ns = "PENDING" /\ res'[n].scan = 1 /\ res'[n].probe = 0 /\ res'[n].spent = 0
            \/ ns = "BUDGET_DEFERRED" /\ res'[n] = b[n]
    <3>1. CASE ns = "PENDING" /\ res' = [b EXCEPT ![n] = [@ EXCEPT !.scan = 1]]
      <4>1. b[n] \in Reservation
        BY <1>5, <2>1
      <4>2. /\ [b[n] EXCEPT !.scan = 1] \in Reservation /\ [b[n] EXCEPT !.scan = 1].scan = 1
            /\ [b[n] EXCEPT !.scan = 1].probe = 0 /\ [b[n] EXCEPT !.scan = 1].spent = 0
        BY <2>13, <4>1 DEF Reservation
      <4> QED
        BY <1>5, <2>1, <3>1, <4>2
    <3>2. CASE ns = "BUDGET_DEFERRED" /\ res' = b
      BY <1>5, <3>2
    <3> QED
      BY <2>2, <3>1, <3>2
  <2>15. Budget(run', res', calls, lost, worker')
    <3>1. \A q \in Run : q # n => run'[q] = rs[q] /\ res'[q] = b[q]
      BY <2>8, <2>14
    <3>2. run'[n].kind # "none"
      BY <2>5, <2>8
    <3>3. \/ run'[n].status = "PENDING" /\ res'[n].scan = 1 /\ res'[n].probe = 0 /\ res'[n].spent = 0
          \/ run'[n].status = "BUDGET_DEFERRED" /\ res'[n] = b[n]
      BY <2>5, <2>8, <2>14
    <3>4. AddsRun(rs, run', b, res', worker', n)
      BY <1>5, <2>1, <2>3, <2>14, <3>1, <3>2, <3>3 DEF AddsRun
    <3> QED
      BY <1>5, <3>4, BudgetAdds
  <2> QED
    BY <2>8, <2>9, <2>10, <2>12, <2>14, <2>15
<1> QED
  BY <1>6, <1>7, <1>8

\* A follow-up's result: what it leaves out again is a gap.
LEMMA PersistFollowupKeeps ==
    ASSUME RunsIInv, NEW w \in Worker, worker[w].pc # "idle", NEW r, r = worker[w].run,
           run[r].kind = "followup", NEW result \in {"COMPLETED", "PARTIAL"}, NEW mid \in Instant,
           PersistFollowup(r, result, mid), JobEnds(w, Settled(r))
    PROVE  /\ run' \in [Run -> RunRecord] /\ res' \in [Run -> Reservation]
           /\ gaps' \subseteq Instant /\ fetched' \subseteq Instant
           /\ Timeline(sched, run', fetched', gaps', now) /\ Budget(run', res', calls, lost, worker')
<1>0. /\ TypeOK /\ WorkerPhases /\ now \in Instant /\ sched \in SchedRecord /\ run \in [Run -> RunRecord]
      /\ gaps \subseteq Instant /\ fetched \subseteq Instant
      /\ Timeline(sched, run, fetched, gaps, now)
  BY Types DEF RunsIInv
<1>1. r \in Run
  BY <1>0, WorkerFields
<1> DEFINE st == IF Capped(r, mid) THEN "GAP" ELSE result
<1>2. /\ run' = Ended(r, st) /\ res' = Committed(r)
      /\ fetched' = fetched \cup (IF Capped(r, mid) THEN mid + 1..run[r].to ELSE run[r].from..run[r].to)
      /\ gaps' = IF Capped(r, mid) THEN gaps \cup (run[r].from..mid) ELSE gaps
  BY DEF PersistFollowup, Window
<1>3. st \in {"COMPLETED", "PARTIAL", "GAP"} /\ st \in Terminal
  BY DEF Terminal
<1> HIDE DEF st
<1>4. /\ run' \in [Run -> RunRecord] /\ run'[r].kind = run[r].kind /\ run'[r].from = run[r].from
      /\ run'[r].to = run[r].to /\ run'[r].status = st /\ \A q \in Run : q # r => run'[q] = run[q]
  BY <1>0, <1>1, <1>2, <1>3, EndedRun
<1>5. res' \in [Run -> Reservation] /\ Budget(run', res', calls, lost, worker')
  BY <1>2, <1>3, ResultCharged
<1>6. /\ run[r].from \in Nat /\ run[r].to \in Nat /\ run[r].to <= MaxNow /\ mid \in Nat /\ mid <= MaxNow
  BY <1>0, <1>1, RunFields, BoundsAssumption DEF Instant
<1>7. fetched \subseteq fetched' /\ fetched' \subseteq Instant /\ gaps \subseteq gaps' /\ gaps' \subseteq Instant
  BY <1>0, <1>2, <1>6, BoundsAssumption DEF Instant
<1>8. \A t \in run[r].from..run[r].to : t \in fetched' \cup gaps'
  BY <1>2, <1>6
<1>9. run'[r].status \in {"COMPLETED", "PARTIAL", "GAP"}
  BY <1>3, <1>4
<1>10. Timeline(sched, run', fetched', gaps', now)
  BY <1>0, <1>1, <1>4, <1>7, <1>8, <1>9, TimelineFollowupEnds
<1> QED
  BY <1>4, <1>5, <1>7, <1>10

\* The worker stores a result, or goes on to fail a run that is not its any
\* more.
LEMMA PersistKeeps ==
    ASSUME RunsIInv, NEW w \in Worker, Persist(w)
    PROVE  RunsIInv' /\ sched'.checkpoint >= sched.checkpoint
<1> DEFINE r == worker[w].run
           result == worker[w].result
           mid == worker[w].mid
<1>0. /\ TypeOK /\ Engaged /\ WorkerPhases /\ waiting \subseteq added /\ faults \in 0..MaxFaults
      /\ sched \in SchedRecord /\ worker \in [Worker -> WorkerRecord]
  BY Types DEF RunsIInv
<1>1. /\ worker[w].pc = "persist" /\ worker[w].pc # "idle"
      /\ UNCHANGED <<now, pass, disp, queueVars, calls, lost, faults>>
  BY DEF Persist
<1>2. /\ worker[w] \in WorkerRecord /\ WorkerPhase(worker[w]) /\ r \in Run /\ r # 0
  BY <1>0, <1>1, WorkerFields DEF WorkerPhases
<1>3. result \in {"COMPLETED", "PARTIAL"} /\ mid \in Instant
  BY <1>1, <1>2 DEF WorkerRecord, WorkerPhase
<1>4. Engaged'
  BY <1>0, <1>1 DEF Engaged
<1>5. \/ /\ MayPersist(r) /\ JobEnds(w, Settled(r))
         /\ \/ run[r].kind = "recurring" /\ PersistRecurring(r, result, mid)
            \/ run[r].kind = "followup" /\ PersistFollowup(r, result, mid)
      \/ worker' = [worker EXCEPT ![w] = [@ EXCEPT !.pc = "fail"]] /\ UNCHANGED <<dbVars, fetched>>
  BY DEF Persist
<1>6. CASE /\ MayPersist(r) /\ JobEnds(w, Settled(r))
           /\ run[r].kind = "recurring" /\ PersistRecurring(r, result, mid)
  <2> HIDE DEF r, result, mid
  <2>1. r = worker[w].run
    BY DEF r
  <2>2. /\ run' \in [Run -> RunRecord] /\ res' \in [Run -> Reservation] /\ gaps' \subseteq Instant
        /\ outbox' \in [Run -> OutboxRow] /\ Timeline(sched', run', fetched', gaps', now)
        /\ Budget(run', res', calls, lost, worker') /\ sched'.checkpoint >= sched.checkpoint
    BY <1>1, <1>3, <1>6, <2>1, PersistRecurringKeeps
  <2>3. sched' \in SchedRecord /\ fetched' \subseteq Instant
    BY <1>0, <1>2, <1>3, <1>6, RecurringResult
  <2>4. "COMPLETED" \in Terminal
    BY DEF Terminal
  <2>5. worker' \in [Worker -> WorkerRecord] /\ WorkerPhases'
    BY <1>1, <1>6, <2>1, <2>4, ResultCharged
  <2>6. TypeOK'
    BY <1>0, <1>1, <2>2, <2>3, <2>5, Types, NextTypes, Zenon DEF queueVars
  <2> QED
    BY <1>1, <1>4, <2>2, <2>5, <2>6 DEF RunsIInv
<1>7. CASE /\ JobEnds(w, Settled(r)) /\ run[r].kind = "followup" /\ PersistFollowup(r, result, mid)
  <2> HIDE DEF r, result, mid
  <2>1. r = worker[w].run
    BY DEF r
  <2>2. /\ run' \in [Run -> RunRecord] /\ res' \in [Run -> Reservation]
        /\ gaps' \subseteq Instant /\ fetched' \subseteq Instant
        /\ Timeline(sched, run', fetched', gaps', now) /\ Budget(run', res', calls, lost, worker')
    BY <1>1, <1>3, <1>7, <2>1, PersistFollowupKeeps
  <2>3. sched' = sched /\ outbox' = outbox
    BY <1>7 DEF PersistFollowup
  <2>4. "COMPLETED" \in Terminal
    BY DEF Terminal
  <2>5. worker' \in [Worker -> WorkerRecord] /\ WorkerPhases'
    BY <1>1, <1>7, <2>1, <2>4, ResultCharged
  <2>6. TypeOK'
    BY <1>0, <1>1, <2>2, <2>3, <2>5, Types, NextTypes, Zenon DEF queueVars
  <2>7. sched'.checkpoint >= sched.checkpoint
    BY <1>0, <2>3, SchedFields
  <2> QED
    BY <1>1, <1>4, <2>2, <2>3, <2>5, <2>6, <2>7 DEF RunsIInv
<1>8. CASE worker' = [worker EXCEPT ![w] = [@ EXCEPT !.pc = "fail"]] /\ UNCHANGED <<dbVars, fetched>>
  <2> DEFINE x == [worker[w] EXCEPT !.pc = "fail"]
  <2>1. x \in WorkerRecord
    BY <1>2 DEF WorkerRecord
  <2>2. /\ x.pc = "fail" /\ x.probe = worker[w].probe /\ x.run = r /\ x.probed = worker[w].probed
        /\ x.started = worker[w].started
    BY <1>2 DEF WorkerRecord
  <2>3. WorkerPhase(x)
    BY <1>1, <1>2, <2>2 DEF WorkerPhase
  <2>4. worker' = [worker EXCEPT ![w] = x]
    BY <1>8
  <2> HIDE DEF x
  <2> QED
    BY <1>0, <1>1, <1>8, <2>1, <2>2, <2>3, <2>4, JobEndsKeeps DEF queueVars, dbVars
<1> QED
  BY <1>5, <1>6, <1>7, <1>8

-----------------------------------------------------------------------------
(* The specification. *)

\* A worker keeps its job to the end, and the queue forgets none.
SameJob(x, y) == y.pc = "idle" \/ (x.pc # "idle" /\ y.run = x.run /\ y.id = x.id)

LEMMA JobsKept ==
    ASSUME JobsRemembered, added \subseteq added', \A w \in Worker : SameJob(worker[w], worker'[w])
    PROVE  JobsRemembered'
BY DEF JobsRemembered, SameJob

\* A worker's step leaves the other workers at their jobs.
LEMMA JobOfOne ==
    ASSUME JobsRemembered, worker \in [Worker -> WorkerRecord], NEW w \in Worker, NEW x,
           worker' = [worker EXCEPT ![w] = x], SameJob(worker[w], x), added \subseteq added'
    PROVE  JobsRemembered'
<1>1. \A v \in Worker : SameJob(worker[v], worker'[v])
  BY DEF SameJob
<1> QED
  BY <1>1, JobsKept

\* So does the end of a run, whoever ends it.
LEMMA JobsOfSettled ==
    ASSUME TypeOK, WorkerPhases, JobsRemembered, NEW r, NEW w \in Worker,
           worker' = Settled(r) \/ worker' = [Settled(r) EXCEPT ![w] = Idle], added' = added
    PROVE  JobsRemembered'
<1>0. worker \in [Worker -> WorkerRecord]
  BY Types
<1>1. \A v \in Worker : /\ Settled(r)[v].pc = worker[v].pc /\ Settled(r)[v].run = worker[v].run
                        /\ Settled(r)[v].id = worker[v].id
  <2> SUFFICES ASSUME NEW v \in Worker
               PROVE  /\ Settled(r)[v].pc = worker[v].pc /\ Settled(r)[v].run = worker[v].run
                      /\ Settled(r)[v].id = worker[v].id
    OBVIOUS
  <2>1. worker[v] \in WorkerRecord
    BY <1>0
  <2>2. Settled(r)[v] = IF worker[v].run = r /\ worker[v].probe = "reserved"
                        THEN [worker[v] EXCEPT !.probe = "settled"] ELSE worker[v]
    BY DEF Settled
  <2> QED
    BY <2>1, <2>2 DEF WorkerRecord
<1>2. \A v \in Worker : worker'[v] = Settled(r)[v] \/ worker'[v].pc = "idle"
  <2>1. DOMAIN Settled(r) = Worker
    BY DEF Settled
  <2>2. Idle.pc = "idle"
    BY DEF Idle
  <2> QED
    BY <2>1, <2>2
<1>3. \A v \in Worker : SameJob(worker[v], worker'[v])
  BY <1>1, <1>2 DEF SameJob
<1> QED
  BY <1>3, JobsKept

LEMMA WorkerJobs ==
    ASSUME RunsIInv, JobsRemembered, NEW w \in Worker, WorkerStep(w) \/ WorkerCrash(w)
    PROVE  JobsRemembered'
<1> DEFINE r == worker[w].run
<1>0. TypeOK /\ WorkerPhases /\ worker \in [Worker -> WorkerRecord]
  BY Types DEF RunsIInv
<1>1. added' = added
  BY DEF WorkerStep, WorkerCrash, Probe, ProbeAnswered, ExecuteAnswers, ExecuteFails, Persist, Fail,
         ReleaseProbe, DeferForCapacity, queueVars
<1>2. worker[w].pc # "idle"
  BY DEF WorkerStep, WorkerCrash, Probe, ProbeAnswered, ExecuteAnswers, ExecuteFails, Persist, Fail,
         ReleaseProbe, DeferForCapacity
<1>3. \/ worker' = [Settled(r) EXCEPT ![w] = Idle]
      \/ \E x : SameJob(worker[w], x) /\ worker' = [worker EXCEPT ![w] = x]
  <2>1. worker[w] \in WorkerRecord
    BY <1>0
  <2> HIDE DEF r
  <2>2. r = worker[w].run
    BY DEF r
  <2>3. SameJob(worker[w], Idle)
    BY DEF SameJob, Idle
  <2>4. CASE Probe(w)
    <3>1. \E p \in {"probing", "defer"}, q \in {"reserved", worker[w].probe} :
            worker' = [worker EXCEPT ![w] = [@ EXCEPT !.pc = p, !.probe = q]]
      <4>1. [worker[w] EXCEPT !.pc = "defer"] = [worker[w] EXCEPT !.pc = "defer", !.probe = worker[w].probe]
        BY <2>1 DEF WorkerRecord
      <4> QED
        BY <2>4, <4>1 DEF Probe
    <3>2. \A p, q : SameJob(worker[w], [worker[w] EXCEPT !.pc = p, !.probe = q])
      BY <1>2, <2>1 DEF SameJob, WorkerRecord
    <3> QED
      BY <3>1, <3>2
  <2>5. CASE ProbeAnswered(w)
    <3>1. \A p, q : SameJob(worker[w], [worker[w] EXCEPT !.pc = p, !.probed = q])
      BY <1>2, <2>1 DEF SameJob, WorkerRecord
    <3> QED
      BY <2>5, <3>1 DEF ProbeAnswered
  <2>6. CASE ExecuteAnswers(w)
    <3>1. \A p, q : SameJob(worker[w], [worker[w] EXCEPT !.pc = "persist", !.started = TRUE, !.result = p, !.mid = q])
      BY <1>2, <2>1 DEF SameJob, WorkerRecord
    <3> QED
      BY <2>6, <3>1 DEF ExecuteAnswers
  <2>7. CASE ExecuteFails(w)
    <3>1. \A p, q : SameJob(worker[w], [worker[w] EXCEPT !.pc = p, !.started = q])
      BY <1>2, <2>1 DEF SameJob, WorkerRecord
    <3> QED
      BY <2>7, <3>1 DEF ExecuteFails
  <2>8. CASE Persist(w)
    <3>1. SameJob(worker[w], [worker[w] EXCEPT !.pc = "fail"])
      BY <1>2, <2>1 DEF SameJob, WorkerRecord
    <3> QED
      BY <2>2, <2>8, <3>1 DEF Persist, JobEnds
  <2>9. CASE Fail(w) \/ DeferForCapacity(w) \/ WorkerCrash(w)
    BY <2>2, <2>3, <2>9 DEF Fail, DeferForCapacity, WorkerCrash, JobEnds
  <2>10. CASE ReleaseProbe(w)
    <3>1. SameJob(worker[w], [worker[w] EXCEPT !.probe = "none"])
      BY <1>2, <2>1 DEF SameJob, WorkerRecord
    <3> QED
      BY <2>3, <2>10, <3>1 DEF ReleaseProbe, JobEnds
  <2> QED
    BY <2>4, <2>5, <2>6, <2>7, <2>8, <2>9, <2>10 DEF WorkerStep
<1> HIDE DEF r
<1>4. CASE worker' = [Settled(r) EXCEPT ![w] = Idle]
  BY <1>0, <1>1, <1>4, JobsOfSettled
<1>5. CASE \E x : SameJob(worker[w], x) /\ worker' = [worker EXCEPT ![w] = x]
  BY <1>0, <1>1, <1>5, JobOfOne
<1> QED
  BY <1>3, <1>4, <1>5

\* Both invariants are kept by every step, and no step takes the checkpoint
\* back.
LEMMA NextKeeps ==
    ASSUME RunsIInv, JobsRemembered, [Next]_vars
    PROVE  RunsIInv' /\ JobsRemembered' /\ sched'.checkpoint >= sched.checkpoint
<1>0. TypeOK /\ WorkerPhases /\ sched \in SchedRecord /\ worker \in [Worker -> WorkerRecord]
      /\ waiting \subseteq added
  BY Types DEF RunsIInv
<1>1. ASSUME worker' = worker, added \subseteq added' PROVE JobsRemembered'
  BY <1>1, JobsKept DEF JobsRemembered
<1>2. ASSUME NEW r, worker' = Settled(r), added' = added PROVE JobsRemembered'
  <2>1. CASE Worker = {}
    BY <2>1 DEF JobsRemembered
  <2>2. CASE Worker # {}
    <3>1. PICK w \in Worker : TRUE
      BY <2>2
    <3> QED
      BY <1>0, <1>2, <3>1, JobsOfSettled
  <2> QED
    BY <2>1, <2>2
<1>3. CASE Claim
  BY <1>1, <1>3, ClaimKeeps DEF Claim, queueVars
<1>4. CASE ClaimStale
  BY <1>2, <1>4, ClaimStaleKeeps DEF ClaimStale, queueVars
<1>5. CASE DueAgain
  BY <1>1, <1>5, DueAgainKeeps DEF DueAgain, queueVars
<1>6. CASE PassEnqueue \/ PassEnqueueFails \/ PassCrash
  BY <1>1, <1>6, PassKeeps DEF PassEnqueue, PassEnqueueFails, PassCrash, AddJob, queueVars
<1>7. CASE PassFail
  <2>1. added' = added /\ (worker' = worker \/ worker' = Settled(pass.run))
    BY <1>7 DEF PassFail, queueVars
  <2> QED
    BY <1>1, <1>2, <1>7, <2>1, PassFailKeeps
<1>8. CASE DispatchStep \/ DispatchCrash
  <2>1. worker' = worker /\ added \subseteq added'
    BY <1>8 DEF DispatchStep, DispatchEnqueue, DispatchEnqueueFails, DispatchConfirm, DispatchRelease,
                DispatchCrash, AddJob, queueVars
  <2> QED
    BY <1>1, <1>8, <2>1, DispatcherKeeps
<1>9. ASSUME NEW r \in Run, ClaimOutbox(r) \/ RowLeaseExpires(r) \/ LeaseExpires(r) \/ LeaseTooShort(r)
      PROVE  RunsIInv' /\ JobsRemembered' /\ sched'.checkpoint >= sched.checkpoint
  <2>1. worker' = worker /\ added' = added
    BY <1>9 DEF ClaimOutbox, RowLeaseExpires, LeaseExpires, LeaseTooShort, queueVars
  <2> QED
    BY <1>1, <1>9, <2>1, LeasesKeep
<1>10. ASSUME NEW r \in Run, RecoverStaleTriggeredRun(r)
       PROVE  RunsIInv' /\ JobsRemembered' /\ sched'.checkpoint >= sched.checkpoint
  BY <1>1, <1>10, RecoverKeeps DEF RecoverStaleTriggeredRun, queueVars
<1>11. ASSUME NEW w \in Worker, WorkerStep(w) \/ WorkerCrash(w)
       PROVE  RunsIInv' /\ JobsRemembered' /\ sched'.checkpoint >= sched.checkpoint
  BY <1>11, WorkerJobs, ProbeKeeps, ProbeAnsweredKeeps, ExecuteAnswersKeeps, ExecuteFailsKeeps,
     PersistKeeps, FailKeeps, ReleaseProbeKeeps, DeferKeeps, WorkerCrashKeeps DEF WorkerStep
<1>12. ASSUME NEW w \in Worker, NEW j \in waiting, Begin(w, j)
       PROVE  RunsIInv' /\ JobsRemembered' /\ sched'.checkpoint >= sched.checkpoint
  <2>1. added' = added
    BY <1>12 DEF Begin
  <2>2. \A v \in Worker : worker'[v] = worker[v] \/ (worker'[v].run = j[1] /\ worker'[v].id = j[2])
    <3> DEFINE x == [Idle EXCEPT !.pc = "running", !.run = j[1], !.id = j[2]]
    <3>1. x.run = j[1] /\ x.id = j[2]
      BY DEF Idle
    <3>2. worker' = worker \/ worker' = [worker EXCEPT ![w] = x]
      BY <1>12 DEF Begin
    <3> HIDE DEF x
    <3> QED
      BY <1>0, <3>1, <3>2
  <2>3. <<j[1], j[2]>> \in added
    <3>1. j \in added /\ added \subseteq Run \X Nat
      BY <1>0, <1>12, Types
    <3>2. j = <<j[1], j[2]>>
      BY <3>1
    <3> QED
      BY <3>1, <3>2
  <2>4. JobsRemembered'
    BY <2>1, <2>2, <2>3 DEF JobsRemembered
  <2> QED
    BY <1>12, <2>4, BeginKeeps
<1>13. CASE UNCHANGED vars
  <2>1. UNCHANGED <<now, sched, run, res, gaps, outbox, pass, disp, waiting, added, worker, fetched,
                    calls, lost, faults>>
    BY <1>13 DEF vars, dbVars, queueVars, history
  <2>2. JobsRemembered'
    BY <1>1, <2>1
  <2>3. TypeOK'
    BY <1>0, <2>1, Types, NextTypes, Zenon
  <2>4. Engaged'
    BY <2>1 DEF RunsIInv, Engaged
  <2> QED
    BY <2>1, <2>2, <2>3, <2>4, QuietStep
<1> QED
  BY <1>3, <1>4, <1>5, <1>6, <1>7, <1>8, <1>9, <1>10, <1>11, <1>12, <1>13
     DEF Next, SchedulerStep, PassStep

LEMMA Invariance == Spec => [](RunsIInv /\ JobsRemembered)
<1>1. Init => RunsIInv /\ JobsRemembered
  BY InitIInv DEF Init, Idle, JobsRemembered
<1>2. RunsIInv /\ JobsRemembered /\ [Next]_vars => RunsIInv' /\ JobsRemembered'
  BY NextKeeps
<1> QED
  BY <1>1, <1>2, PTL DEF Spec

\* The variables keep their types, and what the queue gives to a worker is a
\* job it remembers, also when a crash gives it out again.
THEOREM TypeOKHolds == Spec => []TypeOK
<1>1. RunsIInv => TypeOK
  BY DEF RunsIInv
<1> QED
  BY <1>1, Invariance, PTL

\* A recurring run is active exactly when it holds the schedule's lease;
\* whatever the checkpoint has passed was fetched, is a gap or is a follow-up's;
\* and, unless a run was taken away from a worker, every provider call is
\* charged and nothing stays reserved after the end (claimDueFormalRuns,
\* persistAcquisitionResult, failFormalRun, x-budget.ts).
THEOREM RunsAccountedHolds == Spec => []RunsAccounted
<1>1. RunsIInv => RunsAccounted
  <2> SUFFICES ASSUME RunsIInv PROVE RunsAccounted
    OBVIOUS
  <2>1. OneActiveRun
    BY DEF RunsIInv, Timeline, LeaseIsLatest, OneActiveRun
  <2>2. CheckpointAccounted
    BY DEF RunsIInv, Timeline, PastAccounted, CheckpointAccounted, ToRun, Window
  <2>3. BudgetMatchesCalls
    BY DEF RunsIInv, Budget, Paid, BudgetMatchesCalls
  <2> QED
    BY <2>1, <2>2, <2>3 DEF RunsAccounted
<1> QED
  BY <1>1, Invariance, PTL

\* The checkpoint of a schedule never goes back, whichever run moves it
\* (persistAcquisitionResult, failFormalRun, claimDueFormalRuns).
THEOREM CheckpointNeverGoesBackHolds == Spec => CheckpointNeverGoesBack
<1>1. RunsIInv /\ JobsRemembered /\ [Next]_vars => [sched'.checkpoint >= sched.checkpoint]_vars
  BY NextKeeps
<1> QED
  BY <1>1, Invariance, PTL DEF Spec, CheckpointNeverGoesBack

=============================================================================
