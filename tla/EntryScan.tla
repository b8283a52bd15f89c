------------------------------ MODULE EntryScan ------------------------------
(***************************************************************************)
(* An entry-sync obligation.  Its work is a chain of BullMQ jobs: a root   *)
(* that reads the first chunk of entries by key, a successor for the chunk *)
(* after it, and so on; when some entries of a chunk fail, a retry job     *)
(* for just those, which carries the cursor at which the scan resumes.     *)
(* Every job carries the obligation's generation.                          *)
(*                                                                         *)
(* A database transaction (a chunk is one, under its mutation scopes) or a *)
(* call of the queue is one step.  The scheduler's part of the obligation  *)
(* (SchedulerObligations) is reduced to its claims.                        *)
(***************************************************************************)
EXTENDS Integers, FiniteSets

CONSTANTS
    Entry,          \* entry IDs
    ChunkSize,
    MaxRetryCycles, \* maxRetryCycles
    Attempts,       \* attempts of a BullMQ job
    MaxGen,         \* bound on generations
    MaxFaults       \* bound on failures

ASSUME EntryAssumption == Entry \subseteq Nat \ {0}
ASSUME ChunkAssumption == ChunkSize \in Nat \ {0}
ASSUME RetryAssumption == MaxRetryCycles \in Nat /\ Attempts \in Nat \ {0}
ASSUME BoundsAssumption == MaxGen \in Nat /\ MaxFaults \in Nat

VARIABLES
    entries,    \* the season's rows of competition.entries
    synced,     \* the entries with a checkpoint for the obligation's period
    status,     \* the obligation: running (or enqueued), failed, succeeded
    gen,
    leased,
    jobs,       \* the jobs the entry-sync queue knows
    base,       \* history: the entries when the generation was claimed
    causes,     \* history: terminal job failures and leases too short
    faults

rowVars == <<status, gen, leased>>
vars == <<entries, synced, rowVars, jobs, base, causes, faults>>

Gen == 0..MaxGen
Cursor == Entry \cup {0}

\* What a job is for.  A chunk reads the entries after its cursor; a list has
\* its entries, and the cursor at which the scan resumes.
JobData ==
    [gen : Gen, kind : {"chunk"}, cursor : Cursor, ids : {{}}, retry : {0}]
    \cup
    [gen : Gen, kind : {"list"}, cursor : Cursor, ids : SUBSET Entry, retry : 1..MaxRetryCycles]

Chunk(g, after) == [gen |-> g, kind |-> "chunk", cursor |-> after, ids |-> {}, retry |-> 0]
List(g, resume, ids, n) == [gen |-> g, kind |-> "list", cursor |-> resume, ids |-> ids, retry |-> n]

\* Mutant: the generation's run is not part of the ID.
SameIdAnyRun(d, e) ==
    /\ d.kind = e.kind
    /\ d.kind = "chunk" => d.cursor = e.cursor /\ (d.cursor = 0 => d.gen = e.gen)
    /\ d.kind = "list" => d.ids = e.ids /\ d.retry = e.retry

\* The job IDs are deterministic: run and cursor, or run, entries and retry
\* count.  (A run is a generation's chain.)
SameId(d, e) ==
    /\ d.gen = e.gen /\ d.kind = e.kind
    /\ d.kind = "chunk" => d.cursor = e.cursor
    /\ d.kind = "list" => d.ids = e.ids /\ d.retry = e.retry

\* A job's progress; "next" is the successor it is about to enqueue.
Pc == {"waiting", "active", "renew", "enqueue", "complete", "leave", "throw", "settled"}
Job == [data : JobData, pc : Pc, tries : 0..Attempts, next : JobData]

TypeOK ==
    /\ entries \subseteq Entry
    /\ synced \subseteq Entry
    /\ status \in {"running", "failed", "succeeded"}
    /\ gen \in Gen
    /\ leased \in BOOLEAN
    /\ jobs \subseteq Job
    /\ base \subseteq Entry
    /\ causes \in Nat
    /\ faults \in 0..MaxFaults

NewJob(d) == [data |-> d, pc |-> "waiting", tries |-> 0, next |-> d]

Init ==
    /\ entries \in SUBSET Entry
    /\ synced = {}
    /\ status = "running" /\ gen = 0 /\ leased = TRUE
    /\ jobs = {NewJob(Chunk(0, 0))}
    /\ base = entries
    /\ causes = 0
    /\ faults = 0

Fault == faults < MaxFaults /\ faults' = faults + 1

\* The generation guard of every update of the obligation.
Current(j) == j.data.gen = gen /\ status = "running"

Moved(j, pc) == (jobs \ {j}) \cup {[j EXCEPT !.pc = pc]}
Goto(j, pc) == jobs' = Moved(j, pc)

(***************************************************************************)
(* Reading and syncing the entries of a job.                               *)
(***************************************************************************)

\* ORDER BY entry_id LIMIT k: the results the query may have.
Limited(S, k) ==
    {L \in SUBSET S : /\ \A e \in L, f \in S \ L : e < f
                      /\ Cardinality(L) <= k
                      /\ L = S \/ Cardinality(L) = k}

\* loadEntryIdsForSync: the list, or the next chunk by key.
Loads(d) ==
    IF d.kind = "list" THEN {d.ids}
    ELSE Limited({e \in entries : e > d.cursor}, ChunkSize)

\* selectRequired: a scan reuses checkpoints, a list is synced again.
Required(d, L) == IF d.kind = "list" THEN L ELSE L \ synced

\* Mutant: the scan goes on only past a chunk that is longer than its limit.
HasMoreThanFull(d, L) == d.kind = "chunk" /\ Cardinality(L) > ChunkSize

HasMore(d, L) == d.kind = "chunk" /\ Cardinality(L) = ChunkSize

\* The cursor to go on from: the chunk's last entry, or the list's own.
Continuations(d, L) ==
    IF d.kind = "list" THEN {d.cursor} ELSE {e \in L : \A f \in L : f <= e}

\* Mutant: a retry that succeeds ends the chain.
ContinuesFromChunk(d, L) == HasMore(d, L)

\* decideEntrySyncChain, for a job none of whose entries failed,
Continues(d, L) == d.kind = "list" \/ HasMore(d, L)

\* Mutant: one retry too many.
RetryableOnceMore(d) == d.retry <= MaxRetryCycles

\* and for one with failures.
Retryable(d) == d.retry < MaxRetryCycles

(***************************************************************************)
(* The processor.                                                          *)
(***************************************************************************)

\* A stale generation is rejected before it starts.
JobStart(j) ==
    /\ j.pc = "waiting"
    /\ IF Current(j) THEN leased' = TRUE /\ Goto(j, "active")
                     ELSE leased' = leased /\ Goto(j, "settled")
    /\ UNCHANGED <<entries, synced, status, gen, base, causes, faults>>

\* handleEntryJob: nothing failed.  Only a scan's last chunk completes it.
JobSyncs(j) ==
    LET d == j.data IN
    /\ j.pc = "active"
    /\ \E L \in Loads(d) :
         /\ synced' = synced \cup Required(d, L)
         /\ IF Continues(d, L)
            THEN \E c \in Continuations(d, L) :
                   jobs' = (jobs \ {j}) \cup {[j EXCEPT !.pc = "renew", !.next = Chunk(d.gen, c)]}
            ELSE Goto(j, IF d.kind = "chunk" THEN "complete" ELSE "leave")
    /\ UNCHANGED <<entries, rowVars, base, causes, faults>>

\* Some entries failed and may be retried.
JobSyncsSome(j) ==
    LET d == j.data IN
    /\ j.pc = "active"
    /\ Fault
    /\ Retryable(d)
    /\ \E L \in Loads(d) : \E F \in (SUBSET Required(d, L)) \ {{}}, c \in Continuations(d, L) :
         /\ synced' = synced \cup (Required(d, L) \ F)
         /\ jobs' = (jobs \ {j}) \cup
              {[j EXCEPT !.pc = "renew", !.next = List(d.gen, c, F, d.retry + 1)]}
    /\ UNCHANGED <<entries, rowVars, base, causes>>

\* They may not be retried again, or the transaction fails: it rolls back.
JobThrows(j) ==
    /\ j.pc = "active"
    /\ Fault
    /\ Goto(j, "throw")
    /\ UNCHANGED <<entries, synced, rowVars, base, causes>>

\* afterCommit renews the lease of its own generation ...
JobRenews(j) ==
    /\ j.pc = "renew"
    /\ IF Current(j) THEN leased' = TRUE /\ Goto(j, "enqueue")
                     ELSE leased' = leased /\ Goto(j, "leave")
    /\ UNCHANGED <<entries, synced, status, gen, base, causes, faults>>

\* ... and enqueues the successor, unless the queue knows its ID.
JobEnqueues(j) ==
    /\ j.pc = "enqueue"
    /\ jobs' = Moved(j, "leave") \cup
         (IF \E k \in jobs : SameId(k.data, j.next) THEN {} ELSE {NewJob(j.next)})
    /\ UNCHANGED <<entries, synced, rowVars, base, causes, faults>>

\* The end of the scan completes the obligation, if it is still its own.
JobCompletes(j) ==
    /\ j.pc = "complete"
    /\ Goto(j, "leave")
    /\ status' = IF Current(j) THEN "succeeded" ELSE status
    /\ leased' = IF Current(j) THEN FALSE ELSE leased
    /\ UNCHANGED <<entries, synced, gen, base, causes, faults>>

\* A call in afterCommit fails.
JobCallFails(j) ==
    /\ j.pc \in {"renew", "enqueue", "complete"}
    /\ Fault
    /\ Goto(j, "throw")
    /\ UNCHANGED <<entries, synced, rowVars, base, causes>>

\* The worker dies anywhere; the stalled job runs again from its start.
JobStalls(j) ==
    /\ j.pc \in {"active", "renew", "enqueue", "complete", "leave"}
    /\ Fault
    /\ Goto(j, "waiting")
    /\ UNCHANGED <<entries, synced, rowVars, base, causes>>

JobSettles(j) ==
    /\ j.pc = "leave"
    /\ Goto(j, "settled")
    /\ UNCHANGED <<entries, synced, rowVars, base, causes, faults>>

\* BullMQ runs a job that threw again,
JobRetried(j) ==
    /\ j.pc = "throw"
    /\ j.tries + 1 < Attempts
    /\ jobs' = (jobs \ {j}) \cup {[j EXCEPT !.pc = "waiting", !.tries = @ + 1]}
    /\ UNCHANGED <<entries, synced, rowVars, base, causes, faults>>

\* and after its last attempt the failed handler fails the obligation; that
\* update may be lost.
JobFailed(j) ==
    /\ j.pc = "throw"
    /\ j.tries + 1 >= Attempts
    /\ Goto(j, "settled")
    /\ causes' = causes + 1
    /\ \/ /\ status' = IF Current(j) THEN "failed" ELSE status
          /\ leased' = IF Current(j) THEN FALSE ELSE leased
          /\ faults' = faults
       \/ Fault /\ UNCHANGED <<status, leased>>
    /\ UNCHANGED <<entries, synced, gen, base>>

(***************************************************************************)
(* The scheduler, and the world.                                           *)
(***************************************************************************)

\* The obligation is claimed again and a root of a new generation enqueued.
Claim ==
    /\ status = "failed" \/ (status = "running" /\ ~leased)
    /\ gen < MaxGen
    /\ gen' = gen + 1
    /\ status' = "running" /\ leased' = TRUE
    /\ jobs' = jobs \cup {NewJob(Chunk(gen + 1, 0))}
    /\ base' = entries
    /\ UNCHANGED <<entries, synced, causes, faults>>

Alive == \E j \in jobs : j.data.gen = gen /\ j.pc # "settled"

\* The lease runs out: a fault while its chain is at work.
LeaseExpires ==
    /\ leased
    /\ leased' = FALSE
    /\ IF Alive THEN Fault /\ causes' = causes + 1
                ELSE UNCHANGED <<faults, causes>>
    /\ UNCHANGED <<entries, synced, status, gen, jobs, base>>

\* Entries are added while a scan is under way.
EntryAdded(e) ==
    /\ e \notin entries
    /\ entries' = entries \cup {e}
    /\ UNCHANGED <<synced, rowVars, jobs, base, causes, faults>>

(***************************************************************************)
(* The specification.                                                      *)
(***************************************************************************)
JobStep(j) ==
    \/ JobStart(j) \/ JobSyncs(j) \/ JobRenews(j) \/ JobEnqueues(j) \/ JobCompletes(j)
    \/ JobSettles(j) \/ JobRetried(j) \/ JobFailed(j)

JobFault(j) == JobSyncsSome(j) \/ JobThrows(j) \/ JobCallFails(j) \/ JobStalls(j)

Next ==
    \/ \E j \in jobs : JobStep(j) \/ JobFault(j)
    \/ Claim \/ LeaseExpires
    \/ \E e \in Entry : EntryAdded(e)

Spec == Init /\ [][Next]_vars

\* Workers keep working, the scheduler keeps claiming, leases run out.
Fairness ==
    /\ WF_vars(\E j \in jobs : JobStep(j))
    /\ WF_vars(Claim)
    /\ WF_vars(LeaseExpires)

FairSpec == Spec /\ Fairness

(***************************************************************************)
(* Properties.                                                             *)
(***************************************************************************)

\* The evidence of success: every entry there was when the generation was
\* claimed has its checkpoint, through chunk boundaries, partial failures,
\* jobs that run twice and forked chains.
ScanCoversEntries == status = "succeeded" => base \subseteq synced

\* A chain never breaks silently: retries within their budget, stalls and
\* repeated jobs are absorbed by the same generation, and only a job's
\* terminal failure or a lease that was too short starts the scan again.
ScanSurvivesRetries == gen <= causes

\* The scan completes.
ScanCompletes == <>(status = "succeeded")
==============================================================================
