----------------------------- MODULE FplRequests -----------------------------
(***************************************************************************)
(* Requests to the FPL API: the admission by leases that every process     *)
(* shares in Redis (utils/fpl-admission.ts) and the retry loop one request *)
(* runs under its lease (FPLClient.request in clients/fpl.ts).  Each Redis *)
(* script is one atomic step; its answer may be lost, a process may die    *)
(* and leave its lease to run out.  Time passes in ticks: a timer that has *)
(* run out fires before the next tick.  The token bucket only delays a     *)
(* grant: a caller that has capacity may be told to wait.                  *)
(***************************************************************************)
EXTENDS Integers, FiniteSets, FiniteSetsExt

CONSTANTS
    FplCall,          \* logical requests; each acquires under a token of its own
    FplPriority,      \* of a request: "live" or "bulk", read off its URL
    FplMaxInflight,   \* MAX_INFLIGHT
    FplLiveReserve,   \* slots kept from bulk requests (2 in the code)
    FplMaxRetries,    \* MAX_RETRIES
    FplTimeout,       \* REQUEST_TIMEOUT_MS, in ticks
    FplDeadline,      \* REQUEST_DEADLINE_MS
    FplLease,         \* LEASE_MS
    FplMaxDeaths      \* bound: processes that die

ASSUME FplAssumption ==
    /\ IsFiniteSet(FplCall)
    /\ FplPriority \in [FplCall -> {"live", "bulk"}]
    /\ {FplMaxInflight, FplLiveReserve, FplMaxRetries, FplTimeout, FplDeadline, FplLease}
         \subseteq Nat \ {0}
    /\ FplMaxDeaths \in Nat
    /\ FplDeadline < FplLease   \* 40 s and 45 s; the environment may override both

VARIABLES
    admission,  \* STATE_KEY: the counters, the adaptive bulk limit, the last bulk error
    leases,     \* LEASES_KEY and LEASE_META_KEY: ticks left of each token's lease
    call,       \* the state of each request
    deaths

fplVars == <<admission, leases, call, deaths>>

-----------------------------------------------------------------------------
(* The shared admission state.                                             *)

\* BULK_MAX_INFLIGHT
BulkMax == Max({1, Min({FplMaxInflight - Min({FplLiveReserve, FplMaxInflight}), 3})})

\* One more or one less request of a priority.
Counted(a, priority, n) ==
    [a EXCEPT !.inflight = @ + n, ![priority] = @ + n]

\* The leases of S leave; the counters follow.
Uncounted(a, S) ==
    LET of(p) == Cardinality({c \in S : FplPriority[c] = p})
    IN [a EXCEPT !.inflight = @ - of("live") - of("bulk"),
                 !.live = @ - of("live"), !.bulk = @ - of("bulk")]

\* A bulk limit that has been without an error for five minutes grows by one.
Recovered(a) ==
    IF a.limit < BulkMax /\ a.error = "old"
    THEN [a EXCEPT !.limit = @ + 1, !.error = IF a.limit + 1 < BulkMax THEN "recent" ELSE "none"]
    ELSE a

\* ACQUIRE_SCRIPT up to its decision: leases that have run out are dropped,
\* the limit of an earlier configuration is cut, then perhaps recovered.
RunOut == {c \in DOMAIN leases : leases[c] = 0}
Swept == Recovered([Uncounted(admission, RunOut) EXCEPT !.limit = Min({@, BulkMax})])
HasCapacity(a, priority) ==
    /\ priority = "bulk" => a.bulk < a.limit
    /\ a.inflight < FplMaxInflight

-----------------------------------------------------------------------------
\* A request before or after its attempts.
Rest(pc) == [pc |-> pc, attempt |-> 0, timer |-> 0, left |-> 0,
             kept |-> "none", heard |-> "none", result |-> "none"]

FplInit ==
    \* An earlier deployment may have left another limit.
    /\ admission \in [inflight : {0}, live : {0}, bulk : {0},
                      limit : {BulkMax, FplMaxInflight}, error : {"none"}]
    /\ leases = <<>>
    /\ call = [c \in FplCall |-> Rest("waiting")]
    /\ deaths = 0

\* ACQUIRE_SCRIPT grants: the lease and the request's own deadline start.  A
\* caller whose answer is lost fails, and its lease stays.
FplGrant(c, answered) ==
    LET kept == DOMAIN leases \ RunOut IN
    /\ call[c].pc = "waiting"
    /\ HasCapacity(Swept, FplPriority[c])
    /\ admission' = Counted(Swept, FplPriority[c], 1)
    /\ leases' = [d \in kept \cup {c} |-> IF d = c THEN FplLease ELSE leases[d]]
    /\ call' = IF answered
               THEN [call EXCEPT ![c].pc = "fetch", ![c].left = FplDeadline,
                                 ![c].timer = Min({FplTimeout, FplDeadline})]
               ELSE [call EXCEPT ![c] = Rest("done")]
    /\ UNCHANGED deaths

\* ACQUIRE_SCRIPT makes the caller wait, for capacity or for the rate; what
\* it swept is kept.  An error of Redis ends the request.
FplWait(c, answered) ==
    /\ call[c].pc = "waiting"
    /\ admission' = Swept
    /\ leases' = [d \in DOMAIN leases \ RunOut |-> leases[d]]
    /\ call' = IF answered THEN call
               ELSE [call EXCEPT ![c] = Rest("done")]
    /\ UNCHANGED deaths

-----------------------------------------------------------------------------
(* The retry loop of one request.                                          *)

\* reportFplResponse with REPORT_SCRIPT: an error of a bulk request costs a
\* slot of the bulk limit, anything else may recover one.  Nobody waits for
\* a report, and it may be lost.
ReportStatus(c, bad) ==
    \/ UNCHANGED admission
    \/ /\ FplPriority[c] = "bulk"
       /\ admission' = IF bad
                       THEN [admission EXCEPT !.limit = Max({1, @ - 1}), !.error = "recent"]
                       ELSE Recovered(admission)

\* The loop is left: a remembered 429 or 5xx is preferred to the error.
Ended(r, result) == [Rest("ending") EXCEPT !.heard = r.heard, !.result = result]
GivenUp(r) == Ended(r, IF r.kept # "none" THEN r.kept ELSE "error")

\* A failed attempt: the loop backs off unless attempts or time are used up.
\* Retry-After and the jitter are any delay within the deadline.
AfterFailure(r, delay) ==
    IF r.attempt = FplMaxRetries \/ r.left = 0 THEN GivenUp(r)
    ELSE [r EXCEPT !.pc = "backoff", !.timer = Min({delay, r.left})]

\* The status line of an attempt.  A retryable status is remembered before
\* the body is read, a rejection ends the request, a 2xx forgets the former.
FplHeader(c, status) ==
    LET r == [call[c] EXCEPT !.heard = status] IN
    /\ call[c].pc = "fetch"
    /\ ReportStatus(c, status = "retryable")
    /\ call' = [call EXCEPT ![c] =
         CASE status = "retryable" -> [r EXCEPT !.pc = "body", !.kept = status]
           [] status = "rejected"  -> Ended(r, status)
           [] OTHER                -> [r EXCEPT !.pc = "body", !.kept = "none"]]
    /\ UNCHANGED <<leases, deaths>>

\* The body of a 2xx arrives whole.
FplBody(c) ==
    /\ call[c].pc = "body" /\ call[c].heard = "ok"
    /\ call' = [call EXCEPT ![c] = Ended(call[c], "ok")]
    /\ UNCHANGED <<admission, leases, deaths>>

\* The attempt fails before its status, or its body stalls, or the body of a
\* retryable answer has been read; the attempt's timer aborts fetch and body.
FplAttemptEnds(c, delay) ==
    /\ call[c].pc \in {"fetch", "body"}
    /\ call' = [call EXCEPT ![c] = AfterFailure(call[c], delay)]
    /\ IF call[c].pc = "body" /\ call[c].heard = "retryable"
       THEN UNCHANGED admission ELSE ReportStatus(c, FALSE)
    /\ UNCHANGED <<leases, deaths>>

\* The next attempt, if the deadline leaves time for one.
FplRetry(c) ==
    LET r == call[c] IN
    /\ r.pc = "backoff" /\ r.timer = 0
    /\ call' = [call EXCEPT ![c] =
         IF r.left = 0 THEN GivenUp(r)
         ELSE [r EXCEPT !.pc = "fetch", !.attempt = @ + 1, !.timer = Min({FplTimeout, r.left})]]
    /\ UNCHANGED <<admission, leases, deaths>>

\* RELEASE_SCRIPT finds the lease of its token in LEASE_META_KEY.
\* (Mutant: it does not look.)
NotLooked(c) == TRUE
HeldLease(c) == c \in DOMAIN leases

\* RELEASE_SCRIPT: nothing when the lease has been swept.  Its failure is
\* swallowed and leaves the lease to its time.
FplRelease(c, reached) ==
    /\ call[c].pc = "ending"
    /\ IF reached /\ HeldLease(c)
       THEN /\ admission' = Counted(admission, FplPriority[c], -1)
            /\ leases' = [d \in DOMAIN leases \ {c} |-> leases[d]]
       ELSE UNCHANGED <<admission, leases>>
    /\ call' = [call EXCEPT ![c] = Rest("done")]
    /\ UNCHANGED deaths

-----------------------------------------------------------------------------
\* The process of a request dies.
FplDie(c) ==
    /\ call[c].pc \in {"waiting", "fetch", "body", "backoff", "ending"}
    /\ deaths < FplMaxDeaths
    /\ deaths' = deaths + 1
    /\ call' = [call EXCEPT ![c] = Rest("dead")]
    /\ UNCHANGED <<admission, leases>>

\* Five minutes pass after the last bulk error.
FplCool ==
    /\ admission.error = "recent"
    /\ admission' = [admission EXCEPT !.error = "old"]
    /\ UNCHANGED <<leases, call, deaths>>

Timed == {"fetch", "body", "backoff"}

FplTick ==
    LET less(n) == Max({0, n - 1}) IN
    /\ \A c \in FplCall : call[c].pc \in Timed => call[c].timer > 0
    /\ \E c \in DOMAIN leases : leases[c] > 0
    /\ leases' = [c \in DOMAIN leases |-> less(leases[c])]
    /\ call' = [c \in FplCall |-> [call[c] EXCEPT !.timer = less(@), !.left = less(@)]]
    /\ UNCHANGED <<admission, deaths>>

FplNext ==
    \/ \E c \in FplCall :
         \/ \E reached \in BOOLEAN : FplGrant(c, reached) \/ FplWait(c, reached) \/ FplRelease(c, reached)
         \/ \E status \in {"ok", "retryable", "rejected"} : FplHeader(c, status)
         \/ FplBody(c)
         \/ \E delay \in 0..1 : FplAttemptEnds(c, delay)
         \/ FplRetry(c)
         \/ FplDie(c)
    \/ FplCool
    \/ FplTick

FplSpec == FplInit /\ [][FplNext]_fplVars

-----------------------------------------------------------------------------
FplTypeOK ==
    /\ admission \in [inflight : 0..Cardinality(FplCall), live : 0..Cardinality(FplCall),
                      bulk : 0..Cardinality(FplCall), limit : 1..Max({BulkMax, FplMaxInflight}),
                      error : {"none", "recent", "old"}]
    /\ DOMAIN leases \subseteq FplCall
    /\ \A c \in DOMAIN leases : leases[c] \in 0..FplLease
    /\ call \in [FplCall ->
         [pc : {"waiting", "fetch", "body", "backoff", "ending", "done", "dead"},
          attempt : 0..FplMaxRetries, timer : 0..FplDeadline, left : 0..FplDeadline,
          kept : {"none", "retryable"}, heard : {"none", "ok", "retryable", "rejected"},
          result : {"none", "ok", "retryable", "rejected", "error"}]]
    /\ deaths \in 0..FplMaxDeaths

\* The counters Redis keeps are the leases it keeps: through expiry, releases
\* that come late or never, lost answers and deaths nothing drifts.
CountersMatchLeases ==
    LET of(p) == Cardinality({c \in DOMAIN leases : FplPriority[c] = p})
    IN /\ admission.live = of("live")
       /\ admission.bulk = of("bulk")
       /\ admission.inflight = of("live") + of("bulk")

\* The requests that may be talking to FPL never exceed the limits, although
\* leases run out: a request ends before its lease does.
CallsWithinLimits ==
    LET calling(P) == {c \in FplCall : call[c].pc \in Timed /\ FplPriority[c] \in P}
    IN /\ Cardinality(calling({"live", "bulk"})) <= FplMaxInflight
       /\ Cardinality(calling({"bulk"})) <= BulkMax
       /\ \A c \in calling({"live", "bulk"}) : c \in DOMAIN leases /\ leases[c] > call[c].left

\* A request that ends answers for the last status it heard: an error only
\* when no status or the header of a broken 2xx came last, a status never
\* from before a later 2xx.
AnswersLastStatus ==
    \A c \in FplCall : call[c].pc = "ending" =>
        IF call[c].result = "error" THEN call[c].heard \in {"none", "ok"}
        ELSE call[c].result = call[c].heard

\* The admission's invariant: nothing drifts, limits hold although leases run
\* out, and a request answers for what it heard (the properties above).
FplInv ==
    /\ FplTypeOK
    /\ CountersMatchLeases
    /\ CallsWithinLimits
    /\ AnswersLastStatus
=============================================================================
