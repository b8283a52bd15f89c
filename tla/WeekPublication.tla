-------------------------- MODULE WeekPublication --------------------------
(***************************************************************************)
(* Publication of frozen week editions.  A publisher's command commits the *)
(* publication, its payloads and an outbox row in one transaction under    *)
(* the week's mutation scope, then writes both locales and the active      *)
(* pointer to Redis and dispatches the outbox.  A client that got no       *)
(* answer repeats the command under its idempotency key; the repetition    *)
(* stages the publication that the key has made.  The content worker       *)
(* dispatches the outbox as well.  Frozen editions are READY or EMPTY, so  *)
(* the pointer's tombstone is not reached; Redis does not lose its keys.   *)
(***************************************************************************)
EXTENDS Integers, FiniteSets

CONSTANTS
    WeekEdition,    \* editions that are READY, with their snapshots
    Key,            \* idempotency keys: a publisher's commands
    ContentWorker,  \* the dispatcher that is not a publisher
    MaxWeekFaults   \* bound on failed calls and crashes

ASSUME WeekAssumption == IsFiniteSet(WeekEdition) /\ MaxWeekFaults \in Nat

VARIABLES
    published,   \* the publication ID an edition records, as its revision; 0: none
    command,     \* content.editorial_actions: the revision a key has published; 0: none
    active,      \* the revision whose row is active
    latest,      \* MAX(revision) of the scope
    outboxRow,   \* content.publication_outbox by revision
    payload,     \* Redis: the locale payloads by revision
    weekPointer, \* Redis: the revision the active pointer names; 0: none
    publisher,   \* where a publisher's command is
    batch,       \* the rows a dispatcher has listed and not yet handled
    told,        \* history: revisions the web was told of
    weekFaults

dbWeek == <<published, command, active, latest, outboxRow>>
redisWeek == <<payload, weekPointer>>
weekVars == <<dbWeek, redisWeek, publisher, batch, told, weekFaults>>

Revision == 1..Cardinality(WeekEdition)
Dispatcher == Key \cup {ContentWorker}
Locale == {"en", "zh-CN"}

WeekTypeOK ==
    /\ published \in [WeekEdition -> Revision \cup {0}]
    /\ command \in [Key -> Revision \cup {0}]
    /\ active \in Revision \cup {0} /\ latest \in Revision \cup {0}
    /\ outboxRow \in [Revision -> {"none", "pending", "delivered"}]
    /\ payload \in [Revision -> SUBSET Locale]
    /\ weekPointer \in Revision \cup {0}
    /\ publisher \in [Key -> {"idle", "en", "zh", "pointer", "dispatch"}]
    /\ batch \in [Dispatcher -> SUBSET Revision]
    /\ told \subseteq Revision
    /\ weekFaults \in 0..MaxWeekFaults

WeekInit ==
    /\ published = [e \in WeekEdition |-> 0]
    /\ command = [k \in Key |-> 0]
    /\ active = 0 /\ latest = 0
    /\ outboxRow = [n \in Revision |-> "none"]
    /\ payload = [n \in Revision |-> {}]
    /\ weekPointer = 0
    /\ publisher = [k \in Key |-> "idle"]
    /\ batch = [d \in Dispatcher |-> {}]
    /\ told = {}
    /\ weekFaults = 0

WeekFault == weekFaults < MaxWeekFaults /\ weekFaults' = weekFaults + 1
PublisherAt(k, from, to) == publisher[k] = from /\ publisher' = [publisher EXCEPT ![k] = to]

(***************************************************************************)
(* The publisher.                                                          *)
(***************************************************************************)

\* A key is reserved by the same command only; a new one performs it.
NotReserved(k) == command[k] = 0

\* Under the scope's lock: the next revision, the active row retired, the
\* publication, its payloads and its outbox row inserted.
persistWeekPublication(e) ==
    /\ latest' = latest + 1
    /\ active' = latest + 1
    /\ published' = [published EXCEPT ![e] = latest + 1]
    /\ outboxRow' = [outboxRow EXCEPT ![latest + 1] = "pending"]

\* The transaction of a new command on a READY edition.
publishFrozenWeekEdition(k, e) ==
    /\ NotReserved(k) /\ published[e] = 0
    /\ PublisherAt(k, "idle", "en")
    /\ persistWeekPublication(e)
    /\ command' = [command EXCEPT ![k] = latest + 1]
    /\ UNCHANGED <<redisWeek, batch, told, weekFaults>>

\* The client asks again under the same key: the persisted payloads are staged.
Replay(k) ==
    /\ ~NotReserved(k)
    /\ PublisherAt(k, "idle", "en")
    /\ UNCHANGED <<dbWeek, redisWeek, batch, told, weekFaults>>

StageLocale(k, l, from, to) ==
    /\ PublisherAt(k, from, to)
    /\ payload' = [payload EXCEPT ![command[k]] = @ \cup {l}]
    /\ UNCHANGED <<dbWeek, weekPointer, batch, told, weekFaults>>

\* stageWeekPublication writes the two payloads one after the other ...
stageWeekPublication(k) == StageLocale(k, "en", "en", "zh") \/ StageLocale(k, "zh-CN", "zh", "pointer")

\* ... and moves the pointer unless it names a later revision.
AnyRevision(k) == TRUE
NotStale(k) == weekPointer <= command[k]
compareAndSetWeekPointer(k) ==
    /\ PublisherAt(k, "pointer", "dispatch")
    /\ weekPointer' = IF NotStale(k) THEN command[k] ELSE weekPointer
    /\ UNCHANGED <<dbWeek, payload, batch, told, weekFaults>>

StageFailureIgnored(k) ==
    /\ publisher[k] \in {"en", "zh"}
    /\ PublisherAt(k, publisher[k], "pointer")
    /\ WeekFault
    /\ UNCHANGED <<dbWeek, redisWeek, batch, told>>

\* A Redis call fails: PostgreSQL stays authoritative, the outbox is dispatched.
StageFails(k) ==
    /\ publisher[k] \in {"en", "zh", "pointer"}
    /\ PublisherAt(k, publisher[k], "dispatch")
    /\ WeekFault
    /\ UNCHANGED <<dbWeek, redisWeek, batch, told>>

\* The publisher's process ends anywhere; the client may ask again.
PublisherCrash(k) ==
    /\ publisher[k] # "idle"
    /\ WeekFault
    /\ publisher' = [publisher EXCEPT ![k] = "idle"]
    /\ batch' = [batch EXCEPT ![k] = {}]
    /\ UNCHANGED <<dbWeek, redisWeek, told>>

(***************************************************************************)
(* dispatchPublicationOutbox.                                              *)
(***************************************************************************)
Pending == {n \in Revision : outboxRow[n] = "pending"}

\* The undelivered rows are listed, without a claim: dispatchers overlap.
ListOutbox(d) ==
    /\ d \in Key => publisher[d] = "dispatch"
    /\ batch[d] = {} /\ Pending # {}
    /\ batch' = [batch EXCEPT ![d] = Pending]
    /\ UNCHANGED <<dbWeek, redisWeek, publisher, told, weekFaults>>

\* The oldest listed row is posted to the web and then marked delivered.
dispatchPublicationOutbox(d, n) ==
    /\ n \in batch[d] /\ \A m \in batch[d] : n <= m
    /\ told' = told \cup {n}
    /\ outboxRow' = [outboxRow EXCEPT ![n] = "delivered"]
    /\ batch' = [batch EXCEPT ![d] = @ \ {n}]
    /\ UNCHANGED <<published, command, active, latest, redisWeek, publisher, weekFaults>>

MarkedBeforePosting(d, n) ==
    /\ n \in batch[d] /\ \A m \in batch[d] : n <= m
    /\ WeekFault
    /\ outboxRow' = [outboxRow EXCEPT ![n] = "delivered"]
    /\ batch' = [batch EXCEPT ![d] = @ \ {n}]
    /\ UNCHANGED <<published, command, active, latest, redisWeek, publisher, told>>

\* The call fails, or the web was told and marking the row failed.
DispatchFails(d, n) ==
    /\ n \in batch[d] /\ \A m \in batch[d] : n <= m
    /\ WeekFault
    /\ told' \in {told, told \cup {n}}
    /\ batch' = [batch EXCEPT ![d] = @ \ {n}]
    /\ UNCHANGED <<dbWeek, redisWeek, publisher>>

\* The publisher answers its client once its dispatch is through.
Answer(k) ==
    /\ batch[k] = {}
    /\ PublisherAt(k, "dispatch", "idle")
    /\ UNCHANGED <<dbWeek, redisWeek, batch, told, weekFaults>>

WorkerDispatches ==
    ListOutbox(ContentWorker) \/ \E n \in Revision : dispatchPublicationOutbox(ContentWorker, n)

WeekNext ==
    \/ \E k \in Key : \/ \E e \in WeekEdition : publishFrozenWeekEdition(k, e)
                      \/ Replay(k) \/ stageWeekPublication(k) \/ compareAndSetWeekPointer(k)
                      \/ StageFails(k) \/ PublisherCrash(k) \/ Answer(k)
    \/ \E d \in Dispatcher : \/ ListOutbox(d)
                             \/ \E n \in Revision : dispatchPublicationOutbox(d, n) \/ DispatchFails(d, n)

WeekSpec == WeekInit /\ [][WeekNext]_weekVars

\* The content worker's dispatcher runs every 30 seconds; publishers may stop.
WeekFairSpec == WeekSpec /\ WF_weekVars(WorkerDispatches)

(***************************************************************************)
(* Properties.                                                             *)
(***************************************************************************)

\* Readers of the pointer always find both locales of the revision it names,
\* whatever publishers crash, repeat or overlap (stageWeekPublication).
WeekPointerReadable == weekPointer # 0 => payload[weekPointer] = Locale

\* A repeated or slow command of an earlier revision never takes the pointer
\* back (ACTIVE_POINTER_CAS_SCRIPT).
WeekPointerNeverGoesBack == [][weekPointer <= weekPointer']_weekVars

\* However often commands are repeated, an edition has one publication: every
\* revision belongs to exactly one edition (publishFrozenWeekEdition).
OneRevisionPerEdition ==
    \A n \in 1..latest : Cardinality({e \in WeekEdition : published[e] = n}) = 1
                             /\ Cardinality({k \in Key : command[k] = n}) = 1

\* The web is told of every publication in the end, also when its publisher
\* died before dispatching (dispatchPublicationOutbox).
WebIsTold == \A n \in Revision : outboxRow[n] = "pending" ~> n \in told

\* The publication's invariant: what the pointer names can be read, and every
\* edition has one revision.
WeekInv == WeekTypeOK /\ WeekPointerReadable /\ OneRevisionPerEdition
=============================================================================
