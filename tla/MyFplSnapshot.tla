---------------------------- MODULE MyFplSnapshot ----------------------------
(***************************************************************************)
(* Publication of My FPL snapshots of one event                            *)
(* (services/my-fpl-snapshot-publication.service.ts), and the deletion of  *)
(* a tournament the snapshots contain (repositories/tournament-            *)
(* management.ts deleteOwned).                                             *)
(*                                                                         *)
(* A capture is a REPEATABLE READ transaction.  Its snapshot is taken when *)
(* it asks for the advisory lock, so what it reads may be old by the time  *)
(* the lock is granted.  Deliveries to Redis hold the lock over the script *)
(* and the receipt.  A deletion locks the tournament's row first and the   *)
(* advisory lock afterwards; the foreign key of the snapshot rows makes a  *)
(* capture ask for them in the opposite order.                             *)
(***************************************************************************)
EXTENDS Naturals, FiniteSets

CONSTANTS Capturer,          \* snapshot jobs and operators that may overlap
          SnapDispatcher,    \* dispatchers of the outbox
          SnapDate,          \* days on which captures run
          OverrideKey,       \* idempotency keys of explicit FINAL overrides
          MaxSnapRevision,   \* values of the revision sequence
          MaxSnapFaults      \* crashes, lost answers, early lease ends

ASSUME SnapAssumption == SnapDate # {} /\ MaxSnapRevision \in Nat /\ MaxSnapFaults \in Nat

VARIABLES pub,         \* competition.my_fpl_snapshot_publications by revision
          outbox,      \* competition.my_fpl_snapshot_publication_outbox
          lastRev,     \* the revision sequence
          manifest,    \* Redis: the revision of the active manifest; 0: none
          tournament,  \* whether the tournament's row exists
          cap,         \* captures
          disp,        \* dispatchers
          deleter,     \* deleteOwned
          snapFaults

snapVars == <<pub, outbox, lastRev, manifest, tournament, cap, disp, deleter, snapFaults>>

NoKey == "no key"
SnapRevision == 1..MaxSnapRevision
Request == [kind: {"PROVISIONAL"}, date: SnapDate, key: {NoKey}]
           \cup [kind: {"FINAL"}, date: {CHOOSE d \in SnapDate : TRUE}, key: OverrideKey \cup {NoKey}]
Publication == [kind: {"PROVISIONAL", "FINAL"}, date: SnapDate, key: OverrideKey \cup {NoKey},
                active: BOOLEAN, withTournament: BOOLEAN]
NoPublication == [active |-> FALSE]
NoOutbox == [status |-> "none"]
IdleCapture == [step |-> "idle"]
IdleDispatch == [step |-> "idle"]

Exists(n) == pub[n] # NoPublication
ActiveRevs == {n \in SnapRevision : pub[n].active}
ActiveRev == IF ActiveRevs = {} THEN 0 ELSE CHOOSE n \in ActiveRevs : TRUE

SnapTypeOK ==
    /\ pub \in [SnapRevision -> {NoPublication} \cup Publication]
    /\ outbox \in [SnapRevision -> {NoOutbox} \cup
          [status: {"PENDING", "PROCESSING", "DELIVERED", "SUPERSEDED"},
           owner: SnapDispatcher \cup {"none"}]]
    /\ lastRev \in 0..MaxSnapRevision
    /\ manifest \in 0..MaxSnapRevision
    /\ tournament \in BOOLEAN
    /\ \A c \in Capturer : cap[c].step \in {"idle", "waiting", "holding", "inserted"}
    /\ \A d \in SnapDispatcher : disp[d].step \in {"idle", "claimed", "activated"}
    /\ deleter.step \in {"idle", "rowLocked", "advisory", "invalidate", "done"}
    /\ snapFaults \in 0..MaxSnapFaults

SnapInit ==
    /\ pub = [n \in SnapRevision |-> NoPublication]
    /\ outbox = [n \in SnapRevision |-> NoOutbox]
    /\ lastRev = 0 /\ manifest = 0
    /\ tournament = TRUE
    /\ cap = [c \in Capturer |-> IdleCapture]
    /\ disp = [d \in SnapDispatcher |-> IdleDispatch]
    /\ deleter = [step |-> "idle"]
    /\ snapFaults = 0

SnapFault == snapFaults < MaxSnapFaults /\ snapFaults' = snapFaults + 1

\* pg_advisory_xact_lock of the event, held to the end of the transaction
AdvisoryFree ==
    /\ \A c \in Capturer : cap[c].step \notin {"holding", "inserted"}
    /\ \A d \in SnapDispatcher : disp[d].step # "activated"
    /\ deleter.step = "advisory" => ~deleter.found
-----------------------------------------------------------------------------
(* captureMyFplSnapshot                                                    *)

\* What the reads of a capture return: the state at its BEGIN.
Reads(req) ==
    [step |-> "waiting", req |-> req, sawRev |-> ActiveRev,
     saw |-> IF ActiveRev = 0 THEN NoPublication ELSE pub[ActiveRev],
     sawTournament |-> tournament, rev |-> 0]

\* BEGIN: the snapshot of the transaction sees the committed state.
CaptureBegins(c, req) ==
    /\ cap[c] = IdleCapture
    /\ cap' = [cap EXCEPT ![c] = Reads(req)]
    /\ UNCHANGED <<pub, outbox, lastRev, manifest, tournament, disp, deleter, snapFaults>>

\* An active FINAL gives way to an override under
\* a new key only, a PROVISIONAL of the same day to FINAL only.
AnyKindReplaces(saw, req) == FALSE
IsNoop(saw, req) ==
    /\ saw # NoPublication
    /\ \/ saw.kind = "FINAL" /\ (req.key = NoKey \/ req.key = saw.key)
       \/ saw.kind = "PROVISIONAL" /\ req.kind = "PROVISIONAL" /\ req.date = saw.date

CaptureLocked(c) ==
    /\ cap[c].step = "waiting" /\ AdvisoryFree
    /\ IF IsNoop(cap[c].saw, cap[c].req)
       THEN cap' = [cap EXCEPT ![c] = IdleCapture]
       ELSE cap' = [cap EXCEPT ![c] = [@ EXCEPT !.step = "holding"]]
    /\ UNCHANGED <<pub, outbox, lastRev, manifest, tournament, disp, deleter, snapFaults>>

\* The rows are inserted; their foreign key asks for a key-share lock of the
\* tournament, which a deletion in progress refuses.
NoForeignKey == TRUE
RowLockFree == deleter.step \notin {"rowLocked", "advisory"}
CaptureInserts(c) ==
    /\ cap[c].step = "holding" /\ lastRev < MaxSnapRevision
    /\ lastRev' = lastRev + 1
    /\ cap[c].sawTournament => RowLockFree
    /\ cap' = [cap EXCEPT ![c] = IF cap[c].sawTournament /\ ~tournament THEN IdleCapture
                                 ELSE [@ EXCEPT !.step = "inserted", !.rev = lastRev + 1]]
    /\ UNCHANGED <<pub, outbox, manifest, tournament, disp, deleter, snapFaults>>

\* The entries, tournament rows and aggregates of the revision, as they were read.
Payload(c) ==
    [kind |-> cap[c].req.kind, date |-> cap[c].req.date, key |-> cap[c].req.key,
     active |-> TRUE, withTournament |-> cap[c].sawTournament]

\* COMMIT.  The active row is retired: when it is no longer the one the
\* snapshot saw, the update or the unique index of active rows fails.
\* Inactive rows older than a day go, with their outbox rows.
SnapshotStale(c) == ActiveRev # cap[c].sawRev
CaptureCommits(c, old) ==
    /\ cap[c].step = "inserted"
    /\ old \subseteq {n \in SnapRevision : Exists(n) /\ ~pub[n].active}
    /\ IF SnapshotStale(c)
       THEN UNCHANGED <<pub, outbox>>
       ELSE /\ pub' = [n \in SnapRevision |->
                 IF n \in old THEN NoPublication
                 ELSE IF n = cap[c].rev THEN Payload(c)
                 ELSE IF pub[n].active THEN [pub[n] EXCEPT !.active = FALSE] ELSE pub[n]]
            /\ outbox' = [n \in SnapRevision |->
                 IF n \in old THEN NoOutbox
                 ELSE IF n = cap[c].rev THEN [status |-> "PENDING", owner |-> "none"] ELSE outbox[n]]
    /\ cap' = [cap EXCEPT ![c] = IdleCapture]
    /\ UNCHANGED <<lastRev, manifest, tournament, disp, deleter, snapFaults>>

\* The event is before its deadline or, for FINAL, not finished and checked, a
\* source is incomplete, the process dies, or the deadlock with a deletion
\* is broken here: the transaction leaves nothing.
CaptureAborts(c) ==
    /\ cap[c] # IdleCapture /\ SnapFault
    /\ cap' = [cap EXCEPT ![c] = IdleCapture]
    /\ UNCHANGED <<pub, outbox, lastRev, manifest, tournament, disp, deleter>>
-----------------------------------------------------------------------------
(* dispatchMyFplSnapshotPublicationOutbox                                  *)

\* Rows of inactive publications are superseded, the active one is claimed
\* unless another dispatcher holds its lease.
Superseding == [n \in SnapRevision |->
    IF outbox[n].status \in {"PENDING", "PROCESSING"} /\ Exists(n) /\ ~pub[n].active
    THEN [status |-> "SUPERSEDED", owner |-> "none"] ELSE outbox[n]]
ClaimOutbox(d) ==
    /\ disp[d] = IdleDispatch
    /\ \E n \in ActiveRevs :
        /\ outbox[n].status = "PENDING"
        /\ outbox' = [Superseding EXCEPT ![n] = [status |-> "PROCESSING", owner |-> d]]
        /\ disp' = [disp EXCEPT ![d] = [step |-> "claimed", rev |-> n]]
    /\ UNCHANGED <<pub, lastRev, manifest, tournament, cap, deleter, snapFaults>>

\* The two minutes of a lease run out: always once the dispatcher is gone,
\* at the cost of a fault while it is only slow.
SnapLeaseEnds(n) ==
    /\ outbox[n].status = "PROCESSING"
    /\ IF disp[outbox[n].owner].step # "idle" /\ disp[outbox[n].owner].rev = n
       THEN SnapFault ELSE UNCHANGED snapFaults
    /\ outbox' = [outbox EXCEPT ![n] = [status |-> "PENDING", owner |-> "none"]]
    /\ UNCHANGED <<pub, lastRev, manifest, tournament, cap, disp, deleter>>

\* Under the advisory lock: the claim and the active flag are read again.
OwnsActive(d) ==
    LET n == disp[d].rev IN
    outbox[n] # NoOutbox /\ outbox[n].owner = d /\ pub[n].active
\* MY_FPL_SNAPSHOT_REDIS_ACTIVATE_SCRIPT
DeliveryLocks(d) ==
    /\ disp[d].step = "claimed" /\ AdvisoryFree
    /\ LET n == disp[d].rev IN
       IF OwnsActive(d) /\ manifest <= n
       THEN /\ manifest' = n
            /\ disp' = [disp EXCEPT ![d] = [@ EXCEPT !.step = "activated"]]
            /\ UNCHANGED outbox
       ELSE /\ outbox' = IF outbox[n] # NoOutbox /\ outbox[n].owner = d
                         THEN [outbox EXCEPT ![n] = [status |-> "SUPERSEDED", owner |-> "none"]]
                         ELSE outbox
            /\ disp' = [disp EXCEPT ![d] = IdleDispatch]
            /\ UNCHANGED manifest
    /\ UNCHANGED <<pub, lastRev, tournament, cap, deleter, snapFaults>>

DeliveryCommits(d) ==
    /\ disp[d].step = "activated"
    /\ LET n == disp[d].rev IN
       outbox' = IF outbox[n] # NoOutbox /\ outbox[n].owner = d
                 THEN [outbox EXCEPT ![n] = [status |-> "DELIVERED", owner |-> "none"]] ELSE outbox
    /\ disp' = [disp EXCEPT ![d] = IdleDispatch]
    /\ UNCHANGED <<pub, lastRev, manifest, tournament, cap, deleter, snapFaults>>

\* Redis or the receipt fails: releaseMyFplSnapshotOutbox gives the row back.
\* A dispatcher that died leaves its lease instead.
DeliveryFails(d) ==
    /\ disp[d] # IdleDispatch /\ SnapFault
    /\ LET n == disp[d].rev IN
       \/ UNCHANGED outbox
       \/ /\ outbox[n] # NoOutbox /\ outbox[n].owner = d
          /\ outbox' = [outbox EXCEPT ![n] = [status |-> "PENDING", owner |-> "none"]]
    /\ disp' = [disp EXCEPT ![d] = IdleDispatch]
    /\ UNCHANGED <<pub, lastRev, manifest, tournament, cap, deleter>>
-----------------------------------------------------------------------------
(* deleteOwned                                                             *)

Containing == {n \in SnapRevision : Exists(n) /\ pub[n].withTournament}

\* SELECT ... FOR UPDATE waits for the key-share locks of running captures.
DeleteLocksRow ==
    /\ deleter.step = "idle"
    /\ \A c \in Capturer : ~(cap[c].step = "inserted" /\ cap[c].sawTournament)
    /\ deleter' = [step |-> "rowLocked", found |-> Containing # {}]
    /\ UNCHANGED <<pub, outbox, lastRev, manifest, tournament, cap, disp, snapFaults>>

\* Only an event with a publication of the tournament is locked.
DeleteLocksEvent ==
    /\ deleter.step = "rowLocked" /\ (deleter.found => AdvisoryFree)
    /\ deleter' = [deleter EXCEPT !.step = "advisory"]
    /\ UNCHANGED <<pub, outbox, lastRev, manifest, tournament, cap, disp, snapFaults>>

deleteOwned ==
    /\ deleter.step = "advisory"
    /\ pub' = [n \in SnapRevision |-> IF n \in Containing THEN NoPublication ELSE pub[n]]
    /\ outbox' = [n \in SnapRevision |-> IF n \in Containing THEN NoOutbox ELSE outbox[n]]
    /\ tournament' = FALSE
    /\ deleter' = [step |-> "invalidate", revs |-> Containing \cap ActiveRevs]
    /\ UNCHANGED <<lastRev, manifest, cap, disp, snapFaults>>

\* MY_FPL_SNAPSHOT_REDIS_INVALIDATE_SCRIPT, after the commit: a manifest of
\* another revision is left alone.
invalidateMyFplSnapshotRedisManifest ==
    /\ deleter.step = "invalidate"
    /\ manifest' = IF manifest \in deleter.revs THEN 0 ELSE manifest
    /\ deleter' = [step |-> "done"]
    /\ UNCHANGED <<pub, outbox, lastRev, tournament, cap, disp, snapFaults>>

DeleteFails ==
    /\ deleter.step \in {"rowLocked", "advisory", "invalidate"} /\ SnapFault
    /\ deleter' = [step |-> IF deleter.step = "invalidate" THEN "done" ELSE "idle"]
    /\ UNCHANGED <<pub, outbox, lastRev, manifest, tournament, cap, disp>>
-----------------------------------------------------------------------------
SnapNext ==
    \/ \E c \in Capturer :
        \/ \E req \in Request : CaptureBegins(c, req)
        \/ CaptureLocked(c)
        \/ CaptureInserts(c)
        \/ \E old \in SUBSET SnapRevision : CaptureCommits(c, old)
        \/ CaptureAborts(c)
    \/ \E d \in SnapDispatcher :
        \/ ClaimOutbox(d) \/ DeliveryLocks(d) \/ DeliveryCommits(d) \/ DeliveryFails(d)
    \/ \E n \in SnapRevision : SnapLeaseEnds(n)
    \/ DeleteLocksRow \/ DeleteLocksEvent \/ deleteOwned
    \/ invalidateMyFplSnapshotRedisManifest \/ DeleteFails

SnapSpec == SnapInit /\ [][SnapNext]_snapVars
-----------------------------------------------------------------------------
\* However captures overlap and however old their snapshots are, an event has
\* one active publication, and a FINAL one is never replaced by a PROVISIONAL.
FinalNeverDowngraded ==
    [][\A n, m \in SnapRevision :
         pub[n].active /\ pub'[m].active /\ n # m =>
            ~pub'[n].active /\ (pub[n].kind = "FINAL" => pub'[m].kind = "FINAL")]_snapVars

\* No snapshot shows a tournament that has been deleted: neither a capture
\* that read the tournament before, nor one that committed during the deletion.
NoSnapshotOfDeletedTournament == ~tournament => Containing = {}

\* Only an active publication is promoted, and never over a later one: what
\* Redis points at was active when the script ran (the deliveries keep the
\* advisory lock for this).
PromotedWhenActive ==
    [][manifest' # manifest /\ manifest' # 0 =>
         manifest < manifest' /\ pub[manifest'].active /\ pub'[manifest'].active]_snapVars

\* The snapshot tables' invariant.
SnapInv == SnapTypeOK /\ NoSnapshotOfDeletedTournament

\* What no capture and no delivery does: replace a final publication by a
\* provisional one, or promote one that is not active.
SnapSteps == FinalNeverDowngraded /\ PromotedWhenActive
=============================================================================
