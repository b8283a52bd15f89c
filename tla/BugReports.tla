----------------------------- MODULE BugReports -----------------------------
(***************************************************************************)
(* Bug reports: submission, status changes, retention clean-up, the        *)
(* migration of legacy screenshots and the purge of private screenshots    *)
(* (repositories/bug-reports.ts and the three services that drive it).     *)
(*                                                                         *)
(* Every repository function is one transaction and takes the advisory     *)
(* locks of the public id and of the locator before it reads what it       *)
(* decides on, so each is one action; the remote storage calls lie between *)
(* two transactions, so each job is a program counter that can be lost at  *)
(* any point.  A locator is <<s, 0>>, the legacy object of source s, or    *)
(* <<s, 1>>, its migrated copy.  The private object of a report is named   *)
(* by its submission id, here the report itself.                           *)
(***************************************************************************)
EXTENDS Naturals, FiniteSets

CONSTANTS Report,            \* report rows that can be submitted
          PublicId,          \* ids createPublicBugReportId may draw
          Private,           \* reports whose client uploads to the private bucket
          Source,            \* legacy screenshot objects
          MaxStorageFaults,  \* failed or lost storage answers and lost jobs
          MaxReopens         \* status changes back to open

Locator == Source \X {0, 1}
NoUrl == <<>>
NoReport == "no report"
AbsentRow == [pub |-> NoReport]
NoClaim == [pub |-> NoReport]
Idle == [step |-> "idle"]

\* Submission ids, public ids and locators are different kinds of values.
ASSUME ReportAssumption ==
    /\ Private \subseteq Report
    /\ NoReport \notin Report /\ NoReport \notin PublicId
    /\ Report \cap Locator = {}
    /\ MaxStorageFaults \in Nat /\ MaxReopens \in Nat

VARIABLES reportRow,    \* ops.bug_reports
          claim,        \* ops.bug_report_retention_backups
          migration,    \* ops.bug_report_storage_migrations by source
          storedUrl,    \* objects of the public bucket and its replacement
          storedKey,    \* objects of the private bucket
          keyOld,       \* private objects older than the screenshot cutoff
          cleaner,      \* runBugReportCleanup
          migrator,     \* runBugReportStorageMigration
          purger,       \* runBugReportScreenshotRetention
          publicOwner,  \* history: the report a public id was first given to
          named,        \* history: the screenshots a submitted report named
          storageFaults, reopens

reportVars == <<reportRow, claim, migration, storedUrl, storedKey, keyOld, cleaner,
                migrator, purger, publicOwner, named, storageFaults, reopens>>

NewRow(p, u, k) == [pub |-> p, url |-> u, key |-> k, keyDeleted |-> FALSE, status |-> "open",
                    due |-> "no", scrubbed |-> FALSE]
NewClaim(p, u, k) == [pub |-> p, url |-> u, hashed |-> FALSE, key |-> k,
                      started |-> FALSE, deleted |-> FALSE]
Live(r) == reportRow[r] # AbsentRow
ReportClaimed(r) == claim[r] # NoClaim

\* The row is past expires_at: the 180 days of every report, or the 30 days
\* of a closed one.
Expired(r) == Live(r) /\ (reportRow[r].due = "hard" \/ (reportRow[r].due = "closed" /\ reportRow[r].status = "closed"))

ReportTypeOK ==
    /\ reportRow \in [Report -> {AbsentRow} \cup
          [pub: PublicId, url: {NoUrl} \cup Locator, key: BOOLEAN, keyDeleted: BOOLEAN,
           status: {"open", "closed"}, due: {"no", "closed", "hard"}, scrubbed: BOOLEAN]]
    /\ claim \in [Report -> {NoClaim} \cup
          [pub: PublicId, url: {NoUrl} \cup Locator, hashed: BOOLEAN, key: BOOLEAN,
           started: BOOLEAN, deleted: BOOLEAN]]
    /\ migration \in [Source -> {"none", "started", "deleted"}]
    /\ storedUrl \subseteq Locator
    /\ storedKey \subseteq Private /\ keyOld \subseteq Private
    /\ cleaner.step \in {"idle", "claimed", "deleting", "confirmed"}
    /\ migrator.step \in {"idle", "deleting", "confirmed"}
    /\ purger.step \in {"idle", "deleting", "confirmed"}
    /\ publicOwner \in [PublicId -> Report \cup {NoReport}]
    /\ named \subseteq Private \cup Locator
    /\ storageFaults \in 0..MaxStorageFaults /\ reopens \in 0..MaxReopens

\* Both kinds of screenshot have been uploaded before a report names them.
ReportInit ==
    /\ reportRow = [r \in Report |-> AbsentRow]
    /\ claim = [r \in Report |-> NoClaim]
    /\ migration = [s \in Source |-> "none"]
    /\ storedUrl = Source \X {0}
    /\ storedKey = Private /\ keyOld = {}
    /\ cleaner = Idle /\ migrator = Idle /\ purger = Idle
    /\ publicOwner = [p \in PublicId |-> NoReport]
    /\ named = {}
    /\ storageFaults = 0 /\ reopens = 0
-----------------------------------------------------------------------------
\* Registry checks of insert.  A locator is retired once a retention claim or
\* a migration of it has started to delete the object, by exact value or hash.
\* Mutant (LocatorDeleted): only finished deletions retire.
PublicIdRetired(p) == \E r \in Report : claim[r].pub = p
LocatorDeleted(u) ==
    \/ \E r \in Report : ReportClaimed(r) /\ claim[r].url = u /\ claim[r].deleted
    \/ u[2] = 0 /\ migration[u[1]] = "deleted"
LocatorRetired(u) ==
    \/ \E r \in Report : ReportClaimed(r) /\ claim[r].url = u /\ (claim[r].started \/ claim[r].deleted)
    \/ u[2] = 0 /\ migration[u[1]] # "none"

\* createBugReport and insert.  The submission id makes a retry return the
\* stored row, so a report is inserted at most once while its row lives and
\* not at all after its backup has retired the submission.
insert(r, p, u, k) ==
    /\ ~Live(r) /\ ~ReportClaimed(r)
    /\ ~PublicIdRetired(p) /\ \A q \in Report : reportRow[q].pub # p
    /\ (u # NoUrl) => (~LocatorRetired(u) /\ ~k)
    /\ reportRow' = [reportRow EXCEPT ![r] = NewRow(p, u, k)]
    /\ publicOwner' = [publicOwner EXCEPT ![p] = IF @ = NoReport THEN r ELSE @]
    /\ named' = named \cup (IF k THEN {r} ELSE {}) \cup (IF u # NoUrl THEN {u} ELSE {})
    /\ UNCHANGED <<claim, migration, storedUrl, storedKey, keyOld, cleaner, migrator, purger,
                   storageFaults, reopens>>

\* A client names an object it once uploaded, however long ago.
Submit(r) ==
    \E p \in PublicId, u \in {NoUrl} \cup (Source \X {0}), k \in BOOLEAN :
        /\ k => r \in Private
        /\ insert(r, p, u, k)

\* The locator a status change writes back: a claim that has not begun to
\* delete is withdrawn and its locator, or the migrated copy, restored.
RestoredUrl(r) ==
    LET c == claim[r] IN
    IF ~ReportClaimed(r) \/ c.url = NoUrl \/ c.hashed THEN reportRow[r].url
    ELSE IF c.started /\ ~c.deleted THEN NoUrl
    ELSE IF c.url[2] = 0 /\ migration[c.url[1]] # "none" THEN <<c.url[1], 1>>
    ELSE IF c.deleted THEN NoUrl ELSE c.url
WithdrawsClaim(r) ==
    /\ ReportClaimed(r) /\ claim[r].url # NoUrl /\ ~claim[r].hashed
    /\ ~(claim[r].started /\ ~claim[r].deleted)
    /\ ~claim[r].deleted \/ (claim[r].url[2] = 0 /\ migration[claim[r].url[1]] # "none")

\* updateStatus; a scrubbed report refuses every transition.
updateStatus(r, status) ==
    /\ Live(r) /\ ~reportRow[r].scrubbed /\ status # reportRow[r].status
    /\ status = "open" => reopens < MaxReopens
    /\ reopens' = IF status = "open" THEN reopens + 1 ELSE reopens
    /\ reportRow' = [reportRow EXCEPT ![r].status = status, ![r].url = RestoredUrl(r),
                          ![r].due = IF @ = "hard" THEN @ ELSE "no"]
    /\ claim' = IF WithdrawsClaim(r) THEN [claim EXCEPT ![r] = NoClaim] ELSE claim
    /\ UNCHANGED <<migration, storedUrl, storedKey, keyOld, cleaner, migrator, purger,
                   publicOwner, named, storageFaults>>

\* Time: a deadline of retentionDeadline passes, a private object reaches the
\* screenshot cutoff.
Age(r) ==
    /\ \/ \E d \in {"closed", "hard"} :
            /\ Live(r) /\ reportRow[r].due # "hard" /\ reportRow[r].due # d
            /\ d = "closed" => reportRow[r].status = "closed"
            /\ reportRow' = [reportRow EXCEPT ![r].due = d] /\ UNCHANGED keyOld
       \/ r \in Private /\ keyOld' = keyOld \cup {r} /\ UNCHANGED reportRow
    /\ UNCHANGED <<claim, migration, storedUrl, storedKey, cleaner, migrator, purger,
                   publicOwner, named, storageFaults, reopens>>
-----------------------------------------------------------------------------
(* runBugReportCleanup                                                     *)

\* claimForDeletion.  A private key moves into the backup and the row goes; a
\* locator moves into the backup and the row is scrubbed.
KeptKey(r) == reportRow[r].key /\ ~reportRow[r].keyDeleted
claimForDeletion(r) ==
    /\ cleaner = Idle /\ Expired(r)
    /\ LET c == IF ReportClaimed(r) THEN claim[r] ELSE NewClaim(reportRow[r].pub, reportRow[r].url, KeptKey(r))
       IN IF reportRow[r].key /\ ~reportRow[r].keyDeleted
          THEN /\ claim' = [claim EXCEPT ![r] = [c EXCEPT !.key = KeptKey(r)]]
               /\ reportRow' = [reportRow EXCEPT ![r] = AbsentRow]
               /\ UNCHANGED cleaner
          ELSE /\ claim' = [claim EXCEPT ![r] = c]
               /\ reportRow' = IF reportRow[r].url = NoUrl THEN reportRow
                         ELSE [reportRow EXCEPT ![r].url = NoUrl, ![r].scrubbed = TRUE]
               /\ cleaner' = [step |-> "claimed", r |-> r,
                              url |-> IF c.deleted \/ c.hashed THEN NoUrl ELSE c.url]
    /\ UNCHANGED <<migration, storedUrl, storedKey, keyOld, migrator, purger, publicOwner, named,
                   storageFaults, reopens>>

\* prepareClaimedDeletion: another live reference keeps the object and only
\* this report goes; otherwise the delete is fenced before it is sent.
OtherReference(u) == \E q \in Report : Live(q) /\ reportRow[q].url = u
NotToDelete(r) == ~Expired(r) \/ ~ReportClaimed(r)
prepareClaimedDeletion ==
    /\ cleaner.step = "claimed"
    /\ LET r == cleaner.r
           u == IF claim[r] = NoClaim \/ claim[r].hashed THEN NoUrl ELSE claim[r].url IN
       IF NotToDelete(r)
       THEN cleaner' = Idle /\ UNCHANGED <<reportRow, claim>>
       ELSE IF claim[r].deleted \/ u = NoUrl
       THEN /\ reportRow' = [reportRow EXCEPT ![r] = AbsentRow]
            /\ claim' = [claim EXCEPT ![r].hashed = u # NoUrl]
            /\ cleaner' = Idle
       ELSE IF ~claim[r].started /\ OtherReference(u)
       THEN /\ reportRow' = [reportRow EXCEPT ![r] = AbsentRow]
            /\ claim' = [claim EXCEPT ![r].url = NoUrl]
            /\ cleaner' = Idle
       ELSE /\ claim' = [claim EXCEPT ![r].started = TRUE]
            /\ cleaner' = [cleaner EXCEPT !.step = "deleting"]
            /\ UNCHANGED reportRow
    /\ UNCHANGED <<migration, storedUrl, storedKey, keyOld, migrator, purger, publicOwner, named,
                   storageFaults, reopens>>

\* A storage delete: it removes the object (or finds it missing) and says so.
\* Otherwise, at the cost of a fault, the answer is lost with or without the
\* object, and the job leaves the item for the next run.
deleteScreenshot ==
    /\ cleaner.step = "deleting"
    /\ storedUrl' = storedUrl \ {cleaner.url}
    /\ cleaner' = [cleaner EXCEPT !.step = "confirmed"]
    /\ UNCHANGED <<reportRow, claim, migration, storedKey, keyOld, migrator, purger, publicOwner, named,
                   storageFaults, reopens>>

\* completeClaimedDeletion
completeClaimedDeletion ==
    /\ cleaner.step = "confirmed" /\ cleaner' = Idle
    /\ LET r == cleaner.r IN
       IF Expired(r) /\ ReportClaimed(r) /\ (claim[r].url = NoUrl \/ claim[r].started \/ claim[r].deleted)
       THEN /\ claim' = [claim EXCEPT ![r].deleted = claim[r].url # NoUrl,
                                      ![r].hashed = claim[r].url # NoUrl]
            /\ reportRow' = [reportRow EXCEPT ![r] = AbsentRow]
       ELSE UNCHANGED <<reportRow, claim>>
    /\ UNCHANGED <<migration, storedUrl, storedKey, keyOld, migrator, purger, publicOwner, named,
                   storageFaults, reopens>>
-----------------------------------------------------------------------------
(* runBugReportStorageMigration                                            *)

\* The first transaction of migrateAndDeleteStorageLocator, for a candidate
\* some live row names or a migration whose delete is still pending: copy the
\* object under the fences unless a target is recorded, rewrite the rows and
\* record the pending delete.
Rewritten(s) == [r \in Report |-> IF Live(r) /\ reportRow[r].url = <<s, 0>>
                                  THEN [reportRow[r] EXCEPT !.url = <<s, 1>>] ELSE reportRow[r]]
migrateAndDeleteStorageLocator(s) ==
    /\ migrator = Idle /\ migration[s] # "deleted"
    /\ migration[s] = "started" \/ (OtherReference(<<s, 0>>) /\ <<s, 0>> \in storedUrl)
    /\ storedUrl' = IF migration[s] = "none" THEN storedUrl \cup {<<s, 1>>} ELSE storedUrl
    /\ migration' = [migration EXCEPT ![s] = "started"]
    /\ reportRow' = Rewritten(s)
    /\ migrator' = [step |-> "deleting", s |-> s]
    /\ UNCHANGED <<claim, storedKey, keyOld, cleaner, purger, publicOwner, named, storageFaults, reopens>>

MigrationDeletesSource ==
    /\ migrator.step = "deleting"
    /\ storedUrl' = storedUrl \ {<<migrator.s, 0>>}
    /\ migrator' = [migrator EXCEPT !.step = "confirmed"]
    /\ UNCHANGED <<reportRow, claim, migration, storedKey, keyOld, cleaner, purger, publicOwner, named,
                   storageFaults, reopens>>

MigrationMarksDeleted ==
    /\ migrator.step = "confirmed" /\ migrator' = Idle
    /\ migration' = [migration EXCEPT ![migrator.s] = "deleted"]
    /\ UNCHANGED <<reportRow, claim, storedUrl, storedKey, keyOld, cleaner, purger, publicOwner, named,
                   storageFaults, reopens>>
-----------------------------------------------------------------------------
(* runBugReportScreenshotRetention                                         *)

\* The private keys of rows and backups that are not marked deleted, and the
\* orphans of the bucket that neither names.
Inventory == {r \in Report : \/ Live(r) /\ reportRow[r].key /\ ~reportRow[r].keyDeleted
                             \/ ReportClaimed(r) /\ claim[r].key /\ ~claim[r].deleted}

RetentionPicks(r) ==
    /\ purger = Idle /\ r \in keyOld
    /\ r \in Inventory \/ r \in storedKey
    /\ purger' = [step |-> "deleting", r |-> r, orphan |-> r \notin Inventory]
    /\ UNCHANGED <<reportRow, claim, migration, storedUrl, storedKey, keyOld, cleaner, migrator,
                   publicOwner, named, storageFaults, reopens>>

RetentionRemoves ==
    /\ purger.step = "deleting"
    /\ storedKey' = storedKey \ {purger.r}
    /\ purger' = IF purger.orphan THEN Idle ELSE [purger EXCEPT !.step = "confirmed"]
    /\ UNCHANGED <<reportRow, claim, migration, storedUrl, keyOld, cleaner, migrator, publicOwner, named,
                   storageFaults, reopens>>

\* The row and the backup of one id are marked together: the report may have
\* been claimed since it was listed.
markScreenshotDeleted ==
    /\ purger.step = "confirmed" /\ purger' = Idle
    /\ LET r == purger.r IN
       /\ reportRow' = IF Live(r) THEN [reportRow EXCEPT ![r].key = FALSE, ![r].keyDeleted = TRUE] ELSE reportRow
       /\ claim' = IF ReportClaimed(r) /\ claim[r].key
                   THEN [claim EXCEPT ![r].key = FALSE, ![r].deleted = TRUE, ![r].url = NoUrl]
                   ELSE claim
    /\ UNCHANGED <<migration, storedUrl, storedKey, keyOld, cleaner, migrator, publicOwner, named,
                   storageFaults, reopens>>
-----------------------------------------------------------------------------
\* A job dies or its storage call fails; the object may be gone all the same.
JobLost ==
    /\ storageFaults < MaxStorageFaults /\ storageFaults' = storageFaults + 1
    /\ \/ /\ cleaner # Idle /\ cleaner' = Idle
          /\ \/ UNCHANGED storedUrl
             \/ cleaner.step = "deleting" /\ storedUrl' = storedUrl \ {cleaner.url}
          /\ UNCHANGED <<migrator, purger, storedKey>>
       \/ /\ migrator # Idle /\ migrator' = Idle
          /\ \/ UNCHANGED storedUrl
             \/ migrator.step = "deleting" /\ storedUrl' = storedUrl \ {<<migrator.s, 0>>}
          /\ UNCHANGED <<cleaner, purger, storedKey>>
       \/ /\ purger # Idle /\ purger' = Idle
          /\ \/ UNCHANGED storedKey
             \/ purger.step = "deleting" /\ storedKey' = storedKey \ {purger.r}
          /\ UNCHANGED <<cleaner, migrator, storedUrl>>
    /\ UNCHANGED <<reportRow, claim, migration, keyOld, publicOwner, named, reopens>>

CleanupStep ==
    \/ \E r \in Report : claimForDeletion(r)
    \/ prepareClaimedDeletion
    \/ deleteScreenshot
    \/ completeClaimedDeletion

ReportNext ==
    \/ \E r \in Report :
        \/ Submit(r)
        \/ \E status \in {"open", "closed"} : updateStatus(r, status)
        \/ Age(r)
        \/ RetentionPicks(r)
    \/ CleanupStep
    \/ \E s \in Source : migrateAndDeleteStorageLocator(s)
    \/ MigrationDeletesSource
    \/ MigrationMarksDeleted
    \/ RetentionRemoves
    \/ markScreenshotDeleted
    \/ JobLost

ReportSpec == ReportInit /\ [][ReportNext]_reportVars /\ WF_reportVars(CleanupStep)
-----------------------------------------------------------------------------
\* A live report never shows a screenshot that has been deleted: clean-up of a
\* report that shares the object, migration of it, a lost job and a late
\* submission cannot take the object away from a row that still names it.
LiveScreenshotReadable ==
    \A r \in Report : Live(r) /\ reportRow[r].url # NoUrl => reportRow[r].url \in storedUrl

\* A public id never refers to a second report, also after the first one has
\* been deleted: the status endpoint cannot answer about a newer report.
PublicIdNeverReused ==
    \A r \in Report : Live(r) => publicOwner[reportRow[r].pub] = r

\* No screenshot is forgotten when a job dies: while an object that a report
\* named is stored, a row, an unfinished claim or a pending migration still
\* names it, so a later run finds and deletes it.
NoScreenshotForgotten ==
    /\ \A r \in storedKey \cap named : r \in Inventory
    /\ \A u \in storedUrl : u \in named \/ u[2] = 1 =>
          \/ OtherReference(u)
          \/ \E r \in Report : ReportClaimed(r) /\ claim[r].url = u /\ ~claim[r].hashed
          \/ u[2] = 0 /\ migration[u[1]] = "started"

\* A report whose text has been scrubbed is finally deleted, whatever the
\* storage answered in between.
ScrubbedIsDeleted ==
    \A r \in Report : (Live(r) /\ reportRow[r].scrubbed) ~> ~Live(r)

\* The reports' invariant: screenshots stay readable while shown and known
\* while stored, and public ids are not reused.
ReportInv == ReportTypeOK /\ LiveScreenshotReadable /\ PublicIdNeverReused /\ NoScreenshotForgotten
=============================================================================
